------------------------------- MODULE JoyPad -------------------------------
(***************************************************************************)
(* The buttons of a console (hardware/joypad.cpp): two shadow nibbles, one *)
(* for the directions and one for the buttons proper, that the front ends  *)
(* change, and the register the game reads, which shows the nibble of the  *)
(* group the game has selected.  A clear bit is a pressed button.  A       *)
(* button is its code, a GameBoyInterface::JoyPadButton.                   *)
(***************************************************************************)
EXTENDS Naturals, Sequences

ButtonsIdle == 15                        \* BUTTONS_IDLE
ShadowDirs == 16                         \* SHADOW_DIRS
ShadowButtons == 32                      \* SHADOW_BUTTONS

\* JoyPad::JoyPad(): nothing is pressed.
IdleShadow == <<ButtonsIdle, ButtonsIdle>>

\* BUTTON_MAP and SHADOW_MAP: the nibble of a button, and its bit there.
ShadowOf(button) == IF button < ShadowDirs THEN 1 ELSE 2
BitOf(button) == IF button < ShadowDirs THEN button ELSE button \div 16

IsSet(byte, bit) == byte \div bit % 2 = 1

\* JoyPad::set() and clr(), each one atomic operation on its nibble.
SetButton(shadow, button) ==
    LET bit == BitOf(button) IN
    [shadow EXCEPT ![ShadowOf(button)] = IF IsSet(@, bit) THEN @ - bit ELSE @]
ClrButton(shadow, button) ==
    LET bit == BitOf(button) IN
    [shadow EXCEPT ![ShadowOf(button)] = IF IsSet(@, bit) THEN @ ELSE @ + bit]

\* JoyPad::cycle(): what a game reads that has written the selection to the register; of
\* two selected groups the directions win.
Register(shadow, select) ==
    select + (IF ~IsSet(select, ShadowDirs) THEN shadow[1]
              ELSE IF ~IsSet(select, ShadowButtons) THEN shadow[2]
              ELSE ButtonsIdle)

\* A game that selects the group of the button alone, to read it.
SelectFor(button) == 48 - 16 * ShadowOf(button)

\* Is the button pressed, as the game sees it?
Pressed(shadow, button) == ~IsSet(Register(shadow, SelectFor(button)), BitOf(button))
=============================================================================
