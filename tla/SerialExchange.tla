--------------------------- MODULE SerialExchange ---------------------------
(***************************************************************************)
(* What a serial link between two consoles promises to their games: the    *)
(* n-th transfer of one console exchanges a byte with the n-th transfer of  *)
(* the other.  A transfer is identified with the byte it sends.  The link  *)
(* promises this until it is disturbed: a transfer started over another, a *)
(* connection lost, a link stopped.                                        *)
(***************************************************************************)
EXTENDS Naturals

CONSTANTS Consoles, Peer(_)

VARIABLES
    begun,     \* the transfers each console has begun
    answers,   \* the bytes each console has received in answer, as the number
               \* of the transfer of the peer that sent it
    disturbed  \* has the link been disturbed?

vars == <<begun, answers, disturbed>>

Init ==
    /\ begun = [c \in Consoles |-> 0]
    /\ answers = [c \in Consoles |-> 0]
    /\ disturbed = FALSE

\* A console begins a transfer when the one before it has been answered.
Begin(c) ==
    /\ begun[c] = answers[c]
    /\ begun' = [begun EXCEPT ![c] = @ + 1]
    /\ UNCHANGED <<answers, disturbed>>

\* It is answered with the byte of the peer's transfer of the same number.
Answer(c) ==
    /\ answers[c] < begun[c]
    /\ begun[Peer(c)] >= begun[c]
    /\ answers' = [answers EXCEPT ![c] = begun[c]]
    /\ UNCHANGED <<begun, disturbed>>

Next ==
    \/ ~disturbed /\ \E c \in Consoles : Begin(c) \/ Answer(c)
    \/ disturbed'                  \* nothing is promised from then on

Spec == Init /\ [][Next]_vars
=============================================================================
