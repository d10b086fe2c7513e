----------------------------- MODULE GameServer -----------------------------
(***************************************************************************)
(* The web server (server/gameserver.cpp) and the page it serves           *)
(* (html/gamescreen.js, index.html): the HTTP thread, which answers one    *)
(* connection after the other and passes the events of the keys to the     *)
(* console, the websocket thread, which streams frames against             *)
(* acknowledgements, and the page, whose handlers are atomic.              *)
(*                                                                         *)
(* Abstracted: the texts of requests and responses, the requests for       *)
(* files, the pixels of a frame, and the sleeps.  The browser is external: *)
(* it sends a request over any idle connection or a new one, opens         *)
(* connections it does not need yet, and closes idle ones.  A segment of   *)
(* TCP with an acknowledgement arrives whole.  A bound: the player either  *)
(* uses the keys or watches, and only then the console finishes frames;    *)
(* what the stream and the keys share is the fate of the page.             *)
(***************************************************************************)
EXTENDS Naturals, Sequences, SequencesExt, FiniteSets, JoyPad

CONSTANTS
    KeyCodes,      \* the keys the player uses, and the on-screen buttons
    Mouse,         \* those that are also pressed with the mouse
    MaxQueue,      \* bound: the events that wait in the page
    MaxSpare,      \* bound: the connections beyond which the browser opens no spare ones
    MaxFrames,     \* the frames the buffers of TCP hold
    MaxFaults      \* bound: lost connections and reloads of the page

AckLength == 3     \* ACK_LENGTH: what the server reads for an acknowledgement
AckFrame == 7      \* what a browser sends for "r": a header, a mask and a byte
ManyAcks == 2 * AckFrame   \* so many bytes, or more: they are no longer counted

VARIABLES
    connected,     \* _connected
    keypress,      \* _keypress: the keys that are down
    busy, queue,   \* _busy, _queue
    retry,         \* is the timer of onError() running?
    socket,        \* _socket, as the browser sees it
    http,          \* the connections to the HTTP port, the first of which http() serves
    shadow,        \* m_shadow of the console's JoyPad
    ws,            \* where the websocket thread is
    whole,         \* is its connection that of the page, and alive?
    frames, acks,  \* the frames on their way to the page, and the bytes to the server
    frame,         \* has the console a frame that was not taken yet?
    playing,       \* bound: are keys used, or frames finished?
    asked,         \* history: the latest event of each key the page has accepted
    lost,          \* history: keys of which an event may be lost
    faults         \* how many faults there were

pageVars == <<connected, keypress, busy, queue, retry, socket>>
wsVars   == <<ws, whole, frames, acks, frame>>
envVars == <<playing, faults>>
vars == <<pageVars, http, shadow, wsVars, asked, lost, envVars>>

\* The codes of the keys, GameBoyInterface::JoyPadButton.
GAME_KEY_MAP ==
    [KeyA |-> 16, KeyB |-> 32, KeyF |-> 64, Space |-> 128,
     ArrowRight |-> 1, ArrowLeft |-> 2, ArrowUp |-> 4, ArrowDown |-> 8]
CodeOf(key) == GAME_KEY_MAP[key]

Events == [key : KeyCodes, down : BOOLEAN]

\* A connection to the HTTP port: what it carries, and whether the browser holds it open.
Idle == [carries |-> "nothing", open |-> TRUE]
Asking(e) == [carries |-> "request", event |-> e, open |-> TRUE]
Asks(c) == c.carries = "request"

Init ==
    /\ connected = FALSE /\ keypress = [k \in KeyCodes |-> FALSE]
    /\ busy = FALSE /\ queue = <<>> /\ retry = FALSE
    /\ socket = "connecting"
    /\ http = <<Idle>>                               \* the one that loaded the page
    /\ shadow = IdleShadow
    /\ ws = "accept" /\ whole = FALSE /\ frames = 0 /\ acks = 0 /\ frame = FALSE
    /\ asked = [k \in KeyCodes |-> FALSE] /\ lost = {}
    /\ playing \in BOOLEAN /\ faults = 0

-----------------------------------------------------------------------------
(* The page: the handlers of gamescreen.js.                                *)

\* _send(): the browser puts the request on an idle connection or on a new one.
Sends(conns, e) ==
    {[conns EXCEPT ![i] = Asking(e)] : i \in {j \in DOMAIN conns : conns[j] = Idle}}
        \cup {Append(conns, Asking(e))}

\* sendEventMessage().
SendEvent(e) ==
    IF busy THEN queue' = Append(queue, e) /\ UNCHANGED <<busy, http>>
    ELSE busy' = TRUE /\ http' \in Sends(http, e) /\ UNCHANGED queue

\* onKeyPress(): a key that repeats itself, and every key of a page that is not connected,
\* is ignored.
OnKeyPress(k, down) ==
    /\ playing /\ connected /\ keypress[k] # down
    /\ Len(queue) < MaxQueue
    /\ keypress' = [keypress EXCEPT ![k] = down]
    /\ asked' = [asked EXCEPT ![k] = down]
    /\ SendEvent([key |-> k, down |-> down])
    /\ UNCHANGED <<connected, retry, socket, shadow, wsVars, lost, envVars>>

\* sendIOEvent(): a button of the page, which does not look at _keypress.
OnMouse(k, down) ==
    /\ playing /\ connected /\ k \in Mouse
    /\ Len(queue) < MaxQueue
    /\ asked' = [asked EXCEPT ![k] = down]
    /\ SendEvent([key |-> k, down |-> down])
    /\ UNCHANGED <<connected, keypress, retry, socket, shadow, wsVars, lost, envVars>>

\* Slip: the latest event is sent first.
SendNextLast(conns) ==
    IF queue = <<>> THEN busy' = FALSE /\ http' = conns /\ UNCHANGED queue
    ELSE http' \in Sends(conns, Last(queue)) /\ queue' = Front(queue) /\ UNCHANGED busy

\* Slip: the events that wait are forgotten.
SendNextNever(conns) ==
    busy' = FALSE /\ http' = conns /\ UNCHANGED queue

\* The listener of 'loadend', which comes after success and failure alike.
SendNext(conns) ==
    IF queue = <<>> THEN busy' = FALSE /\ http' = conns /\ UNCHANGED queue
    ELSE http' \in Sends(conns, Head(queue)) /\ queue' = Tail(queue) /\ UNCHANGED busy

OnLoadEnd ==
    \E i \in DOMAIN http :
        /\ http[i].carries = "response" /\ http[i].open
        /\ SendNext([http EXCEPT ![i] = Idle])
        /\ UNCHANGED <<connected, keypress, retry, socket, shadow, wsVars, asked, lost, envVars>>

OnOpen ==
    /\ socket = "connecting" /\ whole /\ ws \notin {"accept", "handshake"}
    /\ socket' = "open" /\ connected' = TRUE
    /\ UNCHANGED <<keypress, busy, queue, retry, http, shadow, wsVars, asked, lost, envVars>>

OnMessage ==                                         \* _socket.send("r"), and the painting
    /\ socket = "open" /\ frames > 0
    /\ frames' = frames - 1
    /\ acks' = IF acks + AckFrame < ManyAcks THEN acks + AckFrame ELSE ManyAcks
    /\ UNCHANGED <<pageVars, http, shadow, ws, whole, frame, asked, lost, envVars>>

\* onClose(), and onError() before it if the browser reports one: always when the connection
\* was never opened.
OnClose ==
    /\ socket = "dropped"
    /\ socket' = "closed" /\ connected' = FALSE
    /\ retry' \in (IF connected THEN BOOLEAN ELSE {TRUE})
    /\ UNCHANGED <<keypress, busy, queue, http, shadow, wsVars, asked, lost, envVars>>

\* The timer of onError(): _init() forgets the events that wait, and the one on its way.
Reconnect ==
    /\ retry
    /\ retry' = FALSE /\ busy' = FALSE /\ queue' = <<>>
    /\ socket' = "connecting"
    /\ lost' = IF busy THEN KeyCodes ELSE lost
    /\ UNCHANGED <<connected, keypress, http, shadow, wsVars, asked, envVars>>

-----------------------------------------------------------------------------
(* The HTTP thread: http(), wait(), handleRequest(), handleEvent().        *)

HandleRequest ==
    /\ http # <<>> /\ Asks(Head(http))
    /\ LET e == Head(http).event IN
       shadow' = IF e.down THEN SetButton(shadow, CodeOf(e.key))
                 ELSE ClrButton(shadow, CodeOf(e.key))
    /\ http' = [http EXCEPT ![1] = [carries |-> "response", open |-> @.open]]
    /\ UNCHANGED <<pageVars, wsVars, asked, lost, envVars>>

\* wait() finds the connection closed: the next one is accepted.
EndConnection ==
    /\ http # <<>> /\ ~Head(http).open /\ ~Asks(Head(http))
    /\ http' = Tail(http)
    /\ UNCHANGED <<pageVars, shadow, wsVars, asked, lost, envVars>>

HttpStep == HandleRequest \/ EndConnection

-----------------------------------------------------------------------------
(* The websocket thread: websocket(), handshake(), send().                 *)

WsAccept ==
    /\ ws = "accept" /\ socket = "connecting" /\ ~whole
    /\ ws' = "handshake" /\ whole' = TRUE
    /\ frames' = 0 /\ acks' = 0
    /\ UNCHANGED <<pageVars, http, shadow, frame, asked, lost, envVars>>

WsHandshake ==
    /\ ws = "handshake"
    /\ ws' = IF whole THEN "get" ELSE "accept"
    /\ UNCHANGED <<pageVars, http, shadow, whole, frames, acks, frame, asked, lost, envVars>>

WsGet ==                                             \* getRGB(), again while it is empty
    /\ ws = "get" /\ frame
    /\ ws' = "send" /\ frame' = FALSE
    /\ UNCHANGED <<pageVars, http, shadow, whole, frames, acks, asked, lost, envVars>>

WsSend ==                                            \* a write to a lost connection may
    /\ ws = "send"                                   \* still succeed
    /\ IF whole
          THEN frames < MaxFrames /\ frames' = frames + 1 /\ ws' = "read"
          ELSE ws' \in {"read", "accept"} /\ UNCHANGED frames
    /\ UNCHANGED <<pageVars, http, shadow, whole, acks, frame, asked, lost, envVars>>

\* Slip: the end of the connection is not noticed.
WsReadOn ==
    /\ ws = "read" /\ acks > 0 /\ ws' = "get"
    /\ acks' = acks - (IF acks < AckLength THEN acks ELSE AckLength)
    /\ UNCHANGED <<pageVars, http, shadow, whole, frames, frame, asked, lost, envVars>>

WsRead ==
    /\ ws = "read"
    /\ \/ /\ acks > 0 /\ ws' = "get"
          /\ LET left == acks - (IF acks < AckLength THEN acks ELSE AckLength) IN
             acks' \in (IF whole /\ acks = ManyAcks THEN left..ManyAcks ELSE {left})
       \/ ~whole /\ ws' = "accept" /\ UNCHANGED acks
    /\ UNCHANGED <<pageVars, http, shadow, whole, frames, frame, asked, lost, envVars>>

WsStep == WsAccept \/ WsHandshake \/ WsGet \/ WsSend \/ WsRead

\* The CPU thread of the console finishes a frame (module Gpu).
Publish ==
    /\ ~playing /\ ~frame
    /\ frame' = TRUE
    /\ UNCHANGED <<pageVars, http, shadow, ws, whole, frames, acks, asked, lost, envVars>>

-----------------------------------------------------------------------------
(* The browser, the network and the player.                                *)

BrowserOpens ==
    /\ Len(http) < MaxSpare
    /\ http' = Append(http, Idle)
    /\ UNCHANGED <<pageVars, shadow, wsVars, asked, lost, envVars>>

BrowserCloses(i) ==
    /\ i \in DOMAIN http /\ http[i] = Idle
    /\ http' = [http EXCEPT ![i].open = FALSE]
    /\ UNCHANGED <<pageVars, shadow, wsVars, asked, lost, envVars>>

DropSocket ==
    /\ whole /\ faults < MaxFaults
    /\ whole' = FALSE /\ frames' = 0 /\ socket' = "dropped"
    /\ faults' = faults + 1
    /\ UNCHANGED <<connected, keypress, busy, queue, retry, http, shadow, ws, acks, frame,
                   playing, asked, lost>>

\* A connection is lost with a request, which the server may have received, or a response.
DropRequest ==
    /\ faults < MaxFaults /\ faults' = faults + 1
    /\ \E i \in DOMAIN http :
        /\ http[i].open /\ http[i] # Idle
        /\ lost' = IF Asks(http[i]) THEN lost \cup {http[i].event.key} ELSE lost
        /\ \E end \in {[http[i] EXCEPT !.open = FALSE], [Idle EXCEPT !.open = FALSE]} :
            SendNext([http EXCEPT ![i] = end])
    /\ UNCHANGED <<connected, keypress, retry, socket, shadow, wsVars, asked, playing>>

\* The player reloads the page: a GameScreen is made anew, and the requests on their way
\* are abandoned.
Reload ==
    /\ faults < MaxFaults /\ faults' = faults + 1
    /\ connected' = FALSE /\ keypress' = [k \in KeyCodes |-> FALSE]
    /\ busy' = FALSE /\ queue' = <<>> /\ retry' = FALSE
    /\ socket' = "connecting" /\ whole' = FALSE /\ frames' = 0
    /\ http' = [i \in DOMAIN http |->
                   IF http[i] = Idle THEN Idle ELSE [http[i] EXCEPT !.open = FALSE]]
    /\ asked' = [k \in KeyCodes |-> FALSE]
    /\ lost' = IF busy THEN KeyCodes ELSE lost \cup {k \in KeyCodes : asked[k]}
    /\ UNCHANGED <<shadow, ws, acks, frame, playing>>

-----------------------------------------------------------------------------
Next ==
    \/ \E k \in KeyCodes, down \in BOOLEAN : OnKeyPress(k, down) \/ OnMouse(k, down)
    \/ OnLoadEnd \/ OnOpen \/ OnMessage \/ OnClose \/ Reconnect
    \/ HttpStep \/ WsStep \/ Publish
    \/ BrowserOpens \/ \E i \in DOMAIN http : BrowserCloses(i)
    \/ DropSocket \/ DropRequest \/ Reload

\* The threads of the server and the page run, the console draws, the browser reports what
\* has happened, and it closes a connection that stays idle.  Nothing obliges the player to
\* press a key or a connection to be lost.
Fairness ==
    /\ WF_vars(HttpStep) /\ WF_vars(WsStep) /\ WF_vars(Publish)
    /\ WF_vars(OnLoadEnd) /\ WF_vars(OnOpen) /\ WF_vars(OnMessage)
    /\ WF_vars(OnClose) /\ WF_vars(Reconnect)
    /\ WF_vars(BrowserCloses(1))

Spec == Init /\ [][Next]_vars /\ Fairness

-----------------------------------------------------------------------------
(* Properties                                                              *)

\* The events of a key that wait in the page, and those the server has not handled yet.
Waiting(k) == {i \in DOMAIN queue : queue[i].key = k}
OnTheWay(k) == {i \in DOMAIN http : Asks(http[i]) /\ http[i].event.key = k}

\* What the game reads for a key is what the player last did with it, as soon as the events
\* on their way have arrived: none is lost, repeated or overtaken (_busy and _queue of the
\* page, handleEvent(), JoyPad).
KeysInOrder ==
    \A k \in KeyCodes \ lost :
        /\ \A i \in Waiting(k) : (\A j \in Waiting(k) : j <= i) => queue[i].down = asked[k]
        /\ Waiting(k) = {} => \A i \in OnTheWay(k) : http[i].event.down = asked[k]
        /\ Waiting(k) = {} /\ OnTheWay(k) = {} => Pressed(shadow, CodeOf(k)) = asked[k]

\* They do arrive, whatever connections the browser opens and closes and although http()
\* serves one of them at a time, and although the request before was lost.
KeysArrive ==
    \A k \in KeyCodes, d \in BOOLEAN :
        asked[k] = d ~> Pressed(shadow, CodeOf(k)) = d \/ asked[k] # d \/ k \in lost

\* A page that connects, or is connected, receives frame after frame: the server does not wait
\* for ever for an acknowledgement, nor for room in a buffer whose frames the page waits for in
\* its turn, and the page before a reload is given up (websocket(), send()).
StreamFlows ==
    \/ []<><<OnMessage>>_vars
    \/ []<>(socket \in {"dropped", "closed"} \/ playing)

-----------------------------------------------------------------------------
(* What the code does not keep, see the README.                            *)

\* A client that does not keep up is not sent more frames.
WaitsForClient == frames <= 1

\* A page that lost its connection connects again.
PageReconnects == socket = "closed" ~> socket # "closed"

\* Of a page that was loaded anew no key stays down.
NoStuckKey == \A k \in KeyCodes : asked[k] = FALSE ~> ~Pressed(shadow, CodeOf(k)) \/ asked[k]
=============================================================================
