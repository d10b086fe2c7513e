----------------------------- MODULE SerialLink -----------------------------
(***************************************************************************)
(* Two consoles joined by a SocketLink (consolelink.cpp and                *)
(* serial/socketlink_linux.cpp): on each, the CPU thread, where the game   *)
(* starts transfers and ConsoleLink::check() finishes them, and the link   *)
(* thread, which exchanges one byte at a time with the peer over TCP.  A   *)
(* console may leave and come back as a new process, and its link may be   *)
(* stopped.                                                                *)
(*                                                                         *)
(* Abstracted: the ticks between a transfer and its check(), the sleeps of *)
(* the polling loops, and the bytes, each named by the number of the       *)
(* transfer that sent it.  TCP is external: an ordered stream each way, a  *)
(* read that ends when the other end is closed, an accept queue, and a     *)
(* client socket that cannot be connected twice.                           *)
(* A console that has no link at all is not modelled: it stores SC as      *)
(* written, and nothing ever clears the transfer bit.                      *)
(***************************************************************************)
EXTENDS Naturals, Sequences, SequencesExt

CONSTANTS
    MaxTransfers,   \* bound: the transfers a process makes over the link
    MaxQuits,       \* bound: how often a process leaves and comes back
    Impatient,      \* the consoles whose game may write SC while a transfer is in progress
    Stops           \* the consoles whose link may be stopped

Consoles == {"server", "client"}
Peer(c) == IF c = "server" THEN "client" ELSE "server"

ASSUME SerialLinkAssumption ==
    /\ MaxTransfers \in Nat /\ MaxQuits \in Nat
    /\ Impatient \subseteq Consoles /\ Stops \subseteq Consoles

VARIABLES
    cpu,         \* where the CPU thread is
    state,       \* m_state
    busy,        \* LINK_TRANSFER in the SC register: a transfer is in progress
    begun,       \* the transfers begun over the link, and the byte of the latest
    answer,      \* the byte the latest finished transfer received, 0 before any
    txReady, txData, rxReady, rxData,   \* m_queue
    connected,   \* m_connected
    link,        \* where the link thread is
    alive,       \* is the other end of the connection of this console open?
    inbox,       \* the bytes on their way to this console on that connection
    backlog,     \* the connections the server has not accepted yet
    used,        \* has the client's socket been connected?
    stopping,    \* has stop() been called?
    quits,       \* how often a process has left
    disturbed    \* history: a transfer was restarted, a connection lost, a link stopped

cpuVars  == <<cpu, state, busy, begun, answer>>
slotVars == <<txReady, txData, rxReady, rxData>>
netVars  == <<alive, inbox, backlog, used>>
envVars  == <<stopping, quits>>
vars == <<cpuVars, slotVars, connected, link, netVars, envVars, disturbed>>

CpuLabels  == {"run", "data", "ready", "pending", "take", "finish", "exited"}
LinkLabels == {"down", "idle", "send", "recv", "fill", "cancelled"}
LinkStates == {"IDLE", "PENDING", "DISCONNECTED", "SIM_RESPONSE"}

\* The two constructors, and initServer() or initClient().
Init ==
    /\ cpu = [c \in Consoles |-> "run"] /\ link = [c \in Consoles |-> "down"]
    /\ state = [c \in Consoles |-> "DISCONNECTED"]
    /\ busy = [c \in Consoles |-> FALSE] /\ connected = [c \in Consoles |-> FALSE]
    /\ begun = [c \in Consoles |-> 0] /\ answer = [c \in Consoles |-> 0]
    /\ txReady = [c \in Consoles |-> FALSE] /\ txData = [c \in Consoles |-> 0]
    /\ rxReady = [c \in Consoles |-> FALSE] /\ rxData = [c \in Consoles |-> 0]
    /\ alive = [c \in Consoles |-> FALSE] /\ inbox = [c \in Consoles |-> <<>>]
    /\ backlog = <<>> /\ used = FALSE
    /\ stopping = [c \in Consoles |-> FALSE] /\ quits = 0 /\ disturbed = FALSE

-----------------------------------------------------------------------------
(* The CPU thread: transfer(), cycle(), check(), handlePending().          *)

\* Has check() an answer to give?
InProgress(c) == state[c] \in {"PENDING", "SIM_RESPONSE"}

\* The game writes SC with the transfer bit: transfer() up to its test of m_connected.
Transfer(c) ==
    /\ cpu[c] = "run"
    /\ begun[c] < MaxTransfers
    /\ InProgress(c) => c \in Impatient
    /\ busy' = [busy EXCEPT ![c] = TRUE]
    /\ disturbed' = (disturbed \/ InProgress(c))
    /\ IF connected[c]
          THEN /\ state' = [state EXCEPT ![c] = "PENDING"]
               /\ cpu' = [cpu EXCEPT ![c] = "data"]
               /\ begun' = [begun EXCEPT ![c] = @ + 1]
          ELSE /\ state' = [state EXCEPT ![c] = "SIM_RESPONSE"]
               /\ UNCHANGED <<cpu, begun>>
    /\ UNCHANGED <<answer, slotVars, connected, link, netVars, envVars>>

\* The game writes SC without the transfer bit: the bit is gone and the transfer goes on.
Withdraw(c) ==
    /\ cpu[c] = "run" /\ busy[c] /\ c \in Impatient
    /\ busy' = [busy EXCEPT ![c] = FALSE]
    /\ UNCHANGED <<cpu, state, begun, answer, slotVars, connected, link, netVars, envVars,
                   disturbed>>

OfferData(c) ==                                      \* m_queue.tx.data.store()
    /\ cpu[c] = "data"
    /\ cpu' = [cpu EXCEPT ![c] = "ready"]
    /\ txData' = [txData EXCEPT ![c] = begun[c]]
    /\ UNCHANGED <<state, busy, begun, answer, txReady, rxReady, rxData, connected, link,
                   netVars, envVars, disturbed>>

OfferReady(c) ==                                     \* m_queue.tx.ready.store(true)
    /\ cpu[c] = "ready"
    /\ cpu' = [cpu EXCEPT ![c] = "run"]
    /\ txReady' = [txReady EXCEPT ![c] = TRUE]
    /\ UNCHANGED <<state, busy, begun, answer, txData, rxReady, rxData, connected, link,
                   netVars, envVars, disturbed>>

\* check(): a simulated response, 0xFF, finishes at once; a pending one waits.
Check(c) ==
    /\ cpu[c] = "run"
    /\ \/ /\ state[c] = "SIM_RESPONSE"
          /\ state' = [state EXCEPT ![c] = "DISCONNECTED"]
          /\ busy' = [busy EXCEPT ![c] = FALSE]
          /\ UNCHANGED cpu
       \/ /\ state[c] = "PENDING"
          /\ cpu' = [cpu EXCEPT ![c] = "pending"]
          /\ UNCHANGED <<state, busy>>
    /\ UNCHANGED <<begun, answer, slotVars, connected, link, netVars, envVars, disturbed>>

\* Slip: the loop does not look at m_connected.
AwaitReady(c) ==
    /\ cpu[c] = "pending"
    /\ rxReady[c]
    /\ cpu' = [cpu EXCEPT ![c] = "take"]
    /\ UNCHANGED <<state, busy, begun, answer, slotVars, connected, link, netVars, envVars,
                   disturbed>>

\* Slip: "if" for "while": nothing is waited for.
AwaitNothing(c) ==
    /\ cpu[c] = "pending"
    /\ cpu' = [cpu EXCEPT ![c] = "take"]
    /\ UNCHANGED <<state, busy, begun, answer, slotVars, connected, link, netVars, envVars,
                   disturbed>>

Await(c) ==                                          \* handlePending(): the loop ends
    /\ cpu[c] = "pending"
    /\ rxReady[c] \/ ~connected[c]
    /\ cpu' = [cpu EXCEPT ![c] = "take"]
    /\ UNCHANGED <<state, busy, begun, answer, slotVars, connected, link, netVars, envVars,
                   disturbed>>

Take(c) ==                                           \* m_queue.rx.ready.store(false)
    /\ cpu[c] = "take"
    /\ cpu' = [cpu EXCEPT ![c] = "finish"]
    /\ rxReady' = [rxReady EXCEPT ![c] = FALSE]
    /\ UNCHANGED <<state, busy, begun, answer, txReady, txData, rxData, connected, link,
                   netVars, envVars, disturbed>>

\* Slip: finishTransfer() leaves the transfer bit of SC set.
FinishBusy(c) ==
    /\ cpu[c] = "finish"
    /\ cpu' = [cpu EXCEPT ![c] = "run"]
    /\ answer' = [answer EXCEPT ![c] = rxData[c]]
    /\ state' = [state EXCEPT ![c] = "IDLE"]
    /\ UNCHANGED <<busy, begun, slotVars, connected, link, netVars, envVars, disturbed>>

Finish(c) ==                                         \* finishTransfer(m_queue.rx.data)
    /\ cpu[c] = "finish"
    /\ cpu' = [cpu EXCEPT ![c] = "run"]
    /\ answer' = [answer EXCEPT ![c] = rxData[c]]
    /\ busy' = [busy EXCEPT ![c] = FALSE]
    /\ state' = [state EXCEPT ![c] = "IDLE"]
    /\ UNCHANGED <<begun, slotVars, connected, link, netVars, envVars, disturbed>>

CpuExit(c) ==                                        \* GameBoy::run(): m_runCpu is false
    /\ cpu[c] = "run" /\ stopping[c]
    /\ cpu' = [cpu EXCEPT ![c] = "exited"]
    /\ UNCHANGED <<state, busy, begun, answer, slotVars, connected, link, netVars, envVars,
                   disturbed>>

CpuStep(c) ==
    OfferData(c) \/ OfferReady(c) \/ Check(c) \/ Await(c) \/ Take(c) \/ Finish(c) \/ CpuExit(c)

-----------------------------------------------------------------------------
(* The link thread: executeServer() or executeClient(), and serverLoop().  *)

\* The client's connection is still in the accept queue of the server.
Queued == backlog # <<>> /\ Last(backlog).alive

Accept ==                                            \* executeServer(): accept()
    /\ link["server"] = "down" /\ backlog # <<>>
    /\ link' = [link EXCEPT !["server"] = "idle"]
    /\ connected' = [connected EXCEPT !["server"] = TRUE]
    /\ alive' = [alive EXCEPT !["server"] = Head(backlog).alive]
    /\ inbox' = [inbox EXCEPT !["server"] = Head(backlog).sent]
    /\ backlog' = Tail(backlog)
    /\ UNCHANGED <<cpuVars, slotVars, used, envVars, disturbed>>

Connect ==                                           \* executeClient(): connect()
    /\ link["client"] = "down" /\ ~used /\ ~stopping["server"]
    /\ link' = [link EXCEPT !["client"] = "idle"]
    /\ connected' = [connected EXCEPT !["client"] = TRUE]
    /\ alive' = [alive EXCEPT !["client"] = TRUE]
    /\ backlog' = Append(backlog, [sent |-> <<>>, alive |-> TRUE])
    /\ used' = TRUE
    /\ UNCHANGED <<cpuVars, slotVars, inbox, envVars, disturbed>>

LinkTake(c) ==                                       \* m_queue.tx.ready.store(false)
    /\ link[c] = "idle"
    /\ txReady[c] /\ ~rxReady[c]
    /\ link' = [link EXCEPT ![c] = "send"]
    /\ txReady' = [txReady EXCEPT ![c] = FALSE]
    /\ UNCHANGED <<cpuVars, txData, rxReady, rxData, connected, netVars, envVars, disturbed>>

LinkSend(c) ==                                       \* wr(m_queue.tx.data); a first write to
    /\ link[c] = "send"                              \* a closed connection may succeed, too
    /\ link' = [link EXCEPT ![c] = "recv"]
    /\ IF ~alive[c] THEN UNCHANGED <<inbox, backlog>>
       ELSE IF c = "client" /\ Queued
       THEN /\ backlog' = [backlog EXCEPT ![Len(backlog)].sent = Append(@, txData[c])]
            /\ UNCHANGED inbox
       ELSE /\ inbox' = [inbox EXCEPT ![Peer(c)] = Append(@, txData[c])]
            /\ UNCHANGED backlog
    /\ UNCHANGED <<cpuVars, slotVars, connected, alive, used, envVars, disturbed>>

LinkRecv(c) ==                                       \* rd(), m_queue.rx.data.store()
    /\ link[c] = "recv" /\ inbox[c] # <<>>
    /\ link' = [link EXCEPT ![c] = "fill"]
    /\ inbox' = [inbox EXCEPT ![c] = Tail(@)]
    /\ rxData' = [rxData EXCEPT ![c] = Head(inbox[c])]
    /\ UNCHANGED <<cpuVars, txReady, txData, rxReady, connected, alive, backlog, used, envVars,
                   disturbed>>

\* Slip: the received byte is not announced.
LinkFillSilent(c) ==
    /\ link[c] = "fill"
    /\ link' = [link EXCEPT ![c] = "idle"]
    /\ UNCHANGED <<cpuVars, slotVars, connected, netVars, envVars, disturbed>>

LinkFill(c) ==                                       \* m_queue.rx.ready.store(true)
    /\ link[c] = "fill"
    /\ link' = [link EXCEPT ![c] = "idle"]
    /\ rxReady' = [rxReady EXCEPT ![c] = TRUE]
    /\ UNCHANGED <<cpuVars, txReady, txData, rxData, connected, netVars, envVars, disturbed>>

\* wr() or rd() fails, m_connected becomes false and the loop of accept() or connect() goes
\* on; what the lost connection still held is gone with it.
LinkLost(c) ==
    /\ ~alive[c]
    /\ (link[c] = "send" \/ (link[c] = "recv" /\ inbox[c] = <<>>))
    /\ link' = [link EXCEPT ![c] = "down"]
    /\ connected' = [connected EXCEPT ![c] = FALSE]
    /\ inbox' = [inbox EXCEPT ![c] = <<>>]
    /\ disturbed' = TRUE
    /\ UNCHANGED <<cpuVars, slotVars, alive, backlog, used, envVars>>

\* stop(thread): pthread_cancel() acts in accept(), connect(), read(), write() and sleep_for().
LinkCancelled(c) ==
    /\ stopping[c] /\ link[c] \in {"down", "idle", "send", "recv"}
    /\ link' = [link EXCEPT ![c] = "cancelled"]
    /\ UNCHANGED <<cpuVars, slotVars, connected, netVars, envVars, disturbed>>

LinkStep(c) ==
    \/ c = "server" /\ Accept
    \/ c = "client" /\ Connect
    \/ LinkTake(c) \/ LinkSend(c) \/ LinkRecv(c) \/ LinkFill(c) \/ LinkLost(c)
    \/ LinkCancelled(c)

-----------------------------------------------------------------------------
(* What happens to a console: GameBoy::stop(), and the end of its process. *)

\* The client's socket is closed: the connection, where it is now, has lost an end.
ClientCloses ==
    IF Queued
       THEN /\ backlog' = [backlog EXCEPT ![Len(backlog)].alive = FALSE]
            /\ UNCHANGED alive
       ELSE alive' = [c \in Consoles |-> FALSE] /\ UNCHANGED backlog

\* SocketLink::stop() closes m_socket and cancels the thread: for a client that is the
\* connection, for a server the listening socket, and m_connection stays open.
Stop(c) ==
    /\ c \in Stops /\ ~stopping[c]
    /\ stopping' = [stopping EXCEPT ![c] = TRUE]
    /\ IF c = "client"
          THEN ClientCloses
          ELSE /\ alive' = [alive EXCEPT !["client"] = @ /\ ~Queued]
               /\ backlog' = <<>>
    /\ disturbed' = TRUE
    /\ UNCHANGED <<cpuVars, slotVars, connected, link, inbox, used, quits>>

\* The process of a console ends, its sockets are closed, and a new one starts afresh.
Quit(c) ==
    /\ quits < MaxQuits /\ ~stopping[c]
    /\ quits' = quits + 1
    /\ cpu' = [cpu EXCEPT ![c] = "run"] /\ link' = [link EXCEPT ![c] = "down"]
    /\ state' = [state EXCEPT ![c] = "DISCONNECTED"]
    /\ busy' = [busy EXCEPT ![c] = FALSE] /\ connected' = [connected EXCEPT ![c] = FALSE]
    /\ begun' = [begun EXCEPT ![c] = 0] /\ answer' = [answer EXCEPT ![c] = 0]
    /\ txReady' = [txReady EXCEPT ![c] = FALSE] /\ txData' = [txData EXCEPT ![c] = 0]
    /\ rxReady' = [rxReady EXCEPT ![c] = FALSE] /\ rxData' = [rxData EXCEPT ![c] = 0]
    /\ IF c = "client"
          THEN ClientCloses /\ used' = FALSE
          ELSE alive' = [d \in Consoles |-> FALSE] /\ backlog' = <<>> /\ used' = used
    /\ inbox' = [inbox EXCEPT ![c] = <<>>]
    /\ disturbed' = TRUE
    /\ UNCHANGED stopping

-----------------------------------------------------------------------------
Next ==
    \E c \in Consoles :
        Transfer(c) \/ Withdraw(c) \/ CpuStep(c) \/ LinkStep(c) \/ Stop(c) \/ Quit(c)

Spec == Init /\ [][Next]_vars

\* Every thread runs, and the CPU thread tests m_runCpu after every instruction; nothing
\* obliges a game to start a transfer, a user to stop a link or a process to leave.
Fairness ==
    \A c \in Consoles :
        WF_vars(CpuStep(c)) /\ SF_vars(CpuExit(c)) /\ WF_vars(LinkStep(c))

FairSpec == Spec /\ Fairness

-----------------------------------------------------------------------------
(* Properties                                                              *)

Bytes == 0..MaxTransfers

\* Every variable has the type its declaration gives it.
TypeOK ==
    /\ cpu \in [Consoles -> CpuLabels] /\ link \in [Consoles -> LinkLabels]
    /\ state \in [Consoles -> LinkStates]
    /\ begun \in [Consoles -> Bytes] /\ answer \in [Consoles -> Bytes]
    /\ txData \in [Consoles -> Bytes] /\ rxData \in [Consoles -> Bytes]
    /\ {busy, txReady, rxReady, connected, alive, stopping} \subseteq [Consoles -> BOOLEAN]
    /\ \A c \in Consoles : inbox[c] \in Seq(Bytes)
    /\ backlog \in Seq([sent : Seq(Bytes), alive : BOOLEAN])
    /\ used \in BOOLEAN /\ quits \in 0..MaxQuits /\ disturbed \in BOOLEAN

\* The transfer bit of SC, which games poll, is set only while check() has an answer to give,
\* after which finishTransfer() clears it: through restarts, transfers whose bit the game
\* itself took back, simulated responses and lost connections no console polls a bit that
\* nobody will clear.
BusyWhileInProgress == \A c \in Consoles : busy[c] => InProgress(c)

\* A byte received and announced is not overwritten before the CPU thread has read it.
NothingOverwritten ==
    ~disturbed => \A c \in Consoles : link[c] = "fill" => ~rxReady[c] /\ cpu[c] # "finish"

\* A transfer whose counterpart the peer has begun comes to its end, and with it the loop of
\* handlePending() that blocks the CPU thread.
ExchangeCompletes ==
    \A c \in Consoles :
        state[c] = "PENDING" /\ begun[Peer(c)] >= begun[c] ~> state[c] # "PENDING" \/ disturbed

\* The link thread has still to send the byte of a transfer or to read its answer.
Serving(c) == txReady[c] \/ link[c] \in {"send", "recv"}

\* A CPU thread blocked in handlePending() for a transfer the link thread is at is freed when
\* the connection is lost, as often as it is lost, unless another client waits at the server:
\* accepted before the loop looks at m_connected, its connection hides the loss.
DropFrees ==
    \A c \in Consoles :
        cpu[c] = "pending" /\ ~alive[c] /\ Serving(c) ~>
            cpu[c] # "pending" \/ stopping[c] \/ (c = "server" /\ backlog # <<>>)

\* The same without these two conditions.  It fails after two losses: with a new connection
\* between two polls of m_connected the link thread waits for a next byte to send, does not
\* touch the socket, and so does not notice when this connection is lost, too.
EveryDropFrees ==
    \A c \in Consoles :
        cpu[c] = "pending" /\ ~alive[c] ~> cpu[c] # "pending" \/ alive[c] \/ stopping[c]

\* Between consoles that are not disturbed the link is a serial exchange of bytes.
Exchange == INSTANCE SerialExchange WITH answers <- answer
ImplementsExchange == Exchange!Spec

\* GameBoy::stop() relies on the CPU thread coming to its end: "Make sure that the CPU
\* thread has stopped and exited before attempting to stop the timer thread".
StopEndsCpu == \A c \in Consoles : stopping[c] ~> cpu[c] = "exited"
=============================================================================
