------------------------- MODULE SerialLink_proofs --------------------------
(***************************************************************************)
(* The safety of the serial link, for any number of transfers and restarts, *)
(* and that it implements the abstract exchange.                           *)
(*                                                                         *)
(* The argument follows a byte through the stages of SocketLink: offered   *)
(* in m_queue.tx, written by the link thread, on the connection, read by   *)
(* the peer's link thread, announced in m_queue.rx, taken by check().      *)
(* Until the link is disturbed a console has at most one transfer on its   *)
(* way through them (Stage), and what is on a connection is exactly what   *)
(* one console has sent and the other has not received, in order           *)
(* (Carries).  From the first disturbance on only the types, and that the  *)
(* transfer bit is set only for a transfer in progress, are left.          *)
(***************************************************************************)
EXTENDS SerialLink, SequenceTheorems, TLAPS

\* The types, in groups that actions disturb separately.

LabelsOK ==
    /\ cpu \in [Consoles -> CpuLabels] /\ link \in [Consoles -> LinkLabels]
    /\ state \in [Consoles -> LinkStates]
NumbersOK ==
    /\ begun \in [Consoles -> Bytes] /\ answer \in [Consoles -> Bytes]
    /\ txData \in [Consoles -> Bytes] /\ rxData \in [Consoles -> Bytes]
    /\ quits \in 0..MaxQuits
FlagsOK ==
    /\ busy \in [Consoles -> BOOLEAN] /\ connected \in [Consoles -> BOOLEAN]
    /\ txReady \in [Consoles -> BOOLEAN] /\ rxReady \in [Consoles -> BOOLEAN]
    /\ alive \in [Consoles -> BOOLEAN] /\ stopping \in [Consoles -> BOOLEAN]
    /\ used \in BOOLEAN /\ disturbed \in BOOLEAN
Connections == [sent : Seq(Bytes), alive : BOOLEAN]
NetOK == inbox \in [Consoles -> Seq(Bytes)] /\ backlog \in Seq(Connections)

\* The four ways a transfer in progress can stand: being offered, with the link thread,
\* announced, taken.
Stage(c) ==
    \/ /\ cpu[c] \in {"data", "ready"} /\ link[c] = "idle" /\ ~txReady[c] /\ ~rxReady[c]
       /\ cpu[c] = "ready" => txData[c] = begun[c]
    \/ /\ cpu[c] \in {"run", "pending"} /\ ~rxReady[c]
       /\ \/ link[c] = "idle" /\ txReady[c] /\ txData[c] = begun[c]
          \/ link[c] = "send" /\ ~txReady[c] /\ txData[c] = begun[c]
          \/ link[c] = "recv" /\ ~txReady[c]
          \/ link[c] = "fill" /\ ~txReady[c] /\ rxData[c] = begun[c]
    \/ /\ cpu[c] \in {"run", "pending", "take"} /\ link[c] = "idle"
       /\ ~txReady[c] /\ rxReady[c] /\ rxData[c] = begun[c]
    \/ /\ cpu[c] = "finish" /\ link[c] = "idle"
       /\ ~txReady[c] /\ ~rxReady[c] /\ rxData[c] = begun[c]

\* A console has one transfer in progress, or none and nothing left of the one before.
PipeInv(c) ==
    IF state[c] = "PENDING"
       THEN Stage(c) /\ connected[c] /\ begun[c] = answer[c] + 1
       ELSE /\ cpu[c] = "run" /\ link[c] \in {"down", "idle"} /\ ~txReady[c] /\ ~rxReady[c]
            /\ begun[c] = answer[c]

\* How many bytes a console has written to its connection, and how many it has read.
Sent(c) ==
    IF state[c] = "PENDING" /\ (cpu[c] \in {"data", "ready"} \/ txReady[c] \/ link[c] = "send")
       THEN answer[c] ELSE begun[c]
Got(c) ==
    IF state[c] = "PENDING" /\ link[c] # "fill" /\ ~rxReady[c] /\ cpu[c] # "finish"
       THEN answer[c] ELSE begun[c]

\* The queue holds the bytes that were sent and not yet got, in order.
Carries(q, got, sent) == /\ Len(q) = sent - got /\ \A i \in 1..Len(q) : q[i] = got + i

\* The client's connection is accepted, or waits in the accept queue.
NetInv ==
    /\ \A c \in Consoles : /\ ~stopping[c] /\ (connected[c] <=> link[c] # "down")
                           /\ connected[c] => alive[c]
    /\ connected["client"] <=> used
    /\ \/ backlog = <<>> /\ (connected["server"] <=> used)
       \/ Len(backlog) = 1 /\ backlog[1].alive /\ used /\ ~connected["server"]
    /\ ~connected["server"] => inbox["server"] = <<>>

\* The bytes on their way to a console, in the accept queue too.
Incoming(c) == IF c = "server" /\ backlog # <<>> THEN backlog[1].sent ELSE inbox[c]
Running ==
    /\ NetInv
    /\ \A c \in Consoles : PipeInv(c) /\ Carries(Incoming(c), Got(c), Sent(Peer(c)))

TypeInv == LabelsOK /\ NumbersOK /\ FlagsOK /\ NetOK
Inv == TypeInv /\ (~disturbed => Running)

-----------------------------------------------------------------------------
(* The types.                                                              *)

\* A byte, named by the number of its transfer, is a number.
LEMMA AreNumbers ==
    ASSUME NumbersOK
    PROVE  \A c \in Consoles : /\ begun[c] \in Nat /\ answer[c] \in Nat
                               /\ txData[c] \in Nat /\ rxData[c] \in Nat
  BY SerialLinkAssumption DEF NumbersOK, Bytes

\* Every step keeps the labels of the threads and the states of the links.
LEMMA LabelsNext ==
    ASSUME LabelsOK, [Next]_vars
    PROVE  LabelsOK'
<1> USE DEF LabelsOK, CpuLabels, LinkLabels, LinkStates, cpuVars, slotVars, netVars, envVars
<1>1. ASSUME NEW c \in Consoles, Transfer(c) \/ Withdraw(c) PROVE LabelsOK'
  BY <1>1 DEF Transfer, Withdraw
<1>2. ASSUME NEW c \in Consoles, CpuStep(c) PROVE LabelsOK'
  BY <1>2 DEF CpuStep, OfferData, OfferReady, Check, Await, Take, Finish, CpuExit
<1>3. ASSUME NEW c \in Consoles, LinkStep(c) PROVE LabelsOK'
  BY <1>3 DEF LinkStep, LinkTake, LinkFill, LinkCancelled, Accept, Connect, LinkSend, LinkRecv,
     LinkLost
<1>9. ASSUME NEW c \in Consoles, Stop(c) \/ Quit(c) PROVE LabelsOK'
  BY <1>9 DEF Stop, ClientCloses, Quit
<1>11. CASE UNCHANGED vars
  BY <1>11 DEF vars
<1>12. QED
  BY <1>1, <1>2, <1>3, <1>9, <1>11 DEF Next

\* Every step keeps the bytes and counters within their bounds.
LEMMA NumbersNext ==
    ASSUME LabelsOK, NumbersOK, NetOK, [Next]_vars
    PROVE  NumbersOK'
<1> USE DEF NumbersOK, cpuVars, slotVars, netVars, envVars
<1>0. 0 \in Bytes
  BY SerialLinkAssumption DEF Bytes
<1>1. ASSUME NEW c \in Consoles, Transfer(c) PROVE NumbersOK'
  <2>1. begun[c] + 1 \in Bytes
    BY <1>1, SerialLinkAssumption DEF Transfer, Bytes
  <2>2. begun' \in [Consoles -> Bytes]
    BY <1>1, <2>1 DEF Transfer
  <2>3. QED
    BY <1>1, <2>2 DEF Transfer
<1>2. ASSUME NEW c \in Consoles, CpuStep(c) PROVE NumbersOK'
  BY <1>2 DEF CpuStep, OfferData, OfferReady, Check, Await, Take, Finish, CpuExit
<1>3. ASSUME NEW c \in Consoles, LinkRecv(c) PROVE NumbersOK'
  <2>1. inbox[c] \in Seq(Bytes) /\ inbox[c] # <<>>
    BY <1>3 DEF LinkRecv, NetOK
  <2>2. Head(inbox[c]) \in Bytes
    BY <2>1, HeadTailProperties
  <2>3. rxData' = [rxData EXCEPT ![c] = Head(inbox[c])]
        /\ UNCHANGED <<begun, answer, txData, quits>>
    BY <1>3 DEF LinkRecv
  <2>4. rxData' \in [Consoles -> Bytes]
    BY <2>2, <2>3
  <2>5. QED
    BY <2>3, <2>4
<1>4. ASSUME NEW c \in Consoles, LinkStep(c), ~LinkRecv(c) PROVE NumbersOK'
  BY <1>4 DEF LinkStep, LinkTake, LinkFill, LinkCancelled, Accept, Connect, LinkSend, LinkLost
<1>9. ASSUME NEW c \in Consoles, Withdraw(c) \/ Stop(c) PROVE NumbersOK'
  BY <1>9 DEF Withdraw, Stop
<1>10. ASSUME NEW c \in Consoles, Quit(c) PROVE NumbersOK'
  <2>1. quits' \in 0..MaxQuits
    BY <1>10, SerialLinkAssumption DEF Quit
  <2>2. begun' \in [Consoles -> Bytes] /\ answer' \in [Consoles -> Bytes]
    BY <1>0, <1>10 DEF Quit
  <2>3. txData' \in [Consoles -> Bytes] /\ rxData' \in [Consoles -> Bytes]
    BY <1>0, <1>10 DEF Quit
  <2>4. QED
    BY <2>1, <2>2, <2>3
<1>11. CASE UNCHANGED vars
  BY <1>11 DEF vars
<1>12. QED
  BY <1>1, <1>2, <1>3, <1>4, <1>9, <1>10, <1>11 DEF Next

\* Every step keeps the flags Boolean.
LEMMA FlagsNext ==
    ASSUME FlagsOK, NetOK, [Next]_vars
    PROVE  FlagsOK'
<1> USE DEF FlagsOK, cpuVars, slotVars, netVars, envVars
<1>1. ASSUME NEW c \in Consoles, Transfer(c) \/ Withdraw(c) PROVE FlagsOK'
  BY <1>1 DEF Transfer, Withdraw
<1>2. ASSUME NEW c \in Consoles, CpuStep(c) PROVE FlagsOK'
  BY <1>2 DEF CpuStep, OfferData, OfferReady, Check, Await, Take, Finish, CpuExit
<1>3. ASSUME NEW c \in Consoles, LinkStep(c), ~Accept PROVE FlagsOK'
  BY <1>3 DEF LinkStep, LinkTake, LinkFill, LinkCancelled, Connect, LinkSend, LinkRecv, LinkLost
<1>4. CASE Accept
  <2>1. Head(backlog) \in Connections
    BY <1>4, HeadTailProperties DEF Accept, NetOK
  <2>2. Head(backlog).alive \in BOOLEAN
    BY <2>1 DEF Connections
  <2>3. QED
    BY <1>4, <2>2 DEF Accept
<1>5. ASSUME ClientCloses PROVE alive' \in [Consoles -> BOOLEAN]
  BY <1>5 DEF ClientCloses
<1>9. ASSUME NEW c \in Consoles, Stop(c) PROVE FlagsOK'
  <2>1. alive' \in [Consoles -> BOOLEAN]
    <3>1. CASE c = "client"
      BY <1>5, <1>9, <3>1 DEF Stop
    <3>2. CASE c # "client"
      <4>1. alive' = [alive EXCEPT !["client"] = alive["client"] /\ ~Queued]
        BY <1>9, <3>2 DEF Stop
      <4>2. (alive["client"] /\ ~Queued) \in BOOLEAN
        OBVIOUS
      <4> HIDE DEF FlagsOK
      <4>3. QED
        BY <4>1, <4>2 DEF FlagsOK
    <3>3. QED
      BY <3>1, <3>2
  <2>2. QED
    BY <1>9, <2>1 DEF Stop
<1>10. ASSUME NEW c \in Consoles, Quit(c) PROVE FlagsOK'
  <2>1. alive' \in [Consoles -> BOOLEAN] /\ used' \in BOOLEAN
    BY <1>5, <1>10 DEF Quit
  <2>2. QED
    BY <1>10, <2>1 DEF Quit
<1>11. CASE UNCHANGED vars
  BY <1>11 DEF vars
<1>12. QED
  BY <1>1, <1>2, <1>3, <1>4, <1>9, <1>10, <1>11 DEF Next

\* Every step keeps sequences of bytes on the connections.
LEMMA NetNext ==
    ASSUME NumbersOK, NetOK, [Next]_vars
    PROVE  NetOK'
<1> USE DEF NetOK, cpuVars, slotVars, netVars, envVars
<1>1. ASSUME NEW c \in Consoles, Transfer(c) \/ Withdraw(c) \/ CpuStep(c) PROVE NetOK'
  BY <1>1 DEF Transfer, Withdraw, CpuStep, OfferData, OfferReady, Check, Await, Take, Finish, CpuExit
<1>2. ASSUME NEW c \in Consoles, LinkTake(c) \/ LinkFill(c) \/ LinkCancelled(c) PROVE NetOK'
  BY <1>2 DEF LinkTake, LinkFill, LinkCancelled
<1>3. CASE Accept
  <2>1. backlog # <<>> /\ backlog' = Tail(backlog)
        /\ inbox' = [inbox EXCEPT !["server"] = Head(backlog).sent]
    BY <1>3 DEF Accept
  <2>2. Head(backlog) \in Connections /\ Tail(backlog) \in Seq(Connections)
    BY <2>1, HeadTailProperties
  <2>3. Head(backlog).sent \in Seq(Bytes)
    BY <2>2 DEF Connections
  <2>4. QED
    BY <2>1, <2>2, <2>3
<1>4. CASE Connect
  <2>1. [sent |-> <<>>, alive |-> TRUE] \in Connections
    BY EmptySeq DEF Connections
  <2>2. QED
    BY <1>4, <2>1, AppendProperties DEF Connect
<1>5. ASSUME NEW c \in Consoles, LinkSend(c) PROVE NetOK'
  <2>1. txData[c] \in Bytes
    BY DEF NumbersOK
  <2>2. Peer(c) \in Consoles
    BY DEF Peer, Consoles
  <2>3. CASE UNCHANGED <<inbox, backlog>>
    BY <2>3
  <2>4. CASE inbox' = [inbox EXCEPT ![Peer(c)] = Append(@, txData[c])] /\ UNCHANGED backlog
    <3>1. Append(inbox[Peer(c)], txData[c]) \in Seq(Bytes)
      BY <2>1, <2>2, AppendProperties
    <3>2. QED
      BY <2>2, <2>4, <3>1
  <2>5. CASE /\ Queued /\ UNCHANGED inbox
             /\ backlog' = [backlog EXCEPT ![Len(backlog)].sent = Append(@, txData[c])]
    <3> DEFINE n == Len(backlog)
               e == [backlog[n] EXCEPT !.sent = Append(backlog[n].sent, txData[c])]
    <3>1. n \in 1..Len(backlog)
      BY <2>5, EmptySeq DEF Queued
    <3>2. backlog[n] \in Connections
      BY <3>1, ElementOfSeq
    <3>3. Append(backlog[n].sent, txData[c]) \in Seq(Bytes)
      BY <2>1, <3>2, AppendProperties DEF Connections
    <3>4. e \in Connections
      BY <3>2, <3>3 DEF Connections
    <3>5. backlog' = [backlog EXCEPT ![n] = e]
      BY <2>5
    <3> HIDE DEF n, e
    <3>6. backlog' \in Seq(Connections)
      BY <3>1, <3>4, <3>5, ExceptSeq
    <3>7. QED
      BY <2>5, <3>6
  <2>6. QED
    BY <1>5, <2>3, <2>4, <2>5 DEF LinkSend
<1>6. ASSUME NEW c \in Consoles, LinkRecv(c) PROVE NetOK'
  <2>1. Tail(inbox[c]) \in Seq(Bytes)
    BY <1>6, HeadTailProperties DEF LinkRecv
  <2>2. QED
    BY <1>6, <2>1 DEF LinkRecv
<1>7. ASSUME NEW c \in Consoles, LinkLost(c) PROVE NetOK'
  BY <1>7, EmptySeq DEF LinkLost
<1>8. ASSUME ClientCloses PROVE backlog' \in Seq(Connections)
  <2>1. CASE Queued
    <3> DEFINE n == Len(backlog)
               e == [backlog[n] EXCEPT !.alive = FALSE]
    <3>1. n \in 1..Len(backlog)
      BY <2>1, EmptySeq DEF Queued
    <3>2. backlog[n] \in Connections
      BY <3>1, ElementOfSeq
    <3>3. e \in Connections
      BY <3>2 DEF Connections
    <3>4. backlog' = [backlog EXCEPT ![n] = e]
      BY <1>8, <2>1 DEF ClientCloses
    <3> HIDE DEF n, e
    <3>5. QED
      BY <3>1, <3>3, <3>4, ExceptSeq
  <2>2. CASE ~Queued
    BY <1>8, <2>2 DEF ClientCloses
  <2>3. QED
    BY <2>1, <2>2
<1>9. ASSUME NEW c \in Consoles, Stop(c) PROVE NetOK'
  BY <1>8, <1>9, EmptySeq DEF Stop
<1>10. ASSUME NEW c \in Consoles, Quit(c) PROVE NetOK'
  BY <1>8, <1>10, EmptySeq DEF Quit
<1>11. CASE UNCHANGED vars
  BY <1>11 DEF vars
<1>12. QED
  BY <1>1, <1>2, <1>3, <1>4, <1>5, <1>6, <1>7, <1>9, <1>10, <1>11 DEF Next, LinkStep

-----------------------------------------------------------------------------
(* The bytes on a connection.                                              *)

\* Writing the next byte at the end of a connection.
LEMMA CarriesAppend ==
    ASSUME NEW q \in Seq(Bytes), NEW got \in Nat, NEW sent \in Nat, sent + 1 \in Bytes,
           Carries(q, got, sent)
    PROVE  Carries(Append(q, sent + 1), got, sent + 1)
<1>1. /\ Len(Append(q, sent + 1)) = Len(q) + 1
      /\ \A i \in 1..Len(q) : Append(q, sent + 1)[i] = q[i]
      /\ Append(q, sent + 1)[Len(q) + 1] = sent + 1
  BY AppendProperties
<1>2. Len(q) \in Nat
  BY LenProperties
<1>3. QED
  BY <1>1, <1>2 DEF Carries

\* Reading the byte at its head, which is the next one.
LEMMA CarriesTail ==
    ASSUME NEW q \in Seq(Bytes), NEW got \in Nat, NEW sent \in Nat, Carries(q, got, sent), q # <<>>
    PROVE  Head(q) = got + 1 /\ Carries(Tail(q), got + 1, sent)
<1>1. Len(q) \in Nat \ {0}
  BY EmptySeq
<1>2. /\ Len(Tail(q)) = Len(q) - 1
      /\ \A i \in 1..Len(Tail(q)) : Tail(q)[i] = q[i + 1]
  BY HeadTailProperties
<1>3. Head(q) = q[1]
  BY <1>1
<1>4. \A i \in 1..Len(q) : q[i] = got + i
  BY DEF Carries
<1>5. \A i \in 1..Len(Tail(q)) : i + 1 \in 1..Len(q)
  BY <1>1, <1>2
<1>6. \A i \in 1..Len(Tail(q)) : Tail(q)[i] = got + 1 + i
  BY <1>2, <1>4, <1>5
<1>7. Len(Tail(q)) = sent - (got + 1)
  BY <1>1, <1>2 DEF Carries
<1>8. QED
  BY <1>1, <1>3, <1>4, <1>6, <1>7 DEF Carries

\* There are two consoles, each the peer of the other.
LEMMA PeerFacts ==
    ASSUME NEW c \in Consoles
    PROVE  Peer(c) \in Consoles /\ Peer(c) # c /\ Peer(Peer(c)) = c /\ Consoles = {c, Peer(c)}
  BY DEF Peer, Consoles

\* What a step of one console leaves alone.
Local(c) == <<cpu[c], state[c], busy[c], begun[c], answer[c], txReady[c], txData[c], rxReady[c],
              rxData[c], connected[c], link[c]>>

\* A console whose own state does not change stands where it stood.
LEMMA SameSide ==
    ASSUME NEW c \in Consoles, PipeInv(c), UNCHANGED Local(c)
    PROVE  PipeInv(c)' /\ Sent(c)' = Sent(c) /\ Got(c)' = Got(c)
  BY DEF PipeInv, Stage, Sent, Got, Local

\* A step of one console that puts nothing on a connection and takes nothing from it.
LEMMA QuietStep ==
    ASSUME TypeInv, Running, NEW c \in Consoles,
           PipeInv(c)', Sent(c)' = Sent(c), Got(c)' = Got(c), UNCHANGED Local(Peer(c)),
           UNCHANGED <<connected, netVars, envVars>>, connected[c] <=> link'[c] # "down"
    PROVE  Running'
<1> DEFINE p == Peer(c)
<1>1. p \in Consoles /\ p # c /\ Peer(p) = c /\ Consoles = {c, p}
  BY PeerFacts
<1> HIDE DEF p
<1>2. PipeInv(p)' /\ Sent(p)' = Sent(p) /\ Got(p)' = Got(p) /\ link'[p] = link[p]
  BY <1>1, SameSide DEF Running, Local, p
<1>3. \A d \in Consoles : PipeInv(d)' /\ Sent(d)' = Sent(d) /\ Got(d)' = Got(d)
  BY <1>1, <1>2
<1>4. NetInv'
  BY <1>1, <1>2 DEF Running, NetInv, netVars, envVars
<1>5. \A d \in Consoles : Incoming(d)' = Incoming(d)
  BY DEF Incoming, netVars
<1>6. \A d \in Consoles : Carries(Incoming(d), Got(d), Sent(Peer(d)))'
  <2>1. TAKE d \in Consoles
  <2>2. Peer(d) \in Consoles
    BY PeerFacts
  <2>3. Sent(Peer(d))' = Sent(Peer(d)) /\ Got(d)' = Got(d) /\ Incoming(d)' = Incoming(d)
    BY <1>3, <1>5, <2>2
  <2>4. Carries(Incoming(d), Got(d), Sent(Peer(d)))
    BY DEF Running
  <2>5. QED
    BY <2>3, <2>4 DEF Carries
<1>7. QED
  BY <1>3, <1>4, <1>6 DEF Running

\* The steps of the CPU thread, and those of the link thread that touch only m_queue.
LEMMA LocalStep ==
    ASSUME TypeInv, Running, NEW c \in Consoles, ~disturbed',
           Transfer(c) \/ Withdraw(c) \/ CpuStep(c) \/ LinkTake(c) \/ LinkFill(c)
    PROVE  Running'
<1> DEFINE p == Peer(c)
<1>1. p \in Consoles /\ p # c
  BY PeerFacts
<1>2. /\ cpu \in [Consoles -> CpuLabels] /\ link \in [Consoles -> LinkLabels]
      /\ state \in [Consoles -> LinkStates] /\ NumbersOK
      /\ busy \in [Consoles -> BOOLEAN] /\ txReady \in [Consoles -> BOOLEAN]
      /\ rxReady \in [Consoles -> BOOLEAN] /\ begun[c] \in Nat /\ answer[c] \in Nat
  BY AreNumbers DEF TypeInv, LabelsOK, FlagsOK
<1>3. PipeInv(c) /\ ~stopping[c] /\ (connected[c] <=> link[c] # "down")
  BY DEF Running, NetInv
<1>4. UNCHANGED <<connected, netVars, envVars>>
  BY DEF Transfer, Withdraw, CpuStep, OfferData, OfferReady, Check, Await, Take, Finish, CpuExit,
     LinkTake, LinkFill
<1>5. UNCHANGED Local(p)
  <2> HIDE DEF p
  <2>1. CASE Transfer(c) \/ Withdraw(c)
    BY <1>1, <1>2, <2>1 DEF Transfer, Withdraw, Local, slotVars, NumbersOK
  <2>2. CASE CpuStep(c)
    BY <1>1, <1>2, <2>2 DEF CpuStep, OfferData, OfferReady, Check, Await, Take, Finish, CpuExit,
        Local, slotVars, NumbersOK
  <2>3. CASE LinkTake(c) \/ LinkFill(c)
    BY <1>1, <1>2, <2>3 DEF LinkTake, LinkFill, Local, cpuVars, NumbersOK
  <2>4. QED
    BY <2>1, <2>2, <2>3
<1> DEFINE Good == /\ PipeInv(c)' /\ Sent(c)' = Sent(c) /\ Got(c)' = Got(c)
                   /\ link'[c] # "down" <=> link[c] # "down"
<1>6. ASSUME Transfer(c) PROVE Good
  <2>1. ~InProgress(c)
    BY <1>6 DEF Transfer
  <2>2. state[c] # "PENDING" /\ cpu[c] = "run"
    BY <1>3, <2>1 DEF PipeInv, InProgress
  <2>3. QED
    BY <1>2, <1>3, <1>6, <2>2 DEF Transfer, PipeInv, Stage, Sent, Got, slotVars, NumbersOK
<1>7. ASSUME OfferData(c) \/ OfferReady(c) PROVE Good
  BY <1>2, <1>3, <1>7 DEF OfferData, OfferReady, PipeInv, Stage, Sent, Got, NumbersOK
<1>8. ASSUME Check(c) PROVE Good
  BY <1>2, <1>3, <1>8 DEF Check, PipeInv, Stage, Sent, Got, slotVars, NumbersOK
<1>9. ASSUME Await(c) \/ Take(c) PROVE Good
  BY <1>2, <1>3, <1>9 DEF Await, Take, PipeInv, Stage, Sent, Got, slotVars, NumbersOK
<1>10. ASSUME Finish(c) PROVE Good
  BY <1>2, <1>3, <1>10 DEF Finish, PipeInv, Stage, Sent, Got, slotVars, NumbersOK
<1>11. ASSUME LinkTake(c) \/ LinkFill(c) PROVE Good
  BY <1>2, <1>3, <1>11 DEF LinkTake, LinkFill, PipeInv, Stage, Sent, Got, cpuVars, NumbersOK
<1>12. ASSUME Withdraw(c) PROVE Good
  BY <1>2, <1>3, <1>12 DEF Withdraw, PipeInv, Stage, Sent, Got, slotVars, NumbersOK
<1>13. Good
  BY <1>3, <1>6, <1>7, <1>8, <1>9, <1>10, <1>11, <1>12 DEF CpuStep, CpuExit
<1>14. QED
  BY <1>3, <1>4, <1>5, <1>13, QuietStep

\* What is on its way is a sequence of bytes.
LEMMA IncomingOK ==
    ASSUME NetOK, NEW c \in Consoles
    PROVE  Incoming(c) \in Seq(Bytes)
<1>1. ASSUME backlog # <<>> PROVE backlog[1].sent \in Seq(Bytes)
  <2>1. 1 \in 1..Len(backlog)
    BY <1>1, EmptySeq DEF NetOK
  <2>2. backlog[1] \in Connections
    BY <2>1, ElementOfSeq DEF NetOK
  <2>3. QED
    BY <2>2 DEF Connections
<1>2. QED
  BY <1>1 DEF NetOK, Incoming

\* A byte is written to the connection: it is the next the peer will receive.
LEMMA SendStep ==
    ASSUME TypeInv, Running, NEW c \in Consoles, LinkSend(c)
    PROVE  Running'
<1> DEFINE p == Peer(c)
<1>1. p \in Consoles /\ p # c /\ Peer(p) = c /\ Consoles = {c, p}
  BY PeerFacts
<1> HIDE DEF p
<1>2. /\ cpu \in [Consoles -> CpuLabels] /\ link \in [Consoles -> LinkLabels]
      /\ state \in [Consoles -> LinkStates] /\ begun[c] \in Nat /\ answer[c] \in Nat
  BY AreNumbers DEF TypeInv, LabelsOK
<1>3. PipeInv(c) /\ connected[c] /\ alive[c] /\ link[c] = "send"
  BY DEF Running, NetInv, LinkSend
<1>4. /\ link' = [link EXCEPT ![c] = "recv"]
      /\ UNCHANGED <<cpuVars, slotVars, connected, alive, used, envVars>>
  BY DEF LinkSend
<1>5. /\ PipeInv(c)' /\ Sent(c)' = Sent(c) + 1 /\ Got(c)' = Got(c)
      /\ txData[c] = Sent(c) + 1 /\ Sent(c) \in Nat
  BY <1>2, <1>3, <1>4 DEF PipeInv, Stage, Sent, Got, cpuVars, slotVars
<1>6. UNCHANGED Local(p)
  BY <1>1, <1>2, <1>4 DEF Local, cpuVars, slotVars
<1>7. PipeInv(p)' /\ Sent(p)' = Sent(p) /\ Got(p)' = Got(p)
  BY <1>1, <1>6, SameSide DEF Running
<1>8. /\ NetInv'
      /\ Incoming(p)' = Append(Incoming(p), txData[c])
      /\ Incoming(c)' = Incoming(c)
  <2> USE DEF Consoles
  <2>1. CASE backlog = <<>> \/ c = "server"
    <3>1. ~(c = "client" /\ Queued)
      BY <2>1 DEF Queued
    <3>2. inbox' = [inbox EXCEPT ![p] = Append(inbox[p], txData[c])] /\ UNCHANGED backlog
      BY <1>3, <3>1 DEF LinkSend, p
    <3>3. p = "server" => backlog = <<>> /\ connected["server"]
      BY <1>1, <1>3, <2>1 DEF Running, NetInv
    <3>4. NetInv'
      BY <1>1, <1>2, <1>3, <1>4, <3>2, <3>3 DEF Running, NetInv, envVars
    <3>5. inbox'[p] = Append(inbox[p], txData[c]) /\ inbox'[c] = inbox[c]
      BY <1>1, <3>2 DEF TypeInv, NetOK
    <3>6. QED
      BY <1>1, <2>1, <3>2, <3>3, <3>4, <3>5 DEF Incoming
  <2>2. CASE backlog # <<>> /\ c = "client"
    <3> DEFINE e == [backlog[1] EXCEPT !.sent = Append(backlog[1].sent, txData[c])]
    <3>1. Len(backlog) = 1 /\ backlog[1].alive /\ used /\ ~connected["server"] /\ p = "server"
      BY <1>1, <2>2 DEF Running, NetInv
    <3>2. Queued
      BY <2>2, <3>1 DEF Queued, Last
    <3>3. backlog' = [backlog EXCEPT ![1] = e] /\ UNCHANGED inbox
      BY <1>3, <2>2, <3>1, <3>2 DEF LinkSend
    <3>4. backlog[1] \in Connections
      <4>1. 1 \in 1..Len(backlog) /\ backlog \in Seq(Connections)
        BY <3>1 DEF TypeInv, NetOK
      <4>2. QED
        BY <4>1, ElementOfSeq
    <3>5. e.sent = Append(backlog[1].sent, txData[c]) /\ e.alive = backlog[1].alive
      BY <3>4 DEF Connections
    <3> HIDE DEF e
    <3>6. Len(backlog') = 1 /\ backlog'[1] = e
      BY <3>1, <3>3, ExceptSeq DEF TypeInv, NetOK
    <3>7. NetInv'
      BY <1>2, <1>3, <1>4, <3>1, <3>3, <3>5, <3>6 DEF Running, NetInv, envVars
    <3>8. backlog' # <<>>
      BY <3>6
    <3>9. QED
      BY <2>2, <3>1, <3>3, <3>5, <3>6, <3>7, <3>8 DEF Incoming
  <2>3. QED
    BY <2>1, <2>2
<1>9. Carries(Incoming(c), Got(c), Sent(p)) /\ Carries(Incoming(p), Got(p), Sent(c))
  BY <1>1 DEF Running, p
<1>10. Incoming(p) \in Seq(Bytes) /\ Got(p) \in Nat /\ txData[c] \in Bytes
  BY <1>1, IncomingOK, AreNumbers DEF TypeInv, NumbersOK, Got
<1>11. Carries(Append(Incoming(p), Sent(c) + 1), Got(p), Sent(c) + 1)
  BY <1>5, <1>9, <1>10, CarriesAppend
<1>12. Carries(Incoming(p), Got(p), Sent(c))'
  BY <1>5, <1>7, <1>8, <1>11 DEF Carries
<1>13. Carries(Incoming(c), Got(c), Sent(p))'
  BY <1>5, <1>7, <1>8, <1>9 DEF Carries
<1>14. QED
  BY <1>1, <1>5, <1>7, <1>8, <1>12, <1>13 DEF Running, p

\* A byte is read from the connection: it answers the transfer in progress.
LEMMA RecvStep ==
    ASSUME TypeInv, Running, NEW c \in Consoles, LinkRecv(c)
    PROVE  Running'
<1> DEFINE p == Peer(c)
<1>1. p \in Consoles /\ p # c /\ Peer(p) = c /\ Consoles = {c, p}
  BY PeerFacts
<1> HIDE DEF p
<1>2. /\ cpu \in [Consoles -> CpuLabels] /\ link \in [Consoles -> LinkLabels]
      /\ state \in [Consoles -> LinkStates] /\ begun[c] \in Nat /\ answer[c] \in Nat
      /\ rxData \in [Consoles -> Bytes] /\ inbox \in [Consoles -> Seq(Bytes)]
  BY AreNumbers DEF TypeInv, LabelsOK, NumbersOK, NetOK
<1>3. PipeInv(c) /\ connected[c] /\ link[c] = "recv" /\ inbox[c] # <<>>
  BY DEF Running, NetInv, LinkRecv
<1>4. /\ link' = [link EXCEPT ![c] = "fill"]
      /\ inbox' = [inbox EXCEPT ![c] = Tail(inbox[c])]
      /\ rxData' = [rxData EXCEPT ![c] = Head(inbox[c])]
      /\ UNCHANGED <<cpuVars, txReady, txData, rxReady, connected, alive, backlog, used, envVars>>
  BY DEF LinkRecv
<1>5. Incoming(c) = inbox[c]
  BY <1>3 DEF Incoming, Running, NetInv
<1>6. Carries(inbox[c], Got(c), Sent(p)) /\ Carries(Incoming(p), Got(p), Sent(c))
  BY <1>1, <1>5 DEF Running, p
<1>7. Got(c) \in Nat /\ Sent(p) \in Nat /\ inbox[c] \in Seq(Bytes)
  BY <1>1, <1>2, AreNumbers DEF TypeInv, Got, Sent
<1>8. Head(inbox[c]) = Got(c) + 1 /\ Carries(Tail(inbox[c]), Got(c) + 1, Sent(p))
  BY <1>3, <1>6, <1>7, CarriesTail
<1>9. Got(c) + 1 = begun[c] /\ state[c] = "PENDING"
  BY <1>2, <1>3 DEF PipeInv, Stage, Got
<1>10. PipeInv(c)' /\ Sent(c)' = Sent(c) /\ Got(c)' = Got(c) + 1
  BY <1>2, <1>3, <1>4, <1>8, <1>9 DEF PipeInv, Stage, Sent, Got, cpuVars
<1>11. UNCHANGED Local(p)
  BY <1>1, <1>2, <1>4 DEF Local, cpuVars
<1>12. PipeInv(p)' /\ Sent(p)' = Sent(p) /\ Got(p)' = Got(p)
  BY <1>1, <1>11, SameSide DEF Running
<1>13. NetInv'
  <2>1. c = "server" => connected["server"]
    BY <1>3
  <2>2. QED
    BY <1>1, <1>2, <1>3, <1>4, <2>1 DEF Running, NetInv, envVars, Consoles
<1>14. Incoming(c)' = Tail(inbox[c]) /\ Incoming(p)' = Incoming(p)
  <2>1. inbox'[c] = Tail(inbox[c]) /\ inbox'[p] = inbox[p] /\ backlog' = backlog
    BY <1>1, <1>2, <1>4
  <2>2. c = "server" => backlog = <<>>
    BY <1>3 DEF Running, NetInv
  <2>3. QED
    BY <2>1, <2>2 DEF Incoming
<1>15. Carries(Incoming(c), Got(c), Sent(p))'
  BY <1>8, <1>10, <1>12, <1>14 DEF Carries
<1>16. Carries(Incoming(p), Got(p), Sent(c))'
  BY <1>6, <1>10, <1>12, <1>14 DEF Carries
<1>17. QED
  BY <1>1, <1>10, <1>12, <1>13, <1>15, <1>16 DEF Running, p

\* A connection is made or accepted: nothing on its way is lost.
LEMMA OpenStep ==
    ASSUME TypeInv, Running, NEW c \in Consoles,
           (c = "server" /\ Accept) \/ (c = "client" /\ Connect)
    PROVE  Running'
<1> DEFINE p == Peer(c)
<1>1. p \in Consoles /\ p # c /\ Consoles = {c, p}
  BY PeerFacts
<1>2. /\ link' = [link EXCEPT ![c] = "idle"] /\ connected' = [connected EXCEPT ![c] = TRUE]
      /\ link[c] = "down" /\ UNCHANGED <<cpuVars, slotVars, envVars>>
  BY DEF Accept, Connect
<1>3. /\ link \in [Consoles -> LinkLabels] /\ connected \in [Consoles -> BOOLEAN]
      /\ inbox \in [Consoles -> Seq(Bytes)] /\ alive \in [Consoles -> BOOLEAN]
      /\ backlog \in Seq(Connections)
  BY DEF TypeInv, LabelsOK, FlagsOK, NetOK
<1>4. /\ NetInv' /\ Incoming("server")' = Incoming("server")
      /\ Incoming("client")' = Incoming("client")
  <2>1. CASE Accept
    <3>1. backlog # <<>> /\ Len(backlog) = 1 /\ backlog[1].alive /\ used
      BY <2>1 DEF Accept, Running, NetInv
    <3>2. Head(backlog) = backlog[1] /\ Tail(backlog) = <<>>
      <4>1. Len(Tail(backlog)) = 0 /\ Tail(backlog) \in Seq(Connections)
        BY <1>3, <3>1, HeadTailProperties, EmptySeq
      <4>2. Tail(backlog) = <<>>
        BY <4>1, EmptySeq
      <4>3. QED
        BY <3>1, <4>2
    <3>3. /\ backlog' = <<>> /\ inbox' = [inbox EXCEPT !["server"] = backlog[1].sent]
          /\ alive' = [alive EXCEPT !["server"] = TRUE] /\ used' = used
      BY <2>1, <3>1, <3>2 DEF Accept
    <3>4. /\ link' = [link EXCEPT !["server"] = "idle"]
          /\ connected' = [connected EXCEPT !["server"] = TRUE]
      BY <2>1 DEF Accept
    <3>5. NetInv'
      BY <1>2, <1>3, <3>1, <3>3, <3>4 DEF Running, NetInv, envVars, Consoles
    <3>6. QED
      BY <1>3, <3>1, <3>3, <3>5 DEF Incoming, Consoles
  <2>2. CASE Connect
    <3> DEFINE e == [sent |-> <<>>, alive |-> TRUE]
    <3>1. backlog = <<>> /\ ~connected["server"] /\ inbox["server"] = <<>>
      BY <2>2 DEF Connect, Running, NetInv
    <3>2. backlog' = <<e>> /\ used' /\ inbox' = inbox /\ alive' = [alive EXCEPT !["client"] = TRUE]
      BY <2>2, <3>1 DEF Connect
    <3>3. /\ link' = [link EXCEPT !["client"] = "idle"]
          /\ connected' = [connected EXCEPT !["client"] = TRUE]
      BY <2>2 DEF Connect
    <3>4. NetInv'
      BY <1>2, <1>3, <3>1, <3>2, <3>3 DEF Running, NetInv, envVars, Consoles
    <3>5. QED
      BY <3>1, <3>2, <3>4 DEF Incoming
  <2>3. QED
    BY <2>1, <2>2
<1>5. PipeInv(c) /\ PipeInv(p)
  BY <1>1 DEF Running
<1> HIDE DEF p
<1>6. PipeInv(c)' /\ Sent(c)' = Sent(c) /\ Got(c)' = Got(c)
  BY <1>1, <1>2, <1>3, <1>5 DEF PipeInv, Stage, Sent, Got, cpuVars, slotVars
<1>7. UNCHANGED Local(p)
  BY <1>1, <1>2, <1>3 DEF Local, cpuVars, slotVars
<1>8. PipeInv(p)' /\ Sent(p)' = Sent(p) /\ Got(p)' = Got(p)
  BY <1>1, <1>5, <1>7, SameSide
<1>9. \A d \in Consoles : /\ PipeInv(d)' /\ Sent(d)' = Sent(d) /\ Got(d)' = Got(d)
                          /\ Incoming(d)' = Incoming(d)
  BY <1>1, <1>4, <1>6, <1>8 DEF Consoles
<1>10. \A d \in Consoles : Carries(Incoming(d), Got(d), Sent(Peer(d)))'
  <2>1. TAKE d \in Consoles
  <2>2. Peer(d) \in Consoles /\ Carries(Incoming(d), Got(d), Sent(Peer(d)))
    BY PeerFacts DEF Running
  <2>3. QED
    BY <1>9, <2>2 DEF Carries
<1>11. QED
  BY <1>4, <1>9, <1>10 DEF Running

\* The history variable stays set.
LEMMA DisturbedStays ==
    ASSUME [Next]_vars, disturbed
    PROVE  disturbed'
  BY DEF Next, vars, Transfer, Withdraw, CpuStep, OfferData, OfferReady, Check, Await, Take, Finish,
         CpuExit, LinkStep, Accept, Connect, LinkTake, LinkSend, LinkRecv, LinkFill, LinkLost, LinkCancelled,
         Stop, Quit

\* Every step that does not disturb the link keeps its invariant.
LEMMA RunningNext ==
    ASSUME TypeInv, ~disturbed => Running, [Next]_vars, ~disturbed'
    PROVE  Running'
<1>1. Running /\ ~disturbed
  BY DisturbedStays
<1>2. ASSUME NEW c \in Consoles,
             Transfer(c) \/ Withdraw(c) \/ CpuStep(c) \/ LinkTake(c) \/ LinkFill(c)
      PROVE  Running'
  BY <1>1, <1>2, LocalStep
<1>3. ASSUME NEW c \in Consoles, LinkSend(c) PROVE Running'
  BY <1>1, <1>3, SendStep
<1>4. ASSUME NEW c \in Consoles, LinkRecv(c) PROVE Running'
  BY <1>1, <1>4, RecvStep
<1>5. ASSUME Accept \/ Connect PROVE Running'
  BY <1>1, <1>5, OpenStep DEF Consoles
<1>6. ASSUME NEW c \in Consoles, LinkLost(c) \/ LinkCancelled(c) \/ Stop(c) \/ Quit(c) PROVE FALSE
  BY <1>1, <1>6 DEF LinkLost, LinkCancelled, Stop, Quit, Running, NetInv
<1>7. CASE UNCHANGED vars
  <2>1. UNCHANGED <<cpu, state, busy, begun, answer, txReady, txData, rxReady, rxData, connected,
                    link, alive, inbox, backlog, used, stopping>>
    BY <1>7 DEF vars, cpuVars, slotVars, netVars, envVars
  <2>2. QED
    BY <1>1, <2>1 DEF Running, NetInv, PipeInv, Stage, Incoming, Got, Sent, Carries
<1>8. QED
  BY <1>2, <1>3, <1>4, <1>5, <1>6, <1>7 DEF Next, LinkStep

-----------------------------------------------------------------------------
(* The inductive invariant and the theorems.                               *)

\* Two consoles that have just started.
LEMMA InitInv == Init => Inv
<1> SUFFICES ASSUME Init PROVE Inv
  OBVIOUS
<1>1. <<>> \in Seq(Bytes) /\ <<>> \in Seq(Connections)
  BY EmptySeq
<1>2. TypeInv
  <2>1. 0 \in Bytes /\ 0 \in 0..MaxQuits
    BY SerialLinkAssumption DEF Bytes
  <2>2. LabelsOK /\ FlagsOK /\ NetOK
    BY <1>1 DEF Init, LabelsOK, FlagsOK, NetOK, CpuLabels, LinkLabels, LinkStates
  <2>3. NumbersOK
    BY <2>1 DEF Init, NumbersOK
  <2>4. QED
    BY <2>2, <2>3 DEF TypeInv
<1>3. NetInv
  BY DEF Init, NetInv, Consoles
<1>4. \A c \in Consoles : PipeInv(c) /\ Incoming(c) = <<>> /\ Got(c) = 0 /\ Sent(Peer(c)) = 0
  BY PeerFacts DEF Init, PipeInv, Incoming, Got, Sent
<1>5. Carries(<<>>, 0, 0)
  BY DEF Carries
<1>6. QED
  BY <1>2, <1>3, <1>4, <1>5 DEF Inv, Running

\* The invariant is inductive.
LEMMA InvNext == Inv /\ [Next]_vars => Inv'
<1> SUFFICES ASSUME Inv, [Next]_vars PROVE Inv'
  OBVIOUS
<1>1. TypeInv'
  BY LabelsNext, NumbersNext, FlagsNext, NetNext DEF Inv, TypeInv
<1>2. ~disturbed' => Running'
  BY RunningNext DEF Inv
<1>3. QED
  BY <1>1, <1>2 DEF Inv

\* The stages of a transfer and the contents of the connections, in every reachable state.
THEOREM SpecInv == Spec => []Inv
  BY InitInv, InvNext, PTL DEF Spec

\* The variables of both consoles (ConsoleLink, SocketLink) keep their types.
THEOREM TypesHold == Spec => []TypeOK
<1>1. ASSUME Inv PROVE TypeOK
  <2>1. LabelsOK /\ NumbersOK /\ FlagsOK /\ NetOK
    BY <1>1 DEF Inv, TypeInv
  <2>2. {busy, txReady, rxReady, connected, alive, stopping} \subseteq [Consoles -> BOOLEAN]
    BY <2>1 DEF FlagsOK
  <2>3. used \in BOOLEAN /\ disturbed \in BOOLEAN
    BY <2>1 DEF FlagsOK
  <2>4. (\A c \in Consoles : inbox[c] \in Seq(Bytes)) /\ backlog \in Seq(Connections)
    BY <2>1 DEF NetOK
  <2>5. QED
    BY <2>1, <2>2, <2>3, <2>4 DEF TypeOK, LabelsOK, NumbersOK, Connections
<1>2. QED
  BY <1>1, SpecInv, PTL

\* A byte announced to the CPU thread is not overwritten by the link thread before it is read
\* (SocketLink::serverLoop(), ConsoleLink::handlePending()).
THEOREM AnswersAreKept == Spec => []NothingOverwritten
<1>1. Inv => NothingOverwritten
  <2> SUFFICES ASSUME Inv, ~disturbed, NEW c \in Consoles, link[c] = "fill"
               PROVE  ~rxReady[c] /\ cpu[c] # "finish"
    BY DEF NothingOverwritten
  <2>1. PipeInv(c)
    BY DEF Inv, Running
  <2>2. QED
    BY <2>1 DEF PipeInv, Stage
<1>2. QED
  BY <1>1, SpecInv, PTL

\* What keeps the transfer bit right, when the link is disturbed, too: the CPU thread is on
\* its way through a transfer only while that transfer is pending.
BusyInv ==
    /\ busy \in [Consoles -> BOOLEAN] /\ state \in [Consoles -> LinkStates]
    /\ BusyWhileInProgress
    /\ \A c \in Consoles : cpu[c] # "run" /\ cpu[c] # "exited" => state[c] = "PENDING"

\* The transfer bit of SC is set only while check() has an answer to give, after which it is
\* cleared (MappedIO::write(), ConsoleLink::transfer(), check(), finishTransfer()).
THEOREM TransferBitIsRight == Spec => []BusyWhileInProgress
<1>1. Init => BusyInv
  BY DEF Init, BusyInv, BusyWhileInProgress, InProgress, LinkStates
<1>2. ASSUME BusyInv, LabelsOK, [Next]_vars PROVE BusyInv'
  <2> USE DEF BusyInv, BusyWhileInProgress, InProgress, LinkStates, LabelsOK, CpuLabels
  <2>1. ASSUME NEW c \in Consoles, Transfer(c) \/ Withdraw(c) PROVE BusyInv'
    BY <1>2, <2>1 DEF Transfer, Withdraw
  <2>2. ASSUME NEW c \in Consoles,
               OfferData(c) \/ OfferReady(c) \/ Await(c) \/ Take(c) \/ CpuExit(c)
        PROVE  BusyInv'
    BY <1>2, <2>2 DEF OfferData, OfferReady, Await, Take, CpuExit
  <2>3. ASSUME NEW c \in Consoles, Check(c) \/ Finish(c) PROVE BusyInv'
    BY <1>2, <2>3 DEF Check, Finish
  <2>4. ASSUME NEW c \in Consoles, Quit(c) PROVE BusyInv'
    BY <1>2, <2>4 DEF Quit
  <2>5. ASSUME NEW c \in Consoles, LinkStep(c) \/ Stop(c) PROVE UNCHANGED <<cpu, state, busy>>
    BY <2>5 DEF LinkStep, Accept, Connect, LinkTake, LinkSend, LinkRecv, LinkFill, LinkLost,
       LinkCancelled, Stop, cpuVars
  <2>6. CASE UNCHANGED <<cpu, state, busy>>
    BY <1>2, <2>6
  <2>7. CASE UNCHANGED vars
    BY <2>6, <2>7 DEF vars, cpuVars
  <2>8. QED
    BY <1>2, <2>1, <2>2, <2>3, <2>4, <2>5, <2>6, <2>7 DEF Next, CpuStep
<1>3. BusyInv => BusyWhileInProgress
  BY DEF BusyInv
<1>4. Inv => LabelsOK
  BY DEF Inv, TypeInv
<1>5. QED
  BY <1>1, <1>2, <1>3, <1>4, SpecInv, PTL DEF Spec

\* Two consoles and the link between them (transfer(), check(), serverLoop()) implement the
\* abstract exchange: the n-th transfers of both are each other's answers.
THEOREM LinkIsAnExchange == Spec => ImplementsExchange
<1>1. Init => Exchange!Init
  BY DEF Init, Exchange!Init
<1>2. ASSUME Inv, Inv', [Next]_vars PROVE [Exchange!Next]_(Exchange!vars)
  <2> SUFFICES ASSUME ~disturbed' PROVE [Exchange!Next]_(Exchange!vars)
    BY DEF Exchange!Next
  <2>1. Running /\ NumbersOK /\ disturbed' = disturbed /\ ~disturbed
    <3>1. ~disturbed /\ disturbed \in BOOLEAN /\ disturbed' \in BOOLEAN
      BY <1>2, DisturbedStays DEF Inv, TypeInv, FlagsOK
    <3>2. disturbed' = disturbed
      BY <3>1
    <3>3. QED
      BY <1>2, <3>1, <3>2 DEF Inv, TypeInv
  <2>2. ASSUME NEW c \in Consoles, Transfer(c) PROVE [Exchange!Next]_(Exchange!vars)
    <3>1. ~InProgress(c)
      BY <2>1, <2>2 DEF Transfer
    <3>2. begun[c] = answer[c]
      BY <2>1, <3>1 DEF Running, PipeInv, InProgress
    <3>3. CASE connected[c]
      <4>1. Exchange!Begin(c)
        BY <2>1, <2>2, <3>2, <3>3 DEF Transfer, Exchange!Begin
      <4>2. QED
        BY <2>1, <4>1 DEF Exchange!Next
    <3>4. CASE ~connected[c]
      BY <2>1, <2>2, <3>4 DEF Transfer, Exchange!vars
    <3>5. QED
      BY <3>3, <3>4
  <2>3. ASSUME NEW c \in Consoles, Finish(c) PROVE [Exchange!Next]_(Exchange!vars)
    <3>1. Peer(c) \in Consoles /\ begun[c] \in Nat /\ answer[c] \in Nat
          /\ begun[Peer(c)] \in Nat /\ answer[Peer(c)] \in Nat
      BY <2>1, PeerFacts, AreNumbers
    <3>2. /\ rxData[c] = begun[c] /\ begun[c] = answer[c] + 1 /\ Got(c) = begun[c]
      BY <2>1, <2>3 DEF Finish, Running, PipeInv, Stage, Got
    <3>3. Sent(Peer(c)) >= Got(c)
      <4>1. Carries(Incoming(c), Got(c), Sent(Peer(c))) /\ Incoming(c) \in Seq(Bytes)
        BY <1>2, <2>1, IncomingOK DEF Running, Inv, TypeInv
      <4>2. Len(Incoming(c)) \in Nat /\ Sent(Peer(c)) \in Nat /\ Got(c) \in Nat
        BY <3>1, <4>1, LenProperties DEF Sent, Got
      <4>3. QED
        BY <4>1, <4>2 DEF Carries
    <3>4. begun[Peer(c)] >= Sent(Peer(c))
      <4>1. PipeInv(Peer(c))
        BY <2>1, <3>1 DEF Running
      <4>2. QED
        BY <3>1, <4>1 DEF PipeInv, Sent
    <3>5. begun[Peer(c)] >= begun[c]
      BY <3>1, <3>2, <3>3, <3>4 DEF Sent, Got
    <3>6. Exchange!Answer(c)
      BY <2>1, <2>3, <3>1, <3>2, <3>5 DEF Finish, Exchange!Answer
    <3>7. QED
      BY <2>1, <3>6 DEF Exchange!Next
  <2>4. ASSUME NEW c \in Consoles,
               \/ Withdraw(c) \/ OfferData(c) \/ OfferReady(c) \/ Check(c)
               \/ Await(c) \/ Take(c) \/ CpuExit(c)
        PROVE  UNCHANGED <<begun, answer>>
    BY <2>4 DEF Withdraw, OfferData, OfferReady, Check, Await, Take, CpuExit
  <2>5. ASSUME NEW c \in Consoles, LinkStep(c) \/ Stop(c) PROVE UNCHANGED <<begun, answer>>
    BY <2>5 DEF LinkStep, Accept, Connect, LinkTake, LinkSend, LinkRecv, LinkFill, LinkLost,
       LinkCancelled, Stop, cpuVars
  <2>6. ASSUME NEW c \in Consoles, Quit(c) PROVE FALSE
    BY <2>1, <2>6 DEF Quit
  <2>7. CASE UNCHANGED vars
    BY <2>7 DEF vars, cpuVars, Exchange!vars
  <2>8. CASE UNCHANGED <<begun, answer>>
    BY <2>1, <2>8 DEF Exchange!vars
  <2>9. QED
    BY <1>2, <2>2, <2>3, <2>4, <2>5, <2>6, <2>7, <2>8 DEF Next, CpuStep
<1>3. QED
  BY <1>1, <1>2, SpecInv, PTL DEF Spec, ImplementsExchange, Exchange!Spec
=============================================================================
