-------------------------- MODULE LifecycleProofs ---------------------------
(***************************************************************************)
(* An application that starts again only with the worker at rest has one   *)
(* reader and one handshake.  The program of Lifecycle runs the Connection *)
(* as Connection specifies it, and leaves nothing behind when it is        *)
(* destroyed.  Connection keeps the contract of the client.                *)
(***************************************************************************)
EXTENDS Lifecycle, AttemptProofs

\* How long a prover may take over a step.
USE SMTT(30), ZenonT(30)

(* Reads *)

\* Connection::ReceivePackets asks for more packets at the end of its handler.
ReadsLast(q) == \A i \in 1..Len(q) : q[i] = DoReceive => i = Len(q)

\* Steps before those that are left.
LEMMA LastConcat ==
  ASSUME NEW q, IsSeq(q), NEW r, IsSeq(r), DoReceive \notin Range(q), ReadsLast(r)
  PROVE  ReadsLast(q \o r)
  <1> DEFINE a == q \o r
  <1>1. /\ Len(q) \in Nat /\ Len(r) \in Nat /\ Len(a) = Len(q) + Len(r)
        /\ \A i \in 1..Len(q) : a[i] = q[i]
        /\ \A i \in 1..Len(r) : a[Len(q) + i] = r[i]
    <2>1. Joined(a, q, r)
      BY ConcatJoined, Zenon
    <2> QED BY <2>1, Zenon DEF Joined
  <1> HIDE DEF a
  <1>2. \A i \in 1..Len(q) : q[i] \in Range(q)
    BY SeqShape
  <1> SUFFICES ASSUME NEW i \in 1..Len(a), a[i] = DoReceive PROVE i = Len(a)
    BY DEF ReadsLast, a
  <1>3. i \notin 1..Len(q)
    BY <1>1, <1>2, Zenon
  <1>4. PICK k \in 1..Len(r) : i = Len(q) + k
    <2>1. i - Len(q) \in 1..Len(r) /\ i = Len(q) + (i - Len(q))
      BY <1>1, <1>3
    <2> QED BY <2>1
  <1>5. k = Len(r)
    BY <1>1, <1>4 DEF ReadsLast
  <1> QED BY <1>1, <1>4, <1>5

\* The steps that the worker has left read last, and nothing is pending on a
\* closed socket.
IsStep(w) == w = DoReceive \/ w = DoDisconnect \/ \E p : w = DoProcess(p)

ShapeInv ==
    /\ ReadsLast(work)
    /\ \A w \in Range(work) : IsStep(w)
    /\ socket = "closed" => recvs = << >> /\ sends = << >>

\* The sequences of steps that the handlers leave.
LEMMA LastFacts ==
  /\ ReadsLast(<< >>) /\ ReadsLast(<< DoReceive >>)
  /\ \A after : IsSeq(after) /\ ReadsLast(after) => ReadsLast(<< DoDisconnect >> \o after)
  /\ \A ps : IsSeq(ps) => ReadsLast(ProcessAll(ps))
  <1>1. ReadsLast(<< >>) /\ ReadsLast(<< DoReceive >>)
    BY DEF ReadsLast
  <1>2. ASSUME NEW after, IsSeq(after), ReadsLast(after) PROVE ReadsLast(<< DoDisconnect >> \o after)
    <2>1. IsSeq(<< DoDisconnect >>) /\ DoReceive \notin Range(<< DoDisconnect >>)
      BY SingletonFacts DEF DoReceive, DoDisconnect
    <2> QED BY <1>2, <2>1, LastConcat
  <1>3. ASSUME NEW ps, IsSeq(ps) PROVE ReadsLast(ProcessAll(ps))
    <2> DEFINE P == [i \in 1..Len(ps) |-> DoProcess(ps[i])]
    <2>1. Len(ps) \in Nat
      BY <1>3, SeqShape
    <2>2. IsSeq(P) /\ Range(P) = {P[i] : i \in 1..Len(ps)}
      BY <2>1, FunctionFacts
    <2>3. DoReceive \notin Range(P)
      BY <2>2 DEF DoProcess, DoReceive
    <2>4. ProcessAll(ps) = P \o << DoReceive >>
      BY DEF ProcessAll
    <2> HIDE DEF P
    <2> QED BY <1>1, <2>2, <2>3, <2>4, LastConcat, SingletonFacts
  <1> QED BY <1>1, <1>2, <1>3

\* The reads of packets under way: pending, completed, or about to be started.
Underway(steps) == Pending(Reading) + One(DoReceive \in Range(steps))

\* Only the packets of the handshake are queued or being written.
Greeting ==
    /\ \A h \in Range(sends) : Greets(h)
    /\ \A t \in Range(ioQueue) : t.kind = "SendNextPacket" => Greets(t.handler)

\* The application has not heard that this attempt succeeded.
Quiet == events \in {<< >>, Failed}

\* Until the attempt succeeds nothing is read but the handshake response, and
\* nothing is sent but the handshake.
ReadInv == Underway(work) <= 1 /\ (Quiet => Underway(work) = 0 /\ Greeting)

\* What a step tells the application.
LEMMA EventSteps ==
  ASSUME IInv, AttemptInv, Next
  PROVE  \/ UNCHANGED events /\ (OnAckSent => UNCHANGED work)
         \/ Start
         \/ events = << >> /\ events' \in {Failed, Established} /\ (OnAckSent => events' = Established)
         \/ events = Established /\ events' \in Over
  <1>0. Seqs
    BY DEF IInv
  <1>1. CASE OnConnect \/ OnHandshakeSent \/ OnHandshakeRejected \/ OnHandshakeResponse \/ OnAckSent
    <2>1. PICK kind : Runs(kind) /\ TaskClass(Task) = Attempt
      BY <1>0, <1>1, AttemptTask
    <2>2. events = << >> /\ state = "Inited"
      BY <1>0, <2>1, AttemptRuns
    <2>3. CASE OnAckSent
      BY <2>2, <2>3, EventFacts, Zenon DEF OnAckSent, Broadcast, stateVars
    <2>4. CASE ~OnAckSent
      BY <1>1, <2>2, <2>4, EventFacts, Zenon DEF OnConnect, OnHandshakeSent, OnHandshakeRejected, OnHandshakeResponse,
            HandshakeFailed, ConnectionError, Leave, Broadcast, stateVars
    <2> QED BY <2>3, <2>4
  <1>2. CASE ~OnAckSent /\ (OnReceive \/ OnHeartbeatSent \/ OnHeartbeatTimeout \/ ProcessFatal)
    <2>1. UNCHANGED events \/ \E event \in {"Kicked", "ConnectionError"} : \E after : Leave(event, after)
      BY <1>2, Zenon DEF OnReceive, OnHeartbeatSent, OnHeartbeatTimeout, ProcessFatal, ConnectionError, KickedFromServer, stateVars
    <2> QED BY <1>2, <2>1, LeaveEvents
  <1>3. CASE /\ ~OnAckSent
             /\ \/ ProcessHeartbeat \/ ProcessMessage \/ ReceivePackets \/ Disconnect \/ SendNextPacket
                \/ OnPostRequest \/ OnRequestSent \/ OnRequestTimeout \/ OnTick
    <2>1. UNCHANGED events
      BY <1>3, Zenon DEF ProcessHeartbeat, ProcessMessage, ReceivePackets, Disconnect, SendNextPacket, OnPostRequest,
            OnRequestSent, OnRequestTimeout, OnTick, stateVars
    <2> QED BY <1>3, <2>1
  <1>4. CASE Environment \/ \E r \in Requests : PostRequest(r)
    <2>1. UNCHANGED << events, work >>
      BY <1>4, Zenon DEF Environment, ConnectCompletes, SendCompletes, SendFails, ReceiveCompletes, ReceiveFails,
            HeartbeatTimerExpires, HeartbeatTimeoutExpires, RequestTimerExpires, PostRequest, stateVars
    <2> QED BY <2>1
  <1> QED BY <1>1, <1>2, <1>3, <1>4 DEF Next, Worker, Application

\* The application calls Start again when it has heard of the end of the attempt
\* before, and the worker is at rest.
StartsWhenIdle == Restart = "when idle"

\* All of the above, and its steps, for an application that waits for the worker.
IdleInv == IInv /\ AttemptInv /\ EndInv /\ ShapeInv /\ ReadInv

\* It holds before the first Start.
LEMMA InitIdle == Init => IdleInv
  <1> SUFFICES ASSUME Init PROVE IdleInv
    OBVIOUS
  <1>1. EndInv
    BY EventFacts DEF Init, EndInv
  <1>2. ShapeInv
    BY LastFacts, EmptyFacts DEF Init, ShapeInv
  <1>3. Pending(Reading) = 0
    BY EmptyCounts, ClassFacts DEF Init, Pending, One
  <1>4. Underway(work) = 0
    BY <1>3, EmptyFacts DEF Init, Underway, One
  <1>5. Greeting
    BY EmptyFacts DEF Init, Greeting
  <1> QED BY <1>1, <1>2, <1>4, <1>5, InitIInv, InitAttempts DEF IdleInv, ReadInv

\* Every step keeps it.
LEMMA NextIdle == ASSUME StartsWhenIdle PROVE IdleInv /\ [Next]_vars => IdleInv'
  \* The steps left when the first is done.
  <1>LastTail. ASSUME NEW q, IsSeq(q), q # << >>, ReadsLast(q)
               PROVE  ReadsLast(Tail(q)) /\ (Head(q) = DoReceive => Tail(q) = << >>)
    <2> USE <1>LastTail
    <2> DEFINE a == Tail(q)
    <2>1. /\ Len(a) \in Nat /\ Len(q) = 1 + Len(a) /\ q[1] = Head(q)
          /\ \A i \in 1..Len(a) : a[i] = q[1 + i]
      BY TailAt
    <2>2. IsSeq(a)
      BY TailFacts
    <2> HIDE DEF a
    <2>3. ASSUME NEW i \in 1..Len(a), a[i] = DoReceive PROVE i = Len(a)
      <3>1. 1 + i \in 1..Len(q) /\ q[1 + i] = DoReceive
        BY <2>1, <2>3
      <3>2. 1 + i = Len(q)
        BY <3>1 DEF ReadsLast
      <3> QED BY <2>1, <3>2
    <2>4. ASSUME Head(q) = DoReceive PROVE a = << >>
      <3>1. 1 = Len(q)
        BY <2>1, <2>4 DEF ReadsLast
      <3> QED BY <2>1, <2>2, <3>1, SeqShape
    <2> QED BY <2>3, <2>4 DEF ReadsLast, a
  \* What a step makes of the steps left of a handler.
  <1>WorkCases. ASSUME IInv, Next
                PROVE  \/ work' = work
                       \/ work = << >> /\ \E event \in {"Kicked", "ConnectionError"} : Leave(event, << >>)
                       \/ work = << >> /\ OnAckSent /\ work' = << DoReceive >>
                       \/ work = << >> /\ OnReceive /\ IsSeq(Task.packets) /\ work' = ProcessAll(Task.packets)
                       \/ work # << >> /\ work' = Tail(work)
                       \/ /\ work # << >> /\ Head(work) # DoReceive
                          /\ \E event \in {"Kicked", "ConnectionError"} : Leave(event, Tail(work))
    <2> USE <1>WorkCases
    <2>0. Seqs
      BY DEF IInv
    <2>1. CASE OnReceive
      <3>1. Runs("ReceiveDone") /\ work = << >>
        BY <2>1 DEF OnReceive, Runs
      <3>2. IsSeq(Task.packets)
        BY <2>0, <3>1, RunsFacts DEF IInv, PacketsInv
      <3> QED BY <2>1, <3>1, <3>2 DEF OnReceive, ConnectionError
    <2>2. CASE OnHandshakeResponse \/ OnHeartbeatSent \/ OnHeartbeatTimeout \/ OnAckSent
      BY <2>2, Zenon DEF OnHandshakeResponse, OnHeartbeatSent, OnHeartbeatTimeout, OnAckSent, ConnectionError, Runs
    <2>3. CASE ProcessFatal
      <3>1. Does("ProcessPacket")
        BY <2>3 DEF ProcessFatal
      <3>2. work # << >> /\ Head(work) # DoReceive
        BY <3>1 DEF Does, DoReceive
      <3> QED BY <2>3, <3>2 DEF ProcessFatal, ConnectionError, KickedFromServer
    <2>4. CASE ProcessHeartbeat \/ ProcessMessage \/ ReceivePackets \/ Disconnect
      BY <2>4, Zenon DEF ProcessHeartbeat, ProcessMessage, ReceivePackets, Disconnect, Does
    <2>5. CASE OnConnect \/ OnHandshakeSent \/ OnHandshakeRejected \/ SendNextPacket \/ OnPostRequest
               \/ OnRequestSent \/ OnRequestTimeout \/ OnTick
      BY <2>5, Zenon DEF OnConnect, OnHandshakeSent, OnHandshakeRejected, SendNextPacket, OnPostRequest,
            OnRequestSent, OnRequestTimeout, OnTick
    <2>6. CASE Environment \/ Application
      BY <2>6, Zenon DEF Environment, Application, ConnectCompletes, SendCompletes, SendFails, ReceiveCompletes,
            ReceiveFails, HeartbeatTimerExpires, HeartbeatTimeoutExpires, RequestTimerExpires, PostRequest, Start
    <2> QED BY <2>1, <2>2, <2>3, <2>4, <2>5, <2>6, Zenon DEF Next, Worker
  \* The ranges of the sequences of steps that the handlers leave.
  <1>StepsFacts. /\ \A after : IsSeq(after) => Range(<< DoDisconnect >> \o after) = {DoDisconnect} \union Range(after)
                 /\ \A ps : IsSeq(ps) => \A w \in Range(ProcessAll(ps)) : w = DoReceive \/ \E p \in Range(ps) : w = DoProcess(p)
    <2>1. \A after : IsSeq(after) => Range(<< DoDisconnect >> \o after) = {DoDisconnect} \union Range(after)
      BY SingletonFacts, ConcatFacts
    <2>2. ASSUME NEW ps, IsSeq(ps), NEW w \in Range(ProcessAll(ps))
          PROVE  w = DoReceive \/ \E p \in Range(ps) : w = DoProcess(p)
      <3> DEFINE P == [i \in 1..Len(ps) |-> DoProcess(ps[i])]
      <3>1. Len(ps) \in Nat /\ \A i \in 1..Len(ps) : ps[i] \in Range(ps)
        BY <2>2, SeqShape
      <3>2. IsSeq(P) /\ Range(P) = {P[i] : i \in 1..Len(ps)}
        BY <3>1, FunctionFacts
      <3>3. Range(P) \subseteq {DoProcess(p) : p \in Range(ps)}
        BY <3>1, <3>2
      <3>4. ProcessAll(ps) = P \o << DoReceive >>
        BY DEF ProcessAll
      <3> HIDE DEF P
      <3>5. IsSeq(<< DoReceive >>) /\ Range(<< DoReceive >>) = {DoReceive}
        BY SingletonFacts
      <3>6. Range(ProcessAll(ps)) = Range(P) \union {DoReceive}
        BY <3>2, <3>4, <3>5, ConcatFacts
      <3> QED BY <2>2, <3>3, <3>6
    <2> QED BY <2>1, <2>2
  \* Every step keeps the shape.
  <1>NextShape. ASSUME IInv, ShapeInv, Next PROVE ShapeInv'
    <2> USE <1>NextShape
    <2>0. Seqs /\ IsSeq(<< >>)
      BY EmptyFacts DEF IInv
    <2>1. ReadsLast(work')
      <3>1. work # << >> => IsSeq(Tail(work)) /\ ReadsLast(Tail(work))
        BY <2>0, TailFacts, <1>LastTail DEF Seqs, ShapeInv
      <3>2. \A event, after : Leave(event, after) => work' = after \/ work' = << DoDisconnect >> \o after
        BY DEF Leave
      <3>3. CASE work' = work
        BY <3>3 DEF ShapeInv
      <3>4. CASE work = << >> /\ \E event : Leave(event, << >>)
        BY <2>0, <3>2, <3>4, LastFacts
      <3>5. CASE work # << >> /\ \E event : Leave(event, Tail(work))
        BY <3>1, <3>2, <3>5, LastFacts, Zenon
      <3>6. CASE work' = << DoReceive >> \/ (IsSeq(Task.packets) /\ work' = ProcessAll(Task.packets))
        BY <3>6, LastFacts, Zenon
      <3> QED BY <3>1, <3>3, <3>4, <3>5, <3>6, <1>WorkCases, Zenon
    <2>3. \A w \in Range(work') : IsStep(w)
      <3>1. work # << >> => IsSeq(Tail(work)) /\ Range(Tail(work)) \subseteq Range(work)
        BY <2>0, TailFacts DEF Seqs
      <3>2. ASSUME NEW event, NEW after, IsSeq(after), Leave(event, after)
            PROVE  Range(work') \subseteq Range(after) \union {DoDisconnect}
        <4>1. work' = after \/ work' = << DoDisconnect >> \o after
          BY <3>2 DEF Leave
        <4> QED BY <3>2, <4>1, <1>StepsFacts, Zenon
      <3>3. CASE work' = work \/ (work # << >> /\ work' = Tail(work))
        BY <3>1, <3>3, Zenon DEF ShapeInv
      <3>4. CASE \E event : Leave(event, << >>)
        <4>1. Range(work') \subseteq {DoDisconnect}
          BY <2>0, <3>2, <3>4, EmptyFacts
        <4> QED BY <4>1 DEF IsStep
      <3>5. CASE work # << >> /\ \E event : Leave(event, Tail(work))
        <4>1. Range(work') \subseteq Range(work) \union {DoDisconnect}
          BY <3>1, <3>2, <3>5
        <4> QED BY <4>1 DEF ShapeInv, IsStep
      <3>6. CASE work' = << DoReceive >>
        BY <3>6, SingletonFacts DEF IsStep
      <3>7. CASE IsSeq(Task.packets) /\ work' = ProcessAll(Task.packets)
        BY <3>7, <1>StepsFacts DEF IsStep
      <3> QED BY <3>3, <3>4, <3>5, <3>6, <3>7, <1>WorkCases
    <2>2. socket' = "closed" => recvs' = << >> /\ sends' = << >>
      <3> USE DEF ShapeInv
      <3>1. CASE Worker
        BY <3>1, Zenon DEF Worker, OnConnect, OnHandshakeSent, OnHandshakeRejected, OnHandshakeResponse, OnAckSent, OnReceive,
              ProcessFatal, ProcessHeartbeat, ProcessMessage, ReceivePackets, Disconnect, SendNextPacket, OnPostRequest,
              OnRequestSent, OnRequestTimeout, OnTick, OnHeartbeatSent, OnHeartbeatTimeout, StartReceive, socketVars
      <3>2. CASE Environment \/ Application
        BY <3>2, Zenon DEF Environment, Application, ConnectCompletes, SendCompletes, SendFails, ReceiveCompletes, ReceiveFails,
              HeartbeatTimerExpires, HeartbeatTimeoutExpires, RequestTimerExpires, PostRequest, Start, socketVars
      <3> QED BY <3>1, <3>2 DEF Next
    <2> QED BY <2>1, <2>2, <2>3 DEF ShapeInv
  \* What a step does to the steps left, as far as reads are concerned.
  <1>WorkReads. ASSUME IInv, ShapeInv, Next, ~OnAckSent, ~OnReceive
                PROVE  /\ DoReceive \in Range(work') => DoReceive \in Range(work)
                       /\ ReceivePackets => DoReceive \in Range(work) /\ DoReceive \notin Range(work')
    <2> USE <1>WorkReads
    <2>0. Seqs /\ IsSeq(<< >>) /\ Range(<< >>) = {}
      BY EmptyFacts DEF IInv
    <2>1. \A after : IsSeq(after) => Range(<< DoDisconnect >> \o after) = {DoDisconnect} \union Range(after)
      BY SingletonFacts, ConcatFacts
    <2>2. DoDisconnect # DoReceive
      BY DEF DoDisconnect, DoReceive
    <2>3. work # << >> => IsSeq(Tail(work)) /\ Range(work) = {Head(work)} \union Range(Tail(work))
      BY <2>0, TailFacts DEF Seqs
    <2>4. \A event, after : IsSeq(after) /\ Leave(event, after) /\ DoReceive \in Range(work') => DoReceive \in Range(after)
      <3> SUFFICES ASSUME NEW event, NEW after, IsSeq(after), Leave(event, after), DoReceive \in Range(work')
                   PROVE  DoReceive \in Range(after)
        OBVIOUS
      <3>1. work' = after \/ work' = << DoDisconnect >> \o after
        BY DEF Leave
      <3> QED BY <2>1, <2>2, <3>1, Zenon
    <2>5. DoReceive \in Range(work') => DoReceive \in Range(work)
      BY <2>0, <2>3, <2>4, <1>WorkCases, Zenon
    <2>6. ASSUME ReceivePackets PROVE DoReceive \in Range(work) /\ DoReceive \notin Range(work')
      <3>1. Does("ReceivePackets") /\ work # << >> /\ work' = Tail(work)
        BY <2>6 DEF ReceivePackets, Does
      <3>2. Head(work).do = "ReceivePackets" /\ Head(work) \in Range(work)
        BY <2>0, <3>1, DoesFacts
      <3>3. Head(work) = DoReceive
        <4>1. IsStep(Head(work))
          BY <3>2 DEF ShapeInv
        <4> QED BY <3>2, <4>1 DEF IsStep, DoDisconnect, DoProcess
      <3>4. Tail(work) = << >>
        BY <2>0, <3>1, <3>3, <1>LastTail DEF Seqs, ShapeInv
      <3> QED BY <2>0, <3>1, <3>2, <3>3, <3>4, Zenon
    <2> QED BY <2>5, <2>6
  \* A step starts a read only where another one ends, but for the SendHandler of
  \* the acknowledgement, which starts the first one.
  <1>UnderwayStep. ASSUME IInv, ShapeInv, Next
                   PROVE  /\ Underway(work) \in Nat /\ Underway(work)' \in Nat
                          /\ Underway(work)' <= Underway(work) + One(OnAckSent)
                          /\ OnAckSent /\ UNCHANGED work => Underway(work)' <= Underway(work)
    <2> USE <1>UnderwayStep
    <2>0. Seqs /\ ShapeInv'
      BY <1>NextShape DEF IInv
    <2>1. Pending(Reading) \in Nat /\ One(DoReceive \in Range(work)) \in {0, 1} /\ One(DoReceive \in Range(work'))  \in {0, 1}
      BY <2>0, PendingType DEF One
    <2>2. CASE OnAckSent
      <3>1. Pending(Reading) = Pending(Reading)' + One(Reading = Attempt) /\ Pending(Reading)' \in Nat
        BY <2>0, <2>2, DonePending
      <3>2. Pending(Reading)' = Pending(Reading)
        BY <3>1, ClassFacts DEF One
      <3>3. work = << >> /\ Range(<< >>) = {}
        BY <2>2, EmptyFacts DEF OnAckSent, Runs
      <3>4. One(DoReceive \in Range(work)) = 0 /\ One(OnAckSent) = 1
        BY <2>2, <3>3 DEF One
      <3> QED BY <2>1, <3>2, <3>4 DEF Underway, One
    <2>3. CASE OnReceive
      <3>1. Pending(Reading) = Pending(Reading)' + 1 /\ Pending(Reading)' \in Nat
        BY <2>0, <2>3, DonePending DEF One
      <3> QED BY <2>1, <3>1 DEF Underway, One
    <2>4. CASE ReceivePackets
      <3>1. ~OnAckSent /\ ~OnReceive
        BY <2>4 DEF ReceivePackets, Does, OnAckSent, OnReceive, Runs
      <3>2. Pending(Reading)' = Pending(Reading) + 1
        BY <2>0, <2>4, ReadPending DEF One
      <3>3. DoReceive \in Range(work) /\ DoReceive \notin Range(work')
        BY <2>4, <3>1, <1>WorkReads
      <3> QED BY <2>1, <3>1, <3>2, <3>3 DEF Underway, One
    <2>5. CASE ~OnAckSent /\ ~OnReceive /\ ~ReceivePackets
      <3>1. DoReceive \in Range(work') => DoReceive \in Range(work)
        BY <2>5, <1>WorkReads
      <3>2. Pending(Reading)' \in Nat /\ Pending(Reading)' = Pending(Reading)
        <4>1. CASE OnConnect \/ OnHandshakeSent \/ OnHandshakeRejected \/ OnHandshakeResponse \/ OnRequestSent
          <5>1. PICK b : Pending(Reading) = Pending(Reading)' + One(b) /\ Pending(Reading)' \in Nat /\ ~b
            <6>1. CASE OnConnect
              BY <2>0, <6>1, ConnectPending, ClassFacts, Zenon
            <6>2. CASE OnHandshakeSent
              BY <2>0, <6>2, HandshakePending, ClassFacts, Zenon
            <6>3. CASE OnHandshakeRejected
              BY <2>0, <6>3, RejectPending, ClassFacts, Zenon
            <6>4. CASE OnHandshakeResponse
              BY <2>0, <6>4, ResponsePending, ClassFacts, Zenon
            <6>5. CASE OnRequestSent
              BY <2>0, <6>5, DonePending, ClassFacts, Zenon
            <6> QED BY <4>1, <6>1, <6>2, <6>3, <6>4, <6>5
          <5> QED BY <5>1 DEF One
        <4>2. CASE OnPostRequest \/ \E r \in Requests : PostRequest(r)
          BY <2>0, <2>1, <4>2, RequestKeeps, ClassFacts
        <4>3. CASE Start
          <5>1. Pending(Reading)' = Pending(Reading) + One(Reading = Attempt)
            BY <2>0, <4>3, StartPending
          <5> QED BY <2>1, <5>1, ClassFacts DEF One
        <4> QED BY <2>0, <2>1, <2>5, <4>1, <4>2, <4>3, PendingKept, ClassFacts DEF Next, Worker, Application
      <3> QED BY <2>1, <2>5, <3>1, <3>2 DEF Underway, One
    <2> QED BY <2>2, <2>3, <2>4, <2>5
  \* A step that adds only such packets.
  <1>GreetingKept. ASSUME Greeting,
                          \A h \in Range(sends') : h \in Range(sends) \/ Greets(h),
                          \A t \in Range(ioQueue') : t \in Range(ioQueue) \/ t.kind # "SendNextPacket" \/ Greets(t.handler)
                   PROVE  Greeting'
    BY <1>GreetingKept DEF Greeting
  \* Without a connection no request and no heartbeat is sent.
  <1>NextGreeting. ASSUME Seqs, Greeting, state = "Inited", Next PROVE Greeting'
    <2> USE <1>NextGreeting
    <2>1. \A kind : Runs(kind) => IsSeq(Rest) /\ Range(ioQueue) = {Task} \union Range(Rest) /\ Task.kind = kind
      BY RunsFacts
    <2>2. Range(ioQueue \o Aborted) = Range(ioQueue) \union Range(Aborted) /\ \A t \in Range(Aborted) : t.kind # "SendNextPacket"
      <3>1. \A t \in Range(Aborted) : t.kind # "SendNextPacket"
        BY AbortedRange DEF ReceiveDone, ConnectDone, SendDone
      <3> QED BY <3>1, AbortedRange, ConcatFacts DEF Seqs
    <2>3. \A q, x : IsSeq(q) => Range(Append(q, x)) = Range(q) \union {x}
      BY AppendFacts
    <2>4. Range(<< >>) = {}
      BY EmptyFacts
    <2>5. sends # << >> => Range(Tail(sends)) \subseteq Range(sends)
      BY TailFacts DEF Seqs
    <2>6. CASE \/ OnHandshakeRejected \/ OnAckSent \/ OnReceive \/ OnRequestSent \/ OnRequestTimeout \/ OnTick
               \/ OnHeartbeatSent \/ OnHeartbeatTimeout \/ OnPostRequest
      <3>1. PICK kind : Runs(kind) /\ ioQueue' = Rest /\ UNCHANGED sends
        BY <2>6, Zenon DEF OnHandshakeRejected, OnAckSent, OnReceive, OnRequestSent, OnRequestTimeout, OnTick, OnHeartbeatSent,
              OnHeartbeatTimeout, OnPostRequest, socketVars
      <3> QED BY <2>1, <3>1, <1>GreetingKept
    <2>7. CASE OnConnect \/ OnHandshakeResponse
      <3>1. PICK kind, h : /\ Runs(kind) /\ UNCHANGED sends /\ Greets(h)
                           /\ ioQueue' = Rest \/ ioQueue' = SendPacket(Rest, h)
        <4>1. CASE OnConnect
          BY <4>1 DEF OnConnect, Greets, HandshakeHandler, socketVars
        <4>2. CASE OnHandshakeResponse
          <5>1. PICK d : /\ Runs("ReceiveDone") /\ UNCHANGED sends
                         /\ ioQueue' = Rest \/ ioQueue' = SendPacket(Rest, AckHandler(d))
            BY <4>2, Zenon DEF OnHandshakeResponse, socketVars
          <5>2. Greets(AckHandler(d))
            BY DEF Greets, AckHandler
          <5> QED BY <5>1, <5>2
        <4> QED BY <2>7, <4>1, <4>2
      <3>2. Range(ioQueue') \subseteq Range(Rest) \union {PostedSend(h)} /\ PostedSend(h).handler = h
        BY <2>1, <3>1, SendPacketFacts, Zenon DEF PostedSend
      <3> QED BY <2>1, <3>1, <3>2, <1>GreetingKept, Zenon
    <2>8. CASE OnHandshakeSent \/ ReceivePackets
      <3>1. PICK q : /\ Range(q) \subseteq Range(ioQueue) /\ IsSeq(q) /\ UNCHANGED sends
                     /\ ioQueue' = q \/ \E reader : StartReceive(q, reader)
        BY <2>1, <2>8 DEF OnHandshakeSent, ReceivePackets, Seqs
      <3>2. PICK x : (ioQueue' = q \/ ioQueue' = Append(q, x)) /\ x.kind # "SendNextPacket"
        <4>1. CASE ioQueue' = q
          <5>1. Tick.kind # "SendNextPacket"
            BY DEF Tick
          <5> QED BY <4>1, <5>1
        <4>2. CASE \E reader : StartReceive(q, reader)
          BY <4>2 DEF StartReceive, ReceiveDone
        <4> QED BY <3>1, <4>1, <4>2
      <3>3. Range(ioQueue') \subseteq Range(q) \union {x}
        BY <2>3, <3>1, <3>2, Zenon
      <3> QED BY <3>1, <3>2, <3>3, <1>GreetingKept
    <2>9. CASE SendNextPacket
      <3>1. Runs("SendNextPacket") /\ Greets(Task.handler) /\ IsSeq(Rest) /\ Range(Rest) \subseteq Range(ioQueue)
        BY <2>1, <2>9 DEF SendNextPacket, Greeting
      <3>2. Range(sends') \subseteq Range(sends) \union {Task.handler}
        BY <2>3, <2>9, Zenon DEF SendNextPacket, Seqs
      <3>3. Range(ioQueue') \subseteq Range(Rest) \union {SendDone(Task.handler, "error")}
        BY <2>3, <2>9, <3>1, Zenon DEF SendNextPacket
      <3>4. SendDone(Task.handler, "error").kind # "SendNextPacket"
        BY DEF SendDone
      <3> QED BY <3>1, <3>2, <3>3, <3>4, <1>GreetingKept, Zenon
    <2>10. CASE ProcessFatal \/ ProcessHeartbeat \/ ProcessMessage
      BY <2>10, Zenon DEF ProcessFatal, ProcessHeartbeat, ProcessMessage, Greeting, socketVars
    <2>11. CASE Disconnect \/ Start
      <3>1. ioQueue' = ioQueue \o Aborted /\ sends' = << >>
        BY <2>11 DEF Disconnect, Start
      <3> QED BY <2>2, <2>4, <3>1, <1>GreetingKept
    <2>12. CASE Environment \/ \E r \in Requests : PostRequest(r)
      <3>1. Range(sends') \subseteq Range(sends)
        BY <2>5, <2>12, Zenon DEF Environment, ConnectCompletes, SendCompletes, SendFails, ReceiveCompletes, ReceiveFails,
              HeartbeatTimerExpires, HeartbeatTimeoutExpires, RequestTimerExpires, PostRequest, socketVars
      <3>2. PICK x : ioQueue' = Append(ioQueue, x) /\ x.kind # "SendNextPacket"
        <4>0. CASE ConnectCompletes
          BY <4>0 DEF ConnectCompletes, ConnectDone
        <4>1. CASE SendCompletes \/ SendFails
          <5>1. PICK ec : ioQueue' = Append(ioQueue, SendDone(Head(sends), ec))
            BY <4>1 DEF SendCompletes, SendFails
          <5>2. SendDone(Head(sends), ec).kind # "SendNextPacket"
            BY DEF SendDone
          <5> QED BY <5>1, <5>2
        <4>2. CASE ReceiveCompletes \/ ReceiveFails
          <5>1. PICK ec, ps : ioQueue' = Append(ioQueue, ReceiveDone(Head(recvs), ec, ps))
            BY <4>2 DEF ReceiveCompletes, ReceiveFails
          <5>2. ReceiveDone(Head(recvs), ec, ps).kind # "SendNextPacket"
            BY DEF ReceiveDone
          <5> QED BY <5>1, <5>2
        <4>3. CASE HeartbeatTimerExpires \/ HeartbeatTimeoutExpires \/ RequestTimerExpires
          <5>1. \/ ioQueue' = Append(ioQueue, Tick) \/ ioQueue' = Append(ioQueue, HeartbeatTimedOut(epoch))
                \/ \E id : ioQueue' = Append(ioQueue, RequestTimedOut(id))
            BY <4>3 DEF HeartbeatTimerExpires, HeartbeatTimeoutExpires, RequestTimerExpires, socketVars
          <5>2. /\ Tick.kind # "SendNextPacket" /\ HeartbeatTimedOut(epoch).kind # "SendNextPacket"
                /\ \A id : RequestTimedOut(id).kind # "SendNextPacket"
            BY DEF Tick, HeartbeatTimedOut, RequestTimedOut
          <5> QED BY <5>1, <5>2
        <4>4. CASE \E r \in Requests : PostRequest(r)
          BY <4>4 DEF PostRequest, PostedRequest, socketVars
        <4> QED BY <2>12, <4>0, <4>1, <4>2, <4>3, <4>4 DEF Environment
      <3>3. Range(ioQueue') = Range(ioQueue) \union {x}
        BY <2>3, <3>2 DEF Seqs
      <3> QED BY <3>1, <3>2, <3>3, <1>GreetingKept
    <2> QED BY <2>6, <2>7, <2>8, <2>9, <2>10, <2>11, <2>12 DEF Next, Worker, Application
  \* Every step keeps the reads apart.
  <1>NextReads. ASSUME IInv, AttemptInv, EndInv, ShapeInv, ReadInv, Next, StartsWhenIdle
                PROVE  ReadInv'
    <2> USE <1>NextReads
    <2>0. Seqs /\ Underway(work) \in Nat /\ Underway(work)' \in Nat
      BY <1>UnderwayStep DEF IInv
    <2>1. Quiet => state = "Inited"
      BY EventFacts DEF Quiet, AttemptInv, StateMatchesEvents, Established
    <2>2. Quiet => Greeting'
      BY <2>0, <2>1, <1>NextGreeting DEF ReadInv
    <2>3. CASE Start
      <3>1. work = << >> /\ ioQueue = << >> /\ (starts = 0 \/ Ended)
        BY <2>3, Zenon DEF Start, MayStart, StartsWhenIdle
      <3>2. Range(<< >>) = {}
        BY EmptyFacts
      <3>3. Underway(work) = 0
        <4>1. CASE Quiet
          BY <4>1 DEF ReadInv
        <4>2. CASE ~Quiet
          <5>1. starts # 0
            BY <2>0, <4>2, AttemptFacts DEF Quiet
          <5>2. events # Established
            BY <3>1, <5>1, EventFacts DEF Ended
          <5>3. socket = "closed"
            BY <3>1, <3>2, <4>2, <5>2 DEF AttemptInv, Quiet, EndInv
          <5>4. recvs = << >> /\ sends = << >>
            BY <5>3 DEF ShapeInv
          <5>5. Pending(Reading) = 0
            BY <2>0, <3>1, <3>2, <5>4, PendingType, ClassFacts
          <5> QED BY <3>1, <3>2, <5>5 DEF Underway, One
        <4> QED BY <4>1, <4>2
      <3>4. ~OnAckSent
        BY <3>1, Zenon DEF OnAckSent, Runs
      <3>5. Underway(work)' = 0
        BY <2>0, <3>3, <3>4, <1>UnderwayStep DEF One
      <3>6. Greeting'
        <4>1. sends' = << >> /\ ioQueue' = ioQueue \o Aborted
          BY <2>3 DEF Start
        <4>2. Range(ioQueue') = Range(Aborted)
          BY <2>0, <3>1, <3>2, <4>1, AbortedRange, ConcatFacts DEF Seqs
        <4>3. \A t \in Range(Aborted) : t.kind # "SendNextPacket"
          BY <2>0, AbortedRange DEF ReceiveDone, ConnectDone, SendDone
        <4> QED BY <3>2, <4>1, <4>2, <4>3 DEF Greeting
      <3> QED BY <3>5, <3>6 DEF ReadInv
    <2>4. CASE UNCHANGED events /\ (OnAckSent => UNCHANGED work)
      <3>1. Underway(work)' <= Underway(work)
        BY <2>0, <2>4, <1>UnderwayStep DEF One
      <3>2. Quiet' => Quiet
        BY <2>4 DEF Quiet
      <3> QED BY <2>0, <2>2, <3>1, <3>2 DEF ReadInv
    <2>5. CASE events = << >> /\ events' \in {Failed, Established} /\ (OnAckSent => events' = Established)
      <3>1. Quiet /\ Underway(work) = 0 /\ Greeting'
        BY <2>2, <2>5 DEF Quiet, ReadInv
      <3>2. Underway(work)' <= 1
        BY <2>0, <3>1, <1>UnderwayStep DEF One
      <3>3. Quiet' => ~OnAckSent
        BY <2>5, EventFacts DEF Quiet
      <3>4. Quiet' => Underway(work)' = 0
        BY <2>0, <3>1, <3>3, <1>UnderwayStep DEF One
      <3> QED BY <3>1, <3>2, <3>4 DEF ReadInv
    <2>6. CASE events = Established /\ events' \in Over
      <3>1. ~OnAckSent
        <4> SUFFICES ASSUME OnAckSent PROVE FALSE
          OBVIOUS
        <4>1. PICK kind : Runs(kind) /\ TaskClass(Task) = Attempt
          BY <2>0, AttemptTask
        <4>2. events = << >>
          BY <2>0, <4>1, AttemptRuns
        <4> QED BY <2>6, <4>2, EventFacts
      <3>2. ~Quiet'
        BY <2>6, EventFacts DEF Quiet
      <3> QED BY <2>0, <3>1, <3>2, <1>UnderwayStep DEF ReadInv, One
    <2> QED BY <2>3, <2>4, <2>5, <2>6, EventSteps
  <1> SUFFICES ASSUME IdleInv, [Next]_vars PROVE IdleInv'
    OBVIOUS
  <1>0. Restart # "anytime"
    BY Zenon DEF StartsWhenIdle
  <1>1. IInv' /\ AttemptInv'
    BY <1>0, NextIInv, NextAttempts DEF IdleInv
  <1>2. CASE Next
    BY <1>1, <1>2, NextEnd, <1>NextShape, <1>NextReads DEF IdleInv
  <1>3. CASE UNCHANGED vars
    <2>1. UNCHANGED << socket, connect, recvs, sends, work, ioQueue, events >>
      BY <1>3 DEF vars, socketVars
    <2>2. EndInv' /\ ShapeInv'
      BY <2>1 DEF IdleInv, EndInv, ShapeInv
    <2>3. Underway(work)' = Underway(work) /\ Greeting' = Greeting /\ Quiet' = Quiet
      BY <2>1, Zenon DEF Underway, Pending, Greeting, Quiet
    <2> QED BY <1>1, <2>2, <2>3 DEF IdleInv, ReadInv
  <1> QED BY <1>2, <1>3

\* ReceiveHandshakeResponse and ReceivePackets never read at the same time, and
\* neither reads twice: when the application calls Start again with the worker at
\* rest, no read of the old connection is left.
THEOREM ConnectionReadsOnce == ASSUME StartsWhenIdle PROVE Spec => []OneReader
  \* At most one read is about to be started.
  <1>LastCount. ASSUME NEW q, IsSeq(q), ReadsLast(q)
                PROVE  Cardinality({i \in DOMAIN q : q[i] = DoReceive}) = One(DoReceive \in Range(q))
    <2> USE <1>LastCount
    <2> DEFINE A == {i \in DOMAIN q : q[i] = DoReceive}
    <2>1. Len(q) \in Nat /\ DOMAIN q = 1..Len(q)
      BY SeqShape
    <2>2. CASE A = {}
      <3>1. DoReceive \notin Range(q)
        BY <2>2 DEF Range
      <3> QED BY <2>2, <3>1, FS_EmptySet DEF One
    <2>3. CASE A # {}
      <3>1. A = {Len(q)}
        BY <2>1, <2>3, Zenon DEF ReadsLast
      <3>2. DoReceive \in Range(q)
        BY <2>3 DEF Range
      <3>3. Cardinality({Len(q)}) = 1
        BY FS_Singleton, Zenon
      <3> HIDE DEF A
      <3> QED BY <3>1, <3>2, <3>3, Zenon DEF A, One
    <2> QED BY <2>2, <2>3
  \* Two sets of positions cover a third.
  <1>IndexCover. ASSUME NEW n \in Nat, NEW A, A \subseteq 1..n, NEW B, B \subseteq 1..n, NEW C, C \subseteq A \union B
                 PROVE  Cardinality(C) \in Nat /\ Cardinality(C) <= Cardinality(A) + Cardinality(B)
    <2> USE <1>IndexCover
    <2>1. IsFiniteSet(A) /\ IsFiniteSet(B) /\ Cardinality(A) \in Nat /\ Cardinality(B) \in Nat
      BY IndexType, Zenon
    <2>2. A \intersect B \subseteq 1..n
      OBVIOUS
    <2>3. Cardinality(A \intersect B) \in Nat
      BY <2>2, IndexType, Zenon
    <2>4. /\ IsFiniteSet(A \union B)
          /\ Cardinality(A \union B) = Cardinality(A) + Cardinality(B) - Cardinality(A \intersect B)
      BY <2>1, FS_Union
    <2>5. C \in SUBSET (A \union B) /\ C \subseteq 1..n
      OBVIOUS
    <2>6. Cardinality(C) <= Cardinality(A \union B) /\ Cardinality(C) \in Nat
      BY <2>4, <2>5, FS_Subset, IndexType, Zenon
    <2> QED BY <2>1, <2>3, <2>4, <2>6
  \* All the positions of a sequence.
  <1>IntervalSize. ASSUME NEW n \in Nat PROVE Cardinality(1..n) = n
    <2>1. n \in Int /\ 1 \in Int
      OBVIOUS
    <2>2. Cardinality(1..n) = IF 1 > n THEN 0 ELSE n - 1 + 1
      BY <2>1, FS_Interval, Zenon
    <2> QED BY <2>2
  \* Adding up the reads that are pending and those that have completed.
  <1>SumBound. ASSUME NEW l \in Nat, NEW r \in Nat, NEW w \in Nat, NEW ta \in Nat, NEW tr \in Nat, NEW ra \in Nat, NEW rr \in Nat,
                      NEW pa \in Nat, NEW pr \in Nat, l <= ra + rr, r <= ta + tr, pa >= ta + ra, pr >= tr + rr
               PROVE  l + r + w <= pa + (pr + w)
    BY <1>SumBound
  \* Every read is one of the handshake response or one of packets.
  <1>ReadsBound. ASSUME Seqs, ShapeInv
                 PROVE  Reads <= Pending(Attempt) + Underway(work)
    <2> USE <1>ReadsBound
    <2> DEFINE R == {i \in DOMAIN ioQueue : ioQueue[i].kind = "ReceiveDone"}
               W == {i \in DOMAIN work : work[i] = DoReceive}
               RA == {i \in 1..Len(recvs) : ReaderClass(recvs[i]) = Attempt}
               RR == {i \in 1..Len(recvs) : ReaderClass(recvs[i]) = Reading}
               QA == {i \in 1..Len(ioQueue) : TaskClass(ioQueue[i]) = Attempt}
               QR == {i \in 1..Len(ioQueue) : TaskClass(ioQueue[i]) = Reading}
    <2>1. Len(recvs) \in Nat /\ Len(ioQueue) \in Nat /\ DOMAIN ioQueue = 1..Len(ioQueue)
      BY SeqShape DEF Seqs
    <2>2. Cardinality(1..Len(recvs)) = Len(recvs)
      BY <2>1, <1>IntervalSize
    <2>3. 1..Len(recvs) \subseteq RA \union RR
      BY DEF ReaderClass
    <2>4. R \subseteq QA \union QR
      BY <2>1, Zenon DEF TaskClass, ReaderClass
    <2>5. Cardinality(W) = One(DoReceive \in Range(work))
      BY <1>LastCount DEF Seqs, ShapeInv
    <2>6. RA \subseteq 1..Len(recvs) /\ RR \subseteq 1..Len(recvs) /\ QA \subseteq 1..Len(ioQueue) /\ QR \subseteq 1..Len(ioQueue)
      OBVIOUS
    <2>7. /\ Cardinality(RA) = Receives(recvs, Attempt) /\ Cardinality(RR) = Receives(recvs, Reading)
          /\ Cardinality(QA) = Tasks(ioQueue, Attempt) /\ Cardinality(QR) = Tasks(ioQueue, Reading)
      BY DEF Receives, Tasks
    <2>8. Reads = Len(recvs) + Cardinality(R) + Cardinality(W)
      BY DEF Reads
    <2> HIDE DEF R, W, RA, RR, QA, QR
    <2>9. Len(recvs) <= Receives(recvs, Attempt) + Receives(recvs, Reading)
      BY <2>1, <2>2, <2>3, <2>6, <2>7, <1>IndexCover, Zenon
    <2>10. Cardinality(R) <= Tasks(ioQueue, Attempt) + Tasks(ioQueue, Reading) /\ Cardinality(R) \in Nat
      BY <2>1, <2>4, <2>6, <2>7, <1>IndexCover, Zenon
    <2>11. /\ Tasks(ioQueue, Attempt) \in Nat /\ Tasks(ioQueue, Reading) \in Nat
           /\ Handlers(sends, Attempt) \in Nat /\ Handlers(sends, Reading) \in Nat
           /\ Receives(recvs, Attempt) \in Nat /\ Receives(recvs, Reading) \in Nat
           /\ \A b : One(b) \in {0, 1}
      BY CountTypes
    <2>12. /\ Pending(Attempt) >= Tasks(ioQueue, Attempt) + Receives(recvs, Attempt)
           /\ Pending(Attempt) \in Nat
      BY <2>11 DEF Pending
    <2>13. /\ Pending(Reading) >= Tasks(ioQueue, Reading) + Receives(recvs, Reading)
           /\ Pending(Reading) \in Nat
      BY <2>11 DEF Pending
    <2>14. Underway(work) = Pending(Reading) + Cardinality(W) /\ Cardinality(W) \in Nat
      BY <2>5, <2>11 DEF Underway
    <2>15. Len(recvs) + Cardinality(R) + Cardinality(W) <= Pending(Attempt) + (Pending(Reading) + Cardinality(W))
      <3>1. /\ Tasks(ioQueue, Attempt) \in Nat /\ Tasks(ioQueue, Reading) \in Nat
            /\ Receives(recvs, Attempt) \in Nat /\ Receives(recvs, Reading) \in Nat /\ Cardinality(W) \in Nat
        BY <2>11, <2>14
      <3> QED BY <2>1, <2>9, <2>10, <2>12, <2>13, <3>1, <1>SumBound
    <2> QED BY <2>8, <2>14, <2>15
  <1>1. IdleInv => OneReader
    <2> SUFFICES ASSUME IdleInv PROVE Reads <= 1
      BY DEF OneReader
    <2>1. Seqs /\ AttemptInv /\ ShapeInv /\ ReadInv
      BY DEF IdleInv, IInv
    <2>2. Pending(Attempt) \in {0, 1} /\ (Pending(Attempt) = 1 => events = << >>)
      BY <2>1, AttemptFacts
    <2>3. Underway(work) \in Nat /\ Underway(work) <= 1 /\ (events = << >> => Underway(work) = 0)
      <3>1. Pending(Reading) \in Nat
        BY <2>1, PendingType
      <3>2. Underway(work) \in Nat
        BY <3>1 DEF Underway, One
      <3> QED BY <2>1, <3>2 DEF ReadInv, Quiet
    <2>4. Reads <= Pending(Attempt) + Underway(work) /\ Reads \in Int
      <3>1. Len(recvs) \in Nat /\ Len(ioQueue) \in Nat /\ DOMAIN ioQueue = 1..Len(ioQueue)
        BY <2>1, SeqShape DEF Seqs
      <3>2. Cardinality({i \in DOMAIN ioQueue : ioQueue[i].kind = "ReceiveDone"}) \in Nat
        BY <3>1, IndexType
      <3>3. Cardinality({i \in DOMAIN work : work[i] = DoReceive}) \in Nat
        <4>1. Cardinality({i \in DOMAIN work : work[i] = DoReceive}) = One(DoReceive \in Range(work))
          BY <2>1, <1>LastCount DEF Seqs, ShapeInv
        <4>2. \A b : One(b) \in Nat
          BY DEF One
        <4> QED BY <4>1, <4>2
      <3>4. Reads \in Int
        BY <3>1, <3>2, <3>3 DEF Reads
      <3> QED BY <2>1, <3>4, <1>ReadsBound
    <2> QED BY <2>2, <2>3, <2>4
  <1> QED BY <1>1, InitIdle, NextIdle, PTL DEF Spec

\* When the application may call Start again with the worker at rest, the
\* worker uses the socket no more: async_connect closes it under no operation.
THEOREM ConnectionStartsAlone == ASSUME StartsWhenIdle PROVE Spec => []StartHasSocketAlone
  <1>1. IdleInv => StartHasSocketAlone
    <2> SUFFICES ASSUME IdleInv, starts > 0, MayStart PROVE ~connect /\ recvs = << >> /\ sends = << >>
      BY Zenon DEF StartHasSocketAlone
    <2>1. Seqs /\ AttemptInv /\ ShapeInv /\ ReadInv /\ EndInv /\ starts \in Nat
      BY DEF IdleInv, IInv, AttemptInv
    <2>2. work = << >> /\ (starts = 0 \/ Ended)
      BY Zenon DEF MayStart, StartsWhenIdle
    <2>3. events # << >> /\ events # Established
      BY <2>1, <2>2, EventFacts DEF Ended
    <2>4. Pending(Attempt) = 0
      BY <2>1, <2>3, AttemptFacts
    <2>5. /\ ~connect
          /\ \A h \in Range(sends) : HandlerClass(h) # Attempt
          /\ \A r \in Range(recvs) : ReaderClass(r) # Attempt
      BY <2>1, <2>4, PendingType
    <2>6. CASE events \in Over
      <3>1. socket = "closed"
        BY <2>1, <2>2, <2>6, EmptyFacts DEF EndInv
      <3> QED BY <2>1, <2>5, <3>1 DEF ShapeInv
    <2>7. CASE events = Failed
      <3>1. Underway(work) = 0 /\ Greeting
        BY <2>1, <2>7 DEF ReadInv, Quiet
      <3>2. Pending(Reading) = 0
        BY <2>1, <3>1, PendingType DEF Underway, One
      <3>3. \A r \in Range(recvs) : ReaderClass(r) # Reading
        BY <2>1, <3>2, PendingType
      <3>4. Range(recvs) = {}
        BY <2>5, <3>3 DEF ReaderClass
      <3>5. Range(sends) = {}
        BY <2>5, <3>1, Zenon DEF Greeting, Greets, HandlerClass
      <3>6. \A q : IsSeq(q) /\ Range(q) = {} => q = << >>
        BY SeqShape
      <3> QED BY <2>1, <2>5, <3>4, <3>5, <3>6 DEF Seqs
    <2> QED BY <2>1, <2>3, <2>6, <2>7 DEF AttemptInv
  <1> QED BY <1>1, InitIdle, NextIdle, PTL DEF Spec

-----------------------------------------------------------------------------
(* The program *)

\* A step of the program is a step of the Connection or leaves it alone.
LEMMA LifeStep == [LifeNext]_allVars => [Next]_vars
  <1> SUFFICES ASSUME [LifeNext]_allVars PROVE [Next]_vars
    OBVIOUS
  <1>1. CASE LifeNext
    <2>1. CASE Main
      BY <1>1, <2>1, Zenon DEF LifeNext, Main, ConstructThread, ConstructMembers, Connect, Wait, Request, ResetWork, Join,
            Next, Application
    <2>2. CASE StartWorkerThread \/ RunHandler \/ RunReturns \/ Outside
      BY <1>1, <2>2 DEF LifeNext, StartWorkerThread, RunHandler, RunReturns, Outside, Next
    <2> QED BY <1>1, <2>1, <2>2 DEF LifeNext
  <1>2. CASE UNCHANGED allVars
    BY <1>2 DEF allVars
  <1> QED BY <1>1, <1>2

\* Constructor, destructor and example use the Connection as its specification
\* allows: whatever holds of Connection!Spec holds in the program.
THEOREM LifecycleImplementsConnection == LifeSpec => Spec
  <1>1. LifeInit => Init
    BY DEF LifeInit
  <1> QED BY <1>1, LifeStep, PTL DEF LifeSpec, Spec

StateType == state \in {"Inited", "Connected"}

\* The state is one of the two.
LEMMA NextState == StateType /\ [Next]_vars => StateType'
  <1> SUFFICES ASSUME StateType, [Next]_vars PROVE StateType'
    OBVIOUS
  <1>1. CASE Worker
    <2>1. state' \in {state, "Inited", "Connected"}
      BY <1>1, Zenon DEF Worker, stateVars, OnConnect, OnHandshakeSent, OnHandshakeRejected, OnHandshakeResponse, OnAckSent,
            OnReceive, ProcessFatal, ProcessHeartbeat, ProcessMessage, ReceivePackets, Disconnect, SendNextPacket,
            OnPostRequest, OnRequestSent, OnRequestTimeout, OnTick, OnHeartbeatSent, OnHeartbeatTimeout,
            HandshakeFailed, SetInited, SetConnected, Leave, ConnectionError, KickedFromServer, ExtendHeartbeatTimeout
    <2> QED BY <2>1 DEF StateType
  <1>2. CASE Environment \/ Application
    BY <1>2, Zenon DEF Environment, Application, stateVars, ConnectCompletes, SendCompletes, SendFails, ReceiveCompletes,
          ReceiveFails, HeartbeatTimerExpires, HeartbeatTimeoutExpires, RequestTimerExpires, PostRequest, Start, StateType
  <1>3. CASE UNCHANGED vars
    BY <1>3 DEF vars, stateVars, StateType
  <1> QED BY <1>1, <1>2, <1>3 DEF Next

\* Once run() has returned there is no work, and main is past its last post.
EndedInv == worker = "ended" => main \in {"join", "destroyed"} /\ ~HasWork

GuardInv == ~guard => main \in {"join", "destroyed"}

\* Nothing makes work for a worker that has ended.
LEMMA NextEnded == GuardInv /\ EndedInv /\ [LifeNext]_allVars => GuardInv' /\ EndedInv'
  <1> SUFFICES ASSUME GuardInv, EndedInv, [LifeNext]_allVars PROVE GuardInv' /\ EndedInv'
    OBVIOUS
  <1> USE DEF GuardInv, EndedInv
  <1>0. UNCHANGED vars /\ guard' = guard => HasWork' = HasWork
    BY DEF vars, stateVars, requestVars, socketVars, HasWork
  <1>1. CASE Main
    BY <1>0, <1>1 DEF Main, ConstructThread, ConstructMembers, Connect, Wait, Request, ResetWork, Join
  <1>2. CASE StartWorkerThread \/ RunHandler
    BY <1>2 DEF StartWorkerThread, RunHandler
  <1>3. CASE RunReturns
    BY <1>0, <1>3, Zenon DEF RunReturns, HasWork
  <1>4. CASE Outside
    <2>1. HasWork
      BY <1>4, Zenon DEF Outside, Environment, HasWork, ConnectCompletes, SendCompletes, SendFails, ReceiveCompletes,
            ReceiveFails, HeartbeatTimerExpires, HeartbeatTimeoutExpires, RequestTimerExpires
    <2> QED BY <1>4, <2>1 DEF Outside, lifeVars
  <1>5. CASE UNCHANGED allVars
    BY <1>0, <1>5 DEF allVars, lifeVars
  <1> QED BY <1>1, <1>2, <1>3, <1>4, <1>5 DEF LifeNext

LInv == RInv /\ RequestTimed /\ StateType /\ GuardInv /\ EndedInv

\* The invariants of the Connection leave nothing where no work is left.
LEMMA QuietFacts == LInv => DestroyedQuietly
  <1> SUFFICES ASSUME LInv, worker = "ended"
               PROVE  /\ state = "Inited" /\ inFlight = {} /\ ~HasWork
                      /\ \A r \in posted : answers[r] # << >> \/ r \in lost
    BY DEF DestroyedQuietly
  <1>1. /\ ~HasWork /\ ioQueue = << >> /\ sends = << >> /\ ~heartbeatTimer /\ reqTimers = {}
    BY DEF LInv, EndedInv, HasWork
  <1>2. Range(ioQueue) = {} /\ Range(sends) = {}
    BY <1>1, EmptyFacts
  <1>3. state = "Inited"
    BY <1>1, <1>2 DEF LInv, RInv, IInv, HeartbeatScheduled, StateType
  <1>4. inFlight = {}
    BY <1>1, <1>2 DEF LInv, RequestTimed
  <1>5. OnTheWay = {}
    BY <1>2 DEF OnTheWay, TaskRequests
  <1>6. \A r \in posted : answers[r] # << >> \/ r \in lost
    BY <1>2, <1>4, <1>5, Zenon DEF LInv, RInv, NoRequestLost, Placed
  <1> QED BY <1>1, <1>3, <1>4, <1>6

\* When io_context::run returns in StartWorkerThread, and ~Connection frees its
\* members, the connection is over, nothing pending can call a handler, and
\* every request was answered or ignored by SendPacket: for any requests,
\* packets and bounds.
THEOREM LifecycleQuiet == LifeSpec => []DestroyedQuietly
  <1>1. LifeInit => LInv
    <2> SUFFICES ASSUME LifeInit PROVE LInv
      OBVIOUS
    <2>1. Init /\ guard /\ worker = "none"
      BY DEF LifeInit
    <2>2. RequestTimed /\ StateType
      BY <2>1 DEF Init, RequestTimed, StateType
    <2> QED BY <2>1, <2>2, InitRInv DEF LInv, GuardInv, EndedInv
  <1>2. LInv /\ [LifeNext]_allVars => LInv'
    <2> SUFFICES ASSUME LInv, [LifeNext]_allVars PROVE LInv'
      OBVIOUS
    <2>1. [Next]_vars
      BY LifeStep
    <2>2. RInv' /\ RequestTimed' /\ StateType'
      BY <2>1, NextRInv, NextTimed, NextState DEF LInv, RInv
    <2> QED BY <2>2, NextEnded DEF LInv
  <1> QED BY <1>1, <1>2, QuietFacts, PTL DEF LifeSpec

-----------------------------------------------------------------------------
(* The contract of the client *)

\* Where the requests of the application come in, and where it does not hear of
\* the connection.
LEMMA AppSteps ==
  ASSUME Next
  PROVE  \/ UNCHANGED posted
         \/ UNCHANGED << events, answers >> /\ \E r \in Requests : r \notin posted /\ posted' = posted \union {r}
  <1>1. CASE \E r \in Requests : PostRequest(r)
    BY <1>1 DEF PostRequest, historyVars
  <1>2. CASE Start \/ Worker \/ Environment
    BY <1>2, Zenon DEF Worker, Environment, appVars, OnConnect, OnHandshakeSent, OnHandshakeRejected, OnHandshakeResponse,
          OnAckSent, OnReceive, ProcessFatal, ProcessHeartbeat, ProcessMessage, ReceivePackets, Disconnect,
          SendNextPacket, OnPostRequest, OnRequestSent, OnRequestTimeout, OnTick, OnHeartbeatSent,
          OnHeartbeatTimeout, ConnectCompletes, SendCompletes, SendFails, ReceiveCompletes, ReceiveFails,
          HeartbeatTimerExpires, HeartbeatTimeoutExpires, RequestTimerExpires, Start
  <1> QED BY <1>1, <1>2 DEF Next, Application

\* What the contract needs: requests in one place, and one attempt at a time.
CInv == RInv /\ AccountInv /\ AttemptInv

\* A step of the Connection is a step that the contract allows, or one that the
\* application does not see.
LEMMA ContractStep == ASSUME Restart # "anytime" PROVE CInv /\ [Next]_vars => [Contract!Next]_(Contract!vars)
  <1> SUFFICES ASSUME CInv, [Next]_vars PROVE [Contract!Next]_(Contract!vars)
    OBVIOUS
  <1>0. /\ RInv /\ AccountInv /\ AttemptInv /\ IInv
        /\ state = "Connected" <=> events = << "Connected" >>
        /\ state \in {"Inited", "Connected"}
    BY DEF CInv, RInv, AttemptInv, StateMatchesEvents
  <1>1. CASE UNCHANGED vars
    BY <1>1 DEF vars, appVars, historyVars, Contract!vars
  <1>2. CASE Next /\ posted' # posted
    <2>1. \E r \in Requests : Contract!Request(r)
      BY <1>2, AppSteps DEF Contract!Request
    <2> QED BY <2>1 DEF Contract!Next
  <1>3. CASE Next /\ posted' = posted /\ answers' # answers
    <2>1. \E r \in Requests : \E s \in Contract!Statuses : Contract!Answer(r, s)
      BY <1>0, <1>3, AnswerSteps DEF Contract!Answer, Once, Statuses, Contract!Statuses
    <2> QED BY <2>1 DEF Contract!Next
  <1>4. CASE Next /\ posted' = posted /\ answers' = answers
    <2>1. CASE UNCHANGED events
      BY <1>4, <2>1 DEF Contract!vars
    <2>2. CASE Start
      <3>1. events' = << >> /\ (starts = 0 \/ Ended)
        BY <2>2, Zenon DEF Start, MayStart
      <3>2. CASE starts = 0
        <4>1. events = << >>
          BY <1>0, <3>2, AttemptFacts DEF IInv
        <4> QED BY <1>4, <3>1, <4>1 DEF Contract!vars
      <3>3. CASE Ended
        <4>1. events # << >> /\ events # << "Connected" >>
          BY <3>3, EventFacts DEF Ended, Established
        <4> QED BY <1>4, <3>1, <4>1 DEF Contract!Next, Contract!Connect
      <3> QED BY <3>1, <3>2, <3>3
    <2>3. CASE events = << >> /\ events' \in {Failed, Established}
      <3>1. Contract!Hear
        BY <1>4, <2>3 DEF Contract!Hear, Failed, Established
      <3> QED BY <3>1 DEF Contract!Next
    <2>4. CASE events = Established /\ events' \in Over
      <3>1. Contract!Hear
        BY <1>4, <2>4 DEF Contract!Hear, Over, Established
      <3> QED BY <3>1 DEF Contract!Next
    <2> QED BY <1>0, <1>4, <2>1, <2>2, <2>3, <2>4, EventSteps
  <1> QED BY <1>1, <1>2, <1>3, <1>4

\* Connection implements what pitaya::Client promises, for an application that
\* calls Start again only after it heard the previous attempt end: one event per
\* attempt and one for the end of a connection, each request handler called at
\* most once, the server's word only while connected, NotConnectedError only
\* while not.
THEOREM ConnectionImplementsContract == ASSUME Restart # "anytime" PROVE Spec => ImplementsContract
  <1>1. Init => CInv /\ Contract!Init
    <2> SUFFICES ASSUME Init PROVE Contract!Init
      BY InitRInv, InitAccount, InitAttempts DEF CInv
    <2> QED BY DEF Init, Contract!Init
  <1>2. CInv /\ [Next]_vars => CInv'
    <2> SUFFICES ASSUME CInv, [Next]_vars PROVE CInv'
      OBVIOUS
    <2>1. RInv' /\ AccountInv'
      BY NextRInv, KeepsAccount DEF CInv
    <2>2. AttemptInv'
      BY NextAttempts DEF CInv, RInv
    <2> QED BY <2>1, <2>2 DEF CInv
  <1> QED BY <1>1, <1>2, ContractStep, PTL DEF Spec, ImplementsContract, Contract!Spec

\* So does the program that constructs, uses and destroys the Connection.
COROLLARY LifecycleImplementsContract == ASSUME Restart # "anytime" PROVE LifeSpec => ImplementsContract
  BY LifecycleImplementsConnection, ConnectionImplementsContract
=============================================================================
