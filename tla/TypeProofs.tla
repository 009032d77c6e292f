----------------------------- MODULE TypeProofs -----------------------------
(***************************************************************************)
(* The types of Connection, among them the bounds that follow from the     *)
(* account of the requests.                                                *)
(***************************************************************************)
EXTENDS AccountProofs

\* How long a prover may take over a step.
USE SMTT(30), ZenonT(30)

(* Types *)

\* Handlers of packets other than requests, which PairInv describes.
Sendable(h) ==
    \/ h.kind = "Request"
    \/ h \in [kind : {"Handshake", "Heartbeat"}] \union [kind : {"HandshakeAck"}, dict : Dicts]

\* Packets, whatever their ids.
AnyPackets ==
    [type : {"Handshake"}, dict : Dicts]
        \union [type : {"Response", "ErrorResponse"}, id : Nat, req : Requests]
        \union [type : {"BadHandshake", "Heartbeat", "Kick", "Push", "BadData"}]

\* Tasks, whatever their packets and the ids of their requests.
TaskType(t) ==
    \/ t.kind \in {"PostRequest", "HeartbeatTick"}
    \/ t.kind \in {"SendNextPacket", "SendDone"} /\ Sendable(t.handler)
    \/ t.kind = "ReceiveDone" /\ t.reader \in Readers /\ (t.ec = "success" <=> t.packets # << >>)
    \/ t.kind = "ConnectDone" /\ t.ec \in {"success", "error"}
    \/ t.kind = "HeartbeatTimeout" /\ t.epoch \in 1..epoch
    \/ t.kind = "RequestTimeout" /\ t.id \in 1..(reqId - 1)

QueueType ==
    /\ \A t \in Range(ioQueue) : TaskType(t)
    /\ \A h \in Range(sends) : Sendable(h)
    /\ Range(recvs) \subseteq Readers

\* What the connection and the socket may be, and which goes with which.
ConnectionType ==
    /\ state \in {"Inited", "Connected"}
    /\ dict \in Dicts \union {{}}
    /\ heartbeatTimer \in BOOLEAN /\ heartbeatTimeout \in BOOLEAN
    /\ state = "Inited" => ~heartbeatTimer /\ ~heartbeatTimeout
    /\ state = "Connected" => epoch # 0
    /\ epoch \in Nat

SocketType ==
    /\ socket \in {"closed", "connecting", "open", "broken"}
    /\ connect = (socket = "connecting")
    /\ socket = "closed" => recvs = << >> /\ sends = << >>

ApplicationType ==
    /\ alive \in BOOLEAN /\ abandoned \in BOOLEAN
    /\ starts \in 0..MaxStarts
    /\ IsSeq(events) /\ Range(events) \subseteq {"Connected", "ConnectionFailed", "ConnectionError", "Kicked"}

\* A request timer runs only for a request in flight, and ids begin at 1.
IdType ==
    /\ reqId # 0 /\ \A a \in Numbered : a.id # 0
    /\ reqTimers \subseteq {q.id : q \in inFlight}

\* What the proofs use of the constants.
LEMMA ConstantTypes ==
  /\ MaxBatch \in Nat \ {0} /\ MaxStarts \in Nat \ {0}
  /\ Sent \subseteq {"Handshake", "BadHandshake", "Heartbeat", "Kick", "Push", "BadData", "Response", "ErrorResponse"}
  BY ConnectionAssumption, Zenon

\* The tasks that a connection makes are typed.
LEMMA TaskTypes ==
  /\ \A r : TaskType(PostedRequest(r))
  /\ TaskType(Tick)
  /\ \A h : Sendable(h) => TaskType(PostedSend(h)) /\ \A ec : TaskType(SendDone(h, ec))
  /\ \A reader \in Readers : TaskType(ReceiveDone(reader, "error", << >>))
  /\ \A reader \in Readers : \A ps : ps # << >> => TaskType(ReceiveDone(reader, "success", ps))
  /\ \A ec \in {"success", "error"} : TaskType(ConnectDone(ec))
  /\ \A e \in 1..epoch : TaskType(HeartbeatTimedOut(e))
  /\ \A id \in 1..(reqId - 1) : TaskType(RequestTimedOut(id))
  <1>1. (\A r : TaskType(PostedRequest(r))) /\ TaskType(Tick)
    BY DEF TaskType, PostedRequest, Tick
  <1>2. \A h : Sendable(h) => TaskType(PostedSend(h)) /\ \A ec : TaskType(SendDone(h, ec))
    BY DEF TaskType, PostedSend, SendDone
  <1>3. \A reader \in Readers : TaskType(ReceiveDone(reader, "error", << >>))
    BY DEF TaskType, ReceiveDone
  <1>4. \A reader \in Readers : \A ps : ps # << >> => TaskType(ReceiveDone(reader, "success", ps))
    BY DEF TaskType, ReceiveDone
  <1>5. \A ec \in {"success", "error"} : TaskType(ConnectDone(ec))
    BY DEF TaskType, ConnectDone
  <1>6. \A e \in 1..epoch : TaskType(HeartbeatTimedOut(e))
    BY DEF TaskType, HeartbeatTimedOut
  <1>7. \A id \in 1..(reqId - 1) : TaskType(RequestTimedOut(id))
    BY DEF TaskType, RequestTimedOut
  <1> QED BY <1>1, <1>2, <1>3, <1>4, <1>5, <1>6, <1>7

\* The handlers of the connection's own packets can be sent.
LEMMA SendableFacts ==
  /\ Sendable(HandshakeHandler) /\ Sendable(HeartbeatHandler)
  /\ \A d \in Dicts : Sendable(AckHandler(d))
  /\ \A r, id : Sendable(RequestHandler(r, id))
  BY DEF Sendable, HandshakeHandler, HeartbeatHandler, AckHandler, RequestHandler

\* The types that a new task needs of the state.
TypeInv == QueueType /\ ConnectionType /\ IdType /\ SmallIds /\ Received \subseteq AnyPackets

\* A handler runs, or an operation completes, and adds at most one typed task.
LEMMA TypedTask ==
  ASSUME IInv, TypeInv, NEW x, TaskType(x),
         \/ ioQueue' \in {ioQueue, Append(ioQueue, x)}
         \/ \E kind : Runs(kind) /\ ioQueue' \in {Rest, Append(Rest, x)}
  PROVE  \A t \in Range(ioQueue') : TaskType(t)
  <1>1. IsSeq(ioQueue) /\ \A t \in Range(ioQueue) : TaskType(t)
    BY DEF IInv, Seqs, TypeInv, QueueType
  <1>2. CASE ioQueue' \in {ioQueue, Append(ioQueue, x)}
    <2>1. Range(Append(ioQueue, x)) = Range(ioQueue) \union {x}
      BY <1>1, AppendFacts
    <2> QED BY <1>1, <1>2, <2>1, Zenon
  <1>3. CASE \E kind : Runs(kind) /\ ioQueue' \in {Rest, Append(Rest, x)}
    <2>1. IsSeq(Rest) /\ Range(Rest) \subseteq Range(ioQueue)
      BY <1>3, RunsFacts DEF IInv
    <2>2. Range(Append(Rest, x)) = Range(Rest) \union {x}
      BY <2>1, AppendFacts
    <2> QED BY <1>1, <1>3, <2>1, <2>2, Zenon
  <1> QED BY <1>2, <1>3

\* Closing the socket completes typed operations.
LEMMA AbortedType ==
  ASSUME IInv, TypeInv, ioQueue' = ioQueue \o Aborted PROVE \A t \in Range(ioQueue') : TaskType(t)
  <1>1. Seqs /\ QueueType
    BY DEF IInv, TypeInv
  <1>2. Range(ioQueue') = Range(ioQueue) \union Range(Aborted)
    BY <1>1, AbortedRange, ConcatFacts DEF Seqs
  <1>3. ASSUME NEW t \in Range(Aborted) PROVE TaskType(t)
    <2>1. \/ \E r \in Range(recvs) : t = ReceiveDone(r, "error", << >>)
          \/ t = ConnectDone("error")
          \/ \E h \in Range(sends) : t = SendDone(h, "error")
      BY <1>1, AbortedRange
    <2> QED BY <1>1, <2>1, TaskTypes DEF QueueType
  <1> QED BY <1>1, <1>2, <1>3 DEF QueueType

\* The handlers that run leave typed tasks.
LEMMA HandlersTyped ==
  ASSUME IInv, TypeInv, Worker PROVE \A t \in Range(ioQueue') : TaskType(t)
  <1>0. QueueType /\ Seqs
    BY DEF TypeInv, IInv
  <1>1. CASE OnConnect \/ OnTick
    <2>1. \E kind : Runs(kind) /\ \E x : TaskType(x) /\ ioQueue' \in {Rest, Append(Rest, x)}
      BY <1>1, TaskTypes, SendableFacts DEF OnConnect, OnTick, SendPacket
    <2> QED BY <2>1, TypedTask
  <1>2. CASE OnHandshakeResponse
    <2>1. Runs("ReceiveDone") /\ IsHandshakeResponse(Task)
      BY <1>2 DEF OnHandshakeResponse
    <2>2. Task \in Range(ioQueue) /\ Task.kind = "ReceiveDone"
      BY <1>0, <2>1, RunsFacts
    <2>3. PICK p : p = Task.packets[1]
      OBVIOUS
    <2>4. p \in Received
      <3>1. IsSeq(Task.packets) /\ Len(Task.packets) = 1
        BY <2>1, <2>2 DEF IInv, PacketsInv, IsHandshakeResponse
      <3>2. Task.packets[1] \in Range(Task.packets)
        BY <3>1, SeqShape
      <3> QED BY <2>2, <2>3, <3>2 DEF Received, TaskPackets
    <2>5. p.type = "Handshake" => p.dict \in Dicts
      BY <2>4 DEF TypeInv, AnyPackets
    <2>6. CASE p.type = "BadHandshake"
      <3>1. ioQueue' = Rest
        BY <1>2, <2>3, <2>6 DEF OnHandshakeResponse
      <3> QED BY <2>1, <3>1, TypedTask, TaskTypes
    <2>7. CASE p.type # "BadHandshake"
      <3>1. p.type = "Handshake"
        BY <2>1, <2>3, <2>7 DEF IsHandshakeResponse
      <3>2. ioQueue' \in {Rest, Append(Rest, PostedSend(AckHandler(p.dict)))}
        BY <1>2, <2>3, <2>7 DEF OnHandshakeResponse, SendPacket
      <3>3. TaskType(PostedSend(AckHandler(p.dict)))
        BY <2>5, <3>1, TaskTypes, SendableFacts
      <3> QED BY <2>1, <3>2, <3>3, TypedTask
    <2> QED BY <2>6, <2>7
  <1>3. CASE OnPostRequest
    <2>1. Runs("PostRequest") /\ ioQueue' \in {ioQueue, Rest, Append(Rest, PostedSend(RequestHandler(Task.req, reqId)))}
      BY <1>3 DEF OnPostRequest, SendPacket
    <2>2. TaskType(PostedSend(RequestHandler(Task.req, reqId)))
      BY TaskTypes, SendableFacts, Zenon
    <2> QED BY <2>1, <2>2, TypedTask
  <1>4. CASE OnHandshakeSent
    <2>1. Runs("SendDone") /\ ioQueue' \in {Rest, Append(Rest, ReceiveDone("handshake", "error", << >>))}
      BY <1>4 DEF OnHandshakeSent, StartReceive
    <2> QED BY <2>1, TypedTask, TaskTypes DEF Readers
  <1>5. CASE SendNextPacket
    <2>1. Runs("SendNextPacket") /\ ioQueue' \in {Rest, Append(Rest, SendDone(Task.handler, "error"))}
      BY <1>5 DEF SendNextPacket
    <2>2. Task \in Range(ioQueue) /\ Task.kind = "SendNextPacket"
      BY <1>0, <2>1, RunsFacts
    <2>3. Sendable(Task.handler)
      BY <1>0, <2>2, Zenon DEF QueueType, TaskType
    <2> QED BY <2>1, <2>3, TypedTask, TaskTypes
  <1>6. CASE OnHandshakeRejected \/ OnAckSent \/ OnReceive \/ OnRequestTimeout \/ OnHeartbeatSent
             \/ OnHeartbeatTimeout \/ OnRequestSent
    <2>1. (\E kind : Runs(kind)) /\ ioQueue' = Rest
      BY <1>6, Zenon DEF OnHandshakeRejected, OnAckSent, OnReceive, OnRequestTimeout, OnHeartbeatSent,
            OnHeartbeatTimeout, OnRequestSent
    <2> QED BY <2>1, TypedTask, TaskTypes, Zenon
  <1>7. CASE ProcessFatal \/ ProcessHeartbeat \/ ProcessMessage
    <2>1. ioQueue' = ioQueue
      BY <1>7 DEF ProcessFatal, ProcessHeartbeat, ProcessMessage
    <2> QED BY <1>0, <2>1 DEF QueueType
  <1>8. CASE ReceivePackets
    <2>1. ioQueue' \in {ioQueue, Append(ioQueue, ReceiveDone("packets", "error", << >>))}
      BY <1>8 DEF ReceivePackets, StartReceive
    <2> QED BY <2>1, TypedTask, TaskTypes, Zenon DEF Readers
  <1>9. CASE Disconnect
    BY <1>9, AbortedType, Zenon DEF Disconnect
  <1> QED BY <1>1, <1>2, <1>3, <1>4, <1>5, <1>6, <1>7, <1>8, <1>9 DEF Worker

\* So do the operations that complete, the timers and the application.
LEMMA OutsideTyped ==
  ASSUME IInv, TypeInv, Environment \/ Application PROVE \A t \in Range(ioQueue') : TaskType(t)
  <1>0. QueueType /\ Seqs
    BY DEF TypeInv, IInv
  <1>1. sends # << >> => Sendable(Head(sends))
    BY <1>0, TailFacts, Zenon DEF QueueType, Seqs
  <1>2. recvs # << >> => Head(recvs) \in Readers
    BY <1>0, TailFacts DEF QueueType, Seqs
  <1>3. CASE ConnectCompletes
    BY <1>3, TypedTask, TaskTypes, Zenon DEF ConnectCompletes
  <1>4. CASE SendCompletes \/ SendFails
    BY <1>1, <1>4, TypedTask, TaskTypes, Zenon DEF SendCompletes, SendFails
  <1>5. CASE ReceiveCompletes
    <2>1. recvs # << >>
      BY <1>5 DEF ReceiveCompletes
    <2>2. PICK n \in 1..MaxBatch : \E ps \in [1..n -> PacketsFromServer] :
             ioQueue' = Append(ioQueue, ReceiveDone(Head(recvs), "success", ps))
      BY <1>5, Zenon DEF ReceiveCompletes
    <2>3. PICK ps \in [1..n -> PacketsFromServer] :
             ioQueue' = Append(ioQueue, ReceiveDone(Head(recvs), "success", ps))
      BY <2>2
    <2>4. ps # << >>
      <3>1. 1 \in 1..n /\ DOMAIN ps = 1..n
        BY ConstantTypes
      <3>2. DOMAIN << >> = {}
        OBVIOUS
      <3> QED BY <3>1, <3>2
    <2> QED BY <1>2, <2>1, <2>3, <2>4, TypedTask, TaskTypes, Zenon
  <1>6. CASE ReceiveFails
    BY <1>2, <1>6, TypedTask, TaskTypes, Zenon DEF ReceiveFails
  <1>7. CASE HeartbeatTimerExpires
    BY <1>7, TypedTask, TaskTypes DEF HeartbeatTimerExpires
  <1>8. CASE HeartbeatTimeoutExpires
    <2>1. epoch \in 1..epoch
      BY <1>8 DEF HeartbeatTimeoutExpires, TypeInv, ConnectionType
    <2> QED BY <1>8, <2>1, TypedTask, TaskTypes, Zenon DEF HeartbeatTimeoutExpires
  <1>9. CASE RequestTimerExpires
    <2>1. PICK id \in reqTimers : ioQueue' = Append(ioQueue, RequestTimedOut(id))
      BY <1>9 DEF RequestTimerExpires
    <2>2. PICK q \in inFlight : q.id = id
      BY DEF TypeInv, IdType
    <2>3. q \in Numbered
      BY Zenon DEF Numbered
    <2>4. id \in 1..(reqId - 1)
      BY <2>2, <2>3 DEF TypeInv, IdType, SmallIds
    <2> QED BY <2>1, <2>4, TypedTask, TaskTypes
  <1>10. CASE \E r \in Requests : PostRequest(r)
    BY <1>10, TypedTask, TaskTypes, Zenon DEF PostRequest
  <1>11. CASE Start
    BY <1>11, AbortedType DEF Start
  <1> QED BY <1>3, <1>4, <1>5, <1>6, <1>7, <1>8, <1>9, <1>10, <1>11, Zenon DEF Environment, Application

\* The state of the connection stays typed, and connections are only added.
LEMMA NextConnectionType ==
  ASSUME IInv, TypeInv, Next PROVE ConnectionType' /\ epoch' \in Nat /\ epoch <= epoch'
  <1>0. ConnectionType /\ Seqs /\ QueueType
    BY DEF TypeInv, IInv
  <1>e. epoch' = epoch => epoch' \in Nat /\ epoch <= epoch'
    BY <1>0 DEF ConnectionType
  <1>1. CASE SetInited /\ UNCHANGED epoch
    <2>1. ConnectionType'
      BY <1>0, <1>1, Zenon DEF SetInited, ConnectionType
    <2> QED BY <1>1, <1>e, <2>1
  <1>2. CASE UNCHANGED << stateVars, epoch >>
    <2>1. ConnectionType'
      BY <1>0, <1>2 DEF ConnectionType, stateVars
    <2> QED BY <1>2, <1>e, <2>1
  <1>3. CASE OnAckSent
    <2>1. CASE UNCHANGED << stateVars, epoch >>
      BY <1>2, <2>1
    <2>2. CASE SetConnected(Task.handler.dict) /\ epoch' = epoch + 1
      <3>1. Task \in Range(ioQueue) /\ Task.kind = "SendDone" /\ Task.handler.kind = "HandshakeAck"
        BY <1>0, <1>3, RunsFacts DEF OnAckSent, stateVars
      <3>2. Sendable(Task.handler)
        BY <1>0, <3>1 DEF QueueType, TaskType
      <3>3. Task.handler.dict \in Dicts
        BY <3>1, <3>2 DEF Sendable
      <3> QED BY <1>0, <2>2, <3>3 DEF SetConnected, ConnectionType
    <2> QED BY <1>3, <2>1, <2>2 DEF OnAckSent, stateVars
  <1>4. CASE OnConnect \/ OnHandshakeSent \/ OnHandshakeRejected
    BY <1>1, <1>2, <1>4, Zenon DEF OnConnect, OnHandshakeSent, OnHandshakeRejected, HandshakeFailed, stateVars, historyVars
  <1>5. CASE \E event : \E after : Leave(event, after) /\ UNCHANGED epoch
    BY <1>1, <1>2, <1>5 DEF Leave, stateVars
  <1>6. CASE OnHandshakeResponse \/ OnReceive \/ ProcessFatal \/ OnHeartbeatSent \/ OnHeartbeatTimeout
    BY <1>2, <1>5, <1>6, Zenon DEF OnHandshakeResponse, OnReceive, ProcessFatal, OnHeartbeatSent, OnHeartbeatTimeout,
          ConnectionError, KickedFromServer, stateVars, historyVars
  <1>7. CASE ProcessHeartbeat \/ OnTick \/ HeartbeatTimerExpires \/ HeartbeatTimeoutExpires
    <2>1. /\ UNCHANGED << state, dict, epoch >>
          /\ heartbeatTimer' = heartbeatTimer \/ heartbeatTimer' = FALSE \/ (heartbeatTimer' = TRUE /\ state = "Connected")
          /\ heartbeatTimeout' = heartbeatTimeout \/ heartbeatTimeout' = FALSE
      BY <1>7, Zenon DEF ProcessHeartbeat, OnTick, HeartbeatTimerExpires, HeartbeatTimeoutExpires, ExtendHeartbeatTimeout,
            WaitForNextTick, stateVars, historyVars
    <2>2. heartbeatTimer \in BOOLEAN /\ heartbeatTimeout \in BOOLEAN
      BY <1>0 DEF ConnectionType
    <2>3. heartbeatTimer' \in BOOLEAN
      BY <2>1, <2>2, Zenon
    <2>4. heartbeatTimeout' \in BOOLEAN
      BY <2>1, <2>2, Zenon
    <2>5. state = "Inited" => ~heartbeatTimer' /\ ~heartbeatTimeout'
      BY <1>0, <2>1 DEF ConnectionType
    <2>6. ConnectionType'
      BY <1>0, <2>1, <2>3, <2>4, <2>5, Zenon DEF ConnectionType
    <2> QED BY <1>e, <2>1, <2>6
  <1>8. CASE ProcessMessage \/ ReceivePackets \/ Disconnect \/ SendNextPacket \/ OnPostRequest \/ OnRequestSent
             \/ OnRequestTimeout
    BY <1>2, <1>8, Zenon DEF ProcessMessage, ReceivePackets, Disconnect, SendNextPacket, OnPostRequest, OnRequestSent,
          OnRequestTimeout, stateVars, historyVars
  <1>9. CASE ConnectCompletes \/ SendCompletes \/ SendFails \/ ReceiveCompletes \/ ReceiveFails
             \/ RequestTimerExpires \/ Application
    BY <1>2, <1>9, Zenon DEF ConnectCompletes, SendCompletes, SendFails, ReceiveCompletes, ReceiveFails,
          RequestTimerExpires, Application, PostRequest, Start, stateVars, historyVars
  <1> QED BY <1>3, <1>4, <1>6, <1>7, <1>8, <1>9 DEF Next, Worker, Environment

\* The pending operations stay typed.
LEMMA PendingTyped ==
  ASSUME IInv, TypeInv, Next PROVE (\A h \in Range(sends') : Sendable(h)) /\ Range(recvs') \subseteq Readers
  <1>0. /\ QueueType /\ Seqs /\ IsSeq(sends) /\ IsSeq(recvs)
        /\ \A h \in Range(sends) : Sendable(h)
        /\ Range(recvs) \subseteq Readers
    BY DEF TypeInv, IInv, Seqs, QueueType
  <1>1. CASE UNCHANGED << sends, recvs >>
    BY <1>0, <1>1
  <1>2. CASE recvs' = << >> /\ sends' = << >>
    BY <1>2, EmptyFacts
  <1>3. CASE sends' = sends /\ recvs' \in {recvs, Append(recvs, "handshake"), Append(recvs, "packets")}
    <2>1. \A x : Range(Append(recvs, x)) = Range(recvs) \union {x}
      BY <1>0, AppendFacts
    <2> QED BY <1>0, <1>3, <2>1, Zenon DEF Readers
  <1>4. CASE \/ sends # << >> /\ sends' = Tail(sends) /\ recvs' = recvs
             \/ recvs # << >> /\ recvs' = Tail(recvs) /\ sends' = sends
    <2>1. /\ sends # << >> => Range(Tail(sends)) \subseteq Range(sends)
          /\ recvs # << >> => Range(Tail(recvs)) \subseteq Range(recvs)
      BY <1>0, TailFacts
    <2> QED BY <1>0, <1>4, <2>1, Zenon
  <1>5. CASE SendNextPacket
    <2>1. Task \in Range(ioQueue) /\ Task.kind = "SendNextPacket" /\ recvs' = recvs
      BY <1>0, <1>5, RunsFacts DEF SendNextPacket
    <2>2. Sendable(Task.handler)
      BY <1>0, <2>1, Zenon DEF QueueType, TaskType
    <2>3. Range(Append(sends, Task.handler)) = Range(sends) \union {Task.handler}
      BY <1>0, AppendFacts
    <2>4. sends' \in {sends, Append(sends, Task.handler)}
      BY <1>5 DEF SendNextPacket
    <2> QED BY <1>0, <2>1, <2>2, <2>3, <2>4, Zenon
  <1>6. CASE Worker /\ ~SendNextPacket
    <2>1. CASE Disconnect
      BY <1>2, <2>1 DEF Disconnect
    <2>2. CASE OnHandshakeSent \/ ReceivePackets
      BY <1>3, <2>2 DEF OnHandshakeSent, ReceivePackets, StartReceive
    <2>3. CASE ~Disconnect /\ ~OnHandshakeSent /\ ~ReceivePackets
      BY <1>1, <1>6, <2>3, Zenon DEF Worker, OnConnect, OnHandshakeRejected, OnHandshakeResponse, OnAckSent, OnReceive,
            ProcessFatal, ProcessHeartbeat, ProcessMessage, OnPostRequest, OnRequestSent, OnRequestTimeout, OnTick,
            OnHeartbeatSent, OnHeartbeatTimeout, socketVars
    <2> QED BY <2>1, <2>2, <2>3
  <1>7. CASE Environment \/ Application
    BY <1>1, <1>2, <1>4, <1>7, Zenon DEF Environment, Application, ConnectCompletes, SendCompletes, SendFails,
          ReceiveCompletes, ReceiveFails, HeartbeatTimerExpires, HeartbeatTimeoutExpires, RequestTimerExpires,
          PostRequest, Start, socketVars
  <1> QED BY <1>5, <1>6, <1>7 DEF Next

\* Ids are only added.
LEMMA ReqIdGrows == ASSUME SmallIds, Next PROVE reqId' \in Nat /\ reqId <= reqId'
  <1>1. reqId' \in {reqId, reqId + 1}
    BY Zenon DEF Next, Worker, Environment, Application, requestVars, OnConnect, OnHandshakeSent, OnHandshakeRejected,
          OnHandshakeResponse, OnAckSent, OnReceive, ProcessFatal, ProcessHeartbeat, ProcessMessage, ReceivePackets,
          Disconnect, SendNextPacket, OnPostRequest, NextReqId, OnRequestSent, OnRequestTimeout, OnTick,
          OnHeartbeatSent, OnHeartbeatTimeout, ConnectCompletes, SendCompletes, SendFails, ReceiveCompletes,
          ReceiveFails, HeartbeatTimerExpires, HeartbeatTimeoutExpires, RequestTimerExpires, PostRequest, Start
  <1> QED BY <1>1 DEF SmallIds

\* Arithmetic of epochs and ids that grow.
LEMMA IntervalGrows == ASSUME NEW a \in Nat, NEW b \in Nat, a <= b PROVE 1..a \subseteq 1..b
  OBVIOUS

LEMMA IdsGrow == ASSUME NEW m \in Nat, NEW n \in Nat, m <= n PROVE 1..(m - 1) \subseteq 1..(n - 1)
  OBVIOUS

\* What is queued and pending stays typed.
LEMMA NextQueueType == ASSUME IInv, TypeInv, Next PROVE QueueType'
  <1>1. \A t \in Range(ioQueue') : TaskType(t)
    BY HandlersTyped, OutsideTyped DEF Next
  <1>2. epoch \in Nat /\ epoch' \in Nat /\ epoch <= epoch' /\ reqId \in Nat /\ reqId' \in Nat /\ reqId <= reqId'
    BY NextConnectionType, ReqIdGrows DEF TypeInv, ConnectionType, SmallIds
  <1>3. 1..epoch \subseteq 1..epoch'
    BY <1>2, IntervalGrows
  <1>4. 1..(reqId - 1) \subseteq 1..(reqId' - 1)
    BY <1>2, IdsGrow, Zenon
  <1>5. \A t : TaskType(t) => TaskType(t)'
    BY <1>3, <1>4 DEF TaskType
  <1> QED BY <1>1, <1>5, PendingTyped DEF QueueType

\* The socket stays typed, and closed with nothing pending.
LEMMA NextSocketType == ASSUME SocketType, Next PROVE SocketType'
  <1> USE DEF SocketType
  <1>1. CASE UNCHANGED socketVars
    BY <1>1 DEF socketVars
  <1>2. CASE OnHandshakeSent \/ ReceivePackets
    BY <1>2, Zenon DEF OnHandshakeSent, ReceivePackets, StartReceive
  <1>3. CASE Disconnect \/ Start
    BY <1>3, Zenon DEF Disconnect, Start
  <1>4. CASE SendNextPacket
    BY <1>4 DEF SendNextPacket
  <1>5. CASE ConnectCompletes
    BY <1>5, Zenon DEF ConnectCompletes
  <1>6. CASE SendCompletes \/ ReceiveCompletes
    BY <1>6 DEF SendCompletes, ReceiveCompletes
  <1>7. CASE SendFails \/ ReceiveFails
    BY <1>7, Zenon DEF SendFails, ReceiveFails
  <1>8. CASE OnConnect \/ OnHandshakeRejected \/ OnHandshakeResponse \/ OnAckSent \/ OnReceive \/ ProcessFatal
             \/ ProcessHeartbeat \/ ProcessMessage \/ OnPostRequest \/ OnRequestSent \/ OnRequestTimeout \/ OnTick
             \/ OnHeartbeatSent \/ OnHeartbeatTimeout
    BY <1>1, <1>8, ZenonT(30) DEF OnConnect, OnHandshakeRejected, OnHandshakeResponse, OnAckSent, OnReceive, ProcessFatal,
          ProcessHeartbeat, ProcessMessage, OnPostRequest, OnRequestSent, OnRequestTimeout, OnTick, OnHeartbeatSent,
          OnHeartbeatTimeout, socketVars
  <1>9. CASE HeartbeatTimerExpires \/ HeartbeatTimeoutExpires \/ RequestTimerExpires \/ \E r \in Requests : PostRequest(r)
    BY <1>1, <1>9, Zenon DEF HeartbeatTimerExpires, HeartbeatTimeoutExpires, RequestTimerExpires, PostRequest, socketVars
  <1> QED BY <1>2, <1>3, <1>4, <1>5, <1>6, <1>7, <1>8, <1>9, Zenon DEF Next, Worker, Environment, Application

\* What the application knows stays typed.
LEMMA NextApplicationType == ASSUME ConnectionType, ApplicationType, Next PROVE ApplicationType'
  <1> DEFINE Names == {"Connected", "ConnectionFailed", "ConnectionError", "Kicked"}
  <1>0. /\ alive \in BOOLEAN /\ abandoned \in BOOLEAN /\ starts \in 0..MaxStarts
        /\ IsSeq(events) /\ Range(events) \subseteq Names
    BY DEF ApplicationType
  <1>1. alive' \in BOOLEAN
    <2>1. alive' = alive \/ alive' = FALSE
      BY Zenon DEF Next, Worker, Environment, Application, OnConnect, OnHandshakeSent, OnHandshakeRejected,
            OnHandshakeResponse, OnAckSent, OnReceive, ProcessFatal, ProcessHeartbeat, ProcessMessage, ReceivePackets,
            Disconnect, SendNextPacket, OnPostRequest, OnRequestSent, OnRequestTimeout, OnTick, OnHeartbeatSent,
            OnHeartbeatTimeout, ConnectCompletes, SendCompletes, SendFails, ReceiveCompletes, ReceiveFails,
            HeartbeatTimerExpires, HeartbeatTimeoutExpires, RequestTimerExpires, PostRequest, Start, appVars, historyVars
    <2> QED BY <1>0, <2>1, ZenonT(30)
  <1>2. abandoned' \in BOOLEAN
    <2>1. CASE OnConnect \/ OnHandshakeResponse
      <3>1. abandoned' = abandoned \/ \E b : abandoned' = (abandoned \/ b)
        BY <2>1, Zenon DEF OnConnect, OnHandshakeResponse, appVars
      <3> QED BY <1>0, <3>1, Zenon
    <2>2. CASE ~OnConnect /\ ~OnHandshakeResponse
      <3>1. abandoned' = abandoned \/ abandoned' = FALSE \/ abandoned' = TRUE
        BY <2>2, ZenonT(30) DEF Next, Worker, Environment, Application, OnHandshakeSent, OnHandshakeRejected, OnAckSent, OnReceive,
              ProcessFatal, ProcessHeartbeat, ProcessMessage, ReceivePackets, Disconnect, SendNextPacket, OnPostRequest,
              OnRequestSent, OnRequestTimeout, OnTick, OnHeartbeatSent, OnHeartbeatTimeout, ConnectCompletes,
              SendCompletes, SendFails, ReceiveCompletes, ReceiveFails, HeartbeatTimerExpires, HeartbeatTimeoutExpires,
              RequestTimerExpires, PostRequest, Start, appVars, historyVars
      <3> QED BY <1>0, <3>1, ZenonT(30)
    <2> QED BY <2>1, <2>2
  <1>3. starts' \in 0..MaxStarts
    <2>1. CASE Start
      BY <1>0, <2>1, ConstantTypes DEF Start
    <2>2. CASE ~Start
      <3>1. starts' = starts
        BY <2>2, ZenonT(30) DEF Next, Worker, Environment, Application, OnConnect, OnHandshakeSent, OnHandshakeRejected,
              OnHandshakeResponse, OnAckSent, OnReceive, ProcessFatal, ProcessHeartbeat, ProcessMessage,
              ReceivePackets, Disconnect, SendNextPacket, OnPostRequest, OnRequestSent, OnRequestTimeout, OnTick,
              OnHeartbeatSent, OnHeartbeatTimeout, ConnectCompletes, SendCompletes, SendFails, ReceiveCompletes,
              ReceiveFails, HeartbeatTimerExpires, HeartbeatTimeoutExpires, RequestTimerExpires, PostRequest, appVars, historyVars
      <3> QED BY <1>0, <3>1
    <2> QED BY <2>1, <2>2
  <1>4. IsSeq(events') /\ Range(events') \subseteq Names
    <2>1. CASE events' = events
      BY <1>0, <2>1
    <2>2. CASE events' = << >>
      BY <2>2, EmptyFacts
    <2>3. CASE \E e \in Names : Broadcast(e)
      BY <1>0, <2>3, AppendFacts DEF Broadcast
    <2>4. CASE \E e \in Names : \E after : Leave(e, after)
      BY <2>1, <2>3, <2>4 DEF Leave
    <2>5. CASE OnConnect \/ OnHandshakeSent \/ OnHandshakeRejected \/ OnAckSent \/ Start
      BY <2>1, <2>2, <2>3, <2>5, Zenon DEF OnConnect, OnHandshakeSent, OnHandshakeRejected, OnAckSent, Start, HandshakeFailed, appVars, historyVars
    <2>6. CASE OnHandshakeResponse \/ OnReceive \/ ProcessFatal \/ OnHeartbeatSent \/ OnHeartbeatTimeout
      BY <2>1, <2>4, <2>6, Zenon DEF OnHandshakeResponse, OnReceive, ProcessFatal, OnHeartbeatSent, OnHeartbeatTimeout,
            ConnectionError, KickedFromServer, appVars, historyVars
    <2>7. CASE ProcessHeartbeat \/ ProcessMessage \/ ReceivePackets \/ Disconnect \/ SendNextPacket
               \/ OnPostRequest \/ OnRequestSent \/ OnRequestTimeout \/ OnTick
      BY <2>1, <2>7, Zenon DEF ProcessHeartbeat, ProcessMessage, ReceivePackets, Disconnect, SendNextPacket, OnPostRequest,
            OnRequestSent, OnRequestTimeout, OnTick, appVars, historyVars
    <2>8. CASE Environment \/ \E r \in Requests : PostRequest(r)
      BY <2>1, <2>8, Zenon DEF Environment, ConnectCompletes, SendCompletes, SendFails, ReceiveCompletes, ReceiveFails,
            HeartbeatTimerExpires, HeartbeatTimeoutExpires, RequestTimerExpires, PostRequest, appVars, historyVars
    <2> QED BY <2>5, <2>6, <2>7, <2>8 DEF Next, Worker, Application
  <1> QED BY <1>1, <1>2, <1>3, <1>4, Zenon DEF ApplicationType

\* Ids stay positive, and timers belong to requests in flight.
LEMMA NextIdType == ASSUME IInv, SmallIds, IdType, Next PROVE IdType'
  <1>1. reqId' # 0
    BY ReqIdGrows DEF IdType, SmallIds
  <1>2. ASSUME NEW a \in Numbered' PROVE a.id # 0
    BY NumberedFlow DEF IdType, Known
  <1> DEFINE InFlightIds == {q.id : q \in inFlight}
  <1>3. reqTimers \subseteq InFlightIds
    BY DEF IdType
  <1>4. CASE UNCHANGED inFlight /\ reqTimers' \subseteq reqTimers
    BY <1>1, <1>2, <1>3, <1>4 DEF IdType
  <1>5. CASE \E id, status : Finish(id, status)
    <2>1. PICK id, status : Finish(id, status)
      BY <1>5
    <2>2. CASE Entries(id) = {}
      BY <1>4, <2>1, <2>2 DEF Finish
    <2>3. CASE Entries(id) # {}
      <3>1. inFlight' = {q \in inFlight : q.id # id} /\ reqTimers' = reqTimers \ {id}
        BY <2>1, <2>3 DEF Finish, Entries
      <3> QED BY <1>1, <1>2, <1>3, <3>1 DEF IdType
    <2> QED BY <2>2, <2>3
  <1>6. CASE OnRequestSent
    <2>1. CASE UNCHANGED << inFlight, reqTimers >>
      BY <1>4, <2>1
    <2>2. CASE \E h : inFlight' = inFlight \union {[id |-> h.id, req |-> h.req]} /\ reqTimers' = reqTimers \union {h.id}
      BY <1>1, <1>2, <1>3, <2>2, ZenonT(30) DEF IdType
    <2> QED BY <1>6, <2>1, <2>2, Zenon DEF OnRequestSent, Register
  <1>7. CASE ~OnRequestSent
    BY <1>4, <1>5, <1>7, ZenonT(30) DEF Next, Worker, Environment, Application, requestVars, OnConnect, OnHandshakeSent,
          OnHandshakeRejected, OnHandshakeResponse, OnAckSent, OnReceive, ProcessFatal, ProcessHeartbeat,
          ProcessMessage, ReceivePackets, Disconnect, SendNextPacket, OnPostRequest, OnRequestTimeout, OnTick,
          OnHeartbeatSent, OnHeartbeatTimeout, ConnectCompletes, SendCompletes, SendFails, ReceiveCompletes,
          ReceiveFails, HeartbeatTimerExpires, HeartbeatTimeoutExpires, RequestTimerExpires, PostRequest, Start
  <1> QED BY <1>6, <1>7

\* The packets received stay typed.
LEMMA NextPackets ==
  ASSUME IInv, serverGot \subseteq Pairs, Received \subseteq AnyPackets, Next PROVE Received' \subseteq AnyPackets
  <1> SUFFICES ASSUME NEW p \in PacketsFromServer PROVE p \in AnyPackets
    BY ReceivedFlow
  <1>1. \/ \E d \in Dicts : p = [type |-> "Handshake", dict |-> d]
        \/ \E ty \in {"Response", "ErrorResponse"}, g \in serverGot : p = [type |-> ty, id |-> g.id, req |-> g.req]
        \/ p \in [type : Sent \ {"Handshake", "Response", "ErrorResponse"}]
    BY DEF PacketsFromServer
  <1>2. CASE \E d \in Dicts : p = [type |-> "Handshake", dict |-> d]
    BY <1>2 DEF AnyPackets
  <1>3. CASE \E ty \in {"Response", "ErrorResponse"}, g \in serverGot : p = [type |-> ty, id |-> g.id, req |-> g.req]
    <2>1. PICK ty \in {"Response", "ErrorResponse"}, g \in serverGot : p = [type |-> ty, id |-> g.id, req |-> g.req]
      BY <1>3
    <2>2. g.id \in Nat /\ g.req \in Requests
      BY DEF Pairs
    <2> QED BY <2>1, <2>2, Zenon DEF AnyPackets
  <1>4. CASE p \in [type : Sent \ {"Handshake", "Response", "ErrorResponse"}]
    <2>1. Sent \ {"Handshake", "Response", "ErrorResponse"} \subseteq {"BadHandshake", "Heartbeat", "Kick", "Push", "BadData"}
      BY ConstantTypes
    <2>2. p \in [type : {"BadHandshake", "Heartbeat", "Kick", "Push", "BadData"}]
      BY <1>4, <2>1
    <2> QED BY <2>2 DEF AnyPackets
  <1> QED BY <1>1, <1>2, <1>3, <1>4, Zenon

\* The requests whose call by the worker has begun.
Handled == {r \in posted : PostedRequest(r) \notin Range(ioQueue)}

\* There are no more ids than requests, and requests are answered by a status.
CountInv ==
    /\ IsFiniteSet(posted) /\ reqId - 1 <= Cardinality(posted)
    /\ alive => reqId - 1 <= Cardinality(Handled)
    /\ lost \subseteq posted
    /\ \A r \in Requests : Range(answers[r]) \subseteq Statuses

\* A call that begins is one more.
LEMMA HandledGrows ==
  ASSUME IsFiniteSet(posted), NEW D, D \subseteq posted, NEW r \in posted, r \notin D
  PROVE  /\ Cardinality(D) \in Nat /\ Cardinality(D \union {r}) = Cardinality(D) + 1
         /\ Cardinality(posted) \in Nat /\ Cardinality(D) + 1 <= Cardinality(posted)
  <1>1. IsFiniteSet(D) /\ Cardinality(D) \in Nat /\ Cardinality(posted) \in Nat
    BY FS_Subset, FS_CardinalityType
  <1>2. Cardinality(D \union {r}) = Cardinality(D) + 1
    BY <1>1, FS_AddElement, Zenon
  <1>3. D \union {r} \subseteq posted
    OBVIOUS
  <1>4. Cardinality(D \union {r}) <= Cardinality(posted)
    BY <1>3, FS_Subset
  <1> QED BY <1>1, <1>2, <1>4

\* The call of a request takes an id at most once.
LEMMA PostCounts == ASSUME RInv, AccountInv, CountInv, alive, OnPostRequest
  PROVE  /\ reqId' - 1 <= Cardinality(posted')
         /\ alive' => reqId' - 1 <= Cardinality(Handled')
         /\ IsFiniteSet(posted') /\ lost' \subseteq posted'
  <1>0. PICK r : r = Task.req
    OBVIOUS
  <1>1. Seqs /\ OwnRequests /\ reqId \in Nat
    BY DEF RInv, IInv, SmallIds
  <1>2. Runs("PostRequest") /\ posted' = posted /\ lost' \subseteq lost \union {r}
    BY <1>0, Zenon DEF OnPostRequest, appVars
  <1>3. Task \in Range(ioQueue) /\ Task.kind = "PostRequest" /\ IsSeq(Rest) /\ Range(ioQueue) = {Task} \union Range(Rest)
    BY <1>1, <1>2, RunsFacts
  <1>4. Task = PostedRequest(r) /\ r \in Requests /\ TaskClass(Task) = Requesting(r)
    BY <1>0, <1>1, <1>3, Zenon DEF OwnRequests, TaskClass
  <1>5. Pending(Requesting(r)) # 0
    BY <1>1, <1>3, <1>4, PendingType
  <1>6. r \in posted /\ Pending(Requesting(r)) = 1
    BY <1>1, <1>4, <1>5, PendingAlone
  <1>7. r \notin Handled /\ Handled \subseteq posted
    BY <1>3, <1>4 DEF Handled
  <1>8. /\ Cardinality(Handled) \in Nat /\ Cardinality(Handled \union {r}) = Cardinality(Handled) + 1
        /\ Cardinality(posted) \in Nat /\ Cardinality(Handled) + 1 <= Cardinality(posted)
    BY <1>6, <1>7, HandledGrows, Zenon DEF CountInv
  <1>9. reqId' \in {reqId, reqId + 1} /\ reqId - 1 <= Cardinality(Handled)
    BY Zenon DEF OnPostRequest, NextReqId, CountInv
  <1>10. reqId' - 1 <= Cardinality(Handled) + 1
    BY <1>1, <1>8, <1>9
  <1>11. IsFiniteSet(posted') /\ lost' \subseteq posted' /\ reqId' - 1 <= Cardinality(posted')
    <2>1. reqId' \in Nat
      BY <1>1, <1>9
    <2> QED BY <1>2, <1>6, <1>8, <1>10, <2>1 DEF CountInv
  <1>12. ASSUME alive' PROVE Handled \union {r} \subseteq Handled'
    <2>1. \E x : x.kind # "PostRequest" /\ ioQueue' \in {Rest, Append(Rest, x)}
      <3>1. \/ ioQueue' = Rest
            \/ \E h : ioQueue' = Append(Rest, PostedSend(h))
        BY <1>12, Zenon DEF OnPostRequest, SendPacket
      <3>2. \A h : PostedSend(h).kind # "PostRequest"
        BY DEF PostedSend
      <3> QED BY <3>1, <3>2, Zenon
    <2>2. PICK x : x.kind # "PostRequest" /\ ioQueue' \in {Rest, Append(Rest, x)}
      BY <2>1
    <2>3. Range(ioQueue') \subseteq Range(Rest) \union {x}
      BY <1>3, <2>2, AppendFacts, Zenon
    <2>4. \A s : PostedRequest(s).kind = "PostRequest"
      BY DEF PostedRequest
    <2>5. PostedRequest(r) \notin Range(Rest)
      <3>1. Tasks(ioQueue, Requesting(r)) = One(TaskClass(Task) = Requesting(r)) + Tasks(Rest, Requesting(r))
        BY <1>1, <1>2, RunTasks
      <3>2. Tasks(Rest, Requesting(r)) = 0
        <4>1. Tasks(Rest, Requesting(r)) \in Nat
          BY <1>3, TasksType
        <4>2. Tasks(ioQueue, Requesting(r)) <= Pending(Requesting(r))
          <5>1. /\ Tasks(ioQueue, Requesting(r)) \in Nat /\ Handlers(sends, Requesting(r)) \in Nat
                /\ Receives(recvs, Requesting(r)) \in Nat /\ One(connect /\ Requesting(r) = Attempt) \in Nat
            BY <1>1, CountTypes DEF One
          <5> QED BY <5>1 DEF Pending
        <4>3. One(TaskClass(Task) = Requesting(r)) = 1
          BY <1>4 DEF One
        <4> QED BY <1>6, <3>1, <4>1, <4>2, <4>3
      <3>3. TaskClass(PostedRequest(r)) = Requesting(r)
        BY ClassOf
      <3> QED BY <1>3, <3>2, <3>3, TasksType
    <2>6. \A s : PostedRequest(s) \in Range(ioQueue') => PostedRequest(s) \in Range(Rest)
      BY <2>2, <2>3, <2>4
    <2> QED BY <1>2, <1>3, <1>6, <2>5, <2>6 DEF Handled
  <1>13. ASSUME alive' PROVE reqId' - 1 <= Cardinality(Handled')
    <2>1. Handled' \subseteq posted
      BY <1>2 DEF Handled
    <2>2. IsFiniteSet(Handled')
      BY <2>1, FS_Subset DEF CountInv
    <2>3. Cardinality(Handled \union {r}) <= Cardinality(Handled') /\ Cardinality(Handled') \in Nat
      BY <1>12, <1>13, <2>2, FS_Subset, FS_CardinalityType
    <2>4. reqId' \in Nat
      BY <1>1, <1>9
    <2> QED BY <1>8, <1>10, <2>3, <2>4
  <1> QED BY <1>11, <1>13

\* The steps that begin no call add no posted request, and take no id.
LEMMA OtherCounts == ASSUME RInv, CountInv, Next, ~OnPostRequest, ~\E r \in Requests : PostRequest(r)
  PROVE  UNCHANGED << posted, lost, reqId >> /\ (alive' => alive) /\ Handled \subseteq Handled'
  <1>1. UNCHANGED << posted, lost, reqId >> /\ (alive' => alive)
    BY Zenon DEF Next, Worker, Environment, Application, appVars, requestVars, historyVars, OnConnect,
          OnHandshakeSent, OnHandshakeRejected, OnHandshakeResponse, OnAckSent, OnReceive, ProcessFatal,
          ProcessHeartbeat, ProcessMessage, ReceivePackets, Disconnect, SendNextPacket, OnRequestSent,
          OnRequestTimeout, OnTick, OnHeartbeatSent, OnHeartbeatTimeout, ConnectCompletes, SendCompletes, SendFails,
          ReceiveCompletes, ReceiveFails, HeartbeatTimerExpires, HeartbeatTimeoutExpires, RequestTimerExpires, Start
  <1>2. ASSUME NEW r \in Handled PROVE r \in Handled'
    <2>1. PostedRequest(r).kind = "PostRequest" /\ PostedRequest(r) \notin Range(ioQueue) /\ r \in posted
      BY DEF PostedRequest, Handled
    <2>2. PostedRequest(r) \notin Range(ioQueue')
      BY <2>1, NewTasks DEF Expected, RInv
    <2> QED BY <1>1, <2>1, <2>2 DEF Handled
  <1> QED BY <1>1, <1>2

\* Every step keeps the count of ids.
LEMMA NextCounts == ASSUME RInv, AccountInv, CountInv, Next PROVE CountInv'
  <1>0. alive /\ reqId \in Nat /\ IsFiniteSet(posted) /\ IsFiniteSet(Handled) /\ Handled \subseteq posted
    <2>1. Handled \subseteq posted
      BY DEF Handled
    <2> QED BY <2>1, FS_Subset DEF Next, RInv, SmallIds, CountInv
  <1>1. \A r \in Requests : Range(answers'[r]) \subseteq Statuses
    <2>1. CASE UNCHANGED answers
      BY <2>1 DEF CountInv
    <2>2. CASE \E r \in Requests : \E status \in Statuses : Once(r, status)
      <3>1. PICK r \in Requests, status \in Statuses : answers' = [answers EXCEPT ![r] = << status >>]
        BY <2>2, Zenon DEF Once
      <3>2. DOMAIN answers = Requests
        BY DEF RInv, OwnRequests
      <3>3. Range(<< status >>) = {status}
        BY SingletonFacts
      <3> QED BY <3>1, <3>2, <3>3 DEF CountInv
    <2> QED BY <2>1, <2>2, AnswerSteps
  <1>2. /\ IsFiniteSet(posted') /\ reqId' - 1 <= Cardinality(posted')
        /\ alive' => reqId' - 1 <= Cardinality(Handled')
        /\ lost' \subseteq posted'
    <2>1. CASE OnPostRequest
      BY <1>0, <2>1, PostCounts
    <2>2. CASE \E r \in Requests : PostRequest(r)
      <3>1. PICK r \in Requests : PostRequest(r)
        BY <2>2
      <3>2. /\ posted' = posted \union {r} /\ r \notin posted /\ UNCHANGED << reqId, lost >>
            /\ ioQueue' = Append(ioQueue, PostedRequest(r))
        BY <3>1 DEF PostRequest, requestVars, historyVars
      <3>3. IsFiniteSet(posted') /\ Cardinality(posted) \in Nat /\ Cardinality(posted') = Cardinality(posted) + 1
        BY <1>0, <3>2, FS_AddElement, FS_CardinalityType
      <3>4. Handled \subseteq Handled'
        <4>1. Range(ioQueue') = Range(ioQueue) \union {PostedRequest(r)}
          BY <3>2, AppendFacts DEF RInv, IInv, Seqs
        <4>2. \A s : PostedRequest(s) = PostedRequest(r) => s = r
          BY DEF PostedRequest
        <4> QED BY <3>2, <4>1, <4>2 DEF Handled
      <3>5. Handled' \subseteq posted'
        BY DEF Handled
      <3>6. IsFiniteSet(Handled')
        BY <3>3, <3>5, FS_Subset
      <3>7. Cardinality(Handled) <= Cardinality(Handled') /\ Cardinality(Handled) \in Nat /\ Cardinality(Handled') \in Nat
        BY <1>0, <3>4, <3>6, FS_Subset, FS_CardinalityType
      <3>8. reqId - 1 <= Cardinality(Handled) /\ reqId - 1 <= Cardinality(posted) /\ lost \subseteq posted
        BY <1>0 DEF CountInv
      <3>9. reqId - 1 <= Cardinality(posted') /\ reqId - 1 <= Cardinality(Handled')
        BY <1>0, <3>3, <3>7, <3>8
      <3> QED BY <3>2, <3>3, <3>8, <3>9
    <2>3. CASE ~OnPostRequest /\ ~\E r \in Requests : PostRequest(r)
      <3>1. UNCHANGED << posted, lost, reqId >> /\ (alive' => alive) /\ Handled \subseteq Handled'
        BY <2>3, OtherCounts
      <3>2. Handled' \subseteq posted
        BY <3>1 DEF Handled
      <3>3. IsFiniteSet(Handled')
        BY <1>0, <3>2, FS_Subset
      <3>4. Cardinality(Handled) <= Cardinality(Handled') /\ Cardinality(Handled) \in Nat /\ Cardinality(Handled') \in Nat
        BY <1>0, <3>1, <3>3, FS_Subset, FS_CardinalityType
      <3>5. reqId - 1 <= Cardinality(Handled)
        BY <1>0 DEF CountInv
      <3>6. reqId - 1 <= Cardinality(Handled')
        BY <1>0, <3>4, <3>5
      <3> QED BY <3>1, <3>6 DEF CountInv
    <2> QED BY <2>1, <2>2, <2>3
  <1> QED BY <1>1, <1>2 DEF CountInv

\* The inductive invariant behind TypeOK. The ids are bounded by the number of
\* requests because each was taken by a call of its own (CountInv).
AllTypes == RInv /\ AccountInv /\ PairInv /\ TypeInv /\ SocketType /\ ApplicationType /\ CountInv

\* A new Connection has no operations, and no requests.
LEMMA InitTypes == Init => AllTypes
  <1> SUFFICES ASSUME Init PROVE AllTypes
    OBVIOUS
  <1>1. /\ Range(ioQueue) = {} /\ Range(sends) = {} /\ Range(work) = {} /\ Range(recvs) = {}
        /\ Range(events) = {} /\ IsSeq(events)
    BY EmptyFacts DEF Init
  <1>2. OnTheWay = {} /\ Received = {}
    BY <1>1, Zenon DEF OnTheWay, Received, TaskRequests, TaskPackets, WorkPackets
  <1>3. Numbered = {}
    BY <1>2, Zenon DEF Init, Numbered
  <1>4. PairInv
    BY <1>2, <1>3 DEF PairInv
  <1>5. QueueType /\ ConnectionType
    BY <1>1, Zenon DEF Init, QueueType, ConnectionType
  <1>6. IdType /\ Received \subseteq AnyPackets
    BY <1>2, <1>3 DEF Init, IdType
  <1>7. SocketType
    BY Zenon DEF Init, SocketType
  <1>8. ApplicationType
    <2>1. starts \in 0..MaxStarts
      BY ConstantTypes DEF Init
    <2>2. alive \in BOOLEAN /\ abandoned \in BOOLEAN
      BY Zenon DEF Init
    <2>3. Range(events) \subseteq {"Connected", "ConnectionFailed", "ConnectionError", "Kicked"}
      BY <1>1
    <2> QED BY <1>1, <2>1, <2>2, <2>3, Zenon DEF ApplicationType
  <1>9. CountInv
    <2>1. IsFiniteSet({}) /\ Cardinality({}) = 0
      BY FS_EmptySet
    <2>2. Handled = {} /\ posted = {} /\ lost = {} /\ reqId = 1
      BY DEF Init, Handled
    <2>3. \A r \in Requests : Range(answers[r]) = {}
      BY EmptyFacts DEF Init
    <2> QED BY <2>1, <2>2, <2>3 DEF CountInv
  <1> QED BY <1>4, <1>5, <1>6, <1>7, <1>8, <1>9, InitRInv, InitIds, InitAccount DEF AllTypes, TypeInv

\* Every step keeps it.
LEMMA NextTypes == AllTypes /\ [Next]_vars => AllTypes'
  <1> SUFFICES ASSUME AllTypes, [Next]_vars PROVE AllTypes'
    OBVIOUS
  <1>0. RInv /\ IInv /\ SmallIds /\ AccountInv /\ PairInv /\ TypeInv /\ SocketType /\ ApplicationType /\ CountInv
    BY DEF AllTypes, RInv
  <1>1. RInv' /\ AccountInv' /\ SmallIds'
    BY <1>0, NextRInv, KeepsAccount DEF RInv
  <1>2. CASE Next
    <2>1. PairInv'
      BY <1>0, <1>2, NextPairs
    <2>2. ConnectionType' /\ QueueType'
      BY <1>0, <1>2, NextConnectionType, NextQueueType
    <2>3. SocketType' /\ ApplicationType'
      BY <1>0, <1>2, NextSocketType, NextApplicationType DEF TypeInv
    <2>4. IdType'
      BY <1>0, <1>2, NextIdType DEF TypeInv
    <2>5. Received' \subseteq AnyPackets
      <3>1. serverGot \subseteq Pairs
        BY <1>0, Zenon DEF PairInv, Numbered
      <3> QED BY <1>0, <1>2, <3>1, NextPackets DEF TypeInv
    <2>6. CountInv'
      BY <1>0, <1>2, NextCounts
    <2>7. TypeInv'
      <3>1. AnyPackets' = AnyPackets
        BY DEF AnyPackets
      <3> QED BY <1>1, <2>2, <2>4, <2>5, <3>1 DEF TypeInv
    <2> QED BY <1>1, <2>1, <2>3, <2>6, <2>7 DEF AllTypes
  <1>3. CASE UNCHANGED vars
    <2>1. Numbered' = Numbered /\ OnTheWay' = OnTheWay /\ Received' = Received /\ Handled' = Handled
      BY <1>3, Zenon DEF vars, stateVars, socketVars, requestVars, historyVars, appVars, Numbered, OnTheWay, Received,
                  TaskRequests, TaskPackets, WorkPackets, Handled
    <2>2. PairInv'
      BY <1>0, <2>1 DEF PairInv
    <2>3. QueueType' /\ ConnectionType'
      BY <1>0, <1>3, Zenon DEF vars, stateVars, socketVars, requestVars, historyVars, appVars, TypeInv, QueueType,
                        ConnectionType, TaskType
    <2>4. IdType' /\ (Received \subseteq AnyPackets)'
      BY <1>0, <1>3, <2>1, Zenon DEF vars, stateVars, socketVars, requestVars, historyVars, appVars, TypeInv, IdType, AnyPackets
    <2>5. SocketType' /\ ApplicationType' /\ CountInv'
      BY <1>0, <1>3, <2>1, Zenon DEF vars, stateVars, socketVars, requestVars, historyVars, appVars, SocketType,
                              ApplicationType, CountInv
    <2> QED BY <1>1, <2>2, <2>3, <2>4, <2>5 DEF AllTypes, TypeInv
  <1> QED BY <1>2, <1>3

\* The ids in use are those of TypeOK.
LEMMA IdsInUse == ASSUME AllTypes PROVE reqId \in 1..Cardinality(posted) + 1 /\ 1..(reqId - 1) \subseteq Ids
  <1>1. reqId \in Nat /\ reqId # 0 /\ reqId - 1 <= Cardinality(posted) /\ Cardinality(posted) \in Nat
    BY FS_CardinalityType, Zenon DEF AllTypes, TypeInv, IdType, SmallIds, CountInv
  <1> QED BY <1>1 DEF Ids

\* A request that goes by its id has an id in use.
LEMMA NumberedIds == ASSUME AllTypes PROVE Numbered \subseteq [id : Ids, req : Requests]
  <1> SUFFICES ASSUME NEW a \in Numbered PROVE a \in [id : Ids, req : Requests]
    OBVIOUS
  <1>1. a \in Pairs /\ a.id \in Nat /\ a.id # 0 /\ a.id < reqId /\ reqId \in Nat
    BY DEF AllTypes, PairInv, TypeInv, IdType, SmallIds
  <1>2. a.id \in 1..(reqId - 1)
    BY <1>1
  <1>3. a.id \in Ids
    BY <1>2, IdsInUse
  <1> QED BY <1>1, <1>3 DEF Pairs

\* A handler that is sent, and a packet that is received, are typed.
LEMMA SentAndReceived ==
  ASSUME AllTypes
  PROVE  /\ \A h \in Range(sends) : h \in SendHandlers
         /\ \A t \in Range(ioQueue) : t.kind \in {"SendNextPacket", "SendDone"} => t.handler \in SendHandlers
         /\ Received \subseteq Packets
  <1>1. ASSUME NEW h, Sendable(h), h.kind = "Request" => h \in OnTheWay PROVE h \in SendHandlers
    <2>1. CASE h \in [kind : {"Handshake", "Heartbeat"}] \union [kind : {"HandshakeAck"}, dict : Dicts]
      BY <2>1 DEF SendHandlers
    <2>2. CASE h.kind = "Request"
      <3>1. h = RequestHandler(h.req, h.id) /\ [id |-> h.id, req |-> h.req] \in Numbered
        BY <1>1, <2>2, Zenon DEF AllTypes, PairInv, Numbered
      <3>2. h.id \in Ids /\ h.req \in Requests
        BY <3>1, NumberedIds
      <3> QED BY <3>1, <3>2 DEF SendHandlers, RequestHandler
    <2> QED BY <1>1, <2>1, <2>2 DEF Sendable
  <1>2. QueueType
    BY DEF AllTypes, TypeInv
  <1>3. ASSUME NEW h \in Range(sends) PROVE h \in SendHandlers
    BY <1>1, <1>2 DEF QueueType, OnTheWay
  <1>4. ASSUME NEW t \in Range(ioQueue), t.kind \in {"SendNextPacket", "SendDone"} PROVE t.handler \in SendHandlers
    <2>1. Sendable(t.handler)
      BY <1>2, <1>4 DEF QueueType, TaskType
    <2>2. t.handler.kind = "Request" => t.handler \in OnTheWay
      BY <1>4 DEF OnTheWay, TaskRequests
    <2> QED BY <1>1, <2>1, <2>2, Zenon
  <1>5. ASSUME NEW p \in Received PROVE p \in Packets
    <2>1. p \in AnyPackets
      BY DEF AllTypes, TypeInv
    <2>2. CASE p \in [type : {"Response", "ErrorResponse"}, id : Nat, req : Requests]
      <3>1. [id |-> p.id, req |-> p.req] \in Numbered
        BY <2>2, Zenon DEF Numbered
      <3>2. p.id \in Ids
        BY <3>1, NumberedIds
      <3> QED BY <2>2, <3>2, Zenon DEF Packets
    <2> QED BY <2>1, <2>2 DEF AnyPackets, Packets
  <1> QED BY <1>3, <1>4, <1>5

\* Every handler that is ready to run is typed.
LEMMA TasksTyped == ASSUME AllTypes, NEW t \in Range(ioQueue) PROVE IsTask(t)
  <1>1. TaskType(t)
    BY DEF AllTypes, TypeInv, QueueType
  <1>2. CASE t.kind = "PostRequest"
    BY <1>2 DEF AllTypes, RInv, OwnRequests, IsTask
  <1>3. CASE t.kind = "HeartbeatTick"
    BY <1>3 DEF IsTask
  <1>4. CASE t.kind \in {"SendNextPacket", "SendDone"}
    <2>1. t.handler \in SendHandlers
      BY <1>4, SentAndReceived
    <2> QED BY <1>4, <2>1, Zenon DEF IsTask
  <1>5. CASE t.kind = "ReceiveDone"
    <2>1. t.reader \in Readers /\ (t.ec = "success" <=> t.packets # << >>)
      BY <1>1, <1>5 DEF TaskType
    <2>2. \A i \in DOMAIN t.packets : t.packets[i] \in Packets
      <3>1. Range(t.packets) \subseteq Received
        BY <1>5 DEF Received, TaskPackets
      <3> QED BY <3>1, SentAndReceived DEF Range
    <2> QED BY <1>5, <2>1, <2>2 DEF IsTask
  <1>6. CASE t.kind = "ConnectDone"
    BY <1>1, <1>6 DEF TaskType, IsTask
  <1>7. CASE t.kind = "HeartbeatTimeout"
    BY <1>1, <1>7 DEF TaskType, IsTask
  <1>8. CASE t.kind = "RequestTimeout"
    <2>1. t.id \in Ids
      BY <1>1, <1>8, IdsInUse, Zenon DEF TaskType
    <2> QED BY <1>8, <2>1 DEF IsTask
  <1> QED BY <1>1, <1>2, <1>3, <1>4, <1>5, <1>6, <1>7, <1>8, Zenon DEF TaskType

\* TypeOK: in particular the timers of Connected exist only in that state, a
\* request timer only with its request in flight, operations are pending only
\* on a socket that is open, and every id that the socket, the server or a
\* timer still holds was given to a request.
THEOREM ConnectionTypes == Spec => []TypeOK
  <1>1. AllTypes => TypeOK
    <2> SUFFICES ASSUME AllTypes PROVE TypeOK
      OBVIOUS
    <2>1. ConnectionType /\ SocketType /\ ApplicationType /\ CountInv /\ posted \subseteq Requests
      BY DEF AllTypes, TypeInv, RInv, NoRequestLost
    <2>2. inFlight \subseteq [id : Ids, req : Requests] /\ serverGot \subseteq [id : Ids, req : Requests]
      BY NumberedIds DEF Numbered
    <2>3. reqTimers \subseteq {q.id : q \in inFlight}
      BY Zenon DEF AllTypes, TypeInv, IdType
    <2>4. \A i \in DOMAIN ioQueue : IsTask(ioQueue[i])
      BY TasksTyped, Zenon DEF Range
    <2>5. \A i \in DOMAIN work : work[i].do = "ProcessPacket" => work[i].packet \in Packets
      <3>1. ASSUME NEW w \in Range(work), w.do = "ProcessPacket" PROVE w.packet \in Packets
        BY <3>1, SentAndReceived DEF Received, WorkPackets
      <3> QED BY <3>1 DEF Range
    <2>6. \A i \in DOMAIN recvs : recvs[i] \in Readers
      BY DEF AllTypes, TypeInv, QueueType, Range
    <2>7. \A i \in DOMAIN sends : sends[i] \in SendHandlers
      BY SentAndReceived DEF Range
    <2>8. \A i \in DOMAIN events : events[i] \in {"Connected", "ConnectionFailed", "ConnectionError", "Kicked"}
      BY <2>1, Zenon DEF ApplicationType, Range
    <2>9. \A r \in Requests : \A i \in DOMAIN answers[r] : answers[r][i] \in Statuses
      BY <2>1 DEF CountInv, Range
    <2>10. /\ state \in {"Inited", "Connected"} /\ dict \in Dicts \union {{}}
           /\ heartbeatTimer \in BOOLEAN /\ heartbeatTimeout \in BOOLEAN
           /\ state = "Inited" => ~heartbeatTimer /\ ~heartbeatTimeout
           /\ epoch \in Nat
      BY <2>1, Zenon DEF ConnectionType
    <2>11. /\ alive \in BOOLEAN /\ abandoned \in BOOLEAN /\ starts \in 0..MaxStarts /\ lost \subseteq posted
           /\ socket \in {"closed", "connecting", "open", "broken"} /\ connect = (socket = "connecting")
           /\ socket = "closed" => recvs = << >> /\ sends = << >>
      BY <2>1, Zenon DEF ApplicationType, SocketType, CountInv
    <2>12. reqId \in 1..Cardinality(posted) + 1
      BY IdsInUse
    <2> QED BY <2>1, <2>2, <2>3, <2>4, <2>5, <2>6, <2>7, <2>8, <2>9, <2>10, <2>11, <2>12, Zenon DEF TypeOK
  <1> QED BY <1>1, InitTypes, NextTypes, PTL DEF Spec
=============================================================================
