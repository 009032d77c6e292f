--------------------------- MODULE AttemptProofs ----------------------------
(***************************************************************************)
(* One attempt to connect at a time: what the application hears of it, the *)
(* end of a connection, and what it leaves to the next one.                *)
(***************************************************************************)
EXTENDS AccountProofs

\* How long a prover may take over a step.
USE SMTT(30), ZenonT(30)

(* The attempts to connect *)

\* What the application may have heard of one attempt.
Failed == << "ConnectionFailed" >>
Established == << "Connected" >>
Over == {<< "Connected", "Kicked" >>, << "Connected", "ConnectionError" >>}

\* One call of Start, one attempt: it is under way in one place, or the
\* application has heard of it, or it was given up.
Attempts == Pending(Attempt) + One(events # << >>) + One(abandoned) = One(starts > 0)

AttemptInv ==
    /\ Attempts
    /\ StateMatchesEvents
    /\ events \in {<< >>, Failed, Established} \union Over
    /\ state \in {"Inited", "Connected"}
    /\ starts \in Nat

\* The sequences of events are told apart, and grow as expected.
LEMMA EventFacts ==
  /\ << >> # Established /\ Failed # Established /\ Failed # << >>
  /\ \A e \in Over : e # << >> /\ e # Established /\ e # Failed
  /\ Append(<< >>, "Connected") = Established
  /\ Append(<< >>, "ConnectionFailed") = Failed
  /\ \A e \in {"Kicked", "ConnectionError"} : Append(Established, e) \in Over
  /\ Established[Len(Established)] = "Connected"
  <1> USE DEF Established, Failed, Over
  <1>1. << >> # Established /\ Failed # Established /\ Failed # << >>
    OBVIOUS
  <1>2. ASSUME NEW e \in Over PROVE e # << >> /\ e # Established /\ e # Failed
    OBVIOUS
  <1>3. Append(<< >>, "Connected") = Established /\ Append(<< >>, "ConnectionFailed") = Failed
    OBVIOUS
  <1>4. ASSUME NEW e \in {"Kicked", "ConnectionError"} PROVE Append(Established, e) \in Over
    <2>1. Append(<< "Connected" >>, e) = << "Connected", e >>
      <3> DEFINE c == << "Connected" >>
                 a == Append(c, e)
      <3>1. IsSeq(c) /\ Len(c) = 1 /\ c[1] = "Connected"
        BY SingletonFacts
      <3> HIDE DEF c
      <3>2. IsSeq(a) /\ Len(a) = 2 /\ a[1] = "Connected" /\ a[2] = e
        <4>1. IsSeq(a)
          BY <3>1, AppendFacts
        <4>2. Len(a) = Len(c) + 1 /\ (\A i \in 1..Len(c) : a[i] = c[i]) /\ a[Len(c) + 1] = e
          BY <3>1, AppendAt, ZenonT(30)
        <4> HIDE DEF a
        <4> QED BY <3>1, <4>1, <4>2
      <3> HIDE DEF a
      <3>3. a = << "Connected", e >>
        BY <3>2, SeqShape DEF IsSeq
      <3> QED BY <3>3 DEF a, c
    <2> QED BY <1>4, <2>1
  <1>5. Established[Len(Established)] = "Connected"
    OBVIOUS
  <1> QED BY <1>1, <1>2, <1>3, <1>4, <1>5

\* What an attempt that the application has heard of, or that is under way,
\* says about the rest.
LEMMA AttemptFacts ==
  ASSUME Seqs, AttemptInv
  PROVE  /\ Pending(Attempt) \in {0, 1}
         /\ events # << >> => Pending(Attempt) = 0 /\ ~abandoned
         /\ Pending(Attempt) = 1 => events = << >> /\ ~abandoned /\ starts > 0
         /\ starts = 0 => events = << >> /\ ~abandoned /\ Pending(Attempt) = 0
         /\ starts > 0 => Pending(Attempt) = 1 \/ events # << >> \/ abandoned
  <1>1. Pending(Attempt) \in Nat
    BY PendingType
  <1> QED BY <1>1 DEF AttemptInv, Attempts, One

\* A handler of the attempt runs: the application has heard nothing of it yet.
LEMMA AttemptRuns ==
  ASSUME Seqs, AttemptInv, NEW kind, Runs(kind), TaskClass(Task) = Attempt
  PROVE  Pending(Attempt) = 1 /\ events = << >> /\ ~abandoned /\ starts > 0 /\ state = "Inited"
  <1>1. Pending(Attempt) # 0
    BY RunsFacts, PendingType
  <1>2. Pending(Attempt) = 1 /\ events = << >> /\ ~abandoned /\ starts > 0
    BY <1>1, AttemptFacts
  <1>3. state # "Connected"
    BY <1>2, EventFacts DEF AttemptInv, StateMatchesEvents, Established
  <1> QED BY <1>2, <1>3 DEF AttemptInv

\* The handlers of the attempt are of its class.
LEMMA AttemptTask ==
  ASSUME Seqs, OnConnect \/ OnHandshakeSent \/ OnHandshakeRejected \/ OnHandshakeResponse \/ OnAckSent
  PROVE  \E kind : Runs(kind) /\ TaskClass(Task) = Attempt
  <1>1. CASE OnConnect
    BY <1>1, RunsFacts DEF OnConnect, TaskClass
  <1>2. CASE OnHandshakeSent \/ OnAckSent
    BY <1>2, RunsFacts DEF OnHandshakeSent, OnAckSent, TaskClass, HandlerClass
  <1>3. CASE OnHandshakeRejected \/ OnHandshakeResponse
    BY <1>3, RunsFacts DEF OnHandshakeRejected, OnHandshakeResponse, TaskClass, ReaderClass
  <1> QED BY <1>1, <1>2, <1>3

\* ConnectionError and KickedFromServer end the connection that the application
\* has heard of.
LEMMA LeaveEvents ==
  ASSUME AttemptInv, NEW event \in {"Kicked", "ConnectionError"}, NEW after, Leave(event, after)
  PROVE  \/ /\ events = Established /\ events' \in Over /\ state' = "Inited"
            /\ work' = << DoDisconnect >> \o after
         \/ UNCHANGED << events, state >> /\ work' = after /\ state = "Inited"
  <1>1. CASE state = "Connected"
    BY <1>1, EventFacts, Zenon DEF Leave, SetInited, Broadcast, AttemptInv, StateMatchesEvents, Established
  <1>2. CASE state # "Connected"
    BY <1>2 DEF Leave, stateVars, AttemptInv
  <1> QED BY <1>1, <1>2

\* Before the first Start there is no attempt.
LEMMA InitAttempts == Init => AttemptInv
  <1> SUFFICES ASSUME Init PROVE AttemptInv
    OBVIOUS
  <1>1. Pending(Attempt) = 0
    BY EmptyCounts DEF Init, Pending, One
  <1>2. Attempts
    BY <1>1 DEF Init, Attempts, One
  <1> QED BY <1>2, EventFacts DEF Init, AttemptInv, StateMatchesEvents, Established

\* Every step of an application that waits for the event keeps the account.
LEMMA NextAttempts ==
  ASSUME Restart # "anytime"
  PROVE  IInv /\ AttemptInv /\ [Next]_vars => AttemptInv'
  \* The attempt goes on, is heard of, or is given up.
  <1>AttemptStep. ASSUME Seqs, AttemptInv, Pending(Attempt) = 1, events = << >>, ~abandoned, starts > 0, UNCHANGED starts,
                         \/ Pending(Attempt)' = 1 /\ UNCHANGED << events, state >> /\ ~abandoned'
                         \/ Pending(Attempt)' = 0 /\ UNCHANGED << events, state >> /\ abandoned'
                         \/ Pending(Attempt)' = 0 /\ events' = Failed /\ state' = "Inited" /\ ~abandoned'
                         \/ Pending(Attempt)' = 0 /\ events' = Established /\ state' = "Connected" /\ ~abandoned'
                  PROVE  AttemptInv'
    <2> USE <1>AttemptStep
    <2>1. Attempts'
      BY EventFacts DEF Attempts, One, AttemptInv
    <2>2. StateMatchesEvents'
      BY EventFacts DEF AttemptInv, StateMatchesEvents, Established
    <2> QED BY <2>1, <2>2 DEF AttemptInv
  \* The handlers of the attempt.
  <1>AttemptHandlers. ASSUME Seqs, AttemptInv,
                             OnConnect \/ OnHandshakeSent \/ OnHandshakeRejected \/ OnHandshakeResponse \/ OnAckSent
                      PROVE  AttemptInv'
    <2> USE <1>AttemptHandlers
    <2>1. CASE OnConnect
      <3> DEFINE failed == Task.ec = "error" \/ socket = "closed"
      <3>1. Pending(Attempt) = 1 /\ events = << >> /\ ~abandoned /\ starts > 0 /\ UNCHANGED starts
        BY <2>1, RunsFacts, AttemptRuns DEF OnConnect, TaskClass, stateVars, appVars
      <3>2. Pending(Attempt) = Pending(Attempt)' + One(failed \/ QueueFull(Rest)) /\ Pending(Attempt)' \in Nat
        BY <2>1, ConnectPending DEF One
      <3>3. CASE failed
        <4>1. Pending(Attempt)' = 0
          BY <3>1, <3>2, <3>3 DEF One
        <4>2. events' = Failed /\ state' = "Inited"
          BY <2>1, <3>1, <3>3, EventFacts DEF OnConnect, HandshakeFailed, SetInited, Broadcast, stateVars, appVars
        <4>3. ~abandoned'
          BY <2>1, <3>1, <3>3, Zenon DEF OnConnect, stateVars, appVars
        <4> QED BY <3>1, <4>1, <4>2, <4>3, <1>AttemptStep
      <3>4. CASE ~failed
        <4>1. UNCHANGED << events, state >> /\ (abandoned' <=> QueueFull(Rest))
          BY <2>1, <3>1, <3>4, Zenon DEF OnConnect, stateVars, appVars
        <4>2. Pending(Attempt)' = IF QueueFull(Rest) THEN 0 ELSE 1
          BY <3>1, <3>2, <3>4 DEF One
        <4> QED BY <3>1, <4>1, <4>2, <1>AttemptStep, Zenon
      <3> QED BY <3>3, <3>4
    <2>2. CASE OnHandshakeSent
      <3>1. Pending(Attempt) = 1 /\ events = << >> /\ ~abandoned /\ starts > 0 /\ UNCHANGED << starts, abandoned >>
        BY <2>2, RunsFacts, AttemptRuns DEF OnHandshakeSent, TaskClass, HandlerClass, stateVars, appVars, historyVars
      <3>2. Pending(Attempt)' = IF Task.ec = "error" THEN 0 ELSE 1
        BY <2>2, <3>1, HandshakePending DEF One
      <3>3. \/ Task.ec = "error" /\ events' = Failed /\ state' = "Inited"
            \/ Task.ec # "error" /\ UNCHANGED << events, state >>
        BY <2>2, <3>1, EventFacts, Zenon DEF OnHandshakeSent, HandshakeFailed, SetInited, Broadcast, stateVars, appVars, historyVars
      <3> QED BY <3>1, <3>2, <3>3, <1>AttemptStep
    <2>3. CASE OnHandshakeRejected
      <3>1. Pending(Attempt) = 1 /\ events = << >> /\ ~abandoned /\ starts > 0 /\ UNCHANGED << starts, abandoned >>
        BY <2>3, RunsFacts, AttemptRuns DEF OnHandshakeRejected, TaskClass, ReaderClass, appVars, historyVars
      <3>2. Pending(Attempt)' = 0
        BY <2>3, <3>1, RejectPending DEF One
      <3>3. events' = Failed /\ state' = "Inited"
        BY <2>3, <3>1, EventFacts, Zenon DEF OnHandshakeRejected, HandshakeFailed, SetInited, Broadcast, appVars, historyVars
      <3> QED BY <3>1, <3>2, <3>3, <1>AttemptStep
    <2>4. CASE OnHandshakeResponse
      <3> DEFINE bad == Task.packets[1].type = "BadHandshake"
      <3>1. Pending(Attempt) = 1 /\ events = << >> /\ ~abandoned /\ starts > 0 /\ UNCHANGED starts /\ state = "Inited"
        <4>1. Runs("ReceiveDone") /\ Task.reader = "handshake" /\ UNCHANGED starts
          BY <2>4, Zenon DEF OnHandshakeResponse, stateVars, appVars
        <4>2. TaskClass(Task) = Attempt
          BY <4>1, RunsFacts DEF TaskClass, ReaderClass
        <4> QED BY <4>1, <4>2, AttemptRuns
      <3>2. Pending(Attempt) = Pending(Attempt)' + One(bad \/ QueueFull(Rest)) /\ Pending(Attempt)' \in Nat
        BY <2>4, ResponsePending DEF One
      <3>3. UNCHANGED << events, state >> /\ (abandoned' <=> bad \/ QueueFull(Rest))
        BY <2>4, <3>1, Zenon DEF OnHandshakeResponse, ConnectionError, Leave, stateVars, appVars
      <3>4. Pending(Attempt)' = IF bad \/ QueueFull(Rest) THEN 0 ELSE 1
        BY <3>1, <3>2 DEF One
      <3> QED BY <3>1, <3>3, <3>4, <1>AttemptStep, Zenon
    <2>5. CASE OnAckSent
      <3>1. Pending(Attempt) = 1 /\ events = << >> /\ ~abandoned /\ starts > 0 /\ UNCHANGED starts
        BY <2>5, RunsFacts, AttemptRuns DEF OnAckSent, TaskClass, HandlerClass, stateVars, appVars
      <3>2. Pending(Attempt)' = 0
        BY <2>5, <3>1, DonePending DEF One
      <3>3. \/ UNCHANGED << events, state >> /\ abandoned'
            \/ events' = Established /\ state' = "Connected" /\ ~abandoned'
        BY <2>5, <3>1, EventFacts, Zenon DEF OnAckSent, SetConnected, Broadcast, stateVars, appVars
      <3> QED BY <3>1, <3>2, <3>3, <1>AttemptStep, Zenon
    <2> QED BY <2>1, <2>2, <2>3, <2>4, <2>5
  \* A step that neither begins an attempt nor takes part in one.
  <1>AttemptKept. ASSUME AttemptInv, Pending(Attempt)' = Pending(Attempt), UNCHANGED << starts, abandoned >>,
                         \/ UNCHANGED << events, state >>
                         \/ \E event \in {"Kicked", "ConnectionError"} : \E after : Leave(event, after)
                  PROVE  AttemptInv'
    <2> USE <1>AttemptKept
    <2>1. \/ UNCHANGED << events, state >>
          \/ events = Established /\ events' \in Over /\ state' = "Inited"
      BY LeaveEvents
    <2>2. CASE UNCHANGED << events, state >>
      BY <2>2, Zenon DEF AttemptInv, Attempts, StateMatchesEvents
    <2>3. CASE events = Established /\ events' \in Over /\ state' = "Inited"
      <3>1. events # << >> /\ events' # << >> /\ events' # Established
        BY <2>3, EventFacts
      <3>2. Attempts'
        BY <3>1 DEF AttemptInv, Attempts, One
      <3>3. StateMatchesEvents'
        BY <2>3, <3>1 DEF StateMatchesEvents, Established
      <3> QED BY <2>3, <3>2, <3>3 DEF AttemptInv
    <2> QED BY <2>1, <2>2, <2>3
  \* The other steps, but for Start.
  <1>AttemptOthers. ASSUME Seqs, AttemptInv, Next,
                           ~(OnConnect \/ OnHandshakeSent \/ OnHandshakeRejected \/ OnHandshakeResponse \/ OnAckSent \/ Start)
                    PROVE  AttemptInv'
    <2> USE <1>AttemptOthers
    <2>0. Pending(Attempt)' = Pending(Attempt)
      <3>1. CASE OnReceive \/ OnRequestSent
        <4>1. TaskClass(Task) # Attempt
          BY <3>1, DonePending, ClassFacts
        <4>2. Pending(Attempt) = Pending(Attempt)' + One(Attempt = TaskClass(Task)) /\ Pending(Attempt)' \in Nat
          BY <3>1, DonePending
        <4> QED BY <4>1, <4>2 DEF One
      <3>2. CASE ReceivePackets
        <4>1. Pending(Attempt)' = Pending(Attempt) + One(Attempt = Reading)
          BY <3>2, ReadPending
        <4> QED BY <4>1, ClassFacts, PendingType DEF One
      <3>3. CASE OnPostRequest \/ \E r \in Requests : PostRequest(r)
        BY <3>3, RequestKeeps, ClassFacts
      <3> QED BY <3>1, <3>2, <3>3, PendingKept, ClassFacts, Zenon DEF Next, Worker, Application
    <2>1. CASE ProcessFatal \/ OnReceive \/ OnHeartbeatSent \/ OnHeartbeatTimeout
      <3>1. UNCHANGED << starts, abandoned >>
        BY <2>1, Zenon DEF ProcessFatal, OnReceive, OnHeartbeatSent, OnHeartbeatTimeout, stateVars, appVars, historyVars
      <3>2. \/ UNCHANGED << events, state >>
            \/ \E event \in {"Kicked", "ConnectionError"} : \E after : Leave(event, after)
        BY <2>1 DEF ProcessFatal, OnReceive, OnHeartbeatSent, OnHeartbeatTimeout, ConnectionError, KickedFromServer, stateVars, appVars, historyVars
      <3> QED BY <2>0, <3>1, <3>2, <1>AttemptKept
    <2>2. CASE \/ ProcessHeartbeat \/ ProcessMessage \/ ReceivePackets \/ Disconnect \/ SendNextPacket
               \/ OnPostRequest \/ OnRequestSent \/ OnRequestTimeout \/ OnTick
      <3>1. UNCHANGED << starts, abandoned, events, state >>
        BY <2>2, ZenonT(30) DEF ProcessHeartbeat, ProcessMessage, ReceivePackets, Disconnect, SendNextPacket, OnPostRequest,
              OnRequestSent, OnRequestTimeout, OnTick, ExtendHeartbeatTimeout, stateVars, appVars, historyVars
      <3> QED BY <2>0, <3>1, <1>AttemptKept
    <2>3. CASE Environment \/ \E r \in Requests : PostRequest(r)
      <3>1. UNCHANGED << starts, abandoned, events, state >>
        BY <2>3, Zenon DEF Environment, ConnectCompletes, SendCompletes, SendFails, ReceiveCompletes, ReceiveFails,
              HeartbeatTimerExpires, HeartbeatTimeoutExpires, RequestTimerExpires, PostRequest, stateVars, appVars, historyVars
      <3> QED BY <2>0, <3>1, <1>AttemptKept
    <2> QED BY <2>1, <2>2, <2>3 DEF Next, Worker, Application
  \* The application calls Start again when the attempt before has ended.
  <1>AttemptStart. ASSUME Seqs, AttemptInv, Start, Restart # "anytime" PROVE AttemptInv'
    <2> USE <1>AttemptStart
    <2>1. starts = 0 \/ Ended
      BY Zenon DEF Start, MayStart
    <2>2. Pending(Attempt) = 0 /\ events # Established
      <3>1. CASE starts = 0
        BY <3>1, AttemptFacts, EventFacts
      <3>2. CASE Ended
        BY <3>2, AttemptFacts, EventFacts DEF Ended
      <3> QED BY <2>1, <3>1, <3>2
    <2>3. Pending(Attempt)' = 1
      BY <2>2, StartPending DEF One
    <2>4. /\ starts' = starts + 1 /\ events' = << >> /\ abandoned' = FALSE /\ UNCHANGED state
          /\ starts \in Nat /\ state \in {"Inited", "Connected"}
      BY DEF Start, stateVars, AttemptInv
    <2>5. Attempts'
      BY <2>3, <2>4 DEF Attempts, One
    <2>6. StateMatchesEvents'
      BY <2>2, <2>4, EventFacts DEF AttemptInv, StateMatchesEvents, Established
    <2> QED BY <2>4, <2>5, <2>6 DEF AttemptInv
  <1> SUFFICES ASSUME IInv, AttemptInv, [Next]_vars PROVE AttemptInv'
    OBVIOUS
  <1>1. Seqs
    BY DEF IInv
  <1>2. CASE Next
    BY <1>1, <1>2, <1>AttemptHandlers, <1>AttemptOthers, <1>AttemptStart
  <1>3. CASE UNCHANGED vars
    BY <1>3 DEF vars, stateVars, socketVars, appVars, historyVars, AttemptInv, Attempts, Pending, StateMatchesEvents
  <1> QED BY <1>2, <1>3

\* Each call of Start is one attempt, under way in exactly one place until the
\* application hears that it connected or failed, or it is given up: the
\* callbacks of Connect, SendHandshake, ReceiveHandshakeResponse and
\* SendHandshakeAck never run two attempts, nor report one twice.
THEOREM ConnectionAttempts == ASSUME Restart # "anytime" PROVE Spec => []Attempts
  <1>1. AttemptInv => Attempts
    BY DEF AttemptInv
  <1> QED BY <1>1, InitIInv, NextIInv, InitAttempts, NextAttempts, PTL DEF Spec

\* State::SetConnected and SetInited keep in step with the events that the
\* listeners hear, when the application calls Start again only after one that
\* ends the previous attempt.
THEOREM ConnectionState == ASSUME Restart # "anytime" PROVE Spec => []StateMatchesEvents
  <1>1. AttemptInv => StateMatchesEvents
    BY DEF AttemptInv
  <1> QED BY <1>1, InitIInv, NextIInv, InitAttempts, NextAttempts, PTL DEF Spec

-----------------------------------------------------------------------------
(* The end of a connection *)

\* When the application hears of the end, Disconnect is still to come or done.
EndInv == events \in Over => socket = "closed" \/ DoDisconnect \in Range(work)

\* Every step keeps the promise to disconnect.
LEMMA NextEnd == ASSUME IInv, AttemptInv, EndInv, Next PROVE EndInv'
  \* ConnectionError and KickedFromServer leave Disconnect to do.
  <1>LeaveDisconnects. ASSUME AttemptInv, EndInv, NEW event \in {"Kicked", "ConnectionError"}, NEW after, IsSeq(after), Leave(event, after),
                              UNCHANGED socket, DoDisconnect \in Range(work) => DoDisconnect \in Range(after)
                       PROVE  EndInv'
    <2> USE <1>LeaveDisconnects
    <2>1. CASE UNCHANGED events /\ work' = after
      BY <2>1 DEF EndInv
    <2>2. CASE work' = << DoDisconnect >> \o after
      BY <2>2, SingletonFacts, ConcatFacts DEF EndInv
    <2> QED BY <2>1, <2>2, LeaveEvents
  <1>0. Seqs /\ IsSeq(<< >>) /\ Range(<< >>) = {}
    BY EmptyFacts DEF IInv
  <1>1. CASE OnConnect \/ OnHandshakeSent \/ OnHandshakeRejected \/ OnHandshakeResponse \/ OnAckSent
    <2>1. PICK kind : Runs(kind) /\ TaskClass(Task) = Attempt
      BY <1>0, <1>1, AttemptTask
    <2>2. events = << >> /\ state = "Inited"
      BY <1>0, <2>1, AttemptRuns, Zenon
    <2>3. events' \in {<< >>, Failed, Established}
      BY <1>1, <2>2, EventFacts, Zenon DEF OnConnect, OnHandshakeSent, OnHandshakeRejected, OnHandshakeResponse, OnAckSent,
            HandshakeFailed, ConnectionError, Leave, Broadcast, stateVars, socketVars
    <2> QED BY <2>3, EventFacts DEF EndInv
  <1>2. CASE OnReceive \/ OnHeartbeatSent \/ OnHeartbeatTimeout
    <2>1. work = << >> /\ UNCHANGED socket
      BY <1>2, Zenon DEF OnReceive, OnHeartbeatSent, OnHeartbeatTimeout, Runs, stateVars, socketVars
    <2>2. \/ Leave("ConnectionError", << >>)
          \/ UNCHANGED events
      BY <1>2, Zenon DEF OnReceive, OnHeartbeatSent, OnHeartbeatTimeout, ConnectionError, stateVars, socketVars
    <2>3. CASE Leave("ConnectionError", << >>)
      BY <1>0, <2>1, <2>3, <1>LeaveDisconnects
    <2>4. CASE UNCHANGED events
      BY <1>0, <2>1, <2>4 DEF EndInv
    <2> QED BY <2>2, <2>3, <2>4
  <1>3. CASE ProcessFatal
    <2>1. Does("ProcessPacket") /\ UNCHANGED socket
      BY <1>3 DEF ProcessFatal, socketVars
    <2>2. PICK event \in {"Kicked", "ConnectionError"} : Leave(event, Tail(work))
      BY <1>3 DEF ProcessFatal, ConnectionError, KickedFromServer, socketVars
    <2>3. IsSeq(Tail(work)) /\ Head(work) # DoDisconnect /\ Range(work) = {Head(work)} \union Range(Tail(work))
      BY <1>0, <2>1, DoesFacts DEF DoDisconnect
    <2> QED BY <2>1, <2>2, <2>3, <1>LeaveDisconnects
  <1>4. CASE ProcessHeartbeat \/ ProcessMessage \/ ReceivePackets
    <2>1. PICK what : Does(what) /\ what # "Disconnect" /\ work' = Tail(work) /\ UNCHANGED << socket, events >>
      BY <1>4 DEF ProcessHeartbeat, ProcessMessage, ReceivePackets, stateVars, socketVars
    <2>2. Head(work) # DoDisconnect /\ Range(work) = {Head(work)} \union Range(Tail(work))
      BY <1>0, <2>1, DoesFacts DEF DoDisconnect
    <2> QED BY <2>1, <2>2 DEF EndInv
  <1>5. CASE Disconnect
    BY <1>5 DEF Disconnect, EndInv, stateVars
  <1>6. CASE SendNextPacket \/ OnPostRequest \/ OnRequestSent \/ OnRequestTimeout \/ OnTick
    BY <1>6, Zenon DEF SendNextPacket, OnPostRequest, OnRequestSent, OnRequestTimeout, OnTick, EndInv, stateVars, socketVars
  <1>7. CASE ConnectCompletes
    <2>1. Pending(Attempt) # 0
      BY <1>0, <1>7, PendingType DEF ConnectCompletes, stateVars
    <2>2. events' = << >>
      BY <1>0, <1>7, <2>1, AttemptFacts DEF ConnectCompletes, stateVars
    <2> QED BY <2>2, EventFacts DEF EndInv
  <1>8. CASE SendFails \/ ReceiveFails
    BY <1>8, Zenon DEF SendFails, ReceiveFails, EndInv, stateVars
  <1>9. CASE \/ SendCompletes \/ ReceiveCompletes \/ HeartbeatTimerExpires \/ HeartbeatTimeoutExpires
             \/ RequestTimerExpires \/ \E r \in Requests : PostRequest(r)
    BY <1>9, Zenon DEF SendCompletes, ReceiveCompletes, HeartbeatTimerExpires, HeartbeatTimeoutExpires, RequestTimerExpires,
          PostRequest, EndInv, stateVars, socketVars
  <1>10. CASE Start
    BY <1>10, EventFacts DEF Start, EndInv, stateVars
  <1> QED BY <1>1, <1>2, <1>3, <1>4, <1>5, <1>6, <1>7, <1>8, <1>9, <1>10 DEF Next, Worker, Environment, Application

\* ConnectionError and KickedFromServer disconnect: when the handler that told
\* the application of the end is done, the socket is closed.
THEOREM ConnectionEnds == ASSUME Restart # "anytime" PROVE Spec => []EndedIsClosed
  <1>1. Init => EndInv
    BY EventFacts DEF Init, EndInv
  <1>2. IInv /\ AttemptInv /\ EndInv /\ [Next]_vars => EndInv'
    <2>1. EndInv /\ UNCHANGED vars => EndInv'
      BY DEF vars, socketVars, EndInv
    <2> QED BY <2>1, NextEnd
  <1>3. AttemptInv /\ EndInv => EndedIsClosed
    <2> SUFFICES ASSUME AttemptInv, EndInv, Ended, events[1] = "Connected", work = << >> PROVE socket = "closed"
      BY DEF EndedIsClosed
    <2>1. events # << >> /\ events # Failed /\ events # Established
      BY EventFacts DEF Ended, Failed
    <2> QED BY <2>1, EmptyFacts DEF AttemptInv, EndInv
  <1> QED BY <1>1, <1>2, <1>3, InitIInv, NextIInv, InitAttempts, NextAttempts, PTL DEF Spec

-----------------------------------------------------------------------------
(* What an established connection leaves in the queue *)

\* Its ticks and timeouts, and the packets that it queued.
IsOld(t) ==
    \/ t.kind \in {"HeartbeatTick", "HeartbeatTimeout"}
    \/ t.kind = "SendNextPacket" /\ HandlerClass(t.handler) # Attempt

NoneOld(q) == \A t \in Range(q) : ~IsOld(t)

\* All of this is handled before the next attempt gets on:
\* behind them in the queue there is at most its ConnectDone.
OldFirst(q) ==
    \A i, j \in 1..Len(q) :
        IsOld(q[i]) /\ TaskClass(q[j]) = Attempt => i < j /\ q[j].kind = "ConnectDone"

OldInv ==
    /\ OldFirst(ioQueue)
    /\ NoneOld(ioQueue) \/ ((\A h \in Range(sends) : HandlerClass(h) # Attempt) /\ "handshake" \notin Range(recvs))
    /\ state = "Connected" => \A t \in Range(ioQueue) : t.kind = "HeartbeatTimeout" => t.epoch = epoch
    /\ heartbeatTimer \/ heartbeatTimeout => state = "Connected"

\* The state is left as it was, or left for Inited.
Steady ==
    /\ UNCHANGED epoch
    /\ state' = "Connected" => state = "Connected"
    /\ heartbeatTimer' \/ heartbeatTimeout' => state' = "Connected"

\* The order when the first handler is taken: one of an attempt has nothing of
\* an earlier connection behind it.
LEMMA FirstTail ==
  ASSUME NEW q, IsSeq(q), q # << >>, OldFirst(q)
  PROVE  OldFirst(Tail(q)) /\ (TaskClass(Head(q)) = Attempt => NoneOld(q))
  <1> DEFINE a == Tail(q)
  <1>1. /\ Len(a) \in Nat /\ Len(q) = 1 + Len(a) /\ q[1] = Head(q)
        /\ \A i \in 1..Len(a) : a[i] = q[1 + i]
    BY TailAt
  <1>2. DOMAIN q = 1..Len(q)
    BY SeqShape
  <1> HIDE DEF a
  <1>3. OldFirst(a)
    <2> SUFFICES ASSUME NEW i \in 1..Len(a), NEW j \in 1..Len(a), IsOld(a[i]), TaskClass(a[j]) = Attempt
                 PROVE  i < j /\ a[j].kind = "ConnectDone"
      BY DEF OldFirst
    <2>1. 1 + i \in 1..Len(q) /\ 1 + j \in 1..Len(q) /\ a[i] = q[1 + i] /\ a[j] = q[1 + j]
      BY <1>1
    <2>2. 1 + i < 1 + j /\ q[1 + j].kind = "ConnectDone"
      BY <2>1 DEF OldFirst
    <2> QED BY <2>1, <2>2
  <1>4. ASSUME TaskClass(Head(q)) = Attempt, NEW t \in Range(q), IsOld(t) PROVE FALSE
    <2>1. PICK i \in 1..Len(q) : t = q[i]
      BY <1>2 DEF Range
    <2>2. 1 \in 1..Len(q)
      BY <1>1
    <2>3. i < 1
      BY <1>1, <1>4, <2>1, <2>2 DEF OldFirst
    <2> QED BY <2>3
  <1> QED BY <1>3, <1>4 DEF NoneOld, a

\* OldInv holds when nothing is in the queue.
LEMMA InitOld == Init => OldInv
  BY EmptyFacts, SeqShape DEF Init, OldInv, OldFirst, NoneOld

\* State gives up its timers with the connection, and what is already in the
\* queue is handled before the next handshake can be sent.
LEMMA NextOld ==
  ASSUME Restart # "anytime"
  PROVE  IInv /\ AttemptInv /\ OldInv /\ [Next]_vars => OldInv'
  \* Handlers that are not left by an established connection.
  <1>NotOld. /\ \A h, ec : ~IsOld(SendDone(h, ec))
             /\ \A reader, ec, ps : ~IsOld(ReceiveDone(reader, ec, ps))
             /\ ~IsOld(PostedSend(HandshakeHandler)) /\ \A d : ~IsOld(PostedSend(AckHandler(d)))
    <2>1. HandlerClass(HandshakeHandler) = Attempt /\ \A d : HandlerClass(AckHandler(d)) = Attempt
      BY DEF HandlerClass, HandshakeHandler, AckHandler
    <2> QED BY <2>1 DEF IsOld, PostedSend, SendDone, ReceiveDone
  \* Without them, or without an attempt, there is no order to keep.
  <1>FirstNone. ASSUME NEW q, IsSeq(q), NoneOld(q) PROVE OldFirst(q)
    BY <1>FirstNone, SeqShape DEF NoneOld, OldFirst
  <1>FirstAlone. ASSUME NEW q, IsSeq(q), \A t \in Range(q) : TaskClass(t) # Attempt PROVE OldFirst(q)
    BY <1>FirstAlone, SeqShape DEF OldFirst
  \* The order when handlers join the queue.
  <1>FirstConcat. ASSUME NEW q, IsSeq(q), NEW r, IsSeq(r), OldFirst(q), NoneOld(r),
                         NoneOld(q) \/ \A t \in Range(r) : TaskClass(t) = Attempt => t.kind = "ConnectDone"
                  PROVE  OldFirst(q \o r)
    <2> USE <1>FirstConcat
    <2> DEFINE a == q \o r
    <2>1. /\ Len(q) \in Nat /\ Len(r) \in Nat /\ Len(a) = Len(q) + Len(r)
          /\ \A i \in 1..Len(q) : a[i] = q[i]
          /\ \A i \in 1..Len(r) : a[Len(q) + i] = r[i]
      <3>1. Joined(a, q, r)
        BY ConcatJoined, Zenon
      <3> QED BY <3>1, Zenon DEF Joined
    <2> HIDE DEF a
    <2>2. /\ \A i \in 1..Len(q) : q[i] \in Range(q)
          /\ \A i \in 1..Len(r) : r[i] \in Range(r)
      BY SeqShape
    <2> SUFFICES ASSUME NEW i \in 1..Len(a), NEW j \in 1..Len(a), IsOld(a[i]), TaskClass(a[j]) = Attempt
                 PROVE  i < j /\ a[j].kind = "ConnectDone"
      BY Zenon DEF OldFirst, a
    <2>3. i \in 1..Len(q) /\ a[i] = q[i] /\ ~NoneOld(q)
      <3>1. CASE i \in 1..Len(q)
        BY <2>1, <2>2, <3>1, Zenon DEF NoneOld
      <3>2. CASE i \notin 1..Len(q)
        <4>1. PICK k \in 1..Len(r) : i = Len(q) + k
          <5>1. i - Len(q) \in 1..Len(r) /\ i = Len(q) + (i - Len(q))
            BY <2>1, <3>2
          <5> QED BY <5>1, Zenon
        <4> QED BY <2>1, <2>2, <4>1, Zenon DEF NoneOld
      <3> QED BY <3>1, <3>2, Zenon
    <2>4. CASE j \in 1..Len(q)
      BY <2>1, <2>3, <2>4, Zenon DEF OldFirst
    <2>5. CASE j \notin 1..Len(q)
      <3>1. PICK k \in 1..Len(r) : j = Len(q) + k
        <4>1. j - Len(q) \in 1..Len(r) /\ j = Len(q) + (j - Len(q))
          BY <2>1, <2>5
        <4> QED BY <4>1, Zenon
      <3>2. a[j] = r[k] /\ r[k] \in Range(r)
        BY <2>1, <2>2, <3>1, Zenon
      <3>3. a[j].kind = "ConnectDone"
        BY <2>3, <3>2, Zenon
      <3> QED BY <2>1, <2>3, <2>5, <3>3
    <2> QED BY <2>4, <2>5, Zenon
  \* The same for one handler.
  <1>FirstAppend. ASSUME NEW q, IsSeq(q), NEW x, OldFirst(q), ~IsOld(x),
                         NoneOld(q) \/ TaskClass(x) # Attempt \/ x.kind = "ConnectDone"
                  PROVE  OldFirst(Append(q, x))
    <2> USE <1>FirstAppend
    <2> DEFINE a == Append(q, x)
    <2>1. /\ Len(q) \in Nat /\ Len(a) = Len(q) + 1 /\ a[Len(q) + 1] = x
          /\ \A i \in 1..Len(q) : a[i] = q[i]
      BY AppendAt, Zenon
    <2> HIDE DEF a
    <2>2. \A i \in 1..Len(q) : q[i] \in Range(q)
      BY SeqShape
    <2> SUFFICES ASSUME NEW i \in 1..Len(a), NEW j \in 1..Len(a), IsOld(a[i]), TaskClass(a[j]) = Attempt
                 PROVE  i < j /\ a[j].kind = "ConnectDone"
      BY Zenon DEF OldFirst, a
    <2>3. CASE i = Len(q) + 1
      BY <2>1, <2>2, <2>3
    <2>4. CASE i # Len(q) + 1 /\ j = Len(q) + 1
      BY <2>1, <2>2, <2>4 DEF NoneOld
    <2>5. CASE i # Len(q) + 1 /\ j # Len(q) + 1
      <3>1. i \in 1..Len(q) /\ j \in 1..Len(q) /\ a[i] = q[i] /\ a[j] = q[j]
        BY <2>1, <2>5
      <3> QED BY <3>1, Zenon DEF OldFirst
    <2> QED BY <2>3, <2>4, <2>5, Zenon
  \* A step after which nothing of an earlier connection is in the queue.
  <1>OldGone. ASSUME IsSeq(ioQueue'), NoneOld(ioQueue'), heartbeatTimer' \/ heartbeatTimeout' => state' = "Connected"
              PROVE  OldInv'
    <2> USE <1>OldGone
    <2>1. OldFirst(ioQueue')
      BY <1>FirstNone
    <2>2. \A t \in Range(ioQueue') : t.kind # "HeartbeatTimeout"
      BY DEF NoneOld, IsOld
    <2> QED BY <2>1, <2>2, Zenon DEF OldInv
  \* ConnectionError and KickedFromServer stop the timers.
  <1>LeaveSteady. ASSUME OldInv, UNCHANGED epoch, UNCHANGED stateVars \/ \E event, after : Leave(event, after)
                  PROVE  Steady
    BY <1>LeaveSteady DEF Leave, SetInited, stateVars, Steady, OldInv
  \* While a connection is established no attempt is under way, and its handlers
  \* may join the queue.
  <1>OldConnected. ASSUME Seqs, AttemptInv, OldInv, Steady, state = "Connected",
                          NEW x, TaskClass(x) # Attempt, x.kind = "HeartbeatTimeout" => x.epoch = epoch,
                          IsSeq(ioQueue'), Range(ioQueue') \subseteq Range(ioQueue) \union {x}, UNCHANGED << sends, recvs >>
                   PROVE  OldInv'
    <2> USE <1>OldConnected
    <2>1. events = Established
      BY Zenon DEF AttemptInv, StateMatchesEvents, Established
    <2>2. Pending(Attempt) = 0
      BY <2>1, AttemptFacts, EventFacts, Zenon
    <2>3. /\ \A t \in Range(ioQueue) : TaskClass(t) # Attempt
          /\ \A h \in Range(sends) : HandlerClass(h) # Attempt
          /\ \A r \in Range(recvs) : ReaderClass(r) # Attempt
      BY <2>2, PendingType, Zenon
    <2>4. OldFirst(ioQueue')
      BY <2>3, <1>FirstAlone
    <2>5. "handshake" \notin Range(recvs)
      BY <2>3 DEF ReaderClass
    <2>6. \A t \in Range(ioQueue') : t.kind = "HeartbeatTimeout" => t.epoch = epoch
      BY DEF OldInv
    <2> QED BY <2>3, <2>4, <2>5, <2>6, Zenon DEF OldInv, Steady
  \* A step that leaves what is old where it is.
  <1>OldStay. ASSUME OldInv, Steady, OldFirst(ioQueue'),
                          \A t \in Range(ioQueue') \ Range(ioQueue) : ~IsOld(t),
                          \/ NoneOld(ioQueue)
                          \/ /\ \A h \in Range(sends') \ Range(sends) : HandlerClass(h) # Attempt
                             /\ "handshake" \in Range(recvs') => "handshake" \in Range(recvs)
                   PROVE  OldInv'
    <2> USE <1>OldStay
    <2>1. NoneOld(ioQueue) => NoneOld(ioQueue')
      BY DEF NoneOld
    <2>2. NoneOld(ioQueue') \/ ((\A h \in Range(sends') : HandlerClass(h) # Attempt) /\ "handshake" \notin Range(recvs'))
      BY <2>1, Zenon DEF OldInv
    <2>3. state' = "Connected" => \A t \in Range(ioQueue') : t.kind = "HeartbeatTimeout" => t.epoch = epoch'
      BY DEF OldInv, Steady, IsOld
    <2> QED BY <2>2, <2>3, Zenon DEF OldInv, Steady
  \* A handler runs that is not of the attempt.
  <1>OldRun. ASSUME Seqs, OldInv, Steady, NEW kind, Runs(kind), NEW x, ~IsOld(x), TaskClass(x) # Attempt,
                         ioQueue' \in {Rest, Append(Rest, x)}, recvs' = recvs,
                         \A h \in Range(sends') \ Range(sends) : HandlerClass(h) # Attempt
                  PROVE  OldInv'
    <2> USE <1>OldRun
    <2>1. IsSeq(Rest) /\ Range(ioQueue) = {Task} \union Range(Rest)
      BY RunsFacts
    <2>2. OldFirst(Rest)
      BY FirstTail DEF Seqs, Runs, Rest, OldInv
    <2> DEFINE a == Append(Rest, x)
    <2>3. OldFirst(a) /\ Range(a) = Range(Rest) \union {x} /\ ioQueue' \in {Rest, a}
      BY <2>1, <2>2, <1>FirstAppend, AppendFacts, Zenon
    <2> HIDE DEF a
    <2>4. OldFirst(ioQueue')
      BY <2>2, <2>3
    <2>5. \A t \in Range(ioQueue') \ Range(ioQueue) : ~IsOld(t)
      BY <2>1, <2>3
    <2> QED BY <2>4, <2>5, <1>OldStay, Zenon
  \* A handler of the attempt runs.
  <1>OldAttempt. ASSUME Seqs, OldInv, NEW kind, Runs(kind), TaskClass(Task) = Attempt, NEW x, ~IsOld(x),
                             ioQueue' \in {Rest, Append(Rest, x)}, heartbeatTimer' \/ heartbeatTimeout' => state' = "Connected"
                      PROVE  OldInv'
    <2> USE <1>OldAttempt
    <2>1. IsSeq(Rest) /\ Range(ioQueue) = {Task} \union Range(Rest)
      BY RunsFacts
    <2>2. NoneOld(ioQueue)
      BY FirstTail, Zenon DEF Seqs, Runs, Task, OldInv
    <2> DEFINE a == Append(Rest, x)
    <2>3. IsSeq(a) /\ Range(a) = Range(Rest) \union {x} /\ ioQueue' \in {Rest, a}
      BY <2>1, AppendFacts
    <2> HIDE DEF a
    <2>4. IsSeq(ioQueue') /\ NoneOld(ioQueue')
      BY <2>1, <2>2, <2>3 DEF NoneOld
    <2> QED BY <2>4, <1>OldGone
  \* Handlers join the queue: of an attempt only ConnectDone, or there is nothing old.
  <1>OldJoin. ASSUME Seqs, OldInv, Steady, NEW x, ioQueue' = Append(ioQueue, x), ~IsOld(x),
                          TaskClass(x) = Attempt => NoneOld(ioQueue) \/ x.kind = "ConnectDone",
                          Range(sends') \subseteq Range(sends), Range(recvs') \subseteq Range(recvs)
                   PROVE  OldInv'
    <2> USE <1>OldJoin
    <2>1. OldFirst(ioQueue') /\ Range(ioQueue') = Range(ioQueue) \union {x}
      BY <1>FirstAppend, AppendFacts, Zenon DEF Seqs, OldInv
    <2> QED BY <2>1, <1>OldStay, Zenon
  \* The handlers of the worker keep what is old before the next attempt.
  <1>OldHandlers. ASSUME Seqs, AttemptInv, OldInv,
                             \/ OnConnect \/ OnHandshakeSent \/ OnHandshakeRejected \/ OnHandshakeResponse \/ OnAckSent
                             \/ OnReceive \/ SendNextPacket \/ OnPostRequest \/ OnRequestSent \/ OnRequestTimeout
                             \/ OnTick \/ OnHeartbeatSent \/ OnHeartbeatTimeout
                      PROVE  OldInv'
    <2> USE <1>OldHandlers
    <2>0. ~IsOld(RequestTimedOut(0)) /\ TaskClass(RequestTimedOut(0)) # Attempt
      BY ClassOf, ClassFacts, Zenon DEF IsOld, RequestTimedOut
    <2>1. CASE OnConnect \/ OnHandshakeSent \/ OnHandshakeRejected \/ OnHandshakeResponse \/ OnAckSent
      <3>1. PICK kind : Runs(kind) /\ TaskClass(Task) = Attempt
        BY <2>1, AttemptTask
      <3>2. PICK x : ~IsOld(x) /\ ioQueue' \in {Rest, Append(Rest, x)}
        BY <1>NotOld, <2>0, <2>1, Zenon DEF OnConnect, OnHandshakeSent, OnHandshakeRejected, OnHandshakeResponse, OnAckSent,
              SendPacket, StartReceive, stateVars, socketVars, historyVars
      <3>3. heartbeatTimer' \/ heartbeatTimeout' => state' = "Connected"
        BY <2>1, Zenon DEF OnConnect, OnHandshakeSent, OnHandshakeRejected, OnHandshakeResponse, OnAckSent, HandshakeFailed,
              SetInited, SetConnected, ConnectionError, Leave, OldInv, stateVars, socketVars, historyVars
      <3> QED BY <3>1, <3>2, <3>3, <1>OldAttempt
    <2>2. CASE OnReceive \/ OnRequestSent \/ OnRequestTimeout \/ OnHeartbeatSent \/ OnHeartbeatTimeout
      <3>1. PICK kind : Runs(kind) /\ ioQueue' = Rest /\ UNCHANGED << sends, recvs >>
        BY <2>2, Zenon DEF OnReceive, OnRequestSent, OnRequestTimeout, OnHeartbeatSent, OnHeartbeatTimeout, stateVars, socketVars, historyVars
      <3>2. Steady
        <4>1. UNCHANGED epoch /\ (UNCHANGED stateVars \/ \E event, after : Leave(event, after))
          BY <2>2, Zenon DEF OnReceive, OnRequestSent, OnRequestTimeout, OnHeartbeatSent, OnHeartbeatTimeout, ConnectionError, socketVars, historyVars
        <4> QED BY <4>1, <1>LeaveSteady
      <3> QED BY <2>0, <3>1, <3>2, <1>OldRun
    <2>3. CASE OnTick
      <3> DEFINE x == PostedSend(HeartbeatHandler)
      <3>1. /\ Runs("HeartbeatTick") /\ UNCHANGED << sends, recvs >>
            /\ ioQueue' = Rest \/ (state = "Connected" /\ ioQueue' = Append(Rest, x))
        BY <2>3, Zenon DEF OnTick, SendPacket, socketVars, historyVars
      <3>2. TaskClass(x) # Attempt /\ x.kind # "HeartbeatTimeout"
        BY ClassOf, HandlerClassOf, ClassFacts, Zenon DEF PostedSend
      <3>3. Steady
        BY <2>3, Zenon DEF OnTick, WaitForNextTick, Steady, OldInv, socketVars, historyVars
      <3> HIDE DEF x
      <3>4. CASE ioQueue' = Rest
        BY <2>0, <3>1, <3>3, <3>4, <1>OldRun
      <3>5. CASE state = "Connected" /\ ioQueue' = Append(Rest, x)
        <4>1. IsSeq(ioQueue') /\ Range(ioQueue') \subseteq Range(ioQueue) \union {x}
          BY <3>1, <3>5, RunsFacts, AppendFacts
        <4> QED BY <3>1, <3>2, <3>3, <3>5, <4>1, <1>OldConnected, Zenon
      <3> QED BY <3>1, <3>4, <3>5
    <2>4. CASE OnPostRequest
      <3> DEFINE x == PostedSend(RequestHandler(Task.req, reqId))
      <3>1. /\ Runs("PostRequest") /\ UNCHANGED << sends, recvs >>
            /\ ioQueue' \in {ioQueue, Rest} \/ (state = "Connected" /\ ioQueue' = Append(Rest, x))
        BY <2>4, Zenon DEF OnPostRequest, SendPacket, stateVars, socketVars
      <3>2. TaskClass(x) # Attempt /\ x.kind # "HeartbeatTimeout"
        <4>1. \A r, id : HandlerClass(RequestHandler(r, id)) # Attempt
          BY HandlerClassOf, ClassFacts, Zenon
        <4>2. \A h : TaskClass(PostedSend(h)) = HandlerClass(h) /\ PostedSend(h).kind # "HeartbeatTimeout"
          BY ClassOf, Zenon DEF PostedSend
        <4> QED BY <4>1, <4>2, Zenon
      <3>3. Steady
        BY <2>4, Zenon DEF OnPostRequest, Steady, OldInv, stateVars, socketVars
      <3> HIDE DEF x
      <3>4. CASE ioQueue' = ioQueue
        BY <3>1, <3>3, <3>4, <1>OldStay, Zenon DEF OldInv
      <3>5. CASE ioQueue' = Rest
        BY <2>0, <3>1, <3>3, <3>5, <1>OldRun
      <3>6. CASE state = "Connected" /\ ioQueue' = Append(Rest, x)
        <4>1. IsSeq(ioQueue') /\ Range(ioQueue') \subseteq Range(ioQueue) \union {x}
          BY <3>1, <3>6, RunsFacts, AppendFacts
        <4> QED BY <3>1, <3>2, <3>3, <3>6, <4>1, <1>OldConnected, Zenon
      <3> QED BY <3>1, <3>4, <3>5, <3>6
    <2>5. CASE SendNextPacket
      <3> DEFINE h == Task.handler
                 x == SendDone(h, "error")
      <3>1. /\ Runs("SendNextPacket") /\ UNCHANGED recvs
            /\ ioQueue' \in {Rest, Append(Rest, x)} /\ sends' \in {sends, Append(sends, h)}
        BY <2>5, Zenon DEF SendNextPacket, stateVars, historyVars
      <3>2. TaskClass(Task) = HandlerClass(h)
        BY <3>1, RunsFacts DEF TaskClass
      <3>3. ~IsOld(x) /\ TaskClass(x) = HandlerClass(h)
        BY ClassOf, <1>NotOld, Zenon
      <3>4. Steady
        BY <2>5, Zenon DEF SendNextPacket, Steady, OldInv, stateVars, historyVars
      <3> HIDE DEF x, h
      <3>5. CASE HandlerClass(h) = Attempt
        BY <3>1, <3>2, <3>3, <3>4, <3>5, <1>OldAttempt DEF Steady
      <3>6. CASE HandlerClass(h) # Attempt
        <4> DEFINE a == Append(sends, h)
        <4>1. Range(a) = Range(sends) \union {h} /\ sends' \in {sends, a}
          BY <3>1, AppendFacts DEF Seqs
        <4> HIDE DEF a
        <4>2. \A g \in Range(sends') \ Range(sends) : HandlerClass(g) # Attempt
          BY <3>6, <4>1
        <4> QED BY <3>1, <3>3, <3>4, <3>6, <4>2, <1>OldRun
      <3> QED BY <3>5, <3>6
    <2> QED BY <2>1, <2>2, <2>3, <2>4, <2>5
  \* So does what is left of a handler.
  <1>OldWork. ASSUME Seqs, AttemptInv, OldInv, ProcessFatal \/ ProcessHeartbeat \/ ProcessMessage \/ ReceivePackets \/ Disconnect
                  PROVE  OldInv'
    <2> USE <1>OldWork
    <2>0. Steady
      <3> USE DEF Steady, OldInv
      <3>1. CASE ProcessFatal
        BY <3>1, Zenon DEF ProcessFatal, ConnectionError, KickedFromServer, Leave, SetInited, stateVars, socketVars, historyVars
      <3>2. CASE ProcessHeartbeat
        BY <3>2, Zenon DEF ProcessHeartbeat, ExtendHeartbeatTimeout, stateVars, socketVars, historyVars
      <3>3. CASE ProcessMessage
        BY <3>3, Zenon DEF ProcessMessage, ConnectionError, KickedFromServer, Leave, SetInited, ExtendHeartbeatTimeout, stateVars, socketVars
      <3>4. CASE ReceivePackets
        BY <3>4, Zenon DEF ReceivePackets, stateVars, historyVars
      <3>5. CASE Disconnect
        BY <3>5, Zenon DEF Disconnect, stateVars, historyVars
      <3> QED BY <3>1, <3>2, <3>3, <3>4, <3>5
    <2>1. CASE ProcessFatal \/ ProcessHeartbeat \/ ProcessMessage
      <3>1. UNCHANGED << ioQueue, sends, recvs >>
        BY <2>1, Zenon DEF ProcessFatal, ProcessHeartbeat, ProcessMessage, stateVars, socketVars, historyVars
      <3> QED BY <2>0, <3>1, <1>OldStay, Zenon DEF OldInv
    <2>2. CASE ReceivePackets
      <3> DEFINE x == ReceiveDone("packets", "error", << >>)
      <3>1. \/ ioQueue' = Append(ioQueue, x) /\ UNCHANGED << sends, recvs >>
            \/ UNCHANGED << ioQueue, sends >> /\ recvs' = Append(recvs, "packets")
        BY <2>2, Zenon DEF ReceivePackets, StartReceive, stateVars, historyVars
      <3>2. ~IsOld(x) /\ TaskClass(x) # Attempt
        <4>1. TaskClass(x) = Reading
          BY ClassOf DEF ReaderClass
        <4> QED BY <4>1, <1>NotOld, ClassFacts
      <3> HIDE DEF x
      <3>3. CASE ioQueue' = Append(ioQueue, x) /\ UNCHANGED << sends, recvs >>
        BY <2>0, <3>2, <3>3, <1>OldJoin
      <3>4. CASE UNCHANGED << ioQueue, sends >> /\ recvs' = Append(recvs, "packets")
        <4>1. Range(recvs') = Range(recvs) \union {"packets"}
          BY <3>4, AppendFacts DEF Seqs
        <4>2. "handshake" \in Range(recvs') => "handshake" \in Range(recvs)
          BY <4>1
        <4> QED BY <2>0, <3>4, <4>2, <1>OldStay, Zenon DEF OldInv
      <3> QED BY <3>1, <3>3, <3>4
    <2>3. CASE Disconnect
      <3>1. ioQueue' = ioQueue \o Aborted /\ recvs' = << >> /\ sends' = << >>
        BY <2>3 DEF Disconnect, stateVars, historyVars
      <3>2. IsSeq(Aborted) /\ Range(ioQueue') = Range(ioQueue) \union Range(Aborted)
        BY <3>1, AbortedRange, ConcatFacts DEF Seqs
      <3>3. NoneOld(Aborted)
        BY AbortedRange DEF NoneOld, IsOld, ReceiveDone, ConnectDone, SendDone
      <3>4. NoneOld(ioQueue) \/ \A t \in Range(Aborted) : TaskClass(t) = Attempt => t.kind = "ConnectDone"
        <4> SUFFICES ASSUME ~NoneOld(ioQueue), NEW t \in Range(Aborted), TaskClass(t) = Attempt
                     PROVE  t.kind = "ConnectDone"
          OBVIOUS
        <4>1. (\A h \in Range(sends) : HandlerClass(h) # Attempt) /\ "handshake" \notin Range(recvs)
          BY DEF OldInv
        <4>2. \A r \in Range(recvs) : ReaderClass(r) # Attempt
          BY <4>1, ClassFacts DEF ReaderClass
        <4>3. t = ConnectDone("error")
          BY <4>1, <4>2, AbortedRange, ClassOf
        <4> QED BY <4>3 DEF ConnectDone
      <3>5. OldFirst(ioQueue')
        BY <3>1, <3>2, <3>3, <3>4, <1>FirstConcat, Zenon DEF Seqs, OldInv
      <3>6. Range(sends') = {} /\ Range(recvs') = {}
        BY <3>1, EmptyFacts
      <3> QED BY <2>0, <3>2, <3>3, <3>5, <3>6, <1>OldStay DEF NoneOld
    <2> QED BY <2>1, <2>2, <2>3
  \* TCP, the server, the timers and the application keep it too.
  <1>OldOutside. ASSUME Seqs, AttemptInv, OldInv, Environment \/ Application, Restart # "anytime"
                     PROVE  OldInv'
    <2> USE <1>OldOutside
    <2>1. CASE ConnectCompletes
      <3>1. PICK ec : ioQueue' = Append(ioQueue, ConnectDone(ec))
        BY <2>1 DEF ConnectCompletes, stateVars, historyVars
      <3>2. ~IsOld(ConnectDone(ec)) /\ ConnectDone(ec).kind = "ConnectDone"
        BY DEF IsOld, ConnectDone
      <3>3. Steady /\ UNCHANGED << sends, recvs >>
        BY <2>1 DEF ConnectCompletes, Steady, OldInv, stateVars, historyVars
      <3> QED BY <3>1, <3>2, <3>3, <1>OldJoin
    <2>2. CASE SendCompletes \/ SendFails
      <3>1. PICK ec : ioQueue' = Append(ioQueue, SendDone(Head(sends), ec))
        BY <2>2, Zenon DEF SendCompletes, SendFails, stateVars, historyVars
      <3>2. sends # << >> /\ sends' = Tail(sends) /\ UNCHANGED recvs
        BY <2>2, Zenon DEF SendCompletes, SendFails, stateVars, historyVars
      <3>3. Range(sends) = {Head(sends)} \union Range(sends')
        BY <3>2, TailFacts DEF Seqs
      <3> DEFINE x == SendDone(Head(sends), ec)
      <3>4. ~IsOld(x) /\ TaskClass(x) = HandlerClass(Head(sends))
        BY ClassOf, <1>NotOld, Zenon
      <3>5. Steady
        <4>1. CASE SendCompletes
          BY <4>1, Zenon DEF SendCompletes, Steady, OldInv, stateVars, historyVars
        <4>2. CASE SendFails
          BY <4>2, Zenon DEF SendFails, Steady, OldInv, stateVars, historyVars
        <4> QED BY <2>2, <4>1, <4>2
      <3>6. TaskClass(x) = Attempt => NoneOld(ioQueue)
        BY <3>3, <3>4 DEF OldInv
      <3> HIDE DEF x
      <3> QED BY <3>1, <3>2, <3>3, <3>4, <3>5, <3>6, <1>OldJoin DEF x
    <2>3. CASE ReceiveCompletes \/ ReceiveFails
      <3>1. PICK ec, ps : ioQueue' = Append(ioQueue, ReceiveDone(Head(recvs), ec, ps))
        BY <2>3, Zenon DEF ReceiveCompletes, ReceiveFails, stateVars, historyVars
      <3>2. recvs # << >> /\ recvs' = Tail(recvs) /\ UNCHANGED sends
        BY <2>3, Zenon DEF ReceiveCompletes, ReceiveFails, stateVars, historyVars
      <3>3. Range(recvs) = {Head(recvs)} \union Range(recvs')
        BY <3>2, TailFacts DEF Seqs
      <3> DEFINE x == ReceiveDone(Head(recvs), ec, ps)
      <3>4. ~IsOld(x) /\ TaskClass(x) = ReaderClass(Head(recvs))
        BY ClassOf, <1>NotOld, Zenon
      <3>5. Steady
        BY <2>3 DEF ReceiveCompletes, ReceiveFails, Steady, OldInv, stateVars, historyVars
      <3>6. TaskClass(x) = Attempt => NoneOld(ioQueue)
        BY <3>3, <3>4, ClassFacts, Zenon DEF OldInv, ReaderClass
      <3> HIDE DEF x
      <3> QED BY <3>1, <3>2, <3>3, <3>4, <3>5, <3>6, <1>OldJoin, Zenon DEF x
    <2>4. CASE RequestTimerExpires \/ \E r \in Requests : PostRequest(r)
      <3>1. PICK x : ioQueue' = Append(ioQueue, x) /\ ~IsOld(x) /\ TaskClass(x) # Attempt
        <4>1. CASE RequestTimerExpires
          <5>1. PICK id : ioQueue' = Append(ioQueue, RequestTimedOut(id))
            BY <4>1 DEF RequestTimerExpires, stateVars, socketVars, historyVars
          <5>2. ~IsOld(RequestTimedOut(id)) /\ TaskClass(RequestTimedOut(id)) # Attempt
            BY ClassOf, ClassFacts, Zenon DEF IsOld, RequestTimedOut
          <5> QED BY <5>1, <5>2
        <4>2. CASE \E r \in Requests : PostRequest(r)
          <5>1. PICK r : ioQueue' = Append(ioQueue, PostedRequest(r))
            BY <4>2 DEF PostRequest, stateVars, socketVars, historyVars
          <5>2. ~IsOld(PostedRequest(r)) /\ TaskClass(PostedRequest(r)) # Attempt
            BY ClassOf, ClassFacts, Zenon DEF IsOld, PostedRequest
          <5> QED BY <5>1, <5>2
        <4> QED BY <2>4, <4>1, <4>2
      <3>2. Steady /\ UNCHANGED << sends, recvs >>
        <4>1. CASE RequestTimerExpires
          BY <4>1, Zenon DEF RequestTimerExpires, Steady, OldInv, stateVars, socketVars, historyVars
        <4>2. CASE \E r \in Requests : PostRequest(r)
          BY <4>2 DEF PostRequest, Steady, OldInv, stateVars, socketVars, historyVars
        <4> QED BY <2>4, <4>1, <4>2
      <3> QED BY <3>1, <3>2, <1>OldJoin
    <2>5. CASE HeartbeatTimerExpires \/ HeartbeatTimeoutExpires
      <3>1. PICK x \in {Tick, HeartbeatTimedOut(epoch)} : ioQueue' = Append(ioQueue, x)
        BY <2>5, Zenon DEF HeartbeatTimerExpires, HeartbeatTimeoutExpires, socketVars, historyVars
      <3>2. TaskClass(x) # Attempt /\ (x.kind = "HeartbeatTimeout" => x.epoch = epoch)
        <4>1. TaskClass(Tick) # Attempt /\ Tick.kind # "HeartbeatTimeout"
          BY ClassOf, ClassFacts, Zenon DEF Tick
        <4>2. TaskClass(HeartbeatTimedOut(epoch)) # Attempt /\ HeartbeatTimedOut(epoch).epoch = epoch
          BY ClassOf, ClassFacts, Zenon DEF HeartbeatTimedOut
        <4> QED BY <3>1, <4>1, <4>2, Zenon
      <3>3. Steady /\ state = "Connected" /\ UNCHANGED << sends, recvs >>
        <4>1. CASE HeartbeatTimerExpires
          BY <4>1, Zenon DEF HeartbeatTimerExpires, Steady, OldInv, socketVars, historyVars
        <4>2. CASE HeartbeatTimeoutExpires
          BY <4>2, Zenon DEF HeartbeatTimeoutExpires, Steady, OldInv, socketVars, historyVars
        <4> QED BY <2>5, <4>1, <4>2
      <3>4. IsSeq(ioQueue') /\ Range(ioQueue') \subseteq Range(ioQueue) \union {x}
        BY <3>1, AppendFacts DEF Seqs
      <3> QED BY <3>2, <3>3, <3>4, <1>OldConnected, Zenon
    <2>6. CASE Start
      <3>1. ioQueue' = ioQueue \o Aborted /\ recvs' = << >> /\ sends' = << >>
        BY <2>6 DEF Start, stateVars
      <3>2. IsSeq(Aborted) /\ Range(ioQueue') = Range(ioQueue) \union Range(Aborted)
        BY <3>1, AbortedRange, ConcatFacts, Zenon DEF Seqs
      <3>3. NoneOld(Aborted)
        BY AbortedRange DEF NoneOld, IsOld, ReceiveDone, ConnectDone, SendDone
      <3>4. Pending(Attempt) = 0
        <4>1. starts = 0 \/ events # << >>
          BY <2>6, Zenon DEF Start, MayStart, Ended, stateVars
        <4> QED BY <4>1, AttemptFacts
      <3>5. \A t \in Range(Aborted) : TaskClass(t) # Attempt
        <4>1. /\ \A h \in Range(sends) : HandlerClass(h) # Attempt
              /\ \A r \in Range(recvs) : ReaderClass(r) # Attempt
              /\ ~connect
          BY <3>4, PendingType
        <4> QED BY <4>1, AbortedRange, ClassOf
      <3>6. OldFirst(ioQueue')
        BY <3>1, <3>2, <3>3, <3>5, <1>FirstConcat, Zenon DEF Seqs, OldInv
      <3>7. Range(sends') = {} /\ Range(recvs') = {}
        BY <3>1, EmptyFacts
      <3>8. Steady
        BY <2>6, Zenon DEF Start, Steady, OldInv, stateVars
      <3> QED BY <3>2, <3>3, <3>6, <3>7, <3>8, <1>OldStay, Zenon DEF NoneOld
    <2> QED BY <2>1, <2>2, <2>3, <2>4, <2>5, <2>6 DEF Environment, Application
  <1> SUFFICES ASSUME IInv, AttemptInv, OldInv, [Next]_vars PROVE OldInv'
    OBVIOUS
  <1>1. Seqs
    BY DEF IInv
  <1>2. CASE Next
    BY <1>1, <1>2, <1>OldHandlers, <1>OldWork, <1>OldOutside, Zenon DEF Next, Worker
  <1>3. CASE UNCHANGED vars
    BY <1>3, Zenon DEF vars, stateVars, socketVars, historyVars, OldInv
  <1> QED BY <1>2, <1>3

\* The heartbeatTimeoutCb of StartReceivingPackets never ends a later connection,
\* and a connection starts without a tick of an earlier one: both were handled
\* before the handshake was sent.
THEOREM ConnectionTimeouts == ASSUME Restart # "anytime" PROVE Spec => []TimeoutOfThisConnection
  <1>1. IInv /\ OldInv => TimeoutOfThisConnection
    <2> SUFFICES ASSUME IInv, OldInv PROVE TimeoutOfThisConnection
      OBVIOUS
    <2>1. ASSUME Runs("HeartbeatTimeout"), state = "Connected" PROVE Task.epoch = epoch
      <3>1. Task \in Range(ioQueue) /\ Task.kind = "HeartbeatTimeout"
        BY <2>1, RunsFacts DEF IInv
      <3> QED BY <2>1, <3>1, Zenon DEF OldInv
    <2>2. ASSUME Runs("SendDone"), Task.handler.kind = "HandshakeAck" PROVE Tick \notin Range(ioQueue)
      <3>1. TaskClass(Task) = Attempt
        BY <2>2, RunsFacts DEF IInv, TaskClass, HandlerClass
      <3>2. NoneOld(ioQueue)
        BY <2>2, <3>1, FirstTail, Zenon DEF IInv, Seqs, Runs, Task, OldInv
      <3>3. IsOld(Tick)
        BY DEF IsOld, Tick
      <3> QED BY <3>2, <3>3, Zenon DEF NoneOld
    <2> QED BY <2>1, <2>2, Zenon DEF TimeoutOfThisConnection
  <1> QED BY <1>1, InitOld, NextOld, InitIInv, NextIInv, InitAttempts, NextAttempts, PTL DEF Spec

-----------------------------------------------------------------------------
(* The packets around a handshake *)

\* A packet of the handshake is the last one being written, and nothing is being
\* written once the handshake packet was, nor on a socket that is closed.
LastGreets(q) == \A i \in 1..Len(q) : HandlerClass(q[i]) = Attempt => i = Len(q)

WriteInv ==
    /\ LastGreets(sends)
    /\ HandshakeWritten => sends = << >>
    /\ socket = "closed" => sends = << >>

\* What is at hand once a handshake has been written belongs to the attempt.
LEMMA GreetedFacts ==
  /\ \A h : Greets(h) => HandlerClass(h) = Attempt
  /\ \A t : Greeted(t) => TaskClass(t) = Attempt /\ t.kind # "ConnectDone"
  /\ \A h, ec : Greeted(SendDone(h, ec)) => Greets(h)
  <1>1. \A h : Greets(h) => HandlerClass(h) = Attempt
    BY DEF Greets, HandlerClass
  <1>2. ASSUME NEW t, Greeted(t) PROVE TaskClass(t) = Attempt /\ t.kind # "ConnectDone"
    BY <1>1, <1>2 DEF Greeted, Greets, TaskClass, ReaderClass
  <1>3. \A h, ec : Greeted(SendDone(h, ec)) => Greets(h)
    BY Zenon DEF Greeted, SendDone
  <1> QED BY <1>1, <1>2, <1>3, Zenon

\* With something of an earlier connection in the queue, the attempt has only
\* come to its ConnectDone.
LEMMA OldAlone ==
  ASSUME Seqs, OldInv, ~NoneOld(ioQueue)
  PROVE  /\ ~HandshakeBegun
         /\ \A h \in Range(sends) : HandlerClass(h) # Attempt
  <1>1. (\A h \in Range(sends) : HandlerClass(h) # Attempt) /\ "handshake" \notin Range(recvs)
    BY Zenon DEF OldInv
  <1>2. ASSUME NEW t \in Range(ioQueue), TaskClass(t) = Attempt PROVE t.kind = "ConnectDone"
    <2>1. PICK u \in Range(ioQueue) : IsOld(u)
      BY Zenon DEF NoneOld
    <2>2. PICK i, j \in 1..Len(ioQueue) : u = ioQueue[i] /\ t = ioQueue[j]
      BY SeqShape DEF Seqs, Range
    <2> QED BY <1>2, <2>1, <2>2, Zenon DEF OldInv, OldFirst
  <1>3. \A t \in Range(ioQueue) : ~Greeted(t)
    BY <1>2, GreetedFacts, Zenon
  <1>4. \A h \in Range(sends) : ~Greets(h)
    BY <1>1, GreetedFacts, Zenon
  <1>5. PostedSend(HandshakeHandler) \notin Range(ioQueue)
    <2>1. TaskClass(PostedSend(HandshakeHandler)) = Attempt /\ PostedSend(HandshakeHandler).kind # "ConnectDone"
      <3>1. HandlerClass(HandshakeHandler) = Attempt
        BY Zenon DEF HandlerClass, HandshakeHandler
      <3> QED BY <3>1, ClassOf, Zenon DEF PostedSend
    <2> QED BY <1>2, <2>1, Zenon
  <1> QED BY <1>1, <1>3, <1>4, <1>5, Zenon DEF HandshakeBegun, HandshakeWritten

LEMMA NextWrites ==
  IInv /\ AttemptInv /\ OldInv /\ WriteInv /\ [Next]_vars => WriteInv'
  \* A step that writes nothing, with nothing new of a handshake written before it.
  <1>Still. ASSUME WriteInv, UNCHANGED sends, socket' = "closed" => socket = "closed", HandshakeWritten' => HandshakeWritten
            PROVE  WriteInv'
    BY <1>Still, Zenon DEF WriteInv
  \* Nothing is being written after the step.
  <1>Silent. ASSUME sends' = << >> PROVE WriteInv'
    <2>1. 1..Len(sends') = {}
      BY <1>Silent
    <2> QED BY <1>Silent, <2>1, Zenon DEF WriteInv, LastGreets
  \* What the queue and the pending reads may gain without a handshake.
  <1>Nothing. ASSUME NEW x, ~Greeted(x), Range(ioQueue') \subseteq Range(ioQueue) \union {x}, Range(recvs') \subseteq Range(recvs) \union {"packets"}
              PROVE  HandshakeWritten' => HandshakeWritten
    <2>1. "handshake" \in Range(recvs') => "handshake" \in Range(recvs)
      BY <1>Nothing
    <2>2. (\E t \in Range(ioQueue') : Greeted(t)) => \E t \in Range(ioQueue) : Greeted(t)
      BY <1>Nothing
    <2> QED BY <2>1, <2>2, Zenon DEF HandshakeWritten
  \* Handlers that are no sign of a handshake written.
  <1>Others. /\ ~Greeted(PostedSend(HandshakeHandler)) /\ ~Greeted(PostedSend(HeartbeatHandler))
             /\ \A r, id : ~Greeted(PostedSend(RequestHandler(r, id)))
             /\ \A ec, ps : ~Greeted(ReceiveDone("packets", ec, ps))
             /\ \A ec : ~Greeted(ConnectDone(ec))
             /\ \A r : ~Greeted(PostedRequest(r))
             /\ \A e : ~Greeted(HeartbeatTimedOut(e))
             /\ \A id : ~Greeted(RequestTimedOut(id))
             /\ ~Greeted(Tick)
    BY Zenon DEF Greeted, PostedSend, HandshakeHandler, HeartbeatHandler, RequestHandler, ReceiveDone, ConnectDone,
           PostedRequest, HeartbeatTimedOut, RequestTimedOut, Tick
  \* A handler of the attempt that follows the handshake packet runs.
  <1>Greetings. ASSUME Seqs, WriteInv, OnHandshakeSent \/ OnHandshakeRejected \/ OnHandshakeResponse \/ OnAckSent
                PROVE  WriteInv'
    <2> USE <1>Greetings
    <2>1. PICK kind : Runs(kind) /\ Greeted(Task)
      <3>1. CASE OnHandshakeSent
        BY <3>1, RunsFacts DEF OnHandshakeSent, Greeted, Greets
      <3>2. CASE OnHandshakeRejected
        BY <3>2, RunsFacts DEF OnHandshakeRejected, Greeted
      <3>3. CASE OnHandshakeResponse
        BY <3>3, RunsFacts DEF OnHandshakeResponse, Greeted
      <3>4. CASE OnAckSent
        BY <3>4, RunsFacts DEF OnAckSent, Greeted, Greets
      <3> QED BY <3>1, <3>2, <3>3, <3>4
    <2>2. HandshakeWritten
      BY <2>1, RunsFacts DEF HandshakeWritten
    <2>3. UNCHANGED sends
      BY Zenon DEF OnHandshakeSent, OnHandshakeRejected, OnHandshakeResponse, OnAckSent, socketVars
    <2> QED BY <2>2, <2>3, <1>Silent, Zenon DEF WriteInv
  \* A packet is written behind those that are not of the handshake.
  <1>LastAppend. ASSUME NEW q, IsSeq(q), NEW x, \A g \in Range(q) : HandlerClass(g) # Attempt
                 PROVE  LastGreets(Append(q, x))
    <2> DEFINE a == Append(q, x)
    <2>0. IsSeq(q)
      BY <1>LastAppend
    <2>1. /\ Len(q) \in Nat /\ Len(a) = Len(q) + 1 /\ a[Len(q) + 1] = x
          /\ \A i \in 1..Len(q) : a[i] = q[i]
      BY <2>0, AppendAt
    <2>2. \A i \in 1..Len(q) : q[i] \in Range(q)
      BY <2>0, SeqShape
    <2> HIDE DEF a
    <2> SUFFICES ASSUME NEW i \in 1..Len(a), i # Len(a) PROVE HandlerClass(a[i]) # Attempt
      BY Zenon DEF LastGreets, a
    <2>3. i \in 1..Len(q)
      BY <2>1
    <2> QED BY <1>LastAppend, <2>1, <2>2, <2>3, Zenon
  \* SendNextPacket.
  <1>Send. ASSUME Seqs, AttemptInv, OldInv, WriteInv, SendNextPacket PROVE WriteInv'
    <2> USE <1>Send
    <2> DEFINE h == Task.handler
    <2>1. Runs("SendNextPacket") /\ UNCHANGED << recvs, socket >>
      BY DEF SendNextPacket
    <2>2. Range(ioQueue) = {Task} \union Range(Rest) /\ IsSeq(Rest) /\ Task.kind = "SendNextPacket"
      BY <2>1, RunsFacts
    <2>3. TaskClass(Task) = HandlerClass(h)
      BY <2>2 DEF TaskClass
    <2>4. CASE socket = "closed"
      BY <2>4, <1>Silent DEF SendNextPacket, WriteInv
    <2>5. CASE socket # "closed"
      <3>1. ioQueue' = Rest /\ sends' = Append(sends, h)
        BY <2>5 DEF SendNextPacket
      <3>2. /\ \A g \in Range(sends) : HandlerClass(g) # Attempt
            /\ "handshake" \notin Range(recvs) /\ \A t \in Range(Rest) : ~Greeted(t)
        <4>1. CASE HandlerClass(h) = Attempt
          <5>1. Pending(Attempt) = 1
            BY <2>1, <2>3, <4>1, AttemptRuns, Zenon
          <5>2. Tasks(ioQueue, Attempt) = 1 + Tasks(Rest, Attempt) /\ Tasks(Rest, Attempt) \in Nat
            BY <2>1, <2>3, <4>1, RunTasks DEF One
          <5>3. Handlers(sends, Attempt) \in Nat /\ Receives(recvs, Attempt) \in Nat /\ One(connect /\ Attempt = Attempt) \in {0, 1}
            BY CountTypes, Zenon
          <5>4. Tasks(Rest, Attempt) = 0 /\ Handlers(sends, Attempt) = 0 /\ Receives(recvs, Attempt) = 0
            BY <5>1, <5>2, <5>3 DEF Pending
          <5>5. /\ \A t \in Range(Rest) : TaskClass(t) # Attempt
                /\ \A g \in Range(sends) : HandlerClass(g) # Attempt
                /\ \A r \in Range(recvs) : ReaderClass(r) # Attempt
            BY <2>2, <5>4, TasksType, HandlersType, ReceivesType, Zenon DEF Seqs
          <5> QED BY <5>5, GreetedFacts, Zenon DEF ReaderClass
        <4>2. CASE HandlerClass(h) # Attempt
          <5>1. ~NoneOld(ioQueue)
            BY <2>2, <4>2 DEF NoneOld, IsOld
          <5>2. ~HandshakeBegun /\ \A g \in Range(sends) : HandlerClass(g) # Attempt
            BY <5>1, OldAlone, Zenon
          <5> QED BY <2>2, <5>2, Zenon DEF HandshakeBegun, HandshakeWritten
        <4> QED BY <4>1, <4>2
      <3>3. ~HandshakeWritten'
        BY <2>1, <3>1, <3>2, Zenon DEF HandshakeWritten
      <3>4. LastGreets(sends')
        BY <3>1, <3>2, <1>LastAppend, Zenon DEF Seqs
      <3> QED BY <2>1, <2>5, <3>3, <3>4 DEF WriteInv
    <2> QED BY <2>4, <2>5
  \* The other handlers of the worker.
  <1>Run. ASSUME Seqs, WriteInv, OnConnect \/ OnReceive \/ OnPostRequest \/ OnRequestSent \/ OnRequestTimeout
                                     \/ OnTick \/ OnHeartbeatSent \/ OnHeartbeatTimeout
          PROVE  WriteInv'
    <2> USE <1>Run
    <2>1. PICK kind, x : /\ Runs(kind) /\ ~Greeted(x) /\ ioQueue' \in {ioQueue, Rest, Append(Rest, x)}
                         /\ UNCHANGED << sends, recvs, socket >>
      <3>1. CASE OnConnect
        BY <3>1, <1>Others, Zenon DEF OnConnect, SendPacket, socketVars
      <3>2. CASE OnReceive \/ OnRequestSent \/ OnRequestTimeout \/ OnHeartbeatSent \/ OnHeartbeatTimeout
        BY <3>2, <1>Others, Zenon DEF OnReceive, OnRequestSent, OnRequestTimeout, OnHeartbeatSent, OnHeartbeatTimeout, socketVars
      <3>3. CASE OnPostRequest
        BY <3>3, <1>Others, Zenon DEF OnPostRequest, SendPacket, socketVars
      <3>4. CASE OnTick
        BY <3>4, <1>Others, Zenon DEF OnTick, SendPacket, socketVars
      <3> QED BY <3>1, <3>2, <3>3, <3>4
    <2> DEFINE a == Append(Rest, x)
    <2>2. Range(ioQueue) = {Task} \union Range(Rest) /\ Range(a) = Range(Rest) \union {x} /\ ioQueue' \in {ioQueue, Rest, a}
      BY <2>1, RunsFacts, AppendFacts, Zenon
    <2> HIDE DEF a
    <2>3. Range(ioQueue') \subseteq Range(ioQueue) \union {x} /\ Range(recvs') \subseteq Range(recvs) \union {"packets"}
      BY <2>1, <2>2
    <2> QED BY <2>1, <2>3, <1>Nothing, <1>Still
  \* What is left of a handler.
  <1>Work. ASSUME Seqs, WriteInv, ProcessFatal \/ ProcessHeartbeat \/ ProcessMessage \/ ReceivePackets \/ Disconnect
           PROVE  WriteInv'
    <2> USE <1>Work
    <2>1. CASE ProcessFatal \/ ProcessHeartbeat \/ ProcessMessage
      <3>1. UNCHANGED << ioQueue, sends, recvs, socket >>
        BY <2>1, Zenon DEF ProcessFatal, ProcessHeartbeat, ProcessMessage, socketVars
      <3> QED BY <3>1, <1>Still, Zenon DEF HandshakeWritten
    <2>2. CASE ReceivePackets
      <3> DEFINE x == ReceiveDone("packets", "error", << >>)
      <3>1. /\ ioQueue' \in {ioQueue, Append(ioQueue, x)} /\ recvs' \in {recvs, Append(recvs, "packets")}
            /\ UNCHANGED << sends, socket >>
        BY <2>2, Zenon DEF ReceivePackets, StartReceive
      <3>2. ~Greeted(x)
        BY <1>Others, Zenon
      <3> HIDE DEF x
      <3> DEFINE q == Append(ioQueue, x)
                 r == Append(recvs, "packets")
      <3>3. Range(q) = Range(ioQueue) \union {x} /\ Range(r) = Range(recvs) \union {"packets"}
        BY AppendFacts, Zenon DEF Seqs
      <3>4. ioQueue' \in {ioQueue, q} /\ recvs' \in {recvs, r}
        BY <3>1
      <3> HIDE DEF q, r
      <3>5. Range(ioQueue') \subseteq Range(ioQueue) \union {x} /\ Range(recvs') \subseteq Range(recvs) \union {"packets"}
        BY <3>3, <3>4
      <3> QED BY <3>1, <3>2, <3>5, <1>Nothing, <1>Still, Zenon
    <2>3. CASE Disconnect
      BY <2>3, <1>Silent, Zenon DEF Disconnect
    <2> QED BY <2>1, <2>2, <2>3
  \* TCP, the server, the timers and the application.
  <1>Outside. ASSUME Seqs, WriteInv, Environment \/ Application PROVE WriteInv'
    <2> USE <1>Outside
    <2>1. CASE \/ ConnectCompletes \/ HeartbeatTimerExpires \/ HeartbeatTimeoutExpires \/ RequestTimerExpires
               \/ \E r \in Requests : PostRequest(r)
      <3>1. PICK x : ~Greeted(x) /\ ioQueue' = Append(ioQueue, x)
        BY <2>1, <1>Others, Zenon DEF ConnectCompletes, HeartbeatTimerExpires, HeartbeatTimeoutExpires, RequestTimerExpires, PostRequest
      <3>2. UNCHANGED << sends, recvs >> /\ (socket' = "closed" => socket = "closed")
        <4>1. CASE ConnectCompletes
          BY <4>1 DEF ConnectCompletes
        <4>2. CASE ~ConnectCompletes
          BY <2>1, <4>2, Zenon DEF HeartbeatTimerExpires, HeartbeatTimeoutExpires, RequestTimerExpires, PostRequest, socketVars
        <4> QED BY <4>1, <4>2
      <3>3. Range(ioQueue') \subseteq Range(ioQueue) \union {x} /\ Range(recvs') \subseteq Range(recvs) \union {"packets"}
        BY <3>1, <3>2, AppendFacts DEF Seqs
      <3> QED BY <3>1, <3>2, <3>3, <1>Nothing, <1>Still, Zenon
    <2>2. CASE SendCompletes \/ SendFails
      <3>1. PICK ec : ioQueue' = Append(ioQueue, SendDone(Head(sends), ec))
        BY <2>2, Zenon DEF SendCompletes, SendFails
      <3>2. sends # << >> /\ sends' = Tail(sends) /\ UNCHANGED recvs /\ socket' # "closed"
        BY <2>2 DEF SendCompletes, SendFails
      <3>3. ~HandshakeWritten
        BY <3>2, Zenon DEF WriteInv
      <3> DEFINE a == Tail(sends)
      <3>4. /\ Len(a) \in Nat /\ Len(sends) = 1 + Len(a) /\ sends[1] = Head(sends)
            /\ \A i \in 1..Len(a) : a[i] = sends[1 + i]
        BY <3>2, TailAt DEF Seqs
      <3>5. IsSeq(a) /\ (a = << >> <=> Len(a) = 0)
        BY <3>2, TailFacts, SeqShape DEF Seqs
      <3> HIDE DEF a
      <3>6. HandlerClass(Head(sends)) = Attempt => a = << >>
        <4>1. 1 \in 1..Len(sends)
          BY <3>4
        <4>2. HandlerClass(Head(sends)) = Attempt => 1 = Len(sends)
          BY <3>4, <4>1, Zenon DEF WriteInv, LastGreets
        <4> QED BY <3>4, <3>5, <4>2
      <3>7. HandshakeWritten' => a = << >>
        <4>1. Range(ioQueue') = Range(ioQueue) \union {SendDone(Head(sends), ec)}
          BY <3>1, AppendFacts DEF Seqs
        <4> QED BY <3>2, <3>3, <3>6, <4>1, GreetedFacts DEF HandshakeWritten
      <3>8. LastGreets(a)
        <4> SUFFICES ASSUME NEW i \in 1..Len(a), HandlerClass(a[i]) = Attempt PROVE i = Len(a)
          BY Zenon DEF LastGreets
        <4>1. 1 + i \in 1..Len(sends)
          BY <3>4
        <4>2. 1 + i = Len(sends)
          BY <3>4, <4>1, Zenon DEF WriteInv, LastGreets
        <4> QED BY <3>4, <4>2
      <3>9. sends' = a
        BY <3>2 DEF a
      <3> QED BY <3>2, <3>7, <3>8, <3>9 DEF WriteInv
    <2>3. CASE ReceiveCompletes \/ ReceiveFails
      <3>1. PICK ec, ps : ioQueue' = Append(ioQueue, ReceiveDone(Head(recvs), ec, ps))
        BY <2>3, Zenon DEF ReceiveCompletes, ReceiveFails
      <3>2. recvs # << >> /\ recvs' = Tail(recvs) /\ UNCHANGED sends /\ (socket' = "closed" => socket = "closed")
        BY <2>3 DEF ReceiveCompletes, ReceiveFails
      <3> DEFINE x == ReceiveDone(Head(recvs), ec, ps)
      <3>3. Range(recvs) = {Head(recvs)} \union Range(recvs') /\ Range(ioQueue') = Range(ioQueue) \union {x}
        BY <3>1, <3>2, TailFacts, AppendFacts DEF Seqs
      <3>4. Greeted(x) => Head(recvs) = "handshake"
        BY Zenon DEF Greeted, ReceiveDone
      <3> HIDE DEF x
      <3>5. HandshakeWritten' => HandshakeWritten
        BY <3>3, <3>4 DEF HandshakeWritten
      <3> QED BY <3>2, <3>5, <1>Still, Zenon
    <2>4. CASE Start
      BY <2>4, <1>Silent, Zenon DEF Start
    <2> QED BY <2>1, <2>2, <2>3, <2>4, Zenon DEF Environment, Application
  <1> SUFFICES ASSUME IInv, AttemptInv, OldInv, WriteInv, [Next]_vars PROVE WriteInv'
    OBVIOUS
  <1>1. Seqs
    BY DEF IInv
  <1>2. CASE Next
    BY <1>1, <1>2, <1>Greetings, <1>Send, <1>Run, <1>Work, <1>Outside, Zenon DEF Next, Worker
  <1>3. CASE UNCHANGED vars
    BY <1>3, Zenon DEF vars, socketVars, WriteInv, HandshakeWritten
  <1> QED BY <1>2, <1>3

\* However the application restarts a client that told it of the end of its
\* connection, the packets which SendPacket queued for that connection are written
\* before SendHandshake queues the next handshake, never behind or during it.
THEOREM ConnectionHandshakes == ASSUME Restart # "anytime" PROVE Spec => []HandshakeUndisturbed
  <1>1. Init => WriteInv
    <2> SUFFICES ASSUME Init PROVE WriteInv
      OBVIOUS
    <2>1. sends = << >> /\ 1..Len(sends) = {}
      BY DEF Init
    <2> QED BY <2>1, Zenon DEF WriteInv, LastGreets
  <1>2. IInv /\ OldInv /\ WriteInv => HandshakeUndisturbed
    <2> SUFFICES ASSUME IInv, OldInv, WriteInv PROVE HandshakeUndisturbed
      OBVIOUS
    <2>0. Seqs
      BY DEF IInv
    <2>1. ASSUME HandshakeBegun, NEW t \in Range(ioQueue), t.kind = "SendNextPacket"
          PROVE  t.handler.kind \notin {"Request", "Heartbeat"}
      <3>1. NoneOld(ioQueue)
        BY <2>0, <2>1, OldAlone, Zenon
      <3>2. HandlerClass(t.handler) = Attempt
        BY <2>1, <3>1, Zenon DEF NoneOld, IsOld
      <3> QED BY <3>2, ClassFacts DEF HandlerClass
    <2>2. \A i \in DOMAIN sends : Greets(sends[i]) => i = Len(sends)
      BY <2>0, SeqShape, GreetedFacts, Zenon DEF Seqs, WriteInv, LastGreets
    <2> QED BY <2>1, <2>2, Zenon DEF HandshakeUndisturbed, WriteInv
  <1> QED BY <1>1, <1>2, NextWrites, InitOld, NextOld, InitIInv, NextIInv, InitAttempts, NextAttempts, PTL DEF Spec
=============================================================================
