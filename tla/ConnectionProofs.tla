-------------------------- MODULE ConnectionProofs --------------------------
(***************************************************************************)
(* An established connection keeps sending heartbeats and keeps reading,   *)
(* for any number of requests, packets and calls of Start at any time.  An *)
(* id stands for one request, a request is never lost on its way, and a    *)
(* response reaches the request that the server answers.                   *)
(***************************************************************************)
EXTENDS Connection, Integers, TLAPS

\* How long a prover may take over a step.
USE SMTT(30), ZenonT(30)

(* Sequences whose elements are of no particular set, and what their operators
   do to the set of their elements and to their positions. *)

IsSeq(q) == q \in Seq(Range(q))

\* What IsSeq says of the length and the elements of a sequence.
LEMMA SeqShape ==
  ASSUME NEW q, IsSeq(q)
  PROVE  /\ Len(q) \in Nat
         /\ DOMAIN q = 1..Len(q)
         /\ q = << >> <=> Len(q) = 0
         /\ \A i \in 1..Len(q) : q[i] \in Range(q)
  BY DEF IsSeq, Range

\* The empty sequence has no elements.
LEMMA EmptyFacts == IsSeq(<< >>) /\ Range(<< >>) = {}
  BY DEF IsSeq, Range

\* A sequence over any set is one over the set of its elements.
LEMMA SeqIsSeq == ASSUME NEW S, NEW q \in Seq(S) PROVE IsSeq(q)
  BY DEF IsSeq, Range

\* A sequence of one element.
LEMMA SingletonFacts == ASSUME NEW x PROVE IsSeq(<< x >>) /\ Range(<< x >>) = {x}
  <1>1. << x >> \in Seq({x})
    OBVIOUS
  <1>2. Range(<< x >>) = {x}
    BY DEF Range
  <1> QED BY <1>1, <1>2, SeqIsSeq, Zenon

\* A function on 1..n is a sequence.
LEMMA FunctionFacts ==
  ASSUME NEW n \in Nat, NEW q, q = [i \in 1..n |-> q[i]]
  PROVE  IsSeq(q) /\ Len(q) = n /\ Range(q) = {q[i] : i \in 1..n}
  <1>1. q \in Seq({q[i] : i \in 1..n})
    OBVIOUS
  <1>2. DOMAIN q = 1..n
    OBVIOUS
  <1> QED BY <1>1, <1>2, SeqIsSeq DEF Range

\* Append adds one element.
LEMMA AppendFacts ==
  ASSUME NEW q, IsSeq(q), NEW x
  PROVE  IsSeq(Append(q, x)) /\ Range(Append(q, x)) = Range(q) \union {x}
  <1> DEFINE S == Range(q) \union {x}
  <1>1. q \in Seq(S) /\ x \in S
    BY DEF IsSeq
  <1>2. Append(q, x) \in Seq(S) /\ Len(Append(q, x)) = Len(q) + 1
    BY <1>1
  <1>3. \A i \in 1..Len(q) : Append(q, x)[i] = q[i]
    BY <1>1
  <1>4. Append(q, x)[Len(q) + 1] = x
    BY <1>1
  <1>5. Range(Append(q, x)) = S
    <2>1. 1..Len(q) + 1 = (1..Len(q)) \union {Len(q) + 1}
      BY <1>1
    <2>2. DOMAIN q = 1..Len(q) /\ DOMAIN Append(q, x) = 1..Len(q) + 1
      BY <1>1, <1>2
    <2>3. ASSUME NEW y \in Range(Append(q, x)) PROVE y \in S
      <3>1. PICK i \in 1..Len(q) + 1 : y = Append(q, x)[i]
        BY <2>2, <2>3, Zenon DEF Range
      <3>2. CASE i \in 1..Len(q)
        BY <1>3, <2>2, <3>1, <3>2, Zenon DEF Range
      <3>3. CASE i = Len(q) + 1
        BY <1>4, <3>1, <3>3, Zenon
      <3> QED BY <2>1, <3>1, <3>2, <3>3, Zenon
    <2>4. ASSUME NEW y \in Range(q) PROVE y \in Range(Append(q, x))
      <3>1. PICK i \in 1..Len(q) : y = q[i]
        BY <2>2, <2>4, Zenon DEF Range
      <3> QED BY <1>3, <2>1, <2>2, <3>1, Zenon DEF Range
    <2>5. x \in Range(Append(q, x))
      BY <1>4, <2>1, <2>2, Zenon DEF Range
    <2> QED BY <2>3, <2>4, <2>5, Zenon
  <1> QED BY <1>2, <1>5, SeqIsSeq, Zenon

\* Tail drops the head.
LEMMA TailFacts ==
  ASSUME NEW q, IsSeq(q), q # << >>
  PROVE  IsSeq(Tail(q)) /\ Range(q) = {Head(q)} \union Range(Tail(q))
  <1>1. q \in Seq(Range(q))
    BY DEF IsSeq
  <1>2. Tail(q) \in Seq(Range(q)) /\ Len(Tail(q)) = Len(q) - 1 /\ Len(q) >= 1
    BY <1>1
  <1>3. \A i \in 1..Len(q) - 1 : Tail(q)[i] = q[i + 1]
    BY <1>1
  <1>4. Head(q) = q[1]
    BY <1>1
  <1>5. Range(q) = {Head(q)} \union Range(Tail(q))
    <2>1. DOMAIN q = 1..Len(q) /\ DOMAIN Tail(q) = 1..Len(q) - 1 /\ Len(q) \in Nat
      BY <1>1, <1>2
    <2>2. ASSUME NEW i \in 1..Len(q) PROVE q[i] \in {Head(q)} \union Range(Tail(q))
      <3>1. CASE i = 1
        BY <3>1, <1>4
      <3>2. CASE i # 1
        <4>1. i - 1 \in 1..Len(q) - 1 /\ q[i] = Tail(q)[i - 1]
          BY <2>1, <3>2, <1>3
        <4> QED BY <2>1, <4>1, Zenon DEF Range
      <3> QED BY <3>1, <3>2
    <2>3. ASSUME NEW i \in 1..Len(q) - 1 PROVE Tail(q)[i] \in Range(q)
      <3>1. i + 1 \in 1..Len(q) /\ Tail(q)[i] = q[i + 1]
        BY <2>1, <1>3
      <3> QED BY <2>1, <3>1 DEF Range
    <2>4. Head(q) \in Range(q)
      BY <1>2, <1>4, <2>1 DEF Range
    <2>5. Range(q) \subseteq {Head(q)} \union Range(Tail(q))
      BY <2>1, <2>2 DEF Range
    <2>6. Range(Tail(q)) \subseteq Range(q)
      BY <2>1, <2>3 DEF Range
    <2> QED BY <2>4, <2>5, <2>6
  <1> QED BY <1>2, <1>5, SeqIsSeq, Zenon

\* A concatenation has the elements of both.
LEMMA ConcatFacts ==
  ASSUME NEW q, IsSeq(q), NEW r, IsSeq(r)
  PROVE  IsSeq(q \o r) /\ Range(q \o r) = Range(q) \union Range(r)
  <1> DEFINE S == Range(q) \union Range(r)
  <1>1. q \in Seq(S) /\ r \in Seq(S)
    BY DEF IsSeq
  <1>2. q \o r \in Seq(S) /\ Len(q \o r) = Len(q) + Len(r)
    BY <1>1
  <1>3. \A i \in 1..Len(q) : (q \o r)[i] = q[i]
    BY <1>1
  <1>4. \A i \in 1..Len(r) : (q \o r)[Len(q) + i] = r[i]
    BY <1>1
  <1>5. Range(q \o r) = S
    <2>1. /\ DOMAIN q = 1..Len(q) /\ DOMAIN r = 1..Len(r) /\ DOMAIN (q \o r) = 1..Len(q) + Len(r)
          /\ Len(q) \in Nat /\ Len(r) \in Nat
      BY <1>1, <1>2
    <2>2. ASSUME NEW i \in 1..Len(q) + Len(r) PROVE (q \o r)[i] \in S
      BY <1>2, <2>1
    <2>3. ASSUME NEW i \in 1..Len(q) PROVE q[i] \in Range(q \o r)
      <3>1. i \in 1..Len(q) + Len(r) /\ (q \o r)[i] = q[i]
        BY <1>3, <2>1
      <3> QED BY <2>1, <3>1 DEF Range
    <2>4. ASSUME NEW i \in 1..Len(r) PROVE r[i] \in Range(q \o r)
      <3>1. Len(q) + i \in 1..Len(q) + Len(r) /\ (q \o r)[Len(q) + i] = r[i]
        BY <1>4, <2>1
      <3> QED BY <2>1, <3>1 DEF Range
    <2>5. Range(q \o r) \subseteq S
      BY <2>1, <2>2 DEF Range
    <2>6. Range(q) \subseteq Range(q \o r)
      BY <2>1, <2>3 DEF Range
    <2>7. Range(r) \subseteq Range(q \o r)
      BY <2>1, <2>4 DEF Range
    <2> QED BY <2>5, <2>6, <2>7
  <1> QED BY <1>2, <1>5, SeqIsSeq, Zenon

\* Where Append puts the elements.
LEMMA AppendAt ==
  ASSUME NEW q, IsSeq(q), NEW x
  PROVE  /\ Len(q) \in Nat /\ Len(Append(q, x)) = Len(q) + 1
         /\ \A i \in 1..Len(q) : Append(q, x)[i] = q[i]
         /\ Append(q, x)[Len(q) + 1] = x
  <1>1. q \in Seq(Range(q) \union {x})
    BY DEF IsSeq
  <1> QED BY <1>1

\* Where Tail puts the elements.
LEMMA TailAt ==
  ASSUME NEW q, IsSeq(q), q # << >>
  PROVE  /\ Len(Tail(q)) \in Nat /\ Len(q) = 1 + Len(Tail(q))
         /\ q[1] = Head(q)
         /\ \A i \in 1..Len(Tail(q)) : Tail(q)[i] = q[1 + i]
  <1>1. q \in Seq(Range(q))
    BY DEF IsSeq
  <1>2. Len(q) \in Nat /\ Len(Tail(q)) = Len(q) - 1 /\ Len(q) >= 1 /\ Head(q) = q[1]
    BY <1>1
  <1>3. \A i \in 1..Len(q) - 1 : Tail(q)[i] = q[i + 1]
    BY <1>1
  <1> QED BY <1>2, <1>3

\* a is q followed by r.
Joined(a, q, r) ==
    /\ Len(q) \in Nat /\ Len(r) \in Nat /\ Len(a) = Len(q) + Len(r)
    /\ \A i \in 1..Len(q) : a[i] = q[i]
    /\ \A i \in 1..Len(r) : a[Len(q) + i] = r[i]

\* The positions of a concatenation.
LEMMA ConcatJoined ==
  ASSUME NEW q, IsSeq(q), NEW r, IsSeq(r)
  PROVE  Joined(q \o r, q, r)
  <1>1. q \in Seq(Range(q) \union Range(r)) /\ r \in Seq(Range(q) \union Range(r))
    BY DEF IsSeq
  <1> QED BY <1>1 DEF Joined

\* The packets a server can send.
LEMMA ServerPacket ==
  ASSUME NEW p \in PacketsFromServer
  PROVE  \/ \E d : p = [type |-> "Handshake", dict |-> d]
         \/ \E ty \in Sent, g \in serverGot : p = [type |-> ty, id |-> g.id, req |-> g.req]
         \/ p \in [type : Sent \ {"Handshake", "Response", "ErrorResponse"}]
  BY DEF PacketsFromServer

-----------------------------------------------------------------------------
(* The heartbeat and the reads of an established connection *)

Seqs == IsSeq(ioQueue) /\ IsSeq(work) /\ IsSeq(recvs) /\ IsSeq(sends)

\* A read hands over a sequence of packets.
PacketsInv == \A t \in Range(ioQueue) : t.kind = "ReceiveDone" => IsSeq(t.packets)

\* A completed read of Connection::ReceivePackets.
IsRead(t) == t.kind = "ReceiveDone" /\ t.reader = "packets"

IInv == Seqs /\ PacketsInv /\ HeartbeatScheduled /\ ConnectedIsReading

\* A step takes nothing from the queue but the handler that runs.
Kept == \A t \in Range(ioQueue) : t \in Range(ioQueue') \/ (Runs(t.kind) /\ t = Task)

\* The worker takes a handler from the queue.
LEMMA RunsFacts ==
  ASSUME Seqs, NEW kind, Runs(kind)
  PROVE  /\ work = << >> /\ Task.kind = kind
         /\ IsSeq(Rest)
         /\ Range(ioQueue) = {Task} \union Range(Rest)
  BY TailFacts DEF Seqs, Runs, Task, Rest

\* The worker takes a step from what the running handler left.
LEMMA DoesFacts ==
  ASSUME Seqs, NEW what, Does(what)
  PROVE  /\ IsSeq(Tail(work)) /\ Head(work).do = what
         /\ Range(work) = {Head(work)} \union Range(Tail(work))
  BY TailFacts DEF Seqs, Does

\* SendPacket adds its call of SendNextPacket or nothing.
LEMMA SendPacketFacts ==
  ASSUME NEW q, IsSeq(q), NEW h
  PROVE  /\ IsSeq(SendPacket(q, h))
         /\ Range(q) \subseteq Range(SendPacket(q, h))
         /\ Range(SendPacket(q, h)) \subseteq Range(q) \union {PostedSend(h)}
  BY AppendFacts DEF SendPacket

\* Closing the socket completes what is pending on it.
LEMMA AbortedRange ==
  ASSUME Seqs
  PROVE  /\ IsSeq(Aborted)
         /\ Range(Aborted) = {ReceiveDone(r, "error", << >>) : r \in Range(recvs)}
                               \union (IF connect THEN {ConnectDone("error")} ELSE {})
                               \union {SendDone(h, "error") : h \in Range(sends)}
  <1> DEFINE R == [i \in 1..Len(recvs) |-> ReceiveDone(recvs[i], "error", << >>)]
             K == IF connect THEN << ConnectDone("error") >> ELSE << >>
             S == [i \in 1..Len(sends) |-> SendDone(sends[i], "error")]
  <1>1. /\ Len(recvs) \in Nat /\ DOMAIN recvs = 1..Len(recvs)
        /\ Len(sends) \in Nat /\ DOMAIN sends = 1..Len(sends)
    BY SeqShape DEF Seqs
  <1>2. IsSeq(R) /\ Range(R) = {R[i] : i \in 1..Len(recvs)}
    BY <1>1, FunctionFacts
  <1>3. IsSeq(S) /\ Range(S) = {S[i] : i \in 1..Len(sends)}
    BY <1>1, FunctionFacts
  <1>4. IsSeq(K) /\ Range(K) = IF connect THEN {ConnectDone("error")} ELSE {}
    BY SingletonFacts, EmptyFacts, Zenon
  <1>5. Aborted = (R \o K) \o S
    BY DEF Aborted
  <1>6. Range(R) = {ReceiveDone(r, "error", << >>) : r \in Range(recvs)}
    BY <1>1, <1>2 DEF Range
  <1>7. Range(S) = {SendDone(h, "error") : h \in Range(sends)}
    BY <1>1, <1>3 DEF Range
  <1> HIDE DEF R, K, S
  <1>8. IsSeq(R \o K) /\ Range(R \o K) = Range(R) \union Range(K)
    BY <1>2, <1>4, ConcatFacts
  <1>9. IsSeq(Aborted) /\ Range(Aborted) = Range(R) \union Range(K) \union Range(S)
    BY <1>3, <1>5, <1>8, ConcatFacts
  <1> QED BY <1>4, <1>6, <1>7, <1>9

\* In particular every pending read.
LEMMA AbortedFacts ==
  ASSUME Seqs
  PROVE  /\ IsSeq(Aborted)
         /\ "packets" \in Range(recvs) => \E t \in Range(Aborted) : IsRead(t)
         /\ \A t \in Range(Aborted) : t.kind = "ReceiveDone" => IsSeq(t.packets)
  <1>1. ASSUME "packets" \in Range(recvs) PROVE \E t \in Range(Aborted) : IsRead(t)
    <2>1. ReceiveDone("packets", "error", << >>) \in Range(Aborted)
      BY <1>1, AbortedRange
    <2> QED BY <2>1 DEF IsRead, ReceiveDone
  <1>2. ASSUME NEW t \in Range(Aborted), t.kind = "ReceiveDone" PROVE IsSeq(t.packets)
    BY <1>2, AbortedRange, EmptyFacts DEF ReceiveDone, ConnectDone, SendDone
  <1> QED BY <1>1, <1>2, AbortedRange

\* After ConnectionError or KickedFromServer the state is not Connected.
LEMMA LeaveFacts ==
  ASSUME NEW event, NEW after, IsSeq(after), Leave(event, after)
  PROVE  state' # "Connected" /\ IsSeq(work')
  <1>1. state' # "Connected"
    BY DEF Leave, SetInited, stateVars
  <1>2. IsSeq(<< DoDisconnect >> \o after)
    BY SingletonFacts, ConcatFacts
  <1>3. work' = << DoDisconnect >> \o after \/ work' = after
    BY DEF Leave
  <1> QED BY <1>1, <1>2, <1>3, Zenon

\* A handler other than a tick or a read of packets: what it took from the queue
\* is not what the invariant needs, and it only adds to the rest.
LEMMA OtherHandler ==
  ASSUME IInv, NEW kind, Runs(kind), kind # "HeartbeatTick", ~IsRead(Task),
         NEW q, IsSeq(q), Range(Rest) \subseteq Range(q), ioQueue' = q,
         \A t \in Range(q) \ Range(Rest) : t.kind = "ReceiveDone" => IsSeq(t.packets),
         IsSeq(work'), IsSeq(sends'), IsSeq(recvs'), Range(recvs) \subseteq Range(recvs'),
         state' # "Connected" \/ UNCHANGED << state, heartbeatTimer >>
  PROVE  IInv' /\ Kept
  <1>1. /\ work = << >> /\ Task.kind = kind
        /\ Range(ioQueue) = {Task} \union Range(Rest)
    BY RunsFacts DEF IInv
  <1>2. Seqs' /\ PacketsInv'
    BY <1>1 DEF IInv, Seqs, PacketsInv
  <1>3. HeartbeatScheduled'
    BY <1>1 DEF IInv, HeartbeatScheduled, Tick
  <1>4. ConnectedIsReading'
    <2>1. Range(work) = {}
      BY <1>1, EmptyFacts
    <2> QED BY <1>1, <2>1 DEF IInv, ConnectedIsReading, IsRead
  <1>5. Kept
    BY <1>1 DEF Kept
  <1> QED BY <1>2, <1>3, <1>4, <1>5 DEF IInv

\* The invariant holds before the first Start.
LEMMA InitIInv == Init => IInv
  BY EmptyFacts DEF Init, IInv, Seqs, PacketsInv, HeartbeatScheduled, ConnectedIsReading

\* The handlers of the worker that neither tick nor read packets.
LEMMA OtherHandlers ==
  ASSUME IInv,
         \/ OnConnect \/ OnHandshakeSent \/ OnHandshakeRejected \/ OnHandshakeResponse
         \/ SendNextPacket \/ OnPostRequest \/ OnRequestSent \/ OnRequestTimeout
         \/ OnHeartbeatSent \/ OnHeartbeatTimeout
  PROVE  IInv' /\ Kept
  <1>0. Seqs /\ IsSeq(<< >>)
    BY EmptyFacts DEF IInv
  <1>1. CASE OnConnect
    <2>1. Runs("ConnectDone") /\ UNCHANGED << work, recvs, sends >>
      BY <1>1 DEF OnConnect, stateVars, socketVars
    <2>2. IsSeq(Rest) /\ ~IsRead(Task)
      BY <1>0, <2>1, RunsFacts DEF IsRead
    <2>3. PICK q : q \in {Rest, SendPacket(Rest, HandshakeHandler)} /\ ioQueue' = q
      BY <1>1 DEF OnConnect, stateVars, socketVars
    <2>4. IsSeq(q) /\ Range(Rest) \subseteq Range(q) /\ Range(q) \subseteq Range(Rest) \union {PostedSend(HandshakeHandler)}
      BY <2>2, <2>3, SendPacketFacts
    <2>5. state' # "Connected" \/ UNCHANGED << state, heartbeatTimer >>
      BY <1>1 DEF OnConnect, HandshakeFailed, SetInited, stateVars, socketVars
    <2> QED BY <1>0, <2>1, <2>2, <2>3, <2>4, <2>5, OtherHandler DEF PostedSend, Seqs
  <1>2. CASE OnHandshakeSent
    <2>1. Runs("SendDone") /\ UNCHANGED << work, sends >>
      BY <1>2 DEF OnHandshakeSent, stateVars
    <2>2. IsSeq(Rest) /\ ~IsRead(Task)
      BY <1>0, <2>1, RunsFacts DEF IsRead
    <2> DEFINE d == ReceiveDone("handshake", "error", << >>)
    <2>3. d.kind = "ReceiveDone" /\ IsSeq(d.packets)
      BY EmptyFacts DEF ReceiveDone
    <2>4. PICK q : q \in {Rest, Append(Rest, d)} /\ ioQueue' = q
      BY <1>2 DEF OnHandshakeSent, StartReceive, stateVars
    <2>5. recvs' \in {recvs, Append(recvs, "handshake")}
      BY <1>2 DEF OnHandshakeSent, StartReceive, stateVars
    <2> HIDE DEF d
    <2>6. IsSeq(q) /\ Range(Rest) \subseteq Range(q) /\ Range(q) \subseteq Range(Rest) \union {d}
      BY <2>2, <2>4, AppendFacts, Zenon
    <2>7. IsSeq(recvs') /\ Range(recvs) \subseteq Range(recvs')
      <3> DEFINE a == Append(recvs, "handshake")
      <3>1. IsSeq(recvs) /\ IsSeq(a) /\ Range(a) = Range(recvs) \union {"handshake"}
        BY <1>0, AppendFacts DEF Seqs
      <3> HIDE DEF a
      <3>2. CASE recvs' = recvs
        BY <3>1, <3>2
      <3>3. CASE recvs' = a
        BY <3>1, <3>3
      <3> QED BY <2>5, <3>2, <3>3 DEF a
    <2>8. state' # "Connected" \/ UNCHANGED << state, heartbeatTimer >>
      BY <1>2 DEF OnHandshakeSent, HandshakeFailed, SetInited, stateVars
    <2> QED BY <1>0, <2>1, <2>2, <2>3, <2>4, <2>6, <2>7, <2>8, OtherHandler DEF Seqs
  <1>3. CASE OnHandshakeRejected
    <2>1. Runs("ReceiveDone") /\ Task.reader = "handshake" /\ UNCHANGED << work, recvs, sends >> /\ ioQueue' = Rest
      BY <1>3 DEF OnHandshakeRejected, socketVars
    <2>2. IsSeq(Rest) /\ ~IsRead(Task)
      BY <1>0, <2>1, RunsFacts DEF IsRead
    <2>3. state' # "Connected"
      BY <1>3 DEF OnHandshakeRejected, HandshakeFailed, SetInited, socketVars
    <2> QED BY <1>0, <2>1, <2>2, <2>3, OtherHandler DEF Seqs
  <1>4. CASE OnHandshakeResponse
    <2> DEFINE h == AckHandler(Task.packets[1].dict)
    <2>1. Runs("ReceiveDone") /\ Task.reader = "handshake" /\ UNCHANGED << recvs, sends >>
      BY <1>4 DEF OnHandshakeResponse, stateVars, socketVars
    <2>2. IsSeq(Rest) /\ ~IsRead(Task)
      BY <1>0, <2>1, RunsFacts DEF IsRead
    <2>3. PICK q : q \in {Rest, SendPacket(Rest, h)} /\ ioQueue' = q
      BY <1>4 DEF OnHandshakeResponse, stateVars, socketVars
    <2>4. \/ Leave("ConnectionError", << >>)
          \/ UNCHANGED << work, state, heartbeatTimer >>
      BY <1>4 DEF OnHandshakeResponse, ConnectionError, stateVars, socketVars
    <2> HIDE DEF h
    <2>5. IsSeq(q) /\ Range(Rest) \subseteq Range(q) /\ Range(q) \subseteq Range(Rest) \union {PostedSend(h)}
      BY <2>2, <2>3, SendPacketFacts
    <2>6. IsSeq(work') /\ (state' # "Connected" \/ UNCHANGED << state, heartbeatTimer >>)
      BY <1>0, <2>4, LeaveFacts DEF Seqs
    <2> QED BY <1>0, <2>1, <2>2, <2>3, <2>5, <2>6, OtherHandler DEF PostedSend, Seqs
  <1>5. CASE SendNextPacket
    <2> DEFINE d == SendDone(Task.handler, "error")
    <2>1. Runs("SendNextPacket") /\ UNCHANGED << work, recvs, state, heartbeatTimer >>
      BY <1>5 DEF SendNextPacket, stateVars
    <2>2. IsSeq(Rest) /\ ~IsRead(Task)
      BY <1>0, <2>1, RunsFacts DEF IsRead
    <2>3. PICK q : q \in {Rest, Append(Rest, d)} /\ ioQueue' = q
      BY <1>5 DEF SendNextPacket, stateVars
    <2>4. sends' \in {sends, Append(sends, Task.handler)}
      BY <1>5 DEF SendNextPacket, stateVars
    <2>5. d.kind # "ReceiveDone"
      BY DEF SendDone
    <2> HIDE DEF d
    <2>6. IsSeq(q) /\ Range(Rest) \subseteq Range(q) /\ Range(q) \subseteq Range(Rest) \union {d}
      BY <2>2, <2>3, AppendFacts, Zenon
    <2>7. IsSeq(sends')
      BY <1>0, <2>4, AppendFacts, Zenon DEF Seqs
    <2> QED BY <1>0, <2>1, <2>2, <2>3, <2>5, <2>6, <2>7, OtherHandler DEF Seqs
  <1>6. CASE OnPostRequest
    <2> DEFINE h == RequestHandler(Task.req, reqId)
    <2>1. Runs("PostRequest") /\ UNCHANGED << work, recvs, sends, state, heartbeatTimer >>
      BY <1>6 DEF OnPostRequest, stateVars, socketVars
    <2>2. IsSeq(Rest) /\ ~IsRead(Task) /\ Range(ioQueue) = {Task} \union Range(Rest) /\ Task.kind = "PostRequest"
      BY <1>0, <2>1, RunsFacts DEF IsRead
    <2>3. PICK q : q \in {Rest, SendPacket(Rest, h), ioQueue} /\ ioQueue' = q
      BY <1>6, Zenon DEF OnPostRequest, stateVars, socketVars
    <2> HIDE DEF h
    <2>4. IsSeq(q) /\ Range(Rest) \subseteq Range(q) /\ Range(q) \subseteq Range(Rest) \union {PostedSend(h), Task}
      BY <1>0, <2>2, <2>3, SendPacketFacts DEF Seqs
    <2>5. \A t \in {PostedSend(h), Task} : t.kind # "ReceiveDone"
      BY <2>2 DEF PostedSend
    <2> QED BY <1>0, <2>1, <2>2, <2>3, <2>4, <2>5, OtherHandler DEF Seqs
  <1>7. CASE OnRequestSent
    <2>1. Runs("SendDone") /\ UNCHANGED << work, recvs, sends, state, heartbeatTimer >> /\ ioQueue' = Rest
      BY <1>7, Zenon DEF OnRequestSent, stateVars, socketVars
    <2>2. IsSeq(Rest) /\ ~IsRead(Task)
      BY <1>0, <2>1, RunsFacts DEF IsRead
    <2> QED BY <1>0, <2>1, <2>2, OtherHandler DEF Seqs
  <1>8. CASE OnRequestTimeout
    <2>1. Runs("RequestTimeout") /\ UNCHANGED << work, recvs, sends, state, heartbeatTimer >> /\ ioQueue' = Rest
      BY <1>8 DEF OnRequestTimeout, stateVars, socketVars
    <2>2. IsSeq(Rest) /\ ~IsRead(Task)
      BY <1>0, <2>1, RunsFacts DEF IsRead
    <2> QED BY <1>0, <2>1, <2>2, OtherHandler DEF Seqs
  <1>9. CASE OnHeartbeatSent
    <2>1. Runs("SendDone") /\ UNCHANGED << recvs, sends >> /\ ioQueue' = Rest
      BY <1>9 DEF OnHeartbeatSent, stateVars, socketVars
    <2>2. IsSeq(Rest) /\ ~IsRead(Task)
      BY <1>0, <2>1, RunsFacts DEF IsRead
    <2>3. \/ Leave("ConnectionError", << >>)
          \/ UNCHANGED << work, state, heartbeatTimer >>
      BY <1>9 DEF OnHeartbeatSent, ConnectionError, stateVars, socketVars
    <2>4. IsSeq(work') /\ (state' # "Connected" \/ UNCHANGED << state, heartbeatTimer >>)
      BY <1>0, <2>3, LeaveFacts DEF Seqs
    <2> QED BY <1>0, <2>1, <2>2, <2>4, OtherHandler DEF Seqs
  <1>10. CASE OnHeartbeatTimeout
    <2>1. Runs("HeartbeatTimeout") /\ UNCHANGED << recvs, sends >> /\ ioQueue' = Rest /\ Leave("ConnectionError", << >>)
      BY <1>10 DEF OnHeartbeatTimeout, ConnectionError, socketVars
    <2>2. IsSeq(Rest) /\ ~IsRead(Task)
      BY <1>0, <2>1, RunsFacts DEF IsRead
    <2>3. IsSeq(work') /\ state' # "Connected"
      BY <1>0, <2>1, LeaveFacts
    <2> QED BY <1>0, <2>1, <2>2, <2>3, OtherHandler DEF Seqs
  <1> QED BY <1>1, <1>2, <1>3, <1>4, <1>5, <1>6, <1>7, <1>8, <1>9, <1>10

\* The handlers that tick, establish the connection or read packets.
LEMMA TickAndRead ==
  ASSUME IInv, OnTick \/ OnAckSent \/ OnReceive
  PROVE  IInv' /\ Kept
  <1>0. Seqs /\ IsSeq(<< >>)
    BY EmptyFacts DEF IInv
  <1>1. CASE OnTick
    <2>1. Runs("HeartbeatTick") /\ UNCHANGED << state, work, recvs, sends >>
      BY <1>1 DEF OnTick, socketVars
    <2>2. /\ IsSeq(Rest) /\ Task.kind = "HeartbeatTick" /\ work = << >>
          /\ Range(ioQueue) = {Task} \union Range(Rest)
      BY <1>0, <2>1, RunsFacts
    <2>3. PICK q : q \in {Rest, SendPacket(Rest, HeartbeatHandler)} /\ ioQueue' = q
      BY <1>1 DEF OnTick, socketVars
    <2>4. IsSeq(q) /\ Range(Rest) \subseteq Range(q) /\ Range(q) \subseteq Range(Rest) \union {PostedSend(HeartbeatHandler)}
      BY <2>2, <2>3, SendPacketFacts
    <2>5. Seqs' /\ PacketsInv'
      BY <1>0, <2>1, <2>2, <2>3, <2>4 DEF IInv, Seqs, PacketsInv, PostedSend
    <2>6. HeartbeatScheduled'
      BY <1>1, <2>1 DEF OnTick, WaitForNextTick, HeartbeatScheduled, socketVars
    <2>7. ConnectedIsReading'
      BY <2>1, <2>2, <2>3, <2>4 DEF IInv, ConnectedIsReading
    <2>8. Kept
      BY <2>1, <2>2, <2>3, <2>4 DEF Kept
    <2> QED BY <2>5, <2>6, <2>7, <2>8 DEF IInv
  <1>2. CASE OnAckSent
    <2>1. Runs("SendDone") /\ UNCHANGED << recvs, sends >> /\ ioQueue' = Rest
      BY <1>2, Zenon DEF OnAckSent, stateVars, socketVars
    <2>2. IsSeq(Rest) /\ ~IsRead(Task) /\ Range(ioQueue) = {Task} \union Range(Rest)
      BY <1>0, <2>1, RunsFacts DEF IsRead
    <2>3. CASE UNCHANGED << state, heartbeatTimer, work >>
      BY <1>0, <2>1, <2>2, <2>3, OtherHandler, Zenon DEF Seqs
    <2>4. CASE heartbeatTimer' /\ work' = << DoReceive >>
      <3>1. IsSeq(work') /\ DoReceive \in Range(work')
        BY <2>4, SingletonFacts
      <3>2. Seqs' /\ PacketsInv'
        BY <1>0, <2>1, <2>2, <3>1, Zenon DEF IInv, Seqs, PacketsInv
      <3>3. Kept
        BY <2>1, <2>2, RunsFacts, <1>0 DEF Kept
      <3> QED BY <2>4, <3>1, <3>2, <3>3, Zenon DEF IInv, HeartbeatScheduled, ConnectedIsReading
    <2> QED BY <1>2, <2>3, <2>4, Zenon DEF OnAckSent, SetConnected, stateVars, socketVars
  <1>3. CASE OnReceive
    <2>1. /\ Runs("ReceiveDone") /\ UNCHANGED << recvs, sends >> /\ ioQueue' = Rest
          /\ \/ Leave("ConnectionError", << >>)
             \/ work' = ProcessAll(Task.packets) /\ UNCHANGED << state, heartbeatTimer >>
      BY <1>3 DEF OnReceive, ConnectionError, stateVars, socketVars
    <2>2. /\ IsSeq(Rest) /\ Task.kind = "ReceiveDone"
          /\ Range(ioQueue) = {Task} \union Range(Rest)
      BY <1>0, <2>1, RunsFacts
    <2>0. Kept
      BY <2>1, <2>2 DEF Kept
    <2>3. CASE Leave("ConnectionError", << >>)
      <3>1. state' # "Connected" /\ IsSeq(work')
        BY <1>0, <2>3, LeaveFacts
      <3>2. Seqs' /\ PacketsInv'
        BY <1>0, <2>1, <2>2, <3>1 DEF IInv, Seqs, PacketsInv
      <3> QED BY <2>0, <3>1, <3>2 DEF IInv, HeartbeatScheduled, ConnectedIsReading
    <2>4. CASE work' = ProcessAll(Task.packets) /\ UNCHANGED << state, heartbeatTimer >>
      <3> DEFINE P == [i \in 1..Len(Task.packets) |-> DoProcess(Task.packets[i])]
      <3>1. Len(Task.packets) \in Nat
        BY <2>2, SeqShape DEF IInv, PacketsInv
      <3>2. IsSeq(P)
        BY <3>1, FunctionFacts
      <3>3. work' = P \o << DoReceive >>
        BY <2>4 DEF ProcessAll
      <3> HIDE DEF P
      <3>4. IsSeq(work') /\ DoReceive \in Range(work')
        BY <3>2, <3>3, SingletonFacts, ConcatFacts
      <3>5. Seqs' /\ PacketsInv'
        BY <1>0, <2>1, <2>2, <3>4, Zenon DEF IInv, Seqs, PacketsInv
      <3>6. HeartbeatScheduled'
        BY <2>1, <2>2, <2>4 DEF IInv, HeartbeatScheduled, Tick
      <3> QED BY <2>0, <3>4, <3>5, <3>6 DEF IInv, ConnectedIsReading
    <2> QED BY <2>1, <2>3, <2>4
  <1> QED BY <1>1, <1>2, <1>3

\* What the worker still has to do of a handler.
LEMMA WorkSteps ==
  ASSUME IInv, ProcessFatal \/ ProcessHeartbeat \/ ProcessMessage \/ ReceivePackets \/ Disconnect
  PROVE  IInv' /\ Kept
  <1>0. Seqs
    BY DEF IInv
  <1>1. CASE ProcessFatal
    <2>1. Does("ProcessPacket") /\ UNCHANGED << ioQueue, recvs, sends >>
      BY <1>1 DEF ProcessFatal, socketVars
    <2>2. /\ IsSeq(Tail(work)) /\ Head(work).do = "ProcessPacket"
          /\ Range(work) = {Head(work)} \union Range(Tail(work))
      BY <1>0, <2>1, DoesFacts
    <2>3. PICK event : Leave(event, Tail(work))
      BY <1>1 DEF ProcessFatal, ConnectionError, KickedFromServer, socketVars
    <2>4. state' # "Connected" /\ IsSeq(work')
      BY <2>2, <2>3, LeaveFacts
    <2> QED BY <1>0, <2>1, <2>4, Zenon DEF IInv, Seqs, PacketsInv, HeartbeatScheduled, ConnectedIsReading, Kept
  <1>2. CASE ProcessHeartbeat \/ ProcessMessage
    <2>1. /\ Does("ProcessPacket") /\ UNCHANGED << ioQueue, recvs, sends, state, heartbeatTimer >>
          /\ work' = Tail(work)
      BY <1>2, Zenon DEF ProcessHeartbeat, ProcessMessage, ExtendHeartbeatTimeout, stateVars, socketVars
    <2>2. /\ IsSeq(Tail(work)) /\ Head(work).do = "ProcessPacket"
          /\ Range(work) = {Head(work)} \union Range(Tail(work))
      BY <1>0, <2>1, DoesFacts
    <2>3. Seqs' /\ PacketsInv' /\ HeartbeatScheduled'
      BY <1>0, <2>1, <2>2 DEF IInv, Seqs, PacketsInv, HeartbeatScheduled
    <2>4. ConnectedIsReading'
      BY <2>1, <2>2 DEF IInv, ConnectedIsReading, DoReceive
    <2> QED BY <2>1, <2>3, <2>4 DEF IInv, Kept
  <1>3. CASE ReceivePackets
    <2> DEFINE d == ReceiveDone("packets", "error", << >>)
    <2>1. /\ Does("ReceivePackets") /\ UNCHANGED << sends, state, heartbeatTimer >>
          /\ work' = Tail(work)
          /\ \/ ioQueue' = Append(ioQueue, d) /\ recvs' = recvs
             \/ ioQueue' = ioQueue /\ recvs' = Append(recvs, "packets")
      BY <1>3 DEF ReceivePackets, StartReceive, stateVars
    <2>2. IsSeq(Tail(work))
      BY <1>0, <2>1, DoesFacts
    <2>3. IsRead(d) /\ IsSeq(d.packets)
      BY EmptyFacts DEF ReceiveDone, IsRead
    <2> HIDE DEF d
    <2>4. /\ IsSeq(Append(ioQueue, d)) /\ Range(Append(ioQueue, d)) = Range(ioQueue) \union {d}
          /\ IsSeq(Append(recvs, "packets")) /\ Range(Append(recvs, "packets")) = Range(recvs) \union {"packets"}
      BY <1>0, AppendFacts DEF Seqs
    <2>5. CASE ioQueue' = Append(ioQueue, d) /\ recvs' = recvs
      <3>1. Seqs' /\ PacketsInv' /\ HeartbeatScheduled'
        BY <1>0, <2>1, <2>2, <2>3, <2>4, <2>5, Zenon DEF IInv, Seqs, PacketsInv, HeartbeatScheduled
      <3>2. ConnectedIsReading'
        BY <2>3, <2>4, <2>5, Zenon DEF ConnectedIsReading, IsRead
      <3> QED BY <2>4, <2>5, <3>1, <3>2 DEF IInv, Kept
    <2>6. CASE ioQueue' = ioQueue /\ recvs' = Append(recvs, "packets")
      BY <1>0, <2>1, <2>2, <2>4, <2>6, Zenon DEF IInv, Seqs, PacketsInv, HeartbeatScheduled, ConnectedIsReading, Kept
    <2> QED BY <2>1, <2>5, <2>6
  <1>4. CASE Disconnect
    <2>1. /\ Does("Disconnect") /\ UNCHANGED << state, heartbeatTimer >>
          /\ work' = Tail(work) /\ recvs' = << >> /\ sends' = << >>
          /\ ioQueue' = ioQueue \o Aborted
      BY <1>4 DEF Disconnect, stateVars
    <2>2. /\ IsSeq(Tail(work)) /\ Head(work).do = "Disconnect"
          /\ Range(work) = {Head(work)} \union Range(Tail(work))
      BY <1>0, <2>1, DoesFacts
    <2>3. IsSeq(ioQueue') /\ Range(ioQueue') = Range(ioQueue) \union Range(Aborted)
      BY <1>0, <2>1, AbortedFacts, ConcatFacts DEF Seqs
    <2>4. Seqs' /\ PacketsInv'
      BY <1>0, <2>1, <2>2, <2>3, AbortedFacts, EmptyFacts, Zenon DEF IInv, Seqs, PacketsInv
    <2>5. HeartbeatScheduled'
      BY <2>1, <2>3 DEF IInv, HeartbeatScheduled
    <2>6. ConnectedIsReading'
      BY <1>0, <2>1, <2>2, <2>3, AbortedFacts DEF IInv, ConnectedIsReading, DoReceive, IsRead
    <2> QED BY <2>3, <2>4, <2>5, <2>6 DEF IInv, Kept
  <1> QED BY <1>1, <1>2, <1>3, <1>4

\* TCP, the server, the timers and the application.
LEMMA OutsideSteps ==
  ASSUME IInv, Environment \/ Application
  PROVE  IInv' /\ Range(ioQueue) \subseteq Range(ioQueue')
  \* A step that takes nothing from the queue, from work or from the reads.
  <1>AddingStep. ASSUME IInv, NEW q, IsSeq(q), Range(ioQueue) \subseteq Range(q), ioQueue' = q,
                        \A t \in Range(q) \ Range(ioQueue) : t.kind = "ReceiveDone" => IsSeq(t.packets),
                        UNCHANGED << work, state >>, IsSeq(sends'), IsSeq(recvs'), Range(recvs) \subseteq Range(recvs'),
                        heartbeatTimer => heartbeatTimer' \/ Tick \in Range(q)
                 PROVE  IInv' /\ Range(ioQueue) \subseteq Range(ioQueue')
    <2> USE <1>AddingStep
    <2>1. Seqs' /\ PacketsInv'
      BY DEF IInv, Seqs, PacketsInv
    <2>2. HeartbeatScheduled'
      BY DEF IInv, HeartbeatScheduled
    <2>3. ConnectedIsReading'
      BY DEF IInv, ConnectedIsReading
    <2> QED BY <2>1, <2>2, <2>3 DEF IInv
  \* A receive completes: its read moves from the socket to the queue.
  <1>ReadCompletes. ASSUME IInv, recvs # << >>, recvs' = Tail(recvs), UNCHANGED << work, sends, state, heartbeatTimer >>,
                           NEW ec, NEW ps, IsSeq(ps), ioQueue' = Append(ioQueue, ReceiveDone(Head(recvs), ec, ps))
                    PROVE  IInv' /\ Range(ioQueue) \subseteq Range(ioQueue')
    <2> USE <1>ReadCompletes
    <2> DEFINE d == ReceiveDone(Head(recvs), ec, ps)
    <2>0. Seqs
      BY DEF IInv
    <2>1. IsSeq(d.packets) /\ (Head(recvs) = "packets" => IsRead(d))
      BY DEF ReceiveDone, IsRead
    <2> HIDE DEF d
    <2>2. IsSeq(ioQueue') /\ Range(ioQueue') = Range(ioQueue) \union {d}
      BY <2>0, AppendFacts DEF Seqs, d
    <2>3. IsSeq(recvs') /\ Range(recvs) = {Head(recvs)} \union Range(recvs')
      BY <2>0, TailFacts DEF Seqs
    <2>4. Seqs' /\ PacketsInv' /\ HeartbeatScheduled'
      BY <2>0, <2>1, <2>2, <2>3, Zenon DEF IInv, Seqs, PacketsInv, HeartbeatScheduled
    <2>5. ConnectedIsReading'
      BY <2>1, <2>2, <2>3, Zenon DEF IInv, ConnectedIsReading, IsRead
    <2> QED BY <2>2, <2>4, <2>5 DEF IInv
  \* A completion, an expiry or a request joins the queue.
  <1>OneMore. ASSUME IInv, NEW t, ioQueue' = Append(ioQueue, t), t.kind # "ReceiveDone",
                     UNCHANGED << work, state, recvs >>, sends' = sends \/ (sends # << >> /\ sends' = Tail(sends)),
                     heartbeatTimer => heartbeatTimer' \/ t = Tick
              PROVE  IInv' /\ Range(ioQueue) \subseteq Range(ioQueue')
    <2> USE <1>OneMore
    <2>1. IsSeq(ioQueue') /\ Range(ioQueue') = Range(ioQueue) \union {t}
      BY AppendFacts DEF IInv, Seqs
    <2>2. IsSeq(sends') /\ IsSeq(recvs')
      BY TailFacts, Zenon DEF IInv, Seqs
    <2> QED BY <2>1, <2>2, <1>AddingStep, Zenon
  <1>1. CASE ConnectCompletes
    <2>1. PICK t : ioQueue' = Append(ioQueue, t) /\ t.kind # "ReceiveDone"
      BY <1>1 DEF ConnectCompletes, ConnectDone, stateVars
    <2> QED BY <1>1, <2>1, <1>OneMore DEF ConnectCompletes, stateVars
  <1>2. CASE SendCompletes \/ SendFails
    <2>1. PICK t : ioQueue' = Append(ioQueue, t) /\ t.kind # "ReceiveDone"
      BY <1>2 DEF SendCompletes, SendFails, SendDone, stateVars
    <2> QED BY <1>2, <2>1, <1>OneMore DEF SendCompletes, SendFails, stateVars
  <1>3. CASE ReceiveCompletes
    <2>0. PICK n \in 1..MaxBatch : \E ps \in [1..n -> PacketsFromServer] :
             ioQueue' = Append(ioQueue, ReceiveDone(Head(recvs), "success", ps))
      BY <1>3, Zenon DEF ReceiveCompletes, stateVars
    <2>1. PICK ps \in [1..n -> PacketsFromServer] :
             ioQueue' = Append(ioQueue, ReceiveDone(Head(recvs), "success", ps))
      BY <2>0
    <2>2. n \in Nat
      <3>1. MaxBatch \in Nat
        BY ConnectionAssumption, Zenon DEF ConnectionAssumption
      <3> QED BY <3>1
    <2>3. IsSeq(ps)
      BY <2>2, FunctionFacts
    <2> QED BY <1>3, <2>1, <2>3, <1>ReadCompletes DEF ReceiveCompletes, stateVars
  <1>4. CASE ReceiveFails
    BY <1>4, <1>ReadCompletes, EmptyFacts DEF ReceiveFails, stateVars
  <1>5. CASE HeartbeatTimerExpires
    BY <1>5, <1>OneMore DEF HeartbeatTimerExpires, Tick, socketVars
  <1>6. CASE HeartbeatTimeoutExpires
    BY <1>6, <1>OneMore DEF HeartbeatTimeoutExpires, HeartbeatTimedOut, socketVars
  <1>7. CASE RequestTimerExpires
    <2>1. PICK t : ioQueue' = Append(ioQueue, t) /\ t.kind # "ReceiveDone"
      BY <1>7 DEF RequestTimerExpires, RequestTimedOut, stateVars, socketVars
    <2> QED BY <1>7, <2>1, <1>OneMore DEF RequestTimerExpires, stateVars, socketVars
  <1>8. CASE \E r \in Requests : PostRequest(r)
    <2>1. PICK r \in Requests : PostRequest(r)
      BY <1>8
    <2> QED BY <2>1, <1>OneMore, Zenon DEF PostRequest, PostedRequest, stateVars, socketVars
  <1>9. CASE Start
    <2>1. /\ UNCHANGED << state, heartbeatTimer, work >> /\ recvs' = << >> /\ sends' = << >>
          /\ ioQueue' = ioQueue \o Aborted
      BY <1>9 DEF Start, stateVars
    <2>2. IsSeq(ioQueue') /\ Range(ioQueue') = Range(ioQueue) \union Range(Aborted)
      BY <2>1, AbortedFacts, ConcatFacts DEF IInv, Seqs
    <2>3. Seqs' /\ PacketsInv' /\ HeartbeatScheduled'
      BY <2>1, <2>2, AbortedFacts, EmptyFacts DEF IInv, Seqs, PacketsInv, HeartbeatScheduled
    <2>4. ConnectedIsReading'
      BY <2>1, <2>2, AbortedFacts DEF IInv, ConnectedIsReading, IsRead
    <2> QED BY <2>2, <2>3, <2>4 DEF IInv
  <1> QED BY <1>1, <1>2, <1>3, <1>4, <1>5, <1>6, <1>7, <1>8, <1>9, Zenon DEF Environment, Application

\* Every step preserves the invariant.
LEMMA NextIInv == IInv /\ [Next]_vars => IInv'
  <1> SUFFICES ASSUME IInv, [Next]_vars PROVE IInv'
    OBVIOUS
  <1>1. CASE Worker
    BY <1>1, OtherHandlers, TickAndRead, WorkSteps DEF Worker
  <1>2. CASE Environment \/ Application
    BY <1>2, OutsideSteps
  <1>3. CASE UNCHANGED vars
    BY <1>3, Zenon DEF vars, stateVars, socketVars, IInv, Seqs, PacketsInv, HeartbeatScheduled, ConnectedIsReading
  <1> QED BY <1>1, <1>2, <1>3 DEF Next

\* Every step keeps the requests in flight timed.
LEMMA NextTimed == IInv /\ RequestTimed /\ [Next]_vars => RequestTimed'
  \* A step that leaves the requests alone and handles no timeout.
  <1>TimedKept. ASSUME RequestTimed, UNCHANGED << inFlight, reqTimers >>,
                       \A t \in Range(ioQueue) : t.kind = "RequestTimeout" => t \in Range(ioQueue')
                PROVE  RequestTimed'
    BY <1>TimedKept, Zenon DEF RequestTimed, RequestTimedOut
  \* A request that is finished leaves with its timer, and no other timer stops.
  <1>TimedFinish. ASSUME RequestTimed, NEW id, NEW status, Finish(id, status),
                         \A t \in Range(ioQueue) : t.kind = "RequestTimeout" /\ t.id # id => t \in Range(ioQueue')
                  PROVE  RequestTimed'
    BY <1>TimedFinish, Zenon DEF RequestTimed, RequestTimedOut, Finish, Entries
  <1> SUFFICES ASSUME IInv, RequestTimed, [Next]_vars PROVE RequestTimed'
    OBVIOUS
  <1>1. CASE Environment \/ Application
    <2>1. Range(ioQueue) \subseteq Range(ioQueue')
      BY <1>1, OutsideSteps
    <2>2. CASE RequestTimerExpires
      <3>1. PICK id \in reqTimers : /\ reqTimers' = reqTimers \ {id}
                                    /\ ioQueue' = Append(ioQueue, RequestTimedOut(id))
        BY <2>2 DEF RequestTimerExpires
      <3>2. RequestTimedOut(id) \in Range(ioQueue') /\ inFlight' = inFlight
        BY <2>2, <3>1, AppendFacts DEF RequestTimerExpires, IInv, Seqs
      <3> QED BY <2>1, <3>1, <3>2 DEF RequestTimed
    <2>3. CASE ~RequestTimerExpires
      <3>1. UNCHANGED << inFlight, reqTimers >>
        BY <1>1, <2>3, Zenon DEF Environment, Application, ConnectCompletes, SendCompletes, SendFails, ReceiveCompletes,
              ReceiveFails, HeartbeatTimerExpires, HeartbeatTimeoutExpires, PostRequest, Start, requestVars
      <3> QED BY <2>1, <3>1, <1>TimedKept
    <2> QED BY <2>2, <2>3
  <1>2. CASE Worker
    <2>1. Kept
      BY <1>2, OtherHandlers, TickAndRead, WorkSteps DEF Worker
    <2>2. CASE OnRequestTimeout
      <3>1. Runs("RequestTimeout") /\ Finish(Task.id, "Timeout")
        BY <2>2 DEF OnRequestTimeout
      <3>2. \A t \in Range(ioQueue) : t.kind = "RequestTimeout" /\ t.id # Task.id => t \in Range(ioQueue')
        BY <2>1 DEF Kept
      <3> QED BY <3>1, <3>2, <1>TimedFinish
    <2>3. CASE ~OnRequestTimeout
      <3>1. ~Runs("RequestTimeout")
        BY <1>2, <2>3, Zenon DEF Worker, OnConnect, OnHandshakeSent, OnHandshakeRejected, OnHandshakeResponse, OnAckSent,
              OnReceive, ProcessFatal, ProcessHeartbeat, ProcessMessage, ReceivePackets, Disconnect, SendNextPacket,
              OnPostRequest, OnRequestSent, OnTick, OnHeartbeatSent, OnHeartbeatTimeout, Runs, Does, requestVars
      <3>2. \A t \in Range(ioQueue) : t.kind = "RequestTimeout" => t \in Range(ioQueue')
        BY <2>1, <3>1 DEF Kept
      <3>3. CASE ProcessMessage
        <4>1. \/ UNCHANGED << inFlight, reqTimers >>
              \/ \E s : Finish(Packet.id, s)
          BY <3>3 DEF ProcessMessage
        <4> QED BY <3>2, <4>1, <1>TimedKept, <1>TimedFinish, Zenon
      <3>4. CASE OnRequestSent
        <4>1. \/ UNCHANGED << inFlight, reqTimers >>
              \/ \E h : Register(h)
          BY <3>4 DEF OnRequestSent
        <4>2. ASSUME NEW h, Register(h) PROVE RequestTimed'
          <5>1. \/ UNCHANGED << inFlight, reqTimers >>
                \/ /\ inFlight' = inFlight \union {[id |-> h.id, req |-> h.req]}
                   /\ reqTimers' = reqTimers \union {h.id}
            BY <4>2 DEF Register
          <5>2. ASSUME NEW q \in inFlight PROVE q.id \in reqTimers' \/ RequestTimedOut(q.id) \in Range(ioQueue')
            BY <3>2, <5>1, Zenon DEF RequestTimed, RequestTimedOut
          <5>3. ASSUME NEW q \in inFlight', q \notin inFlight PROVE q.id \in reqTimers'
            BY <5>1, <5>3
          <5> QED BY <5>2, <5>3, Zenon DEF RequestTimed, RequestTimedOut
        <4> QED BY <3>2, <4>1, <4>2, <1>TimedKept
      <3>5. CASE ~ProcessMessage /\ ~OnRequestSent
        <4>1. UNCHANGED << inFlight, reqTimers >>
          BY <1>2, <2>3, <3>5, Zenon DEF Worker, OnConnect, OnHandshakeSent, OnHandshakeRejected, OnHandshakeResponse, OnAckSent,
              OnReceive, ProcessFatal, ProcessHeartbeat, ReceivePackets, Disconnect, SendNextPacket,
              OnPostRequest, OnTick, OnHeartbeatSent, OnHeartbeatTimeout, requestVars
        <4> QED BY <3>2, <4>1, <1>TimedKept
      <3> QED BY <3>3, <3>4, <3>5
    <2> QED BY <2>2, <2>3
  <1>3. CASE UNCHANGED vars
    BY <1>3 DEF vars, RequestTimed, requestVars
  <1> QED BY <1>1, <1>2, <1>3 DEF Next

\* State::HeartbeatTick always waits for the next tick: while the connection is
\* established one is pending or ready, for any constants and any use of Start.
THEOREM ConnectionHeartbeats == Spec => []HeartbeatScheduled
  <1>1. IInv => HeartbeatScheduled
    BY DEF IInv
  <1> QED BY <1>1, InitIInv, NextIInv, PTL DEF Spec

\* Connection::ReceivePackets always asks for more: while the connection is
\* established a read is pending, completed or about to start, for any constants
\* and any use of Start.
THEOREM ConnectionReads == Spec => []ConnectedIsReading
  <1>1. IInv => ConnectedIsReading
    BY DEF IInv
  <1> QED BY <1>1, InitIInv, NextIInv, PTL DEF Spec

\* Connection::PostRequest gives every request in flight a timer that only the
\* end of the request stops: for any constants and any use of Start, a request
\* in flight is timed or its timeout is about to be handled.
THEOREM ConnectionTimesRequests == Spec => []RequestTimed
  <1>1. Init => RequestTimed
    BY DEF Init, RequestTimed
  <1> QED BY <1>1, InitIInv, NextIInv, NextTimed, PTL DEF Spec

-----------------------------------------------------------------------------
(* The requests on their way *)

\* A task with the packet of a request.
IsRequestTask(t) == t.kind \in {"SendNextPacket", "SendDone"} /\ t.handler.kind = "Request"

\* TaskRequests of a union.
LEMMA RequestsOfUnion ==
  ASSUME NEW A, NEW B
  PROVE  TaskRequests(A \union B) = TaskRequests(A) \union TaskRequests(B)
  BY DEF TaskRequests

\* TaskRequests of one task.
LEMMA RequestsOfTask ==
  ASSUME NEW t
  PROVE  TaskRequests({t}) = IF IsRequestTask(t) THEN {t.handler} ELSE {}
  BY DEF TaskRequests, IsRequestTask

\* The tasks with the packet of SendHandler h.
LEMMA RequestsOfHandler ==
  ASSUME NEW h, NEW ec
  PROVE  /\ TaskRequests({PostedSend(h)}) = IF h.kind = "Request" THEN {h} ELSE {}
         /\ TaskRequests({SendDone(h, ec)}) = IF h.kind = "Request" THEN {h} ELSE {}
  <1>1. /\ IsRequestTask(PostedSend(h)) <=> h.kind = "Request"
        /\ PostedSend(h).handler = h
    BY DEF IsRequestTask, PostedSend
  <1>2. /\ IsRequestTask(SendDone(h, ec)) <=> h.kind = "Request"
        /\ SendDone(h, ec).handler = h
    BY DEF IsRequestTask, SendDone
  <1> QED BY <1>1, <1>2, RequestsOfTask, Zenon

\* A task that is not about a request makes no difference.
LEMMA OtherTask ==
  ASSUME NEW A, NEW t, ~IsRequestTask(t)
  PROVE  TaskRequests(A \union {t}) = TaskRequests(A) /\ TaskRequests({t} \union A) = TaskRequests(A)
  <1>1. TaskRequests({t}) = {}
    BY RequestsOfTask, Zenon
  <1>2. TaskRequests(A \union {t}) = TaskRequests(A) \union TaskRequests({t})
    BY RequestsOfUnion
  <1>3. A \union {t} = {t} \union A
    OBVIOUS
  <1> QED BY <1>1, <1>2, <1>3

\* What SendPacket makes of the tasks.
LEMMA SendPacketRange ==
  ASSUME NEW q, IsSeq(q), NEW h
  PROVE  Range(SendPacket(q, h)) = IF QueueFull(q) THEN Range(q) ELSE Range(q) \union {PostedSend(h)}
  BY AppendFacts, Zenon DEF SendPacket

\* A task that is not about a request joins the queue, or none.
LEMMA JoinFlow ==
  ASSUME UNCHANGED sends, NEW x, ~IsRequestTask(x), Range(ioQueue') \in {Range(ioQueue), Range(ioQueue) \union {x}}
  PROVE  OnTheWay' = OnTheWay
  <1>1. TaskRequests(Range(ioQueue) \union {x}) = TaskRequests(Range(ioQueue))
    BY OtherTask
  <1>2. TaskRequests(Range(ioQueue')) = TaskRequests(Range(ioQueue))
    BY <1>1
  <1> QED BY <1>2 DEF OnTheWay

\* The pending sends that are requests.
SendRequests(hs) == {h \in hs : h.kind = "Request"}

\* Only OnPostRequest adds a request to those on their way, and only
\* OnRequestSent takes one from them.
LEMMA Flow == ASSUME IInv, Next, ~OnPostRequest, ~OnRequestSent PROVE OnTheWay' = OnTheWay
  \* A handler that was not of a request ran and left no request behind.
  <1>RunFlow. ASSUME Seqs, NEW kind, Runs(kind), ~IsRequestTask(Task), UNCHANGED sends,
                     NEW x, ~IsRequestTask(x), Range(ioQueue') \in {Range(Rest), Range(Rest) \union {x}}
              PROVE  OnTheWay' = OnTheWay
    <2> USE <1>RunFlow
    <2>1. Range(ioQueue) = {Task} \union Range(Rest)
      BY RunsFacts
    <2>2. TaskRequests(Range(ioQueue)) = TaskRequests(Range(Rest))
      BY <2>1, OtherTask
    <2>3. TaskRequests(Range(Rest) \union {x}) = TaskRequests(Range(Rest))
      BY OtherTask
    <2>4. TaskRequests(Range(ioQueue')) = TaskRequests(Range(Rest))
      BY <2>3
    <2> QED BY <2>2, <2>4 DEF OnTheWay
  \* The handlers of the worker leave the requests on their way, but for the two
  \* that are about one.
  <1>HandlerFlow. ASSUME IInv,
                         \/ OnConnect \/ OnHandshakeSent \/ OnHandshakeRejected \/ OnHandshakeResponse \/ OnAckSent
                         \/ OnReceive \/ OnRequestTimeout \/ OnTick \/ OnHeartbeatSent \/ OnHeartbeatTimeout
                  PROVE  OnTheWay' = OnTheWay
    <2> USE <1>HandlerFlow
    <2>0. Seqs
      BY DEF IInv
    <2>1. CASE OnConnect \/ OnHandshakeResponse \/ OnTick
      <3>1. PICK kind : Runs(kind) /\ kind \in {"ConnectDone", "ReceiveDone", "HeartbeatTick"} /\ UNCHANGED sends
        BY <2>1, ZenonT(30) DEF OnConnect, OnHandshakeResponse, OnTick, socketVars
      <3>2. PICK h : h.kind # "Request" /\ ioQueue' \in {Rest, SendPacket(Rest, h)}
        <4>1. CASE OnConnect
          <5>1. ioQueue' \in {Rest, SendPacket(Rest, HandshakeHandler)}
            BY <4>1, Zenon DEF OnConnect
          <5> QED BY <5>1, Zenon DEF HandshakeHandler
        <4>2. CASE OnHandshakeResponse
          <5>1. PICK h : h = AckHandler(Task.packets[1].dict)
            OBVIOUS
          <5>2. ioQueue' \in {Rest, SendPacket(Rest, h)}
            BY <4>2, <5>1, Zenon DEF OnHandshakeResponse
          <5>3. h.kind = "HandshakeAck"
            BY <5>1, Zenon DEF AckHandler
          <5> QED BY <5>2, <5>3, Zenon
        <4>3. CASE OnTick
          <5>1. ioQueue' \in {Rest, SendPacket(Rest, HeartbeatHandler)}
            BY <4>3, Zenon DEF OnTick
          <5> QED BY <5>1, Zenon DEF HeartbeatHandler
        <4> QED BY <2>1, <4>1, <4>2, <4>3, Zenon
      <3>3. IsSeq(Rest) /\ ~IsRequestTask(Task)
        BY <2>0, <3>1, RunsFacts DEF IsRequestTask
      <3>4. ~IsRequestTask(PostedSend(h))
        BY <3>2 DEF IsRequestTask, PostedSend
      <3>5. Range(ioQueue') \in {Range(Rest), Range(Rest) \union {PostedSend(h)}}
        BY <3>2, <3>3, SendPacketRange, Zenon
      <3> QED BY <2>0, <3>1, <3>3, <3>4, <3>5, <1>RunFlow
    <2>2. CASE OnHandshakeSent
      <3> DEFINE d == ReceiveDone("handshake", "error", << >>)
      <3>1. Runs("SendDone") /\ UNCHANGED sends /\ ~IsRequestTask(Task)
        BY <2>2 DEF OnHandshakeSent, IsRequestTask
      <3>2. IsSeq(Rest) /\ ioQueue' \in {Rest, Append(Rest, d)}
        BY <2>0, <2>2, <3>1, RunsFacts, Zenon DEF OnHandshakeSent, StartReceive
      <3>3. ~IsRequestTask(d)
        BY Zenon DEF IsRequestTask, ReceiveDone
      <3> HIDE DEF d
      <3>4. Range(ioQueue') \in {Range(Rest), Range(Rest) \union {d}}
        BY <3>2, AppendFacts, Zenon
      <3> QED BY <2>0, <3>1, <3>3, <3>4, <1>RunFlow
    <2>3. CASE OnHandshakeRejected \/ OnAckSent \/ OnReceive \/ OnRequestTimeout \/ OnHeartbeatSent \/ OnHeartbeatTimeout
      <3>1. PICK kind : Runs(kind) /\ UNCHANGED sends /\ ioQueue' = Rest /\ ~IsRequestTask(Task)
        BY <2>3, Zenon DEF OnHandshakeRejected, OnAckSent, OnReceive, OnRequestTimeout, OnHeartbeatSent, OnHeartbeatTimeout,
              IsRequestTask, Runs, Task, socketVars
      <3>2. ~IsRequestTask(Tick)
        BY DEF IsRequestTask, Tick
      <3> QED BY <2>0, <3>1, <3>2, <1>RunFlow
    <2> QED BY <2>1, <2>2, <2>3
  \* Closing the socket turns pending sends into completed ones.
  <1>AbortFlow. ASSUME Seqs, ioQueue' = ioQueue \o Aborted, sends' = << >>
                PROVE  OnTheWay' = OnTheWay
    <2> USE <1>AbortFlow
    <2> DEFINE R == {ReceiveDone(r, "error", << >>) : r \in Range(recvs)}
               K == IF connect THEN {ConnectDone("error")} ELSE {}
               S == {SendDone(h, "error") : h \in Range(sends)}
    <2>1. Range(ioQueue') = Range(ioQueue) \union (R \union K \union S)
      BY AbortedRange, ConcatFacts DEF Seqs
    <2>2. TaskRequests(R) = {}
      BY DEF TaskRequests, ReceiveDone
    <2>3. TaskRequests(K) = {}
      BY DEF TaskRequests, ConnectDone
    <2>4. TaskRequests(S) = {h \in Range(sends) : h.kind = "Request"}
      <3>1. ASSUME NEW h \in Range(sends), h.kind = "Request" PROVE h \in TaskRequests(S)
        <4>1. SendDone(h, "error") \in S
          OBVIOUS
        <4> QED BY <3>1, <4>1 DEF TaskRequests, SendDone
      <3>2. ASSUME NEW h \in TaskRequests(S) PROVE h \in Range(sends) /\ h.kind = "Request"
        BY <3>2 DEF TaskRequests, SendDone
      <3> QED BY <3>1, <3>2
    <2>5. Range(sends') = {}
      BY EmptyFacts
    <2> HIDE DEF R, K, S
    <2>6. TaskRequests(Range(ioQueue')) = TaskRequests(Range(ioQueue)) \union TaskRequests(S)
      <3>1. TaskRequests(R \union K \union S) = TaskRequests(R \union K) \union TaskRequests(S)
        BY RequestsOfUnion
      <3>2. TaskRequests(R \union K) = {}
        BY <2>2, <2>3, RequestsOfUnion
      <3>3. TaskRequests(Range(ioQueue) \union (R \union K \union S))
              = TaskRequests(Range(ioQueue)) \union TaskRequests(R \union K \union S)
        BY RequestsOfUnion
      <3> QED BY <2>1, <3>1, <3>2, <3>3, Zenon
    <2> QED BY <2>4, <2>5, <2>6 DEF OnTheWay
  \* SendNextPacket passes the packet from the queue to the socket.
  <1>SendFlow. ASSUME IInv, SendNextPacket PROVE OnTheWay' = OnTheWay
    <2> USE <1>SendFlow
    <2> DEFINE h == Task.handler
               Q == TaskRequests(Range(Rest))
               H == IF h.kind = "Request" THEN {h} ELSE {}
    <2>1. Runs("SendNextPacket") /\ Seqs
      BY DEF SendNextPacket, IInv
    <2>2. IsSeq(Rest) /\ Task.kind = "SendNextPacket" /\ Range(ioQueue) = {Task} \union Range(Rest)
      BY <2>1, RunsFacts
    <2>3. TaskRequests({Task}) = H
      BY <2>2, RequestsOfTask, Zenon DEF IsRequestTask
    <2>4. TaskRequests(Range(ioQueue)) = H \union Q
      BY <2>2, <2>3, RequestsOfUnion
    <2>5. CASE ioQueue' = Append(Rest, SendDone(h, "error")) /\ UNCHANGED sends
      <3>1. Range(ioQueue') = Range(Rest) \union {SendDone(h, "error")}
        BY <2>2, <2>5, AppendFacts
      <3>2. TaskRequests({SendDone(h, "error")}) = H
        BY RequestsOfHandler, Zenon
      <3>3. TaskRequests(Range(ioQueue')) = Q \union H
        BY <3>1, <3>2, RequestsOfUnion
      <3> QED BY <2>4, <2>5, <3>3 DEF OnTheWay
    <2>6. CASE ioQueue' = Rest /\ sends' = Append(sends, h)
      <3>1. Range(sends') = Range(sends) \union {h}
        BY <2>1, <2>6, AppendFacts DEF Seqs
      <3>2. SendRequests(Range(sends')) = SendRequests(Range(sends)) \union H
        BY <3>1 DEF SendRequests
      <3>3. TaskRequests(Range(ioQueue')) = Q
        BY <2>6
      <3> QED BY <2>4, <3>2, <3>3, Zenon DEF OnTheWay, SendRequests
    <2> QED BY <2>5, <2>6 DEF SendNextPacket
  \* A send that completes moves to the queue.
  <1>CompleteFlow. ASSUME Seqs, sends # << >>, sends' = Tail(sends), NEW ec, ioQueue' = Append(ioQueue, SendDone(Head(sends), ec))
                   PROVE  OnTheWay' = OnTheWay
    <2> USE <1>CompleteFlow
    <2> DEFINE h == Head(sends)
               H == IF h.kind = "Request" THEN {h} ELSE {}
    <2>1. Range(ioQueue') = Range(ioQueue) \union {SendDone(h, ec)}
      BY AppendFacts DEF Seqs
    <2>2. TaskRequests({SendDone(h, ec)}) = H
      BY RequestsOfHandler, Zenon
    <2>3. TaskRequests(Range(ioQueue')) = TaskRequests(Range(ioQueue)) \union H
      BY <2>1, <2>2, RequestsOfUnion
    <2>4. Range(sends) = {h} \union Range(sends')
      BY TailFacts DEF Seqs
    <2>5. SendRequests(Range(sends)) = H \union SendRequests(Range(sends'))
      BY <2>4 DEF SendRequests
    <2> QED BY <2>3, <2>5 DEF OnTheWay, SendRequests
  <1>0. Seqs
    BY DEF IInv
  <1>1. CASE Worker
    <2>1. CASE SendNextPacket
      BY <2>1, <1>SendFlow
    <2>2. CASE ProcessFatal \/ ProcessHeartbeat \/ ProcessMessage
      BY <2>2 DEF ProcessFatal, ProcessHeartbeat, ProcessMessage, OnTheWay, socketVars
    <2>3. CASE ReceivePackets
      <3> DEFINE d == ReceiveDone("packets", "error", << >>)
      <3>1. UNCHANGED sends /\ ioQueue' \in {ioQueue, Append(ioQueue, d)}
        BY <2>3 DEF ReceivePackets, StartReceive
      <3>2. ~IsRequestTask(d)
        BY DEF IsRequestTask, ReceiveDone
      <3> HIDE DEF d
      <3>3. Range(ioQueue') \in {Range(ioQueue), Range(ioQueue) \union {d}}
        BY <1>0, <3>1, AppendFacts, Zenon DEF Seqs
      <3> QED BY <3>1, <3>2, <3>3, JoinFlow
    <2>4. CASE Disconnect
      BY <1>0, <2>4, <1>AbortFlow DEF Disconnect
    <2> QED BY <1>1, <2>1, <2>2, <2>3, <2>4, <1>HandlerFlow DEF Worker
  <1>2. CASE SendCompletes
    BY <1>0, <1>2, <1>CompleteFlow DEF SendCompletes
  <1>3. CASE SendFails
    BY <1>0, <1>3, <1>CompleteFlow DEF SendFails
  <1>4. CASE Start
    BY <1>0, <1>4, <1>AbortFlow DEF Start
  <1>5. CASE \/ ConnectCompletes \/ ReceiveCompletes \/ ReceiveFails \/ HeartbeatTimerExpires
             \/ HeartbeatTimeoutExpires \/ RequestTimerExpires \/ \E r \in Requests : PostRequest(r)
    <2>1. PICK x : ioQueue' = Append(ioQueue, x) /\ ~IsRequestTask(x) /\ UNCHANGED sends
      BY <1>5, Zenon DEF ConnectCompletes, ReceiveCompletes, ReceiveFails, HeartbeatTimerExpires, HeartbeatTimeoutExpires,
            RequestTimerExpires, PostRequest, IsRequestTask, ConnectDone, ReceiveDone, Tick, HeartbeatTimedOut,
            RequestTimedOut, PostedRequest, socketVars
    <2>2. Range(ioQueue') = Range(ioQueue) \union {x}
      BY <1>0, <2>1, AppendFacts DEF Seqs
    <2> QED BY <2>1, <2>2, JoinFlow
  <1> QED BY <1>1, <1>2, <1>3, <1>4, <1>5 DEF Next, Environment, Application

\* The call posted by PostRequest sends the packet of the request, with the next
\* id, or SendPacket ignores it.
LEMMA PostFlow ==
  ASSUME IInv, OnPostRequest, NEW h, h = RequestHandler(Task.req, reqId)
  PROVE  \/ OnTheWay' = OnTheWay
         \/ OnTheWay' = OnTheWay \union {h} /\ reqId' = reqId + 1
  <1>1. Runs("PostRequest") /\ Seqs /\ UNCHANGED sends
    BY Zenon DEF OnPostRequest, IInv, socketVars
  <1>2. IsSeq(Rest) /\ ~IsRequestTask(Task) /\ Range(ioQueue) = {Task} \union Range(Rest)
    BY <1>1, RunsFacts DEF IsRequestTask
  <1>3. TaskRequests(Range(ioQueue)) = TaskRequests(Range(Rest))
    BY <1>2, OtherTask
  <1>4. TaskRequests({PostedSend(h)}) = {h}
    <2>1. h.kind = "Request"
      BY DEF RequestHandler
    <2> QED BY <2>1, RequestsOfHandler, Zenon
  <1>5. \/ ioQueue' \in {Rest, ioQueue}
        \/ ioQueue' = SendPacket(Rest, h) /\ reqId' = reqId + 1
    BY Zenon DEF OnPostRequest, NextReqId
  <1>6. CASE ioQueue' \in {Rest, ioQueue}
    BY <1>1, <1>3, <1>6, Zenon DEF OnTheWay
  <1>7. CASE ioQueue' = SendPacket(Rest, h) /\ reqId' = reqId + 1
    <2>1. Range(ioQueue') \in {Range(Rest), Range(Rest) \union {PostedSend(h)}}
      BY <1>2, <1>7, SendPacketRange
    <2>2. TaskRequests(Range(Rest) \union {PostedSend(h)}) = TaskRequests(Range(Rest)) \union {h}
      BY <1>4, RequestsOfUnion
    <2> QED BY <1>1, <1>3, <1>7, <2>1, <2>2, Zenon DEF OnTheWay
  <1> QED BY <1>5, <1>6, <1>7

\* The SendHandler of a request takes this request from those on their way.
LEMMA SentFlow ==
  ASSUME IInv, OnRequestSent
  PROVE  OnTheWay = OnTheWay' \union {Task.handler}
  <1>1. Runs("SendDone") /\ Task.handler.kind = "Request" /\ Seqs /\ UNCHANGED sends /\ ioQueue' = Rest
    BY Zenon DEF OnRequestSent, IInv, socketVars
  <1>2. Task.kind = "SendDone" /\ Range(ioQueue) = {Task} \union Range(Rest)
    BY <1>1, RunsFacts
  <1>3. TaskRequests({Task}) = {Task.handler}
    BY <1>1, <1>2, RequestsOfTask, Zenon DEF IsRequestTask
  <1>4. TaskRequests(Range(ioQueue)) = {Task.handler} \union TaskRequests(Range(Rest))
    BY <1>2, <1>3, RequestsOfUnion
  <1> QED BY <1>1, <1>4, Zenon DEF OnTheWay

-----------------------------------------------------------------------------
(* Packets received *)

\* A completed read hands over nothing but packets of the server, and a call is
\* posted where the application makes a request.
Expected(t) ==
    /\ t.kind = "ReceiveDone" => Range(t.packets) \subseteq PacketsFromServer
    /\ t.kind = "PostRequest" => \E r \in Requests : t = PostedRequest(r) /\ PostRequest(r)

\* A task that a step adds to the queue is one of those expected.
LEMMA NewTasks ==
  ASSUME IInv, Next, NEW t \in Range(ioQueue'), t \notin Range(ioQueue)
  PROVE  Expected(t)
  \* Reads that fail hand over nothing.
  <1>EmptyRead. ASSUME NEW reader, NEW ec PROVE Expected(ReceiveDone(reader, ec, << >>))
    BY EmptyFacts DEF Expected, ReceiveDone
  <1>0. Seqs
    BY DEF IInv
  <1>1. CASE \E x : Expected(x) /\ ioQueue' = Append(ioQueue, x)
    <2>1. PICK x : Expected(x) /\ ioQueue' = Append(ioQueue, x)
      BY <1>1
    <2>2. Range(ioQueue') = Range(ioQueue) \union {x}
      BY <1>0, <2>1, AppendFacts DEF Seqs
    <2> QED BY <2>1, <2>2
  <1>2. CASE ioQueue' = ioQueue \o Aborted
    <2>1. Range(ioQueue') = Range(ioQueue) \union Range(Aborted)
      BY <1>0, <1>2, AbortedRange, ConcatFacts DEF Seqs
    <2>2. t \in Range(Aborted)
      BY <2>1
    <2>3. ASSUME NEW r, t = ReceiveDone(r, "error", << >>) PROVE Expected(t)
      BY <2>3, <1>EmptyRead
    <2>4. ASSUME NEW h, t = SendDone(h, "error") PROVE Expected(t)
      BY <2>4 DEF Expected, SendDone
    <2>5. ASSUME t = ConnectDone("error") PROVE Expected(t)
      BY <2>5 DEF Expected, ConnectDone
    <2> QED BY <1>0, <2>2, <2>3, <2>4, <2>5, AbortedRange
  <1>3. CASE \E kind : Runs(kind) /\ (ioQueue' = Rest \/ \E x : Expected(x) /\ ioQueue' = Append(Rest, x))
    <2>1. IsSeq(Rest) /\ Range(Rest) \subseteq Range(ioQueue)
      BY <1>0, <1>3, RunsFacts
    <2>2. PICK x : Expected(x) /\ ioQueue' = Append(Rest, x)
      BY <1>3, <2>1
    <2>3. Range(ioQueue') = Range(Rest) \union {x}
      BY <2>1, <2>2, AppendFacts
    <2> QED BY <2>1, <2>2, <2>3
  <1>4. \A h : Expected(PostedSend(h))
    BY DEF Expected, PostedSend
  <1>5. \A h, ec : Expected(SendDone(h, ec))
    BY DEF Expected, SendDone
  <1>6. CASE Worker
    <2>1. CASE OnConnect \/ OnHandshakeResponse \/ OnTick
      BY <1>3, <1>4, <2>1, Zenon DEF OnConnect, OnHandshakeResponse, OnTick, SendPacket
    <2>2. CASE OnPostRequest
      BY <1>3, <1>4, <2>2, Zenon DEF OnPostRequest, SendPacket
    <2>3. CASE OnHandshakeSent
      BY <1>3, <2>3, <1>EmptyRead, Zenon DEF OnHandshakeSent, StartReceive
    <2>4. CASE SendNextPacket
      BY <1>3, <1>5, <2>4 DEF SendNextPacket
    <2>5. CASE OnHandshakeRejected \/ OnAckSent \/ OnReceive \/ OnRequestTimeout \/ OnHeartbeatSent
               \/ OnHeartbeatTimeout \/ OnRequestSent
      BY <1>3, <2>5, Zenon DEF OnHandshakeRejected, OnAckSent, OnReceive, OnRequestTimeout, OnHeartbeatSent,
            OnHeartbeatTimeout, OnRequestSent
    <2>6. CASE ProcessFatal \/ ProcessHeartbeat \/ ProcessMessage
      BY <2>6 DEF ProcessFatal, ProcessHeartbeat, ProcessMessage
    <2>7. CASE ReceivePackets
      BY <1>1, <2>7, <1>EmptyRead DEF ReceivePackets, StartReceive
    <2>8. CASE Disconnect
      BY <1>2, <2>8 DEF Disconnect
    <2> QED BY <1>6, <2>1, <2>2, <2>3, <2>4, <2>5, <2>6, <2>7, <2>8 DEF Worker
  <1>7. CASE ConnectCompletes \/ HeartbeatTimerExpires \/ HeartbeatTimeoutExpires \/ RequestTimerExpires
    <2>1. PICK x : ioQueue' = Append(ioQueue, x) /\ x.kind \notin {"ReceiveDone", "PostRequest"}
      <3>1. CASE ConnectCompletes
        BY <3>1 DEF ConnectCompletes, ConnectDone
      <3>2. CASE HeartbeatTimerExpires \/ HeartbeatTimeoutExpires
        BY <3>2 DEF HeartbeatTimerExpires, HeartbeatTimeoutExpires, Tick, HeartbeatTimedOut
      <3>3. CASE RequestTimerExpires
        BY <3>3 DEF RequestTimerExpires, RequestTimedOut
      <3> QED BY <1>7, <3>1, <3>2, <3>3
    <2> QED BY <1>1, <2>1, Zenon DEF Expected
  <1>8. CASE SendCompletes \/ SendFails
    BY <1>1, <1>5, <1>8, Zenon DEF SendCompletes, SendFails
  <1>9. CASE ReceiveFails
    BY <1>1, <1>9, <1>EmptyRead DEF ReceiveFails
  <1>10. CASE ReceiveCompletes
    <2>1. PICK n \in 1..MaxBatch : \E ps \in [1..n -> PacketsFromServer] :
             ioQueue' = Append(ioQueue, ReceiveDone(Head(recvs), "success", ps))
      BY <1>10 DEF ReceiveCompletes
    <2>2. PICK ps \in [1..n -> PacketsFromServer] :
             ioQueue' = Append(ioQueue, ReceiveDone(Head(recvs), "success", ps))
      BY <2>1
    <2>3. Expected(ReceiveDone(Head(recvs), "success", ps))
      BY DEF Expected, ReceiveDone, Range
    <2> QED BY <1>1, <2>2, <2>3
  <1>11. CASE \E r \in Requests : PostRequest(r)
    <2>1. PICK r \in Requests : PostRequest(r) /\ ioQueue' = Append(ioQueue, PostedRequest(r))
      BY <1>11 DEF PostRequest
    <2>2. Expected(PostedRequest(r))
      <3>1. PostedRequest(r).kind = "PostRequest"
        BY DEF PostedRequest
      <3> QED BY <2>1, <3>1 DEF Expected
    <2> QED BY <1>1, <2>1, <2>2
  <1>12. CASE Start
    BY <1>2, <1>12 DEF Start
  <1> QED BY <1>6, <1>7, <1>8, <1>9, <1>10, <1>11, <1>12 DEF Next, Environment, Application

\* The packets that the handler about to run will process.
ReadyPackets == IF Runs("ReceiveDone") THEN Range(Task.packets) ELSE {}

\* A packet to process was received.
LEMMA WorkFlow ==
  ASSUME IInv, Next
  PROVE  WorkPackets(Range(work')) \subseteq WorkPackets(Range(work)) \union ReadyPackets
  \* What ConnectionError and KickedFromServer leave to do.
  <1>LeaveWork. ASSUME NEW event, NEW after, IsSeq(after), Leave(event, after)
                PROVE  WorkPackets(Range(work')) \subseteq WorkPackets(Range(after))
    <2> USE <1>LeaveWork
    <2>1. Range(work') \subseteq Range(after) \union {DoDisconnect}
      <3>1. IsSeq(<< DoDisconnect >>) /\ Range(<< DoDisconnect >>) = {DoDisconnect}
        BY SingletonFacts
      <3>2. Range(<< DoDisconnect >> \o after) = {DoDisconnect} \union Range(after)
        BY <3>1, ConcatFacts
      <3>3. work' = << DoDisconnect >> \o after \/ work' = after
        BY DEF Leave
      <3> QED BY <3>2, <3>3, Zenon
    <2> QED BY <2>1 DEF WorkPackets, DoDisconnect
  <1>0. Seqs /\ IsSeq(<< >>) /\ WorkPackets(Range(<< >>)) = {}
    BY EmptyFacts DEF IInv, WorkPackets
  <1>1. CASE work' = work
    BY <1>1
  <1>2. CASE work # << >> /\ (work' = Tail(work) \/ \E event : Leave(event, Tail(work)))
    <2>1. IsSeq(Tail(work)) /\ Range(Tail(work)) \subseteq Range(work)
      BY <1>0, <1>2, TailFacts DEF Seqs
    <2>2. WorkPackets(Range(Tail(work))) \subseteq WorkPackets(Range(work))
      BY <2>1 DEF WorkPackets
    <2> QED BY <1>2, <2>1, <2>2, <1>LeaveWork, Zenon
  <1>3. CASE \E event : Leave(event, << >>)
    BY <1>0, <1>3, <1>LeaveWork
  <1>4. CASE work' = << DoReceive >>
    <2>1. Range(work') = {DoReceive}
      BY <1>4, SingletonFacts
    <2> QED BY <2>1 DEF WorkPackets, DoReceive
  <1>5. CASE Runs("ReceiveDone") /\ work' = ProcessAll(Task.packets)
    <2> DEFINE ps == Task.packets
               P == [i \in 1..Len(ps) |-> DoProcess(ps[i])]
    <2>1. Task \in Range(ioQueue) /\ Task.kind = "ReceiveDone"
      BY <1>0, <1>5, RunsFacts
    <2>2. IsSeq(ps)
      BY <2>1 DEF IInv, PacketsInv
    <2>3. Len(ps) \in Nat /\ DOMAIN ps = 1..Len(ps) /\ \A i \in 1..Len(ps) : ps[i] \in Range(ps)
      BY <2>2, SeqShape
    <2>4. IsSeq(P) /\ Range(P) = {P[i] : i \in 1..Len(ps)}
      BY <2>3, FunctionFacts
    <2>5. Range(P) \subseteq {DoProcess(p) : p \in Range(ps)}
      BY <2>3, <2>4, Zenon
    <2>6. work' = P \o << DoReceive >>
      BY <1>5 DEF ProcessAll
    <2>7. Range(ps) = ReadyPackets
      BY <1>5 DEF ReadyPackets
    <2> HIDE DEF P, ps
    <2>8. IsSeq(<< DoReceive >>) /\ Range(<< DoReceive >>) = {DoReceive}
      BY SingletonFacts
    <2>9. Range(work') = Range(P) \union {DoReceive}
      BY <2>4, <2>6, <2>8, ConcatFacts
    <2>10. \A w \in Range(work') : w.do = "ProcessPacket" => w.packet \in ReadyPackets
      <3>1. DoReceive.do # "ProcessPacket" /\ \A p : DoProcess(p).packet = p
        BY DEF DoReceive, DoProcess
      <3> QED BY <2>5, <2>7, <2>9, <3>1, Zenon
    <2> QED BY <2>10, Zenon DEF WorkPackets
  <1>6. CASE Worker
    <2>1. CASE OnReceive
      BY <1>3, <1>5, <2>1 DEF OnReceive, ConnectionError
    <2>2. CASE OnHandshakeResponse \/ OnHeartbeatSent \/ OnHeartbeatTimeout
      BY <1>1, <1>3, <2>2, Zenon DEF OnHandshakeResponse, OnHeartbeatSent, OnHeartbeatTimeout, ConnectionError
    <2>3. CASE OnAckSent
      BY <1>1, <1>4, <2>3, Zenon DEF OnAckSent
    <2>4. CASE ProcessFatal \/ ProcessHeartbeat \/ ProcessMessage \/ ReceivePackets \/ Disconnect
      BY <1>2, <2>4, Zenon DEF ProcessFatal, ProcessHeartbeat, ProcessMessage, ReceivePackets, Disconnect, Does,
            ConnectionError, KickedFromServer
    <2>5. CASE OnConnect \/ OnHandshakeSent \/ OnHandshakeRejected \/ SendNextPacket \/ OnPostRequest
               \/ OnRequestSent \/ OnRequestTimeout \/ OnTick
      BY <1>1, <2>5, Zenon DEF OnConnect, OnHandshakeSent, OnHandshakeRejected, SendNextPacket, OnPostRequest,
            OnRequestSent, OnRequestTimeout, OnTick
    <2> QED BY <1>6, <2>1, <2>2, <2>3, <2>4, <2>5 DEF Worker
  <1>7. CASE Environment \/ Application
    BY <1>1, <1>7, Zenon DEF Environment, Application, ConnectCompletes, SendCompletes, SendFails, ReceiveCompletes,
          ReceiveFails, HeartbeatTimerExpires, HeartbeatTimeoutExpires, RequestTimerExpires, PostRequest, Start
  <1> QED BY <1>6, <1>7 DEF Next

\* The packets received come from the server.
LEMMA ReceivedFlow == ASSUME IInv, Next PROVE Received' \subseteq Received \union PacketsFromServer
  <1>1. TaskPackets(Range(ioQueue')) \subseteq Received \union PacketsFromServer
    <2> SUFFICES ASSUME NEW t \in Range(ioQueue'), t.kind = "ReceiveDone"
                 PROVE  Range(t.packets) \subseteq Received \union PacketsFromServer
      BY DEF TaskPackets
    <2>1. CASE t \in Range(ioQueue)
      BY <2>1 DEF Received, TaskPackets
    <2>2. CASE t \notin Range(ioQueue)
      BY <2>2, NewTasks, Zenon DEF Expected
    <2> QED BY <2>1, <2>2
  <1>2. ReadyPackets \subseteq Received
    <2> SUFFICES ASSUME Runs("ReceiveDone") PROVE Range(Task.packets) \subseteq Received
      BY DEF ReadyPackets
    <2>1. Task \in Range(ioQueue) /\ Task.kind = "ReceiveDone"
      BY RunsFacts DEF IInv
    <2> QED BY <2>1 DEF Received, TaskPackets
  <1> QED BY <1>1, <1>2, WorkFlow DEF Received

-----------------------------------------------------------------------------
(* Ids *)

\* The pair of an id and a request is known.
Known(id, r) == \E b \in Numbered : b.id = id /\ b.req = r

\* Only a send that completes adds to what the server received.
LEMMA ServerGrows == ASSUME Next, NEW a \in serverGot', a \notin serverGot PROVE SendCompletes
  BY Zenon DEF Next, Worker, Environment, Application, OnConnect, OnHandshakeSent,
        OnHandshakeRejected, OnHandshakeResponse, OnAckSent, OnReceive, ProcessFatal, ProcessHeartbeat,
        ProcessMessage, ReceivePackets, Disconnect, SendNextPacket, OnPostRequest, OnRequestSent, OnRequestTimeout,
        OnTick, OnHeartbeatSent, OnHeartbeatTimeout, ConnectCompletes, SendFails, ReceiveCompletes,
        ReceiveFails, HeartbeatTimerExpires, HeartbeatTimeoutExpires, RequestTimerExpires, PostRequest, Start

\* Only the SendHandler of a request adds to those in flight.
LEMMA FlightGrows ==
  ASSUME Next, NEW a \in inFlight', a \notin inFlight
  PROVE  OnRequestSent /\ a = [id |-> Task.handler.id, req |-> Task.handler.req]
  <1>1. CASE OnRequestSent
    BY <1>1, Zenon DEF OnRequestSent, Register
  <1>2. CASE ~OnRequestSent
    <2>1. inFlight' \subseteq inFlight
      BY <1>2, Zenon DEF Next, Worker, Environment, Application, requestVars, OnConnect, OnHandshakeSent,
            OnHandshakeRejected, OnHandshakeResponse, OnAckSent, OnReceive, ProcessFatal, ProcessHeartbeat,
            ProcessMessage, ReceivePackets, Disconnect, SendNextPacket, OnPostRequest, OnRequestTimeout, OnTick,
            OnHeartbeatSent, OnHeartbeatTimeout, ConnectCompletes, SendCompletes, SendFails, ReceiveCompletes,
            ReceiveFails, HeartbeatTimerExpires, HeartbeatTimeoutExpires, RequestTimerExpires, PostRequest, Start,
            Finish
    <2> QED BY <2>1
  <1> QED BY <1>1, <1>2

\* Every pair is known before the step, but for the request just numbered.
LEMMA NumberedFlow ==
  ASSUME IInv, Next, NEW a \in Numbered'
  PROVE  \/ Known(a.id, a.req)
         \/ OnPostRequest /\ a.id = reqId /\ a.req = Task.req /\ reqId' = reqId + 1
  \* Where a known pair may be.
  <1>KnownFacts. /\ \A z \in inFlight \union serverGot : Known(z.id, z.req)
                 /\ \A h \in OnTheWay : Known(h.id, h.req)
                 /\ \A p \in Received : p.type \in {"Response", "ErrorResponse"} => Known(p.id, p.req)
    <2>1. ASSUME NEW h \in OnTheWay PROVE Known(h.id, h.req)
      <3>1. [id |-> h.id, req |-> h.req] \in Numbered
        BY Zenon DEF Numbered
      <3> QED BY <3>1 DEF Known
    <2>2. ASSUME NEW p \in Received, p.type \in {"Response", "ErrorResponse"} PROVE Known(p.id, p.req)
      <3>1. [id |-> p.id, req |-> p.req] \in Numbered
        BY <2>2, Zenon DEF Numbered
      <3> QED BY <3>1 DEF Known
    <2>3. \A z \in inFlight \union serverGot : Known(z.id, z.req)
      BY Zenon DEF Known, Numbered
    <2> QED BY <2>1, <2>2, <2>3, Zenon
  \* A response names a request that the server received.
  <1>ServerAnswers. ASSUME NEW p \in PacketsFromServer, p.type \in {"Response", "ErrorResponse"}
                    PROVE  Known(p.id, p.req)
    <2> USE <1>ServerAnswers
    <2>1. PICK g \in serverGot : p.id = g.id /\ p.req = g.req
      <3>1. CASE \E d : p = [type |-> "Handshake", dict |-> d]
        BY <3>1
      <3>2. CASE p \in [type : Sent \ {"Handshake", "Response", "ErrorResponse"}]
        <4>1. p.type \in Sent \ {"Handshake", "Response", "ErrorResponse"}
          BY <3>2
        <4> QED BY <4>1
      <3>3. CASE \E ty \in Sent, g \in serverGot : p = [type |-> ty, id |-> g.id, req |-> g.req]
        BY <3>3
      <3> QED BY <3>1, <3>2, <3>3, ServerPacket, Zenon
    <2> QED BY <2>1, <1>KnownFacts, Zenon
  \* A step registers a request under the id it was sent with.
  <1>InFlightFlow. ASSUME IInv, Next, NEW p \in inFlight' PROVE Known(p.id, p.req)
    <2> USE <1>InFlightFlow
    <2>1. CASE p \in inFlight
      BY <2>1, <1>KnownFacts
    <2>2. CASE p \notin inFlight
      <3>1. OnRequestSent /\ p = [id |-> Task.handler.id, req |-> Task.handler.req]
        BY <2>2, FlightGrows
      <3>2. Task.handler \in OnTheWay
        BY <3>1, SentFlow
      <3> QED BY <3>1, <3>2, <1>KnownFacts, Zenon
    <2> QED BY <2>1, <2>2
  \* The server receives requests that were on their way.
  <1>ServerGotFlow. ASSUME IInv, Next, NEW p \in serverGot' PROVE Known(p.id, p.req)
    <2> USE <1>ServerGotFlow
    <2>1. CASE p \in serverGot
      BY <2>1, <1>KnownFacts
    <2>2. CASE p \notin serverGot
      <3>1. /\ sends # << >> /\ Head(sends).kind = "Request"
            /\ p = [id |-> Head(sends).id, req |-> Head(sends).req]
        BY <2>2, ServerGrows, Zenon DEF SendCompletes
      <3>2. Head(sends) \in Range(sends)
        BY <3>1, TailFacts, Zenon DEF IInv, Seqs
      <3>3. Head(sends) \in OnTheWay
        BY <3>1, <3>2 DEF OnTheWay
      <3> QED BY <3>1, <3>3, <1>KnownFacts, Zenon
    <2> QED BY <2>1, <2>2
  <1>1. CASE a \in inFlight' \union serverGot'
    BY <1>1, <1>InFlightFlow, <1>ServerGotFlow
  <1>2. CASE \E h \in OnTheWay' : a = [id |-> h.id, req |-> h.req]
    <2>1. PICK h \in OnTheWay' : a.id = h.id /\ a.req = h.req
      BY <1>2
    <2>2. CASE h \in OnTheWay
      BY <2>1, <2>2, <1>KnownFacts, Zenon
    <2>3. CASE h \notin OnTheWay
      <3>1. OnPostRequest
        BY <2>3, Flow, SentFlow
      <3>2. h = RequestHandler(Task.req, reqId) /\ reqId' = reqId + 1
        BY <2>3, <3>1, PostFlow
      <3>3. h.id = reqId /\ h.req = Task.req
        BY <3>2 DEF RequestHandler
      <3> QED BY <2>1, <3>1, <3>2, <3>3, Zenon
    <2> QED BY <2>2, <2>3, Zenon
  <1>3. CASE \E p \in Received' : p.type \in {"Response", "ErrorResponse"} /\ a = [id |-> p.id, req |-> p.req]
    <2>1. PICK p \in Received' : p.type \in {"Response", "ErrorResponse"} /\ a.id = p.id /\ a.req = p.req
      BY <1>3
    <2>2. p \in Received \union PacketsFromServer
      BY ReceivedFlow
    <2> QED BY <2>1, <2>2, <1>KnownFacts, <1>ServerAnswers, Zenon
  <1> QED BY <1>1, <1>2, <1>3, Zenon DEF Numbered

\* Ids in use are smaller than the next one.
SmallIds == reqId \in Nat /\ \A a \in Numbered : a.id \in Nat /\ a.id < reqId

\* Before the first Start no id is in use.
LEMMA InitIds == Init => SmallIds /\ IdsIdentify
  <1> SUFFICES ASSUME Init PROVE Numbered = {} /\ reqId \in Nat
    BY DEF SmallIds, IdsIdentify
  <1>1. Range(ioQueue) = {} /\ Range(sends) = {} /\ Range(work) = {} /\ inFlight = {} /\ serverGot = {} /\ reqId = 1
    BY EmptyFacts DEF Init
  <1>2. OnTheWay = {} /\ Received = {}
    BY <1>1, Zenon DEF OnTheWay, Received, TaskRequests, TaskPackets, WorkPackets
  <1> QED BY <1>1, <1>2, Zenon DEF Numbered

\* Every step keeps the ids apart.
LEMMA NextIds == IInv /\ SmallIds /\ IdsIdentify /\ [Next]_vars => SmallIds' /\ IdsIdentify'
  <1> SUFFICES ASSUME IInv, SmallIds, IdsIdentify, [Next]_vars PROVE SmallIds' /\ IdsIdentify'
    OBVIOUS
  <1>1. CASE Next
    <2>1. reqId' \in {reqId, reqId + 1}
      BY <1>1, Zenon DEF Next, Worker, Environment, Application, requestVars, OnConnect, OnHandshakeSent,
            OnHandshakeRejected, OnHandshakeResponse, OnAckSent, OnReceive, ProcessFatal, ProcessHeartbeat,
            ProcessMessage, ReceivePackets, Disconnect, SendNextPacket, OnPostRequest, OnRequestSent, OnRequestTimeout,
            OnTick, OnHeartbeatSent, OnHeartbeatTimeout, ConnectCompletes, SendCompletes, SendFails, ReceiveCompletes,
            ReceiveFails, HeartbeatTimerExpires, HeartbeatTimeoutExpires, RequestTimerExpires, PostRequest, Start,
            NextReqId
    <2>2. \A a \in Numbered' : \/ Known(a.id, a.req)
                               \/ a.id = reqId /\ a.req = Task.req /\ reqId' = reqId + 1
      BY <1>1, NumberedFlow
    <2>3. \A id, r : Known(id, r) => id \in Nat /\ id < reqId
      BY DEF Known, SmallIds
    <2>4. \A id, r, s : Known(id, r) /\ Known(id, s) => r = s
      BY DEF Known, IdsIdentify
    <2>5. reqId \in Nat
      BY DEF SmallIds
    <2>6. SmallIds'
      BY <2>1, <2>2, <2>3, <2>5 DEF SmallIds
    <2>7. IdsIdentify'
      BY <2>2, <2>3, <2>4, <2>5 DEF IdsIdentify
    <2> QED BY <2>6, <2>7
  <1>2. CASE UNCHANGED vars
    BY <1>2, Zenon DEF vars, requestVars, socketVars, SmallIds, IdsIdentify, Numbered, OnTheWay, Received
  <1> QED BY <1>1, <1>2

\* _reqId++ in Connection::PostRequest gives each request an id of its own, for
\* the life of the Connection: whatever is queued, written, in flight or
\* answered, and however often Start is called, an id stands for one request.
THEOREM ConnectionIds == Spec => []IdsIdentify
  BY InitIInv, NextIInv, InitIds, NextIds, PTL DEF Spec

-----------------------------------------------------------------------------
(* No request is lost *)

\* Request r is on its way, in flight or answered, or SendPacket ignored it.
Placed(r) ==
    \/ PostedRequest(r) \in Range(ioQueue)
    \/ \E h \in OnTheWay : h.req = r
    \/ \E q \in inFlight : q.req = r
    \/ answers[r] # << >>
    \/ r \in lost

\* The requests are the application's, and answers are recorded for each.
OwnRequests ==
    /\ DOMAIN answers = Requests
    /\ \A r \in Requests : IsSeq(answers[r])
    /\ \A t \in Range(ioQueue) : t.kind = "PostRequest" => t.req \in Requests /\ t = PostedRequest(t.req)
    /\ \A h \in OnTheWay : h.req \in Requests
    /\ \A q \in inFlight : q.req \in Requests

NoRequestLost == posted \subseteq Requests /\ \A r \in posted : Placed(r)

\* Answer calls the handler of one request.
LEMMA AnswerFacts ==
  ASSUME OwnRequests, NEW r \in Requests, NEW status, Answer(r, status)
  PROVE  /\ DOMAIN answers' = Requests
         /\ \A s \in Requests : IsSeq(answers'[s])
         /\ answers'[r] # << >>
         /\ \A s \in Requests \ {r} : answers'[s] = answers[s]
         /\ \A s \in Requests : answers[s] # << >> => answers'[s] # << >>
  <1>1. /\ answers' = [answers EXCEPT ![r] = Append(answers[r], status)]
        /\ DOMAIN answers = Requests /\ \A s \in Requests : IsSeq(answers[s])
    BY Zenon DEF Answer, OwnRequests
  <1>2. IsSeq(Append(answers[r], status)) /\ Append(answers[r], status) # << >>
    <2>1. IsSeq(Append(answers[r], status)) /\ status \in Range(Append(answers[r], status))
      BY <1>1, AppendFacts
    <2> QED BY <2>1, EmptyFacts
  <1>3. answers'[r] = Append(answers[r], status) /\ \A s \in Requests \ {r} : answers'[s] = answers[s]
    BY <1>1
  <1> QED BY <1>1, <1>2, <1>3

\* Finish answers the one request that has this id.
LEMMA FinishFacts ==
  ASSUME OwnRequests, IdsIdentify, NEW id, NEW status, Finish(id, status)
  PROVE  /\ inFlight' \subseteq inFlight
         /\ DOMAIN answers' = Requests
         /\ \A s \in Requests : IsSeq(answers'[s])
         /\ \A s \in Requests : answers[s] # << >> => answers'[s] # << >>
         /\ \A q \in inFlight : q \in inFlight' \/ answers'[q.req] # << >>
  <1>1. CASE Entries(id) = {}
    BY <1>1, Zenon DEF Finish, OwnRequests
  <1>2. CASE Entries(id) # {}
    <2>1. PICK q \in Entries(id) : Answer(q.req, status)
      BY <1>2 DEF Finish
    <2>2. q \in inFlight /\ q.id = id /\ q.req \in Requests /\ inFlight' = inFlight \ Entries(id)
      BY <1>2, Zenon DEF Finish, Entries, OwnRequests
    <2>3. \A b \in Entries(id) : b.req = q.req
      BY <2>2, Zenon DEF Entries, IdsIdentify, Numbered
    <2>4. /\ DOMAIN answers' = Requests
          /\ \A s \in Requests : IsSeq(answers'[s])
          /\ \A s \in Requests : answers[s] # << >> => answers'[s] # << >>
          /\ answers'[q.req] # << >>
      BY <2>1, <2>2, AnswerFacts, Zenon
    <2> QED BY <2>2, <2>3, <2>4, Zenon
  <1> QED BY <1>1, <1>2, Zenon

\* Every step keeps the requests the application's.
LEMMA NextOwn ==
  ASSUME IInv, Next, IdsIdentify, OwnRequests PROVE OwnRequests'
  <1>1. \A t \in Range(ioQueue') : t.kind = "PostRequest" => t.req \in Requests /\ t = PostedRequest(t.req)
    <2> SUFFICES ASSUME NEW t \in Range(ioQueue'), t.kind = "PostRequest"
                 PROVE  t.req \in Requests /\ t = PostedRequest(t.req)
      OBVIOUS
    <2>1. CASE t \in Range(ioQueue)
      BY <2>1, Zenon DEF OwnRequests
    <2>2. CASE t \notin Range(ioQueue)
      <3>1. PICK r \in Requests : t = PostedRequest(r)
        BY <2>2, NewTasks, Zenon DEF Expected
      <3>2. t.req = r
        BY <3>1 DEF PostedRequest
      <3> QED BY <3>1, <3>2
    <2> QED BY <2>1, <2>2
  <1>2. OnPostRequest => Task.req \in Requests
    <2> SUFFICES ASSUME OnPostRequest PROVE Task.req \in Requests
      OBVIOUS
    <2>1. Runs("PostRequest")
      BY Zenon DEF OnPostRequest
    <2>2. Task \in Range(ioQueue) /\ Task.kind = "PostRequest"
      BY <2>1, RunsFacts DEF IInv
    <2> QED BY <2>2 DEF OwnRequests
  <1>3. OnRequestSent => Task.handler.req \in Requests
    BY SentFlow DEF OwnRequests
  <1>4. \A h \in OnTheWay' : h.req \in Requests
    <2> SUFFICES ASSUME NEW h \in OnTheWay', h \notin OnTheWay PROVE h.req \in Requests
      BY DEF OwnRequests
    <2>1. OnPostRequest
      BY Flow, SentFlow
    <2>2. h = RequestHandler(Task.req, reqId)
      BY <2>1, PostFlow
    <2> QED BY <1>2, <2>1, <2>2 DEF RequestHandler
  <1>5. CASE OnPostRequest
    <2>1. inFlight' = inFlight /\ (answers' = answers \/ Answer(Task.req, "NotConnectedError"))
      BY <1>5, Zenon DEF OnPostRequest
    <2>2. DOMAIN answers' = Requests /\ \A r \in Requests : IsSeq(answers'[r])
      BY <1>2, <1>5, <2>1, AnswerFacts, Zenon DEF OwnRequests
    <2> QED BY <1>1, <1>4, <2>1, <2>2, Zenon DEF OwnRequests
  <1>6. CASE OnRequestSent
    <2>1. /\ answers' = answers \/ Answer(Task.handler.req, "InternalError")
          /\ inFlight' \subseteq inFlight \union {[id |-> Task.handler.id, req |-> Task.handler.req]}
      BY <1>6, Zenon DEF OnRequestSent, Register
    <2>2. DOMAIN answers' = Requests /\ \A r \in Requests : IsSeq(answers'[r])
      BY <1>3, <1>6, <2>1, AnswerFacts, Zenon DEF OwnRequests
    <2>3. \A q \in inFlight' : q.req \in Requests
      <3>1. Task.handler.req \in Requests
        BY <1>3, <1>6
      <3>2. \A q \in inFlight \union {[id |-> Task.handler.id, req |-> Task.handler.req]} : q.req \in Requests
        <4> DEFINE b == [id |-> Task.handler.id, req |-> Task.handler.req]
        <4>1. b.req \in Requests
          BY <3>1
        <4> HIDE DEF b
        <4>2. \A q \in inFlight \union {b} : q.req \in Requests
          BY <4>1, Zenon DEF OwnRequests
        <4> QED BY <4>2 DEF b
      <3> QED BY <2>1, <3>2
    <2> QED BY <1>1, <1>4, <2>2, <2>3, Zenon DEF OwnRequests
  <1>7. CASE UNCHANGED << inFlight, answers >>
    BY <1>1, <1>4, <1>7, Zenon DEF OwnRequests
  <1>8. CASE \E id, status : Finish(id, status)
    <2>1. /\ inFlight' \subseteq inFlight
          /\ DOMAIN answers' = Requests
          /\ \A s \in Requests : IsSeq(answers'[s])
      BY <1>8, FinishFacts
    <2> QED BY <1>1, <1>4, <2>1, Zenon DEF OwnRequests
  <1>9. CASE ~OnPostRequest /\ ~OnRequestSent
    BY <1>7, <1>8, <1>9, ZenonT(30) DEF Next, Worker, Environment, Application, requestVars, historyVars, OnConnect,
          OnHandshakeSent, OnHandshakeRejected, OnHandshakeResponse, OnAckSent, OnReceive, ProcessFatal,
          ProcessHeartbeat, ProcessMessage, ReceivePackets, Disconnect, SendNextPacket, OnRequestTimeout, OnTick,
          OnHeartbeatSent, OnHeartbeatTimeout, ConnectCompletes, SendCompletes, SendFails, ReceiveCompletes,
          ReceiveFails, HeartbeatTimerExpires, HeartbeatTimeoutExpires, RequestTimerExpires, PostRequest, Start
  <1> QED BY <1>5, <1>6, <1>9

RInv == IInv /\ SmallIds /\ IdsIdentify /\ OwnRequests /\ NoRequestLost

\* All of it holds before the first Start.
LEMMA InitRInv == Init => RInv
  <1> SUFFICES ASSUME Init PROVE OwnRequests /\ NoRequestLost
    BY InitIInv, InitIds DEF RInv
  <1>1. Range(ioQueue) = {} /\ Range(sends) = {} /\ inFlight = {} /\ posted = {}
    BY EmptyFacts DEF Init
  <1>2. OnTheWay = {}
    BY <1>1, Zenon DEF OnTheWay, TaskRequests
  <1>3. DOMAIN answers = Requests /\ \A r \in Requests : IsSeq(answers[r])
    BY EmptyFacts DEF Init
  <1> QED BY <1>1, <1>2, <1>3, Zenon DEF OwnRequests, NoRequestLost

\* And every step preserves it.
LEMMA NextRInv == RInv /\ [Next]_vars => RInv'
  \* A step that keeps every place.
  <1>PlacesKept. ASSUME NoRequestLost, posted' = posted, OnTheWay \subseteq OnTheWay', lost \subseteq lost',
                        \A t \in Range(ioQueue) : t.kind = "PostRequest" => t \in Range(ioQueue'),
                        \A q \in inFlight : q \in inFlight' \/ answers'[q.req] # << >>,
                        \A s \in Requests : answers[s] # << >> => answers'[s] # << >>
                 PROVE  NoRequestLost'
    <2> USE <1>PlacesKept
    <2> SUFFICES ASSUME NEW r \in posted PROVE Placed(r)'
      BY Zenon DEF NoRequestLost
    <2>1. Placed(r) /\ r \in Requests
      BY DEF NoRequestLost
    <2>2. PostedRequest(r).kind = "PostRequest"
      BY Zenon DEF PostedRequest
    <2> QED BY <2>1, <2>2, Zenon DEF Placed, PostedRequest
  \* Every step keeps the requests placed.
  <1>NextPlaced. ASSUME IInv, Next, IdsIdentify, OwnRequests, NoRequestLost PROVE NoRequestLost'
    <2> USE <1>NextPlaced
    <2>0. Seqs
      BY DEF IInv
    <2>1. CASE OnPostRequest
      <3>0. PICK r : r = Task.req
        OBVIOUS
      <3>1. Runs("PostRequest") /\ posted' = posted /\ inFlight' = inFlight
        BY <2>1, Zenon DEF OnPostRequest, appVars
      <3>2. /\ IsSeq(Rest) /\ Range(ioQueue) = {Task} \union Range(Rest)
            /\ Task = PostedRequest(r) /\ r \in Requests
        BY <2>0, <3>0, <3>1, RunsFacts, Zenon DEF OwnRequests
      <3>3. OnTheWay \subseteq OnTheWay'
        BY <2>1, PostFlow
      <3>4. ASSUME NEW s \in posted, s # r PROVE Placed(s)'
        <4>1. Placed(s) /\ s \in Requests
          BY <3>4 DEF NoRequestLost
        <4>2. PostedRequest(s) # Task
          BY <3>2, <3>4 DEF PostedRequest
        <4>3. Range(Rest) \subseteq Range(ioQueue')
          <5>1. \/ ioQueue' = Rest \/ ioQueue' = ioQueue
                \/ \E h : ioQueue' = SendPacket(Rest, h)
            BY <2>1, Zenon DEF OnPostRequest
          <5>2. ASSUME NEW h, ioQueue' = SendPacket(Rest, h) PROVE Range(Rest) \subseteq Range(ioQueue')
            BY <3>2, <5>2, SendPacketRange
          <5> QED BY <3>2, <5>1, <5>2
        <4>4. answers' = answers \/ Answer(r, "NotConnectedError")
          BY <2>1, <3>0, Zenon DEF OnPostRequest
        <4>5. answers[s] # << >> => answers'[s] # << >>
          BY <3>2, <4>1, <4>4, AnswerFacts, Zenon
        <4>6. lost \subseteq lost'
          BY <2>1, Zenon DEF OnPostRequest
        <4> QED BY <3>1, <3>2, <3>3, <4>1, <4>2, <4>3, <4>5, <4>6, Zenon DEF Placed, PostedRequest
      <3>5. Placed(r)'
        <4>1. CASE Answer(r, "NotConnectedError")
          BY <3>2, <4>1, AnswerFacts, Zenon DEF Placed
        <4>2. CASE ioQueue' = ioQueue
          BY <3>2, <4>2, Zenon DEF Placed, PostedRequest
        <4>3. CASE r \in lost'
          BY <4>3 DEF Placed
        <4>4. CASE ioQueue' = SendPacket(Rest, RequestHandler(r, reqId)) /\ ~QueueFull(Rest)
          <5> DEFINE h == RequestHandler(r, reqId)
          <5>1. Range(ioQueue') = Range(Rest) \union {PostedSend(h)}
            BY <3>2, <4>4, SendPacketRange
          <5>2. h.kind = "Request" /\ h.req = r
            BY DEF RequestHandler
          <5> HIDE DEF h
          <5>3. h \in TaskRequests({PostedSend(h)})
            BY <5>2, RequestsOfHandler, Zenon
          <5>4. h \in OnTheWay'
            BY <5>1, <5>3, RequestsOfUnion DEF OnTheWay
          <5> QED BY <5>2, <5>4 DEF Placed
        <4> QED BY <2>1, <3>0, <4>1, <4>2, <4>3, <4>4, ZenonT(30) DEF OnPostRequest
      <3> QED BY <3>1, <3>4, <3>5 DEF NoRequestLost
    <2>2. CASE OnRequestSent
      <3> DEFINE h == Task.handler
      <3>1. /\ Runs("SendDone") /\ posted' = posted /\ lost' = lost /\ ioQueue' = Rest
            /\ answers' = answers \/ Answer(h.req, "InternalError")
        BY <2>2, Zenon DEF OnRequestSent, appVars
      <3>2. OnTheWay = OnTheWay' \union {h}
        BY <2>2, SentFlow
      <3>3. h.req \in Requests
        BY <3>2, Zenon DEF OwnRequests
      <3>4. inFlight \subseteq inFlight'
        BY <2>2, Zenon DEF OnRequestSent, Register
      <3>5. \A s \in Requests : answers[s] # << >> => answers'[s] # << >>
        BY <3>1, <3>3, AnswerFacts, Zenon
      <3>6. answers'[h.req] # << >> \/ \E q \in inFlight' : q.req = h.req
        <4>1. CASE Answer(h.req, "InternalError")
          BY <3>3, <4>1, AnswerFacts, Zenon
        <4>2. CASE Register(h) /\ Entries(h.id) = {}
          <5>1. [id |-> h.id, req |-> h.req] \in inFlight'
            BY <4>2 DEF Register
          <5> QED BY <5>1, Zenon
        <4>3. CASE Register(h) /\ Entries(h.id) # {}
          <5>1. PICK q \in inFlight : q.id = h.id
            BY <4>3, Zenon DEF Entries
          <5>2. [id |-> h.id, req |-> h.req] \in Numbered /\ q \in Numbered
            BY <3>2, Zenon DEF Numbered
          <5>3. q.req = h.req
            BY <5>1, <5>2 DEF IdsIdentify
          <5> QED BY <3>4, <5>3, Zenon
        <4> QED BY <2>2, <4>1, <4>2, <4>3, ZenonT(30) DEF OnRequestSent
      <3>7. \A t \in Range(ioQueue) : t.kind = "PostRequest" => t \in Range(ioQueue')
        BY <2>0, <3>1, RunsFacts
      <3> SUFFICES ASSUME NEW r \in posted PROVE Placed(r)'
        BY <3>1 DEF NoRequestLost
      <3>8. Placed(r) /\ r \in Requests /\ PostedRequest(r).kind = "PostRequest"
        BY DEF NoRequestLost, PostedRequest
      <3> QED BY <3>1, <3>2, <3>4, <3>5, <3>6, <3>7, <3>8, Zenon DEF Placed, PostedRequest
    <2>3. CASE \E r \in Requests : PostRequest(r)
      <3>1. PICK r \in Requests : PostRequest(r)
        BY <2>3
      <3>2. /\ posted' = posted \union {r} /\ UNCHANGED << inFlight, answers, lost >>
            /\ ioQueue' = Append(ioQueue, PostedRequest(r))
        BY <3>1 DEF PostRequest, requestVars, historyVars
      <3>3. Range(ioQueue') = Range(ioQueue) \union {PostedRequest(r)}
        BY <2>0, <3>2, AppendFacts DEF Seqs
      <3>4. OnTheWay' = OnTheWay
        <4>1. ~IsRequestTask(PostedRequest(r)) /\ UNCHANGED sends
          BY <3>1, Zenon DEF IsRequestTask, PostedRequest, PostRequest, socketVars
        <4> QED BY <3>3, <4>1, JoinFlow
      <3> QED BY <3>2, <3>3, <3>4, Zenon DEF NoRequestLost, Placed, PostedRequest
    <2>4. CASE ~OnPostRequest /\ ~OnRequestSent /\ ~\E r \in Requests : PostRequest(r)
      <3>1. OnTheWay' = OnTheWay
        BY <2>4, Flow
      <3>2. \A t \in Range(ioQueue) : t.kind = "PostRequest" => t \in Range(ioQueue')
        <4>1. CASE Worker
          <5>1. Kept
            BY <4>1, OtherHandlers, TickAndRead, WorkSteps DEF Worker
          <5>2. ~Runs("PostRequest")
            BY <2>4, <4>1, Zenon DEF Worker, OnConnect, OnHandshakeSent, OnHandshakeRejected, OnHandshakeResponse, OnAckSent,
                  OnReceive, ProcessFatal, ProcessHeartbeat, ProcessMessage, ReceivePackets, Disconnect, SendNextPacket,
                  OnRequestTimeout, OnTick, OnHeartbeatSent, OnHeartbeatTimeout, Runs, Does
          <5> QED BY <5>1, <5>2 DEF Kept
        <4>2. CASE Environment \/ Application
          BY <4>2, OutsideSteps
        <4> QED BY <4>1, <4>2 DEF Next
      <3>3. UNCHANGED << posted, lost >> /\ (UNCHANGED << inFlight, answers >> \/ \E id, status : Finish(id, status))
        BY <2>4, Zenon DEF Next, Worker, Environment, Application, appVars, requestVars, historyVars, OnConnect,
              OnHandshakeSent, OnHandshakeRejected, OnHandshakeResponse, OnAckSent, OnReceive, ProcessFatal,
              ProcessHeartbeat, ProcessMessage, ReceivePackets, Disconnect, SendNextPacket, OnRequestTimeout, OnTick,
              OnHeartbeatSent, OnHeartbeatTimeout, ConnectCompletes, SendCompletes, SendFails, ReceiveCompletes,
              ReceiveFails, HeartbeatTimerExpires, HeartbeatTimeoutExpires, RequestTimerExpires, Start
      <3>4. /\ \A q \in inFlight : q \in inFlight' \/ answers'[q.req] # << >>
            /\ \A s \in Requests : answers[s] # << >> => answers'[s] # << >>
        BY <3>3, FinishFacts, Zenon
      <3> QED BY <3>1, <3>2, <3>3, <3>4, <1>PlacesKept, Zenon
    <2> QED BY <2>1, <2>2, <2>3, <2>4
  <1> SUFFICES ASSUME RInv, [Next]_vars PROVE OwnRequests' /\ NoRequestLost'
    BY NextIInv, NextIds DEF RInv
  <1>1. CASE Next
    BY <1>1, NextOwn, <1>NextPlaced DEF RInv
  <1>2. CASE UNCHANGED vars
    BY <1>2, Zenon DEF vars, requestVars, socketVars, appVars, historyVars, RInv, OwnRequests, NoRequestLost, Placed, OnTheWay
  <1> QED BY <1>1, <1>2

\* A request passed to Connection::PostRequest is never lost: it is queued, on
\* its way, in flight or answered, unless SendPacket ignored its packet.  It
\* holds in a process that ended, too, of which RequestAccounted does not speak.
THEOREM ConnectionKeepsRequests == Spec => []NoRequestLost
  <1>1. RInv => NoRequestLost
    BY DEF RInv
  <1> QED BY <1>1, InitRInv, NextRInv, PTL DEF Spec

-----------------------------------------------------------------------------
(* A response reaches its request *)

\* An id and a request.
Pairs == [id : Nat, req : Requests]

\* The requests that are in flight or were answered, with their ids.
Done == {b \in Pairs : b \in inFlight \/ answers[b.req] # << >>}

\* The handler that registers a request the server has received.
Written(b) == SendDone(RequestHandler(b.req, b.id), "success")

PairsOf(ps) == {[id |-> p.id, req |-> p.req] : p \in {p \in ps : p.type \in {"Response", "ErrorResponse"}}}

\* The requests that the packets of a completed read answer.
Answered(t) == IF t.kind = "ReceiveDone" THEN PairsOf(Range(t.packets)) ELSE {}

\* A response is processed after its request was registered.
InOrder(q, D) == \A j \in 1..Len(q) : \A b \in Answered(q[j]) : b \in D \/ \E i \in 1..(j - 1) : q[i] = Written(b)

ResponseInv ==
    /\ \A g \in serverGot : g \in Done \/ Written(g) \in Range(ioQueue)
    /\ InOrder(ioQueue, Done)
    /\ PairsOf(WorkPackets(Range(work))) \subseteq Done

\* What goes by an id is one of the requests, and a request on its way is known
\* by its id and itself.
PairInv == Numbered \subseteq Pairs /\ \A h \in OnTheWay : h = RequestHandler(h.req, h.id)
\* Every step keeps the ids with their requests.
LEMMA NextPairs == ASSUME RInv, PairInv, Next PROVE PairInv'
  <1>0. IInv /\ OwnRequests /\ SmallIds'
    BY NextIds DEF RInv, IInv
  <1>1. OnPostRequest => Task.req \in Requests
    <2> SUFFICES ASSUME OnPostRequest PROVE Task.req \in Requests
      OBVIOUS
    <2>1. Runs("PostRequest")
      BY Zenon DEF OnPostRequest
    <2> QED BY <1>0, <2>1, RunsFacts, Zenon DEF IInv, OwnRequests
  <1>2. ASSUME NEW h \in OnTheWay' PROVE h = RequestHandler(h.req, h.id)
    <2>1. CASE h \in OnTheWay
      BY <2>1 DEF PairInv
    <2>2. CASE h \notin OnTheWay
      <3>1. OnPostRequest
        BY <1>0, <2>2, Flow, SentFlow
      <3>2. h = RequestHandler(Task.req, reqId)
        BY <1>0, <2>2, <3>1, PostFlow
      <3> QED BY <3>2 DEF RequestHandler
    <2> QED BY <2>1, <2>2
  <1>3. ASSUME NEW a \in Numbered' PROVE a \in Pairs
    <2>1. a.id \in Nat
      BY <1>0 DEF SmallIds
    <2>2. a.req \in Requests
      <3>1. CASE Known(a.id, a.req)
        BY <3>1 DEF Known, PairInv, Pairs
      <3> QED BY <1>0, <1>1, <3>1, NumberedFlow
    <2>3. a = [id |-> a.id, req |-> a.req]
      <3>1. CASE a \in inFlight \union serverGot
        BY <3>1 DEF PairInv, Pairs, Numbered
      <3>2. CASE a \in inFlight' /\ a \notin inFlight
        BY <3>2, FlightGrows
      <3>3. CASE a \in serverGot' /\ a \notin serverGot
        <4>1. SendCompletes
          BY <3>3, ServerGrows
        <4> QED BY <3>3, <4>1 DEF SendCompletes
      <3>4. CASE \E x : a = [id |-> x.id, req |-> x.req]
        BY <3>4
      <3> QED BY <3>1, <3>2, <3>3, <3>4, Zenon DEF Numbered
    <2> QED BY <2>1, <2>2, <2>3 DEF Pairs
  <1> QED BY <1>2, <1>3 DEF PairInv

\* ProcessMessage hands a response to the handler of the request that the server
\* answers, or that request was answered and its id is free: the request is
\* registered when it is written, before the read that brings its response is
\* handled, and its id is never used again, also across connections.
THEOREM ConnectionAnswers == Spec => []ResponseReachesItsRequest
  \* Indices before, and after, an index of a sequence.
  <1>IndexBefore. ASSUME NEW n \in Nat, NEW j \in 1..n, NEW i \in 1..(j - 1) PROVE i \in 1..n
    OBVIOUS
  <1>IndexAfter. ASSUME NEW m \in Nat, NEW n \in Nat, NEW j \in 1..(m + n), j \notin 1..m
                 PROVE  j - m \in 1..n /\ m + (j - m) = j
    BY <1>IndexAfter
  \* The handler at the head of the queue has run.
  <1>OrderTail. ASSUME NEW q, IsSeq(q), q # << >>, NEW D, NEW E, D \subseteq E, InOrder(q, D),
                       \A t \in Range(q) : Answered(t) \subseteq Pairs,
                       \A b \in Pairs : Head(q) = Written(b) => b \in E
                PROVE  InOrder(Tail(q), E)
    <2> USE <1>OrderTail
    <2> DEFINE a == Tail(q)
    <2>1. /\ Len(a) \in Nat /\ Len(q) = 1 + Len(a) /\ q[1] = Head(q)
          /\ \A i \in 1..Len(a) : a[i] = q[1 + i]
      BY TailAt
    <2>2. \A i \in 1..Len(q) : q[i] \in Range(q)
      BY SeqShape
    <2> HIDE DEF a
    <2> SUFFICES ASSUME NEW j \in 1..Len(a), NEW b \in Answered(a[j]), b \notin E
                 PROVE  \E i \in 1..(j - 1) : a[i] = Written(b)
      BY Zenon DEF InOrder, a
    <2>3. 1 + j \in 1..Len(q) /\ a[j] = q[1 + j]
      BY <2>1
    <2>4. b \in Pairs
      BY <2>2, <2>3
    <2>5. PICK i \in 1..((1 + j) - 1) : q[i] = Written(b)
      BY <2>3 DEF InOrder
    <2>6. i # 1
      BY <2>1, <2>4, <2>5
    <2>7. i - 1 \in 1..(j - 1) /\ i - 1 \in 1..Len(a) /\ 1 + (i - 1) = i
      BY <2>1, <2>5, <2>6
    <2>8. a[i - 1] = Written(b)
      BY <2>1, <2>5, <2>7, Zenon
    <2> QED BY <2>7, <2>8
  \* A handler joins the queue.
  <1>OrderAppend. ASSUME NEW q, IsSeq(q), NEW x, NEW D, InOrder(q, D), \A b \in Answered(x) : b \in D \/ Written(b) \in Range(q)
                  PROVE  InOrder(Append(q, x), D)
    <2> USE <1>OrderAppend
    <2> DEFINE a == Append(q, x)
    <2>1. /\ Len(q) \in Nat /\ Len(a) = Len(q) + 1 /\ a[Len(q) + 1] = x
          /\ \A i \in 1..Len(q) : a[i] = q[i]
      BY AppendAt
    <2>2. DOMAIN q = 1..Len(q)
      BY SeqShape
    <2> HIDE DEF a
    <2> SUFFICES ASSUME NEW j \in 1..Len(a), NEW b \in Answered(a[j]), b \notin D
                 PROVE  \E i \in 1..(j - 1) : a[i] = Written(b)
      BY Zenon DEF InOrder, a
    <2>3. CASE j \in 1..Len(q)
      <3>1. PICK i \in 1..(j - 1) : q[i] = Written(b)
        BY <2>1, <2>3, Zenon DEF InOrder
      <3>2. i \in 1..Len(q)
        BY <2>1, <2>3, <1>IndexBefore, Zenon
      <3> QED BY <2>1, <3>1, <3>2, Zenon
    <2>4. CASE j = Len(q) + 1
      <3>1. PICK i \in 1..Len(q) : q[i] = Written(b)
        BY <2>1, <2>2, <2>4, Zenon DEF Range
      <3>2. j - 1 = Len(q)
        <4>1. PICK n \in Nat : n = Len(q)
          BY <2>1, Zenon
        <4> QED BY <2>4, <4>1
      <3>3. a[i] = Written(b)
        BY <2>1, <3>1, Zenon
      <3> QED BY <3>1, <3>2, <3>3, Zenon
    <2>5. j \in 1..Len(q) \/ j = Len(q) + 1
      BY <2>1
    <2> QED BY <2>3, <2>4, <2>5
  \* Handlers that answer nothing join the queue.
  <1>OrderConcat. ASSUME NEW q, IsSeq(q), NEW r, IsSeq(r), NEW D, InOrder(q, D), \A t \in Range(r) : Answered(t) = {}
                  PROVE  InOrder(q \o r, D)
    <2> USE <1>OrderConcat
    <2> DEFINE a == q \o r
    <2>1. /\ Len(q) \in Nat /\ Len(r) \in Nat /\ Len(a) = Len(q) + Len(r)
          /\ \A i \in 1..Len(q) : a[i] = q[i]
          /\ \A i \in 1..Len(r) : a[Len(q) + i] = r[i]
      <3>1. Joined(a, q, r)
        BY ConcatJoined, Zenon
      <3> QED BY <3>1, Zenon DEF Joined
    <2>2. \A i \in 1..Len(r) : r[i] \in Range(r)
      BY SeqShape
    <2> HIDE DEF a
    <2> SUFFICES ASSUME NEW j \in 1..Len(a), NEW b \in Answered(a[j]), b \notin D
                 PROVE  \E i \in 1..(j - 1) : a[i] = Written(b)
      BY Zenon DEF InOrder, a
    <2>3. j \in 1..Len(q)
      <3> SUFFICES ASSUME j \notin 1..Len(q) PROVE FALSE
        OBVIOUS
      <3>1. j - Len(q) \in 1..Len(r) /\ Len(q) + (j - Len(q)) = j
        <4>1. j \in 1..(Len(q) + Len(r))
          BY <2>1, Zenon
        <4> QED BY <2>1, <4>1, <1>IndexAfter, Zenon
      <3>2. a[j] = r[j - Len(q)]
        BY <2>1, <3>1, Zenon
      <3> QED BY <2>2, <3>1, <3>2, Zenon
    <2>4. PICK i \in 1..(j - 1) : q[i] = Written(b)
      BY <2>1, <2>3, Zenon DEF InOrder
    <2>5. i \in 1..Len(q)
      BY <2>1, <2>3, <1>IndexBefore, Zenon
    <2> QED BY <2>1, <2>4, <2>5, Zenon
  \* Tasks other than a read that has completed with packets answer nothing.
  <1>AnswersNothing. /\ \A h, ec : Answered(SendDone(h, ec)) = {}
                     /\ \A h : Answered(PostedSend(h)) = {}
                     /\ \A reader, ec : Answered(ReceiveDone(reader, ec, << >>)) = {}
                     /\ \A t : t.kind # "ReceiveDone" => Answered(t) = {}
    <2>1. ASSUME NEW reader, NEW ec PROVE Answered(ReceiveDone(reader, ec, << >>)) = {}
      <3>1. ReceiveDone(reader, ec, << >>).packets = << >>
        BY Zenon DEF ReceiveDone
      <3>2. PairsOf({}) = {}
        BY Zenon DEF PairsOf
      <3> QED BY <3>1, <3>2, EmptyFacts, Zenon DEF Answered
    <2>2. \A t : t.kind # "ReceiveDone" => Answered(t) = {}
      BY DEF Answered
    <2>3. \A h, ec : SendDone(h, ec).kind # "ReceiveDone" /\ PostedSend(h).kind # "ReceiveDone"
      BY Zenon DEF SendDone, PostedSend
    <2> QED BY <2>1, <2>2, <2>3
  \* What a step does to the queue.
  <1>QueueSteps. ASSUME IInv, Next
                 PROVE  \/ ioQueue' = ioQueue
                        \/ ioQueue' = ioQueue \o Aborted
                        \/ \E x : Answered(x) = {} /\ ioQueue' = Append(ioQueue, x)
                        \/ ReceiveCompletes
                        \/ /\ Worker
                           /\ \E kind : Runs(kind)
                           /\ ioQueue' = Rest \/ \E x : Answered(x) = {} /\ ioQueue' = Append(Rest, x)
    <2> USE <1>QueueSteps
    <2>1. CASE Worker
      <3>1. CASE OnConnect \/ OnHandshakeResponse \/ OnTick
        BY <2>1, <3>1, <1>AnswersNothing, Zenon DEF OnConnect, OnHandshakeResponse, OnTick, SendPacket
      <3>2. CASE OnPostRequest
        BY <2>1, <3>2, <1>AnswersNothing, Zenon DEF OnPostRequest, SendPacket
      <3>3. CASE OnHandshakeSent
        BY <2>1, <3>3, <1>AnswersNothing, Zenon DEF OnHandshakeSent, StartReceive
      <3>4. CASE SendNextPacket
        BY <2>1, <3>4, <1>AnswersNothing, Zenon DEF SendNextPacket
      <3>5. CASE OnHandshakeRejected \/ OnAckSent \/ OnReceive \/ OnRequestTimeout \/ OnHeartbeatSent
                 \/ OnHeartbeatTimeout \/ OnRequestSent
        BY <2>1, <3>5, Zenon DEF OnHandshakeRejected, OnAckSent, OnReceive, OnRequestTimeout, OnHeartbeatSent,
              OnHeartbeatTimeout, OnRequestSent
      <3>6. CASE ProcessFatal \/ ProcessHeartbeat \/ ProcessMessage
        BY <3>6, Zenon DEF ProcessFatal, ProcessHeartbeat, ProcessMessage
      <3>7. CASE ReceivePackets
        BY <3>7, <1>AnswersNothing, Zenon DEF ReceivePackets, StartReceive
      <3>8. CASE Disconnect
        BY <3>8 DEF Disconnect
      <3> QED BY <2>1, <3>1, <3>2, <3>3, <3>4, <3>5, <3>6, <3>7, <3>8, Zenon DEF Worker
    <2>2. CASE ConnectCompletes \/ HeartbeatTimerExpires \/ HeartbeatTimeoutExpires \/ RequestTimerExpires
               \/ \E r \in Requests : PostRequest(r)
      <3>1. PICK x : ioQueue' = Append(ioQueue, x) /\ x.kind # "ReceiveDone"
        <4>1. CASE ConnectCompletes
          BY <4>1 DEF ConnectCompletes, ConnectDone
        <4>2. CASE HeartbeatTimerExpires \/ HeartbeatTimeoutExpires
          BY <4>2 DEF HeartbeatTimerExpires, HeartbeatTimeoutExpires, Tick, HeartbeatTimedOut
        <4>3. CASE RequestTimerExpires
          BY <4>3 DEF RequestTimerExpires, RequestTimedOut
        <4>4. CASE \E r \in Requests : PostRequest(r)
          BY <4>4 DEF PostRequest, PostedRequest
        <4> QED BY <2>2, <4>1, <4>2, <4>3, <4>4
      <3> QED BY <3>1, <1>AnswersNothing
    <2>3. CASE SendCompletes \/ SendFails
      BY <2>3, <1>AnswersNothing, Zenon DEF SendCompletes, SendFails
    <2>4. CASE ReceiveFails
      BY <2>4, <1>AnswersNothing, Zenon DEF ReceiveFails
    <2>5. CASE Start
      BY <2>5 DEF Start
    <2> QED BY <2>1, <2>2, <2>3, <2>4, <2>5, Zenon DEF Next, Environment, Application
  \* What is done stays done.
  <1>DoneKept. ASSUME RInv, Next PROVE Done \subseteq Done'
    <2> USE <1>DoneKept
    <2>0. OwnRequests /\ IdsIdentify
      BY DEF RInv
    <2>1. /\ \A q \in inFlight : q \in inFlight' \/ answers'[q.req] # << >>
          /\ \A s \in Requests : answers[s] # << >> => answers'[s] # << >>
      <3>1. CASE UNCHANGED << inFlight, answers >>
        BY <3>1
      <3>2. CASE \E id, status : Finish(id, status)
        BY <2>0, <3>2, FinishFacts, Zenon
      <3>3. CASE OnPostRequest
        <4>1. Runs("PostRequest") /\ inFlight' = inFlight /\ (answers' = answers \/ Answer(Task.req, "NotConnectedError"))
          BY <3>3, Zenon DEF OnPostRequest
        <4>2. Task.req \in Requests
          BY <2>0, <4>1, RunsFacts, Zenon DEF RInv, IInv, OwnRequests
        <4> QED BY <2>0, <4>1, <4>2, AnswerFacts, Zenon
      <3>4. CASE OnRequestSent
        <4>1. inFlight \subseteq inFlight' /\ (answers' = answers \/ Answer(Task.handler.req, "InternalError"))
          BY <3>4, Zenon DEF OnRequestSent, Register
        <4>2. Task.handler.req \in Requests
          BY <2>0, <3>4, SentFlow, Zenon DEF RInv, OwnRequests
        <4> QED BY <2>0, <4>1, <4>2, AnswerFacts, Zenon
      <3>5. CASE ~OnPostRequest /\ ~OnRequestSent
        BY <3>1, <3>2, <3>5, Zenon DEF Next, Worker, Environment, Application, requestVars, historyVars, OnConnect,
              OnHandshakeSent, OnHandshakeRejected, OnHandshakeResponse, OnAckSent, OnReceive, ProcessFatal,
              ProcessHeartbeat, ProcessMessage, ReceivePackets, Disconnect, SendNextPacket, OnRequestTimeout, OnTick,
              OnHeartbeatSent, OnHeartbeatTimeout, ConnectCompletes, SendCompletes, SendFails, ReceiveCompletes,
              ReceiveFails, HeartbeatTimerExpires, HeartbeatTimeoutExpires, RequestTimerExpires, PostRequest, Start
      <3> QED BY <3>3, <3>4, <3>5, Zenon
    <2> QED BY <2>1 DEF Done, Pairs
  \* The worker runs the handler of a request that was written: it is in flight.
  <1>WrittenRuns. ASSUME RInv, PairInv, Worker, NEW b \in Pairs, NEW kind, Runs(kind), Task = Written(b)
                  PROVE  b \in Done'
    <2> USE <1>WrittenRuns
    <2>0. IInv /\ Seqs /\ IdsIdentify
      BY DEF RInv, IInv
    <2>1. /\ Task.kind = "SendDone" /\ Task.ec = "success" /\ Task.handler = RequestHandler(b.req, b.id)
          /\ Task.handler.kind = "Request" /\ Task.handler.id = b.id /\ Task.handler.req = b.req
      BY Zenon DEF Written, SendDone, RequestHandler
    <2>2. work = << >> /\ kind = "SendDone"
      BY <2>1, Zenon DEF Runs, Task
    <2>3. OnRequestSent
      BY <2>1, <2>2, Zenon DEF Worker, OnConnect, OnHandshakeSent, OnHandshakeRejected, OnHandshakeResponse, OnAckSent,
            OnReceive, ProcessFatal, ProcessHeartbeat, ProcessMessage, ReceivePackets, Disconnect, SendNextPacket,
            OnPostRequest, OnRequestTimeout, OnTick, OnHeartbeatSent, OnHeartbeatTimeout, Runs, Does, Task
    <2>4. Register(Task.handler)
      BY <2>1, <2>3, Zenon DEF OnRequestSent
    <2>5. b = [id |-> b.id, req |-> b.req]
      BY DEF Pairs
    <2>6. b \in inFlight'
      <3>1. CASE Entries(b.id) = {}
        BY <2>1, <2>4, <2>5, <3>1, Zenon DEF Register
      <3>2. CASE Entries(b.id) # {}
        <4>1. PICK q \in inFlight : q.id = b.id
          BY <3>2 DEF Entries
        <4>2. b \in Numbered /\ q \in Numbered
          BY <2>0, <2>1, <2>3, <2>5, SentFlow, Zenon DEF Numbered
        <4>3. q.req = b.req
          BY <2>0, <4>1, <4>2 DEF IdsIdentify
        <4>4. q = [id |-> q.id, req |-> q.req]
          BY <4>2, Zenon DEF PairInv, Pairs
        <4> QED BY <2>1, <2>4, <2>5, <3>2, <4>1, <4>3, <4>4 DEF Register
      <3> QED BY <3>1, <3>2
    <2> QED BY <2>6, Zenon DEF Done
  \* The packets of the server answer requests that it received.
  <1>ServerPairs. ASSUME PairInv, NEW ps, ps \subseteq PacketsFromServer PROVE PairsOf(ps) \subseteq serverGot
    <2> USE <1>ServerPairs
    <2> SUFFICES ASSUME NEW p \in PacketsFromServer, p.type \in {"Response", "ErrorResponse"}
                 PROVE  [id |-> p.id, req |-> p.req] \in serverGot
      BY Zenon DEF PairsOf
    <2>1. PICK g \in serverGot : p.id = g.id /\ p.req = g.req
      <3>1. CASE \E d : p = [type |-> "Handshake", dict |-> d]
        BY <3>1
      <3>2. CASE p \in [type : Sent \ {"Handshake", "Response", "ErrorResponse"}]
        <4>1. p.type \in Sent \ {"Handshake", "Response", "ErrorResponse"}
          BY <3>2
        <4> QED BY <4>1, Zenon
      <3>3. CASE \E ty \in Sent, g \in serverGot : p = [type |-> ty, id |-> g.id, req |-> g.req]
        BY <3>3
      <3> QED BY <3>1, <3>2, <3>3, ServerPacket, Zenon
    <2>2. g = [id |-> g.id, req |-> g.req]
      BY Zenon DEF PairInv, Pairs, Numbered
    <2> QED BY <2>1, <2>2
  \* What is answered goes by its id.
  <1>AnsweredPairs. ASSUME PairInv
                    PROVE  /\ \A t \in Range(ioQueue) : Answered(t) \subseteq Pairs
                           /\ PairsOf(Received) \subseteq Numbered
    <2> USE <1>AnsweredPairs
    <2>1. PairsOf(Received) \subseteq Numbered
      BY Zenon DEF PairsOf, Numbered
    <2>2. ASSUME NEW t \in Range(ioQueue), t.kind = "ReceiveDone" PROVE PairsOf(Range(t.packets)) \subseteq PairsOf(Received)
      <3>1. Range(t.packets) \subseteq Received
        BY <2>2 DEF Received, TaskPackets
      <3> QED BY <3>1, Zenon DEF PairsOf
    <2> QED BY <2>1, <2>2, Zenon DEF Answered, PairInv
  \* The handlers in the queue stay there until they run.
  <1>NextKept. ASSUME IInv, Next
               PROVE  \A t \in Range(ioQueue) : t \in Range(ioQueue') \/ (Worker /\ Runs(t.kind) /\ t = Task)
    <2> USE <1>NextKept
    <2>1. CASE Worker
      <3>1. Kept
        BY <2>1, OtherHandlers, TickAndRead, WorkSteps DEF Worker
      <3> QED BY <2>1, <3>1 DEF Kept
    <2>2. CASE Environment \/ Application
      BY <2>2, OutsideSteps
    <2> QED BY <2>1, <2>2 DEF Next
  \* A request that the server received is about to be registered, or it was.
  <1>NextGot. ASSUME RInv, PairInv, ResponseInv, Next, NEW g \in serverGot'
              PROVE  g \in Done' \/ Written(g) \in Range(ioQueue')
    <2> USE <1>NextGot
    <2>0. IInv /\ Seqs
      BY DEF RInv, IInv
    <2>1. CASE g \in serverGot
      <3>1. g \in Pairs
        BY <2>1, Zenon DEF PairInv, Numbered
      <3>2. CASE g \in Done
        BY <3>2, <1>DoneKept
      <3>3. CASE Written(g) \in Range(ioQueue)
        <4>1. \/ Written(g) \in Range(ioQueue')
              \/ Worker /\ Runs(Written(g).kind) /\ Written(g) = Task
          BY <2>0, <3>3, <1>NextKept
        <4> QED BY <3>1, <4>1, <1>WrittenRuns
      <3> QED BY <2>1, <3>2, <3>3 DEF ResponseInv
    <2>2. CASE g \notin serverGot
      <3>1. SendCompletes
        BY <2>2, ServerGrows
      <3>2. PICK h : h = Head(sends)
        OBVIOUS
      <3>3. /\ sends # << >> /\ h.kind = "Request" /\ g = [id |-> h.id, req |-> h.req]
            /\ ioQueue' = Append(ioQueue, SendDone(h, "success"))
        BY <2>2, <3>1, <3>2, Zenon DEF SendCompletes
      <3>4. h \in OnTheWay
        BY <2>0, <3>2, <3>3, TailFacts, Zenon DEF Seqs, OnTheWay
      <3>5. h = RequestHandler(g.req, g.id)
        BY <3>3, <3>4, Zenon DEF PairInv
      <3>6. Range(ioQueue') = Range(ioQueue) \union {SendDone(h, "success")}
        BY <2>0, <3>3, AppendFacts, Zenon DEF Seqs
      <3> QED BY <3>5, <3>6 DEF Written
    <2> QED BY <2>1, <2>2
  \* Every step keeps responses behind the registration of their requests.
  <1>NextOrder. ASSUME RInv, PairInv, ResponseInv, Next PROVE InOrder(ioQueue', Done')
    <2> USE <1>NextOrder
    <2> DEFINE D == Done
               E == Done'
    <2>0. IInv /\ Seqs /\ InOrder(ioQueue, D) /\ IsSeq(ioQueue)
      BY Zenon DEF RInv, IInv, Seqs, ResponseInv
    <2>1. D \subseteq E
      BY <1>DoneKept
    <2> HIDE DEF D, E
    <2>2. InOrder(ioQueue, E)
      BY <2>0, <2>1 DEF InOrder
    <2> SUFFICES InOrder(ioQueue', E)
      BY DEF E
    <2>3. CASE ioQueue' = ioQueue
      BY <2>2, <2>3
    <2>4. CASE ioQueue' = ioQueue \o Aborted
      <3>1. IsSeq(Aborted) /\ \A t \in Range(Aborted) : Answered(t) = {}
        <4>1. \A ec : Answered(ConnectDone(ec)) = {}
          BY DEF Answered, ConnectDone
        <4> QED BY <2>0, <4>1, AbortedRange, <1>AnswersNothing, Zenon
      <3> QED BY <2>0, <2>2, <2>4, <3>1, <1>OrderConcat
    <2>5. CASE \E x : Answered(x) = {} /\ ioQueue' = Append(ioQueue, x)
      BY <2>0, <2>2, <2>5, <1>OrderAppend
    <2>6. CASE ReceiveCompletes
      <3>1. PICK x, ps : /\ ioQueue' = Append(ioQueue, x) /\ x = ReceiveDone(Head(recvs), "success", ps)
                         /\ Range(ps) \subseteq PacketsFromServer
        <4>1. PICK n \in 1..MaxBatch : \E ps \in [1..n -> PacketsFromServer] :
                 ioQueue' = Append(ioQueue, ReceiveDone(Head(recvs), "success", ps))
          BY <2>6 DEF ReceiveCompletes
        <4>2. PICK ps \in [1..n -> PacketsFromServer] :
                 ioQueue' = Append(ioQueue, ReceiveDone(Head(recvs), "success", ps))
          BY <4>1
        <4>3. Range(ps) \subseteq PacketsFromServer
          BY DEF Range
        <4> QED BY <4>2, <4>3
      <3>2. Answered(x) = PairsOf(Range(ps))
        BY <3>1, Zenon DEF Answered, ReceiveDone
      <3>3. Answered(x) \subseteq serverGot
        BY <3>1, <3>2, <1>ServerPairs
      <3>4. \A b \in Answered(x) : b \in D \/ Written(b) \in Range(ioQueue)
        BY <3>3 DEF ResponseInv, D
      <3> QED BY <2>0, <2>1, <2>2, <3>1, <3>4, <1>OrderAppend
    <2>7. CASE /\ Worker
               /\ \E kind : Runs(kind)
               /\ ioQueue' = Rest \/ \E x : Answered(x) = {} /\ ioQueue' = Append(Rest, x)
      <3>1. PICK kind : Runs(kind)
        BY <2>7
      <3>2. ioQueue # << >> /\ Rest = Tail(ioQueue) /\ Task = Head(ioQueue) /\ IsSeq(Rest)
        BY <2>0, <3>1, RunsFacts, Zenon DEF Runs, Rest, Task
      <3>3. \A b \in Pairs : Head(ioQueue) = Written(b) => b \in E
        BY <2>7, <3>1, <3>2, <1>WrittenRuns DEF E
      <3>4. InOrder(Rest, E)
        BY <2>0, <2>1, <3>2, <3>3, <1>AnsweredPairs, <1>OrderTail
      <3> QED BY <2>7, <3>2, <3>4, <1>OrderAppend, Zenon
    <2> QED BY <2>0, <2>3, <2>4, <2>5, <2>6, <2>7, <1>QueueSteps, Zenon
  \* Every step keeps what is to be processed done.
  <1>NextResponse. ASSUME RInv, PairInv, ResponseInv, Next PROVE ResponseInv'
    <2> USE <1>NextResponse
    <2>0. IInv /\ Seqs
      BY DEF RInv, IInv
    <2>1. PairsOf(ReadyPackets) \subseteq Done
      <3>1. CASE ~Runs("ReceiveDone")
        BY <3>1, Zenon DEF ReadyPackets, PairsOf
      <3>2. CASE Runs("ReceiveDone")
        <4>1. /\ Len(ioQueue) \in Nat /\ ioQueue # << >> /\ Len(ioQueue) # 0 /\ ioQueue[1] = Task
              /\ Task.kind = "ReceiveDone"
          BY <2>0, <3>2, SeqShape, TailAt, RunsFacts, Zenon DEF Seqs, Runs, Task
        <4>2. 1 \in 1..Len(ioQueue) /\ 1..(1 - 1) = {}
          BY <4>1
        <4>3. Answered(Task) \subseteq Done
          BY <4>1, <4>2, Zenon DEF ResponseInv, InOrder
        <4> QED BY <3>2, <4>1, <4>3, Zenon DEF Answered, ReadyPackets
      <3> QED BY <3>1, <3>2
    <2>2. PairsOf(WorkPackets(Range(work'))) \subseteq Done
      <3>1. PairsOf(WorkPackets(Range(work))) \subseteq Done
        BY DEF ResponseInv
      <3>2. WorkPackets(Range(work')) \subseteq WorkPackets(Range(work)) \union ReadyPackets
        BY <2>0, WorkFlow
      <3> QED BY <2>1, <3>1, <3>2, Zenon DEF PairsOf
    <2>3. PairsOf(WorkPackets(Range(work'))) \subseteq Done'
      BY <2>2, <1>DoneKept
    <2> QED BY <2>3, <1>NextGot, <1>NextOrder, Zenon DEF ResponseInv
  <1> DEFINE Inv == RInv /\ PairInv /\ ResponseInv
  <1>1. Init => Inv
    <2> SUFFICES ASSUME Init PROVE PairInv /\ ResponseInv
      BY InitRInv
    <2>1. Range(ioQueue) = {} /\ Range(sends) = {} /\ Range(work) = {} /\ inFlight = {} /\ serverGot = {} /\ Len(ioQueue) = 0
      BY EmptyFacts DEF Init
    <2>2. OnTheWay = {} /\ Received = {} /\ WorkPackets(Range(work)) = {}
      BY <2>1, Zenon DEF OnTheWay, Received, TaskRequests, TaskPackets, WorkPackets
    <2>3. Numbered = {} /\ PairsOf(WorkPackets(Range(work))) = {} /\ InOrder(ioQueue, Done)
      <3>1. Numbered = {} /\ PairsOf(WorkPackets(Range(work))) = {}
        BY <2>1, <2>2, Zenon DEF Numbered, PairsOf
      <3>2. 1..Len(ioQueue) = {}
        BY <2>1
      <3> QED BY <3>1, <3>2 DEF InOrder
    <2> QED BY <2>1, <2>2, <2>3, Zenon DEF PairInv, ResponseInv
  <1>2. Inv /\ [Next]_vars => Inv'
    <2> SUFFICES ASSUME Inv, [Next]_vars PROVE PairInv' /\ ResponseInv'
      BY NextRInv
    <2>1. CASE Next
      BY <2>1, NextPairs, <1>NextResponse
    <2>2. CASE UNCHANGED vars
      <3>1. UNCHANGED << ioQueue, work, sends, inFlight, serverGot, answers >>
        BY <2>2, Zenon DEF vars, requestVars, socketVars, historyVars
      <3> QED BY <3>1, Zenon DEF PairInv, ResponseInv, Numbered, OnTheWay, Received, Done
    <2> QED BY <2>1, <2>2
  <1>3. Inv => ResponseReachesItsRequest
    <2> SUFFICES ASSUME Inv, Does("ProcessPacket"), Packet.type \in {"Response", "ErrorResponse"}
                 PROVE  \/ [id |-> Packet.id, req |-> Packet.req] \in inFlight
                        \/ Entries(Packet.id) = {} /\ answers[Packet.req] # << >>
      BY Zenon DEF ResponseReachesItsRequest
    <2> DEFINE b == [id |-> Packet.id, req |-> Packet.req]
    <2>1. Packet \in WorkPackets(Range(work))
      <3>1. Head(work) \in Range(work) /\ Head(work).do = "ProcessPacket"
        BY TailFacts DEF RInv, IInv, Seqs, Does
      <3> QED BY <3>1 DEF WorkPackets, Packet
    <2>2. b \in Done
      BY <2>1, ZenonT(30) DEF ResponseInv, PairsOf
    <2>3. b \in Numbered
      BY <2>1, Zenon DEF Numbered, Received
    <2>4. b.id = Packet.id /\ b.req = Packet.req
      BY Zenon
    <2> HIDE DEF b
    <2>5. ASSUME NEW q \in inFlight, q.id = b.id PROVE q = b
      <3>1. q \in Numbered
        BY Zenon DEF Numbered
      <3>2. q.req = b.req
        BY <2>3, <2>5, <3>1 DEF RInv, IdsIdentify
      <3>3. q = [id |-> q.id, req |-> q.req] /\ b = [id |-> b.id, req |-> b.req]
        BY <2>3, <3>1, Zenon DEF PairInv, Pairs
      <3> QED BY <2>5, <3>2, <3>3
    <2>6. b \in inFlight \/ (Entries(b.id) = {} /\ answers[b.req] # << >>)
      BY <2>2, <2>5, Zenon DEF Done, Entries
    <2> QED BY <2>4, <2>6, Zenon DEF b
  <1> QED BY <1>1, <1>2, <1>3, PTL DEF Spec
=============================================================================
