--------------------------- MODULE AccountProofs ----------------------------
(***************************************************************************)
(* How many chains of handlers of each class a step leaves; and, counting  *)
(* them, every request that was posted is in one place at a time or was    *)
(* answered once.                                                          *)
(***************************************************************************)
EXTENDS ConnectionProofs, FiniteSetTheorems

\* How long a prover may take over a step.
USE SMTT(30), ZenonT(30)

(* Positions in sequences *)

\* Positions can be counted.
LEMMA IndexType ==
  ASSUME NEW n \in Nat, NEW A, A \subseteq 1..n
  PROVE  IsFiniteSet(A) /\ Cardinality(A) \in Nat /\ (Cardinality(A) = 0 <=> A = {})
  <1>1. IsFiniteSet(1..n)
    BY FS_Interval
  <1>2. IsFiniteSet(A)
    BY <1>1, FS_Subset, Zenon
  <1> QED BY <1>2, FS_CardinalityType, FS_EmptySet, Zenon

\* C are positions in a sequence of m + n elements: A in its first m, B in the rest.
Splits(m, n, A, B, C) ==
    /\ A \subseteq 1..m /\ B \subseteq 1..n /\ C \subseteq 1..m + n
    /\ \A i \in 1..m : i \in C <=> i \in A
    /\ \A i \in 1..n : m + i \in C <=> i \in B

\* Positions are counted in the two parts of a sequence.
LEMMA IndexConcat ==
  ASSUME NEW m \in Nat, NEW n \in Nat, NEW A, NEW B, NEW C, Splits(m, n, A, B, C)
  PROVE  Cardinality(C) = Cardinality(A) + Cardinality(B)
  <1> USE DEF Splits
  <1> DEFINE D == {i \in C : i > m}
             f == [i \in B |-> m + i]
  <1>1. IsFiniteSet(A) /\ IsFiniteSet(B) /\ Cardinality(A) \in Nat /\ Cardinality(B) \in Nat
    BY IndexType, Zenon
  <1>2. f \in Bijection(B, D)
    <2>1. f \in [B -> D]
      OBVIOUS
    <2>2. \A i, j \in B : f[i] = f[j] => i = j
      OBVIOUS
    <2>3. ASSUME NEW j \in D PROVE \E i \in B : f[i] = j
      <3>1. j - m \in 1..n /\ m + (j - m) = j
        OBVIOUS
      <3>2. j - m \in B
        BY <3>1
      <3> QED BY <3>1, <3>2
    <2> QED BY <2>1, <2>2, <2>3, Zenon DEF Bijection, Injection, Surjection, IsInjective
  <1>3. IsFiniteSet(D) /\ Cardinality(D) = Cardinality(B)
    BY <1>1, <1>2, FS_Bijection DEF ExistsBijection
  <1>4. C = A \union D /\ A \intersect D = {}
    <2>1. \A i \in A : i \in 1..m /\ i \in C /\ i \notin D
      OBVIOUS
    <2>2. \A i \in C : i \in A \/ i \in D
      OBVIOUS
    <2> QED BY <2>1, <2>2, Zenon
  <1> HIDE DEF D
  <1>5. Cardinality(A \union D) = Cardinality(A) + Cardinality(D) - Cardinality(A \intersect D)
    BY <1>1, <1>3, FS_Union
  <1> QED BY <1>1, <1>3, <1>4, <1>5, FS_EmptySet

\* C are positions in a sequence of n + 1 elements: A in its first n.
Extends(n, A, C) == A \subseteq 1..n /\ C \subseteq 1..n + 1 /\ \A i \in 1..n : i \in C <=> i \in A

\* One more position at the end.
LEMMA IndexAppend ==
  ASSUME NEW n \in Nat, NEW A, NEW C, Extends(n, A, C)
  PROVE  Cardinality(C) = Cardinality(A) + (IF n + 1 \in C THEN 1 ELSE 0)
  <1> DEFINE B == {i \in {1} : n + i \in C}
  <1>1. Splits(n, 1, A, B, C)
    BY DEF Splits, Extends
  <1>2. Cardinality(B) = IF n + 1 \in C THEN 1 ELSE 0
    <2>1. CASE n + 1 \in C
      <3>1. B = {1}
        BY <2>1
      <3> QED BY <2>1, <3>1, FS_Singleton
    <2>2. CASE n + 1 \notin C
      <3>1. B = {}
        BY <2>2
      <3> QED BY <2>2, <3>1, FS_EmptySet
    <2> QED BY <2>1, <2>2
  <1> HIDE DEF B
  <1>3. Cardinality(C) = Cardinality(A) + Cardinality(B)
    BY <1>1, IndexConcat
  <1> QED BY <1>2, <1>3

\* C are positions in a sequence of 1 + n elements: A in its last n.
Precedes(n, A, C) == A \subseteq 1..n /\ C \subseteq 1..1 + n /\ \A i \in 1..n : 1 + i \in C <=> i \in A

\* One position less at the beginning.
LEMMA IndexTail ==
  ASSUME NEW n \in Nat, NEW A, NEW C, Precedes(n, A, C)
  PROVE  Cardinality(C) = (IF 1 \in C THEN 1 ELSE 0) + Cardinality(A)
  <1> DEFINE B == {i \in {1} : i \in C}
  <1>1. Splits(1, n, B, A, C)
    BY DEF Splits, Precedes
  <1>2. Cardinality(B) = IF 1 \in C THEN 1 ELSE 0
    <2>1. CASE 1 \in C
      <3>1. B = {1}
        BY <2>1
      <3> QED BY <2>1, <3>1, FS_Singleton, Zenon
    <2>2. CASE 1 \notin C
      <3>1. B = {}
        BY <2>2
      <3> QED BY <2>2, <3>1, FS_EmptySet
    <2> QED BY <2>1, <2>2
  <1> HIDE DEF B
  <1>3. Cardinality(C) = Cardinality(B) + Cardinality(A)
    BY <1>1, IndexConcat
  <1> QED BY <1>2, <1>3

-----------------------------------------------------------------------------
(* What the pending operations and the handlers in the queue are for *)

\* An operation belongs to the attempt to connect, to reading packets, to a
\* request, or to none of these.
Attempt == << "attempt", 0 >>
Reading == << "reading", 0 >>
Other == << "other", 0 >>
Requesting(r) == << "request", r >>

HandlerClass(h) ==
    IF h.kind = "Request" THEN Requesting(h.req)
    ELSE IF h.kind = "Heartbeat" THEN Other ELSE Attempt

ReaderClass(reader) == IF reader = "handshake" THEN Attempt ELSE Reading

TaskClass(t) ==
    IF t.kind = "PostRequest" THEN Requesting(t.req)
    ELSE IF t.kind \in {"SendNextPacket", "SendDone"} THEN HandlerClass(t.handler)
    ELSE IF t.kind = "ReceiveDone" THEN ReaderClass(t.reader)
    ELSE IF t.kind = "ConnectDone" THEN Attempt
    ELSE Other

One(b) == IF b THEN 1 ELSE 0

Tasks(q, c) == Cardinality({i \in 1..Len(q) : TaskClass(q[i]) = c})
Handlers(q, c) == Cardinality({i \in 1..Len(q) : HandlerClass(q[i]) = c})
Receives(q, c) == Cardinality({i \in 1..Len(q) : ReaderClass(q[i]) = c})

\* How many operations of class c are pending or have their handler in the queue.
Pending(c) == Tasks(ioQueue, c) + Handlers(sends, c) + Receives(recvs, c) + One(connect /\ c = Attempt)

\* The classes are told apart.
LEMMA ClassFacts ==
  /\ Attempt # Reading /\ Attempt # Other /\ Reading # Other
  /\ \A r : Requesting(r) # Attempt /\ Requesting(r) # Reading /\ Requesting(r) # Other
  /\ \A r, s : Requesting(r) = Requesting(s) => r = s
  BY DEF Attempt, Reading, Other, Requesting

\* Counting handlers in a queue: a number, and zero when none is of the class.
LEMMA TasksType ==
  ASSUME NEW q, IsSeq(q), NEW c
  PROVE  /\ Tasks(q, c) \in Nat
         /\ Tasks(q, c) = 0 <=> \A x \in Range(q) : TaskClass(x) # c
  <1> DEFINE A == {i \in 1..Len(q) : TaskClass(q[i]) = c}
  <1>1. Len(q) \in Nat /\ DOMAIN q = 1..Len(q)
    BY SeqShape
  <1>2. Cardinality(A) \in Nat /\ (Cardinality(A) = 0 <=> A = {})
    BY <1>1, IndexType, Zenon
  <1>3. A = {} <=> \A x \in Range(q) : TaskClass(x) # c
    BY <1>1 DEF Range
  <1> HIDE DEF A
  <1> QED BY <1>2, <1>3 DEF Tasks, A

\* One more at the end.
LEMMA TasksAppend ==
  ASSUME NEW q, IsSeq(q), NEW x, NEW c
  PROVE  Tasks(Append(q, x), c) = Tasks(q, c) + One(TaskClass(x) = c)
  <1> DEFINE a == Append(q, x)
             A == {i \in 1..Len(q) : TaskClass(q[i]) = c}
             C == {i \in 1..Len(a) : TaskClass(a[i]) = c}
  <1>1. /\ Len(q) \in Nat /\ Len(a) = Len(q) + 1 /\ a[Len(q) + 1] = x
        /\ \A i \in 1..Len(q) : a[i] = q[i]
    BY AppendAt
  <1> HIDE DEF a
  <1>2. Extends(Len(q), A, C)
    BY <1>1 DEF Extends
  <1>3. Len(q) + 1 \in C <=> TaskClass(x) = c
    BY <1>1
  <1> HIDE DEF A, C
  <1>4. Cardinality(C) = Cardinality(A) + (IF Len(q) + 1 \in C THEN 1 ELSE 0)
    BY <1>1, <1>2, IndexAppend
  <1> QED BY <1>3, <1>4, Zenon DEF Tasks, One, A, C, a

\* Counting pending sends: a number, and zero when none is of the class.
LEMMA HandlersType ==
  ASSUME NEW q, IsSeq(q), NEW c
  PROVE  /\ Handlers(q, c) \in Nat
         /\ Handlers(q, c) = 0 <=> \A x \in Range(q) : HandlerClass(x) # c
  <1> DEFINE A == {i \in 1..Len(q) : HandlerClass(q[i]) = c}
  <1>1. Len(q) \in Nat /\ DOMAIN q = 1..Len(q)
    BY SeqShape
  <1>2. Cardinality(A) \in Nat /\ (Cardinality(A) = 0 <=> A = {})
    BY <1>1, IndexType, Zenon
  <1>3. A = {} <=> \A x \in Range(q) : HandlerClass(x) # c
    BY <1>1 DEF Range
  <1> HIDE DEF A
  <1> QED BY <1>2, <1>3 DEF Handlers, A

\* Counting pending receives: a number, and zero when none is of the class.
LEMMA ReceivesType ==
  ASSUME NEW q, IsSeq(q), NEW c
  PROVE  /\ Receives(q, c) \in Nat
         /\ Receives(q, c) = 0 <=> \A x \in Range(q) : ReaderClass(x) # c
  <1> DEFINE A == {i \in 1..Len(q) : ReaderClass(q[i]) = c}
  <1>1. Len(q) \in Nat /\ DOMAIN q = 1..Len(q)
    BY SeqShape
  <1>2. Cardinality(A) \in Nat /\ (Cardinality(A) = 0 <=> A = {})
    BY <1>1, IndexType, Zenon
  <1>3. A = {} <=> \A x \in Range(q) : ReaderClass(x) # c
    BY <1>1 DEF Range
  <1> HIDE DEF A
  <1> QED BY <1>2, <1>3 DEF Receives, A

\* Nothing pending, nothing to count.
LEMMA EmptyCounts ==
  ASSUME NEW c
  PROVE  Tasks(<< >>, c) = 0 /\ Handlers(<< >>, c) = 0 /\ Receives(<< >>, c) = 0
  BY EmptyFacts, TasksType, HandlersType, ReceivesType

\* A completion is of the class of its operation.
LEMMA ClassOf ==
  /\ \A reader, ec, ps : TaskClass(ReceiveDone(reader, ec, ps)) = ReaderClass(reader)
  /\ \A h, ec : TaskClass(SendDone(h, ec)) = HandlerClass(h)
  /\ \A h : TaskClass(PostedSend(h)) = HandlerClass(h)
  /\ \A ec : TaskClass(ConnectDone(ec)) = Attempt
  /\ \A r : TaskClass(PostedRequest(r)) = Requesting(r)
  /\ \A e : TaskClass(HeartbeatTimedOut(e)) = Other
  /\ \A id : TaskClass(RequestTimedOut(id)) = Other
  /\ TaskClass(Tick) = Other
  BY DEF TaskClass, ReceiveDone, SendDone, PostedSend, ConnectDone, PostedRequest, HeartbeatTimedOut, RequestTimedOut, Tick

\* And the handlers of packets.
LEMMA HandlerClassOf ==
  /\ HandlerClass(HeartbeatHandler) = Other
  /\ \A r, id : HandlerClass(RequestHandler(r, id)) = Requesting(r)
  BY DEF HandlerClass, HeartbeatHandler, RequestHandler

\* Pending is a number, and zero when nothing of the class is under way.
LEMMA PendingType ==
  ASSUME Seqs, NEW c
  PROVE  /\ Pending(c) \in Nat
         /\ Pending(c) = 0 <=> /\ \A t \in Range(ioQueue) : TaskClass(t) # c
                               /\ \A h \in Range(sends) : HandlerClass(h) # c
                               /\ \A r \in Range(recvs) : ReaderClass(r) # c
                               /\ ~(connect /\ c = Attempt)
  <1>1. /\ Tasks(ioQueue, c) \in Nat
        /\ Tasks(ioQueue, c) = 0 <=> \A t \in Range(ioQueue) : TaskClass(t) # c
    BY TasksType DEF Seqs
  <1>2. /\ Handlers(sends, c) \in Nat
        /\ Handlers(sends, c) = 0 <=> \A h \in Range(sends) : HandlerClass(h) # c
    BY HandlersType DEF Seqs
  <1>3. /\ Receives(recvs, c) \in Nat
        /\ Receives(recvs, c) = 0 <=> \A r \in Range(recvs) : ReaderClass(r) # c
    BY ReceivesType DEF Seqs
  <1>4. One(connect /\ c = Attempt) \in Nat /\ (One(connect /\ c = Attempt) = 0 <=> ~(connect /\ c = Attempt))
    BY DEF One
  <1>5. /\ Pending(c) \in Nat
        /\ Pending(c) = 0 <=> /\ Tasks(ioQueue, c) = 0 /\ Handlers(sends, c) = 0 /\ Receives(recvs, c) = 0
                              /\ One(connect /\ c = Attempt) = 0
    BY <1>1, <1>2, <1>3, <1>4 DEF Pending
  <1> QED BY <1>1, <1>2, <1>3, <1>4, <1>5, Zenon

\* The parts of Pending are numbers.
LEMMA CountTypes ==
  ASSUME Seqs, NEW c
  PROVE  /\ Tasks(ioQueue, c) \in Nat /\ Handlers(sends, c) \in Nat /\ Receives(recvs, c) \in Nat
         /\ \A b : One(b) \in {0, 1}
  BY TasksType, HandlersType, ReceivesType DEF Seqs, One

\* The handler that runs, and the others in the queue.
LEMMA RunTasks ==
  ASSUME Seqs, NEW kind, Runs(kind), NEW c
  PROVE  /\ Tasks(ioQueue, c) = One(TaskClass(Task) = c) + Tasks(Rest, c)
         /\ Tasks(Rest, c) \in Nat
         /\ \A x : Tasks(Append(Rest, x), c) = Tasks(Rest, c) + One(TaskClass(x) = c)
  \* One less at the beginning.
  <1>TasksTail. ASSUME NEW s, IsSeq(s), s # << >>, NEW k
                PROVE  Tasks(s, k) = One(TaskClass(Head(s)) = k) + Tasks(Tail(s), k)
    <2> USE <1>TasksTail
    <2> DEFINE a == Tail(s)
               A == {i \in 1..Len(a) : TaskClass(a[i]) = k}
               C == {i \in 1..Len(s) : TaskClass(s[i]) = k}
    <2>1. /\ Len(a) \in Nat /\ Len(s) = 1 + Len(a) /\ s[1] = Head(s)
          /\ \A i \in 1..Len(a) : a[i] = s[1 + i]
      BY TailAt
    <2> HIDE DEF a
    <2>2. Precedes(Len(a), A, C)
      BY <2>1 DEF Precedes
    <2>3. 1 \in C <=> TaskClass(Head(s)) = k
      BY <2>1
    <2> HIDE DEF A, C
    <2>4. Cardinality(C) = (IF 1 \in C THEN 1 ELSE 0) + Cardinality(A)
      BY <2>1, <2>2, IndexTail
    <2> QED BY <2>3, <2>4, Zenon DEF Tasks, One, A, C, a
  <1>1. IsSeq(ioQueue) /\ ioQueue # << >> /\ IsSeq(Rest)
    BY RunsFacts DEF Seqs, Runs
  <1>2. Tasks(ioQueue, c) = One(TaskClass(Task) = c) + Tasks(Rest, c)
    BY <1>1, <1>TasksTail DEF Task, Rest
  <1> QED BY <1>1, <1>2, TasksType, TasksAppend

\* What is pending beside the queue.
LEMMA PendingRest ==
  ASSUME Seqs, UNCHANGED << sends, recvs, connect >>, NEW c, Tasks(ioQueue', c) \in Nat
  PROVE  \E k \in Nat : Pending(c) = Tasks(ioQueue, c) + k /\ Pending(c)' = Tasks(ioQueue', c) + k
  <1> DEFINE h == Handlers(sends, c)
             r == Receives(recvs, c)
             n == One(connect /\ c = Attempt)
  <1>1. h \in Nat /\ r \in Nat /\ n \in Nat /\ Tasks(ioQueue, c) \in Nat
    BY CountTypes DEF One
  <1>2. Pending(c) = Tasks(ioQueue, c) + h + r + n
    BY DEF Pending
  <1>3. Pending(c)' = Tasks(ioQueue', c) + h + r + n
    BY DEF Pending
  <1>4. PICK t \in Nat : t = Tasks(ioQueue', c)
    OBVIOUS
  <1> HIDE DEF h, r, n
  <1>5. Pending(c) = Tasks(ioQueue, c) + (h + r + n)
    BY <1>1, <1>2
  <1>6. Pending(c)' = Tasks(ioQueue', c) + (h + r + n)
    BY <1>1, <1>3, <1>4
  <1>7. h + r + n \in Nat
    BY <1>1
  <1> QED BY <1>5, <1>6, <1>7

\* A handler runs, and starts nothing.
LEMMA RunPending ==
  ASSUME Seqs, NEW kind, Runs(kind), ioQueue' = Rest, UNCHANGED << sends, recvs, connect >>, NEW c
  PROVE  Pending(c) = Pending(c)' + One(TaskClass(Task) = c)
  <1>1. Tasks(ioQueue, c) = One(TaskClass(Task) = c) + Tasks(Rest, c) /\ Tasks(Rest, c) \in Nat
    BY RunTasks
  <1>2. PICK k \in Nat : Pending(c) = Tasks(ioQueue, c) + k /\ Pending(c)' = Tasks(Rest, c) + k
    BY <1>1, PendingRest
  <1>3. One(TaskClass(Task) = c) \in Nat
    BY DEF One
  <1> QED BY <1>1, <1>2, <1>3

\* A handler joins the queue.
LEMMA JoinPending ==
  ASSUME Seqs, NEW x, ioQueue' = Append(ioQueue, x), UNCHANGED << sends, recvs, connect >>, NEW c
  PROVE  Pending(c)' = Pending(c) + One(TaskClass(x) = c)
  <1>1. Tasks(ioQueue', c) = Tasks(ioQueue, c) + One(TaskClass(x) = c)
    BY TasksAppend DEF Seqs
  <1> QED BY <1>1, CountTypes DEF Pending

\* A read is started, or fails at once.
LEMMA ReceivePending ==
  ASSUME Seqs, NEW q, IsSeq(q), NEW reader, StartReceive(q, reader), UNCHANGED << sends, connect >>, NEW c
  PROVE  /\ Tasks(q, c) \in Nat
         /\ Pending(c)' + Tasks(ioQueue, c) = Pending(c) + Tasks(q, c) + One(ReaderClass(reader) = c)
  \* One more at the end.
  <1>ReceivesAppend. ASSUME NEW s, IsSeq(s), NEW x, NEW k
                     PROVE  Receives(Append(s, x), k) = Receives(s, k) + One(ReaderClass(x) = k)
    <2> USE <1>ReceivesAppend
    <2> DEFINE a == Append(s, x)
               A == {i \in 1..Len(s) : ReaderClass(s[i]) = k}
               C == {i \in 1..Len(a) : ReaderClass(a[i]) = k}
    <2>1. /\ Len(s) \in Nat /\ Len(a) = Len(s) + 1 /\ a[Len(s) + 1] = x
          /\ \A i \in 1..Len(s) : a[i] = s[i]
      BY AppendAt
    <2> HIDE DEF a
    <2>2. Extends(Len(s), A, C)
      BY <2>1 DEF Extends
    <2>3. Len(s) + 1 \in C <=> ReaderClass(x) = k
      BY <2>1
    <2> HIDE DEF A, C
    <2>4. Cardinality(C) = Cardinality(A) + (IF Len(s) + 1 \in C THEN 1 ELSE 0)
      BY <2>1, <2>2, IndexAppend, Zenon
    <2> QED BY <2>3, <2>4, Zenon DEF Receives, One, A, C, a
  <1> DEFINE d == ReceiveDone(reader, "error", << >>)
  <1>1. \/ ioQueue' = Append(q, d) /\ recvs' = recvs
        \/ ioQueue' = q /\ recvs' = Append(recvs, reader)
    BY DEF StartReceive
  <1>2. TaskClass(d) = ReaderClass(reader)
    BY ClassOf
  <1> HIDE DEF d
  <1>3. /\ Tasks(q, c) \in Nat
        /\ Tasks(Append(q, d), c) = Tasks(q, c) + One(ReaderClass(reader) = c)
        /\ Receives(Append(recvs, reader), c) = Receives(recvs, c) + One(ReaderClass(reader) = c)
    BY <1>2, TasksType, TasksAppend, <1>ReceivesAppend DEF Seqs
  <1>4. CASE ioQueue' = Append(q, d) /\ recvs' = recvs
    BY <1>3, <1>4, CountTypes DEF Pending, One
  <1>5. CASE ioQueue' = q /\ recvs' = Append(recvs, reader)
    BY <1>3, <1>5, CountTypes DEF Pending, One
  <1> QED BY <1>1, <1>3, <1>4, <1>5

\* Closing the socket loses no operation.
LEMMA AbortPending ==
  ASSUME Seqs, ioQueue' = ioQueue \o Aborted, sends' = << >>, recvs' = << >>, NEW c
  PROVE  Pending(c)' = Pending(c) + One(connect' /\ c = Attempt)
  \* Counting the handlers of two queues joined.
  <1>TasksConcat. ASSUME NEW q, IsSeq(q), NEW r, IsSeq(r), NEW k
                  PROVE  Tasks(q \o r, k) = Tasks(q, k) + Tasks(r, k)
    <2> USE <1>TasksConcat
    <2> DEFINE a == q \o r
               A == {i \in 1..Len(q) : TaskClass(q[i]) = k}
               B == {i \in 1..Len(r) : TaskClass(r[i]) = k}
               C == {i \in 1..Len(a) : TaskClass(a[i]) = k}
    <2>1. /\ Len(q) \in Nat /\ Len(r) \in Nat /\ Len(a) = Len(q) + Len(r)
          /\ \A i \in 1..Len(q) : a[i] = q[i]
          /\ \A i \in 1..Len(r) : a[Len(q) + i] = r[i]
      <3>1. Joined(a, q, r)
        BY ConcatJoined, Zenon
      <3> QED BY <3>1, Zenon DEF Joined
    <2> HIDE DEF a
    <2>2. Splits(Len(q), Len(r), A, B, C)
      BY <2>1 DEF Splits
    <2> HIDE DEF A, B, C
    <2>3. Cardinality(C) = Cardinality(A) + Cardinality(B)
      BY <2>1, <2>2, IndexConcat
    <2> QED BY <2>3, Zenon DEF Tasks, A, B, C, a
  \* Closing the socket moves every pending operation to the queue.
  <1>AbortedTasks. ASSUME Seqs, NEW k
                   PROVE  Tasks(Aborted, k) = Receives(recvs, k) + One(connect /\ k = Attempt) + Handlers(sends, k)
    <2> USE <1>AbortedTasks
    <2> DEFINE R == [i \in 1..Len(recvs) |-> ReceiveDone(recvs[i], "error", << >>)]
               K == IF connect THEN << ConnectDone("error") >> ELSE << >>
               S == [i \in 1..Len(sends) |-> SendDone(sends[i], "error")]
    <2>1. Len(recvs) \in Nat /\ Len(sends) \in Nat
      BY SeqShape, Zenon DEF Seqs
    <2>2. IsSeq(R) /\ Len(R) = Len(recvs)
      BY <2>1, FunctionFacts
    <2>3. IsSeq(S) /\ Len(S) = Len(sends)
      BY <2>1, FunctionFacts, Zenon
    <2>4. Tasks(R, k) = Receives(recvs, k)
      <3>1. {i \in 1..Len(R) : TaskClass(R[i]) = k} = {i \in 1..Len(recvs) : ReaderClass(recvs[i]) = k}
        BY <2>2, ClassOf, Zenon
      <3> QED BY <3>1, Zenon DEF Tasks, Receives
    <2>5. Tasks(S, k) = Handlers(sends, k)
      <3>1. {i \in 1..Len(S) : TaskClass(S[i]) = k} = {i \in 1..Len(sends) : HandlerClass(sends[i]) = k}
        BY <2>3, ClassOf
      <3> QED BY <3>1, Zenon DEF Tasks, Handlers
    <2>6. IsSeq(K) /\ Tasks(K, k) = One(connect /\ k = Attempt)
      <3>1. CASE connect
        <4> DEFINE d == ConnectDone("error")
                   e == << >>
        <4>1. K = Append(e, d) /\ TaskClass(d) = Attempt /\ IsSeq(e) /\ Tasks(e, k) = 0
          BY <3>1, ClassOf, EmptyFacts, EmptyCounts
        <4> HIDE DEF d, e, K
        <4>2. IsSeq(Append(e, d)) /\ Tasks(Append(e, d), k) = Tasks(e, k) + One(TaskClass(d) = k)
          BY <4>1, TasksAppend, AppendFacts
        <4>3. Tasks(K, k) = One(Attempt = k)
          BY <4>1, <4>2 DEF One
        <4> QED BY <3>1, <4>1, <4>2, <4>3 DEF One
      <3>2. CASE ~connect
        BY <3>2, EmptyFacts, EmptyCounts DEF One
      <3> QED BY <3>1, <3>2
    <2>7. Aborted = (R \o K) \o S
      BY DEF Aborted
    <2> HIDE DEF R, K, S
    <2>8. IsSeq(R \o K) /\ Tasks(R \o K, k) = Tasks(R, k) + Tasks(K, k)
      BY <2>2, <2>6, ConcatFacts, <1>TasksConcat
    <2>9. Tasks(Aborted, k) = Tasks(R \o K, k) + Tasks(S, k)
      BY <2>3, <2>7, <2>8, <1>TasksConcat
    <2> QED BY <2>4, <2>5, <2>6, <2>8, <2>9
  <1>1. Tasks(ioQueue', c) = Tasks(ioQueue, c) + Tasks(Aborted, c)
    BY AbortedRange, <1>TasksConcat, Zenon DEF Seqs
  <1>2. Handlers(sends', c) = 0 /\ Receives(recvs', c) = 0
    BY EmptyCounts
  <1>3. Tasks(Aborted, c) = Receives(recvs, c) + One(connect /\ c = Attempt) + Handlers(sends, c)
    BY <1>AbortedTasks
  <1> QED BY <1>1, <1>2, <1>3, CountTypes DEF Pending, One

\* A step that has nothing to do with an attempt, a read of packets or a request
\* keeps what is pending.
LEMMA PendingKept ==
  ASSUME Seqs, NEW c, c # Other,
         \/ ProcessFatal \/ ProcessHeartbeat \/ ProcessMessage \/ Disconnect \/ SendNextPacket
         \/ OnRequestTimeout \/ OnTick \/ OnHeartbeatSent \/ OnHeartbeatTimeout \/ Environment
  PROVE  Pending(c)' = Pending(c)
  \* One more at the end.
  <1>HandlersAppend. ASSUME NEW q, IsSeq(q), NEW x, NEW k
                     PROVE  Handlers(Append(q, x), k) = Handlers(q, k) + One(HandlerClass(x) = k)
    <2> USE <1>HandlersAppend
    <2> DEFINE a == Append(q, x)
               A == {i \in 1..Len(q) : HandlerClass(q[i]) = k}
               C == {i \in 1..Len(a) : HandlerClass(a[i]) = k}
    <2>1. /\ Len(q) \in Nat /\ Len(a) = Len(q) + 1 /\ a[Len(q) + 1] = x
          /\ \A i \in 1..Len(q) : a[i] = q[i]
      BY AppendAt
    <2> HIDE DEF a
    <2>2. Extends(Len(q), A, C)
      BY <2>1 DEF Extends
    <2>3. Len(q) + 1 \in C <=> HandlerClass(x) = k
      BY <2>1
    <2> HIDE DEF A, C
    <2>4. Cardinality(C) = Cardinality(A) + (IF Len(q) + 1 \in C THEN 1 ELSE 0)
      BY <2>1, <2>2, IndexAppend
    <2> QED BY <2>3, <2>4, Zenon DEF Handlers, One, A, C, a
  \* One less at the beginning.
  <1>HandlersTail. ASSUME NEW q, IsSeq(q), q # << >>, NEW k
                   PROVE  Handlers(q, k) = One(HandlerClass(Head(q)) = k) + Handlers(Tail(q), k)
    <2> USE <1>HandlersTail
    <2> DEFINE a == Tail(q)
               A == {i \in 1..Len(a) : HandlerClass(a[i]) = k}
               C == {i \in 1..Len(q) : HandlerClass(q[i]) = k}
    <2>1. /\ Len(a) \in Nat /\ Len(q) = 1 + Len(a) /\ q[1] = Head(q)
          /\ \A i \in 1..Len(a) : a[i] = q[1 + i]
      BY TailAt
    <2> HIDE DEF a
    <2>2. Precedes(Len(a), A, C)
      BY <2>1 DEF Precedes
    <2>3. 1 \in C <=> HandlerClass(Head(q)) = k
      BY <2>1
    <2> HIDE DEF A, C
    <2>4. Cardinality(C) = (IF 1 \in C THEN 1 ELSE 0) + Cardinality(A)
      BY <2>1, <2>2, IndexTail
    <2> QED BY <2>3, <2>4, Zenon DEF Handlers, One, A, C, a
  \* One less at the beginning.
  <1>ReceivesTail. ASSUME NEW q, IsSeq(q), q # << >>, NEW k
                   PROVE  Receives(q, k) = One(ReaderClass(Head(q)) = k) + Receives(Tail(q), k)
    <2> USE <1>ReceivesTail
    <2> DEFINE a == Tail(q)
               A == {i \in 1..Len(a) : ReaderClass(a[i]) = k}
               C == {i \in 1..Len(q) : ReaderClass(q[i]) = k}
    <2>1. /\ Len(a) \in Nat /\ Len(q) = 1 + Len(a) /\ q[1] = Head(q)
          /\ \A i \in 1..Len(a) : a[i] = q[1 + i]
      BY TailAt
    <2> HIDE DEF a
    <2>2. Precedes(Len(a), A, C)
      BY <2>1 DEF Precedes
    <2>3. 1 \in C <=> ReaderClass(Head(q)) = k
      BY <2>1
    <2> HIDE DEF A, C
    <2>4. Cardinality(C) = (IF 1 \in C THEN 1 ELSE 0) + Cardinality(A)
      BY <2>1, <2>2, IndexTail
    <2> QED BY <2>3, <2>4, Zenon DEF Receives, One, A, C, a
  \* SendNextPacket moves a send from the queue to the socket.
  <1>SendPending. ASSUME Seqs, SendNextPacket, NEW k PROVE Pending(k)' = Pending(k)
    <2> USE <1>SendPending
    <2> DEFINE h == Task.handler
               d == SendDone(h, "error")
    <2>1. Runs("SendNextPacket") /\ UNCHANGED << recvs, connect >>
      BY DEF SendNextPacket
    <2>2. \/ ioQueue' = Append(Rest, d) /\ sends' = sends
          \/ ioQueue' = Rest /\ sends' = Append(sends, h)
      BY DEF SendNextPacket
    <2>3. TaskClass(Task) = HandlerClass(h)
      BY <2>1, RunsFacts DEF TaskClass
    <2>4. TaskClass(d) = HandlerClass(h)
      BY ClassOf
    <2> HIDE DEF d, h
    <2>5. Handlers(Append(sends, h), k) = Handlers(sends, k) + One(HandlerClass(h) = k)
      BY <1>HandlersAppend DEF Seqs
    <2>6. /\ Tasks(ioQueue, k) = One(HandlerClass(h) = k) + Tasks(Rest, k)
          /\ Tasks(Rest, k) \in Nat
          /\ Tasks(Append(Rest, d), k) = Tasks(Rest, k) + One(HandlerClass(h) = k)
      BY <2>1, <2>3, <2>4, RunTasks
    <2>7. CASE ioQueue' = Append(Rest, d) /\ sends' = sends
      BY <2>1, <2>6, <2>7, CountTypes DEF Pending, One
    <2>8. CASE ioQueue' = Rest /\ sends' = Append(sends, h)
      BY <2>1, <2>5, <2>6, <2>8, CountTypes DEF Pending, One
    <2> QED BY <2>2, <2>7, <2>8
  \* A send that completes moves from the socket to the queue.
  <1>SentPending. ASSUME Seqs, sends # << >>, sends' = Tail(sends), NEW ec, ioQueue' = Append(ioQueue, SendDone(Head(sends), ec)),
                         UNCHANGED << recvs, connect >>, NEW k
                  PROVE  Pending(k)' = Pending(k)
    <2> USE <1>SentPending
    <2>1. /\ Handlers(sends, k) = One(HandlerClass(Head(sends)) = k) + Handlers(sends', k)
          /\ Handlers(sends', k) \in Nat
      BY <1>HandlersTail, HandlersType, TailFacts DEF Seqs
    <2> DEFINE d == SendDone(Head(sends), ec)
    <2>2. TaskClass(d) = HandlerClass(Head(sends))
      BY ClassOf
    <2> HIDE DEF d
    <2>3. Tasks(ioQueue', k) = Tasks(ioQueue, k) + One(TaskClass(d) = k)
      BY TasksAppend DEF Seqs, d
    <2>4. /\ Tasks(ioQueue, k) \in Nat /\ Receives(recvs, k) \in Nat
          /\ One(connect /\ k = Attempt) \in Nat /\ One(HandlerClass(Head(sends)) = k) \in Nat
      BY CountTypes DEF One
    <2>5. Pending(k)' = Tasks(ioQueue', k) + Handlers(sends', k) + Receives(recvs, k) + One(connect /\ k = Attempt)
      BY DEF Pending
    <2> QED BY <2>1, <2>2, <2>3, <2>4, <2>5 DEF Pending
  \* A receive that completes moves from the socket to the queue.
  <1>ReceivedPending. ASSUME Seqs, recvs # << >>, recvs' = Tail(recvs), NEW ec, NEW ps,
                             ioQueue' = Append(ioQueue, ReceiveDone(Head(recvs), ec, ps)), UNCHANGED << sends, connect >>, NEW k
                      PROVE  Pending(k)' = Pending(k)
    <2> USE <1>ReceivedPending
    <2>1. /\ Receives(recvs, k) = One(ReaderClass(Head(recvs)) = k) + Receives(recvs', k)
          /\ Receives(recvs', k) \in Nat
      BY <1>ReceivesTail, ReceivesType, TailFacts DEF Seqs
    <2> DEFINE d == ReceiveDone(Head(recvs), ec, ps)
    <2>2. TaskClass(d) = ReaderClass(Head(recvs))
      BY ClassOf
    <2> HIDE DEF d
    <2>3. Tasks(ioQueue', k) = Tasks(ioQueue, k) + One(TaskClass(d) = k)
      BY TasksAppend DEF Seqs, d
    <2>4. /\ Tasks(ioQueue, k) \in Nat /\ Handlers(sends, k) \in Nat
          /\ One(connect /\ k = Attempt) \in Nat /\ One(ReaderClass(Head(recvs)) = k) \in Nat
      BY CountTypes DEF One
    <2>5. Pending(k)' = Tasks(ioQueue', k) + Handlers(sends, k) + Receives(recvs', k) + One(connect /\ k = Attempt)
      BY DEF Pending
    <2> QED BY <2>1, <2>2, <2>3, <2>4, <2>5 DEF Pending
  <1>1. CASE ProcessFatal \/ ProcessHeartbeat \/ ProcessMessage
    <2>1. UNCHANGED << ioQueue, sends, recvs, connect >>
      BY <1>1, Zenon DEF ProcessFatal, ProcessHeartbeat, ProcessMessage, socketVars
    <2> QED BY <2>1 DEF Pending
  <1>2. CASE Disconnect
    <2>1. Pending(c)' = Pending(c) + One(connect' /\ c = Attempt) /\ connect' = FALSE
      BY <1>2, AbortPending DEF Disconnect
    <2> QED BY <2>1, PendingType DEF One
  <1>3. CASE OnRequestTimeout \/ OnHeartbeatSent \/ OnHeartbeatTimeout
    <2>1. PICK kind : Runs(kind) /\ ioQueue' = Rest /\ UNCHANGED << sends, recvs, connect >> /\ TaskClass(Task) = Other
      <3>1. CASE OnRequestTimeout
        <4>1. Runs("RequestTimeout") /\ ioQueue' = Rest /\ UNCHANGED << sends, recvs, connect >>
          BY <3>1 DEF OnRequestTimeout, socketVars
        <4>2. Task.kind = "RequestTimeout"
          BY <4>1, RunsFacts
        <4> QED BY <4>1, <4>2 DEF TaskClass
      <3>2. CASE OnHeartbeatSent
        <4>1. Runs("SendDone") /\ Task.handler.kind = "Heartbeat" /\ ioQueue' = Rest /\ UNCHANGED << sends, recvs, connect >>
          BY <3>2, Zenon DEF OnHeartbeatSent, socketVars
        <4>2. Task.kind = "SendDone"
          BY <4>1, RunsFacts
        <4> QED BY <4>1, <4>2 DEF TaskClass, HandlerClass
      <3>3. CASE OnHeartbeatTimeout
        BY <3>3, RunsFacts DEF OnHeartbeatTimeout, TaskClass, socketVars
      <3> QED BY <1>3, <3>1, <3>2, <3>3
    <2>2. Pending(c) = Pending(c)' + One(TaskClass(Task) = c)
      BY <2>1, RunPending
    <2>3. Pending(c)' \in Nat
      BY <2>1, RunTasks, CountTypes DEF Pending
    <2>4. One(TaskClass(Task) = c) = 0
      BY <2>1 DEF One
    <2> QED BY <2>2, <2>3, <2>4
  <1>4. CASE OnTick
    <2> DEFINE x == PostedSend(HeartbeatHandler)
    <2>1. Runs("HeartbeatTick") /\ ioQueue' \in {Rest, Append(Rest, x)} /\ UNCHANGED << sends, recvs, connect >>
      BY <1>4 DEF OnTick, SendPacket, socketVars
    <2>2. TaskClass(Task) = Other
      BY <2>1, RunsFacts DEF TaskClass
    <2>3. TaskClass(x) = Other
      BY ClassOf, HandlerClassOf
    <2> HIDE DEF x
    <2>4. /\ Tasks(ioQueue, c) = Tasks(Rest, c) /\ Tasks(Rest, c) \in Nat
          /\ Tasks(Append(Rest, x), c) = Tasks(Rest, c)
      BY <2>1, <2>2, <2>3, RunTasks DEF One
    <2> QED BY <2>1, <2>4, Zenon DEF Pending
  <1>5. CASE SendNextPacket
    BY <1>5, <1>SendPending
  <1>6. CASE SendCompletes
    BY <1>6, <1>SentPending DEF SendCompletes
  <1>7. CASE SendFails
    BY <1>7, <1>SentPending DEF SendFails
  <1>8. CASE ReceiveCompletes
    <2>1. PICK ps : ioQueue' = Append(ioQueue, ReceiveDone(Head(recvs), "success", ps))
      BY <1>8 DEF ReceiveCompletes
    <2> QED BY <1>8, <2>1, <1>ReceivedPending, Zenon DEF ReceiveCompletes
  <1>9. CASE ReceiveFails
    BY <1>9, <1>ReceivedPending, Zenon DEF ReceiveFails
  <1>10. CASE ConnectCompletes
    <2>1. PICK ec : ioQueue' = Append(ioQueue, ConnectDone(ec))
      BY <1>10 DEF ConnectCompletes
    <2>2. connect /\ connect' = FALSE /\ UNCHANGED << sends, recvs >>
      BY <1>10 DEF ConnectCompletes
    <2>3. Tasks(ioQueue', c) = Tasks(ioQueue, c) + One(Attempt = c)
      <3> DEFINE d == ConnectDone(ec)
      <3>1. TaskClass(d) = Attempt
        BY ClassOf
      <3> HIDE DEF d
      <3>2. Tasks(Append(ioQueue, d), c) = Tasks(ioQueue, c) + One(TaskClass(d) = c)
        BY TasksAppend DEF Seqs
      <3> QED BY <2>1, <3>1, <3>2 DEF d
    <2> QED BY <2>2, <2>3, CountTypes DEF Pending, One
  <1>11. CASE HeartbeatTimerExpires \/ HeartbeatTimeoutExpires \/ RequestTimerExpires
    <2>1. PICK x : ioQueue' = Append(ioQueue, x) /\ TaskClass(x) = Other
      BY <1>11, ClassOf, Zenon DEF HeartbeatTimerExpires, HeartbeatTimeoutExpires, RequestTimerExpires, socketVars
    <2>2. UNCHANGED << sends, recvs, connect >>
      BY <1>11, Zenon DEF HeartbeatTimerExpires, HeartbeatTimeoutExpires, RequestTimerExpires, socketVars
    <2>3. Pending(c)' = Pending(c) + One(TaskClass(x) = c)
      BY <2>1, <2>2, JoinPending
    <2> QED BY <2>1, <2>3, PendingType DEF One
  <1> QED BY <1>1, <1>2, <1>3, <1>4, <1>5, <1>6, <1>7, <1>8, <1>9, <1>10, <1>11 DEF Environment

\* A handler that runs for a class either ends its operation or passes it on to
\* another handler.
LEMMA PassPending ==
  ASSUME Seqs, NEW kind, Runs(kind), UNCHANGED << sends, recvs, connect >>, NEW c, NEW k, NEW x, NEW over \in BOOLEAN,
         TaskClass(Task) = k, TaskClass(x) = k, ioQueue' = IF over THEN Rest ELSE Append(Rest, x)
  PROVE  Pending(c) = Pending(c)' + One(c = k /\ over) /\ Pending(c)' \in Nat
  <1>1. /\ Tasks(ioQueue, c) = One(k = c) + Tasks(Rest, c) /\ Tasks(Rest, c) \in Nat
        /\ Tasks(Append(Rest, x), c) = Tasks(Rest, c) + One(k = c)
    BY RunTasks
  <1>2. One(k = c) \in Nat
    BY DEF One
  <1>3. CASE over
    <2>1. One(c = k /\ over) = One(k = c) /\ ioQueue' = Rest
      BY <1>3 DEF One
    <2>2. PICK n \in Nat : Pending(c) = Tasks(ioQueue, c) + n /\ Pending(c)' = Tasks(Rest, c) + n
      BY <1>1, <2>1, PendingRest, Zenon
    <2> QED BY <1>1, <1>2, <2>1, <2>2
  <1>4. CASE ~over
    <2>1. One(c = k /\ over) = 0 /\ ioQueue' = Append(Rest, x)
      BY <1>4 DEF One
    <2>2. Tasks(ioQueue', c) = Tasks(Rest, c) + One(k = c) /\ Tasks(ioQueue', c) \in Nat
      BY <1>1, <1>2, <2>1
    <2>3. PICK n \in Nat : Pending(c) = Tasks(ioQueue, c) + n /\ Pending(c)' = Tasks(ioQueue', c) + n
      BY <2>2, PendingRest
    <2> QED BY <1>1, <1>2, <2>1, <2>2, <2>3
  <1> QED BY <1>3, <1>4

\* OnConnect ends the attempt, or passes it on to SendHandshake.
LEMMA ConnectPending ==
  ASSUME Seqs, OnConnect, NEW c
  PROVE  /\ Pending(c) = Pending(c)' + One(c = Attempt /\ (Task.ec = "error" \/ socket = "closed" \/ QueueFull(Rest)))
         /\ Pending(c)' \in Nat
  <1> DEFINE x == PostedSend(HandshakeHandler)
             over == Task.ec = "error" \/ socket = "closed" \/ QueueFull(Rest)
  <1>1. Runs("ConnectDone") /\ UNCHANGED << sends, recvs, connect >>
    BY DEF OnConnect, socketVars
  <1>2. TaskClass(Task) = Attempt
    BY <1>1, RunsFacts DEF TaskClass
  <1>3. TaskClass(x) = Attempt
    BY ClassOf, Zenon DEF HandlerClass, HandshakeHandler
  <1>4. ioQueue' = IF over THEN Rest ELSE Append(Rest, x)
    BY DEF OnConnect, SendPacket
  <1> HIDE DEF x
  <1>5. over \in BOOLEAN
    OBVIOUS
  <1> HIDE DEF over
  <1>6. Pending(c) = Pending(c)' + One(c = Attempt /\ over) /\ Pending(c)' \in Nat
    BY <1>1, <1>2, <1>3, <1>4, <1>5, PassPending
  <1> QED BY <1>6 DEF over

\* The SendHandler of the handshake ends the attempt, or reads the response.
LEMMA HandshakePending ==
  ASSUME Seqs, OnHandshakeSent, NEW c
  PROVE  Pending(c) = Pending(c)' + One(c = Attempt /\ Task.ec = "error") /\ Pending(c)' \in Nat
  <1>1. Runs("SendDone") /\ Task.handler.kind = "Handshake" /\ UNCHANGED << sends, connect >>
    BY Zenon DEF OnHandshakeSent
  <1>2. TaskClass(Task) = Attempt
    <2>1. Task.kind = "SendDone"
      BY <1>1, RunsFacts
    <2> QED BY <1>1, <2>1, Zenon DEF TaskClass, HandlerClass
  <1>3. /\ Tasks(ioQueue, c) = One(Attempt = c) + Tasks(Rest, c) /\ Tasks(Rest, c) \in Nat
    BY <1>1, <1>2, RunTasks
  <1>4. CASE Task.ec = "error"
    <2>1. ioQueue' = Rest /\ recvs' = recvs
      BY <1>4, Zenon DEF OnHandshakeSent
    <2>2. One(c = Attempt /\ Task.ec = "error") = One(Attempt = c)
      BY <1>4 DEF One
    <2>3. PICK k \in Nat : Pending(c) = Tasks(ioQueue, c) + k /\ Pending(c)' = Tasks(Rest, c) + k
      BY <1>1, <1>3, <2>1, PendingRest, Zenon
    <2>4. One(Attempt = c) \in Nat
      BY DEF One
    <2> QED BY <1>3, <2>2, <2>3, <2>4
  <1>5. CASE Task.ec # "error"
    <2>1. StartReceive(Rest, "handshake") /\ IsSeq(Rest)
      BY <1>1, <1>5, RunsFacts, Zenon DEF OnHandshakeSent
    <2>2. Pending(c)' + Tasks(ioQueue, c) = Pending(c) + Tasks(Rest, c) + One(Attempt = c)
      <3>1. ReaderClass("handshake") = Attempt
        BY DEF ReaderClass
      <3> QED BY <1>1, <2>1, <3>1, ReceivePending
    <2>3. Pending(c)' \in Nat
      <3>1. IsSeq(ioQueue') /\ IsSeq(recvs') /\ IsSeq(sends')
        <4>1. IsSeq(recvs) /\ IsSeq(sends) /\ sends' = sends
          BY <1>1 DEF Seqs
        <4>2. /\ ioQueue' \in {Rest, Append(Rest, ReceiveDone("handshake", "error", << >>))}
              /\ recvs' \in {recvs, Append(recvs, "handshake")}
          BY <2>1 DEF StartReceive
        <4>3. \A x : IsSeq(Append(Rest, x)) /\ IsSeq(Append(recvs, x))
          BY <2>1, <4>1, AppendFacts
        <4> QED BY <2>1, <4>1, <4>2, <4>3, Zenon
      <3>2. Tasks(ioQueue', c) \in Nat /\ Handlers(sends', c) \in Nat /\ Receives(recvs', c) \in Nat
        BY <3>1, TasksType, HandlersType, ReceivesType
      <3> QED BY <3>2 DEF Pending, One
    <2> QED BY <1>3, <1>5, <2>2, <2>3, PendingType DEF One
  <1> QED BY <1>4, <1>5

\* The ReceiveHandler of the handshake response ends the attempt.
LEMMA RejectPending ==
  ASSUME Seqs, OnHandshakeRejected, NEW c
  PROVE  Pending(c) = Pending(c)' + One(c = Attempt) /\ Pending(c)' \in Nat
  <1>1. Runs("ReceiveDone") /\ Task.reader = "handshake" /\ UNCHANGED << sends, recvs, connect >> /\ ioQueue' = Rest
    BY DEF OnHandshakeRejected, socketVars
  <1>2. TaskClass(Task) = Attempt
    BY <1>1, RunsFacts DEF TaskClass, ReaderClass
  <1>3. Tasks(ioQueue, c) = One(Attempt = c) + Tasks(Rest, c) /\ Tasks(Rest, c) \in Nat
    BY <1>1, <1>2, RunTasks
  <1> QED BY <1>1, <1>3, CountTypes DEF Pending, One

\* Or it passes the attempt on to SendHandshakeAck.
LEMMA ResponsePending ==
  ASSUME Seqs, OnHandshakeResponse, NEW c
  PROVE  /\ Pending(c) = Pending(c)' + One(c = Attempt /\ (Task.packets[1].type = "BadHandshake" \/ QueueFull(Rest)))
         /\ Pending(c)' \in Nat
  <1> DEFINE x == PostedSend(AckHandler(Task.packets[1].dict))
             over == Task.packets[1].type = "BadHandshake" \/ QueueFull(Rest)
  <1>1. Runs("ReceiveDone") /\ Task.reader = "handshake" /\ UNCHANGED << sends, recvs, connect >>
    BY Zenon DEF OnHandshakeResponse, socketVars
  <1>2. TaskClass(Task) = Attempt
    BY <1>1, RunsFacts DEF TaskClass, ReaderClass
  <1>3. TaskClass(x) = Attempt
    BY ClassOf, Zenon DEF HandlerClass, AckHandler
  <1>4. ioQueue' = IF over THEN Rest ELSE Append(Rest, x)
    BY Zenon DEF OnHandshakeResponse, SendPacket
  <1> HIDE DEF x
  <1>5. over \in BOOLEAN
    OBVIOUS
  <1> HIDE DEF over
  <1>6. Pending(c) = Pending(c)' + One(c = Attempt /\ over) /\ Pending(c)' \in Nat
    BY <1>1, <1>2, <1>3, <1>4, <1>5, PassPending
  <1> QED BY <1>6 DEF over

\* The SendHandler of the acknowledgement ends the attempt, a read that has
\* completed is over, and so is the sending of a request.
LEMMA DonePending ==
  ASSUME Seqs, OnAckSent \/ OnReceive \/ OnRequestSent, NEW c
  PROVE  /\ Pending(c) = Pending(c)' + One(c = TaskClass(Task)) /\ Pending(c)' \in Nat
         /\ OnAckSent => TaskClass(Task) = Attempt
         /\ OnReceive => TaskClass(Task) = Reading
         /\ OnRequestSent => TaskClass(Task) = Requesting(Task.handler.req)
  <1>1. PICK kind : Runs(kind) /\ UNCHANGED << sends, recvs, connect >> /\ ioQueue' = Rest
    BY Zenon DEF OnAckSent, OnReceive, OnRequestSent, socketVars
  <1>2. OnAckSent => TaskClass(Task) = Attempt
    <2> SUFFICES ASSUME OnAckSent PROVE TaskClass(Task) = Attempt
      OBVIOUS
    <2>1. Task.kind = "SendDone" /\ Task.handler.kind = "HandshakeAck"
      BY RunsFacts, Zenon DEF OnAckSent
    <2> QED BY <2>1 DEF TaskClass, HandlerClass
  <1>3. OnReceive => TaskClass(Task) = Reading
    <2> SUFFICES ASSUME OnReceive PROVE TaskClass(Task) = Reading
      OBVIOUS
    <2>1. Task.kind = "ReceiveDone" /\ Task.reader = "packets"
      BY RunsFacts, Zenon DEF OnReceive
    <2> QED BY <2>1 DEF TaskClass, ReaderClass
  <1>4. OnRequestSent => TaskClass(Task) = Requesting(Task.handler.req)
    <2> SUFFICES ASSUME OnRequestSent PROVE TaskClass(Task) = Requesting(Task.handler.req)
      OBVIOUS
    <2>1. Task.kind = "SendDone" /\ Task.handler.kind = "Request"
      BY RunsFacts, Zenon DEF OnRequestSent
    <2> QED BY <2>1, Zenon DEF TaskClass, HandlerClass
  <1>5. Tasks(ioQueue, c) = One(TaskClass(Task) = c) + Tasks(Rest, c) /\ Tasks(Rest, c) \in Nat
    BY <1>1, RunTasks, Zenon
  <1>6. Pending(c) = Pending(c)' + One(c = TaskClass(Task)) /\ Pending(c)' \in Nat
    <2>1. PICK k \in Nat : Pending(c) = Tasks(ioQueue, c) + k /\ Pending(c)' = Tasks(Rest, c) + k
      BY <1>1, <1>5, PendingRest
    <2>2. One(c = TaskClass(Task)) = One(TaskClass(Task) = c) /\ One(TaskClass(Task) = c) \in Nat
      BY DEF One
    <2> QED BY <1>5, <2>1, <2>2
  <1> QED BY <1>2, <1>3, <1>4, <1>6

\* Connection::ReceivePackets starts a read.
LEMMA ReadPending == ASSUME Seqs, ReceivePackets, NEW c PROVE Pending(c)' = Pending(c) + One(c = Reading)
  <1>1. StartReceive(ioQueue, "packets") /\ UNCHANGED << sends, connect >>
    BY DEF ReceivePackets
  <1>2. Pending(c)' + Tasks(ioQueue, c) = Pending(c) + Tasks(ioQueue, c) + One(Reading = c)
    BY <1>1, ReceivePending DEF ReaderClass, Seqs
  <1>3. Pending(c)' \in Nat
    <2>1. IsSeq(ioQueue') /\ IsSeq(recvs') /\ IsSeq(sends')
      BY <1>1, AppendFacts, Zenon DEF StartReceive, Seqs
    <2>2. /\ Tasks(ioQueue', c) \in Nat /\ Handlers(sends', c) \in Nat /\ Receives(recvs', c) \in Nat
      BY <2>1, TasksType, HandlersType, ReceivesType
    <2> QED BY <2>2 DEF Pending, One
  <1> QED BY <1>2, <1>3, PendingType, CountTypes DEF One

\* Start begins an attempt.
LEMMA StartPending == ASSUME Seqs, Start, NEW c PROVE Pending(c)' = Pending(c) + One(c = Attempt)
  <1>1. Pending(c)' = Pending(c) + One(connect' /\ c = Attempt) /\ connect'
    BY AbortPending, Zenon DEF Start
  <1> QED BY <1>1 DEF One

\* The steps that begin a request leave the other classes alone.
LEMMA RequestKeeps ==
  ASSUME Seqs, OnPostRequest \/ \E r \in Requests : PostRequest(r), NEW c, \A r : c # Requesting(r)
  PROVE  Pending(c)' = Pending(c)
  <1>1. CASE OnPostRequest
    <2> DEFINE h == RequestHandler(Task.req, reqId)
               x == PostedSend(h)
    <2>1. Runs("PostRequest") /\ UNCHANGED << sends, recvs, connect >> /\ ioQueue' \in {ioQueue, Rest, Append(Rest, x)}
      BY <1>1, Zenon DEF OnPostRequest, SendPacket, socketVars
    <2>2. TaskClass(Task) # c
      BY <2>1, RunsFacts DEF TaskClass
    <2>3. TaskClass(x) # c
      BY ClassOf, HandlerClassOf, Zenon
    <2> HIDE DEF x
    <2>4. /\ Tasks(ioQueue, c) = Tasks(Rest, c) /\ Tasks(Rest, c) \in Nat
          /\ Tasks(Append(Rest, x), c) = Tasks(Rest, c)
      BY <2>1, <2>2, <2>3, RunTasks DEF One
    <2> QED BY <2>1, <2>4, ZenonT(30) DEF Pending
  <1>2. CASE \E r \in Requests : PostRequest(r)
    <2>1. PICK r : PostRequest(r)
      BY <1>2
    <2> DEFINE x == PostedRequest(r)
    <2>2. ioQueue' = Append(ioQueue, x) /\ UNCHANGED << sends, recvs, connect >>
      BY <2>1, Zenon DEF PostRequest, socketVars
    <2>3. TaskClass(x) # c
      BY ClassOf
    <2> HIDE DEF x
    <2>4. Pending(c)' = Pending(c) + One(TaskClass(x) = c)
      BY <2>2, JoinPending
    <2> QED BY <2>3, <2>4, PendingType DEF One
  <1> QED BY <1>1, <1>2

-----------------------------------------------------------------------------
(* Every request is accounted for *)

\* Request r is in flight under these ids.
Flights(r) == {q \in inFlight : q.req = r}

\* What one term of a sum gives up and another takes leaves the sum as it was.
LEMMA MovedSum ==
  ASSUME NEW p \in Nat, NEW i \in Nat, NEW j \in Nat, NEW k \in Nat, NEW q \in Nat, NEW d \in Nat, p = q + d
  PROVE  q + i + (j + d) + k = p + i + j + k /\ q + i + j + (k + d) = p + i + j + k
  OBVIOUS

\* How often request r is accounted for: Places, as a count of what is pending.
Account(r) == Pending(Requesting(r)) + Cardinality(Flights(r)) + Len(answers[r]) + One(r \in lost)

FlightInv == IsFiniteSet(inFlight) /\ \A q \in inFlight : q = [id |-> q.id, req |-> q.req]

AccountInv == FlightInv /\ (alive => \A r \in Requests : Account(r) = One(r \in posted))

\* The parts of Account are numbers.
LEMMA AccountTypes ==
  ASSUME Seqs, OwnRequests, FlightInv, NEW r \in Requests
  PROVE  /\ Pending(Requesting(r)) \in Nat /\ Len(answers[r]) \in Nat
         /\ IsFiniteSet(Flights(r)) /\ Cardinality(Flights(r)) \in Nat
         /\ Cardinality(Flights(r)) = 0 <=> Flights(r) = {}
  <1>1. Pending(Requesting(r)) \in Nat
    BY PendingType
  <1>2. Len(answers[r]) \in Nat
    BY SeqShape, Zenon DEF OwnRequests
  <1>3. IsFiniteSet(Flights(r))
    <2>1. Flights(r) \subseteq inFlight
      BY DEF Flights
    <2> QED BY <2>1, FS_Subset DEF FlightInv
  <1>4. Cardinality(Flights(r)) \in Nat /\ (Cardinality(Flights(r)) = 0 <=> Flights(r) = {})
    BY <1>3, FS_CardinalityType, FS_EmptySet
  <1> QED BY <1>1, <1>2, <1>3, <1>4

\* A request that is pending is nowhere else.
LEMMA PendingAlone ==
  ASSUME Seqs, OwnRequests, AccountInv, alive, NEW r \in Requests, Pending(Requesting(r)) # 0
  PROVE  /\ r \in posted /\ Pending(Requesting(r)) = 1 /\ Flights(r) = {} /\ Len(answers[r]) = 0 /\ r \notin lost
         /\ Account(r) = 1
  <1>1. /\ Pending(Requesting(r)) \in Nat /\ Len(answers[r]) \in Nat /\ Cardinality(Flights(r)) \in Nat
        /\ Cardinality(Flights(r)) = 0 <=> Flights(r) = {}
    BY AccountTypes DEF AccountInv
  <1>2. Account(r) = One(r \in posted)
    BY DEF AccountInv
  <1>3. /\ One(r \in lost) \in {0, 1} /\ (One(r \in lost) = 0 <=> r \notin lost)
        /\ One(r \in posted) \in {0, 1} /\ (One(r \in posted) = 1 <=> r \in posted)
    BY DEF One
  <1>4. /\ Pending(Requesting(r)) = 1 /\ Cardinality(Flights(r)) = 0 /\ Len(answers[r]) = 0
        /\ One(r \in lost) = 0 /\ One(r \in posted) = 1
    BY <1>1, <1>2, <1>3 DEF Account
  <1> QED BY <1>1, <1>2, <1>3, <1>4, Zenon

\* And so does one that changes nothing.
LEMMA KeepsAccount == RInv /\ AccountInv /\ [Next]_vars => AccountInv'
  \* Answer counts for one request.
  <1>AnswerCount. ASSUME OwnRequests, NEW r \in Requests, NEW status, Answer(r, status), NEW s \in Requests
                  PROVE  Len(answers'[s]) = Len(answers[s]) + One(s = r)
    <2> USE <1>AnswerCount
    <2>1. /\ answers' = [answers EXCEPT ![r] = Append(answers[r], status)]
          /\ DOMAIN answers = Requests /\ IsSeq(answers[r]) /\ IsSeq(answers[s])
      BY Zenon DEF Answer, OwnRequests
    <2>2. Len(Append(answers[r], status)) = Len(answers[r]) + 1
      BY <2>1, AppendAt, Zenon
    <2>3. Len(answers[s]) \in Nat
      BY <2>1, SeqShape
    <2>4. CASE s = r
      BY <2>1, <2>2, <2>4 DEF One
    <2>5. CASE s # r
      <3>1. answers'[s] = answers[s]
        BY <2>1, <2>5
      <3> QED BY <2>3, <2>5, <3>1 DEF One
    <2> QED BY <2>4, <2>5
  \* Finish takes a request from those in flight and answers it.
  <1>FinishCount. ASSUME OwnRequests, IdsIdentify, FlightInv, NEW id, NEW status, Finish(id, status)
                  PROVE  /\ FlightInv'
                         /\ \A s \in Requests : Cardinality(Flights(s)') + Len(answers'[s]) = Cardinality(Flights(s)) + Len(answers[s])
    <2> USE <1>FinishCount
    <2>1. CASE Entries(id) = {}
      BY <2>1 DEF Finish, FlightInv, Flights
    <2>2. CASE Entries(id) # {}
      <3>1. PICK q \in Entries(id) : Answer(q.req, status)
        BY <2>2 DEF Finish
      <3>2. q \in inFlight /\ q.id = id /\ q.req \in Requests /\ inFlight' = inFlight \ Entries(id)
        BY <2>2, Zenon DEF Finish, Entries, OwnRequests
      <3>3. \A b \in Entries(id) : b = q
        <4> SUFFICES ASSUME NEW b \in Entries(id) PROVE b = q
          OBVIOUS
        <4>1. b \in inFlight /\ b.id = q.id
          BY <3>2 DEF Entries
        <4>2. b.req = q.req
          BY <3>2, <4>1, Zenon DEF IdsIdentify, Numbered
        <4>3. b = [id |-> b.id, req |-> b.req] /\ q = [id |-> q.id, req |-> q.req]
          BY <3>2, <4>1, Zenon DEF FlightInv
        <4> QED BY <4>1, <4>2, <4>3
      <3>4. inFlight' = inFlight \ {q}
        BY <3>2, <3>3
      <3>5. FlightInv'
        <4>1. IsFiniteSet(inFlight \ {q})
          BY FS_RemoveElement DEF FlightInv
        <4> QED BY <3>4, <4>1 DEF FlightInv
      <3>6. ASSUME NEW s \in Requests
            PROVE  Cardinality(Flights(s)') + Len(answers'[s]) = Cardinality(Flights(s)) + Len(answers[s])
        <4>0. IsSeq(answers[s]) /\ q.req \in Requests
          BY <3>2, Zenon DEF OwnRequests
        <4>1. Len(answers'[s]) = Len(answers[s]) + One(s = q.req) /\ Len(answers[s]) \in Nat
          BY <3>1, <3>2, <4>0, <1>AnswerCount, SeqShape, Zenon
        <4>2. IsFiniteSet(Flights(s)) /\ Cardinality(Flights(s)) \in Nat
          <5>1. Flights(s) \subseteq inFlight
            BY DEF Flights
          <5> QED BY <5>1, FS_Subset, FS_CardinalityType DEF FlightInv
        <4>3. CASE s = q.req
          <5>1. Flights(s)' = Flights(s) \ {q} /\ q \in Flights(s)
            BY <3>2, <3>4, <4>3 DEF Flights
          <5>2. Cardinality(Flights(s) \ {q}) = Cardinality(Flights(s)) - 1
            BY <4>2, <5>1, FS_RemoveElement, Zenon
          <5> QED BY <4>1, <4>2, <4>3, <5>1, <5>2 DEF One
        <4>4. CASE s # q.req
          <5>1. Flights(s)' = Flights(s)
            BY <3>4, <4>4 DEF Flights
          <5> QED BY <4>1, <4>2, <4>4, <5>1 DEF One
        <4> QED BY <4>3, <4>4
      <3> QED BY <3>5, <3>6
    <2> QED BY <2>1, <2>2
  \* What is pending for a request changes where it is posted, sent or ignored,
  \* and nowhere else.
  <1>RequestPending. ASSUME Seqs, Next, ~OnPostRequest, ~OnRequestSent, ~\E r \in Requests : PostRequest(r),
                            NEW c, c # Attempt, c # Reading, c # Other
                     PROVE  Pending(c)' = Pending(c)
    <2> USE <1>RequestPending
    <2>0. c # Attempt /\ c # Reading /\ c # Other /\ Pending(c) \in Nat
      BY PendingType
    <2>1. CASE OnConnect
      <3>1. PICK b \in BOOLEAN : Pending(c) = Pending(c)' + One(c = Attempt /\ b) /\ Pending(c)' \in Nat
        BY <2>1, ConnectPending, Zenon
      <3> QED BY <2>0, <3>1 DEF One
    <2>2. CASE OnHandshakeSent
      <3>1. Pending(c) = Pending(c)' + One(c = Attempt /\ Task.ec = "error") /\ Pending(c)' \in Nat
        BY <2>2, HandshakePending
      <3> QED BY <2>0, <3>1 DEF One
    <2>3. CASE OnHandshakeRejected
      <3>1. Pending(c) = Pending(c)' + One(c = Attempt) /\ Pending(c)' \in Nat
        BY <2>3, RejectPending
      <3> QED BY <2>0, <3>1 DEF One
    <2>4. CASE OnHandshakeResponse
      <3>1. PICK b \in BOOLEAN : Pending(c) = Pending(c)' + One(c = Attempt /\ b) /\ Pending(c)' \in Nat
        BY <2>4, ResponsePending, Zenon
      <3> QED BY <2>0, <3>1 DEF One
    <2>5. CASE OnAckSent \/ OnReceive
      <3>1. TaskClass(Task) # c
        BY <2>0, <2>5, DonePending
      <3>2. Pending(c) = Pending(c)' + One(c = TaskClass(Task)) /\ Pending(c)' \in Nat
        BY <2>5, DonePending
      <3> QED BY <3>1, <3>2 DEF One
    <2>6. CASE ReceivePackets
      <3>1. Pending(c)' = Pending(c) + One(c = Reading)
        BY <2>6, ReadPending
      <3> QED BY <2>0, <3>1 DEF One
    <2>7. CASE Start
      <3>1. Pending(c)' = Pending(c) + One(c = Attempt)
        BY <2>7, StartPending
      <3> QED BY <2>0, <3>1 DEF One
    <2> QED BY <2>0, <2>1, <2>2, <2>3, <2>4, <2>5, <2>6, <2>7, PendingKept DEF Next, Worker, Application
  \* PostRequest posts a call for its request.
  <1>PostAccount. ASSUME RInv, AccountInv, NEW r \in Requests, PostRequest(r), alive
                  PROVE  AccountInv'
    <2> USE <1>PostAccount
    <2> DEFINE x == PostedRequest(r)
    <2>0. Seqs /\ OwnRequests /\ FlightInv
      BY DEF RInv, IInv, AccountInv
    <2>1. /\ r \notin posted /\ posted' = posted \union {r} /\ ioQueue' = Append(ioQueue, x)
          /\ UNCHANGED << sends, recvs, connect, inFlight, answers, lost >>
      BY DEF PostRequest, requestVars, socketVars, historyVars
    <2>2. TaskClass(x) = Requesting(r)
      BY ClassOf, Zenon
    <2> HIDE DEF x
    <2>3. ASSUME NEW s \in Requests PROVE Account(s)' = One(s \in posted')
      <3>1. Pending(Requesting(s))' = Pending(Requesting(s)) + One(Requesting(r) = Requesting(s))
        BY <2>0, <2>1, <2>2, JoinPending
      <3>2. Account(s) = One(s \in posted)
        BY DEF AccountInv
      <3>3. /\ Pending(Requesting(s)) \in Nat /\ Len(answers[s]) \in Nat /\ Cardinality(Flights(s)) \in Nat
            /\ One(s \in lost) \in Nat
        BY <2>0, AccountTypes DEF One
      <3>4. Flights(s)' = Flights(s)
        BY <2>1 DEF Flights
      <3>5. Account(s)' = Account(s) + One(Requesting(r) = Requesting(s))
        <4>1. One(Requesting(r) = Requesting(s)) \in Nat
          BY DEF One
        <4>2. Account(s)' = Pending(Requesting(s))' + Cardinality(Flights(s)) + Len(answers[s]) + One(s \in lost)
          BY <2>1, <3>4, Zenon DEF Account
        <4> HIDE DEF Account
        <4>3. Account(s) = Pending(Requesting(s)) + Cardinality(Flights(s)) + Len(answers[s]) + One(s \in lost)
          BY Zenon DEF Account
        <4> QED BY <3>1, <3>3, <4>1, <4>2, <4>3
      <3>6. CASE s = r
        BY <2>1, <3>2, <3>5, <3>6 DEF One
      <3>7. CASE s # r
        <4>1. Requesting(r) # Requesting(s)
          BY <3>7, ClassFacts
        <4> QED BY <2>1, <3>2, <3>5, <3>7, <4>1 DEF One
      <3> QED BY <3>6, <3>7
    <2>4. FlightInv'
      BY <2>0, <2>1 DEF FlightInv
    <2> QED BY <2>3, <2>4 DEF AccountInv
  \* The call posted by PostRequest answers its request or passes it on to
  \* SendPacket, which may ignore it.
  <1>SendAccount. ASSUME RInv, AccountInv, alive, OnPostRequest PROVE AccountInv'
    <2> USE <1>SendAccount
    <2>0. PICK r : r = Task.req
      OBVIOUS
    <2>1. PICK h : h = RequestHandler(Task.req, reqId)
      OBVIOUS
    <2> DEFINE x == PostedSend(h)
    <2>2. Seqs /\ OwnRequests /\ FlightInv
      BY DEF RInv, IInv, AccountInv
    <2>3. Runs("PostRequest") /\ UNCHANGED << sends, recvs, connect, inFlight, posted >>
      BY Zenon DEF OnPostRequest, socketVars, appVars
    <2>4. Task \in Range(ioQueue) /\ TaskClass(Task) = Requesting(r) /\ r \in Requests
      <3>1. Task \in Range(ioQueue) /\ Task.kind = "PostRequest"
        BY <2>2, <2>3, RunsFacts
      <3> QED BY <2>0, <2>2, <3>1, Zenon DEF TaskClass, OwnRequests
    <2>5. TaskClass(x) = Requesting(r)
      BY <2>0, <2>1, ClassOf, Zenon DEF HandlerClass, RequestHandler
    <2> HIDE DEF x
    <2>6. Pending(Requesting(r)) # 0
      BY <2>2, <2>4, PendingType
    <2>7. /\ r \in posted /\ Pending(Requesting(r)) = 1 /\ Flights(r) = {} /\ Len(answers[r]) = 0 /\ r \notin lost
      BY <2>2, <2>4, <2>6, PendingAlone
    <2>8. FlightInv' /\ \A s : Flights(s)' = Flights(s)
      BY <2>2, <2>3 DEF FlightInv, Flights
    <2>9. CASE Answer(r, "NotConnectedError") /\ ioQueue' = Rest /\ lost' = lost
      <3> SUFFICES ASSUME NEW s \in Requests PROVE Account(s)' = One(s \in posted)
        BY <2>3, <2>8 DEF AccountInv
      <3>1. Pending(Requesting(s)) = Pending(Requesting(s))' + One(Requesting(r) = Requesting(s))
        BY <2>2, <2>3, <2>4, <2>9, RunPending
      <3>2. Len(answers'[s]) = Len(answers[s]) + One(s = r)
        BY <2>2, <2>4, <2>9, <1>AnswerCount
      <3>3. One(Requesting(r) = Requesting(s)) = One(s = r) /\ One(s = r) \in {0, 1}
        BY ClassFacts DEF One
      <3>4. Pending(Requesting(s))' \in Nat
        <4>1. IsSeq(Rest)
          BY <2>2, <2>3, RunsFacts
        <4>2. Tasks(ioQueue', Requesting(s)) \in Nat
          BY <2>9, <4>1, TasksType
        <4>3. PICK k \in Nat : Pending(Requesting(s))' = Tasks(ioQueue', Requesting(s)) + k
          BY <2>2, <2>3, <4>2, PendingRest
        <4> QED BY <4>2, <4>3
      <3>5. /\ Pending(Requesting(s)) \in Nat /\ Len(answers[s]) \in Nat /\ Cardinality(Flights(s)) \in Nat
            /\ One(s \in lost) \in Nat /\ Account(s) = One(s \in posted)
        BY <2>2, AccountTypes DEF One, AccountInv
      <3>6. Account(s)' = Account(s)
        <4>1. Account(s)' = Pending(Requesting(s))' + Cardinality(Flights(s)) + Len(answers'[s]) + One(s \in lost)
          BY <2>8, <2>9, Zenon DEF Account
        <4>2. One(s = r) \in Nat
          BY <3>3
        <4>3. Pending(Requesting(s)) = Pending(Requesting(s))' + One(s = r)
          BY <3>1, <3>3, Zenon
        <4>4. Pending(Requesting(s))' + Cardinality(Flights(s)) + (Len(answers[s]) + One(s = r)) + One(s \in lost)
                = Pending(Requesting(s)) + Cardinality(Flights(s)) + Len(answers[s]) + One(s \in lost)
          BY <3>4, <3>5, <4>2, <4>3, MovedSum
        <4> QED BY <3>2, <4>1, <4>4, Zenon DEF Account
      <3> QED BY <3>5, <3>6
    <2>10. CASE /\ ioQueue' = SendPacket(Rest, h)
                /\ lost' = (IF QueueFull(Rest) THEN lost \union {r} ELSE lost)
                /\ answers' = answers
      <3> SUFFICES ASSUME NEW s \in Requests PROVE Account(s)' = One(s \in posted)
        BY <2>3, <2>8 DEF AccountInv
      <3> DEFINE full == QueueFull(Rest)
      <3>1. ioQueue' = (IF full THEN Rest ELSE Append(Rest, x)) /\ full \in BOOLEAN
        BY <2>10 DEF SendPacket, x, QueueFull
      <3>2. lost' = IF full THEN lost \union {r} ELSE lost
        BY <2>10
      <3> HIDE DEF full
      <3>3. /\ Pending(Requesting(s)) = Pending(Requesting(s))' + One(Requesting(s) = Requesting(r) /\ full)
            /\ Pending(Requesting(s))' \in Nat
        BY <2>2, <2>3, <2>4, <2>5, <3>1, PassPending
      <3>4. /\ Pending(Requesting(s)) \in Nat /\ Len(answers[s]) \in Nat /\ Cardinality(Flights(s)) \in Nat
            /\ One(s \in lost) \in Nat /\ Account(s) = One(s \in posted)
        BY <2>2, AccountTypes DEF One, AccountInv
      <3>5. One(s \in lost') = One(s \in lost) + One(Requesting(s) = Requesting(r) /\ full)
        <4>1. CASE s = r /\ full
          BY <2>7, <3>2, <4>1 DEF One
        <4>2. CASE s # r \/ ~full
          <5>1. ~(Requesting(s) = Requesting(r) /\ full) /\ (s \in lost' <=> s \in lost)
            BY <3>2, <4>2, ClassFacts, Zenon
          <5> QED BY <5>1 DEF One
        <4> QED BY <4>1, <4>2, Zenon
      <3>6. One(Requesting(s) = Requesting(r) /\ full) \in Nat
        BY DEF One
      <3>7. Account(s)' = Account(s)
        <4>1. Account(s)' = Pending(Requesting(s))' + Cardinality(Flights(s)) + Len(answers[s]) + One(s \in lost')
          BY <2>8, <2>10, Zenon DEF Account
        <4> DEFINE d == One(Requesting(s) = Requesting(r) /\ full)
        <4>2. Pending(Requesting(s))' + Cardinality(Flights(s)) + Len(answers[s]) + (One(s \in lost) + d)
                = Pending(Requesting(s)) + Cardinality(Flights(s)) + Len(answers[s]) + One(s \in lost)
          BY <3>3, <3>4, <3>6, MovedSum
        <4> QED BY <3>5, <4>1, <4>2, Zenon DEF Account
      <3> QED BY <3>4, <3>7
    <2>11. CASE ~alive'
      BY <2>8, <2>11 DEF AccountInv
    <2> QED BY <2>0, <2>1, <2>9, <2>10, <2>11, Zenon DEF OnPostRequest
  \* The SendHandler of a request answers it or registers it.
  <1>SentAccount. ASSUME RInv, AccountInv, alive, OnRequestSent PROVE AccountInv'
    <2> USE <1>SentAccount
    <2>0. PICK h : h = Task.handler
      OBVIOUS
    <2>1. Seqs /\ OwnRequests /\ FlightInv /\ IdsIdentify /\ IInv
      BY DEF RInv, IInv, AccountInv
    <2>2. Runs("SendDone") /\ UNCHANGED << posted, lost >>
      BY Zenon DEF OnRequestSent, appVars
    <2>3. h \in OnTheWay /\ h.req \in Requests
      BY <2>0, <2>1, SentFlow, Zenon DEF OwnRequests
    <2>4. /\ TaskClass(Task) = Requesting(h.req)
          /\ \A s : /\ Pending(Requesting(s)) = Pending(Requesting(s))' + One(Requesting(s) = Requesting(h.req))
                    /\ Pending(Requesting(s))' \in Nat
      BY <2>0, <2>1, DonePending, Zenon
    <2>5. Pending(Requesting(h.req)) # 0
      BY <2>4 DEF One
    <2>6. Flights(h.req) = {}
      BY <2>1, <2>3, <2>5, PendingAlone
    <2>7. \A s : One(Requesting(s) = Requesting(h.req)) = One(s = h.req) /\ One(s = h.req) \in {0, 1}
      BY ClassFacts DEF One
    <2>8. \A s \in Requests :
             /\ Pending(Requesting(s)) \in Nat /\ Len(answers[s]) \in Nat /\ Cardinality(Flights(s)) \in Nat
             /\ One(s \in lost) \in Nat /\ Account(s) = One(s \in posted)
      BY <2>1, AccountTypes DEF One, AccountInv
    <2>9. CASE Answer(h.req, "InternalError") /\ UNCHANGED inFlight
      <3>1. \A s \in Requests : Len(answers'[s]) = Len(answers[s]) + One(s = h.req)
        BY <2>1, <2>3, <2>9, <1>AnswerCount
      <3>2. FlightInv' /\ \A s : Flights(s)' = Flights(s)
        BY <2>1, <2>9 DEF FlightInv, Flights
      <3>3. ASSUME NEW s \in Requests PROVE Account(s)' = Account(s)
        <4>1. /\ Pending(Requesting(s)) = Pending(Requesting(s))' + One(s = h.req) /\ Pending(Requesting(s))' \in Nat
              /\ Len(answers'[s]) = Len(answers[s]) + One(s = h.req) /\ One(s = h.req) \in {0, 1}
              /\ Len(answers[s]) \in Nat /\ Cardinality(Flights(s)) \in Nat /\ One(s \in lost) \in Nat
          BY <2>4, <2>7, <2>8, <3>1, ZenonT(30)
        <4> QED BY <2>2, <3>2, <4>1 DEF Account
      <3> QED BY <2>2, <2>8, <3>2, <3>3, Zenon DEF AccountInv
    <2>10. CASE Register(h) /\ UNCHANGED answers
      <3> DEFINE q == [id |-> h.id, req |-> h.req]
      <3>1. Entries(h.id) = {}
        <4> SUFFICES ASSUME NEW b \in inFlight, b.id = h.id PROVE FALSE
          BY DEF Entries
        <4>1. q \in Numbered /\ b \in Numbered
          BY <2>3, Zenon DEF Numbered
        <4>2. b.req = h.req
          BY <2>1, <4>1 DEF IdsIdentify
        <4> QED BY <2>6, <4>2 DEF Flights
      <3>2. inFlight' = inFlight \union {q} /\ q \notin inFlight /\ q.req = h.req /\ q = [id |-> q.id, req |-> q.req]
        BY <2>10, <3>1 DEF Register, Entries
      <3> HIDE DEF q
      <3>3. FlightInv'
        <4>1. IsFiniteSet(inFlight \union {q})
          BY <2>1, FS_AddElement DEF FlightInv
        <4> QED BY <2>1, <3>2, <4>1, Zenon DEF FlightInv
      <3>4. ASSUME NEW s \in Requests PROVE Cardinality(Flights(s)') = Cardinality(Flights(s)) + One(s = h.req)
        <4>1. CASE s = h.req
          <5>1. Flights(s)' = Flights(s) \union {q} /\ q \notin Flights(s)
            BY <3>2, <4>1, Zenon DEF Flights
          <5>2. Cardinality(Flights(s) \union {q}) = Cardinality(Flights(s)) + 1
            BY <2>1, <5>1, AccountTypes, FS_AddElement, Zenon
          <5> QED BY <4>1, <5>1, <5>2, Zenon DEF One
        <4>2. CASE s # h.req
          <5>1. Flights(s)' = Flights(s)
            BY <3>2, <4>2 DEF Flights
          <5> QED BY <2>8, <4>2, <5>1 DEF One
        <4> QED BY <4>1, <4>2, Zenon
      <3>5. ASSUME NEW s \in Requests PROVE Account(s)' = Account(s)
        <4>1. /\ Pending(Requesting(s)) = Pending(Requesting(s))' + One(s = h.req) /\ Pending(Requesting(s))' \in Nat
              /\ Cardinality(Flights(s)') = Cardinality(Flights(s)) + One(s = h.req) /\ One(s = h.req) \in {0, 1}
              /\ Len(answers[s]) \in Nat /\ Cardinality(Flights(s)) \in Nat /\ One(s \in lost) \in Nat
          BY <2>4, <2>7, <2>8, <3>4, Zenon
        <4> QED BY <2>2, <2>10, <4>1 DEF Account
      <3> QED BY <2>2, <2>8, <3>3, <3>5, Zenon DEF AccountInv
    <2> QED BY <2>0, <2>9, <2>10, Zenon DEF OnRequestSent
  \* Every step keeps the account.
  <1>NextAccount. ASSUME RInv, AccountInv, Next PROVE AccountInv'
    <2> USE <1>NextAccount
    <2>0. Seqs /\ OwnRequests /\ FlightInv /\ IdsIdentify /\ alive
      BY DEF RInv, IInv, AccountInv, Next
    <2>1. CASE ~OnPostRequest /\ ~OnRequestSent /\ ~\E r \in Requests : PostRequest(r)
      <3>1. UNCHANGED << posted, lost >> /\ (UNCHANGED << inFlight, answers >> \/ \E id, status : Finish(id, status))
        BY <2>1, Zenon DEF Next, Worker, Environment, Application, appVars, requestVars, historyVars, OnConnect,
              OnHandshakeSent, OnHandshakeRejected, OnHandshakeResponse, OnAckSent, OnReceive, ProcessFatal,
              ProcessHeartbeat, ProcessMessage, ReceivePackets, Disconnect, SendNextPacket, OnRequestTimeout, OnTick,
              OnHeartbeatSent, OnHeartbeatTimeout, ConnectCompletes, SendCompletes, SendFails, ReceiveCompletes,
              ReceiveFails, HeartbeatTimerExpires, HeartbeatTimeoutExpires, RequestTimerExpires, Start
      <3>2. /\ FlightInv'
            /\ \A s \in Requests : Cardinality(Flights(s)') + Len(answers'[s]) = Cardinality(Flights(s)) + Len(answers[s])
        <4>1. CASE UNCHANGED << inFlight, answers >>
          BY <2>0, <4>1 DEF FlightInv, Flights
        <4>2. CASE \E id, status : Finish(id, status)
          BY <2>0, <4>2, <1>FinishCount
        <4> QED BY <3>1, <4>1, <4>2, Zenon
      <3>3. OwnRequests'
        BY <2>0, NextOwn DEF RInv
      <3>4. ASSUME NEW s \in Requests PROVE Account(s)' = One(s \in posted)
        <4>1. Pending(Requesting(s))' = Pending(Requesting(s))
          BY <2>0, <2>1, <1>RequestPending, ClassFacts
        <4>2. /\ Pending(Requesting(s)) \in Nat /\ Len(answers[s]) \in Nat /\ Cardinality(Flights(s)) \in Nat
              /\ One(s \in lost) \in Nat
          BY <2>0, AccountTypes, Zenon DEF One
        <4>3. Len(answers'[s]) \in Nat /\ Cardinality(Flights(s)') \in Nat
          <5>1. Len(answers'[s]) \in Nat
            BY <3>3, SeqShape, Zenon DEF OwnRequests
          <5>2. Flights(s)' \subseteq inFlight'
            BY DEF Flights
          <5> QED BY <3>2, <5>1, <5>2, FS_Subset, FS_CardinalityType, Zenon DEF FlightInv
        <4>4. Cardinality(Flights(s)') + Len(answers'[s]) = Cardinality(Flights(s)) + Len(answers[s])
          BY <3>2
        <4>5. Account(s)' = Account(s)
          <5>1. PICK n \in Nat : n = One(s \in lost)
            BY <4>2
          <5>2. PICK p \in Nat : p = Pending(Requesting(s)) /\ p = Pending(Requesting(s))'
            BY <4>1, <4>2, Zenon
          <5>3. PICK f \in Nat, g \in Nat : f = Cardinality(Flights(s)) /\ g = Cardinality(Flights(s)')
            BY <4>2, <4>3, Zenon
          <5>4. PICK a \in Nat, b \in Nat : a = Len(answers[s]) /\ b = Len(answers'[s])
            BY <4>2, <4>3, Zenon
          <5>5. Account(s)' = p + g + b + n /\ Account(s) = p + f + a + n
            BY <3>1, <5>1, <5>2, <5>3, <5>4, Zenon DEF Account
          <5>6. g + b = f + a
            BY <4>4, <5>3, <5>4
          <5>7. p + g + b + n = p + f + a + n
            BY <5>6
          <5> QED BY <5>5, <5>7
        <4>6. Account(s) = One(s \in posted)
          BY <2>0 DEF AccountInv
        <4> QED BY <4>5, <4>6
      <3> QED BY <3>1, <3>2, <3>4 DEF AccountInv
    <2> QED BY <2>0, <2>1, <1>PostAccount, <1>SendAccount, <1>SentAccount
  <1> SUFFICES ASSUME RInv, AccountInv, UNCHANGED vars PROVE AccountInv'
    BY <1>NextAccount
  <1>1. UNCHANGED << alive, ioQueue, sends, recvs, connect, inFlight, answers, lost, posted >>
    BY DEF vars, socketVars, requestVars, appVars, historyVars
  <1> QED BY <1>1, Zenon DEF AccountInv, FlightInv, Account, Flights, Pending

\* Before the first Start nothing is to be accounted for.
LEMMA InitAccount == Init => AccountInv
  <1> SUFFICES ASSUME Init PROVE AccountInv
    OBVIOUS
  <1>1. FlightInv
    BY FS_EmptySet, Zenon DEF Init, FlightInv
  <1>2. ASSUME NEW r \in Requests PROVE Account(r) = One(r \in posted)
    <2>1. Pending(Requesting(r)) = 0
      BY EmptyCounts, ClassFacts DEF Init, Pending, One
    <2>2. Flights(r) = {} /\ Cardinality({}) = 0
      BY FS_EmptySet, Zenon DEF Init, Flights
    <2>3. Len(answers[r]) = 0 /\ lost = {} /\ posted = {}
      BY DEF Init
    <2> QED BY <2>1, <2>2, <2>3 DEF Account, One
  <1> QED BY <1>1, <1>2 DEF AccountInv

\* Every request passed to Connection::PostRequest is in one place: queued,
\* being written, in flight, answered or ignored by SendPacket.  So its handler
\* is called at most once, whichever of the response, the timeout, the failed
\* send and the lost connection comes first.
THEOREM ConnectionAccountsRequests == Spec => []RequestAccounted
  \* What runs, and what is being written, for request r.
  <1>PlacesCount. ASSUME Seqs, NEW r
                  PROVE  Pending(Requesting(r)) = Cardinality(TasksOf(r)) + Cardinality(SendsOf(r))
    <2> USE <1>PlacesCount
    <2> DEFINE c == Requesting(r)
    <2>1. /\ Len(ioQueue) \in Nat /\ DOMAIN ioQueue = 1..Len(ioQueue)
          /\ Len(sends) \in Nat /\ DOMAIN sends = 1..Len(sends)
      BY SeqShape DEF Seqs
    <2>2. \A s : Requesting(s) = c <=> s = r
      BY ClassFacts
    <2>3. c # Attempt /\ c # Reading /\ c # Other
      BY ClassFacts, Zenon
    <2> HIDE DEF c
    <2>4. \A h : HandlerClass(h) = c <=> h.kind = "Request" /\ h.req = r
      BY <2>2, <2>3, Zenon DEF HandlerClass
    <2>5. \A t : TaskClass(t) = c
             <=> \/ t.kind = "PostRequest" /\ t.req = r
                 \/ t.kind \in {"SendNextPacket", "SendDone"} /\ HandlerClass(t.handler) = c
      <3> SUFFICES ASSUME NEW t
                   PROVE  TaskClass(t) = c
                            <=> \/ t.kind = "PostRequest" /\ t.req = r
                                \/ t.kind \in {"SendNextPacket", "SendDone"} /\ HandlerClass(t.handler) = c
        OBVIOUS
      <3>1. CASE t.kind = "PostRequest"
        BY <2>2, <3>1, Zenon DEF TaskClass
      <3>2. CASE t.kind \in {"SendNextPacket", "SendDone"}
        BY <3>2 DEF TaskClass
      <3>3. CASE t.kind \notin {"PostRequest", "SendNextPacket", "SendDone"}
        BY <2>3, <3>3, Zenon DEF TaskClass, ReaderClass
      <3> QED BY <3>1, <3>2, <3>3, Zenon
    <2>6. TasksOf(r) = {i \in 1..Len(ioQueue) : TaskClass(ioQueue[i]) = c}
      <3>1. \A t : TaskClass(t) = c
                <=> \/ t.kind = "PostRequest" /\ t.req = r
                    \/ t.kind \in {"SendNextPacket", "SendDone"} /\ t.handler.kind = "Request" /\ t.handler.req = r
        BY <2>4, <2>5, Zenon
      <3> QED BY <2>1, <3>1 DEF TasksOf
    <2>7. SendsOf(r) = {i \in 1..Len(sends) : HandlerClass(sends[i]) = c}
      BY <2>1, <2>4 DEF SendsOf
    <2>8. Receives(recvs, c) = 0 /\ Tasks(ioQueue, c) \in Nat /\ Handlers(sends, c) \in Nat
      BY <2>3, ReceivesType, CountTypes, Zenon DEF Seqs, ReaderClass
    <2>9. One(connect /\ c = Attempt) = 0
      BY <2>3 DEF One
    <2> QED BY <2>6, <2>7, <2>8, <2>9 DEF Pending, Tasks, Handlers, c
  <1>1. RInv /\ AccountInv => RequestAccounted
    <2> SUFFICES ASSUME RInv, AccountInv, alive, NEW r \in Requests PROVE Places(r) = One(r \in posted)
      BY DEF RequestAccounted, One
    <2>1. Pending(Requesting(r)) = Cardinality(TasksOf(r)) + Cardinality(SendsOf(r))
      BY <1>PlacesCount DEF RInv, IInv
    <2>2. Account(r) = One(r \in posted)
      BY DEF AccountInv
    <2> QED BY <2>1, <2>2, Zenon DEF Places, Account, Flights, One
  <1> QED BY <1>1, KeepsAccount, InitRInv, NextRInv, InitAccount, PTL DEF Spec

\* The handler of request r is called, for the first time.
Once(r, status) ==
    r \in posted /\ answers[r] = << >> /\ answers' = [answers EXCEPT ![r] = << status >>]

\* The handler of a request is called once, with a status that agrees with the
\* state of the connection.
LEMMA AnswerSteps ==
  ASSUME RInv, AccountInv, Next
  PROVE  \/ UNCHANGED answers
         \/ /\ UNCHANGED << posted, events >>
            /\ \E r \in Requests : \E status \in Statuses :
                  /\ Once(r, status)
                  /\ status \in {"Ok", "ServerError"} => state = "Connected"
                  /\ status = "NotConnectedError" => state = "Inited"
  \* Answer is the first for a request that is pending or in flight.
  <1>AnswersOnce. ASSUME RInv, AccountInv, alive, NEW r \in Requests, NEW status, Answer(r, status),
                         Pending(Requesting(r)) # 0 \/ Flights(r) # {}
                  PROVE  Once(r, status)
    <2> USE <1>AnswersOnce
    <2>0. Seqs /\ OwnRequests /\ FlightInv
      BY DEF RInv, IInv, AccountInv
    <2>1. /\ Pending(Requesting(r)) \in Nat /\ Len(answers[r]) \in Nat /\ Cardinality(Flights(r)) \in Nat
          /\ Cardinality(Flights(r)) = 0 <=> Flights(r) = {}
      BY <2>0, AccountTypes, Zenon
    <2>2. /\ One(r \in lost) \in {0, 1} /\ One(r \in posted) \in {0, 1}
          /\ One(r \in posted) = 1 <=> r \in posted
      BY DEF One
    <2>3. Account(r) = One(r \in posted)
      BY DEF AccountInv
    <2>4. Pending(Requesting(r)) # 0 \/ Cardinality(Flights(r)) # 0
      BY <2>1
    <2>5. One(r \in posted) = 1 /\ Len(answers[r]) = 0
      BY <2>1, <2>2, <2>3, <2>4 DEF Account
    <2>6. answers[r] = << >>
      BY <2>0, <2>5, SeqShape, Zenon DEF OwnRequests
    <2>7. answers' = [answers EXCEPT ![r] = Append(<< >>, status)] /\ Append(<< >>, status) = << status >>
      BY <2>6 DEF Answer
    <2> QED BY <2>2, <2>5, <2>6, <2>7, Zenon DEF Once
  \* Finish calls the handler of a request in flight, or none.
  <1>FinishOnce. ASSUME RInv, AccountInv, alive, NEW id, NEW status, Finish(id, status)
                 PROVE  UNCHANGED answers \/ \E r \in Requests : Once(r, status)
    <2> USE <1>FinishOnce
    <2>1. CASE Entries(id) = {}
      BY <2>1 DEF Finish
    <2>2. CASE Entries(id) # {}
      <3>1. PICK q \in Entries(id) : Answer(q.req, status)
        BY <2>2 DEF Finish
      <3>2. q.req \in Requests /\ Flights(q.req) # {}
        BY Zenon DEF RInv, OwnRequests, Entries, Flights
      <3> QED BY <3>1, <3>2, <1>AnswersOnce
    <2> QED BY <2>1, <2>2
  <1>0. Seqs /\ OwnRequests /\ alive /\ IInv
    BY DEF RInv, IInv, Next
  <1>1. CASE OnPostRequest
    <2>1. CASE UNCHANGED answers
      BY <2>1
    <2>2. CASE state = "Inited" /\ Answer(Task.req, "NotConnectedError")
      <3>1. PICK r : r = Task.req
        OBVIOUS
      <3>2. Runs("PostRequest") /\ UNCHANGED << posted, events >>
        BY <1>1, Zenon DEF OnPostRequest, appVars
      <3>3. Task \in Range(ioQueue) /\ Task.kind = "PostRequest"
        BY <1>0, <3>2, RunsFacts
      <3>4. TaskClass(Task) = Requesting(r) /\ r \in Requests
        BY <1>0, <3>1, <3>3, Zenon DEF TaskClass, OwnRequests
      <3>5. Pending(Requesting(r)) # 0
        BY <1>0, <3>3, <3>4, PendingType, Zenon
      <3>6. Once(r, "NotConnectedError")
        BY <1>0, <2>2, <3>1, <3>4, <3>5, <1>AnswersOnce
      <3> QED BY <2>2, <3>2, <3>4, <3>6 DEF Statuses
    <2> QED BY <1>1, <2>1, <2>2, Zenon DEF OnPostRequest
  <1>2. CASE OnRequestSent
    <2>1. CASE UNCHANGED answers
      BY <2>1
    <2>2. CASE Answer(Task.handler.req, "InternalError")
      <3>1. PICK h : h = Task.handler
        OBVIOUS
      <3>2. UNCHANGED << posted, events >>
        BY <1>2, Zenon DEF OnRequestSent, appVars
      <3>3. h.req \in Requests
        BY <1>0, <1>2, <3>1, SentFlow, ZenonT(30) DEF OwnRequests
      <3>4. /\ Pending(Requesting(h.req)) = Pending(Requesting(h.req))' + One(Requesting(h.req) = Requesting(h.req))
            /\ Pending(Requesting(h.req))' \in Nat
        BY <1>0, <1>2, <3>1, DonePending, Zenon
      <3>5. Pending(Requesting(h.req)) # 0
        BY <3>4 DEF One
      <3>6. Once(h.req, "InternalError")
        BY <1>0, <2>2, <3>1, <3>3, <3>5, <1>AnswersOnce
      <3> QED BY <3>2, <3>3, <3>6 DEF Statuses
    <2> QED BY <1>2, <2>1, <2>2, Zenon DEF OnRequestSent
  <1>3. CASE ProcessMessage
    <2>1. CASE UNCHANGED answers
      BY <2>1
    <2>2. CASE state = "Connected" /\ \E status \in {"Ok", "ServerError"} : Finish(Packet.id, status)
      <3>1. PICK status \in {"Ok", "ServerError"} : Finish(Packet.id, status)
        BY <2>2
      <3>2. UNCHANGED answers \/ \E r \in Requests : Once(r, status)
        BY <1>0, <3>1, <1>FinishOnce
      <3>3. UNCHANGED << posted, events >> /\ status \in Statuses /\ status # "NotConnectedError"
        BY <1>3, Zenon DEF ProcessMessage, appVars, Statuses
      <3> QED BY <2>2, <3>2, <3>3
    <2> QED BY <1>3, <2>1, <2>2, Zenon DEF ProcessMessage
  <1>4. CASE OnRequestTimeout
    <2>1. Finish(Task.id, "Timeout") /\ UNCHANGED << posted, events >>
      BY <1>4 DEF OnRequestTimeout, appVars
    <2>2. UNCHANGED answers \/ \E r \in Requests : Once(r, "Timeout")
      BY <1>0, <2>1, <1>FinishOnce
    <2> QED BY <2>1, <2>2 DEF Statuses
  <1>5. CASE ~(OnPostRequest \/ OnRequestSent \/ ProcessMessage \/ OnRequestTimeout)
    <2>1. UNCHANGED answers
      BY <1>5, ZenonT(30) DEF Next, Worker, Environment, Application, historyVars, OnConnect,
            OnHandshakeSent, OnHandshakeRejected, OnHandshakeResponse, OnAckSent, OnReceive, ProcessFatal,
            ProcessHeartbeat, ReceivePackets, Disconnect, SendNextPacket, OnTick,
            OnHeartbeatSent, OnHeartbeatTimeout, ConnectCompletes, SendCompletes, SendFails, ReceiveCompletes,
            ReceiveFails, HeartbeatTimerExpires, HeartbeatTimeoutExpires, RequestTimerExpires, PostRequest, Start
    <2> QED BY <2>1
  <1> QED BY <1>1, <1>2, <1>3, <1>4, <1>5, Zenon
=============================================================================
