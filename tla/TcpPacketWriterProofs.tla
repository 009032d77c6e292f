----------------------- MODULE TcpPacketWriterProofs -----------------------
(***************************************************************************)
(* Proofs about TcpPacketWriter, for every set of packets, every limit of  *)
(* the queue and any number of connections.                                *)
(***************************************************************************)
EXTENDS TcpPacketWriter, SequenceTheorems, TLAPS

\* How long a prover may take over a step.
USE SMTT(30), ZenonT(30)

-----------------------------------------------------------------------------
(* Sequences *)

\* Moving the head of a queue to the end of the one before it.
LEMMA MoveHead ==
    ASSUME NEW S, NEW a \in Seq(S), NEW b \in Seq(S), b # << >>
    PROVE  Append(a, Head(b)) \o Tail(b) = a \o b
<1>1. /\ Head(b) \in S /\ Tail(b) \in Seq(S) /\ Len(Tail(b)) = Len(b) - 1
      /\ Append(a, Head(b)) \in Seq(S)
  BY HeadTailProperties, AppendProperties
<1>2. /\ Append(a, Head(b)) \o Tail(b) \in Seq(S) /\ a \o b \in Seq(S)
      /\ Len(Append(a, Head(b)) \o Tail(b)) = Len(a \o b)
  BY <1>1, AppendProperties, ConcatProperties
<1>3. \A i \in 1..Len(a \o b) : (Append(a, Head(b)) \o Tail(b))[i] = (a \o b)[i]
  BY <1>1
<1>. QED
  BY <1>2, <1>3, SeqEqual

\* Appending to the second of two sequences.
LEMMA ConcatAppend ==
    ASSUME NEW S, NEW a \in Seq(S), NEW b \in Seq(S), NEW x \in S
    PROVE  a \o Append(b, x) = Append(a \o b, x)
<1>1. /\ Append(b, x) \in Seq(S) /\ a \o b \in Seq(S)
      /\ a \o Append(b, x) \in Seq(S) /\ Append(a \o b, x) \in Seq(S)
      /\ Len(a \o Append(b, x)) = Len(Append(a \o b, x))
  BY AppendProperties, ConcatProperties
<1>2. \A i \in 1..Len(a \o Append(b, x)) : (a \o Append(b, x))[i] = Append(a \o b, x)[i]
  BY <1>1
<1>. QED
  BY <1>1, <1>2, SeqEqual

-----------------------------------------------------------------------------
(* Types *)

\* The completion of an operation.
LEMMA CompletionType ==
    ASSUME NEW op \in Ops, NEW ec \in {"success", "error"}
    PROVE  Completion(op, ec) \in Completions
BY DEF Ops, Completion, Completions

\* The operation that SendNextPacket starts.
LEMMA NextOpType ==
    ASSUME TypeOK, posts # << >>, packetSendQueue # << >>
    PROVE  NextOp \in Ops
<1>1. Head(posts) \in Packets /\ Head(packetSendQueue) \in Packets /\ writeId \in Nat
  BY DEF TypeOK
<1>. QED
  BY <1>1 DEF NextOp, Op, Ops

\* The completions of the operations that a closing socket gives up.
LEMMA AbortedType ==
    ASSUME NEW ops \in Seq(Ops)
    PROVE  /\ Aborted(ops) \in Seq(Completions)
           /\ Len(Aborted(ops)) = Len(ops)
           /\ \A i \in 1..Len(ops) : Aborted(ops)[i] = Completion(ops[i], "error")
<1>1. \A i \in 1..Len(ops) : Completion(ops[i], "error") \in Completions
  BY CompletionType
<1>2. Len(ops) \in Nat
  OBVIOUS
<1>. DEFINE c(i) == Completion(ops[i], "error")
<1>3. Aborted(ops) = [i \in 1..Len(ops) |-> c(i)]
  BY DEF Aborted
<1>4. \A i \in 1..Len(ops) : c(i) \in Completions
  BY <1>1
<1>. HIDE DEF c
<1>5. [i \in 1..Len(ops) |-> c(i)] \in Seq(Completions)
  BY <1>2, <1>4
<1>. QED
  BY <1>2, <1>3, <1>5 DEF c

\* The initial state has its types.
LEMMA TypeInit == Init => TypeOK
BY WriterAssumption DEF Init, TypeOK

\* The part of TypeOK that SendNextPacket changes whatever the socket does.
LEMMA TakeNextTypes ==
    ASSUME TypeOK, TakeNext
    PROVE  /\ (posts \in Seq(Packets))' /\ (packetSendQueue \in Seq(Packets))'
           /\ (writeId \in Nat)' /\ (writeBuffers \subseteq Nat)'
           /\ NextOp \in Ops /\ Head(packetSendQueue) \in Packets
           /\ Append(completions, Completion(NextOp, "error")) \in Seq(Completions)
           /\ Append(completions, Completion(NextOp, "success")) \in Seq(Completions)
<1>1. NextOp \in Ops
  BY NextOpType DEF TakeNext, NextWriteId
<1>2. Completion(NextOp, "error") \in Completions /\ Completion(NextOp, "success") \in Completions
  BY <1>1, CompletionType
<1>3. completions \in Seq(Completions)
  BY DEF TypeOK
<1>. QED
  BY <1>1, <1>2, <1>3 DEF TypeOK, TakeNext, NextWriteId

\* The oldest pending operation and its completion.
LEMMA HeadSendTypes ==
    ASSUME TypeOK, sends # << >>
    PROVE  /\ Tail(sends) \in Seq(Ops) /\ Head(sends).packet \in Packets
           /\ Append(completions, Completion(Head(sends), "error")) \in Seq(Completions)
           /\ Append(completions, Completion(Head(sends), "success")) \in Seq(Completions)
<1>1. Head(sends) \in Ops /\ Tail(sends) \in Seq(Ops)
  BY DEF TypeOK
<1>2. Completion(Head(sends), "error") \in Completions /\ Completion(Head(sends), "success") \in Completions
  BY <1>1, CompletionType
<1>3. Head(sends).packet \in Packets
  BY <1>1 DEF Ops
<1>. QED
  BY <1>1, <1>2, <1>3 DEF TypeOK

\* A write extends the wire.
LEMMA WriteType ==
    ASSUME TypeOK, NEW p \in Packets, NEW f \in {"whole", "part", "garbled"}
    PROVE  Append(wire, Write(p, f)) \in Seq(Writes)
<1>1. Write(p, f) \in Writes
  BY DEF Write, Writes
<1>. QED
  BY <1>1 DEF TypeOK

\* Every step keeps the types.
LEMMA TypeNext == TypeOK /\ [Next]_vars => TypeOK'
<1>. SUFFICES ASSUME TypeOK, [Next]_vars PROVE TypeOK'
  OBVIOUS
<1>. USE DEF queueVars, bufferVars, socketVars, historyVars
<1>1. ASSUME NEW p \in Packets, SendPacket(p) PROVE TypeOK'
  BY <1>1 DEF TypeOK, SendPacket
<1>2. ASSUME NEW p \in Packets, IgnorePacket(p) PROVE TypeOK'
  BY <1>2 DEF TypeOK, IgnorePacket
<1>3. CASE SendOnClosedSocket
  BY <1>3, TakeNextTypes DEF TypeOK, SendOnClosedSocket
<1>4. CASE SendAtOnce
  <2>1. (wire \in Seq(Writes))'
    BY <1>4, TakeNextTypes, WriteType DEF SendAtOnce
  <2>. QED
    BY <1>4, <2>1, TakeNextTypes DEF TypeOK, SendAtOnce
<1>5. CASE SendWhenReady
  <2>1. (sends \in Seq(Ops))'
    BY <1>5, TakeNextTypes DEF SendWhenReady, TypeOK
  <2>. QED
    BY <1>5, <2>1, TakeNextTypes DEF TypeOK, SendWhenReady
<1>6. CASE Writable
  <2>1. (wire \in Seq(Writes))'
    BY <1>6, HeadSendTypes, WriteType DEF Writable
  <2>. QED
    BY <1>6, <2>1, HeadSendTypes DEF TypeOK, Writable
<1>7. CASE WriteError
  BY <1>7, HeadSendTypes DEF TypeOK, WriteError
<1>8. CASE Disconnect
  <2>1. (completions \in Seq(Completions))'
    BY <1>8, AbortedType, ConcatProperties DEF Disconnect, TypeOK
  <2>2. (open \in BOOLEAN)' /\ (sends \in Seq(Ops))'
    BY <1>8, EmptySeq, Zenon DEF Disconnect
  <2>. QED
    BY <1>8, <2>1, <2>2 DEF TypeOK, Disconnect
<1>9. CASE Connect
  BY <1>9, WriterAssumption DEF TypeOK, Connect
<1>10. CASE Complete
  <2>. DEFINE c == Head(completions)
  <2>1. c \in Completions /\ Tail(completions) \in Seq(Completions)
    BY <1>10, HeadTailProperties DEF Complete, CallHandler, EraseBuffer, TypeOK
  <2>2. c.handler \in Packets /\ c.id \in Nat
    BY <2>1 DEF Completions
  <2>3. (completions \in Seq(Completions))' /\ (called \in Seq(Packets))'
    BY <1>10, <2>1, <2>2, AppendProperties DEF Complete, CallHandler, EraseBuffer, TypeOK
  <2>4. (failed \subseteq Nat)' /\ (writeBuffers \subseteq Nat)'
    BY <1>10, <2>2, Zenon DEF Complete, CallHandler, EraseBuffer, TypeOK
  <2>. QED
    BY <1>10, <2>3, <2>4 DEF TypeOK, Complete, CallHandler, EraseBuffer
<1>11. CASE UNCHANGED vars
  BY <1>11 DEF TypeOK, vars
<1>. QED
  BY <1>1, <1>2, <1>3, <1>4, <1>5, <1>6, <1>7, <1>8, <1>9, <1>10, <1>11 DEF Next

\* TypeOK is an invariant of the writer.
THEOREM WriterTypes == Spec => []TypeOK
BY TypeInit, TypeNext, PTL DEF Spec

-----------------------------------------------------------------------------
(* The order of the handlers *)

LEMMA HandlerTypes ==
    /\ \A op \in Ops : op.handler \in Packets
    /\ \A c \in Completions : c.handler \in Packets
BY DEF Ops, Completions

LEMMA HandlersOfOps ==
    ASSUME NEW ops \in Seq(Ops)
    PROVE  /\ HandlersOf(ops) \in Seq(Packets)
           /\ Len(HandlersOf(ops)) = Len(ops)
           /\ \A i \in 1..Len(ops) : HandlersOf(ops)[i] = ops[i].handler
<1>1. Len(ops) \in Nat /\ \A i \in 1..Len(ops) : ops[i].handler \in Packets
  <2>1. Len(ops) \in Nat /\ \A i \in 1..Len(ops) : ops[i] \in Ops
    OBVIOUS
  <2>. QED
    BY <2>1, HandlerTypes
<1>. QED
  BY <1>1 DEF HandlersOf

LEMMA HandlersOfCompletions ==
    ASSUME NEW cs \in Seq(Completions)
    PROVE  /\ HandlersOf(cs) \in Seq(Packets)
           /\ Len(HandlersOf(cs)) = Len(cs)
           /\ \A i \in 1..Len(cs) : HandlersOf(cs)[i] = cs[i].handler
<1>1. Len(cs) \in Nat /\ \A i \in 1..Len(cs) : cs[i].handler \in Packets
  <2>1. Len(cs) \in Nat /\ \A i \in 1..Len(cs) : cs[i] \in Completions
    OBVIOUS
  <2>. QED
    BY <2>1, HandlerTypes
<1>. QED
  BY <1>1 DEF HandlersOf

\* A completion that joins the queue joins it with its handler.
LEMMA HandlersOfAppend ==
    ASSUME NEW cs \in Seq(Completions), NEW op \in Ops, NEW ec \in {"success", "error"}
    PROVE  HandlersOf(Append(cs, Completion(op, ec))) = Append(HandlersOf(cs), op.handler)
<1>. DEFINE c == Completion(op, ec)
            lhs == HandlersOf(Append(cs, c))
            rhs == Append(HandlersOf(cs), op.handler)
<1>1. c \in Completions /\ c.handler = op.handler /\ op.handler \in Packets
  BY CompletionType DEF Completion, Ops
<1>. HIDE DEF c
<1>2. Append(cs, c) \in Seq(Completions) /\ Len(Append(cs, c)) = Len(cs) + 1
  BY <1>1
<1>3. HandlersOf(cs) \in Seq(Packets) /\ Len(HandlersOf(cs)) = Len(cs)
  BY HandlersOfCompletions
<1>4. lhs \in Seq(Packets) /\ rhs \in Seq(Packets) /\ Len(lhs) = Len(cs) + 1 /\ Len(rhs) = Len(cs) + 1
  <2>1. lhs \in Seq(Packets) /\ Len(lhs) = Len(cs) + 1
    BY <1>2, HandlersOfCompletions
  <2>2. rhs \in Seq(Packets) /\ Len(rhs) = Len(cs) + 1
    BY <1>1, <1>3, AppendProperties
  <2>. QED
    BY <2>1, <2>2
<1>5. ASSUME NEW i \in 1..Len(cs) + 1 PROVE lhs[i] = rhs[i]
  <2>1. lhs[i] = Append(cs, c)[i].handler
    BY <1>2, HandlersOfCompletions
  <2>2. CASE i \in 1..Len(cs)
    BY <2>1, <2>2, <1>1, <1>3, HandlersOfCompletions, AppendProperties
  <2>3. CASE i = Len(cs) + 1
    BY <2>1, <2>3, <1>1, <1>3, AppendProperties
  <2>4. Len(cs) \in Nat
    OBVIOUS
  <2>. HIDE DEF lhs, rhs
  <2>. QED
    BY <2>2, <2>3, <2>4
<1>. QED
  BY <1>4, <1>5, SeqEqual DEF c

LEMMA HandlersOfAppendOp ==
    ASSUME NEW ops \in Seq(Ops), NEW op \in Ops
    PROVE  HandlersOf(Append(ops, op)) = Append(HandlersOf(ops), op.handler)
<1>. DEFINE lhs == HandlersOf(Append(ops, op))
            rhs == Append(HandlersOf(ops), op.handler)
<1>1. op.handler \in Packets
  BY DEF Ops
<1>2. Append(ops, op) \in Seq(Ops) /\ Len(Append(ops, op)) = Len(ops) + 1
  OBVIOUS
<1>3. HandlersOf(ops) \in Seq(Packets) /\ Len(HandlersOf(ops)) = Len(ops)
  BY HandlersOfOps
<1>4. lhs \in Seq(Packets) /\ rhs \in Seq(Packets) /\ Len(lhs) = Len(ops) + 1 /\ Len(rhs) = Len(ops) + 1
  <2>1. lhs \in Seq(Packets) /\ Len(lhs) = Len(ops) + 1
    BY <1>2, HandlersOfOps
  <2>2. rhs \in Seq(Packets) /\ Len(rhs) = Len(ops) + 1
    BY <1>1, <1>3, AppendProperties
  <2>. QED
    BY <2>1, <2>2
<1>5. ASSUME NEW i \in 1..Len(ops) + 1 PROVE lhs[i] = rhs[i]
  <2>1. lhs[i] = Append(ops, op)[i].handler
    BY <1>2, HandlersOfOps
  <2>2. CASE i \in 1..Len(ops)
    BY <2>1, <2>2, <1>1, <1>3, HandlersOfOps, AppendProperties
  <2>3. CASE i = Len(ops) + 1
    BY <2>1, <2>3, <1>1, <1>3, AppendProperties
  <2>4. Len(ops) \in Nat
    OBVIOUS
  <2>. HIDE DEF lhs, rhs
  <2>. QED
    BY <2>2, <2>3, <2>4
<1>. QED
  BY <1>4, <1>5, SeqEqual

LEMMA HandlersOfTail ==
    ASSUME NEW T, T \in {Ops, Completions}, NEW s \in Seq(T), s # << >>
    PROVE  /\ HandlersOf(s) # << >>
           /\ Head(HandlersOf(s)) = Head(s).handler
           /\ Tail(HandlersOf(s)) = HandlersOf(Tail(s))
<1>0. Len(s) \in Nat /\ Len(s) > 0 /\ Tail(s) \in Seq(T) /\ Len(Tail(s)) = Len(s) - 1
  OBVIOUS
<1>1. /\ HandlersOf(s) \in Seq(Packets) /\ Len(HandlersOf(s)) = Len(s)
      /\ \A i \in 1..Len(s) : HandlersOf(s)[i] = s[i].handler
  BY HandlersOfOps, HandlersOfCompletions
<1>2. /\ HandlersOf(Tail(s)) \in Seq(Packets) /\ Len(HandlersOf(Tail(s))) = Len(s) - 1
      /\ \A i \in 1..Len(s) - 1 : HandlersOf(Tail(s))[i] = Tail(s)[i].handler
  BY <1>0, HandlersOfOps, HandlersOfCompletions
<1>3. HandlersOf(s) # << >> /\ Head(HandlersOf(s)) = Head(s).handler
  BY <1>0, <1>1
<1>4. /\ Tail(HandlersOf(s)) \in Seq(Packets) /\ Len(Tail(HandlersOf(s))) = Len(s) - 1
      /\ \A i \in 1..Len(s) - 1 : Tail(HandlersOf(s))[i] = HandlersOf(s)[i + 1]
  BY <1>1, <1>3, HeadTailProperties
<1>5. \A i \in 1..Len(s) - 1 : Tail(s)[i] = s[i + 1]
  BY <1>0, HeadTailProperties
<1>6. ASSUME NEW i \in 1..Len(s) - 1 PROVE Tail(HandlersOf(s))[i] = HandlersOf(Tail(s))[i]
  BY <1>0, <1>1, <1>2, <1>4, <1>5
<1>. QED
  BY <1>2, <1>3, <1>4, <1>6, SeqEqual

\* Giving up the pending operations keeps the order of their handlers.
LEMMA HandlersOfAborted ==
    ASSUME NEW cs \in Seq(Completions), NEW ops \in Seq(Ops)
    PROVE  HandlersOf(cs \o Aborted(ops)) = HandlersOf(cs) \o HandlersOf(ops)
<1>. DEFINE n == Len(cs)
            m == Len(ops)
            lhs == HandlersOf(cs \o Aborted(ops))
            rhs == HandlersOf(cs) \o HandlersOf(ops)
<1>0. n \in Nat /\ m \in Nat
  OBVIOUS
<1>1. Aborted(ops) \in Seq(Completions) /\ Len(Aborted(ops)) = m
  BY AbortedType
<1>2. ASSUME NEW i \in 1..m PROVE Aborted(ops)[i].handler = ops[i].handler
  <2>1. Aborted(ops)[i] = Completion(ops[i], "error")
    BY AbortedType
  <2>. QED
    BY <2>1 DEF Completion
<1>3. cs \o Aborted(ops) \in Seq(Completions) /\ Len(cs \o Aborted(ops)) = n + m
  <2>1. ASSUME NEW a \in Seq(Completions), NEW b \in Seq(Completions)
        PROVE  a \o b \in Seq(Completions) /\ Len(a \o b) = Len(a) + Len(b)
    BY ConcatProperties
  <2>. QED
    BY <1>1, <2>1
<1>4. /\ HandlersOf(cs) \in Seq(Packets) /\ Len(HandlersOf(cs)) = n
      /\ HandlersOf(ops) \in Seq(Packets) /\ Len(HandlersOf(ops)) = m
  BY HandlersOfOps, HandlersOfCompletions
<1>5. rhs \in Seq(Packets) /\ Len(rhs) = n + m
  <2>1. rhs \in Seq(Packets) /\ Len(rhs) = Len(HandlersOf(cs)) + Len(HandlersOf(ops))
    BY <1>4, ConcatProperties
  <2>. QED
    BY <2>1, <1>4
<1>6. lhs \in Seq(Packets) /\ Len(lhs) = n + m
  BY <1>3, HandlersOfCompletions
<1>7. ASSUME NEW i \in 1..n + m PROVE lhs[i] = rhs[i]
  <2>1. lhs[i] = (cs \o Aborted(ops))[i].handler
    BY <1>3, HandlersOfCompletions
  <2>2. CASE i \in 1..n
    <3>1. (cs \o Aborted(ops))[i] = cs[i] /\ rhs[i] = HandlersOf(cs)[i]
      BY <2>2, <1>0, <1>1, <1>4
    <3>. QED
      BY <2>1, <2>2, <3>1, HandlersOfCompletions
  <2>3. CASE i \in n + 1..n + m
    <3>1. i - n \in 1..m
      BY <1>0, <2>3
    <3>2. (cs \o Aborted(ops))[i] = Aborted(ops)[i - n] /\ rhs[i] = HandlersOf(ops)[i - n]
      BY <2>3, <1>0, <1>1, <1>4
    <3>3. HandlersOf(ops)[i - n] = ops[i - n].handler
      BY <3>1, HandlersOfOps
    <3>. QED
      BY <2>1, <3>1, <3>2, <3>3, <1>2
  <2>. HIDE DEF lhs, rhs, n, m
  <2>. QED
    BY <1>0, <2>2, <2>3
<1>. QED
  BY <1>5, <1>6, <1>7, SeqEqual

(***************************************************************************)
(* The inductive invariant.  A closed socket has no pending operation, so  *)
(* that a write that fails at once cannot overtake one.                    *)
(***************************************************************************)
OrderInv ==
    /\ TypeOK
    /\ PostsMatchQueue
    /\ HandlersInOrder
    /\ ~open => sends = << >>

\* The invariant holds initially.
LEMMA OrderInit == Init => OrderInv
<1>. SUFFICES ASSUME Init PROVE OrderInv
  OBVIOUS
<1>1. TypeOK
  BY TypeInit
<1>2. HandlersOf(<< >>) = << >>
  BY DEF HandlersOf
<1>3. HandlersInOrder
  BY <1>2 DEF Init, HandlersInOrder
<1>. QED
  BY <1>1, <1>3, WriterAssumption DEF Init, OrderInv, PostsMatchQueue

\* The queues of handlers, named for the steps below.
LEMMA QueueTypes ==
    ASSUME TypeOK
    PROVE  /\ called \in Seq(Packets) /\ posts \in Seq(Packets)
           /\ HandlersOf(completions) \in Seq(Packets) /\ HandlersOf(sends) \in Seq(Packets)
           /\ called \o HandlersOf(completions) \in Seq(Packets)
           /\ called \o HandlersOf(completions) \o HandlersOf(sends) \in Seq(Packets)
<1>1. /\ called \in Seq(Packets) /\ posts \in Seq(Packets)
      /\ completions \in Seq(Completions) /\ sends \in Seq(Ops)
  BY DEF TypeOK
<1>2. HandlersOf(completions) \in Seq(Packets) /\ HandlersOf(sends) \in Seq(Packets)
  BY <1>1, HandlersOfOps, HandlersOfCompletions
<1>. QED
  BY <1>1, <1>2, ConcatProperties

\* A packet taken by SendNextPacket whose write completes at once: no operation
\* is pending before it.
LEMMA CompletedAtOnce ==
    ASSUME OrderInv, TakeNext, sends = << >>, NEW ec \in {"success", "error"},
           completions' = Append(completions, Completion(NextOp, ec)),
           UNCHANGED << sends, called, submitted >>
    PROVE  HandlersInOrder'
<1>. DEFINE C == HandlersOf(completions)
<1>0. TypeOK /\ posts # << >> /\ packetSendQueue # << >>
  BY DEF OrderInv, TakeNext, NextWriteId
<1>1. called \in Seq(Packets) /\ posts \in Seq(Packets) /\ C \in Seq(Packets)
      /\ called \o C \in Seq(Packets)
  BY <1>0, QueueTypes
<1>2. HandlersOf(sends) = << >>
  BY DEF HandlersOf
<1>3. HandlersOf(completions') = Append(C, Head(posts))
  <2>1. NextOp \in Ops /\ NextOp.handler = Head(posts)
    BY <1>0, NextOpType DEF NextOp, Op
  <2>2. completions \in Seq(Completions)
    BY <1>0 DEF TypeOK
  <2>. QED
    BY <2>1, <2>2, HandlersOfAppend
<1>4. submitted = (called \o C) \o posts
  BY <1>1, <1>2, ConcatEmptySeq DEF OrderInv, HandlersInOrder
<1>. HIDE DEF C
<1>5. Head(posts) \in Packets /\ Tail(posts) \in Seq(Packets)
  BY <1>0, <1>1
<1>6. called \o Append(C, Head(posts)) = Append(called \o C, Head(posts))
  BY <1>1, <1>5, ConcatAppend
<1>7. Append(called \o C, Head(posts)) \o Tail(posts) = (called \o C) \o posts
  BY <1>0, <1>1, MoveHead
<1>8. called \o Append(C, Head(posts)) \in Seq(Packets)
  BY <1>1, <1>5, <1>6, AppendProperties
<1>9. (called \o Append(C, Head(posts))) \o << >> = called \o Append(C, Head(posts))
  BY <1>8, ConcatEmptySeq
<1>. QED
  BY <1>2, <1>3, <1>4, <1>6, <1>7, <1>9 DEF HandlersInOrder, TakeNext, NextWriteId

\* The oldest pending operation completes.
LEMMA CompletedLater ==
    ASSUME OrderInv, sends # << >>, sends' = Tail(sends), NEW ec \in {"success", "error"},
           completions' = Append(completions, Completion(Head(sends), ec)),
           UNCHANGED << posts, called, submitted >>
    PROVE  HandlersInOrder'
<1>. DEFINE C == HandlersOf(completions)
            P == HandlersOf(sends)
<1>0. TypeOK /\ completions \in Seq(Completions) /\ sends \in Seq(Ops)
  BY DEF OrderInv, TypeOK
<1>1. /\ called \in Seq(Packets) /\ posts \in Seq(Packets)
      /\ C \in Seq(Packets) /\ P \in Seq(Packets) /\ called \o C \in Seq(Packets)
  BY <1>0, QueueTypes
<1>2. P # << >> /\ Head(P) = Head(sends).handler /\ Tail(P) = HandlersOf(sends')
  BY <1>0, HandlersOfTail
<1>3. HandlersOf(completions') = Append(C, Head(P))
  <2>1. Head(sends) \in Ops
    BY <1>0
  <2>. QED
    BY <2>1, <1>0, <1>2, HandlersOfAppend
<1>4. submitted = (called \o C) \o P \o posts
  BY DEF OrderInv, HandlersInOrder
<1>. HIDE DEF C, P
<1>5. Head(P) \in Packets
  BY <1>1, <1>2
<1>6. called \o Append(C, Head(P)) = Append(called \o C, Head(P))
  BY <1>1, <1>5, ConcatAppend
<1>7. Append(called \o C, Head(P)) \o Tail(P) = (called \o C) \o P
  BY <1>1, <1>2, MoveHead
<1>. QED
  BY <1>2, <1>3, <1>4, <1>6, <1>7 DEF HandlersInOrder

\* Every step keeps the invariant.
LEMMA OrderNext == OrderInv /\ [Next]_vars => OrderInv'
<1>. SUFFICES ASSUME OrderInv, [Next]_vars PROVE OrderInv'
  OBVIOUS
<1>. USE DEF queueVars, bufferVars, socketVars, historyVars
<1>. DEFINE C == HandlersOf(completions)
            P == HandlersOf(sends)
<1>0. TypeOK /\ TypeOK'
  BY TypeNext DEF OrderInv
<1>a. /\ called \in Seq(Packets) /\ posts \in Seq(Packets)
      /\ C \in Seq(Packets) /\ P \in Seq(Packets)
      /\ called \o C \in Seq(Packets) /\ called \o C \o P \in Seq(Packets)
  BY <1>0, QueueTypes
<1>b. submitted = (called \o C) \o P \o posts
  BY DEF OrderInv, HandlersInOrder
<1>c. posts = packetSendQueue /\ Len(posts) \in Nat /\ MaxQueued \in Nat /\ Len(posts) <= MaxQueued
  BY <1>a, WriterAssumption DEF OrderInv, PostsMatchQueue
<1>1. ASSUME NEW p \in Packets, SendPacket(p) PROVE OrderInv'
  <2>1. ((called \o C) \o P) \o Append(posts, p) = Append(((called \o C) \o P) \o posts, p)
    BY <1>a, ConcatAppend
  <2>2. HandlersInOrder'
    BY <1>1, <1>b, <2>1 DEF SendPacket, HandlersInOrder
  <2>3. PostsMatchQueue'
    BY <1>1, <1>a, <1>c DEF SendPacket, PostsMatchQueue, QueueFull
  <2>. QED
    BY <1>0, <1>1, <2>2, <2>3 DEF OrderInv, SendPacket
<1>2. ASSUME NEW p \in Packets, IgnorePacket(p) PROVE OrderInv'
  BY <1>0, <1>2 DEF OrderInv, IgnorePacket, PostsMatchQueue, HandlersInOrder
<1>3. ASSUME TakeNext PROVE PostsMatchQueue'
  BY <1>3, <1>a, <1>c DEF TakeNext, NextWriteId, PostsMatchQueue
<1>4. CASE SendOnClosedSocket
  <2>1. sends = << >> /\ TakeNext
    BY <1>4 DEF OrderInv, SendOnClosedSocket
  <2>2. HandlersInOrder'
    BY <1>4, <2>1, CompletedAtOnce DEF SendOnClosedSocket
  <2>. QED
    BY <1>0, <1>3, <1>4, <2>1, <2>2 DEF OrderInv, SendOnClosedSocket
<1>5. CASE SendAtOnce
  <2>1. HandlersInOrder'
    BY <1>5, CompletedAtOnce DEF SendAtOnce
  <2>. QED
    BY <1>0, <1>3, <1>5, <2>1 DEF OrderInv, SendAtOnce
<1>6. CASE SendWhenReady
  <2>0. TakeNext /\ posts # << >> /\ packetSendQueue # << >> /\ sends \in Seq(Ops)
    BY <1>0, <1>6 DEF SendWhenReady, TakeNext, NextWriteId, TypeOK
  <2>1. NextOp \in Ops /\ NextOp.handler = Head(posts)
    BY <1>0, <2>0, NextOpType DEF NextOp, Op
  <2>2. HandlersOf(sends') = Append(P, Head(posts))
    BY <1>6, <2>0, <2>1, HandlersOfAppendOp DEF SendWhenReady
  <2>3. Head(posts) \in Packets /\ Tail(posts) \in Seq(Packets)
    BY <2>0, <1>a
  <2>4. (called \o C) \o Append(P, Head(posts)) = Append((called \o C) \o P, Head(posts))
    BY <1>a, <2>3, ConcatAppend
  <2>5. Append((called \o C) \o P, Head(posts)) \o Tail(posts) = ((called \o C) \o P) \o posts
    BY <1>a, <2>0, MoveHead
  <2>6. HandlersInOrder'
    BY <1>6, <1>b, <2>2, <2>4, <2>5 DEF SendWhenReady, TakeNext, NextWriteId, HandlersInOrder
  <2>. QED
    BY <1>0, <1>3, <1>6, <2>0, <2>6 DEF OrderInv, SendWhenReady
<1>7. CASE Writable
  <2>1. HandlersInOrder'
    BY <1>7, CompletedLater DEF Writable
  <2>. QED
    BY <1>0, <1>7, <2>1 DEF OrderInv, Writable, PostsMatchQueue
<1>8. CASE WriteError
  <2>1. HandlersInOrder'
    BY <1>8, CompletedLater DEF WriteError
  <2>. QED
    BY <1>0, <1>8, <2>1 DEF OrderInv, WriteError, PostsMatchQueue
<1>9. CASE Disconnect
  <2>1. HandlersOf(completions') = C \o P
    BY <1>0, <1>9, HandlersOfAborted DEF Disconnect, TypeOK
  <2>2. HandlersOf(sends') = << >>
    BY <1>9 DEF Disconnect, HandlersOf
  <2>3. (called \o (C \o P)) \o << >> = (called \o C) \o P
    <3>1. ASSUME NEW a \in Seq(Packets), NEW b \in Seq(Packets), NEW c \in Seq(Packets)
          PROVE  (a \o (b \o c)) \o << >> = (a \o b) \o c
      <4>1. a \o (b \o c) \in Seq(Packets)
        BY ConcatProperties
      <4>2. (a \o (b \o c)) \o << >> = a \o (b \o c)
        BY <4>1, ConcatEmptySeq
      <4>3. a \o (b \o c) = (a \o b) \o c
        BY ConcatAssociative
      <4>. QED
        BY <4>2, <4>3
    <3>. QED
      BY <1>a, <3>1
  <2>4. HandlersInOrder'
    BY <1>9, <1>b, <2>1, <2>2, <2>3 DEF Disconnect, HandlersInOrder
  <2>. QED
    BY <1>0, <1>9, <2>4 DEF OrderInv, Disconnect, PostsMatchQueue
<1>10. CASE Connect
  BY <1>0, <1>10 DEF OrderInv, Connect, PostsMatchQueue, HandlersInOrder
<1>11. CASE Complete
  <2>1. completions \in Seq(Completions) /\ completions # << >>
    BY <1>0, <1>11 DEF TypeOK, Complete, CallHandler, EraseBuffer
  <2>2. C # << >> /\ Head(C) = Head(completions).handler /\ Tail(C) = HandlersOf(Tail(completions))
    BY <2>1, HandlersOfTail
  <2>3. Append(called, Head(C)) \o Tail(C) = called \o C
    BY <1>a, <2>2, MoveHead
  <2>4. HandlersInOrder'
    BY <1>11, <1>b, <2>2, <2>3 DEF Complete, CallHandler, EraseBuffer, HandlersInOrder
  <2>. QED
    BY <1>0, <1>11, <2>4 DEF OrderInv, Complete, CallHandler, EraseBuffer, PostsMatchQueue
<1>12. CASE UNCHANGED vars
  BY <1>0, <1>12 DEF vars, OrderInv, PostsMatchQueue, HandlersInOrder
<1>. QED
  BY <1>1, <1>2, <1>4, <1>5, <1>6, <1>7, <1>8, <1>9, <1>10, <1>11, <1>12 DEF Next

\* One posted SendNextPacket per queued packet, in the same order: the assert
\* of SendNextPacket never fails and no handler reports on another's packet.
THEOREM WriterPostsMatchQueue == Spec => []PostsMatchQueue
<1>1. OrderInv => PostsMatchQueue
  BY DEF OrderInv
<1>. QED
  BY <1>1, OrderInit, OrderNext, PTL DEF Spec

\* SendHandlers are called in the order of SendPacket, none lost and none twice,
\* across write errors, disconnects and reconnects.
THEOREM WriterHandlersInOrder == Spec => []HandlersInOrder
<1>1. OrderInv => HandlersInOrder
  BY DEF OrderInv
<1>. QED
  BY <1>1, OrderInit, OrderNext, PTL DEF Spec

-----------------------------------------------------------------------------
(* The write buffers *)

IdsOf(s, m) == {s[i].id : i \in 1..m}

\* The ids of a queue before its head was removed.
LEMMA IdsRemoved ==
    ASSUME NEW s, NEW t, NEW m \in Nat, \A i \in 1..m : t[i].id = s[i + 1].id
    PROVE  IdsOf(s, m + 1) = IdsOf(t, m) \union {s[1].id}
<1>. USE DEF IdsOf
<1>1. ASSUME NEW k \in 1..m + 1, k # 1 PROVE k - 1 \in 1..m /\ t[k - 1].id = s[k].id
  <2>1. k - 1 \in 1..m /\ (k - 1) + 1 = k
    BY <1>1
  <2>. QED
    BY <2>1
<1>2. \A i \in 1..m : i + 1 \in 1..m + 1
  OBVIOUS
<1>3. 1 \in 1..m + 1
  OBVIOUS
<1>4. {s[i].id : i \in 1..m + 1} \subseteq {t[i].id : i \in 1..m} \union {s[1].id}
  <2>1. \A k \in 1..m + 1 : k = 1 \/ \E j \in 1..m : s[k].id = t[j].id
    BY <1>1
  <2>2. ASSUME NEW x \in {s[i].id : i \in 1..m + 1} PROVE x \in {t[i].id : i \in 1..m} \union {s[1].id}
    <3>1. PICK k \in 1..m + 1 : x = s[k].id
      BY <2>2, Zenon
    <3>2. k = 1 \/ \E j \in 1..m : s[k].id = t[j].id
      BY <2>1, Zenon
    <3>. QED
      BY <3>1, <3>2, Zenon
  <2>. QED
    BY <2>2, Zenon
<1>5. {t[i].id : i \in 1..m} \union {s[1].id} \subseteq {s[i].id : i \in 1..m + 1}
  BY <1>2, <1>3, Zenon
<1>. QED
  BY <1>4, <1>5, Zenon

(***************************************************************************)
(* The inductive invariant: an id belongs to at most one of the pending    *)
(* operations, completions and failed writes, so that the erase after a    *)
(* success frees no buffer but its own, and all ids are older than         *)
(* _writeId.                                                               *)
(***************************************************************************)
OldIds ==
    /\ \A i \in 1..Len(sends) : sends[i].id < writeId
    /\ \A i \in 1..Len(completions) : completions[i].id < writeId
    /\ \A f \in failed : f < writeId

DistinctIds ==
    /\ \A i, j \in 1..Len(sends) : i # j => sends[i].id # sends[j].id
    /\ \A i, j \in 1..Len(completions) : i # j => completions[i].id # completions[j].id
    /\ \A i \in 1..Len(sends), j \in 1..Len(completions) : sends[i].id # completions[j].id
    /\ \A i \in 1..Len(sends) : sends[i].id \notin failed
    /\ \A i \in 1..Len(completions) : completions[i].id \notin failed

BufferInv == TypeOK /\ BuffersAccounted /\ OldIds /\ DistinctIds

\* The ids of operations and completions are numbers.
LEMMA PendingTypes ==
    ASSUME TypeOK
    PROVE  /\ \A i \in 1..Len(sends) : sends[i].id \in Nat
           /\ \A i \in 1..Len(completions) : completions[i].id \in Nat
<1>1. \A i \in 1..Len(sends) : sends[i] \in Ops
  BY DEF TypeOK
<1>2. \A i \in 1..Len(completions) : completions[i] \in Completions
  BY DEF TypeOK
<1>. QED
  BY <1>1, <1>2 DEF Ops, Completions

\* The buffers of a packet that SendNextPacket takes, with its operation pending
\* or completed.
LEMMA BufferTaken ==
    ASSUME BufferInv, TakeNext, failed' = failed,
           \/ sends' = Append(sends, NextOp) /\ completions' = completions
           \/ \E ec \in {"success", "error"} :
                sends' = sends /\ completions' = Append(completions, Completion(NextOp, ec))
    PROVE  BuffersAccounted' /\ OldIds' /\ DistinctIds'
<1>. USE DEF BufferInv
<1>1. /\ sends \in Seq(Ops) /\ completions \in Seq(Completions) /\ NextOp \in Ops
      /\ writeId \in Nat /\ failed \subseteq Nat /\ NextOp.id = writeId
      /\ writeId' = writeId + 1 /\ writeBuffers' = writeBuffers \union {writeId}
  BY TakeNextTypes DEF TypeOK, TakeNext, NextWriteId, NextOp, Op
<1>2. /\ \A i \in 1..Len(sends) : sends[i].id \in Nat
      /\ \A i \in 1..Len(completions) : completions[i].id \in Nat
  BY <1>1, PendingTypes
<1>3. CASE sends' = Append(sends, NextOp) /\ completions' = completions
  <2>1. /\ Len(sends') = Len(sends) + 1 /\ sends'[Len(sends) + 1].id = writeId
        /\ \A i \in 1..Len(sends) : sends'[i].id = sends[i].id
    BY <1>1, <1>3
  <2>2. OldIds'
    BY <1>1, <1>2, <1>3, <2>1 DEF OldIds
  <2>3. DistinctIds'
    BY <1>1, <1>2, <1>3, <2>1 DEF OldIds, DistinctIds
  <2>4. {sends'[i].id : i \in 1..Len(sends')} = {sends[i].id : i \in 1..Len(sends)} \union {writeId}
    <3>1. Len(sends) \in Nat
      BY <1>1
    <3>2. 1..Len(sends') = (1..Len(sends)) \union {Len(sends) + 1}
      BY <2>1, <3>1
    <3>3. ASSUME NEW x \in {sends'[i].id : i \in 1..Len(sends')}
          PROVE  x \in {sends[i].id : i \in 1..Len(sends)} \union {writeId}
      <4>1. PICK i \in 1..Len(sends') : x = sends'[i].id
        BY <3>3, Zenon
      <4>2. i \in 1..Len(sends) \/ i = Len(sends) + 1
        BY <3>2, <4>1
      <4>. QED
        BY <2>1, <4>1, <4>2, Zenon
    <3>4. ASSUME NEW x \in {sends[i].id : i \in 1..Len(sends)} PROVE x \in {sends'[i].id : i \in 1..Len(sends')}
      <4>1. PICK i \in 1..Len(sends) : x = sends[i].id
        BY <3>4, Zenon
      <4>2. i \in 1..Len(sends')
        BY <3>2, <4>1
      <4>. QED
        BY <2>1, <4>1, <4>2, Zenon
    <3>5. writeId \in {sends'[i].id : i \in 1..Len(sends')}
      <4>1. Len(sends) + 1 \in 1..Len(sends')
        BY <3>2
      <4>. QED
        BY <2>1, <4>1, Zenon
    <3>. QED
      BY <3>3, <3>4, <3>5, Zenon
  <2>5. BuffersAccounted'
    BY <1>1, <1>3, <2>4 DEF BuffersAccounted
  <2>. QED
    BY <2>2, <2>3, <2>5
<1>4. ASSUME NEW ec \in {"success", "error"},
             sends' = sends, completions' = Append(completions, Completion(NextOp, ec))
      PROVE  BuffersAccounted' /\ OldIds' /\ DistinctIds'
  <2>0. Completion(NextOp, ec) \in Completions /\ Completion(NextOp, ec).id = writeId
    BY <1>1, CompletionType DEF Completion
  <2>1. /\ Len(completions') = Len(completions) + 1
        /\ completions'[Len(completions) + 1].id = writeId
        /\ \A i \in 1..Len(completions) : completions'[i].id = completions[i].id
    BY <1>1, <1>4, <2>0
  <2>2. OldIds'
    BY <1>1, <1>2, <1>4, <2>1 DEF OldIds
  <2>3. DistinctIds'
    BY <1>1, <1>2, <1>4, <2>1 DEF OldIds, DistinctIds
  <2>4. BuffersAccounted'
    BY <1>1, <1>4, <2>1 DEF BuffersAccounted
  <2>. QED
    BY <2>2, <2>3, <2>4
<1>. QED
  BY <1>3, <1>4

\* The buffers when the oldest pending operation completes.
LEMMA BufferOfWrite ==
    ASSUME BufferInv, sends # << >>, sends' = Tail(sends), NEW ec \in {"success", "error"},
           completions' = Append(completions, Completion(Head(sends), ec)),
           UNCHANGED << writeId, writeBuffers, failed >>
    PROVE  BuffersAccounted' /\ OldIds' /\ DistinctIds'
<1>. USE DEF BufferInv
<1>1. /\ sends \in Seq(Ops) /\ completions \in Seq(Completions) /\ Head(sends) \in Ops
      /\ Head(sends) = sends[1] /\ 1 \in 1..Len(sends)
  BY DEF TypeOK
<1>2. /\ Completion(Head(sends), ec) \in Completions
      /\ Completion(Head(sends), ec).id = sends[1].id
  BY <1>1, CompletionType DEF Completion
<1>3. /\ Len(completions) \in Nat /\ Len(completions') = Len(completions) + 1
      /\ completions'[Len(completions) + 1].id = sends[1].id
      /\ \A i \in 1..Len(completions) : completions'[i].id = completions[i].id
  BY <1>1, <1>2
<1>4. /\ Len(sends) \in Nat /\ Len(sends') = Len(sends) - 1
      /\ \A i \in 1..Len(sends') : i + 1 \in 1..Len(sends) /\ sends'[i].id = sends[i + 1].id
      /\ \A i \in 1..Len(sends) : i # 1 => i - 1 \in 1..Len(sends') /\ sends'[i - 1].id = sends[i].id
  BY <1>1
<1>5. OldIds'
  BY <1>1, <1>3, <1>4 DEF OldIds
<1>6. DistinctIds'
  BY <1>1, <1>3, <1>4 DEF DistinctIds
<1>7. {completions'[i].id : i \in 1..Len(completions')}
        = {completions[i].id : i \in 1..Len(completions)} \union {sends[1].id}
  BY <1>3
<1>8. {sends[i].id : i \in 1..Len(sends)}
        = {sends'[i].id : i \in 1..Len(sends')} \union {sends[1].id}
  <2>0. Len(sends) - 1 \in Nat
    BY <1>1, <1>4
  <2>1. PICK m \in Nat : m = Len(sends')
    BY <1>4, <2>0
  <2>2. Len(sends) = m + 1 /\ \A i \in 1..m : sends'[i].id = sends[i + 1].id
    BY <1>1, <1>4, <2>1
  <2>3. IdsOf(sends, m + 1) = IdsOf(sends', m) \union {sends[1].id}
    BY <2>1, <2>2, IdsRemoved
  <2>. QED
    BY <2>1, <2>2, <2>3 DEF IdsOf
<1>9. BuffersAccounted'
  BY <1>7, <1>8 DEF BuffersAccounted
<1>. QED
  BY <1>5, <1>6, <1>9

\* The buffers when the socket gives up its pending operations.
LEMMA BufferOfAborted ==
    ASSUME BufferInv, sends' = << >>, completions' = completions \o Aborted(sends),
           UNCHANGED << writeId, writeBuffers, failed >>
    PROVE  BuffersAccounted' /\ OldIds' /\ DistinctIds'
<1>. USE DEF BufferInv
<1>. DEFINE n == Len(completions)
<1>1. /\ sends \in Seq(Ops) /\ completions \in Seq(Completions)
      /\ Len(sends) \in Nat /\ n \in Nat
  BY DEF TypeOK
<1>a. /\ Aborted(sends) \in Seq(Completions) /\ Len(Aborted(sends)) = Len(sends)
      /\ \A i \in 1..Len(sends) : Aborted(sends)[i] = Completion(sends[i], "error")
  BY <1>1, AbortedType
<1>2. \A i \in 1..Len(sends) : Aborted(sends)[i].id = sends[i].id
  <2>1. \A i \in 1..Len(sends) : Completion(sends[i], "error").id = sends[i].id
    BY DEF Completion
  <2>. QED
    BY <1>a, <2>1
<1>3. /\ Len(completions') = n + Len(sends) /\ Len(sends') = 0
      /\ \A i \in 1..n : completions'[i].id = completions[i].id
      /\ \A i \in 1..Len(sends) : completions'[n + i].id = sends[i].id
  <2>1. /\ Len(completions') = n + Len(sends) /\ Len(sends') = 0
        /\ \A i \in 1..n : completions'[i] = completions[i]
        /\ \A i \in 1..Len(sends) : completions'[n + i] = Aborted(sends)[i]
    <3>1. \A c \in Seq(Completions) : \A i \in 1..Len(c) :
            (completions \o c)[n + i] = c[i] /\ Len(completions \o c) = n + Len(c)
      BY <1>1
    <3>2. completions' = completions \o Aborted(sends) /\ sends' = << >>
      OBVIOUS
    <3>3. Len(completions \o Aborted(sends)) = n + Len(Aborted(sends))
      BY <1>1, <1>a, ConcatProperties
    <3>4. \A i \in 1..n : (completions \o Aborted(sends))[i] = completions[i]
      BY <1>1, <1>a, ConcatProperties
    <3>. QED
      BY <1>a, <3>1, <3>2, <3>3, <3>4
  <2>. QED
    BY <1>2, <2>1
<1>4. \A i \in 1..Len(completions') :
        i \in 1..n \/ (i - n \in 1..Len(sends) /\ completions'[i].id = sends[i - n].id)
  BY <1>1, <1>3
<1>. HIDE DEF n
<1>5. OldIds'
  BY <1>1, <1>3, <1>4 DEF OldIds, n
<1>6. DistinctIds'
  <2>1. ASSUME NEW i \in 1..Len(completions'), NEW j \in 1..Len(completions'), i # j
        PROVE  completions'[i].id # completions'[j].id
    <3>1. CASE i \in 1..n /\ j \in 1..n
      BY <2>1, <3>1, <1>3 DEF DistinctIds, n
    <3>2. CASE i \in 1..n /\ j \notin 1..n
      BY <2>1, <3>2, <1>3, <1>4 DEF DistinctIds, n
    <3>3. CASE i \notin 1..n /\ j \in 1..n
      BY <2>1, <3>3, <1>3, <1>4 DEF DistinctIds, n
    <3>4. CASE i \notin 1..n /\ j \notin 1..n
      <4>1. i - n \in 1..Len(sends) /\ j - n \in 1..Len(sends) /\ i - n # j - n
        BY <1>1, <1>3, <1>4, <2>1, <3>4
      <4>. QED
        <5>1. completions'[i].id = sends[i - n].id /\ completions'[j].id = sends[j - n].id
          BY <1>4, <3>4
        <5>2. sends[i - n].id # sends[j - n].id
          BY <4>1, Zenon DEF DistinctIds
        <5>. QED
          BY <5>1, <5>2, Zenon
    <3>. QED
      BY <3>1, <3>2, <3>3, <3>4
  <2>2. ASSUME NEW i \in 1..Len(completions') PROVE completions'[i].id \notin failed
    <3>1. CASE i \in 1..n
      BY <1>3, <3>1 DEF DistinctIds, n
    <3>2. CASE i - n \in 1..Len(sends) /\ completions'[i].id = sends[i - n].id
      BY <3>2 DEF DistinctIds
    <3>. QED
      BY <1>4, <3>1, <3>2
  <2>. QED
    BY <1>3, <2>1, <2>2 DEF DistinctIds
<1>7. {completions'[i].id : i \in 1..Len(completions')}
        = {completions[i].id : i \in 1..Len(completions)} \union {sends[i].id : i \in 1..Len(sends)}
  <2>1. \A i \in 1..Len(completions') :
            \/ \E j \in 1..Len(completions) : completions'[i].id = completions[j].id
            \/ \E j \in 1..Len(sends) : completions'[i].id = sends[j].id
    BY <1>3, <1>4 DEF n
  <2>2. \A j \in 1..Len(completions) :
            \E i \in 1..Len(completions') : completions'[i].id = completions[j].id
    <3>1. \A j \in 1..n : j \in 1..Len(completions')
      BY <1>1, <1>3
    <3>. QED
      BY <1>3, <3>1 DEF n
  <2>3. \A j \in 1..Len(sends) :
            \E i \in 1..Len(completions') : completions'[i].id = sends[j].id
    <3>1. \A j \in 1..Len(sends) : n + j \in 1..Len(completions')
      BY <1>1, <1>3
    <3>. QED
      BY <1>3, <3>1
  <2>. DEFINE A == {completions'[i].id : i \in 1..Len(completions')}
              C == {completions[i].id : i \in 1..Len(completions)}
              S == {sends[i].id : i \in 1..Len(sends)}
  <2>4. ASSUME NEW x \in A PROVE x \in C \union S
    <3>1. PICK i \in 1..Len(completions') : x = completions'[i].id
      BY <2>4
    <3>. QED
      BY <2>1, <3>1
  <2>5. ASSUME NEW x \in C PROVE x \in A
    <3>1. PICK j \in 1..Len(completions) : x = completions[j].id
      BY <2>5
    <3>. QED
      BY <2>2, <3>1
  <2>6. ASSUME NEW x \in S PROVE x \in A
    <3>1. PICK j \in 1..Len(sends) : x = sends[j].id
      BY <2>6
    <3>. QED
      BY <2>3, <3>1
  <2>. HIDE DEF A, C, S
  <2>7. A = C \union S
    BY <2>4, <2>5, <2>6, Zenon
  <2>. QED
    BY <2>7 DEF A, C, S
<1>8. {sends'[i].id : i \in 1..Len(sends')} = {}
  BY <1>3
<1>9. BuffersAccounted'
  BY <1>7, <1>8 DEF BuffersAccounted
<1>. QED
  BY <1>5, <1>6, <1>9

\* The buffers when a completion handler has run.
LEMMA BufferOfCompletion ==
    ASSUME BufferInv, Complete
    PROVE  BuffersAccounted' /\ OldIds' /\ DistinctIds'
<1>. USE DEF BufferInv
<1>. DEFINE c == Head(completions)
<1>1. /\ completions \in Seq(Completions) /\ completions # << >> /\ completions' = Tail(completions)
      /\ sends' = sends /\ writeId' = writeId
      /\ failed' = IF c.ec = "success" THEN failed ELSE failed \union {c.id}
      /\ writeBuffers' = IF c.ec = "success" THEN writeBuffers \ {c.id} ELSE writeBuffers
  BY DEF TypeOK, Complete, EraseBuffer, socketVars
<1>2. /\ c.id = completions[1].id /\ 1 \in 1..Len(completions)
      /\ Len(completions) \in Nat /\ Len(completions') = Len(completions) - 1
      /\ \A i \in 1..Len(completions') :
            i + 1 \in 1..Len(completions) /\ completions'[i].id = completions[i + 1].id
      /\ \A i \in 1..Len(completions) : i # 1 =>
            i - 1 \in 1..Len(completions') /\ completions'[i - 1].id = completions[i].id
  BY <1>1
<1>. HIDE DEF c
<1>3. OldIds'
  BY <1>1, <1>2 DEF OldIds
<1>4. DistinctIds'
  <2>1. ASSUME NEW i \in 1..Len(completions'), NEW j \in 1..Len(completions'), i # j
        PROVE  completions'[i].id # completions'[j].id
    <3>1. /\ i + 1 \in 1..Len(completions) /\ j + 1 \in 1..Len(completions) /\ i + 1 # j + 1
          /\ completions'[i].id = completions[i + 1].id /\ completions'[j].id = completions[j + 1].id
      BY <1>2, <2>1
    <3>. QED
      BY <3>1 DEF DistinctIds
  <2>2. ASSUME NEW i \in 1..Len(completions') PROVE completions'[i].id \notin failed'
    <3>1. completions'[i].id # c.id /\ completions'[i].id \notin failed
      BY <1>2 DEF DistinctIds
    <3>. QED
      BY <1>1, <3>1
  <2>3. ASSUME NEW i \in 1..Len(sends) PROVE sends[i].id \notin failed'
    <3>1. sends[i].id # c.id /\ sends[i].id \notin failed
      BY <1>2 DEF DistinctIds
    <3>. QED
      BY <1>1, <3>1
  <2>4. ASSUME NEW i \in 1..Len(sends), NEW j \in 1..Len(completions')
        PROVE  sends[i].id # completions'[j].id
    BY <1>2 DEF DistinctIds
  <2>. QED
    BY <1>1, <2>1, <2>2, <2>3, <2>4 DEF DistinctIds
<1>5. {completions[i].id : i \in 1..Len(completions)}
        = {completions'[i].id : i \in 1..Len(completions')} \union {c.id}
  <2>1. \A i \in 1..Len(completions) :
            completions[i].id = c.id \/ \E j \in 1..Len(completions') : completions[i].id = completions'[j].id
    BY <1>2
  <2>2. \A j \in 1..Len(completions') : \E i \in 1..Len(completions) : completions[i].id = completions'[j].id
    BY <1>2
  <2>3. \E i \in 1..Len(completions) : completions[i].id = c.id
    BY <1>2
  <2>. QED
    <3>1. ASSUME NEW x \in {completions[i].id : i \in 1..Len(completions)}
          PROVE  x \in {completions'[i].id : i \in 1..Len(completions')} \union {c.id}
      <4>1. PICK i \in 1..Len(completions) : x = completions[i].id
        BY <3>1, Zenon
      <4>. QED
        BY <2>1, <4>1, Zenon
    <3>2. ASSUME NEW x \in {completions'[i].id : i \in 1..Len(completions')}
          PROVE  x \in {completions[i].id : i \in 1..Len(completions)}
      <4>1. PICK i \in 1..Len(completions') : x = completions'[i].id
        BY <3>2, Zenon
      <4>. QED
        BY <2>2, <4>1, Zenon
    <3>. QED
      BY <2>3, <3>1, <3>2, Zenon
<1>6. /\ c.id \notin {completions'[i].id : i \in 1..Len(completions')}
      /\ c.id \notin {sends[i].id : i \in 1..Len(sends)}
      /\ c.id \notin failed
  BY <1>2 DEF DistinctIds
<1>7. BuffersAccounted'
  BY <1>1, <1>5, <1>6 DEF BuffersAccounted
<1>. QED
  BY <1>3, <1>4, <1>7

\* Every step keeps the invariant.
LEMMA BufferNext == BufferInv /\ [Next]_vars => BufferInv'
<1>. SUFFICES ASSUME BufferInv, [Next]_vars PROVE BufferInv'
  OBVIOUS
<1>. USE DEF queueVars, bufferVars, socketVars, historyVars
<1>. DEFINE Kept == UNCHANGED << sends, completions, writeId, writeBuffers, failed >>
            Ids == BuffersAccounted /\ OldIds /\ DistinctIds
<1>1. TypeOK'
  BY TypeNext DEF BufferInv
<1>2. ASSUME Kept PROVE Ids'
  BY <1>2 DEF BufferInv, BuffersAccounted, OldIds, DistinctIds
<1>3. ASSUME NEW p \in Packets, SendPacket(p) \/ IgnorePacket(p) PROVE Kept
  BY <1>3 DEF SendPacket, IgnorePacket
<1>4. ASSUME SendOnClosedSocket PROVE Ids'
  BY <1>4, BufferTaken DEF SendOnClosedSocket
<1>5. ASSUME SendAtOnce PROVE Ids'
  BY <1>5, BufferTaken DEF SendAtOnce
<1>6. ASSUME SendWhenReady PROVE Ids'
  BY <1>6, BufferTaken DEF SendWhenReady
<1>7. ASSUME Writable PROVE Ids'
  BY <1>7, BufferOfWrite DEF Writable
<1>8. ASSUME WriteError PROVE Ids'
  BY <1>8, BufferOfWrite DEF WriteError
<1>9. ASSUME Disconnect PROVE Ids'
  BY <1>9, BufferOfAborted DEF Disconnect
<1>10. ASSUME Connect PROVE Ids'
  BY <1>2, <1>10 DEF Connect
<1>11. ASSUME Complete PROVE Ids'
  BY <1>11, BufferOfCompletion
<1>12. ASSUME UNCHANGED vars PROVE Ids'
  BY <1>2, <1>12 DEF vars
<1>. QED
  BY <1>1, <1>2, <1>3, <1>4, <1>5, <1>6, <1>7, <1>8, <1>9, <1>10, <1>11, <1>12 DEF Next, BufferInv

\* The invariant holds initially.
LEMMA BufferInit == Init => BufferInv
BY TypeInit DEF Init, BufferInv, BuffersAccounted, OldIds, DistinctIds

\* _writeBuffers holds the buffers under way and the failed ones, no more and no
\* less, for every sequence of sends, errors, disconnects and reconnects.
THEOREM WriterBuffersAccounted == Spec => []BuffersAccounted
<1>1. BufferInv => BuffersAccounted
  BY DEF BufferInv
<1>. QED
  BY <1>1, BufferInit, BufferNext, PTL DEF Spec

\* The assert before _writeBuffers[id] never fails: _writeId names a free id.
THEOREM WriterNextIdFree == Spec => []NextIdFree
<1>1. ASSUME BufferInv PROVE NextIdFree
  <2>1. writeId \in Nat
    BY <1>1 DEF BufferInv, TypeOK
  <2>. QED
    BY <1>1, <2>1 DEF BufferInv, BuffersAccounted, OldIds, NextIdFree
<1>. QED
  BY <1>1, BufferInit, BufferNext, PTL DEF Spec

-----------------------------------------------------------------------------
(* Refinement *)

\* Running a completion handler is a CallNext step of the abstract sender.
LEMMA CompleteCallsNext ==
    ASSUME OrderInv, Complete
    PROVE  Sender!CallNext
<1>. DEFINE C == HandlersOf(completions)
            rest == HandlersOf(sends) \o posts
<1>0. TypeOK /\ completions \in Seq(Completions) /\ completions # << >>
  BY DEF OrderInv, TypeOK, Complete, CallHandler, EraseBuffer
<1>1. C # << >> /\ Head(C) = Head(completions).handler
  BY <1>0, HandlersOfTail
<1>2. /\ called \in Seq(Packets) /\ C \in Seq(Packets) /\ called \o C \in Seq(Packets)
      /\ HandlersOf(sends) \in Seq(Packets) /\ posts \in Seq(Packets) /\ rest \in Seq(Packets)
  BY <1>0, QueueTypes, ConcatProperties
<1>3. submitted = (called \o C) \o rest
  <2>1. \A a, b, c \in Seq(Packets) : (a \o b) \o c = a \o (b \o c)
    BY ConcatAssociative
  <2>2. ((called \o C) \o HandlersOf(sends)) \o posts = (called \o C) \o rest
    <3>1. PICK a \in Seq(Packets), b \in Seq(Packets), c \in Seq(Packets) :
              a = called \o C /\ b = HandlersOf(sends) /\ c = posts
      BY <1>2, Zenon
    <3>2. a \in Seq(Packets) /\ b \in Seq(Packets) /\ c \in Seq(Packets)
      BY <3>1
    <3>3. (a \o b) \o c = a \o (b \o c)
      BY <2>1, <3>2, Zenon
    <3>. QED
      BY <3>1, <3>3, Zenon DEF rest
  <2>. QED
    BY <2>2 DEF OrderInv, HandlersInOrder
<1>. HIDE DEF C, rest
<1>4. /\ Len(C) > 0 /\ Len(called) + 1 <= Len(called \o C)
      /\ (called \o C)[Len(called) + 1] = Head(C)
  BY <1>1, <1>2
<1>5. Len(called) < Len(submitted) /\ submitted[Len(called) + 1] = (called \o C)[Len(called) + 1]
  BY <1>2, <1>3, <1>4
<1>. QED
  BY <1>1, <1>4, <1>5 DEF Complete, CallHandler, EraseBuffer, Sender!CallNext

\* The writer implements the promise of PacketStream::SendPacket.
THEOREM WriterImplementsSender == Spec => ImplementsSender
<1>1. Init => Sender!Init
  BY DEF Init, Sender!Init
<1>2. OrderInv /\ [Next]_vars => [Sender!Next]_Sender!vars
  <2>. SUFFICES ASSUME OrderInv, [Next]_vars PROVE [Sender!Next]_Sender!vars
    OBVIOUS
  <2>. USE DEF queueVars, bufferVars, socketVars, historyVars, Sender!vars
  <2>1. ASSUME NEW p \in Packets, SendPacket(p) PROVE Sender!Next
    BY <2>1 DEF SendPacket, Fresh, Sender!Next, Sender!Submit
  <2>2. ASSUME NEW p \in Packets, IgnorePacket(p) PROVE UNCHANGED Sender!vars
    BY <2>2 DEF IgnorePacket
  <2>3. CASE SendOnClosedSocket
    BY <2>3 DEF SendOnClosedSocket
  <2>4. CASE SendAtOnce
    BY <2>4 DEF SendAtOnce
  <2>5. CASE SendWhenReady
    BY <2>5 DEF SendWhenReady
  <2>6. CASE Writable
    BY <2>6 DEF Writable
  <2>7. CASE WriteError
    BY <2>7 DEF WriteError
  <2>8. CASE Disconnect
    BY <2>8 DEF Disconnect
  <2>9. CASE Connect
    BY <2>9 DEF Connect
  <2>10. CASE Complete
    BY <2>10, CompleteCallsNext DEF Sender!Next
  <2>11. CASE UNCHANGED vars
    BY <2>11 DEF vars
  <2>. QED
    BY <2>1, <2>2, <2>3, <2>4, <2>5, <2>6, <2>7, <2>8, <2>9, <2>10, <2>11 DEF Next
<1>. QED
  BY <1>1, <1>2, OrderInit, OrderNext, PTL DEF Spec, ImplementsSender, Sender!Spec
=============================================================================
