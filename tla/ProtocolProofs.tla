--------------------------- MODULE ProtocolProofs ---------------------------
(***************************************************************************)
(* Two parts of the protocol that stand apart from the handlers of a       *)
(* connection: heartbeats in time, for every interval, factor, lag and     *)
(* skew; and the bodies of messages, for every route dictionary, every id  *)
(* below 128^3 and payloads of every size.                                 *)
(***************************************************************************)
EXTENDS Heartbeat, Decoder, WellFoundedInduction, TLAPS

\* How long a prover may take over a step.
USE SMTT(30), ZenonT(30)

(* The heartbeat and its timeout *)

\* The heartbeat timer is always running, from the last heartbeat.
TickRuns ==
    connected =>
        /\ tick # "none"
        /\ tickAt = lastBeat + heartbeatInterval
        /\ now <= tickAt + MaxLag
        /\ tick = "ready" => tickAt <= now

\* The timeout runs until the server is first heard of; one that has expired
\* did so before that, or the heartbeat came after its time.
TimeoutRuns ==
    connected =>
        /\ timeout # "none" =>
             /\ since + heartbeatTimeoutSeconds <= timeoutAt
             /\ timeoutAt <= since + heartbeatTimeoutSeconds + MaxSkew
             /\ now <= timeoutAt + MaxLag
        /\ timeout = "pending" => firstHeard = -1
        /\ firstHeard = -1 => timeout # "none"
        /\ timeout = "ready" =>
             /\ timeoutAt - MaxSkew <= now
             /\ firstHeard # -1 => timeoutAt - MaxSkew <= firstHeard

\* The inductive invariant of the heartbeats.
HeartbeatInv == TypeOK /\ TickRuns /\ TimeoutRuns

\* Seconds times the factor are a natural number.
LEMMA TimeoutIsNat == \A i \in Intervals \union {0} : i * kHeartbeatFactor \in Nat
  <1>1. SUFFICES ASSUME NEW i \in Nat PROVE i * kHeartbeatFactor \in Nat
    BY HeartbeatAssumption
  <1>2. QED
    BY HeartbeatAssumption

\* HeartbeatInv holds before the first connection.
LEMMA InitHeartbeat == HeartbeatInit => HeartbeatInv
  <1> SUFFICES ASSUME HeartbeatInit PROVE HeartbeatInv
    OBVIOUS
  <1>1. TypeOK
    <2>1. now \in Nat /\ skew \in 0..MaxSkew /\ heartbeatInterval \in Intervals \union {0}
      BY DEF HeartbeatInit
    <2>2. connected \in BOOLEAN /\ tick \in Waits /\ timeout \in Waits /\ tickAt \in Nat /\ timeoutAt \in Nat
      BY Zenon DEF HeartbeatInit, Waits
    <2>3. since \in 0..now /\ lastBeat \in 0..now /\ lastHeard \in 0..now /\ firstHeard \in -1..now
      BY DEF HeartbeatInit
    <2>4. tick # "pending" /\ timeout # "pending"
      BY DEF HeartbeatInit
    <2> QED BY <2>1, <2>2, <2>3, <2>4 DEF TypeOK
  <1>2. TickRuns /\ TimeoutRuns
    BY DEF HeartbeatInit, TickRuns, TimeoutRuns
  <1> QED BY <1>1, <1>2 DEF HeartbeatInv

\* No step of State or of the clocks breaks HeartbeatInv.
LEMMA NextHeartbeat == HeartbeatInv /\ [HeartbeatNext]_heartbeatVars => HeartbeatInv'
  <1> SUFFICES ASSUME HeartbeatInv, [HeartbeatNext]_heartbeatVars PROVE HeartbeatInv'
    OBVIOUS
  <1> DEFINE hts == heartbeatTimeoutSeconds
  <1>0. hts \in Nat
    BY TimeoutIsNat DEF HeartbeatInv, TypeOK, heartbeatTimeoutSeconds
  <1>s. ASSUME heartbeatInterval' = heartbeatInterval PROVE hts' = hts
    BY <1>s DEF heartbeatTimeoutSeconds
  <1> USE HeartbeatAssumption DEF HeartbeatInv, TypeOK, Waits, clockVars, tickVars, timeoutVars, heardVars
  <1>1. ASSUME NEW i \in Intervals, SetConnected(i) PROVE HeartbeatInv'
    <2> DEFINE n == i * kHeartbeatFactor
    <2>1. n \in Nat
      BY TimeoutIsNat
    <2>2. hts' = n
      BY <1>1 DEF SetConnected, heartbeatTimeoutSeconds
    <2>3. timeoutAt' = now + skew + n
      BY <1>1 DEF SetConnected, StartTimeout
    <2> HIDE DEF n, hts
    <2>4. TypeOK'
      BY <1>1, <2>1, <2>3 DEF SetConnected, StartTimeout
    <2>5. TickRuns'
      BY <1>1 DEF SetConnected, TickRuns
    <2>6. TimeoutRuns'
      BY <1>1, <2>1, <2>2, <2>3 DEF SetConnected, StartTimeout, TimeoutRuns, hts
    <2> QED BY <2>4, <2>5, <2>6
  <1> HIDE DEF hts
  <1>2. CASE ConnectionEnds
    BY <1>2, Zenon DEF ConnectionEnds, SetInited, Cancelled, TickRuns, TimeoutRuns
  <1>3. CASE HeartbeatTick
    <2>1. TypeOK'
      BY <1>3 DEF HeartbeatTick, WaitForNextTick
    <2>2. TickRuns'
      BY <1>3 DEF HeartbeatTick, WaitForNextTick, TickRuns
    <2>3. TimeoutRuns'
      BY <1>0, <1>s, <1>3 DEF HeartbeatTick, TimeoutRuns, hts
    <2> QED BY <2>1, <2>2, <2>3
  <1>4. CASE HeartbeatTimeout
    BY <1>4, Zenon DEF HeartbeatTimeout, Cancelled, TickRuns, TimeoutRuns
  <1>5. CASE ExtendHeartbeatTimeout
    <2>1. TypeOK'
      BY <1>0, <1>5 DEF ExtendHeartbeatTimeout, ExtendTimeout, Cancelled, hts
    <2>2. TickRuns'
      BY <1>5 DEF ExtendHeartbeatTimeout, TickRuns
    <2>3. TimeoutRuns'
      BY <1>0, <1>s, <1>5 DEF ExtendHeartbeatTimeout, ExtendTimeout, Cancelled, TimeoutRuns, hts
    <2> QED BY <2>1, <2>2, <2>3
  <1>6. CASE TickExpires
    BY <1>0, <1>s, <1>6 DEF TickExpires, TickRuns, TimeoutRuns, hts
  <1>7. CASE TimeoutExpires
    BY <1>0, <1>s, <1>7 DEF TimeoutExpires, TickRuns, TimeoutRuns, hts
  <1>8. CASE Advance
    BY <1>0, <1>s, <1>8 DEF Advance, TickRuns, TimeoutRuns, hts
  <1>9. CASE SetWallClock
    BY <1>0, <1>s, <1>9 DEF SetWallClock, TickRuns, TimeoutRuns, hts
  <1>10. CASE UNCHANGED heartbeatVars
    BY <1>0, <1>s, <1>10 DEF heartbeatVars, TickRuns, TimeoutRuns, hts
  <1> QED
    BY <1>1, <1>2, <1>3, <1>4, <1>5, <1>6, <1>7, <1>8, <1>9, <1>10 DEF HeartbeatNext

\* It holds in every state of every behaviour.
LEMMA HeartbeatInvariance == HeartbeatSpec => []HeartbeatInv
  BY InitHeartbeat, NextHeartbeat, PTL DEF HeartbeatSpec

\* The waits on the timers end with the connection they belong to.
THEOREM HeartbeatTypes == HeartbeatSpec => []TypeOK
  BY HeartbeatInvariance, PTL DEF HeartbeatInv

\* HeartbeatTick sends a heartbeat every interval, never late by more than the
\* lag and never early, whatever connections came and went.
THEOREM HeartbeatPace == HeartbeatSpec => []HeartbeatsKeepPace
  <1>1. HeartbeatInv => HeartbeatsKeepPace
    BY HeartbeatAssumption DEF HeartbeatInv, TypeOK, TickRuns, HeartbeatsKeepPace
  <1> QED BY HeartbeatInvariance, <1>1, PTL

\* A connection is never ended by the timeout although its server was heard of
\* in time.
THEOREM HeartbeatSilence == HeartbeatSpec => []EndedOnlyBySilence
  <1>1. HeartbeatInv => EndedOnlyBySilence
    <2> SUFFICES ASSUME HeartbeatInv, connected, timeout = "ready"
                 PROVE /\ now >= since + heartbeatTimeoutSeconds - MaxSkew
                       /\ firstHeard # -1 => firstHeard >= since + heartbeatTimeoutSeconds - MaxSkew
      BY DEF EndedOnlyBySilence
    <2>1. heartbeatTimeoutSeconds \in Nat
      BY TimeoutIsNat DEF HeartbeatInv, TypeOK, heartbeatTimeoutSeconds
    <2> QED BY <2>1, HeartbeatAssumption DEF HeartbeatInv, TypeOK, TimeoutRuns
  <1> QED BY HeartbeatInvariance, <1>1, PTL

\* A server that is never heard of is given up after kHeartbeatFactor
\* intervals, the skew and the lag.
THEOREM HeartbeatMute == HeartbeatSpec => []MuteServerGivenUp
  <1>1. HeartbeatInv => MuteServerGivenUp
    <2>1. ASSUME HeartbeatInv PROVE heartbeatTimeoutSeconds \in Nat
      BY <2>1, TimeoutIsNat DEF HeartbeatInv, TypeOK, heartbeatTimeoutSeconds
    <2> QED BY <2>1, HeartbeatAssumption DEF HeartbeatInv, TypeOK, TimeoutRuns, MuteServerGivenUp
  <1> QED BY HeartbeatInvariance, <1>1, PTL

-----------------------------------------------------------------------------
(* Decompress *)

\* The types of pc_decompress's variables.
DecompressTypes ==
    /\ zpc \in {"idle", "realloc", "inflate", "returned"}
    /\ size \in Nat /\ stream \in Streams
    /\ output \in Int /\ size_uncompressed \in Nat /\ output_size \in Nat /\ avail_out \in Nat
    /\ rc \in Int
    /\ inflated \in Nat /\ inflated <= stream.content

\* In the loop size_uncompressed and *output_size count what inflate has
\* written, and the block has room for that and for the round under way.
LoopInv ==
    zpc \in {"realloc", "inflate"} =>
        /\ ~failed
        /\ inflated = size_uncompressed
        /\ output_size = size_uncompressed
        /\ zpc = "inflate" => avail_out = 2 * size /\ output = size_uncompressed + 2 * size

\* The inductive invariant of pc_decompress.
DecompressInv == DecompressTypes /\ LoopInv /\ DecompressedWhole /\ StreamIsEnded

\* DecompressInv holds before Decompress is called.
LEMMA InitDecompress == GzipInit => DecompressInv
  <1> SUFFICES ASSUME GzipInit PROVE DecompressInv
    OBVIOUS
  <1> USE DEF GzipInit
  <1>1. stream \in Streams /\ stream.content = 0
    BY DEF Streams
  <1>2. DecompressTypes
    BY <1>1 DEF DecompressTypes, Z_OK
  <1> QED BY <1>2 DEF DecompressInv, LoopInv, DecompressedWhole, StreamIsEnded

\* No step of Decompress breaks DecompressInv.
LEMMA NextDecompress == DecompressInv /\ [GzipNext]_gzipVars => DecompressInv'
  <1> SUFFICES ASSUME DecompressInv, [GzipNext]_gzipVars PROVE DecompressInv'
    OBVIOUS
  <1>0. stream.content \in Nat
    BY DEF DecompressInv, DecompressTypes, Streams
  <1>1. CASE size' \in Nat /\ stream' \in Streams /\ CallDecompress(size', stream')
    <2>1. stream'.content \in Nat
      BY <1>1 DEF Streams
    <2>2. DecompressTypes'
      BY <1>1, <2>1 DEF DecompressInv, DecompressTypes, CallDecompress
    <2>3. LoopInv'
      BY <1>1, Zenon DEF LoopInv, CallDecompress
    <2>4. zpc' = "realloc" \/ (rc' = 1 /\ open' = FALSE)
      BY <1>1 DEF CallDecompress
    <2>5. DecompressedWhole' /\ StreamIsEnded'
      BY <2>4 DEF DecompressedWhole, StreamIsEnded, Z_OK
    <2> QED BY <2>2, <2>3, <2>5 DEF DecompressInv
  <1>2. CASE Realloc
    <2>1. DecompressTypes'
      BY <1>2 DEF DecompressInv, DecompressTypes, Realloc, resize_to, Z_MEM_ERROR
    <2>2. LoopInv'
      BY <1>2 DEF DecompressInv, DecompressTypes, LoopInv, Realloc, resize_to
    <2>3. DecompressedWhole' /\ StreamIsEnded'
      BY <1>2 DEF DecompressInv, DecompressTypes, Realloc, DecompressedWhole, StreamIsEnded, Z_OK, Z_MEM_ERROR
    <2> QED BY <2>1, <2>2, <2>3 DEF DecompressInv
  <1>3. CASE Inflate
    <2>1. stream' = stream /\ size' = size /\ output' = output /\ zpc = "inflate"
      BY <1>3 DEF Inflate
    <2>2. ASSUME InflateOk, size_uncompressed' = size_uncompressed + (2 * size - avail_out'),
                 output_size' = size_uncompressed',
                 IF KeepsOn THEN zpc' = "realloc" /\ UNCHANGED << open, rc >>
                            ELSE zpc' = "returned" /\ inflateEnd /\ rc' = Z_OK
          PROVE  DecompressInv'
      <3>1. /\ avail_out' \in Nat
            /\ inflated' = inflated + (avail_out - avail_out')
            /\ inflated' \in Nat /\ inflated' <= stream.content
            /\ avail_out' # 0 => inflated' = stream.content
            /\ failed' = failed
        BY <1>0, <2>2 DEF InflateOk, Least, DecompressInv, DecompressTypes
      <3>a. /\ avail_out = 2 * size /\ output = size_uncompressed + 2 * size
            /\ inflated = size_uncompressed /\ size \in Nat /\ size_uncompressed \in Nat
        BY <2>1 DEF DecompressInv, DecompressTypes, LoopInv
      <3>b. size_uncompressed' = size_uncompressed + (2 * size - avail_out')
        BY <2>2
      <3>2. inflated' = size_uncompressed' /\ size_uncompressed' <= output
        <4>1. ASSUME NEW s \in Nat, NEW u \in Nat, NEW a \in Nat
              PROVE  u + (2 * s - a) <= u + 2 * s
          OBVIOUS
        <4>2. inflated' = size_uncompressed'
          BY <3>1, <3>a, <3>b
        <4>3. size_uncompressed' <= output
          BY <3>1, <3>a, <3>b, <4>1, Zenon
        <4> QED BY <4>2, <4>3
      <3>c. zpc' \in {"realloc", "returned"} /\ rc' \in Int
        BY <2>2 DEF DecompressInv, DecompressTypes, Z_OK
      <3>3. DecompressTypes'
        BY <2>1, <2>2, <3>1, <3>2, <3>c, Zenon DEF DecompressInv, DecompressTypes
      <3>4. LoopInv'
        BY <2>1, <2>2, <3>1, <3>2 DEF DecompressInv, LoopInv, KeepsOn
      <3>5. DecompressedWhole' /\ StreamIsEnded'
        BY <2>1, <2>2, <3>1, <3>2 DEF DecompressedWhole, StreamIsEnded, KeepsOn, inflateEnd
      <3> QED BY <3>3, <3>4, <3>5 DEF DecompressInv
    <2>3. ASSUME InflateError, inflateEnd, rc' = Z_OK, zpc' = "returned",
                 UNCHANGED << size_uncompressed, output_size >>
          PROVE  DecompressInv'
      <3>1. avail_out' \in Nat /\ inflated' \in Nat /\ inflated' <= stream.content
        BY <1>0, <2>3 DEF InflateError, Least, DecompressInv, DecompressTypes
      <3>2. failed' = TRUE /\ open' = FALSE
        BY <2>3 DEF InflateError, inflateEnd
      <3>3. DecompressTypes'
        BY <2>1, <2>3, <3>1, <3>2 DEF DecompressInv, DecompressTypes, Z_OK
      <3> QED BY <2>3, <3>2, <3>3 DEF DecompressInv, LoopInv, DecompressedWhole, StreamIsEnded
    <2> QED BY <1>3, <2>2, <2>3 DEF Inflate
  <1>4. CASE Return
    <2>1. DecompressTypes'
      BY <1>4 DEF DecompressInv, DecompressTypes, Return
    <2> QED BY <1>4, <2>1 DEF DecompressInv, LoopInv, DecompressedWhole, StreamIsEnded, Return
  <1>5. CASE UNCHANGED gzipVars
    BY <1>5 DEF gzipVars, DecompressInv, DecompressTypes, LoopInv, DecompressedWhole, StreamIsEnded
  <1> QED BY <1>1, <1>2, <1>3, <1>4, <1>5 DEF GzipNext

\* It holds in every state of every behaviour of pc_decompress.
LEMMA DecompressInvariance == GzipSpec => []DecompressInv
  BY InitDecompress, NextDecompress, PTL DEF GzipSpec

\* inflate is never given more room than the block has.
THEOREM GzipInBounds == GzipSpec => []InflatesInBounds
  <1>1. DecompressInv => InflatesInBounds
    BY DEF DecompressInv, DecompressTypes, LoopInv, InflatesInBounds
  <1> QED BY DecompressInvariance, <1>1, PTL

\* A Decompress without an error of zlib returns the whole content, whatever its
\* size is to that of the input.
THEOREM GzipWhole == GzipSpec => []DecompressedWhole
  BY DecompressInvariance, PTL DEF DecompressInv

\* The z_stream is ended on every way out that has memory.
THEOREM GzipEnded == GzipSpec => []StreamIsEnded
  BY DecompressInvariance, PTL DEF DecompressInv

-----------------------------------------------------------------------------
(* Base 128 digits *)

\* Every set of naturals that is not empty has a least element.
LEMMA LeastOf ==
  ASSUME NEW T, T \subseteq Nat, T # {}
  PROVE  \E x \in T : \A y \in T : x <= y
  <1>1. \E R : IsWellFoundedOn(R, Nat) /\ \A x, y \in Nat : y < x => << y, x >> \in R
    <2>1. IsWellFoundedOn(OpToRel(<, Nat), Nat)
      BY NatLessThanWellFounded, Zenon
    <2>2. \A x, y \in Nat : y < x => << y, x >> \in OpToRel(<, Nat)
      BY DEF OpToRel
    <2> QED BY <2>1, <2>2, Zenon
  <1>2. PICK R : IsWellFoundedOn(R, Nat) /\ \A x, y \in Nat : y < x => << y, x >> \in R
    BY <1>1
  <1>3. PICK x \in T : \A y \in T : ~(<< y, x >> \in R)
    BY <1>2, WFMin, Zenon
  <1>4. ASSUME NEW y \in T PROVE x <= y
    <2>1. y \in Nat /\ x \in Nat /\ ~(y < x)
      BY <1>2, <1>3, Zenon
    <2> QED BY <2>1
  <1> QED BY <1>4

\* Induction over the naturals, for a set.
LEMMA Induction ==
  ASSUME NEW A, 0 \in A, \A n \in Nat : n \in A => n + 1 \in A
  PROVE  Nat \subseteq A
  <1> SUFFICES ASSUME Nat \ A # {} PROVE FALSE
    OBVIOUS
  <1>1. PICK x \in Nat \ A : \A y \in Nat \ A : x <= y
    BY LeastOf, Zenon
  <1>2. x - 1 \in Nat /\ x - 1 + 1 = x
    BY <1>1
  <1>3. x - 1 \in A
    BY <1>1, <1>2
  <1> QED BY <1>1, <1>2, <1>3

\* f is the recursive function of the client's varint loop, up to m.
VarintDigits(f, m) ==
    f = [n \in 0..m |-> IF n < 128 THEN << n >> ELSE << 128 + (n % 128) >> \o f[n \div 128]]

\* The loop stops on every number: the function it computes exists.
LEMMA VarintDefined == ASSUME NEW m \in Nat PROVE \E f : VarintDigits(f, m)
  <1> DEFINE A == {k \in Nat : \E f : VarintDigits(f, k)}
  <1>1. 0 \in A
    <2>1. VarintDigits([n \in 0..0 |-> << n >>], 0)
      BY DEF VarintDigits
    <2> QED BY <2>1
  <1>2. ASSUME NEW k \in Nat, k \in A PROVE k + 1 \in A
    <2>1. PICK f : VarintDigits(f, k)
      BY <1>2
    <2> DEFINE v == IF k + 1 < 128 THEN << k + 1 >> ELSE << 128 + ((k + 1) % 128) >> \o f[(k + 1) \div 128]
               g == [n \in 0..k + 1 |-> IF n = k + 1 THEN v ELSE f[n]]
    <2>2. ASSUME NEW n \in 0..k + 1
          PROVE  g[n] = IF n < 128 THEN << n >> ELSE << 128 + (n % 128) >> \o g[n \div 128]
      <3>1. n >= 128 => n \div 128 \in 0..k /\ n \div 128 < n
        OBVIOUS
      <3>2. n >= 128 => g[n \div 128] = f[n \div 128]
        BY <3>1
      <3>3. CASE n = k + 1
        <4>1. g[n] = v
          BY <3>3, Zenon
        <4>2. v = IF n < 128 THEN << n >> ELSE << 128 + (n % 128) >> \o f[n \div 128]
          BY <3>3, Zenon
        <4> HIDE DEF g, v
        <4>3. CASE n < 128
          BY <4>1, <4>2, <4>3, Zenon
        <4>4. CASE n >= 128
          BY <3>2, <4>1, <4>2, <4>4
        <4> QED BY <4>3, <4>4
      <3>4. CASE n # k + 1
        <4>1. g[n] = f[n]
          BY <3>4, Zenon
        <4> HIDE DEF g, v
        <4>2. n \in 0..k
          BY <3>4
        <4>3. f[n] = IF n < 128 THEN << n >> ELSE << 128 + (n % 128) >> \o f[n \div 128]
          BY <2>1, <4>2, Zenon DEF VarintDigits
        <4>4. CASE n < 128
          BY <4>1, <4>3, <4>4, Zenon
        <4>5. CASE n >= 128
          BY <3>2, <4>1, <4>3, <4>5
        <4> QED BY <4>4, <4>5
      <3> QED BY <3>3, <3>4
    <2>3. VarintDigits(g, k + 1)
      <3>1. g = [n \in 0..k + 1 |-> g[n]]
        OBVIOUS
      <3> HIDE DEF g, v
      <3>2. [n \in 0..k + 1 |-> g[n]]
              = [n \in 0..k + 1 |-> IF n < 128 THEN << n >> ELSE << 128 + (n % 128) >> \o g[n \div 128]]
        BY <2>2, Zenon
      <3> QED BY <3>1, <3>2, Zenon DEF VarintDigits
    <2> QED BY <2>3
  <1> HIDE DEF A
  <1>3. Nat \subseteq A
    BY <1>1, <1>2, Induction
  <1> QED BY <1>3 DEF A

\* What dividing by 128 gives.
LEMMA DivMod ==
  ASSUME NEW n \in Nat
  PROVE  n \div 128 \in Nat /\ n % 128 \in 0..127 /\ n = 128 * (n \div 128) + (n % 128)
  OBVIOUS

\* The first id that needs four digits.
MaxId == 128 * 128 * 128

\* The base 128 digits of id: r, s and b, with a for the upper two.
Parts(id, a, b, r, s) ==
    /\ a = id \div 128 /\ b = id \div (128 * 128)
    /\ r = id % 128 /\ s = a % 128
    /\ b = a \div 128

\* Every id below MaxId has such digits, and their number follows from its size.
LEMMA IdParts ==
  ASSUME NEW id \in Nat, id < MaxId
  PROVE  \E a \in Nat, b \in 0..127, r \in 0..127, s \in 0..127 :
            /\ Parts(id, a, b, r, s)
            /\ id = r + 128 * a /\ id = r + 128 * s + 128 * 128 * b
            /\ (id < 128 <=> a = 0) /\ (id < 128 * 128 <=> a < 128) /\ (id < 128 * 128 <=> b = 0)
  <1>D. ASSUME NEW i \in Nat, NEW q \in Nat, NEW r \in Nat, r < 128 * 128, i = 128 * 128 * q + r
        PROVE  i \div (128 * 128) = q
    BY <1>D
  <1>1. PICK a \in Nat, r \in 0..127 : a = id \div 128 /\ r = id % 128 /\ id = 128 * a + r
    BY DivMod
  <1>2. PICK b \in Nat, s \in 0..127 : b = a \div 128 /\ s = a % 128 /\ a = 128 * b + s
    BY DivMod
  <1>3. id = 128 * a + r /\ a = 128 * b + s
    BY <1>1, <1>2
  <1>4. /\ id = 128 * 128 * b + (128 * s + r) /\ 128 * s + r \in Nat /\ 128 * s + r < 128 * 128
        /\ id = r + 128 * s + 128 * 128 * b /\ id = r + 128 * a
    BY <1>3
  <1>5. b \in 0..127 /\ (id < 128 <=> a = 0) /\ (id < 128 * 128 <=> a < 128) /\ (id < 128 * 128 <=> b = 0)
    BY <1>3 DEF MaxId
  <1>6. id \div (128 * 128) = b
    BY <1>4, <1>D
  <1>7. Parts(id, a, b, r, s)
    BY <1>1, <1>2, <1>6, Zenon DEF Parts
  <1> QED BY <1>4, <1>5, <1>7, Zenon

\* d holds the base 128 digits of id as they are on the wire: the lowest first,
\* all but the last with bit 7 set.
DigitsAre(d, id, r, s, b) ==
    \/ Len(d) = 1 /\ d[1] = r /\ id = r
    \/ Len(d) = 2 /\ d[1] = 128 + r /\ d[2] = s /\ id = r + 128 * s
    \/ Len(d) = 3 /\ d[1] = 128 + r /\ d[2] = 128 + s /\ d[3] = b /\ id = r + 128 * s + 128 * 128 * b

\* d holds the one, two or three digits that spell id.
IsDigits(d, id) == d \in Seq(Nat) /\ \E r, s, b \in 0..127 : DigitsAre(d, id, r, s, b)

\* The same, by the cases a writer of an id distinguishes.
Spells(d, id, a, b, r, s) ==
    /\ id = r + 128 * a /\ id = r + 128 * s + 128 * 128 * b
    /\ d \in Seq(Nat)
    /\ \/ id < 128 /\ a = 0 /\ Len(d) = 1 /\ d[1] = r
       \/ a < 128 /\ b = 0 /\ Len(d) = 2 /\ d[1] = 128 + r /\ d[2] = a
       \/ Len(d) = 3 /\ d[1] = 128 + r /\ d[2] = 128 + s /\ d[3] = b

\* What a writer's cases produce are the digits of the id.
LEMMA DigitsFacts ==
  ASSUME NEW id \in Nat, NEW a \in Nat, NEW b \in 0..127, NEW r \in 0..127, NEW s \in 0..127,
         NEW d, Spells(d, id, a, b, r, s)
  PROVE  IsDigits(d, id)
  <1>1. DigitsAre(d, id, r, s, b)
    BY DEF Spells, DigitsAre
  <1>2. d \in Seq(Nat)
    BY DEF Spells
  <1> QED BY <1>1, <1>2, Zenon DEF IsDigits

\* The server writes the digits of the id.
LEMMA ServerDigitsFacts ==
  ASSUME NEW id \in Nat, id < MaxId
  PROVE  IsDigits(ServerDigits(id), id)
  <1>5. PICK a \in Nat, b \in 0..127, r \in 0..127, s \in 0..127 :
            /\ Parts(id, a, b, r, s)
            /\ id = r + 128 * a /\ id = r + 128 * s + 128 * 128 * b
            /\ (id < 128 <=> a = 0) /\ (id < 128 * 128 <=> a < 128) /\ (id < 128 * 128 <=> b = 0)
    BY IdParts, Zenon
  <1>6. a = id \div 128 /\ b = id \div (128 * 128) /\ r = id % 128 /\ s = (id \div 128) % 128
    BY <1>5, Zenon DEF Parts
  <1>7. ServerDigits(id) = CASE id < 128 -> << id >> [] id >= 128 /\ id < 128 * 128 -> << 128 + r, a >>
                             [] OTHER -> << 128 + r, 128 + s, b >>
    BY <1>6, Zenon DEF ServerDigits
  <1>8. PICK d : d = ServerDigits(id)
    OBVIOUS
  <1>9. /\ d \in Seq(Nat)
        /\ \/ id < 128 /\ a = 0 /\ Len(d) = 1 /\ d[1] = r
           \/ a < 128 /\ b = 0 /\ Len(d) = 2 /\ d[1] = 128 + r /\ d[2] = a
           \/ Len(d) = 3 /\ d[1] = 128 + r /\ d[2] = 128 + s /\ d[3] = b
    <2>1. CASE id < 128
      <3>1. d = << id >>
        BY <1>7, <1>8, <2>1
      <3> QED BY <1>5, <2>1, <3>1
    <2>2. CASE id >= 128 /\ id < 128 * 128
      <3>1. d = << 128 + r, a >>
        BY <1>7, <1>8, <2>2
      <3> QED BY <1>5, <2>2, <3>1
    <2>3. CASE id >= 128 * 128
      <3>1. d = << 128 + r, 128 + s, b >>
        BY <1>7, <1>8, <2>3
      <3> QED BY <3>1
    <2> QED BY <2>1, <2>2, <2>3
  <1>10. Spells(d, id, a, b, r, s)
    BY <1>5, <1>9, Zenon DEF Spells
  <1> QED BY <1>8, <1>10, DigitsFacts, Zenon

\* SerializeInto writes the digits of an id.
LEMMA VarintFacts ==
  ASSUME NEW id \in Nat, id < MaxId
  PROVE  IsDigits(Varint(id), id)
  <1>1. PICK f : f = CHOOSE g : VarintDigits(g, id)
    OBVIOUS
  <1>2. VarintDigits(f, id)
    BY <1>1, VarintDefined
  <1>3. Varint(id) = f[id]
    BY <1>1 DEF Varint, VarintDigits
  <1>4. ASSUME NEW n \in 0..id
        PROVE  f[n] = IF n < 128 THEN << n >> ELSE << 128 + (n % 128) >> \o f[n \div 128]
    BY <1>2, Zenon DEF VarintDigits
  <1>5. PICK a \in Nat, b \in 0..127, r \in 0..127, s \in 0..127 :
            /\ Parts(id, a, b, r, s)
            /\ id = r + 128 * a /\ id = r + 128 * s + 128 * 128 * b
            /\ (id < 128 <=> a = 0) /\ (id < 128 * 128 <=> a < 128) /\ (id < 128 * 128 <=> b = 0)
    BY IdParts, Zenon
  <1>6. b \in 0..id /\ a \in 0..id /\ id \in 0..id /\ b < 128
    BY <1>5
  <1>7. a = id \div 128 /\ r = id % 128 /\ s = a % 128 /\ b = a \div 128
    BY <1>5, Zenon DEF Parts
  <1>8. /\ f[id] = IF id < 128 THEN << id >> ELSE << 128 + r >> \o f[a]
        /\ f[a] = IF a < 128 THEN << a >> ELSE << 128 + s >> \o f[b]
        /\ f[b] = << b >>
    <2>1. f[id] = IF id < 128 THEN << id >> ELSE << 128 + (id % 128) >> \o f[id \div 128]
      BY <1>4, <1>6
    <2>2. f[a] = IF a < 128 THEN << a >> ELSE << 128 + (a % 128) >> \o f[a \div 128]
      BY <1>4, <1>6
    <2>3. f[b] = << b >>
      BY <1>4, <1>6, Zenon
    <2> QED BY <1>7, <2>1, <2>2, <2>3, Zenon
  <1>9. PICK d : d = Varint(id)
    OBVIOUS
  <1>10. /\ d \in Seq(Nat)
         /\ \/ id < 128 /\ a = 0 /\ Len(d) = 1 /\ d[1] = r
            \/ a < 128 /\ b = 0 /\ Len(d) = 2 /\ d[1] = 128 + r /\ d[2] = a
            \/ Len(d) = 3 /\ d[1] = 128 + r /\ d[2] = 128 + s /\ d[3] = b
    <2>1. CASE id < 128
      <3>1. d = << id >>
        BY <1>3, <1>8, <1>9, <2>1, Zenon
      <3> QED BY <1>5, <2>1, <3>1
    <2>2. CASE ~(id < 128) /\ a < 128
      <3>1. d = << 128 + r >> \o << a >>
        BY <1>3, <1>8, <1>9, <2>2, Zenon
      <3> QED BY <1>5, <2>2, <3>1
    <2>3. CASE ~(id < 128) /\ ~(a < 128)
      <3>1. d = << 128 + r >> \o (<< 128 + s >> \o << b >>)
        BY <1>3, <1>8, <1>9, <2>3, Zenon
      <3> QED BY <3>1
    <2> QED BY <2>1, <2>2, <2>3, Zenon
  <1>11. Spells(d, id, a, b, r, s)
    BY <1>5, <1>10, Zenon DEF Spells
  <1> QED BY <1>9, <1>11, DigitsFacts, Zenon

-----------------------------------------------------------------------------
(* What is read from bytes *)

\* A body: its flag, an id, a route, and data.
Frame(buf, flag, d, e, b) ==
    /\ buf \in Seq(Nat) /\ Len(buf) = 1 + Len(d) + Len(e) + Len(b)
    /\ d \in Seq(Nat) /\ e \in Seq(Nat) /\ b \in Seq(Nat)
    /\ buf[1] = flag
    /\ \A k \in 1..Len(d) : buf[k + 1] = d[k]
    /\ \A k \in 1..Len(e) : buf[1 + Len(d) + k] = e[k]

\* u is s followed by t.
Cat(u, s, t) ==
    /\ u \in Seq(Nat) /\ Len(u) = Len(s) + Len(t)
    /\ \A i \in 1..Len(s) : u[i] = s[i]
    /\ \A i \in 1..Len(t) : u[Len(s) + i] = t[i]

\* Where the parts of a message lie in the bytes of it.
LEMMA Frames ==
  ASSUME NEW flag \in Nat, NEW d \in Seq(Nat), NEW e \in Seq(Nat), NEW b \in Seq(Nat)
  PROVE  Frame(((<< flag >> \o d) \o e) \o b, flag, d, e, b)
  <1>C. ASSUME NEW s \in Seq(Nat), NEW t \in Seq(Nat)
        PROVE  Cat(s \o t, s, t)
    BY DEF Cat
  <1>0. Len(d) \in Nat /\ Len(e) \in Nat /\ Len(b) \in Nat
    OBVIOUS
  <1>1. PICK s : s = << flag >> \o d
    BY Zenon
  <1>2. /\ s \in Seq(Nat) /\ Len(s) = 1 + Len(d) /\ s[1] = flag
        /\ \A k \in 1..Len(d) : s[1 + k] = d[k]
    <2>1. << flag >> \in Seq(Nat) /\ Len(<< flag >>) = 1 /\ << flag >>[1] = flag /\ 1 \in 1..1
      OBVIOUS
    <2>2. Cat(s, << flag >>, d)
      BY <1>1, <1>C, <2>1, Zenon
    <2> QED BY <2>1, <2>2 DEF Cat
  <1>3. PICK t : t = s \o e
    BY Zenon
  <1>4. /\ t \in Seq(Nat) /\ Len(t) = 1 + Len(d) + Len(e)
        /\ \A i \in 1..1 + Len(d) : t[i] = s[i]
        /\ \A k \in 1..Len(e) : t[1 + Len(d) + k] = e[k]
    <2>1. /\ t \in Seq(Nat) /\ Len(t) = Len(s) + Len(e)
          /\ \A i \in 1..Len(s) : t[i] = s[i]
          /\ \A k \in 1..Len(e) : t[Len(s) + k] = e[k]
      <3>1. Cat(t, s, e)
        BY <1>2, <1>3, <1>C, Zenon
      <3> QED BY <3>1, Zenon DEF Cat
    <2> QED BY <1>2, <2>1
  <1>5. PICK buf : buf = t \o b
    BY Zenon
  <1>6. /\ buf \in Seq(Nat) /\ Len(buf) = 1 + Len(d) + Len(e) + Len(b)
        /\ \A i \in 1..1 + Len(d) + Len(e) : buf[i] = t[i]
    <2>1. /\ buf \in Seq(Nat) /\ Len(buf) = Len(t) + Len(b)
          /\ \A i \in 1..Len(t) : buf[i] = t[i]
      <3>1. Cat(buf, t, b)
        BY <1>4, <1>5, <1>C, Zenon
      <3> QED BY <3>1, Zenon DEF Cat
    <2> QED BY <1>4, <2>1, Zenon
  <1>7. ASSUME NEW k \in 1..Len(d) PROVE buf[k + 1] = d[k]
    <2>1. k + 1 \in 1..1 + Len(d) /\ k + 1 \in 1..1 + Len(d) + Len(e) /\ k + 1 = 1 + k
      BY <1>0
    <2> QED BY <1>2, <1>4, <1>6, <2>1, Zenon
  <1>8. ASSUME NEW k \in 1..Len(e) PROVE buf[1 + Len(d) + k] = e[k]
    <2>1. 1 + Len(d) + k \in 1..1 + Len(d) + Len(e)
      BY <1>0
    <2> QED BY <1>4, <1>6, <2>1
  <1>9. buf[1] = flag
    <2>1. 1 \in 1..1 + Len(d) /\ 1 \in 1..1 + Len(d) + Len(e)
      BY <1>0
    <2> QED BY <1>2, <1>4, <1>6, <2>1
  <1>10. Frame(buf, flag, d, e, b)
    BY <1>6, <1>7, <1>8, <1>9 DEF Frame
  <1> QED BY <1>1, <1>3, <1>5, <1>10

\* The digits of id are in buf, n of them from its second byte on.
DigitsIn(buf, n, id, r, s, b) ==
    \/ n = 1 /\ buf[2] = r /\ id = r
    \/ n = 2 /\ buf[2] = 128 + r /\ buf[3] = s /\ id = r + 128 * s
    \/ n = 3 /\ buf[2] = 128 + r /\ buf[3] = 128 + s /\ buf[4] = b /\ id = r + 128 * s + 128 * 128 * b

\* buf holds the n digits of id from its second byte on.
Digits(buf, n, id) == \E r, s, b \in 0..127 : DigitsIn(buf, n, id, r, s, b)

\* A message that carries the digits of id has them there.
LEMMA FrameDigits ==
  ASSUME NEW id, NEW d, IsDigits(d, id), NEW flag, NEW e, NEW b, NEW buf, Frame(buf, flag, d, e, b)
  PROVE  Digits(buf, Len(d), id)
  <1>1. PICK r, s, t \in 0..127 : DigitsAre(d, id, r, s, t)
    BY Zenon DEF IsDigits
  <1>2. /\ 1 \in 1..Len(d) => buf[2] = d[1]
        /\ 2 \in 1..Len(d) => buf[3] = d[2]
        /\ 3 \in 1..Len(d) => buf[4] = d[3]
    BY DEF Frame
  <1>3. DigitsIn(buf, Len(d), id, r, s, t)
    BY <1>1, <1>2 DEF DigitsAre, DigitsIn
  <1> QED BY <1>3, Zenon DEF Digits

\* The end of the digits.
LEMMA DigitsEnd ==
  ASSUME NEW buf, NEW n, NEW id, Digits(buf, n, id)
  PROVE  /\ n \in 1..3 /\ buf[n + 1] \in Nat /\ buf[n + 1] < 128
         /\ \A k \in 1..n - 1 : buf[k + 1] \in Nat /\ buf[k + 1] >= 128
  BY DEF Digits, DigitsIn

\* The value of the digits.
LEMMA DigitsValue ==
  ASSUME NEW buf, NEW n, NEW id, Digits(buf, n, id)
  PROVE  /\ id = (IF 1 <= n THEN buf[1 + 1] % 128 ELSE 0) + 128 * (IF 2 <= n THEN buf[2 + 1] % 128 ELSE 0)
                  + 128 * 128 * (IF 3 <= n THEN buf[3 + 1] % 128 ELSE 0)
         /\ id \in Nat
  <1>1. \A x \in 0..127 : (128 + x) % 128 = x /\ x % 128 = x
    OBVIOUS
  <1>2. PICK r, s, b \in 0..127 : DigitsIn(buf, n, id, r, s, b)
    BY Zenon DEF Digits
  <1>3. r % 128 = r /\ (128 + r) % 128 = r /\ s % 128 = s /\ (128 + s) % 128 = s /\ b % 128 = b
    BY <1>1
  <1> QED BY <1>2, <1>3 DEF DigitsIn

\* The server reads the id and the code of a request.
LEMMA RequestRead ==
  ASSUME NEW buf, NEW n, NEW id, Digits(buf, n, id)
  PROVE  /\ ServerReads(buf).type = TypeBits(buf[1])
         /\ ServerReads(buf).id = id
         /\ ServerReads(buf).code = 256 * buf[n + 2] + buf[n + 3]
  <1>0. /\ n \in 1..3 /\ buf[n + 1] \in Nat /\ buf[n + 1] < 128
        /\ \A k \in 1..n - 1 : buf[k + 1] \in Nat /\ buf[k + 1] >= 128
    BY DigitsEnd, Zenon
  <1>1. ASSUME NEW k \in 1..3
        PROVE  (buf[k + 1] < 128 /\ \A j \in 1..k - 1 : buf[j + 1] >= 128) <=> k = n
    <2>1. CASE k = n
      BY <1>0, <2>1
    <2>2. CASE k < n
      <3>1. buf[k + 1] \in Nat /\ buf[k + 1] >= 128
        BY <1>0, <2>2
      <3> QED BY <1>0, <2>2, <3>1
    <2>3. CASE k > n
      <3>1. n \in 1..k - 1
        BY <1>0, <2>3
      <3>2. ~(buf[n + 1] >= 128)
        BY <1>0
      <3> QED BY <1>0, <2>3, <3>1, <3>2
    <2> QED BY <1>0, <2>1, <2>2, <2>3
  <1>2. ServerIdLength(buf) = n
    BY <1>0, <1>1 DEF ServerIdLength
  <1>3. /\ ServerReads(buf).type = TypeBits(buf[1])
        /\ ServerReads(buf).id =
             (IF 1 <= n THEN buf[1 + 1] % 128 ELSE 0) + 128 * (IF 2 <= n THEN buf[2 + 1] % 128 ELSE 0)
               + 128 * 128 * (IF 3 <= n THEN buf[3 + 1] % 128 ELSE 0)
        /\ ServerReads(buf).code = 256 * buf[n + 2] + buf[n + 3]
    BY <1>2 DEF ServerReads
  <1> QED BY <1>3, DigitsValue

\* Deserialize finds the end of the id.
LEMMA IdEndIs ==
  ASSUME NEW buf \in Seq(Nat), NEW n, NEW id, Digits(buf, n, id), Len(buf) > n
  PROVE  IdEnd(buf, 1) = 1 + n
  <1>0. /\ n \in 1..3 /\ buf[n + 1] \in Nat /\ buf[n + 1] < 128
        /\ \A k \in 1..n - 1 : buf[k + 1] \in Nat /\ buf[k + 1] >= 128
    BY DigitsEnd, Zenon
  <1> DEFINE ends == {i \in 1..Len(buf) - 1 : buf[i + 1] < 128}
  <1>1. n \in ends
    BY <1>0
  <1>2. ASSUME NEW j \in ends PROVE n <= j
    <2> SUFFICES ASSUME j < n PROVE FALSE
      BY <1>0
    <2>1. j \in 1..n - 1
      BY <1>0
    <2> QED BY <1>0, <2>1
  <1>3. \A i \in ends : (\A j \in ends : i <= j) => i = n
    BY <1>0, <1>1, <1>2
  <1>4. (CHOOSE i \in ends : \A j \in ends : i <= j) = n
    <2> HIDE DEF ends
    <2> QED BY <1>1, <1>2, <1>3
  <1>5. IdEnd(buf, 1) = 1 + CHOOSE i \in ends : \A j \in ends : i <= j
    BY <1>1, Zenon DEF IdEnd
  <1> QED BY <1>4, <1>5, Zenon

\* The sums of IdValue, from index o on.
IdSums(f, buf, o) ==
    f = [i \in o..Len(buf) |->
            IF i = Len(buf) THEN 0
            ELSE (buf[i + 1] % 128) + IF buf[i + 1] < 128 THEN 0 ELSE 128 * f[i + 1]]

\* The loop that reads an id ends within the buffer: the sums it forms exist.
LEMMA IdSumsDefined ==
  ASSUME NEW buf, Len(buf) \in Nat \ {0}
  PROVE  \E f : IdSums(f, buf, 1)
  <1> DEFINE A == {k \in Nat : k < Len(buf) => \E f : IdSums(f, buf, Len(buf) - k)}
  <1>1. 0 \in A
    <2>1. IdSums([i \in Len(buf)..Len(buf) |-> 0], buf, Len(buf))
      BY DEF IdSums
    <2>2. Len(buf) - 0 = Len(buf)
      OBVIOUS
    <2> QED BY <2>1, <2>2
  <1>2. ASSUME NEW k \in Nat, k \in A PROVE k + 1 \in A
    <2> SUFFICES ASSUME k + 1 < Len(buf) PROVE \E f : IdSums(f, buf, Len(buf) - (k + 1))
      OBVIOUS
    <2>1. PICK f : IdSums(f, buf, Len(buf) - k)
      BY <1>2
    <2>2. PICK o \in Nat : o = Len(buf) - (k + 1) /\ o + 1 = Len(buf) - k /\ o < Len(buf)
      <3>1. Len(buf) - (k + 1) \in Nat /\ Len(buf) - (k + 1) + 1 = Len(buf) - k /\ Len(buf) - (k + 1) < Len(buf)
        OBVIOUS
      <3> QED BY <3>1, Zenon
    <2> DEFINE v == (buf[o + 1] % 128) + IF buf[o + 1] < 128 THEN 0 ELSE 128 * f[o + 1]
               g == [i \in o..Len(buf) |-> IF i = o THEN v ELSE f[i]]
    <2>3. ASSUME NEW i \in o..Len(buf)
          PROVE  g[i] = IF i = Len(buf) THEN 0
                        ELSE (buf[i + 1] % 128) + IF buf[i + 1] < 128 THEN 0 ELSE 128 * g[i + 1]
      <3>1. i # Len(buf) => g[i + 1] = f[i + 1]
        BY <2>2
      <3>2. CASE i = o
        BY <2>2, <3>1, <3>2
      <3>3. CASE i # o
        <4>1. i \in (o + 1)..Len(buf) /\ g[i] = f[i]
          BY <2>2, <3>3
        <4>2. f[i] = IF i = Len(buf) THEN 0
                     ELSE (buf[i + 1] % 128) + IF buf[i + 1] < 128 THEN 0 ELSE 128 * f[i + 1]
          BY <2>1, <2>2, <4>1 DEF IdSums
        <4> QED BY <3>1, <4>1, <4>2
      <3> QED BY <3>2, <3>3
    <2>4. g = [i \in o..Len(buf) |-> g[i]]
      OBVIOUS
    <2> HIDE DEF g, v
    <2>5. [i \in o..Len(buf) |-> g[i]]
            = [i \in o..Len(buf) |-> IF i = Len(buf) THEN 0
                 ELSE (buf[i + 1] % 128) + IF buf[i + 1] < 128 THEN 0 ELSE 128 * g[i + 1]]
      BY <2>3, Zenon
    <2>6. IdSums(g, buf, o)
      BY <2>4, <2>5, Zenon DEF IdSums
    <2> QED BY <2>2, <2>6, Zenon
  <1> HIDE DEF A
  <1>3. Nat \subseteq A
    BY <1>1, <1>2, Induction
  <1>4. PICK k \in Nat : k < Len(buf) /\ Len(buf) - k = 1
    <2>1. Len(buf) - 1 \in Nat /\ Len(buf) - 1 < Len(buf) /\ Len(buf) - (Len(buf) - 1) = 1
      OBVIOUS
    <2> QED BY <2>1
  <1>5. k \in A
    BY <1>3
  <1> QED BY <1>4, <1>5 DEF A

\* Deserialize reads the id.
LEMMA IdValueIs ==
  ASSUME NEW buf \in Seq(Nat), NEW n, NEW id, Digits(buf, n, id), Len(buf) > n
  PROVE  IdValue(buf, 1) = id
  <1>0. /\ n \in 1..3 /\ buf[n + 1] \in Nat /\ buf[n + 1] < 128
        /\ \A k \in 1..n - 1 : buf[k + 1] \in Nat /\ buf[k + 1] >= 128
    BY DigitsEnd, Zenon
  <1>1. PICK f : f = CHOOSE g : IdSums(g, buf, 1)
    OBVIOUS
  <1>2. IdSums(f, buf, 1)
    BY <1>0, <1>1, IdSumsDefined
  <1>3. IdValue(buf, 1) = f[1]
    BY <1>1 DEF IdValue, IdSums
  <1>4. ASSUME NEW i \in 1..n
        PROVE  f[i] = (buf[i + 1] % 128) + IF buf[i + 1] < 128 THEN 0 ELSE 128 * f[i + 1]
    <2>1. i \in 1..Len(buf) /\ i # Len(buf)
      BY <1>0
    <2> QED BY <1>2, <2>1 DEF IdSums
  <1>5. /\ id = (IF 1 <= n THEN buf[1 + 1] % 128 ELSE 0) + 128 * (IF 2 <= n THEN buf[2 + 1] % 128 ELSE 0)
                 + 128 * 128 * (IF 3 <= n THEN buf[3 + 1] % 128 ELSE 0)
    BY DigitsValue
  <1>6. f[n] = buf[n + 1] % 128 /\ f[n] \in Nat
    BY <1>0, <1>4
  <1>7. ASSUME NEW k \in 1..n - 1 PROVE f[k] = (buf[k + 1] % 128) + 128 * f[k + 1]
    <2>1. buf[k + 1] \in Nat /\ ~(buf[k + 1] < 128) /\ k \in 1..n
      BY <1>0
    <2> QED BY <1>4, <2>1
  <1>8. CASE n = 1
    BY <1>3, <1>5, <1>6, <1>8
  <1>9. CASE n = 2
    <2>1. f[1] = (buf[2] % 128) + 128 * (buf[3] % 128) /\ buf[2] % 128 \in Nat
      BY <1>0, <1>6, <1>7, <1>9
    <2> QED BY <1>3, <1>5, <1>9, <2>1
  <1>10. CASE n = 3
    <2>1. f[2] = (buf[3] % 128) + 128 * (buf[4] % 128) /\ buf[3] % 128 \in Nat /\ buf[4] % 128 \in Nat
      <3>1. f[3] = buf[4] % 128 /\ f[3] \in Nat
        BY <1>6, <1>10
      <3>2. f[2] = (buf[3] % 128) + 128 * f[3] /\ buf[3] \in Nat
        BY <1>0, <1>7, <1>10
      <3> QED BY <3>1, <3>2
    <2>2. f[1] = (buf[2] % 128) + 128 * f[2] /\ buf[2] % 128 \in Nat
      BY <1>0, <1>7, <1>10
    <2>3. f[1] = (buf[2] % 128) + 128 * (buf[3] % 128) + 128 * 128 * (buf[4] % 128)
      BY <2>1, <2>2
    <2> QED BY <1>3, <1>5, <1>10, <2>3
  <1> QED BY <1>0, <1>8, <1>9, <1>10

-----------------------------------------------------------------------------
(* The messages of the server *)

\* The bytes of a body, and the two pc_decompress is chosen by.
LEMMA BytesFacts ==
  ASSUME NEW p \in Payloads
  PROVE  /\ Bytes(p) \in Seq(Nat) /\ Len(Bytes(p)) = p.size /\ p.size \in Nat /\ p.zipped \in BOOLEAN
         /\ p.stream \in Streams
         /\ p.size > 0 => Bytes(p)[1] = IF p.zipped THEN 120 ELSE 123
         /\ p.size > 1 => Bytes(p)[2] = IF p.zipped THEN 156 ELSE 34
  <1>1. p.size \in Nat /\ p.zipped \in BOOLEAN /\ p.stream \in Streams
    BY PayloadsAssumption
  <1>2. ASSUME NEW i \in 1..p.size PROVE Bytes(p)[i] \in Nat
    BY <1>1 DEF Bytes
  <1>3. Bytes(p) \in [1..p.size -> Nat]
    BY <1>2 DEF Bytes
  <1>4. Bytes(p) \in Seq(Nat) /\ Len(Bytes(p)) = p.size
    BY <1>1, <1>3
  <1>5. p.size > 0 => Bytes(p)[1] = IF p.zipped THEN 120 ELSE 123
    BY <1>1 DEF Bytes
  <1>6. p.size > 1 => Bytes(p)[2] = IF p.zipped THEN 156 ELSE 34
    BY <1>1 DEF Bytes
  <1> QED BY <1>1, <1>4, <1>5, <1>6

\* The body of a handshake response is its data.
LEMMA HandshakeRead ==
  ASSUME NEW p \in Payloads, NEW buf, buf = << >> \o Bytes(p)
  PROVE  Len(buf) = p.size /\ (IsCompressed(buf) <=> p.zipped /\ p.size > 2)
  <1>1. Len(buf) = p.size /\ \A i \in 1..p.size : buf[i] = Bytes(p)[i]
    <2>1. Bytes(p) \in Seq(Nat) /\ Len(Bytes(p)) = p.size /\ p.size \in Nat
      BY BytesFacts
    <2> QED BY <2>1
  <1>2. p.size > 2 => buf[1] = (IF p.zipped THEN 120 ELSE 123) /\ buf[2] = (IF p.zipped THEN 156 ELSE 34)
    BY <1>1, BytesFacts
  <1>3. p.size \in Nat /\ p.zipped \in BOOLEAN
    BY BytesFacts
  <1>4. CASE p.zipped
    BY <1>1, <1>2, <1>3, <1>4 DEF IsCompressed
  <1>5. CASE ~p.zipped
    BY <1>1, <1>2, <1>3, <1>5 DEF IsCompressed
  <1> QED BY <1>4, <1>5

\* The flag of a message of the server.
Flag(m) == 2 * m.type + (IF m.coded THEN 1 ELSE 0) + (IF m.gzip THEN 16 ELSE 0) + (IF m.error THEN 32 ELSE 0)

\* A message type the flag byte has room for.
Plain(m) == m.type \in 0..3 /\ m.coded \in BOOLEAN /\ m.gzip \in BOOLEAN /\ m.error \in BOOLEAN

\* The bits of a flag are read as they were written.
LEMMA FlagFacts ==
  ASSUME NEW m, Plain(m)
  PROVE  /\ Flag(m) \in Nat
         /\ TypeBits(Flag(m)) = m.type
         /\ HasBit(Flag(m), kMessageGzipMask) = m.gzip
         /\ HasBit(Flag(m), kMessageErrorMask) = m.error
         /\ HasBit(Flag(m), kMessageRouteCompressionMask) = m.coded
  <1>2. PICK t \in 0..3, c \in {0, 1}, g \in {0, 16}, e \in {0, 32} :
           /\ t = m.type
           /\ c = (IF m.coded THEN 1 ELSE 0)
           /\ g = (IF m.gzip THEN 16 ELSE 0)
           /\ e = (IF m.error THEN 32 ELSE 0)
    BY DEF Plain
  <1>3. (c = 1 <=> m.coded) /\ (g = 16 <=> m.gzip) /\ (e = 32 <=> m.error)
    BY <1>2
  <1>4. PICK f \in Nat : f = 2 * t + c + g + e
    OBVIOUS
  <1>5. /\ TypeBits(f) = t
        /\ HasBit(f, kMessageGzipMask) <=> g = 16
        /\ HasBit(f, kMessageErrorMask) <=> e = 32
        /\ HasBit(f, kMessageRouteCompressionMask) <=> c = 1
    BY <1>4 DEF TypeBits, HasBit, kMessageGzipMask, kMessageErrorMask, kMessageRouteCompressionMask
  <1>6. Flag(m) = f
    BY <1>2, <1>4, Zenon DEF Flag
  <1>7. \A x, y : HasBit(x, y) \in BOOLEAN
    BY Zenon DEF HasBit
  <1> QED BY <1>2, <1>3, <1>4, <1>5, <1>6, <1>7, Zenon DEF Plain

\* A route that was read is not the failure to read one.
LEMMA RouteIsNotNone == \A x, y : [route |-> x, end |-> y] # None
  BY DEF None

\* The message without its data, of a body without errors.
HeaderIs(h, buf, id, offset) ==
    /\ h # None /\ h.id = id /\ h.offset = offset
    /\ h.error = HasBit(buf[1], kMessageErrorMask)
    /\ h.gzip = HasBit(buf[1], kMessageGzipMask)

\* It is none when the route was not read.
HeaderOf(h, buf, id, route) ==
    /\ route = None => h = None
    /\ route # None => HeaderIs(h, buf, id, route.end) /\ h.route = route.route

\* ReadHeader, when the route has been read.
LEMMA HeaderRead ==
  ASSUME NEW buf, NEW routes, Len(buf) \in Nat, Len(buf) >= 2,
         NEW type \in 0..3, TypeBits(buf[1]) = type,
         NEW idEnd, idEnd = (IF HasId(type) THEN IdEnd(buf, 1) ELSE 1),
         NEW id, id = (IF HasId(type) THEN IdValue(buf, 1) ELSE 0)
  PROVE  HeaderOf(ReadHeader(buf, routes), buf, id, ReadRoute(buf, idEnd, routes))
  <1>0. PICK h, route : h = ReadHeader(buf, routes) /\ route = ReadRoute(buf, idEnd, routes)
    OBVIOUS
  <1>1. ~(Len(buf) < kMessageHeaderLength \/ IsMessageTypeInvalid(TypeBits(buf[1])))
    BY DEF kMessageHeaderLength, IsMessageTypeInvalid
  <1>2. h = IF route = None
            THEN None
            ELSE [type |-> type,
                  id |-> id,
                  error |-> HasBit(buf[1], kMessageErrorMask),
                  route |-> route.route,
                  offset |-> route.end,
                  gzip |-> HasBit(buf[1], kMessageGzipMask)]
    BY <1>0, <1>1, Zenon DEF ReadHeader
  <1>3. None.type = -1
    BY DEF None
  <1>4. CASE route = None
    BY <1>0, <1>2, <1>4, Zenon DEF HeaderOf
  <1>5. CASE route # None
    <2>1. h.type = type
      BY <1>2, <1>5
    <2>2. h # None
      BY <2>1, <1>3
    <2>3. HeaderIs(h, buf, id, route.end) /\ h.route = route.route
      BY <1>2, <1>5, <2>2 DEF HeaderIs
    <2> QED BY <1>0, <1>5, <2>3, Zenon DEF HeaderOf
  <1> QED BY <1>4, <1>5, Zenon

\* The header of a response.
LEMMA ResponseHeader ==
  ASSUME NEW buf, NEW routes, Len(buf) \in Nat, Len(buf) >= 2, TypeBits(buf[1]) = Response
  PROVE  HeaderIs(ReadHeader(buf, routes), buf, IdValue(buf, 1), IdEnd(buf, 1))
  <1>1. Response \in 0..3 /\ HasId(Response) /\ ~IsMessageTypeRoutable(Response)
    BY DEF Response, Request, Notify, Push, HasId, IsMessageTypeRoutable
  <1>2. PICK route : route = ReadRoute(buf, IdEnd(buf, 1), routes)
    OBVIOUS
  <1>3. route = [route |-> << >>, end |-> IdEnd(buf, 1)]
    BY <1>1, <1>2, Zenon DEF ReadRoute
  <1>4. route # None /\ route.end = IdEnd(buf, 1)
    BY <1>3, RouteIsNotNone
  <1>5. HeaderOf(ReadHeader(buf, routes), buf, IdValue(buf, 1), route)
    BY <1>1, <1>2, HeaderRead, Zenon
  <1> QED BY <1>4, <1>5, Zenon DEF HeaderOf

\* The header of a push.
LEMMA PushHeader ==
  ASSUME NEW buf, NEW routes, Len(buf) \in Nat, Len(buf) >= 2, TypeBits(buf[1]) = Push
  PROVE  HeaderOf(ReadHeader(buf, routes), buf, 0, ReadRoute(buf, 1, routes))
  <1>1. Push \in 0..3 /\ ~HasId(Push)
    BY DEF Response, Request, Push, HasId
  <1> QED BY <1>1, HeaderRead, Zenon

\* h is read from buf, up to the payload of p.size bytes.
ReadUpTo(h, buf, m, p) ==
    h # None /\ h.gzip = m.gzip /\ Len(buf) \in Nat /\ h.offset = Len(buf) - p.size

\* What is behind such a header is as long as the payload.
LEMMA ReadSize ==
  ASSUME NEW h, NEW buf, NEW m, NEW p, ReadUpTo(h, buf, m, p), p.size \in Nat
  PROVE  Len(buf) - h.offset = p.size
  BY DEF ReadUpTo

\* The header of a response: read up to p, with the id and the error flag of m.
ResponseIs(h, buf, m, p) == ReadUpTo(h, buf, m, p) /\ h.id = m.id /\ h.error = m.error

\* A response is read with its id, its error bit and the bytes behind its header.
LEMMA ResponseRead ==
  ASSUME NEW m, Plain(m), m.type = Response, m.id \in Nat, m.id < MaxId,
         NEW p \in Payloads, NEW routes,
         NEW buf, buf = ServerHeader(m) \o Bytes(p), NEW h, h = ReadHeader(buf, routes)
  PROVE  ResponseIs(h, buf, m, p)
  <1>1. PICK d : d = ServerDigits(m.id)
    OBVIOUS
  <1>2. IsDigits(d, m.id)
    BY <1>1, ServerDigitsFacts, Zenon
  <1>3. d \in Seq(Nat)
    BY <1>2, Zenon DEF IsDigits
  <1>4. PICK b : b = Bytes(p)
    OBVIOUS
  <1>5. b \in Seq(Nat) /\ Len(b) = p.size
    BY <1>4, BytesFacts, Zenon
  <1>6. Response # Push
    BY DEF Response, Push
  <1>7. ServerHeader(m) = (<< Flag(m) >> \o d) \o << >>
    BY <1>1, <1>6, Zenon DEF ServerHeader, Flag
  <1>8. << >> \in Seq(Nat) /\ Len(<< >>) = 0
    OBVIOUS
  <1>9. Frame(buf, Flag(m), d, << >>, b)
    BY <1>3, <1>4, <1>5, <1>7, <1>8, FlagFacts, Frames, Zenon
  <1>10. Digits(buf, Len(d), m.id)
    BY <1>2, <1>9, FrameDigits, Zenon
  <1>11. Len(d) \in 1..3
    BY <1>10, DigitsEnd, Zenon
  <1>12. /\ buf \in Seq(Nat) /\ Len(buf) = 1 + Len(d) + p.size
         /\ buf[1] = Flag(m)
    <2>1. Len(buf) = 1 + Len(d) + Len(<< >>) + Len(b) /\ buf \in Seq(Nat) /\ buf[1] = Flag(m)
      BY <1>9, Zenon DEF Frame
    <2> QED BY <2>1, <1>5, <1>8, <1>11
  <1>13. p.size \in Nat
    BY BytesFacts, Zenon
  <1>14. Len(buf) \in Nat /\ Len(buf) >= 2 /\ Len(buf) > Len(d) /\ 1 + Len(d) = Len(buf) - p.size
    <2>1. ASSUME NEW n \in 1..3, NEW z \in Nat, NEW k, k = 1 + n + z
          PROVE  k \in Nat /\ k >= 2 /\ k > n /\ 1 + n = k - z
      BY <2>1
    <2> QED BY <1>11, <1>12, <1>13, <2>1, Zenon
  <1>15. IdEnd(buf, 1) = 1 + Len(d) /\ IdValue(buf, 1) = m.id
    BY <1>10, <1>12, <1>14, IdEndIs, IdValueIs, Zenon
  <1>16. TypeBits(buf[1]) = Response
    BY <1>12, FlagFacts, Zenon
  <1>17. HeaderIs(h, buf, m.id, 1 + Len(d))
    BY <1>14, <1>15, <1>16, ResponseHeader, Zenon
  <1> QED BY <1>12, <1>14, <1>17, FlagFacts, Zenon DEF HeaderIs, ReadUpTo, ResponseIs

\* The body of push m with payload p: its flag byte, e and the bytes of p.
PushBody(buf, m, p, e) ==
    /\ Len(buf) \in Nat /\ Len(buf) >= 2 /\ 1 + Len(e) = Len(buf) - p.size
    /\ buf[1] = Flag(m) /\ TypeBits(buf[1]) = Push
    /\ \A k \in 1..Len(e) : buf[1 + k] = e[k]

\* What there is in a push behind its flag byte: e and the bytes of the payload.
LEMMA PushFrame ==
  ASSUME NEW m, Plain(m), m.type = Push, NEW p \in Payloads, NEW e \in Seq(Nat), Len(e) > 0,
         NEW buf, buf = ((<< Flag(m) >> \o << >>) \o e) \o Bytes(p)
  PROVE  PushBody(buf, m, p, e)
  <1>1. PICK b : b = Bytes(p)
    OBVIOUS
  <1>2. b \in Seq(Nat) /\ Len(b) = p.size /\ p.size \in Nat
    BY <1>1, BytesFacts, Zenon
  <1>3. << >> \in Seq(Nat) /\ Len(<< >>) = 0
    OBVIOUS
  <1>4. Frame(buf, Flag(m), << >>, e, b)
    BY <1>1, <1>2, <1>3, FlagFacts, Frames, Zenon
  <1>5. /\ Len(buf) = 1 + 0 + Len(e) + p.size /\ buf[1] = Flag(m)
        /\ \A k \in 1..Len(e) : buf[1 + 0 + k] = e[k]
    BY <1>2, <1>3, <1>4, Zenon DEF Frame
  <1>6. \A k \in 1..Len(e) : 1 + 0 + k = 1 + k
    OBVIOUS
  <1>7. \A k \in 1..Len(e) : buf[1 + k] = e[k]
    BY <1>5, <1>6, Zenon
  <1>8. Len(buf) \in Nat /\ Len(buf) >= 2 /\ 1 + Len(e) = Len(buf) - p.size
    <2>1. ASSUME NEW n \in Nat, n > 0, NEW z \in Nat, NEW k, k = 1 + 0 + n + z
          PROVE  k \in Nat /\ k >= 2 /\ 1 + n = k - z
      BY <2>1
    <2>2. Len(e) \in Nat
      OBVIOUS
    <2> QED BY <1>2, <1>5, <2>1, <2>2, Zenon
  <1>9. TypeBits(buf[1]) = Push
    BY <1>5, FlagFacts, Zenon
  <1> QED BY <1>5, <1>7, <1>8, <1>9, Zenon DEF PushBody

\* A push with a code is read with the route of the lower byte of the code, or
\* not at all.
LEMMA CodedPushRead ==
  ASSUME NEW m, Plain(m), m.type = Push, m.coded = TRUE, m.code \in Nat,
         NEW p \in Payloads, NEW routes,
         NEW buf, buf = ServerHeader(m) \o Bytes(p), NEW h, h = ReadHeader(buf, routes)
  PROVE  /\ h # None => ReadUpTo(h, buf, m, p)
         /\ m.code < 256 /\ m.code \in DOMAIN routes => h # None /\ h.route = routes[m.code]
  <1>1. PICK e : e = << m.code \div 256, m.code % 256 >>
    BY Zenon
  <1>2. m.code \div 256 \in Nat /\ m.code % 256 \in Nat /\ (m.code < 256 => m.code % 256 = m.code)
    OBVIOUS
  <1>3. e \in Seq(Nat) /\ Len(e) = 2 /\ Len(e) > 0 /\ e[2] = m.code % 256
    BY <1>1, <1>2
  <1>4. Push # Response
    BY DEF Response, Push
  <1>5. ServerHeader(m) = (<< Flag(m) >> \o << >>) \o e
    BY <1>1, <1>4, Zenon DEF ServerHeader, Flag
  <1>6. /\ Len(buf) \in Nat /\ Len(buf) >= 2 /\ 1 + Len(e) = Len(buf) - p.size
        /\ buf[1] = Flag(m) /\ TypeBits(buf[1]) = Push
        /\ \A k \in 1..Len(e) : buf[1 + k] = e[k]
    <2>1. PushBody(buf, m, p, e)
      BY <1>3, <1>5, PushFrame, Zenon
    <2> QED BY <2>1, Zenon DEF PushBody
  <1>7. buf[1 + 2] = m.code % 256 /\ 1 + 2 = 1 + Len(e)
    <2>1. 2 \in 1..Len(e)
      BY <1>3
    <2> QED BY <1>3, <1>6, <2>1, Zenon
  <1>8. IsMessageTypeRoutable(Push)
    BY DEF IsMessageTypeRoutable, Push
  <1>9. HasBit(buf[1], kMessageRouteCompressionMask)
    BY <1>6, FlagFacts, Zenon
  <1>10. PICK route : route = ReadRoute(buf, 1, routes)
    OBVIOUS
  <1>11. route = CompressedRoute(buf, 1, routes)
    BY <1>6, <1>8, <1>9, <1>10, Zenon DEF ReadRoute
  <1>12. route = IF m.code % 256 \in DOMAIN routes
                 THEN [route |-> routes[m.code % 256], end |-> 1 + 2] ELSE None
    BY <1>7, <1>11, Zenon DEF CompressedRoute
  <1>13. HeaderOf(h, buf, 0, route)
    BY <1>6, <1>10, PushHeader, Zenon
  <1>14. m.code % 256 \in DOMAIN routes => route # None /\ route.route = routes[m.code % 256] /\ route.end = 1 + 2
    BY <1>12, RouteIsNotNone
  <1>15. CASE m.code % 256 \in DOMAIN routes
    <2>1. HeaderIs(h, buf, 0, route.end) /\ h.route = routes[m.code % 256]
      BY <1>13, <1>14, <1>15, Zenon DEF HeaderOf
    <2>2. h # None /\ h.offset = 1 + 2 /\ h.gzip = HasBit(buf[1], kMessageGzipMask)
      BY <1>14, <1>15, <2>1, ZenonT(30) DEF HeaderIs
    <2>3. h.gzip = m.gzip
      BY <1>6, <2>2, FlagFacts, Zenon
    <2> QED BY <1>2, <1>6, <1>7, <2>1, <2>2, <2>3, Zenon DEF ReadUpTo
  <1>16. CASE m.code % 256 \notin DOMAIN routes
    <2>1. h = None
      BY <1>12, <1>13, <1>16, Zenon DEF HeaderOf
    <2> QED BY <1>2, <1>6, <1>16, <2>1, Zenon
  <1> QED BY <1>15, <1>16, Zenon

\* A push with a route is read up to its data.
LEMMA PlainPushRead ==
  ASSUME NEW m, Plain(m), m.type = Push, m.coded = FALSE, m.route \in Seq(Nat),
         NEW p \in Payloads, NEW routes,
         NEW buf, buf = ServerHeader(m) \o Bytes(p), NEW h, h = ReadHeader(buf, routes)
  PROVE  ReadUpTo(h, buf, m, p)
  <1>1. PICK e : e = << Len(m.route) >> \o m.route
    BY Zenon
  <1>2. Len(m.route) \in Nat
    OBVIOUS
  <1>3. e \in Seq(Nat) /\ Len(e) = 1 + Len(m.route) /\ Len(e) > 0 /\ e[1] = Len(m.route)
    BY <1>1, <1>2
  <1>4. Push # Response
    BY DEF Response, Push
  <1>5. ServerHeader(m) = (<< Flag(m) >> \o << >>) \o e
    BY <1>1, <1>4, Zenon DEF ServerHeader, Flag
  <1>6. /\ Len(buf) \in Nat /\ Len(buf) >= 2 /\ 1 + Len(e) = Len(buf) - p.size
        /\ buf[1] = Flag(m) /\ TypeBits(buf[1]) = Push
        /\ \A k \in 1..Len(e) : buf[1 + k] = e[k]
    <2>1. PushBody(buf, m, p, e)
      BY <1>3, <1>5, PushFrame, Zenon
    <2> QED BY <2>1, Zenon DEF PushBody
  <1>7. buf[1 + 1] = Len(m.route) /\ 1 + 1 + Len(m.route) = 1 + Len(e)
    <2>1. 1 \in 1..Len(e) /\ 1 + 1 + Len(m.route) = 1 + Len(e)
      BY <1>2, <1>3
    <2> QED BY <1>3, <1>6, <2>1, Zenon
  <1>8. IsMessageTypeRoutable(Push)
    BY DEF IsMessageTypeRoutable, Push
  <1>9. ~HasBit(buf[1], kMessageRouteCompressionMask)
    BY <1>6, FlagFacts, Zenon
  <1>10. PICK route : route = ReadRoute(buf, 1, routes)
    OBVIOUS
  <1>11. route = PlainRoute(buf, 1)
    BY <1>6, <1>8, <1>9, <1>10, Zenon DEF ReadRoute
  <1>12. route # None /\ route.end = 1 + Len(e)
    BY <1>7, <1>11, RouteIsNotNone DEF PlainRoute
  <1>13. HeaderOf(h, buf, 0, route)
    BY <1>6, <1>10, PushHeader, Zenon
  <1>14. h # None /\ h.offset = 1 + Len(e) /\ h.gzip = HasBit(buf[1], kMessageGzipMask)
    BY <1>12, <1>13, Zenon DEF HeaderOf, HeaderIs
  <1> QED BY <1>6, <1>14, FlagFacts, Zenon DEF ReadUpTo

\* The dictionary of codes is the inverse of the one of routes.
LEMMA CodeIsRoute ==
  ASSUME NEW r \in Routes
  PROVE  /\ routeToCode[r] \in DOMAIN codeToRoute(routeToCode)
         /\ codeToRoute(routeToCode)[routeToCode[r]] = r
  <1>1. routeToCode[r] \in {routeToCode[s] : s \in DOMAIN routeToCode}
    BY DEF Routes
  <1>2. PICK t : t = CHOOSE s \in DOMAIN routeToCode : routeToCode[s] = routeToCode[r]
    OBVIOUS
  <1>3. t \in DOMAIN routeToCode /\ routeToCode[t] = routeToCode[r]
    BY <1>2, Zenon DEF Routes
  <1>4. t = r
    BY <1>3, RoutesAssumption, Zenon DEF Routes
  <1> QED BY <1>1, <1>2, <1>4 DEF codeToRoute

\* A code of two bytes is what its bytes say.
LEMMA CodeBytes ==
  ASSUME NEW n \in Nat, n < 256 * 256
  PROVE  (n \div 256) % 256 \in Nat /\ n % 256 \in Nat /\ 256 * ((n \div 256) % 256) + (n % 256) = n
  OBVIOUS

\* The server reads from a request what was written into it.
LEMMA RequestWritten ==
  ASSUME NEW q \in [id : ReqIds, route : Routes],
         NEW buf, buf = SerializeInto(NewRequest(q.id, q.route), routeToCode),
         NEW g, g = ServerReads(buf)
  PROVE  g.type = Request /\ g.id = q.id /\ g.code = routeToCode[q.route]
  <1>1. q.id \in ReqIds /\ q.route \in Routes
    OBVIOUS
  <1>2. q.id \in Nat /\ q.id < MaxId
    BY <1>1, IdsAssumption, Zenon DEF MaxId
  <1>3. PICK c \in Nat : c = routeToCode[q.route] /\ c < 256 * 256
    BY <1>1, RoutesAssumption, Zenon DEF Routes
  <1>4. PICK d : d = Varint(q.id)
    OBVIOUS
  <1>5. IsDigits(d, q.id) /\ d \in Seq(Nat)
    BY <1>2, <1>4, VarintFacts, Zenon DEF IsDigits
  <1>6. PICK e : e = RouteCode(c)
    OBVIOUS
  <1>7. e \in Seq(Nat) /\ Len(e) = 2 /\ e[1] = (c \div 256) % 256 /\ e[2] = c % 256
    BY <1>3, <1>6, CodeBytes DEF RouteCode
  <1>8. buf = ((<< 1 >> \o d) \o e) \o << >>
    <2>1. PICK msg : msg = NewRequest(q.id, q.route)
      OBVIOUS
    <2>2. msg.type = Request /\ msg.id = q.id /\ msg.route = q.route /\ msg.data = << >> /\ msg.error = FALSE
      BY <2>1 DEF NewRequest
    <2>3. HasId(Request) /\ IsMessageTypeRoutable(Request)
      BY Zenon DEF HasId, IsMessageTypeRoutable
    <2>4. kMessageRouteCompressionMask + (IF msg.error THEN kMessageErrorMask ELSE 0) = 1
      BY <2>2 DEF kMessageRouteCompressionMask
    <2> QED BY <1>3, <1>4, <1>6, <2>1, <2>2, <2>3, <2>4, Zenon DEF SerializeInto
  <1>9. << >> \in Seq(Nat) /\ 1 \in Nat
    OBVIOUS
  <1>10. Frame(buf, 1, d, e, << >>)
    BY <1>5, <1>7, <1>8, <1>9, Frames, Zenon
  <1>11. PICK n : n = Len(d)
    BY Zenon
  <1>12. Digits(buf, n, q.id)
    BY <1>5, <1>10, <1>11, FrameDigits, Zenon
  <1>13. g.type = TypeBits(buf[1]) /\ g.id = q.id /\ g.code = 256 * buf[n + 2] + buf[n + 3]
    BY <1>12, RequestRead
  <1>14. buf[1] = 1 /\ buf[n + 2] = e[1] /\ buf[n + 3] = e[2]
    <2>1. 1 \in 1..Len(e) /\ 2 \in 1..Len(e)
      BY <1>7
    <2>2. buf[1] = 1 /\ buf[1 + n + 1] = e[1] /\ buf[1 + n + 2] = e[2]
      BY <1>10, <1>11, <2>1, Zenon DEF Frame
    <2>3. 1 + n + 1 = n + 2 /\ 1 + n + 2 = n + 3
      BY <1>5, <1>11
    <2> QED BY <2>2, <2>3, Zenon
  <1>15. g.code = c
    <2>1. PICK x, y : x = buf[n + 2] /\ y = buf[n + 3]
      OBVIOUS
    <2>2. x = (c \div 256) % 256 /\ y = c % 256
      BY <1>7, <1>14, <2>1, Zenon
    <2>3. 256 * x + y = c
      BY <1>3, <2>2, CodeBytes, ZenonT(30)
    <2>4. g.code = 256 * x + y
      BY <1>13, <2>1, Zenon
    <2> QED BY <2>3, <2>4, Zenon
  <1>16. TypeBits(1) = Request
    BY DEF TypeBits, Request
  <1> QED BY <1>3, <1>13, <1>14, <1>15, <1>16, Zenon

-----------------------------------------------------------------------------
(* The decoder *)

\* Record g is request q.
Understood(g, q) == g.type = Request /\ g.id = q.id /\ g.code = routeToCode[q.route]

\* The bytes of m on their way.
Wired(m) == (IF m.type = Handshake THEN << >> ELSE ServerHeader(m)) \o Bytes(m.payload)

\* h says of m what the client goes by when m answers q.
Named(h, m, q) ==
    /\ m.type = Response => h.id = q.id /\ h.error = m.error
    /\ m.type = Push /\ m.coded /\ m.code < 256 => h.route = q.route

\* m cannot be misunderstood.
Known(m) == m.type = Push /\ m.coded => m.code < 256

\* h is read from the bytes of m, which has payload p.
HeaderFits(h, buf, m, p, q) ==
    /\ h # None => /\ Len(buf) - h.offset = p.size
                   /\ h.gzip \in BOOLEAN
                   /\ ~h.gzip => p.stream.content = p.size
                   /\ Named(h, m, q)
    /\ Known(m) => h # None

\* What the client reads when it calls Deserialize, or reads a handshake response.
ReadOf(m, buf) ==
    IF m.type = Handshake THEN [type |-> Handshake, offset |-> 0, gzip |-> IsCompressed(buf)]
                          ELSE ReadHeader(buf, codeToRoute(routeToCode))

\* Whatever the server sends is read with the length of its payload.
LEMMA ReplyRead ==
  ASSUME NEW q \in [id : ReqIds, route : Routes], NEW g, Understood(g, q),
         NEW p \in Payloads, NEW m \in Replies(g, p), NEW buf, buf = Wired(m)
  PROVE  m.payload = p /\ HeaderFits(ReadOf(m, buf), buf, m, p, q)
  <1>0. PICK h : h = ReadOf(m, buf)
    OBVIOUS
  <1>D. Response # Push /\ Response # Handshake /\ Push # Handshake /\ Response \in 0..3 /\ Push \in 0..3
    BY DEF Response, Push, Handshake
  <1>P. /\ p.size \in Nat /\ p.zipped \in BOOLEAN
        /\ ~p.zipped => p.stream.content = p.size
        /\ p.zipped => p.size > 2 \/ p.stream.content = p.size
    <2>1. /\ p.size \in Nat /\ p.zipped \in BOOLEAN
          /\ IF p.zipped THEN p.size > 2 \/ (p.size = 0 /\ p.stream.content = 0)
                         ELSE p.stream.content = p.size
      BY PayloadsAssumption, Zenon
    <2> QED BY <2>1, Zenon
  <1>Q. q.id \in Nat /\ q.id < MaxId /\ q.route \in Routes /\ routeToCode[q.route] \in Nat
    <2>1. q.id \in ReqIds /\ q.route \in Routes
      OBVIOUS
    <2>2. q.id \in Nat /\ q.id < MaxId
      BY <2>1, IdsAssumption DEF MaxId
    <2>3. routeToCode[q.route] \in Nat
      BY <2>1, RoutesAssumption, Zenon DEF Routes
    <2> QED BY <2>1, <2>2, <2>3, Zenon
  <1>1. CASE \E e \in BOOLEAN : m = [type |-> Response, id |-> g.id, error |-> e, coded |-> FALSE,
                                     gzip |-> p.zipped, payload |-> p]
    <2>1. /\ m.type = Response /\ m.id = q.id /\ m.error \in BOOLEAN /\ m.coded = FALSE
          /\ m.gzip = p.zipped /\ m.payload = p
      BY <1>1 DEF Understood
    <2>2. Plain(m)
      BY <1>D, <1>P, <2>1, Zenon DEF Plain
    <2>3. h = ReadHeader(buf, codeToRoute(routeToCode)) /\ buf = ServerHeader(m) \o Bytes(p)
      BY <1>0, <1>D, <2>1, Zenon DEF ReadOf, Wired
    <2>4. m.id \in Nat /\ m.id < MaxId
      BY <1>Q, <2>1, Zenon
    <2>r. ReadUpTo(h, buf, m, p) /\ h.id = m.id /\ h.error = m.error
      <3>1. m.type = Response
        BY <2>1, Zenon
      <3>2. ResponseIs(h, buf, m, p)
        BY <2>2, <2>3, <2>4, <3>1, ResponseRead, Zenon
      <3> QED BY <3>2, Zenon DEF ResponseIs
    <2>5. Len(buf) - h.offset = p.size
      BY <1>P, <2>r, ReadSize, Zenon
    <2> QED BY <1>0, <1>D, <1>P, <2>1, <2>r, <2>5, Zenon DEF HeaderFits, Named, ReadUpTo
  <1>2. CASE m = [type |-> Push, coded |-> TRUE, code |-> g.code, error |-> FALSE,
                  gzip |-> p.zipped, payload |-> p]
    <2>1. /\ m.type = Push /\ m.code = routeToCode[q.route] /\ m.error = FALSE /\ m.coded = TRUE
          /\ m.gzip = p.zipped /\ m.payload = p
      BY <1>2 DEF Understood
    <2>2. Plain(m)
      BY <1>D, <1>P, <2>1, Zenon DEF Plain
    <2>3. h = ReadHeader(buf, codeToRoute(routeToCode)) /\ buf = ServerHeader(m) \o Bytes(p)
      BY <1>0, <1>D, <2>1, Zenon DEF ReadOf, Wired
    <2>4. PICK routes : routes = codeToRoute(routeToCode)
      OBVIOUS
    <2>c. m.code \in Nat
      BY <1>Q, <2>1, Zenon
    <2>5. /\ h # None => ReadUpTo(h, buf, m, p)
          /\ m.code < 256 /\ m.code \in DOMAIN routes => h # None /\ h.route = routes[m.code]
      BY <2>1, <2>2, <2>3, <2>4, <2>c, CodedPushRead, ZenonT(30)
    <2>6. m.code \in DOMAIN routes /\ routes[m.code] = q.route
      BY <1>Q, <2>1, <2>4, CodeIsRoute, Zenon
    <2>7. h # None => Len(buf) - h.offset = p.size
      BY <1>P, <2>5, ReadSize, Zenon
    <2> QED BY <1>0, <1>D, <1>P, <2>1, <2>5, <2>6, <2>7, Zenon DEF HeaderFits, Named, Known, ReadUpTo
  <1>3. CASE \E s \in PlainRoutes : m = [type |-> Push, coded |-> FALSE, route |-> s, error |-> FALSE,
                                         gzip |-> p.zipped, payload |-> p]
    <2>1. /\ m.type = Push /\ m.route \in PlainRoutes /\ m.error = FALSE /\ m.coded = FALSE
          /\ m.gzip = p.zipped /\ m.payload = p
      BY <1>3
    <2>2. Plain(m)
      BY <1>D, <1>P, <2>1, Zenon DEF Plain
    <2>3. h = ReadHeader(buf, codeToRoute(routeToCode)) /\ buf = ServerHeader(m) \o Bytes(p)
      BY <1>0, <1>D, <2>1, Zenon DEF ReadOf, Wired
    <2>4. m.route \in Seq(Nat)
      <3>1. m.route \in Seq(0..255)
        BY <2>1, RoutesAssumption, Zenon
      <3>2. ASSUME NEW S, NEW T, S \subseteq T, NEW s \in Seq(S) PROVE s \in Seq(T)
        BY <3>2
      <3>3. 0..255 \subseteq Nat
        OBVIOUS
      <3> QED BY <3>1, <3>2, <3>3, ZenonT(30)
    <2>5. ReadUpTo(h, buf, m, p)
      BY <2>1, <2>2, <2>3, <2>4, PlainPushRead, Zenon
    <2>6. Len(buf) - h.offset = p.size
      BY <1>P, <2>5, ReadSize, Zenon
    <2> QED BY <1>0, <1>D, <1>P, <2>1, <2>5, <2>6, Zenon DEF HeaderFits, Named, ReadUpTo
  <1>4. CASE m = [type |-> Handshake, payload |-> p]
    <2>1. m.type = Handshake /\ m.payload = p
      BY <1>4
    <2>2. buf = << >> \o Bytes(p) /\ h = [type |-> Handshake, offset |-> 0, gzip |-> IsCompressed(buf)]
      BY <1>0, <2>1, Zenon DEF ReadOf, Wired
    <2>3. Len(buf) = p.size /\ (IsCompressed(buf) <=> p.zipped /\ p.size > 2)
      BY <2>2, HandshakeRead, Zenon
    <2>4. h.type = Handshake /\ h.offset = 0 /\ h.gzip = IsCompressed(buf)
      BY <2>2
    <2>5. h # None
      BY <2>4 DEF Handshake, None
    <2>6. Len(buf) - h.offset = p.size
      BY <1>P, <2>3, <2>4
    <2>7. h.gzip \in BOOLEAN
      BY <2>4, Zenon DEF IsCompressed
    <2> QED BY <1>0, <1>D, <1>P, <2>1, <2>3, <2>4, <2>5, <2>6, <2>7, Zenon DEF HeaderFits, Named
  <1> QED BY <1>1, <1>2, <1>3, <1>4, Zenon DEF Replies

\* The steps of the decoder: what the server understood and sent, how the client
\* reads it, and what it makes of it.
DecoderInv ==
    /\ request \in [id : ReqIds, route : Routes]
    /\ pc \in {"client", "server", "read", "decompress", "done"}
    /\ pc # "decompress" => zpc = "idle"
    /\ pc \in {"client", "server"} => got = None
    /\ pc = "server" => wire = SerializeInto(NewRequest(request.id, request.route), routeToCode)
    /\ pc \in {"read", "decompress", "done"} => Understood(got, request)
    /\ pc \in {"read", "decompress"} => sent.payload \in Payloads /\ sent \in Replies(got, sent.payload)
    /\ pc = "read" => wire = Wired(sent)
    /\ pc = "decompress" => stream = sent.payload.stream /\ Named(header, sent, request)
    /\ pc = "done" => ReplyIsWhole /\ (result # None => Named(result.header, sent, request))

\* It holds before the first request.
LEMMA InitDecoder == Init => GzipInit /\ DecoderInv
  BY DEF Init, GzipInit, DecoderInv

\* A message is not None.
LEMMA ResultIsNotNone ==
  ASSUME NEW x, NEW y
  PROVE  [header |-> x, size |-> y] # None /\ [header |-> x, size |-> y].header = x
            /\ [header |-> x, size |-> y].size = y
  BY DEF None

\* The step of Read: the call of Decompress, or the message.
LEMMA ReadStep ==
  ASSUME DecoderInv, Read
  PROVE  DecoderInv' /\ (GzipNext \/ UNCHANGED gzipVars)
  <1>0. pc = "read" /\ UNCHANGED << request, wire, got, sent >>
    BY DEF Read, Deserialize, ReadHandshake
  <1>1. /\ request \in [id : ReqIds, route : Routes] /\ Understood(got, request)
        /\ sent.payload \in Payloads /\ sent \in Replies(got, sent.payload) /\ wire = Wired(sent) /\ zpc = "idle"
    BY <1>0 DEF DecoderInv
  <1>2. header' = ReadOf(sent, wire)
    BY Zenon DEF Read, Deserialize, ReadHandshake, ReadOf
  <1>3. PICK p \in Payloads : p = sent.payload
    BY <1>1
  <1>4. HeaderFits(header', wire, sent, p, request)
    BY <1>1, <1>2, <1>3, ReplyRead, Zenon
  <1>5. p.size \in Nat /\ p.stream \in Streams
    BY PayloadsAssumption, Zenon
  <1>6. CASE header' # None /\ header'.gzip
    <2>1. CallDecompress(Len(wire) - header'.offset, sent.payload.stream) /\ pc' = "decompress"
      BY <1>6, Zenon DEF Read
    <2>2. CallDecompress(p.size, p.stream)
      BY <1>3, <1>4, <1>6, <2>1, Zenon DEF HeaderFits
    <2>3. size' = p.size /\ stream' = p.stream
      BY <2>2, Zenon DEF CallDecompress
    <2>4. GzipNext
      BY <1>5, <2>2, <2>3, Zenon DEF GzipNext
    <2>5. Named(header', sent, request)
      BY <1>4, <1>6, ZenonT(30) DEF HeaderFits
    <2>6. DecoderInv'
      BY <1>0, <1>1, <1>3, <2>1, <2>3, <2>5, Zenon DEF DecoderInv, Understood, Named, Replies
    <2> QED BY <2>4, <2>6
  <1>7. CASE ~(header' # None /\ header'.gzip)
    <2>1. /\ pc' = "done" /\ UNCHANGED gzipVars
          /\ result' = IF header' = None THEN None ELSE [header |-> header', size |-> Len(wire) - header'.offset]
      BY <1>7, ZenonT(30) DEF Read
    <2>2. CASE header' = None
      <3>1. result' = None /\ ~Known(sent)
        BY <1>4, <2>1, <2>2, Zenon DEF HeaderFits
      <3>2. ReplyIsWhole'
        BY <1>0, <3>1, ZenonT(30) DEF ReplyIsWhole, Known
      <3> QED BY <1>0, <1>1, <2>1, <3>1, <3>2, Zenon DEF DecoderInv, Understood, gzipVars
    <2>3. CASE header' # None
      <3>1. result' = [header |-> header', size |-> p.size]
        BY <1>4, <2>1, <2>3, ZenonT(30) DEF HeaderFits
      <3>2. result' # None /\ result'.header = header' /\ result'.size = p.size
        BY <3>1, ResultIsNotNone, Zenon
      <3>3. p.stream.content = p.size /\ Named(header', sent, request)
        BY <1>4, <1>7, <2>3, Zenon DEF HeaderFits
      <3>4. ReplyIsWhole'
        BY <1>0, <1>3, <3>2, <3>3, Zenon DEF ReplyIsWhole, Whole
      <3>5. Named(result'.header, sent', request')
        BY <1>0, <3>2, <3>3, Zenon
      <3> QED BY <1>0, <1>1, <2>1, <3>4, <3>5, Zenon DEF DecoderInv, Understood, gzipVars
    <2> QED BY <2>1, <2>2, <2>3, Zenon
  <1> QED BY <1>6, <1>7

\* A reply carries the payload it was made with.
LEMMA RepliesPayload == ASSUME NEW g, NEW p, NEW m \in Replies(g, p) PROVE m.payload = p
  BY DEF Replies

\* No step breaks DecoderInv, and each is a step of Decompress or none.
LEMMA DecoderStep ==
  ASSUME DecompressInv, DecoderInv, [Next]_vars
  PROVE  DecoderInv' /\ [GzipNext]_gzipVars
  <1>1. CASE WriteRequest
    BY <1>1, Zenon DEF WriteRequest, DecoderInv, gzipVars
  <1>2. CASE ServerSends
    <2>1. /\ pc = "server" /\ pc' = "read" /\ got' = ServerReads(wire) /\ UNCHANGED << gzipVars, request >>
          /\ zpc' = zpc
      BY <1>2, Zenon DEF ServerSends, gzipVars
    <2>2. PICK p \in Payloads : \E m \in Replies(got', p) :
             sent' = m /\ wire' = (IF m.type = Handshake THEN << >> ELSE ServerHeader(m)) \o Bytes(p)
      BY <1>2, Zenon DEF ServerSends
    <2>3. /\ request \in [id : ReqIds, route : Routes] /\ zpc = "idle"
          /\ wire = SerializeInto(NewRequest(request.id, request.route), routeToCode)
      BY <2>1 DEF DecoderInv
    <2>4. Understood(got', request)
      BY <2>1, <2>3, RequestWritten, ZenonT(30) DEF Understood
    <2>5. sent' \in Replies(got', p)
      BY <2>2, Zenon
    <2>6. sent'.payload = p
      BY <2>5, RepliesPayload, Zenon
    <2>7. wire' = Wired(sent')
      BY <2>2, <2>6, Zenon DEF Wired
    <2> QED BY <2>1, <2>2, <2>3, <2>4, <2>5, <2>6, <2>7, Zenon DEF DecoderInv, Understood
  <1>3. CASE Read
    BY <1>3, ReadStep, Zenon
  <1>4. CASE (Realloc \/ Inflate) /\ UNCHANGED decoderVars
    <2>1. GzipNext
      BY <1>4 DEF GzipNext
    <2>2. zpc # "idle" /\ stream' = stream
      BY <1>4 DEF Realloc, Inflate
    <2>3. pc = "decompress"
      BY <2>2 DEF DecoderInv
    <2> QED BY <1>4, <2>1, <2>2, <2>3, Zenon DEF DecoderInv, decoderVars, Understood, Named
  <1>5. CASE UseDecompressed
    <2>1. /\ pc = "decompress" /\ pc' = "done" /\ Return /\ UNCHANGED << request, wire, got, sent, header >>
          /\ result' = IF rc # Z_OK THEN None ELSE [header |-> header, size |-> output_size]
      BY <1>5 DEF UseDecompressed
    <2>2. zpc = "returned" /\ zpc' = "idle" /\ rc' = rc /\ failed' = failed
      BY <2>1, Zenon DEF Return
    <2>3. stream = sent.payload.stream /\ Named(header, sent, request)
      BY <2>1, Zenon DEF DecoderInv
    <2>4. CASE rc # Z_OK
      BY <2>1, <2>2, <2>4, Zenon DEF DecoderInv, Understood, ReplyIsWhole, NoFault, GzipNext
    <2>5. CASE rc = Z_OK
      <3>1. result' # None /\ result'.header = header /\ result'.size = output_size
        BY <2>1, <2>5, ResultIsNotNone
      <3>2. ~failed => output_size = sent.payload.stream.content
        BY <2>2, <2>3, <2>5 DEF DecompressInv, DecompressedWhole
      <3>3. ReplyIsWhole'
        BY <2>1, <2>2, <3>1, <3>2, Zenon DEF ReplyIsWhole, NoFault, Whole
      <3>4. Named(result'.header, sent', request')
        BY <2>1, <2>3, <3>1, Zenon
      <3> QED BY <2>1, <2>2, <3>3, <3>4, Zenon DEF DecoderInv, Understood, GzipNext
    <2> QED BY <2>4, <2>5
  <1>6. CASE UNCHANGED vars
    <2>1. UNCHANGED << request, pc, zpc, got, wire, sent, stream, header, result, gzipVars >>
      BY <1>6, Zenon DEF vars, gzipVars, decoderVars
    <2>2. ReplyIsWhole' <=> ReplyIsWhole
      BY <2>1, Zenon DEF ReplyIsWhole, Whole, NoFault, gzipVars
    <2>3. (Understood(got, request))' <=> Understood(got, request)
      BY <2>1, Zenon DEF Understood
    <2>4. (Named(header, sent, request))' <=> Named(header, sent, request)
      BY <2>1, Zenon DEF Named
    <2>5. (Named(result.header, sent, request))' <=> Named(result.header, sent, request)
      BY <2>1, Zenon DEF Named
    <2>6. DecoderInv'
      BY <2>1, <2>2, <2>3, <2>4, <2>5 DEF DecoderInv
    <2> QED BY <2>1, <2>6, Zenon
  <1> QED BY <1>1, <1>2, <1>3, <1>4, <1>5, <1>6, Zenon DEF Next

\* The inductive invariant of the decoder with Decompress under it.
DecoderAndDecompress == DecompressInv /\ DecoderInv

\* It holds in every state of every behaviour of the decoder.
LEMMA DecoderInvariance == Spec => []DecoderAndDecompress
  <1>1. Init => DecoderAndDecompress
    BY InitDecoder, InitDecompress DEF DecoderAndDecompress
  <1>2. DecoderAndDecompress /\ [Next]_vars => DecoderAndDecompress'
    BY DecoderStep, NextDecompress DEF DecoderAndDecompress
  <1> QED BY <1>1, <1>2, PTL DEF Spec

\* The decoder calls Decompress as it may be called: its steps are steps of
\* Decompress, with a size that is not negative, or leave it alone.
THEOREM DecoderCallsDecompress == Spec => CallsDecompress
  <1>1. Init => GzipInit
    BY InitDecoder
  <1>2. DecoderAndDecompress /\ [Next]_vars => [GzipNext]_gzipVars
    BY DecoderStep DEF DecoderAndDecompress
  <1> QED BY <1>1, <1>2, DecoderInvariance, PTL DEF Spec, CallsDecompress, GzipSpec

\* The server reads the id and the code of every request that
\* Message::SerializeInto writes, with an id of one, two or three digits.
THEOREM DecoderRequestIsRead == Spec => []RequestIsRead
  <1>1. DecoderAndDecompress => RequestIsRead
    BY Zenon DEF DecoderAndDecompress, DecoderInv, RequestIsRead, Understood
  <1> QED BY <1>1, DecoderInvariance, PTL

\* The data of every message come whole, compressed or not, when zlib met no
\* error and there was memory; but for a push with a code above 255.
THEOREM DecoderReplyIsWhole == Spec => []ReplyIsWhole
  <1>1. DecoderAndDecompress => ReplyIsWhole
    BY DEF DecoderAndDecompress, DecoderInv, ReplyIsWhole
  <1> QED BY <1>1, DecoderInvariance, PTL

\* A response that Message::Deserialize returns has the id of its request and the
\* error bit the server set, a push with a code below 256 the route of the code.
THEOREM DecoderReplyIsNamed == Spec => []ReplyIsNamed
  <1>1. DecoderAndDecompress => ReplyIsNamed
    BY DEF DecoderAndDecompress, DecoderInv, ReplyIsNamed, Named
  <1> QED BY <1>1, DecoderInvariance, PTL
=============================================================================
