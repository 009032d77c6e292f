----------------------------- MODULE Heartbeat -----------------------------
(***************************************************************************)
(* pitaya::connection::State (src/connection/state.cpp) with time: the     *)
(* heartbeat the client sends every heartbeatInterval and the timeout of   *)
(* kHeartbeatFactor intervals after which a silent server is given up.     *)
(*                                                                         *)
(* heartbeatTimer is a steady_timer and heartbeatTimeout a system_timer:   *)
(* the first runs on now, the second on the wall clock now + skew, which   *)
(* may be set forward and back.  The handler of a timer runs at most       *)
(* MaxLag after the timer has expired: the worker is prompt.               *)
(***************************************************************************)
EXTENDS Integers

CONSTANTS
    Intervals,        \* heartbeat intervals a server may announce
    kHeartbeatFactor,
    MaxLag,           \* assumed: from the expiry of a timer to its handler
    MaxSkew,          \* assumed: how far the wall clock is ever ahead
    MaxTime           \* bound: the end of time

ASSUME HeartbeatAssumption ==
    /\ Intervals \subseteq Nat
    /\ kHeartbeatFactor \in Nat
    /\ MaxLag \in Nat
    /\ MaxSkew \in Nat
    /\ MaxTime \in Nat

VARIABLES
    now,              \* the steady clock
    skew,             \* the wall clock minus the steady clock
    connected,        \* State::IsConnected
    heartbeatInterval,\* Connected::heartbeatInterval
    tick,             \* the wait on heartbeatTimer: "none", "pending" or "ready" (to run)
    tickAt,           \* when it expires
    timeout,          \* the wait on heartbeatTimeout
    timeoutAt,        \* when it expires, on the wall clock
    \* History
    since,            \* when SetConnected was last called
    lastBeat,         \* when the last heartbeat was sent, or since
    lastHeard,        \* when the server was last heard of, or since
    firstHeard        \* when it was first heard of, or -1

clockVars == << now, skew >>
tickVars == << tick, tickAt >>
timeoutVars == << timeout, timeoutAt >>
heardVars == << lastHeard, firstHeard >>

heartbeatVars == << clockVars, connected, heartbeatInterval, tickVars, timeoutVars,
                    since, lastBeat, heardVars >>

HeartbeatInit ==
    /\ now = 0
    /\ skew \in 0..MaxSkew
    /\ connected = FALSE
    /\ heartbeatInterval = 0
    /\ tick = "none" /\ tickAt = 0
    /\ timeout = "none" /\ timeoutAt = 0
    /\ since = 0 /\ lastBeat = 0 /\ lastHeard = 0 /\ firstHeard = -1

\* Connected::heartbeatTimeoutSeconds
heartbeatTimeoutSeconds == heartbeatInterval * kHeartbeatFactor

\* A wait that is cancelled: its handler is called with an error and does
\* nothing.  One that is ready to run is not cancelled any more.
Cancelled(wait) == IF wait = "pending" THEN "none" ELSE wait

-----------------------------------------------------------------------------
(* State *)

\* Mutant of StartTimeout: the expiry is set and no wait is started.
StartNoTimeout(i) ==
    /\ timeout' = "none"
    /\ timeoutAt' = now + skew + i * kHeartbeatFactor

StartTimeout(i) ==
    /\ timeout' = "pending"
    /\ timeoutAt' = now + skew + i * kHeartbeatFactor

\* State::SetConnected, run by a handler that became ready after the previous
\* connection ended: the handlers of its timers have run by then.
SetConnected(i) ==
    /\ ~connected /\ tick # "ready" /\ timeout # "ready"
    /\ connected' = TRUE
    /\ heartbeatInterval' = i
    /\ tick' = "pending" /\ tickAt' = now + i
    /\ StartTimeout(i)
    /\ since' = now /\ lastBeat' = now /\ lastHeard' = now /\ firstHeard' = -1
    /\ UNCHANGED clockVars

\* State::SetInited: the timers are destroyed with Connected.
SetInited ==
    /\ connected' = FALSE
    /\ tick' = Cancelled(tick)
    /\ timeout' = Cancelled(timeout)
    /\ UNCHANGED << tickAt, timeoutAt >>

\* The connection ends for a reason of its own: an error, or a kick.
ConnectionEnds ==
    /\ connected
    /\ SetInited
    /\ UNCHANGED << clockVars, heartbeatInterval, since, lastBeat, heardVars >>

\* Mutant of WaitForNextTick: no new wait is started.
NoNextTick == tick' = "none" /\ UNCHANGED tickAt

\* expires_after and async_wait.
WaitForNextTick == tick' = "pending" /\ tickAt' = now + heartbeatInterval

\* State::HeartbeatTick
HeartbeatTick ==
    /\ tick = "ready"
    /\ IF connected
       THEN /\ lastBeat' = now
            /\ WaitForNextTick
       ELSE /\ tick' = "none"
            /\ UNCHANGED << tickAt, lastBeat >>
    /\ UNCHANGED << clockVars, connected, heartbeatInterval, timeoutVars, since, heardVars >>

\* The heartbeatTimeoutCb: ConnectionError, which does nothing unless connected.
HeartbeatTimeout ==
    /\ timeout = "ready"
    /\ connected' = FALSE
    /\ timeout' = "none"
    /\ tick' = IF connected THEN Cancelled(tick) ELSE tick
    /\ UNCHANGED << clockVars, heartbeatInterval, tickAt, timeoutAt, since, lastBeat, heardVars >>

\* Mutant of ExtendTimeout: the wait goes on as it was.
ExtendNothing == UNCHANGED timeoutVars

\* expires_at cancels the pending wait and sets the expiry of the next one,
\* which is never started.
ExtendTimeout ==
    /\ timeout' = Cancelled(timeout)
    /\ timeoutAt' = IF timeout = "ready" THEN timeoutAt ELSE now + skew + heartbeatTimeoutSeconds

\* A heartbeat from the server: ExtendHeartbeatTimeout.
ExtendHeartbeatTimeout ==
    /\ connected
    /\ ExtendTimeout
    /\ lastHeard' = now
    /\ firstHeard' = IF firstHeard = -1 THEN now ELSE firstHeard
    /\ UNCHANGED << clockVars, connected, heartbeatInterval, tickVars, since, lastBeat >>

-----------------------------------------------------------------------------
(* The clocks *)

TickExpires ==
    /\ tick = "pending" /\ tickAt <= now
    /\ tick' = "ready"
    /\ UNCHANGED << clockVars, connected, heartbeatInterval, tickAt, timeoutVars, since, lastBeat, heardVars >>

TimeoutExpires ==
    /\ timeout = "pending" /\ timeoutAt <= now + skew
    /\ timeout' = "ready"
    /\ UNCHANGED << clockVars, connected, heartbeatInterval, tickVars, timeoutAt, since, lastBeat, heardVars >>

\* Time passes, but not past the moment by which a handler must have run.
Advance ==
    /\ now < MaxTime
    /\ tick # "none" => now < tickAt + MaxLag
    /\ timeout # "none" => now < timeoutAt + MaxLag
    /\ now' = now + 1
    /\ UNCHANGED << skew, connected, heartbeatInterval, tickVars, timeoutVars, since, lastBeat, heardVars >>

\* The wall clock is set.
SetWallClock ==
    /\ skew' \in 0..MaxSkew
    /\ UNCHANGED << now, connected, heartbeatInterval, tickVars, timeoutVars, since, lastBeat, heardVars >>

HeartbeatNext ==
    \/ \E i \in Intervals : SetConnected(i)
    \/ ConnectionEnds
    \/ HeartbeatTick
    \/ HeartbeatTimeout
    \/ ExtendHeartbeatTimeout
    \/ TickExpires
    \/ TimeoutExpires
    \/ Advance
    \/ SetWallClock

HeartbeatSpec == HeartbeatInit /\ [][HeartbeatNext]_heartbeatVars

-----------------------------------------------------------------------------
(* Properties *)

Waits == {"none", "pending", "ready"}

\* Types of the timed state; the waits on the timers go with Connected.
TypeOK ==
    /\ now \in Nat /\ skew \in 0..MaxSkew
    /\ connected \in BOOLEAN
    /\ heartbeatInterval \in Intervals \union {0}
    /\ tick \in Waits /\ tickAt \in Nat
    /\ timeout \in Waits /\ timeoutAt \in Nat
    /\ since \in 0..now /\ lastBeat \in 0..now /\ lastHeard \in 0..now
    /\ firstHeard \in -1..now
    /\ ~connected => tick # "pending" /\ timeout # "pending"

\* HeartbeatTick keeps the pace of the interval the server announced: while
\* connected the next heartbeat is never overdue by more than the lag of the
\* worker, and none is sent before an interval has passed since the last.
HeartbeatsKeepPace ==
    connected =>
        /\ now <= lastBeat + heartbeatInterval + MaxLag
        /\ tick = "ready" => lastBeat + heartbeatInterval <= now

\* heartbeatTimeoutCb never ends a connection whose server was heard of in
\* time: when it is ready to run, kHeartbeatFactor intervals have passed without
\* a heartbeat (less what the wall clock was set forward).
EndedOnlyBySilence ==
    connected /\ timeout = "ready" =>
        LET silent == since + heartbeatTimeoutSeconds - MaxSkew IN
        now >= silent /\ (firstHeard # -1 => firstHeard >= silent)

\* A server that never sends a heartbeat is given up in time.
MuteServerGivenUp ==
    connected /\ firstHeard = -1 =>
        now <= since + heartbeatTimeoutSeconds + MaxSkew + MaxLag
=============================================================================
