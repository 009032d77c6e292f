---------------------------- MODULE MCHeartbeat ----------------------------
(***************************************************************************)
(* Heartbeat for TLC.                                                      *)
(***************************************************************************)
EXTENDS Heartbeat

\* "Heartbeat timed out, closing connection" (src/connection.cpp:340): a server
\* that falls silent, also after its first heartbeats, is given up in time.
SilentServerGivenUp ==
    connected => now <= lastHeard + heartbeatTimeoutSeconds + MaxSkew + MaxLag
=============================================================================
