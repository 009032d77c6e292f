---------------------------- MODULE MCLifecycle -----------------------------
(***************************************************************************)
(* Instances of Lifecycle for TLC.                                         *)
(***************************************************************************)
EXTENDS Lifecycle

CONSTANTS r1, routeA

OneRequest == {r1}

KnownRoutes == [r \in Requests |-> routeA]

\* The server announces the route, or an empty dictionary.
SomeDicts == {{routeA}, {}}

-----------------------------------------------------------------------------
(* What the source says and the code does not do *)

\* "assert(std::this_thread::get_id() == this->_workerThreadId)"
\* (src/connection.cpp:143): the handler of Connect runs on the thread that
\* _workerThreadId names.
ConnectRunsOnWorker == worker = "running" /\ Runs("ConnectDone") => workerThreadId = "worker"
=============================================================================
