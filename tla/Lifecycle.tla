----------------------------- MODULE Lifecycle ------------------------------
(***************************************************************************)
(* The life of a Client: the constructor and destructor of Connection      *)
(* (src/connection.cpp) and the program that uses it (src/example.cpp).    *)
(*                                                                         *)
(* The main thread constructs a Client, connects, waits for the Connected  *)
(* event, makes its requests and destroys the Client.  The worker thread   *)
(* is started inside the constructor and runs the handlers of Connection   *)
(* until the io_context has no more work.                                  *)
(***************************************************************************)
EXTENDS Connection

VARIABLES
    main,           \* what the main thread does next
    worker,         \* "none", "starting", "running" or "ended"
    workerThreadId, \* _workerThreadId: "none" or "worker"
    guard,          \* _work keeps run() from returning
    count           \* Semaphore::_count

lifeVars == << main, worker, workerThreadId, guard, count >>
allVars == << vars, lifeVars >>

LifeInit ==
    /\ Init
    /\ main = "construct"
    /\ worker = "none"
    /\ workerThreadId = "none"
    /\ guard = TRUE
    /\ count = 0

-----------------------------------------------------------------------------
(* The worker thread *)

\* StartWorkerThread notes its thread id, then calls run().
StartWorkerThread ==
    /\ worker = "starting"
    /\ worker' = "running"
    /\ workerThreadId' = "worker"
    /\ UNCHANGED << vars, main, guard, count >>

\* The listener of the example notifies the semaphore of a Connected event.
Notify ==
    count' = IF events' # events /\ events'[Len(events')] = "Connected" THEN count + 1 ELSE count

RunHandler ==
    /\ worker = "running"
    /\ Worker
    /\ Notify
    /\ UNCHANGED << main, worker, workerThreadId, guard >>

\* What keeps run() from returning: handlers, and operations and waits pending.
HasWork ==
    \/ guard
    \/ ioQueue # << >> \/ work # << >>
    \/ connect \/ recvs # << >> \/ sends # << >>
    \/ heartbeatTimer \/ heartbeatTimeout \/ reqTimers # {}

\* Mutant of RunReturns: run() is stopped once the guard is gone.
RunStopped ==
    /\ worker = "running"
    /\ ~guard
    /\ work = << >>
    /\ worker' = "ended"
    /\ UNCHANGED << vars, main, workerThreadId, guard, count >>

RunReturns ==
    /\ worker = "running"
    /\ ~HasWork
    /\ worker' = "ended"
    /\ UNCHANGED << vars, main, workerThreadId, guard, count >>

-----------------------------------------------------------------------------
(* The main thread *)

\* The constructor of Connection up to the thread.
ConstructThread ==
    /\ main = "construct"
    /\ main' = "members"
    /\ worker' = "starting"
    /\ UNCHANGED << vars, workerThreadId, guard, count >>

\* The members declared after the thread: _workerThreadId, the listeners and
\* the requests in flight.  Then the example adds its listener.
ConstructMembers ==
    /\ main = "members"
    /\ main' = "connect"
    /\ workerThreadId' = "none"
    /\ UNCHANGED << vars, worker, guard, count >>

\* Client::Connect.  An address without a port is only logged; one that does
\* not resolve throws, and the example gives up.
Connect ==
    /\ main = "connect"
    /\ \/ main' = "wait" /\ Start
       \/ main' = "wait" /\ UNCHANGED vars
       \/ main' = "destroy" /\ UNCHANGED vars
    /\ UNCHANGED << worker, workerThreadId, guard, count >>

\* Semaphore::Wait
Wait ==
    /\ main = "wait"
    /\ count > 0
    /\ count' = count - 1
    /\ main' = "request"
    /\ UNCHANGED << vars, worker, workerThreadId, guard >>

\* Client::Request, for one request or more.
Request ==
    /\ main = "request"
    /\ \E r \in Requests : PostRequest(r)
    /\ main' \in IF posted' = Requests THEN {"destroy"} ELSE {"request"}
    /\ UNCHANGED << worker, workerThreadId, guard, count >>

\* ~Connection: first the guard, then the join.
ResetWork ==
    /\ main = "destroy"
    /\ main' = "join"
    /\ guard' = FALSE
    /\ UNCHANGED << vars, worker, workerThreadId, count >>

Join ==
    /\ main = "join"
    /\ worker = "ended"
    /\ main' = "destroyed"
    /\ UNCHANGED << vars, worker, workerThreadId, guard, count >>

Main ==
    \/ ConstructThread
    \/ ConstructMembers
    \/ Connect
    \/ Wait
    \/ Request
    \/ ResetWork
    \/ Join

-----------------------------------------------------------------------------
Outside == Environment /\ UNCHANGED lifeVars

LifeNext ==
    /\ alive
    /\ Main \/ StartWorkerThread \/ RunHandler \/ RunReturns \/ Outside

LifeSpec == LifeInit /\ [][LifeNext]_allVars

\* Both threads run, a connect or a send ends, and the timers expire.
FairLifeSpec ==
    /\ LifeSpec
    /\ WF_allVars(alive /\ Main)
    /\ WF_allVars(alive /\ (StartWorkerThread \/ RunHandler \/ RunReturns))
    /\ WF_allVars(alive /\ ConnectCompletes /\ UNCHANGED lifeVars)
    /\ WF_allVars(alive /\ (SendCompletes \/ SendFails) /\ UNCHANGED lifeVars)
    /\ WF_allVars(alive /\ RequestTimerExpires /\ UNCHANGED lifeVars)

-----------------------------------------------------------------------------
(* Properties *)

\* When run() returns, and the destructor goes on to free the members, the
\* connection is over, no request is in flight and nothing pending can call a
\* handler any more: every request was answered or its packet ignored.
DestroyedQuietly ==
    worker = "ended" =>
        /\ state = "Inited"
        /\ inFlight = {}
        /\ ~HasWork
        /\ \A r \in posted : answers[r] # << >> \/ r \in lost

\* The example ends, unless it waits for a Connected event that does not come
\* or, in the destructor, for a connection that the server keeps up.
ProgramEnds ==
    \/ <>(main = "destroyed" \/ ~alive)
    \/ <>[](main = "wait" /\ count = 0)
    \/ <>[](main = "join" /\ state = "Connected")
=============================================================================
