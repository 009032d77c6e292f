--------------------------- MODULE ClientContract ---------------------------
(***************************************************************************)
(* What pitaya::Client (include/pitaya.h) promises its application: the    *)
(* events it may hear after each call of Connect, and how the handlers of  *)
(* its requests may be called.                                             *)
(***************************************************************************)
EXTENDS Sequences

CONSTANT Requests

VARIABLES
    posted,     \* requests passed to Request
    answers,    \* the statuses each RequestHandler was called with
    events      \* the events heard since the last Connect

vars == << posted, answers, events >>

Init ==
    /\ posted = {}
    /\ answers = [r \in Requests |-> << >>]
    /\ events = << >>

\* Client::Connect, again after the previous connection has come to its end.
Connect ==
    /\ events # << >> /\ events # << "Connected" >>
    /\ events' = << >>
    /\ UNCHANGED << posted, answers >>

\* A listener is called: the attempt fails or succeeds; a connection ends.
Hear ==
    /\ \/ events = << >> /\ events' \in {<< "Connected" >>, << "ConnectionFailed" >>}
       \/ events = << "Connected" >> /\ events' \in {<< "Connected", e >> : e \in {"ConnectionError", "Kicked"}}
    /\ UNCHANGED << posted, answers >>

\* Client::Request
Request(r) ==
    /\ r \notin posted
    /\ posted' = posted \union {r}
    /\ UNCHANGED << answers, events >>

\* A RequestHandler is called, once.  The server's word comes only while
\* connected, and NotConnectedError only while not.
Answer(r, status) ==
    /\ r \in posted
    /\ answers[r] = << >>
    /\ status \in {"Ok", "ServerError"} => events = << "Connected" >>
    /\ status = "NotConnectedError" => events # << "Connected" >>
    /\ answers' = [answers EXCEPT ![r] = << status >>]
    /\ UNCHANGED << posted, events >>

Statuses == {"Ok", "ServerError", "Timeout", "NotConnectedError", "InternalError"}

Next ==
    \/ Connect
    \/ Hear
    \/ \E r \in Requests : Request(r) \/ \E s \in Statuses : Answer(r, s)

Spec == Init /\ [][Next]_vars
=============================================================================
