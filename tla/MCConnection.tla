---------------------------- MODULE MCConnection ----------------------------
(***************************************************************************)
(* Instances of Connection for TLC.                                        *)
(***************************************************************************)
EXTENDS Connection, TLC

CONSTANTS r1, r2, routeA

OneRequest == {r1}
TwoRequests == {r1, r2}

KnownRoutes == [r \in Requests |-> routeA]

\* The server announces the route of the requests, or an empty dictionary.
OneDict == {{routeA}}
SomeDicts == {{routeA}, {}}

Symmetry == Permutations({r1, r2})
=============================================================================
