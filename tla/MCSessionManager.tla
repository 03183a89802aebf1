--------------------------- MODULE MCSessionManager -------------------------
(* A small instance of SessionManager for TLC. *)
EXTENDS SessionManager, TLC

CONSTANTS s1, s2, j1, j2, g1, g2, g3, c1, c2

\* Two jobs of one session; g1 and g2 stream the stdout and stderr of the first.
MCSessionOf == [j \in JobIDs |-> s1]
\* One job in each of two sessions.
MCTwoSessions == [j \in JobIDs |-> IF j = j1 THEN s1 ELSE s2]
MCJobOf == [g \in Senders |-> IF g = g3 THEN j2 ELSE j1]
AllRequests == [sid : SessionIDs, job : Keys]
SomeRequests == {[sid |-> s1, job |-> j1], [sid |-> s1, job |-> NoJob],
                 [sid |-> s2, job |-> j2]}
ConnSymmetry == Permutations({c1, c2})
=============================================================================
