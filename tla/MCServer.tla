------------------------------ MODULE MCServer -------------------------------
(* A small instance of Server for TLC. *)
EXTENDS Server

CONSTANTS s1, s2, j1, j2, j3, w1, w2, c1, c2, r1

\* Each client follows a job in a session of its own; one of them may stop reading.
\* The third job has no client.
MCSessionOf == [j \in JobIDs |-> IF j = j1 THEN s1 ELSE s2]
MCTopic == [c \in Conns |-> IF c = c1 THEN j1 ELSE j2]
=============================================================================
