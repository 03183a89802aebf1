----------------------------- MODULE JobStream ------------------------------
(***************************************************************************)
(* What the session manager promises to a client that asks for the output  *)
(* of one job: the history first, then every further message, in order,    *)
(* once each, and no new message while a live subscriber still misses one. *)
(***************************************************************************)
EXTENDS Naturals, Sequences

CONSTANTS JobIDs, Conns, NoJob, Message

VARIABLES
  log,     \* the messages of each job
  topic,   \* the job each connection asked for; NoJob if it has none to replay
  view,    \* what each connection received of its topic
  status   \* of each connection: "waiting", "live" or "lost"

streamVars == <<log, topic, view, status>>

Complete(c) == topic[c] # NoJob => view[c] = log[topic[c]]

Init ==
  /\ log = [j \in JobIDs |-> <<>>]
  /\ topic \in [Conns -> JobIDs \cup {NoJob}]
  /\ view = [c \in Conns |-> <<>>]
  /\ status = [c \in Conns |-> "waiting"]

Publish(j, m) ==
  /\ \A c \in Conns : status[c] = "live" /\ topic[c] = j => Complete(c)
  /\ log' = [log EXCEPT ![j] = Append(@, m)]
  /\ UNCHANGED <<topic, view, status>>

Deliver(c) ==
  /\ status[c] # "lost" /\ topic[c] # NoJob
  /\ Len(view[c]) < Len(log[topic[c]])
  /\ view' = [view EXCEPT ![c] = Append(@, log[topic[c]][Len(@) + 1])]
  /\ UNCHANGED <<log, topic, status>>

\* c goes live with its history complete; it may take the place of one other connection.
Join(c) ==
  /\ status[c] = "waiting" /\ Complete(c)
  /\ \E lost \in {{}} \cup {{d} : d \in {e \in Conns \ {c} : topic[e] = topic[c]}} :
       status' = [d \in Conns |-> IF d = c THEN "live"
                                  ELSE IF d \in lost THEN "lost" ELSE status[d]]
  /\ UNCHANGED <<log, topic, view>>

Drop(c) ==
  /\ status[c] # "lost"
  /\ status' = [status EXCEPT ![c] = "lost"]
  /\ UNCHANGED <<log, topic, view>>

Next ==
  \/ \E j \in JobIDs, m \in Message : Publish(j, m)
  \/ \E c \in Conns : Deliver(c) \/ Join(c) \/ Drop(c)

Spec == Init /\ [][Next]_streamVars
=============================================================================
