----------------------------- MODULE Replication -----------------------------
(***************************************************************************)
(* What the cluster promises its clients, without messages, histories or   *)
(* crashes: every node has a view of the two aggregates.  A client's       *)
(* update is in the view of the node that took it at once; any other       *)
(* change of a view adds something that was submitted somewhere.  Views    *)
(* therefore never shrink and never hold more than the total.              *)
(***************************************************************************)
EXTENDS Aggregates

VARIABLES
  total,   \* everything clients have submitted, wherever
  view     \* the contents a node answers from

vars == <<total, view>>

\* The content f is submitted to node n.
Submit(n, f) ==
  /\ total' = MergeContent(total, f)
  /\ view' = [view EXCEPT ![n] = MergeContent(@, f)]

SubmitIncrement(n) ==
  /\ UpdateFits(total.sum, n, 1)
  /\ Submit(n, SUMFragment(n, total.sum[n] + 1))

SubmitCandidate(n) ==
  \E c \in Candidate : c.origin = n /\ Submit(n, TOPKFragment(c))

\* Node n hears of something submitted elsewhere.
Learn(n) ==
  /\ Covers(view'[n], view[n])
  /\ Covers(total, view'[n])
  /\ view' = [view EXCEPT ![n] = view'[n]]
  /\ UNCHANGED total

Init ==
  /\ total = NoContent
  /\ view = [n \in Node |-> NoContent]

Next == \E n \in Node : SubmitIncrement(n) \/ SubmitCandidate(n) \/ Learn(n)

Spec == Init /\ [][Next]_vars

=============================================================================
