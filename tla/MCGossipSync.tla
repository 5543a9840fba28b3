---------------------------- MODULE MCGossipSync ----------------------------
(***************************************************************************)
(* Small instances of GossipSync: two nodes, of which node 1 receives the  *)
(* client updates, two of SUM increments and TOPK candidates, of which the *)
(* second replaces the first.  An outbound queue and a history of one      *)
(* delta make the second delta overflow both.                              *)
(***************************************************************************)
EXTENDS GossipSync

Pair == {1, 2}
One == {1}

TwoCandidates == {[item |-> 1, score |-> s, ts |-> 1, origin |-> 1] : s \in Pair}

OneCandidate == {[item |-> 1, score |-> 1, ts |-> 1, origin |-> 1]}

CapacityOne == [n \in Node |-> 1]

=============================================================================
