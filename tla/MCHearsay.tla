------------------------------ MODULE MCHearsay ------------------------------
(***************************************************************************)
(* An instance of Membership with three nodes, so that a node hears of     *)
(* another from a third.  Nodes 1 and 2 have no seed: they learn of each   *)
(* other and of node 3 from the pings of node 3.  The number of gossip     *)
(* rounds is bounded; JoinSeeds needs none.  One round is enough for a     *)
(* node to suspect another, by silence or by a missed probe, and to be     *)
(* told otherwise by the third.  Two messages may overtake each other, and *)
(* one process may be followed by another.                                 *)
(***************************************************************************)
EXTENDS Membership

CONSTANT
  MaxRounds   \* bound: gossip rounds of all nodes together

VARIABLE rounds

Trio == 1..3

OwnAddress == [n \in Trio |-> n]

SeedsOfThree == [n \in Trio |-> IF n = 3 THEN {1, 2} ELSE {}]

RoundStarts == \E n \in Node : loops'[n].round /\ ~loops[n].round

BoundedInit == Init /\ rounds = 0

BoundedNext ==
  \/ /\ Next
     /\ rounds' = IF RoundStarts THEN rounds + 1 ELSE rounds
     /\ rounds' <= MaxRounds
  \/ rounds = MaxRounds /\ UNCHANGED <<vars, rounds>>

BoundedSpec == BoundedInit /\ [][BoundedNext]_<<vars, rounds>>

=============================================================================
