---------------------------- MODULE MCMembership ----------------------------
(***************************************************************************)
(* Small instances of Membership: two nodes with one address each, of      *)
(* which only node 1 has a seed, so that node 2 learns of node 1 from its  *)
(* pings.  Thresholds of one and two make every status reachable both by   *)
(* missed probes and by silence; two incarnations make a restart with a    *)
(* clock that is behind, and a refutation at the largest one, happen.      *)
(***************************************************************************)
EXTENDS Membership

Pair == {1, 2}

OwnAddress == [n \in Pair |-> n]

SeedOfOne == [n \in Pair |-> IF n = 1 THEN {2} ELSE {}]

=============================================================================
