---------------------------- MODULE MCPersistence ----------------------------
(***************************************************************************)
(* Small instances of Persistence.  Node 1 is the node under study, node 2 *)
(* stands for its peers.  With Kmax = 1 the second local candidate evicts  *)
(* the first and the peer's candidate falls between them, so the order of  *)
(* merges and of replay matters; MaxUint64 = 2 lets an increment be        *)
(* refused; the log is long enough for a checkpoint with lines on both     *)
(* sides of it.                                                            *)
(***************************************************************************)
EXTENDS Persistence

MCNode == {1, 2}
MCItem == {1}
MCScore == 1..3
MCStamp == {1}

Scored(s, n) == [item |-> 1, score |-> s, ts |-> 1, origin |-> n]

MCLocalCandidate == {Scored(1, 1), Scored(3, 1)}

\* The batch and process-crash instances keep one candidate and one peer
\* fragment and use the states for a longer log.
OneCandidate == {Scored(3, 1)}

OnePeerFragment == {SUMFragment(2, 1)}

MCPeerFragment == {SUMFragment(2, 1), TOPKFragment(Scored(2, 2))}

=============================================================================
