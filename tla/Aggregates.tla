------------------------------ MODULE Aggregates ------------------------------
(***************************************************************************)
(* The two replicated aggregates of a node, internal/aggregation/sum (a    *)
(* grow-only counter with one contribution per node) and                   *)
(* internal/aggregation/topk (the Kmax best candidates ever heard of), as  *)
(* values and operators.  A content is what both aggregates hold; a        *)
(* fragment is what a SUM delta, a TOPK delta or a snapshot carries, and   *)
(* has the same shape, so that receiving, replaying and restoring are one  *)
(* merge.                                                                  *)
(*                                                                         *)
(* Node, item and time are integers because the code orders them (string   *)
(* order of ids, time order of timestamps); a score is an integer because  *)
(* only its order matters once NaN and infinities are rejected.            *)
(***************************************************************************)
EXTENDS Integers, FiniteSets

CONSTANTS
  Node,       \* node identifiers, in string order
  Item,       \* item identifiers of TOPK candidates
  Score,      \* scores
  Stamp,      \* event timestamps
  Kmax,       \* TopKMax of pipeline.Config
  MaxUint64   \* math.MaxUint64

Candidate == [item : Item, score : Score, ts : Stamp, origin : Node]

ASSUME OrderAssumption == Node \subseteq Int /\ Item \subseteq Int
                          /\ Score \subseteq Int /\ Stamp \subseteq Int

\* Identifiers are bounded strings, scores and timestamps have a fixed width.
ASSUME FiniteAssumption == IsFiniteSet(Candidate)

\* topk.New refuses kmax <= 0.
ASSUME KmaxAssumption == Kmax \in Nat \ {0}

ASSUME WidthAssumption == MaxUint64 \in Nat

-----------------------------------------------------------------------------
(* TOPK *)

\* sortCandidates: score descending, then time descending, then origin and
\* item ascending.
Better(c, d) ==
  \/ c.score > d.score
  \/ c.score = d.score /\ c.ts > d.ts
  \/ c.score = d.score /\ c.ts = d.ts /\ c.origin < d.origin
  \/ c.score = d.score /\ c.ts = d.ts /\ c.origin = d.origin /\ c.item < d.item

Ahead(S, c) == {d \in S : Better(d, c)}

\* canonicalize: candidates deduplicated by their whole tuple, sorted, cut
\* after Kmax.  The list is represented by the set of its elements, which
\* Better lists in one order only.
Canonicalize(S) == {c \in S : Cardinality(Ahead(S, c)) < Kmax}

MergeTOPK(S, T) == Canonicalize(S \cup T)

-----------------------------------------------------------------------------
(* SUM *)

\* A contribution absent from the code's map is 0 here: Merge reads a missing
\* key as 0 and never adds a key whose value is 0.
Contrib == [Node -> 0..MaxUint64]

NoContrib == [n \in Node |-> 0]

\* Mutant: the overflow test is off by one.
UpdateFits_OffByOne(contrib, n, inc) == MaxUint64 - contrib[n] >= inc - 1

\* GCounter.Update refuses an increment that would wrap the contribution.
UpdateFits(contrib, n, inc) == MaxUint64 - contrib[n] >= inc

UpdateSUM(contrib, n, inc) == [contrib EXCEPT ![n] = @ + inc]

\* Mutant: contributions are added, as if they were increments.
MergeSUM_Adds(a, b) == [n \in Node |-> a[n] + b[n]]

\* Mutant: the contribution that arrives last is kept.
MergeSUM_Last(a, b) == [n \in Node |-> IF b[n] > 0 THEN b[n] ELSE a[n]]

MergeSUM(a, b) == [n \in Node |-> IF b[n] > a[n] THEN b[n] ELSE a[n]]

-----------------------------------------------------------------------------
(* Both together *)

Content == [sum : Contrib, topk : SUBSET Candidate]

NoContent == [sum |-> NoContrib, topk |-> {}]

MergeContent(s, f) == [sum  |-> MergeSUM(s.sum, f.sum),
                       topk |-> MergeTOPK(s.topk, f.topk)]

\* What a kept TOPK set looks like: canonicalize has already been applied.
Canonical(s) == s.topk = Canonicalize(s.topk)

\* The merge of f into s does not advance s: everything f says is known.
Covers(s, f) == MergeContent(s, f) = s

SUMFragment(n, value) ==
  [sum |-> [m \in Node |-> IF m = n THEN value ELSE 0], topk |-> {}]

TOPKFragment(c) == [sum |-> NoContrib, topk |-> {c}]

\* max of the aggregates, advanceAtomic of the delta sequence.
Larger(a, b) == IF b > a THEN b ELSE a

\* The version rule of both Merge methods.
MergeVersion(version, peer, advanced) ==
  Larger(version, peer) + (IF advanced THEN 1 ELSE 0)

=============================================================================
