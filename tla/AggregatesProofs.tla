--------------------------- MODULE AggregatesProofs ---------------------------
(***************************************************************************)
(* The laws of Aggregates for every set of nodes, items, scores and        *)
(* timestamps and every Kmax: the merge of both aggregates is idempotent,  *)
(* commutative and associative although TOPK forgets candidates, and what  *)
(* a state covers stays covered when it merges something else.             *)
(***************************************************************************)
EXTENDS Aggregates, FiniteSetTheorems, WellFoundedInduction, TLAPS

\* Induction, about the members of a set.
LEMMA SetInduction ==
  ASSUME NEW T, 0 \in T, \A n \in Nat : n \in T => n + 1 \in T
  PROVE  \A n \in Nat : n \in T
<1> DEFINE R == {pair \in Nat \X Nat : pair[1] < pair[2]}
           U == {n \in Nat : n \notin T}
<1> SUFFICES ASSUME U # {} PROVE FALSE
  OBVIOUS
<1>1. IsWellFoundedOn(R, Nat)
  BY NatLessThanWellFounded DEF OpToRel
<1>2. PICK x \in U : \A y \in U : ~(<<y, x>> \in R)
  <2>1. U \subseteq Nat
    OBVIOUS
  <2> HIDE DEF R, U
  <2> QED  BY <1>1, <2>1, WFMin
<1>3. x \in Nat /\ x # 0 /\ x - 1 \in Nat /\ (x - 1) + 1 = x
  BY <1>2
<1>4. <<x - 1, x>> \in R
  BY <1>3
<1>5. x - 1 \notin U
  BY <1>2, <1>4
<1> QED  BY <1>2, <1>3, <1>5

-----------------------------------------------------------------------------
(* sortCandidates is a strict total order on candidates *)

\* The fields the comparison reads are integers and determine the candidate.
LEMMA CandidateFields ==
  /\ \A c \in Candidate : /\ c.score \in Int /\ c.ts \in Int
                          /\ c.origin \in Int /\ c.item \in Int
  /\ \A c, d \in Candidate :
       c.score = d.score /\ c.ts = d.ts /\ c.origin = d.origin /\ c.item = d.item
       => c = d
<1>1. \A c \in Candidate : /\ c.score \in Score /\ c.ts \in Stamp
                          /\ c.origin \in Node /\ c.item \in Item
  BY DEF Candidate
<1>2. ASSUME NEW c \in Candidate, NEW d \in Candidate,
             c.score = d.score, c.ts = d.ts, c.origin = d.origin, c.item = d.item
      PROVE  c = d
  BY <1>2 DEF Candidate
<1> QED
  BY <1>1, <1>2, OrderAssumption

\* No candidate precedes itself in the order of sortCandidates.
LEMMA BetterIrreflexive == ASSUME NEW c \in Candidate PROVE ~Better(c, c)
BY CandidateFields DEF Better

\* The order of sortCandidates is transitive.
LEMMA BetterTransitive ==
  ASSUME NEW c \in Candidate, NEW d \in Candidate, NEW e \in Candidate,
         Better(c, d), Better(d, e)
  PROVE  Better(c, e)
BY CandidateFields DEF Better

\* Two candidates with different tuples are ordered: the sorted list, and
\* hence the cut after Kmax, does not depend on the order of Go's map.
LEMMA BetterTotal ==
  ASSUME NEW c \in Candidate, NEW d \in Candidate, c # d
  PROVE  Better(c, d) \/ Better(d, c)
BY CandidateFields DEF Better

-----------------------------------------------------------------------------
(* canonicalize *)

\* Every set of candidates is finite and so are its parts.
LEMMA AheadFinite ==
  ASSUME NEW S \in SUBSET Candidate, NEW c
  PROVE  /\ IsFiniteSet(S) /\ IsFiniteSet(Ahead(S, c))
         /\ Cardinality(S) \in Nat /\ Cardinality(Ahead(S, c)) \in Nat
<1>1. IsFiniteSet(S)
  BY FiniteAssumption, FS_Subset
<1>2. Ahead(S, c) \in SUBSET S
  BY DEF Ahead
<1>3. IsFiniteSet(Ahead(S, c))
  BY <1>1, <1>2, FS_Subset
<1> QED
  BY <1>1, <1>3, FS_CardinalityType

\* A larger set has at least as many candidates ahead of c.
LEMMA AheadMonotone ==
  ASSUME NEW S \in SUBSET Candidate, NEW T \in SUBSET S, NEW c
  PROVE  Cardinality(Ahead(T, c)) <= Cardinality(Ahead(S, c))
<1>1. Ahead(T, c) \in SUBSET Ahead(S, c)
  BY DEF Ahead
<1> QED
  BY <1>1, AheadFinite, FS_Subset

\* A better candidate has strictly fewer candidates ahead of it.
LEMMA AheadStrict ==
  ASSUME NEW S \in SUBSET Candidate, NEW c \in Candidate, NEW d \in Ahead(S, c)
  PROVE  /\ Ahead(S, d) \subseteq Ahead(S, c)
         /\ Cardinality(Ahead(S, d)) < Cardinality(Ahead(S, c))
<1>1. d \in S /\ d \in Candidate /\ Better(d, c)
  BY DEF Ahead
<1>2. Ahead(S, d) \subseteq Ahead(S, c)
  BY <1>1, BetterTransitive DEF Ahead
<1>3. d \notin Ahead(S, d)
  BY <1>1, BetterIrreflexive DEF Ahead
<1>4. Cardinality(Ahead(S, d)) <= Cardinality(Ahead(S, c))
  BY <1>2, AheadFinite, FS_Subset
<1>5. Cardinality(Ahead(S, d)) # Cardinality(Ahead(S, c))
  BY <1>2, <1>3, AheadFinite, FS_Subset
<1> QED
  BY <1>2, <1>4, <1>5, AheadFinite

\* canonicalize only removes candidates.
LEMMA CanonicalizeSubset ==
  ASSUME NEW S \in SUBSET Candidate
  PROVE  Canonicalize(S) \in SUBSET S /\ Canonicalize(S) \in SUBSET Candidate
BY DEF Canonicalize

\* A nonempty set of candidates has a member with the fewest candidates ahead.
LEMMA FewestAhead ==
  ASSUME NEW S \in SUBSET Candidate, NEW T \in SUBSET S, T # {}
  PROVE  \E c \in T : \A d \in T :
            Cardinality(Ahead(S, c)) <= Cardinality(Ahead(S, d))
<1> DEFINE R == OpToRel(<, Nat)
           N == {Cardinality(Ahead(S, c)) : c \in T}
<1>1. N \subseteq Nat /\ N # {}
  BY AheadFinite
<1>2. IsWellFoundedOn(R, Nat)
  BY NatLessThanWellFounded
<1>3. PICK n \in N : \A m \in N : <<m, n>> \notin R
  <2> HIDE DEF R, N
  <2> QED  BY <1>1, <1>2, WFMin
<1>4. \A m \in N : n <= m
  <2> TAKE m \in N
  <2>1. m \in Nat /\ n \in Nat
    BY <1>1
  <2>2. ~(m < n)
    BY <1>3, <2>1 DEF OpToRel
  <2> QED  BY <2>1, <2>2
<1> QED
  BY <1>3, <1>4

\* The cut keeps Kmax candidates when there are that many: a candidate that
\* Kmax others precede is still preceded by Kmax others after the cut.
LEMMA CutKeepsKmax ==
  ASSUME NEW S \in SUBSET Candidate, NEW c \in Candidate,
         Cardinality(Ahead(S, c)) >= Kmax
  PROVE  Cardinality(Ahead(Canonicalize(S), c)) >= Kmax
<1> DEFINE K == Canonicalize(S)
           T == Ahead(S, c) \ K
<1>1. K \in SUBSET Candidate /\ T \in SUBSET S
  BY CanonicalizeSubset DEF Ahead
<1>2. CASE T = {}
  <2>1. Ahead(S, c) \in SUBSET Ahead(K, c)
    BY <1>2 DEF Ahead
  <2> QED
    BY <1>1, <2>1, AheadFinite, FS_Subset, KmaxAssumption
<1>3. CASE T # {}
  <2>1. PICK d \in T : \A e \in T :
               Cardinality(Ahead(S, d)) <= Cardinality(Ahead(S, e))
    BY <1>1, <1>3, FewestAhead
  <2>2. d \in S /\ d \in Candidate /\ Better(d, c) /\ d \notin K
    BY <1>1, <2>1 DEF Ahead
  <2>3. Cardinality(Ahead(S, d)) >= Kmax
    BY <2>2, AheadFinite, KmaxAssumption DEF Canonicalize
  <2>4. ASSUME NEW e \in Ahead(S, d) PROVE e \in Ahead(K, c)
    <3>1. e \in S /\ e \in Candidate /\ Better(e, c)
      BY <2>2, BetterTransitive DEF Ahead
    <3>2. Cardinality(Ahead(S, e)) < Cardinality(Ahead(S, d))
      BY <2>2, AheadStrict
    <3>3. e \notin T
      BY <2>1, <2>2, <3>1, <3>2, AheadFinite
    <3> QED
      BY <3>1, <3>3 DEF Ahead
  <2>5. Ahead(S, d) \in SUBSET Ahead(K, c)
    BY <2>4
  <2>6. IsFiniteSet(Ahead(K, c)) /\ Cardinality(Ahead(K, c)) \in Nat
        /\ Cardinality(Ahead(S, d)) \in Nat
    BY <1>1, AheadFinite
  <2>7. Cardinality(Ahead(S, d)) <= Cardinality(Ahead(K, c))
    BY <2>5, <2>6, FS_Subset
  <2> QED
    BY <2>3, <2>6, <2>7, KmaxAssumption
<1> QED
  BY <1>2, <1>3

\* Cutting one side of a union before the union is cut loses nothing: a
\* candidate a node forgot would not be in the result of any later merge.
THEOREM CanonicalizeUnion ==
  ASSUME NEW A \in SUBSET Candidate, NEW B \in SUBSET Candidate
  PROVE  Canonicalize(A \cup Canonicalize(B)) = Canonicalize(A \cup B)
<1> DEFINE K == Canonicalize(B)
           U == A \cup B
           V == A \cup K
<1>1. K \in SUBSET B /\ V \in SUBSET U /\ U \in SUBSET Candidate
       /\ V \in SUBSET Candidate /\ B \in SUBSET U /\ K \in SUBSET V
  BY CanonicalizeSubset
<1>2. ASSUME NEW c \in Canonicalize(U) PROVE c \in Canonicalize(V)
  <2>1. c \in U /\ Cardinality(Ahead(U, c)) < Kmax
    BY DEF Canonicalize
  <2>2. /\ Cardinality(Ahead(V, c)) <= Cardinality(Ahead(U, c))
        /\ Cardinality(Ahead(B, c)) <= Cardinality(Ahead(U, c))
    BY <1>1, AheadMonotone
  <2>3. /\ Cardinality(Ahead(U, c)) \in Nat /\ Cardinality(Ahead(V, c)) \in Nat
        /\ Cardinality(Ahead(B, c)) \in Nat
    BY <1>1, AheadFinite
  <2>4. Cardinality(Ahead(V, c)) < Kmax /\ Cardinality(Ahead(B, c)) < Kmax
    BY <2>1, <2>2, <2>3, KmaxAssumption
  <2> QED
    BY <2>1, <2>4 DEF Canonicalize
<1>3. ASSUME NEW c \in Canonicalize(V) PROVE c \in Canonicalize(U)
  <2>1. c \in V /\ c \in Candidate /\ Cardinality(Ahead(V, c)) < Kmax
    BY <1>1 DEF Canonicalize
  <2>2. Cardinality(Ahead(K, c)) < Kmax
    BY <1>1, <2>1, AheadMonotone, AheadFinite, KmaxAssumption
  <2>3. Cardinality(Ahead(B, c)) < Kmax
    BY <1>1, <2>1, <2>2, CutKeepsKmax, AheadFinite, KmaxAssumption
  <2>4. ASSUME NEW d \in Ahead(B, c) PROVE d \in K
    <3>1. d \in B /\ Cardinality(Ahead(B, d)) < Cardinality(Ahead(B, c))
      BY <2>1, AheadStrict DEF Ahead
    <3> QED
      BY <2>3, <3>1, AheadFinite, KmaxAssumption DEF Canonicalize
  <2>5. Ahead(U, c) = Ahead(V, c)
    BY <2>4, <1>1 DEF Ahead
  <2> QED
    BY <1>1, <2>1, <2>5 DEF Canonicalize
<1> QED
  BY <1>2, <1>3

-----------------------------------------------------------------------------
(* The merge of both aggregates *)

\* MergeSUM is the pointwise maximum: closed, idempotent, commutative,
\* associative (GCounter.Merge).
LEMMA MergeSUMLaws ==
  ASSUME NEW a \in Contrib, NEW b \in Contrib, NEW c \in Contrib
  PROVE  /\ MergeSUM(a, b) \in Contrib
         /\ MergeSUM(a, a) = a
         /\ MergeSUM(a, b) = MergeSUM(b, a)
         /\ MergeSUM(MergeSUM(a, b), c) = MergeSUM(a, MergeSUM(b, c))
<1> USE WidthAssumption DEF Contrib, MergeSUM
<1>1. MergeSUM(a, b) \in Contrib  OBVIOUS
<1>2. MergeSUM(a, a) = a  OBVIOUS
<1>3. MergeSUM(a, b) = MergeSUM(b, a)  OBVIOUS
<1>4. MergeSUM(MergeSUM(a, b), c) = MergeSUM(a, MergeSUM(b, c))  OBVIOUS
<1> QED  BY <1>1, <1>2, <1>3, <1>4

\* MergeTOPK is closed, commutative and associative, and yields a canonical
\* set; it is idempotent on canonical sets (Set.Merge).
LEMMA MergeTOPKLaws ==
  ASSUME NEW A \in SUBSET Candidate, NEW B \in SUBSET Candidate,
         NEW C \in SUBSET Candidate
  PROVE  /\ MergeTOPK(A, B) \in SUBSET Candidate
         /\ Canonicalize(MergeTOPK(A, B)) = MergeTOPK(A, B)
         /\ MergeTOPK(A, B) = MergeTOPK(B, A)
         /\ MergeTOPK(MergeTOPK(A, B), C) = MergeTOPK(A, MergeTOPK(B, C))
<1>1. MergeTOPK(A, B) \in SUBSET Candidate
  BY CanonicalizeSubset DEF MergeTOPK
<1>2. Canonicalize(MergeTOPK(A, B)) = MergeTOPK(A, B)
  <2>1. Canonicalize({} \cup Canonicalize(A \cup B)) = Canonicalize({} \cup (A \cup B))
    BY CanonicalizeUnion
  <2>2. {} \cup Canonicalize(A \cup B) = Canonicalize(A \cup B)
        /\ {} \cup (A \cup B) = A \cup B
    OBVIOUS
  <2> QED  BY <2>1, <2>2 DEF MergeTOPK
<1>3. A \cup B = B \cup A  OBVIOUS
<1>4. MergeTOPK(MergeTOPK(A, B), C) = Canonicalize(C \cup (A \cup B))
  <2>1. Canonicalize(A \cup B) \cup C = C \cup Canonicalize(A \cup B)  OBVIOUS
  <2> QED  BY <2>1, CanonicalizeUnion DEF MergeTOPK
<1>5. MergeTOPK(A, MergeTOPK(B, C)) = Canonicalize(A \cup (B \cup C))
  BY CanonicalizeUnion DEF MergeTOPK
<1>6. C \cup (A \cup B) = A \cup (B \cup C)  OBVIOUS
<1> QED
  BY <1>1, <1>2, <1>3, <1>4, <1>5, <1>6 DEF MergeTOPK

\* A merged content is a content, and its TOPK set is canonical.
LEMMA MergeContentType ==
  ASSUME NEW s \in Content, NEW f \in Content
  PROVE  MergeContent(s, f) \in Content /\ Canonical(MergeContent(s, f))
BY MergeSUMLaws, MergeTOPKLaws DEF Content, MergeContent, Canonical

\* The merge of a node's state with what it receives (Manager.ApplyReceivedDelta,
\* ApplySnapshot, replay) is a join: the order, grouping and repetition of the
\* merges do not matter, although every TOPK set is cut to Kmax at each step.
THEOREM MergeLaws ==
  ASSUME NEW s \in Content, NEW f \in Content, NEW g \in Content
  PROVE  /\ Canonical(s) => MergeContent(s, s) = s
         /\ MergeContent(s, f) = MergeContent(f, s)
         /\ MergeContent(MergeContent(s, f), g) = MergeContent(s, MergeContent(f, g))
<1>1. /\ s.sum \in Contrib /\ f.sum \in Contrib /\ g.sum \in Contrib
      /\ s.topk \in SUBSET Candidate /\ f.topk \in SUBSET Candidate
      /\ g.topk \in SUBSET Candidate
      /\ s = [sum |-> s.sum, topk |-> s.topk]
  BY DEF Content
<1>2. ASSUME Canonical(s) PROVE MergeContent(s, s) = s
  <2>1. s.topk \cup s.topk = s.topk  OBVIOUS
  <2>2. MergeTOPK(s.topk, s.topk) = s.topk
    BY <1>2, <2>1 DEF Canonical, MergeTOPK
  <2>3. MergeSUM(s.sum, s.sum) = s.sum
    BY <1>1, MergeSUMLaws
  <2> QED  BY <1>1, <2>2, <2>3 DEF MergeContent
<1>3. MergeContent(s, f) = MergeContent(f, s)
  BY <1>1, MergeSUMLaws, MergeTOPKLaws DEF MergeContent
<1>4. MergeContent(MergeContent(s, f), g) = MergeContent(s, MergeContent(f, g))
  BY <1>1, MergeSUMLaws, MergeTOPKLaws DEF MergeContent
<1> QED  BY <1>2, <1>3, <1>4

\* A state covers what it has just merged.
LEMMA CoversMerged ==
  ASSUME NEW s \in Content, NEW f \in Content
  PROVE  Covers(MergeContent(s, f), f)
<1> DEFINE m == MergeContent(s, f)
           ff == MergeContent(f, f)
<1>1. m \in Content /\ ff \in Content /\ Canonical(m)
  BY MergeContentType
<1>2. MergeContent(m, f) = MergeContent(s, ff)
  BY MergeLaws
<1>3. MergeContent(s, ff) = m
  <2>1. /\ s.sum \in Contrib /\ f.sum \in Contrib
        /\ s.topk \in SUBSET Candidate /\ f.topk \in SUBSET Candidate
    BY DEF Content
  <2>2. MergeSUM(f.sum, f.sum) = f.sum
    BY <2>1, MergeSUMLaws
  <2>3. f.topk \cup f.topk = f.topk  OBVIOUS
  <2>4. MergeTOPK(s.topk, Canonicalize(f.topk)) = MergeTOPK(s.topk, f.topk)
    BY <2>1, CanonicalizeUnion DEF MergeTOPK
  <2> QED  BY <2>2, <2>3, <2>4 DEF MergeContent, MergeTOPK
<1> QED  BY <1>2, <1>3 DEF Covers

\* What a state covers it still covers after merging anything else: knowledge
\* is never lost, although TOPK forgets candidates.
LEMMA CoversStable ==
  ASSUME NEW s \in Content, NEW f \in Content, NEW g \in Content, Covers(s, f)
  PROVE  Covers(MergeContent(s, g), f)
<1>1. MergeContent(MergeContent(s, g), f) = MergeContent(s, MergeContent(g, f))
  BY MergeLaws
<1>2. MergeContent(g, f) = MergeContent(f, g)
  BY MergeLaws
<1>3. MergeContent(s, MergeContent(f, g)) = MergeContent(MergeContent(s, f), g)
  BY MergeLaws
<1> QED  BY <1>1, <1>2, <1>3 DEF Covers

\* Covers splits into the two aggregates.
LEMMA CoversParts ==
  ASSUME NEW s \in Content, NEW f \in Content
  PROVE  Covers(s, f) <=> /\ MergeSUM(s.sum, f.sum) = s.sum
                          /\ MergeTOPK(s.topk, f.topk) = s.topk
<1>1. s = [sum |-> s.sum, topk |-> s.topk]
  BY DEF Content
<1> QED  BY <1>1 DEF Covers, MergeContent

\* On contributions, covering is being at least as large.
LEMMA CoversSUM ==
  ASSUME NEW a \in Contrib, NEW b \in Contrib
  PROVE  MergeSUM(a, b) = a <=> \A n \in Node : b[n] <= a[n]
<1> USE WidthAssumption DEF Contrib, MergeSUM
<1>1. ASSUME MergeSUM(a, b) = a, NEW n \in Node PROVE b[n] <= a[n]
  <2>1. MergeSUM(a, b)[n] = IF b[n] > a[n] THEN b[n] ELSE a[n]  OBVIOUS
  <2> QED  BY <1>1, <2>1
<1>2. ASSUME \A n \in Node : b[n] <= a[n] PROVE MergeSUM(a, b) = a
  BY <1>2
<1> QED  BY <1>1, <1>2

\* A state whose contributions grow still covers what it covered.
LEMMA CoversSUMGrows ==
  ASSUME NEW s \in Content, NEW f \in Content, NEW c \in Contrib,
         \A n \in Node : s.sum[n] <= c[n], Covers(s, f)
  PROVE  Covers([s EXCEPT !.sum = c], f)
<1> DEFINE t == [s EXCEPT !.sum = c]
<1>1. t \in Content /\ t.sum = c /\ t.topk = s.topk
      /\ s.sum \in Contrib /\ f.sum \in Contrib
  BY DEF Content
<1>2. MergeSUM(s.sum, f.sum) = s.sum /\ MergeTOPK(s.topk, f.topk) = s.topk
  BY CoversParts
<1>3. \A n \in Node : f.sum[n] <= s.sum[n]
  BY <1>1, <1>2, CoversSUM
<1>4. \A n \in Node : f.sum[n] <= c[n]
  BY <1>1, <1>3, WidthAssumption DEF Contrib
<1>5. MergeSUM(c, f.sum) = c
  BY <1>1, <1>4, CoversSUM
<1> QED  BY <1>1, <1>2, <1>5, CoversParts

\* A state whose TOPK set merges more candidates still covers what it covered.
LEMMA CoversTOPKGrows ==
  ASSUME NEW s \in Content, NEW f \in Content, NEW T \in SUBSET Candidate,
         Covers(s, f)
  PROVE  Covers([s EXCEPT !.topk = MergeTOPK(s.topk, T)], f)
<1> DEFINE t == [s EXCEPT !.topk = MergeTOPK(s.topk, T)]
<1>1. s.topk \in SUBSET Candidate /\ f.topk \in SUBSET Candidate
  BY DEF Content
<1>2. t \in Content /\ t.sum = s.sum /\ t.topk = MergeTOPK(s.topk, T)
  BY <1>1, MergeTOPKLaws DEF Content
<1>3. MergeSUM(s.sum, f.sum) = s.sum /\ MergeTOPK(s.topk, f.topk) = s.topk
  BY CoversParts
<1>4. MergeTOPK(MergeTOPK(s.topk, T), f.topk)
        = MergeTOPK(s.topk, MergeTOPK(T, f.topk))
  BY <1>1, MergeTOPKLaws
<1>5. MergeTOPK(T, f.topk) = MergeTOPK(f.topk, T)
  BY <1>1, MergeTOPKLaws
<1>6. MergeTOPK(s.topk, MergeTOPK(f.topk, T)) = MergeTOPK(MergeTOPK(s.topk, f.topk), T)
  BY <1>1, MergeTOPKLaws
<1> QED  BY <1>2, <1>3, <1>4, <1>5, <1>6, CoversParts

\* The empty content is a canonical content.
LEMMA NoContentType == NoContent \in Content /\ Canonical(NoContent)
BY WidthAssumption DEF NoContent, NoContrib, Content, Contrib, Canonical, Canonicalize

\* Fragments of deltas are contents.
LEMMA FragmentType ==
  /\ \A n \in Node, v \in 0..MaxUint64 : SUMFragment(n, v) \in Content
  /\ \A c \in Candidate : TOPKFragment(c) \in Content
BY WidthAssumption DEF SUMFragment, TOPKFragment, NoContrib, Content, Contrib

-----------------------------------------------------------------------------
(* A local update is the merge of the delta that announces it *)

\* GCounter.Update: the node's new contribution, merged.
LEMMA UpdateSUMMerges ==
  ASSUME NEW s \in Content, Canonical(s), NEW n \in Node, NEW inc \in Nat,
         UpdateFits(s.sum, n, inc)
  PROVE  /\ UpdateSUM(s.sum, n, inc)[n] = s.sum[n] + inc
         /\ SUMFragment(n, UpdateSUM(s.sum, n, inc)[n]) \in Content
         /\ [s EXCEPT !.sum = UpdateSUM(s.sum, n, inc)]
              = MergeContent(s, SUMFragment(n, UpdateSUM(s.sum, n, inc)[n]))
<1> DEFINE contrib == UpdateSUM(s.sum, n, inc)
           frag == SUMFragment(n, contrib[n])
<1>0. /\ s.sum \in Contrib /\ s.topk \in SUBSET Candidate
      /\ s = [sum |-> s.sum, topk |-> s.topk] /\ Canonicalize(s.topk) = s.topk
  BY DEF Content, Canonical
<1>1. /\ contrib \in Contrib /\ contrib[n] = s.sum[n] + inc
      /\ \A m \in Node : s.sum[m] <= contrib[m] /\ (m # n => contrib[m] = s.sum[m])
  BY <1>0, WidthAssumption DEF UpdateSUM, UpdateFits, Contrib
<1> HIDE DEF contrib
<1>2. frag \in Content
  BY <1>1, FragmentType DEF Contrib
<1>3. frag.topk = {} /\ \A m \in Node : frag.sum[m] = IF m = n THEN contrib[n] ELSE 0
  BY DEF SUMFragment
<1>4. MergeSUM(s.sum, frag.sum) = contrib
  BY <1>0, <1>1, <1>3, WidthAssumption DEF MergeSUM, Contrib
<1>5. MergeTOPK(s.topk, frag.topk) = s.topk
  <2>1. s.topk \cup {} = s.topk
    OBVIOUS
  <2> QED  BY <1>0, <1>3, <2>1 DEF MergeTOPK
<1>6. [s EXCEPT !.sum = contrib] = [sum |-> contrib, topk |-> s.topk]
  BY <1>0
<1>7. [s EXCEPT !.sum = contrib] = MergeContent(s, frag)
  BY <1>4, <1>5, <1>6 DEF MergeContent
<1> HIDE DEF frag
<1> QED  BY <1>1, <1>2, <1>7 DEF contrib, frag

\* State.Update of TOPK: the candidate, merged.
LEMMA UpdateTOPKMerges ==
  ASSUME NEW s \in Content, NEW c \in Candidate
  PROVE  /\ TOPKFragment(c) \in Content
         /\ [s EXCEPT !.topk = MergeTOPK(s.topk, {c})] = MergeContent(s, TOPKFragment(c))
<1> DEFINE kept == MergeTOPK(s.topk, {c})
           frag == TOPKFragment(c)
<1>0. s.sum \in Contrib /\ s = [sum |-> s.sum, topk |-> s.topk]
  BY DEF Content
<1>1. frag \in Content /\ frag.topk = {c} /\ frag.sum = NoContrib
  BY FragmentType DEF TOPKFragment
<1>2. MergeSUM(s.sum, NoContrib) = s.sum
  BY <1>0, WidthAssumption DEF MergeSUM, NoContrib, Contrib
<1> HIDE DEF frag
<1>3. [s EXCEPT !.topk = kept] = [sum |-> s.sum, topk |-> kept]
  BY <1>0
<1>4. [s EXCEPT !.topk = kept] = MergeContent(s, frag)
  BY <1>1, <1>2, <1>3 DEF MergeContent, kept
<1> QED  BY <1>1, <1>4 DEF frag

=============================================================================
