-------------------------- MODULE AntiEntropyProofs --------------------------
(***************************************************************************)
(* What DeltaHistory keeps, for every capacity: recording a delta and      *)
(* taking over watermarks invent no delta, keep within the capacity, and   *)
(* move a watermark only to a sequence that is stored or was announced.    *)
(***************************************************************************)
EXTENDS AntiEntropy, AggregatesProofs

\* An image of a finite set is finite and not larger.
LEMMA ImageFinite ==
  ASSUME NEW S, IsFiniteSet(S), NEW f, DOMAIN f = S
  PROVE  /\ IsFiniteSet({f[x] : x \in S})
         /\ Cardinality({f[x] : x \in S}) <= Cardinality(S)
<1> DEFINE T == {f[x] : x \in S}
           g == [x \in S |-> f[x]]
<1>1. g \in Surjection(S, T)
  BY DEF Surjection
<1> HIDE DEF g, T
<1>2. IsFiniteSet(T) /\ Cardinality(T) <= Cardinality(S)
  BY <1>1, FS_Surjection
<1> QED  BY <1>2 DEF T

\* The sequences stored for an origin.
Has(E) == {e.seq : e \in E}

LEMMA HasFinite ==
  ASSUME NEW E, IsFiniteSet(E)
  PROVE  IsFiniteSet(Has(E)) /\ Cardinality(Has(E)) <= Cardinality(E)
<1> DEFINE f == [e \in E |-> e.seq]
<1>1. Has(E) = {f[e] : e \in E} /\ DOMAIN f = E
  BY DEF Has
<1> HIDE DEF f
<1> QED  BY <1>1, ImageFinite

\* A watermark can always be moved past the sequences that follow it without a
\* gap, and there are no more of them than deltas.
LEMMA ReachExists ==
  ASSUME NEW E, IsFiniteSet(E), NEW w \in Nat
  PROVE  \E r \in w..(w + Cardinality(E)) : (w + 1)..r \subseteq Has(E) /\ r + 1 \notin Has(E)
<1> DEFINE N == Cardinality(E)
           T == {k \in Nat : k <= N + 1 => (w + 1)..(w + k) \subseteq Has(E)}
<1>0. N \in Nat
  BY FS_CardinalityType
<1> HIDE DEF N
<1> SUFFICES ASSUME \A r \in w..(w + N) : (w + 1)..r \subseteq Has(E) => r + 1 \in Has(E)
             PROVE  FALSE
  BY DEF N
<1>1. 0 \in T
  OBVIOUS
<1>2. ASSUME NEW k \in Nat, k \in T PROVE k + 1 \in T
  <2> SUFFICES ASSUME k + 1 <= N + 1 PROVE (w + 1)..(w + (k + 1)) \subseteq Has(E)
    OBVIOUS
  <2>1. (w + 1)..(w + k) \subseteq Has(E)
    BY <1>0, <1>2
  <2>2. w + k \in w..(w + N)
    BY <1>0
  <2>3. (w + k) + 1 \in Has(E)
    BY <2>1, <2>2
  <2>4. ASSUME NEW i \in (w + 1)..(w + (k + 1)) PROVE i \in Has(E)
    <3>1. i \in (w + 1)..(w + k) \/ i = (w + k) + 1
      OBVIOUS
    <3> QED  BY <2>1, <2>3, <3>1
  <2> QED  BY <2>4
<1> HIDE DEF T
<1>3. N + 1 \in T
  BY <1>0, <1>1, <1>2, SetInduction
<1>4. (w + 1)..(w + (N + 1)) \subseteq Has(E)
  BY <1>0, <1>3 DEF T
<1>5. /\ IsFiniteSet((w + 1)..(w + (N + 1)))
      /\ Cardinality((w + 1)..(w + (N + 1))) = N + 1
  <2>1. w + 1 \in Int /\ w + (N + 1) \in Int /\ ~(w + 1 > w + (N + 1))
        /\ (w + (N + 1)) - (w + 1) + 1 = N + 1
    BY <1>0
  <2> QED  BY <2>1, FS_Interval
<1>6. IsFiniteSet(Has(E)) /\ Cardinality(Has(E)) <= N /\ Cardinality(Has(E)) \in Nat
  BY HasFinite, FS_CardinalityType DEF N
<1>7. Cardinality((w + 1)..(w + (N + 1))) <= Cardinality(Has(E))
  BY <1>4, <1>6, FS_Subset
<1> QED  BY <1>0, <1>5, <1>6, <1>7

\* Where the watermark ends: where it was, or at a stored sequence.
LEMMA ReachFacts ==
  ASSUME NEW E, IsFiniteSet(E), NEW w \in Nat
  PROVE  /\ Reach(E, w) \in Nat /\ w <= Reach(E, w)
         /\ (w + 1)..Reach(E, w) \subseteq Has(E)
         /\ Reach(E, w) + 1 \notin Has(E)
         /\ Reach(E, w) = w \/ \E e \in E : e.seq = Reach(E, w)
<1> DEFINE r == Reach(E, w)
<1>1. /\ r \in w..(w + Cardinality(E))
      /\ (w + 1)..r \subseteq Has(E) /\ r + 1 \notin Has(E)
  BY ReachExists DEF Reach, Has
<1>2. Cardinality(E) \in Nat
  BY FS_CardinalityType
<1>3. r \in Nat /\ w <= r
  BY <1>1, <1>2
<1>4. r = w \/ \E e \in E : e.seq = r
  <2> SUFFICES ASSUME r # w PROVE r \in Has(E)
    BY DEF Has
  <2>1. r \in (w + 1)..r
    BY <1>3
  <2> QED  BY <1>1, <2>1
<1> QED  BY <1>1, <1>3, <1>4

-----------------------------------------------------------------------------
(* Record and AdvanceWatermarks *)

\* No two deltas of E share origin and sequence.
Distinct(E) == \A d, e \in E : d.origin = e.origin /\ d.seq = e.seq => d = e

Later(E, e) == {x \in E : x.seq > e.seq}

\* Fewer deltas are later than a later one.
LEMMA LaterStrict ==
  ASSUME NEW E \in SUBSET Delta, IsFiniteSet(E), NEW d \in E, NEW e \in E, d.seq < e.seq
  PROVE  Cardinality(Later(E, e)) < Cardinality(Later(E, d))
<1>0. \A x \in E : x.seq \in Nat
  BY DEF Delta
<1>1. Later(E, e) \subseteq Later(E, d) /\ e \in Later(E, d) /\ e \notin Later(E, e)
  BY <1>0 DEF Later
<1>2. Later(E, d) \subseteq E
  BY DEF Later
<1>3. IsFiniteSet(Later(E, d)) /\ IsFiniteSet(Later(E, e))
  BY <1>1, <1>2, FS_Subset
<1>4. /\ Cardinality(Later(E, e)) <= Cardinality(Later(E, d))
      /\ Cardinality(Later(E, e)) # Cardinality(Later(E, d))
  BY <1>1, <1>3, FS_Subset
<1>5. Cardinality(Later(E, e)) \in Nat /\ Cardinality(Later(E, d)) \in Nat
  BY <1>3, FS_CardinalityType
<1> QED  BY <1>4, <1>5

\* The cut leaves at most capacity deltas of one origin.
LEMMA NewestFits ==
  ASSUME NEW E \in SUBSET Delta, IsFiniteSet(E), NEW capacity \in Nat \ {0},
         \A d, e \in E : d.seq = e.seq => d = e
  PROVE  /\ Newest(E, capacity) \subseteq E
         /\ IsFiniteSet(Newest(E, capacity))
         /\ Cardinality(Newest(E, capacity)) <= capacity
<1> DEFINE K == Newest(E, capacity)
           f == [e \in K |-> Cardinality(Later(E, e))]
<1>0. \A x \in E : x.seq \in Nat
  BY DEF Delta
<1>1. K \subseteq E /\ \A e \in K : Cardinality(Later(E, e)) < capacity
  BY DEF Newest, Later
<1>2. \A e \in K : Cardinality(Later(E, e)) \in Nat
  <2> SUFFICES ASSUME NEW e \in K PROVE Cardinality(Later(E, e)) \in Nat
    OBVIOUS
  <2>1. Later(E, e) \in SUBSET E
    BY DEF Later
  <2>2. IsFiniteSet(Later(E, e))
    BY <2>1, FS_Subset
  <2> QED  BY <2>2, FS_CardinalityType
<1> HIDE DEF K
<1>3. f \in Injection(K, 0..(capacity - 1))
  <2>1. f \in [K -> 0..(capacity - 1)]
    BY <1>1, <1>2
  <2>2. ASSUME NEW d \in K, NEW e \in K, f[d] = f[e] PROVE d = e
    <3>1. d \in E /\ e \in E /\ d.seq \in Nat /\ e.seq \in Nat
      BY <1>0, <1>1
    <3>2. Cardinality(Later(E, d)) = Cardinality(Later(E, e))
      BY <2>2
    <3>3. Cardinality(Later(E, d)) \in Nat /\ Cardinality(Later(E, e)) \in Nat
      BY <1>2
    <3>4. ~(d.seq < e.seq) /\ ~(e.seq < d.seq)
      BY <3>1, <3>2, <3>3, LaterStrict
    <3>5. d.seq = e.seq
      BY <3>1, <3>4
    <3> QED  BY <3>1, <3>5
  <2> QED  BY <2>1, <2>2 DEF Injection, IsInjective
<1> HIDE DEF f
<1>4. /\ IsFiniteSet(0..(capacity - 1)) /\ Cardinality(0..(capacity - 1)) = capacity
  <2>1. 0 \in Int /\ capacity - 1 \in Int /\ ~(0 > capacity - 1)
        /\ (capacity - 1) - 0 + 1 = capacity
    OBVIOUS
  <2> QED  BY <2>1, FS_Interval
<1>5. IsFiniteSet(K) /\ Cardinality(K) <= capacity
  BY <1>3, <1>4, FS_Injection
<1> QED  BY <1>1, <1>5 DEF K

\* DeltaHistory.Record keeps only what it had and what it is given, at most
\* capacity deltas of an origin, and never moves a watermark back or past the
\* stored sequences.
LEMMA RecordFacts ==
  ASSUME NEW h \in History, NEW d \in Delta, NEW capacity \in Nat \ {0},
         IsFiniteSet(h.entries), Distinct(h.entries \cup {d}),
         \A o \in Node : Cardinality(Of(h.entries, o)) <= capacity
  PROVE  /\ Record(h, d, capacity) \in History
         /\ Record(h, d, capacity).entries \subseteq h.entries \cup {d}
         /\ \A o \in Node : Cardinality(Of(Record(h, d, capacity).entries, o)) <= capacity
         /\ \A o \in Node :
              LET w == Record(h, d, capacity).contiguous[o]
              IN  /\ h.contiguous[o] <= w
                  /\ \/ w = h.contiguous[o]
                     \/ \E e \in h.entries \cup {d} : e.origin = o /\ e.seq = w
<1> DEFINE o == d.origin
           E == Of(h.entries, o) \cup {d}
           kept == Newest(E, capacity)
           r == Record(h, d, capacity)
<1>0. /\ h.entries \in SUBSET Delta /\ h.contiguous \in [Node -> Nat] /\ o \in Node
      /\ h = [entries |-> h.entries, contiguous |-> h.contiguous]
  BY DEF History, Delta
<1>1. CASE \E e \in Of(h.entries, o) : e.seq = d.seq
  <2>1. r = h
    BY <1>1 DEF Record
  <2> QED  BY <1>0, <2>1
<1>2. CASE ~\E e \in Of(h.entries, o) : e.seq = d.seq
  <2>1. r = [entries    |-> (h.entries \ Of(h.entries, o)) \cup kept,
             contiguous |-> [h.contiguous EXCEPT ![o] = Reach(kept, h.contiguous[o])]]
    BY <1>0, <1>2 DEF Record
  <2>2. E \in SUBSET Delta /\ E \subseteq h.entries \cup {d} /\ \A e \in E : e.origin = o
    BY <1>0 DEF Of
  <2>3. IsFiniteSet(E)
    <3>1. IsFiniteSet(h.entries \cup {d})
      BY FS_AddElement
    <3> QED  BY <2>2, <3>1, FS_Subset
  <2>4. \A x, y \in E : x.seq = y.seq => x = y
    BY <2>2 DEF Distinct
  <2>5. kept \subseteq E /\ IsFiniteSet(kept) /\ Cardinality(kept) <= capacity
    BY <2>2, <2>3, <2>4, NewestFits
  <2> HIDE DEF kept, E
  <2>6. /\ Reach(kept, h.contiguous[o]) \in Nat
        /\ h.contiguous[o] <= Reach(kept, h.contiguous[o])
        /\ \/ Reach(kept, h.contiguous[o]) = h.contiguous[o]
           \/ \E e \in kept : e.seq = Reach(kept, h.contiguous[o])
    BY <1>0, <2>5, ReachFacts
  <2>7. r.entries = (h.entries \ Of(h.entries, o)) \cup kept
        /\ r.contiguous = [h.contiguous EXCEPT ![o] = Reach(kept, h.contiguous[o])]
    BY <2>1
  <2>8. r \in History /\ r.entries \subseteq h.entries \cup {d}
    BY <1>0, <2>1, <2>2, <2>5, <2>6 DEF History
  <2>9. ASSUME NEW p \in Node PROVE Cardinality(Of(r.entries, p)) <= capacity
    <3>1. CASE p = o
      <4>1. Of(r.entries, p) = kept
        BY <2>2, <2>5, <2>7, <3>1 DEF Of
      <4> QED  BY <2>5, <4>1
    <3>2. CASE p # o
      <4>1. Of(r.entries, p) = Of(h.entries, p)
        BY <2>2, <2>5, <2>7, <3>2 DEF Of
      <4> QED  BY <4>1
    <3> QED  BY <3>1, <3>2
  <2>10. ASSUME NEW p \in Node
         PROVE  /\ h.contiguous[p] <= r.contiguous[p]
                /\ \/ r.contiguous[p] = h.contiguous[p]
                   \/ \E e \in h.entries \cup {d} : e.origin = p /\ e.seq = r.contiguous[p]
    <3>1. CASE p = o
      BY <1>0, <2>2, <2>5, <2>6, <2>7, <3>1
    <3>2. CASE p # o
      BY <1>0, <2>7, <3>2
    <3> QED  BY <3>1, <3>2
  <2> HIDE DEF r
  <2> QED  BY <2>8, <2>9, <2>10 DEF r
<1> QED  BY <1>1, <1>2

\* DeltaHistory.AdvanceWatermarks only forgets deltas; a watermark ends where it
\* was, where it was told to go, or at a stored sequence.
LEMMA AdvanceFacts ==
  ASSUME NEW h \in History, IsFiniteSet(h.entries), NEW marks \in [Node -> Nat]
  PROVE  /\ AdvanceWatermarks(h, marks) \in History
         /\ AdvanceWatermarks(h, marks).entries \subseteq h.entries
         /\ \A o \in Node :
              LET w == AdvanceWatermarks(h, marks).contiguous[o]
              IN  /\ h.contiguous[o] <= w
                  /\ \/ w \in {h.contiguous[o], marks[o]}
                     \/ \E e \in h.entries : e.origin = o /\ e.seq = w
<1> DEFINE moved == {o \in Node : marks[o] > h.contiguous[o]}
           kept == {e \in h.entries : e.origin \in moved => e.seq > marks[e.origin]}
           r == AdvanceWatermarks(h, marks)
<1>0. h.entries \in SUBSET Delta /\ h.contiguous \in [Node -> Nat]
  BY DEF History
<1>1. /\ r.entries = kept
      /\ r.contiguous = [o \in Node |-> IF o \in moved THEN Reach(Of(kept, o), marks[o])
                                        ELSE h.contiguous[o]]
      /\ r = [entries |-> r.entries, contiguous |-> r.contiguous]
  BY DEF AdvanceWatermarks
<1>2. ASSUME NEW o \in Node
      PROVE  /\ r.contiguous[o] \in Nat
             /\ h.contiguous[o] <= r.contiguous[o]
             /\ \/ r.contiguous[o] \in {h.contiguous[o], marks[o]}
                \/ \E e \in h.entries : e.origin = o /\ e.seq = r.contiguous[o]
  <2>1. CASE o \in moved
    <3>1. Of(kept, o) \in SUBSET h.entries /\ \A e \in Of(kept, o) : e.origin = o
      BY DEF Of
    <3>2. IsFiniteSet(Of(kept, o)) /\ marks[o] \in Nat /\ marks[o] > h.contiguous[o]
      BY <2>1, <3>1, FS_Subset
    <3>3. r.contiguous[o] = Reach(Of(kept, o), marks[o])
      BY <1>1, <2>1
    <3> HIDE DEF kept, r, moved
    <3>4. /\ Reach(Of(kept, o), marks[o]) \in Nat
          /\ marks[o] <= Reach(Of(kept, o), marks[o])
          /\ \/ Reach(Of(kept, o), marks[o]) = marks[o]
             \/ \E e \in Of(kept, o) : e.seq = Reach(Of(kept, o), marks[o])
      BY <3>2, ReachFacts
    <3> QED  BY <1>0, <3>1, <3>2, <3>3, <3>4
  <2>2. CASE o \notin moved
    BY <1>0, <1>1, <2>2
  <2> QED  BY <2>1, <2>2
<1>3. kept \subseteq h.entries
  OBVIOUS
<1> HIDE DEF r, kept, moved
<1>4. r.contiguous \in [Node -> Nat] /\ r.entries \in SUBSET Delta
  BY <1>0, <1>1, <1>2, <1>3
<1>5. r \in History
  BY <1>1, <1>4 DEF History
<1> QED  BY <1>1, <1>2, <1>3, <1>5 DEF r

=============================================================================
