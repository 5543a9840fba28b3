----------------------------- MODULE AntiEntropy -----------------------------
(***************************************************************************)
(* The decisions of anti-entropy as operators: the bounded history of      *)
(* deltas a node can serve again, with its contiguous watermarks           *)
(* (internal/gossip/anti_entropy/history.go), and the comparison of two    *)
(* state digests (internal/gossip/anti_entropy/digest.go).                 *)
(*                                                                         *)
(* A history is a record: the deltas it stores, with at most one for an    *)
(* origin and a sequence, and the watermark of every origin, 0 where the   *)
(* code's map has no key.  A digest is a record of versions, checksums and *)
(* watermarks; SHA-256 is taken to be injective, so a checksum is what is  *)
(* hashed, the serialized state.                                           *)
(***************************************************************************)
EXTENDS Aggregates

CONSTANT MaxRange     \* protocol.MaxDeltaRangeSize

ASSUME RangeAssumption == MaxRange \in Nat \ {0}

Aggregate == {"SUM", "TOPK"}

\* A delta as gossip carries it; its version is the origin's version of the
\* aggregate it belongs to, and 0 for the other.
Delta == [origin : Node, seq : Nat \ {0}, frag : Content, ver : [Aggregate -> Nat]]

History == [entries : SUBSET Delta, contiguous : [Node -> Nat]]

NoHistory == [entries |-> {}, contiguous |-> [o \in Node |-> 0]]

-----------------------------------------------------------------------------
(* DeltaHistory *)

Of(E, o) == {e \in E : e.origin = o}

\* Mutant: the history keeps one delta too many.
Newest_OneMore(E, capacity) ==
  {e \in E : Cardinality({x \in E : x.seq > e.seq}) <= capacity}

\* The deltas of E that remain when the oldest leave until capacity are left;
\* the delta that has just been stored may be the oldest.
Newest(E, capacity) ==
  {e \in E : Cardinality({x \in E : x.seq > e.seq}) < capacity}

\* The last sequence that follows watermark w without a gap in E.
Reach(E, w) ==
  LET has == {e.seq : e \in E}
  IN  CHOOSE r \in w..(w + Cardinality(E)) :
        (w + 1)..r \subseteq has /\ r + 1 \notin has

\* DeltaHistory.Record: a sequence already stored changes nothing.
Record(h, d, capacity) ==
  LET o == d.origin
      kept == Newest(Of(h.entries, o) \cup {d}, capacity)
  IN  IF \E e \in Of(h.entries, o) : e.seq = d.seq
      THEN h
      ELSE [entries    |-> (h.entries \ Of(h.entries, o)) \cup kept,
            contiguous |-> [h.contiguous EXCEPT ![o] = Reach(kept, @)]]

\* DeltaHistory.AdvanceWatermarks: an origin whose watermark moves forgets the
\* deltas below it.
AdvanceWatermarks(h, marks) ==
  LET moved == {o \in Node : marks[o] > h.contiguous[o]}
      kept  == {e \in h.entries : e.origin \in moved => e.seq > marks[e.origin]}
  IN  [entries    |-> kept,
       contiguous |-> [o \in Node |-> IF o \in moved
                                      THEN Reach(Of(kept, o), marks[o])
                                      ELSE h.contiguous[o]]]

DeltaRange == [origin : Node, from : Nat \ {0}, to : Nat]

\* DeltaHistory.Range: the deltas of the range; it fails unless all are there.
InRange(h, r) == {e \in Of(h.entries, r.origin) : e.seq \in r.from..r.to}

RangeServed(h, r) == Cardinality(InRange(h, r)) = r.to - r.from + 1

-----------------------------------------------------------------------------
(* Digests *)

\* Mutant: the next sequence is advertised instead of the last.
Watermarks_Next(h, n, own) ==
  [h.contiguous EXCEPT ![n] = Larger(@, own + 1)]

\* mergeWatermarks of the node's own sequence and its history's watermarks.
Watermarks(h, n, own) ==
  [h.contiguous EXCEPT ![n] = Larger(@, own)]

\* The serialized SUM state has a key for every contribution heard of and
\* always one for the node itself (sum.New stores a 0).
Checksum(n, content) ==
  [SUM  |-> <<content.sum, {k \in Node : content.sum[k] > 0} \cup {n}>>,
   TOPK |-> content.topk]

MissingDeltaRanges(local, peer) ==
  {[origin |-> o,
    from   |-> local.marks[o] + 1,
    to     |-> IF peer.marks[o] > local.marks[o] + MaxRange
               THEN local.marks[o] + MaxRange ELSE peer.marks[o]] :
   o \in {o \in Node : peer.marks[o] > local.marks[o]}}

AggregatesNeedingSnapshot(local, peer) ==
  {g \in Aggregate :
     \/ peer.ver[g] > local.ver[g]
     \/ peer.ver[g] = local.ver[g] /\ peer.check[g] # local.check[g]}

=============================================================================
