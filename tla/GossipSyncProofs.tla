--------------------------- MODULE GossipSyncProofs ---------------------------
(***************************************************************************)
(* Replication between any number of nodes, with any history capacities,   *)
(* queue sizes and fanout: types, nothing invented, what the histories     *)
(* serve, the implementation of the replicated aggregate, and that nodes   *)
(* that have heard of everything answer the same.                          *)
(***************************************************************************)
EXTENDS GossipSync, AntiEntropyProofs, SequenceTheorems

-----------------------------------------------------------------------------
(* The inductive invariant by what it is about *)

ManagerInv ==
  /\ mem \in [Node -> Content] /\ ver \in [Node -> Versions] /\ saved \in [Node -> Versions]
  /\ deltaSeq \in [Node -> 0..MaxDeltas]
  /\ issued \subseteq Delta
  /\ KeptCanonical /\ NothingInvented /\ IssuedOnce

OutboundInv ==
  /\ outbound \in [Node -> Seq(Delta)]
  /\ \A n \in Node : Len(outbound[n]) <= QueueSize
  /\ OutboundIssued

HistoryInv == history \in [Node -> History] /\ HistoryServes

NetInv ==
  /\ net \subseteq InFlight /\ IsFiniteSet(net)
  /\ \A m \in net : MessageGenuine(m)

TaskInv ==
  /\ tasks \subseteq DeltaTask \cup SnapshotTask \cup StampTask \cup MarksTask
  /\ IsFiniteSet(tasks)
  /\ \A t \in tasks : TaskGenuine(t)

GuardInv ==
  /\ highSeq \in [Node -> Marks] /\ seq \in [Node -> Nat]
  /\ healed \in BOOLEAN /\ restarts \in 0..MaxRestarts

LoadInv == Cardinality(net) + Cardinality(tasks) <= MaxLoad

LEMMA InvParts ==
  Inv <=> /\ ManagerInv /\ OutboundInv /\ HistoryInv /\ NetInv /\ TaskInv /\ GuardInv
          /\ LoadInv
BY DEF Inv, TypeOK, ManagerInv, OutboundInv, HistoryInv, NetInv, TaskInv, GuardInv, LoadInv

LEMMA InvNext ==
  ASSUME ManagerInv', OutboundInv', HistoryInv', NetInv', TaskInv', GuardInv', LoadInv'
  PROVE  Inv'
BY DEF Inv, TypeOK, ManagerInv, OutboundInv, HistoryInv, NetInv, TaskInv, GuardInv, LoadInv

-----------------------------------------------------------------------------
(* Contents, issued deltas and delta sequences only grow *)

Grown ==
  /\ \A n \in Node : /\ mem'[n] \in Content
                     /\ \A o \in Node : mem[n].sum[o] <= mem'[n].sum[o]
                     /\ \A f \in Content : Covers(mem[n], f) => Covers(mem'[n], f)
                     /\ deltaSeq[n] <= deltaSeq'[n] /\ deltaSeq'[n] \in Nat
  /\ issued \subseteq issued'

\* Genuine in the next state.
GenuineNext(f) ==
  /\ \A o \in Node : f.sum[o] <= mem'[o].sum[o]
  /\ f.topk \subseteq Submitted'

\* What was genuine, covered or reached stays so.
LEMMA GrownKeeps ==
  ASSUME ManagerInv, Grown
  PROVE  /\ \A f \in Content : Genuine(f) => GenuineNext(f) /\ Genuine(f)'
         /\ \A marks \in Marks : Reached(marks) => Reached(marks)'
         /\ Submitted \subseteq Submitted'
<1>1. /\ \A n \in Node : mem[n] \in Content /\ deltaSeq[n] \in Nat
  BY SyncAssumption DEF ManagerInv
<1>2. Submitted \subseteq Submitted'
  BY DEF Grown, Submitted
<1>3. ASSUME NEW f \in Content, Genuine(f) PROVE GenuineNext(f) /\ Genuine(f)'
  <2>1. ASSUME NEW o \in Node PROVE f.sum[o] <= mem'[o].sum[o]
    <3>1. f.sum[o] <= mem[o].sum[o] /\ mem[o].sum[o] <= mem'[o].sum[o]
      BY <1>3 DEF Genuine, Grown
    <3>2. f.sum[o] \in Nat /\ mem[o].sum[o] \in Nat /\ mem'[o].sum[o] \in Nat
      BY <1>1 DEF Grown, Content, Contrib
    <3> QED  BY <3>1, <3>2
  <2>2. f.topk \subseteq Submitted'
    BY <1>2, <1>3 DEF Genuine
  <2> QED  BY <2>1, <2>2 DEF Genuine, GenuineNext
<1>4. ASSUME NEW marks \in Marks, Reached(marks) PROVE Reached(marks)'
  <2> SUFFICES ASSUME NEW o \in Node PROVE marks[o] <= deltaSeq'[o]
    BY DEF Reached
  <2>1. marks[o] \in Nat /\ marks[o] <= deltaSeq[o] /\ deltaSeq[o] <= deltaSeq'[o]
        /\ deltaSeq'[o] \in Nat
    BY <1>4 DEF Reached, Grown, Marks
  <2> QED  BY <1>1, <2>1
<1> QED  BY <1>2, <1>3, <1>4

\* Messages in flight stay genuine; a step sends nothing else.
LEMMA NetAdds ==
  ASSUME ManagerInv, Grown, NetInv,
         NEW msgs \in SUBSET InFlight, IsFiniteSet(msgs),
         \A m \in msgs : MessageGenuine(m)',
         net' \subseteq net \cup msgs
  PROVE  NetInv'
<1>1. net' \subseteq InFlight
  BY DEF NetInv
<1>2. IsFiniteSet(net')
  <2>1. IsFiniteSet(net \cup msgs)
    BY FS_Union DEF NetInv
  <2> QED  BY <2>1, FS_Subset
<1>3. ASSUME NEW m \in net PROVE MessageGenuine(m)'
  <2>1. MessageGenuine(m) /\ m \in InFlight
    BY DEF NetInv
  <2>2. m.type = "SnapshotResp" => m.body.frag \in Content /\ m.body.marks \in Marks
    BY <2>1 DEF InFlight, Envelope, DeltaEnvelope
  <2>3. issued \subseteq issued'
    BY DEF Grown
  <2> QED  BY <2>1, <2>2, <2>3, GrownKeeps DEF MessageGenuine
<1> QED  BY <1>1, <1>2, <1>3 DEF NetInv

LEMMA TaskAdds ==
  ASSUME ManagerInv, Grown, TaskInv,
         NEW more \in SUBSET (DeltaTask \cup SnapshotTask \cup StampTask \cup MarksTask),
         IsFiniteSet(more), \A t \in more : TaskGenuine(t)',
         tasks' \subseteq tasks \cup more
  PROVE  TaskInv'
<1>1. tasks' \subseteq DeltaTask \cup SnapshotTask \cup StampTask \cup MarksTask
  BY DEF TaskInv
<1>2. IsFiniteSet(tasks')
  <2>1. IsFiniteSet(tasks \cup more)
    BY FS_Union DEF TaskInv
  <2> QED  BY <2>1, FS_Subset
<1>3. ASSUME NEW t \in tasks PROVE TaskGenuine(t)'
  <2>1. TaskGenuine(t) /\ t \in DeltaTask \cup SnapshotTask \cup StampTask \cup MarksTask
    BY DEF TaskInv
  <2>2. CASE t \in DeltaTask
    <3>1. t.step \in {"merge", "record"} /\ t.at \in Node /\ t.delta.frag \in Content
      BY <2>2 DEF DeltaTask, Delta
    <3> QED  BY <2>1, <3>1 DEF TaskGenuine, Grown
  <2>3. CASE t \in StampTask
    <3>1. t.step = "stamp" /\ t.at \in Node /\ t.frag \in Content /\ t.own \in Nat
      BY <2>3 DEF StampTask
    <3>2. Genuine(t.frag) /\ t.own <= deltaSeq[t.at] /\ deltaSeq[t.at] \in Nat
      BY <2>1, <3>1, SyncAssumption DEF TaskGenuine, ManagerInv
    <3>3. Genuine(t.frag)'
      BY <3>1, <3>2, GrownKeeps
    <3>4. deltaSeq[t.at] <= deltaSeq'[t.at] /\ deltaSeq'[t.at] \in Nat
      BY <3>1 DEF Grown
    <3>5. t.own <= deltaSeq'[t.at]
      BY <3>1, <3>2, <3>4
    <3> QED  BY <3>1, <3>3, <3>5 DEF TaskGenuine
  <2>4. CASE t \in MarksTask
    <3>1. t.step = "marks" /\ t.marks \in Marks
      BY <2>4 DEF MarksTask
    <3> QED  BY <2>1, <3>1, GrownKeeps DEF TaskGenuine
  <2>5. CASE t \in SnapshotTask
    BY <2>5 DEF SnapshotTask, TaskGenuine
  <2> QED  BY <2>1, <2>2, <2>3, <2>4, <2>5
<1> QED  BY <1>1, <1>2, <1>3 DEF TaskInv

LEMMA OutboundKeeps ==
  ASSUME Grown, OutboundInv, UNCHANGED outbound
  PROVE  OutboundInv'
<1>1. ASSUME NEW n \in Node, NEW i \in 1..Len(outbound[n])
      PROVE  outbound[n][i] \in issued' /\ Covers(mem'[n], outbound[n][i].frag)
  <2>1. outbound[n] \in Seq(Delta)
    BY DEF OutboundInv
  <2>2. outbound[n][i] \in Delta
    BY <2>1, ElementOfSeq
  <2>3. outbound[n][i].frag \in Content
    BY <2>2 DEF Delta
  <2>4. outbound[n][i] \in issued /\ Covers(mem[n], outbound[n][i].frag)
    BY DEF OutboundInv, OutboundIssued
  <2> QED  BY <2>3, <2>4 DEF Grown
<1> QED  BY <1>1 DEF OutboundInv, OutboundIssued

\* What a single history has to satisfy.
Serves(n, h) ==
  /\ h \in History
  /\ \A e \in h.entries : e \in issued /\ Covers(mem[n], e.frag)
  /\ \A o \in Node : /\ Cardinality(Of(h.entries, o)) <= Capacity[n]
                     /\ h.contiguous[o] <= deltaSeq[o]

LEMMA HistoryIs ==
  ASSUME history \in [Node -> History]
  PROVE  HistoryServes <=> \A n \in Node : Serves(n, history[n])
<1>1. \A n \in Node : \A e \in history[n].entries : e.origin \in Node
  BY DEF History, Delta
<1> QED  BY <1>1 DEF HistoryServes, Serves, Of

\* The same about the next state.
ServesNext(n, h) ==
  /\ h \in History
  /\ \A e \in h.entries : e \in issued' /\ Covers(mem'[n], e.frag)
  /\ \A o \in Node : /\ Cardinality(Of(h.entries, o)) <= Capacity[n]
                     /\ h.contiguous[o] <= deltaSeq'[o]

LEMMA HistoryIsNext ==
  ASSUME history' \in [Node -> History], \A n \in Node : ServesNext(n, history'[n])
  PROVE  HistoryInv'
BY DEF HistoryInv, HistoryServes, ServesNext, Of

LEMMA ServesKept ==
  ASSUME ManagerInv, Grown, NEW n \in Node, NEW h, Serves(n, h)
  PROVE  ServesNext(n, h)
<1>1. \A e \in h.entries : e.frag \in Content
  BY DEF Serves, History, Delta
<1>2. ASSUME NEW o \in Node PROVE h.contiguous[o] <= deltaSeq'[o]
  <2>1. h.contiguous[o] \in Nat /\ deltaSeq[o] \in Nat /\ deltaSeq'[o] \in Nat
        /\ h.contiguous[o] <= deltaSeq[o] /\ deltaSeq[o] <= deltaSeq'[o]
    BY SyncAssumption DEF Serves, History, ManagerInv, Grown
  <2> QED  BY <2>1
<1> QED  BY <1>1, <1>2 DEF Serves, ServesNext, Grown

\* One history changes.
LEMMA HistorySteps ==
  ASSUME ManagerInv, Grown, HistoryInv, NEW n \in Node, NEW h, Serves(n, h),
         history' = [history EXCEPT ![n] = h]
  PROVE  HistoryInv'
<1>1. history \in [Node -> History] /\ h \in History
  BY DEF HistoryInv, Serves
<1>2. history' \in [Node -> History]
  BY <1>1
<1>3. ASSUME NEW p \in Node PROVE ServesNext(p, history'[p])
  <2>1. Serves(p, history[p])
    BY <1>1, HistoryIs DEF HistoryInv
  <2>2. history'[p] = IF p = n THEN h ELSE history[p]
    BY <1>1
  <2>3. Serves(p, history'[p])
    BY <2>1, <2>2
  <2> QED  BY <2>3, ServesKept
<1> QED  BY <1>2, <1>3, HistoryIsNext

LEMMA HistoryKeeps ==
  ASSUME ManagerInv, Grown, HistoryInv, UNCHANGED history
  PROVE  HistoryInv'
<1>1. history \in [Node -> History]
  BY DEF HistoryInv
<1>2. \A n \in Node : ServesNext(n, history'[n])
  BY <1>1, HistoryIs, ServesKept DEF HistoryInv
<1> QED  BY <1>1, <1>2, HistoryIsNext

-----------------------------------------------------------------------------
(* The manager *)

LEMMA MergedGenuine ==
  ASSUME ManagerInv, NEW a \in Content, NEW b \in Content, Genuine(a), Genuine(b)
  PROVE  Genuine(MergeContent(a, b))
<1>1. \A o \in Node : MergeContent(a, b).sum[o] = IF b.sum[o] > a.sum[o] THEN b.sum[o] ELSE a.sum[o]
  BY DEF MergeContent, MergeSUM
<1>2. MergeContent(a, b).topk \subseteq a.topk \cup b.topk
  <2>1. a.topk \cup b.topk \in SUBSET Candidate
    BY DEF Content
  <2> QED  BY <2>1, CanonicalizeSubset DEF MergeContent, MergeTOPK
<1> QED  BY <1>1, <1>2 DEF Genuine

\* A state that merges grows.
LEMMA MergeGrows ==
  ASSUME NEW s \in Content, NEW f \in Content
  PROVE  /\ MergeContent(s, f) \in Content
         /\ \A o \in Node : s.sum[o] <= MergeContent(s, f).sum[o]
         /\ \A g \in Content : Covers(s, g) => Covers(MergeContent(s, f), g)
         /\ Covers(MergeContent(s, f), f)
<1>1. \A o \in Node : s.sum[o] \in Nat /\ f.sum[o] \in Nat
  BY DEF Content, Contrib
<1>2. \A o \in Node : s.sum[o] <= MergeContent(s, f).sum[o]
  BY <1>1 DEF MergeContent, MergeSUM
<1> QED  BY <1>2, MergeContentType, CoversStable, CoversMerged

LEMMA VersionTypes ==
  /\ \A v, p \in Nat, b \in BOOLEAN : MergeVersion(v, p, b) \in Nat
  /\ \A v, p \in Versions : \A a, b \in Content : MergeVersions(v, a, b, p) \in Versions
<1>1. ASSUME NEW v \in Nat, NEW p \in Nat, NEW b \in BOOLEAN PROVE MergeVersion(v, p, b) \in Nat
  BY DEF MergeVersion, Larger
<1>2. ASSUME NEW v \in Versions, NEW p \in Versions, NEW a \in Content, NEW b \in Content
      PROVE  MergeVersions(v, a, b, p) \in Versions
  <2>1. v["SUM"] \in Nat /\ v["TOPK"] \in Nat /\ p["SUM"] \in Nat /\ p["TOPK"] \in Nat
    BY DEF Versions, Aggregate
  <2>2. /\ MergeVersion(v["SUM"], p["SUM"], b.sum # a.sum) \in Nat
        /\ MergeVersion(v["TOPK"], p["TOPK"], b.topk # a.topk) \in Nat
    BY <2>1 DEF MergeVersion, Larger
  <2> QED  BY <2>2 DEF MergeVersions, Versions, Aggregate
<1> QED  BY <1>1, <1>2

\* Steps that leave contents, sequences and issued deltas alone.
LEMMA QuietManager ==
  ASSUME ManagerInv, UNCHANGED <<mem, deltaSeq, issued>>,
         ver' \in [Node -> Versions], saved' \in [Node -> Versions]
  PROVE  Grown /\ ManagerInv'
<1>1. \A n \in Node : mem[n] \in Content /\ deltaSeq[n] \in Nat
  BY SyncAssumption DEF ManagerInv
<1>2. \A n, o \in Node : mem[n].sum[o] \in Nat
  BY <1>1 DEF Content, Contrib
<1>3. Grown
  BY <1>1, <1>2 DEF Grown
<1>4. ManagerInv'
  BY DEF ManagerInv, KeptCanonical, NothingInvented, IssuedOnce, Genuine, Submitted
<1> QED  BY <1>3, <1>4

\* The merge of something genuine, whose own sequence the node has reached.
LEMMA ApplyManager ==
  ASSUME ManagerInv, NEW n \in Node, NEW frag \in Content, Genuine(frag),
         NEW peer \in Versions, NEW own \in Nat, own <= deltaSeq[n],
         Apply(n, frag, peer, own), issued' = issued
  PROVE  /\ Grown /\ ManagerInv'
         /\ Covers(mem'[n], frag)
         /\ deltaSeq' = deltaSeq
<1> DEFINE after == MergeContent(mem[n], frag)
<1>0. /\ mem \in [Node -> Content] /\ mem[n] \in Content /\ Genuine(mem[n])
      /\ deltaSeq \in [Node -> 0..MaxDeltas] /\ \A p \in Node : deltaSeq[p] \in Nat
      /\ ver \in [Node -> Versions] /\ saved \in [Node -> Versions]
  BY SyncAssumption DEF ManagerInv, NothingInvented
<1>1. /\ after \in Content /\ Canonical(after) /\ Covers(after, frag) /\ Genuine(after)
      /\ \A o \in Node : mem[n].sum[o] <= after.sum[o]
      /\ \A g \in Content : Covers(mem[n], g) => Covers(after, g)
  BY <1>0, MergeContentType, MergeGrows, MergedGenuine
<1> HIDE DEF after
<1>2. mem' = [mem EXCEPT ![n] = after] /\ mem' \in [Node -> Content]
      /\ \A p \in Node : mem'[p] = IF p = n THEN after ELSE mem[p]
  BY <1>0, <1>1 DEF Apply, after
<1>3. deltaSeq' = deltaSeq
  <2>1. Larger(deltaSeq[n], own) = deltaSeq[n]
    BY <1>0 DEF Larger
  <2> QED  BY <1>0, <2>1 DEF Apply
<1>4. ver' \in [Node -> Versions] /\ saved' \in [Node -> Versions]
  <2>1. /\ MergeVersions(ver[n], mem[n], after, peer) \in Versions
        /\ MergeVersions(saved[n], mem[n], after, peer) \in Versions
    BY <1>0, <1>1, VersionTypes
  <2>2. /\ ver' = [ver EXCEPT ![n] = MergeVersions(ver[n], mem[n], after, peer)]
        /\ saved' = saved
           \/ saved' = [saved EXCEPT ![n] = MergeVersions(saved[n], mem[n], after, peer)]
    BY <1>0 DEF Apply, after
  <2> QED  BY <1>0, <2>1, <2>2
<1>5. Grown
  <2>1. ASSUME NEW p \in Node
        PROVE  /\ mem'[p] \in Content
               /\ \A o \in Node : mem[p].sum[o] <= mem'[p].sum[o]
               /\ \A f \in Content : Covers(mem[p], f) => Covers(mem'[p], f)
    <3>1. CASE p = n
      BY <1>1, <1>2, <3>1
    <3>2. CASE p # n
      <4>1. mem'[p] = mem[p] /\ mem[p] \in Content
        BY <1>0, <1>2, <3>2
      <4>2. \A o \in Node : mem[p].sum[o] \in Nat
        BY <4>1 DEF Content, Contrib
      <4> QED  BY <4>1, <4>2
    <3> QED  BY <3>1, <3>2
  <2> QED  BY <1>0, <1>3, <2>1 DEF Grown
<1>6. NothingInvented'
  <2>1. \A p \in Node : mem'[p] \in Content /\ Genuine(mem'[p])
    BY <1>0, <1>1, <1>2 DEF ManagerInv, NothingInvented
  <2>2. \A p \in Node : GenuineNext(mem'[p])
    BY <1>5, <2>1, GrownKeeps
  <2> QED  BY <2>2 DEF GenuineNext, NothingInvented, Genuine
<1>7. IssuedOnce'
  <2>1. \A d \in issued : d.frag \in Content /\ Genuine(d.frag)
    BY DEF ManagerInv, IssuedOnce, Delta
  <2>2. \A d \in issued : GenuineNext(d.frag)
    BY <1>5, <2>1, GrownKeeps
  <2> QED  BY <1>3, <2>2 DEF GenuineNext, ManagerInv, IssuedOnce, Genuine
<1>8. KeptCanonical'
  BY <1>1, <1>2 DEF ManagerInv, KeptCanonical
<1>9. ManagerInv'
  BY <1>0, <1>2, <1>3, <1>4, <1>6, <1>7, <1>8 DEF ManagerInv
<1> QED  BY <1>1, <1>2, <1>3, <1>5, <1>9

\* A delta of this node or of another.
LEMMA ApplyDeltaManager ==
  ASSUME ManagerInv, NEW n \in Node, NEW d \in issued, ApplyDelta(n, d), issued' = issued
  PROVE  Grown /\ ManagerInv' /\ Covers(mem'[n], d.frag)
<1>1. /\ d \in Delta /\ d.frag \in Content /\ d.ver \in Versions /\ d.seq \in Nat
      /\ d.seq <= deltaSeq[d.origin] /\ Genuine(d.frag)
  BY DEF ManagerInv, IssuedOnce, Delta, Versions
<1>2. OwnSequence(n, d) \in Nat /\ OwnSequence(n, d) <= deltaSeq[n]
  BY <1>1, SyncAssumption DEF OwnSequence, ManagerInv
<1> QED  BY <1>1, <1>2, ApplyManager DEF ApplyDelta

\* The delta of a local update.
LocalDelta(n, frag, g) ==
  [origin |-> n, seq |-> deltaSeq[n] + 1, frag |-> frag,
   ver |-> [a \in Aggregate |-> IF a = g THEN ver[n][g] + 1 ELSE 0]]

\* A local update: the merge of a delta nobody has issued, which counts for no
\* other node.
LEMMA LocalManager ==
  ASSUME ManagerInv, NEW n \in Node, NEW frag \in Content, NEW g \in Aggregate,
         \A o \in Node : o # n => frag.sum[o] = 0,
         LocalUpdate(n, MergeContent(mem[n], frag), frag, g)
  PROVE  /\ Grown /\ ManagerInv'
         /\ LocalDelta(n, frag, g) \in issued' /\ LocalDelta(n, frag, g) \in Delta
         /\ Covers(mem'[n], frag)
<1> DEFINE after == MergeContent(mem[n], frag)
           d == LocalDelta(n, frag, g)
<1>0. /\ mem \in [Node -> Content] /\ mem[n] \in Content /\ Genuine(mem[n])
      /\ deltaSeq \in [Node -> 0..MaxDeltas] /\ \A p \in Node : deltaSeq[p] \in Nat
      /\ ver \in [Node -> Versions] /\ saved \in [Node -> Versions]
      /\ issued \subseteq Delta
  BY SyncAssumption DEF ManagerInv, NothingInvented
<1>1. /\ after \in Content /\ Canonical(after) /\ Covers(after, frag)
      /\ \A o \in Node : mem[n].sum[o] <= after.sum[o]
      /\ \A f \in Content : Covers(mem[n], f) => Covers(after, f)
  BY <1>0, MergeContentType, MergeGrows
<1>2. /\ \A o \in Node : frag.sum[o] <= after.sum[o]
      /\ \A o \in Node : o # n => after.sum[o] = mem[n].sum[o]
      /\ after.topk \subseteq mem[n].topk \cup frag.topk
  <2>1. \A o \in Node : mem[n].sum[o] \in Nat /\ frag.sum[o] \in Nat
    BY <1>0 DEF Content, Contrib
  <2>2. after.topk \subseteq mem[n].topk \cup frag.topk
    <3>1. mem[n].topk \cup frag.topk \in SUBSET Candidate
      BY <1>0 DEF Content
    <3> QED  BY <3>1, CanonicalizeSubset DEF MergeContent, MergeTOPK
  <2>3. \A o \in Node : after.sum[o] = IF frag.sum[o] > mem[n].sum[o] THEN frag.sum[o]
                                       ELSE mem[n].sum[o]
    BY DEF MergeContent, MergeSUM
  <2> HIDE DEF after
  <2> QED  BY <2>1, <2>2, <2>3
<1>3. /\ deltaSeq[n] < MaxDeltas
      /\ mem' = [mem EXCEPT ![n] = after]
      /\ ver' = [ver EXCEPT ![n][g] = @ + 1]
      /\ saved' = [saved EXCEPT ![n][g] = MergeVersion(@, d.ver[g], TRUE)]
      /\ deltaSeq' = [deltaSeq EXCEPT ![n] = d.seq]
      /\ issued' = issued \cup {d}
  BY DEF LocalUpdate, LocalDelta
<1>4. /\ d \in Delta /\ d.origin = n /\ d.seq = deltaSeq[n] + 1 /\ d.frag = frag
      /\ d.ver[g] \in Nat
  <2>1. \A a \in Aggregate : ver[n][a] \in Nat
    BY <1>0 DEF Versions
  <2>2. deltaSeq[n] + 1 \in Nat \ {0}
    BY <1>0
  <2> QED  BY <2>1, <2>2 DEF LocalDelta, Delta
<1> HIDE DEF after, d
<1>5. mem' \in [Node -> Content] /\ \A p \in Node : mem'[p] = IF p = n THEN after ELSE mem[p]
  BY <1>0, <1>1, <1>3
<1>6. /\ deltaSeq' \in [Node -> 0..MaxDeltas]
      /\ \A p \in Node : deltaSeq'[p] = IF p = n THEN deltaSeq[n] + 1 ELSE deltaSeq[p]
  BY <1>0, <1>3, <1>4, SyncAssumption
<1>7. ver' \in [Node -> Versions] /\ saved' \in [Node -> Versions]
  <2>1. ver[n] \in [Aggregate -> Nat] /\ saved[n] \in [Aggregate -> Nat]
    BY <1>0 DEF Versions
  <2>2. ver[n][g] + 1 \in Nat /\ MergeVersion(saved[n][g], d.ver[g], TRUE) \in Nat
    BY <1>4, <2>1 DEF MergeVersion, Larger
  <2>3. /\ [ver[n] EXCEPT ![g] = ver[n][g] + 1] \in Versions
        /\ [saved[n] EXCEPT ![g] = MergeVersion(saved[n][g], d.ver[g], TRUE)] \in Versions
    BY <2>1, <2>2 DEF Versions
  <2>4. /\ ver' = [ver EXCEPT ![n] = [ver[n] EXCEPT ![g] = ver[n][g] + 1]]
        /\ saved' = [saved EXCEPT
             ![n] = [saved[n] EXCEPT ![g] = MergeVersion(saved[n][g], d.ver[g], TRUE)]]
    BY <1>0, <1>3, <2>1
  <2> QED  BY <1>0, <2>3, <2>4
<1>8. Grown
  <2>1. ASSUME NEW p \in Node
        PROVE  /\ mem'[p] \in Content
               /\ \A o \in Node : mem[p].sum[o] <= mem'[p].sum[o]
               /\ \A f \in Content : Covers(mem[p], f) => Covers(mem'[p], f)
    <3>1. CASE p = n
      BY <1>1, <1>5, <3>1
    <3>2. CASE p # n
      <4>1. mem'[p] = mem[p] /\ mem[p] \in Content
        BY <1>0, <1>5, <3>2
      <4>2. \A o \in Node : mem[p].sum[o] \in Nat
        BY <4>1 DEF Content, Contrib
      <4> QED  BY <4>1, <4>2
    <3> QED  BY <3>1, <3>2
  <2>2. \A p \in Node : deltaSeq[p] <= deltaSeq'[p] /\ deltaSeq'[p] \in Nat
    BY <1>0, <1>6
  <2> QED  BY <1>3, <2>1, <2>2 DEF Grown
<1>9. frag.topk \subseteq Submitted' /\ GenuineNext(frag)
  <2>1. frag.topk \subseteq Submitted'
    BY <1>3, <1>4 DEF Submitted
  <2>2. ASSUME NEW o \in Node PROVE frag.sum[o] <= mem'[o].sum[o]
    <3>1. CASE o = n
      BY <1>2, <1>5, <3>1
    <3>2. CASE o # n
      <4>1. frag.sum[o] = 0 /\ mem'[o].sum[o] \in Nat
        BY <1>5, <3>2 DEF Content, Contrib
      <4> QED  BY <4>1
    <3> QED  BY <3>1, <3>2
  <2> QED  BY <2>1, <2>2 DEF GenuineNext
<1>10. NothingInvented'
  <2>1. \A p \in Node : GenuineNext(mem[p])
    <3>1. \A p \in Node : mem[p] \in Content /\ Genuine(mem[p])
      BY <1>0 DEF ManagerInv, NothingInvented
    <3> QED  BY <1>8, <3>1, GrownKeeps
  <2>2. GenuineNext(after)
    <3>1. after.topk \subseteq Submitted'
      BY <1>2, <1>9, <2>1 DEF GenuineNext
    <3>2. ASSUME NEW o \in Node PROVE after.sum[o] <= mem'[o].sum[o]
      <4>1. CASE o = n
        <5>1. after.sum[o] \in Nat
          BY <1>1 DEF Content, Contrib
        <5> QED  BY <1>5, <4>1, <5>1
      <4>2. CASE o # n
        BY <1>2, <2>1, <4>2 DEF GenuineNext
      <4> QED  BY <4>1, <4>2
    <3> QED  BY <3>1, <3>2 DEF GenuineNext
  <2>3. \A p \in Node : GenuineNext(mem'[p])
    BY <1>5, <2>1, <2>2
  <2> QED  BY <2>3 DEF GenuineNext, NothingInvented, Genuine
<1>11. IssuedOnce'
  <2>1. \A e \in issued : e.frag \in Content /\ Genuine(e.frag) /\ e.origin \in Node
                          /\ e.seq \in Nat /\ e.seq <= deltaSeq[e.origin]
    BY DEF ManagerInv, IssuedOnce, Delta
  <2>2. \A e \in issued' : GenuineNext(e.frag)
    BY <1>3, <1>4, <1>8, <1>9, <2>1, GrownKeeps
  <2>3. \A e \in issued' : e.seq <= deltaSeq'[e.origin]
    BY <1>0, <1>3, <1>4, <1>6, <2>1
  <2>4. \A e \in issued : ~(e.origin = d.origin /\ e.seq = d.seq)
    BY <1>0, <1>4, <2>1
  <2>5. \A e, f \in issued' : e.origin = f.origin /\ e.seq = f.seq => e = f
    BY <1>3, <2>4 DEF ManagerInv, IssuedOnce
  <2>6. IsFiniteSet(issued')
    BY <1>3, FS_AddElement DEF ManagerInv, IssuedOnce
  <2> QED  BY <2>2, <2>3, <2>5, <2>6 DEF GenuineNext, IssuedOnce, Genuine
<1>12. KeptCanonical'
  BY <1>1, <1>5 DEF ManagerInv, KeptCanonical
<1>13. ManagerInv'
  BY <1>0, <1>3, <1>4, <1>5, <1>6, <1>7, <1>10, <1>11, <1>12 DEF ManagerInv
<1> QED  BY <1>1, <1>3, <1>4, <1>5, <1>8, <1>13 DEF d

-----------------------------------------------------------------------------
(* Client updates *)

\* A queue with room takes the delta, a full one does not.
LEMMA EnqueueFacts ==
  ASSUME NEW q \in Seq(Delta), Len(q) <= QueueSize, NEW d \in Delta
  PROVE  /\ Enqueue(q, d) \in Seq(Delta) /\ Len(Enqueue(q, d)) <= QueueSize
         /\ \A i \in 1..Len(Enqueue(q, d)) :
              \/ i \in 1..Len(q) /\ Enqueue(q, d)[i] = q[i]
              \/ Enqueue(q, d)[i] = d
<1>0. Len(q) \in Nat /\ QueueSize \in Nat
  BY SyncAssumption, LenProperties
<1>1. CASE Len(q) < QueueSize
  <2>1. Enqueue(q, d) = Append(q, d)
    BY <1>1 DEF Enqueue
  <2>2. /\ Append(q, d) \in Seq(Delta) /\ Len(Append(q, d)) = Len(q) + 1
        /\ \A i \in 1..(Len(q) + 1) : Append(q, d)[i] = IF i = Len(q) + 1 THEN d ELSE q[i]
    OBVIOUS
  <2> QED  BY <1>0, <1>1, <2>1, <2>2
<1>2. CASE ~(Len(q) < QueueSize)
  BY <1>0, <1>2 DEF Enqueue
<1> QED  BY <1>1, <1>2

\* A local update keeps the invariant.
LEMMA LocalUpdateStep ==
  ASSUME Inv, NEW n \in Node, NEW frag \in Content, NEW g \in Aggregate,
         \A o \in Node : o # n => frag.sum[o] = 0,
         LocalUpdate(n, MergeContent(mem[n], frag), frag, g)
  PROVE  Inv'
<1> DEFINE d == LocalDelta(n, frag, g)
<1>0. /\ ManagerInv /\ OutboundInv /\ HistoryInv /\ NetInv /\ TaskInv /\ GuardInv /\ LoadInv
  BY InvParts
<1>1. /\ Grown /\ ManagerInv' /\ d \in issued' /\ d \in Delta /\ Covers(mem'[n], frag)
  BY <1>0, LocalManager
<1>2. /\ outbound' = [outbound EXCEPT ![n] = Enqueue(outbound[n], d)]
      /\ UNCHANGED <<history, highSeq, seq, tasks, net, healed, restarts>>
  BY <1>0 DEF LocalUpdate, LocalDelta, OutboundInv
<1>3. d.frag = frag
  BY DEF LocalDelta
<1> HIDE DEF d
<1>4. OutboundInv'
  <2>1. \A p \in Node : outbound[p] \in Seq(Delta) /\ Len(outbound[p]) <= QueueSize
    BY <1>0 DEF OutboundInv
  <2>2. /\ Enqueue(outbound[n], d) \in Seq(Delta) /\ Len(Enqueue(outbound[n], d)) <= QueueSize
        /\ \A i \in 1..Len(Enqueue(outbound[n], d)) :
              \/ i \in 1..Len(outbound[n]) /\ Enqueue(outbound[n], d)[i] = outbound[n][i]
              \/ Enqueue(outbound[n], d)[i] = d
    BY <1>1, <2>1, EnqueueFacts
  <2>3. /\ outbound' \in [Node -> Seq(Delta)]
        /\ \A p \in Node :
             outbound'[p] = IF p = n THEN Enqueue(outbound[n], d) ELSE outbound[p]
    BY <1>0, <1>2, <2>2 DEF OutboundInv
  <2>4. ASSUME NEW p \in Node, NEW i \in 1..Len(outbound[p])
        PROVE  outbound[p][i] \in issued' /\ Covers(mem'[p], outbound[p][i].frag)
    <3>1. outbound[p][i] \in Delta
      BY <2>1, ElementOfSeq
    <3>2. outbound[p][i].frag \in Content
      BY <3>1 DEF Delta
    <3>3. outbound[p][i] \in issued /\ Covers(mem[p], outbound[p][i].frag)
      BY <1>0 DEF OutboundInv, OutboundIssued
    <3> QED  BY <1>1, <3>2, <3>3 DEF Grown
  <2>5. ASSUME NEW p \in Node, NEW i \in 1..Len(outbound'[p])
        PROVE  outbound'[p][i] \in issued' /\ Covers(mem'[p], outbound'[p][i].frag)
    <3>1. CASE p = n
      BY <1>1, <1>3, <2>2, <2>3, <2>4, <3>1
    <3>2. CASE p # n
      BY <2>3, <2>4, <3>2
    <3> QED  BY <3>1, <3>2
  <2>6. \A p \in Node : Len(outbound'[p]) <= QueueSize
    BY <2>1, <2>2, <2>3
  <2> QED  BY <2>3, <2>5, <2>6 DEF OutboundInv, OutboundIssued
<1>5. HistoryInv'
  BY <1>0, <1>1, <1>2, HistoryKeeps
<1>6. NetInv' /\ TaskInv'
  <2>1. IsFiniteSet({}) /\ net' \subseteq net \cup {} /\ tasks' \subseteq tasks \cup {}
    BY <1>2, FS_EmptySet
  <2> QED  BY <1>0, <1>1, <2>1, NetAdds, TaskAdds
<1>7. GuardInv' /\ LoadInv'
  BY <1>0, <1>2 DEF GuardInv, LoadInv
<1> QED  BY <1>1, <1>4, <1>5, <1>6, <1>7, InvNext

LEMMA UpdateStep ==
  ASSUME Inv, NEW n \in Node, UpdateLocalSUM(n) \/ UpdateLocalTOPK(n)
  PROVE  Inv'
<1>0. mem[n] \in Content /\ Canonical(mem[n])
  BY DEF Inv, TypeOK, KeptCanonical
<1>1. CASE UpdateLocalSUM(n)
  <2> DEFINE contrib == UpdateSUM(mem[n].sum, n, 1)
             frag == SUMFragment(n, contrib[n])
  <2>1. /\ UpdateFits(mem[n].sum, n, 1)
        /\ LocalUpdate(n, [mem[n] EXCEPT !.sum = contrib], frag, "SUM")
    BY <1>1 DEF UpdateLocalSUM
  <2>2. frag \in Content /\ [mem[n] EXCEPT !.sum = contrib] = MergeContent(mem[n], frag)
    BY <1>0, <2>1, UpdateSUMMerges
  <2>3. \A o \in Node : o # n => frag.sum[o] = 0
    BY DEF SUMFragment
  <2> HIDE DEF frag
  <2> QED  BY <2>1, <2>2, <2>3, LocalUpdateStep DEF Aggregate
<1>2. CASE UpdateLocalTOPK(n)
  <2>1. PICK c \in LocalCandidate :
          LocalUpdate(n, [mem[n] EXCEPT !.topk = MergeTOPK(mem[n].topk, {c})],
                      TOPKFragment(c), "TOPK")
    BY <1>2 DEF UpdateLocalTOPK
  <2>2. /\ TOPKFragment(c) \in Content
        /\ [mem[n] EXCEPT !.topk = MergeTOPK(mem[n].topk, {c})]
             = MergeContent(mem[n], TOPKFragment(c))
    BY <1>0, SyncAssumption, UpdateTOPKMerges
  <2>3. \A o \in Node : TOPKFragment(c).sum[o] = 0
    BY DEF TOPKFragment, NoContrib
  <2> QED  BY <2>1, <2>2, <2>3, LocalUpdateStep DEF Aggregate
<1> QED  BY <1>1, <1>2

-----------------------------------------------------------------------------
(* What is sent, and what becomes of a history *)

\* A step that sends msgs and goes on with more.
LEMMA NetworkStep ==
  ASSUME Inv, Grown, ManagerInv', OutboundInv', HistoryInv', GuardInv', LoadInv',
         NEW msgs \in SUBSET InFlight, IsFiniteSet(msgs),
         \A m \in msgs : MessageGenuine(m)',
         NEW more \in SUBSET (DeltaTask \cup SnapshotTask \cup StampTask \cup MarksTask),
         IsFiniteSet(more), \A t \in more : TaskGenuine(t)',
         net' \subseteq net \cup msgs, tasks' \subseteq tasks \cup more
  PROVE  Inv'
<1>0. ManagerInv /\ NetInv /\ TaskInv
  BY InvParts
<1>1. NetInv'
  BY <1>0, NetAdds
<1>2. TaskInv'
  BY <1>0, TaskAdds
<1> QED  BY <1>1, <1>2, InvNext

\* A handler that leaves queue, history and guard alone.
LEMMA HandlerStep ==
  ASSUME Inv, Grown, ManagerInv', Fits,
         UNCHANGED <<outbound, history, highSeq, seq, healed, restarts>>,
         NEW msgs \in SUBSET InFlight, IsFiniteSet(msgs),
         \A m \in msgs : MessageGenuine(m)',
         NEW more \in SUBSET (DeltaTask \cup SnapshotTask \cup StampTask \cup MarksTask),
         IsFiniteSet(more), \A t \in more : TaskGenuine(t)',
         net' \subseteq net \cup msgs, tasks' \subseteq tasks \cup more
  PROVE  Inv'
<1>0. ManagerInv /\ OutboundInv /\ HistoryInv /\ GuardInv
  BY InvParts
<1>1. OutboundInv' /\ HistoryInv'
  BY <1>0, OutboundKeeps, HistoryKeeps
<1>2. GuardInv' /\ LoadInv'
  BY <1>0 DEF GuardInv, LoadInv, Fits
<1> QED  BY <1>1, <1>2, NetworkStep

LEMMA Peers ==
  ASSUME NEW n \in Node, NEW P \in SamplePeers(n)
  PROVE  P \in SUBSET Node /\ IsFiniteSet(P)
<1>1. P \in SUBSET Node
  BY DEF SamplePeers
<1> QED  BY <1>1, FS_Subset, SyncAssumption

\* The same body for every one of P.
LEMMA ToPeers ==
  ASSUME NEW P, IsFiniteSet(P), NEW type, NEW n, NEW body
  PROVE  IsFiniteSet({Message(type, n, p, body) : p \in P})
<1> DEFINE f == [p \in P |-> Message(type, n, p, body)]
<1>1. {Message(type, n, p, body) : p \in P} = {f[p] : p \in P} /\ DOMAIN f = P
  OBVIOUS
<1> HIDE DEF f
<1>2. IsFiniteSet({f[p] : p \in P})
  BY <1>1, ImageFinite
<1> QED  BY <1>1, <1>2

LEMMA WatermarkFacts ==
  ASSUME NEW h \in History, NEW n \in Node, NEW own \in Nat
  PROVE  /\ Watermarks(h, n, own) \in Marks
         /\ \A o \in Node : Watermarks(h, n, own)[o]
                              = IF o = n THEN Larger(h.contiguous[o], own)
                                ELSE h.contiguous[o]
<1>1. h.contiguous \in [Node -> Nat]
  BY DEF History
<1>2. Larger(h.contiguous[n], own) \in Nat
  BY <1>1 DEF Larger
<1> QED  BY <1>1, <1>2 DEF Watermarks, Marks

LEMMA DigestType ==
  ASSUME ManagerInv, NEW n \in Node, NEW h \in History
  PROVE  Digest(n, h) \in DigestBody
<1>1. /\ mem[n] \in Content /\ ver[n] \in Versions /\ deltaSeq[n] \in Nat
  BY SyncAssumption DEF ManagerInv
<1>2. Watermarks(h, n, deltaSeq[n]) \in Marks
  BY <1>1, WatermarkFacts
<1>3. Checksum(n, mem[n]) \in [SUM : Contrib \X SUBSET Node, TOPK : SUBSET Candidate]
  <2>1. mem[n].sum \in Contrib /\ mem[n].topk \in SUBSET Candidate
    BY <1>1 DEF Content
  <2>2. ({k \in Node : mem[n].sum[k] > 0} \cup {n}) \in SUBSET Node
    OBVIOUS
  <2>3. <<mem[n].sum, {k \in Node : mem[n].sum[k] > 0} \cup {n}>> \in Contrib \X SUBSET Node
    BY <2>1, <2>2
  <2> QED  BY <2>1, <2>3 DEF Checksum
<1> QED  BY <1>1, <1>2, <1>3 DEF Digest, DigestBody

LEMMA DigestsSent ==
  ASSUME ManagerInv, NEW n \in Node, NEW h \in History, NEW P \in SamplePeers(n)
  PROVE  /\ DigestTo(n, h, P) \in SUBSET InFlight
         /\ IsFiniteSet(DigestTo(n, h, P))
         /\ \A m \in DigestTo(n, h, P) : MessageGenuine(m)'
<1>1. P \in SUBSET Node /\ IsFiniteSet(P)
  BY Peers
<1>2. Digest(n, h) \in DigestBody
  BY DigestType
<1>3. ASSUME NEW p \in P
      PROVE  /\ Message("StateDigest", n, p, Digest(n, h)) \in InFlight
             /\ Message("StateDigest", n, p, Digest(n, h)).type = "StateDigest"
  <2>1. Message("StateDigest", n, p, Digest(n, h)) \in Envelope("StateDigest", DigestBody)
    BY <1>1, <1>2 DEF Message, Envelope
  <2> QED  BY <2>1 DEF InFlight, Message
<1>4. IsFiniteSet(DigestTo(n, h, P))
  BY <1>1, ToPeers DEF DigestTo
<1>5. \A m \in DigestTo(n, h, P) : m \in InFlight /\ m.type = "StateDigest"
  BY <1>3 DEF DigestTo
<1>6. \A m \in DigestTo(n, h, P) : MessageGenuine(m)'
  BY <1>5 DEF MessageGenuine
<1> QED  BY <1>4, <1>5, <1>6

\* The deltas of a history are finitely many and have distinct sequences.
LEMMA ServesFinite ==
  ASSUME ManagerInv, NEW n \in Node, NEW h, Serves(n, h)
  PROVE  h \in History /\ IsFiniteSet(h.entries) /\ h.entries \subseteq issued
<1>1. h.entries \subseteq issued /\ IsFiniteSet(issued)
  BY DEF Serves, ManagerInv, IssuedOnce
<1> QED  BY <1>1, FS_Subset DEF Serves

\* recordDelta of a delta the node has merged.
LEMMA ServesRecord ==
  ASSUME ManagerInv, NEW n \in Node, NEW h, Serves(n, h),
         NEW d \in issued, Covers(mem[n], d.frag)
  PROVE  Serves(n, Record(h, d, Capacity[n]))
<1> DEFINE r == Record(h, d, Capacity[n])
<1>1. /\ h \in History /\ IsFiniteSet(h.entries) /\ h.entries \subseteq issued
      /\ d \in Delta /\ Capacity[n] \in Nat \ {0}
  BY ServesFinite, SyncAssumption DEF ManagerInv
<1>2. Distinct(h.entries \cup {d})
  <2>1. h.entries \cup {d} \subseteq issued
    BY <1>1
  <2> QED  BY <2>1 DEF Distinct, ManagerInv, IssuedOnce
<1>3. \A o \in Node : Cardinality(Of(h.entries, o)) <= Capacity[n]
  BY DEF Serves
<1>4. /\ r \in History /\ r.entries \subseteq h.entries \cup {d}
      /\ \A o \in Node : Cardinality(Of(r.entries, o)) <= Capacity[n]
      /\ \A o \in Node : \/ r.contiguous[o] = h.contiguous[o]
                         \/ \E e \in h.entries \cup {d} : e.origin = o /\ e.seq = r.contiguous[o]
  BY <1>1, <1>2, <1>3, RecordFacts
<1> HIDE DEF r
<1>5. \A o \in Node : r.contiguous[o] <= deltaSeq[o]
  <2> SUFFICES ASSUME NEW o \in Node PROVE r.contiguous[o] <= deltaSeq[o]
    OBVIOUS
  <2>1. CASE r.contiguous[o] = h.contiguous[o]
    BY <2>1 DEF Serves
  <2>2. CASE \E e \in h.entries \cup {d} : e.origin = o /\ e.seq = r.contiguous[o]
    BY <1>1, <2>2 DEF ManagerInv, IssuedOnce
  <2> QED  BY <1>4, <2>1, <2>2
<1>6. \A e \in r.entries : e \in issued /\ Covers(mem[n], e.frag)
  BY <1>4 DEF Serves
<1>7. Serves(n, r)
  BY <1>4, <1>5, <1>6 DEF Serves
<1> QED  BY <1>7 DEF r

\* Taking over watermarks their origins have reached.
LEMMA ServesAdvance ==
  ASSUME ManagerInv, NEW n \in Node, NEW h, Serves(n, h),
         NEW marks \in Marks, Reached(marks)
  PROVE  Serves(n, AdvanceWatermarks(h, marks))
<1> DEFINE r == AdvanceWatermarks(h, marks)
<1>1. h \in History /\ IsFiniteSet(h.entries) /\ h.entries \subseteq issued
  BY ServesFinite
<1>2. /\ r \in History /\ r.entries \subseteq h.entries
      /\ \A o \in Node : \/ r.contiguous[o] \in {h.contiguous[o], marks[o]}
                         \/ \E e \in h.entries : e.origin = o /\ e.seq = r.contiguous[o]
  BY <1>1, AdvanceFacts DEF Marks
<1> HIDE DEF r
<1>3. ASSUME NEW o \in Node PROVE r.contiguous[o] <= deltaSeq[o]
  <2>1. h.contiguous[o] <= deltaSeq[o] /\ marks[o] <= deltaSeq[o]
    BY DEF Serves, Reached
  <2>2. CASE r.contiguous[o] \in {h.contiguous[o], marks[o]}
    BY <2>1, <2>2
  <2>3. CASE \E e \in h.entries : e.origin = o /\ e.seq = r.contiguous[o]
    BY <1>1, <2>3 DEF ManagerInv, IssuedOnce
  <2> QED  BY <1>2, <2>2, <2>3
<1>4. ASSUME NEW o \in Node PROVE Cardinality(Of(r.entries, o)) <= Capacity[n]
  <2>1. Of(r.entries, o) \subseteq Of(h.entries, o) /\ Of(h.entries, o) \subseteq h.entries
    BY <1>2 DEF Of
  <2>2. IsFiniteSet(Of(h.entries, o))
    BY <1>1, <2>1, FS_Subset
  <2>3. /\ Cardinality(Of(r.entries, o)) <= Cardinality(Of(h.entries, o))
        /\ IsFiniteSet(Of(r.entries, o))
    BY <2>1, <2>2, FS_Subset
  <2>4. /\ Cardinality(Of(h.entries, o)) \in Nat /\ Cardinality(Of(r.entries, o)) \in Nat
        /\ Capacity[n] \in Nat
    BY <2>2, <2>3, FS_CardinalityType, SyncAssumption
  <2>5. Cardinality(Of(h.entries, o)) <= Capacity[n]
    BY DEF Serves
  <2> QED  BY <2>3, <2>4, <2>5
<1>5. \A e \in r.entries : e \in issued /\ Covers(mem[n], e.frag)
  BY <1>2 DEF Serves
<1>6. Serves(n, r)
  BY <1>2, <1>3, <1>4, <1>5 DEF Serves
<1> QED  BY <1>6 DEF r

-----------------------------------------------------------------------------
(* The node's own steps *)

\* The manager is left alone.
LEMMA ManagerUnchanged ==
  ASSUME ManagerInv, UNCHANGED <<manager, issued>>
  PROVE  Grown /\ ManagerInv'
<1>1. /\ UNCHANGED <<mem, deltaSeq, issued>>
      /\ ver' \in [Node -> Versions] /\ saved' \in [Node -> Versions]
  BY DEF manager, ManagerInv
<1> QED  BY <1>1, QuietManager

LEMMA CheckpointStep ==
  ASSUME Inv, NEW n \in Node, Checkpoint(n)
  PROVE  Inv'
<1>0. /\ ManagerInv /\ OutboundInv /\ HistoryInv /\ GuardInv /\ LoadInv
  BY InvParts
<1>1. /\ UNCHANGED <<mem, ver, deltaSeq, issued>>
      /\ UNCHANGED <<outbound, history, highSeq, seq, tasks, net, healed, restarts>>
      /\ saved' = [saved EXCEPT ![n] = ver[n]]
  BY DEF Checkpoint
<1>2. ver' \in [Node -> Versions] /\ saved' \in [Node -> Versions]
  BY <1>0, <1>1 DEF ManagerInv
<1>3. Grown /\ ManagerInv'
  BY <1>0, <1>1, <1>2, QuietManager
<1>4. OutboundInv' /\ HistoryInv'
  BY <1>0, <1>1, <1>3, OutboundKeeps, HistoryKeeps
<1>5. GuardInv' /\ LoadInv'
  BY <1>0, <1>1 DEF GuardInv, LoadInv
<1>6. IsFiniteSet({}) /\ net' \subseteq net \cup {} /\ tasks' \subseteq tasks \cup {}
  BY <1>1, FS_EmptySet
<1> QED  BY <1>3, <1>4, <1>5, <1>6, NetworkStep

\* Fewer messages and tasks fit as well.
LEMMA LoadShrinks ==
  ASSUME Inv, net' \subseteq net, tasks' \subseteq tasks
  PROVE  LoadInv'
<1>1. IsFiniteSet(net) /\ IsFiniteSet(tasks) /\ Cardinality(net) + Cardinality(tasks) <= MaxLoad
  BY DEF Inv, TypeOK
<1>2. /\ IsFiniteSet(net') /\ Cardinality(net') <= Cardinality(net)
      /\ IsFiniteSet(tasks') /\ Cardinality(tasks') <= Cardinality(tasks)
  BY <1>1, FS_Subset
<1>3. /\ Cardinality(net) \in Nat /\ Cardinality(tasks) \in Nat
      /\ Cardinality(net') \in Nat /\ Cardinality(tasks') \in Nat
  BY <1>1, <1>2, FS_CardinalityType
<1> QED  BY <1>1, <1>2, <1>3, SyncAssumption DEF LoadInv

LEMMA NoHistoryServes ==
  ASSUME ManagerInv, NEW n \in Node
  PROVE  Serves(n, NoHistory)
<1>1. NoHistory \in History /\ NoHistory.entries = {}
      /\ \A o \in Node : NoHistory.contiguous[o] = 0
  BY DEF NoHistory, History
<1>2. \A o \in Node : Of({}, o) = {}
  BY DEF Of
<1>3. \A o \in Node : 0 <= deltaSeq[o] /\ 0 <= Capacity[n]
  BY SyncAssumption DEF ManagerInv
<1> QED  BY <1>1, <1>2, <1>3, FS_EmptySet DEF Serves

LEMMA RestartStep ==
  ASSUME Inv, NEW n \in Node, Restart(n)
  PROVE  Inv'
<1> DEFINE marks == Watermarks(NoHistory, n, deltaSeq[n])
           h == AdvanceWatermarks(NoHistory, marks)
<1>0. /\ ManagerInv /\ OutboundInv /\ HistoryInv /\ GuardInv /\ LoadInv
  BY InvParts
<1>1. /\ UNCHANGED <<mem, saved, deltaSeq, issued>>
      /\ UNCHANGED <<net, healed>>
      /\ restarts < MaxRestarts /\ restarts' = restarts + 1
      /\ ver' = [ver EXCEPT ![n] = saved[n]]
      /\ outbound' = [outbound EXCEPT ![n] = <<>>]
      /\ history' = [history EXCEPT ![n] = h]
      /\ highSeq' = [highSeq EXCEPT ![n] = [o \in Node |-> 0]]
      /\ seq' = [seq EXCEPT ![n] = 0] \/ seq' = seq
      /\ tasks' \subseteq tasks
  BY DEF Restart
<1>2. Grown /\ ManagerInv'
  <2>1. ver' \in [Node -> Versions] /\ saved' \in [Node -> Versions]
    BY <1>0, <1>1 DEF ManagerInv
  <2> QED  BY <1>0, <1>1, <2>1, QuietManager
<1>3. Serves(n, h)
  <2>1. Serves(n, NoHistory) /\ NoHistory \in History /\ deltaSeq[n] \in Nat
    BY <1>0, NoHistoryServes, SyncAssumption DEF Serves, ManagerInv
  <2>2. marks \in Marks /\ \A o \in Node :
          marks[o] = IF o = n THEN Larger(NoHistory.contiguous[o], deltaSeq[n])
                     ELSE NoHistory.contiguous[o]
    BY <2>1, WatermarkFacts
  <2>3. \A o \in Node : NoHistory.contiguous[o] = 0 /\ deltaSeq[o] \in Nat
    BY <1>0, SyncAssumption DEF NoHistory, ManagerInv
  <2> HIDE DEF marks
  <2>4. Reached(marks)
    BY <2>2, <2>3 DEF Reached, Larger
  <2> QED  BY <1>0, <2>1, <2>2, <2>4, ServesAdvance
<1> HIDE DEF h
<1>4. HistoryInv'
  BY <1>0, <1>1, <1>2, <1>3, HistorySteps
<1>5. OutboundInv'
  <2>1. outbound \in [Node -> Seq(Delta)] /\ \A p \in Node : Len(outbound[p]) <= QueueSize
    BY <1>0 DEF OutboundInv
  <2>2. <<>> \in Seq(Delta) /\ Len(<<>>) = 0 /\ 0 <= QueueSize
    BY EmptySeq, SyncAssumption
  <2>3. /\ outbound' \in [Node -> Seq(Delta)]
        /\ \A p \in Node : outbound'[p] = IF p = n THEN <<>> ELSE outbound[p]
    BY <1>1, <2>1, <2>2
  <2>4. \A p \in Node : Len(outbound'[p]) <= QueueSize
    BY <2>1, <2>2, <2>3
  <2>5. ASSUME NEW p \in Node, NEW i \in 1..Len(outbound'[p])
        PROVE  outbound'[p][i] \in issued' /\ Covers(mem'[p], outbound'[p][i].frag)
    <3>1. p # n /\ outbound'[p] = outbound[p]
      BY <2>2, <2>3
    <3> QED  BY <1>0, <1>1, <3>1 DEF OutboundInv, OutboundIssued
  <2> QED  BY <2>3, <2>4, <2>5 DEF OutboundInv, OutboundIssued
<1>6. GuardInv'
  <2>1. [o \in Node |-> 0] \in Marks
    BY DEF Marks
  <2>2. highSeq' \in [Node -> Marks] /\ seq' \in [Node -> Nat]
    BY <1>0, <1>1, <2>1 DEF GuardInv
  <2> QED  BY <1>0, <1>1, <2>2, SyncAssumption DEF GuardInv
<1>7. LoadInv'
  BY <1>1, LoadShrinks
<1>8. IsFiniteSet({}) /\ net' \subseteq net \cup {} /\ tasks' \subseteq tasks \cup {}
  BY <1>1, FS_EmptySet
<1> QED  BY <1>2, <1>4, <1>5, <1>6, <1>7, <1>8, NetworkStep

LEMMA RunOutboundStep ==
  ASSUME Inv, NEW n \in Node, RunOutbound(n)
  PROVE  Inv'
<1> DEFINE d == Head(outbound[n])
           body == [seq |-> seq[n] + 1, delta |-> d]
           h == Record(history[n], d, Capacity[n])
<1>0. /\ ManagerInv /\ OutboundInv /\ HistoryInv /\ GuardInv /\ LoadInv
  BY InvParts
<1>1. PICK P \in SamplePeers(n) : Send({Message("StateDelta", n, p, body) : p \in P})
  BY DEF RunOutbound
<1> DEFINE msgs == {Message("StateDelta", n, p, body) : p \in P}
<1>2. /\ outbound[n] # <<>> /\ outbound[n] \in Seq(Delta) /\ Len(outbound[n]) <= QueueSize
      /\ outbound' = [outbound EXCEPT ![n] = Tail(outbound[n])]
      /\ history' = [history EXCEPT ![n] = h]
      /\ seq' = [seq EXCEPT ![n] = seq[n] + 1]
      /\ UNCHANGED <<manager, highSeq, healed, issued, restarts>>
  BY <1>0 DEF RunOutbound, OutboundInv, HistoryInv, GuardInv
<1>3. /\ d \in Delta /\ Tail(outbound[n]) \in Seq(Delta)
      /\ Len(outbound[n]) \in Nat /\ Len(Tail(outbound[n])) = Len(outbound[n]) - 1
      /\ \A i \in 1..Len(Tail(outbound[n])) : Tail(outbound[n])[i] = outbound[n][i + 1]
      /\ d = outbound[n][1] /\ 1 \in 1..Len(outbound[n])
  BY <1>2, HeadTailProperties, LenProperties
<1>4. d \in issued /\ Covers(mem[n], d.frag)
  BY <1>0, <1>3 DEF OutboundInv, OutboundIssued
<1>5. Grown /\ ManagerInv'
  BY <1>0, <1>2, ManagerUnchanged
<1>6. Serves(n, h)
  <2>1. Serves(n, history[n])
    BY <1>0, HistoryIs DEF HistoryInv
  <2> QED  BY <1>0, <1>4, <2>1, ServesRecord
<1>7. HistoryInv'
  <2> HIDE DEF h
  <2> QED  BY <1>0, <1>2, <1>5, <1>6, HistorySteps
<1>8. OutboundInv'
  <2>1. outbound \in [Node -> Seq(Delta)] /\ \A p \in Node : Len(outbound[p]) <= QueueSize
    BY <1>0 DEF OutboundInv
  <2>2. /\ outbound' \in [Node -> Seq(Delta)]
        /\ \A p \in Node : outbound'[p] = IF p = n THEN Tail(outbound[n]) ELSE outbound[p]
    BY <1>2, <1>3, <2>1
  <2>3. \A p \in Node : Len(outbound'[p]) <= QueueSize
    BY <1>3, <2>1, <2>2, SyncAssumption
  <2>4. ASSUME NEW p \in Node, NEW i \in 1..Len(outbound'[p])
        PROVE  outbound'[p][i] \in issued' /\ Covers(mem'[p], outbound'[p][i].frag)
    <3>1. UNCHANGED <<mem, issued>>
      BY <1>2 DEF manager
    <3>2. CASE p = n
      <4> DEFINE rest == Tail(outbound[n])
      <4>1. /\ outbound'[p] = rest /\ Len(rest) = Len(outbound[n]) - 1
            /\ \A j \in 1..Len(rest) : rest[j] = outbound[n][j + 1]
        BY <1>3, <2>2, <3>2
      <4> HIDE DEF rest
      <4>2. i \in 1..Len(rest) /\ outbound'[p][i] = rest[i]
        BY <4>1
      <4>3. i + 1 \in 1..Len(outbound[n]) /\ outbound'[p][i] = outbound[n][i + 1]
        BY <1>3, <4>1, <4>2
      <4> QED  BY <1>0, <3>1, <3>2, <4>3 DEF OutboundInv, OutboundIssued
    <3>3. CASE p # n
      BY <1>0, <2>2, <3>1, <3>3 DEF OutboundInv, OutboundIssued
    <3> QED  BY <3>2, <3>3
  <2> QED  BY <2>2, <2>3, <2>4 DEF OutboundInv, OutboundIssued
<1>9. GuardInv'
  BY <1>0, <1>2 DEF GuardInv
<1>10. /\ P \in SUBSET Node /\ IsFiniteSet(msgs)
  BY Peers, ToPeers
<1>11. \A m \in msgs : m \in InFlight /\ m.type = "StateDelta" /\ m.body.delta = d
  <2>1. body \in [seq : Nat, delta : Delta] /\ body.delta = d
    BY <1>0, <1>3 DEF GuardInv
  <2> HIDE DEF body
  <2>2. \A p \in P : Message("StateDelta", n, p, body) \in DeltaEnvelope
    BY <1>10, <2>1 DEF Message, DeltaEnvelope, Envelope
  <2> QED  BY <2>1, <2>2 DEF Message, InFlight
<1>12. net' = net \cup msgs /\ tasks' = tasks /\ LoadInv'
  BY <1>1 DEF Send, Fits, LoadInv
<1> HIDE DEF msgs, d, h
<1>13. \A m \in msgs : MessageGenuine(m)'
  BY <1>2, <1>4, <1>11 DEF MessageGenuine
<1>14. IsFiniteSet({}) /\ tasks' \subseteq tasks \cup {}
  BY <1>12, FS_EmptySet
<1> QED  BY <1>5, <1>7, <1>8, <1>9, <1>10, <1>11, <1>12, <1>13, <1>14, NetworkStep

LEMMA BroadcastDigestStep ==
  ASSUME Inv, NEW n \in Node, BroadcastDigest(n)
  PROVE  Inv'
<1>0. /\ ManagerInv /\ HistoryInv
  BY InvParts
<1>1. PICK P \in SamplePeers(n) : Send(DigestTo(n, history[n], P))
  BY DEF BroadcastDigest
<1>2. UNCHANGED <<manager, outbound, history, highSeq, seq, healed, issued, restarts>>
  BY DEF BroadcastDigest
<1>3. Grown /\ ManagerInv'
  BY <1>0, <1>2, ManagerUnchanged
<1>4. /\ DigestTo(n, history[n], P) \in SUBSET InFlight
      /\ IsFiniteSet(DigestTo(n, history[n], P))
      /\ \A m \in DigestTo(n, history[n], P) : MessageGenuine(m)'
  BY <1>0, DigestsSent DEF HistoryInv
<1>5. net' \subseteq net \cup DigestTo(n, history[n], P) /\ tasks' \subseteq tasks \cup {} /\ Fits
      /\ IsFiniteSet({})
  BY <1>1, FS_EmptySet DEF Send
<1> QED  BY <1>2, <1>3, <1>4, <1>5, HandlerStep

\* Losing a message, and the end of losing.
LEMMA LoseStep ==
  ASSUME Inv, (\E m \in net : Lose(m)) \/ Heal
  PROVE  Inv'
<1>0. /\ ManagerInv /\ OutboundInv /\ HistoryInv /\ GuardInv /\ LoadInv
  BY InvParts
<1>1. /\ UNCHANGED <<manager, outbound, history, highSeq, seq, tasks, issued, restarts>>
      /\ net' \subseteq net /\ healed' \in BOOLEAN
  BY <1>0 DEF Lose, Heal, GuardInv
<1>2. Grown /\ ManagerInv'
  BY <1>0, <1>1, ManagerUnchanged
<1>3. OutboundInv' /\ HistoryInv'
  BY <1>0, <1>1, <1>2, OutboundKeeps, HistoryKeeps
<1>4. GuardInv' /\ LoadInv'
  BY <1>0, <1>1, LoadShrinks DEF GuardInv
<1>5. IsFiniteSet({}) /\ net' \subseteq net \cup {} /\ tasks' \subseteq tasks \cup {}
  BY <1>1, FS_EmptySet
<1> QED  BY <1>2, <1>3, <1>4, <1>5, NetworkStep

-----------------------------------------------------------------------------
(* Handlers *)

LEMMA Fields ==
  ASSUME NEW m \in InFlight
  PROVE  /\ m.from \in Node /\ m.to \in Node
         /\ m.type = "StateDelta" => /\ m \in DeltaEnvelope
                                     /\ m.body.seq \in Nat /\ m.body.delta \in Delta
         /\ m.type = "StateDigest" => m.body \in DigestBody
         /\ m.type = "DeltaRangeReq" => /\ m.body.ranges \in SUBSET DeltaRange
                                        /\ m.body.known \in DigestBody
         /\ m.type = "DeltaRangeResp" => m.body \in SUBSET Delta
         /\ m.type = "SnapshotReq" => m.body \in SUBSET Aggregate
         /\ m.type = "SnapshotResp" => /\ m.body.frag \in Content /\ m.body.ver \in Versions
                                       /\ m.body.marks \in Marks
<1>1. CASE m \in DeltaEnvelope
  BY <1>1 DEF DeltaEnvelope, Envelope
<1>2. CASE m \in Envelope("StateDigest", DigestBody)
  BY <1>2 DEF Envelope
<1>3. CASE m \in Envelope("DeltaRangeReq", [ranges : SUBSET DeltaRange, known : DigestBody])
  BY <1>3 DEF Envelope
<1>4. CASE m \in Envelope("DeltaRangeResp", SUBSET Delta)
  BY <1>4 DEF Envelope
<1>5. CASE m \in Envelope("SnapshotReq", SUBSET Aggregate)
  BY <1>5 DEF Envelope
<1>6. CASE m \in Envelope("SnapshotResp", [frag : Content, ver : Versions, marks : Marks])
  BY <1>6 DEF Envelope
<1> QED  BY <1>1, <1>2, <1>3, <1>4, <1>5, <1>6 DEF InFlight

LEMMA TaskFields ==
  ASSUME NEW t \in DeltaTask \cup SnapshotTask \cup StampTask \cup MarksTask
  PROVE  /\ t.at \in Node
         /\ t.step \in {"merge", "record"} => t \in DeltaTask
         /\ t.step = "snapshot" => t \in SnapshotTask
         /\ t.step = "stamp" => t \in StampTask
         /\ t.step = "marks" => t \in MarksTask
BY DEF DeltaTask, SnapshotTask, StampTask, MarksTask

\* A handler never adds more than it says.
LEMMA Delivered ==
  ASSUME NEW m, NEW msgs, NEW more, Deliver(m, msgs, more) \/ Proceed(m, msgs, more)
  PROVE  net' \subseteq net \cup msgs /\ tasks' \subseteq tasks \cup more /\ Fits
BY DEF Deliver, Proceed

\* The delta a range is continued with.
LEMMA FirstIn ==
  ASSUME NEW D \in SUBSET Delta, IsFiniteSet(D), D # {}
  PROVE  First(D) \in D
<1> DEFINE Before(x, d) == x.origin < d.origin \/ (x.origin = d.origin /\ x.seq < d.seq)
           Count(d) == Cardinality({x \in D : Before(x, d)})
           N == {k \in Nat : \E d \in D : Count(d) = k}
           T == {k \in Nat : \A j \in N : j >= k}
<1>0. \A d \in D : d.origin \in Int /\ d.seq \in Nat
  BY OrderAssumption DEF Delta
<1>1. \A d \in D : IsFiniteSet({x \in D : Before(x, d)}) /\ Count(d) \in Nat
  <2> SUFFICES ASSUME NEW d \in D
               PROVE  IsFiniteSet({x \in D : Before(x, d)}) /\ Count(d) \in Nat
    OBVIOUS
  <2>1. {x \in D : Before(x, d)} \in SUBSET D
    OBVIOUS
  <2>2. IsFiniteSet({x \in D : Before(x, d)})
    BY <2>1, FS_Subset
  <2> QED  BY <2>2, FS_CardinalityType
<1>2. \E d \in D : \A e \in D : Count(d) <= Count(e)
  <2> SUFFICES ASSUME \A d \in D : \E e \in D : ~(Count(d) <= Count(e)) PROVE FALSE
    OBVIOUS
  <2> HIDE DEF Count
  <2>1. 0 \in T
    OBVIOUS
  <2>2. ASSUME NEW k \in Nat, k \in T PROVE k + 1 \in T
    <3> SUFFICES ASSUME NEW j \in N PROVE j >= k + 1
      OBVIOUS
    <3>1. j \in Nat /\ j >= k
      BY <2>2
    <3>2. ASSUME j = k PROVE FALSE
      <4>1. PICK d \in D : Count(d) = k
        BY <3>2
      <4>2. PICK e \in D : ~(Count(d) <= Count(e))
        OBVIOUS
      <4>3. Count(e) \in N /\ Count(e) \in Nat
        BY <1>1
      <4>4. Count(e) >= k
        BY <2>2, <4>3
      <4> QED  BY <4>1, <4>2, <4>3, <4>4
    <3> QED  BY <3>1, <3>2
  <2> HIDE DEF T
  <2>3. \A k \in Nat : k \in T
    BY <2>1, <2>2, SetInduction
  <2>4. PICK d \in D : TRUE
    OBVIOUS
  <2>5. Count(d) \in N /\ Count(d) \in Nat
    BY <1>1
  <2>6. Count(d) + 1 \in T
    BY <2>3, <2>5
  <2>7. Count(d) >= Count(d) + 1
    BY <2>5, <2>6 DEF T
  <2> QED  BY <2>5, <2>7
<1>3. PICK d \in D : \A e \in D : Count(d) <= Count(e)
  BY <1>2
<1>4. ASSUME NEW e \in D PROVE ~Before(e, d)
  <2> SUFFICES ASSUME Before(e, d) PROVE FALSE
    OBVIOUS
  <2> DEFINE A == {x \in D : Before(x, e)}
             B == {x \in D : Before(x, d)}
  <2>1. A \subseteq B /\ e \in B /\ e \notin A
    BY <1>0
  <2>2. IsFiniteSet(B) /\ IsFiniteSet(A) /\ Cardinality(A) = Count(e) /\ Cardinality(B) = Count(d)
        /\ Count(e) \in Nat /\ Count(d) \in Nat
    BY <1>1
  <2>3. Count(d) <= Count(e)
    BY <1>3
  <2> HIDE DEF A, B, Count
  <2>4. Cardinality(A) <= Cardinality(B) /\ Cardinality(A) # Cardinality(B)
    BY <2>1, <2>2, FS_Subset
  <2> QED  BY <2>2, <2>3, <2>4
<1>5. \A e \in D : d.origin < e.origin \/ (d.origin = e.origin /\ d.seq <= e.seq)
  BY <1>0, <1>4
<1> HIDE DEF Before, Count, N, T
<1> QED  BY <1>5 DEF First

\* What a handler of deltas goes on with: deltas that were issued.
LEMMA MergeTaskFacts ==
  ASSUME ManagerInv, UNCHANGED issued, NEW n \in Node,
         NEW D \in SUBSET issued, D # {}, NEW digest \in BOOLEAN,
         NEW forward \in SUBSET DeltaEnvelope, IsFiniteSet(forward),
         \A m \in forward : m.body.delta \in issued,
         NEW t, t = MergeTask(n, D, digest, forward)
  PROVE  t \in DeltaTask /\ TaskGenuine(t)'
<1>1. D \in SUBSET Delta /\ IsFiniteSet(D)
  BY FS_Subset DEF ManagerInv, IssuedOnce
<1>2. First(D) \in D
  BY <1>1, FirstIn
<1>3. t = [step |-> "merge", at |-> n, delta |-> First(D), rest |-> D \ {First(D)},
           digest |-> digest, forward |-> forward]
  BY DEF MergeTask
<1>4. t \in DeltaTask
  BY <1>1, <1>2, <1>3 DEF DeltaTask
<1>5. TaskGenuine(t)'
  BY <1>2, <1>3 DEF TaskGenuine
<1> QED  BY <1>4, <1>5

LEMMA HandleStateDeltaStep ==
  ASSUME Inv, NEW m \in net, HandleStateDelta(m)
  PROVE  Inv'
<1> DEFINE n == m.to
<1>0. ManagerInv /\ OutboundInv /\ HistoryInv /\ GuardInv /\ NetInv
  BY InvParts
<1>1. /\ m.type = "StateDelta" /\ n \in Node /\ m.from \in Node /\ m.body.seq \in Nat
      /\ m \in DeltaEnvelope /\ m.body.delta \in issued
      /\ UNCHANGED <<manager, outbound, history, seq, healed, issued, restarts>>
  BY <1>0, Fields DEF HandleStateDelta, NetInv, MessageGenuine
<1>2. Grown /\ ManagerInv'
  BY <1>0, <1>1, ManagerUnchanged
<1>3. CASE Deliver(m, {}, {}) /\ UNCHANGED highSeq
  <2>1. net' \subseteq net \cup {} /\ tasks' \subseteq tasks \cup {} /\ Fits /\ IsFiniteSet({})
    BY <1>3, Delivered, FS_EmptySet
  <2> QED  BY <1>1, <1>2, <1>3, <2>1, HandlerStep
<1>4. CASE /\ highSeq' = [highSeq EXCEPT ![n][m.from] = m.body.seq]
           /\ Deliver(m, {}, {MergeTask(n, {m.body.delta}, FALSE, {m})})
  <2> PICK t : t = MergeTask(n, {m.body.delta}, FALSE, {m})
    OBVIOUS
  <2>1. t \in DeltaTask /\ TaskGenuine(t)'
    <3>1. /\ {m.body.delta} \in SUBSET issued /\ {m.body.delta} # {}
          /\ {m} \in SUBSET DeltaEnvelope /\ IsFiniteSet({m})
          /\ \A e \in {m} : e.body.delta \in issued
      BY <1>1, FS_Singleton
    <3> QED  BY <1>0, <1>1, <3>1, MergeTaskFacts
  <2>2. net' \subseteq net \cup {} /\ tasks' \subseteq tasks \cup {t} /\ Fits
        /\ IsFiniteSet({}) /\ IsFiniteSet({t})
    BY <1>4, Delivered, FS_EmptySet, FS_Singleton
  <2>3. GuardInv'
    <3>1. highSeq[n] \in [Node -> Nat]
      BY <1>0, <1>1 DEF GuardInv, Marks
    <3>2. [highSeq[n] EXCEPT ![m.from] = m.body.seq] \in Marks
      BY <1>1, <3>1 DEF Marks
    <3>3. highSeq' = [highSeq EXCEPT ![n] = [highSeq[n] EXCEPT ![m.from] = m.body.seq]]
      BY <1>0, <1>1, <1>4 DEF GuardInv
    <3> QED  BY <1>0, <1>1, <3>2, <3>3 DEF GuardInv
  <2>4. OutboundInv' /\ HistoryInv' /\ LoadInv'
    BY <1>0, <1>1, <1>2, <2>2, OutboundKeeps, HistoryKeeps DEF Fits, LoadInv
  <2> QED  BY <1>2, <2>1, <2>2, <2>3, <2>4, NetworkStep
<1> HIDE DEF n
<1> QED  BY <1>3, <1>4 DEF HandleStateDelta, n

LEMMA HandleDeltaRangeRespStep ==
  ASSUME Inv, NEW m \in net, HandleDeltaRangeResp(m)
  PROVE  Inv'
<1>0. ManagerInv /\ NetInv
  BY InvParts
<1>1. /\ m.to \in Node /\ m.body # {} /\ m.body \subseteq issued
      /\ Deliver(m, {}, {MergeTask(m.to, m.body, TRUE, {})})
      /\ UNCHANGED <<manager, outbound, history, highSeq, seq, healed, issued, restarts>>
  BY <1>0, Fields DEF HandleDeltaRangeResp, NetInv, MessageGenuine
<1> PICK t : t = MergeTask(m.to, m.body, TRUE, {})
  OBVIOUS
<1>2. t \in DeltaTask /\ TaskGenuine(t)'
  BY <1>0, <1>1, FS_EmptySet, MergeTaskFacts
<1>3. Grown /\ ManagerInv'
  BY <1>0, <1>1, ManagerUnchanged
<1>4. net' \subseteq net \cup {} /\ tasks' \subseteq tasks \cup {t} /\ Fits
      /\ IsFiniteSet({}) /\ IsFiniteSet({t})
  BY <1>1, Delivered, FS_EmptySet, FS_Singleton
<1> QED  BY <1>1, <1>2, <1>3, <1>4, HandlerStep

\* What a task of deltas carries was issued.
LEMMA DeltaTaskFacts ==
  ASSUME TaskInv, NEW t \in tasks, t.step \in {"merge", "record"}
  PROVE  /\ t \in DeltaTask /\ t.at \in Node /\ t.digest \in BOOLEAN
         /\ t.delta \in issued /\ t.rest \in SUBSET issued
         /\ t.forward \in SUBSET DeltaEnvelope /\ IsFiniteSet(t.forward)
         /\ \A m \in t.forward : m.body.delta \in issued
         /\ t.step = "record" => Covers(mem[t.at], t.delta.frag)
<1>1. t \in DeltaTask /\ TaskGenuine(t)
  BY TaskFields DEF TaskInv
<1> QED  BY <1>1 DEF TaskGenuine, DeltaTask

\* A delta is recorded once it is merged, and forwarded only if it was news; one
\* the journal refuses leaves the node as it was.
LEMMA MergeDeltaStep ==
  ASSUME Inv, NEW t \in tasks, MergeDelta(t)
  PROVE  Inv'
<1>0. ManagerInv /\ TaskInv
  BY InvParts
<1>1. t.step = "merge"
      /\ UNCHANGED <<outbound, history, highSeq, seq, healed, issued, restarts>>
  BY DEF MergeDelta
<1>2. /\ t \in DeltaTask /\ t.at \in Node /\ t.delta \in issued /\ t.rest \in SUBSET issued
      /\ t.forward \in SUBSET DeltaEnvelope /\ IsFiniteSet(t.forward)
      /\ \A m \in t.forward : m.body.delta \in issued
  BY <1>0, <1>1, DeltaTaskFacts
<1> PICK news : news = (MergeContent(mem[t.at], t.delta.frag) # mem[t.at])
  OBVIOUS
<1> PICK forward : forward = IF news THEN t.forward ELSE {}
  OBVIOUS
<1> PICK u : u = [t EXCEPT !.step = "record", !.forward = forward]
  OBVIOUS
<1>3. CASE ApplyDelta(t.at, t.delta) /\ Proceed(t, {}, {u})
  <2>1. Grown /\ ManagerInv' /\ Covers(mem'[t.at], t.delta.frag)
    BY <1>0, <1>1, <1>2, <1>3, ApplyDeltaManager
  <2>2. forward \in SUBSET DeltaEnvelope /\ IsFiniteSet(forward)
        /\ \A m \in forward : m.body.delta \in issued
    BY <1>2, FS_EmptySet
  <2>3. /\ u \in DeltaTask /\ u.step = "record" /\ u.at = t.at /\ u.delta = t.delta
        /\ u.rest = t.rest /\ u.forward = forward
    BY <1>2, <2>2 DEF DeltaTask
  <2>4. TaskGenuine(u)'
    BY <1>1, <1>2, <2>1, <2>2, <2>3 DEF TaskGenuine
  <2>5. net' \subseteq net \cup {} /\ tasks' \subseteq tasks \cup {u} /\ Fits
        /\ IsFiniteSet({}) /\ IsFiniteSet({u})
    BY <1>3, Delivered, FS_EmptySet, FS_Singleton
  <2> QED  BY <1>1, <2>1, <2>3, <2>4, <2>5, HandlerStep
<1>4. CASE Proceed(t, {}, {}) /\ UNCHANGED manager
  <2>1. Grown /\ ManagerInv'
    BY <1>0, <1>1, <1>4, ManagerUnchanged
  <2>2. net' \subseteq net \cup {} /\ tasks' \subseteq tasks \cup {} /\ Fits /\ IsFiniteSet({})
    BY <1>4, Delivered, FS_EmptySet
  <2> QED  BY <1>1, <2>1, <2>2, HandlerStep
<1>5. \/ ApplyDelta(t.at, t.delta)
         /\ Proceed(t, {}, {[t EXCEPT !.step = "record",
                                       !.forward = IF news THEN @ ELSE {}]})
      \/ Proceed(t, {}, {}) /\ UNCHANGED manager
  BY DEF MergeDelta
<1>6. u = [t EXCEPT !.step = "record", !.forward = IF news THEN @ ELSE {}]
  BY <1>2 DEF DeltaTask
<1> QED  BY <1>3, <1>4, <1>5, <1>6

\* A delta that was news is sent on.
LEMMA Forwarded ==
  ASSUME NEW F \in SUBSET DeltaEnvelope, IsFiniteSet(F),
         \A m \in F : m.body.delta \in issued,
         NEW P \in SUBSET Node, IsFiniteSet(P), UNCHANGED issued
  PROVE  /\ Forward(F, P) \in SUBSET InFlight /\ IsFiniteSet(Forward(F, P))
         /\ \A m \in Forward(F, P) : MessageGenuine(m)'
<1>1. ASSUME NEW c \in Forward(F, P)
      PROVE  /\ c \in DeltaEnvelope /\ c.type = "StateDelta" /\ c.body.delta \in issued
             /\ \E x \in F \X P : c = [x[1] EXCEPT !.to = x[2]]
  <2>1. PICK m \in F, p \in P : c = [m EXCEPT !.to = p]
    BY DEF Forward
  <2>2. m \in DeltaEnvelope /\ m.body.delta \in issued /\ p \in Node
    OBVIOUS
  <2>3. c \in DeltaEnvelope /\ c.type = "StateDelta" /\ c.body.delta \in issued
    BY <2>1, <2>2 DEF DeltaEnvelope, Envelope
  <2>4. \E x \in F \X P : c = [x[1] EXCEPT !.to = x[2]]
    <3>1. c = [<<m, p>>[1] EXCEPT !.to = <<m, p>>[2]]
      BY <2>1
    <3>2. <<m, p>> \in F \X P
      OBVIOUS
    <3> WITNESS <<m, p>> \in F \X P
    <3> QED  BY <3>1
  <2> QED  BY <2>3, <2>4
<1>2. IsFiniteSet(Forward(F, P))
  <2> DEFINE S == F \X P
             f == [x \in S |-> [x[1] EXCEPT !.to = x[2]]]
  <2>1. IsFiniteSet(S) /\ DOMAIN f = S
    BY FS_Product
  <2>2. \A c \in Forward(F, P) : \E x \in S : f[x] = c
    BY <1>1
  <2> HIDE DEF S, f
  <2>3. IsFiniteSet({f[x] : x \in S})
    BY <2>1, ImageFinite
  <2>4. Forward(F, P) \subseteq {f[x] : x \in S}
    BY <2>2
  <2> QED  BY <2>3, <2>4, FS_Subset
<1>3. \A c \in Forward(F, P) : c \in InFlight /\ MessageGenuine(c)'
  BY <1>1 DEF InFlight, MessageGenuine
<1> QED  BY <1>2, <1>3

LEMMA RecordDeltaStep ==
  ASSUME Inv, NEW t \in tasks, RecordDelta(t)
  PROVE  Inv'
<1>0. ManagerInv /\ OutboundInv /\ HistoryInv /\ TaskInv /\ GuardInv
  BY InvParts
<1>1. t.step = "record" /\ UNCHANGED <<manager, outbound, highSeq, seq, healed, issued, restarts>>
  BY DEF RecordDelta
<1>2. /\ t \in DeltaTask /\ t.at \in Node /\ t.digest \in BOOLEAN
      /\ t.delta \in issued /\ Covers(mem[t.at], t.delta.frag) /\ t.rest \in SUBSET issued
      /\ IsFiniteSet(t.forward) /\ t.forward \in SUBSET DeltaEnvelope
      /\ \A m \in t.forward : m.body.delta \in issued
  BY <1>0, <1>1, DeltaTaskFacts
<1> PICK h : h = Record(history[t.at], t.delta, Capacity[t.at])
  OBVIOUS
<1>3. history' = [history EXCEPT ![t.at] = h]
  BY DEF RecordDelta
<1>4. Serves(t.at, h) /\ h \in History
  <2>1. Serves(t.at, history[t.at])
    BY <1>0, <1>2, HistoryIs DEF HistoryInv
  <2>2. Serves(t.at, h)
    BY <1>0, <1>2, <2>1, ServesRecord
  <2> QED  BY <2>2 DEF Serves
<1>5. Grown /\ ManagerInv'
  BY <1>0, <1>1, ManagerUnchanged
<1>6. HistoryInv'
  BY <1>0, <1>1, <1>2, <1>3, <1>4, <1>5, HistorySteps
<1>7. ASSUME Fits, NEW msgs \in SUBSET InFlight, IsFiniteSet(msgs),
             \A m \in msgs : MessageGenuine(m)',
             NEW more \in SUBSET DeltaTask, IsFiniteSet(more),
             \A x \in more : TaskGenuine(x)',
             net' \subseteq net \cup msgs, tasks' \subseteq tasks \cup more
      PROVE  Inv'
  <2>1. OutboundInv' /\ GuardInv' /\ LoadInv'
    BY <1>0, <1>1, <1>5, <1>7, OutboundKeeps DEF GuardInv, LoadInv, Fits
  <2> QED  BY <1>5, <1>6, <1>7, <2>1, NetworkStep
<1>8. CASE t.rest # {}
  <2> PICK u : u = MergeTask(t.at, t.rest, t.digest, t.forward)
    OBVIOUS
  <2>1. Proceed(t, {}, {u})
    BY <1>8 DEF RecordDelta
  <2>2. u \in DeltaTask /\ TaskGenuine(u)'
    BY <1>0, <1>1, <1>2, <1>8, MergeTaskFacts
  <2>3. net' \subseteq net \cup {} /\ tasks' \subseteq tasks \cup {u} /\ Fits
        /\ IsFiniteSet({}) /\ IsFiniteSet({u})
    BY <2>1, Delivered, FS_EmptySet, FS_Singleton
  <2> QED  BY <1>7, <2>2, <2>3
<1>9. CASE t.rest = {}
  <2>1. PICK P \in SamplePeers(t.at) :
          Proceed(t, IF t.digest THEN DigestTo(t.at, h, P) ELSE Forward(t.forward, P), {})
    BY <1>9 DEF RecordDelta
  <2> PICK msgs : msgs = IF t.digest THEN DigestTo(t.at, h, P) ELSE Forward(t.forward, P)
    OBVIOUS
  <2>2. P \in SUBSET Node /\ IsFiniteSet(P)
    BY <1>2, Peers
  <2>3. /\ DigestTo(t.at, h, P) \in SUBSET InFlight /\ IsFiniteSet(DigestTo(t.at, h, P))
        /\ \A m \in DigestTo(t.at, h, P) : MessageGenuine(m)'
    BY <1>0, <1>2, <1>4, DigestsSent
  <2>4. /\ Forward(t.forward, P) \in SUBSET InFlight /\ IsFiniteSet(Forward(t.forward, P))
        /\ \A m \in Forward(t.forward, P) : MessageGenuine(m)'
    BY <1>1, <1>2, <2>2, Forwarded
  <2>5. /\ msgs \in SUBSET InFlight /\ IsFiniteSet(msgs)
        /\ \A m \in msgs : MessageGenuine(m)'
    BY <2>3, <2>4
  <2>6. net' \subseteq net \cup msgs /\ tasks' \subseteq tasks \cup {} /\ Fits /\ IsFiniteSet({})
    BY <2>1, Delivered, FS_EmptySet
  <2> QED  BY <1>7, <2>5, <2>6
<1> QED  BY <1>8, <1>9

\* A handler that only reads: it answers with at most one message.
LEMMA ReaderStep ==
  ASSUME Inv,
         UNCHANGED <<manager, outbound, history, highSeq, seq, healed, issued, restarts>>,
         NEW msgs \in SUBSET InFlight, IsFiniteSet(msgs),
         \A m \in msgs : MessageGenuine(m)',
         NEW more \in SUBSET (DeltaTask \cup SnapshotTask \cup StampTask \cup MarksTask),
         IsFiniteSet(more), \A t \in more : TaskGenuine(t)',
         NEW x, Deliver(x, msgs, more) \/ Proceed(x, msgs, more)
  PROVE  Inv'
<1>1. Grown /\ ManagerInv'
  BY InvParts, ManagerUnchanged
<1>2. net' \subseteq net \cup msgs /\ tasks' \subseteq tasks \cup more /\ Fits
  BY Delivered
<1> QED  BY <1>1, <1>2, HandlerStep

\* What is asked for is never empty and never ends before it starts.
LEMMA MissingRanges ==
  ASSUME NEW local \in DigestBody, NEW peer \in DigestBody
  PROVE  /\ MissingDeltaRanges(local, peer) \in SUBSET DeltaRange
         /\ \A r \in MissingDeltaRanges(local, peer) : r.from <= r.to
<1> DEFINE Last(o) == IF peer.marks[o] > local.marks[o] + MaxRange
                      THEN local.marks[o] + MaxRange ELSE peer.marks[o]
           Asked(o) == [origin |-> o, from |-> local.marks[o] + 1, to |-> Last(o)]
<1>1. \A o \in Node : local.marks[o] \in Nat /\ peer.marks[o] \in Nat
  BY DEF DigestBody, Marks
<1>2. ASSUME NEW o \in Node, peer.marks[o] > local.marks[o]
      PROVE  Asked(o) \in DeltaRange /\ Asked(o).from <= Asked(o).to
  <2>1. local.marks[o] + 1 \in Nat \ {0} /\ Last(o) \in Nat /\ local.marks[o] + 1 <= Last(o)
    BY <1>1, <1>2, RangeAssumption
  <2> HIDE DEF Last
  <2> QED  BY <2>1 DEF DeltaRange
<1>3. \A r \in MissingDeltaRanges(local, peer) :
        \E o \in Node : peer.marks[o] > local.marks[o] /\ r = Asked(o)
  BY DEF MissingDeltaRanges
<1> HIDE DEF Asked
<1> QED  BY <1>2, <1>3

LEMMA HandleStateDigestStep ==
  ASSUME Inv, NEW m \in net, HandleStateDigest(m)
  PROVE  Inv'
<1>0. ManagerInv /\ HistoryInv /\ NetInv
  BY InvParts
<1>1. /\ m.to \in Node /\ m.from \in Node /\ m.body \in DigestBody
      /\ UNCHANGED <<manager, outbound, history, highSeq, seq, healed, issued, restarts>>
  BY <1>0, Fields DEF HandleStateDigest, NetInv
<1> PICK local : local = Digest(m.to, history[m.to])
  OBVIOUS
<1> PICK ranges : ranges = MissingDeltaRanges(local, m.body)
  OBVIOUS
<1> PICK want : want = AggregatesNeedingSnapshot(local, m.body)
  OBVIOUS
<1> PICK ask : ask = Message("DeltaRangeReq", m.to, m.from, [ranges |-> ranges, known |-> local])
  OBVIOUS
<1> PICK pull : pull = Message("SnapshotReq", m.to, m.from, want)
  OBVIOUS
<1> PICK msgs : msgs = IF ranges # {} THEN {ask} ELSE IF want # {} THEN {pull} ELSE {}
  OBVIOUS
<1>2. Deliver(m, msgs, {})
  BY DEF HandleStateDigest
<1>3. local \in DigestBody
  BY <1>0, <1>1, DigestType DEF HistoryInv
<1>4. ranges \in SUBSET DeltaRange /\ \A r \in ranges : r.from <= r.to
  BY <1>1, <1>3, MissingRanges
<1>5. want \in SUBSET Aggregate
  BY DEF AggregatesNeedingSnapshot
<1>6. /\ ask \in InFlight /\ ask.type = "DeltaRangeReq" /\ ask.body.ranges = ranges
      /\ pull \in InFlight /\ pull.type = "SnapshotReq"
  <2>1. ask \in Envelope("DeltaRangeReq", [ranges : SUBSET DeltaRange, known : DigestBody])
    BY <1>1, <1>3, <1>4 DEF Message, Envelope
  <2>2. pull \in Envelope("SnapshotReq", SUBSET Aggregate)
    BY <1>1, <1>5 DEF Message, Envelope
  <2> QED  BY <2>1, <2>2 DEF InFlight, Message
<1>7. /\ ranges # {} => MessageGenuine(ask)'
      /\ MessageGenuine(pull)'
  BY <1>4, <1>6 DEF MessageGenuine
<1>8. msgs \in SUBSET InFlight /\ IsFiniteSet(msgs) /\ \A x \in msgs : MessageGenuine(x)'
  BY <1>6, <1>7, FS_EmptySet, FS_Singleton
<1> QED  BY <1>1, <1>2, <1>8, FS_EmptySet, ReaderStep

\* A handler that reads and has one thing left to do.
LEMMA BecomesTask ==
  ASSUME Inv,
         UNCHANGED <<manager, outbound, history, highSeq, seq, healed, issued, restarts>>,
         NEW t \in DeltaTask \cup SnapshotTask \cup StampTask \cup MarksTask,
         TaskGenuine(t)',
         NEW x, Deliver(x, {}, {t}) \/ Proceed(x, {}, {t})
  PROVE  Inv'
<1>1. /\ {} \in SUBSET InFlight /\ IsFiniteSet({}) /\ IsFiniteSet({t})
      /\ {t} \in SUBSET (DeltaTask \cup SnapshotTask \cup StampTask \cup MarksTask)
      /\ \A m \in {} : MessageGenuine(m)'
      /\ \A u \in {t} : TaskGenuine(u)'
  BY FS_EmptySet, FS_Singleton
<1> QED  BY <1>1, ReaderStep

\* A request for a snapshot is a task that carries nothing yet.
LEMMA SnapshotTaskFacts ==
  ASSUME NEW n \in Node, NEW to \in Node, NEW want \in SUBSET Aggregate,
         NEW t, t = [step |-> "snapshot", at |-> n, to |-> to, want |-> want]
  PROVE  t \in SnapshotTask /\ TaskGenuine(t)'
<1>1. t \in SnapshotTask /\ t.step = "snapshot"
  BY DEF SnapshotTask
<1> QED  BY <1>1 DEF TaskGenuine

LEMMA HandleSnapshotReqStep ==
  ASSUME Inv, NEW m \in net, HandleSnapshotReq(m)
  PROVE  Inv'
<1>0. NetInv
  BY InvParts
<1>1. /\ m.to \in Node /\ m.from \in Node /\ m.body \in SUBSET Aggregate
      /\ UNCHANGED <<manager, outbound, history, highSeq, seq, healed, issued, restarts>>
  BY <1>0, Fields DEF HandleSnapshotReq, NetInv
<1> PICK t : t = [step |-> "snapshot", at |-> m.to, to |-> m.from, want |-> m.body]
  OBVIOUS
<1>2. Deliver(m, {}, {t})
  BY DEF HandleSnapshotReq
<1>3. t \in SnapshotTask /\ TaskGenuine(t)'
  BY <1>1, SnapshotTaskFacts
<1> QED  BY <1>1, <1>2, <1>3, BecomesTask

\* A range that is served has a delta, and every one was issued.
LEMMA HandleDeltaRangeReqStep ==
  ASSUME Inv, NEW m \in net, HandleDeltaRangeReq(m)
  PROVE  Inv'
<1>0. ManagerInv /\ HistoryInv /\ NetInv
  BY InvParts
<1>1. /\ m.to \in Node /\ m.from \in Node /\ m.body.ranges \in SUBSET DeltaRange
      /\ m.body.ranges # {} /\ \A r \in m.body.ranges : r.from <= r.to
      /\ UNCHANGED <<manager, outbound, history, highSeq, seq, healed, issued, restarts>>
  BY <1>0, Fields DEF HandleDeltaRangeReq, NetInv, MessageGenuine
<1> PICK h : h = history[m.to]
  OBVIOUS
<1> PICK body : body = UNION {InRange(h, r) : r \in m.body.ranges}
  OBVIOUS
<1> PICK want : want = AggregatesNeedingSnapshot(m.body.known, Digest(m.to, h))
  OBVIOUS
<1> PICK resp : resp = Message("DeltaRangeResp", m.to, m.from, body)
  OBVIOUS
<1> PICK t : t = [step |-> "snapshot", at |-> m.to, to |-> m.from,
                  want |-> IF want = {} THEN Aggregate ELSE want]
  OBVIOUS
<1>2. CASE \A r \in m.body.ranges : RangeServed(h, r)
  <2>1. Deliver(m, {resp}, {})
    BY <1>2 DEF HandleDeltaRangeReq
  <2>2. h \in History /\ IsFiniteSet(h.entries) /\ h.entries \subseteq issued
    <3>1. Serves(m.to, h)
      BY <1>0, <1>1, HistoryIs DEF HistoryInv
    <3> QED  BY <1>0, <1>1, <3>1, ServesFinite
  <2>3. \A r \in m.body.ranges : InRange(h, r) \subseteq h.entries
    BY DEF InRange, Of
  <2>4. body \subseteq issued /\ body \in SUBSET Delta
    BY <1>0, <2>2, <2>3 DEF ManagerInv
  <2>5. body # {}
    <3>1. PICK r \in m.body.ranges : TRUE
      BY <1>1
    <3>2. r.from \in Nat /\ r.to \in Nat /\ r.from <= r.to
      BY <1>1 DEF DeltaRange
    <3>3. Cardinality(InRange(h, r)) = r.to - r.from + 1
      BY <1>2 DEF RangeServed
    <3>4. InRange(h, r) # {}
      <4>1. Cardinality(InRange(h, r)) # 0
        BY <3>2, <3>3
      <4> QED  BY <4>1, FS_EmptySet
    <3> QED  BY <3>4
  <2>6. resp \in InFlight /\ resp.type = "DeltaRangeResp" /\ resp.body = body
    <3>1. resp \in Envelope("DeltaRangeResp", SUBSET Delta)
      BY <1>1, <2>4 DEF Message, Envelope
    <3> QED  BY <3>1 DEF InFlight, Message
  <2>7. MessageGenuine(resp)'
    BY <1>1, <2>4, <2>5, <2>6 DEF MessageGenuine
  <2> QED  BY <1>1, <2>1, <2>6, <2>7, FS_EmptySet, FS_Singleton, ReaderStep
<1>3. CASE ~ \A r \in m.body.ranges : RangeServed(h, r)
  <2>1. Deliver(m, {}, {t})
    BY <1>3 DEF HandleDeltaRangeReq
  <2>2. (IF want = {} THEN Aggregate ELSE want) \in SUBSET Aggregate
    BY DEF AggregatesNeedingSnapshot
  <2>3. t \in SnapshotTask /\ TaskGenuine(t)'
    BY <1>1, <2>2, SnapshotTaskFacts
  <2> QED  BY <1>1, <2>1, <2>3, BecomesTask
<1> QED  BY <1>2, <1>3

\* A snapshot holds part of what the node holds.
LEMMA SnapshotStep ==
  ASSUME Inv, NEW t \in tasks, Snapshot(t)
  PROVE  Inv'
<1>0. ManagerInv /\ TaskInv
  BY InvParts
<1>1. /\ t \in SnapshotTask /\ t.at \in Node /\ t.to \in Node /\ t.want \in SUBSET Aggregate
      /\ UNCHANGED <<manager, outbound, history, highSeq, seq, healed, issued, restarts>>
  BY <1>0, TaskFields DEF Snapshot, TaskInv, SnapshotTask
<1> PICK sums : sums = IF "SUM" \in t.want THEN mem[t.at].sum ELSE NoContrib
  OBVIOUS
<1> PICK best : best = IF "TOPK" \in t.want THEN mem[t.at].topk ELSE {}
  OBVIOUS
<1> PICK frag : frag = [sum |-> sums, topk |-> best]
  OBVIOUS
<1> PICK v : v = [g \in Aggregate |-> IF g \in t.want THEN ver[t.at][g] ELSE 0]
  OBVIOUS
<1> PICK u : u = [step |-> "stamp", at |-> t.at, to |-> t.to, own |-> deltaSeq[t.at],
                  frag |-> frag, ver |-> v]
  OBVIOUS
<1>2. Proceed(t, {}, {u})
  BY DEF Snapshot
<1>3. /\ mem[t.at] \in Content /\ Genuine(mem[t.at]) /\ deltaSeq[t.at] \in Nat
      /\ ver[t.at] \in [Aggregate -> Nat]
      /\ \A o \in Node : mem[o].sum[o] \in Nat
  BY <1>0, <1>1, SyncAssumption DEF ManagerInv, NothingInvented, Versions, Content, Contrib
<1>4. NoContrib \in Contrib /\ \A o \in Node : NoContrib[o] = 0
  BY WidthAssumption DEF NoContrib, Contrib
<1>5. sums \in Contrib /\ best \in SUBSET Candidate /\ v \in Versions
  BY <1>3, <1>4 DEF Content, Versions
<1>6. frag \in Content /\ frag.sum = sums /\ frag.topk = best
  BY <1>5 DEF Content
<1>7. Genuine(frag)
  <2>1. \A o \in Node : sums[o] <= mem[o].sum[o]
    BY <1>3, <1>4 DEF Genuine
  <2>2. best \subseteq Submitted
    BY <1>3 DEF Genuine
  <2> QED  BY <1>6, <2>1, <2>2 DEF Genuine
<1>8. u \in StampTask /\ u.step = "stamp" /\ u.frag = frag /\ u.own = deltaSeq[t.at]
      /\ u.at = t.at
  BY <1>1, <1>3, <1>5, <1>6 DEF StampTask
<1>9. TaskGenuine(u)'
  <2>1. UNCHANGED <<mem, deltaSeq, issued>>
    BY <1>1 DEF manager
  <2>2. Genuine(frag)' /\ u.own <= deltaSeq'[u.at]
    BY <1>3, <1>7, <1>8, <2>1 DEF Genuine, Submitted
  <2> QED  BY <1>8, <2>2 DEF TaskGenuine
<1> QED  BY <1>1, <1>2, <1>8, <1>9, BecomesTask

LEMMA SendSnapshotStep ==
  ASSUME Inv, NEW t \in tasks, SendSnapshot(t)
  PROVE  Inv'
<1>0. ManagerInv /\ TaskInv /\ HistoryInv
  BY InvParts
<1>1. /\ t \in StampTask /\ t.at \in Node /\ TaskGenuine(t) /\ t.step = "stamp"
      /\ UNCHANGED <<manager, outbound, history, highSeq, seq, healed, issued, restarts>>
  BY <1>0, TaskFields DEF SendSnapshot, TaskInv
<1>2. /\ t.to \in Node /\ t.own \in Nat /\ t.frag \in Content /\ t.ver \in Versions
      /\ Genuine(t.frag) /\ t.own <= deltaSeq[t.at]
  BY <1>1 DEF StampTask, TaskGenuine
<1> PICK marks : marks = Watermarks(history[t.at], t.at, t.own)
  OBVIOUS
<1> PICK body : body = [frag |-> t.frag, ver |-> t.ver, marks |-> marks]
  OBVIOUS
<1> PICK resp : resp = Message("SnapshotResp", t.at, t.to, body)
  OBVIOUS
<1>3. Proceed(t, {resp}, {})
  BY DEF SendSnapshot
<1>4. marks \in Marks /\ Reached(marks)
  <2>1. history[t.at] \in History /\ Serves(t.at, history[t.at])
    BY <1>0, <1>1, HistoryIs DEF HistoryInv
  <2>2. /\ marks \in Marks
        /\ \A o \in Node : marks[o] = IF o = t.at THEN Larger(history[t.at].contiguous[o], t.own)
                                      ELSE history[t.at].contiguous[o]
    BY <1>1, <1>2, <2>1, WatermarkFacts
  <2>3. \A o \in Node : history[t.at].contiguous[o] <= deltaSeq[o]
    BY <2>1 DEF Serves
  <2> QED  BY <1>2, <2>2, <2>3 DEF Reached, Larger
<1>5. body \in [frag : Content, ver : Versions, marks : Marks]
      /\ body.frag = t.frag /\ body.marks = marks
  BY <1>2, <1>4
<1>6. resp \in InFlight /\ resp.type = "SnapshotResp" /\ resp.body = body
  <2>1. resp \in Envelope("SnapshotResp", [frag : Content, ver : Versions, marks : Marks])
    BY <1>1, <1>2, <1>5 DEF Message, Envelope
  <2> QED  BY <2>1 DEF InFlight, Message
<1>7. MessageGenuine(resp)'
  <2>1. UNCHANGED <<mem, deltaSeq, issued>>
    BY <1>1 DEF manager
  <2>2. Genuine(resp.body.frag) /\ Reached(resp.body.marks)
    BY <1>2, <1>4, <1>5, <1>6
  <2>3. Genuine(resp.body.frag)' /\ Reached(resp.body.marks)'
    BY <2>1, <2>2 DEF Genuine, Submitted, Reached
  <2> QED  BY <1>6, <2>3 DEF MessageGenuine
<1> QED  BY <1>1, <1>3, <1>6, <1>7, FS_EmptySet, FS_Singleton, ReaderStep

LEMMA HandleSnapshotRespStep ==
  ASSUME Inv, NEW m \in net, HandleSnapshotResp(m)
  PROVE  Inv'
<1>0. ManagerInv /\ NetInv
  BY InvParts
<1>1. /\ m.to \in Node /\ m.body.frag \in Content /\ m.body.ver \in Versions
      /\ m.body.marks \in Marks /\ Genuine(m.body.frag) /\ Reached(m.body.marks)
      /\ UNCHANGED <<outbound, history, highSeq, seq, healed, issued, restarts>>
  BY <1>0, Fields DEF HandleSnapshotResp, NetInv, MessageGenuine
<1> PICK t : t = [step |-> "marks", at |-> m.to, marks |-> m.body.marks,
                  news |-> MergeContent(mem[m.to], m.body.frag) # mem[m.to]]
  OBVIOUS
<1>2. CASE Apply(m.to, m.body.frag, m.body.ver, m.body.marks[m.to]) /\ Deliver(m, {}, {t})
  <2>1. m.body.marks[m.to] \in Nat /\ m.body.marks[m.to] <= deltaSeq[m.to]
    BY <1>1 DEF Marks, Reached
  <2>2. Grown /\ ManagerInv' /\ deltaSeq' = deltaSeq
    BY <1>0, <1>1, <1>2, <2>1, ApplyManager
  <2>3. t \in MarksTask /\ t.step = "marks" /\ t.marks = m.body.marks
    BY <1>1 DEF MarksTask
  <2>4. TaskGenuine(t)'
    BY <1>1, <2>2, <2>3 DEF TaskGenuine, Reached
  <2>5. net' \subseteq net \cup {} /\ tasks' \subseteq tasks \cup {t} /\ Fits
        /\ IsFiniteSet({}) /\ IsFiniteSet({t})
    BY <1>2, Delivered, FS_EmptySet, FS_Singleton
  <2> QED  BY <1>1, <2>2, <2>3, <2>4, <2>5, HandlerStep
<1>3. CASE Deliver(m, {}, {}) /\ UNCHANGED manager
  <2>1. Grown /\ ManagerInv'
    BY <1>0, <1>1, <1>3, ManagerUnchanged
  <2>2. net' \subseteq net \cup {} /\ tasks' \subseteq tasks \cup {} /\ Fits /\ IsFiniteSet({})
    BY <1>3, Delivered, FS_EmptySet
  <2> QED  BY <1>1, <2>1, <2>2, HandlerStep
<1> QED  BY <1>2, <1>3 DEF HandleSnapshotResp

LEMMA TakeWatermarksStep ==
  ASSUME Inv, NEW t \in tasks, TakeWatermarks(t)
  PROVE  Inv'
<1>0. ManagerInv /\ OutboundInv /\ HistoryInv /\ TaskInv /\ GuardInv
  BY InvParts
<1>1. /\ t \in MarksTask /\ t.at \in Node /\ TaskGenuine(t) /\ t.step = "marks"
      /\ UNCHANGED <<manager, outbound, highSeq, seq, healed, issued, restarts>>
  BY <1>0, TaskFields DEF TakeWatermarks, TaskInv
<1>2. t.marks \in Marks /\ Reached(t.marks)
  BY <1>1 DEF MarksTask, TaskGenuine
<1> PICK h : h = AdvanceWatermarks(history[t.at], t.marks)
  OBVIOUS
<1>3. history' = [history EXCEPT ![t.at] = h]
  BY DEF TakeWatermarks
<1>4. Serves(t.at, h) /\ h \in History
  <2>1. Serves(t.at, history[t.at])
    BY <1>0, <1>1, HistoryIs DEF HistoryInv
  <2>2. Serves(t.at, h)
    BY <1>0, <1>1, <1>2, <2>1, ServesAdvance
  <2> QED  BY <2>2 DEF Serves
<1>5. PICK P \in SamplePeers(t.at) : Proceed(t, IF t.news THEN DigestTo(t.at, h, P) ELSE {}, {})
  BY DEF TakeWatermarks
<1> PICK msgs : msgs = IF t.news THEN DigestTo(t.at, h, P) ELSE {}
  OBVIOUS
<1>6. Grown /\ ManagerInv'
  BY <1>0, <1>1, ManagerUnchanged
<1>7. /\ msgs \in SUBSET InFlight /\ IsFiniteSet(msgs)
      /\ \A m \in msgs : MessageGenuine(m)'
  <2>1. /\ DigestTo(t.at, h, P) \in SUBSET InFlight /\ IsFiniteSet(DigestTo(t.at, h, P))
        /\ \A m \in DigestTo(t.at, h, P) : MessageGenuine(m)'
    BY <1>0, <1>1, <1>4, DigestsSent
  <2> QED  BY <2>1, FS_EmptySet
<1>8. net' \subseteq net \cup msgs /\ tasks' \subseteq tasks \cup {} /\ Fits /\ IsFiniteSet({})
  BY <1>5, Delivered, FS_EmptySet
<1>9. HistoryInv'
  BY <1>0, <1>1, <1>3, <1>4, <1>6, HistorySteps
<1>10. OutboundInv' /\ GuardInv' /\ LoadInv'
  BY <1>0, <1>1, <1>6, <1>8, OutboundKeeps DEF GuardInv, LoadInv, Fits
<1> QED  BY <1>6, <1>7, <1>8, <1>9, <1>10, NetworkStep

-----------------------------------------------------------------------------
(* The invariant of the specification *)

LEMMA InvInit == Init => Inv
<1> SUFFICES ASSUME Init PROVE Inv
  OBVIOUS
<1>1. NoContent \in Content /\ Canonical(NoContent)
      /\ NoContent.topk = {} /\ \A o \in Node : NoContent.sum[o] = 0
  BY NoContentType DEF NoContent, NoContrib
<1>2. \A n \in Node : mem[n] = NoContent /\ deltaSeq[n] = 0 /\ history[n] = NoHistory
  BY DEF Init
<1>3. ManagerInv
  <2> DEFINE none == [g \in Aggregate |-> 0]
  <2>1. /\ none \in Versions /\ ver = [n \in Node |-> none] /\ saved = ver
        /\ mem = [n \in Node |-> NoContent] /\ deltaSeq = [n \in Node |-> 0] /\ issued = {}
    BY DEF Versions, Init
  <2> HIDE DEF none
  <2>2. /\ mem \in [Node -> Content] /\ ver \in [Node -> Versions] /\ saved \in [Node -> Versions]
        /\ deltaSeq \in [Node -> 0..MaxDeltas] /\ issued = {}
    BY <1>1, <2>1, SyncAssumption
  <2>3. NothingInvented
    BY <1>1, <1>2 DEF NothingInvented, Genuine
  <2>4. IssuedOnce
    BY <2>2, FS_EmptySet DEF IssuedOnce
  <2> QED  BY <1>1, <1>2, <2>2, <2>3, <2>4 DEF ManagerInv, KeptCanonical
<1>4. OutboundInv
  <2>1. <<>> \in Seq(Delta) /\ Len(<<>>) = 0 /\ 0 <= QueueSize
    BY EmptySeq, SyncAssumption
  <2>2. \A n \in Node : outbound[n] = <<>>
    BY DEF Init
  <2>3. outbound \in [Node -> Seq(Delta)]
    BY <2>1 DEF Init
  <2> QED  BY <2>1, <2>2, <2>3 DEF OutboundInv, OutboundIssued
<1>5. HistoryInv
  <2>1. history \in [Node -> History]
    BY DEF Init, NoHistory, History
  <2>2. \A n \in Node : Serves(n, history[n])
    BY <1>2, <1>3, NoHistoryServes
  <2> QED  BY <2>1, <2>2, HistoryIs DEF HistoryInv
<1>6. NetInv /\ TaskInv /\ LoadInv
  BY FS_EmptySet, SyncAssumption DEF Init, NetInv, TaskInv, LoadInv
<1>7. GuardInv
  <2> DEFINE none == [o \in Node |-> 0]
  <2>1. /\ none \in Marks /\ highSeq = [n \in Node |-> none]
        /\ seq = [n \in Node |-> 0] /\ healed = FALSE /\ restarts = 0
    BY DEF Marks, Init
  <2> HIDE DEF none
  <2>2. highSeq \in [Node -> Marks] /\ seq \in [Node -> Nat]
    BY <2>1
  <2>3. restarts \in 0..MaxRestarts
    BY <2>1, SyncAssumption
  <2>4. healed \in BOOLEAN
    BY <2>1
  <2> QED  BY <2>2, <2>3, <2>4 DEF GuardInv
<1> QED  BY <1>3, <1>4, <1>5, <1>6, <1>7, InvParts

LEMMA InvStep == Inv /\ [Next \/ Heal]_vars => Inv'
<1> SUFFICES ASSUME Inv, [Next \/ Heal]_vars PROVE Inv'
  OBVIOUS
<1>1. CASE \E n \in Node : NodeStep(n)
  <2>1. PICK n \in Node : NodeStep(n)
    BY <1>1
  <2> QED  BY <2>1, UpdateStep, CheckpointStep, RestartStep, RunOutboundStep,
              BroadcastDigestStep DEF NodeStep
<1>2. CASE \E t \in tasks : TaskStep(t)
  <2>1. PICK t \in tasks : TaskStep(t)
    BY <1>2
  <2> QED  BY <2>1, MergeDeltaStep, RecordDeltaStep, SnapshotStep, SendSnapshotStep,
              TakeWatermarksStep DEF TaskStep
<1>3. CASE \E m \in net : Handle(m)
  <2>1. PICK m \in net : Handle(m)
    BY <1>3
  <2> QED  BY <2>1, HandleStateDeltaStep, HandleStateDigestStep, HandleDeltaRangeReqStep,
              HandleDeltaRangeRespStep, HandleSnapshotReqStep, HandleSnapshotRespStep
           DEF Handle
<1>4. CASE (\E m \in net : Lose(m)) \/ Heal
  BY <1>4, LoseStep
<1>5. CASE UNCHANGED vars
  BY <1>5 DEF vars, manager, Inv, TypeOK, KeptCanonical, NothingInvented, IssuedOnce,
              OutboundIssued, HistoryServes, MessageGenuine, TaskGenuine, Genuine,
              Submitted, Reached
<1> QED  BY <1>1, <1>2, <1>3, <1>4, <1>5 DEF Next

LEMMA Invariance == Spec \/ LiveSpec => []Inv
<1>1. Spec => []Inv
  BY InvInit, InvStep, PTL DEF Spec
<1>2. LiveSpec => []Inv
  BY InvInit, InvStep, PTL DEF LiveSpec
<1> QED  BY <1>1, <1>2, PTL

\* Every variable keeps its type, on a network that loses and repeats messages
\* for ever and on one that heals: the outbound queue keeps within its size and
\* no node issues more than the bound lets it.
THEOREM TypeCorrect == Spec \/ LiveSpec => []TypeOK
BY Invariance, PTL DEF Inv

\* Whatever is lost, repeated, forwarded, replayed or sent as a snapshot, no node
\* counts more of another's increments than that one does, nor keeps a candidate
\* nobody submitted.
THEOREM NothingIsInvented == Spec \/ LiveSpec => []NothingInvented
BY Invariance, PTL DEF Inv

\* DeltaHistory serves deltas that were issued and that its node has merged, within
\* its capacity, and advertises no sequence its origin has not issued.
THEOREM HistoriesServe == Spec \/ LiveSpec => []HistoryServes
BY Invariance, PTL DEF Inv

-----------------------------------------------------------------------------
(* What a step does to the contents and the issued deltas *)

\* One node merges something genuine.
Merges ==
  /\ issued' = issued
  /\ \E n \in Node, frag \in Content :
       Genuine(frag) /\ mem' = [mem EXCEPT ![n] = MergeContent(mem[n], frag)]

LEMMA DeltaMerges ==
  ASSUME Inv, NEW n \in Node, NEW d \in issued, ApplyDelta(n, d), issued' = issued
  PROVE  Merges
<1>1. d.frag \in Content /\ Genuine(d.frag)
  BY DEF Inv, TypeOK, IssuedOnce, Delta
<1>2. mem' = [mem EXCEPT ![n] = MergeContent(mem[n], d.frag)]
  BY DEF ApplyDelta, Apply
<1> QED  BY <1>1, <1>2 DEF Merges

LEMMA HandleKinds ==
  ASSUME Inv, NEW m \in net, Handle(m)
  PROVE  Merges \/ UNCHANGED <<mem, issued>>
<1>0. ManagerInv /\ NetInv /\ m.to \in Node
  BY InvParts, Fields DEF NetInv
<1>1. CASE HandleSnapshotResp(m)
  <2>1. m.body.frag \in Content /\ Genuine(m.body.frag) /\ issued' = issued
    BY <1>0, <1>1, Fields DEF HandleSnapshotResp, NetInv, MessageGenuine
  <2>2. CASE Apply(m.to, m.body.frag, m.body.ver, m.body.marks[m.to])
    BY <1>0, <2>1, <2>2 DEF Merges, Apply
  <2>3. CASE UNCHANGED manager
    BY <2>1, <2>3 DEF manager
  <2> QED  BY <1>1, <2>2, <2>3 DEF HandleSnapshotResp
<1>2. CASE \/ HandleStateDelta(m) \/ HandleDeltaRangeResp(m)
           \/ HandleStateDigest(m) \/ HandleDeltaRangeReq(m) \/ HandleSnapshotReq(m)
  BY <1>2 DEF HandleStateDelta, HandleDeltaRangeResp, HandleStateDigest,
              HandleDeltaRangeReq, HandleSnapshotReq, manager
<1> QED  BY <1>1, <1>2 DEF Handle

LEMMA TaskKinds ==
  ASSUME Inv, NEW t \in tasks, TaskStep(t)
  PROVE  Merges \/ UNCHANGED <<mem, issued>>
<1>0. ManagerInv /\ TaskInv
  BY InvParts
<1>1. CASE MergeDelta(t)
  <2>1. t.at \in Node /\ t.delta \in issued /\ issued' = issued
    BY <1>0, <1>1, DeltaTaskFacts DEF MergeDelta
  <2>2. CASE ApplyDelta(t.at, t.delta)
    BY <2>1, <2>2, DeltaMerges
  <2>3. CASE UNCHANGED manager
    BY <2>1, <2>3 DEF manager
  <2> QED  BY <1>1, <2>2, <2>3 DEF MergeDelta
<1>2. CASE RecordDelta(t) \/ Snapshot(t) \/ SendSnapshot(t) \/ TakeWatermarks(t)
  BY <1>2 DEF RecordDelta, Snapshot, SendSnapshot, TakeWatermarks, manager
<1> QED  BY <1>1, <1>2 DEF TaskStep

\* A step is a client's update, the merge of something genuine, or neither touches
\* a content nor issues a delta.
LEMMA StepKinds ==
  ASSUME Inv, [Next \/ Heal]_vars
  PROVE  \/ Merges
         \/ UNCHANGED <<mem, issued>>
         \/ \E n \in Node : UpdateLocalSUM(n) \/ UpdateLocalTOPK(n)
<1>1. ASSUME NEW n \in Node, Checkpoint(n) \/ Restart(n) \/ RunOutbound(n) \/ BroadcastDigest(n)
      PROVE  UNCHANGED <<mem, issued>>
  BY <1>1 DEF Checkpoint, Restart, RunOutbound, BroadcastDigest, manager
<1>2. CASE (\E m \in net : Lose(m)) \/ Heal \/ UNCHANGED vars
  BY <1>2 DEF Lose, Heal, vars, manager
<1> QED  BY <1>1, <1>2, TaskKinds, HandleKinds DEF Next, NodeStep

-----------------------------------------------------------------------------
(* The implementation of Replication *)

\* The operators of the abstract specification are those of Aggregates.
LEMMA SameOperators ==
  /\ \A s, f : R!MergeContent(s, f) = MergeContent(s, f)
  /\ \A s, f : R!Covers(s, f) <=> Covers(s, f)
  /\ \A n, v : R!SUMFragment(n, v) = SUMFragment(n, v)
  /\ \A c : R!TOPKFragment(c) = TOPKFragment(c)
  /\ \A s, n, i : R!UpdateFits(s, n, i) <=> UpdateFits(s, n, i)
  /\ R!NoContent = NoContent /\ R!Candidate = Candidate
<1>1. \A s, f : R!MergeSUM(s, f) = MergeSUM(s, f)
  BY DEF R!MergeSUM, MergeSUM
<1>2. \A s, f : R!MergeTOPK(s, f) = MergeTOPK(s, f)
  <2>1. \A S : R!Cardinality(S) = Cardinality(S)
    BY DEF R!Cardinality, Cardinality, R!IsFiniteSet, IsFiniteSet
  <2>2. \A S, c : R!Ahead(S, c) = Ahead(S, c)
    BY DEF R!Ahead, Ahead, R!Better, Better
  <2>3. \A S : R!Canonicalize(S) = Canonicalize(S)
    BY <2>1, <2>2 DEF R!Canonicalize, Canonicalize
  <2> QED  BY <2>3 DEF R!MergeTOPK, MergeTOPK
<1>3. \A s, f : R!MergeContent(s, f) = MergeContent(s, f)
  BY <1>1, <1>2 DEF R!MergeContent, MergeContent
<1>4. \A s, f : R!Covers(s, f) <=> Covers(s, f)
  BY <1>3 DEF R!Covers, Covers
<1>5. R!NoContrib = NoContrib /\ R!Candidate = Candidate
  BY DEF R!NoContrib, NoContrib, R!Candidate, Candidate
<1>6. /\ \A n, v : R!SUMFragment(n, v) = SUMFragment(n, v)
      /\ \A c : R!TOPKFragment(c) = TOPKFragment(c)
      /\ R!NoContent = NoContent
  BY <1>5 DEF R!SUMFragment, SUMFragment, R!TOPKFragment, TOPKFragment, R!NoContent, NoContent
<1>7. \A s, n, i : R!UpdateFits(s, n, i) <=> UpdateFits(s, n, i)
  BY DEF R!UpdateFits, UpdateFits
<1> QED  BY <1>3, <1>4, <1>5, <1>6, <1>7

LEMMA TotalType ==
  ASSUME ManagerInv
  PROVE  /\ Submitted \in SUBSET Candidate /\ Total \in Content
         /\ Total.topk = Canonicalize(Submitted)
         /\ \A o \in Node : Total.sum[o] = mem[o].sum[o]
<1>1. \A d \in issued : d.frag.topk \in SUBSET Candidate
  BY DEF ManagerInv, Delta, Content
<1>2. Submitted \in SUBSET Candidate
  BY <1>1 DEF Submitted
<1>3. Canonicalize(Submitted) \in SUBSET Candidate
  BY <1>2, CanonicalizeSubset
<1>4. \A o \in Node : mem[o].sum[o] \in 0..MaxUint64
  BY DEF ManagerInv, Content, Contrib
<1> QED  BY <1>2, <1>3, <1>4 DEF Total, Content, Contrib

\* The total covers whatever is genuine.
LEMMA GenuineCovered ==
  ASSUME ManagerInv, NEW f \in Content, Genuine(f)
  PROVE  Covers(Total, f)
<1>1. /\ Submitted \in SUBSET Candidate /\ Total \in Content
      /\ Total.topk = Canonicalize(Submitted)
      /\ \A o \in Node : Total.sum[o] = mem[o].sum[o]
  BY TotalType
<1>2. MergeSUM(Total.sum, f.sum) = Total.sum
  <2>1. Total.sum \in Contrib /\ f.sum \in Contrib /\ \A o \in Node : f.sum[o] <= Total.sum[o]
    BY <1>1 DEF Genuine, Content
  <2> QED  BY <2>1, CoversSUM
<1>3. MergeTOPK(Total.topk, f.topk) = Total.topk
  <2>1. f.topk \in SUBSET Submitted /\ f.topk \in SUBSET Candidate
    BY DEF Genuine, Content
  <2>2. f.topk \cup Submitted = Submitted
    BY <2>1
  <2>3. Canonicalize(f.topk \cup Canonicalize(Submitted)) = Canonicalize(f.topk \cup Submitted)
    BY <1>1, <2>1, CanonicalizeUnion
  <2>4. Canonicalize(Submitted) \cup f.topk = f.topk \cup Canonicalize(Submitted)
    OBVIOUS
  <2> QED  BY <1>1, <2>2, <2>3, <2>4 DEF MergeTOPK
<1> QED  BY <1>1, <1>2, <1>3, CoversParts

LEMMA InitImplements == Init => R!Init
<1> SUFFICES ASSUME Init PROVE R!Init
  OBVIOUS
<1>1. Submitted = {} /\ Canonicalize(Submitted) = {}
  BY DEF Init, Submitted, Canonicalize
<1>2. mem = [n \in Node |-> NoContent] /\ \A o \in Node : mem[o].sum[o] = 0
  BY DEF Init, NoContent, NoContrib
<1>3. Total = NoContent
  BY <1>1, <1>2 DEF Total, NoContent, NoContrib
<1> QED  BY <1>2, <1>3, SameOperators DEF R!Init

\* Merging what is genuine is hearing of something submitted elsewhere.
LEMMA ApplyLearns ==
  ASSUME Inv, NEW n \in Node, NEW frag \in Content, Genuine(frag),
         mem' = [mem EXCEPT ![n] = MergeContent(mem[n], frag)], issued' = issued
  PROVE  R!Next
<1> DEFINE after == MergeContent(mem[n], frag)
<1>0. ManagerInv
  BY InvParts
<1>1. mem \in [Node -> Content] /\ mem[n] \in Content /\ Canonical(mem[n]) /\ Genuine(mem[n])
  BY <1>0 DEF ManagerInv, KeptCanonical, NothingInvented
<1>2. after \in Content /\ Genuine(after)
  BY <1>0, <1>1, MergeContentType, MergedGenuine
<1>3. Covers(after, mem[n])
  <2>1. Covers(mem[n], mem[n])
    BY <1>1, MergeLaws DEF Covers
  <2> QED  BY <1>1, <2>1, CoversStable
<1>4. Covers(Total, after)
  BY <1>0, <1>2, GenuineCovered
<1>5. after.sum[n] = mem[n].sum[n]
  <2>1. frag.sum[n] <= mem[n].sum[n] /\ frag.sum[n] \in Int /\ mem[n].sum[n] \in Int
    BY <1>1 DEF Genuine, Content, Contrib
  <2>2. after.sum[n] = IF frag.sum[n] > mem[n].sum[n] THEN frag.sum[n] ELSE mem[n].sum[n]
    BY DEF MergeContent, MergeSUM
  <2> HIDE DEF after
  <2> QED  BY <2>1, <2>2
<1> HIDE DEF after
<1>6. mem'[n] = after /\ mem' = [mem EXCEPT ![n] = mem'[n]]
      /\ \A o \in Node : mem'[o] = IF o = n THEN after ELSE mem[o]
  BY <1>1 DEF after
<1>7. Total' = Total
  <2>1. \A o \in Node : mem'[o].sum[o] = mem[o].sum[o]
    BY <1>5, <1>6
  <2>2. Submitted' = Submitted
    BY DEF Submitted
  <2> QED  BY <2>1, <2>2 DEF Total
<1>8. R!Learn(n)
  BY <1>3, <1>4, <1>6, <1>7, SameOperators DEF R!Learn
<1> QED  BY <1>8 DEF R!Next

\* A local update submits its delta.
LEMMA LocalSubmits ==
  ASSUME Inv, NEW n \in Node, NEW frag \in Content, NEW g \in Aggregate,
         \A o \in Node : o # n => frag.sum[o] = 0,
         LocalUpdate(n, MergeContent(mem[n], frag), frag, g)
  PROVE  R!Submit(n, frag)
<1> DEFINE after == MergeContent(mem[n], frag)
<1>0. ManagerInv
  BY InvParts
<1>1. mem \in [Node -> Content] /\ mem[n] \in Content
  BY <1>0 DEF ManagerInv
<1>2. /\ Submitted \in SUBSET Candidate /\ Total \in Content
      /\ Total.topk = Canonicalize(Submitted)
      /\ \A o \in Node : Total.sum[o] = mem[o].sum[o]
  BY <1>0, TotalType
<1>3. /\ mem' = [mem EXCEPT ![n] = after]
      /\ issued' = issued \cup {LocalDelta(n, frag, g)} /\ LocalDelta(n, frag, g).frag = frag
  BY DEF LocalUpdate, LocalDelta
<1>4. Submitted' = Submitted \cup frag.topk
  BY <1>3 DEF Submitted
<1>5. \A o \in Node : mem'[o].sum[o] = MergeSUM(Total.sum, frag.sum)[o]
  <2> SUFFICES ASSUME NEW o \in Node PROVE mem'[o].sum[o] = MergeSUM(Total.sum, frag.sum)[o]
    OBVIOUS
  <2>1. MergeSUM(Total.sum, frag.sum)[o]
          = IF frag.sum[o] > mem[o].sum[o] THEN frag.sum[o] ELSE mem[o].sum[o]
    BY <1>2 DEF MergeSUM
  <2>2. after.sum[n] = IF frag.sum[n] > mem[n].sum[n] THEN frag.sum[n] ELSE mem[n].sum[n]
    BY DEF MergeContent, MergeSUM
  <2>3. mem[o].sum[o] \in Nat
    BY <1>1 DEF Content, Contrib
  <2> HIDE DEF after
  <2>4. mem'[o] = IF o = n THEN after ELSE mem[o]
    BY <1>1, <1>3
  <2> QED  BY <2>1, <2>2, <2>3, <2>4
<1>6. Canonicalize(Submitted') = MergeTOPK(Total.topk, frag.topk)
  <2>1. frag.topk \in SUBSET Candidate
    BY DEF Content
  <2>2. Canonicalize(frag.topk \cup Canonicalize(Submitted))
          = Canonicalize(frag.topk \cup Submitted)
    BY <1>2, <2>1, CanonicalizeUnion
  <2>3. /\ Canonicalize(Submitted) \cup frag.topk = frag.topk \cup Canonicalize(Submitted)
        /\ Submitted \cup frag.topk = frag.topk \cup Submitted
    OBVIOUS
  <2> QED  BY <1>2, <1>4, <2>2, <2>3 DEF MergeTOPK
<1>7. Total' = MergeContent(Total, frag)
  <2>1. [o \in Node |-> mem'[o].sum[o]] = MergeSUM(Total.sum, frag.sum)
    BY <1>5 DEF MergeSUM
  <2>2. Total' = [sum |-> [o \in Node |-> mem'[o].sum[o]], topk |-> Canonicalize(Submitted')]
    BY DEF Total
  <2> QED  BY <1>6, <2>1, <2>2 DEF MergeContent
<1> QED  BY <1>1, <1>3, <1>7, SameOperators DEF R!Submit

LEMMA UpdateSubmits ==
  ASSUME Inv, NEW n \in Node, UpdateLocalSUM(n) \/ UpdateLocalTOPK(n)
  PROVE  R!Next
<1>0. mem[n] \in Content /\ Canonical(mem[n]) /\ ManagerInv
  BY InvParts DEF ManagerInv, KeptCanonical
<1>1. CASE UpdateLocalSUM(n)
  <2> DEFINE contrib == UpdateSUM(mem[n].sum, n, 1)
             frag == SUMFragment(n, contrib[n])
  <2>1. /\ UpdateFits(mem[n].sum, n, 1)
        /\ LocalUpdate(n, [mem[n] EXCEPT !.sum = contrib], frag, "SUM")
    BY <1>1 DEF UpdateLocalSUM
  <2>2. /\ frag \in Content /\ [mem[n] EXCEPT !.sum = contrib] = MergeContent(mem[n], frag)
        /\ contrib[n] = mem[n].sum[n] + 1
    BY <1>0, <2>1, UpdateSUMMerges
  <2>3. \A o \in Node : o # n => frag.sum[o] = 0
    BY DEF SUMFragment
  <2>4. Total.sum[n] = mem[n].sum[n]
    BY <1>0, TotalType
  <2>5. frag = SUMFragment(n, Total.sum[n] + 1) /\ UpdateFits(Total.sum, n, 1)
    BY <2>1, <2>2, <2>4 DEF UpdateFits
  <2> HIDE DEF frag
  <2>6. R!Submit(n, frag)
    BY <2>1, <2>2, <2>3, LocalSubmits DEF Aggregate
  <2>7. R!SubmitIncrement(n)
    BY <2>5, <2>6, SameOperators DEF R!SubmitIncrement
  <2> QED  BY <2>7 DEF R!Next
<1>2. CASE UpdateLocalTOPK(n)
  <2>1. PICK c \in LocalCandidate :
          /\ c.origin = n
          /\ LocalUpdate(n, [mem[n] EXCEPT !.topk = MergeTOPK(mem[n].topk, {c})],
                         TOPKFragment(c), "TOPK")
    BY <1>2 DEF UpdateLocalTOPK
  <2>2. /\ TOPKFragment(c) \in Content /\ c \in Candidate
        /\ [mem[n] EXCEPT !.topk = MergeTOPK(mem[n].topk, {c})]
             = MergeContent(mem[n], TOPKFragment(c))
    BY <1>0, SyncAssumption, UpdateTOPKMerges
  <2>3. \A o \in Node : TOPKFragment(c).sum[o] = 0
    BY DEF TOPKFragment, NoContrib
  <2>4. R!Submit(n, TOPKFragment(c))
    BY <2>1, <2>2, <2>3, LocalSubmits DEF Aggregate
  <2>5. R!SubmitCandidate(n)
    BY <2>1, <2>2, <2>4, SameOperators DEF R!SubmitCandidate
  <2> QED  BY <2>5 DEF R!Next
<1> QED  BY <1>1, <1>2

\* Steps that leave contents and issued deltas alone stutter.
LEMMA QuietStutters ==
  ASSUME UNCHANGED <<mem, issued>>
  PROVE  UNCHANGED R!vars
<1>1. Total' = Total
  BY DEF Total, Submitted
<1> QED  BY <1>1 DEF R!vars

LEMMA StepImplements == Inv /\ [Next \/ Heal]_vars => [R!Next]_R!vars
<1> SUFFICES ASSUME Inv, [Next \/ Heal]_vars PROVE [R!Next]_R!vars
  OBVIOUS
<1>1. CASE Merges
  BY <1>1, ApplyLearns DEF Merges
<1>2. CASE UNCHANGED <<mem, issued>>
  BY <1>2, QuietStutters
<1>3. CASE \E n \in Node : UpdateLocalSUM(n) \/ UpdateLocalTOPK(n)
  BY <1>3, UpdateSubmits
<1> QED  BY <1>1, <1>2, <1>3, StepKinds

\* The cluster implements the replicated aggregate of module Replication, whatever
\* is lost, repeated or reordered and whichever nodes crash: a client's update
\* is in the view of the node that took it at once, every other step only adds to a
\* view something that was submitted.
THEOREM ClusterReplicates == Spec \/ LiveSpec => Replicates
<1>1. Spec => R!Spec
  BY InitImplements, StepImplements, Invariance, PTL DEF Spec, R!Spec
<1>2. LiveSpec => R!Spec
  BY InitImplements, StepImplements, Invariance, PTL DEF LiveSpec, R!Spec
<1> QED  BY <1>1, <1>2 DEF Replicates

-----------------------------------------------------------------------------
(* Nodes that have heard of everything *)

\* A local update merges the delta it issues.
LEMMA UpdateMerges ==
  ASSUME Inv, NEW n \in Node, UpdateLocalSUM(n) \/ UpdateLocalTOPK(n)
  PROVE  \E d \in issued' :
           /\ d.frag \in Content /\ issued \subseteq issued'
           /\ mem' = [mem EXCEPT ![n] = MergeContent(mem[n], d.frag)]
<1>0. mem[n] \in Content /\ Canonical(mem[n])
  BY InvParts DEF ManagerInv, KeptCanonical
<1>1. PICK frag \in Content, g \in Aggregate : LocalUpdate(n, MergeContent(mem[n], frag), frag, g)
  <2>1. CASE UpdateLocalSUM(n)
    <3> DEFINE contrib == UpdateSUM(mem[n].sum, n, 1)
               own == SUMFragment(n, contrib[n])
    <3>1. /\ UpdateFits(mem[n].sum, n, 1)
          /\ LocalUpdate(n, [mem[n] EXCEPT !.sum = contrib], own, "SUM")
      BY <2>1 DEF UpdateLocalSUM
    <3>2. own \in Content /\ [mem[n] EXCEPT !.sum = contrib] = MergeContent(mem[n], own)
      BY <1>0, <3>1, UpdateSUMMerges
    <3> HIDE DEF own, contrib
    <3> QED  BY <3>1, <3>2 DEF Aggregate
  <2>2. CASE UpdateLocalTOPK(n)
    <3>1. PICK c \in LocalCandidate :
            LocalUpdate(n, [mem[n] EXCEPT !.topk = MergeTOPK(mem[n].topk, {c})],
                        TOPKFragment(c), "TOPK")
      BY <2>2 DEF UpdateLocalTOPK
    <3>2. /\ TOPKFragment(c) \in Content
          /\ [mem[n] EXCEPT !.topk = MergeTOPK(mem[n].topk, {c})]
               = MergeContent(mem[n], TOPKFragment(c))
      BY <1>0, SyncAssumption, UpdateTOPKMerges
    <3> QED  BY <3>1, <3>2 DEF Aggregate
  <2> QED  BY <2>1, <2>2
<1>2. /\ mem' = [mem EXCEPT ![n] = MergeContent(mem[n], frag)]
      /\ issued' = issued \cup {LocalDelta(n, frag, g)} /\ LocalDelta(n, frag, g).frag = frag
  BY <1>1 DEF LocalUpdate, LocalDelta
<1> QED  BY <1>2

LEMMA OwnIssuedInit == Init => OwnIssued
BY DEF Init, OwnIssued, NoContent, NoContrib

\* The own contribution of a node only changes with an update that issues it.
LEMMA OwnIssuedNext == Inv /\ OwnIssued /\ [Next \/ Heal]_vars => OwnIssued'
<1> SUFFICES ASSUME Inv, OwnIssued, [Next \/ Heal]_vars, NEW o \in Node
             PROVE  mem'[o].sum[o] = 0 \/ \E d \in issued' : d.frag.sum[o] = mem'[o].sum[o]
  BY DEF OwnIssued
<1>0. mem \in [Node -> Content] /\ \A n \in Node : mem[n].sum[n] \in Int
  BY InvParts DEF ManagerInv, Content, Contrib
<1>1. mem[o].sum[o] = 0 \/ \E d \in issued : d.frag.sum[o] = mem[o].sum[o]
  BY DEF OwnIssued
<1>2. ASSUME NEW n \in Node, NEW frag \in Content,
             mem' = [mem EXCEPT ![n] = MergeContent(mem[n], frag)]
      PROVE  \/ mem'[o].sum[o] = mem[o].sum[o]
             \/ mem'[o].sum[o] = frag.sum[o] /\ frag.sum[o] > mem[o].sum[o]
  <2>1. MergeContent(mem[n], frag).sum[o] = IF frag.sum[o] > mem[n].sum[o] THEN frag.sum[o] ELSE mem[n].sum[o]
    BY DEF MergeContent, MergeSUM
  <2>2. mem'[o] = IF o = n THEN MergeContent(mem[n], frag) ELSE mem[o]
    BY <1>0, <1>2
  <2> QED  BY <2>1, <2>2
<1>3. CASE Merges
  <2>1. PICK n \in Node, frag \in Content :
          /\ Genuine(frag) /\ issued' = issued
          /\ mem' = [mem EXCEPT ![n] = MergeContent(mem[n], frag)]
    BY <1>3 DEF Merges
  <2>2. frag.sum[o] <= mem[o].sum[o] /\ frag.sum[o] \in Int /\ mem[o].sum[o] \in Int
    BY <1>0, <2>1 DEF Genuine, Content, Contrib
  <2>3. ~(frag.sum[o] > mem[o].sum[o])
    BY <2>2
  <2>4. mem'[o].sum[o] = mem[o].sum[o]
    BY <1>2, <2>1, <2>3, Zenon
  <2> QED  BY <1>1, <2>1, <2>4
<1>4. CASE UNCHANGED <<mem, issued>>
  BY <1>1, <1>4
<1>5. CASE \E n \in Node : UpdateLocalSUM(n) \/ UpdateLocalTOPK(n)
  <2>1. PICK n \in Node, d \in issued' :
          /\ d.frag \in Content /\ issued \subseteq issued'
          /\ mem' = [mem EXCEPT ![n] = MergeContent(mem[n], d.frag)]
    BY <1>5, UpdateMerges
  <2>2. mem'[o].sum[o] = mem[o].sum[o] \/ mem'[o].sum[o] = d.frag.sum[o]
    BY <1>2, <2>1
  <2> QED  BY <1>1, <2>1, <2>2
<1> QED  BY <1>3, <1>4, <1>5, StepKinds

\* Cuts in between lose nothing: a kept set that no submitted set changes any more is
\* the cut of all of them together.
LEMMA KeptIsBest ==
  ASSUME NEW U \in SUBSET Candidate, NEW K \in SUBSET U, Canonicalize(K) = K,
         \A c \in U : \E T \in SUBSET U : c \in T /\ MergeTOPK(K, T) = K
  PROVE  K = Canonicalize(U)
<1>1. K \in SUBSET Candidate /\ Canonicalize(U) \in SUBSET Candidate
  BY CanonicalizeSubset
<1>2. ASSUME NEW c \in Canonicalize(U) PROVE c \in K
  <2>1. c \in U /\ Cardinality(Ahead(U, c)) < Kmax
    BY <1>2 DEF Canonicalize
  <2>2. PICK T \in SUBSET U : c \in T /\ MergeTOPK(K, T) = K
    BY <2>1
  <2>3. K \cup T \in SUBSET U /\ K \cup T \in SUBSET Candidate
    OBVIOUS
  <2>4. Cardinality(Ahead(K \cup T, c)) <= Cardinality(Ahead(U, c))
    BY <2>3, AheadMonotone
  <2>5. Cardinality(Ahead(K \cup T, c)) \in Nat /\ Cardinality(Ahead(U, c)) \in Nat
    BY <2>3, AheadFinite
  <2>6. Cardinality(Ahead(K \cup T, c)) < Kmax
    BY <2>1, <2>4, <2>5, KmaxAssumption
  <2> QED  BY <2>2, <2>6 DEF MergeTOPK, Canonicalize
<1>3. ASSUME NEW c \in K, c \notin Canonicalize(U) PROVE FALSE
  <2>1. c \in U /\ c \in Candidate /\ ~(Cardinality(Ahead(U, c)) < Kmax)
    BY <1>3 DEF Canonicalize
  <2>2. Cardinality(Ahead(U, c)) \in Nat
    BY AheadFinite
  <2>3. Cardinality(Ahead(U, c)) >= Kmax
    BY <2>1, <2>2, KmaxAssumption
  <2>4. Cardinality(Ahead(Canonicalize(U), c)) >= Kmax
    BY <2>1, <2>3, CutKeepsKmax
  <2>5. Canonicalize(U) \in SUBSET K
    BY <1>2
  <2>6. Cardinality(Ahead(Canonicalize(U), c)) <= Cardinality(Ahead(K, c))
    BY <1>1, <2>5, AheadMonotone
  <2>7. Cardinality(Ahead(K, c)) < Kmax
    BY <1>3 DEF Canonicalize
  <2>8. Cardinality(Ahead(K, c)) \in Nat /\ Cardinality(Ahead(Canonicalize(U), c)) \in Nat
    BY <1>1, AheadFinite
  <2> QED  BY <2>4, <2>6, <2>7, <2>8, KmaxAssumption
<1> QED  BY <1>2, <1>3

LEMMA CoversAllIsTotal == Inv /\ OwnIssued => CompleteIsExact
<1> SUFFICES ASSUME Inv, OwnIssued, NEW n \in Node, \A d \in issued : Covers(mem[n], d.frag)
             PROVE  mem[n] = Total
  BY DEF CompleteIsExact
<1>0. /\ ManagerInv /\ mem[n] \in Content /\ Canonicalize(mem[n].topk) = mem[n].topk
      /\ Genuine(mem[n]) /\ \A d \in issued : d.frag \in Content
  BY InvParts DEF ManagerInv, KeptCanonical, Canonical, NothingInvented, Delta
<1>1. /\ Submitted \in SUBSET Candidate /\ Total \in Content
      /\ Total.topk = Canonicalize(Submitted)
      /\ \A o \in Node : Total.sum[o] = mem[o].sum[o]
  BY <1>0, TotalType
<1>2. \A d \in issued : /\ MergeSUM(mem[n].sum, d.frag.sum) = mem[n].sum
                        /\ MergeTOPK(mem[n].topk, d.frag.topk) = mem[n].topk
  BY <1>0, CoversParts
<1>3. mem[n].topk = Canonicalize(Submitted)
  <2>1. \A c \in Submitted : \E T \in SUBSET Submitted : c \in T /\ MergeTOPK(mem[n].topk, T) = mem[n].topk
    BY <1>2 DEF Submitted
  <2>2. mem[n].topk \in SUBSET Submitted
    BY <1>0 DEF Genuine
  <2> QED  BY <1>0, <1>1, <2>1, <2>2, KeptIsBest
<1>4. ASSUME NEW o \in Node PROVE mem[n].sum[o] = Total.sum[o]
  <2>1. mem[n].sum[o] \in Nat /\ mem[o].sum[o] \in Nat
    BY <1>0 DEF ManagerInv, Content, Contrib
  <2>2. mem[n].sum[o] <= mem[o].sum[o]
    BY <1>0 DEF Genuine
  <2>3. mem[o].sum[o] <= mem[n].sum[o]
    <3>1. CASE mem[o].sum[o] = 0
      BY <2>1, <3>1
    <3>2. CASE mem[o].sum[o] # 0
      <4>1. PICK d \in issued : d.frag.sum[o] = mem[o].sum[o]
        BY <3>2 DEF OwnIssued
      <4>2. mem[n].sum \in Contrib /\ d.frag.sum \in Contrib
        BY <1>0 DEF Content
      <4>3. d.frag.sum[o] <= mem[n].sum[o]
        BY <1>2, <4>2, CoversSUM
      <4> QED  BY <4>1, <4>3
    <3> QED  BY <3>1, <3>2
  <2> QED  BY <1>1, <2>1, <2>2, <2>3
<1>5. mem[n].sum = Total.sum
  <2>1. mem[n].sum \in Contrib /\ Total.sum \in Contrib
    BY <1>0, <1>1 DEF Content
  <2> QED  BY <1>4, <2>1 DEF Contrib
<1>6. /\ mem[n] = [sum |-> mem[n].sum, topk |-> mem[n].topk]
      /\ Total = [sum |-> Total.sum, topk |-> Total.topk]
  BY <1>0, <1>1 DEF Content
<1> QED  BY <1>1, <1>3, <1>5, <1>6

\* A node that has heard of every delta answers exactly the total: any two such
\* nodes agree, although topk.canonicalize cut their candidates after every merge and
\* they may never have received the same deltas in the same order.
THEOREM CompleteNodesAgree == Spec \/ LiveSpec => []CompleteIsExact
<1>1. Init => OwnIssued
  BY OwnIssuedInit
<1>2. Spec => []OwnIssued
  BY <1>1, OwnIssuedNext, Invariance, PTL DEF Spec
<1>3. LiveSpec => []OwnIssued
  BY <1>1, OwnIssuedNext, Invariance, PTL DEF LiveSpec
<1> QED  BY <1>2, <1>3, Invariance, CoversAllIsTotal, PTL

=============================================================================
