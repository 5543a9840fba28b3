--------------------------- MODULE DurabilityProofs ---------------------------
(***************************************************************************)
(* What a restart finds, for every configuration of the node: how much     *)
(* batch mode may lose, and what replay of the log makes of the            *)
(* checkpoint.                                                             *)
(***************************************************************************)
EXTENDS PersistenceProofs

-----------------------------------------------------------------------------
(* Replay *)

\* The recursive function Replayed evaluates.
Run(c, w, lo, hi, f) ==
  f = [i \in lo..hi |-> IF i = lo THEN c ELSE MergeContent(f[i - 1], w[i].frag)]

\* A run of replay is a sequence of contents.
LEMMA RunType ==
  ASSUME NEW c \in Content, NEW w \in Seq(Line), NEW lo \in Nat, NEW hi \in 0..Len(w),
         NEW f, Run(c, w, lo, hi, f)
  PROVE  \A i \in lo..hi : f[i] \in Content
<1> DEFINE T == {d \in Nat : lo + d <= hi => f[lo + d] \in Content}
<1>1. 0 \in T
  BY DEF Run
<1>2. ASSUME NEW d \in Nat, d \in T PROVE d + 1 \in T
  <2> SUFFICES ASSUME lo + (d + 1) <= hi PROVE f[lo + (d + 1)] \in Content
    OBVIOUS
  <2>1. lo + (d + 1) \in lo..hi /\ lo + (d + 1) # lo /\ (lo + (d + 1)) - 1 = lo + d
        /\ lo + (d + 1) \in 1..Len(w)
    OBVIOUS
  <2>2. f[lo + (d + 1)] = MergeContent(f[lo + d], w[lo + (d + 1)].frag)
    BY <2>1 DEF Run
  <2>3. f[lo + d] \in Content
    BY <1>2, <2>1
  <2>4. w[lo + (d + 1)] \in Line
    BY <2>1
  <2>5. w[lo + (d + 1)].frag \in Content
    BY <2>4 DEF Line
  <2> QED  BY <2>2, <2>3, <2>5, MergeContentType
<1> HIDE DEF T
<1>3. \A d \in Nat : d \in T
  BY <1>1, <1>2, SetInduction
<1> SUFFICES ASSUME NEW i \in lo..hi PROVE f[i] \in Content
  OBVIOUS
<1>4. i - lo \in T /\ lo + (i - lo) = i
  BY <1>3
<1> QED  BY <1>4 DEF T

\* Two runs over lines that agree are the same as far as both go.
LEMMA RunUnique ==
  ASSUME NEW c, NEW w, NEW v, NEW lo \in Nat, NEW hi \in Nat, NEW hj \in Nat, hi <= hj,
         NEW f, NEW g, Run(c, w, lo, hi, f), Run(c, v, lo, hj, g),
         \A i \in (lo + 1)..hi : w[i] = v[i]
  PROVE  \A i \in lo..hi : f[i] = g[i]
<1> DEFINE T == {d \in Nat : lo + d <= hi => f[lo + d] = g[lo + d]}
<1>1. 0 \in T
  BY DEF Run
<1>2. ASSUME NEW d \in Nat, d \in T PROVE d + 1 \in T
  <2> SUFFICES ASSUME lo + (d + 1) <= hi PROVE f[lo + (d + 1)] = g[lo + (d + 1)]
    OBVIOUS
  <2> DEFINE j == lo + (d + 1)
  <2>1. j \in lo..hi /\ j \in lo..hj /\ j # lo /\ j - 1 = lo + d /\ j \in (lo + 1)..hi
    OBVIOUS
  <2> HIDE DEF j
  <2>2. /\ f[j] = MergeContent(f[j - 1], w[j].frag)
        /\ g[j] = MergeContent(g[j - 1], v[j].frag)
    BY <2>1 DEF Run
  <2>3. f[j - 1] = g[j - 1] /\ w[j] = v[j]
    BY <1>2, <2>1
  <2>4. f[j] = g[j]
    BY <2>2, <2>3
  <2> QED  BY <2>4 DEF j
<1> HIDE DEF T
<1>3. \A d \in Nat : d \in T
  BY <1>1, <1>2, SetInduction
<1> SUFFICES ASSUME NEW i \in lo..hi PROVE f[i] = g[i]
  OBVIOUS
<1>4. i - lo \in T /\ lo + (i - lo) = i
  BY <1>3
<1> QED  BY <1>4 DEF T

\* There is a run of any length.
LEMMA RunExists ==
  ASSUME NEW c, NEW w, NEW lo \in Nat, NEW hi \in Nat, lo <= hi
  PROVE  \E f : Run(c, w, lo, hi, f)
<1> DEFINE T == {d \in Nat : \E f : Run(c, w, lo, lo + d, f)}
<1>1. 0 \in T
  <2> DEFINE f == [i \in lo..(lo + 0) |-> c]
  <2>1. Run(c, w, lo, lo + 0, f)
    BY DEF Run
  <2> QED  BY <2>1
<1>2. ASSUME NEW d \in Nat, d \in T PROVE d + 1 \in T
  <2>1. PICK f : Run(c, w, lo, lo + d, f)
    BY <1>2
  <2> DEFINE h == lo + (d + 1)
             step(i) == IF i = h THEN MergeContent(f[h - 1], w[h].frag) ELSE f[i]
             g == [i \in lo..h |-> step(i)]
  <2>2. ASSUME NEW i \in lo..h
        PROVE  g[i] = IF i = lo THEN c ELSE MergeContent(g[i - 1], w[i].frag)
    <3>1. g[i] = step(i) /\ (i # lo => g[i - 1] = step(i - 1))
      <4>1. i # lo => i - 1 \in lo..h
        OBVIOUS
      <4> QED  BY <4>1
    <3>2. CASE i = h
      BY <3>1, <3>2
    <3>3. CASE i # h
      <4>1. i \in lo..(lo + d) /\ i - 1 # h
        BY <3>3
      <4>2. f[i] = IF i = lo THEN c ELSE MergeContent(f[i - 1], w[i].frag)
        BY <2>1, <4>1 DEF Run
      <4> QED  BY <3>1, <3>3, <4>1, <4>2
    <3> QED  BY <3>2, <3>3
  <2> HIDE DEF step
  <2>3. Run(c, w, lo, h, g)
    BY <2>2 DEF Run
  <2> QED  BY <2>3
<1> HIDE DEF T
<1>3. \A d \in Nat : d \in T
  BY <1>1, <1>2, SetInduction
<1>4. hi - lo \in T /\ lo + (hi - lo) = hi
  BY <1>3
<1> QED  BY <1>4 DEF T

\* So Replayed is the end of one.
LEMMA ReplayedRun ==
  ASSUME NEW c, NEW w, NEW lo \in Nat, NEW hi \in Nat, lo <= hi
  PROVE  \E f : Run(c, w, lo, hi, f) /\ Replayed(c, w, lo, hi) = f[hi]
<1> DEFINE merged == CHOOSE f : Run(c, w, lo, hi, f)
<1>1. Run(c, w, lo, hi, merged)
  BY RunExists
<1>2. Replayed(c, w, lo, hi) = merged[hi]
  BY DEF Replayed, Run
<1> QED  BY <1>1, <1>2

\* Replay of no line, of one line more, and what it returns.
LEMMA ReplayedFacts ==
  ASSUME NEW c \in Content, NEW w \in Seq(Line), NEW lo \in Nat, NEW hi \in 0..Len(w),
         lo <= hi
  PROVE  /\ Replayed(c, w, lo, lo) = c
         /\ Replayed(c, w, lo, hi) \in Content
         /\ hi < Len(w) => Replayed(c, w, lo, hi + 1)
                             = MergeContent(Replayed(c, w, lo, hi), w[hi + 1].frag)
<1>1. PICK f : Run(c, w, lo, hi, f) /\ Replayed(c, w, lo, hi) = f[hi]
  BY ReplayedRun
<1>2. Replayed(c, w, lo, lo) = c
  <2>1. PICK g : Run(c, w, lo, lo, g) /\ Replayed(c, w, lo, lo) = g[lo]
    BY ReplayedRun
  <2>2. lo \in lo..lo
    OBVIOUS
  <2> QED  BY <2>1, <2>2 DEF Run
<1>3. Replayed(c, w, lo, hi) \in Content
  <2>1. hi \in lo..hi
    OBVIOUS
  <2> QED  BY <1>1, <2>1, RunType
<1>4. ASSUME hi < Len(w)
      PROVE  Replayed(c, w, lo, hi + 1)
               = MergeContent(Replayed(c, w, lo, hi), w[hi + 1].frag)
  <2>1. hi + 1 \in Nat /\ lo <= hi + 1 /\ hi <= hi + 1 /\ hi \in Nat
    OBVIOUS
  <2>2. PICK g : Run(c, w, lo, hi + 1, g) /\ Replayed(c, w, lo, hi + 1) = g[hi + 1]
    BY <2>1, ReplayedRun
  <2>3. \A i \in lo..hi : f[i] = g[i]
    <3>1. Run(c, w, lo, hi, f) /\ Run(c, w, lo, hi + 1, g)
      BY <1>1, <2>2
    <3>2. \A i \in (lo + 1)..hi : w[i] = w[i]
      OBVIOUS
    <3> QED  BY <2>1, <3>1, <3>2, RunUnique, SMTT(30)
  <2>4. hi + 1 \in lo..(hi + 1) /\ hi + 1 # lo /\ (hi + 1) - 1 = hi /\ hi \in lo..hi
    OBVIOUS
  <2>5. g[hi + 1] = MergeContent(g[hi], w[hi + 1].frag)
    BY <2>2, <2>4 DEF Run
  <2> QED  BY <1>1, <2>2, <2>3, <2>4, <2>5
<1> QED  BY <1>2, <1>3, <1>4

\* Replay reads no line but those it is given.
LEMMA ReplayedSame ==
  ASSUME NEW c, NEW w, NEW v, NEW lo \in Nat, NEW hi \in Nat, lo <= hi,
         \A i \in (lo + 1)..hi : w[i] = v[i]
  PROVE  Replayed(c, w, lo, hi) = Replayed(c, v, lo, hi)
<1>1. PICK f : Run(c, w, lo, hi, f) /\ Replayed(c, w, lo, hi) = f[hi]
  BY ReplayedRun
<1>2. PICK g : Run(c, v, lo, hi, g) /\ Replayed(c, v, lo, hi) = g[hi]
  BY ReplayedRun
<1>3. \A i \in lo..hi : f[i] = g[i]
  BY <1>1, <1>2, RunUnique
<1> QED  BY <1>1, <1>2, <1>3

\* More lines cover what fewer do.
LEMMA ReplayedGrows ==
  ASSUME NEW c \in Content, NEW w \in Seq(Line), NEW lo \in Nat, NEW hi \in 0..Len(w),
         lo <= hi, NEW k \in hi..Len(w), NEW s \in Content,
         Covers(Replayed(c, w, lo, hi), s)
  PROVE  Covers(Replayed(c, w, lo, k), s)
<1> DEFINE T == {d \in Nat : hi + d <= Len(w) => Covers(Replayed(c, w, lo, hi + d), s)}
<1>1. 0 \in T
  <2>1. hi + 0 = hi
    OBVIOUS
  <2> QED  BY <2>1
<1>2. ASSUME NEW d \in Nat, d \in T PROVE d + 1 \in T
  <2> SUFFICES ASSUME hi + (d + 1) <= Len(w)
               PROVE  Covers(Replayed(c, w, lo, hi + (d + 1)), s)
    OBVIOUS
  <2> DEFINE j == hi + d
  <2>1. j \in 0..Len(w) /\ lo <= j /\ j < Len(w) /\ hi + (d + 1) = j + 1
        /\ j + 1 \in 1..Len(w)
    OBVIOUS
  <2>2. Covers(Replayed(c, w, lo, j), s)
    BY <1>2, <2>1
  <2> HIDE DEF j
  <2>3. w[j + 1] \in Line
    BY <2>1
  <2>4. w[j + 1].frag \in Content
    BY <2>3 DEF Line
  <2>5. /\ Replayed(c, w, lo, j) \in Content
        /\ Replayed(c, w, lo, j + 1) = MergeContent(Replayed(c, w, lo, j), w[j + 1].frag)
    BY <2>1, ReplayedFacts
  <2>6. Covers(Replayed(c, w, lo, j + 1), s)
    BY <2>2, <2>4, <2>5, CoversStable
  <2> QED  BY <2>1, <2>6
<1> HIDE DEF T
<1>3. \A d \in Nat : d \in T
  BY <1>1, <1>2, SetInduction
<1>4. k - hi \in T /\ hi + (k - hi) = k /\ k <= Len(w)
  BY <1>3
<1> QED  BY <1>4 DEF T

\* A state that covers another still does when both merge the same.
LEMMA CoversBoth ==
  ASSUME NEW s \in Content, NEW f \in Content, NEW g \in Content, Covers(s, f)
  PROVE  Covers(MergeContent(s, g), MergeContent(f, g))
<1> DEFINE m == MergeContent(s, g)
<1>1. m \in Content /\ MergeContent(f, g) \in Content
  BY MergeContentType
<1>2. Covers(m, f) /\ Covers(m, g)
  BY CoversStable, CoversMerged
<1>3. MergeContent(m, MergeContent(f, g)) = MergeContent(MergeContent(m, f), g)
  BY <1>1, MergeLaws
<1> HIDE DEF m
<1> QED  BY <1>2, <1>3 DEF Covers, m

-----------------------------------------------------------------------------
(* What a step does to memory and log, whichever operation it is of *)

\* A mutation that is journaled and then visible.
Accepted(m) ==
  /\ Up /\ phase # "closed"
  /\ AppendOK(m)
  /\ mem' = MergeContent(mem, m.frag)
  /\ deltaSeq' = Larger(deltaSeq, m.seq)
  /\ UNCHANGED <<phase, ckpt, replay>>

\* A received mutation that says nothing new.
Known ==
  /\ Up
  /\ KeepsAcked => deltaSeq' = deltaSeq
  /\ UNCHANGED <<phase, mem, pendingSync, replay, wal, torn, synced, ckpt, acked>>

\* A mutation that is rolled back.
Refused(m) ==
  /\ Up /\ phase # "closed"
  /\ AppendShort \/ AppendUnsynced(m)
  /\ UNCHANGED <<phase, mem, deltaSeq, replay, ckpt, acked>>

\* The process is gone.
Ended == phase' = "down" /\ UNCHANGED ckpt /\ Unsynced' \subseteq Unsynced

\* What a mutation cut short by the end of the process leaves behind.
LEMMA CutEnds ==
  ASSUME TypeOK, NEW m, AppendCut(m), ProcessEnds, UNCHANGED <<ckpt, acked>>
  PROVE  Ended
<1>1. synced' \in {synced, Len(wal) + 1} /\ synced \in 0..Len(wal) /\ Len(wal) \in Nat
      /\ acked \subseteq 1..Len(wal)
  BY DEF AppendCut, TypeOK
<1>2. Unsynced' \subseteq Unsynced
  <2> SUFFICES ASSUME NEW i \in acked, i > synced' PROVE i > synced
    BY DEF Unsynced
  <2> QED  BY <1>1
<1> QED  BY <1>2 DEF Ended, ProcessEnds

\* A local update either is journaled, as the merge of its own delta, or changes
\* nothing the node serves.
LEMMA LocalSteps ==
  ASSUME Inv, NEW after \in Content, NEW frag \in Content, NEW inc,
         LocalUpdate(after, frag, inc), after = MergeContent(mem, frag)
  PROVE  \/ \E m \in Mutation : Accepted(m) \/ Refused(m)
         \/ Ended
<1> DEFINE m == [frag |-> frag, seq |-> deltaSeq + 1]
<1>1. m \in Mutation /\ m.frag = frag /\ m.seq = deltaSeq + 1 /\ TypeOK /\ deltaSeq \in Nat
  BY DEF Inv, TypeOK, Mutation
<1>2. Larger(deltaSeq, deltaSeq + 1) = deltaSeq + 1
  BY <1>1 DEF Larger
<1>3. phase = "running" /\ UNCHANGED ckpt /\ Up
  BY DEF LocalUpdate, Up
<1>4. CASE /\ AppendOK(m) /\ mem' = after /\ deltaSeq' = m.seq
           /\ UNCHANGED <<phase, replay>>
  BY <1>1, <1>2, <1>3, <1>4 DEF Accepted
<1>5. CASE (AppendShort \/ AppendUnsynced(m))
           /\ UNCHANGED <<phase, manager, replay, acked>>
  BY <1>1, <1>3, <1>5 DEF Refused, manager
<1>6. CASE AppendCut(m) /\ ProcessEnds /\ UNCHANGED acked
  BY <1>1, <1>3, <1>6, CutEnds
<1> HIDE DEF m
<1> QED  BY <1>4, <1>5, <1>6 DEF LocalUpdate, m, ghost

\* The sequence of a mutation that arrives is one this node has reached.
LEMMA ReceivedSteps ==
  ASSUME Inv, ApplyReceivedDelta \/ ApplySnapshot
  PROVE  \/ \E m \in Mutation : Accepted(m) \/ Refused(m)
         \/ Known
         \/ Ended
<1>1. PICK m \in Mutation : Receive(m) /\ (m.seq = 0 \/ \E o \in issued : m.seq = o.seq)
  <2>0. TypeOK
    BY DEF Inv
  <2>1. CASE \E f \in PeerFragment : Receive([frag |-> f, seq |-> 0])
    <3>1. PICK f \in PeerFragment : Receive([frag |-> f, seq |-> 0])
      BY <2>1
    <3>2. [frag |-> f, seq |-> 0] \in Mutation
      BY InputAssumption DEF Mutation
    <3> QED  BY <3>1, <3>2
  <2>2. CASE \E m \in issued : Receive(m)
    BY <2>0, <2>2 DEF TypeOK
  <2>3. CASE ApplySnapshot
    <3>1. PICK f \in PeerFragment, o \in issued :
            Receive([frag |-> MergeContent(f, o.frag), seq |-> o.seq])
      BY <2>3 DEF ApplySnapshot
    <3>2. [frag |-> MergeContent(f, o.frag), seq |-> o.seq] \in Mutation
      BY <2>0, InputAssumption, MergeContentType DEF TypeOK, Mutation
    <3> QED  BY <3>1, <3>2
  <2> QED  BY <2>1, <2>2, <2>3 DEF ApplyReceivedDelta
<1>2. TypeOK /\ Up /\ UNCHANGED ckpt /\ deltaSeq \in Nat /\ m.seq \in Nat
  BY <1>1 DEF Inv, TypeOK, Receive, Mutation
<1>3. KeepsAcked => Larger(deltaSeq, m.seq) = deltaSeq
  <2> SUFFICES ASSUME KeepsAcked PROVE m.seq <= deltaSeq
    BY <1>2 DEF Larger
  <2>1. CASE m.seq = 0
    BY <1>2, <2>1
  <2>2. CASE \E o \in issued : m.seq = o.seq
    <3>1. PICK i \in acked : wal[i].seq = m.seq
      BY <2>2 DEF Inv, OnLine
    <3> QED  BY <1>2, <3>1 DEF Inv, LinesHeld, Holds
  <2> QED  BY <1>1, <2>1, <2>2
<1>4. CASE /\ deltaSeq' = Larger(deltaSeq, m.seq)
           /\ UNCHANGED <<phase, mem, pendingSync, replay, wal, torn, synced, ghost>>
  BY <1>2, <1>3, <1>4 DEF Known, ghost
<1>5. CASE /\ phase # "closed" /\ AppendOK(m) /\ mem' = MergeContent(mem, m.frag)
           /\ deltaSeq' = Larger(deltaSeq, m.seq) /\ UNCHANGED <<phase, replay>>
  BY <1>2, <1>5 DEF Accepted
<1>6. CASE /\ phase # "closed" /\ (AppendShort \/ AppendUnsynced(m))
           /\ UNCHANGED <<phase, manager, replay, ghost>>
  BY <1>2, <1>6 DEF Refused, manager, ghost
<1>7. CASE AppendCut(m) /\ ProcessEnds /\ UNCHANGED ghost
  BY <1>2, <1>7, CutEnds DEF ghost
<1> QED  BY <1>1, <1>4, <1>5, <1>6, <1>7 DEF Receive

\* Every step, sorted by what it does.
LEMMA Steps ==
  ASSUME Inv, [Next]_vars
  PROVE  \/ \E m \in Mutation : Accepted(m) \/ Refused(m)
         \/ Known
         \/ Ended
         \/ ApplyBadSnapshot
         \/ Checkpoint \/ ShutdownCheckpoint \/ CloseStore
         \/ StartupFails \/ Recover \/ ReplayLine \/ FinishRecovery
         \/ UNCHANGED vars
<1>0. TypeOK /\ mem \in Content /\ Canonical(mem) /\ Self \in Node
  BY ConfigAssumption DEF Inv, TypeOK, KeptCanonical
<1>1. ASSUME NEW inc \in Increment, ApplyLocalSUM(inc)
      PROVE  (\E m \in Mutation : Accepted(m) \/ Refused(m)) \/ Ended
  <2> DEFINE contrib == UpdateSUM(mem.sum, Self, inc)
             after == [mem EXCEPT !.sum = contrib]
             frag == SUMFragment(Self, contrib[Self])
  <2>1. UpdateFits(mem.sum, Self, inc) /\ LocalUpdate(after, frag, inc) /\ inc \in Nat
    BY <1>1, InputAssumption DEF ApplyLocalSUM
  <2>2. frag \in Content /\ after = MergeContent(mem, frag)
    BY <1>0, <2>1, UpdateSUMMerges
  <2> HIDE DEF after, frag
  <2> QED  BY <1>0, <2>1, <2>2, MergeContentType, LocalSteps
<1>2. ASSUME NEW c \in LocalCandidate, ApplyLocalTOPK(c)
      PROVE  (\E m \in Mutation : Accepted(m) \/ Refused(m)) \/ Ended
  <2> DEFINE after == [mem EXCEPT !.topk = MergeTOPK(mem.topk, {c})]
             frag == TOPKFragment(c)
  <2>1. LocalUpdate(after, frag, 0) /\ c \in Candidate
    BY <1>2, InputAssumption DEF ApplyLocalTOPK
  <2>2. frag \in Content /\ after = MergeContent(mem, frag)
    BY <1>0, <2>1, UpdateTOPKMerges
  <2> HIDE DEF after, frag
  <2> QED  BY <1>0, <2>1, <2>2, MergeContentType, LocalSteps
<1>3. CASE Crash
  <2>1. Unsynced' = Unsynced
    BY <1>3 DEF Crash, Unsynced, disk, ghost
  <2> QED  BY <1>3, <2>1 DEF Crash, Ended, ProcessEnds, disk
<1>4. CASE PowerLoss
  <2>1. Unsynced' \subseteq Unsynced
    BY <1>4 DEF PowerLoss, Unsynced
  <2> QED  BY <1>4, <2>1 DEF PowerLoss, Ended, ProcessEnds
<1> QED  BY <1>1, <1>2, <1>3, <1>4, ReceivedSteps DEF Next

-----------------------------------------------------------------------------
(* Batch mode *)

\* Acknowledged lines that are not durable are finitely many.
LEMMA UnsyncedFinite ==
  ASSUME TypeOK
  PROVE  IsFiniteSet(Unsynced) /\ Cardinality(Unsynced) \in Nat
<1>0. acked \subseteq 1..Len(wal) /\ Len(wal) \in Nat
  BY DEF TypeOK
<1>1. Unsynced \in SUBSET (1..Len(wal)) /\ Len(wal) \in Nat
  BY <1>0 DEF Unsynced
<1>2. IsFiniteSet(1..Len(wal))
  BY <1>1, FS_Interval
<1>3. IsFiniteSet(Unsynced)
  BY <1>1, <1>2, FS_Subset
<1> QED  BY <1>3, FS_CardinalityType

\* The count is kept by steps that acknowledge nothing new and count no less.
LEMMA LossKept ==
  ASSUME TypeOK, TypeOK', LossCounted, Unsynced' \subseteq Unsynced,
         \/ phase' \in {"down", "failed"}
         \/ phase \notin {"down", "failed"} /\ pendingSync <= pendingSync'
         \/ Unsynced' = {}
  PROVE  LossCounted'
<1>1. /\ IsFiniteSet(Unsynced) /\ Cardinality(Unsynced) \in Nat
      /\ pendingSync \in Nat /\ pendingSync' \in Nat /\ BatchSize \in Nat /\ BatchSize > 0
  BY UnsyncedFinite, ConfigAssumption DEF TypeOK
<1>2. Unsynced' \in SUBSET Unsynced
  OBVIOUS
<1>3. /\ IsFiniteSet(Unsynced') /\ Cardinality(Unsynced') <= Cardinality(Unsynced)
      /\ Cardinality(Unsynced') \in Nat
  BY <1>1, <1>2, FS_Subset, FS_CardinalityType
<1>4. Unsynced' = {} => Cardinality(Unsynced') = 0
  BY FS_EmptySet
<1> QED  BY <1>1, <1>3, <1>4 DEF LossCounted, BoundedLoss

\* Every step keeps the count.
LEMMA LossStep ==
  ASSUME Inv, TypeOK', LossCounted, [Next]_vars, SyncMode # "none"
  PROVE  LossCounted'
<1>0. /\ TypeOK /\ Len(wal) \in Nat /\ synced \in Nat /\ pendingSync \in Nat
      /\ acked \subseteq 1..Len(wal) /\ BatchSize \in Nat
  BY ConfigAssumption DEF Inv, TypeOK
<1>1. ASSUME NEW m \in Mutation, Accepted(m) PROVE LossCounted'
  <2>1. /\ acked' = acked \cup {Len(wal) + 1}
        /\ synced' = (IF SyncDue THEN Len(wal) + 1 ELSE synced)
        /\ pendingSync' = (IF SyncDue THEN 0 ELSE pendingSync + 1)
        /\ phase' = phase /\ phase \notin {"down", "failed"}
    BY <1>1 DEF Accepted, AppendOK, Up
  <2>2. CASE SyncDue
    <3>1. Unsynced' = {}
      <4>1. \A i \in acked' : ~(i > synced')
        BY <1>0, <2>1, <2>2
      <4> QED  BY <4>1 DEF Unsynced
    <3> QED  BY <1>0, <3>1, LossKept
  <2>3. CASE ~SyncDue
    <3>1. pendingSync + 1 < BatchSize
      BY <1>0, <2>3, ConfigAssumption DEF SyncDue
    <3>2. Unsynced' \subseteq Unsynced \cup {Len(wal) + 1}
      BY <2>1, <2>3 DEF Unsynced
    <3>3. /\ IsFiniteSet(Unsynced) /\ Cardinality(Unsynced) \in Nat
          /\ Cardinality(Unsynced) <= pendingSync
      BY <1>0, <2>1, UnsyncedFinite DEF LossCounted
    <3>4. /\ IsFiniteSet(Unsynced \cup {Len(wal) + 1})
          /\ Cardinality(Unsynced \cup {Len(wal) + 1}) <= pendingSync + 1
          /\ Cardinality(Unsynced \cup {Len(wal) + 1}) \in Nat
      <4>1. /\ IsFiniteSet(Unsynced \cup {Len(wal) + 1})
            /\ \/ Cardinality(Unsynced \cup {Len(wal) + 1}) = Cardinality(Unsynced)
               \/ Cardinality(Unsynced \cup {Len(wal) + 1}) = Cardinality(Unsynced) + 1
        BY <3>3, FS_AddElement
      <4> QED  BY <1>0, <3>3, <4>1
    <3>5. Cardinality(Unsynced') <= pendingSync + 1 /\ Cardinality(Unsynced') \in Nat
      <4>1. Unsynced' \in SUBSET (Unsynced \cup {Len(wal) + 1})
        BY <3>2
      <4>2. /\ IsFiniteSet(Unsynced')
            /\ Cardinality(Unsynced') <= Cardinality(Unsynced \cup {Len(wal) + 1})
        BY <3>4, <4>1, FS_Subset
      <4>3. Cardinality(Unsynced') \in Nat
        BY <4>2, FS_CardinalityType
      <4> QED  BY <1>0, <3>4, <4>2, <4>3
    <3> QED  BY <1>0, <2>1, <2>3, <3>1, <3>5 DEF LossCounted, BoundedLoss
  <2> QED  BY <2>2, <2>3
<1>2. ASSUME NEW m \in Mutation, Refused(m) PROVE LossCounted'
  <2>1. /\ acked' = acked /\ synced' = synced /\ pendingSync <= pendingSync'
        /\ phase' = phase /\ phase \notin {"down", "failed"}
    BY <1>0, <1>2 DEF Refused, AppendShort, AppendUnsynced, Up
  <2>2. Unsynced' = Unsynced
    BY <2>1 DEF Unsynced
  <2> QED  BY <1>0, <2>1, <2>2, LossKept
<1>3. CASE Ended
  BY <1>0, <1>3, LossKept DEF Ended
<1>4. CASE Known \/ ApplyBadSnapshot \/ UNCHANGED vars \/ ReplayLine \/ FinishRecovery
           \/ StartupFails
  <2>1. UNCHANGED <<acked, synced, pendingSync>>
        /\ (phase \in {"down", "failed"} => phase' \in {"down", "failed"})
    BY <1>4 DEF Known, ApplyBadSnapshot, vars, ReplayLine, FinishRecovery, StartupFails,
                Up, disk, ghost
  <2>2. Unsynced' = Unsynced
    BY <2>1 DEF Unsynced
  <2> QED  BY <1>0, <2>1, <2>2, LossKept
<1>5. CASE Checkpoint \/ ShutdownCheckpoint \/ CloseStore \/ Recover
  <2>1. acked' = acked /\ synced' = Len(wal)
    BY <1>5 DEF Checkpoint, ShutdownCheckpoint, SaveCheckpoint, CloseStore, Recover, ghost
  <2>2. Unsynced' = {}
    <3>1. \A i \in acked' : ~(i > synced')
      BY <1>0, <2>1
    <3> QED  BY <3>1 DEF Unsynced
  <2> QED  BY <1>0, <2>2, LossKept
<1> QED  BY <1>1, <1>2, <1>3, <1>4, <1>5, Steps

\* In batch and in always mode a power loss costs fewer than BatchSize
\* acknowledged lines, whatever the log went through: failed syncs, short writes,
\* crashes, checkpoints and restarts (Append counts in pendingSync every line it
\* has not synced, also those whose sync failed).
THEOREM LossIsBounded == ASSUME SyncMode # "none" PROVE Spec => []BoundedLoss
<1>1. Init => LossCounted
  <2> SUFFICES ASSUME Init PROVE LossCounted
    OBVIOUS
  <2>1. Unsynced = {}
    BY DEF Init, Unsynced
  <2> QED  BY <2>1, FS_EmptySet, ConfigAssumption DEF Init, LossCounted, BoundedLoss
<1>2. Inv /\ Inv' /\ LossCounted /\ [Next]_vars => LossCounted'
  BY LossStep DEF Inv
<1>3. LossCounted => BoundedLoss
  BY DEF LossCounted
<1> QED  BY <1>1, <1>2, <1>3, Invariance, PTL DEF Spec

-----------------------------------------------------------------------------
(* What a restart rebuilds *)

\* The files a restart starts from.
LEMMA Files ==
  ASSUME Inv
  PROVE  /\ ckpt.frag \in Content /\ ckpt.index \in Nat /\ ckpt.seq \in Nat
         /\ wal \in Seq(Line) /\ Len(wal) \in Nat
         /\ synced \in 0..Len(wal) /\ ckpt.index <= synced /\ ckpt.index <= Len(wal)
         /\ mem \in Content /\ Canonical(mem) /\ deltaSeq \in Nat
<1>1. /\ ckpt.frag \in Content /\ ckpt.index \in Nat /\ ckpt.seq \in Nat
      /\ wal \in Seq(Line) /\ Len(wal) \in Nat
      /\ synced \in 0..Len(wal) /\ mem \in Content /\ deltaSeq \in Nat
  BY DEF Inv, TypeOK, CheckpointFile
<1>2. ckpt.index <= synced /\ Canonical(mem)
  BY DEF Inv, CheckpointBehind, KeptCanonical
<1> QED  BY <1>1, <1>2

\* A canonical content covers itself.
LEMMA CoversItself ==
  ASSUME NEW s \in Content, Canonical(s)
  PROVE  Covers(s, s)
BY MergeLaws DEF Covers

LEMMA RebuiltIs ==
  ASSUME Inv, NEW k \in ckpt.index..Len(wal)
  PROVE  /\ Rebuilt(k) = Replayed(ckpt.frag, wal, ckpt.index, k)
         /\ Rebuilt(k) \in Content
         /\ Rebuilt(ckpt.index) = ckpt.frag
         /\ k < Len(wal) => Rebuilt(k + 1) = MergeContent(Rebuilt(k), wal[k + 1].frag)
         /\ \A j \in k..Len(wal), s \in Content :
              Covers(Rebuilt(k), s) => Covers(Rebuilt(j), s)
<1>1. \A i \in ckpt.index..Len(wal) :
        Rebuilt(i) = Replayed(ckpt.frag, wal, ckpt.index, i)
  BY Files DEF Rebuilt, Larger
<1>2. k \in 0..Len(wal) /\ ckpt.index <= k /\ ckpt.index \in ckpt.index..Len(wal)
  BY Files
<1>3. /\ Replayed(ckpt.frag, wal, ckpt.index, ckpt.index) = ckpt.frag
      /\ Replayed(ckpt.frag, wal, ckpt.index, k) \in Content
      /\ k < Len(wal) =>
           Replayed(ckpt.frag, wal, ckpt.index, k + 1)
             = MergeContent(Replayed(ckpt.frag, wal, ckpt.index, k), wal[k + 1].frag)
  BY <1>2, Files, ReplayedFacts
<1>4. k < Len(wal) => k + 1 \in ckpt.index..Len(wal)
  BY <1>2, Files
<1>5. ASSUME NEW j \in k..Len(wal), NEW s \in Content, Covers(Rebuilt(k), s)
      PROVE  Covers(Rebuilt(j), s)
  <2>1. j \in ckpt.index..Len(wal)
    BY <1>2, Files
  <2>2. Covers(Replayed(ckpt.frag, wal, ckpt.index, k), s)
    BY <1>1, <1>5
  <2>3. Covers(Replayed(ckpt.frag, wal, ckpt.index, j), s)
    BY <1>2, <2>2, Files, ReplayedGrows
  <2> QED  BY <1>1, <2>1, <2>3
<1> QED  BY <1>1, <1>2, <1>3, <1>4, <1>5

\* One more line in the log: what the earlier ones rebuild stays, and the new
\* one is merged on top of it.
LEMMA RebuiltAppend ==
  ASSUME Inv, Inv', NEW m \in Mutation, WriteLine(m), ckpt' = ckpt
  PROVE  /\ Len(wal') = Len(wal) + 1 /\ m.frag \in Content
         /\ \A k \in ckpt.index..Len(wal) :
              Replayed(ckpt'.frag, wal', ckpt'.index, k) = Rebuilt(k)
         /\ Replayed(ckpt'.frag, wal', ckpt'.index, Len(wal) + 1)
              = MergeContent(Rebuilt(Len(wal)), m.frag)
<1>1. /\ wal' \in Seq(Line) /\ Len(wal') = Len(wal) + 1
      /\ \A i \in 1..Len(wal) : wal'[i] = wal[i]
      /\ wal'[Len(wal) + 1].frag = m.frag /\ m.frag \in Content
  <2>1. m.frag \in Content
    BY DEF Mutation
  <2>2. TypeOK
    BY DEF Inv
  <2>3. /\ wal' \in Seq(Line) /\ Len(wal') = Len(wal) + 1
        /\ \A i \in 1..Len(wal) : wal'[i] = wal[i]
        /\ wal'[Len(wal) + 1] = [frag |-> m.frag, seq |-> m.seq, ok |-> ~torn]
    BY <2>2, WriteLineFacts
  <2> QED  BY <2>1, <2>3
<1>2. ASSUME NEW k \in ckpt.index..Len(wal)
      PROVE  Replayed(ckpt'.frag, wal', ckpt'.index, k) = Rebuilt(k)
  <2>1. k \in Nat /\ ckpt.index <= k /\ ckpt.index \in Nat
    BY Files
  <2>2. \A i \in (ckpt.index + 1)..k : wal'[i] = wal[i]
    BY <1>1, <2>1, Files
  <2>3. Replayed(ckpt.frag, wal', ckpt.index, k) = Replayed(ckpt.frag, wal, ckpt.index, k)
    BY <2>1, <2>2, ReplayedSame
  <2> QED  BY <2>3, RebuiltIs
<1>3. Len(wal) \in ckpt.index..Len(wal) /\ Len(wal) \in 0..Len(wal') /\ Len(wal) < Len(wal')
      /\ ckpt.index <= Len(wal)
  BY <1>1, Files
<1>4. Replayed(ckpt.frag, wal', ckpt.index, Len(wal) + 1)
        = MergeContent(Replayed(ckpt.frag, wal', ckpt.index, Len(wal)), m.frag)
  <2>1. ASSUME NEW w \in Seq(Line), NEW c \in Content, NEW lo \in Nat, NEW hi \in 0..Len(w),
               lo <= hi, hi < Len(w)
        PROVE  Replayed(c, w, lo, hi + 1)
                 = MergeContent(Replayed(c, w, lo, hi), w[hi + 1].frag)
    BY <2>1, ReplayedFacts
  <2>2. ckpt.frag \in Content /\ ckpt.index \in Nat
    BY Files
  <2>3. Replayed(ckpt.frag, wal', ckpt.index, Len(wal) + 1)
          = MergeContent(Replayed(ckpt.frag, wal', ckpt.index, Len(wal)),
                         wal'[Len(wal) + 1].frag)
    BY <1>1, <1>3, <2>1, <2>2
  <2> QED  BY <1>1, <2>3
<1> QED  BY <1>1, <1>2, <1>3, <1>4

\* The same in the next state.
LEMMA RebuiltNext ==
  ASSUME Inv', NEW k \in ckpt'.index..Len(wal')
  PROVE  Replayed(ckpt'.frag, wal', ckpt'.index, Larger(ckpt'.index, k))
           = Replayed(ckpt'.frag, wal', ckpt'.index, k)
<1>1. ckpt'.index \in Nat /\ Len(wal') \in Nat
  BY DEF Inv, TypeOK, CheckpointFile
<1> QED  BY <1>1 DEF Larger

LEMMA RebuildableNext ==
  ASSUME Inv',
         Up' => Covers(Replayed(ckpt'.frag, wal', ckpt'.index, Len(wal')), mem'),
         Up' /\ SyncMode = "always"
           => Covers(Replayed(ckpt'.frag, wal', ckpt'.index, synced'), mem'),
         phase' = "closed" => synced' = Len(wal'),
         phase' = "recovering" =>
           /\ ckpt'.index <= replay' /\ synced' = Len(wal')
           /\ Replayed(ckpt'.frag, wal', ckpt'.index, replay') = mem'
  PROVE  Rebuildable'
<1>1. /\ ckpt'.index \in Nat /\ Len(wal') \in Nat /\ synced' \in 0..Len(wal')
      /\ ckpt'.index <= synced' /\ replay' \in 0..Len(wal')
  BY DEF Inv, TypeOK, CheckpointFile, CheckpointBehind
<1>2. /\ Len(wal') \in ckpt'.index..Len(wal') /\ synced' \in ckpt'.index..Len(wal')
      /\ ckpt'.index <= replay' => replay' \in ckpt'.index..Len(wal')
  BY <1>1
<1>3. \A k \in ckpt'.index..Len(wal') :
        Replayed(ckpt'.frag, wal', ckpt'.index, Larger(ckpt'.index, k))
          = Replayed(ckpt'.frag, wal', ckpt'.index, k)
  BY RebuiltNext
<1> QED  BY <1>2, <1>3 DEF Rebuildable, Rebuilt

\* Every step keeps what a restart would rebuild at least as large as what is
\* served.
LEMMA RebuildableStep ==
  ASSUME Inv, Inv', Rebuildable, [Next]_vars, "badFragment" \notin Fault
  PROVE  Rebuildable'
<1> DEFINE N == Len(wal)
           After(k) == Replayed(ckpt'.frag, wal', ckpt'.index, k)
<1>0. /\ ckpt.frag \in Content /\ ckpt.index \in Nat /\ N \in Nat
      /\ synced \in 0..N /\ ckpt.index <= synced /\ ckpt.index <= N
      /\ N \in ckpt.index..N /\ synced \in ckpt.index..N /\ ckpt.index \in ckpt.index..N
      /\ mem \in Content /\ Canonical(mem) /\ Covers(mem, mem)
      /\ mem' \in Content /\ Canonical(mem') /\ Covers(mem', mem')
      /\ Rebuilt(N) \in Content /\ Rebuilt(synced) \in Content
  <2>1. /\ ckpt.frag \in Content /\ ckpt.index \in Nat /\ N \in Nat
        /\ synced \in 0..N /\ ckpt.index <= synced /\ ckpt.index <= N
        /\ mem \in Content /\ Canonical(mem)
    BY Files
  <2>2. mem' \in Content /\ Canonical(mem')
    BY DEF Inv, TypeOK, KeptCanonical
  <2>3. Covers(mem, mem) /\ Covers(mem', mem')
    BY <2>1, <2>2, CoversItself
  <2>4. N \in ckpt.index..N /\ synced \in ckpt.index..N /\ ckpt.index \in ckpt.index..N
    BY <2>1
  <2> QED  BY <2>1, <2>2, <2>3, <2>4, RebuiltIs
\* The log and the checkpoint are as they were.
<1>1. ASSUME UNCHANGED <<wal, ckpt>>, NEW k \in ckpt.index..N PROVE After(k) = Rebuilt(k)
  BY <1>1, RebuiltIs
<1>2. ASSUME NEW m \in Mutation, Accepted(m) PROVE Rebuildable'
  <2>1. /\ WriteLine(m) /\ ckpt' = ckpt /\ phase' = phase /\ phase # "closed" /\ Up
        /\ phase # "recovering"
        /\ mem' = MergeContent(mem, m.frag)
        /\ synced' = IF SyncDue THEN N + 1 ELSE synced
    BY <1>2 DEF Accepted, AppendOK, Up
  <2>2. /\ Len(wal') = N + 1 /\ m.frag \in Content
        /\ After(N + 1) = MergeContent(Rebuilt(N), m.frag)
    BY <2>1, RebuiltAppend
  <2>3. Covers(Rebuilt(N), mem)
    BY <2>1 DEF Rebuildable
  <2>4. Covers(After(N + 1), mem')
    BY <1>0, <2>1, <2>2, <2>3, CoversBoth
  <2>5. SyncMode = "always" => synced' = N + 1
    BY <2>1 DEF SyncDue
  <2> QED  BY <2>1, <2>2, <2>4, <2>5, RebuildableNext
<1>3. ASSUME NEW m \in Mutation, Refused(m) PROVE Rebuildable'
  <2>1. /\ ckpt' = ckpt /\ phase' = phase /\ phase # "closed" /\ Up /\ phase # "recovering"
        /\ mem' = mem /\ synced' = synced
    BY <1>3 DEF Refused, AppendShort, AppendUnsynced, Up
  <2>2. Covers(Rebuilt(N), mem) /\ (SyncMode = "always" => Covers(Rebuilt(synced), mem))
    BY <2>1 DEF Rebuildable
  <2>3. CASE AppendShort
    <3>1. wal' = wal
      BY <2>3 DEF AppendShort
    <3>2. After(N) = Rebuilt(N) /\ After(synced) = Rebuilt(synced)
      BY <1>0, <1>1, <2>1, <3>1
    <3> QED  BY <2>1, <2>2, <3>1, <3>2, RebuildableNext
  <2>4. CASE AppendUnsynced(m)
    <3>1. /\ Len(wal') = N + 1 /\ m.frag \in Content
          /\ After(synced) = Rebuilt(synced)
          /\ After(N + 1) = MergeContent(Rebuilt(N), m.frag)
      BY <1>0, <2>1, <2>4, RebuiltAppend DEF AppendUnsynced
    <3>2. Covers(After(N + 1), mem)
      BY <1>0, <2>2, <3>1, CoversStable
    <3> QED  BY <2>1, <2>2, <3>1, <3>2, RebuildableNext
  <2> QED  BY <1>3, <2>3, <2>4 DEF Refused
<1>4. CASE Ended \/ StartupFails
  <2>1. phase' \in {"down", "failed"}
    BY <1>4 DEF Ended, StartupFails
  <2> QED  BY <2>1 DEF Rebuildable, Up
<1>5. CASE Known \/ UNCHANGED vars
  <2>1. UNCHANGED <<phase, mem, replay, wal, synced, ckpt>>
    BY <1>5 DEF Known, vars, manager, disk
  <2> QED  BY <2>1 DEF Rebuildable, Rebuilt, Up
<1>6. ASSUME SaveCheckpoint, UNCHANGED <<mem, wal>>, phase' \in {"running", "stopping"}
      PROVE  Rebuildable'
  <2>1. ckpt'.frag = mem /\ ckpt'.index = N /\ synced' = N
    BY <1>0, <1>6 DEF SaveCheckpoint, Save
  <2>2. After(N) = mem
    <3>1. wal \in Seq(Line) /\ N \in 0..Len(wal)
      BY <1>0, Files
    <3> QED  BY <1>0, <1>6, <2>1, <3>1, ReplayedFacts
  <2> QED  BY <1>0, <1>6, <2>1, <2>2, RebuildableNext
<1>7. ASSUME UNCHANGED <<mem, wal, ckpt>>, Up, synced' = N, phase' # "recovering"
      PROVE  Rebuildable'
  <2>1. Covers(Rebuilt(N), mem)
    BY <1>7 DEF Rebuildable
  <2>2. After(N) = Rebuilt(N)
    BY <1>0, <1>1, <1>7
  <2> QED  BY <1>7, <2>1, <2>2, RebuildableNext
<1>8. CASE Checkpoint \/ ShutdownCheckpoint
  <2>1. /\ UNCHANGED <<mem, wal>> /\ phase' \in {"running", "stopping"} /\ Up
        /\ SaveCheckpoint \/ (synced' = N /\ ckpt' = ckpt)
    BY <1>8 DEF Checkpoint, ShutdownCheckpoint, manager, Up
  <2> QED  BY <1>6, <1>7, <2>1
<1>9. CASE CloseStore
  BY <1>7, <1>9 DEF CloseStore, manager, Up
<1>10. CASE Recover
  <2>1. /\ phase' = "recovering" /\ UNCHANGED <<wal, ckpt>> /\ synced' = N
        /\ mem' = ckpt.frag /\ replay' = ckpt.index
    BY <1>10 DEF Recover, RestoreCheckpoint
  <2>2. After(ckpt.index) = ckpt.frag
    BY <1>0, <1>1, <2>1, RebuiltIs
  <2> QED  BY <1>0, <2>1, <2>2, RebuildableNext DEF Up
<1>11. CASE ReplayLine
  <2>1. /\ phase = "recovering" /\ phase' = "recovering" /\ UNCHANGED <<wal, ckpt, synced>>
        /\ mem' = MergeContent(mem, wal[replay + 1].frag) /\ replay' = replay + 1
        /\ replay < N /\ replay \in Nat
    BY <1>11 DEF ReplayLine, disk, Inv, TypeOK
  <2>2. ckpt.index <= replay /\ synced = N /\ Rebuilt(replay) = mem
    BY <2>1 DEF Rebuildable
  <2>3. replay \in ckpt.index..N /\ replay + 1 \in ckpt.index..N
    BY <1>0, <2>1, <2>2
  <2>4. Rebuilt(replay + 1) = MergeContent(Rebuilt(replay), wal[replay + 1].frag)
    BY <2>1, <2>3, RebuiltIs
  <2>5. After(replay + 1) = mem'
    BY <1>1, <2>1, <2>2, <2>3, <2>4
  <2>6. ckpt.index <= replay + 1
    BY <1>0, <2>1, <2>2
  <2> QED  BY <2>1, <2>2, <2>5, <2>6, RebuildableNext DEF Up
<1>12. CASE FinishRecovery
  <2>1. /\ phase = "recovering" /\ phase' = "running" /\ replay = N
        /\ UNCHANGED <<mem, wal, ckpt, synced>>
    BY <1>12 DEF FinishRecovery, manager, disk
  <2>2. synced = N /\ Rebuilt(N) = mem
    BY <2>1 DEF Rebuildable
  <2>3. After(N) = mem
    BY <1>0, <1>1, <2>1, <2>2
  <2> QED  BY <1>0, <2>1, <2>2, <2>3, RebuildableNext
<1> HIDE DEF N, After
<1> QED
  BY <1>2, <1>3, <1>4, <1>5, <1>8, <1>9, <1>10, <1>11, <1>12, Steps DEF ApplyBadSnapshot

LEMMA RebuildableAlways == ASSUME "badFragment" \notin Fault PROVE Spec => []Rebuildable
<1>1. Init => Rebuildable
  BY DEF Init, Rebuildable, Up
<1>2. Inv /\ Inv' /\ Rebuildable /\ [Next]_vars => Rebuildable'
  BY RebuildableStep
<1> QED  BY <1>1, <1>2, Invariance, PTL DEF Spec

\* In always mode a restart from the durable part of the log rebuilds at least
\* what the node serves, for every sequence of failed syncs, short writes,
\* crashes and power losses: mutations reach the disk before they are visible.
\* (A snapshot that does not decode is the exception, see ApplyBadSnapshot.)
THEOREM DurableBeforeVisible ==
  ASSUME SyncMode = "always", "badFragment" \notin Fault
  PROVE  Spec => []JournaledBeforeVisible
<1>1. Rebuildable => JournaledBeforeVisible
  BY DEF Rebuildable, JournaledBeforeVisible
<1> QED  BY <1>1, RebuildableAlways, PTL

\* After Store.Close everything the node served is durable, in every sync mode.
THEOREM ShutdownIsClean ==
  ASSUME "badFragment" \notin Fault PROVE Spec => []CleanShutdown
<1>1. Rebuildable => CleanShutdown
  BY DEF Rebuildable, CleanShutdown, Up
<1> QED  BY <1>1, RebuildableAlways, PTL

\* d is the largest of c and the sequences of the lines lo + 1 to k of the log w.
LargestSeq(c, w, lo, k, d) ==
  /\ c <= d
  /\ \A i \in (lo + 1)..k : w[i].seq <= d
  /\ c = d \/ \E i \in (lo + 1)..k : w[i].seq = d

\* One more line: the sequence it certifies is the only one to look at.
LEMMA SequenceGrows ==
  ASSUME NEW w \in Seq(Line), NEW lo \in Nat, NEW k \in Nat, lo <= k, k < Len(w),
         NEW c \in Nat, NEW d \in Nat, LargestSeq(c, w, lo, k, d)
  PROVE  LargestSeq(c, w, lo, k + 1, Larger(d, w[k + 1].seq))
<1> DEFINE e == Larger(d, w[k + 1].seq)
<1>0. /\ c <= d
      /\ \A i \in (lo + 1)..k : w[i].seq <= d
      /\ c = d \/ \E i \in (lo + 1)..k : w[i].seq = d
  BY DEF LargestSeq
<1>1. \A i \in 1..Len(w) : w[i].seq \in Nat
  <2>1. \A i \in 1..Len(w) : w[i] \in Line
    OBVIOUS
  <2> QED  BY <2>1 DEF Line
<1>2. k + 1 \in 1..Len(w) /\ k + 1 \in (lo + 1)..(k + 1) /\ w[k + 1].seq \in Nat
  BY <1>1
<1>3. d <= e /\ w[k + 1].seq <= e /\ (e = d \/ e = w[k + 1].seq) /\ e \in Nat
  BY <1>2 DEF Larger
<1> HIDE DEF e
<1>4. ASSUME NEW i \in (lo + 1)..(k + 1) PROVE w[i].seq <= e
  <2>1. i \in 1..Len(w) /\ w[i].seq \in Nat /\ (i = k + 1 \/ i \in (lo + 1)..k)
    BY <1>1
  <2> QED  BY <1>0, <1>3, <2>1
<1>5. \A i \in (lo + 1)..k : i \in (lo + 1)..(k + 1)
  OBVIOUS
<1>6. c <= e
  BY <1>0, <1>3
<1>7. c = e \/ \E i \in (lo + 1)..(k + 1) : w[i].seq = e
  BY <1>0, <1>2, <1>3, <1>5
<1>8. LargestSeq(c, w, lo, k + 1, e)
  BY <1>4, <1>6, <1>7 DEF LargestSeq
<1> QED  BY <1>8 DEF e

\* Every step keeps the log and the checkpoint an exact account of what is
\* served, when acknowledged lines are kept and no sync fails.
LEMMA ExactStep ==
  ASSUME Inv, Inv', Rebuildable, ExactlyRebuilt, [Next]_vars, KeepsAcked,
         "syncFail" \notin Fault, "badFragment" \notin Fault
  PROVE  ExactlyRebuilt'
<1> DEFINE N == Len(wal)
           After(k) == Replayed(ckpt'.frag, wal', ckpt'.index, k)
           Sequence(k) == LargestSeq(ckpt'.seq, wal', ckpt'.index, k, deltaSeq')
<1>0. /\ ckpt.frag \in Content /\ ckpt.index \in Nat /\ ckpt.seq \in Nat
      /\ N \in Nat /\ wal \in Seq(Line) /\ ckpt.index <= N /\ N \in ckpt.index..N
      /\ mem \in Content /\ deltaSeq \in Nat /\ deltaSeq' \in Nat
  BY Files DEF Inv, TypeOK
\* What is to be shown, with the replay of the new files in the place of Rebuilt.
<1>1. ASSUME Up' => After(Len(wal')) = mem' /\ Sequence(Len(wal')),
             phase' = "recovering" => Sequence(replay')
      PROVE  ExactlyRebuilt'
  <2>1. /\ ckpt'.index \in Nat /\ Len(wal') \in Nat /\ synced' \in 0..Len(wal')
        /\ ckpt'.index <= synced'
    BY DEF Inv, TypeOK, CheckpointFile, CheckpointBehind
  <2>2. Len(wal') \in ckpt'.index..Len(wal')
    BY <2>1
  <2>3. Replayed(ckpt'.frag, wal', ckpt'.index, Larger(ckpt'.index, Len(wal')))
          = After(Len(wal'))
    BY <2>2, RebuiltNext
  <2> QED  BY <1>1, <2>3 DEF ExactlyRebuilt, Rebuilt, SequenceRebuilt, LargestSeq
<1>2. ASSUME UNCHANGED <<wal, ckpt>>, NEW k \in ckpt.index..N PROVE After(k) = Rebuilt(k)
  BY <1>2, RebuiltIs
<1>3. ASSUME NEW m \in Mutation, Accepted(m) PROVE ExactlyRebuilt'
  <2>1. /\ WriteLine(m) /\ ckpt' = ckpt /\ phase' = phase /\ Up /\ phase # "recovering"
        /\ mem' = MergeContent(mem, m.frag) /\ deltaSeq' = Larger(deltaSeq, m.seq)
    BY <1>3 DEF Accepted, AppendOK, Up
  <2>2. Rebuilt(N) = mem /\ SequenceRebuilt(N)
    BY <2>1 DEF ExactlyRebuilt
  <2>3. /\ Len(wal') = N + 1
        /\ After(N + 1) = MergeContent(Rebuilt(N), m.frag)
    BY <2>1, RebuiltAppend
  <2>4. /\ wal' \in Seq(Line) /\ \A i \in 1..N : wal'[i] = wal[i]
        /\ wal'[N + 1].seq = m.seq
    <3>1. TypeOK
      BY DEF Inv
    <3>2. wal'[N + 1] = [frag |-> m.frag, seq |-> m.seq, ok |-> ~torn]
          /\ wal' \in Seq(Line) /\ \A i \in 1..N : wal'[i] = wal[i]
      BY <2>1, <3>1, WriteLineFacts
    <3> QED  BY <3>2
  <2>5. LargestSeq(ckpt.seq, wal', ckpt.index, N, deltaSeq)
    <3>1. \A i \in (ckpt.index + 1)..N : wal'[i] = wal[i]
      BY <1>0, <2>4
    <3> QED  BY <2>2, <3>1 DEF SequenceRebuilt, LargestSeq
  <2>6. Sequence(N + 1)
    <3>1. deltaSeq' = Larger(deltaSeq, wal'[N + 1].seq) /\ N < Len(wal')
      BY <1>0, <2>1, <2>3, <2>4
    <3>2. LargestSeq(ckpt.seq, wal', ckpt.index, N + 1, deltaSeq')
      BY <1>0, <2>4, <2>5, <3>1, SequenceGrows
    <3> QED  BY <2>1, <3>2
  <2> QED  BY <1>1, <2>1, <2>2, <2>3, <2>6
<1>4. ASSUME Up, phase' # "recovering", UNCHANGED <<mem, deltaSeq, wal, ckpt>>
      PROVE  ExactlyRebuilt'
  <2>1. Rebuilt(N) = mem /\ SequenceRebuilt(N)
    BY <1>4 DEF ExactlyRebuilt
  <2>2. After(N) = mem
    BY <1>0, <1>2, <1>4, <2>1
  <2>3. Sequence(N)
    BY <1>4, <2>1 DEF SequenceRebuilt, LargestSeq
  <2> QED  BY <1>1, <1>4, <2>2, <2>3
<1>5. ASSUME NEW m \in Mutation, Refused(m) PROVE ExactlyRebuilt'
  BY <1>4, <1>5 DEF Refused, AppendShort, AppendUnsynced, Up
<1>6. CASE Ended \/ StartupFails
  <2>1. phase' \in {"down", "failed"}
    BY <1>6 DEF Ended, StartupFails
  <2> QED  BY <2>1 DEF ExactlyRebuilt, Up
<1>7. CASE Known
  BY <1>4, <1>7 DEF Known, Up
<1>8. CASE UNCHANGED vars
  <2>1. UNCHANGED <<phase, mem, deltaSeq, replay, wal, ckpt>>
    BY <1>8 DEF vars, manager, disk
  <2> QED  BY <2>1 DEF ExactlyRebuilt, Rebuilt, SequenceRebuilt, Up
<1>9. ASSUME SaveCheckpoint, UNCHANGED <<mem, deltaSeq, wal>>, phase' # "recovering"
      PROVE  ExactlyRebuilt'
  <2>1. ckpt'.frag = mem /\ ckpt'.index = N /\ ckpt'.seq = deltaSeq
    BY <1>0, <1>9 DEF SaveCheckpoint, Save
  <2>2. After(N) = mem
    <3>1. N \in 0..Len(wal)
      BY <1>0
    <3> QED  BY <1>0, <1>9, <2>1, <3>1, ReplayedFacts
  <2>3. Sequence(N)
    BY <1>0, <1>9, <2>1 DEF LargestSeq
  <2> QED  BY <1>1, <1>9, <2>2, <2>3
<1>10. CASE Checkpoint \/ ShutdownCheckpoint \/ CloseStore
  <2>1. /\ UNCHANGED <<mem, deltaSeq, wal>> /\ phase' # "recovering" /\ Up
        /\ SaveCheckpoint \/ ckpt' = ckpt
    BY <1>10 DEF Checkpoint, ShutdownCheckpoint, CloseStore, manager, Up
  <2> QED  BY <1>4, <1>9, <2>1
<1>11. CASE Recover
  <2>1. /\ phase' = "recovering" /\ UNCHANGED <<wal, ckpt>>
        /\ deltaSeq' = ckpt.seq /\ replay' = ckpt.index
    BY <1>11 DEF Recover, RestoreCheckpoint
  <2>2. Sequence(ckpt.index)
    BY <1>0, <2>1 DEF LargestSeq
  <2> QED  BY <1>1, <2>1, <2>2 DEF Up
<1>12. CASE ReplayLine
  <2>1. /\ phase = "recovering" /\ phase' = "recovering" /\ UNCHANGED <<wal, ckpt>>
        /\ deltaSeq' = Larger(deltaSeq, wal[replay + 1].seq) /\ replay' = replay + 1
        /\ replay < N /\ replay \in Nat
    BY <1>12 DEF ReplayLine, disk, Inv, TypeOK
  <2>2. ckpt.index <= replay /\ SequenceRebuilt(replay)
    BY <2>1 DEF Rebuildable, ExactlyRebuilt
  <2>3. LargestSeq(ckpt.seq, wal, ckpt.index, replay + 1, deltaSeq')
    <3>1. LargestSeq(ckpt.seq, wal, ckpt.index, replay, deltaSeq)
      BY <2>2 DEF SequenceRebuilt, LargestSeq
    <3> QED  BY <1>0, <2>1, <2>2, <3>1, SequenceGrows
  <2>4. Sequence(replay + 1)
    BY <2>1, <2>3
  <2> QED  BY <1>1, <2>1, <2>4 DEF Up
<1>13. CASE FinishRecovery
  <2>1. /\ phase = "recovering" /\ phase' = "running" /\ replay = N
        /\ UNCHANGED <<mem, deltaSeq, wal, ckpt>>
    BY <1>13 DEF FinishRecovery, manager, disk
  <2>2. Rebuilt(N) = mem /\ SequenceRebuilt(N)
    BY <2>1 DEF Rebuildable, ExactlyRebuilt
  <2>3. After(N) = mem
    BY <1>0, <1>2, <2>1, <2>2
  <2>4. Sequence(N)
    BY <2>1, <2>2 DEF SequenceRebuilt, LargestSeq
  <2> QED  BY <1>1, <2>1, <2>3, <2>4
<1> HIDE DEF N, After, Sequence
<1> QED
  BY <1>3, <1>5, <1>6, <1>7, <1>8, <1>10, <1>11, <1>12, <1>13, Steps DEF ApplyBadSnapshot

\* A restart rebuilds exactly what the node serves, contents and delta sequence:
\* for every configuration in which acknowledged lines are kept (always mode, or
\* no power loss in the other modes), through short writes, crashes, checkpoints
\* and shutdowns.  A failed fsync is excluded because the refused line stays in
\* the file, and so is the snapshot that does not decode.
THEOREM RecoveryIsExact ==
  ASSUME KeepsAcked, "syncFail" \notin Fault, "badFragment" \notin Fault
  PROVE  Spec => []RecoveryExact
<1>1. Init => ExactlyRebuilt
  BY DEF Init, ExactlyRebuilt, Up
<1>2. /\ Inv /\ Inv' /\ Rebuildable /\ ExactlyRebuilt /\ [Next]_vars
      => ExactlyRebuilt'
  BY ExactStep
<1>3. ExactlyRebuilt => RecoveryExact
  BY DEF ExactlyRebuilt, RecoveryExact
<1> QED  BY <1>1, <1>2, <1>3, Invariance, RebuildableAlways, PTL DEF Spec

=============================================================================
