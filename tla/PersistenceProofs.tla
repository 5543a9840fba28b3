-------------------------- MODULE PersistenceProofs --------------------------
(***************************************************************************)
(* Proofs about Persistence for every configuration of the node, every     *)
(* fault set and every bound.                                              *)
(***************************************************************************)
EXTENDS Persistence, AggregatesProofs

\* Appending a line keeps the earlier ones.
LEMMA WriteLineFacts ==
  ASSUME TypeOK, NEW m \in Mutation, WriteLine(m)
  PROVE  /\ wal' \in Seq(Line) /\ Len(wal') = Len(wal) + 1 /\ Len(wal') <= MaxLog
         /\ \A i \in 1..Len(wal) : wal'[i] = wal[i]
         /\ wal'[Len(wal) + 1] = [frag |-> m.frag, seq |-> m.seq, ok |-> ~torn]
         /\ torn' = FALSE
<1> DEFINE line == [frag |-> m.frag, seq |-> m.seq, ok |-> ~torn]
<1>1. line \in Line
  BY DEF TypeOK, Line, Mutation
<1>2. wal \in Seq(Line) /\ wal' = Append(wal, line) /\ Len(wal) < MaxLog
  BY DEF TypeOK, WriteLine
<1> HIDE DEF line
<1>3. wal' \in Seq(Line) /\ Len(wal') = Len(wal) + 1
      /\ (\A i \in 1..Len(wal) : wal'[i] = wal[i]) /\ wal'[Len(wal) + 1] = line
  BY <1>1, <1>2
<1> QED
  BY <1>2, <1>3, ConfigAssumption DEF line, WriteLine

\* The variables an append writes keep their types, whatever its outcome.
LEMMA AppendType ==
  ASSUME TypeOK, NEW m \in Mutation,
         \/ AppendOK(m)
         \/ AppendShort /\ acked' = acked
         \/ AppendUnsynced(m) /\ acked' = acked
         \/ AppendCut(m) /\ acked' = acked /\ pendingSync' = 0
  PROVE  /\ wal' \in Seq(Line) /\ Len(wal') <= MaxLog /\ Len(wal) <= Len(wal')
         /\ torn' \in BOOLEAN
         /\ synced' \in 0..Len(wal')
         /\ pendingSync' \in Nat
         /\ acked' \subseteq 1..Len(wal')
<1>0. /\ Len(wal) \in Nat /\ wal \in Seq(Line) /\ Len(wal) <= MaxLog
      /\ synced \in 0..Len(wal) /\ pendingSync \in Nat
      /\ acked \subseteq 1..Len(wal) /\ MaxLog \in Nat
  BY ConfigAssumption DEF TypeOK
<1>1. CASE AppendOK(m)
  <2>1. WriteLine(m)
    BY <1>1 DEF AppendOK
  <2>2. /\ wal' \in Seq(Line) /\ Len(wal') = Len(wal) + 1 /\ Len(wal') <= MaxLog
        /\ torn' = FALSE
    BY <2>1, WriteLineFacts
  <2>3. synced' \in {synced, Len(wal) + 1} /\ pendingSync' \in {0, pendingSync + 1}
    BY <1>1 DEF AppendOK
  <2>4. acked' = acked \cup {Len(wal) + 1}
    BY <1>1 DEF AppendOK
  <2>5. acked' \subseteq 1..Len(wal')
    <3>1. ASSUME NEW i \in acked PROVE i \in 1..Len(wal')
      BY <1>0, <2>2
    <3>2. Len(wal) + 1 \in 1..Len(wal')
      BY <1>0, <2>2
    <3> QED
      BY <2>4, <3>1, <3>2
  <2>6. synced' \in 0..Len(wal') /\ pendingSync' \in Nat /\ Len(wal) <= Len(wal')
    BY <1>0, <2>2, <2>3
  <2> QED
    BY <2>2, <2>5, <2>6
<1>2. CASE AppendShort /\ acked' = acked
  BY <1>0, <1>2 DEF AppendShort
<1>3. CASE AppendUnsynced(m) /\ acked' = acked
  <2>1. WriteLine(m) /\ synced' = synced /\ pendingSync' = pendingSync + 1
    BY <1>3 DEF AppendUnsynced
  <2>2. /\ wal' \in Seq(Line) /\ Len(wal') = Len(wal) + 1 /\ Len(wal') <= MaxLog
        /\ torn' = FALSE
    BY <2>1, WriteLineFacts
  <2>3. acked' \subseteq 1..Len(wal')
    BY <1>0, <1>3, <2>2
  <2>4. synced' \in 0..Len(wal') /\ pendingSync' \in Nat /\ Len(wal) <= Len(wal')
    BY <1>0, <2>1, <2>2
  <2> QED
    BY <2>2, <2>3, <2>4
<1>4. CASE AppendCut(m) /\ acked' = acked /\ pendingSync' = 0
  <2>1. CASE torn' = TRUE /\ UNCHANGED <<wal, synced>>
    BY <1>0, <1>4, <2>1
  <2>2. CASE WriteLine(m) /\ synced' \in {synced, Len(wal) + 1}
    <3>1. /\ wal' \in Seq(Line) /\ Len(wal') = Len(wal) + 1 /\ Len(wal') <= MaxLog
          /\ torn' = FALSE
      BY <2>2, WriteLineFacts
    <3>2. acked' \subseteq 1..Len(wal')
      BY <1>0, <1>4, <3>1
    <3>3. synced' \in 0..Len(wal') /\ pendingSync' \in Nat /\ Len(wal) <= Len(wal')
      BY <1>0, <1>4, <2>2, <3>1
    <3> QED
      BY <3>1, <3>2, <3>3
  <2> QED
    BY <1>4, <2>1, <2>2 DEF AppendCut
<1> QED
  BY <1>1, <1>2, <1>3, <1>4

\* A local update is applied to a content and announced by a mutation.
LEMMA LocalTypes ==
  ASSUME TypeOK
  PROVE  /\ \A inc \in Increment : UpdateFits(mem.sum, Self, inc) =>
              /\ UpdateSUM(mem.sum, Self, inc) \in Contrib
              /\ \A n \in Node : mem.sum[n] <= UpdateSUM(mem.sum, Self, inc)[n]
              /\ UpdateSUM(mem.sum, Self, inc)[Self] = mem.sum[Self] + inc
         /\ \A c \in LocalCandidate :
              MergeTOPK(mem.topk, {c}) \in SUBSET Candidate
<1>1. mem.sum \in Contrib /\ mem.topk \in SUBSET Candidate
  BY DEF TypeOK, Content
<1>2. ASSUME NEW inc \in Increment, UpdateFits(mem.sum, Self, inc)
      PROVE  /\ UpdateSUM(mem.sum, Self, inc) \in Contrib
             /\ \A n \in Node : mem.sum[n] <= UpdateSUM(mem.sum, Self, inc)[n]
             /\ UpdateSUM(mem.sum, Self, inc)[Self] = mem.sum[Self] + inc
  BY <1>1, <1>2, WidthAssumption, ConfigAssumption, InputAssumption
     DEF Contrib, UpdateFits, UpdateSUM
<1>3. ASSUME NEW c \in LocalCandidate
      PROVE  MergeTOPK(mem.topk, {c}) \in SUBSET Candidate
  BY <1>1, InputAssumption, MergeTOPKLaws
<1> QED
  BY <1>2, <1>3

\* LocalUpdate keeps the types when it is given a content and a fragment.
LEMMA LocalUpdateType ==
  ASSUME TypeOK, NEW after \in Content, NEW frag \in Content, NEW inc \in Nat,
         LocalUpdate(after, frag, inc)
  PROVE  TypeOK'
<1> DEFINE m == [frag |-> frag, seq |-> deltaSeq + 1]
<1>1. m \in Mutation
  BY DEF TypeOK, Mutation
<1>2. UNCHANGED ckpt /\ phase = "running"
  BY DEF LocalUpdate
<1>3. CASE AppendOK(m) /\ mem' = after /\ deltaSeq' = m.seq /\ issued' = issued \cup {m}
           /\ ackedSum' = ackedSum + inc /\ UNCHANGED <<phase, replay, inDoubt, rejected>>
  BY <1>1, <1>2, <1>3, AppendType DEF TypeOK
<1>4. CASE AppendShort /\ UNCHANGED <<phase, manager, replay, ghost>>
  BY <1>1, <1>2, <1>4, AppendType DEF TypeOK, manager, ghost
<1>5. CASE AppendUnsynced(m) /\ rejected' = rejected + inc
           /\ UNCHANGED <<phase, manager, replay, acked, issued, ackedSum, inDoubt>>
  BY <1>1, <1>2, <1>5, AppendType DEF TypeOK, manager
<1>6. CASE AppendCut(m) /\ ProcessEnds
           /\ inDoubt' = (IF wal' = wal THEN inDoubt ELSE inDoubt + inc)
           /\ UNCHANGED <<acked, issued, ackedSum, rejected>>
  BY <1>1, <1>2, <1>6, AppendType, NoContentType DEF TypeOK, ProcessEnds
<1> QED
  BY <1>3, <1>4, <1>5, <1>6 DEF LocalUpdate

\* Receive keeps the types when it is given a mutation.
LEMMA ReceiveType ==
  ASSUME TypeOK, NEW m \in Mutation, Receive(m)
  PROVE  TypeOK'
<1> DEFINE after == MergeContent(mem, m.frag)
<1>1. after \in Content /\ Larger(deltaSeq, m.seq) \in Nat
  BY MergeContentType DEF TypeOK, Mutation, Larger
<1>2. UNCHANGED ckpt /\ Up
  BY DEF Receive
<1> HIDE DEF after
<1>3. CASE deltaSeq' = Larger(deltaSeq, m.seq)
           /\ UNCHANGED <<phase, mem, pendingSync, replay, wal, torn, synced, ghost>>
  BY <1>1, <1>2, <1>3 DEF TypeOK, ghost
<1>4. CASE AppendOK(m) /\ mem' = after /\ deltaSeq' = Larger(deltaSeq, m.seq)
           /\ UNCHANGED <<phase, replay, issued, ackedSum, inDoubt, rejected>>
  BY <1>1, <1>2, <1>4, AppendType DEF TypeOK
<1>5. CASE (AppendShort \/ AppendUnsynced(m)) /\ UNCHANGED <<phase, manager, replay, ghost>>
  BY <1>2, <1>5, AppendType DEF TypeOK, manager, ghost
<1>6. CASE AppendCut(m) /\ ProcessEnds /\ UNCHANGED ghost
  BY <1>2, <1>6, AppendType, NoContentType DEF TypeOK, ProcessEnds, ghost
<1> QED
  BY <1>3, <1>4, <1>5, <1>6 DEF Receive, after

\* What arrives in a message is a mutation.
LEMMA ReceivedMutation ==
  ASSUME TypeOK, ApplyReceivedDelta \/ ApplySnapshot
  PROVE  \E m \in Mutation : Receive(m)
<1>1. CASE \E f \in PeerFragment : Receive([frag |-> f, seq |-> 0])
  <2>1. PICK f \in PeerFragment : Receive([frag |-> f, seq |-> 0])
    BY <1>1
  <2>2. [frag |-> f, seq |-> 0] \in Mutation
    BY InputAssumption DEF Mutation
  <2> QED  BY <2>1, <2>2
<1>2. CASE \E m \in issued : Receive(m)
  BY <1>2 DEF TypeOK
<1>3. CASE ApplySnapshot
  <2>1. PICK f \in PeerFragment, m \in issued :
          Receive([frag |-> MergeContent(f, m.frag), seq |-> m.seq])
    BY <1>3 DEF ApplySnapshot
  <2>2. [frag |-> MergeContent(f, m.frag), seq |-> m.seq] \in Mutation
    BY InputAssumption, MergeContentType DEF TypeOK, Mutation
  <2> QED  BY <2>1, <2>2
<1> QED
  BY <1>1, <1>2, <1>3 DEF ApplyReceivedDelta

\* Cutting the log keeps the first lines.
LEMMA CutFacts ==
  ASSUME TypeOK, NEW k \in synced..Len(wal), wal' = SubSeq(wal, 1, k)
  PROVE  /\ k \in 0..Len(wal) /\ wal' \in Seq(Line) /\ Len(wal') = k
         /\ \A i \in 1..k : wal'[i] = wal[i]
<1>1. wal \in Seq(Line) /\ k \in 0..Len(wal)
  BY DEF TypeOK
<1> QED
  BY <1>1

\* Every step of the node keeps the types.
LEMMA TypeStep == TypeOK /\ [Next]_vars => TypeOK'
<1> SUFFICES ASSUME TypeOK, [Next]_vars PROVE TypeOK'
  OBVIOUS
<1>1. ASSUME NEW inc \in Increment, ApplyLocalSUM(inc) PROVE TypeOK'
  <2> DEFINE contrib == UpdateSUM(mem.sum, Self, inc)
  <2>1. /\ UpdateFits(mem.sum, Self, inc)
        /\ LocalUpdate([mem EXCEPT !.sum = contrib], SUMFragment(Self, contrib[Self]), inc)
    BY <1>1 DEF ApplyLocalSUM
  <2>2. contrib \in Contrib
    BY <2>1, LocalTypes
  <2> HIDE DEF contrib
  <2>3. [mem EXCEPT !.sum = contrib] \in Content
    BY <2>2 DEF TypeOK, Content
  <2>4. SUMFragment(Self, contrib[Self]) \in Content
    BY <2>2, FragmentType, ConfigAssumption DEF Contrib
  <2> QED
    BY <2>1, <2>3, <2>4, LocalUpdateType, InputAssumption
<1>2. ASSUME NEW c \in LocalCandidate, ApplyLocalTOPK(c) PROVE TypeOK'
  <2> DEFINE after == MergeTOPK(mem.topk, {c})
  <2>1. LocalUpdate([mem EXCEPT !.topk = after], TOPKFragment(c), 0)
    BY <1>2 DEF ApplyLocalTOPK
  <2>2. after \in SUBSET Candidate
    BY LocalTypes
  <2> HIDE DEF after
  <2>3. [mem EXCEPT !.topk = after] \in Content
    BY <2>2 DEF TypeOK, Content
  <2>4. TOPKFragment(c) \in Content
    BY FragmentType, InputAssumption
  <2> QED
    BY <2>1, <2>3, <2>4, LocalUpdateType
<1>3. ASSUME ApplyReceivedDelta \/ ApplySnapshot PROVE TypeOK'
  <2>1. PICK m \in Mutation : Receive(m)
    BY <1>3, ReceivedMutation
  <2> QED
    BY <2>1, ReceiveType
<1>4. CASE ApplyBadSnapshot
  <2>1. PICK f \in PeerFragment : mem' = [mem EXCEPT !.sum = MergeSUM(mem.sum, f.sum)]
    BY <1>4 DEF ApplyBadSnapshot
  <2>2. mem.sum \in Contrib /\ f.sum \in Contrib
    BY InputAssumption DEF TypeOK, Content
  <2>3. MergeSUM(mem.sum, f.sum) \in Contrib
    BY <2>2, MergeSUMLaws
  <2>4. mem' \in Content
    BY <2>1, <2>3 DEF TypeOK, Content
  <2> QED
    BY <1>4, <2>4 DEF ApplyBadSnapshot, TypeOK, disk, ghost
<1>5. CASE Checkpoint \/ ShutdownCheckpoint
  <2>1. ckpt' \in CheckpointFile /\ synced' = Len(wal) /\ pendingSync' = 0
    BY <1>5 DEF Checkpoint, ShutdownCheckpoint, SaveCheckpoint, Save, CheckpointFile, TypeOK
  <2>2. /\ UNCHANGED <<manager, replay, wal, torn, ghost>>
        /\ phase' \in {"running", "stopping"}
    BY <1>5 DEF Checkpoint, ShutdownCheckpoint
  <2> QED
    BY <2>1, <2>2 DEF TypeOK, manager, ghost
<1>6. CASE CloseStore
  BY <1>6 DEF CloseStore, TypeOK, manager, ghost
<1>7. CASE Crash
  BY <1>7, NoContentType DEF Crash, ProcessEnds, TypeOK, disk, ghost
<1>8. CASE PowerLoss
  <2>1. PICK k \in synced..Len(wal) :
          /\ wal' = SubSeq(wal, 1, k)
          /\ torn' \in (IF k < Len(wal) \/ torn THEN BOOLEAN ELSE {FALSE})
          /\ acked' = acked \cap 1..k
    BY <1>8 DEF PowerLoss
  <2>2. k \in 0..Len(wal) /\ wal' \in Seq(Line) /\ Len(wal') = k
    BY <2>1, CutFacts
  <2>3. torn' \in BOOLEAN
    BY <2>1
  <2> QED
    BY <1>8, <2>1, <2>2, <2>3, NoContentType, ConfigAssumption
       DEF PowerLoss, ProcessEnds, TypeOK
<1>9. CASE StartupFails
  BY <1>9 DEF StartupFails, TypeOK, manager, ghost
<1>10. CASE Recover
  <2>1. Len(wal) \in Nat /\ ckpt.index \in Nat /\ ckpt.index <= Len(wal)
        /\ ckpt.frag \in Content /\ ckpt.seq \in Nat
    BY <1>10 DEF Recover, RestoreCheckpoint, Startable, TypeOK, CheckpointFile
  <2>2. /\ phase' = "recovering" /\ torn' = FALSE /\ synced' = Len(wal)
        /\ mem' = ckpt.frag /\ deltaSeq' = ckpt.seq /\ replay' = ckpt.index
        /\ UNCHANGED <<pendingSync, wal, ckpt, ghost>>
    BY <1>10 DEF Recover, RestoreCheckpoint
  <2>3. replay' \in 0..Len(wal') /\ synced' \in 0..Len(wal')
    BY <2>1, <2>2
  <2> QED
    BY <2>1, <2>2, <2>3 DEF TypeOK, ghost
<1>11. CASE ReplayLine
  <2>1. wal[replay + 1] \in Line
    BY <1>11 DEF ReplayLine, TypeOK
  <2>2. mem' \in Content /\ deltaSeq' \in Nat
    BY <1>11, <2>1, MergeContentType DEF ReplayLine, TypeOK, Line, Larger
  <2> QED
    BY <1>11, <2>2 DEF ReplayLine, TypeOK, disk, ghost
<1>12. CASE FinishRecovery
  BY <1>12 DEF FinishRecovery, TypeOK, manager, disk, ghost
<1>13. CASE UNCHANGED vars
  BY <1>13 DEF vars, TypeOK, manager, disk, ghost
<1> QED
  BY <1>1, <1>2, <1>3, <1>4, <1>5, <1>6, <1>7, <1>8, <1>9, <1>10, <1>11, <1>12, <1>13
     DEF Next

\* The initial state is well-typed.
LEMMA InitType == Init => TypeOK
<1> SUFFICES ASSUME Init PROVE TypeOK
  OBVIOUS
<1>1. ckpt \in CheckpointFile /\ mem \in Content
  BY NoContentType DEF Init, CheckpointFile, NoCheckpoint
<1>2. wal \in Seq(Line) /\ Len(wal) = 0 /\ Len(wal) <= MaxLog
  BY ConfigAssumption DEF Init
<1>3. replay \in 0..Len(wal) /\ synced \in 0..Len(wal) /\ deltaSeq \in Nat
      /\ pendingSync \in Nat /\ ackedSum \in Nat /\ inDoubt \in Nat /\ rejected \in Nat
  BY <1>2 DEF Init
<1>4. acked \subseteq 1..Len(wal) /\ issued \subseteq Mutation /\ torn \in BOOLEAN
      /\ phase \in {"down", "recovering", "running", "stopping", "closed", "failed"}
  BY DEF Init
<1> QED
  BY <1>1, <1>2, <1>3, <1>4 DEF TypeOK

\* Every state the node can reach is well-typed: the synced part of the log is
\* part of the log, recovery never replays past its end, and acknowledged
\* lines are lines.
THEOREM TypeCorrect == Spec => []TypeOK
BY InitType, TypeStep, PTL DEF Spec

-----------------------------------------------------------------------------
(* The invariant, one lemma per outcome of an append *)

\* The counters are natural numbers.
LEMMA Counts ==
  ASSUME TypeOK
  PROVE  /\ Len(wal) \in Nat /\ synced \in Nat /\ synced <= Len(wal)
         /\ ackedSum \in Nat /\ inDoubt \in Nat /\ rejected \in Nat
  BY DEF TypeOK

\* A sum grows with its summand.
LEMMA SumGrows ==
  ASSUME NEW a \in Nat, NEW b \in Nat, NEW c \in Nat, NEW d \in Nat, b <= d
  PROVE  a + b + c <= a + d + c /\ a + b + c \in Nat /\ a + d + c \in Nat
  OBVIOUS

\* The types Inv is evaluated on, in the form the arithmetic steps use.
LEMMA Numbers ==
  ASSUME TypeOK
  PROVE  /\ Len(wal) \in Nat /\ synced \in Nat /\ synced <= Len(wal) /\ deltaSeq \in Nat
         /\ ackedSum \in Nat /\ inDoubt \in Nat /\ rejected \in Nat /\ OwnWritten \in Nat
         /\ ckpt.index \in Nat /\ ckpt.seq \in Nat /\ ckpt.frag \in Content
         /\ ckpt.frag.sum[Self] \in Nat /\ mem.sum[Self] \in Nat /\ mem \in Content
         /\ \A i \in 1..Len(wal) : /\ wal[i] \in Line /\ wal[i].frag \in Content
                                    /\ wal[i].seq \in Nat /\ wal[i].frag.sum[Self] \in Nat
         /\ \A i \in acked : i \in 1..Len(wal)
         /\ \A m \in Mutation : m.frag \in Content /\ m.seq \in Nat /\ m.frag.sum[Self] \in Nat
<1>1. \A s \in Content : s.sum[Self] \in Nat
  BY ConfigAssumption, WidthAssumption DEF Content, Contrib
<1>2. \A i \in 1..Len(wal) : wal[i] \in Line
  BY DEF TypeOK
<1>3. ckpt.index \in Nat /\ ckpt.seq \in Nat /\ ckpt.frag \in Content
  BY DEF TypeOK, CheckpointFile
<1>4. OwnWritten \in Nat
  BY DEF TypeOK, OwnWritten
<1>5. \A m \in Mutation : m.frag \in Content /\ m.seq \in Nat
  BY DEF Mutation
<1>6. \A i \in 1..Len(wal) : wal[i].frag \in Content /\ wal[i].seq \in Nat
  BY <1>2 DEF Line
<1>7. Len(wal) \in Nat /\ synced \in Nat /\ synced <= Len(wal) /\ deltaSeq \in Nat
      /\ ackedSum \in Nat /\ inDoubt \in Nat /\ rejected \in Nat /\ mem \in Content
  BY DEF TypeOK
<1>8. \A i \in acked : i \in 1..Len(wal)
  BY DEF TypeOK
<1> QED
  BY <1>1, <1>2, <1>3, <1>4, <1>5, <1>6, <1>7, <1>8

\* The acknowledged count of a serving node is in its memory.
LEMMA AckedServed ==
  ASSUME Inv, Up, KeepsAcked
  PROVE  ackedSum <= mem.sum[Self]
<1>1. CASE ackedSum > 0
  <2>1. PICK i \in acked : wal[i].frag.sum[Self] >= ackedSum
    BY <1>1 DEF Inv, OnLine
  <2>2. Covers(mem, wal[i].frag)
    BY DEF Inv, LinesHeld, Holds
  <2>3. mem \in Content /\ wal[i].frag \in Content
    BY Numbers DEF Inv
  <2>4. mem.sum \in Contrib /\ wal[i].frag.sum \in Contrib
    BY <2>3 DEF Content
  <2>5. MergeSUM(mem.sum, wal[i].frag.sum) = mem.sum
    BY <2>2, <2>3, CoversParts
  <2>6. wal[i].frag.sum[Self] <= mem.sum[Self]
    BY <2>4, <2>5, CoversSUM, ConfigAssumption
  <2>7. wal[i].frag.sum[Self] \in Nat /\ ackedSum \in Nat /\ mem.sum[Self] \in Nat
    BY Numbers DEF Inv
  <2> QED
    BY <2>1, <2>6, <2>7
<1>2. CASE ~(ackedSum > 0)
  BY <1>2, Numbers DEF Inv
<1> QED
  BY <1>1, <1>2

\* An append that succeeds keeps the invariant, provided the new memory covers
\* the old one and the line, and the counts agree.
LEMMA AcceptInv ==
  ASSUME Inv, TypeOK', Up, NEW m \in Mutation, NEW inc \in Nat, AppendOK(m),
         Canonical(mem'),
         \A f \in Content : Covers(mem, f) => Covers(mem', f),
         Covers(mem', m.frag),
         deltaSeq <= deltaSeq', m.seq <= deltaSeq',
         phase' = phase, ckpt' = ckpt, replay' = replay,
         ackedSum' = ackedSum + inc, inDoubt' = inDoubt, rejected' = rejected,
         mem'.sum[Self] <= OwnWritten + inc, m.frag.sum[Self] <= OwnWritten + inc,
         inc > 0 => m.frag.sum[Self] = mem.sum[Self] + inc,
         issued' = issued \/ (issued' = issued \cup {m} /\ m.seq = deltaSeq + 1)
  PROVE  Inv'
<1> DEFINE N == Len(wal) + 1
<1>1. TypeOK /\ WriteLine(m)
  BY DEF Inv, AppendOK
<1>2. /\ Len(wal') = N /\ torn' = FALSE
      /\ \A i \in 1..Len(wal) : wal'[i] = wal[i]
      /\ wal'[N] = [frag |-> m.frag, seq |-> m.seq, ok |-> ~torn]
  BY <1>1, WriteLineFacts
<1>3. /\ acked' = acked \cup {N}
      /\ synced' = IF SyncDue THEN N ELSE synced
  BY DEF AppendOK
<1>4. \A i \in 1..N : i \in 1..Len(wal) \/ i = N
  BY <1>1, Counts
<1>5. wal'[N].frag = m.frag /\ wal'[N].seq = m.seq /\ wal'[N].ok = ~torn
  BY <1>2
<1>6. synced <= synced' /\ synced' \in Nat
  <2>1. synced \in Nat /\ Len(wal) \in Nat /\ synced <= Len(wal)
    BY <1>1, Counts
  <2>2. synced' = synced \/ synced' = Len(wal) + 1
    BY <1>3
  <2> QED
    BY <2>1, <2>2
<1>7. KeptCanonical'
  BY DEF Inv, KeptCanonical
<1>8. CheckpointBehind'
  BY <1>1, <1>6, Numbers DEF Inv, CheckpointBehind
<1>9. OwnCountCapped'
  <2>1. OwnWritten' = OwnWritten + inc
    BY <1>1, Counts DEF OwnWritten
  <2>2. \A i \in 1..Len(wal') : wal'[i].frag.sum[Self] <= OwnWritten + inc
    <3>1. ASSUME NEW i \in 1..Len(wal) PROVE wal'[i].frag.sum[Self] <= OwnWritten + inc
      <4>1. wal[i].frag.sum[Self] <= OwnWritten /\ wal'[i] = wal[i]
        BY <1>2 DEF Inv, OwnCountCapped
      <4>2. wal[i].frag.sum[Self] \in Nat /\ OwnWritten \in Nat
        BY <1>1, Numbers
      <4> QED  BY <4>1, <4>2
    <3>2. wal'[N].frag.sum[Self] <= OwnWritten + inc
      BY <1>5
    <3> QED
      BY <1>2, <1>4, <3>1, <3>2
  <2>3. \A o \in issued' : o.frag.sum[Self] <= OwnWritten + inc
    <3>1. ASSUME NEW o \in issued PROVE o.frag.sum[Self] <= OwnWritten + inc
      <4>1. o.frag.sum[Self] <= OwnWritten /\ o \in Mutation
        BY <1>1 DEF Inv, OwnCountCapped, TypeOK
      <4>2. o.frag.sum[Self] \in Nat /\ OwnWritten \in Nat
        BY <4>1, <1>1, Numbers
      <4> QED  BY <4>1, <4>2
    <3> QED
      BY <3>1
  <2>4. ckpt.frag.sum[Self] <= OwnWritten + inc
    BY <1>1, Numbers DEF Inv, OwnCountCapped
  <2> QED
    BY <2>1, <2>2, <2>3, <2>4 DEF OwnCountCapped
<1>10. LinesDecode'
  <2> SUFFICES ASSUME "shortWrite" \notin Fault
               PROVE  (\A i \in 1..Len(wal') : wal'[i].ok) /\ torn' = FALSE
    BY DEF LinesDecode, Readable
  <2>1. ~torn /\ \A i \in 1..Len(wal) : wal[i].ok
    BY DEF Inv, LinesDecode, Readable, Up
  <2> QED
    BY <2>1, <1>2, <1>4, <1>5
<1>11. ASSUME KeepsAcked PROVE AckedKept' /\ OnLine' /\ LinesHeld' /\ FreshSequence'
  <2>1. /\ AckedKept /\ OnLine /\ LinesHeld /\ FreshSequence
        /\ \A i \in acked : i \in 1..Len(wal) /\ wal'[i] = wal[i] /\ i # N
    BY <1>1, <1>2, <1>11, Numbers DEF Inv
  <2>2. AckedKept'
    BY <1>1, <1>3, Numbers DEF AckedKept, SyncDue
  <2>3. OnLine'
    <3>1. ASSUME NEW o \in issued'
          PROVE  \E i \in acked' : wal'[i].frag = o.frag /\ wal'[i].seq = o.seq
      <4>1. CASE o = m
        BY <4>1, <1>3, <1>5
      <4>2. CASE o \in issued
        BY <4>2, <2>1, <1>3 DEF OnLine
      <4> QED  BY <4>1, <4>2
    <3>2. ASSUME ackedSum' > 0
          PROVE  \E i \in acked' : wal'[i].frag.sum[Self] >= ackedSum'
      <4>1. CASE inc > 0
        <5>1. ackedSum <= mem.sum[Self]
          BY <1>11, AckedServed
        <5>2. wal'[N].frag.sum[Self] >= ackedSum'
          BY <4>1, <5>1, <1>1, <1>5, Numbers
        <5> QED  BY <5>2, <1>3
      <4>2. CASE inc = 0
        <5>1. PICK i \in acked : wal[i].frag.sum[Self] >= ackedSum
          BY <3>2, <4>2, <2>1, <1>1, Numbers DEF OnLine
        <5> QED  BY <4>2, <5>1, <2>1, <1>1, <1>3, Numbers
      <4> QED  BY <4>1, <4>2
    <3> QED
      BY <3>1, <3>2 DEF OnLine
  <2>4. LinesHeld'
    <3>1. ASSUME NEW i \in acked' PROVE Holds(mem, deltaSeq, i)'
      <4>1. CASE i = N
        BY <4>1, <1>5 DEF Holds
      <4>2. CASE i \in acked
        <5>1. Covers(mem, wal[i].frag) /\ wal[i].seq <= deltaSeq
          BY <4>2, <2>1 DEF LinesHeld, Holds
        <5>2. wal[i].frag \in Content /\ wal[i].seq \in Nat /\ deltaSeq \in Nat /\ deltaSeq' \in Nat
          BY <4>2, <1>1, Numbers DEF TypeOK
        <5> QED
          BY <4>2, <5>1, <5>2, <2>1 DEF Holds
      <4> QED  BY <4>1, <4>2, <1>3
    <3>2. ASSUME NEW i \in acked', i <= ckpt.index PROVE Holds(ckpt.frag, ckpt.seq, i)'
      <4>1. ckpt.index < N
        BY <1>1, Numbers DEF Inv, CheckpointBehind
      <4>2. i \in acked
        BY <3>2, <4>1, <1>1, <1>3, Numbers
      <4> QED
        BY <3>2, <4>2, <2>1 DEF LinesHeld, Holds
    <3>3. phase' # "recovering"
      BY DEF Up
    <3> QED
      BY <3>1, <3>2, <3>3 DEF LinesHeld
  <2>5. FreshSequence'
    <3>1. ASSUME NEW o \in issued PROVE o.seq <= deltaSeq
      BY <2>1, <1>1 DEF OnLine, LinesHeld, Holds
    <3>2. ASSUME NEW o \in issued, issued' = issued \cup {m}, m.seq = deltaSeq + 1
          PROVE  o.seq # m.seq
      BY <3>1, <3>2, <1>1, Numbers DEF TypeOK, Mutation
    <3> QED
      BY <2>1, <3>2 DEF FreshSequence
  <2> QED
    BY <2>2, <2>3, <2>4, <2>5
<1> QED
  BY <1>7, <1>8, <1>9, <1>10, <1>11 DEF Inv, KeepsAcked

\* The part of the invariant about acknowledged lines and issued deltas is kept
\* by a step that keeps those, keeps the lines, and leaves a memory, a
\* checkpoint and a phase that still hold them.
LEMMA GhostKept ==
  ASSUME Inv, KeepsAcked, acked' = acked, issued' = issued, ackedSum' = ackedSum,
         \A i \in acked : wal'[i] = wal[i]
  PROVE  OnLine' /\ FreshSequence'
<1>1. OnLine /\ FreshSequence
  BY DEF Inv
<1>2. OnLine'
  BY <1>1 DEF OnLine
<1>3. FreshSequence'
  BY <1>1 DEF FreshSequence
<1> QED  BY <1>2, <1>3

\* The written increments are a number after a well-typed step.
LEMMA OwnWrittenNat == TypeOK' => OwnWritten' \in Nat
<1> SUFFICES ASSUME TypeOK' PROVE OwnWritten' \in Nat
  OBVIOUS
<1>1. ackedSum' \in Nat /\ inDoubt' \in Nat /\ rejected' \in Nat
  BY DEF TypeOK
<1>2. OwnWritten' = ackedSum' + inDoubt' + rejected'
  BY DEF OwnWritten
<1>3. \A a, b, c \in Nat : a + b + c \in Nat
  OBVIOUS
<1> QED
  BY <1>1, <1>2, <1>3

\* The cap on the own count is kept when the count of writes does not fall, the
\* lines are the old ones or one new line within the cap, and memory and
\* checkpoint are within it.
LEMMA CapKept ==
  ASSUME Inv, TypeOK', issued' = issued, OwnWritten <= OwnWritten',
         mem'.sum[Self] <= OwnWritten', ckpt'.frag.sum[Self] <= OwnWritten',
         \A i \in 1..Len(wal') : \/ i \in 1..Len(wal) /\ wal'[i] = wal[i]
                                 \/ wal'[i].frag.sum[Self] <= OwnWritten'
  PROVE  OwnCountCapped'
<1>1. OwnWritten \in Nat /\ OwnWritten' \in Nat
  <2>1. OwnWritten \in Nat
    BY Numbers DEF Inv
  <2>2. OwnWritten' \in Nat
    BY OwnWrittenNat
  <2> QED  BY <2>1, <2>2
<1>2. ASSUME NEW i \in 1..Len(wal') PROVE wal'[i].frag.sum[Self] <= OwnWritten'
  <2>1. CASE i \in 1..Len(wal) /\ wal'[i] = wal[i]
    <3>1. wal[i].frag.sum[Self] \in Nat
      BY <2>1, Numbers DEF Inv
    <3>2. wal[i].frag.sum[Self] <= OwnWritten
      BY <2>1 DEF Inv, OwnCountCapped
    <3> QED  BY <1>1, <2>1, <3>1, <3>2
  <2> QED  BY <2>1
<1>3. ASSUME NEW o \in issued' PROVE o.frag.sum[Self] <= OwnWritten'
  <2>1. o.frag.sum[Self] \in Nat
    BY Numbers DEF Inv, TypeOK
  <2>2. o.frag.sum[Self] <= OwnWritten
    BY DEF Inv, OwnCountCapped
  <2> QED  BY <1>1, <2>1, <2>2
<1> QED
  BY <1>2, <1>3 DEF OwnCountCapped

\* An append that fails and is rolled back keeps the invariant.
LEMMA RefuseInv ==
  ASSUME Inv, TypeOK', Up, NEW m \in Mutation, NEW inc \in Nat,
         AppendShort \/ AppendUnsynced(m),
         UNCHANGED <<phase, mem, deltaSeq, replay, ckpt, acked, issued, ackedSum, inDoubt>>,
         rejected' = rejected + inc,
         m.frag.sum[Self] <= OwnWritten + inc
  PROVE  Inv'
<1>0. TypeOK /\ synced' = synced /\ phase' # "recovering"
  BY DEF Inv, AppendShort, AppendUnsynced, Up
<1>1. /\ \A i \in 1..Len(wal) : wal'[i] = wal[i]
      /\ \A i \in 1..Len(wal') : i \in 1..Len(wal) \/ wal'[i].frag = m.frag
      /\ "shortWrite" \notin Fault =>
            torn' = FALSE /\ \A i \in 1..Len(wal') : i \in 1..Len(wal) \/ wal'[i].ok = ~torn
  <2>1. CASE AppendShort
    BY <2>1 DEF AppendShort
  <2>2. CASE AppendUnsynced(m)
    <3>1. WriteLine(m)
      BY <2>2 DEF AppendUnsynced
    <3>2. /\ Len(wal') = Len(wal) + 1 /\ torn' = FALSE
          /\ \A i \in 1..Len(wal) : wal'[i] = wal[i]
          /\ wal'[Len(wal) + 1] = [frag |-> m.frag, seq |-> m.seq, ok |-> ~torn]
      BY <1>0, <3>1, WriteLineFacts
    <3>3. \A i \in 1..Len(wal') : i \in 1..Len(wal) \/ i = Len(wal) + 1
      <4>1. Len(wal) \in Nat /\ Len(wal') = Len(wal) + 1
        BY <1>0, <3>2, Counts
      <4> QED  BY <4>1
    <3> QED  BY <3>2, <3>3
  <2> QED  BY <2>1, <2>2
<1>2. OwnWritten' = OwnWritten + inc /\ OwnWritten \in Nat
  BY <1>0, Counts DEF OwnWritten
<1>3. OwnCountCapped'
  <2>1. mem.sum[Self] <= OwnWritten' /\ ckpt.frag.sum[Self] <= OwnWritten'
    <3>1. mem.sum[Self] \in Nat /\ ckpt.frag.sum[Self] \in Nat
      BY <1>0, Numbers
    <3>2. mem.sum[Self] <= OwnWritten /\ ckpt.frag.sum[Self] <= OwnWritten
      BY DEF Inv, OwnCountCapped
    <3> QED  BY <1>2, <3>1, <3>2
  <2>2. \A i \in 1..Len(wal') : \/ i \in 1..Len(wal) /\ wal'[i] = wal[i]
                                \/ wal'[i].frag.sum[Self] <= OwnWritten'
    BY <1>1, <1>2
  <2>3. OwnWritten <= OwnWritten'
    BY <1>2
  <2> QED
    BY <2>1, <2>2, <2>3, CapKept
<1>4. LinesDecode'
  <2> SUFFICES ASSUME "shortWrite" \notin Fault
               PROVE  (\A i \in 1..Len(wal') : wal'[i].ok) /\ torn' = FALSE
    BY DEF LinesDecode, Readable
  <2>1. ~torn /\ \A i \in 1..Len(wal) : wal[i].ok
    BY DEF Inv, LinesDecode, Readable, Up
  <2> QED
    BY <2>1, <1>1
<1>5. ASSUME KeepsAcked PROVE AckedKept' /\ OnLine' /\ LinesHeld' /\ FreshSequence'
  <2>1. \A i \in acked : wal'[i] = wal[i]
    BY <1>0, <1>1, Numbers
  <2>2. AckedKept' /\ LinesHeld'
    BY <1>0, <1>5, <2>1 DEF Inv, AckedKept, LinesHeld, Holds, Up
  <2> QED
    BY <1>5, <2>1, <2>2, GhostKept
<1> QED
  BY <1>0, <1>3, <1>4, <1>5 DEF Inv, KeptCanonical, CheckpointBehind, KeepsAcked

\* A crash inside an append keeps the invariant.
LEMMA CutInv ==
  ASSUME Inv, TypeOK', Up, NEW m \in Mutation, AppendCut(m), ProcessEnds,
         UNCHANGED <<ckpt, acked, issued, ackedSum, rejected>>,
         inDoubt <= inDoubt',
         wal' # wal => m.frag.sum[Self] <= OwnWritten'
  PROVE  Inv'
<1>0. TypeOK /\ phase' = "down" /\ mem' = NoContent
  BY DEF Inv, ProcessEnds
<1>1. /\ \A i \in 1..Len(wal) : wal'[i] = wal[i]
      /\ \A i \in 1..Len(wal') : i \in 1..Len(wal) \/ (wal' # wal /\ wal'[i].frag = m.frag)
      /\ synced <= synced'
      /\ \A i \in 1..Len(wal') : i \in 1..Len(wal) \/ wal'[i].ok = ~torn
  <2>0. Len(wal) \in Nat /\ synced \in Nat /\ synced <= Len(wal)
    BY <1>0, Numbers
  <2>1. CASE torn' = TRUE /\ UNCHANGED <<wal, synced>>
    <3>1. wal' = wal /\ synced' = synced
      BY <2>1
    <3> QED  BY <2>0, <3>1
  <2>2. CASE WriteLine(m) /\ synced' \in {synced, Len(wal) + 1}
    <3>2. /\ Len(wal') = Len(wal) + 1
          /\ \A i \in 1..Len(wal) : wal'[i] = wal[i]
          /\ wal'[Len(wal) + 1] = [frag |-> m.frag, seq |-> m.seq, ok |-> ~torn]
      BY <1>0, <2>2, WriteLineFacts
    <3>3. \A i \in 1..Len(wal') : i \in 1..Len(wal) \/ i = Len(wal) + 1
      BY <2>0, <3>2
    <3>4. wal' # wal /\ synced <= synced'
      BY <2>0, <2>2, <3>2
    <3> QED  BY <3>2, <3>3, <3>4
  <2> QED  BY <2>1, <2>2 DEF AppendCut
<1>2. OwnWritten <= OwnWritten' /\ OwnWritten \in Nat /\ OwnWritten' \in Nat
  <2>1. inDoubt' \in Nat
    BY DEF TypeOK
  <2>2. ackedSum \in Nat /\ inDoubt \in Nat /\ rejected \in Nat
    BY <1>0, Counts
  <2>3. /\ ackedSum + inDoubt + rejected <= ackedSum + inDoubt' + rejected
        /\ ackedSum + inDoubt + rejected \in Nat
        /\ ackedSum + inDoubt' + rejected \in Nat
    BY <2>1, <2>2, SumGrows
  <2> QED
    BY <2>3 DEF OwnWritten
<1>3. OwnCountCapped'
  <2>1. mem'.sum[Self] <= OwnWritten' /\ ckpt'.frag.sum[Self] <= OwnWritten'
    <3>1. mem'.sum[Self] = 0
      BY <1>0, ConfigAssumption DEF NoContent, NoContrib
    <3>2. ckpt.frag.sum[Self] <= OwnWritten /\ ckpt.frag.sum[Self] \in Nat
      BY <1>0, Numbers DEF Inv, OwnCountCapped
    <3> QED  BY <1>2, <3>1, <3>2
  <2>2. \A i \in 1..Len(wal') : \/ i \in 1..Len(wal) /\ wal'[i] = wal[i]
                                \/ wal'[i].frag.sum[Self] <= OwnWritten'
    BY <1>1, <1>2
  <2> QED
    BY <1>2, <2>1, <2>2, CapKept
<1>4. LinesDecode'
  <2> SUFFICES ASSUME "shortWrite" \notin Fault PROVE \A i \in 1..Len(wal') : wal'[i].ok
    BY <1>0 DEF LinesDecode, Readable
  <2>1. ~torn /\ \A i \in 1..Len(wal) : wal[i].ok
    BY DEF Inv, LinesDecode, Readable, Up
  <2> QED
    BY <2>1, <1>1
<1>5. CheckpointBehind'
  <2>1. synced' \in Nat
    BY DEF TypeOK
  <2> QED
    BY <1>0, <1>1, <2>1, Numbers DEF Inv, CheckpointBehind
<1>6. ASSUME KeepsAcked PROVE AckedKept' /\ OnLine' /\ LinesHeld' /\ FreshSequence'
  <2>1. \A i \in acked : wal'[i] = wal[i] /\ i \in Nat
    BY <1>0, <1>1, Numbers
  <2>2. LinesHeld'
    BY <1>0, <1>6, <2>1 DEF Inv, LinesHeld, Holds, Up
  <2>3. AckedKept'
    <3>1. synced' \in Nat /\ synced \in Nat
      BY <1>0, Numbers DEF TypeOK
    <3> QED
      BY <1>1, <1>6, <2>1, <3>1 DEF Inv, AckedKept
  <2> QED
    BY <1>6, <2>1, <2>2, <2>3, GhostKept
<1>7. KeptCanonical'
  BY <1>0, NoContentType DEF Inv, KeptCanonical
<1> QED
  BY <1>3, <1>4, <1>5, <1>6, <1>7 DEF Inv, KeepsAcked

-----------------------------------------------------------------------------
(* The invariant, action by action *)

\* A local update keeps the invariant.
LEMMA LocalUpdateInv ==
  ASSUME Inv, NEW after \in Content, NEW frag \in Content, NEW inc \in Nat,
         LocalUpdate(after, frag, inc),
         Canonical(after), Covers(after, frag),
         \A f \in Content : Covers(mem, f) => Covers(after, f),
         after.sum[Self] = mem.sum[Self] + inc,
         frag.sum[Self] <= mem.sum[Self] + inc,
         inc > 0 => frag.sum[Self] = mem.sum[Self] + inc
  PROVE  Inv'
<1> DEFINE m == [frag |-> frag, seq |-> deltaSeq + 1]
<1>1. TypeOK /\ TypeOK' /\ Up /\ phase = "running" /\ ckpt' = ckpt
  BY LocalUpdateType DEF Inv, LocalUpdate, Up
<1>2. m \in Mutation /\ m.frag = frag /\ m.seq = deltaSeq + 1
  BY <1>1 DEF TypeOK, Mutation
<1>3. /\ mem.sum[Self] \in Nat /\ OwnWritten \in Nat /\ deltaSeq \in Nat
      /\ inDoubt \in Nat /\ rejected \in Nat /\ ackedSum \in Nat
      /\ frag.sum[Self] \in Nat /\ mem.sum[Self] <= OwnWritten
  <2>1. mem.sum[Self] <= OwnWritten
    BY DEF Inv, OwnCountCapped
  <2>2. m.frag.sum[Self] \in Nat
    BY <1>1, <1>2, Numbers
  <2> QED
    BY <1>1, <1>2, <2>1, <2>2, Numbers
<1>4. after.sum[Self] <= OwnWritten + inc /\ frag.sum[Self] <= OwnWritten + inc
  BY <1>3
<1> HIDE DEF m
<1>5. CASE AppendOK(m) /\ mem' = after /\ deltaSeq' = m.seq /\ issued' = issued \cup {m}
           /\ ackedSum' = ackedSum + inc /\ UNCHANGED <<phase, replay, inDoubt, rejected>>
  <2>1. deltaSeq <= deltaSeq' /\ m.seq <= deltaSeq'
    BY <1>2, <1>3, <1>5
  <2> QED
    BY <1>1, <1>2, <1>3, <1>4, <1>5, <2>1, AcceptInv
<1>6. CASE AppendShort /\ UNCHANGED <<phase, manager, replay, ghost>>
  <2> DEFINE e == [frag |-> NoContent, seq |-> 0]
  <2>1. e \in Mutation /\ e.frag.sum[Self] = 0
    BY NoContentType, ConfigAssumption DEF Mutation, NoContent, NoContrib
  <2>2. rejected' = rejected + 0 /\ e.frag.sum[Self] <= OwnWritten + 0
    BY <1>3, <1>6, <2>1 DEF ghost
  <2>3. UNCHANGED <<phase, mem, deltaSeq, replay, ckpt, acked, issued, ackedSum, inDoubt>>
    BY <1>1, <1>6 DEF manager, ghost
  <2> HIDE DEF e
  <2> QED
    BY <1>1, <1>6, <2>1, <2>2, <2>3, RefuseInv
<1>7. CASE AppendUnsynced(m) /\ rejected' = rejected + inc
           /\ UNCHANGED <<phase, manager, replay, acked, issued, ackedSum, inDoubt>>
  <2>1. UNCHANGED <<phase, mem, deltaSeq, replay, ckpt, acked, issued, ackedSum, inDoubt>>
    BY <1>1, <1>7 DEF manager
  <2> QED
    BY <1>1, <1>2, <1>4, <1>7, <2>1, RefuseInv
<1>8. CASE AppendCut(m) /\ ProcessEnds
           /\ inDoubt' = (IF wal' = wal THEN inDoubt ELSE inDoubt + inc)
           /\ UNCHANGED <<acked, issued, ackedSum, rejected>>
  <2>1. inDoubt <= inDoubt'
    BY <1>3, <1>8
  <2>2. wal' # wal => m.frag.sum[Self] <= OwnWritten'
    BY <1>2, <1>3, <1>4, <1>8 DEF OwnWritten
  <2> QED
    BY <1>1, <1>2, <1>8, <2>1, <2>2, CutInv
<1> QED
  BY <1>5, <1>6, <1>7, <1>8 DEF LocalUpdate, m

\* What a message can carry counts no more of this node than was written.
LEMMA ReceivedCapped ==
  ASSUME Inv, ApplyReceivedDelta \/ ApplySnapshot
  PROVE  \E m \in Mutation : Receive(m) /\ m.frag.sum[Self] <= OwnWritten
<1>0. /\ TypeOK /\ OwnWritten \in Nat
      /\ \A m \in issued : m \in Mutation /\ m.frag.sum[Self] <= OwnWritten
  BY Numbers DEF Inv, OwnCountCapped, TypeOK
<1>1. CASE \E f \in PeerFragment : Receive([frag |-> f, seq |-> 0])
  <2>1. PICK f \in PeerFragment : Receive([frag |-> f, seq |-> 0])
    BY <1>1
  <2>2. [frag |-> f, seq |-> 0] \in Mutation /\ f.sum[Self] = 0
    BY InputAssumption DEF Mutation
  <2> QED  BY <1>0, <2>1, <2>2
<1>2. CASE \E m \in issued : Receive(m)
  BY <1>0, <1>2
<1>3. CASE ApplySnapshot
  <2>1. PICK f \in PeerFragment, m \in issued :
          Receive([frag |-> MergeContent(f, m.frag), seq |-> m.seq])
    BY <1>3 DEF ApplySnapshot
  <2>2. [frag |-> MergeContent(f, m.frag), seq |-> m.seq] \in Mutation
    BY <1>0, InputAssumption, MergeContentType DEF Mutation
  <2>3. f.sum[Self] = 0 /\ m.frag.sum[Self] \in Nat
    BY <1>0, InputAssumption, Numbers
  <2>4. MergeContent(f, m.frag).sum[Self] = m.frag.sum[Self]
    BY <2>3, ConfigAssumption DEF MergeContent, MergeSUM
  <2> QED  BY <1>0, <2>1, <2>2, <2>4
<1> QED
  BY <1>1, <1>2, <1>3 DEF ApplyReceivedDelta

\* The maximum of two counts within the cap is within the cap.
LEMMA MergeCapped ==
  ASSUME NEW s \in Content, NEW f \in Content, NEW cap \in Nat,
         s.sum[Self] <= cap, f.sum[Self] <= cap
  PROVE  MergeContent(s, f).sum[Self] <= cap
BY ConfigAssumption DEF MergeContent, MergeSUM

\* A received delta or snapshot keeps the invariant.
LEMMA ReceiveInv ==
  ASSUME Inv, NEW m \in Mutation, Receive(m), m.frag.sum[Self] <= OwnWritten
  PROVE  Inv'
<1> DEFINE after == MergeContent(mem, m.frag)
           seq == Larger(deltaSeq, m.seq)
<1>1. TypeOK /\ TypeOK' /\ Up /\ ckpt' = ckpt
  BY ReceiveType DEF Inv, Receive
<1>2. /\ mem \in Content /\ m.frag \in Content /\ OwnWritten \in Nat
      /\ deltaSeq \in Nat /\ m.seq \in Nat /\ m.frag.sum[Self] \in Nat
      /\ ackedSum \in Nat /\ rejected \in Nat /\ inDoubt \in Nat
  BY <1>1, Numbers
<1>3. Canonical(after) /\ Covers(after, m.frag)
      /\ \A f \in Content : Covers(mem, f) => Covers(after, f)
  BY <1>2, MergeContentType, CoversMerged, CoversStable
<1>4. after.sum[Self] <= OwnWritten
  BY <1>2, MergeCapped DEF Inv, OwnCountCapped
<1>5. deltaSeq <= seq /\ m.seq <= seq
  BY <1>2 DEF Larger
<1> HIDE DEF after, seq
<1>6. CASE deltaSeq' = seq
           /\ UNCHANGED <<phase, mem, pendingSync, replay, wal, torn, synced, ghost>>
  <2>1. UNCHANGED <<phase, mem, ckpt, replay, wal, torn, synced, acked, issued,
                    ackedSum, inDoubt, rejected>>
    BY <1>1, <1>6 DEF ghost
  <2>2. KeptCanonical' /\ CheckpointBehind' /\ OwnCountCapped' /\ LinesDecode'
    BY <2>1 DEF Inv, KeptCanonical, CheckpointBehind, OwnCountCapped, OwnWritten, LinesDecode, Readable
  <2>3. ASSUME KeepsAcked PROVE AckedKept' /\ OnLine' /\ LinesHeld' /\ FreshSequence'
    <3>1. AckedKept' /\ OnLine' /\ FreshSequence'
      BY <2>1, <2>3, GhostKept DEF Inv, AckedKept
    <3>2. \A i \in acked : wal[i].seq <= deltaSeq => wal[i].seq <= deltaSeq'
      <4>1. \A i \in acked : wal[i].seq \in Nat
        BY <1>1, Numbers
      <4>2. deltaSeq' \in Nat
        BY <1>1 DEF TypeOK
      <4> QED  BY <1>2, <1>5, <1>6, <4>1, <4>2
    <3>3. phase # "recovering"
      BY <1>1 DEF Up
    <3>4. LinesHeld
      BY <2>3 DEF Inv
    <3>5. LinesHeld'
      BY <2>1, <3>2, <3>3, <3>4 DEF LinesHeld, Holds, Up
    <3> QED  BY <3>1, <3>5
  <2> QED
    BY <1>1, <2>2, <2>3 DEF Inv, KeepsAcked
<1>7. CASE AppendOK(m) /\ mem' = after /\ deltaSeq' = seq
           /\ UNCHANGED <<phase, replay, issued, ackedSum, inDoubt, rejected>>
  <2>1. ackedSum' = ackedSum + 0 /\ OwnWritten + 0 = OwnWritten
    BY <1>2, <1>7
  <2> QED
    BY <1>1, <1>2, <1>3, <1>4, <1>5, <1>7, <2>1, AcceptInv
<1>8. CASE (AppendShort \/ AppendUnsynced(m)) /\ UNCHANGED <<phase, manager, replay, ghost>>
  <2>1. UNCHANGED <<phase, mem, deltaSeq, replay, ckpt, acked, issued, ackedSum, inDoubt>>
        /\ rejected' = rejected + 0 /\ OwnWritten + 0 = OwnWritten
    BY <1>1, <1>2, <1>8 DEF manager, ghost
  <2> QED
    BY <1>1, <1>2, <1>8, <2>1, RefuseInv
<1>9. CASE AppendCut(m) /\ ProcessEnds /\ UNCHANGED ghost
  <2>1. UNCHANGED <<ckpt, acked, issued, ackedSum, rejected>> /\ inDoubt' = inDoubt
        /\ OwnWritten' = OwnWritten
    BY <1>1, <1>9 DEF ghost, OwnWritten
  <2>2. inDoubt <= inDoubt'
    BY <1>2, <2>1
  <2> QED
    BY <1>1, <1>9, <2>1, <2>2, CutInv
<1> QED
  BY <1>6, <1>7, <1>8, <1>9 DEF Receive, after, seq

\* A step that writes no line and no ghost, and leaves the checkpoint alone,
\* keeps the invariant when its memory holds the acknowledged lines it must.
LEMMA QuietInv ==
  ASSUME Inv, TypeOK', UNCHANGED <<wal, ckpt, ghost>>, synced <= synced',
         Canonical(mem'), mem'.sum[Self] <= OwnWritten,
         "shortWrite" \notin Fault => (torn' => phase' = "down"),
         KeepsAcked => /\ Up' => \A i \in acked : Holds(mem', deltaSeq', i)
                       /\ phase' = "recovering" =>
                            \A i \in acked : i <= replay' => Holds(mem', deltaSeq', i)
  PROVE  Inv'
<1>1. /\ UNCHANGED <<acked, issued, ackedSum, inDoubt, rejected>>
      /\ OwnWritten' = OwnWritten /\ TypeOK
      /\ synced' \in Nat /\ synced \in Nat /\ ckpt.index \in Nat
      /\ \A i \in acked : i \in Nat
  <2>1. UNCHANGED <<acked, issued, ackedSum, inDoubt, rejected>>
    BY DEF ghost
  <2>2. synced' \in Nat
    BY DEF TypeOK
  <2>3. TypeOK
    BY DEF Inv
  <2> QED
    BY <2>1, <2>2, <2>3, Numbers DEF OwnWritten
<1>2. KeptCanonical'
  BY DEF Inv, KeptCanonical
<1>3. CheckpointBehind'
  BY <1>1 DEF Inv, CheckpointBehind
<1>4. OwnCountCapped'
  BY <1>1 DEF Inv, OwnCountCapped
<1>5. LinesDecode'
  BY DEF Inv, LinesDecode, Readable
<1>6. ASSUME KeepsAcked PROVE AckedKept' /\ OnLine' /\ LinesHeld' /\ FreshSequence'
  <2>1. OnLine' /\ FreshSequence'
    BY <1>1, <1>6, GhostKept
  <2>2. AckedKept'
    BY <1>1, <1>6 DEF Inv, AckedKept
  <2>3. LinesHeld'
    <3>1. \A i \in acked : i <= ckpt.index => Holds(ckpt.frag, ckpt.seq, i)
      BY <1>6 DEF Inv, LinesHeld
    <3> QED
      BY <1>1, <1>6, <3>1 DEF LinesHeld, Holds
  <2> QED  BY <2>1, <2>2, <2>3
<1> QED
  BY <1>2, <1>3, <1>4, <1>5, <1>6 DEF Inv, KeepsAcked

\* A checkpoint keeps the invariant: it is taken from a memory that holds every
\* acknowledged line, after the log has been synced.
LEMMA CheckpointInv ==
  ASSUME Inv, TypeOK', phase = "running", phase' \in {"running", "stopping"},
         SaveCheckpoint, UNCHANGED <<manager, replay, wal, torn, ghost>>
  PROVE  Inv'
<1>1. /\ TypeOK /\ UNCHANGED <<mem, deltaSeq, wal, torn, acked, issued, ackedSum, inDoubt, rejected>>
      /\ OwnWritten' = OwnWritten /\ synced' = Len(wal) /\ Up /\ Up'
  BY DEF Inv, manager, ghost, SaveCheckpoint, Save, OwnWritten, Up
<1>2. ckpt.index <= Len(wal)
  BY <1>1, Numbers DEF Inv, CheckpointBehind
<1>3. ckpt' = [frag |-> mem, seq |-> deltaSeq, index |-> Len(wal)]
  BY <1>1, <1>2, Numbers DEF SaveCheckpoint, Save
<1>4. ckpt'.frag = mem /\ ckpt'.seq = deltaSeq /\ ckpt'.index = Len(wal)
  BY <1>3
<1>5. KeptCanonical' /\ OwnCountCapped'
  BY <1>1, <1>4 DEF Inv, KeptCanonical, OwnCountCapped
<1>6. CheckpointBehind'
  BY <1>1, <1>4, Numbers DEF CheckpointBehind
<1>7. LinesDecode'
  BY <1>1 DEF Inv, LinesDecode, Readable
<1>8. ASSUME KeepsAcked PROVE AckedKept' /\ OnLine' /\ LinesHeld' /\ FreshSequence'
  <2>1. OnLine' /\ FreshSequence'
    BY <1>1, <1>8, GhostKept
  <2>2. AckedKept'
    <3>1. \A i \in acked : i \in 1..Len(wal) /\ Len(wal) \in Nat
      BY <1>1, Numbers
    <3> QED
      BY <1>1, <3>1 DEF AckedKept
  <2>3. LinesHeld'
    <3>1. \A i \in acked : Holds(mem, deltaSeq, i)
      BY <1>1, <1>8 DEF Inv, LinesHeld
    <3>2. phase' # "recovering"
      OBVIOUS
    <3> QED
      BY <1>1, <1>4, <3>1, <3>2 DEF LinesHeld, Holds
  <2> QED  BY <2>1, <2>2, <2>3
<1> QED
  BY <1>5, <1>6, <1>7, <1>8 DEF Inv, KeepsAcked

\* A power loss keeps the invariant: acknowledged lines of the configurations
\* that promise to keep them were synced, and so is the checkpointed part.
LEMMA PowerLossInv ==
  ASSUME Inv, TypeOK', PowerLoss
  PROVE  Inv'
<1>1. PICK k \in synced..Len(wal) : wal' = SubSeq(wal, 1, k) /\ acked' = acked \cap 1..k
  BY DEF PowerLoss
<1>2. /\ TypeOK /\ phase' = "down" /\ mem' = NoContent /\ "powerLoss" \in Fault
      /\ UNCHANGED <<synced, ckpt, issued, ackedSum, inDoubt, rejected>>
      /\ OwnWritten' = OwnWritten
  BY DEF Inv, PowerLoss, ProcessEnds, OwnWritten
<1>3. k \in 0..Len(wal) /\ Len(wal') = k /\ \A i \in 1..k : wal'[i] = wal[i]
  BY <1>1, <1>2, CutFacts
<1>4. Len(wal) \in Nat /\ synced \in Nat /\ OwnWritten \in Nat
  BY <1>2, Numbers
<1>5. KeptCanonical' /\ CheckpointBehind'
  BY <1>2, NoContentType DEF Inv, KeptCanonical, CheckpointBehind
<1>6. OwnCountCapped'
  <2>1. mem'.sum[Self] <= OwnWritten
    BY <1>2, <1>4, ConfigAssumption DEF NoContent, NoContrib
  <2>2. \A i \in 1..Len(wal') : i \in 1..Len(wal) /\ wal'[i] = wal[i]
    BY <1>3, <1>4
  <2> QED
    BY <1>2, <2>1, <2>2 DEF Inv, OwnCountCapped
<1>7. LinesDecode'
  <2>1. \A i \in 1..Len(wal') : i \in 1..Len(wal) /\ wal'[i] = wal[i]
    BY <1>3, <1>4
  <2> QED
    BY <1>2, <2>1 DEF Inv, LinesDecode, Readable
<1>8. ASSUME KeepsAcked PROVE AckedKept' /\ OnLine' /\ LinesHeld' /\ FreshSequence'
  <2>1. AckedKept /\ SyncMode = "always"
    BY <1>2, <1>8 DEF Inv, KeepsAcked
  <2>2. \A i \in acked : i \in 1..k
    <3>1. \A i \in acked : i <= synced /\ i \in 1..Len(wal)
      BY <1>2, <2>1, Numbers DEF AckedKept
    <3> QED  BY <1>1, <1>4, <3>1
  <2>3. acked' = acked /\ \A i \in acked : wal'[i] = wal[i]
    BY <1>1, <1>3, <2>2
  <2>4. OnLine' /\ FreshSequence'
    BY <1>2, <1>8, <2>3, GhostKept
  <2>5. AckedKept' /\ LinesHeld'
    BY <1>2, <1>8, <2>1, <2>3 DEF Inv, AckedKept, LinesHeld, Holds, Up
  <2> QED  BY <2>4, <2>5
<1> QED
  BY <1>5, <1>6, <1>7, <1>8 DEF Inv, KeepsAcked

\* Every step of the node keeps the invariant.
LEMMA InvStep == Inv /\ [Next]_vars => Inv'
<1> SUFFICES ASSUME Inv, [Next]_vars PROVE Inv'
  OBVIOUS
<1>0. /\ TypeOK /\ TypeOK' /\ mem \in Content /\ mem.sum \in Contrib
      /\ mem.topk \in SUBSET Candidate /\ mem = [sum |-> mem.sum, topk |-> mem.topk]
      /\ Canonical(mem) /\ mem.sum[Self] <= OwnWritten /\ OwnWritten \in Nat
      /\ Len(wal) \in Nat /\ synced \in Nat /\ synced <= Len(wal)
  <2>1. TypeOK /\ TypeOK'
    BY TypeStep DEF Inv
  <2>2. mem \in Content /\ OwnWritten \in Nat
        /\ Len(wal) \in Nat /\ synced \in Nat /\ synced <= Len(wal)
    BY <2>1, Numbers
  <2>3. Canonical(mem) /\ mem.sum[Self] <= OwnWritten
    BY DEF Inv, KeptCanonical, OwnCountCapped
  <2> QED  BY <2>1, <2>2, <2>3 DEF Content
<1>1. ASSUME NEW inc \in Increment, ApplyLocalSUM(inc) PROVE Inv'
  <2> DEFINE contrib == UpdateSUM(mem.sum, Self, inc)
             after == [mem EXCEPT !.sum = contrib]
             frag == SUMFragment(Self, contrib[Self])
  <2>1. UpdateFits(mem.sum, Self, inc) /\ LocalUpdate(after, frag, inc)
    BY <1>1 DEF ApplyLocalSUM
  <2>2. /\ contrib \in Contrib /\ contrib[Self] = mem.sum[Self] + inc
        /\ \A n \in Node : mem.sum[n] <= contrib[n]
    BY <1>0, <2>1, LocalTypes
  <2> HIDE DEF contrib
  <2>3. after \in Content /\ after.sum = contrib /\ after.topk = mem.topk
    BY <1>0, <2>2 DEF Content
  <2>4. frag \in Content /\ frag.topk = {} /\ frag.sum[Self] = contrib[Self]
        /\ \A n \in Node : frag.sum[n] = IF n = Self THEN contrib[Self] ELSE 0
    <3>1. frag \in Content
      BY <2>2, FragmentType, ConfigAssumption DEF Contrib
    <3> QED
      BY <3>1, ConfigAssumption DEF SUMFragment
  <2>5. \A f \in Content : Covers(mem, f) => Covers(after, f)
    BY <1>0, <2>2, CoversSUMGrows
  <2>6. Canonical(after)
    BY <1>0, <2>3 DEF Canonical
  <2>7. Covers(after, frag)
    <3>1. \A n \in Node : frag.sum[n] <= after.sum[n]
      BY <2>2, <2>3, <2>4, WidthAssumption DEF Contrib
    <3>2. after.sum \in Contrib /\ frag.sum \in Contrib
      BY <2>3, <2>4 DEF Content
    <3>3. MergeSUM(after.sum, frag.sum) = after.sum
      BY <3>1, <3>2, CoversSUM
    <3>4. MergeTOPK(after.topk, frag.topk) = after.topk
      <4>1. after.topk \cup {} = after.topk  OBVIOUS
      <4> QED  BY <2>4, <2>6, <4>1 DEF MergeTOPK, Canonical
    <3> QED  BY <2>3, <2>4, <3>3, <3>4, CoversParts
  <2>8. inc \in Nat /\ after.sum[Self] = mem.sum[Self] + inc
        /\ frag.sum[Self] = mem.sum[Self] + inc /\ frag.sum[Self] <= mem.sum[Self] + inc
    BY <1>0, <2>2, <2>3, <2>4, InputAssumption, Numbers
  <2> HIDE DEF after, frag
  <2> QED
    BY <2>1, <2>3, <2>4, <2>5, <2>6, <2>7, <2>8, LocalUpdateInv
<1>2. ASSUME NEW c \in LocalCandidate, ApplyLocalTOPK(c) PROVE Inv'
  <2> DEFINE kept == MergeTOPK(mem.topk, {c})
             after == [mem EXCEPT !.topk = kept]
             frag == TOPKFragment(c)
  <2>1. LocalUpdate(after, frag, 0)
    BY <1>2 DEF ApplyLocalTOPK
  <2>2. c \in Candidate /\ {c} \in SUBSET Candidate
    BY InputAssumption
  <2>3. kept \in SUBSET Candidate /\ Canonicalize(kept) = kept
        /\ MergeTOPK(kept, {c}) = MergeTOPK(mem.topk, MergeTOPK({c}, {c}))
    <3>1. mem.topk \in SUBSET Candidate
      BY <1>0
    <3>2. kept \in SUBSET Candidate /\ Canonicalize(kept) = kept
      BY <2>2, <3>1, MergeTOPKLaws
    <3>3. MergeTOPK(kept, {c}) = MergeTOPK(mem.topk, MergeTOPK({c}, {c}))
      BY <2>2, <3>1, MergeTOPKLaws
    <3> QED  BY <3>2, <3>3
  <2>4. MergeTOPK(kept, {c}) = kept
    <3>1. {c} \cup {c} = {c}  OBVIOUS
    <3>2. MergeTOPK(mem.topk, Canonicalize({c})) = MergeTOPK(mem.topk, {c})
      BY <1>0, <2>2, CanonicalizeUnion DEF MergeTOPK
    <3> QED  BY <2>3, <3>1, <3>2 DEF MergeTOPK
  <2>5. \A f \in Content : Covers(mem, f) => Covers(after, f)
    BY <1>0, <2>2, CoversTOPKGrows
  <2> HIDE DEF kept
  <2>6. after \in Content /\ after.sum = mem.sum /\ after.topk = kept
    BY <1>0, <2>3 DEF Content
  <2>7. frag \in Content /\ frag.topk = {c} /\ frag.sum = NoContrib
    BY <2>2, FragmentType DEF TOPKFragment
  <2>8. Canonical(after)
    BY <2>3, <2>6 DEF Canonical
  <2>9. Covers(after, frag)
    <3>1. after.sum \in Contrib /\ frag.sum \in Contrib
      BY <2>6, <2>7 DEF Content
    <3>2. \A n \in Node : frag.sum[n] <= after.sum[n]
      BY <2>7, <3>1, WidthAssumption DEF Contrib, NoContrib
    <3>3. MergeSUM(after.sum, frag.sum) = after.sum
      BY <3>1, <3>2, CoversSUM
    <3> QED  BY <2>4, <2>6, <2>7, <3>3, CoversParts
  <2>10. /\ after.sum[Self] = mem.sum[Self] + 0 /\ frag.sum[Self] <= mem.sum[Self] + 0
         /\ ~(0 > 0)
    BY <1>0, <2>6, <2>7, ConfigAssumption, Numbers DEF NoContrib
  <2> HIDE DEF after, frag
  <2> QED
    BY <2>1, <2>5, <2>6, <2>7, <2>8, <2>9, <2>10, LocalUpdateInv
<1>3. ASSUME ApplyReceivedDelta \/ ApplySnapshot PROVE Inv'
  BY <1>3, ReceivedCapped, ReceiveInv
<1>4. CASE ApplyBadSnapshot
  <2>1. PICK f \in PeerFragment : mem' = [mem EXCEPT !.sum = MergeSUM(mem.sum, f.sum)]
    BY <1>4 DEF ApplyBadSnapshot
  <2> DEFINE c == MergeSUM(mem.sum, f.sum)
  <2>2. Up /\ UNCHANGED <<phase, deltaSeq, wal, torn, synced, ckpt, ghost>>
    BY <1>4 DEF ApplyBadSnapshot, disk
  <2>3. f.sum \in Contrib /\ f.sum[Self] = 0
    BY InputAssumption DEF Content
  <2>4. c \in Contrib /\ (\A n \in Node : mem.sum[n] <= c[n]) /\ c[Self] <= mem.sum[Self]
    <3>1. c \in Contrib
      BY <1>0, <2>3, MergeSUMLaws
    <3>2. \A n \in Node : mem.sum[n] <= c[n]
      BY <1>0, <2>3, WidthAssumption DEF MergeSUM, Contrib
    <3>3. c[Self] <= mem.sum[Self]
      BY <1>0, <2>3, ConfigAssumption, WidthAssumption DEF MergeSUM, Contrib
    <3> QED  BY <3>1, <3>2, <3>3
  <2> HIDE DEF c
  <2>5. mem'.sum = c /\ mem'.topk = mem.topk /\ Canonical(mem')
    BY <1>0, <2>1 DEF Canonical, c
  <2>6. mem'.sum[Self] <= OwnWritten
    BY <1>0, <2>4, <2>5, ConfigAssumption, WidthAssumption DEF Contrib
  <2>7. KeepsAcked => \A i \in acked : Holds(mem', deltaSeq', i)
    <3>1. \A i \in acked : wal[i].frag \in Content
      BY <1>0, Numbers
    <3>2. \A g \in Content : Covers(mem, g) => Covers(mem', g)
      BY <1>0, <2>1, <2>4, CoversSUMGrows DEF c
    <3> QED
      BY <2>2, <3>1, <3>2 DEF Inv, LinesHeld, Holds
  <2>8. phase' # "recovering" /\ ("shortWrite" \notin Fault => ~torn')
    BY <2>2 DEF Inv, LinesDecode, Readable, Up
  <2> QED
    BY <1>0, <2>2, <2>5, <2>6, <2>7, <2>8, QuietInv
<1>5. CASE Checkpoint
  <2>1. /\ phase = "running" /\ UNCHANGED <<phase, manager, replay, wal, torn, ghost>>
        /\ SaveCheckpoint \/ (synced' = Len(wal) /\ UNCHANGED ckpt)
    BY <1>5 DEF Checkpoint
  <2>2. CASE SaveCheckpoint
    BY <1>0, <2>1, <2>2, CheckpointInv
  <2>3. CASE synced' = Len(wal) /\ UNCHANGED ckpt
    <3>1. UNCHANGED <<mem, deltaSeq>> /\ Up
      BY <2>1 DEF manager, Up
    <3>2. phase' # "recovering" /\ ("shortWrite" \notin Fault => ~torn')
      BY <2>1 DEF Inv, LinesDecode, Readable
    <3>3. KeepsAcked => \A i \in acked : Holds(mem', deltaSeq', i)
      BY <3>1 DEF Inv, LinesHeld
    <3> QED
      BY <1>0, <2>1, <2>3, <3>1, <3>2, <3>3, QuietInv
  <2> QED  BY <2>1, <2>2, <2>3
<1>6. CASE ShutdownCheckpoint
  BY <1>0, <1>6, CheckpointInv DEF ShutdownCheckpoint
<1>7. CASE CloseStore
  <2>1. phase = "stopping" /\ phase' = "closed" /\ synced' = Len(wal) /\ Up
        /\ UNCHANGED <<mem, deltaSeq, wal, torn, ckpt, ghost>>
    BY <1>7 DEF CloseStore, manager, Up
  <2>2. "shortWrite" \notin Fault => ~torn'
    BY <2>1 DEF Inv, LinesDecode, Readable
  <2>3. KeepsAcked => \A i \in acked : Holds(mem', deltaSeq', i)
    BY <2>1 DEF Inv, LinesHeld
  <2> QED
    BY <1>0, <2>1, <2>2, <2>3, QuietInv
<1>8. CASE Crash
  <2>1. /\ phase' = "down" /\ mem' = NoContent /\ ~Up'
        /\ UNCHANGED <<wal, torn, synced, ckpt, ghost>>
    BY <1>8 DEF Crash, ProcessEnds, disk, Up
  <2>2. mem'.sum[Self] <= OwnWritten /\ Canonical(mem')
    BY <1>0, <2>1, NoContentType, ConfigAssumption DEF NoContent, NoContrib
  <2> QED
    BY <1>0, <2>1, <2>2, QuietInv
<1>9. CASE PowerLoss
  BY <1>0, <1>9, PowerLossInv
<1>10. CASE StartupFails
  <2>1. /\ phase' = "failed" /\ ~Up' /\ UNCHANGED <<mem, wal, synced, ckpt, ghost>>
    BY <1>10 DEF StartupFails, manager, Up
  <2>2. "shortWrite" \notin Fault => ~torn'
    BY <1>10 DEF StartupFails, Inv, LinesDecode, Readable
  <2> QED
    BY <1>0, <2>1, <2>2, QuietInv
<1>11. CASE Recover
  <2>1. /\ phase' = "recovering" /\ torn' = FALSE /\ synced' = Len(wal)
        /\ mem' = ckpt.frag /\ deltaSeq' = ckpt.seq /\ replay' = ckpt.index
        /\ UNCHANGED <<wal, ckpt, ghost>> /\ ~Up'
    BY <1>11 DEF Recover, RestoreCheckpoint, Up
  <2>2. Canonical(mem') /\ mem'.sum[Self] <= OwnWritten
    BY <2>1 DEF Inv, KeptCanonical, OwnCountCapped
  <2>3. KeepsAcked => \A i \in acked : i <= replay' => Holds(mem', deltaSeq', i)
    BY <2>1 DEF Inv, LinesHeld
  <2> QED
    BY <1>0, <2>1, <2>2, <2>3, QuietInv
<1>12. CASE ReplayLine
  <2> DEFINE l == wal[replay + 1]
  <2>1. /\ phase = "recovering" /\ mem' = MergeContent(mem, l.frag)
        /\ deltaSeq' = Larger(deltaSeq, l.seq) /\ replay' = replay + 1
        /\ replay \in Nat /\ replay + 1 \in 1..Len(wal)
        /\ UNCHANGED <<phase, wal, torn, synced, ckpt, ghost>> /\ ~Up'
    <3>1. replay \in Nat /\ replay + 1 \in 1..Len(wal)
      BY <1>0, <1>12 DEF ReplayLine, TypeOK
    <3> QED  BY <1>12, <3>1 DEF ReplayLine, disk, Up
  <2>2. l.frag \in Content /\ l.seq \in Nat /\ deltaSeq \in Nat /\ l.frag.sum[Self] <= OwnWritten
    BY <1>0, <2>1, Numbers DEF Inv, OwnCountCapped
  <2> HIDE DEF l
  <2>3. Canonical(mem') /\ Covers(mem', l.frag)
        /\ \A g \in Content : Covers(mem, g) => Covers(mem', g)
    BY <1>0, <2>1, <2>2, MergeContentType, CoversMerged, CoversStable
  <2>4. mem'.sum[Self] <= OwnWritten
    BY <1>0, <2>1, <2>2, MergeCapped
  <2>5. deltaSeq <= deltaSeq' /\ l.seq <= deltaSeq' /\ deltaSeq' \in Nat
    BY <2>1, <2>2 DEF Larger
  <2>6. ASSUME KeepsAcked, NEW i \in acked, i <= replay' PROVE Holds(mem', deltaSeq', i)
    <3>1. wal[i].frag \in Content /\ wal[i].seq \in Nat /\ i \in Nat
      BY <1>0, Numbers
    <3>2. CASE i = replay + 1
      BY <2>3, <2>5, <3>2 DEF Holds, l
    <3>3. CASE i <= replay
      <4>1. Holds(mem, deltaSeq, i)
        BY <2>1, <2>6, <3>3 DEF Inv, LinesHeld
      <4> QED
        BY <2>2, <2>3, <2>5, <3>1, <4>1 DEF Holds
    <3> QED  BY <2>1, <2>6, <3>1, <3>2, <3>3
  <2>7. "shortWrite" \notin Fault => ~torn'
    BY <2>1 DEF Inv, LinesDecode, Readable
  <2> QED
    BY <1>0, <2>1, <2>3, <2>4, <2>6, <2>7, QuietInv
<1>13. CASE FinishRecovery
  <2>1. /\ phase = "recovering" /\ phase' = "running" /\ replay = Len(wal)
        /\ UNCHANGED <<mem, deltaSeq, wal, torn, synced, ckpt, ghost>>
    BY <1>13 DEF FinishRecovery, manager, disk
  <2>2. KeepsAcked => \A i \in acked : Holds(mem', deltaSeq', i)
    <3>1. \A i \in acked : i <= replay
      BY <1>0, <2>1, Numbers
    <3> QED  BY <2>1, <3>1 DEF Inv, LinesHeld
  <2>3. "shortWrite" \notin Fault => ~torn'
    BY <2>1 DEF Inv, LinesDecode, Readable
  <2> QED
    BY <1>0, <2>1, <2>2, <2>3, QuietInv
<1>14. CASE UNCHANGED vars
  <2>1. UNCHANGED <<phase, mem, deltaSeq, replay, wal, torn, synced, ckpt, ghost>>
    BY <1>14 DEF vars, manager, disk
  <2>2. KeepsAcked => /\ Up' => \A i \in acked : Holds(mem', deltaSeq', i)
                      /\ phase' = "recovering" =>
                           \A i \in acked : i <= replay' => Holds(mem', deltaSeq', i)
    BY <2>1 DEF Inv, LinesHeld, Up
  <2>3. "shortWrite" \notin Fault => (torn' => phase' = "down")
    BY <2>1 DEF Inv, LinesDecode, Readable
  <2> QED
    BY <1>0, <2>1, <2>2, <2>3, QuietInv
<1> QED
  BY <1>1, <1>2, <1>3, <1>4, <1>5, <1>6, <1>7, <1>8, <1>9, <1>10, <1>11, <1>12, <1>13, <1>14
     DEF Next

-----------------------------------------------------------------------------
(* Theorems *)

\* The invariant holds in every reachable state.
THEOREM Invariance == Spec => []Inv
<1>1. Init => Inv
  <2> SUFFICES ASSUME Init PROVE Inv
    OBVIOUS
  <2>1. TypeOK
    BY InitType
  <2>2. Len(wal) = 0 /\ OwnWritten \in Nat
    BY <2>1, Numbers DEF Init
  <2>3. ckpt.frag = NoContent /\ ckpt.index = 0 /\ mem = NoContent
    BY DEF Init, NoCheckpoint
  <2>4. KeptCanonical /\ CheckpointBehind
    BY <2>3, NoContentType DEF Init, KeptCanonical, CheckpointBehind
  <2>5. OwnCountCapped
    BY <2>2, <2>3, ConfigAssumption DEF Init, OwnCountCapped, NoContent, NoContrib
  <2>6. LinesDecode
    BY <2>2 DEF Init, LinesDecode, Readable
  <2>7. AckedKept /\ OnLine /\ LinesHeld /\ FreshSequence
    BY DEF Init, AckedKept, OnLine, LinesHeld, FreshSequence, Up
  <2> QED  BY <2>1, <2>4, <2>5, <2>6, <2>7 DEF Inv
<1> QED
  BY <1>1, InvStep, PTL DEF Spec

\* In always mode, and in every mode without a power loss, a serving node
\* covers every delta it ever handed to gossip, through any sequence of
\* crashes, failed writes, failed syncs, checkpoints and restarts.
THEOREM IssuedDeltasSurvive == ASSUME KeepsAcked PROVE Spec => []IssuedSurvive
<1>1. Inv => IssuedSurvive
  BY DEF Inv, OnLine, LinesHeld, Holds, IssuedSurvive
<1> QED
  BY <1>1, Invariance, PTL

\* In those configurations no delta sequence is issued twice for different
\* contents, so a peer that has seen a sequence has seen its delta.
THEOREM SequencesFresh == ASSUME KeepsAcked PROVE Spec => []FreshSequence
<1>1. Inv => FreshSequence
  BY DEF Inv
<1> QED
  BY <1>1, Invariance, PTL

\* In those configurations the own count is never below what clients were told
\* and never above what was written for them.
THEOREM OwnCountCorrect == ASSUME KeepsAcked PROVE Spec => []OwnCountBounds
<1>1. Inv => OwnCountBounds
  BY AckedServed DEF Inv, OwnCountCapped, OwnCountBounds, OwnWritten
<1> QED
  BY <1>1, Invariance, PTL

\* Without short writes a node can always be started again on its own files,
\* in every sync mode and through power losses: the checkpoint is never ahead
\* of the durable log and every complete line decodes.
THEOREM RestartSucceeds ==
  ASSUME "shortWrite" \notin Fault PROVE Spec => []StartupSucceeds
<1>1. Init => StartupSucceeds
  BY DEF Init, StartupSucceeds
<1>2. Inv /\ StartupSucceeds /\ [Next]_vars => StartupSucceeds'
  <2> SUFFICES ASSUME Inv, StartupSucceeds, [Next]_vars, phase' = "failed" PROVE FALSE
    BY DEF StartupSucceeds
  <2>1. StartupFails
    BY DEF StartupSucceeds, Next, vars, ApplyLocalSUM, ApplyLocalTOPK, LocalUpdate,
           ProcessEnds, ApplyReceivedDelta, ApplySnapshot, Receive, Up, ApplyBadSnapshot,
           Checkpoint, ShutdownCheckpoint, CloseStore, Crash, PowerLoss, Recover,
           ReplayLine, FinishRecovery
  <2>2. Readable
    BY DEF Inv, LinesDecode
  <2>3. ckpt.index <= Len(wal)
    BY Numbers DEF Inv, CheckpointBehind
  <2>4. Startable
    BY <2>2, <2>3 DEF Startable
  <2> QED  BY <2>1, <2>4 DEF StartupFails
<1> QED
  BY <1>1, <1>2, Invariance, PTL DEF Spec

=============================================================================
