----------------------------- MODULE Persistence -----------------------------
(***************************************************************************)
(* One node's aggregation manager (internal/aggregation/pipeline) with the *)
(* store behind it (internal/storage: the write-ahead log and the          *)
(* checkpoint files) through crashes, power losses, I/O errors, restarts   *)
(* and an orderly shutdown (internal/app).                                 *)
(*                                                                         *)
(* Every mutation of the manager, its append to the log and the rollback   *)
(* that follows a failed append run under mutationMu, and every reader     *)
(* takes the same lock, so a mutation is one action whose outcomes are the *)
(* ways its append can end; only a crash can cut it short.  Recovery runs  *)
(* alone, one action per replayed line.                                    *)
(*                                                                         *)
(* Versions of the aggregates are left out, nothing on this path reads     *)
(* them; so is the outbound channel, which enqueue fills after the append  *)
(* and which gossip empties: a delta that reaches enqueue is in issued.    *)
(***************************************************************************)
EXTENDS Aggregates, Sequences

CONSTANTS
  Self,               \* this node
  SyncMode,           \* WALFsyncMode: "always", "batch" or "none"
  BatchSize,          \* WALFsyncBatch
  Increment,          \* SUM increments clients submit
  LocalCandidate,     \* TOPK candidates clients submit
  PeerFragment,       \* what peers report about themselves
  Fault,              \* the faults that may happen
  MaxLog,             \* bound: lines the log may grow to
  MaxSubmitted        \* bound: total of the increments clients submit

ASSUME ConfigAssumption ==
  /\ Self \in Node
  /\ SyncMode \in {"always", "batch", "none"}
  /\ BatchSize \in Nat \ {0}
  /\ MaxLog \in Nat /\ MaxSubmitted \in Nat
  /\ Fault \subseteq {"shortWrite", "syncFail", "powerLoss", "badFragment"}

ASSUME InputAssumption ==
  /\ Increment \subseteq Nat \ {0}
  /\ LocalCandidate \subseteq Candidate
  /\ PeerFragment \subseteq Content
  /\ \A f \in PeerFragment : f.sum[Self] = 0

VARIABLES
  phase,        \* "down", "recovering", "running", "stopping", "closed", "failed"
  mem,          \* contents of the SUM and TOPK states of the manager
  deltaSeq,     \* Manager.deltaSeq
  pendingSync,  \* Log.pendingSync
  replay,       \* last log line merged by the recovery in progress
  wal,          \* complete lines of the log file; Log.lastIndex is their number
  torn,         \* the file ends in bytes without a newline
  synced,       \* lines an fsync has made durable
  ckpt,         \* the published checkpoint file with the largest index
  acked,        \* ghost: lines whose append returned success
  issued,       \* ghost: deltas handed to gossip
  ackedSum,     \* ghost: increments a client was told succeeded
  inDoubt,      \* ghost: increments never answered although their line was written
  rejected      \* ghost: increments answered with an error, their line written

manager == <<mem, deltaSeq>>
disk    == <<wal, torn, synced, ckpt>>
ghost   == <<acked, issued, ackedSum, inDoubt, rejected>>
vars    == <<phase, manager, pendingSync, replay, disk, ghost>>

\* A delta or snapshot as the journal stores it: what it merges and the
\* sequence it certifies for this node (0 when it says nothing of it).
Mutation == [frag : Content, seq : Nat]

\* A complete line of the log; it does not decode (ok is FALSE) when it was
\* appended to the bytes of an earlier short write.
Line == [frag : Content, seq : Nat, ok : BOOLEAN]

\* A checkpoint file, named by the log index it stands for.  Older files stay
\* in the directory but LoadLatest never reads them again.
CheckpointFile == [frag : Content, seq : Nat, index : Nat]

NoCheckpoint == [frag |-> NoContent, seq |-> 0, index |-> 0]

Up == phase \in {"running", "stopping", "closed"}

-----------------------------------------------------------------------------
(* The log: wal.Log *)

\* Mutant: always mode is treated like batch mode.
SyncDue_Batched == pendingSync + 1 >= BatchSize

\* Append syncs in always mode and on every BatchSize-th line in batch mode.
SyncDue == \/ SyncMode = "always"
           \/ SyncMode = "batch" /\ pendingSync + 1 >= BatchSize

WriteLine(m) ==
  /\ Len(wal) < MaxLog
  /\ wal' = Append(wal, [frag |-> m.frag, seq |-> m.seq, ok |-> ~torn])
  /\ torn' = FALSE

AppendOK(m) ==
  /\ WriteLine(m)
  /\ synced' = IF SyncDue THEN Len(wal) + 1 ELSE synced
  /\ pendingSync' = IF SyncDue THEN 0 ELSE pendingSync + 1
  /\ acked' = acked \cup {Len(wal) + 1}

\* Write returned an error after writing part of the line.
AppendShort ==
  /\ "shortWrite" \in Fault
  /\ Len(wal) < MaxLog
  /\ torn' = TRUE
  /\ UNCHANGED <<wal, synced, pendingSync>>

\* Mutant: the count of unsynced lines is reset although the fsync failed.
AppendUnsynced_Resets(m) ==
  /\ "syncFail" \in Fault
  /\ SyncDue
  /\ WriteLine(m)
  /\ pendingSync' = 0
  /\ UNCHANGED synced

\* The line is in the file and counted, but the fsync that was due failed.
AppendUnsynced(m) ==
  /\ "syncFail" \in Fault
  /\ SyncDue
  /\ WriteLine(m)
  /\ pendingSync' = pendingSync + 1
  /\ UNCHANGED synced

\* The process dies inside Append: mid-write, or with the line written but
\* the append not answered.
AppendCut(m) ==
  \/ torn' = TRUE /\ UNCHANGED <<wal, synced>>
  \/ WriteLine(m) /\ synced' \in {synced, Len(wal) + 1}

\* Every volatile variable after the process is gone.
ProcessEnds ==
  /\ phase' = "down"
  /\ mem' = NoContent
  /\ deltaSeq' = 0
  /\ pendingSync' = 0
  /\ replay' = 0

-----------------------------------------------------------------------------
(* Local updates: Manager.ApplyLocalUpdate *)

\* A local update of the state to after, announced by fragment frag and worth
\* inc to the node's own count: accepted, rolled back after a failed append
\* (Deserialize(before) and deltaSeq.Store), or cut short by a crash.
LocalUpdate(after, frag, inc) ==
  LET m == [frag |-> frag, seq |-> deltaSeq + 1]
  IN
  /\ phase = "running"
  /\ ackedSum + inDoubt + rejected + inc <= MaxSubmitted
  /\ UNCHANGED ckpt
  /\ \/ /\ AppendOK(m)
        /\ mem' = after
        /\ deltaSeq' = m.seq
        /\ issued' = issued \cup {m}
        /\ ackedSum' = ackedSum + inc
        /\ UNCHANGED <<phase, replay, inDoubt, rejected>>
     \/ /\ AppendShort
        /\ UNCHANGED <<phase, manager, replay, ghost>>
     \/ /\ AppendUnsynced(m)
        /\ rejected' = rejected + inc
        /\ UNCHANGED <<phase, manager, replay, acked, issued, ackedSum, inDoubt>>
     \/ /\ AppendCut(m)
        /\ ProcessEnds
        /\ inDoubt' = IF wal' = wal THEN inDoubt ELSE inDoubt + inc
        /\ UNCHANGED <<acked, issued, ackedSum, rejected>>

ApplyLocalSUM(inc) ==
  LET contrib == UpdateSUM(mem.sum, Self, inc)
  IN  /\ UpdateFits(mem.sum, Self, inc)
      /\ LocalUpdate([mem EXCEPT !.sum = contrib],
                     SUMFragment(Self, contrib[Self]), inc)

\* A candidate that does not change the kept set is answered without a delta.
ApplyLocalTOPK(c) ==
  LET after == MergeTOPK(mem.topk, {c})
  IN  /\ after # mem.topk
      /\ LocalUpdate([mem EXCEPT !.topk = after], TOPKFragment(c), 0)

-----------------------------------------------------------------------------
(* Received deltas and snapshots *)

\* The merge of m: the delta sequence advances even when the contents do not,
\* the journal is written only when they do, and a failed append (also
\* because the store is closed) restores both.
Receive(m) ==
  LET after == MergeContent(mem, m.frag)
  IN
  /\ Up
  /\ UNCHANGED ckpt
  /\ \/ /\ after = mem
        /\ deltaSeq' = Larger(deltaSeq, m.seq)
        /\ UNCHANGED <<phase, mem, pendingSync, replay,
                       wal, torn, synced, ghost>>
     \/ /\ after # mem
        /\ phase # "closed"
        /\ AppendOK(m)
        /\ mem' = after
        /\ deltaSeq' = Larger(deltaSeq, m.seq)
        /\ UNCHANGED <<phase, replay, issued, ackedSum, inDoubt, rejected>>
     \/ /\ after # mem
        /\ phase # "closed"
        /\ AppendShort \/ AppendUnsynced(m)
        /\ UNCHANGED <<phase, manager, replay, ghost>>
     \/ /\ after # mem
        /\ phase # "closed"
        /\ AppendCut(m)
        /\ ProcessEnds
        /\ UNCHANGED ghost

\* A delta of a peer, or one of this node's own deltas coming back.
ApplyReceivedDelta ==
  \/ \E f \in PeerFragment : Receive([frag |-> f, seq |-> 0])
  \/ \E m \in issued : Receive(m)

\* A snapshot merges what a peer reports of itself with what it has heard of
\* this node, and carries the peer's watermark for this node.
ApplySnapshot ==
  \E f \in PeerFragment, m \in issued :
    Receive([frag |-> MergeContent(f, m.frag), seq |-> m.seq])

\* applySnapshotLocked merges the SUM state and then fails to decode the TOPK
\* state: the error returns before the journal and without rollback.
ApplyBadSnapshot ==
  /\ "badFragment" \in Fault
  /\ Up
  /\ \E f \in PeerFragment : mem' = [mem EXCEPT !.sum = MergeSUM(@, f.sum)]
  /\ UNCHANGED <<phase, deltaSeq, pendingSync, replay, disk, ghost>>

-----------------------------------------------------------------------------
(* Checkpoints and shutdown *)

\* snapshot.Store.Save publishes a file by rename; one for the same log index is
\* replaced.
Save ==
  ckpt' = IF Len(wal) >= ckpt.index
          THEN [frag |-> mem, seq |-> deltaSeq, index |-> Len(wal)]
          ELSE ckpt

\* Mutant: the checkpoint is published without syncing the log first.
SaveCheckpoint_NoSync == Save /\ UNCHANGED <<synced, pendingSync>>

\* SaveCheckpoint syncs the log before it publishes the file.
SaveCheckpoint ==
  /\ synced' = Len(wal)
  /\ pendingSync' = 0
  /\ Save

\* The periodic checkpoint; on an error after the sync only the sync remains.
Checkpoint ==
  /\ phase = "running"
  /\ \/ SaveCheckpoint
     \/ synced' = Len(wal) /\ pendingSync' = 0 /\ UNCHANGED ckpt
  /\ UNCHANGED <<phase, manager, replay, wal, torn, ghost>>

\* shutdown: the HTTP server has stopped, messages are still handled.
ShutdownCheckpoint ==
  /\ phase = "running"
  /\ phase' = "stopping"
  /\ SaveCheckpoint
  /\ UNCHANGED <<manager, replay, wal, torn, ghost>>

\* Mutant: Close without the final sync.
CloseStore_NoSync ==
  /\ phase = "stopping"
  /\ phase' = "closed"
  /\ UNCHANGED <<manager, pendingSync, replay, disk, ghost>>

\* Store.Close syncs the log; the manager refuses every mutation afterwards.
CloseStore ==
  /\ phase = "stopping"
  /\ phase' = "closed"
  /\ synced' = Len(wal)
  /\ UNCHANGED <<manager, pendingSync, replay, wal, torn, ckpt, ghost>>

-----------------------------------------------------------------------------
(* Crash, power loss, restart *)

\* The process ends (a crash, or the exit after shutdown); the operating
\* system keeps what was written.
Crash ==
  /\ phase \notin {"down", "failed"}
  /\ ProcessEnds
  /\ UNCHANGED <<disk, ghost>>

\* Lines that were not synced may be lost, from the end of the file.
PowerLoss ==
  /\ "powerLoss" \in Fault
  /\ phase # "failed"
  /\ \E k \in synced..Len(wal) :
       /\ wal' = SubSeq(wal, 1, k)
       /\ torn' \in (IF k < Len(wal) \/ torn THEN BOOLEAN ELSE {FALSE})
       /\ acked' = acked \cap 1..k
  /\ ProcessEnds
  /\ UNCHANGED <<synced, ckpt, issued, ackedSum, inDoubt, rejected>>

\* readRecords decodes every complete line of the log.
Readable == \A i \in 1..Len(wal) : wal[i].ok

\* A restart succeeds unless Open meets a line that does not decode or Recover
\* a checkpoint that is ahead of the log.
Startable == Readable /\ ckpt.index <= Len(wal)

\* Open fails and leaves the file alone, or cuts the torn tail and Recover fails.
StartupFails ==
  /\ phase = "down"
  /\ ~Startable
  /\ phase' = "failed"
  /\ torn' = (torn /\ ~Readable)
  /\ UNCHANGED <<manager, pendingSync, replay, wal, synced, ckpt, ghost>>

\* The manager starts from the checkpoint's contents and sequence.
RestoreCheckpoint ==
  /\ mem' = ckpt.frag
  /\ deltaSeq' = ckpt.seq

\* Mutant: the first line after the checkpoint is skipped.
Recover_SkipsLine ==
  /\ phase = "down"
  /\ Startable
  /\ phase' = "recovering"
  /\ torn' = FALSE
  /\ synced' = Len(wal)
  /\ RestoreCheckpoint
  /\ replay' = IF ckpt.index < Len(wal) THEN ckpt.index + 1 ELSE ckpt.index
  /\ UNCHANGED <<pendingSync, wal, ckpt, ghost>>

\* Mutant: the delta sequence of the checkpoint is not restored.
Recover_NoSequence ==
  /\ phase = "down"
  /\ Startable
  /\ phase' = "recovering"
  /\ torn' = FALSE
  /\ synced' = Len(wal)
  /\ mem' = ckpt.frag
  /\ deltaSeq' = 0
  /\ replay' = ckpt.index
  /\ UNCHANGED <<pendingSync, wal, ckpt, ghost>>

\* Open and Recover succeed: the tail is cut, the log is synced before it is
\* read, and the manager starts from the checkpoint.
Recover ==
  /\ phase = "down"
  /\ Startable
  /\ phase' = "recovering"
  /\ torn' = FALSE
  /\ synced' = Len(wal)
  /\ RestoreCheckpoint
  /\ replay' = ckpt.index
  /\ UNCHANGED <<pendingSync, wal, ckpt, ghost>>

\* Mutant: replay does not advance the delta sequence.
ReplayLine_NoSequence ==
  /\ phase = "recovering"
  /\ replay < Len(wal)
  /\ mem' = MergeContent(mem, wal[replay + 1].frag)
  /\ replay' = replay + 1
  /\ UNCHANGED <<phase, deltaSeq, pendingSync, disk, ghost>>

\* ReplayDelta or ReplaySnapshot of the next line.
ReplayLine ==
  /\ phase = "recovering"
  /\ replay < Len(wal)
  /\ mem' = MergeContent(mem, wal[replay + 1].frag)
  /\ deltaSeq' = Larger(deltaSeq, wal[replay + 1].seq)
  /\ replay' = replay + 1
  /\ UNCHANGED <<phase, pendingSync, disk, ghost>>

\* SetJournal, after which the node serves.
FinishRecovery ==
  /\ phase = "recovering"
  /\ replay = Len(wal)
  /\ phase' = "running"
  /\ UNCHANGED <<manager, pendingSync, replay, disk, ghost>>

-----------------------------------------------------------------------------
Init ==
  /\ phase = "down"
  /\ mem = NoContent
  /\ deltaSeq = 0
  /\ pendingSync = 0
  /\ replay = 0
  /\ wal = <<>>
  /\ torn = FALSE
  /\ synced = 0
  /\ ckpt = NoCheckpoint
  /\ acked = {}
  /\ issued = {}
  /\ ackedSum = 0
  /\ inDoubt = 0
  /\ rejected = 0

Next ==
  \/ \E inc \in Increment : ApplyLocalSUM(inc)
  \/ \E c \in LocalCandidate : ApplyLocalTOPK(c)
  \/ ApplyReceivedDelta
  \/ ApplySnapshot
  \/ ApplyBadSnapshot
  \/ Checkpoint
  \/ ShutdownCheckpoint
  \/ CloseStore
  \/ Crash
  \/ PowerLoss
  \/ StartupFails
  \/ Recover
  \/ ReplayLine
  \/ FinishRecovery

Spec == Init /\ [][Next]_vars

-----------------------------------------------------------------------------
(* Properties *)

\* Every variable keeps the type the code gives it; the log never loses lines
\* that were synced.
TypeOK ==
  /\ phase \in {"down", "recovering", "running", "stopping", "closed", "failed"}
  /\ mem \in Content
  /\ deltaSeq \in Nat
  /\ pendingSync \in Nat
  /\ replay \in 0..Len(wal)
  /\ wal \in Seq(Line) /\ Len(wal) <= MaxLog
  /\ torn \in BOOLEAN
  /\ synced \in 0..Len(wal)
  /\ ckpt \in CheckpointFile
  /\ acked \subseteq 1..Len(wal)
  /\ issued \subseteq Mutation
  /\ ackedSum \in Nat
  /\ inDoubt \in Nat
  /\ rejected \in Nat

\* A delta handed to gossip survives in the node: whenever the node serves,
\* its state covers every delta it ever issued, whatever crashed in between
\* (ApplyLocalUpdate journals before it enqueues).
IssuedSurvive == Up => \A m \in issued : Covers(mem, m.frag)

\* A delta sequence is never issued twice with different contents, also
\* across restarts (deltaSeq is restored from checkpoint and log).
FreshSequence == \A m, o \in issued : m.seq = o.seq => m = o

\* What replay makes of the content c and the lines lo + 1 to hi of the log w.
Replayed(c, w, lo, hi) ==
  LET merged[i \in lo..hi] ==
        IF i = lo THEN c ELSE MergeContent(merged[i - 1], w[i].frag)
  IN  merged[hi]

\* What a restart from the first k lines of the log would rebuild.
Rebuilt(k) == Replayed(ckpt.frag, wal, ckpt.index, Larger(ckpt.index, k))

\* Nothing the node serves is missing from the durable log and checkpoints:
\* a restart after a power loss would rebuild at least the served contents
\* (mutations are journaled before they become visible).
JournaledBeforeVisible == Up => Covers(Rebuilt(synced), mem)

\* The delta sequence is the largest of the checkpoint's and of those of the lines
\* up to k.
SequenceRebuilt(k) ==
  /\ ckpt.seq <= deltaSeq
  /\ \A i \in (ckpt.index + 1)..k : wal[i].seq <= deltaSeq
  /\ \/ ckpt.seq = deltaSeq
     \/ \E i \in (ckpt.index + 1)..k : wal[i].seq = deltaSeq

\* A restart after a process crash rebuilds exactly what the node serves,
\* contents and delta sequence, neither less nor more, in every sync mode:
\* nothing is lost without an fsync and nothing unserved comes back.  (A short
\* write can make the log unreadable, see StartupSucceeds.)
RecoveryExact ==
  Up /\ Readable => Rebuilt(Len(wal)) = mem /\ SequenceRebuilt(Len(wal))

\* The node's own contribution is at least what clients were told and at most
\* that plus the updates whose line reached the log without a positive answer:
\* replay, echoes and retried appends never count an update twice.
OwnCountBounds ==
  Up => /\ ackedSum <= mem.sum[Self]
        /\ mem.sum[Self] <= ackedSum + inDoubt + rejected

\* A node can always be restarted on its own files: no line stops decoding
\* and no checkpoint is ahead of the log.
StartupSucceeds == phase # "failed"

\* The acknowledged lines a power loss may take.
Unsynced == {i \in acked : i > synced}

\* In batch mode a power loss costs fewer than BatchSize acknowledged lines,
\* also when fsync calls fail in between.
BoundedLoss == Cardinality(Unsynced) < BatchSize

\* After Store.Close everything served is durable in every sync mode, although
\* messages were still merged after the shutdown checkpoint.
CleanShutdown == phase = "closed" /\ Readable => Covers(Rebuilt(synced), mem)

\* An update that was answered with an error leaves no trace in the own count,
\* also after a restart; only one that was never answered may be counted.
RejectedLeavesNoTrace == Up => mem.sum[Self] <= ackedSum + inDoubt

-----------------------------------------------------------------------------
(* The inductive invariant behind IssuedSurvive, FreshSequence,            *)
(* OwnCountBounds and StartupSucceeds.  A state holds a line when it       *)
(* covers its fragment and has reached its sequence.                       *)

\* The configurations that keep every acknowledged line.
KeepsAcked == SyncMode = "always" \/ "powerLoss" \notin Fault

Holds(frag, seq, i) == Covers(frag, wal[i].frag) /\ wal[i].seq <= seq

\* Acknowledged lines are durable, or the log is never cut.
AckedKept == SyncMode = "always" => \A i \in acked : i <= synced

\* Whatever is issued, and the acknowledged count, stand on a line.
OnLine ==
  /\ \A m \in issued : \E i \in acked : wal[i].frag = m.frag /\ wal[i].seq = m.seq
  /\ ackedSum > 0 => \E i \in acked : wal[i].frag.sum[Self] >= ackedSum

\* A serving node holds all acknowledged lines, a recovering one those it has
\* replayed, the checkpoint those before its index.
LinesHeld ==
  /\ Up => \A i \in acked : Holds(mem, deltaSeq, i)
  /\ phase = "recovering" => \A i \in acked : i <= replay => Holds(mem, deltaSeq, i)
  /\ \A i \in acked : i <= ckpt.index => Holds(ckpt.frag, ckpt.seq, i)

\* The checkpoint never gets ahead of the durable log.
CheckpointBehind == ckpt.index <= synced

\* No state anywhere counts more of the node's own increments than were written.
OwnWritten == ackedSum + inDoubt + rejected

OwnCountCapped ==
  /\ mem.sum[Self] <= OwnWritten
  /\ ckpt.frag.sum[Self] <= OwnWritten
  /\ \A i \in 1..Len(wal) : wal[i].frag.sum[Self] <= OwnWritten
  /\ \A m \in issued : m.frag.sum[Self] <= OwnWritten

\* What the node keeps has been through canonicalize.
KeptCanonical == Canonical(mem) /\ Canonical(ckpt.frag)

\* Without short writes a torn tail is only ever met, and cut, by a restart.
LinesDecode ==
  "shortWrite" \notin Fault =>
    /\ Readable
    /\ torn => phase = "down"

Inv ==
  /\ TypeOK
  /\ KeptCanonical
  /\ CheckpointBehind
  /\ OwnCountCapped
  /\ LinesDecode
  /\ KeepsAcked => AckedKept /\ OnLine /\ LinesHeld /\ FreshSequence

\* What BoundedLoss rests on: a process that runs counts in pendingSync at least
\* the acknowledged lines that are not durable.
LossCounted ==
  /\ BoundedLoss
  /\ phase \notin {"down", "failed"} => Cardinality(Unsynced) <= pendingSync

\* What JournaledBeforeVisible and CleanShutdown rest on: replay of the whole log
\* covers what is served; in always mode its durable part does; a recovery is
\* always at a point of that replay.
Rebuildable ==
  /\ Up => Covers(Rebuilt(Len(wal)), mem)
  /\ Up /\ SyncMode = "always" => Covers(Rebuilt(synced), mem)
  /\ phase = "closed" => synced = Len(wal)
  /\ phase = "recovering" => /\ ckpt.index <= replay /\ synced = Len(wal)
                             /\ Rebuilt(replay) = mem

\* What RecoveryExact rests on.
ExactlyRebuilt ==
  /\ Up => Rebuilt(Len(wal)) = mem /\ SequenceRebuilt(Len(wal))
  /\ phase = "recovering" => SequenceRebuilt(replay)

=============================================================================
