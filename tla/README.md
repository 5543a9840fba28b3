# TLA+ models of GossipDataAggregation-SDCC

A node of this system keeps two replicated aggregates, SUM (a grow-only counter
with one contribution per node) and TOPK (the `Kmax` best candidates ever heard
of), journals every change to a write-ahead log, and spreads changes to its
peers over UDP by gossip and anti-entropy. This directory holds TLA+ models of
the aggregates, of the persistence of one node, of the replication between nodes
and of their membership, the TLC configurations that check them, and proofs checked
by TLAPS.
Paths below are relative to `src/`.

## 1. Inventory

| Part | State | Operations | Hard behaviour |
|---|---|---|---|
| SUM, `internal/aggregation/sum` | contribution of every node, Lamport version | `Update` (refuses overflow), `Merge` (pointwise maximum), `Serialize` | overflow; merges in any order, repeated |
| TOPK, `internal/aggregation/topk` | at most `Kmax` candidates, version | `Update`, `Merge`, `canonicalize` | a candidate cut in one order of merges must be cut in every order |
| Manager, `internal/aggregation/pipeline` | both aggregates, delta sequence, outbound queue, journal | `ApplyLocalUpdate`, `ApplyReceivedDelta`, `ApplySnapshot`, `Digest`, `Snapshot`, `Checkpoint`, restore and replay | rollback when the journal fails; a full queue; one fragment of two failing |
| WAL, `internal/storage/wal` | file, last index, count of unsynced lines | `Append`, `Sync`, `Open` (cuts a torn tail), `Close` | short writes, failing fsync, crash in the middle, power loss |
| Checkpoints, `internal/storage/snapshot`, `store.go` | files named by WAL index | `Save` (temporary file, fsync, rename), `LoadLatest`, `Recover` | a checkpoint ahead of the log; replay over what a checkpoint already holds |
| Application, `internal/app` | life cycle | start, recovery, snapshot loop, shutdown | messages still arrive between the last checkpoint and the close |
| Delta runtime, `internal/gossip/delta` | history, guard, envelope sequence | outbound loop, digest ticker, six handlers | a goroutine per envelope, two locks taken one after the other |
| Anti-entropy, `internal/gossip/anti_entropy` | deltas per origin up to a capacity, contiguous watermarks | `Record`, `AdvanceWatermarks`, `Range`, digest comparison | gaps, eviction, watermarks that say more than the node has |
| Message guard, retries, UDP, `internal/gossip/transport` | highest sequence per sender | `Accept`, `Send` with retries | sequences that start again after a restart |
| Membership table, `internal/membership/table.go` | status, incarnation, misses, time last seen and addresses of every member | `ObserveAlive`, `Merge` (with refutation), `AssociateTarget`, `MarkMissedByEndpoint`, `ApplyTimeouts` | news of different incarnations in any order, two failure detectors on one status, a new process with an older clock |
| Membership gossip, `internal/membership/bootstrap.go` | seeds, a probe in progress per loop | listener, `JoinSeeds` with retries, gossip loop | a timeout racing an ack, ticks lost to slow probes, pings of a process that is gone |
| HTTP API, configuration, logging, main | none after start | decoding, parsing | none of its own |

Interaction: an HTTP request calls `Manager.ApplyLocalUpdate`, which mutates,
appends to the store under `mutationMu` and enqueues a delta. The runtime's
outbound loop records the delta in the history and broadcasts it to `Fanout`
peers. The membership listener dispatches every incoming envelope to a goroutine;
`Runtime.HandleEnvelope` merges deltas and snapshots through the manager (which
journals them) and answers digests with range or snapshot requests. A periodic
loop and the shutdown write checkpoints; a restart reads the latest checkpoint
and replays the lines after it.

What makes it correct: merges commute, associate and are idempotent; an update
that a client was told succeeded survives and is counted once; a delta sequence
names one delta for ever; a node can always start again on its own files; nobody
counts what its origin did not count; every node ends up with everything; and the
tables of running nodes come to agree with the processes that run.
`PROJECT.json` lists under `hazards` the places where this could go wrong and the
properties that look there.

## 2. Modules

`Aggregates` <- `Persistence` <- `MCPersistence`;
`Aggregates` <- `AntiEntropy` <- `GossipSync` <- `MCGossipSync`;
`Aggregates` <- `Replication`, which `GossipSync` instantiates;
`Membership` <- `MCMembership` and `MCHearsay`;
theorems and proofs: `AggregatesProofs` <- `PersistenceProofs` <- `DurabilityProofs`;
`AggregatesProofs` <- `AntiEntropyProofs` <- `GossipSyncProofs`; `MembershipProofs`.
Each extends the module it is about.

**Aggregates** (pure operators). A *content* is what both aggregates hold; a
delta or a snapshot is a *fragment* of the same shape, so receiving, replaying and
restoring are the one operator `MergeContent`. A contribution that is absent from
the Go map is 0: `Merge` reads it so and never stores a 0. A TOPK list is the set
of its elements, because `sortCandidates` is a total order (proved). `Covers(s, f)`
says that merging `f` into `s` changes nothing. Node, item and time are integers
since only their order matters.

**Persistence** (one node and its disk). `mutationMu` is held from the mutation to
the end of its append or rollback, and readers take it too, so a mutation is one
action; its disjuncts are the ways `Append` can end: success, a short write, a
failed fsync after the write, the death of the process before or after the line is
complete. `wal` holds the complete lines, `torn` says that bytes without newline
follow, `synced` how many lines a power loss cannot take. A power loss takes any
suffix of the unsynced lines. Recovery is one action per line. `Fault` selects the
faults of a run. A checkpoint save that fails is `Checkpoint`'s second disjunct (or
no step); a failing shutdown makes the process exit, which is `Crash`. Versions and
the outbound queue are left out: nothing on this path reads them. The ghost
variables record what was acknowledged, issued to gossip, counted, left unanswered
or refused.

**AntiEntropy** (pure operators). The bounded history with its watermarks and the
comparison of digests.

**GossipSync** (all nodes). Each handler is an action; where it releases one lock
and takes the next, it is split, and the rest of it is a *task* of the node:
`merge` (accepted by the guard or received in a range, not yet merged), `record` (merged,
not yet recorded or forwarded), `snapshot` (to be built), `stamp` (contents read,
watermarks not yet), `marks` (merged, watermarks not yet taken). A range goes through
`merge` and `record` once per delta. Until `Heal`, the journal may refuse what a message
brings: the manager has rolled it back and the handler returns, but the guard keeps the
sequence it accepted, so a repeated copy of the message is refused too.
The network is a set of messages: a handled message may stay and be handled again,
any message may be handled next, `Lose` drops one. `Restart` is a crash with its
recovery; contents survive (that is what `Persistence` establishes for journaled
mutations), versions fall back to those the journal rebuilds (`saved`), the history,
guard, queue and tasks are lost.

**Replication** (abstract). What clients may rely on, without messages, histories or
crashes: a total of all that was submitted, and a view for every node. An update is
in the view of the node that took it at once; any other step makes one view grow
within the total. `GossipSync` maps `total` to what every node has counted itself and
the best candidates ever issued, and `view` to `mem`; `Replicates` says it implements
`Replication!Spec`. A restart is a stutter there: that is the point.

**Membership** (all nodes). The table of a node is a function from nodes to records;
a node without a record is `Unknown`. Merging a batch, direct evidence, refutation, a
miss and a timeout are operators on one record or one table. The loops `gossip` and
`join` each have the addresses still to be probed and the one probe in progress. A
message is `live` while the socket of its probe is open: when the probe ends, its
ping may still be delivered, but no ack can be. `StartRound`, `SendPing`,
`HandleAck` or `ProbeFails`, and `EndRound` are one run of `gossipOnce`. Time is counted
in ticks: `Older` ages every record when the ticker fires, also in vain (`SlowRound`).
`Crash` ends a process, `Restart` is a new one whose incarnation is the wall clock,
which may (`ClockSteps`) be behind the incarnations used before. `claimed` is a ghost.

Simplifications in `Membership`. The handler of a ping or an ack calls the table two or
three times, each call under the lock, and reads the payload of its ack in two more; this
is one action. `Merge` and `ObserveAlive` both keep, for one member, the larger
incarnation, so calls of another goroutine in between give a record that one of the
two orders of the messages gives too, with one exception: the incarnation and the entries of
a payload can be of two moments, which costs the receiver one round of direct evidence.
Which seed is given up after how many attempts is left open: a join may stop after any
number of tries. Invalid payloads have no effect in the code and are not sent. A node
keeps its advertised endpoint. Misses and ticks above the last threshold are not told
apart. Two processes with the same node identifier are not modelled.

How the parts fit: the runtime sends to seeds and to members held alive. In
`GossipSync` the peers of a node are all the other nodes, and a message that a wrong
verdict withholds is one that the network loses before it heals; `TablesRight` is what
justifies that verdicts do not stay wrong. `GossipSync` takes from `Persistence` that
journaled contents survive a restart.

Simplifications, all in `GossipSync`: a digest's contents and watermarks are read in
one step (both only grow, see the comment at `Digest`); the ranges of one request
are looked up in one step; envelope sequences are counted on `StateDelta` only, the
one type the guard sees, and after a restart they may be behind or not behind those
seen before; SHA-256 is injective; payloads are well formed; every journaled
mutation survives a restart, and a refused one leaves nothing behind (`Persistence` shows
when it does; what it then leaves is an issued delta, which a restart merges as any message
could); a missing endpoint of a peer (`peerEndpointForNode`) is a lost message. In
`Persistence`: a renamed checkpoint whose directory
entry is lost leaves an older one, from which the untruncated log rebuilds the same
state, so it is not a case of its own; a successful fsync also covers the lines of an earlier
failed one, which not every file system guarantees. Left out everywhere: `Estimate` and its
overflow, the zeros 0 and -0 of a score, the 64 KiB frame limit.

## 3. What TLC checks

### One node and its disk (`MCPersistence`)

Two nodes, node 2 standing for all peers; `Kmax = 1`, so the second candidate evicts
the first and the peer's lies between them; up to 4 log lines, enough for lines
before and after a checkpoint, a refused line and a new one after a restart.

- **always**: fsync on every line, with failing fsyncs and power losses;
  `MaxUint64 = 2` so that increments are refused. `TypeOK`, `IssuedSurvive` (a serving
  node covers all it ever gossiped), `JournaledBeforeVisible` (what is served is
  durable), `OwnCountBounds` (nothing acknowledged is lost, nothing is counted
  twice), `FreshSequence`, `StartupSucceeds`.
- **batch**: `BoundedLoss`, fewer than `BatchSize` acknowledged lines are unsynced,
  also when fsyncs fail. It counts lines: that a power loss may make the node issue one of
  their sequences again is not excluded in this mode, and `FreshSequence` is not checked.
- **none**: no fsync policy, short writes: `RecoveryExact` (a process crash loses and
  invents nothing, contents and sequence), `CleanShutdown`. `CHECK_DEADLOCK FALSE`:
  a node whose log does not decode stays down.

Three runs show where the code does not do what its documents say:

- **short_write**: bytes of a failed write stay in the file, the next line is glued to
  them, and the node cannot be restarted.
- **failed_fsync**: a refused update stays in the log and is counted after a restart.
- **bad_snapshot**: if the second fragment of a snapshot fails to decode, the first
  stays merged without being journaled.

### Replication (`MCGossipSync`)

Two nodes; node 1 receives two updates, SUM or TOPK, in any order. A queue and a
history of one delta make the second overflow both, so lost, dropped and evicted
deltas, range requests and snapshot fallbacks all occur. `MaxLoad` bounds the
messages in flight and handlers in progress together.

- **reorder**: `MaxLoad = 2`, so two messages or handlers race, repeat and overtake each
  other, also between the guard and the merge, and any merge may be refused by the
  journal. `TypeOK`, `NothingInvented`, `HistoryServes` (a history serves only deltas
  that were issued and that its node has merged, within its capacity, and no watermark
  passes what its origin issued), `Replicates` (the refinement: views never shrink, hold
  the node's own updates at once and stay within what was submitted).
- **converge**: one restart, `MaxLoad = 1`, two candidates of which only one can be kept,
  losses and refused merges until the network and the disks heal: `Convergence`, every node eventually holds all that was
  issued and keeps it; `CompleteIsExact`, a node that has heard of every delta holds
  exactly the total, so that any two such nodes answer the same; `HistoryServes` and
  `Replicates` through the restart.
- **watermarks** (violation): a watermark does not mean that the node has the deltas
  below it. SUM and TOPK share one sequence, and a snapshot of one aggregate carries
  the watermark of both.
- **pulls** (violation): two nodes with equal contents ask each other for snapshots for
  ever, because the serialized SUM of a node always has a key for the node itself.

Fairness (`LiveSpec`): the network stops losing and repeating messages, and journals stop
refusing lines, at some time (`Heal`; without this nothing can be promised over UDP, nor by
a node whose disk is broken); goroutines in progress go on
(weak fairness per node); a message of each type waiting for a node is handled (weak
fairness per type and node, since each envelope has its own goroutine); the
anti-entropy ticker fires (strong fairness, because the bound `MaxLoad` may disable
it in between, which the code does not). Nothing is assumed of client updates, of
checkpoints, of crashes or of the outbound loop: anti-entropy alone must bring
convergence. With `MaxLoad = 1` one exchange is in progress at a time, so fairness per
type is fairness per message.

### Membership (`MCMembership`, `MCHearsay`)

The thresholds are 1 and 2 instead of 3 and 6, for misses and for ticks: every status is
reached by either detector, and each can overtake the other. Two incarnations are
enough for a clock that is behind, for two processes of one node and for a refutation
that saturates. A message may be repeated, lost or outlive its probe and its process.

- **detect**: two nodes, only node 1 has a seed, so that node 2 learns of node 1 from its
  pings alone; one crash, with or without a restart, after which the clock may be behind;
  one message in flight (`MaxLoad = 1`), so that a ping of an earlier process arrives before
  its successor has sent one, never after. `TypeOK`; `IncarnationsKept`, what a
  process knows of an incarnation never goes back; `TablesRight`, once the network is
  healthy the tables are right again and again, all at the same time: running nodes
  alive, crashed ones dead or unknown. Not "right for ever": while a probe waits,
  ticks are lost and the other members age (`SlowRound`), so a node that runs can be
  suspected for a moment on a healthy network too, until its next ping or ack.
- **hearsay**: three nodes, of which 1 and 2 hear of each other only through 3; batches of
  two entries, so that a batch leaves one out; one gossip round (`MaxRounds`, all
  nodes together, joins not counted), enough for a suspicion and for old news that
  contradict it; one crash and two messages in flight, so that a ping of an earlier
  process, or a third node's entry about it, arrives after the ping of its successor.
  `IncarnationsOwned`, every incarnation in a table or a message was given by its owner;
  `IncarnationsKept`, here also against those late messages; `HearsayNeverClears`, at an
  unchanged incarnation only the handling of a ping or an ack of the member itself makes it
  alive again.

Fairness (`LiveSpec`): the network heals; the gossip loop of a running node goes on
(strong, because `MaxLoad` can make a send wait, which the code does not); `JoinSeeds` goes
on (weak); a message for a node is handled (weak, one listener). A crash and a restart
are not forced: a node that stays down must be held dead.

## 4. What is proved

TLAPS checks the following for every value of the constants that satisfies the named
assumptions (`OrderAssumption`: identifiers, scores and times are integers;
`FiniteAssumption`: finitely many candidates; `SyncAssumption`: finitely many nodes,
capacities, queue and fanout at least 1; `RangeAssumption`, `KmaxAssumption`,
`WidthAssumption`, `ConfigAssumption`, `InputAssumption`, and those of `Membership` on
its thresholds and addresses). Every invariant and every safety action property
of a passing run is now a theorem; the inductive invariants were checked with TLC on the
instances of section 3 before they were proved.

### The aggregates (`AggregatesProofs`)

`CanonicalizeUnion`: cutting before a merge changes nothing,
`Canonicalize(S \cup Canonicalize(T)) = Canonicalize(S \cup T)`. A candidate is cut
when `Kmax` are ahead of it; the `Kmax` best of these are themselves never cut, so they
are still ahead of it after the first cut (`CutKeepsKmax`). With the total order this
gives `MergeLaws`: merge is commutative, associative and idempotent. `UpdateSUMMerges` and
`UpdateTOPKMerges` say that a local update is the merge of the delta that announces it,
which is why replaying the journal and hearing of the delta are the same thing.

`SetInduction` is induction over the naturals for a *set* instead of a predicate,
derived from the well-foundedness of `<`. The library's own rule takes an operator as
parameter, which the provers cannot instantiate; with a set they can, and the proofs about
replay, `Reach` and `First` below use it.

### One node and its disk (`PersistenceProofs`, `DurabilityProofs`)

`TypeCorrect`, and four theorems from one inductive invariant
`Inv`. `IssuedSurvive` alone is not inductive: after a crash memory is empty and what
was issued lives on the disk only. `Inv` adds the chain that connects them. Every issued
delta and the acknowledged count stand on an acknowledged line (`OnLine`); acknowledged
lines are never cut off (`AckedKept`); a serving node holds all of them, a recovering
one those it has replayed, the checkpoint those before its index (`LinesHeld`). So a
node that has finished replaying holds them all. `OwnCountCapped` says that no state,
line, checkpoint or issued delta counts more of the node's own increments than were
ever written, `CheckpointBehind` that a checkpoint never gets ahead of the durable log,
`LinesDecode` that lines decode while no short write happens, `KeptCanonical` that kept
sets have been cut.

- `IssuedDeltasSurvive`, `SequencesFresh`, `OwnCountCorrect`: under `KeepsAcked` (fsync on
  every line, or no power loss). The condition is needed: in batch mode a delta is gossiped
  before its line is synced, and a power loss that takes the line lets a restarted node
  issue the same sequence for another delta. The default mode is `always` (config.go:153).
- `RestartSucceeds`: when short writes do not happen, in every sync mode. The run
  *short_write* shows the condition is needed.
- `LossIsBounded`: `BoundedLoss` in modes batch and always, under every fault.
  `LossCounted` ties it to the code: the lines acknowledged and not synced are no more
  than `pendingSync`, which a failed fsync does not reset, and `Append` syncs before the
  counter can pass its limit.
- `DurableBeforeVisible` (mode always) and `ShutdownIsClean` (every mode): what is served
  is covered by what a restart rebuilds from the durable lines. `Replayed` is a
  recursive function of the number of lines; the lemmas on it (a further line is one more
  merge, lines behind the end do not matter, a prefix is covered by the whole) are by
  `SetInduction`. The invariant `Rebuildable` also speaks of recovery: a node that has
  replayed up to a line holds exactly what the replay of these lines gives, so that
  nothing is served that a second crash would not give back.
- `RecoveryIsExact`: equality instead of covering, contents and delta sequence, when
  acknowledged lines are kept and no fsync fails (`ExactlyRebuilt`). The run
  *failed_fsync* is why the second condition is needed.

The last three theorems exclude `badFragment`; *bad_snapshot* shows the exception.

### Replication (`AntiEntropyProofs`, `GossipSyncProofs`)

About the history: `Record` and `AdvanceWatermarks` give a history again, keep to the
capacity (`NewestFits`), store nothing but what was stored or just recorded, and a watermark
that moves moves to a sequence the history has or was told of (`RecordFacts`,
`AdvanceFacts`). `ReachExists` justifies the `CHOOSE` of `Reach`: the loop that advances the
watermark ends within the number of deltas stored. `FirstIn` does the same for the
next delta of a range.

`GossipSync!Inv` is the inductive invariant of the cluster. `NothingInvented` and
`HistoryServes` speak of nodes, but what a node holds next comes out of a message or out
of a handler in progress, perhaps sent by a process that has crashed since. `Inv`
therefore says it of all of them: deltas in queues, messages and tasks were issued
(`OutboundIssued`, `MessageGenuine`, `TaskGenuine`); what a snapshot carries was counted by
the node it counts for and its watermarks were reached; a task that is about to
merge a delta carries an issued one, and one that is about to record it sits at a node
that has merged it; an origin uses a sequence once
(`IssuedOnce`). It is inductive because all these refer to state that only grows (`Grown`):
contents, issued deltas and delta sequences. Every step lemma shows `Grown` and then only
has to look at what the step adds (`NetworkStep`, `HandlerStep`, `ReaderStep`). Two facts are less
obvious: a range response is never empty, because a request has ranges, each with a
last sequence not before its first, and a range is served only in full; and a node
never takes over an own sequence from a peer that is above its own, so that the
advance in `ApplySnapshot` is a no-op where contents survive restarts.

- `TypeCorrect`, `NothingIsInvented`, `HistoriesServe`: for `Spec` and for `LiveSpec`.
- `ClusterReplicates`: both imply `Replicates`, the specification of `Replication` under the
  mapping. A local update is `Submit` of its fragment, since cutting the candidates
  submitted so far before the new one is added changes nothing (`CanonicalizeUnion`); a merge
  of a delta or of a snapshot is `Learn`, since what is genuine is covered by the total
  (`GenuineCovered`) and counts no more for the node itself than it has counted
  (`ApplyLearns`); every other step, a restart included, is a stutter (`StepKinds`).
- `CompleteNodesAgree`: `CompleteIsExact`, for both. Upwards a view is bounded by
  `NothingInvented`. Downwards the SUM needs a second invariant, `OwnIssued`: the contribution
  a node has now is one that some delta carries, so whoever has heard of every delta has it.
  The TOPK needs an argument about cuts (`KeptIsBest`): a kept set that no submitted set
  changes any more is the cut of all submitted sets together, although each was cut on the
  way. With `Convergence`, which only TLC checks, this is eventual agreement.

The theorems bound nothing but what the model names as bounds (`MaxDeltas`, `MaxRestarts`,
`MaxLoad`), and hold for all values of these.

### Membership (`MembershipProofs`)

`Inv` is `TypeOK`, `IncarnationsOwned` and three facts they need: a running process has an
incarnation and one that is down has an empty table (`ProcessKnows`), acks and pings that may
still be answered belong to a process that runs (`SocketsOpen`), and a sender speaks
for itself at an incarnation it gave itself (`SendersOwn`), also when its process is
gone. For any number of nodes, seeds, addresses, thresholds, crashes and clocks, with and
without healing:

- `TypeCorrect`, and `OnlyOwnersClaim` (`IncarnationsOwned`);
- `NeverForgets` (`IncarnationsKept`) and `OnlyEvidenceClears` (`HearsayNeverClears`), from
  one lemma per operator on a table (`Merge`, `ObserveAlive`, `AssociateTarget`,
  `MarkMissedByEndpoint`, `ApplyTimeouts`) on what it does to incarnation and status.

### Only model-checked

`Convergence` and `TablesRight` need fairness and are out of the prover's reach.
`WatermarksCovered`, `PullsStop`, `RejectedLeavesNoTrace` and the violated instances of
`StartupSucceeds` and `JournaledBeforeVisible` do not hold: those runs show how.

## 5. Not modelled, and plan

Not modelled: UDP and the JSON codec (pure I/O; their effect is the networks of
`GossipSync` and `Membership`), retries of a send (a retry is a repeated message), the HTTP
API, configuration and logging (no state of their own), validation of malformed payloads,
`Estimate` (it changes no state).

Known limits of what is checked. Two nodes that are not seeds and hold each other dead
reach each other again only when one hears of the accusation, which takes three nodes and
fairness; the liveness run has two. Addresses other than the advertised endpoint are
parameters of `Membership` (`Owner`, `Advertised`), but the instances have one address per
node. `GossipSync` is checked with two nodes, so forwarding reaches only the node a delta
came from.

What could follow:

1. An abstract specification of the log (what a client may rely on after a crash), which
   `Persistence` implements under `KeepsAcked`; the theorems of section 4 are its steps.
2. `WatermarksCovered` for clusters whose snapshots always carry both aggregates: the
   counterexample needs one that does not.
