------------------------------ MODULE GossipSync ------------------------------
(***************************************************************************)
(* The replication of the aggregates between nodes: the delta runtime      *)
(* (internal/gossip/delta) with the manager (internal/aggregation/         *)
(* pipeline), the history and the message guard of every node, on a        *)
(* network that loses, repeats and reorders messages, with nodes that      *)
(* crash and recover.                                                      *)
(*                                                                         *)
(* The listener starts a goroutine for every envelope, and a handler takes *)
(* the locks of the manager and of the history one after the other.  A     *)
(* handler is therefore split where it lets go of state it has changed or  *)
(* read: what it still has to do is a task of the node.                    *)
(*                                                                         *)
(* Every journaled mutation survives a crash (module Persistence), so the  *)
(* contents do; the history, the guard, the outbound queue and the tasks   *)
(* do not.                                                                 *)
(***************************************************************************)
EXTENDS AntiEntropy, Sequences

CONSTANTS
  SUMIssuer,        \* nodes whose clients submit SUM increments (of 1)
  LocalCandidate,   \* TOPK candidates clients submit, each at its origin
  QueueSize,        \* OutboundQueueSize
  Capacity,         \* DeltaHistorySize of every node
  Fanout,           \* peers a broadcast is sent to
  MaxDeltas,        \* bound: deltas a node issues
  MaxRestarts,      \* bound: crashes of all nodes together
  MaxLoad           \* bound: messages in flight and handlers in progress

ASSUME SyncAssumption ==
  /\ IsFiniteSet(Node)
  /\ SUMIssuer \subseteq Node
  /\ LocalCandidate \subseteq Candidate
  /\ QueueSize \in Nat \ {0} /\ Fanout \in Nat \ {0}
  /\ Capacity \in [Node -> Nat \ {0}]
  /\ MaxDeltas \in Nat /\ MaxRestarts \in Nat
  /\ MaxLoad \in Nat \ {0}

VARIABLES
  mem,         \* contents of the node's two aggregates
  ver,         \* their Lamport versions
  saved,       \* the versions a restart would rebuild from the journal
  deltaSeq,    \* Manager.deltaSeq
  outbound,    \* Manager.outbound, the oldest delta first
  history,     \* Runtime.history
  highSeq,     \* MessageGuard.highSeq; whatever was seen is not above it
  seq,         \* Runtime.seq, counting the StateDelta envelopes only
  tasks,       \* handlers in progress, each at a node
  net,         \* messages in flight
  healed,      \* messages are no longer lost or repeated, nor appends refused
  issued,      \* ghost: every delta a local update ever produced
  restarts     \* crashes so far

manager == <<mem, ver, saved, deltaSeq>>
vars == <<manager, outbound, history, highSeq, seq, tasks, net, healed, issued,
          restarts>>

-----------------------------------------------------------------------------
(* Sending and delivering *)

Message(type, from, to, body) ==
  [type |-> type, from |-> from, to |-> to, body |-> body]

\* What is in flight or in progress stays within the bound.
Fits == Cardinality(net') + Cardinality(tasks') <= MaxLoad

\* One of the loops of a node sends msgs.
Send(msgs) ==
  /\ net' = net \cup msgs
  /\ UNCHANGED tasks
  /\ Fits

\* m is delivered, perhaps not for the last time; its handler sends msgs and
\* goes on with the tasks of more.
Deliver(m, msgs, more) ==
  /\ \/ net' = (net \ {m}) \cup msgs
     \/ ~healed /\ net' = net \cup msgs
  /\ tasks' = tasks \cup more
  /\ Fits

\* Task t ends, having sent msgs, or becomes those of more.
Proceed(t, msgs, more) ==
  /\ t \in tasks
  /\ net' = net \cup msgs
  /\ tasks' = (tasks \ {t}) \cup more
  /\ Fits

\* samplePeers: Fanout peers, all of them when there are not more.
SamplePeers(n) ==
  LET peers == Node \ {n}
  IN  {P \in SUBSET peers :
         Cardinality(P) = IF Cardinality(peers) <= Fanout
                          THEN Cardinality(peers) ELSE Fanout}

\* manager.Digest and the watermarks of the history h.  They are read under two
\* locks; contents and watermarks only grow, so a digest whose watermarks are
\* the newer part asks for less or advertises more than it could, no other.
Digest(n, h) ==
  [ver   |-> ver[n],
   check |-> Checksum(n, mem[n]),
   marks |-> Watermarks(h, n, deltaSeq[n])]

DigestTo(n, h, P) == {Message("StateDigest", n, p, Digest(n, h)) : p \in P}

-----------------------------------------------------------------------------
(* The manager *)

MergeVersions(v, before, after, peer) ==
  [SUM  |-> MergeVersion(v["SUM"], peer["SUM"], after.sum # before.sum),
   TOPK |-> MergeVersion(v["TOPK"], peer["TOPK"], after.topk # before.topk)]

\* Manager.ApplyReceivedDelta and ApplySnapshot: the merge is journaled only
\* when it advances the contents, so only then does a restart repeat it.
Apply(n, frag, peer, own) ==
  LET after == MergeContent(mem[n], frag)
  IN  /\ mem' = [mem EXCEPT ![n] = after]
      /\ ver' = [ver EXCEPT ![n] = MergeVersions(@, mem[n], after, peer)]
      /\ saved' = IF after = mem[n] THEN saved
                  ELSE [saved EXCEPT ![n] = MergeVersions(@, mem[n], after, peer)]
      /\ deltaSeq' = [deltaSeq EXCEPT ![n] = Larger(@, own)]

OwnSequence(n, d) == IF d.origin = n THEN d.seq ELSE 0

ApplyDelta(n, d) == Apply(n, d.frag, d.ver, OwnSequence(n, d))

\* Mutant: the bound of the queue is off by one.
Enqueue_OneMore(q, d) == IF Len(q) <= QueueSize THEN Append(q, d) ELSE q

\* Manager.enqueue: a full outbound queue drops the delta.
Enqueue(q, d) == IF Len(q) < QueueSize THEN Append(q, d) ELSE q

\* ApplyLocalUpdate: the journal holds the delta, whose replay is a merge.
LocalUpdate(n, after, frag, g) ==
  LET d == [origin |-> n, seq |-> deltaSeq[n] + 1, frag |-> frag,
            ver |-> [a \in Aggregate |-> IF a = g THEN ver[n][g] + 1 ELSE 0]]
  IN  /\ deltaSeq[n] < MaxDeltas
      /\ mem' = [mem EXCEPT ![n] = after]
      /\ ver' = [ver EXCEPT ![n][g] = @ + 1]
      /\ saved' = [saved EXCEPT ![n][g] = MergeVersion(@, d.ver[g], TRUE)]
      /\ deltaSeq' = [deltaSeq EXCEPT ![n] = d.seq]
      /\ outbound' = [outbound EXCEPT ![n] = Enqueue(@, d)]
      /\ issued' = issued \cup {d}
      /\ UNCHANGED <<history, highSeq, seq, tasks, net, healed, restarts>>

\* Mutant: the delta carries the increment instead of the contribution.
UpdateLocalSUM_Increment(n) ==
  LET contrib == UpdateSUM(mem[n].sum, n, 1)
  IN  /\ n \in SUMIssuer
      /\ UpdateFits(mem[n].sum, n, 1)
      /\ LocalUpdate(n, [mem[n] EXCEPT !.sum = contrib], SUMFragment(n, 1), "SUM")

UpdateLocalSUM(n) ==
  LET contrib == UpdateSUM(mem[n].sum, n, 1)
  IN  /\ n \in SUMIssuer
      /\ UpdateFits(mem[n].sum, n, 1)
      /\ LocalUpdate(n, [mem[n] EXCEPT !.sum = contrib],
                     SUMFragment(n, contrib[n]), "SUM")

UpdateLocalTOPK(n) ==
  \E c \in LocalCandidate :
    LET after == MergeTOPK(mem[n].topk, {c})
    IN  /\ c.origin = n
        /\ after # mem[n].topk
        /\ LocalUpdate(n, [mem[n] EXCEPT !.topk = after], TOPKFragment(c), "TOPK")

\* Checkpoint: from now on a restart rebuilds the current versions.
Checkpoint(n) ==
  /\ saved' = [saved EXCEPT ![n] = ver[n]]
  /\ UNCHANGED <<mem, ver, deltaSeq, outbound, history, highSeq, seq, tasks,
                 net, healed, issued, restarts>>

\* Mutant: the restarted manager only merges what peers send it.
Restart_NoReplay(n) ==
  /\ restarts < MaxRestarts
  /\ restarts' = restarts + 1
  /\ mem' = [mem EXCEPT ![n] = NoContent]
  /\ ver' = [ver EXCEPT ![n] = saved[n]]
  /\ outbound' = [outbound EXCEPT ![n] = <<>>]
  /\ history' = [history EXCEPT ![n] = NoHistory]
  /\ highSeq' = [highSeq EXCEPT ![n] = [o \in Node |-> 0]]
  /\ tasks' = {t \in tasks : t.at # n}
  /\ UNCHANGED <<saved, deltaSeq, seq, net, healed, issued>>

\* A crash and the recovery after it.  NewRuntime gives the new history the
\* node's own sequence as watermark.  Envelope sequences start again at 0; the
\* digests sent since may or may not have carried them past the old ones.
Restart(n) ==
  /\ restarts < MaxRestarts
  /\ restarts' = restarts + 1
  /\ ver' = [ver EXCEPT ![n] = saved[n]]
  /\ outbound' = [outbound EXCEPT ![n] = <<>>]
  /\ history' = [history EXCEPT ![n] =
       AdvanceWatermarks(NoHistory, Watermarks(NoHistory, n, deltaSeq[n]))]
  /\ highSeq' = [highSeq EXCEPT ![n] = [o \in Node |-> 0]]
  /\ \/ seq' = [seq EXCEPT ![n] = 0]
     \/ UNCHANGED seq
  /\ tasks' = {t \in tasks : t.at # n}
  /\ UNCHANGED <<mem, saved, deltaSeq, net, healed, issued>>

-----------------------------------------------------------------------------
(* The runtime's loops *)

\* runOutbound: the next delta is recorded and broadcast.
RunOutbound(n) ==
  /\ outbound[n] # <<>>
  /\ LET d == Head(outbound[n])
     IN  /\ history' = [history EXCEPT ![n] = Record(@, d, Capacity[n])]
         /\ \E P \in SamplePeers(n) :
              Send({Message("StateDelta", n, p,
                            [seq |-> seq[n] + 1, delta |-> d]) : p \in P})
  /\ outbound' = [outbound EXCEPT ![n] = Tail(@)]
  /\ seq' = [seq EXCEPT ![n] = @ + 1]
  /\ UNCHANGED <<manager, highSeq, healed, issued, restarts>>

\* runAntiEntropy: the ticker.
BroadcastDigest(n) ==
  /\ \E P \in SamplePeers(n) : Send(DigestTo(n, history[n], P))
  /\ UNCHANGED <<manager, outbound, history, highSeq, seq, healed, issued, restarts>>

-----------------------------------------------------------------------------
(* Handlers *)

\* MessageGuard.Accept: a sequence seen within the last minute is a duplicate,
\* one that is not above the highest of its sender is stale; a duplicate is
\* always stale too.
Accept(n, from, s) == s > highSeq[n][from]

\* The deltas of a range response come in order of origin and sequence.
First(D) == CHOOSE d \in D : \A e \in D : \/ d.origin < e.origin
                                          \/ d.origin = e.origin /\ d.seq <= e.seq

\* What a handler of deltas still has to do: merge and record the first of D, then
\* the rest in order, and in the end announce a digest or forward the envelope.
MergeTask(n, D, digest, envelopes) ==
  LET d == First(D)
  IN  [step |-> "merge", at |-> n, delta |-> d, rest |-> D \ {d},
       digest |-> digest, forward |-> envelopes]

\* handleStateDelta: the guard looks at the envelope before the manager does.
HandleStateDelta(m) ==
  LET n == m.to
  IN
  /\ m.type = "StateDelta"
  /\ UNCHANGED <<manager, outbound, history, seq, healed, issued, restarts>>
  /\ \/ /\ ~Accept(n, m.from, m.body.seq)
        /\ Deliver(m, {}, {})
        /\ UNCHANGED highSeq
     \/ /\ Accept(n, m.from, m.body.seq)
        /\ highSeq' = [highSeq EXCEPT ![n][m.from] = m.body.seq]
        /\ Deliver(m, {}, {MergeTask(n, {m.body.delta}, FALSE, {m})})

\* handleDeltaRangeResp: every delta merged and recorded, and a digest at the end.
HandleDeltaRangeResp(m) ==
  /\ m.type = "DeltaRangeResp"
  /\ Deliver(m, {}, {MergeTask(m.to, m.body, TRUE, {})})
  /\ UNCHANGED <<manager, outbound, history, highSeq, seq, healed, issued, restarts>>

\* ApplyReceivedDelta in either handler.  When the journal refuses what is news,
\* the manager has rolled it back and the handler returns, with whatever the
\* guard has accepted and the range still held.
MergeDelta(t) ==
  LET n == t.at
      news == MergeContent(mem[n], t.delta.frag) # mem[n]
  IN
  /\ t.step = "merge"
  /\ UNCHANGED <<outbound, history, highSeq, seq, healed, issued, restarts>>
  /\ \/ /\ ApplyDelta(n, t.delta)
        /\ Proceed(t, {}, {[t EXCEPT !.step = "record",
                                     !.forward = IF news THEN @ ELSE {}]})
     \/ /\ news /\ ~healed
        /\ Proceed(t, {}, {})
        /\ UNCHANGED manager

\* broadcastEnvelope of a received message: as it came, sequence and sender
\* included.
Forward(msgs, P) == {[m EXCEPT !.to = p] : m \in msgs, p \in P}

\* recordDelta, and what follows it: the next delta of a range, the digest at
\* its end, the forwarding of a delta that was news.
RecordDelta(t) ==
  LET n == t.at
      h == Record(history[n], t.delta, Capacity[n])
  IN
  /\ t.step = "record"
  /\ history' = [history EXCEPT ![n] = h]
  /\ UNCHANGED <<manager, outbound, highSeq, seq, healed, issued, restarts>>
  /\ \/ /\ t.rest # {}
        /\ Proceed(t, {}, {MergeTask(n, t.rest, t.digest, t.forward)})
     \/ /\ t.rest = {}
        /\ \E P \in SamplePeers(n) :
             Proceed(t, IF t.digest
                        THEN DigestTo(n, h, P)
                        ELSE Forward(t.forward, P), {})

\* handleStateDigest: missing ranges first, snapshots only when there is none.
HandleStateDigest(m) ==
  LET n == m.to
      local == Digest(n, history[n])
      ranges == MissingDeltaRanges(local, m.body)
      want == AggregatesNeedingSnapshot(local, m.body)
  IN
  /\ m.type = "StateDigest"
  /\ Deliver(m, IF ranges # {}
                THEN {Message("DeltaRangeReq", n, m.from,
                              [ranges |-> ranges, known |-> local])}
                ELSE IF want # {}
                     THEN {Message("SnapshotReq", n, m.from, want)}
                     ELSE {}, {})
  /\ UNCHANGED <<manager, outbound, history, highSeq, seq, healed, issued, restarts>>

\* Mutant: no snapshot is sent when the history misses a delta.
HandleDeltaRangeReq_NoFallback(m) ==
  LET n == m.to
      served == \A r \in m.body.ranges : RangeServed(history[n], r)
  IN
  /\ m.type = "DeltaRangeReq"
  /\ UNCHANGED <<manager, outbound, history, highSeq, seq, healed, issued, restarts>>
  /\ Deliver(m, IF served
                THEN {Message("DeltaRangeResp", n, m.from,
                              UNION {InRange(history[n], r) : r \in m.body.ranges})}
                ELSE {}, {})

\* handleDeltaRangeReq: all the deltas, or sendSnapshotFallback when the
\* history misses one.
HandleDeltaRangeReq(m) ==
  LET n == m.to
      served == \A r \in m.body.ranges : RangeServed(history[n], r)
      want == AggregatesNeedingSnapshot(m.body.known, Digest(n, history[n]))
  IN
  /\ m.type = "DeltaRangeReq"
  /\ UNCHANGED <<manager, outbound, history, highSeq, seq, healed, issued, restarts>>
  /\ \/ /\ served
        /\ Deliver(m, {Message("DeltaRangeResp", n, m.from,
                               UNION {InRange(history[n], r) : r \in m.body.ranges})},
                   {})
     \/ /\ ~served
        /\ Deliver(m, {}, {[step |-> "snapshot", at |-> n, to |-> m.from,
                            want |-> IF want = {} THEN Aggregate ELSE want]})

\* handleSnapshotReq; the versions the peer says it knows are not read.
HandleSnapshotReq(m) ==
  /\ m.type = "SnapshotReq"
  /\ Deliver(m, {}, {[step |-> "snapshot", at |-> m.to, to |-> m.from,
                      want |-> m.body]})
  /\ UNCHANGED <<manager, outbound, history, highSeq, seq, healed, issued, restarts>>

\* Manager.Snapshot: the wanted contents with the node's own sequence.
Snapshot(t) ==
  LET n == t.at
      Wanted(g, part, none) == IF g \in t.want THEN part ELSE none
  IN
  /\ t.step = "snapshot"
  /\ Proceed(t, {},
       {[step |-> "stamp", at |-> n, to |-> t.to, own |-> deltaSeq[n],
         frag |-> [sum  |-> Wanted("SUM", mem[n].sum, NoContrib),
                   topk |-> Wanted("TOPK", mem[n].topk, {})],
         ver  |-> [g \in Aggregate |-> Wanted(g, ver[n][g], 0)]]})
  /\ UNCHANGED <<manager, outbound, history, highSeq, seq, healed, issued, restarts>>

\* sendSnapshot then adds the watermarks its history has by now.
SendSnapshot(t) ==
  /\ t.step = "stamp"
  /\ Proceed(t, {Message("SnapshotResp", t.at, t.to,
                         [frag |-> t.frag, ver |-> t.ver,
                          marks |-> Watermarks(history[t.at], t.at, t.own)])}, {})
  /\ UNCHANGED <<manager, outbound, history, highSeq, seq, healed, issued, restarts>>

\* handleSnapshotResp merges the contents and then takes over the watermarks;
\* news are announced in a digest, or refused by the journal and rolled back.
HandleSnapshotResp(m) ==
  LET n == m.to
      news == MergeContent(mem[n], m.body.frag) # mem[n]
  IN
  /\ m.type = "SnapshotResp"
  /\ UNCHANGED <<outbound, history, highSeq, seq, healed, issued, restarts>>
  /\ \/ /\ Apply(n, m.body.frag, m.body.ver, m.body.marks[n])
        /\ Deliver(m, {}, {[step |-> "marks", at |-> n, marks |-> m.body.marks,
                            news |-> news]})
     \/ /\ news /\ ~healed
        /\ Deliver(m, {}, {})
        /\ UNCHANGED manager

TakeWatermarks(t) ==
  LET n == t.at
      h == AdvanceWatermarks(history[n], t.marks)
  IN
  /\ t.step = "marks"
  /\ history' = [history EXCEPT ![n] = h]
  /\ \E P \in SamplePeers(n) :
       Proceed(t, IF t.news THEN DigestTo(n, h, P) ELSE {}, {})
  /\ UNCHANGED <<manager, outbound, highSeq, seq, healed, issued, restarts>>

\* The network loses a message, until it is healthy for good.
Lose(m) ==
  /\ ~healed
  /\ net' = net \ {m}
  /\ UNCHANGED <<manager, outbound, history, highSeq, seq, tasks, healed, issued, restarts>>

Heal ==
  /\ ~healed
  /\ healed' = TRUE
  /\ UNCHANGED <<manager, outbound, history, highSeq, seq, tasks, net, issued, restarts>>

-----------------------------------------------------------------------------
Init ==
  /\ mem = [n \in Node |-> NoContent]
  /\ ver = [n \in Node |-> [g \in Aggregate |-> 0]]
  /\ saved = ver
  /\ deltaSeq = [n \in Node |-> 0]
  /\ outbound = [n \in Node |-> <<>>]
  /\ history = [n \in Node |-> NoHistory]
  /\ highSeq = [n \in Node |-> [o \in Node |-> 0]]
  /\ seq = [n \in Node |-> 0]
  /\ tasks = {}
  /\ net = {}
  /\ healed = FALSE
  /\ issued = {}
  /\ restarts = 0

NodeStep(n) ==
  \/ UpdateLocalSUM(n)
  \/ UpdateLocalTOPK(n)
  \/ Checkpoint(n)
  \/ Restart(n)
  \/ RunOutbound(n)
  \/ BroadcastDigest(n)

TaskStep(t) ==
  \/ MergeDelta(t)
  \/ RecordDelta(t)
  \/ Snapshot(t)
  \/ SendSnapshot(t)
  \/ TakeWatermarks(t)

\* HandleEnvelope
Handle(m) ==
  \/ HandleStateDelta(m)
  \/ HandleStateDigest(m)
  \/ HandleDeltaRangeReq(m)
  \/ HandleDeltaRangeResp(m)
  \/ HandleSnapshotReq(m)
  \/ HandleSnapshotResp(m)

Next ==
  \/ \E n \in Node : NodeStep(n)
  \/ \E t \in tasks : TaskStep(t)
  \/ \E m \in net : Handle(m)
  \/ \E m \in net : Lose(m)

Spec == Init /\ [][Next]_vars

\* The goroutines of a node run: its tasks end, its ticker fires.  The network
\* and the disks heal at last, and from then on every kind of message that waits
\* for a node is handled.
Type == {"StateDelta", "StateDigest", "DeltaRangeReq", "DeltaRangeResp",
         "SnapshotReq", "SnapshotResp"}

Fairness ==
  /\ WF_vars(Heal)
  /\ \A n \in Node :
       /\ SF_vars(BroadcastDigest(n))
       /\ WF_vars(\E t \in tasks : t.at = n /\ TaskStep(t))
       /\ \A type \in Type :
            WF_vars(\E m \in net : m.type = type /\ m.to = n /\ Handle(m))

\* The same system on a network that will heal.
LiveSpec == Init /\ [][Next \/ Heal]_vars /\ Fairness

-----------------------------------------------------------------------------
(* Properties *)

\* The bodies of the protocol's messages.
Versions == [Aggregate -> Nat]

Marks == [Node -> Nat]

DigestBody == [ver : Versions, marks : Marks,
               check : [SUM : Contrib \X SUBSET Node, TOPK : SUBSET Candidate]]

Envelope(type, Body) == [type : {type}, from : Node, to : Node, body : Body]

DeltaEnvelope == Envelope("StateDelta", [seq : Nat, delta : Delta])

InFlight ==
  DeltaEnvelope
  \cup Envelope("StateDigest", DigestBody)
  \cup Envelope("DeltaRangeReq", [ranges : SUBSET DeltaRange, known : DigestBody])
  \cup Envelope("DeltaRangeResp", SUBSET Delta)
  \cup Envelope("SnapshotReq", SUBSET Aggregate)
  \cup Envelope("SnapshotResp", [frag : Content, ver : Versions, marks : Marks])

\* Handlers in progress.
DeltaTask == [step : {"merge", "record"}, at : Node, delta : Delta,
              rest : SUBSET Delta, digest : BOOLEAN, forward : SUBSET DeltaEnvelope]

SnapshotTask == [step : {"snapshot"}, at : Node, to : Node, want : SUBSET Aggregate]

StampTask == [step : {"stamp"}, at : Node, to : Node, own : Nat, frag : Content,
              ver : Versions]

MarksTask == [step : {"marks"}, at : Node, marks : Marks, news : BOOLEAN]

\* Every variable keeps the type the code gives it.
TypeOK ==
  /\ mem \in [Node -> Content]
  /\ ver \in [Node -> Versions]
  /\ saved \in [Node -> Versions]
  /\ deltaSeq \in [Node -> 0..MaxDeltas]
  /\ outbound \in [Node -> Seq(Delta)]
  /\ \A n \in Node : Len(outbound[n]) <= QueueSize
  /\ history \in [Node -> History]
  /\ highSeq \in [Node -> Marks]
  /\ seq \in [Node -> Nat]
  /\ tasks \subseteq DeltaTask \cup SnapshotTask \cup StampTask \cup MarksTask
  /\ net \subseteq InFlight
  /\ IsFiniteSet(net) /\ IsFiniteSet(tasks)
  /\ Cardinality(net) + Cardinality(tasks) <= MaxLoad
  /\ healed \in BOOLEAN
  /\ issued \subseteq Delta
  /\ restarts \in 0..MaxRestarts

\* The candidates clients ever submitted.
Submitted == UNION {d.frag.topk : d \in issued}

\* The content f was submitted somewhere: what it counts for a node that node has
\* counted.
Genuine(f) ==
  /\ \A o \in Node : f.sum[o] <= mem[o].sum[o]
  /\ f.topk \subseteq Submitted

\* No node ever counts more of another node's increments than that node does
\* itself, and keeps no candidate nobody submitted, whatever was lost,
\* repeated, forwarded, replayed or sent as a snapshot.
NothingInvented == \A n \in Node : Genuine(mem[n])

\* A history only serves deltas that were issued and that its node has merged
\* (handlers merge before they record), never more than its capacity for one
\* origin, and no watermark passes what its origin has issued.
HistoryServes ==
  \A n, o \in Node :
    /\ \A e \in Of(history[n].entries, o) : e \in issued /\ Covers(mem[n], e.frag)
    /\ Cardinality(Of(history[n].entries, o)) <= Capacity[n]
    /\ history[n].contiguous[o] <= deltaSeq[o]

\* A watermark of a node says that it has every delta of the origin up to it:
\* the contents a node holds cover all the deltas below its watermarks.
WatermarksCovered ==
  \A n \in Node : \A d \in issued :
    d.seq <= history[n].contiguous[d.origin] => Covers(mem[n], d.frag)

\* The mapping to the abstract specification: the total is what every node has
\* counted itself and the best of the candidates ever issued, a view is what a
\* node holds.
Total == [sum  |-> [o \in Node |-> mem[o].sum[o]],
          topk |-> Canonicalize(Submitted)]

R == INSTANCE Replication WITH total <- Total, view <- mem

\* The cluster implements the replicated aggregate: through losses, repetitions,
\* forwarded and replayed deltas, snapshots and restarts, what a node answers
\* only ever grows, holds its own updates at once, and stays within everything
\* that was submitted.
Replicates == R!Spec

\* A node that has heard of every delta ever issued holds the total, neither less
\* nor more: two such nodes answer the same, in whatever order they heard, however
\* often their candidates were cut in between and whether they heard by deltas or
\* by snapshots.
CompleteIsExact ==
  \A n \in Node : (\A d \in issued : Covers(mem[n], d.frag)) => mem[n] = Total

\* Once every node has everything, the nodes stop pulling snapshots from each
\* other: checksums tell contents apart, not nodes.
PullsStop == <>[](\A m \in net : m.type # "SnapshotReq")

\* Every node eventually holds everything that was ever issued, and keeps it.
Convergence ==
  <>[](\A n \in Node : \A d \in issued : Covers(mem[n], d.frag))

-----------------------------------------------------------------------------
(* The inductive invariant behind NothingInvented, HistoryServes and       *)
(* Replicates: whatever a message or a handler carries was issued, and     *)
(* what a handler is about to record its node has merged.                  *)

\* Watermarks its origins have reached.
Reached(marks) == \A o \in Node : marks[o] <= deltaSeq[o]

\* An origin uses a sequence once, for something it counts itself.
IssuedOnce ==
  /\ IsFiniteSet(issued)
  /\ \A d \in issued : d.seq <= deltaSeq[d.origin] /\ Genuine(d.frag)
  /\ \A d, e \in issued : d.origin = e.origin /\ d.seq = e.seq => d = e

OutboundIssued ==
  \A n \in Node : \A i \in 1..Len(outbound[n]) :
    outbound[n][i] \in issued /\ Covers(mem[n], outbound[n][i].frag)

MessageGenuine(m) ==
  /\ m.type = "StateDelta" => m.body.delta \in issued
  /\ m.type = "DeltaRangeReq" =>
       m.body.ranges # {} /\ \A r \in m.body.ranges : r.from <= r.to
  /\ m.type = "DeltaRangeResp" => m.body # {} /\ m.body \subseteq issued
  /\ m.type = "SnapshotResp" => Genuine(m.body.frag) /\ Reached(m.body.marks)

TaskGenuine(t) ==
  /\ t.step = "record" => Covers(mem[t.at], t.delta.frag)
  /\ t.step \in {"merge", "record"} =>
       /\ t.delta \in issued /\ t.rest \subseteq issued
       /\ IsFiniteSet(t.forward) /\ \A m \in t.forward : m.body.delta \in issued
  /\ t.step = "stamp" => Genuine(t.frag) /\ t.own <= deltaSeq[t.at]
  /\ t.step = "marks" => Reached(t.marks)

\* What a node keeps has been through canonicalize.
KeptCanonical == \A n \in Node : Canonical(mem[n])

Inv ==
  /\ TypeOK
  /\ KeptCanonical
  /\ NothingInvented
  /\ IssuedOnce
  /\ OutboundIssued
  /\ HistoryServes
  /\ \A m \in net : MessageGenuine(m)
  /\ \A t \in tasks : TaskGenuine(t)

\* What CompleteIsExact rests on besides: the last contribution of a node is the
\* one its last SUM delta carries.
OwnIssued ==
  \A o \in Node : \/ mem[o].sum[o] = 0
                  \/ \E d \in issued : d.frag.sum[o] = mem[o].sum[o]

=============================================================================
