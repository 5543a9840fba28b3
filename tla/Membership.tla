------------------------------ MODULE Membership ------------------------------
(***************************************************************************)
(* The membership of the cluster: the table of every node                  *)
(* (internal/membership/table.go) and the listener, the join and the       *)
(* gossip loop that feed it (internal/membership/bootstrap.go), on a       *)
(* network that loses, delays and repeats pings and acks, with nodes that  *)
(* crash and start again as a new process.                                 *)
(*                                                                         *)
(* A node has one advertised endpoint and may be reached at other          *)
(* addresses too (a seed given as an IP).  Time is counted in ticks of the *)
(* node's gossip ticker.  The table operations of one message are one      *)
(* step: on the record of one member they give what one of the two orders  *)
(* of the messages gives, however the goroutines interleave.               *)
(***************************************************************************)
EXTENDS Integers, FiniteSets

CONSTANTS
  Node,
  Addr,               \* UDP addresses
  Owner,              \* the node that listens at an address
  Advertised,         \* advertisedEndpoint of a node
  Seeds,              \* SEED_NODES of a node
  Fanout,
  SuspectAfterMiss, DeadAfterMiss,
  SuspectAfterTicks, DeadAfterTicks,
  MaxBatch,           \* maxDisseminatedMembership
  MaxUint64,          \* the largest incarnation
  ClockSteps,         \* whether the wall clock may step back between processes
  MaxCrashes,         \* bound: crashes of all nodes together
  MaxLoad             \* bound: messages in flight

\* Stands for no probe.
NoAddr == 0

ASSUME MembershipAssumption ==
  /\ NoAddr \notin Addr
  /\ Owner \in [Addr -> Node] /\ Advertised \in [Node -> Addr]
  /\ \A n \in Node : Owner[Advertised[n]] = n
  /\ Seeds \in [Node -> SUBSET Addr]
  /\ Fanout \in Nat \ {0}
  /\ SuspectAfterMiss \in Nat \ {0} /\ DeadAfterMiss \in Nat
  /\ SuspectAfterMiss < DeadAfterMiss
  /\ SuspectAfterTicks \in Nat \ {0} /\ DeadAfterTicks \in Nat
  /\ SuspectAfterTicks < DeadAfterTicks
  /\ MaxBatch \in Nat \ {0} /\ MaxUint64 \in Nat \ {0}
  /\ ClockSteps \in BOOLEAN
  /\ MaxCrashes \in Nat /\ MaxLoad \in Nat \ {0}

VARIABLES
  up,        \* whether the node's process runs
  members,   \* Table.members of a node, with the targets byTarget gives each
  loops,     \* where the node's gossip loop and its JoinSeeds are
  net,       \* messages in flight
  healed,    \* the network no longer loses, repeats or delays messages
  crashes,   \* crashes so far
  claimed    \* ghost: every incarnation a node ever gave itself

vars == <<up, members, loops, net, healed, crashes, claimed>>

-----------------------------------------------------------------------------
(* The table *)

statusRank == [unknown |-> 0, alive |-> 1, suspect |-> 2, dead |-> 3]

\* A node without a record.  Every incarnation on the wire is above 0.
Unknown == [status |-> "unknown", inc |-> 0, missed |-> 0, age |-> 0,
            targets |-> {}]

\* The record cur of m after status s at incarnation i is taken over: seen now,
\* no probe missed, reached only at its endpoint if the process is a new one.
Renew(m, cur, s, i) ==
  [status |-> s, inc |-> i, missed |-> 0, age |-> 0,
   targets |-> (IF i > cur.inc THEN {} ELSE cur.targets) \cup {Advertised[m]}]

\* newTable; a node charges no probe to itself, so it needs no target.
NewTable(n, i) ==
  [m \in Node |-> IF m = n THEN [Unknown EXCEPT !.status = "alive", !.inc = i]
                  ELSE Unknown]

\* Mutant: the largest incarnation is not a special case.
incrementIncarnation_Unbounded(i) == i + 1

incrementIncarnation(i) == IF i = MaxUint64 THEN i ELSE i + 1

\* What an entry about the node itself does to its own record.
Refute(self, e) ==
  IF e.status # "alive" /\ e.inc >= self.inc
  THEN [self EXCEPT !.inc = incrementIncarnation(e.inc)]
  ELSE self

\* Mutant: at equal incarnations the newest entry wins.
Accepts_Newest(cur, e) == e.inc >= cur.inc

\* Every endpoint in a table was valid when it was stored, so the branch that
\* fills an empty one is never taken.
Accepts(cur, e) ==
  \/ e.inc > cur.inc
  \/ e.inc = cur.inc /\ statusRank[e.status] > statusRank[cur.status]

\* Mutant: an accusation is refuted on behalf of whoever is accused.
Merge_RefutesAnyone(n, t, batch) ==
  [m \in Node |-> IF m \notin DOMAIN batch THEN t[m] ELSE Refute(t[m], batch[m])]

\* Merge of a batch of entries into the table t of n.
Merge(n, t, batch) ==
  [m \in Node |->
     IF m \notin DOMAIN batch THEN t[m]
     ELSE IF m = n THEN Refute(t[n], batch[n])
     ELSE IF Accepts(t[m], batch[m])
          THEN Renew(m, t[m], batch[m].status, batch[m].inc)
          ELSE t[m]]

\* Mutant: direct evidence always counts, whichever process it is from.
ObserveAlive_AnyProcess(t, m, i) == [t EXCEPT ![m] = Renew(m, @, "alive", i)]

\* Direct evidence; that of an older process is ignored.
ObserveAlive(t, m, i) ==
  IF i < t[m].inc THEN t ELSE [t EXCEPT ![m] = Renew(m, @, "alive", i)]

AssociateTarget(t, m, a) ==
  IF t[m].inc = 0 THEN t ELSE [t EXCEPT ![m].targets = @ \cup {a}]

\* Counters above the last threshold are not told apart.
Next1(c, limit) == IF c < limit THEN c + 1 ELSE c

Missed(r) ==
  LET missed == Next1(r.missed, DeadAfterMiss)
  IN  [r EXCEPT !.missed = missed,
                !.status = IF missed >= DeadAfterMiss THEN "dead"
                           ELSE IF missed >= SuspectAfterMiss THEN "suspect"
                           ELSE @]

MarkMissedByEndpoint(t, a) ==
  IF a \in t[Owner[a]].targets THEN [t EXCEPT ![Owner[a]] = Missed(@)] ELSE t

\* Mutant: silence only ever makes a member suspect.
TimedOut_NeverDead(r) ==
  [r EXCEPT !.status = IF r.age >= SuspectAfterTicks /\ @ = "alive"
                       THEN "suspect" ELSE @]

TimedOut(r) ==
  [r EXCEPT !.status = IF r.age >= DeadAfterTicks THEN "dead"
                       ELSE IF r.age >= SuspectAfterTicks /\ @ = "alive"
                            THEN "suspect" ELSE @]

ApplyTimeouts(n, t) ==
  [m \in Node |-> IF m = n \/ t[m].inc = 0 THEN t[m] ELSE TimedOut(t[m])]

\* One interval later.
Older(n, t) ==
  [m \in Node |-> IF m = n \/ t[m].inc = 0 THEN t[m]
                  ELSE [t[m] EXCEPT !.age = Next1(@, DeadAfterTicks)]]

AlivePeerEndpoints(n) ==
  {Advertised[m] : m \in {p \in Node \ {n} : members[n][p].status = "alive"}}

-----------------------------------------------------------------------------
(* The bootstrapper *)

Entry(r) == [status |-> r.status, inc |-> r.inc]

\* disseminatedMembership: all the records of t, or the node's own and as many
\* others, taken at random, as a batch can hold.
Disseminated(n, t) ==
  LET known == {m \in Node : t[m].inc > 0}
      size == IF Cardinality(known) <= MaxBatch THEN Cardinality(known) ELSE MaxBatch
  IN  {[m \in D |-> Entry(t[m])] :
         D \in {E \in SUBSET known : n \in E /\ Cardinality(E) = size}}

\* The loops that probe: StartGossipLoop and JoinSeeds.
Loop == {"gossip", "join"}

NonSelfSeeds(n) == Seeds[n] \ {Advertised[n]}

\* The loops of a process that starts.
Started(n) ==
  [round |-> FALSE, todo |-> [gossip |-> {}, join |-> NonSelfSeeds(n)],
   probe |-> [l \in Loop |-> NoAddr]]

To(m) == IF m.type = "Ping" THEN Owner[m.addr] ELSE m.prober
From(m) == IF m.type = "Ping" THEN m.prober ELSE Owner[m.addr]

\* Messages of the probe loop l of n has open: the ping, its copies, their acks.
OfProbe(n, l) == {m \in net : m.live /\ m.loop = l /\ m.prober = n}

\* The sockets of the probes that the messages of Q belong to are closed: a ping
\* may still arrive but its ack may not.
Closed(Q) ==
  {[m EXCEPT !.live = @ /\ m \notin Q] :
     m \in {x \in net : x \in Q => x.type = "Ping"}}

samplePeers(n) ==
  LET candidates == (NonSelfSeeds(n) \cup AlivePeerEndpoints(n)) \ {Advertised[n]}
      size == IF Cardinality(candidates) <= Fanout THEN Cardinality(candidates)
              ELSE Fanout
  IN  {P \in SUBSET candidates : Cardinality(P) = size}

\* The ticker of StartGossipLoop: gossipOnce begins.
StartRound(n) ==
  /\ up[n] /\ ~loops[n].round
  /\ \E P \in samplePeers(n) :
       loops' = [loops EXCEPT ![n].round = TRUE, ![n].todo["gossip"] = P]
  /\ members' = [members EXCEPT ![n] = Older(n, @)]
  /\ UNCHANGED <<up, net, healed, crashes, claimed>>

\* The ticker fires in vain while a round is still waiting for an answer.
SlowRound(n) ==
  /\ up[n] /\ loops[n].probe["gossip"] # NoAddr
  /\ members' = [members EXCEPT ![n] = Older(n, @)]
  /\ members' # members
  /\ UNCHANGED <<up, loops, net, healed, crashes, claimed>>

\* joinSeed: a socket of its own, and a ping with what the table holds now.
SendPing(n, l) ==
  /\ up[n] /\ loops[n].probe[l] = NoAddr
  /\ Cardinality(net) < MaxLoad
  /\ \E a \in loops[n].todo[l] : \E batch \in Disseminated(n, members[n]) :
       /\ loops' = [loops EXCEPT ![n].todo[l] = @ \ {a}, ![n].probe[l] = a]
       /\ net' = net \cup {[type |-> "Ping", prober |-> n, loop |-> l, addr |-> a,
                            live |-> TRUE, inc |-> members[n][n].inc,
                            batch |-> batch]}
  /\ UNCHANGED <<up, members, healed, crashes, claimed>>

\* The listener: a ping of the node itself is refused, any other is merged and
\* answered.  A node that is down takes the ping with it.
HandlePing(m) ==
  LET n == To(m)
      t == ObserveAlive(Merge(n, members[n], m.batch), m.prober, m.inc)
      rest == {net \ {m}} \cup (IF healed THEN {} ELSE {net})
  IN
  /\ m.type = "Ping"
  /\ UNCHANGED <<up, loops, healed, crashes>>
  /\ \/ /\ ~up[n] \/ m.prober = n
        /\ net' = net \ {m}
        /\ UNCHANGED <<members, claimed>>
     \/ /\ up[n] /\ m.prober # n
        /\ members' = [members EXCEPT ![n] = t]
        /\ claimed' = [claimed EXCEPT ![n] = @ \cup {t[n].inc}]
        /\ \E batch \in Disseminated(n, t) : \E others \in rest :
             net' = others \cup
               IF m.live THEN {[type |-> "Ack", prober |-> m.prober, loop |-> m.loop,
                                addr |-> m.addr, live |-> TRUE, inc |-> t[n].inc,
                                batch |-> batch]}
               ELSE {}
        /\ Cardinality(net') <= MaxLoad

HandleAck(m) ==
  LET n == To(m)
      from == From(m)
      t == AssociateTarget(ObserveAlive(Merge(n, members[n], m.batch), from, m.inc),
                           from, m.addr)
  IN
  /\ m.type = "Ack"
  /\ members' = [members EXCEPT ![n] = t]
  /\ claimed' = [claimed EXCEPT ![n] = @ \cup {t[n].inc}]
  /\ net' = Closed(OfProbe(n, m.loop)) \ {m}
  /\ loops' = [loops EXCEPT ![n].probe[m.loop] = NoAddr]
  /\ UNCHANGED <<up, healed, crashes>>

\* No ack within two seconds, or an address that cannot be sent to.  A healthy
\* network answers in time.  gossipOnce charges the miss to the member;
\* joinSeedWithRetry tries again, or gives the seed up: after joinAttempts there,
\* after any number here.
ProbeFails(n, l) ==
  LET a == loops[n].probe[l]
  IN
  /\ a # NoAddr
  /\ ~healed \/ OfProbe(n, l) = {}
  /\ net' = Closed(OfProbe(n, l))
  /\ \/ /\ l = "gossip"
        /\ members' = [members EXCEPT ![n] = MarkMissedByEndpoint(@, a)]
        /\ loops' = [loops EXCEPT ![n].probe[l] = NoAddr]
     \/ /\ l = "join"
        /\ UNCHANGED members
        /\ \E again \in {{}, {a}} :
             loops' = [loops EXCEPT ![n].probe[l] = NoAddr,
                                    ![n].todo[l] = @ \cup again]
  /\ UNCHANGED <<up, healed, crashes, claimed>>

\* gossipOnce ends.
EndRound(n) ==
  /\ up[n] /\ loops[n].round
  /\ loops[n].todo["gossip"] = {} /\ loops[n].probe["gossip"] = NoAddr
  /\ members' = [members EXCEPT ![n] = ApplyTimeouts(n, @)]
  /\ loops' = [loops EXCEPT ![n].round = FALSE]
  /\ UNCHANGED <<up, net, healed, crashes, claimed>>

-----------------------------------------------------------------------------
(* Processes and the network *)

\* The process ends, its sockets with it; what it knew is lost.
Crash(n) ==
  /\ up[n] /\ crashes < MaxCrashes
  /\ crashes' = crashes + 1
  /\ up' = [up EXCEPT ![n] = FALSE]
  /\ members' = [members EXCEPT ![n] = [m \in Node |-> Unknown]]
  /\ loops' = [loops EXCEPT ![n] = Started(n)]
  /\ net' = Closed({m \in net : m.prober = n})
  /\ UNCHANGED <<healed, claimed>>

\* NewTable: the incarnation of a process is the wall clock.
Restart(n) ==
  /\ ~up[n]
  /\ up' = [up EXCEPT ![n] = TRUE]
  /\ \E i \in 1..MaxUint64 :
       /\ ClockSteps \/ \A j \in claimed[n] : i > j
       /\ members' = [members EXCEPT ![n] = NewTable(n, i)]
       /\ claimed' = [claimed EXCEPT ![n] = @ \cup {i}]
  /\ UNCHANGED <<loops, net, healed, crashes>>

Lose(m) ==
  /\ ~healed
  /\ net' = net \ {m}
  /\ UNCHANGED <<up, members, loops, healed, crashes, claimed>>

Heal ==
  /\ ~healed
  /\ healed' = TRUE
  /\ UNCHANGED <<up, members, loops, net, crashes, claimed>>

-----------------------------------------------------------------------------
Init ==
  /\ up = [n \in Node |-> TRUE]
  /\ members = [n \in Node |-> NewTable(n, 1)]
  /\ loops = [n \in Node |-> Started(n)]
  /\ net = {}
  /\ healed = FALSE
  /\ crashes = 0
  /\ claimed = [n \in Node |-> {1}]

\* One step of a loop at a time is possible: the loop goes on, whatever it waits
\* for.  Only the bound on messages makes a send wait, so fairness is strong.
GossipLoop(n) ==
  StartRound(n) \/ SendPing(n, "gossip") \/ ProbeFails(n, "gossip") \/ EndRound(n)

JoinSeeds(n) == SendPing(n, "join") \/ ProbeFails(n, "join")

Handle(m) == HandlePing(m) \/ HandleAck(m)

NodeStep(n) ==
  \/ GossipLoop(n)
  \/ SlowRound(n)
  \/ JoinSeeds(n)
  \/ Crash(n)
  \/ Restart(n)

Next ==
  \/ \E n \in Node : NodeStep(n)
  \/ \E m \in net : Handle(m)
  \/ \E m \in net : Lose(m)

\* The loops of a running node go on, and a network that is healthy delivers.
Fairness ==
  /\ WF_vars(Heal)
  /\ \A n \in Node :
       /\ SF_vars(GossipLoop(n))
       /\ WF_vars(JoinSeeds(n))
       /\ WF_vars(\E m \in net : To(m) = n /\ Handle(m))

Spec == Init /\ [][Next]_vars

LiveSpec == Init /\ [][Next \/ Heal]_vars /\ Fairness

-----------------------------------------------------------------------------
(* Properties *)

Status == {"unknown", "alive", "suspect", "dead"}

Incarnation == 1..MaxUint64

MemberRecord ==
  [status : Status, inc : 0..MaxUint64,
   missed : 0..DeadAfterMiss, age : 0..DeadAfterTicks, targets : SUBSET Addr]

LoopState ==
  [round : BOOLEAN, todo : [Loop -> SUBSET Addr],
   probe : [Loop -> Addr \cup {NoAddr}]]

\* What a ping or an ack says of some of the nodes.
Batch == UNION {[D -> [status : Status, inc : Incarnation]] : D \in SUBSET Node}

Message ==
  [type : {"Ping", "Ack"}, prober : Node, loop : Loop, addr : Addr,
   live : BOOLEAN, inc : Incarnation, batch : Batch]

\* Every variable keeps the type the code gives it.
TypeOK ==
  /\ up \in [Node -> BOOLEAN]
  /\ members \in [Node -> [Node -> MemberRecord]]
  /\ loops \in [Node -> LoopState]
  /\ net \subseteq Message
  /\ IsFiniteSet(net) /\ Cardinality(net) <= MaxLoad
  /\ healed \in BOOLEAN
  /\ crashes \in 0..MaxCrashes
  /\ claimed \in [Node -> SUBSET Incarnation]

\* No table and no message ever holds an incarnation that its owner did not give
\* itself: only Merge at the accused raises an incarnation, whatever processes
\* it had before and whatever is still in flight about them.
IncarnationsOwned ==
  /\ \A n, m \in Node : members[n][m].inc \in claimed[m] \cup {0}
  /\ \A x \in net : \A m \in DOMAIN x.batch : x.batch[m].inc \in claimed[m]

\* What a process knows of an incarnation, its own included, never goes back:
\* not by a late ping of an earlier process of the peer (ObserveAlive), nor by old
\* entries from a third node (Merge).
IncarnationsKept ==
  [][\A n, m \in Node :
       up[n] /\ up'[n] => members'[n][m].inc >= members[n][m].inc]_vars

\* At an unchanged incarnation a node takes a member for alive again only by
\* handling a ping or an ack of that member at that incarnation; what others say,
\* however late it arrives, never clears a suspicion.
HearsayNeverClears ==
  [][\A n, m \in Node :
       /\ members[n][m].status \in {"suspect", "dead"}
       /\ members'[n][m].status = "alive"
       /\ members'[n][m].inc = members[n][m].inc
       => \E x \in net : /\ From(x) = m /\ To(x) = n
                         /\ x.inc = members[n][m].inc
                         /\ Handle(x)]_vars

\* Once the network is healthy, every table is right again and again: all running
\* nodes hold each other alive and hold the crashed ones dead, at one and the
\* same time, also after false accusations, after a restart whose clock was
\* behind the incarnation the others know, and at the largest incarnation.
TablesRight ==
  []<>(\A n, m \in Node :
         up[n] => members[n][m].status \in
                    IF up[m] THEN {"alive"} ELSE {"unknown", "dead"})

-----------------------------------------------------------------------------
(* The inductive invariant behind the safety properties *)

\* A running process has an incarnation; one that is down knows nothing.
ProcessKnows ==
  \A n \in Node : IF up[n] THEN members[n][n].inc \in Incarnation
                  ELSE members[n] = [m \in Node |-> Unknown]

\* Acks, and pings that may be answered, belong to an open socket of a process
\* that runs.
SocketsOpen ==
  \A x \in net : (x.live => up[x.prober]) /\ (x.type = "Ack" => x.live)

\* Senders speak for themselves at an incarnation they gave themselves.
SendersOwn == \A x \in net : x.inc \in claimed[From(x)]

Inv ==
  /\ TypeOK
  /\ ProcessKnows
  /\ SocketsOpen
  /\ IncarnationsOwned
  /\ SendersOwn

=============================================================================
