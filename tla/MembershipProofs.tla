--------------------------- MODULE MembershipProofs ---------------------------
(***************************************************************************)
(* Proofs about Membership for every set of nodes, addresses and seeds,    *)
(* every threshold and every bound.                                        *)
(***************************************************************************)
EXTENDS Membership, FiniteSetTheorems, TLAPS

-----------------------------------------------------------------------------
(* The table's operators *)

\* The constants the table's operators read.
LEMMA Limits ==
  /\ MaxUint64 \in Nat /\ MaxUint64 > 0
  /\ DeadAfterMiss \in Nat /\ DeadAfterTicks \in Nat
  /\ \A n \in Node : Advertised[n] \in Addr /\ Owner[Advertised[n]] = n
  /\ \A a \in Addr : Owner[a] \in Node
BY MembershipAssumption

\* A batch says of some nodes a status and an incarnation.
LEMMA BatchFacts ==
  ASSUME NEW b \in Batch
  PROVE  /\ DOMAIN b \subseteq Node
         /\ \A m \in DOMAIN b : b[m].status \in Status /\ b[m].inc \in Incarnation
<1>1. PICK D \in SUBSET Node : b \in [D -> [status : Status, inc : Incarnation]]
  BY DEF Batch
<1> QED  BY <1>1

LEMMA UnknownType == Unknown \in MemberRecord
BY Limits DEF Unknown, MemberRecord, Status

LEMMA RenewType ==
  ASSUME NEW m \in Node, NEW cur \in MemberRecord,
         NEW s \in Status, NEW i \in 0..MaxUint64
  PROVE  /\ Renew(m, cur, s, i) \in MemberRecord
         /\ Renew(m, cur, s, i).inc = i /\ Renew(m, cur, s, i).status = s
BY Limits DEF Renew, MemberRecord

LEMMA NewTableType ==
  ASSUME NEW n \in Node, NEW i \in Incarnation
  PROVE  /\ NewTable(n, i) \in [Node -> MemberRecord]
         /\ NewTable(n, i)[n].inc = i
         /\ \A m \in Node : m # n => NewTable(n, i)[m] = Unknown
<1> DEFINE own == [Unknown EXCEPT !.status = "alive", !.inc = i]
<1>1. own \in MemberRecord /\ own.inc = i
  <2>1. ASSUME NEW r \in MemberRecord
        PROVE  LET q == [r EXCEPT !.status = "alive", !.inc = i]
               IN  q \in MemberRecord /\ q.inc = i
    <3>1. i \in 0..MaxUint64 /\ "alive" \in Status
      BY Limits DEF Status, Incarnation
    <3> QED  BY <3>1 DEF MemberRecord
  <2> QED  BY <2>1, UnknownType
<1>2. NewTable(n, i) = [m \in Node |-> IF m = n THEN own ELSE Unknown]
  BY DEF NewTable
<1> HIDE DEF own
<1> QED  BY <1>1, <1>2, UnknownType

\* Refutation raises the own incarnation, never past the largest, and leaves the
\* status alone.
LEMMA RefuteFacts ==
  ASSUME NEW r \in MemberRecord, NEW e, e.inc \in Incarnation
  PROVE  /\ Refute(r, e) \in MemberRecord
         /\ Refute(r, e).inc >= r.inc
         /\ Refute(r, e).inc = r.inc \/ Refute(r, e).inc \in Incarnation
         /\ Refute(r, e).status = r.status
<1>1. /\ incrementIncarnation(e.inc) \in Incarnation
      /\ incrementIncarnation(e.inc) >= e.inc
      /\ e.inc \in Nat /\ r.inc \in 0..MaxUint64
  BY Limits DEF incrementIncarnation, Incarnation, MemberRecord
<1>2. CASE e.status # "alive" /\ e.inc >= r.inc
  <2>1. Refute(r, e) = [r EXCEPT !.inc = incrementIncarnation(e.inc)]
    BY <1>2 DEF Refute
  <2> QED  BY <1>1, <1>2, <2>1, Limits DEF MemberRecord, Incarnation
<1>3. CASE ~(e.status # "alive" /\ e.inc >= r.inc)
  BY <1>1, <1>3 DEF Refute
<1> QED  BY <1>2, <1>3

\* What an accepted entry does to the record of a member other than the node:
\* incarnations grow, and at an unchanged one a failure status never turns to
\* alive.
LEMMA AcceptFacts ==
  ASSUME NEW m \in Node, NEW r \in MemberRecord, NEW e,
         e.status \in Status, e.inc \in Incarnation, Accepts(r, e)
  PROVE  LET q == Renew(m, r, e.status, e.inc)
         IN  /\ q \in MemberRecord
             /\ q.inc >= r.inc /\ q.inc = e.inc
             /\ q.inc = r.inc /\ r.status \in {"suspect", "dead"}
                => q.status # "alive"
<1>1. e.inc \in 0..MaxUint64 /\ r.inc \in 0..MaxUint64 /\ r.status \in Status
  BY Limits DEF Incarnation, MemberRecord
<1>2. e.inc >= r.inc
  BY <1>1 DEF Accepts
<1>3. ASSUME e.inc = r.inc, r.status \in {"suspect", "dead"}
      PROVE  e.status # "alive"
  <2>1. statusRank[e.status] > statusRank[r.status]
    BY <1>1, <1>3 DEF Accepts
  <2> QED  BY <1>3, <2>1 DEF statusRank
<1> QED  BY <1>1, <1>2, <1>3, RenewType

\* Table.Merge: every record keeps its type, no incarnation falls, a new one
\* comes from the batch or, for the node itself, from a refutation, and at an
\* unchanged incarnation no failure status turns to alive.
LEMMA MergeFacts ==
  ASSUME NEW n \in Node, NEW t \in [Node -> MemberRecord], NEW b \in Batch
  PROVE  /\ Merge(n, t, b) \in [Node -> MemberRecord]
         /\ Merge(n, t, b)[n].inc = t[n].inc \/ Merge(n, t, b)[n].inc \in Incarnation
         /\ \A m \in Node :
              /\ Merge(n, t, b)[m].inc >= t[m].inc
              /\ m # n => \/ Merge(n, t, b)[m].inc = t[m].inc
                          \/ m \in DOMAIN b /\ Merge(n, t, b)[m].inc = b[m].inc
              /\ /\ Merge(n, t, b)[m].inc = t[m].inc
                 /\ t[m].status \in {"suspect", "dead"}
                 => Merge(n, t, b)[m].status # "alive"
<1> DEFINE u == Merge(n, t, b)
<1>1. ASSUME NEW m \in Node
      PROVE  /\ u[m] \in MemberRecord
             /\ u[m].inc >= t[m].inc
             /\ m = n => u[m].inc = t[m].inc \/ u[m].inc \in Incarnation
             /\ m # n => u[m].inc = t[m].inc \/ (m \in DOMAIN b /\ u[m].inc = b[m].inc)
             /\ u[m].inc = t[m].inc /\ t[m].status \in {"suspect", "dead"}
                => u[m].status # "alive"
  <2>1. t[m] \in MemberRecord /\ t[m].inc \in 0..MaxUint64
    BY DEF MemberRecord
  <2>2. CASE m \notin DOMAIN b
    <3>1. u[m] = t[m]
      BY <2>2 DEF Merge
    <3> HIDE DEF u
    <3> QED  BY <2>1, <2>2, <3>1, Limits
  <2>3. CASE m \in DOMAIN b /\ m = n
    <3>1. u[m] = Refute(t[m], b[m])
      BY <2>3 DEF Merge
    <3>2. b[m].inc \in Incarnation
      BY <2>3, BatchFacts
    <3> HIDE DEF u
    <3> QED  BY <2>1, <2>3, <3>1, <3>2, RefuteFacts
  <2>4. CASE m \in DOMAIN b /\ m # n /\ Accepts(t[m], b[m])
    <3>1. u[m] = Renew(m, t[m], b[m].status, b[m].inc)
      BY <2>4 DEF Merge
    <3>2. b[m].inc \in Incarnation /\ b[m].status \in Status
      BY <2>4, BatchFacts
    <3> HIDE DEF u
    <3> QED  BY <2>1, <2>4, <3>1, <3>2, AcceptFacts
  <2>5. CASE m \in DOMAIN b /\ m # n /\ ~Accepts(t[m], b[m])
    <3>1. u[m] = t[m]
      BY <2>5 DEF Merge
    <3> HIDE DEF u
    <3> QED  BY <2>1, <2>5, <3>1, Limits
  <2> QED  BY <2>2, <2>3, <2>4, <2>5
<1>2. u \in [Node -> MemberRecord]
  <2>1. u = [m \in Node |-> u[m]]
    BY DEF Merge
  <2> HIDE DEF u
  <2> QED  BY <1>1, <2>1
<1> HIDE DEF u
<1>3. QED  BY <1>1, <1>2 DEF u

\* Table.ObserveAlive touches the record of the member only; that one becomes
\* alive at the observed incarnation unless it is at a newer one.
LEMMA ObserveAliveFacts ==
  ASSUME NEW t \in [Node -> MemberRecord], NEW p \in Node, NEW i \in Incarnation
  PROVE  /\ ObserveAlive(t, p, i) \in [Node -> MemberRecord]
         /\ \A m \in Node : m # p => ObserveAlive(t, p, i)[m] = t[m]
         /\ \/ ObserveAlive(t, p, i)[p] = t[p]
            \/ ObserveAlive(t, p, i)[p].inc = i /\ i >= t[p].inc
         /\ ObserveAlive(t, p, i)[p].inc >= t[p].inc
<1>1. i \in 0..MaxUint64 /\ t[p] \in MemberRecord /\ t[p].inc \in 0..MaxUint64
  BY Limits DEF Incarnation, MemberRecord
<1>2. CASE i < t[p].inc
  BY <1>1, <1>2, Limits DEF ObserveAlive
<1>3. CASE ~(i < t[p].inc)
  <2>1. ObserveAlive(t, p, i) = [t EXCEPT ![p] = Renew(p, t[p], "alive", i)]
    BY <1>3 DEF ObserveAlive
  <2>2. Renew(p, t[p], "alive", i) \in MemberRecord
        /\ Renew(p, t[p], "alive", i).inc = i
    BY <1>1, RenewType DEF Status
  <2> QED  BY <1>1, <1>3, <2>1, <2>2, Limits
<1> QED  BY <1>2, <1>3

\* Table.AssociateTarget changes neither a status nor an incarnation.
LEMMA AssociateFacts ==
  ASSUME NEW t \in [Node -> MemberRecord], NEW p \in Node, NEW a \in Addr
  PROVE  /\ AssociateTarget(t, p, a) \in [Node -> MemberRecord]
         /\ \A m \in Node : /\ AssociateTarget(t, p, a)[m].inc = t[m].inc
                            /\ AssociateTarget(t, p, a)[m].status = t[m].status
<1> DEFINE r == [t[p] EXCEPT !.targets = @ \cup {a}]
<1>1. r \in MemberRecord /\ r.inc = t[p].inc /\ r.status = t[p].status
  BY DEF MemberRecord
<1>2. AssociateTarget(t, p, a) = t \/ AssociateTarget(t, p, a) = [t EXCEPT ![p] = r]
  BY DEF AssociateTarget
<1> HIDE DEF r
<1> QED  BY <1>1, <1>2

\* A missed probe never makes a member alive and keeps its incarnation.
LEMMA MissedFacts ==
  ASSUME NEW t \in [Node -> MemberRecord], NEW a \in Addr
  PROVE  /\ MarkMissedByEndpoint(t, a) \in [Node -> MemberRecord]
         /\ \A m \in Node :
              /\ MarkMissedByEndpoint(t, a)[m].inc = t[m].inc
              /\ t[m].status # "alive" => MarkMissedByEndpoint(t, a)[m].status # "alive"
<1> DEFINE o == Owner[a]
<1>1. o \in Node /\ t[o] \in MemberRecord
  BY Limits
<1>2. Missed(t[o]) \in MemberRecord /\ Missed(t[o]).inc = t[o].inc
      /\ (t[o].status # "alive" => Missed(t[o]).status # "alive")
  <2> DEFINE r == t[o]
             c == Next1(r.missed, DeadAfterMiss)
             s == IF c >= DeadAfterMiss THEN "dead"
                  ELSE IF c >= SuspectAfterMiss THEN "suspect" ELSE r.status
  <2>1. c \in 0..DeadAfterMiss /\ s \in Status /\ (r.status # "alive" => s # "alive")
    BY <1>1, Limits DEF Next1, MemberRecord, Status
  <2>2. Missed(r) = [r EXCEPT !.missed = c, !.status = s]
    BY <1>1 DEF Missed, MemberRecord
  <2> HIDE DEF c, s
  <2>3. Missed(r).status = s /\ Missed(r).inc = r.inc /\ Missed(r) \in MemberRecord
    BY <1>1, <2>1, <2>2 DEF MemberRecord
  <2> QED  BY <2>1, <2>3
<1> HIDE DEF o
<1> QED  BY <1>1, <1>2 DEF MarkMissedByEndpoint, o

\* Neither do timeouts, nor the passing of time.
LEMMA TimeoutFacts ==
  ASSUME NEW n \in Node, NEW t \in [Node -> MemberRecord]
  PROVE  /\ ApplyTimeouts(n, t) \in [Node -> MemberRecord]
         /\ \A m \in Node :
              /\ ApplyTimeouts(n, t)[m].inc = t[m].inc
              /\ t[m].status # "alive" => ApplyTimeouts(n, t)[m].status # "alive"
<1>1. ASSUME NEW r \in MemberRecord
      PROVE  /\ TimedOut(r) \in MemberRecord /\ TimedOut(r).inc = r.inc
             /\ r.status # "alive" => TimedOut(r).status # "alive"
  BY DEF TimedOut, MemberRecord, Status
<1> QED  BY <1>1 DEF ApplyTimeouts

LEMMA OlderFacts ==
  ASSUME NEW n \in Node, NEW t \in [Node -> MemberRecord]
  PROVE  /\ Older(n, t) \in [Node -> MemberRecord]
         /\ \A m \in Node : /\ Older(n, t)[m].inc = t[m].inc
                            /\ Older(n, t)[m].status = t[m].status
BY Limits DEF Older, Next1, MemberRecord

-----------------------------------------------------------------------------
(* Messages *)

\* A batch says of every node it names what the table it is taken from says.
LEMMA DisseminatedFacts ==
  ASSUME NEW n \in Node, NEW t \in [Node -> MemberRecord], NEW b \in Disseminated(n, t)
  PROVE  /\ b \in Batch
         /\ \A m \in DOMAIN b : m \in Node /\ b[m].inc = t[m].inc /\ t[m].inc > 0
<1>1. PICK D \in SUBSET {m \in Node : t[m].inc > 0} : b = [m \in D |-> Entry(t[m])]
  BY DEF Disseminated
<1>2. ASSUME NEW m \in D
      PROVE  /\ Entry(t[m]) \in [status : Status, inc : Incarnation]
             /\ Entry(t[m]).inc = t[m].inc /\ t[m].inc > 0 /\ m \in Node
  <2>1. m \in Node /\ t[m] \in MemberRecord /\ t[m].inc > 0
    OBVIOUS
  <2> QED  BY <2>1, Limits DEF Entry, MemberRecord, Incarnation
<1>3. b \in [D -> [status : Status, inc : Incarnation]] /\ D \in SUBSET Node
  BY <1>1, <1>2
<1> QED  BY <1>1, <1>2, <1>3 DEF Batch

\* What the invariant says of one message.
Sound(x, u, c) ==
  /\ x.live => u[x.prober]
  /\ x.type = "Ack" => x.live
  /\ x.inc \in c[From(x)]
  /\ \A m \in DOMAIN x.batch : x.batch[m].inc \in c[m]

LEMMA MessageFacts ==
  ASSUME NEW x \in Message
  PROVE  /\ x.type \in {"Ping", "Ack"} /\ x.prober \in Node /\ x.loop \in Loop
         /\ x.addr \in Addr /\ x.live \in BOOLEAN /\ x.inc \in Incarnation
         /\ x.batch \in Batch
         /\ From(x) \in Node /\ To(x) \in Node
BY Limits DEF Message, From, To

LEMMA InvMessages ==
  ASSUME Inv PROVE \A x \in net : x \in Message /\ Sound(x, up, claimed)
BY DEF Inv, TypeOK, SocketsOpen, IncarnationsOwned, SendersOwn, Sound

\* The invariant, one message and one record at a time.
LEMMA InvFromParts ==
  ASSUME TypeOK', ProcessKnows',
         \A n, m \in Node : members'[n][m].inc \in claimed'[m] \cup {0},
         \A x \in net' : Sound(x, up', claimed')
  PROVE  Inv'
BY DEF Inv, SocketsOpen, IncarnationsOwned, SendersOwn, Sound, From

\* A message stays sound while processes run on and claim more.
LEMMA SoundKept ==
  ASSUME NEW x \in Message, NEW u, NEW v, NEW c, NEW d, Sound(x, u, c),
         \A n \in Node : u[n] => v[n], \A n \in Node : c[n] \subseteq d[n]
  PROVE  Sound(x, v, d)
BY MessageFacts, BatchFacts DEF Sound

\* Closing sockets drops acks and leaves the other messages as they were, but
\* unanswerable where their socket is gone.
LEMMA ClosedFacts ==
  ASSUME TypeOK, NEW Q
  PROVE  /\ Closed(Q) \subseteq Message /\ IsFiniteSet(Closed(Q))
         /\ Cardinality(Closed(Q)) <= Cardinality(net)
         /\ \A x \in Closed(Q) : \E y \in net :
              /\ y \in Q => y.type = "Ping"
              /\ x = [y EXCEPT !.live = y.live /\ y \notin Q]
<1> DEFINE S == {x \in net : x \in Q => x.type = "Ping"}
           shut(x) == [x EXCEPT !.live = x.live /\ x \notin Q]
           f == [x \in S |-> shut(x)]
<1>1. net \subseteq Message /\ IsFiniteSet(net) /\ S \in SUBSET net
  BY DEF TypeOK
<1>2. IsFiniteSet(S) /\ Cardinality(S) <= Cardinality(net)
  BY <1>1, FS_Subset
<1>3. Closed(Q) = {shut(x) : x \in S}
  BY DEF Closed
<1>4. ASSUME NEW x \in S PROVE shut(x) \in Message
  <2>1. x \in Message
    BY <1>1
  <2>2. (x.live /\ x \notin Q) \in BOOLEAN
    OBVIOUS
  <2> QED  BY <2>1, <2>2 DEF Message
<1> HIDE DEF S, shut
<1>5. f \in Surjection(S, Closed(Q))
  BY <1>3 DEF Surjection
<1>6. IsFiniteSet(Closed(Q)) /\ Cardinality(Closed(Q)) <= Cardinality(S)
  BY <1>2, <1>5, FS_Surjection
<1>7. /\ Cardinality(Closed(Q)) \in Nat /\ Cardinality(S) \in Nat
      /\ Cardinality(net) \in Nat
  BY <1>1, <1>2, <1>6, FS_CardinalityType
<1>8. \A x \in Closed(Q) : \E y \in net :
        /\ y \in Q => y.type = "Ping"
        /\ x = [y EXCEPT !.live = y.live /\ y \notin Q]
  BY <1>3 DEF S, shut
<1> QED  BY <1>2, <1>3, <1>4, <1>6, <1>7, <1>8

\* What is left is sound for any set of processes that holds those whose sockets
\* are still open.
LEMMA ClosedSound ==
  ASSUME Inv, NEW Q, NEW v, \A y \in net : y.live /\ y \notin Q => v[y.prober]
  PROVE  \A x \in Closed(Q) : Sound(x, v, claimed)
<1> SUFFICES ASSUME NEW x \in Closed(Q) PROVE Sound(x, v, claimed)
  OBVIOUS
<1>1. PICK y \in net : /\ y \in Q => y.type = "Ping"
                       /\ x = [y EXCEPT !.live = y.live /\ y \notin Q]
  BY ClosedFacts DEF Inv
<1>2. y \in Message /\ Sound(y, up, claimed)
  BY InvMessages
<1>3. /\ x.type = y.type /\ x.prober = y.prober /\ x.addr = y.addr /\ x.inc = y.inc
      /\ x.batch = y.batch /\ x.live = (y.live /\ y \notin Q)
  BY <1>1, <1>2 DEF Message
<1>4. From(x) = From(y)
  BY <1>3 DEF From
<1>5. y.type = "Ack" => y.live /\ y \notin Q
  BY <1>1, <1>2 DEF Sound
<1> QED  BY <1>2, <1>3, <1>4, <1>5 DEF Sound

-----------------------------------------------------------------------------
(* Steps *)

\* What the variables are, spelled out.
LEMMA Types ==
  ASSUME Inv
  PROVE  /\ up \in [Node -> BOOLEAN] /\ members \in [Node -> [Node -> MemberRecord]]
         /\ loops \in [Node -> LoopState] /\ claimed \in [Node -> SUBSET Incarnation]
         /\ net \subseteq Message /\ IsFiniteSet(net) /\ Cardinality(net) \in Nat
         /\ Cardinality(net) <= MaxLoad /\ MaxLoad \in Nat
         /\ healed \in BOOLEAN /\ crashes \in 0..MaxCrashes /\ MaxCrashes \in Nat
BY FS_CardinalityType, MembershipAssumption DEF Inv, TypeOK

\* What a node's table is after it has heard of p, at an incarnation of p, with a
\* batch of owned incarnations: the parts of a handler that both kinds of
\* message share.
LEMMA HeardFacts ==
  ASSUME Inv, NEW n \in Node, NEW p \in Node, NEW i \in claimed[p], NEW b \in Batch,
         \A m \in DOMAIN b : b[m].inc \in claimed[m], NEW t,
         t = ObserveAlive(Merge(n, members[n], b), p, i)
  PROVE  /\ t \in [Node -> MemberRecord]
         /\ members[n][n].inc \in Incarnation => t[n].inc \in Incarnation
         /\ \A m \in Node :
              /\ t[m].inc >= members[n][m].inc
              /\ m # n => t[m].inc \in claimed[m] \cup {0}
              /\ /\ t[m].inc = members[n][m].inc
                 /\ members[n][m].status \in {"suspect", "dead"}
                 /\ t[m].status = "alive"
                 => m = p /\ i = t[m].inc
<1> DEFINE u == Merge(n, members[n], b)
<1>1. members[n] \in [Node -> MemberRecord] /\ i \in Incarnation
  BY Types
<1>2. /\ u \in [Node -> MemberRecord]
      /\ u[n].inc = members[n][n].inc \/ u[n].inc \in Incarnation
      /\ \A m \in Node :
           /\ u[m].inc >= members[n][m].inc
           /\ m # n => \/ u[m].inc = members[n][m].inc
                       \/ m \in DOMAIN b /\ u[m].inc = b[m].inc
           /\ u[m].inc = members[n][m].inc /\ members[n][m].status \in {"suspect", "dead"}
              => u[m].status # "alive"
  BY <1>1, MergeFacts
<1> HIDE DEF u
<1>3. /\ t \in [Node -> MemberRecord]
      /\ \A m \in Node : m # p => t[m] = u[m]
      /\ t[p] = u[p] \/ (t[p].inc = i /\ i >= u[p].inc)
      /\ t[p].inc >= u[p].inc
  BY <1>1, <1>2, ObserveAliveFacts DEF u
<1>4. \A m \in Node : /\ t[m].inc \in 0..MaxUint64 /\ u[m].inc \in 0..MaxUint64
                      /\ members[n][m].inc \in 0..MaxUint64
  BY <1>1, <1>2, <1>3 DEF MemberRecord
<1>5. members[n][n].inc \in Incarnation => t[n].inc \in Incarnation
  BY <1>1, <1>2, <1>3
<1>6. ASSUME NEW m \in Node
      PROVE  /\ t[m].inc >= members[n][m].inc
             /\ m # n => t[m].inc \in claimed[m] \cup {0}
             /\ t[m].inc = members[n][m].inc /\ members[n][m].status \in {"suspect", "dead"}
                /\ t[m].status = "alive" => m = p /\ i = t[m].inc
  <2>1. t[m].inc >= u[m].inc /\ u[m].inc >= members[n][m].inc
    BY <1>2, <1>3, <1>4
  <2>2. t[m].inc >= members[n][m].inc
    BY <1>4, <2>1, Limits
  <2>3. ASSUME m # n PROVE t[m].inc \in claimed[m] \cup {0}
    <3>1. members[n][m].inc \in claimed[m] \cup {0}
      BY DEF Inv, IncarnationsOwned
    <3>2. u[m].inc \in claimed[m] \cup {0}
      BY <1>2, <2>3, <3>1
    <3> QED  BY <1>3, <3>2
  <2>4. ASSUME t[m].inc = members[n][m].inc, members[n][m].status \in {"suspect", "dead"},
               t[m].status = "alive"
        PROVE  m = p /\ i = t[m].inc
    <3>1. u[m].inc = members[n][m].inc
      BY <1>4, <2>1, <2>4, Limits
    <3>2. u[m].status # "alive"
      BY <1>2, <2>4, <3>1
    <3>3. t[m] # u[m]
      BY <2>4, <3>2
    <3> QED  BY <1>3, <3>3
  <2> QED  BY <2>2, <2>3, <2>4
<1> QED  BY <1>3, <1>5, <1>6

\* A step that changes the table of one node that runs, and claims what the node
\* calls itself, keeps what the invariant says of tables.
LEMMA TableStep ==
  ASSUME Inv, NEW n \in Node, NEW t \in [Node -> MemberRecord],
         up[n] => t[n].inc \in Incarnation,
         ~up[n] => t = members[n],
         \A m \in Node : m # n => t[m].inc \in claimed[m] \cup {0},
         up' = up, members' = [members EXCEPT ![n] = t],
         \/ claimed' = [claimed EXCEPT ![n] = @ \cup {t[n].inc}] /\ up[n]
         \/ claimed' = claimed /\ t[n].inc = members[n][n].inc
  PROVE  /\ members' \in [Node -> [Node -> MemberRecord]]
         /\ claimed' \in [Node -> SUBSET Incarnation]
         /\ \A m \in Node : claimed[m] \subseteq claimed'[m]
         /\ t[n].inc \in claimed'[n] \cup {0}
         /\ ProcessKnows'
         /\ \A k, m \in Node : members'[k][m].inc \in claimed'[m] \cup {0}
<1>1. /\ members \in [Node -> [Node -> MemberRecord]]
      /\ claimed \in [Node -> SUBSET Incarnation]
      /\ \A k, m \in Node : members[k][m].inc \in claimed[m] \cup {0}
  BY Types DEF Inv, IncarnationsOwned
<1>2. members' \in [Node -> [Node -> MemberRecord]] /\ members'[n] = t
      /\ \A k \in Node : k # n => members'[k] = members[k]
  BY <1>1
<1>3. claimed' \in [Node -> SUBSET Incarnation]
      /\ \A m \in Node : claimed[m] \subseteq claimed'[m]
  <2>1. CASE claimed' = [claimed EXCEPT ![n] = @ \cup {t[n].inc}] /\ up[n]
    BY <1>1, <2>1
  <2>2. CASE claimed' = claimed
    BY <1>1, <2>2
  <2> QED  BY <2>1, <2>2
<1>4. t[n].inc \in claimed'[n] \cup {0}
  BY <1>1
<1>5. ProcessKnows'
  <2> SUFFICES ASSUME NEW k \in Node
               PROVE  IF up'[k] THEN members'[k][k].inc \in Incarnation
                      ELSE members'[k] = [m \in Node |-> Unknown]
    BY DEF ProcessKnows, Incarnation, Unknown
  <2>1. IF up[k] THEN members[k][k].inc \in Incarnation
        ELSE members[k] = [m \in Node |-> Unknown]
    BY DEF Inv, ProcessKnows
  <2> QED  BY <1>2, <2>1
<1>6. ASSUME NEW k \in Node, NEW m \in Node
      PROVE  members'[k][m].inc \in claimed'[m] \cup {0}
  BY <1>1, <1>2, <1>3, <1>4
<1> QED  BY <1>2, <1>3, <1>4, <1>5, <1>6

\* The addresses a node probes.
LEMMA StartedType ==
  ASSUME NEW n \in Node
  PROVE  NonSelfSeeds(n) \subseteq Addr /\ Started(n) \in LoopState
<1>1. NonSelfSeeds(n) \subseteq Addr
  BY MembershipAssumption DEF NonSelfSeeds
<1>2. [gossip |-> {}, join |-> NonSelfSeeds(n)] \in [Loop -> SUBSET Addr]
  BY <1>1 DEF Loop
<1>3. [l \in Loop |-> NoAddr] \in [Loop -> Addr \cup {NoAddr}]
  OBVIOUS
<1> QED  BY <1>1, <1>2, <1>3 DEF Started, LoopState

LEMMA SampledAddresses ==
  ASSUME NEW n \in Node
  PROVE  samplePeers(n) \subseteq SUBSET Addr
<1>1. AlivePeerEndpoints(n) \subseteq Addr
  BY Limits DEF AlivePeerEndpoints
<1> QED  BY <1>1, StartedType DEF samplePeers

\* What the loops of a node may become.
LEMMA LoopTypes ==
  ASSUME Inv, NEW n \in Node, NEW l \in Loop, NEW P \in SUBSET Addr, NEW r \in BOOLEAN,
         NEW a \in Addr \cup {NoAddr}
  PROVE  /\ loops[n].round \in BOOLEAN /\ loops[n].todo[l] \in SUBSET Addr
         /\ loops[n].probe[l] \in Addr \cup {NoAddr}
         /\ [loops EXCEPT ![n].round = r] \in [Node -> LoopState]
         /\ [loops EXCEPT ![n].round = r, ![n].todo[l] = P] \in [Node -> LoopState]
         /\ [loops EXCEPT ![n].probe[l] = a] \in [Node -> LoopState]
         /\ [loops EXCEPT ![n].todo[l] = P, ![n].probe[l] = a] \in [Node -> LoopState]
         /\ [loops EXCEPT ![n].probe[l] = a, ![n].todo[l] = P] \in [Node -> LoopState]
<1>1. loops \in [Node -> LoopState]
  BY Types
<1>2. /\ loops[n].round \in BOOLEAN /\ loops[n].todo \in [Loop -> SUBSET Addr]
      /\ loops[n].probe \in [Loop -> Addr \cup {NoAddr}]
  BY <1>1 DEF LoopState
<1>3. /\ [loops[n].todo EXCEPT ![l] = P] \in [Loop -> SUBSET Addr]
      /\ [loops[n].probe EXCEPT ![l] = a] \in [Loop -> Addr \cup {NoAddr}]
  BY <1>2
<1>4. ASSUME NEW L \in [Node -> LoopState]
      PROVE  /\ [L EXCEPT ![n].round = r] \in [Node -> LoopState]
             /\ [L EXCEPT ![n].todo[l] = P] \in [Node -> LoopState]
             /\ [L EXCEPT ![n].probe[l] = a] \in [Node -> LoopState]
  <2>1. /\ L[n] \in LoopState /\ L[n].todo \in [Loop -> SUBSET Addr]
        /\ L[n].probe \in [Loop -> Addr \cup {NoAddr}]
    BY DEF LoopState
  <2>2. /\ [L[n].todo EXCEPT ![l] = P] \in [Loop -> SUBSET Addr]
        /\ [L[n].probe EXCEPT ![l] = a] \in [Loop -> Addr \cup {NoAddr}]
    BY <2>1
  <2> QED  BY <2>1, <2>2 DEF LoopState
<1>5. [loops EXCEPT ![n].round = r] \in [Node -> LoopState]
  BY <1>1, <1>4
<1>6. [loops EXCEPT ![n].probe[l] = a] \in [Node -> LoopState]
  BY <1>1, <1>4
<1>10. [loops EXCEPT ![n].todo[l] = P] \in [Node -> LoopState]
  BY <1>1, <1>4
<1>7. [loops EXCEPT ![n].round = r, ![n].todo[l] = P] \in [Node -> LoopState]
  <2>1. [loops EXCEPT ![n].round = r, ![n].todo[l] = P]
          = [[loops EXCEPT ![n].round = r] EXCEPT ![n].todo[l] = P]
    BY <1>1
  <2> QED  BY <1>4, <1>5, <2>1
<1>8. [loops EXCEPT ![n].todo[l] = P, ![n].probe[l] = a] \in [Node -> LoopState]
  <2>1. [loops EXCEPT ![n].todo[l] = P, ![n].probe[l] = a]
          = [[loops EXCEPT ![n].todo[l] = P] EXCEPT ![n].probe[l] = a]
    BY <1>1
  <2> QED  BY <1>4, <1>10, <2>1
<1>9. [loops EXCEPT ![n].probe[l] = a, ![n].todo[l] = P] \in [Node -> LoopState]
  <2>1. [loops EXCEPT ![n].probe[l] = a, ![n].todo[l] = P]
          = [[loops EXCEPT ![n].probe[l] = a] EXCEPT ![n].todo[l] = P]
    BY <1>1
  <2> QED  BY <1>4, <1>6, <2>1
<1> QED  BY <1>2, <1>5, <1>6, <1>7, <1>8, <1>9

\* Fewer messages take no more room.
LEMMA FewerMessages ==
  ASSUME Inv, NEW S \in SUBSET net
  PROVE  /\ S \subseteq Message /\ IsFiniteSet(S)
         /\ Cardinality(S) \in Nat /\ Cardinality(S) <= MaxLoad
<1>1. IsFiniteSet(S) /\ Cardinality(S) <= Cardinality(net)
  BY Types, FS_Subset
<1> QED  BY <1>1, Types, FS_CardinalityType

\* The listener keeps the invariant.
LEMMA PingInv ==
  ASSUME Inv, NEW m \in net, HandlePing(m)
  PROVE  Inv'
<1> DEFINE n == To(m)
           t == ObserveAlive(Merge(n, members[n], m.batch), m.prober, m.inc)
<1>1. /\ m \in Message /\ Sound(m, up, claimed) /\ m.type = "Ping"
      /\ n \in Node /\ m.prober \in Node /\ From(m) = m.prober
      /\ m.inc \in claimed[m.prober] /\ m.batch \in Batch
      /\ \A k \in DOMAIN m.batch : m.batch[k].inc \in claimed[k]
  BY InvMessages, MessageFacts DEF HandlePing, Sound, From
<1>2. UNCHANGED <<up, loops, healed, crashes>>
  BY DEF HandlePing
<1>3. CASE net' = net \ {m} /\ UNCHANGED <<members, claimed>>
  <2>1. net' \subseteq Message /\ IsFiniteSet(net') /\ Cardinality(net') <= MaxLoad
    <3>1. net' \in SUBSET net
      BY <1>3
    <3> QED  BY <3>1, FewerMessages
  <2>2. TypeOK'
    BY <1>2, <1>3, <2>1, Types DEF TypeOK
  <2> QED  BY <1>2, <1>3, <2>2, InvMessages, InvFromParts
           DEF Inv, ProcessKnows, IncarnationsOwned, Unknown, Incarnation
<1>4. CASE /\ up[n] /\ m.prober # n
           /\ members' = [members EXCEPT ![n] = t]
           /\ claimed' = [claimed EXCEPT ![n] = @ \cup {t[n].inc}]
           /\ \E batch \in Disseminated(n, t) :
                \E others \in {net \ {m}} \cup (IF healed THEN {} ELSE {net}) :
                net' = others \cup
                  IF m.live
                  THEN {[type |-> "Ack", prober |-> m.prober, loop |-> m.loop,
                         addr |-> m.addr, live |-> TRUE, inc |-> t[n].inc,
                         batch |-> batch]}
                  ELSE {}
           /\ Cardinality(net') <= MaxLoad
  <2>1. members[n][n].inc \in Incarnation
    BY <1>1, <1>4 DEF Inv, ProcessKnows
  <2>2. /\ t \in [Node -> MemberRecord] /\ t[n].inc \in Incarnation
        /\ \A k \in Node : k # n => t[k].inc \in claimed[k] \cup {0}
    BY <1>1, <2>1, HeardFacts
  <2> HIDE DEF t
  <2>3. /\ members' \in [Node -> [Node -> MemberRecord]]
        /\ claimed' \in [Node -> SUBSET Incarnation]
        /\ \A k \in Node : claimed[k] \subseteq claimed'[k]
        /\ ProcessKnows'
        /\ \A j, k \in Node : members'[j][k].inc \in claimed'[k] \cup {0}
    BY <1>1, <1>2, <1>4, <2>2, TableStep
  <2>4. t[n].inc \in claimed'[n] /\ members'[n] = t
    BY <1>1, <1>4, Types
  <2>5. PICK batch \in Disseminated(n, t), others \in SUBSET net :
          \/ net' = others
          \/ m.live /\ net' = others \cup
               {[type |-> "Ack", prober |-> m.prober, loop |-> m.loop, addr |-> m.addr,
                 live |-> TRUE, inc |-> t[n].inc, batch |-> batch]}
    BY <1>4
  <2> DEFINE ack == [type |-> "Ack", prober |-> m.prober, loop |-> m.loop, addr |-> m.addr,
                     live |-> TRUE, inc |-> t[n].inc, batch |-> batch]
  <2>6. batch \in Batch /\ \A k \in DOMAIN batch : batch[k].inc \in claimed'[k]
    <3>1. /\ batch \in Batch
          /\ \A k \in DOMAIN batch : k \in Node /\ batch[k].inc = t[k].inc /\ t[k].inc > 0
      BY <1>1, <2>2, DisseminatedFacts
    <3>2. \A k \in Node : t[k].inc \in claimed'[k] \cup {0}
      BY <1>1, <2>3, <2>4
    <3> QED  BY <3>1, <3>2
  <2>7. ack \in Message
    BY <1>1, <2>2, <2>6, MessageFacts DEF Message
  <2>8. m.live => Sound(ack, up', claimed')
    <3>1. From(ack) = n
      BY <1>1 DEF From, To
    <3>2. m.live => up[m.prober]
      BY <1>1 DEF Sound
    <3> QED  BY <1>2, <2>4, <2>6, <3>1, <3>2 DEF Sound
  <2>9. IsFiniteSet(others)
    BY Types, FS_Subset
  <2> HIDE DEF ack
  <2>10. IsFiniteSet(net') /\ net' \subseteq Message
    <3>1. IsFiniteSet(others \cup {ack})
      BY <2>9, FS_AddElement
    <3>2. net' = others \/ net' = others \cup {ack}
      BY <2>5 DEF ack
    <3> QED  BY <2>7, <2>9, <3>1, <3>2, Types
  <2>11. TypeOK'
    BY <1>2, <1>4, <2>3, <2>10, Types DEF TypeOK
  <2>12. ASSUME NEW x \in others PROVE Sound(x, up', claimed')
    BY <1>2, <2>3, InvMessages, SoundKept
  <2>13. \A x \in net' : Sound(x, up', claimed')
    BY <2>5, <2>8, <2>12 DEF ack
  <2> QED  BY <2>3, <2>11, <2>13, InvFromParts
<1> QED  BY <1>3, <1>4 DEF HandlePing

\* What an ack does to the table of the prober.
LEMMA AckFacts ==
  ASSUME Inv, NEW m \in net, m.type = "Ack", NEW n, n = To(m), NEW t,
         t = AssociateTarget(ObserveAlive(Merge(n, members[n], m.batch), From(m), m.inc),
                             From(m), m.addr)
  PROVE  /\ n \in Node /\ From(m) \in Node /\ up[n]
         /\ t \in [Node -> MemberRecord] /\ t[n].inc \in Incarnation
         /\ \A k \in Node :
              /\ t[k].inc >= members[n][k].inc
              /\ k # n => t[k].inc \in claimed[k] \cup {0}
              /\ /\ t[k].inc = members[n][k].inc
                 /\ members[n][k].status \in {"suspect", "dead"}
                 /\ t[k].status = "alive"
                 => k = From(m) /\ m.inc = t[k].inc
<1> DEFINE u == ObserveAlive(Merge(n, members[n], m.batch), From(m), m.inc)
<1>1. /\ m \in Message /\ Sound(m, up, claimed)
      /\ n \in Node /\ From(m) \in Node /\ m.prober = n /\ m.addr \in Addr
      /\ m.inc \in claimed[From(m)] /\ m.batch \in Batch
      /\ \A k \in DOMAIN m.batch : m.batch[k].inc \in claimed[k]
  BY InvMessages, MessageFacts DEF Sound, To
<1>2. up[n] /\ members[n][n].inc \in Incarnation
  BY <1>1 DEF Sound, Inv, ProcessKnows
<1>3. /\ u \in [Node -> MemberRecord]
      /\ members[n][n].inc \in Incarnation => u[n].inc \in Incarnation
      /\ \A k \in Node :
           /\ u[k].inc >= members[n][k].inc
           /\ k # n => u[k].inc \in claimed[k] \cup {0}
           /\ /\ u[k].inc = members[n][k].inc
              /\ members[n][k].status \in {"suspect", "dead"}
              /\ u[k].status = "alive"
              => k = From(m) /\ m.inc = u[k].inc
  BY <1>1, HeardFacts
<1> HIDE DEF u
<1>4. /\ t \in [Node -> MemberRecord]
      /\ \A k \in Node : t[k].inc = u[k].inc /\ t[k].status = u[k].status
  BY <1>1, <1>3, AssociateFacts DEF u
<1> QED  BY <1>1, <1>2, <1>3, <1>4

\* A probe that is answered keeps the invariant.
LEMMA AckInv ==
  ASSUME Inv, NEW m \in net, HandleAck(m)
  PROVE  Inv'
<1> DEFINE n == To(m)
           t == AssociateTarget(ObserveAlive(Merge(n, members[n], m.batch), From(m), m.inc),
                                From(m), m.addr)
           Q == OfProbe(n, m.loop)
<1>1. /\ n \in Node /\ up[n] /\ t \in [Node -> MemberRecord] /\ t[n].inc \in Incarnation
      /\ \A k \in Node : k # n => t[k].inc \in claimed[k] \cup {0}
  BY AckFacts DEF HandleAck
<1>2. /\ members' = [members EXCEPT ![n] = t]
      /\ claimed' = [claimed EXCEPT ![n] = @ \cup {t[n].inc}]
      /\ net' = Closed(Q) \ {m}
      /\ loops' = [loops EXCEPT ![n].probe[m.loop] = NoAddr]
      /\ up' = up /\ healed' = healed /\ crashes' = crashes
  BY DEF HandleAck
<1> HIDE DEF t, Q
<1>3. /\ members' \in [Node -> [Node -> MemberRecord]]
      /\ claimed' \in [Node -> SUBSET Incarnation]
      /\ \A k \in Node : claimed[k] \subseteq claimed'[k]
      /\ ProcessKnows'
      /\ \A j, k \in Node : members'[j][k].inc \in claimed'[k] \cup {0}
  BY <1>1, <1>2, TableStep
<1>4. /\ Closed(Q) \subseteq Message /\ IsFiniteSet(Closed(Q))
      /\ Cardinality(Closed(Q)) <= Cardinality(net)
      /\ \A x \in Closed(Q) : Sound(x, up, claimed)
  <2>1. \A y \in net : y.live /\ y \notin Q => up[y.prober]
    BY DEF Inv, SocketsOpen
  <2>2. /\ Closed(Q) \subseteq Message /\ IsFiniteSet(Closed(Q))
        /\ Cardinality(Closed(Q)) <= Cardinality(net)
    BY ClosedFacts DEF Inv
  <2> QED  BY <2>1, <2>2, ClosedSound
<1>5. net' \subseteq Message /\ IsFiniteSet(net') /\ Cardinality(net') <= MaxLoad
  <2>1. net' \in SUBSET Closed(Q)
    BY <1>2
  <2>2. IsFiniteSet(net') /\ Cardinality(net') <= Cardinality(Closed(Q))
    BY <1>4, <2>1, FS_Subset
  <2> QED  BY <1>4, <2>1, <2>2, Types, FS_CardinalityType
<1>6. loops' \in [Node -> LoopState]
  <2>1. m.loop \in Loop
    BY InvMessages, MessageFacts
  <2> QED  BY <1>1, <1>2, <2>1, LoopTypes
<1>7. TypeOK'
  BY <1>2, <1>3, <1>5, <1>6, Types DEF TypeOK
<1>8. \A x \in net' : Sound(x, up', claimed')
  BY <1>2, <1>3, <1>4, SoundKept
<1> QED  BY <1>3, <1>7, <1>8, InvFromParts

\* So does a ping that is sent.
LEMMA SendPingInv ==
  ASSUME Inv, NEW n \in Node, NEW l \in Loop, SendPing(n, l)
  PROVE  Inv'
<1>1. /\ up[n] /\ Cardinality(net) < MaxLoad
      /\ UNCHANGED <<up, members, healed, crashes, claimed>>
  BY DEF SendPing
<1>2. PICK a \in loops[n].todo[l], batch \in Disseminated(n, members[n]) :
        /\ loops' = [loops EXCEPT ![n].todo[l] = @ \ {a}, ![n].probe[l] = a]
        /\ net' = net \cup {[type |-> "Ping", prober |-> n, loop |-> l, addr |-> a,
                             live |-> TRUE, inc |-> members[n][n].inc,
                             batch |-> batch]}
  BY DEF SendPing
<1> DEFINE ping == [type |-> "Ping", prober |-> n, loop |-> l, addr |-> a, live |-> TRUE,
                    inc |-> members[n][n].inc, batch |-> batch]
           T == loops[n].todo[l] \ {a}
<1>3. a \in Addr /\ T \in SUBSET Addr
  BY LoopTypes, Types DEF LoopState
<1>4. loops' \in [Node -> LoopState]
  <2>1. loops' = [loops EXCEPT ![n].todo[l] = T, ![n].probe[l] = a]
    BY <1>2
  <2> HIDE DEF T
  <2> QED  BY <1>3, <2>1, LoopTypes
<1>5. members[n][n].inc \in Incarnation /\ members[n][n].inc \in claimed[n]
  BY <1>1 DEF Inv, ProcessKnows, IncarnationsOwned, Incarnation
<1>6. batch \in Batch /\ \A k \in DOMAIN batch : batch[k].inc \in claimed[k]
  <2>1. /\ batch \in Batch
        /\ \A k \in DOMAIN batch :
             k \in Node /\ batch[k].inc = members[n][k].inc /\ members[n][k].inc > 0
    BY DisseminatedFacts, Types
  <2> QED  BY <2>1 DEF Inv, IncarnationsOwned
<1>7. ping \in Message
  BY <1>3, <1>5, <1>6 DEF Message
<1>8. Sound(ping, up', claimed')
  <2>1. From(ping) = n
    BY DEF From
  <2> QED  BY <1>1, <1>5, <1>6, <2>1 DEF Sound
<1> HIDE DEF ping, T
<1>9. net' = net \cup {ping}
  BY <1>2 DEF ping
<1>10. net' \subseteq Message /\ IsFiniteSet(net') /\ Cardinality(net') <= MaxLoad
  <2>1. IsFiniteSet(net') /\ (Cardinality(net') = Cardinality(net)
                              \/ Cardinality(net') = Cardinality(net) + 1)
    BY <1>9, Types, FS_AddElement
  <2> QED  BY <1>1, <1>7, <1>9, <2>1, Types
<1>11. TypeOK'
  BY <1>1, <1>4, <1>10, Types DEF TypeOK
<1>12. \A x \in net' : Sound(x, up', claimed')
  BY <1>1, <1>8, <1>9, InvMessages
<1> QED  BY <1>1, <1>11, <1>12, InvFromParts
         DEF Inv, ProcessKnows, IncarnationsOwned, Unknown, Incarnation

\* Steps that touch neither the network nor the processes.
LEMMA QuietStep ==
  ASSUME Inv, NEW n \in Node, NEW t \in [Node -> MemberRecord],
         \A k \in Node : t[k].inc = members[n][k].inc,
         ~up[n] => t = members[n],
         members' = [members EXCEPT ![n] = t], loops' \in [Node -> LoopState],
         net' = net, up' = up, healed' = healed, crashes' = crashes, claimed' = claimed
  PROVE  Inv'
<1>1. /\ up[n] => t[n].inc \in Incarnation
      /\ \A k \in Node : k # n => t[k].inc \in claimed[k] \cup {0}
  BY DEF Inv, ProcessKnows, IncarnationsOwned
<1>2. /\ members' \in [Node -> [Node -> MemberRecord]]
      /\ ProcessKnows'
      /\ \A j, k \in Node : members'[j][k].inc \in claimed'[k] \cup {0}
  BY <1>1, TableStep
<1>3. TypeOK'
  BY <1>2, Types DEF TypeOK
<1> QED  BY <1>2, <1>3, InvMessages, InvFromParts

\* The rounds of the gossip loop.
LEMMA RoundInv ==
  ASSUME Inv, NEW n \in Node, StartRound(n) \/ SlowRound(n) \/ EndRound(n)
  PROVE  Inv'
<1>1. members[n] \in [Node -> MemberRecord] /\ loops \in [Node -> LoopState]
      /\ "gossip" \in Loop
  BY Types DEF Loop
<1>2. /\ Older(n, members[n]) \in [Node -> MemberRecord]
      /\ \A k \in Node : Older(n, members[n])[k].inc = members[n][k].inc
  BY <1>1, OlderFacts
<1>3. /\ ApplyTimeouts(n, members[n]) \in [Node -> MemberRecord]
      /\ \A k \in Node : ApplyTimeouts(n, members[n])[k].inc = members[n][k].inc
  BY <1>1, TimeoutFacts
<1>4. CASE StartRound(n)
  <2>1. /\ up[n] /\ members' = [members EXCEPT ![n] = Older(n, members[n])]
        /\ net' = net /\ up' = up /\ healed' = healed /\ crashes' = crashes
        /\ claimed' = claimed
    BY <1>4, Types DEF StartRound
  <2>2. loops' \in [Node -> LoopState]
    <3>1. PICK P \in samplePeers(n) :
            loops' = [loops EXCEPT ![n].round = TRUE, ![n].todo["gossip"] = P]
      BY <1>4 DEF StartRound
    <3>2. P \in SUBSET Addr
      BY SampledAddresses
    <3> QED  BY <1>1, <3>1, <3>2, LoopTypes
  <2> QED  BY <1>2, <2>1, <2>2, QuietStep
<1>5. CASE SlowRound(n)
  <2>1. /\ up[n] /\ members' = [members EXCEPT ![n] = Older(n, members[n])]
        /\ net' = net /\ up' = up /\ healed' = healed /\ crashes' = crashes
        /\ claimed' = claimed /\ loops' = loops
    BY <1>5, Types DEF SlowRound
  <2> QED  BY <1>1, <1>2, <2>1, QuietStep
<1>6. CASE EndRound(n)
  <2>1. /\ up[n] /\ members' = [members EXCEPT ![n] = ApplyTimeouts(n, members[n])]
        /\ net' = net /\ up' = up /\ healed' = healed /\ crashes' = crashes
        /\ claimed' = claimed /\ loops' = [loops EXCEPT ![n].round = FALSE]
    BY <1>6, Types DEF EndRound
  <2>2. loops' \in [Node -> LoopState]
    BY <1>1, <2>1, LoopTypes
  <2> QED  BY <1>3, <2>1, <2>2, QuietStep
<1> QED  BY <1>4, <1>5, <1>6

\* A probe without an answer: the member that is charged, if there is one, keeps
\* its incarnation, and the ping that is still out there loses its socket.
LEMMA ProbeFailsFacts ==
  ASSUME Inv, NEW n \in Node, NEW l \in Loop, ProbeFails(n, l)
  PROVE  \E t \in [Node -> MemberRecord] :
           /\ members' = [members EXCEPT ![n] = t]
           /\ ~up[n] => t = members[n]
           /\ \A k \in Node :
                /\ t[k].inc = members[n][k].inc
                /\ members[n][k].status # "alive" => t[k].status # "alive"
<1> DEFINE a == loops[n].probe[l]
           t == MarkMissedByEndpoint(members[n], a)
<1>1. a \in Addr /\ members[n] \in [Node -> MemberRecord]
      /\ members \in [Node -> [Node -> MemberRecord]]
  BY Types, LoopTypes DEF ProbeFails
<1>2. CASE members' = members
  <2>1. members' = [members EXCEPT ![n] = members[n]]
    BY <1>1, <1>2
  <2> QED  BY <1>1, <2>1
<1>3. CASE members' = [members EXCEPT ![n] = MarkMissedByEndpoint(@, a)]
  <2>1. /\ t \in [Node -> MemberRecord]
        /\ \A k \in Node :
             /\ t[k].inc = members[n][k].inc
             /\ members[n][k].status # "alive" => t[k].status # "alive"
    BY <1>1, MissedFacts
  <2>2. ~up[n] => t = members[n]
    <3>1. ~up[n] => members[n][Owner[a]].targets = {}
      BY <1>1, Limits DEF Inv, ProcessKnows, Unknown
    <3> QED  BY <3>1 DEF MarkMissedByEndpoint
  <2>3. members' = [members EXCEPT ![n] = t]
    BY <1>1, <1>3
  <2> HIDE DEF t
  <2> QED  BY <2>1, <2>2, <2>3
<1> QED  BY <1>2, <1>3 DEF ProbeFails

LEMMA ProbeFailsInv ==
  ASSUME Inv, NEW n \in Node, NEW l \in Loop, ProbeFails(n, l)
  PROVE  Inv'
<1> DEFINE Q == OfProbe(n, l)
<1>1. PICK t \in [Node -> MemberRecord] :
        /\ members' = [members EXCEPT ![n] = t]
        /\ ~up[n] => t = members[n]
        /\ \A k \in Node : t[k].inc = members[n][k].inc
  BY ProbeFailsFacts
<1>2. /\ net' = Closed(Q) /\ up' = up /\ healed' = healed /\ crashes' = crashes
      /\ claimed' = claimed
  BY DEF ProbeFails
<1> HIDE DEF Q
<1>3. /\ up[n] => t[n].inc \in Incarnation
      /\ \A k \in Node : k # n => t[k].inc \in claimed[k] \cup {0}
  BY <1>1 DEF Inv, ProcessKnows, IncarnationsOwned
<1>4. /\ members' \in [Node -> [Node -> MemberRecord]]
      /\ ProcessKnows'
      /\ \A j, k \in Node : members'[j][k].inc \in claimed'[k] \cup {0}
  BY <1>1, <1>2, <1>3, TableStep
<1>5. loops' \in [Node -> LoopState]
  <2>1. CASE loops' = [loops EXCEPT ![n].probe[l] = NoAddr]
    BY <2>1, LoopTypes
  <2>2. CASE \E again \in {{}, {loops[n].probe[l]}} :
               loops' = [loops EXCEPT ![n].probe[l] = NoAddr,
                                      ![n].todo[l] = @ \cup again]
    <3>1. PICK again \in {{}, {loops[n].probe[l]}} :
               loops' = [loops EXCEPT ![n].probe[l] = NoAddr,
                                      ![n].todo[l] = @ \cup again]
      BY <2>2
    <3> DEFINE P == loops[n].todo[l] \cup again
    <3>2. P \in SUBSET Addr
      <4>1. loops[n].todo[l] \in SUBSET Addr /\ loops[n].probe[l] \in Addr \cup {NoAddr}
        BY Types DEF LoopState
      <4>2. loops[n].probe[l] # NoAddr
        BY DEF ProbeFails
      <4> QED  BY <4>1, <4>2
    <3>3. loops' = [loops EXCEPT ![n].probe[l] = NoAddr, ![n].todo[l] = P]
      BY <3>1, Types DEF LoopState
    <3> HIDE DEF P
    <3> QED  BY <3>2, <3>3, LoopTypes
  <2> QED  BY <2>1, <2>2 DEF ProbeFails
<1>6. \A y \in net : y.live /\ y \notin Q => up[y.prober]
  BY DEF Inv, SocketsOpen
<1>7. /\ net' \subseteq Message /\ IsFiniteSet(net')
      /\ Cardinality(net') <= Cardinality(net)
  BY <1>2, ClosedFacts DEF Inv
<1>8. Cardinality(net') <= MaxLoad
  BY <1>7, Types, FS_CardinalityType
<1>9. \A x \in net' : Sound(x, up', claimed')
  BY <1>2, <1>6, ClosedSound
<1>10. TypeOK'
  BY <1>2, <1>4, <1>5, <1>7, <1>8, Types DEF TypeOK
<1> QED  BY <1>4, <1>9, <1>10, InvFromParts

\* A crash takes the process, what it knew and its sockets; what it claimed
\* stays on record.
LEMMA CrashInv ==
  ASSUME Inv, NEW n \in Node, Crash(n)
  PROVE  Inv'
<1> DEFINE Q == {m \in net : m.prober = n}
           t == [m \in Node |-> Unknown]
<1>1. /\ up' = [up EXCEPT ![n] = FALSE] /\ members' = [members EXCEPT ![n] = t]
      /\ loops' = [loops EXCEPT ![n] = Started(n)] /\ net' = Closed(Q)
      /\ healed' = healed /\ claimed' = claimed
      /\ crashes' = crashes + 1 /\ crashes < MaxCrashes
  BY DEF Crash
<1>2. t \in [Node -> MemberRecord] /\ \A k \in Node : t[k].inc = 0
  BY UnknownType DEF Unknown
<1>3. /\ members' \in [Node -> [Node -> MemberRecord]] /\ members'[n] = t
      /\ \A k \in Node : k # n => members'[k] = members[k] /\ up'[k] = up[k]
      /\ up' \in [Node -> BOOLEAN] /\ up'[n] = FALSE
      /\ loops' \in [Node -> LoopState] /\ crashes' \in 0..MaxCrashes
  BY <1>1, <1>2, Types, StartedType
<1>4. ProcessKnows'
  <2> SUFFICES ASSUME NEW k \in Node
               PROVE  IF up'[k] THEN members'[k][k].inc \in Incarnation
                      ELSE members'[k] = [m \in Node |-> Unknown]
    BY DEF ProcessKnows, Incarnation, Unknown
  <2>1. IF up[k] THEN members[k][k].inc \in Incarnation
        ELSE members[k] = [m \in Node |-> Unknown]
    BY DEF Inv, ProcessKnows
  <2> QED  BY <1>3, <2>1
<1>5. \A j, k \in Node : members'[j][k].inc \in claimed'[k] \cup {0}
  <2>1. \A j, k \in Node : members[j][k].inc \in claimed[k] \cup {0}
    BY DEF Inv, IncarnationsOwned
  <2> HIDE DEF t
  <2> QED  BY <1>1, <1>2, <1>3, <2>1
<1>6. \A y \in net : y.live /\ y \notin Q => up'[y.prober]
  BY <1>3, InvMessages, MessageFacts DEF Inv, SocketsOpen
<1> HIDE DEF Q
<1>7. /\ net' \subseteq Message /\ IsFiniteSet(net')
      /\ Cardinality(net') <= Cardinality(net)
  BY <1>1, ClosedFacts DEF Inv
<1>8. Cardinality(net') <= MaxLoad
  BY <1>7, Types, FS_CardinalityType
<1>9. \A x \in net' : Sound(x, up', claimed')
  BY <1>1, <1>6, ClosedSound
<1>10. TypeOK'
  BY <1>1, <1>3, <1>7, <1>8, Types DEF TypeOK
<1> QED  BY <1>4, <1>5, <1>9, <1>10, InvFromParts

\* A new process claims its incarnation, whether or not the clock stepped back.
LEMMA RestartInv ==
  ASSUME Inv, NEW n \in Node, Restart(n)
  PROVE  Inv'
<1>1. PICK i \in 1..MaxUint64 : /\ members' = [members EXCEPT ![n] = NewTable(n, i)]
                                /\ claimed' = [claimed EXCEPT ![n] = @ \cup {i}]
  BY DEF Restart
<1>2. /\ up' = [up EXCEPT ![n] = TRUE] /\ loops' = loops /\ net' = net
      /\ healed' = healed /\ crashes' = crashes
  BY DEF Restart
<1>3. /\ NewTable(n, i) \in [Node -> MemberRecord] /\ NewTable(n, i)[n].inc = i
      /\ \A m \in Node : m # n => NewTable(n, i)[m].inc = 0
      /\ i \in Incarnation
  BY NewTableType DEF Incarnation, Unknown
<1>4. /\ members' \in [Node -> [Node -> MemberRecord]] /\ members'[n] = NewTable(n, i)
      /\ \A k \in Node : k # n => members'[k] = members[k]
      /\ claimed' \in [Node -> SUBSET Incarnation] /\ i \in claimed'[n]
      /\ \A k \in Node : claimed[k] \subseteq claimed'[k]
      /\ up' \in [Node -> BOOLEAN] /\ \A k \in Node : k # n => up'[k] = up[k]
      /\ up'[n] = TRUE
  BY <1>1, <1>2, <1>3, Types
<1>5. ProcessKnows'
  <2> SUFFICES ASSUME NEW k \in Node
               PROVE  IF up'[k] THEN members'[k][k].inc \in Incarnation
                      ELSE members'[k] = [m \in Node |-> Unknown]
    BY DEF ProcessKnows, Incarnation, Unknown
  <2>1. IF up[k] THEN members[k][k].inc \in Incarnation
        ELSE members[k] = [m \in Node |-> Unknown]
    BY DEF Inv, ProcessKnows
  <2> QED  BY <1>3, <1>4, <2>1
<1>6. \A j, k \in Node : members'[j][k].inc \in claimed'[k] \cup {0}
  <2>1. \A j, k \in Node : members[j][k].inc \in claimed[k] \cup {0}
    BY DEF Inv, IncarnationsOwned
  <2> QED  BY <1>3, <1>4, <2>1
<1>7. \A x \in net' : Sound(x, up', claimed')
  <2>1. \A k \in Node : up[k] => up'[k]
    BY <1>4
  <2> QED  BY <1>2, <1>4, <2>1, InvMessages, SoundKept
<1>8. TypeOK'
  BY <1>2, <1>4, Types DEF TypeOK
<1> QED  BY <1>5, <1>6, <1>7, <1>8, InvFromParts

\* A network that loses messages, or heals.
LEMMA NetworkInv ==
  ASSUME Inv, (\E m \in net : Lose(m)) \/ Heal
  PROVE  Inv'
<1>1. UNCHANGED <<up, members, loops, crashes, claimed>> /\ net' \in SUBSET net
      /\ healed' \in BOOLEAN
  BY Types DEF Lose, Heal
<1>2. TypeOK'
  BY <1>1, FewerMessages, Types DEF TypeOK
<1>3. \A x \in net' : Sound(x, up', claimed')
  BY <1>1, InvMessages
<1> QED  BY <1>1, <1>2, <1>3, InvFromParts
         DEF Inv, ProcessKnows, IncarnationsOwned, Unknown, Incarnation

-----------------------------------------------------------------------------
(* The invariant *)

LEMMA InvInit == Init => Inv
<1> SUFFICES ASSUME Init PROVE Inv
  OBVIOUS
<1>1. 1 \in Incarnation
  BY Limits DEF Incarnation
<1>2. ASSUME NEW n \in Node
      PROVE  /\ NewTable(n, 1) \in [Node -> MemberRecord] /\ NewTable(n, 1)[n].inc = 1
             /\ \A m \in Node : m # n => NewTable(n, 1)[m].inc = 0
  BY <1>1, NewTableType DEF Unknown
<1>3. ASSUME NEW n \in Node PROVE Started(n) \in LoopState
  BY StartedType
<1>4. /\ up \in [Node -> BOOLEAN] /\ members \in [Node -> [Node -> MemberRecord]]
      /\ loops \in [Node -> LoopState] /\ net = {} /\ healed \in BOOLEAN
      /\ crashes = 0 /\ claimed \in [Node -> SUBSET Incarnation]
  BY <1>1, <1>2, <1>3 DEF Init
<1>5. TypeOK
  BY <1>4, FS_EmptySet, MembershipAssumption DEF TypeOK
<1>6. ProcessKnows
  BY <1>1, <1>2 DEF Init, ProcessKnows
<1>7. IncarnationsOwned
  BY <1>2, <1>4 DEF Init, IncarnationsOwned
<1> QED  BY <1>4, <1>5, <1>6, <1>7 DEF Inv, SocketsOpen, SendersOwn

\* Every step of the system, a network that heals included, keeps the invariant.
LEMMA InvStep ==
  ASSUME Inv, [Next \/ Heal]_vars
  PROVE  Inv'
<1>1. CASE UNCHANGED vars
  BY <1>1 DEF vars, Inv, TypeOK, ProcessKnows, SocketsOpen, IncarnationsOwned, SendersOwn,
              From, Unknown, Incarnation
<1>2. CASE Heal
  BY <1>2, NetworkInv
<1>3. ASSUME NEW n \in Node, NodeStep(n) PROVE Inv'
  <2>1. "gossip" \in Loop /\ "join" \in Loop
    BY DEF Loop
  <2>2. CASE StartRound(n) \/ SlowRound(n) \/ EndRound(n)
    BY <2>2, RoundInv
  <2>3. CASE \E l \in Loop : SendPing(n, l)
    BY <2>3, SendPingInv
  <2>4. CASE \E l \in Loop : ProbeFails(n, l)
    BY <2>4, ProbeFailsInv
  <2>5. CASE Crash(n)
    BY <2>5, CrashInv
  <2>6. CASE Restart(n)
    BY <2>6, RestartInv
  <2> QED  BY <1>3, <2>1, <2>2, <2>3, <2>4, <2>5, <2>6 DEF NodeStep, GossipLoop, JoinSeeds
<1>4. ASSUME NEW m \in net, Handle(m) PROVE Inv'
  BY <1>4, PingInv, AckInv DEF Handle
<1>5. CASE \E m \in net : Lose(m)
  BY <1>5, NetworkInv
<1> QED  BY <1>1, <1>2, <1>3, <1>4, <1>5 DEF Next

LEMMA Invariance == Spec \/ LiveSpec => []Inv
<1>1. Init => Inv
  BY InvInit
<1>2. Inv /\ [Next]_vars => Inv'
  BY InvStep
<1>3. Inv /\ [Next \/ Heal]_vars => Inv'
  BY InvStep
<1> QED  BY <1>1, <1>2, <1>3, PTL DEF Spec, LiveSpec

-----------------------------------------------------------------------------
(* Results *)

\* Every variable of the membership keeps its type: tables, loops and messages,
\* with no incarnation above the largest, no table entry without a running
\* process behind it on the wire and never more messages than the bound.
THEOREM TypeCorrect == Spec \/ LiveSpec => []TypeOK
<1>1. Inv => TypeOK
  BY DEF Inv
<1> QED  BY <1>1, Invariance, PTL

\* Every incarnation in a table or in flight was given to the node it is about by
\* that node itself (NewTable, or Merge at the accused), for any number of nodes
\* and whatever the clocks do.
THEOREM OnlyOwnersClaim == Spec \/ LiveSpec => []IncarnationsOwned
<1>1. Inv => IncarnationsOwned
  BY DEF Inv
<1> QED  BY <1>1, Invariance, PTL

\* What one step does to the tables: a process that runs on knows no lower
\* incarnation than before, and only a ping or an ack of the member itself at
\* that incarnation clears a suspicion.
LEMMA TableSteps ==
  ASSUME Inv, [Next \/ Heal]_vars, NEW n \in Node, NEW m \in Node
  PROVE  /\ up[n] /\ up'[n] => members'[n][m].inc >= members[n][m].inc
         /\ /\ members[n][m].status \in {"suspect", "dead"}
            /\ members'[n][m].status = "alive"
            /\ members'[n][m].inc = members[n][m].inc
            => \E x \in net : /\ From(x) = m /\ To(x) = n
                              /\ x.inc = members[n][m].inc
                              /\ Handle(x)
<1> DEFINE Goal == /\ up[n] /\ up'[n] => members'[n][m].inc >= members[n][m].inc
                   /\ /\ members[n][m].status \in {"suspect", "dead"}
                      /\ members'[n][m].status = "alive"
                      /\ members'[n][m].inc = members[n][m].inc
                      => \E x \in net : /\ From(x) = m /\ To(x) = n
                                        /\ x.inc = members[n][m].inc
                                        /\ Handle(x)
<1>1. /\ members \in [Node -> [Node -> MemberRecord]]
      /\ \A j, k \in Node : members[j][k].inc \in Nat
  <2>1. \A r \in MemberRecord : r.inc \in 0..MaxUint64
    BY DEF MemberRecord
  <2> QED  BY <2>1, Types, Limits
\* A table that is the same, or of which only one node's changed without a change
\* of an incarnation or a status cleared.
<1>2. ASSUME NEW k \in Node, NEW t \in [Node -> MemberRecord],
             members' = [members EXCEPT ![k] = t],
             \A j \in Node : /\ t[j].inc = members[k][j].inc
                             /\ members[k][j].status # "alive" => t[j].status # "alive"
      PROVE  Goal
  <2>1. CASE k = n
    <3>1. members'[n] = t
      BY <1>1, <1>2, <2>1
    <3> QED  BY <1>1, <1>2, <2>1, <3>1
  <2>2. CASE k # n
    <3>1. members'[n] = members[n]
      BY <1>1, <1>2, <2>2
    <3> QED  BY <1>1, <3>1
  <2> QED  BY <2>1, <2>2
<1>3. CASE members' = members
  BY <1>1, <1>3
<1>4. ASSUME NEW k \in Node, NodeStep(k) PROVE Goal
  <2>1. "gossip" \in Loop /\ "join" \in Loop /\ members[k] \in [Node -> MemberRecord]
    BY <1>1 DEF Loop
  <2>2. CASE StartRound(k) \/ SlowRound(k)
    <3>1. members' = [members EXCEPT ![k] = Older(k, members[k])]
      BY <1>1, <2>2 DEF StartRound, SlowRound
    <3>2. /\ Older(k, members[k]) \in [Node -> MemberRecord]
          /\ \A j \in Node : /\ Older(k, members[k])[j].inc = members[k][j].inc
                             /\ Older(k, members[k])[j].status = members[k][j].status
      BY <2>1, OlderFacts
    <3> HIDE DEF Goal
    <3> QED  BY <1>2, <3>1, <3>2
  <2>3. CASE EndRound(k)
    <3>1. members' = [members EXCEPT ![k] = ApplyTimeouts(k, members[k])]
      BY <1>1, <2>3 DEF EndRound
    <3>2. /\ ApplyTimeouts(k, members[k]) \in [Node -> MemberRecord]
          /\ \A j \in Node :
               /\ ApplyTimeouts(k, members[k])[j].inc = members[k][j].inc
               /\ members[k][j].status # "alive"
                  => ApplyTimeouts(k, members[k])[j].status # "alive"
      BY <2>1, TimeoutFacts
    <3> HIDE DEF Goal
    <3> QED  BY <1>2, <3>1, <3>2
  <2>4. ASSUME NEW l \in Loop, ProbeFails(k, l) PROVE Goal
    <3>1. PICK t \in [Node -> MemberRecord] :
            /\ members' = [members EXCEPT ![k] = t]
            /\ \A j \in Node :
                 /\ t[j].inc = members[k][j].inc
                 /\ members[k][j].status # "alive" => t[j].status # "alive"
      BY <2>4, ProbeFailsFacts
    <3> HIDE DEF Goal
    <3> QED  BY <1>2, <3>1
  <2>5. CASE \E l \in Loop : SendPing(k, l)
    BY <1>3, <2>5 DEF SendPing
  <2>6. CASE Crash(k)
    <3>1. CASE k = n
      <4>1. up'[n] = FALSE /\ members'[n] = [j \in Node |-> Unknown]
        BY <1>1, <2>6, <3>1, Types DEF Crash
      <4> QED  BY <4>1 DEF Unknown
    <3>2. CASE k # n
      <4>1. members'[n] = members[n]
        BY <1>1, <2>6, <3>2 DEF Crash
      <4> QED  BY <1>1, <4>1
    <3> QED  BY <3>1, <3>2
  <2>7. CASE Restart(k)
    <3>1. CASE k = n
      <4>1. ~up[n] /\ members[n] = [j \in Node |-> Unknown]
        BY <2>7, <3>1 DEF Restart, Inv, ProcessKnows
      <4> QED  BY <4>1 DEF Unknown
    <3>2. CASE k # n
      <4>1. members'[n] = members[n]
        BY <1>1, <2>7, <3>2 DEF Restart
      <4> QED  BY <1>1, <4>1
    <3> QED  BY <3>1, <3>2
  <2> HIDE DEF Goal
  <2> QED  BY <1>4, <2>1, <2>2, <2>3, <2>4, <2>5, <2>6, <2>7
           DEF NodeStep, GossipLoop, JoinSeeds
\* A handler: the table of the receiver becomes t.
<1>5. ASSUME NEW x \in net, Handle(x),
             NEW t \in [Node -> MemberRecord], To(x) \in Node,
             members' = [members EXCEPT ![To(x)] = t],
             \A k \in Node :
               /\ t[k].inc >= members[To(x)][k].inc
               /\ /\ t[k].inc = members[To(x)][k].inc
                  /\ members[To(x)][k].status \in {"suspect", "dead"}
                  /\ t[k].status = "alive"
                  => k = From(x) /\ x.inc = t[k].inc
      PROVE  Goal
  <2>1. CASE To(x) = n
    <3>1. members'[n] = t
      BY <1>1, <1>5, <2>1
    <3> QED  BY <1>1, <1>5, <2>1, <3>1
  <2>2. CASE To(x) # n
    <3>1. members'[n] = members[n]
      BY <1>1, <1>5, <2>2
    <3> QED  BY <1>1, <3>1
  <2> QED  BY <2>1, <2>2
<1>6. ASSUME NEW x \in net, HandlePing(x) PROVE Goal
  <2> DEFINE t == ObserveAlive(Merge(To(x), members[To(x)], x.batch), x.prober, x.inc)
  <2>1. /\ x \in Message /\ Sound(x, up, claimed) /\ x.type = "Ping"
        /\ To(x) \in Node /\ x.prober \in Node /\ From(x) = x.prober
        /\ x.inc \in claimed[x.prober] /\ x.batch \in Batch
        /\ \A k \in DOMAIN x.batch : x.batch[k].inc \in claimed[k]
    BY <1>6, InvMessages, MessageFacts DEF HandlePing, Sound, From
  <2>2. CASE members' = [members EXCEPT ![To(x)] = t]
    <3>1. /\ t \in [Node -> MemberRecord]
          /\ \A k \in Node :
               /\ t[k].inc >= members[To(x)][k].inc
               /\ /\ t[k].inc = members[To(x)][k].inc
                  /\ members[To(x)][k].status \in {"suspect", "dead"}
                  /\ t[k].status = "alive"
                  => k = From(x) /\ x.inc = t[k].inc
      BY <2>1, HeardFacts
    <3>2. Handle(x)
      BY <1>6 DEF Handle
    <3> HIDE DEF t, Goal
    <3> QED  BY <1>5, <2>1, <2>2, <3>1, <3>2
  <2>3. members' = members \/ members' = [members EXCEPT ![To(x)] = t]
    BY <1>6 DEF HandlePing
  <2> HIDE DEF t, Goal
  <2> QED  BY <1>3, <2>2, <2>3 DEF Goal
<1>7. ASSUME NEW x \in net, HandleAck(x) PROVE Goal
  <2> DEFINE t == AssociateTarget(
                    ObserveAlive(Merge(To(x), members[To(x)], x.batch), From(x), x.inc),
                    From(x), x.addr)
  <2>1. x.type = "Ack" /\ members' = [members EXCEPT ![To(x)] = t]
    BY <1>7 DEF HandleAck
  <2>2. /\ To(x) \in Node /\ t \in [Node -> MemberRecord]
        /\ \A k \in Node :
             /\ t[k].inc >= members[To(x)][k].inc
             /\ /\ t[k].inc = members[To(x)][k].inc
                /\ members[To(x)][k].status \in {"suspect", "dead"}
                /\ t[k].status = "alive"
                => k = From(x) /\ x.inc = t[k].inc
    BY <2>1, AckFacts
  <2>3. Handle(x)
    BY <1>7 DEF Handle
  <2> HIDE DEF t, Goal
  <2> QED  BY <1>5, <2>1, <2>2, <2>3
<1>8. CASE UNCHANGED vars
  BY <1>3, <1>8 DEF vars
<1>9. CASE (\E x \in net : Lose(x)) \/ Heal
  BY <1>3, <1>9 DEF Lose, Heal
<1> HIDE DEF Goal
<1> QED  BY <1>4, <1>6, <1>7, <1>8, <1>9 DEF Next, Handle, Goal

\* The incarnation a running process holds for a node, itself included, never
\* falls: Merge, ObserveAlive and the refutation only raise it, whichever old
\* message arrives.
THEOREM NeverForgets == Spec \/ LiveSpec => IncarnationsKept
<1>1. ASSUME Inv, [Next \/ Heal]_vars
      PROVE  \A n, m \in Node :
               up[n] /\ up'[n] => members'[n][m].inc >= members[n][m].inc
  BY <1>1, TableSteps
<1>2. Inv /\ [Next]_vars
      => [\A n, m \in Node :
            up[n] /\ up'[n] => members'[n][m].inc >= members[n][m].inc]_vars
  BY <1>1
<1>3. Inv /\ [Next \/ Heal]_vars
      => [\A n, m \in Node :
            up[n] /\ up'[n] => members'[n][m].inc >= members[n][m].inc]_vars
  BY <1>1
<1> QED  BY <1>2, <1>3, Invariance, PTL DEF Spec, LiveSpec, IncarnationsKept

\* A suspicion at an unchanged incarnation is cleared only by handling a message of
\* the suspected member itself, at that incarnation: neither Merge nor a timeout nor
\* a missed probe does it, in a cluster of any size.
THEOREM OnlyEvidenceClears == Spec \/ LiveSpec => HearsayNeverClears
<1>1. ASSUME Inv, [Next \/ Heal]_vars
      PROVE  \A n, m \in Node :
               /\ members[n][m].status \in {"suspect", "dead"}
               /\ members'[n][m].status = "alive"
               /\ members'[n][m].inc = members[n][m].inc
               => \E x \in net : /\ From(x) = m /\ To(x) = n
                                 /\ x.inc = members[n][m].inc
                                 /\ Handle(x)
  BY <1>1, TableSteps
<1> DEFINE A == \A n, m \in Node :
               /\ members[n][m].status \in {"suspect", "dead"}
               /\ members'[n][m].status = "alive"
               /\ members'[n][m].inc = members[n][m].inc
               => \E x \in net : /\ From(x) = m /\ To(x) = n
                                 /\ x.inc = members[n][m].inc
                                 /\ Handle(x)
<1>2. Inv /\ [Next]_vars => [A]_vars
  BY <1>1
<1>3. Inv /\ [Next \/ Heal]_vars => [A]_vars
  BY <1>1
<1> QED  BY <1>2, <1>3, Invariance, PTL DEF Spec, LiveSpec, HearsayNeverClears

=============================================================================
