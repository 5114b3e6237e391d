-------------------------- MODULE AssetServiceProofs --------------------------
(***************************************************************************)
(* The invariants of AssetService, for any number of consumer instances,   *)
(* partitions, assets, users and events, and for any number of duplicates, *)
(* failed statements, crashes and rebalances.                              *)
(***************************************************************************)
EXTENDS AssetService, FiniteSetTheorems, TLAPS

-------------------------------------------------------------------------------
(***************************************************************************)
(* The inductive invariants                                                *)
(***************************************************************************)
FaultCount == [dedup : Nat, change : Nat, ack : Nat, crash : Nat, rebalance : Nat]

Shape ==
  /\ DOMAIN ledger \subseteq Asset
  /\ ledger \in [DOMAIN ledger -> LedgerRow]
  /\ dedup \subseteq RequestOf
  /\ refused \subseteq RequestOf
  /\ topic \in [Partition -> Seq(Event)]
  /\ \A p \in Partition : Len(topic[p]) <= MaxTopic
  /\ owner \in [Partition -> Consumer]
  /\ position \in [Partition -> Nat]
  /\ committed \in [Partition -> Nat]
  /\ \A p \in Partition :
       committed[p] \in 0 .. Len(topic[p]) /\ position[p] \in 1 .. Len(topic[p]) + 1
  /\ worker \in [Consumer -> WorkerState]
  /\ \A c \in Consumer : worker[c] # Idle => worker[c].at <= Len(topic[worker[c].part])
  /\ session \in [User -> SessionState]
  /\ \A u \in User : session[u] # Idle => session[u].asset \in DOMAIN ledger
  /\ applied \in [Asset -> Seq(Event)]
  /\ takenOver \subseteq Asset
  /\ faults \in FaultCount

\* The request of the message an instance works on is in the dedup table from the
\* insert on; two instances that got past the insert have different requests; what
\* was applied is in the table, and is not about to be applied again.
Past(c) == worker[c].pc \in {"read", "write", "ack"}
Applying(c) == worker[c].pc \in {"read", "write"}

EffectOnce ==
  /\ \A c \in Consumer : Past(c) => Message(c).request \in dedup
  /\ \A c, d \in Consumer :
       Applying(c) /\ Applying(d) /\ Message(c).request = Message(d).request => c = d
  /\ \A a \in Asset : AppliedTo(a) \subseteq dedup
  /\ \A c \in Consumer, a \in Asset : Applying(c) => Message(c).request \notin AppliedTo(a)
  /\ AppliedAtMostOnce

OnceInv == Shape /\ EffectOnce

\* Messages that nobody will look at again although their dedup row is missing:
\* they are committed, behind the one an instance has in hand, or behind the next
\* one to fetch, unless the owner is about to insert that row.
Behind(p, n) ==
  \/ n <= committed[p]
  \/ \E c \in Consumer : worker[c] # Idle /\ worker[c].part = p /\ n < worker[c].at
  \/ /\ n < position[p]
     /\ ~(worker[owner[p]].pc = "dedup" /\ worker[owner[p]].part = p /\ worker[owner[p]].at = n)

Missed ==
  {pn \in Partition \X (1 .. MaxTopic) :
     /\ pn[2] \in DOMAIN topic[pn[1]]
     /\ topic[pn[1]][pn[2]].request \notin dedup
     /\ Behind(pn[1], pn[2])}

MissedInv == IsFiniteSet(Missed) /\ Cardinality(Missed) <= faults.dedup

\* What is recorded but neither applied, refused nor in hand.
ForgottenInv == IsFiniteSet(Forgotten) /\ Cardinality(Forgotten) <= faults.change + faults.crash

\* The row of an asset shows the last event applied to it, or how it started; only
\* assets with a row have events applied, each of its own.
UserBefore(a, i) ==
  IF i > 1 THEN applied[a][i - 1].user
  ELSE IF a \in DOMAIN Seed THEN Seed[a].user ELSE Nobody

LedgerInv ==
  /\ DOMAIN Seed \subseteq DOMAIN ledger
  /\ \A a \in Asset \ DOMAIN ledger : applied[a] = << >>
  /\ \A a \in Asset : \A i \in DOMAIN applied[a] : applied[a][i].asset = a
  /\ \A a \in DOMAIN ledger :
       /\ ledger[a].status = StatusBefore(a, Len(applied[a]) + 1)
       /\ ledger[a].user = UserBefore(a, Len(applied[a]) + 1)
  /\ \A c \in Consumer : worker[c].pc = "write" => Message(c).asset \in DOMAIN ledger

\* An instance that has in hand an event of an asset that was not taken over works on
\* its own partition, hence alone on an asset whose events are all in that partition,
\* and what it read of the status is still so when it writes.
OwnInv ==
  /\ \A p \in Partition : \A n \in DOMAIN topic[p] : PartitionOf[topic[p][n]] = p
  /\ \A c \in Consumer :
       InHand(c) /\ Message(c).asset \notin takenOver => owner[worker[c].part] = c

AllowedInv ==
  \A c \in Consumer :
    worker[c].pc = "write" /\ Message(c).asset \notin takenOver =>
      Message(c).target \in Allowed[ledger[Message(c).asset].status]

LegalInv == Shape /\ LedgerInv /\ OwnInv /\ AllowedInv /\ LegalUnlessTakenOver
-------------------------------------------------------------------------------
(***************************************************************************)
(* Facts about states and single steps                                     *)
(***************************************************************************)
LEMMA WorkerFacts ==
  ASSUME worker \in [Consumer -> WorkerState], NEW c \in Consumer
  PROVE  /\ worker[c] # Idle <=> worker[c].pc \in {"dedup", "read", "write", "ack"}
         /\ worker[c] # Idle =>
              /\ worker[c].part \in Partition
              /\ worker[c].at \in 1 .. MaxTopic
              /\ worker[c] = [pc |-> worker[c].pc, part |-> worker[c].part, at |-> worker[c].at]
<1>1. worker[c] \in WorkerState
  OBVIOUS
<1>. QED
  BY <1>1 DEF WorkerState, Idle

LEMMA MessageFacts ==
  ASSUME Shape, NEW c \in Consumer, worker[c] # Idle
  PROVE  /\ worker[c].part \in Partition
         /\ worker[c].at \in DOMAIN topic[worker[c].part]
         /\ Message(c) \in Event
         /\ Message(c).request \in RequestOf
         /\ Message(c).asset \in Asset
<1>. DEFINE p == worker[c].part
<1>1. p \in Partition /\ worker[c].at \in 1 .. MaxTopic /\ worker[c].at <= Len(topic[p])
  BY WorkerFacts DEF Shape
<1>2. topic[p] \in Seq(Event)
  BY <1>1 DEF Shape
<1>3. worker[c].at \in DOMAIN topic[p] /\ Message(c) \in Event
  BY <1>1, <1>2 DEF Message
<1>. QED
  BY <1>1, <1>3, EventAssumption DEF RequestOf

LEMMA WorkerToEffect ==
  ASSUME worker \in [Consumer -> WorkerState], NEW c \in Consumer, worker[c] # Idle,
         NEW pc \in {"dedup", "read", "write", "ack"}, WorkerTo(c, pc)
  PROVE  /\ worker' \in [Consumer -> WorkerState]
         /\ worker'[c].pc = pc
         /\ worker'[c].part = worker[c].part
         /\ worker'[c].at = worker[c].at
         /\ worker'[c] # Idle
         /\ \A d \in Consumer : d # c => worker'[d] = worker[d]
<1>. DEFINE new == [pc |-> pc, part |-> worker[c].part, at |-> worker[c].at]
<1>1. new \in WorkerState /\ new # Idle
  BY WorkerFacts DEF WorkerState, Idle
<1>2. worker' = [worker EXCEPT ![c] = new]
  <2>. DEFINE z == [worker[c] EXCEPT !.pc = pc]
  <2>1. worker' = [worker EXCEPT ![c] = z]
    BY DEF WorkerTo
  <2>2. worker[c] = [pc |-> worker[c].pc, part |-> worker[c].part, at |-> worker[c].at]
    BY WorkerFacts
  <2>3. z = new
    BY <2>2
  <2>. QED
    BY <2>1, <2>3
<1>3. new.pc = pc /\ new.part = worker[c].part /\ new.at = worker[c].at
  OBVIOUS
<1>. HIDE DEF new
<1>. QED
  BY <1>1, <1>2, <1>3

LEMMA ToIdleEffect ==
  ASSUME worker \in [Consumer -> WorkerState], NEW c \in Consumer,
         worker' = [worker EXCEPT ![c] = Idle]
  PROVE  /\ worker' \in [Consumer -> WorkerState]
         /\ worker'[c] = Idle
         /\ worker'[c].pc = "idle"
         /\ \A d \in Consumer : d # c => worker'[d] = worker[d]
BY DEF WorkerState, Idle

LEMMA FaultEffect ==
  ASSUME faults \in FaultCount, NEW kind \in {"dedup", "change", "ack", "crash", "rebalance"},
         Fault(kind)
  PROVE  /\ faults' \in FaultCount
         /\ faults'.dedup = IF kind = "dedup" THEN faults.dedup + 1 ELSE faults.dedup
         /\ faults'.change = IF kind = "change" THEN faults.change + 1 ELSE faults.change
         /\ faults'.crash = IF kind = "crash" THEN faults.crash + 1 ELSE faults.crash
<1>1. PICK i \in Nat, j \in Nat, k \in Nat, l \in Nat, m \in Nat :
        faults = [dedup |-> i, change |-> j, ack |-> k, crash |-> l, rebalance |-> m]
  BY DEF FaultCount
<1>2. CASE kind = "dedup"
  BY <1>1, <1>2 DEF Fault, FaultCount
<1>3. CASE kind = "change"
  BY <1>1, <1>3 DEF Fault, FaultCount
<1>4. CASE kind = "ack"
  BY <1>1, <1>4 DEF Fault, FaultCount
<1>5. CASE kind = "crash"
  BY <1>1, <1>5 DEF Fault, FaultCount
<1>6. CASE kind = "rebalance"
  BY <1>1, <1>6 DEF Fault, FaultCount
<1>. QED
  BY <1>2, <1>3, <1>4, <1>5, <1>6

LEMMA TopicFacts ==
  ASSUME Shape, NEW p \in Partition
  PROVE  /\ topic[p] \in Seq(Event)
         /\ Len(topic[p]) \in Nat
         /\ DOMAIN topic[p] = 1 .. Len(topic[p])
         /\ Len(topic[p]) <= MaxTopic
         /\ committed[p] \in Nat /\ committed[p] <= Len(topic[p])
         /\ position[p] \in Nat /\ 1 <= position[p] /\ position[p] <= Len(topic[p]) + 1
         /\ owner[p] \in Consumer
BY DEF Shape

LEMMA ArriveEffect ==
  ASSUME Shape, NEW ev \in Event, Arrive(ev)
  PROVE  /\ topic' \in [Partition -> Seq(Event)]
         /\ \A p \in Partition :
              /\ Len(topic'[p]) <= MaxTopic
              /\ Len(topic[p]) <= Len(topic'[p])
              /\ \A n \in DOMAIN topic[p] : n \in DOMAIN topic'[p] /\ topic'[p][n] = topic[p][n]
              /\ \A n \in DOMAIN topic'[p] : n \in DOMAIN topic[p] \/ n = Len(topic[p]) + 1
         /\ UNCHANGED <<ledger, session, applied, owner, position, committed, takenOver, faults,
                        dedup, worker, refused>>
<1>. DEFINE q == PartitionOf[ev]
<1>1. q \in Partition
  BY PartitionAssumption
<1>2. /\ topic' = [topic EXCEPT ![q] = Append(topic[q], ev)]
      /\ Len(topic[q]) < MaxTopic
      /\ UNCHANGED <<ledger, session, applied, owner, position, committed, takenOver, faults,
                     dedup, worker, refused>>
  BY DEF Arrive, apiVars, groupVars, offsets
<1>3. topic[q] \in Seq(Event) /\ topic \in [Partition -> Seq(Event)]
  BY <1>1 DEF Shape
<1>4. Append(topic[q], ev) \in Seq(Event)
  BY <1>3
<1>. HIDE DEF q
<1>5. /\ topic' \in [Partition -> Seq(Event)]
      /\ topic'[q] = Append(topic[q], ev)
      /\ \A p \in Partition : p # q => topic'[p] = topic[p]
  BY <1>1, <1>2, <1>3, <1>4
<1>6. /\ Len(topic'[q]) = Len(topic[q]) + 1
      /\ DOMAIN topic'[q] = DOMAIN topic[q] \cup {Len(topic[q]) + 1}
      /\ \A n \in DOMAIN topic[q] : topic'[q][n] = topic[q][n]
  BY <1>3, <1>5
<1>7. ASSUME NEW p \in Partition
      PROVE  /\ Len(topic'[p]) <= MaxTopic
             /\ Len(topic[p]) <= Len(topic'[p])
             /\ \A n \in DOMAIN topic[p] : n \in DOMAIN topic'[p] /\ topic'[p][n] = topic[p][n]
             /\ \A n \in DOMAIN topic'[p] : n \in DOMAIN topic[p] \/ n = Len(topic[p]) + 1
  <2>1. CASE p = q
    BY <1>2, <1>3, <1>6, <2>1, TopicFacts, BoundAssumption
  <2>2. CASE p # q
    BY <1>5, <2>2, TopicFacts
  <2>. QED
    BY <2>1, <2>2
<1>. QED
  BY <1>2, <1>5, <1>7

LEMMA FetchEffect ==
  ASSUME Shape, NEW c \in Consumer, NEW p \in Partition, Fetch(c, p)
  PROVE  /\ owner[p] = c /\ worker[c] = Idle /\ position[p] <= Len(topic[p])
         /\ worker' \in [Consumer -> WorkerState]
         /\ worker'[c].pc = "dedup" /\ worker'[c].part = p /\ worker'[c].at = position[p]
         /\ \A d \in Consumer : d # c => worker'[d] = worker[d]
         /\ position' \in [Partition -> Nat]
         /\ position'[p] = position[p] + 1
         /\ \A q \in Partition : q # p => position'[q] = position[q]
         /\ UNCHANGED <<ledger, session, applied, owner, committed, takenOver, faults, dedup, topic, refused>>
<1>. DEFINE new == [pc |-> "dedup", part |-> p, at |-> position[p]]
<1>1. position[p] <= Len(topic[p]) /\ position[p] \in 1 .. MaxTopic
  BY TopicFacts, BoundAssumption DEF Fetch
<1>2. new \in WorkerState /\ new.pc = "dedup" /\ new.part = p /\ new.at = position[p]
  BY <1>1 DEF WorkerState
<1>3. worker \in [Consumer -> WorkerState] /\ position \in [Partition -> Nat]
  BY DEF Shape
<1>4. worker' = [worker EXCEPT ![c] = new]
  BY DEF Fetch
<1>. HIDE DEF new
<1>5. /\ worker' \in [Consumer -> WorkerState]
      /\ worker'[c] = new
      /\ \A d \in Consumer : d # c => worker'[d] = worker[d]
  BY <1>2, <1>3, <1>4
<1>. QED
  BY <1>1, <1>2, <1>3, <1>5 DEF Fetch, apiVars

LEMMA RebalanceEffect ==
  ASSUME Shape, NEW p \in Partition, NEW c \in Consumer, Rebalance(p, c)
  PROVE  /\ owner' \in [Partition -> Consumer]
         /\ \A q \in Partition : q # p => owner'[q] = owner[q] /\ position'[q] = position[q]
         /\ position' \in [Partition -> Nat]
         /\ position'[p] = committed[p] + 1
         /\ faults' \in FaultCount /\ faults'.dedup = faults.dedup
         /\ faults'.change = faults.change /\ faults'.crash = faults.crash
         /\ takenOver \subseteq takenOver' /\ takenOver' \subseteq Asset
         /\ \A w \in Consumer : InHand(w) /\ worker[w].part = p => Message(w).asset \in takenOver'
         /\ UNCHANGED <<ledger, session, applied, committed, dedup, topic, worker, refused>>
<1>1. /\ owner \in [Partition -> Consumer] /\ position \in [Partition -> Nat]
      /\ committed[p] + 1 \in Nat /\ faults \in FaultCount
  BY TopicFacts DEF Shape
<1>2. /\ faults' \in FaultCount /\ faults'.dedup = faults.dedup
      /\ faults'.change = faults.change /\ faults'.crash = faults.crash
  BY <1>1, FaultEffect DEF Rebalance
<1>3. \A w \in Consumer : InHand(w) => Message(w).asset \in Asset
  <2>1. \A w \in Consumer : InHand(w) => worker[w] # Idle
    BY DEF InHand, Idle
  <2>. QED
    BY <2>1, MessageFacts
<1>4. /\ takenOver \subseteq takenOver' /\ takenOver' \subseteq Asset
      /\ \A w \in Consumer : InHand(w) /\ worker[w].part = p => Message(w).asset \in takenOver'
  BY <1>3 DEF Rebalance, Shape
<1>. QED
  BY <1>1, <1>2, <1>4 DEF Rebalance, apiVars

LEMMA CrashEffect ==
  ASSUME Shape, NEW c \in Consumer, Crash(c)
  PROVE  /\ worker' = [worker EXCEPT ![c] = Idle]
         /\ position' \in [Partition -> Nat]
         /\ \A p \in Partition :
              position'[p] = IF owner[p] = c THEN committed[p] + 1 ELSE position[p]
         /\ faults' \in FaultCount /\ faults'.dedup = faults.dedup
         /\ faults'.change = faults.change /\ faults'.crash = faults.crash + 1
         /\ UNCHANGED <<ledger, session, applied, owner, committed, takenOver, dedup, topic, refused>>
<1>1. /\ faults' \in FaultCount /\ faults'.dedup = faults.dedup
      /\ faults'.change = faults.change /\ faults'.crash = faults.crash + 1
  BY FaultEffect DEF Crash, Shape
<1>2. \A p \in Partition : committed[p] + 1 \in Nat /\ position[p] \in Nat
  BY TopicFacts
<1>. QED
  BY <1>1, <1>2 DEF Crash, apiVars

LEMMA AckEffect ==
  ASSUME Shape, NEW c \in Consumer, Ack(c)
  PROVE  /\ worker[c].pc = "ack" /\ worker[c] # Idle
         /\ worker' = [worker EXCEPT ![c] = Idle]
         /\ committed' \in [Partition -> Nat]
         /\ \A p \in Partition :
              committed'[p] = IF p = worker[c].part /\ owner[p] = c THEN worker[c].at
                              ELSE committed[p]
         /\ UNCHANGED <<ledger, session, applied, owner, position, takenOver, faults, dedup, topic, refused>>
<1>1. worker[c].pc = "ack" /\ worker[c] # Idle
  BY WorkerFacts DEF Ack, Shape
<1>2. worker[c].part \in Partition /\ worker[c].at \in Nat /\ committed \in [Partition -> Nat]
  BY <1>1, WorkerFacts, BoundAssumption DEF Shape
<1>. QED
  BY <1>1, <1>2 DEF Ack, apiVars

\* What asset-consumer and asset-api write is a ledger row again.
LEMMA ChangedRow ==
  ASSUME NEW row \in LedgerRow, NEW ev \in Event
  PROVE  /\ Changed(row, ev) \in LedgerRow
         /\ Changed(row, ev).status = ev.target
         /\ Changed(row, ev).user = ev.user
         /\ Changed(row, ev).dept = row.dept
         /\ Changed(row, ev).deleted = row.deleted
<1>1. row = [status |-> row.status, user |-> row.user, dept |-> row.dept, deleted |-> row.deleted]
  BY DEF LedgerRow
<1>2. PICK z : z = Changed(row, ev)
  OBVIOUS
<1>3. z = [row EXCEPT !.status = ev.target, !.user = ev.user]
  BY <1>2 DEF Changed
<1>4. z = [status |-> ev.target, user |-> ev.user, dept |-> row.dept, deleted |-> row.deleted]
  BY <1>1, <1>3
<1>5. z \in LedgerRow
  BY <1>4, EventAssumption DEF LedgerRow
<1>. QED
  BY <1>2, <1>4, <1>5

LEMMA ChangeEffect ==
  ASSUME Shape, NEW c \in Consumer, ChangeStatus(c)
  PROVE  LET ev == Message(c) IN
         /\ worker[c].pc = "write" /\ worker[c] # Idle
         /\ WorkerTo(c, "ack")
         /\ DOMAIN ledger' = DOMAIN ledger
         /\ ledger' \in [DOMAIN ledger -> LedgerRow]
         /\ \A a \in DOMAIN ledger :
              /\ ledger'[a].deleted = ledger[a].deleted
              /\ ledger'[a].dept = ledger[a].dept
              /\ ledger'[a].status = IF a = ev.asset THEN ev.target ELSE ledger[a].status
              /\ ledger'[a].user = IF a = ev.asset THEN ev.user ELSE ledger[a].user
         /\ applied' \in [Asset -> Seq(Event)]
         /\ applied'[ev.asset] = Append(applied[ev.asset], ev)
         /\ \A a \in Asset : a # ev.asset => applied'[a] = applied[a]
         /\ UNCHANGED <<owner, position, committed, takenOver, faults, dedup, topic, session, refused>>
<1>. PICK ev : ev = Message(c)
  OBVIOUS
<1>1. worker[c].pc = "write" /\ worker[c] # Idle /\ WorkerTo(c, "ack")
  BY WorkerFacts DEF ChangeStatus, Shape
<1>2. ev \in Event /\ ev.asset \in Asset
  BY <1>1, MessageFacts
<1>3. ledger \in [DOMAIN ledger -> LedgerRow] /\ applied \in [Asset -> Seq(Event)]
  BY DEF Shape
<1>4. ledger' = [ledger EXCEPT ![ev.asset] = Changed(ledger[ev.asset], ev)]
  BY DEF ChangeStatus
<1>5. /\ DOMAIN ledger' = DOMAIN ledger
      /\ \A a \in DOMAIN ledger :
           ledger'[a] = IF a = ev.asset THEN Changed(ledger[a], ev) ELSE ledger[a]
  BY <1>4
<1>6. ledger' \in [DOMAIN ledger -> LedgerRow]
  BY <1>2, <1>3, <1>4, <1>5, ChangedRow
<1>7. \A a \in DOMAIN ledger :
        /\ ledger'[a].deleted = ledger[a].deleted
        /\ ledger'[a].dept = ledger[a].dept
        /\ ledger'[a].status = IF a = ev.asset THEN ev.target ELSE ledger[a].status
        /\ ledger'[a].user = IF a = ev.asset THEN ev.user ELSE ledger[a].user
  BY <1>2, <1>3, <1>5, ChangedRow
<1>8. /\ applied' = [applied EXCEPT ![ev.asset] = Append(applied[ev.asset], ev)]
      /\ Append(applied[ev.asset], ev) \in Seq(Event)
  BY <1>2, <1>3 DEF ChangeStatus
<1>9. /\ applied' \in [Asset -> Seq(Event)]
      /\ applied'[ev.asset] = Append(applied[ev.asset], ev)
      /\ \A a \in Asset : a # ev.asset => applied'[a] = applied[a]
  BY <1>2, <1>3, <1>8
<1>. QED
  BY <1>1, <1>5, <1>6, <1>7, <1>9 DEF ChangeStatus, groupVars, offsets

\* asset-api creates, moves and deletes rows; the status of a row is not its business,
\* and a deleted row is as if it were not there.
LEMMA ApiEffect ==
  ASSUME Shape, ApiStep
  PROVE  /\ DOMAIN ledger \subseteq DOMAIN ledger' /\ DOMAIN ledger' \subseteq Asset
         /\ ledger' \in [DOMAIN ledger' -> LedgerRow]
         /\ \A a \in DOMAIN ledger :
              /\ ledger'[a].status = ledger[a].status
              /\ ledger'[a].user = ledger[a].user
              /\ ledger[a].deleted => ledger'[a] = ledger[a]
         /\ \A a \in DOMAIN ledger' \ DOMAIN ledger :
              ledger'[a].status = InStock /\ ledger'[a].user = Nobody
         /\ session' \in [User -> SessionState]
         /\ \A u \in User : session'[u] # Idle => session'[u].asset \in DOMAIN ledger'
         /\ UNCHANGED <<owner, position, committed, takenOver, faults, dedup, topic, worker, applied, refused>>
<1>1. /\ ledger \in [DOMAIN ledger -> LedgerRow] /\ DOMAIN ledger \subseteq Asset
      /\ session \in [User -> SessionState]
      /\ \A u \in User : session[u] # Idle => session[u].asset \in DOMAIN ledger
  BY DEF Shape
<1>2. ASSUME NEW a \in Asset, NEW d \in DeptId, CreateAsset(a, d)
      PROVE  /\ DOMAIN ledger' = DOMAIN ledger \cup {a}
             /\ ledger' \in [DOMAIN ledger' -> LedgerRow]
             /\ \A b \in DOMAIN ledger : ledger'[b] = ledger[b]
             /\ a \notin DOMAIN ledger
             /\ ledger'[a].status = InStock /\ ledger'[a].user = Nobody
             /\ UNCHANGED <<session, owner, position, committed, takenOver, faults, dedup, topic,
                            worker, applied, refused>>
  <2>1. NewAsset(d) \in LedgerRow /\ NewAsset(d).status = InStock /\ NewAsset(d).user = Nobody
    BY DEF NewAsset, LedgerRow, AssetStatus
  <2>. QED
    BY <1>1, <1>2, <2>1 DEF CreateAsset, groupVars, offsets
<1>3. ASSUME NEW u \in User, NEW s \in SessionState, s # Idle => s.asset \in DOMAIN ledger,
             session' = [session EXCEPT ![u] = s]
      PROVE  /\ session' \in [User -> SessionState]
             /\ \A v \in User : session'[v] # Idle => session'[v].asset \in DOMAIN ledger
  BY <1>1, <1>3
<1>4. ASSUME NEW u \in User, NEW a \in DOMAIN ledger, NEW d \in DeptId,
             ReadForDelete(u, a) \/ ReadForUpdate(u, a, d)
      PROVE  /\ session' \in [User -> SessionState]
             /\ \A v \in User : session'[v] # Idle => session'[v].asset \in DOMAIN ledger
             /\ UNCHANGED <<ledger, owner, position, committed, takenOver, faults, dedup, topic,
                            worker, applied, refused>>
  <2>1. a \in Asset /\ ledger[a].dept \in DeptId
    BY <1>1 DEF LedgerRow
  <2>2. \A pc \in {"delete", "move"}, e \in DeptId :
          LET s == [pc |-> pc, asset |-> a, dept |-> e] IN s \in SessionState /\ s.asset = a
    BY <2>1 DEF SessionState
  <2>3. PICK pc \in {"delete", "move"}, e \in DeptId :
          session' = [session EXCEPT ![u] = [pc |-> pc, asset |-> a, dept |-> e]]
    BY <1>4, <2>1 DEF ReadForDelete, ReadForUpdate
  <2>. QED
    BY <1>3, <1>4, <2>2, <2>3 DEF ReadForDelete, ReadForUpdate, groupVars, offsets
<1>5. ASSUME NEW u \in User, WriteAsset(u)
      PROVE  /\ session' \in [User -> SessionState]
             /\ \A v \in User : session'[v] # Idle => session'[v].asset \in DOMAIN ledger
             /\ DOMAIN ledger' = DOMAIN ledger
             /\ ledger' \in [DOMAIN ledger -> LedgerRow]
             /\ \A a \in DOMAIN ledger :
                  /\ ledger'[a].status = ledger[a].status
                  /\ ledger'[a].user = ledger[a].user
                  /\ ledger[a].deleted => ledger'[a] = ledger[a]
             /\ UNCHANGED <<owner, position, committed, takenOver, faults, dedup, topic,
                            worker, applied, refused>>
  <2>. DEFINE s == session[u]
  <2>1. s \in SessionState /\ s # Idle /\ s.asset \in DOMAIN ledger
    BY <1>1, <1>5 DEF WriteAsset
  <2>2. s.pc \in {"delete", "move"} /\ s.dept \in DeptId
    BY <2>1 DEF SessionState
  <2>3. /\ session' \in [User -> SessionState]
        /\ \A v \in User : session'[v] # Idle => session'[v].asset \in DOMAIN ledger
    <3>1. Idle \in SessionState /\ session' = [session EXCEPT ![u] = Idle]
      BY <1>5 DEF WriteAsset, SessionState
    <3>. QED
      BY <1>3, <3>1
  <2>4. CASE UNCHANGED ledger
    BY <1>1, <1>5, <2>3, <2>4 DEF WriteAsset, groupVars, offsets
  <2>5. CASE ~UNCHANGED ledger
    <3>. DEFINE row == ledger[s.asset]
    <3>1. row \in LedgerRow
      BY <1>1, <2>1
    <3>2. row = [status |-> row.status, user |-> row.user, dept |-> row.dept, deleted |-> row.deleted]
      BY <3>1 DEF LedgerRow
    <3>3. PICK new : /\ new = IF s.pc = "delete" THEN [row EXCEPT !.deleted = TRUE]
                              ELSE [row EXCEPT !.dept = s.dept]
                     /\ ledger' = [ledger EXCEPT ![s.asset] = new]
      BY <1>5, <2>5 DEF WriteAsset
    <3>4. ~row.deleted
      BY <1>5, <2>5 DEF WriteAsset, RowPresent
    <3>5. new \in LedgerRow /\ new.status = row.status /\ new.user = row.user
      <4>1. CASE s.pc = "delete"
        <5>1. new = [status |-> row.status, user |-> row.user, dept |-> row.dept, deleted |-> TRUE]
          BY <3>2, <3>3, <4>1
        <5>. QED
          BY <3>1, <5>1 DEF LedgerRow
      <4>2. CASE s.pc # "delete"
        <5>1. new = [status |-> row.status, user |-> row.user, dept |-> s.dept, deleted |-> row.deleted]
          BY <3>2, <3>3, <4>2
        <5>. QED
          BY <2>2, <3>1, <5>1 DEF LedgerRow
      <4>. QED
        BY <4>1, <4>2
    <3>6. /\ DOMAIN ledger' = DOMAIN ledger
          /\ ledger' \in [DOMAIN ledger -> LedgerRow]
          /\ ledger'[s.asset] = new
          /\ \A a \in DOMAIN ledger : a # s.asset => ledger'[a] = ledger[a]
      BY <1>1, <2>1, <3>3, <3>5
    <3>7. \A a \in DOMAIN ledger :
            /\ ledger'[a].status = ledger[a].status
            /\ ledger'[a].user = ledger[a].user
            /\ ledger[a].deleted => ledger'[a] = ledger[a]
      BY <3>4, <3>5, <3>6
    <3>. QED
      BY <1>5, <2>3, <3>6, <3>7 DEF WriteAsset, groupVars, offsets
  <2>. QED
    BY <2>4, <2>5
<1>6. ASSUME NEW u \in User, AbandonSession(u)
      PROVE  /\ session' \in [User -> SessionState]
             /\ \A v \in User : session'[v] # Idle => session'[v].asset \in DOMAIN ledger
             /\ UNCHANGED <<ledger, owner, position, committed, takenOver, faults, dedup, topic,
                            worker, applied, refused>>
  <2>1. Idle \in SessionState /\ session' = [session EXCEPT ![u] = Idle]
    BY <1>6 DEF AbandonSession, SessionState
  <2>. QED
    BY <1>3, <1>6, <2>1 DEF AbandonSession, groupVars, offsets
<1>7. \A a \in DOMAIN ledger : ledger[a].dept \in DeptId
  BY <1>1 DEF LedgerRow
<1>8. ASSUME NEW a \in Asset, NEW d \in DeptId, CreateAsset(a, d)
      PROVE  /\ session' \in [User -> SessionState]
             /\ \A u \in User : session'[u] # Idle => session'[u].asset \in DOMAIN ledger'
  <2>1. UNCHANGED session /\ DOMAIN ledger \subseteq DOMAIN ledger'
    BY <1>2, <1>8
  <2>. QED
    BY <1>1, <2>1
<1>. QED
  BY <1>1, <1>2, <1>4, <1>5, <1>6, <1>7, <1>8 DEF ApiStep

LEMMA MessageStays ==
  ASSUME NEW c \in Consumer, topic' = topic,
         worker'[c].part = worker[c].part, worker'[c].at = worker[c].at
  PROVE  Message(c)' = Message(c)
BY DEF Message

LEMMA ReadAssetEffect ==
  ASSUME Shape, NEW c \in Consumer, ReadAsset(c)
  PROVE  /\ Message(c)' = Message(c)
         /\ worker'[c].pc = "write" => Accepts(Message(c))
         /\ worker'[c] # Idle /\ worker'[c].part = worker[c].part /\ worker[c] # Idle
         /\ \A d \in Consumer : d # c => worker'[d] = worker[d]
         /\ UNCHANGED <<ledger, session, applied, owner, position, committed, takenOver, faults, dedup, topic>>
<1>1. worker \in [Consumer -> WorkerState] /\ worker[c] # Idle
  BY WorkerFacts DEF Shape, ReadAsset
<1>2. PICK pc \in {"write", "ack"} : WorkerTo(c, pc) /\ (pc = "write" => Accepts(Message(c)))
  <2>1. CASE Accepts(Message(c))
    BY <2>1 DEF ReadAsset
  <2>2. CASE ~Accepts(Message(c))
    BY <2>2 DEF ReadAsset
  <2>. QED
    BY <2>1, <2>2
<1>3. /\ worker'[c].pc = pc /\ worker'[c].part = worker[c].part /\ worker'[c].at = worker[c].at
      /\ worker'[c] # Idle
      /\ \A d \in Consumer : d # c => worker'[d] = worker[d]
  BY <1>1, <1>2, WorkerToEffect
<1>4. UNCHANGED <<ledger, session, applied, owner, position, committed, takenOver, faults, dedup, topic>>
  BY DEF ReadAsset, apiVars, groupVars, offsets
<1>. QED
  BY <1>1, <1>2, <1>3, <1>4, MessageStays

LEMMA AppendFacts ==
  ASSUME NEW S, NEW s \in Seq(S), NEW x \in S
  PROVE  /\ Len(Append(s, x)) = Len(s) + 1 /\ Len(s) \in Nat
         /\ DOMAIN Append(s, x) = DOMAIN s \cup {Len(s) + 1}
         /\ DOMAIN s = 1 .. Len(s)
         /\ Append(s, x)[Len(s) + 1] = x
         /\ \A i \in DOMAIN s : Append(s, x)[i] = s[i]
OBVIOUS

-------------------------------------------------------------------------------
(***************************************************************************)
(* Type correctness                                                        *)
(***************************************************************************)
LEMMA ShapeInit == AsInit => Shape
<1>. SUFFICES ASSUME AsInit
              PROVE  Shape
  OBVIOUS
<1>1. ledger = Seed /\ ledger \in [DOMAIN ledger -> LedgerRow] /\ DOMAIN ledger \subseteq Asset
  BY SeedAssumption DEF AsInit
<1>2. faults \in FaultCount
  BY DEF AsInit, FaultCount
<1>3. \A p \in Partition : Len(topic[p]) = 0
  BY DEF AsInit
<1>4. Idle \in WorkerState /\ Idle \in SessionState
  BY DEF WorkerState, SessionState
<1>5. << >> \in Seq(Event)
  OBVIOUS
<1>. QED
  BY <1>1, <1>2, <1>3, <1>4, <1>5, BoundAssumption DEF AsInit, Shape

\* The instances' part of a step, as far as Shape goes.
LEMMA ShapeStays ==
  ASSUME Shape, UNCHANGED <<ledger, session, applied, topic>>,
         dedup' \subseteq RequestOf, refused' \subseteq RequestOf,
         owner' \in [Partition -> Consumer],
         position' \in [Partition -> Nat], committed' \in [Partition -> Nat],
         \A p \in Partition :
           committed'[p] \in 0 .. Len(topic[p]) /\ position'[p] \in 1 .. Len(topic[p]) + 1,
         worker' \in [Consumer -> WorkerState],
         \A c \in Consumer : worker'[c] # Idle => worker'[c].at <= Len(topic[worker'[c].part]),
         takenOver' \subseteq Asset, faults' \in FaultCount
  PROVE  Shape'
BY DEF Shape

LEMMA ShapeStep == Shape /\ [AsNext]_asVars => Shape'
<1>. SUFFICES ASSUME Shape, [AsNext]_asVars
              PROVE  Shape'
  OBVIOUS
<1>a. /\ dedup \subseteq RequestOf /\ refused \subseteq RequestOf
      /\ owner \in [Partition -> Consumer]
      /\ position \in [Partition -> Nat] /\ committed \in [Partition -> Nat]
      /\ \A p \in Partition :
           committed[p] \in 0 .. Len(topic[p]) /\ position[p] \in 1 .. Len(topic[p]) + 1
      /\ worker \in [Consumer -> WorkerState]
      /\ \A c \in Consumer : worker[c] # Idle => worker[c].at <= Len(topic[worker[c].part])
      /\ takenOver \subseteq Asset /\ faults \in FaultCount
  BY DEF Shape
<1>b. \A c \in Consumer : worker[c] # Idle => Message(c).request \in RequestOf
  BY MessageFacts
<1>1. CASE UNCHANGED asVars
  BY <1>1 DEF asVars, Shape
<1>2. ASSUME NEW ev \in Event, Arrive(ev)
      PROVE  Shape'
  <2>1. /\ topic' \in [Partition -> Seq(Event)]
        /\ \A p \in Partition : /\ Len(topic'[p]) <= MaxTopic
                                /\ Len(topic[p]) <= Len(topic'[p])
                                /\ Len(topic'[p]) \in Nat
        /\ UNCHANGED <<ledger, session, applied, owner, position, committed, takenOver, faults,
                       dedup, worker, refused>>
    BY <1>2, ArriveEffect
  <2>2. \A p \in Partition :
          committed[p] \in 0 .. Len(topic'[p]) /\ position[p] \in 1 .. Len(topic'[p]) + 1
    BY <1>a, <2>1, TopicFacts
  <2>3. \A c \in Consumer : worker[c] # Idle => worker[c].at <= Len(topic'[worker[c].part])
    <3>. SUFFICES ASSUME NEW c \in Consumer, worker[c] # Idle
                  PROVE  worker[c].at <= Len(topic'[worker[c].part])
      OBVIOUS
    <3>1. worker[c].part \in Partition /\ worker[c].at \in Nat /\ worker[c].at <= Len(topic[worker[c].part])
      BY <1>a, WorkerFacts
    <3>. QED
      BY <2>1, <3>1, TopicFacts
  <2>. QED
    BY <2>1, <2>2, <2>3 DEF Shape
<1>3. ASSUME NEW c \in Consumer, NEW p \in Partition, Fetch(c, p)
      PROVE  Shape'
  <2>1. \A q \in Partition : position'[q] \in 1 .. Len(topic[q]) + 1
    BY <1>3, FetchEffect, TopicFacts
  <2>2. \A d \in Consumer : worker'[d] # Idle => worker'[d].at <= Len(topic[worker'[d].part])
    BY <1>a, <1>3, FetchEffect
  <2>. QED
    BY <1>a, <1>3, <2>1, <2>2, FetchEffect, ShapeStays
<1>4. ASSUME NEW c \in Consumer, worker[c] # Idle, NEW pc \in {"dedup", "read", "write", "ack"},
             WorkerTo(c, pc)
      PROVE  /\ worker' \in [Consumer -> WorkerState]
             /\ \A d \in Consumer : worker'[d] # Idle => worker'[d].at <= Len(topic[worker'[d].part])
  BY <1>a, <1>4, WorkerToEffect
<1>5. ASSUME NEW c \in Consumer, worker' = [worker EXCEPT ![c] = Idle]
      PROVE  /\ worker' \in [Consumer -> WorkerState]
             /\ \A d \in Consumer : worker'[d] # Idle => worker'[d].at <= Len(topic[worker'[d].part])
  BY <1>a, <1>5, ToIdleEffect
<1>6. ASSUME NEW c \in Consumer, Dedup(c)
      PROVE  Shape'
  <2>1. worker[c] # Idle /\ \E pc \in {"read", "ack"} : WorkerTo(c, pc)
    BY <1>a, <1>6, WorkerFacts DEF Dedup
  <2>2. dedup' \subseteq RequestOf
    BY <1>a, <1>b, <1>6, <2>1 DEF Dedup
  <2>. QED
    BY <1>a, <1>4, <1>6, <2>1, <2>2, ShapeStays DEF Dedup, apiVars, groupVars, offsets
<1>7. ASSUME NEW c \in Consumer, DedupFails(c) \/ AckFails(c)
      PROVE  Shape'
  <2>1. faults' \in FaultCount
    BY <1>a, <1>7, FaultEffect DEF DedupFails, AckFails, StatementFails
  <2>. QED
    BY <1>a, <1>5, <1>7, <2>1, ShapeStays DEF DedupFails, AckFails, apiVars, offsets
<1>8. ASSUME NEW c \in Consumer, ReadAsset(c)
      PROVE  Shape'
  <2>1. worker[c] # Idle /\ \E pc \in {"write", "ack"} : WorkerTo(c, pc)
    BY <1>a, <1>8, WorkerFacts DEF ReadAsset
  <2>2. refused' \subseteq RequestOf
    BY <1>a, <1>b, <1>8, <2>1 DEF ReadAsset
  <2>. QED
    BY <1>a, <1>4, <1>8, <2>1, <2>2, ShapeStays DEF ReadAsset, apiVars, groupVars, offsets
<1>9. ASSUME NEW c \in Consumer, ChangeFails(c)
      PROVE  Shape'
  <2>1. worker[c] # Idle /\ WorkerTo(c, "ack")
    BY <1>a, <1>9, WorkerFacts DEF ChangeFails
  <2>2. faults' \in FaultCount
    BY <1>a, <1>9, FaultEffect DEF ChangeFails, StatementFails
  <2>. QED
    BY <1>a, <1>4, <1>9, <2>1, <2>2, ShapeStays DEF ChangeFails, apiVars, offsets
<1>10. ASSUME NEW c \in Consumer, ChangeStatus(c)
       PROVE  Shape'
  <2>1. /\ worker[c] # Idle /\ WorkerTo(c, "ack")
        /\ DOMAIN ledger' = DOMAIN ledger
        /\ ledger' \in [DOMAIN ledger -> LedgerRow]
        /\ applied' \in [Asset -> Seq(Event)]
        /\ UNCHANGED <<owner, position, committed, takenOver, faults, dedup, topic, session, refused>>
    BY <1>10, ChangeEffect
  <2>2. /\ worker' \in [Consumer -> WorkerState]
        /\ \A d \in Consumer : worker'[d] # Idle => worker'[d].at <= Len(topic[worker'[d].part])
    BY <1>4, <2>1
  <2>. QED
    BY <2>1, <2>2 DEF Shape
<1>11. ASSUME NEW c \in Consumer, Ack(c)
       PROVE  Shape'
  <2>1. worker[c] # Idle /\ worker[c].part \in Partition
    BY <1>a, <1>11, AckEffect, WorkerFacts
  <2>2. worker[c].at \in 1 .. Len(topic[worker[c].part])
    BY <2>1, MessageFacts, TopicFacts
  <2>3. ASSUME NEW p \in Partition
        PROVE  committed'[p] \in 0 .. Len(topic[p])
    <3>1. CASE p = worker[c].part /\ owner[p] = c
      <4>1. committed'[p] = worker[c].at /\ worker[c].at \in 1 .. Len(topic[p])
        BY <1>11, <2>2, <3>1, AckEffect
      <4>. QED
        BY <4>1, TopicFacts
    <3>2. CASE ~(p = worker[c].part /\ owner[p] = c)
      BY <1>a, <1>11, <3>2, AckEffect
    <3>. QED
      BY <3>1, <3>2
  <2>. QED
    BY <1>a, <1>5, <1>11, <2>3, AckEffect, ShapeStays
<1>12. ASSUME NEW c \in Consumer, Crash(c)
       PROVE  Shape'
  <2>1. \A p \in Partition : position'[p] \in 1 .. Len(topic[p]) + 1
    BY <1>12, CrashEffect, TopicFacts
  <2>. QED
    BY <1>a, <1>5, <1>12, <2>1, CrashEffect, ShapeStays
<1>13. ASSUME NEW c \in Consumer, NEW p \in Partition, Rebalance(p, c)
       PROVE  Shape'
  <2>1. \A q \in Partition : position'[q] \in 1 .. Len(topic[q]) + 1
    BY <1>13, RebalanceEffect, TopicFacts
  <2>. QED
    BY <1>a, <1>13, <2>1, RebalanceEffect, ShapeStays
<1>14. CASE ApiStep
  BY <1>14, ApiEffect DEF Shape
<1>15. ASSUME NEW d \in Consumer, NEW c \in Consumer, \E p \in Partition : Rebalance(p, c)
       PROVE  Shape'
  BY <1>13, <1>15
<1>. QED
  BY <1>1, <1>2, <1>3, <1>6, <1>7, <1>8, <1>9, <1>10, <1>11, <1>12, <1>15, <1>14
  DEF AsNext, WorkerStep, ConsumerFault

LEMMA ShapeHolds == AsSpec => []Shape
BY ShapeInit, ShapeStep, PTL DEF AsSpec
-------------------------------------------------------------------------------
(***************************************************************************)
(* An event changes the ledger at most once                                *)
(***************************************************************************)
LEMMA OnceInit == AsInit => EffectOnce
<1>. SUFFICES ASSUME AsInit
              PROVE  EffectOnce
  OBVIOUS
<1>1. \A c \in Consumer : ~Past(c) /\ ~Applying(c)
  BY DEF AsInit, Past, Applying, Idle
<1>2. \A a \in Asset : applied[a] = << >> /\ AppliedTo(a) = {}
  BY DEF AsInit, AppliedTo
<1>. QED
  BY <1>1, <1>2 DEF EffectOnce, AppliedAtMostOnce

\* A step that applies nothing, forgets nothing and lets no instance past the insert
\* keeps events effect-once.
LEMMA OnceStays ==
  ASSUME EffectOnce, applied' = applied, dedup \subseteq dedup',
         \A c \in Consumer :
           /\ Past(c)' => Past(c) /\ Message(c)' = Message(c)
           /\ Applying(c)' => Applying(c)
  PROVE  EffectOnce'
<1>1. \A a \in Asset : AppliedTo(a)' = AppliedTo(a)
  BY DEF AppliedTo
<1>2. \A c \in Consumer : Applying(c)' => Past(c)'
  BY DEF Applying, Past
<1>3. \A c \in Consumer : Past(c)' => Message(c)'.request \in dedup'
  BY DEF EffectOnce
<1>4. \A c, d \in Consumer :
        Applying(c)' /\ Applying(d)' /\ Message(c)'.request = Message(d)'.request => c = d
  BY <1>2 DEF EffectOnce
<1>5. \A a \in Asset : AppliedTo(a)' \subseteq dedup'
  BY <1>1 DEF EffectOnce
<1>6. \A c \in Consumer, a \in Asset : Applying(c)' => Message(c)'.request \notin AppliedTo(a)'
  BY <1>1, <1>2 DEF EffectOnce
<1>7. AppliedAtMostOnce'
  BY DEF EffectOnce, AppliedAtMostOnce
<1>. QED
  BY <1>3, <1>4, <1>5, <1>6, <1>7 DEF EffectOnce
\* A step of one instance leaves the messages of the others, and where it keeps its
\* own message, that too.
LEMMA DedupEffectOnce ==
  ASSUME OnceInv, NEW c \in Consumer, Dedup(c)
  PROVE  EffectOnce'
<1>. PICK r : r = Message(c).request
  OBVIOUS
<1>1. /\ worker \in [Consumer -> WorkerState] /\ worker[c].pc = "dedup"
      /\ worker[c] # Idle
      /\ dedup' = dedup \cup {r} /\ applied' = applied /\ topic' = topic
  BY WorkerFacts DEF OnceInv, Shape, Dedup, apiVars
<1>2. PICK pc \in {"read", "ack"} :
        WorkerTo(c, pc) /\ (pc = "read" => r \notin dedup)
  <2>1. CASE IsDuplicate(Message(c))
    BY <2>1 DEF Dedup
  <2>2. CASE ~IsDuplicate(Message(c))
    BY <2>2 DEF Dedup, IsDuplicate
  <2>. QED
    BY <2>1, <2>2
<1>3. /\ worker'[c].pc = pc /\ worker'[c].part = worker[c].part /\ worker'[c].at = worker[c].at
      /\ \A d \in Consumer : d # c => worker'[d] = worker[d]
  BY <1>1, <1>2, WorkerToEffect
<1>4. \A d \in Consumer : Message(d)' = Message(d)
  BY <1>1, <1>3, MessageStays
<1>5. \A d \in Consumer : d # c => Past(d)' = Past(d) /\ Applying(d)' = Applying(d)
  BY <1>3 DEF Past, Applying
<1>6. Applying(c)' => r \notin dedup
  BY <1>2, <1>3 DEF Applying
<1>7. \A a \in Asset : AppliedTo(a)' = AppliedTo(a)
  BY <1>1 DEF AppliedTo
<1>8. \A d \in Consumer : Applying(d) => Past(d)
  BY DEF Applying, Past
<1>9. \A d \in Consumer : Past(d)' => Message(d)'.request \in dedup'
  BY <1>1, <1>4, <1>5 DEF OnceInv, EffectOnce
<1>10. ASSUME NEW d \in Consumer, NEW e \in Consumer,
              Applying(d)', Applying(e)', Message(d)'.request = Message(e)'.request
       PROVE  d = e
  BY <1>4, <1>5, <1>6, <1>8, <1>10 DEF OnceInv, EffectOnce
<1>11. \A a \in Asset : AppliedTo(a)' \subseteq dedup'
  BY <1>1, <1>7 DEF OnceInv, EffectOnce
<1>12. ASSUME NEW d \in Consumer, NEW a \in Asset, Applying(d)'
       PROVE  Message(d)'.request \notin AppliedTo(a)'
  BY <1>4, <1>5, <1>6, <1>7, <1>12 DEF OnceInv, EffectOnce
<1>13. AppliedAtMostOnce'
  BY <1>1 DEF OnceInv, EffectOnce, AppliedAtMostOnce
<1>. QED
  BY <1>9, <1>10, <1>11, <1>12, <1>13 DEF EffectOnce

\* The event appended to an asset's row is one that no row has had, and the instance
\* is past the write.
LEMMA ChangeEffectOnce ==
  ASSUME OnceInv, NEW c \in Consumer, ChangeStatus(c)
  PROVE  EffectOnce'
<1>. PICK ev : ev = Message(c)
  OBVIOUS
<1>0. worker \in [Consumer -> WorkerState] /\ applied \in [Asset -> Seq(Event)]
  BY DEF OnceInv, Shape
<1>1. /\ worker[c].pc = "write" /\ worker[c] # Idle /\ WorkerTo(c, "ack")
      /\ dedup' = dedup /\ topic' = topic
      /\ applied'[ev.asset] = Append(applied[ev.asset], ev)
      /\ \A a \in Asset : a # ev.asset => applied'[a] = applied[a]
  BY ChangeEffect DEF OnceInv
<1>2. /\ worker'[c].pc = "ack" /\ worker'[c].part = worker[c].part /\ worker'[c].at = worker[c].at
      /\ \A d \in Consumer : d # c => worker'[d] = worker[d]
  BY <1>0, <1>1, WorkerToEffect
<1>3. \A d \in Consumer : Message(d)' = Message(d)
  BY <1>1, <1>2, MessageStays
<1>4. \A d \in Consumer : d # c => Past(d)' = Past(d) /\ Applying(d)' = Applying(d)
  BY <1>2 DEF Past, Applying
<1>5. Applying(c) /\ Past(c) /\ ~Applying(c)'
  BY <1>1, <1>2 DEF Applying, Past
<1>6. ev.asset \in Asset /\ applied[ev.asset] \in Seq(Event)
  BY <1>0, <1>1, MessageFacts DEF OnceInv
<1>7. /\ DOMAIN applied'[ev.asset] = DOMAIN applied[ev.asset] \cup {Len(applied[ev.asset]) + 1}
      /\ Len(applied[ev.asset]) + 1 \notin DOMAIN applied[ev.asset]
      /\ applied'[ev.asset][Len(applied[ev.asset]) + 1] = ev
      /\ \A i \in DOMAIN applied[ev.asset] : applied'[ev.asset][i] = applied[ev.asset][i]
  BY <1>1, <1>6
<1>8. /\ AppliedTo(ev.asset)' = AppliedTo(ev.asset) \cup {ev.request}
      /\ \A a \in Asset : a # ev.asset => AppliedTo(a)' = AppliedTo(a)
  BY <1>1, <1>7 DEF AppliedTo
<1>9. ev.request \in dedup /\ \A a \in Asset : ev.request \notin AppliedTo(a)
  BY <1>5 DEF OnceInv, EffectOnce
<1>10. \A d \in Consumer : Past(d)' => Message(d)'.request \in dedup'
  BY <1>1, <1>3, <1>4, <1>5 DEF OnceInv, EffectOnce
<1>11. \A d, e \in Consumer :
         Applying(d)' /\ Applying(e)' /\ Message(d)'.request = Message(e)'.request => d = e
  BY <1>3, <1>4, <1>5 DEF OnceInv, EffectOnce
<1>12. \A a \in Asset : AppliedTo(a)' \subseteq dedup'
  BY <1>1, <1>8, <1>9 DEF OnceInv, EffectOnce
<1>13. ASSUME NEW d \in Consumer, NEW a \in Asset, Applying(d)'
       PROVE  Message(d)'.request \notin AppliedTo(a)'
  <2>1. d # c /\ Applying(d) /\ Message(d)'.request = Message(d).request
    BY <1>3, <1>4, <1>5, <1>13
  <2>2. Message(d).request # ev.request /\ Message(d).request \notin AppliedTo(a)
    BY <1>5, <2>1 DEF OnceInv, EffectOnce
  <2>. QED
    BY <1>8, <2>1, <2>2
<1>14. AppliedAtMostOnce'
  <2>1. SUFFICES ASSUME NEW a \in Asset, NEW b \in Asset,
                        NEW i \in DOMAIN applied'[a], NEW j \in DOMAIN applied'[b],
                        applied'[a][i].request = applied'[b][j].request
                 PROVE  a = b /\ i = j
    BY DEF AppliedAtMostOnce
  <2>. DEFINE Old(x, k) == k \in DOMAIN applied[x] /\ applied'[x][k] = applied[x][k]
              New(x, k) == x = ev.asset /\ k = Len(applied[x]) + 1 /\ applied'[x][k] = ev
  <2>2. (Old(a, i) \/ New(a, i)) /\ (Old(b, j) \/ New(b, j))
    BY <1>1, <1>7
  <2>3. \A x \in Asset : \A k : Old(x, k) => applied'[x][k].request \in AppliedTo(x)
    BY DEF AppliedTo
  <2>4. CASE Old(a, i) /\ Old(b, j)
    BY <2>1, <2>4 DEF OnceInv, EffectOnce, AppliedAtMostOnce
  <2>5. CASE New(a, i) /\ New(b, j)
    BY <2>5
  <2>6. CASE Old(a, i) /\ New(b, j)
    BY <1>9, <2>1, <2>3, <2>6
  <2>7. CASE New(a, i) /\ Old(b, j)
    BY <1>9, <2>1, <2>3, <2>7
  <2>. QED
    BY <2>2, <2>4, <2>5, <2>6, <2>7
<1>. QED
  BY <1>10, <1>11, <1>12, <1>13, <1>14 DEF EffectOnce

LEMMA OnceStep == OnceInv /\ [AsNext]_asVars => OnceInv'
<1>. SUFFICES ASSUME OnceInv, [AsNext]_asVars
              PROVE  EffectOnce'
  BY ShapeStep DEF OnceInv
<1>a. Shape /\ EffectOnce /\ worker \in [Consumer -> WorkerState] /\ faults \in FaultCount
  BY DEF OnceInv, Shape
<1>b. ASSUME NEW c \in Consumer, worker' = [worker EXCEPT ![c] = Idle],
             UNCHANGED <<applied, dedup, topic>>
      PROVE  EffectOnce'
  <2>1. /\ ~Past(c)' /\ ~Applying(c)'
        /\ \A d \in Consumer : d # c => worker'[d] = worker[d]
    BY <1>a, <1>b, ToIdleEffect DEF Past, Applying
  <2>2. \A d \in Consumer : d # c => Message(d)' = Message(d)
    BY <1>b, <2>1, MessageStays
  <2>. QED
    BY <1>a, <1>b, <2>1, <2>2, OnceStays DEF Past, Applying
<1>c. ASSUME NEW c \in Consumer, worker[c].pc \in {"read", "write"}, NEW pc \in {"write", "ack"},
             WorkerTo(c, pc), UNCHANGED <<applied, dedup, topic>>
      PROVE  EffectOnce'
  <2>1. /\ worker'[c].part = worker[c].part /\ worker'[c].at = worker[c].at
        /\ Past(c) /\ Applying(c)
        /\ \A d \in Consumer : d # c => worker'[d] = worker[d]
    BY <1>a, <1>c, WorkerFacts, WorkerToEffect DEF Past, Applying
  <2>2. \A d \in Consumer : Message(d)' = Message(d)
    BY <1>c, <2>1, MessageStays
  <2>. QED
    BY <1>a, <1>c, <2>1, <2>2, OnceStays DEF Past, Applying
<1>d. ASSUME UNCHANGED <<applied, dedup, topic, worker>>
      PROVE  EffectOnce'
  <2>1. \A d \in Consumer : Message(d)' = Message(d) /\ Past(d)' = Past(d) /\ Applying(d)' = Applying(d)
    BY <1>d DEF Message, Past, Applying
  <2>. QED
    BY <1>a, <1>d, <2>1, OnceStays
<1>1. CASE UNCHANGED asVars
  BY <1>d, <1>1 DEF asVars
<1>2. ASSUME NEW ev \in Event, Arrive(ev)
      PROVE  EffectOnce'
  <2>1. UNCHANGED <<applied, dedup, worker>>
    BY <1>a, <1>2, ArriveEffect
  <2>2. ASSUME NEW c \in Consumer, Past(c)'
        PROVE  Past(c) /\ Message(c)' = Message(c)
    <3>1. Past(c) /\ worker[c] # Idle
      BY <1>a, <2>1, <2>2, WorkerFacts DEF Past
    <3>2. worker[c].part \in Partition /\ worker[c].at \in DOMAIN topic[worker[c].part]
      BY <1>a, <3>1, MessageFacts
    <3>. QED
      BY <1>a, <1>2, <2>1, <3>1, <3>2, ArriveEffect DEF Message
  <2>3. \A c \in Consumer : Applying(c)' => Applying(c)
    BY <2>1 DEF Applying
  <2>. QED
    BY <1>a, <2>1, <2>2, <2>3, OnceStays
<1>3. ASSUME NEW c \in Consumer, NEW p \in Partition, Fetch(c, p)
      PROVE  EffectOnce'
  <2>1. /\ UNCHANGED <<applied, dedup, topic>>
        /\ ~Past(c)' /\ ~Applying(c)'
        /\ \A d \in Consumer : d # c => worker'[d] = worker[d]
    BY <1>a, <1>3, FetchEffect DEF Past, Applying
  <2>2. \A d \in Consumer : d # c => Message(d)' = Message(d)
    BY <2>1, MessageStays
  <2>. QED
    BY <1>a, <2>1, <2>2, OnceStays DEF Past, Applying
<1>4. ASSUME NEW c \in Consumer, WorkerStep(c)
      PROVE  EffectOnce'
  <2>1. CASE Dedup(c)
    BY <2>1, DedupEffectOnce
  <2>2. CASE ReadAsset(c)
    <3>1. worker[c].pc = "read" /\ \E pc \in {"write", "ack"} : WorkerTo(c, pc)
      BY <2>2 DEF ReadAsset
    <3>. QED
      BY <1>c, <2>2, <3>1 DEF ReadAsset, apiVars
  <2>3. CASE ChangeStatus(c)
    BY <2>3, ChangeEffectOnce
  <2>4. CASE Ack(c)
    BY <1>a, <1>b, <2>4, AckEffect
  <2>. QED
    BY <1>4, <2>1, <2>2, <2>3, <2>4 DEF WorkerStep
<1>5. ASSUME NEW c \in Consumer, ConsumerFault(c)
      PROVE  EffectOnce'
  <2>1. CASE DedupFails(c) \/ AckFails(c)
    BY <1>b, <2>1 DEF DedupFails, AckFails, apiVars
  <2>2. CASE ChangeFails(c)
    BY <1>c, <2>2 DEF ChangeFails, apiVars
  <2>3. CASE Crash(c)
    BY <1>a, <1>b, <2>3, CrashEffect
  <2>4. ASSUME NEW p \in Partition, Rebalance(p, c)
        PROVE  EffectOnce'
    BY <1>a, <1>d, <2>4, RebalanceEffect
  <2>. QED
    BY <1>5, <2>1, <2>2, <2>3, <2>4 DEF ConsumerFault
<1>6. CASE ApiStep
  BY <1>a, <1>d, <1>6, ApiEffect
<1>. QED
  BY <1>1, <1>2, <1>3, <1>4, <1>5, <1>6 DEF AsNext

\* However often an event is delivered (duplicates in the topic, redelivery after a
\* crash or to a new owner), and however the instances interleave, it changes the
\* ledger at most once; and the tables, offsets, instances and sessions stay
\* well-formed.
THEOREM AsInvHolds == AsSpec => []AsInv
<1>1. AsInit => OnceInv
  BY ShapeInit, OnceInit DEF OnceInv
<1>2. OnceInv => AsInv
  <2>. SUFFICES ASSUME OnceInv
                PROVE  AsInv
    OBVIOUS
  <2>1. ASSUME NEW p \in Partition
        PROVE  position[p] - 1 \in 0 .. Len(topic[p])
    BY TopicFacts DEF OnceInv
  <2>. QED
    BY <2>1 DEF OnceInv, Shape, EffectOnce, AsInv, AsTypeOK
<1>. QED
  BY <1>1, <1>2, OnceStep, PTL DEF AsSpec

\* A deleted asset is neither moved nor brought back, whatever a session had read
\* before the deletion and whatever the consumer writes to the row afterwards.
THEOREM DeletedStaysPutHolds == AsSpec => DeletedStaysPut
<1>. DEFINE Put == \A a \in DOMAIN ledger :
                     ledger[a].deleted => ledger'[a].deleted /\ ledger'[a].dept = ledger[a].dept
<1>1. Shape /\ [AsNext]_asVars => Put
  <2>. SUFFICES ASSUME Shape, [AsNext]_asVars
                PROVE  Put
    OBVIOUS
  <2>1. CASE UNCHANGED ledger
    BY <2>1
  <2>2. CASE \E c \in Consumer : ChangeStatus(c)
    BY <2>2, ChangeEffect
  <2>3. CASE ApiStep
    BY <2>3, ApiEffect
  <2>4. \/ UNCHANGED ledger
        \/ \E c \in Consumer : ChangeStatus(c)
        \/ ApiStep
    BY DEF AsNext, asVars, Arrive, Fetch, WorkerStep, Dedup, ReadAsset, Ack, ConsumerFault,
           DedupFails, ChangeFails, AckFails, Crash, Rebalance, apiVars
  <2>. QED
    BY <2>1, <2>2, <2>3, <2>4
<1>. QED
  BY <1>1, ShapeHolds, PTL DEF DeletedStaysPut, AsSpec
-------------------------------------------------------------------------------
(***************************************************************************)
(* What the group skips                                                    *)
(***************************************************************************)
LEMMA MissedInit == AsInit => MissedInv
<1>. SUFFICES ASSUME AsInit
              PROVE  MissedInv
  OBVIOUS
<1>1. \A p \in Partition : DOMAIN topic[p] = {}
  BY DEF AsInit
<1>2. Missed = {}
  BY <1>1 DEF Missed
<1>. QED
  BY <1>2, FS_EmptySet DEF MissedInv, AsInit

LEMMA MissedWithin ==
  ASSUME NEW M, IsFiniteSet(M), Missed' \subseteq M,
         faults'.dedup \in Nat, Cardinality(M) <= faults'.dedup
  PROVE  MissedInv'
<1>1. PICK T : T = Missed'
  OBVIOUS
<1>2. T \in SUBSET M
  BY <1>1
<1>3. IsFiniteSet(T) /\ Cardinality(T) <= Cardinality(M)
  BY <1>2, FS_Subset
<1>4. Cardinality(T) \in Nat /\ Cardinality(M) \in Nat
  BY <1>3, FS_CardinalityType
<1>. QED
  BY <1>1, <1>3, <1>4 DEF MissedInv

\* A step that puts no unrecorded message behind the group.
LEMMA MissedStays ==
  ASSUME Shape, MissedInv, faults'.dedup = faults.dedup \/ faults'.dedup = faults.dedup + 1,
         topic' = topic, dedup \subseteq dedup',
         \A p \in Partition, n \in 1 .. MaxTopic :
           n \in DOMAIN topic[p] /\ topic[p][n].request \notin dedup' /\ Behind(p, n)' => Behind(p, n)
  PROVE  MissedInv'
<1>1. Missed' \subseteq Missed
  BY DEF Missed
<1>2. IsFiniteSet(Missed) /\ Cardinality(Missed) \in Nat /\ Cardinality(Missed) <= faults.dedup
  BY FS_CardinalityType DEF MissedInv
<1>3. faults.dedup \in Nat /\ faults'.dedup \in Nat /\ Cardinality(Missed) <= faults'.dedup
  BY <1>2 DEF Shape, FaultCount
<1>. PICK M : M = Missed
  OBVIOUS
<1>. QED
  BY <1>1, <1>2, <1>3, MissedWithin

LEMMA FetchMissesNothing ==
  ASSUME Shape, MissedInv, NEW c \in Consumer, NEW q \in Partition, Fetch(c, q)
  PROVE  MissedInv'
<1>1. /\ owner[q] = c /\ worker[c] = Idle
      /\ worker'[c].pc = "dedup" /\ worker'[c].part = q /\ worker'[c].at = position[q]
      /\ \A d \in Consumer : d # c => worker'[d] = worker[d]
      /\ position'[q] = position[q] + 1
      /\ \A r \in Partition : r # q => position'[r] = position[r]
      /\ UNCHANGED <<owner, committed, takenOver, faults, dedup, topic>>
  BY FetchEffect
<1>2. worker[c].pc = "idle"
  BY <1>1 DEF Idle
<1>3. ASSUME NEW p \in Partition, NEW n \in 1 .. MaxTopic, Behind(p, n)'
      PROVE  Behind(p, n)
  <2>0. position[p] \in Nat /\ owner[p] \in Consumer /\ n \in Nat
    BY TopicFacts
  <2>1. CASE n <= committed'[p]
    BY <1>1, <2>1 DEF Behind
  <2>2. CASE \E d \in Consumer : worker'[d] # Idle /\ worker'[d].part = p /\ n < worker'[d].at
    <3>1. PICK d \in Consumer : worker'[d] # Idle /\ worker'[d].part = p /\ n < worker'[d].at
      BY <2>2
    <3>2. CASE d = c
      BY <1>1, <1>2, <3>1, <3>2 DEF Behind
    <3>3. CASE d # c
      BY <1>1, <3>1, <3>3 DEF Behind
    <3>. QED
      BY <3>2, <3>3
  <2>3. CASE /\ n < position'[p]
             /\ ~(worker'[owner[p]].pc = "dedup" /\ worker'[owner[p]].part = p /\ worker'[owner[p]].at = n)
    <3>1. CASE p = q
      <4>1. n < position[p]
        BY <1>1, <2>0, <2>3, <3>1
      <4>. QED
        BY <1>1, <1>2, <3>1, <4>1 DEF Behind
    <3>2. CASE p # q
      <4>1. n < position[p]
        BY <1>1, <2>3, <3>2
      <4>2. CASE owner[p] = c
        BY <1>2, <4>1, <4>2 DEF Behind
      <4>3. CASE owner[p] # c
        BY <1>1, <2>0, <2>3, <4>1, <4>3 DEF Behind
      <4>. QED
        BY <4>2, <4>3
    <3>. QED
      BY <3>1, <3>2
  <2>. QED
    BY <1>1, <1>3, <2>1, <2>2, <2>3 DEF Behind
<1>. QED
  BY <1>1, <1>3, MissedStays

\* An instance that goes on with the message it has in hand.  At the insert the
\* message becomes recorded; after it, it is.
LEMMA GoingOnMissesNothing ==
  ASSUME Shape, MissedInv, NEW c \in Consumer, worker[c] # Idle,
         NEW pc \in {"read", "write", "ack"}, WorkerTo(c, pc),
         dedup \subseteq dedup', worker[c].pc = "dedup" => Message(c).request \in dedup',
         faults'.dedup = faults.dedup \/ faults'.dedup = faults.dedup + 1,
         UNCHANGED <<owner, position, committed, topic>>
  PROVE  MissedInv'
<1>0. worker \in [Consumer -> WorkerState]
  BY DEF Shape
<1>1. /\ worker'[c].pc = pc /\ worker'[c].part = worker[c].part /\ worker'[c].at = worker[c].at
      /\ worker'[c] # Idle
      /\ \A d \in Consumer : d # c => worker'[d] = worker[d]
  BY <1>0, WorkerToEffect
<1>2. ASSUME NEW p \in Partition, NEW n \in 1 .. MaxTopic,
             topic[p][n].request \notin dedup', Behind(p, n)'
      PROVE  Behind(p, n)
  <2>0. owner[p] \in Consumer
    BY TopicFacts
  <2>1. CASE n <= committed'[p]
    BY <2>1 DEF Behind
  <2>2. CASE \E d \in Consumer : worker'[d] # Idle /\ worker'[d].part = p /\ n < worker'[d].at
    <3>1. PICK d \in Consumer : worker'[d] # Idle /\ worker'[d].part = p /\ n < worker'[d].at
      BY <2>2
    <3>2. worker[d] # Idle /\ worker[d].part = p /\ n < worker[d].at
      BY <1>1, <3>1
    <3>. QED
      BY <3>2 DEF Behind
  <2>3. CASE /\ n < position'[p]
             /\ ~(worker'[owner[p]].pc = "dedup" /\ worker'[owner[p]].part = p /\ worker'[owner[p]].at = n)
    <3>1. ~(worker[owner[p]].pc = "dedup" /\ worker[owner[p]].part = p /\ worker[owner[p]].at = n)
      <4>1. CASE owner[p] = c
        BY <1>2, <4>1 DEF Message
      <4>2. CASE owner[p] # c
        BY <1>1, <2>0, <2>3, <4>2
      <4>. QED
        BY <4>1, <4>2
    <3>. QED
      BY <2>3, <3>1 DEF Behind
  <2>. QED
    BY <1>2, <2>1, <2>2, <2>3 DEF Behind
<1>. QED
  BY <1>2, MissedStays

\* An instance that lets its message go, past the insert.
LEMMA LettingGoMissesNothing ==
  ASSUME OnceInv, MissedInv, NEW c \in Consumer, worker[c].pc = "ack",
         worker' = [worker EXCEPT ![c] = Idle],
         \A p \in Partition :
           \/ committed'[p] = committed[p]
           \/ p = worker[c].part /\ committed'[p] = worker[c].at,
         faults'.dedup = faults.dedup \/ faults'.dedup = faults.dedup + 1,
         UNCHANGED <<owner, position, dedup, topic>>
  PROVE  MissedInv'
<1>0. Shape /\ worker \in [Consumer -> WorkerState] /\ worker[c] # Idle
  BY WorkerFacts DEF OnceInv, Shape
<1>1. worker'[c] = Idle /\ worker'[c].pc = "idle" /\ \A d \in Consumer : d # c => worker'[d] = worker[d]
  BY <1>0, ToIdleEffect
<1>2. Message(c).request \in dedup
  BY DEF OnceInv, EffectOnce, Past
<1>3. worker[c].at \in Nat
  BY <1>0, MessageFacts, TopicFacts
<1>4. ASSUME NEW p \in Partition, NEW n \in 1 .. MaxTopic,
             topic[p][n].request \notin dedup', Behind(p, n)'
      PROVE  Behind(p, n)
  <2>0. owner[p] \in Consumer
    BY <1>0, TopicFacts
  <2>1. CASE n <= committed'[p]
    <3>1. CASE committed'[p] = committed[p]
      BY <2>1, <3>1 DEF Behind
    <3>2. CASE p = worker[c].part /\ committed'[p] = worker[c].at
      <4>1. n # worker[c].at
        BY <1>2, <1>4, <3>2 DEF Message
      <4>2. n < worker[c].at
        BY <1>3, <2>1, <3>2, <4>1
      <4>. QED
        BY <1>0, <3>2, <4>2 DEF Behind
    <3>. QED
      BY <3>1, <3>2
  <2>2. CASE \E d \in Consumer : worker'[d] # Idle /\ worker'[d].part = p /\ n < worker'[d].at
    BY <1>1, <2>2 DEF Behind
  <2>3. CASE /\ n < position'[p]
             /\ ~(worker'[owner[p]].pc = "dedup" /\ worker'[owner[p]].part = p /\ worker'[owner[p]].at = n)
    BY <1>1, <2>0, <2>3 DEF Behind
  <2>. QED
    BY <1>4, <2>1, <2>2, <2>3 DEF Behind
<1>. QED
  BY <1>0, <1>4, MissedStays

\* The insert that fails is the one way to miss a message, and it misses that one.
LEMMA DedupFailsMissesOne ==
  ASSUME Shape, MissedInv, NEW c \in Consumer, DedupFails(c)
  PROVE  MissedInv'
<1>0. worker \in [Consumer -> WorkerState] /\ worker[c].pc = "dedup" /\ faults \in FaultCount
  BY DEF Shape, DedupFails
<1>1. /\ worker'[c] = Idle /\ worker'[c].pc = "idle"
      /\ \A d \in Consumer : d # c => worker'[d] = worker[d]
      /\ UNCHANGED <<owner, position, committed, dedup, topic>>
  BY <1>0, ToIdleEffect DEF DedupFails, offsets
<1>2. faults.dedup \in Nat /\ faults'.dedup = faults.dedup + 1
  BY <1>0, FaultEffect DEF DedupFails, StatementFails, FaultCount
<1>3. PICK x : x = <<worker[c].part, worker[c].at>>
  OBVIOUS
<1>4. ASSUME NEW p \in Partition, NEW n \in 1 .. MaxTopic, Behind(p, n)', <<p, n>> # x
      PROVE  Behind(p, n)
  <2>0. owner[p] \in Consumer
    BY TopicFacts
  <2>1. CASE n <= committed'[p]
    BY <1>1, <2>1 DEF Behind
  <2>2. CASE \E d \in Consumer : worker'[d] # Idle /\ worker'[d].part = p /\ n < worker'[d].at
    BY <1>1, <2>2 DEF Behind
  <2>3. CASE /\ n < position'[p]
             /\ ~(worker'[owner[p]].pc = "dedup" /\ worker'[owner[p]].part = p /\ worker'[owner[p]].at = n)
    <3>1. ~(worker[owner[p]].pc = "dedup" /\ worker[owner[p]].part = p /\ worker[owner[p]].at = n)
      BY <1>1, <1>3, <1>4, <2>0, <2>3
    <3>. QED
      BY <1>1, <2>3, <3>1 DEF Behind
  <2>. QED
    BY <1>1, <1>4, <2>1, <2>2, <2>3 DEF Behind
<1>. PICK M : M = Missed
  OBVIOUS
<1>5. Missed' \subseteq M \cup {x}
  BY <1>1, <1>4 DEF Missed
<1>6. IsFiniteSet(M) /\ Cardinality(M) \in Nat /\ Cardinality(M) <= faults.dedup
  BY FS_CardinalityType DEF MissedInv
<1>7. IsFiniteSet(M \cup {x}) /\ Cardinality(M \cup {x}) <= faults.dedup + 1
  <2>1. /\ IsFiniteSet(M \cup {x})
        /\ Cardinality(M \cup {x}) = IF x \in M THEN Cardinality(M) ELSE Cardinality(M) + 1
    BY <1>6, FS_AddElement
  <2>. PICK k : k = Cardinality(M)
    OBVIOUS
  <2>2. k \in Nat /\ k <= faults.dedup
    BY <1>6
  <2>. QED
    BY <1>2, <2>1, <2>2
<1>. QED
  BY <1>2, <1>5, <1>7, MissedWithin

LEMMA CrashMissesNothing ==
  ASSUME Shape, MissedInv, NEW c \in Consumer, Crash(c)
  PROVE  MissedInv'
<1>0. worker \in [Consumer -> WorkerState]
  BY DEF Shape
<1>1. /\ worker' = [worker EXCEPT ![c] = Idle]
      /\ \A p \in Partition :
           position'[p] = IF owner[p] = c THEN committed[p] + 1 ELSE position[p]
      /\ faults'.dedup = faults.dedup
      /\ UNCHANGED <<owner, committed, dedup, topic>>
  BY CrashEffect
<1>2. worker'[c] = Idle /\ \A d \in Consumer : d # c => worker'[d] = worker[d]
  BY <1>0, <1>1, ToIdleEffect
<1>3. ASSUME NEW p \in Partition, NEW n \in 1 .. MaxTopic, Behind(p, n)'
      PROVE  Behind(p, n)
  <2>0. owner[p] \in Consumer /\ committed[p] \in Nat
    BY TopicFacts
  <2>1. CASE n <= committed'[p]
    BY <1>1, <2>1 DEF Behind
  <2>2. CASE \E d \in Consumer : worker'[d] # Idle /\ worker'[d].part = p /\ n < worker'[d].at
    BY <1>2, <2>2 DEF Behind
  <2>3. CASE /\ n < position'[p]
             /\ ~(worker'[owner[p]].pc = "dedup" /\ worker'[owner[p]].part = p /\ worker'[owner[p]].at = n)
    <3>1. CASE owner[p] = c
      <4>1. n <= committed[p]
        BY <1>1, <2>0, <2>3, <3>1
      <4>. QED
        BY <4>1 DEF Behind
    <3>2. CASE owner[p] # c
      BY <1>1, <1>2, <2>0, <2>3, <3>2 DEF Behind
    <3>. QED
      BY <3>1, <3>2
  <2>. QED
    BY <1>1, <1>3, <2>1, <2>2, <2>3 DEF Behind
<1>. QED
  BY <1>1, <1>3, MissedStays

LEMMA RebalanceMissesNothing ==
  ASSUME Shape, MissedInv, NEW q \in Partition, NEW c \in Consumer, Rebalance(q, c)
  PROVE  MissedInv'
<1>1. /\ \A p \in Partition : p # q => owner'[p] = owner[p] /\ position'[p] = position[p]
      /\ position'[q] = committed[q] + 1
      /\ faults'.dedup = faults.dedup
      /\ UNCHANGED <<committed, dedup, topic, worker>>
  BY RebalanceEffect
<1>2. ASSUME NEW p \in Partition, NEW n \in 1 .. MaxTopic, Behind(p, n)'
      PROVE  Behind(p, n)
  <2>0. committed[p] \in Nat
    BY TopicFacts
  <2>1. CASE p = q
    <3>1. n < committed[p] + 1 => n <= committed[p]
      BY <2>0
    <3>. QED
      BY <1>1, <1>2, <2>1, <3>1 DEF Behind
  <2>2. CASE p # q
    BY <1>1, <1>2, <2>2 DEF Behind
  <2>. QED
    BY <2>1, <2>2
<1>. QED
  BY <1>1, <1>2, MissedStays

\* A message that arrives is behind nobody.
LEMMA ArriveMissesNothing ==
  ASSUME Shape, MissedInv, NEW ev \in Event, Arrive(ev)
  PROVE  MissedInv'
<1>1. /\ \A p \in Partition :
           /\ \A n \in DOMAIN topic[p] : n \in DOMAIN topic'[p] /\ topic'[p][n] = topic[p][n]
           /\ \A n \in DOMAIN topic'[p] : n \in DOMAIN topic[p] \/ n = Len(topic[p]) + 1
      /\ UNCHANGED <<owner, position, committed, takenOver, faults, dedup, worker>>
  BY ArriveEffect
<1>2. \A p, n : Behind(p, n)' <=> Behind(p, n)
  BY <1>1 DEF Behind
<1>3. ASSUME NEW p \in Partition, Behind(p, Len(topic[p]) + 1)
      PROVE  FALSE
  <2>1. /\ Len(topic[p]) \in Nat
        /\ committed[p] \in Nat /\ committed[p] <= Len(topic[p])
        /\ position[p] \in Nat /\ position[p] <= Len(topic[p]) + 1
    BY TopicFacts
  <2>2. PICK d \in Consumer : worker[d] # Idle /\ worker[d].part = p /\ Len(topic[p]) + 1 < worker[d].at
    BY <1>3, <2>1 DEF Behind
  <2>3. worker[d].at \in 1 .. Len(topic[p])
    BY <2>2, MessageFacts, TopicFacts
  <2>. QED
    BY <2>1, <2>2, <2>3
<1>. PICK M : M = Missed
  OBVIOUS
<1>4. Missed' \subseteq M
  BY <1>1, <1>2, <1>3 DEF Missed
<1>5. IsFiniteSet(M) /\ Cardinality(M) <= faults.dedup /\ faults.dedup \in Nat
  BY DEF MissedInv, Shape, FaultCount
<1>. QED
  BY <1>1, <1>4, <1>5, MissedWithin

LEMMA MissedStep == OnceInv /\ MissedInv /\ [AsNext]_asVars => MissedInv'
<1>. SUFFICES ASSUME OnceInv, MissedInv, [AsNext]_asVars
              PROVE  MissedInv'
  OBVIOUS
<1>a. Shape /\ worker \in [Consumer -> WorkerState] /\ faults \in FaultCount
  BY DEF OnceInv, Shape
<1>b. ASSUME UNCHANGED <<owner, position, committed, takenOver, faults, dedup, topic, worker>>
      PROVE  MissedInv'
  BY <1>b DEF MissedInv, Missed, Behind
<1>1. CASE UNCHANGED asVars
  BY <1>b, <1>1 DEF asVars
<1>2. ASSUME NEW c \in Consumer, Dedup(c)
      PROVE  MissedInv'
  <2>1. worker[c] # Idle /\ \E pc \in {"read", "write", "ack"} : WorkerTo(c, pc)
    BY <1>a, <1>2, WorkerFacts DEF Dedup
  <2>2. /\ dedup \subseteq dedup' /\ Message(c).request \in dedup'
        /\ UNCHANGED <<owner, position, committed, takenOver, faults, topic>>
    BY <1>2 DEF Dedup, groupVars, offsets
  <2>. QED
    BY <1>a, <2>1, <2>2, GoingOnMissesNothing
<1>3. ASSUME NEW c \in Consumer, ReadAsset(c) \/ ChangeFails(c) \/ ChangeStatus(c)
      PROVE  MissedInv'
  <2>1. worker[c] # Idle /\ worker[c].pc # "dedup" /\ \E pc \in {"read", "write", "ack"} : WorkerTo(c, pc)
    BY <1>a, <1>3, WorkerFacts DEF ReadAsset, ChangeFails, ChangeStatus
  <2>2. faults'.dedup = faults.dedup \/ faults'.dedup = faults.dedup + 1
    BY <1>a, <1>3, FaultEffect DEF ReadAsset, ChangeFails, ChangeStatus, StatementFails, groupVars
  <2>3. UNCHANGED <<owner, position, committed, dedup, topic>>
    BY <1>3 DEF ReadAsset, ChangeFails, ChangeStatus, groupVars, offsets
  <2>. QED
    BY <1>a, <2>1, <2>2, <2>3, GoingOnMissesNothing
<1>4. ASSUME NEW c \in Consumer, Ack(c)
      PROVE  MissedInv'
  BY <1>a, <1>4, AckEffect, LettingGoMissesNothing
<1>5. ASSUME NEW c \in Consumer, AckFails(c)
      PROVE  MissedInv'
  <2>1. faults'.dedup = faults.dedup
    BY <1>a, <1>5, FaultEffect DEF AckFails, StatementFails
  <2>. QED
    BY <1>5, <2>1, LettingGoMissesNothing DEF AckFails, offsets
<1>6. ASSUME NEW c \in Consumer, ConsumerFault(c)
      PROVE  MissedInv'
  BY <1>a, <1>3, <1>5, <1>6, DedupFailsMissesOne, CrashMissesNothing, RebalanceMissesNothing
  DEF ConsumerFault
<1>7. CASE ApiStep
  BY <1>a, <1>b, <1>7, ApiEffect
<1>. QED
  BY <1>a, <1>1, <1>2, <1>3, <1>4, <1>6, <1>7, ArriveMissesNothing, FetchMissesNothing
  DEF AsNext, WorkerStep

LEMMA ForgottenInit == AsInit => ForgottenInv
<1>. SUFFICES ASSUME AsInit
              PROVE  ForgottenInv
  OBVIOUS
<1>1. Forgotten = {}
  BY DEF AsInit, Forgotten
<1>2. IsFiniteSet(Forgotten) /\ Cardinality(Forgotten) = 0
  BY <1>1, FS_EmptySet
<1>3. faults.change + faults.crash = 0
  BY DEF AsInit
<1>. QED
  BY <1>2, <1>3 DEF ForgottenInv

LEMMA ForgottenWithin ==
  ASSUME NEW M, IsFiniteSet(M), Forgotten' \subseteq M, faults' \in FaultCount,
         Cardinality(M) <= faults'.change + faults'.crash
  PROVE  ForgottenInv'
<1>1. PICK T : T = Forgotten'
  OBVIOUS
<1>2. T \in SUBSET M
  BY <1>1
<1>3. IsFiniteSet(T) /\ Cardinality(T) <= Cardinality(M)
  BY <1>2, FS_Subset
<1>4. Cardinality(T) \in Nat /\ Cardinality(M) \in Nat
  BY <1>3, FS_CardinalityType
<1>5. faults'.change \in Nat /\ faults'.crash \in Nat
  BY DEF FaultCount
<1>. QED
  BY <1>1, <1>3, <1>4, <1>5 DEF ForgottenInv

\* A step that forgets nothing.
LEMMA ForgottenStays ==
  ASSUME Shape, ForgottenInv, Forgotten' \subseteq Forgotten, faults' \in FaultCount,
         faults'.change = faults.change, faults'.crash = faults.crash
  PROVE  ForgottenInv'
<1>. PICK M : M = Forgotten
  OBVIOUS
<1>1. IsFiniteSet(M) /\ Cardinality(M) <= faults'.change + faults'.crash
  BY DEF ForgottenInv
<1>. QED
  BY <1>1, ForgottenWithin

\* A failure that makes the group forget one request at most.
LEMMA OneForgotten ==
  ASSUME Shape, ForgottenInv, NEW x, Forgotten' \subseteq Forgotten \cup {x},
         faults' \in FaultCount,
         \/ faults'.change = faults.change + 1 /\ faults'.crash = faults.crash
         \/ faults'.change = faults.change /\ faults'.crash = faults.crash + 1
  PROVE  ForgottenInv'
<1>. PICK M : M = Forgotten
  OBVIOUS
<1>1. IsFiniteSet(M) /\ Cardinality(M) \in Nat /\ Cardinality(M) <= faults.change + faults.crash
  BY FS_CardinalityType DEF ForgottenInv
<1>2. /\ IsFiniteSet(M \cup {x})
      /\ Cardinality(M \cup {x}) = IF x \in M THEN Cardinality(M) ELSE Cardinality(M) + 1
  BY <1>1, FS_AddElement
<1>. PICK k \in Nat : k = Cardinality(M)
  BY <1>1
<1>3. faults.change \in Nat /\ faults.crash \in Nat
  BY DEF Shape, FaultCount
<1>4. Cardinality(M \cup {x}) <= faults'.change + faults'.crash
  BY <1>1, <1>2, <1>3
<1>. QED
  BY <1>2, <1>4, ForgottenWithin

\* What a step must leave alone to forget nothing but x.
LEMMA ForgottenWhen ==
  ASSUME NEW X, dedup' = dedup, refused \subseteq refused',
         \A a \in Asset : AppliedTo(a) \subseteq AppliedTo(a)',
         \A c \in Consumer : Applying(c) /\ Message(c).request \notin X =>
           \/ Applying(c)' /\ Message(c)' = Message(c)
           \/ Message(c).request \in refused'
           \/ \E a \in Asset : Message(c).request \in AppliedTo(a)'
  PROVE  Forgotten' \subseteq Forgotten \cup X
<1>. SUFFICES ASSUME NEW q \in Forgotten', q \notin X
              PROVE  q \in Forgotten
  OBVIOUS
<1>1. /\ q \in dedup /\ q \notin refused' /\ q \notin refused
      /\ \A a \in Asset : q \notin AppliedTo(a)'
      /\ \A a \in Asset : q \notin AppliedTo(a)
      /\ \A c \in Consumer : Applying(c)' => Message(c)'.request # q
  BY DEF Forgotten, Applying
<1>2. \A c \in Consumer : Applying(c) => Message(c).request # q
  BY <1>1
<1>. QED
  BY <1>1, <1>2 DEF Forgotten, Applying

LEMMA DedupForgetsNothing ==
  ASSUME Shape, ForgottenInv, NEW c \in Consumer, Dedup(c)
  PROVE  ForgottenInv'
<1>0. worker \in [Consumer -> WorkerState] /\ worker[c].pc = "dedup" /\ worker[c] # Idle
  BY WorkerFacts DEF Shape, Dedup
<1>. DEFINE new == IF IsDuplicate(Message(c)) THEN "ack" ELSE "read"
<1>1. WorkerTo(c, new) /\ dedup' = dedup \cup {Message(c).request}
      /\ UNCHANGED <<applied, refused, faults, topic>>
  BY DEF Dedup, apiVars, groupVars
<1>2. /\ worker'[c].pc = new /\ worker'[c].part = worker[c].part /\ worker'[c].at = worker[c].at
      /\ \A d \in Consumer : d # c => worker'[d] = worker[d]
  BY <1>0, <1>1, WorkerToEffect
<1>3. \A d \in Consumer : Message(d)' = Message(d)
  BY <1>1, <1>2, MessageStays
<1>4. Forgotten' \subseteq Forgotten
  <2>. SUFFICES ASSUME NEW q \in Forgotten'
                PROVE  q \in Forgotten
    OBVIOUS
  <2>1. /\ q \in dedup' /\ q \notin refused
        /\ \A a \in Asset : q \notin AppliedTo(a)
        /\ \A d \in Consumer : worker'[d].pc \in {"read", "write"} => Message(d).request # q
    BY <1>1, <1>3 DEF Forgotten, AppliedTo
  <2>2. q \in dedup
    BY <1>1, <1>2, <2>1 DEF IsDuplicate
  <2>3. \A d \in Consumer : worker[d].pc \in {"read", "write"} => Message(d).request # q
    BY <1>0, <1>2, <2>1
  <2>. QED
    BY <2>1, <2>2, <2>3 DEF Forgotten
<1>5. faults' \in FaultCount /\ faults' = faults
  BY <1>1 DEF Shape
<1>. QED
  BY <1>4, <1>5, ForgottenStays

LEMMA ReadForgetsNothing ==
  ASSUME Shape, ForgottenInv, NEW c \in Consumer, ReadAsset(c)
  PROVE  ForgottenInv'
<1>1. /\ Message(c)' = Message(c)
      /\ \A d \in Consumer : d # c => worker'[d] = worker[d]
      /\ UNCHANGED <<applied, faults, dedup, topic>>
  BY ReadAssetEffect
<1>2. worker \in [Consumer -> WorkerState] /\ worker[c] # Idle
  BY WorkerFacts DEF Shape, ReadAsset
<1>3. Applying(c)' \/ Message(c).request \in refused'
  <2>1. CASE Accepts(Message(c))
    <3>1. WorkerTo(c, "write")
      BY <2>1 DEF ReadAsset
    <3>2. worker'[c].pc = "write"
      BY <1>2, <3>1, WorkerToEffect
    <3>. QED
      BY <3>2 DEF Applying
  <2>2. CASE ~Accepts(Message(c))
    BY <2>2 DEF ReadAsset
  <2>. QED
    BY <2>1, <2>2
<1>4. refused \subseteq refused'
  BY DEF ReadAsset
<1>5. \A d \in Consumer : d # c => Message(d)' = Message(d)
  BY <1>1, MessageStays
<1>6. \A a \in Asset : AppliedTo(a)' = AppliedTo(a)
  BY <1>1 DEF AppliedTo
<1>7. Forgotten' \subseteq Forgotten \cup {}
  <2>1. \A d \in Consumer : Applying(d) =>
          \/ Applying(d)' /\ Message(d)' = Message(d)
          \/ Message(d).request \in refused'
    BY <1>1, <1>3, <1>5 DEF Applying
  <2>. QED
    BY <1>1, <1>4, <1>6, <2>1, ForgottenWhen
<1>8. faults' \in FaultCount /\ faults' = faults
  BY <1>1 DEF Shape
<1>. QED
  BY <1>7, <1>8, ForgottenStays

LEMMA ChangeForgetsNothing ==
  ASSUME Shape, ForgottenInv, NEW c \in Consumer, ChangeStatus(c)
  PROVE  ForgottenInv'
<1>. PICK ev : ev = Message(c)
  OBVIOUS
<1>1. /\ worker[c].pc = "write" /\ worker[c] # Idle
      /\ WorkerTo(c, "ack")
      /\ applied'[ev.asset] = Append(applied[ev.asset], ev)
      /\ \A a \in Asset : a # ev.asset => applied'[a] = applied[a]
      /\ UNCHANGED <<faults, dedup, topic, refused>>
  BY ChangeEffect
<1>2. ev \in Event /\ ev.asset \in Asset
  BY <1>1, MessageFacts
<1>3. applied[ev.asset] \in Seq(Event)
  BY <1>2 DEF Shape
<1>4. /\ DOMAIN applied'[ev.asset] = DOMAIN applied[ev.asset] \cup {Len(applied[ev.asset]) + 1}
      /\ applied'[ev.asset][Len(applied[ev.asset]) + 1] = ev
      /\ \A i \in DOMAIN applied[ev.asset] : applied'[ev.asset][i] = applied[ev.asset][i]
  BY <1>1, <1>2, <1>3, AppendFacts
<1>5. ev.request \in AppliedTo(ev.asset)'
  BY <1>4 DEF AppliedTo
<1>6. \A a \in Asset : AppliedTo(a) \subseteq AppliedTo(a)'
  BY <1>1, <1>4 DEF AppliedTo
<1>7. \A d \in Consumer : d # c => worker'[d] = worker[d] /\ Message(d)' = Message(d)
  <2>1. \A d \in Consumer : d # c => worker'[d] = worker[d]
    BY <1>1, WorkerToEffect DEF Shape
  <2>. QED
    BY <1>1, <2>1, MessageStays
<1>8. Forgotten' \subseteq Forgotten \cup {}
  <2>1. \A d \in Consumer : Applying(d) =>
          \/ Applying(d)' /\ Message(d)' = Message(d)
          \/ \E a \in Asset : Message(d).request \in AppliedTo(a)'
    BY <1>2, <1>5, <1>7 DEF Applying
  <2>. QED
    BY <1>1, <1>6, <2>1, ForgottenWhen
<1>9. faults' \in FaultCount /\ faults' = faults
  BY <1>1 DEF Shape
<1>. QED
  BY <1>8, <1>9, ForgottenStays

\* A statement of the change that fails, and a crash: the request in hand may be lost.
LEMMA FailureForgetsOne ==
  ASSUME Shape, ForgottenInv, NEW c \in Consumer, ChangeFails(c) \/ Crash(c)
  PROVE  ForgottenInv'
<1>0. worker \in [Consumer -> WorkerState] /\ faults \in FaultCount
  BY DEF Shape
<1>1. UNCHANGED <<applied, dedup, topic, refused>>
  BY DEF ChangeFails, Crash, apiVars
<1>2. /\ faults' \in FaultCount
      /\ \/ faults'.change = faults.change + 1 /\ faults'.crash = faults.crash
         \/ faults'.change = faults.change /\ faults'.crash = faults.crash + 1
  <2>1. CASE ChangeFails(c)
    BY <1>0, <2>1, FaultEffect DEF ChangeFails, StatementFails
  <2>2. CASE Crash(c)
    BY <2>2, CrashEffect
  <2>. QED
    BY <2>1, <2>2
<1>3. \A d \in Consumer : d # c => worker'[d] = worker[d]
  <2>1. CASE ChangeFails(c)
    <3>1. worker[c] # Idle /\ WorkerTo(c, "ack")
      BY <1>0, <2>1, WorkerFacts DEF ChangeFails
    <3>. QED
      BY <1>0, <3>1, WorkerToEffect
  <2>2. CASE Crash(c)
    BY <1>0, <2>2, ToIdleEffect DEF Crash
  <2>. QED
    BY <2>1, <2>2
<1>4. \A d \in Consumer : d # c => Message(d)' = Message(d)
  BY <1>1, <1>3, MessageStays
<1>5. \A a \in Asset : AppliedTo(a)' = AppliedTo(a)
  BY <1>1 DEF AppliedTo
<1>6. Forgotten' \subseteq Forgotten \cup {Message(c).request}
  <2>1. \A d \in Consumer : Applying(d) /\ Message(d).request \notin {Message(c).request} =>
          Applying(d)' /\ Message(d)' = Message(d)
    BY <1>3, <1>4 DEF Applying
  <2>. QED
    BY <1>1, <1>5, <2>1, ForgottenWhen
<1>. QED
  BY <1>2, <1>6, OneForgotten

\* A step after which whoever applies a message goes on with it.
LEMMA OthersForgetNothing ==
  ASSUME Shape, ForgottenInv, UNCHANGED <<applied, dedup, refused>>,
         faults' \in FaultCount, faults'.change = faults.change, faults'.crash = faults.crash,
         \A c \in Consumer : Applying(c) => worker'[c] = worker[c] /\ Message(c)' = Message(c)
  PROVE  ForgottenInv'
<1>1. \A a \in Asset : AppliedTo(a)' = AppliedTo(a)
  BY DEF AppliedTo
<1>2. \A c \in Consumer : Applying(c) => Applying(c)' /\ Message(c)' = Message(c)
  BY DEF Applying
<1>3. Forgotten' \subseteq Forgotten \cup {}
  BY <1>1, <1>2, ForgottenWhen
<1>. QED
  BY <1>3, ForgottenStays

LEMMA ForgottenStep == Shape /\ ForgottenInv /\ [AsNext]_asVars => ForgottenInv'
<1>. SUFFICES ASSUME Shape, ForgottenInv, [AsNext]_asVars
              PROVE  ForgottenInv'
  OBVIOUS
<1>a. worker \in [Consumer -> WorkerState] /\ faults \in FaultCount
  BY DEF Shape
<1>b. ASSUME UNCHANGED <<applied, dedup, refused, faults, topic, worker>>
      PROVE  ForgottenInv'
  BY <1>a, <1>b, OthersForgetNothing DEF Message
<1>c. ASSUME NEW c \in Consumer, ~Applying(c), \A d \in Consumer : d # c => worker'[d] = worker[d],
             UNCHANGED <<applied, dedup, refused, topic>>,
             faults' \in FaultCount, faults'.change = faults.change, faults'.crash = faults.crash
      PROVE  ForgottenInv'
  <2>1. \A d \in Consumer : Applying(d) => worker'[d] = worker[d] /\ Message(d)' = Message(d)
    BY <1>c, MessageStays
  <2>. QED
    BY <1>c, <2>1, OthersForgetNothing
<1>1. CASE UNCHANGED asVars
  BY <1>b, <1>1 DEF asVars
<1>2. ASSUME NEW ev \in Event, Arrive(ev)
      PROVE  ForgottenInv'
  <2>1. UNCHANGED <<applied, faults, dedup, worker, refused>>
    BY <1>2, ArriveEffect
  <2>2. ASSUME NEW c \in Consumer, Applying(c)
        PROVE  worker'[c] = worker[c] /\ Message(c)' = Message(c)
    <3>1. worker[c] # Idle
      BY <2>2 DEF Applying, Idle
    <3>2. worker[c].part \in Partition /\ worker[c].at \in DOMAIN topic[worker[c].part]
      BY <3>1, MessageFacts
    <3>. QED
      BY <1>2, <2>1, <3>2, ArriveEffect DEF Message
  <2>. QED
    BY <1>a, <2>1, <2>2, OthersForgetNothing
<1>3. ASSUME NEW c \in Consumer, NEW p \in Partition, Fetch(c, p)
      PROVE  ForgottenInv'
  <2>1. /\ worker[c] = Idle
        /\ \A d \in Consumer : d # c => worker'[d] = worker[d]
        /\ UNCHANGED <<applied, faults, dedup, topic, refused>>
    BY <1>3, FetchEffect
  <2>2. ~Applying(c)
    BY <2>1 DEF Applying, Idle
  <2>. QED
    BY <1>a, <1>c, <2>1, <2>2
<1>4. ASSUME NEW c \in Consumer, Ack(c) \/ AckFails(c) \/ DedupFails(c)
      PROVE  ForgottenInv'
  <2>1. ~Applying(c)
    BY <1>4 DEF Ack, AckFails, DedupFails, Applying
  <2>2. \A d \in Consumer : d # c => worker'[d] = worker[d]
    BY <1>a, <1>4, ToIdleEffect DEF Ack, AckFails, DedupFails
  <2>3. UNCHANGED <<applied, dedup, refused, topic>>
    BY <1>4 DEF Ack, AckFails, DedupFails, apiVars
  <2>4. faults' \in FaultCount /\ faults'.change = faults.change /\ faults'.crash = faults.crash
    BY <1>a, <1>4, FaultEffect DEF Ack, AckFails, DedupFails, StatementFails
  <2>. QED
    BY <1>c, <2>1, <2>2, <2>3, <2>4
<1>5. ASSUME NEW c \in Consumer, NEW p \in Partition, Rebalance(p, c)
      PROVE  ForgottenInv'
  <2>1. /\ UNCHANGED <<applied, dedup, topic, worker, refused>>
        /\ faults' \in FaultCount /\ faults'.change = faults.change /\ faults'.crash = faults.crash
    BY <1>5, RebalanceEffect
  <2>2. \A d \in Consumer : worker'[d] = worker[d] /\ Message(d)' = Message(d)
    BY <2>1 DEF Message
  <2>. QED
    BY <2>1, <2>2, OthersForgetNothing
<1>6. CASE ApiStep
  BY <1>b, <1>6, ApiEffect
<1>7. ASSUME NEW c \in Consumer, WorkerStep(c)
      PROVE  ForgottenInv'
  BY <1>4, <1>7, DedupForgetsNothing, ReadForgetsNothing, ChangeForgetsNothing DEF WorkerStep
<1>8. ASSUME NEW c \in Consumer, ConsumerFault(c)
      PROVE  ForgottenInv'
  BY <1>4, <1>5, <1>8, FailureForgetsOne DEF ConsumerFault
<1>. QED
  BY <1>1, <1>2, <1>3, <1>6, <1>7, <1>8 DEF AsNext

\* The group acknowledges past a message whose dedup row was never written only as
\* often as that insert has failed, and forgets a recorded event only as often as a
\* statement of its change has failed or a process has died: no rebalance, late
\* acknowledgement of a former owner or failed acknowledgement loses one.
THEOREM LossesExplainedHolds == AsSpec => []LossesExplained
<1>1. AsInit => OnceInv /\ MissedInv /\ ForgottenInv
  BY ShapeInit, OnceInit, MissedInit, ForgottenInit DEF OnceInv
<1>2. OnceInv /\ MissedInv /\ ForgottenInv => LossesExplained
  <2>. SUFFICES ASSUME OnceInv, MissedInv, ForgottenInv
                PROVE  LossesExplained
    OBVIOUS
  <2>1. ASSUME NEW p \in Partition, NEW n \in 1 .. MaxTopic, n <= committed[p]
        PROVE  n \in DOMAIN topic[p] /\ Behind(p, n)
    BY <2>1, TopicFacts DEF OnceInv, Behind
  <2>2. Unrecorded \in SUBSET Missed
    BY <2>1 DEF Unrecorded, Missed
  <2>3. IsFiniteSet(Unrecorded) /\ Cardinality(Unrecorded) <= Cardinality(Missed)
    BY <2>2, FS_Subset DEF MissedInv
  <2>4. Cardinality(Unrecorded) \in Nat /\ Cardinality(Missed) \in Nat /\ faults.dedup \in Nat
    BY <2>3, FS_CardinalityType DEF MissedInv, OnceInv, Shape, FaultCount
  <2>. QED
    BY <2>3, <2>4 DEF MissedInv, ForgottenInv, LossesExplained
<1>3. OnceInv => Shape
  BY DEF OnceInv
<1>. QED
  BY <1>1, <1>2, <1>3, OnceStep, MissedStep, ForgottenStep, PTL DEF AsSpec
-------------------------------------------------------------------------------
(***************************************************************************)
(* The ledger shows the last event applied                                 *)
(***************************************************************************)
LEMMA LedgerInit == AsInit => LedgerInv
<1>. SUFFICES ASSUME AsInit
              PROVE  LedgerInv
  OBVIOUS
<1>1. ledger = Seed /\ DOMAIN ledger \subseteq Asset
  BY SeedAssumption DEF AsInit
<1>2. \A a \in Asset : applied[a] = << >> /\ Len(applied[a]) + 1 = 1
  BY DEF AsInit
<1>3. \A c \in Consumer : worker[c].pc # "write"
  BY DEF AsInit, Idle
<1>. QED
  BY <1>1, <1>2, <1>3 DEF LedgerInv, StatusBefore, UserBefore

\* A step that writes no row and appends nothing, and after which an instance is
\* about to write only if it was, or has just read the row.
LEMMA LedgerStays ==
  ASSUME LedgerInv, ledger' = ledger, applied' = applied,
         \A c \in Consumer :
           worker'[c].pc = "write" =>
             \/ worker[c].pc = "write" /\ Message(c)' = Message(c)
             \/ Message(c)'.asset \in DOMAIN ledger
  PROVE  LedgerInv'
BY DEF LedgerInv, StatusBefore, UserBefore

\* What an instance about to write has in hand after a step of another kind than its
\* own read and its own fetch.
LEMMA InHandStays ==
  ASSUME Shape, [AsNext]_asVars, NEW c \in Consumer, worker'[c].pc = "write", ~ReadAsset(c)
  PROVE  /\ worker[c].pc = "write"
         /\ worker'[c] = worker[c]
         /\ Message(c)' = Message(c)
<1>a. worker \in [Consumer -> WorkerState]
  BY DEF Shape
<1>b. ASSUME NEW d \in Consumer, worker' = [worker EXCEPT ![d] = Idle]
      PROVE  worker'[c] = worker[c]
  BY <1>a, <1>b, ToIdleEffect
<1>c. ASSUME NEW d \in Consumer, worker[d] # Idle, NEW pc \in {"dedup", "read", "write", "ack"},
             pc # "write" \/ d # c, WorkerTo(d, pc)
      PROVE  worker'[c] = worker[c]
  BY <1>a, <1>c, WorkerToEffect
<1>1. worker'[c] = worker[c]
  <2>1. CASE UNCHANGED asVars
    BY <2>1 DEF asVars
  <2>2. ASSUME NEW ev \in Event, Arrive(ev)
        PROVE  worker'[c] = worker[c]
    BY <2>2, ArriveEffect
  <2>3. ASSUME NEW d \in Consumer, NEW p \in Partition, Fetch(d, p)
        PROVE  worker'[c] = worker[c]
    BY <2>3, FetchEffect
  <2>4. ASSUME NEW d \in Consumer, Dedup(d)
        PROVE  worker'[c] = worker[c]
    <3>1. worker[d] # Idle /\ \E pc \in {"read", "ack"} : WorkerTo(d, pc)
      BY <1>a, <2>4, WorkerFacts DEF Dedup
    <3>. QED
      BY <1>c, <3>1
  <2>5. ASSUME NEW d \in Consumer, ReadAsset(d)
        PROVE  worker'[c] = worker[c]
    <3>1. worker[d] # Idle /\ d # c /\ \E pc \in {"write", "ack"} : WorkerTo(d, pc)
      BY <1>a, <2>5, WorkerFacts DEF ReadAsset
    <3>. QED
      BY <1>c, <3>1
  <2>6. ASSUME NEW d \in Consumer, ChangeStatus(d) \/ ChangeFails(d)
        PROVE  worker'[c] = worker[c]
    <3>1. worker[d] # Idle /\ WorkerTo(d, "ack")
      BY <1>a, <2>6, WorkerFacts DEF ChangeStatus, ChangeFails
    <3>. QED
      BY <1>c, <3>1
  <2>7. ASSUME NEW d \in Consumer, Ack(d) \/ DedupFails(d) \/ AckFails(d) \/ Crash(d)
        PROVE  worker'[c] = worker[c]
    BY <1>b, <2>7 DEF Ack, DedupFails, AckFails, Crash
  <2>8. ASSUME NEW d \in Consumer, NEW p \in Partition, Rebalance(p, d)
        PROVE  worker'[c] = worker[c]
    BY <2>8, RebalanceEffect
  <2>9. CASE ApiStep
    BY <2>9, ApiEffect
  <2>. QED
    BY <2>1, <2>2, <2>3, <2>4, <2>5, <2>6, <2>7, <2>8, <2>9 DEF AsNext, WorkerStep, ConsumerFault
<1>2. worker[c].pc = "write" /\ worker[c] # Idle
  BY <1>1, <1>a, WorkerFacts
<1>3. worker[c].part \in Partition /\ worker[c].at \in DOMAIN topic[worker[c].part]
  BY <1>2, MessageFacts
<1>4. topic'[worker[c].part][worker[c].at] = topic[worker[c].part][worker[c].at]
  <2>1. CASE \E ev \in Event : Arrive(ev)
    BY <1>3, <2>1, ArriveEffect
  <2>2. CASE ~\E ev \in Event : Arrive(ev)
    <3>1. UNCHANGED topic
      BY <2>2 DEF AsNext, asVars, Fetch, WorkerStep, Dedup, ReadAsset, ChangeStatus, Ack, ConsumerFault,
                  DedupFails, ChangeFails, AckFails, Crash, Rebalance, ApiStep, CreateAsset,
                  ReadForDelete, ReadForUpdate, WriteAsset, AbandonSession
    <3>. QED
      BY <3>1
  <2>. QED
    BY <2>1, <2>2
<1>. QED
  BY <1>1, <1>2, <1>4 DEF Message

LEMMA ChangeLedger ==
  ASSUME Shape, LedgerInv, NEW c \in Consumer, ChangeStatus(c)
  PROVE  LedgerInv'
<1>. PICK ev : ev = Message(c)
  OBVIOUS
<1>. DEFINE n == Len(applied[ev.asset])
<1>1. /\ worker[c].pc = "write" /\ worker[c] # Idle
      /\ DOMAIN ledger' = DOMAIN ledger
      /\ \A a \in DOMAIN ledger :
           /\ ledger'[a].status = IF a = ev.asset THEN ev.target ELSE ledger[a].status
           /\ ledger'[a].user = IF a = ev.asset THEN ev.user ELSE ledger[a].user
      /\ applied' \in [Asset -> Seq(Event)]
      /\ applied'[ev.asset] = Append(applied[ev.asset], ev)
      /\ \A a \in Asset : a # ev.asset => applied'[a] = applied[a]
  BY ChangeEffect
<1>2. ev \in Event /\ ev.asset \in Asset /\ ev.asset \in DOMAIN ledger
      /\ DOMAIN ledger \subseteq Asset
      /\ applied[ev.asset] \in Seq(Event)
  BY <1>1, MessageFacts DEF Shape, LedgerInv
<1>3. /\ Len(applied'[ev.asset]) = n + 1 /\ n \in Nat
      /\ DOMAIN applied'[ev.asset] = DOMAIN applied[ev.asset] \cup {n + 1}
      /\ applied'[ev.asset][n + 1] = ev
      /\ \A i \in DOMAIN applied[ev.asset] : applied'[ev.asset][i] = applied[ev.asset][i]
  BY <1>1, <1>2, AppendFacts
<1>4. \A a \in Asset \ DOMAIN ledger' : applied'[a] = << >>
  BY <1>1, <1>2 DEF LedgerInv
<1>5. ASSUME NEW a \in Asset, NEW i \in DOMAIN applied'[a]
      PROVE  applied'[a][i].asset = a
  <2>1. CASE a = ev.asset /\ i = n + 1
    BY <1>3, <2>1
  <2>2. CASE a = ev.asset /\ i # n + 1
    <3>1. i \in DOMAIN applied[a] /\ applied'[a][i] = applied[a][i]
      BY <1>3, <2>2
    <3>. QED
      BY <3>1 DEF LedgerInv
  <2>3. CASE a # ev.asset
    BY <1>1, <2>3 DEF LedgerInv
  <2>. QED
    BY <2>1, <2>2, <2>3
<1>6. ASSUME NEW a \in DOMAIN ledger'
      PROVE  /\ ledger'[a].status = StatusBefore(a, Len(applied[a]) + 1)'
             /\ ledger'[a].user = UserBefore(a, Len(applied[a]) + 1)'
  <2>1. CASE a = ev.asset
    <3>1. Len(applied'[a]) + 1 > 1 /\ (Len(applied'[a]) + 1) - 1 = n + 1
      BY <1>3, <2>1
    <3>2. StatusBefore(a, Len(applied[a]) + 1)' = ev.target
      BY <1>3, <2>1, <3>1 DEF StatusBefore
    <3>3. UserBefore(a, Len(applied[a]) + 1)' = ev.user
      BY <1>3, <2>1, <3>1 DEF UserBefore
    <3>. QED
      BY <1>1, <2>1, <3>2, <3>3
  <2>2. CASE a # ev.asset
    BY <1>1, <1>2, <2>2 DEF LedgerInv, StatusBefore, UserBefore
  <2>. QED
    BY <2>1, <2>2
<1>7. ASSUME NEW d \in Consumer, worker'[d].pc = "write"
      PROVE  Message(d)'.asset \in DOMAIN ledger'
  <2>1. ~ReadAsset(d) /\ [AsNext]_asVars
    <3>1. applied' # applied
      BY <1>2, <1>3
    <3>. QED
      BY <3>1 DEF ReadAsset, apiVars, AsNext, WorkerStep
  <2>2. worker[d].pc = "write" /\ Message(d)' = Message(d)
    BY <1>7, <2>1, InHandStays
  <2>. QED
    BY <1>1, <2>2 DEF LedgerInv
<1>. QED
  BY <1>1, <1>4, <1>5, <1>6, <1>7 DEF LedgerInv
LEMMA LedgerStep == Shape /\ LedgerInv /\ [AsNext]_asVars => LedgerInv'
<1>. SUFFICES ASSUME Shape, LedgerInv, [AsNext]_asVars
              PROVE  LedgerInv'
  OBVIOUS
<1>1. CASE \E c \in Consumer : ChangeStatus(c)
  BY <1>1, ChangeLedger
<1>2. CASE \E c \in Consumer : ReadAsset(c)
  <2>1. PICK c \in Consumer : ReadAsset(c)
    BY <1>2
  <2>2. UNCHANGED <<ledger, applied>>
    BY <2>1, ReadAssetEffect
  <2>3. ASSUME NEW d \in Consumer, worker'[d].pc = "write"
        PROVE  \/ worker[d].pc = "write" /\ Message(d)' = Message(d)
               \/ Message(d)'.asset \in DOMAIN ledger
    <3>1. CASE ReadAsset(d)
      BY <2>3, <3>1, ReadAssetEffect DEF Accepts
    <3>2. CASE ~ReadAsset(d)
      BY <2>3, <3>2, InHandStays
    <3>. QED
      BY <3>1, <3>2
  <2>. QED
    BY <2>2, <2>3, LedgerStays
<1>3. CASE ApiStep
  <2>1. /\ DOMAIN ledger \subseteq DOMAIN ledger' /\ DOMAIN ledger' \subseteq Asset
        /\ \A a \in DOMAIN ledger :
             ledger'[a].status = ledger[a].status /\ ledger'[a].user = ledger[a].user
        /\ \A a \in DOMAIN ledger' \ DOMAIN ledger :
             ledger'[a].status = InStock /\ ledger'[a].user = Nobody
        /\ UNCHANGED <<topic, worker, applied>>
    BY <1>3, ApiEffect
  <2>2. ASSUME NEW a \in DOMAIN ledger'
        PROVE  /\ ledger'[a].status = StatusBefore(a, Len(applied[a]) + 1)'
               /\ ledger'[a].user = UserBefore(a, Len(applied[a]) + 1)'
    <3>1. CASE a \in DOMAIN ledger
      BY <2>1, <3>1 DEF LedgerInv, StatusBefore, UserBefore
    <3>2. CASE a \notin DOMAIN ledger
      <4>1. applied'[a] = << >> /\ a \notin DOMAIN Seed
        BY <2>1, <3>2 DEF LedgerInv
      <4>2. ~(Len(applied'[a]) + 1 > 1)
        BY <4>1
      <4>. QED
        BY <2>1, <3>2, <4>1, <4>2 DEF StatusBefore, UserBefore
    <3>. QED
      BY <3>1, <3>2
  <2>. QED
    BY <2>1, <2>2 DEF LedgerInv, Message
<1>4. CASE /\ ~\E c \in Consumer : ChangeStatus(c) \/ ReadAsset(c)
           /\ ~ApiStep
  <2>1. UNCHANGED <<ledger, applied>>
    BY <1>4 DEF AsNext, asVars, Arrive, Fetch, WorkerStep, Dedup, Ack, ConsumerFault,
                DedupFails, ChangeFails, AckFails, Crash, Rebalance, apiVars
  <2>2. \A d \in Consumer : worker'[d].pc = "write" => worker[d].pc = "write" /\ Message(d)' = Message(d)
    BY <1>4, InHandStays
  <2>. QED
    BY <2>1, <2>2, LedgerStays
<1>. QED
  BY <1>1, <1>2, <1>3, <1>4

-------------------------------------------------------------------------------
(***************************************************************************)
(* Legal changes only, of assets that were not taken over                  *)
(***************************************************************************)
LEMMA OwnInit == AsInit => OwnInv
<1>. SUFFICES ASSUME AsInit
              PROVE  OwnInv
  OBVIOUS
<1>1. \A p \in Partition : DOMAIN topic[p] = {}
  BY DEF AsInit
<1>2. \A c \in Consumer : ~InHand(c)
  BY DEF AsInit, InHand, Idle
<1>. QED
  BY <1>1, <1>2 DEF OwnInv

\* A step that is no rebalance leaves the owners and the assets taken over; what an
\* instance has in hand afterwards it had before, or has just fetched as the owner.
LEMMA HandStays ==
  ASSUME Shape, [AsNext]_asVars, ~\E p \in Partition, d \in Consumer : Rebalance(p, d)
  PROVE  /\ UNCHANGED <<owner, takenOver>>
         /\ \A c \in Consumer : InHand(c)' =>
              \/ owner[worker'[c].part] = c
              \/ InHand(c) /\ worker'[c].part = worker[c].part /\ worker'[c].at = worker[c].at
<1>. DEFINE Stays ==
       \A c \in Consumer : InHand(c)' =>
         \/ owner[worker'[c].part] = c
         \/ InHand(c) /\ worker'[c].part = worker[c].part /\ worker'[c].at = worker[c].at
<1>a. worker \in [Consumer -> WorkerState]
  BY DEF Shape
<1>b. ASSUME NEW d \in Consumer, worker' = [worker EXCEPT ![d] = Idle]
      PROVE  Stays
  BY <1>a, <1>b, ToIdleEffect DEF InHand
<1>c. ASSUME NEW d \in Consumer, InHand(d), worker[d] # Idle,
             NEW pc \in {"dedup", "read", "write", "ack"}, WorkerTo(d, pc)
      PROVE  Stays
  BY <1>a, <1>c, WorkerToEffect DEF InHand
<1>d. ASSUME UNCHANGED worker
      PROVE  Stays
  BY <1>d DEF InHand
<1>1. CASE UNCHANGED asVars
  BY <1>1, <1>d DEF asVars
<1>2. ASSUME NEW ev \in Event, Arrive(ev)
      PROVE  UNCHANGED <<owner, takenOver>> /\ Stays
  BY <1>2, <1>d, ArriveEffect
<1>3. ASSUME NEW d \in Consumer, NEW p \in Partition, Fetch(d, p)
      PROVE  UNCHANGED <<owner, takenOver>> /\ Stays
  BY <1>3, FetchEffect DEF InHand
<1>4. ASSUME NEW d \in Consumer, Dedup(d) \/ ReadAsset(d) \/ ChangeStatus(d) \/ ChangeFails(d)
      PROVE  UNCHANGED <<owner, takenOver>> /\ Stays
  <2>1. InHand(d)
    BY <1>4 DEF InHand, Dedup, ReadAsset, ChangeStatus, ChangeFails
  <2>2. worker[d] # Idle
    BY <2>1 DEF InHand, Idle
  <2>3. \E pc \in {"dedup", "read", "write", "ack"} : WorkerTo(d, pc)
    BY <1>4 DEF Dedup, ReadAsset, ChangeStatus, ChangeFails
  <2>4. UNCHANGED <<owner, takenOver>>
    BY <1>4 DEF Dedup, ReadAsset, ChangeStatus, ChangeFails, groupVars, offsets
  <2>. QED
    BY <1>c, <2>1, <2>2, <2>3, <2>4
<1>5. ASSUME NEW d \in Consumer, Ack(d) \/ DedupFails(d) \/ AckFails(d) \/ Crash(d)
      PROVE  UNCHANGED <<owner, takenOver>> /\ Stays
  BY <1>b, <1>5 DEF Ack, DedupFails, AckFails, Crash, offsets
<1>6. CASE ApiStep
  BY <1>6, <1>d, ApiEffect
<1>. QED
  BY <1>1, <1>2, <1>3, <1>4, <1>5, <1>6, <1>d DEF AsNext, WorkerStep, ConsumerFault, asVars

\* Every message lies in the partition of its event.
LEMMA PartitionStays ==
  ASSUME Shape, OwnInv, [AsNext]_asVars
  PROVE  \A p \in Partition : \A n \in DOMAIN topic'[p] : PartitionOf[topic'[p][n]] = p
<1>1. CASE \E ev \in Event : Arrive(ev)
  <2>1. PICK ev \in Event : Arrive(ev)
    BY <1>1
  <2>2. ASSUME NEW p \in Partition, NEW n \in DOMAIN topic'[p]
        PROVE  PartitionOf[topic'[p][n]] = p
    <3>1. topic' = [topic EXCEPT ![PartitionOf[ev]] = Append(topic[PartitionOf[ev]], ev)]
      BY <2>1 DEF Arrive
    <3>2. topic \in [Partition -> Seq(Event)]
      BY DEF Shape
    <3>3. CASE p = PartitionOf[ev]
      <4>1. topic'[p] = Append(topic[p], ev) /\ topic[p] \in Seq(Event)
        BY <3>1, <3>2, <3>3
      <4>2. (n \in DOMAIN topic[p] /\ topic'[p][n] = topic[p][n]) \/ topic'[p][n] = ev
        BY <2>2, <4>1, AppendFacts
      <4>. QED
        BY <3>3, <4>2 DEF OwnInv
    <3>4. CASE p # PartitionOf[ev]
      BY <2>2, <3>1, <3>2, <3>4 DEF OwnInv
    <3>. QED
      BY <3>3, <3>4
  <2>. QED
    BY <2>2
<1>2. CASE ~\E ev \in Event : Arrive(ev)
  <2>1. UNCHANGED topic
    BY <1>2 DEF AsNext, asVars, Fetch, WorkerStep, Dedup, ReadAsset, ChangeStatus, Ack, ConsumerFault,
                DedupFails, ChangeFails, AckFails, Crash, Rebalance, ApiStep, CreateAsset,
                ReadForDelete, ReadForUpdate, WriteAsset, AbandonSession
  <2>. QED
    BY <2>1 DEF OwnInv
<1>. QED
  BY <1>1, <1>2

\* What an instance works on does not change under it.
LEMMA MessageFixed ==
  ASSUME Shape, [AsNext]_asVars, NEW c \in Consumer, worker[c] # Idle,
         worker'[c].part = worker[c].part, worker'[c].at = worker[c].at
  PROVE  Message(c)' = Message(c)
<1>1. worker[c].part \in Partition /\ worker[c].at \in DOMAIN topic[worker[c].part]
  BY MessageFacts
<1>2. CASE \E ev \in Event : Arrive(ev)
  BY <1>1, <1>2, ArriveEffect DEF Message
<1>3. CASE ~\E ev \in Event : Arrive(ev)
  <2>1. UNCHANGED topic
    BY <1>3 DEF AsNext, asVars, Fetch, WorkerStep, Dedup, ReadAsset, ChangeStatus, Ack, ConsumerFault,
                DedupFails, ChangeFails, AckFails, Crash, Rebalance, ApiStep, CreateAsset,
                ReadForDelete, ReadForUpdate, WriteAsset, AbandonSession
  <2>. QED
    BY <2>1, MessageStays
<1>. QED
  BY <1>2, <1>3

LEMMA OwnStep ==
  ASSUME Shape, OwnInv, [AsNext]_asVars
  PROVE  OwnInv' /\ takenOver \subseteq takenOver'
<1>1. ASSUME NEW p \in Partition, NEW d \in Consumer, Rebalance(p, d)
      PROVE  /\ takenOver \subseteq takenOver'
             /\ \A c \in Consumer :
                  InHand(c)' /\ Message(c)'.asset \notin takenOver' => owner'[worker'[c].part] = c
  <2>1. /\ \A q \in Partition : q # p => owner'[q] = owner[q]
        /\ takenOver \subseteq takenOver' /\ UNCHANGED <<worker, topic>>
        /\ \A c \in Consumer : InHand(c) /\ worker[c].part = p => Message(c).asset \in takenOver'
    BY <1>1, RebalanceEffect
  <2>2. ASSUME NEW c \in Consumer, InHand(c)', Message(c)'.asset \notin takenOver'
        PROVE  owner'[worker'[c].part] = c
    <3>1. InHand(c) /\ Message(c)' = Message(c)
      BY <2>1, <2>2, MessageStays DEF InHand
    <3>2. worker[c] # Idle
      BY <3>1 DEF InHand, Idle
    <3>3. worker[c].part \in Partition /\ worker[c].part # p
      BY <2>1, <2>2, <3>1, <3>2, MessageFacts
    <3>4. owner[worker[c].part] = c
      BY <2>1, <2>2, <3>1 DEF OwnInv
    <3>. QED
      BY <2>1, <3>3, <3>4
  <2>. QED
    BY <2>1, <2>2
<1>2. CASE ~\E p \in Partition, d \in Consumer : Rebalance(p, d)
  <2>1. UNCHANGED <<owner, takenOver>>
    BY <1>2, HandStays
  <2>2. ASSUME NEW c \in Consumer, InHand(c)', Message(c)'.asset \notin takenOver'
        PROVE  owner'[worker'[c].part] = c
    <3>1. CASE owner[worker'[c].part] = c
      BY <2>1, <3>1
    <3>2. CASE InHand(c) /\ worker'[c].part = worker[c].part /\ worker'[c].at = worker[c].at
      <4>1. worker[c] # Idle
        BY <3>2 DEF InHand, Idle
      <4>2. Message(c)' = Message(c)
        BY <3>2, <4>1, MessageFixed
      <4>. QED
        BY <2>1, <2>2, <3>2, <4>2 DEF OwnInv
    <3>. QED
      BY <1>2, <2>2, <3>1, <3>2, HandStays
  <2>. QED
    BY <2>1, <2>2, PartitionStays DEF OwnInv
<1>. QED
  BY <1>1, <1>2, PartitionStays DEF OwnInv

\* Two instances never work on the same asset, unless it was taken over.
LEMMA AloneOnAsset ==
  ASSUME \A ev, fv \in Event : ev.asset = fv.asset => PartitionOf[ev] = PartitionOf[fv],
         Shape, OwnInv,
         NEW c \in Consumer, InHand(c), NEW d \in Consumer, InHand(d),
         Message(c).asset = Message(d).asset, Message(c).asset \notin takenOver
  PROVE  c = d
<1>0. worker[c] # Idle /\ worker[d] # Idle
  BY DEF InHand, Idle
<1>1. /\ worker[c].part \in Partition /\ worker[c].at \in DOMAIN topic[worker[c].part]
      /\ worker[d].part \in Partition /\ worker[d].at \in DOMAIN topic[worker[d].part]
      /\ Message(c) \in Event /\ Message(d) \in Event
  BY <1>0, MessageFacts
<1>2. PartitionOf[Message(c)] = worker[c].part /\ PartitionOf[Message(d)] = worker[d].part
  BY <1>1 DEF OwnInv, Message
<1>. QED
  BY <1>1, <1>2 DEF OwnInv

LEMMA AllowedStep ==
  ASSUME \A ev, fv \in Event : ev.asset = fv.asset => PartitionOf[ev] = PartitionOf[fv],
         Shape, LedgerInv, OwnInv, AllowedInv, [AsNext]_asVars
  PROVE  AllowedInv'
<1>0. takenOver \subseteq takenOver'
  BY OwnStep
<1>1. SUFFICES ASSUME NEW d \in Consumer, worker'[d].pc = "write", Message(d)'.asset \notin takenOver'
               PROVE  Message(d)'.target \in Allowed[ledger'[Message(d)'.asset].status]
  BY DEF AllowedInv
<1>2. CASE ReadAsset(d)
  <2>1. Message(d)' = Message(d) /\ Accepts(Message(d)) /\ ledger' = ledger
    BY <1>1, <1>2, ReadAssetEffect
  <2>. QED
    BY <2>1 DEF Accepts
<1>3. CASE ~ReadAsset(d)
  <2>. PICK ev : ev = Message(d)
    OBVIOUS
  <2>1. worker[d].pc = "write" /\ Message(d)' = ev /\ ev.asset \notin takenOver
    BY <1>0, <1>1, <1>3, InHandStays
  <2>2. ev.target \in Allowed[ledger[ev.asset].status] /\ ev.asset \in DOMAIN ledger
    BY <2>1 DEF AllowedInv, LedgerInv
  <2>3. ledger'[ev.asset].status = ledger[ev.asset].status
    <3>1. CASE \E c \in Consumer : ChangeStatus(c)
      <4>1. PICK c \in Consumer : ChangeStatus(c)
        BY <3>1
      <4>2. /\ worker[c].pc = "write" /\ worker[c] # Idle
            /\ \A a \in DOMAIN ledger : a # Message(c).asset => ledger'[a].status = ledger[a].status
            /\ worker'[c].pc = "ack"
        BY <4>1, ChangeEffect, WorkerToEffect DEF Shape
      <4>3. d # c /\ worker[d] # Idle
        BY <1>1, <2>1, <4>2, WorkerFacts DEF Shape
      <4>4. Message(c).asset # ev.asset
        BY <2>1, <4>2, <4>3, AloneOnAsset DEF InHand
      <4>. QED
        BY <2>2, <4>2, <4>4
    <3>2. CASE ApiStep
      BY <2>2, <3>2, ApiEffect
    <3>3. CASE ~ApiStep /\ ~\E c \in Consumer : ChangeStatus(c)
      BY <3>3 DEF AsNext, asVars, Arrive, Fetch, WorkerStep, Dedup, ReadAsset, Ack, ConsumerFault,
                  DedupFails, ChangeFails, AckFails, Crash, Rebalance, apiVars
    <3>. QED
      BY <3>1, <3>2, <3>3
  <2>. QED
    BY <2>1, <2>2, <2>3
<1>. QED
  BY <1>2, <1>3

LEMMA LegalStep ==
  ASSUME Shape, LedgerInv, AllowedInv, LegalUnlessTakenOver, [AsNext]_asVars,
         takenOver \subseteq takenOver'
  PROVE  LegalUnlessTakenOver'
<1>1. CASE \E c \in Consumer : ChangeStatus(c)
  <2>1. PICK c \in Consumer : ChangeStatus(c)
    BY <1>1
  <2>. PICK ev : ev = Message(c)
    OBVIOUS
  <2>. DEFINE n == Len(applied[ev.asset])
  <2>2. /\ worker[c].pc = "write" /\ worker[c] # Idle
        /\ applied'[ev.asset] = Append(applied[ev.asset], ev)
        /\ \A a \in Asset : a # ev.asset => applied'[a] = applied[a]
    BY <2>1, ChangeEffect
  <2>a. ev \in Event /\ ev.asset \in Asset /\ applied[ev.asset] \in Seq(Event)
    BY <2>2, MessageFacts DEF Shape
  <2>3. /\ ev.asset \in DOMAIN ledger
        /\ ev.asset \notin takenOver => ev.target \in Allowed[ledger[ev.asset].status]
    BY <2>2 DEF AllowedInv, LedgerInv
  <2>4. /\ n \in Nat /\ DOMAIN applied[ev.asset] = 1 .. n
        /\ DOMAIN applied'[ev.asset] = DOMAIN applied[ev.asset] \cup {n + 1}
        /\ applied'[ev.asset][n + 1] = ev
        /\ \A i \in DOMAIN applied[ev.asset] : applied'[ev.asset][i] = applied[ev.asset][i]
    BY <2>2, <2>a, AppendFacts
  <2>5. ASSUME NEW a \in Asset, a \notin takenOver, NEW i \in DOMAIN applied'[a]
        PROVE  applied'[a][i].target \in Allowed[StatusBefore(a, i)']
    <3>1. CASE a # ev.asset
      BY <2>2, <2>5, <3>1 DEF LegalUnlessTakenOver, StatusBefore
    <3>2. CASE a = ev.asset
      <4>1. i \in 1 .. n + 1
        BY <2>4, <2>5, <3>2
      <4>2. StatusBefore(a, i)' = StatusBefore(a, i)
        <5>1. CASE i > 1
          <6>1. i - 1 \in DOMAIN applied[ev.asset]
            BY <2>4, <4>1, <5>1
          <6>. QED
            BY <2>4, <3>2, <5>1, <6>1 DEF StatusBefore
        <5>2. CASE ~(i > 1)
          BY <5>2 DEF StatusBefore
        <5>. QED
          BY <5>1, <5>2
      <4>3. CASE i = n + 1
        BY <2>a, <2>3, <2>4, <2>5, <3>2, <4>2, <4>3 DEF LedgerInv
      <4>4. CASE i # n + 1
        <5>1. i \in DOMAIN applied[a] /\ applied'[a][i] = applied[a][i]
          BY <2>4, <2>5, <3>2, <4>4
        <5>. QED
          BY <2>5, <4>2, <5>1 DEF LegalUnlessTakenOver
      <4>. QED
        BY <4>3, <4>4
    <3>. QED
      BY <3>1, <3>2
  <2>. QED
    BY <2>5 DEF LegalUnlessTakenOver
<1>2. CASE ~\E c \in Consumer : ChangeStatus(c)
  <2>1. UNCHANGED applied
    BY <1>2, ApiEffect DEF AsNext, asVars, Arrive, Fetch, WorkerStep, Dedup, ReadAsset, Ack, ConsumerFault,
                DedupFails, ChangeFails, AckFails, Crash, Rebalance, apiVars
  <2>. QED
    BY <2>1 DEF LegalUnlessTakenOver, StatusBefore
<1>. QED
  BY <1>1, <1>2

\* Whatever is repeated, redelivered or reassigned, and as long as all events of an
\* asset are in one partition (the writer's key is the asset id), every change of an
\* asset's status is one the status machine allows from the status the asset had at
\* that moment, unless the partition was taken from an instance with an event of that
\* asset in hand.
THEOREM LegalUnlessTakenOverHolds ==
  ASSUME \A ev, fv \in Event : ev.asset = fv.asset => PartitionOf[ev] = PartitionOf[fv]
  PROVE  AsSpec => []LegalUnlessTakenOver
<1>1. AsInit => LegalInv
  <2>1. AsInit => AllowedInv /\ LegalUnlessTakenOver
    <3>. SUFFICES ASSUME AsInit
                  PROVE  AllowedInv /\ LegalUnlessTakenOver
      OBVIOUS
    <3>1. \A c \in Consumer : worker[c].pc # "write"
      BY DEF AsInit, Idle
    <3>2. \A a \in Asset : DOMAIN applied[a] = {}
      BY DEF AsInit
    <3>. QED
      BY <3>1, <3>2 DEF AllowedInv, LegalUnlessTakenOver
  <2>. QED
    BY <2>1, ShapeInit, LedgerInit, OwnInit DEF LegalInv
<1>2. LegalInv /\ [AsNext]_asVars => LegalInv'
  BY ShapeStep, LedgerStep, OwnStep, AllowedStep, LegalStep DEF LegalInv
<1>3. LegalInv => LegalUnlessTakenOver
  BY DEF LegalInv
<1>. QED
  BY <1>1, <1>2, <1>3, PTL DEF AsSpec
===============================================================================
