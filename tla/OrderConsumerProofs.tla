------------------------- MODULE OrderConsumerProofs -------------------------
(***************************************************************************)
(* What holds of OrderConsumer for any articles, users, listener threads,  *)
(* partitions, stock, batch size and number of failures: types, delivery   *)
(* at least once, and the stock in Redis under optimistic locking.         *)
(***************************************************************************)
EXTENDS OrderConsumer, FiniteSetTheorems, TLAPS

(* Every step of the specification is one of these; each proof that a step *)
(* preserves an invariant has one case per line.                           *)
LEMMA StepCases ==
  ASSUME Next
  PROVE  \/ \E p \in Partitions, m \in Message : Publish(p, m)
         \/ \E c \in Consumers, p \in Partitions, n \in 1..MaxBatch : Poll(c, p, n)
         \/ \E p \in Partitions : Commit(p)
         \/ \E p \in Partitions, c \in Consumers : Rebalance(p, c)
         \/ \E c \in Consumers : \/ Watch(c) \/ ReadCount(c) \/ InsertOrder(c)
                                 \/ Exec(c) \/ Restore(c) \/ Crash(c)
                                 \/ RedisFails(c) \/ InsertFails(c)
                                 \/ ExecFails(c) \/ RestoreFails(c)
  BY DEF Next, ConsumerNext, Consume, Step, Failure

-----------------------------------------------------------------------------
(* The record in hand of a busy thread is a message of the log.            *)
LEMMA BusyRecord ==
  ASSUME TypeOK, NEW c \in Consumers, pc[c] # "idle"
  PROVE  /\ job[c] \in Job
         /\ job[c].off \in 1..Len(topic[job[c].part])
         /\ Record(c) \in Message
         /\ Sid(c) \in Sids
<1>1. job[c] \in Job /\ 1 <= job[c].off /\ job[c].off <= job[c].last
      /\ job[c].last <= Len(topic[job[c].part])
  BY DEF TypeOK
<1>2. topic[job[c].part] \in Seq(Message) /\ job[c].off \in Nat /\ job[c].last \in Nat
  BY <1>1 DEF TypeOK, Job
<1>3. job[c].off \in 1..Len(topic[job[c].part])
  BY <1>1, <1>2
<1>4. Record(c) \in Message
  BY <1>2, <1>3 DEF Record
<1>. QED  BY <1>1, <1>3, <1>4 DEF Sid, Message

LEMMA MoveStockType ==
  ASSUME TypeOK, NEW c \in Consumers, NEW s \in Sids, NEW n \in Int, MoveStock(c, s, n)
  PROVE  /\ stockCount' \in [Sids -> Int]
         /\ stockSale' \in [Sids -> Int]
         /\ stockVersion' \in [Sids -> Int]
         /\ dirty' \subseteq Consumers
  BY DEF TypeOK, MoveStock, Watching

LEMMA ExecEffectType ==
  ASSUME TypeOK, NEW c \in Consumers, pc[c] = "exec", NEW b \in BOOLEAN, ExecEffect(c, b)
  PROVE  /\ stockCount' \in [Sids -> Int]
         /\ stockSale' \in [Sids -> Int]
         /\ stockVersion' \in [Sids -> Int]
         /\ dirty' \subseteq Consumers
<1>1. CASE b
  BY <1>1, BusyRecord, MoveStockType DEF ExecEffect
<1>2. CASE ~b
  BY <1>2 DEF ExecEffect, TypeOK, redis
<1>. QED  BY <1>1, <1>2

(* Where a thread stands, apart from what it read: the last conjunct of    *)
(* TypeOK, for one thread.                                                 *)
ThreadOK(c) ==
  IF pc[c] = "idle"
    THEN job[c] = NoJob
    ELSE /\ job[c] \in Job
         /\ 1 <= job[c].off
         /\ job[c].off <= job[c].last
         /\ job[c].last <= Len(topic[job[c].part])

LEMMA ReturnType ==
  ASSUME TypeOK, NEW c \in Consumers, pc[c] # "idle", Return(c), UNCHANGED topic
  PROVE  /\ pc' \in [Consumers -> {"idle", "watch", "get", "insert", "exec", "restore"}]
         /\ job' \in [Consumers -> Job \cup {NoJob}]
         /\ seen' \in [Consumers -> Int]
         /\ handled' \in [Partitions -> SUBSET Nat]
         /\ \A d \in Consumers : ThreadOK(d)'
<1> DEFINE j == job[c]
           next == [j EXCEPT !.off = j.off + 1]
<1>1. j \in Job /\ 1 <= j.off /\ j.off <= j.last /\ j.last <= Len(topic[j.part])
  BY DEF TypeOK
<1>2. /\ next \in Job /\ next.part = j.part /\ next.last = j.last
      /\ next.off = j.off + 1
  BY <1>1 DEF Job
<1>3. handled' \in [Partitions -> SUBSET Nat]
  BY <1>1 DEF Return, TypeOK, Job
<1>4. seen' \in [Consumers -> Int]
  BY DEF Return, TypeOK
<1>5. CASE j.off < j.last
  <2>1. job' = [job EXCEPT ![c] = next] /\ pc' = [pc EXCEPT ![c] = "watch"]
    BY <1>5 DEF Return, GoTo
  <2>2. ASSUME NEW d \in Consumers
        PROVE  ThreadOK(d)'
    BY <1>1, <1>2, <1>5, <2>1 DEF TypeOK, ThreadOK, Job
  <2>. QED  BY <1>2, <1>3, <1>4, <2>1, <2>2 DEF TypeOK
<1>6. CASE ~(j.off < j.last)
  <2>1. job' = [job EXCEPT ![c] = NoJob] /\ pc' = [pc EXCEPT ![c] = "idle"]
    BY <1>6 DEF Return, GoTo
  <2>2. ASSUME NEW d \in Consumers
        PROVE  ThreadOK(d)'
    BY <2>1 DEF TypeOK, ThreadOK
  <2>. QED  BY <1>3, <1>4, <2>1, <2>2 DEF TypeOK
<1>. QED  BY <1>5, <1>6

(* TypeOK is inductive.                                                    *)
LEMMA TypeStep ==
  ASSUME ConsumerAssumption, TypeOK, [Next]_vars
  PROVE  TypeOK'
<1>. USE DEF redis, cursors, thread
<1>t. \A d \in Consumers : ThreadOK(d)
  BY DEF TypeOK, ThreadOK
<1>1. ASSUME NEW p \in Partitions, NEW m \in Message, Publish(p, m)
      PROVE  TypeOK'
  <2>1. topic' \in [Partitions -> Seq(Message)]
        /\ \A q \in Partitions : Len(topic[q]) <= Len(topic'[q])
    BY <1>1 DEF Publish, TypeOK
  <2>2. ASSUME NEW d \in Consumers
        PROVE  ThreadOK(d)'
    <3>1. job[d] \in Job => Len(topic[job[d].part]) \in Nat /\ Len(topic'[job[d].part]) \in Nat
                            /\ job[d].last \in Nat
      BY <2>1 DEF TypeOK, Job
    <3>. QED  BY <1>1, <1>t, <2>1, <3>1 DEF Publish, ThreadOK, Job
  <2>. QED  BY <1>1, <2>1, <2>2 DEF Publish, TypeOK, ThreadOK
<1>2. ASSUME NEW c \in Consumers, NEW p \in Partitions, NEW n \in 1..MaxBatch, Poll(c, p, n)
      PROVE  TypeOK'
  <2> DEFINE j == [part |-> p, off |-> position[p] + 1, last |-> position[p] + n]
  <2>1. /\ n \in Nat /\ n >= 1 /\ position[p] \in Nat /\ Len(topic[p]) \in Nat
        /\ j \in Job /\ 1 <= j.off /\ j.off <= j.last /\ j.last <= Len(topic[p])
    BY <1>2 DEF Poll, TypeOK, Job, ConsumerAssumption
  <2>2. job' = [job EXCEPT ![c] = j] /\ pc' = [pc EXCEPT ![c] = "watch"] /\ topic' = topic
    BY <1>2 DEF Poll, GoTo
  <2>3. ASSUME NEW d \in Consumers
        PROVE  ThreadOK(d)'
    BY <1>t, <2>1, <2>2 DEF TypeOK, ThreadOK
  <2>4. position' \in [Partitions -> Nat]
    BY <1>2, <2>1 DEF Poll, TypeOK
  <2>. QED  BY <1>2, <2>1, <2>2, <2>3, <2>4 DEF Poll, TypeOK, ThreadOK
<1>3. ASSUME NEW p \in Partitions, Commit(p)
      PROVE  TypeOK'
  BY <1>3 DEF Commit, TypeOK
<1>4. ASSUME NEW p \in Partitions, NEW c \in Consumers, Rebalance(p, c)
      PROVE  TypeOK'
  BY <1>4 DEF Rebalance, TypeOK
<1>5. ASSUME NEW c \in Consumers, Watch(c)
      PROVE  TypeOK'
  BY <1>5 DEF Watch, GoTo, TypeOK
<1>6. ASSUME NEW c \in Consumers, ReadCount(c)
      PROVE  TypeOK'
  <2>1. stockCount[Sid(c)] \in Int
    BY <1>6, BusyRecord DEF ReadCount, TypeOK
  <2>. QED  BY <1>6, <2>1 DEF ReadCount, GoTo, TypeOK
<1>7. ASSUME NEW c \in Consumers, InsertOrder(c)
      PROVE  TypeOK'
  <2>1. Record(c) \in Message
    BY <1>7, BusyRecord DEF InsertOrder
  <2>. QED  BY <1>7, <2>1 DEF InsertOrder, GoTo, TypeOK
<1>8. ASSUME NEW c \in Consumers, Exec(c)
      PROVE  TypeOK'
  <2>1. ExecApplies(c) \in BOOLEAN
    BY DEF ExecApplies, HasStock
  <2>. QED  BY <1>8, <2>1, ExecEffectType, ReturnType DEF Exec, TypeOK, ThreadOK
<1>9. ASSUME NEW c \in Consumers, Restore(c)
      PROVE  TypeOK'
  <2>1. Sid(c) \in Sids /\ MoveStock(c, Sid(c), -1) /\ -1 \in Int /\ pc[c] # "idle" /\ Return(c)
    BY <1>9, BusyRecord DEF Restore
  <2>2. /\ stockCount' \in [Sids -> Int] /\ stockSale' \in [Sids -> Int]
        /\ stockVersion' \in [Sids -> Int] /\ dirty' \subseteq Consumers
    BY <2>1, MoveStockType
  <2>3. UNCHANGED <<orders, topic, committed, owner, position, faults>>
    BY <1>9 DEF Restore
  <2>. QED  BY <2>1, <2>2, <2>3, ReturnType DEF TypeOK, ThreadOK
<1>10. ASSUME NEW c \in Consumers, Crash(c)
       PROVE  TypeOK'
  BY <1>10 DEF Crash, Fault, TypeOK
<1>11. ASSUME NEW c \in Consumers, RedisFails(c)
       PROVE  TypeOK'
  BY <1>11 DEF RedisFails, Fault, Throw, GoTo, TypeOK
<1>12. ASSUME NEW c \in Consumers, InsertFails(c)
       PROVE  TypeOK'
  <2>1. orders' \in Seq(Message)
    <3>1. orders \in Seq(Message) /\ Record(c) \in Message
      BY <1>12, BusyRecord DEF InsertFails, TypeOK
    <3>2. orders' = orders \/ orders' = Append(orders, Record(c))
      BY <1>12 DEF InsertFails
    <3>. QED  BY <3>1, <3>2
  <2>2. /\ pc' = [pc EXCEPT ![c] = "restore"] /\ pc[c] # "idle" /\ faults' = faults + 1
        /\ seen' = [seen EXCEPT ![c] = 0] /\ dirty' = dirty \ {c}
        /\ UNCHANGED <<redis, topic, cursors, job, handled>>
    BY <1>12 DEF InsertFails, Fault, Throw, GoTo
  <2>. QED  BY <2>1, <2>2 DEF TypeOK
<1>13. ASSUME NEW c \in Consumers, ExecFails(c)
       PROVE  TypeOK'
  <2>1. PICK b \in {FALSE, ExecApplies(c)} : ExecEffect(c, b)
    BY <1>13 DEF ExecFails
  <2>2. b \in BOOLEAN
    BY DEF ExecApplies, HasStock
  <2>3. /\ stockCount' \in [Sids -> Int] /\ stockSale' \in [Sids -> Int]
        /\ stockVersion' \in [Sids -> Int] /\ dirty' \subseteq Consumers
    BY <1>13, <2>1, <2>2, ExecEffectType DEF ExecFails
  <2>. QED  BY <1>13, <2>3 DEF ExecFails, Fault, Throw, GoTo, TypeOK
<1>14. ASSUME NEW c \in Consumers, RestoreFails(c)
       PROVE  TypeOK'
  BY <1>14, ReturnType DEF RestoreFails, Fault, TypeOK, ThreadOK
<1>15. ASSUME UNCHANGED vars
       PROVE  TypeOK'
  BY <1>15 DEF vars, TypeOK
<1>. QED
  BY <1>1, <1>2, <1>3, <1>4, <1>5, <1>6, <1>7, <1>8, <1>9, <1>10, <1>11, <1>12,
     <1>13, <1>14, <1>15, StepCases

(* TypeOK: in particular the record in hand of a listener thread is always *)
(* in the log, and a thread has one exactly when it is not in poll().      *)
THEOREM TypeCorrect == Spec => []TypeOK
<1>1. Init => TypeOK
  BY ConsumerAssumption DEF Init, TypeOK, ConsumerAssumption
<1>2. TypeOK /\ [Next]_vars => TypeOK'
  BY TypeStep, ConsumerAssumption
<1>. QED  BY <1>1, <1>2, PTL DEF Spec

-----------------------------------------------------------------------------
(* What makes the commit safe: an offset a thread was given and has not    *)
(* returned from is still in the batch its owner has in hand.  Commit only *)
(* happens when that thread is back in poll(), where it has no batch.      *)
InHand(p, o) ==
  /\ pc[owner[p]] # "idle"
  /\ job[owner[p]].part = p
  /\ o \in job[owner[p]].off..job[owner[p]].last

Fetched == \A p \in Partitions : \A o \in 1..position[p] : o \in handled[p] \/ InHand(p, o)

DeliveryInv == TypeOK /\ Fetched /\ AtLeastOnce

(* A listener that returns handles the record in hand and keeps the rest.  *)
LEMMA ReturnKeepsFetched ==
  ASSUME DeliveryInv, NEW c \in Consumers, pc[c] # "idle", Return(c), UNCHANGED cursors
  PROVE  Fetched' /\ AtLeastOnce'
<1> DEFINE j == job[c]
<1>1. /\ j \in Job /\ j.part \in Partitions /\ j.off \in Nat /\ j.last \in Nat /\ j.off <= j.last
      /\ j.off \in Int /\ j.last \in Int
  BY DEF DeliveryInv, TypeOK, Job
<1>2. /\ committed' = committed /\ owner' = owner /\ position' = position
      /\ owner \in [Partitions -> Consumers] /\ position \in [Partitions -> Nat]
      /\ handled \in [Partitions -> SUBSET Nat]
  BY DEF cursors, DeliveryInv, TypeOK
<1>3. /\ \A p \in Partitions : handled[p] \subseteq handled'[p]
      /\ j.off \in handled'[j.part]
  BY <1>1, <1>2 DEF Return
<1>4. AtLeastOnce'
  BY <1>2, <1>3 DEF AtLeastOnce, DeliveryInv
<1>5. ASSUME NEW p \in Partitions, NEW o \in 1..position[p], o \notin handled'[p]
      PROVE  InHand(p, o)'
  <2>1. InHand(p, o)
    BY <1>3, <1>5 DEF DeliveryInv, Fetched
  <2>2. CASE owner[p] # c
    <3>1. pc'[owner[p]] = pc[owner[p]] /\ job'[owner[p]] = job[owner[p]]
      BY <1>2, <2>2 DEF Return, GoTo, DeliveryInv, TypeOK
    <3>. QED  BY <1>2, <2>1, <3>1 DEF InHand
  <2>3. CASE owner[p] = c
    <3>1. j.part = p /\ o \in j.off..j.last /\ o # j.off /\ o \in Int
      BY <1>3, <1>5, <2>1, <2>3 DEF InHand
    <3>2. j.off < j.last /\ o \in (j.off + 1)..j.last
      BY <1>1, <3>1
    <3>3. /\ pc'[c] = "watch"
          /\ job'[c] = [j EXCEPT !.off = j.off + 1]
      BY <3>2 DEF Return, GoTo, DeliveryInv, TypeOK
    <3>4. job'[c].part = p /\ job'[c].off = j.off + 1 /\ job'[c].last = j.last
      BY <1>1, <3>1, <3>3 DEF Job
    <3>. QED  BY <1>2, <2>3, <3>2, <3>3, <3>4 DEF InHand
  <2>. QED  BY <2>2, <2>3
<1>6. Fetched'
  BY <1>2, <1>5 DEF Fetched
<1>. QED  BY <1>4, <1>6

(* A step that moves pc of a busy thread to another busy label, or leaves  *)
(* it, changes nothing that DeliveryInv speaks of.                         *)
LEMMA BusyKeepsFetched ==
  ASSUME DeliveryInv, UNCHANGED <<cursors, job, handled>>,
         \A d \in Consumers : pc[d] # "idle" => pc'[d] # "idle"
  PROVE  Fetched' /\ AtLeastOnce'
<1>1. /\ committed' = committed /\ owner' = owner /\ position' = position
      /\ owner \in [Partitions -> Consumers]
  BY DEF cursors, DeliveryInv, TypeOK
<1>. QED  BY <1>1 DEF DeliveryInv, Fetched, AtLeastOnce, InHand

LEMMA DeliveryStep ==
  ASSUME ConsumerAssumption, DeliveryInv, [Next]_vars
  PROVE  DeliveryInv'
<1>t. TypeOK /\ TypeOK'
  BY TypeStep DEF DeliveryInv
<1>1. ASSUME NEW p \in Partitions, NEW m \in Message, Publish(p, m)
      PROVE  Fetched' /\ AtLeastOnce'
  BY <1>1, BusyKeepsFetched DEF Publish, thread
<1>2. ASSUME NEW c \in Consumers, NEW p \in Partitions, NEW n \in 1..MaxBatch, Poll(c, p, n)
      PROVE  Fetched' /\ AtLeastOnce'
  <2>1. /\ pc[c] = "idle" /\ owner[p] = c /\ pc'[c] = "watch"
        /\ job'[c] = [part |-> p, off |-> position[p] + 1, last |-> position[p] + n]
        /\ \A d \in Consumers \ {c} : pc'[d] = pc[d] /\ job'[d] = job[d]
        /\ owner' = owner /\ committed' = committed /\ handled' = handled
        /\ position' = [position EXCEPT ![p] = position[p] + n]
        /\ owner \in [Partitions -> Consumers] /\ position \in [Partitions -> Nat]
        /\ n \in Nat
    BY <1>t, <1>2 DEF Poll, GoTo, TypeOK, ConsumerAssumption
  <2>2. ASSUME NEW q \in Partitions, NEW o \in 1..position'[q], o \notin handled'[q]
        PROVE  InHand(q, o)'
    <3>1. CASE q = p
      <4>1. ~(o \in 1..position[p])
        BY <2>1, <2>2, <3>1 DEF DeliveryInv, Fetched, InHand
      <4>2. o \in (position[p] + 1)..(position[p] + n)
        BY <2>1, <3>1, <4>1
      <4>. QED  BY <2>1, <3>1, <4>2 DEF InHand
    <3>2. CASE q # p
      <4>1. InHand(q, o)
        BY <2>1, <2>2, <3>2 DEF DeliveryInv, Fetched
      <4>2. owner[q] \in Consumers \ {c}
        BY <2>1, <4>1 DEF InHand
      <4>. QED  BY <2>1, <4>1, <4>2 DEF InHand
    <3>. QED  BY <3>1, <3>2
  <2>. QED  BY <2>1, <2>2 DEF Fetched, AtLeastOnce, DeliveryInv
<1>3. ASSUME NEW p \in Partitions, Commit(p)
      PROVE  Fetched' /\ AtLeastOnce'
  <2>1. /\ owner' = owner /\ position' = position /\ handled' = handled
        /\ pc' = pc /\ job' = job /\ pc[owner[p]] = "idle"
        /\ committed' = [committed EXCEPT ![p] = position[p]]
    BY <1>3 DEF Commit, thread
  <2>2. 1..position[p] \subseteq handled[p]
    BY <2>1 DEF DeliveryInv, Fetched, InHand
  <2>3. AtLeastOnce'
    BY <1>t, <2>1, <2>2 DEF AtLeastOnce, DeliveryInv, TypeOK
  <2>. QED  BY <2>1, <2>3 DEF Fetched, DeliveryInv, InHand
<1>4. ASSUME NEW p \in Partitions, NEW c \in Consumers, Rebalance(p, c)
      PROVE  Fetched' /\ AtLeastOnce'
  <2>1. /\ owner' = [owner EXCEPT ![p] = c] /\ position' = [position EXCEPT ![p] = committed[p]]
        /\ pc' = pc /\ job' = job /\ handled' = handled /\ committed' = committed
    BY <1>4 DEF Rebalance, thread
  <2>2. ASSUME NEW q \in Partitions, NEW o \in 1..position'[q], o \notin handled'[q]
        PROVE  InHand(q, o)'
    <3>1. q # p
      BY <1>t, <2>1, <2>2 DEF DeliveryInv, AtLeastOnce, TypeOK
    <3>. QED  BY <1>t, <2>1, <2>2, <3>1 DEF DeliveryInv, Fetched, InHand, TypeOK
  <2>. QED  BY <2>1, <2>2 DEF Fetched, AtLeastOnce, DeliveryInv
<1>5. ASSUME NEW c \in Consumers, Watch(c) \/ ReadCount(c) \/ InsertOrder(c)
      PROVE  Fetched' /\ AtLeastOnce'
  <2>1. UNCHANGED <<cursors, job, handled>> /\ \E l \in {"get", "insert", "exec"} : GoTo(c, l)
    BY <1>5 DEF Watch, ReadCount, InsertOrder
  <2>2. \A d \in Consumers : pc[d] # "idle" => pc'[d] # "idle"
    BY <1>t, <2>1 DEF GoTo, TypeOK
  <2>. QED  BY <2>1, <2>2, BusyKeepsFetched
<1>6. ASSUME NEW c \in Consumers, Exec(c) \/ Restore(c) \/ RestoreFails(c)
      PROVE  Fetched' /\ AtLeastOnce'
  BY <1>6, ReturnKeepsFetched DEF Exec, Restore, RestoreFails
<1>7. ASSUME NEW c \in Consumers, Crash(c)
      PROVE  Fetched' /\ AtLeastOnce'
  <2>1. /\ owner' = owner /\ committed' = committed /\ handled' = handled
        /\ \A d \in Consumers \ {c} : pc'[d] = pc[d] /\ job'[d] = job[d]
        /\ position' = [p \in Partitions |-> IF owner[p] = c THEN committed[p] ELSE position[p]]
        /\ owner \in [Partitions -> Consumers]
    BY <1>t, <1>7 DEF Crash, TypeOK
  <2>2. ASSUME NEW q \in Partitions, NEW o \in 1..position'[q], o \notin handled'[q]
        PROVE  InHand(q, o)'
    <3>1. owner[q] \in Consumers \ {c}
      BY <2>1, <2>2 DEF DeliveryInv, AtLeastOnce
    <3>. QED  BY <2>1, <2>2, <3>1 DEF DeliveryInv, Fetched, InHand
  <2>. QED  BY <2>1, <2>2 DEF Fetched, AtLeastOnce, DeliveryInv
<1>8. ASSUME NEW c \in Consumers, RedisFails(c) \/ InsertFails(c) \/ ExecFails(c)
      PROVE  Fetched' /\ AtLeastOnce'
  <2>1. UNCHANGED <<cursors, job, handled>> /\ pc' = [pc EXCEPT ![c] = "restore"]
    BY <1>8 DEF RedisFails, InsertFails, ExecFails, Throw, GoTo
  <2>2. \A d \in Consumers : pc[d] # "idle" => pc'[d] # "idle"
    BY <1>t, <2>1 DEF TypeOK
  <2>. QED  BY <2>1, <2>2, BusyKeepsFetched
<1>9. CASE UNCHANGED vars
  BY <1>t, <1>9, BusyKeepsFetched DEF vars, thread, DeliveryInv
<1>. QED
  BY <1>t, <1>1, <1>2, <1>3, <1>4, <1>5, <1>6, <1>7, <1>8, <1>9, StepCases DEF DeliveryInv

(* AtLeastOnce: the group never commits past a record that no listener has *)
(* returned from, whatever crashes, rebalances and failed calls there are. *)
THEOREM NothingSkipped == Spec => []AtLeastOnce
<1>1. Init => DeliveryInv
  BY ConsumerAssumption DEF Init, DeliveryInv, Fetched, AtLeastOnce, TypeOK, ConsumerAssumption
<1>2. DeliveryInv /\ [Next]_vars => DeliveryInv'
  BY DeliveryStep, ConsumerAssumption
<1>3. DeliveryInv => AtLeastOnce
  BY DEF DeliveryInv
<1>. QED  BY <1>1, <1>2, <1>3, PTL DEF Spec

-----------------------------------------------------------------------------
(* Why optimistic locking works: while a thread holds the count it read    *)
(* and nobody wrote the key since (the thread is not dirty), the count is  *)
(* still that value; and a thread only inserts an order on a count > 0.    *)
Fresh(c) == pc[c] \in {"insert", "exec"} /\ c \notin dirty => stockCount[Sid(c)] = seen[c]

WatchInv ==
  /\ TypeOK
  /\ \A c \in Consumers : Fresh(c) /\ (pc[c] = "insert" => HasStock(seen[c]))
  /\ CountNonNegative

(* The log only grows: the record in hand of a busy thread stays the same. *)
LEMMA PublishKeepsSid ==
  ASSUME TypeOK, NEW p \in Partitions, NEW m \in Message, Publish(p, m),
         NEW c \in Consumers, pc[c] # "idle"
  PROVE  Record(c)' = Record(c) /\ Sid(c)' = Sid(c)
<1>1. job[c] \in Job /\ job[c].off \in 1..Len(topic[job[c].part]) /\ job[c].part \in Partitions
  BY BusyRecord DEF Job
<1>2. topic[job[c].part] \in Seq(Message) /\ job' = job
      /\ topic' = [topic EXCEPT ![p] = Append(topic[p], m)]
  BY <1>1 DEF Publish, TypeOK, thread
<1>3. topic'[job[c].part][job[c].off] = topic[job[c].part][job[c].off]
  <2>1. CASE job[c].part = p
    <3>1. topic'[p] = Append(topic[p], m)
      BY <1>2 DEF TypeOK
    <3>. QED  BY <1>1, <1>2, <2>1, <3>1
  <2>2. CASE job[c].part # p
    BY <1>1, <1>2, <2>2 DEF TypeOK
  <2>. QED  BY <2>1, <2>2
<1>. QED  BY <1>2, <1>3 DEF Record, Sid

(* Moving the stock of s by n spoils what every other thread read of it.   *)
LEMMA MoveStockFresh ==
  ASSUME WatchInv, NEW c \in Consumers, NEW s \in Sids, NEW n \in Int,
         MoveStock(c, s, n), NEW d \in Consumers, d # c,
         pc'[d] = pc[d], job'[d] = job[d], seen'[d] = seen[d], topic' = topic
  PROVE  Fresh(d)'
<1>1. Sid(d)' = Sid(d)
  BY DEF Sid, Record
<1>2. CASE pc[d] \in {"insert", "exec"} /\ d \notin dirty'
  <2>1. d \notin dirty /\ Sid(d) # s /\ Sid(d) \in Sids
    BY <1>2, BusyRecord DEF MoveStock, Watching, WatchInv
  <2>2. stockCount'[Sid(d)] = stockCount[Sid(d)]
    BY <2>1 DEF MoveStock, WatchInv, TypeOK
  <2>. QED  BY <1>1, <1>2, <2>1, <2>2 DEF Fresh, WatchInv
<1>. QED  BY <1>2 DEF Fresh

(* A transaction that EXEC runs takes a unit that is there.                *)
LEMMA ExecTakes ==
  ASSUME WatchInv, NEW c \in Consumers, pc[c] = "exec", NEW b \in {FALSE, ExecApplies(c)},
         ExecEffect(c, b)
  PROVE  \/ /\ UNCHANGED redis
            /\ dirty' = dirty \ {c}
         \/ /\ MoveStock(c, Sid(c), 1)
            /\ Sid(c) \in Sids
            /\ stockCount[Sid(c)] > 0
<1>1. CASE b
  BY <1>1, BusyRecord DEF ExecEffect, ExecApplies, HasStock, WatchInv, Fresh
<1>2. CASE ~b
  BY <1>2 DEF ExecEffect
<1>. QED  BY <1>1, <1>2

(* The same for a step of thread c that leaves the stock alone.            *)
LEMMA StillFresh ==
  ASSUME WatchInv, NEW c \in Consumers, NEW d \in Consumers, d # c, stockCount' = stockCount,
         dirty \ {c} \subseteq dirty',
         pc'[d] = pc[d], job'[d] = job[d], seen'[d] = seen[d], topic' = topic
  PROVE  Fresh(d)'
  BY DEF WatchInv, Fresh, Sid, Record

LEMMA ReturnOthers ==
  ASSUME TypeOK, NEW c \in Consumers, Return(c)
  PROVE  /\ pc'[c] \in {"idle", "watch"}
         /\ \A d \in Consumers \ {c} : pc'[d] = pc[d] /\ job'[d] = job[d] /\ seen'[d] = seen[d]
  BY DEF Return, GoTo, TypeOK

LEMMA ThrowOthers ==
  ASSUME TypeOK, NEW c \in Consumers, Throw(c)
  PROVE  /\ pc'[c] = "restore"
         /\ \A d \in Consumers \ {c} : pc'[d] = pc[d] /\ job'[d] = job[d] /\ seen'[d] = seen[d]
  BY DEF Throw, GoTo, TypeOK

(* What is left of WatchInv to show, once the step of thread c is known to *)
(* leave the others fresh.                                                 *)
Settled(c) == Fresh(c) /\ (pc[c] = "insert" => HasStock(seen[c]))

LEMMA WatchStep ==
  ASSUME ConsumerAssumption, WatchInv, [Next]_vars
  PROVE  WatchInv'
<1>t. TypeOK /\ TypeOK'
  BY TypeStep DEF WatchInv
<1>1. ASSUME NEW p \in Partitions, NEW m \in Message, Publish(p, m)
      PROVE  WatchInv'
  <2>1. UNCHANGED <<stockCount, dirty, pc, seen>>
    BY <1>1 DEF Publish, redis, thread
  <2>2. \A c \in Consumers : Settled(c)'
    BY <1>1, <1>t, <2>1, PublishKeepsSid DEF WatchInv, Settled, Fresh
  <2>. QED  BY <1>t, <2>1, <2>2 DEF WatchInv, Settled, CountNonNegative
<1>2. ASSUME NEW c \in Consumers, NEW p \in Partitions, NEW n \in 1..MaxBatch, Poll(c, p, n)
      PROVE  WatchInv'
  <2>1. /\ UNCHANGED <<stockCount, dirty, seen, topic>> /\ pc'[c] = "watch"
        /\ \A d \in Consumers \ {c} : pc'[d] = pc[d] /\ job'[d] = job[d]
    BY <1>2, <1>t DEF Poll, GoTo, TypeOK, redis
  <2>2. \A d \in Consumers : Settled(d)'
    BY <2>1, StillFresh DEF Settled, Fresh, WatchInv
  <2>. QED  BY <1>t, <2>1, <2>2 DEF WatchInv, Settled, CountNonNegative
<1>3. ASSUME NEW p \in Partitions, Commit(p) \/ \E c \in Consumers : Rebalance(p, c)
      PROVE  WatchInv'
  <2>1. UNCHANGED <<stockCount, dirty, topic, pc, job, seen>>
    BY <1>3 DEF Commit, Rebalance, redis, thread
  <2>. QED  BY <1>t, <2>1 DEF WatchInv, Fresh, Sid, Record, CountNonNegative
<1>4. ASSUME NEW c \in Consumers, Watch(c) \/ InsertOrder(c)
      PROVE  WatchInv'
  <2>1. /\ UNCHANGED <<stockCount, topic, job, seen>>
        /\ \A d \in Consumers \ {c} : pc'[d] = pc[d]
        /\ \/ pc'[c] = "get" /\ dirty' = dirty \ {c}
           \/ pc[c] = "insert" /\ pc'[c] = "exec" /\ dirty' = dirty
    BY <1>4, <1>t DEF Watch, InsertOrder, GoTo, TypeOK, redis
  <2>2. \A d \in Consumers : Settled(d)'
    BY <2>1, StillFresh DEF Settled, Fresh, WatchInv, Sid, Record
  <2>. QED  BY <1>t, <2>1, <2>2 DEF WatchInv, Settled, CountNonNegative
<1>5. ASSUME NEW c \in Consumers, ReadCount(c)
      PROVE  WatchInv'
  <2>1. /\ UNCHANGED <<stockCount, topic, job, dirty>>
        /\ \A d \in Consumers \ {c} : pc'[d] = pc[d] /\ seen'[d] = seen[d]
        /\ seen'[c] = stockCount[Sid(c)]
        /\ pc'[c] = IF HasStock(stockCount[Sid(c)]) THEN "insert" ELSE "exec"
    BY <1>5, <1>t DEF ReadCount, GoTo, TypeOK, redis
  <2>2. \A d \in Consumers : Settled(d)'
    BY <2>1, StillFresh DEF Settled, Fresh, WatchInv, Sid, Record, HasStock
  <2>. QED  BY <1>t, <2>1, <2>2 DEF WatchInv, Settled, CountNonNegative
<1>6. ASSUME NEW c \in Consumers, Exec(c) \/ ExecFails(c)
      PROVE  WatchInv'
  <2>1. PICK b \in {FALSE, ExecApplies(c)} : ExecEffect(c, b)
    BY <1>6 DEF Exec, ExecFails
  <2>2. /\ pc[c] = "exec" /\ topic' = topic /\ pc'[c] \in {"idle", "watch", "restore"}
        /\ \A d \in Consumers \ {c} : pc'[d] = pc[d] /\ job'[d] = job[d] /\ seen'[d] = seen[d]
    BY <1>6, <1>t, ReturnOthers, ThrowOthers DEF Exec, ExecFails
  <2>3. CASE UNCHANGED redis /\ dirty' = dirty \ {c}
    <3>1. \A d \in Consumers : Settled(d)'
      BY <2>2, <2>3, StillFresh DEF Settled, Fresh, WatchInv, redis
    <3>. QED  BY <1>t, <2>3, <3>1 DEF WatchInv, Settled, CountNonNegative, redis
  <2>4. CASE MoveStock(c, Sid(c), 1) /\ Sid(c) \in Sids /\ stockCount[Sid(c)] > 0
    <3>1. \A d \in Consumers : Settled(d)'
      BY <2>2, <2>4, MoveStockFresh DEF Settled, Fresh, WatchInv
    <3>2. CountNonNegative'
      BY <1>t, <2>4 DEF MoveStock, CountNonNegative, WatchInv, TypeOK
    <3>. QED  BY <1>t, <3>1, <3>2 DEF WatchInv, Settled
  <2>. QED  BY <2>1, <2>2, <2>3, <2>4, ExecTakes
<1>7. ASSUME NEW c \in Consumers, Restore(c)
      PROVE  WatchInv'
  <2>1. Sid(c) \in Sids /\ -1 \in Int /\ MoveStock(c, Sid(c), -1) /\ topic' = topic
    BY <1>7, <1>t, BusyRecord DEF Restore
  <2>2. /\ pc'[c] \in {"idle", "watch"}
        /\ \A d \in Consumers \ {c} : pc'[d] = pc[d] /\ job'[d] = job[d] /\ seen'[d] = seen[d]
    BY <1>7, <1>t, ReturnOthers DEF Restore
  <2>3. \A d \in Consumers : Settled(d)'
    BY <2>1, <2>2, MoveStockFresh DEF Settled, Fresh, WatchInv
  <2>4. CountNonNegative'
    BY <1>t, <2>1 DEF MoveStock, CountNonNegative, WatchInv, TypeOK
  <2>. QED  BY <1>t, <2>3, <2>4 DEF WatchInv, Settled
<1>8. ASSUME NEW c \in Consumers,
             Crash(c) \/ RedisFails(c) \/ InsertFails(c) \/ RestoreFails(c)
      PROVE  WatchInv'
  <2>1. /\ UNCHANGED <<stockCount, topic>> /\ dirty \ {c} \subseteq dirty'
        /\ pc'[c] \in {"idle", "watch", "restore"}
    BY <1>8, <1>t, ReturnOthers, ThrowOthers
       DEF Crash, RedisFails, InsertFails, RestoreFails, redis, TypeOK
  <2>2. \A d \in Consumers \ {c} : pc'[d] = pc[d] /\ job'[d] = job[d] /\ seen'[d] = seen[d]
    BY <1>8, <1>t, ReturnOthers, ThrowOthers
       DEF Crash, RedisFails, InsertFails, RestoreFails, TypeOK
  <2>3. \A d \in Consumers : Settled(d)'
    BY <2>1, <2>2, StillFresh DEF Settled, Fresh, WatchInv
  <2>. QED  BY <1>t, <2>1, <2>3 DEF WatchInv, Settled, CountNonNegative
<1>9. CASE UNCHANGED vars
  BY <1>t, <1>9 DEF vars, thread, redis, WatchInv, Fresh, Sid, Record, CountNonNegative
<1>. QED
  BY <1>1, <1>2, <1>3, <1>4, <1>5, <1>6, <1>7, <1>8, <1>9, StepCases

LEMMA WatchInit ==
  ASSUME ConsumerAssumption, Init
  PROVE  WatchInv
  BY DEF ConsumerAssumption, Init, TypeOK, WatchInv, Fresh, CountNonNegative

(* CountNonNegative: the stock in Redis never goes below zero, whatever    *)
(* threads interleave and whatever fails.                                  *)
THEOREM StockNeverNegative == Spec => []CountNonNegative
<1>1. Init => WatchInv
  BY WatchInit, ConsumerAssumption
<1>2. WatchInv /\ [Next]_vars => WatchInv'
  BY WatchStep, ConsumerAssumption
<1>3. WatchInv => CountNonNegative
  BY DEF WatchInv
<1>. QED  BY <1>1, <1>2, <1>3, PTL DEF Spec

-----------------------------------------------------------------------------
(* Every step of OrderConsumer is a step of the ledger, or none.           *)
LEMMA LedgerStep ==
  ASSUME WatchInv, [Next]_vars
  PROVE  [Ledger!Next]_(Ledger!ledger)
<1>1. ASSUME NEW c \in Consumers, NEW s \in Sids, MoveStock(c, s, 1), stockCount[s] > 0
      PROVE  Ledger!Next
  BY <1>1 DEF MoveStock, Ledger!Next, Ledger!Take, Ledger!Move
<1>2. ASSUME NEW c \in Consumers, NEW s \in Sids, MoveStock(c, s, -1)
      PROVE  Ledger!Next
  BY <1>2 DEF MoveStock, Ledger!Next, Ledger!PutBack, Ledger!Move
<1>3. ASSUME NEW c \in Consumers, Exec(c) \/ ExecFails(c)
      PROVE  [Ledger!Next]_(Ledger!ledger)
  <2>1. pc[c] = "exec" /\ \E b \in {FALSE, ExecApplies(c)} : ExecEffect(c, b)
    BY <1>3 DEF Exec, ExecFails
  <2>. QED  BY <1>1, <2>1, ExecTakes DEF Ledger!ledger, redis
<1>4. ASSUME NEW c \in Consumers, Restore(c)
      PROVE  Ledger!Next
  <2>1. Sid(c) \in Sids /\ MoveStock(c, Sid(c), -1)
    BY <1>4, BusyRecord DEF Restore, WatchInv
  <2>. QED  BY <1>2, <2>1
<1>5. CASE UNCHANGED redis
  BY <1>5 DEF redis, Ledger!ledger
<1>6. \/ UNCHANGED redis
      \/ \E c \in Consumers : Exec(c) \/ ExecFails(c) \/ Restore(c)
  BY StepCases DEF vars, Publish, Poll, Commit, Rebalance, Watch, ReadCount, InsertOrder,
     Crash, RedisFails, InsertFails, RestoreFails
<1>. QED  BY <1>3, <1>4, <1>5, <1>6

(* LedgerSpec: the three Redis keys of every article implement the ledger  *)
(* of StockLedger, so WATCH, GET, MULTI and EXEC are as good as one step.  *)
THEOREM ImplementsLedger == Spec => LedgerSpec
<1>1. Init => WatchInv
  BY WatchInit, ConsumerAssumption
<1>2. WatchInv /\ [Next]_vars => WatchInv'
  BY WatchStep, ConsumerAssumption
<1>3. Init => Ledger!Init
  BY DEF Init, Ledger!Init
<1>4. WatchInv /\ [Next]_vars => [Ledger!Next]_(Ledger!ledger)
  BY LedgerStep
<1>. QED  BY <1>1, <1>2, <1>3, <1>4, PTL DEF Spec, LedgerSpec, Ledger!Spec

=============================================================================
