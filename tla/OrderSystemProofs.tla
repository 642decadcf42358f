-------------------------- MODULE OrderSystemProofs --------------------------
(***************************************************************************)
(* What holds of the whole path of an order, for any requests, users,      *)
(* articles, instances, partitions and number of failures.                 *)
(***************************************************************************)
EXTENDS OrderSystem, OversellProofs

LEMMA SystemStepCases ==
  ASSUME SystemNext
  PROVE  \/ \E r \in Requests : \/ Enter(r) \/ ReadStock(r) \/ Send(r) \/ Accept(r)
                                \/ ReadOrders(r) \/ ReadCountLeft(r) \/ DeliverFails(r)
         \/ \E r \in Requests, p \in Partitions : Deliver(r, p) \/ DeliverUnacked(r, p)
         \/ ConsumerNext /\ UNCHANGED frontend
         \/ \E c \in Consumers : InstanceCrash(c)
  BY DEF SystemNext, Pay, PayResult, ConsumerNext, Failure, CallFails

-----------------------------------------------------------------------------
(* The types of what the web requests, the producer and the polls hold.    *)
LEMMA SystemTypeStep ==
  ASSUME SystemAssumption, SystemTypeOK, [SystemNext]_system
  PROVE  SystemTypeOK'
<1>. USE DEF SystemTypeOK, Accepted, frontend
<1>1. ASSUME NEW r \in Requests, Enter(r)
      PROVE  SystemTypeOK'
  BY <1>1 DEF Enter, Answer, SystemAssumption
<1>2. ASSUME NEW r \in Requests, ReadStock(r)
      PROVE  SystemTypeOK'
  BY <1>2 DEF ReadStock, Answer
<1>3. ASSUME NEW r \in Requests, Send(r)
      PROVE  SystemTypeOK'
  <2>1. CASE web' = [web EXCEPT ![r] = "sent"] /\ sent' = sent \cup {r}
    <3>1. /\ web[r] = "send" /\ BuyerOf[r] \in Users /\ r \notin sent
          /\ outbox' = outbox \cup {r} /\ reply' = reply /\ UNCHANGED <<poll, verdict>>
      BY <1>3, <2>1 DEF Send
    <3>2. reply[r] = "none"
      BY <3>1
    <3>. QED  BY <2>1, <3>1, <3>2
  <2>2. CASE sent' = sent /\ outbox' = outbox /\ Answer(r, "failed")
    BY <1>3, <2>2 DEF Send, Answer
  <2>. QED  BY <1>3, <2>1, <2>2 DEF Send
<1>11. ASSUME NEW r \in Requests, Accept(r)
      PROVE  SystemTypeOK'
  BY <1>11 DEF Accept, Answer
<1>4. ASSUME NEW r \in Requests, ReadOrders(r)
      PROVE  SystemTypeOK'
  BY <1>4 DEF ReadOrders
<1>5. ASSUME NEW r \in Requests, ReadCountLeft(r)
      PROVE  SystemTypeOK'
  BY <1>5 DEF ReadCountLeft
<1>6. ASSUME NEW r \in Requests, DeliverFails(r)
      PROVE  SystemTypeOK'
  BY <1>6 DEF DeliverFails
<1>7. ASSUME NEW r \in Requests, NEW p \in Partitions, Deliver(r, p) \/ DeliverUnacked(r, p)
      PROVE  SystemTypeOK'
  BY <1>7 DEF Deliver, DeliverUnacked
<1>8. ASSUME NEW c \in Consumers, InstanceCrash(c)
      PROVE  SystemTypeOK'
  BY <1>8 DEF InstanceCrash
<1>9. CASE UNCHANGED frontend
  BY <1>9
<1>10. CASE UNCHANGED system
  BY <1>9, <1>10 DEF system
<1>. QED
  BY <1>1, <1>2, <1>3, <1>4, <1>5, <1>6, <1>7, <1>8, <1>9, <1>10, <1>11, SystemStepCases

(* A step of the whole system is a step of the consumer side: what the web *)
(* requests add reaches it only as records in the topic.                   *)
LEMMA SystemStepRefines ==
  ASSUME SystemAssumption, SystemTypeOK, [SystemNext]_system
  PROVE  [Next]_vars
<1>1. ASSUME NEW r \in Requests,
             \/ Enter(r) \/ ReadStock(r) \/ Send(r) \/ Accept(r)
             \/ ReadOrders(r) \/ ReadCountLeft(r) \/ DeliverFails(r)
      PROVE  UNCHANGED vars
  BY <1>1 DEF Enter, ReadStock, Send, Accept, ReadOrders, ReadCountLeft, DeliverFails
<1>2. ASSUME NEW r \in Requests, NEW p \in Partitions, Deliver(r, p) \/ DeliverUnacked(r, p)
      PROVE  Next
  <2>1. Publish(p, RecordOf(r)) /\ r \in outbox
    BY <1>2 DEF Deliver, DeliverUnacked
  <2>2. RecordOf(r) \in Message
    BY <2>1 DEF RecordOf, Message, SystemTypeOK, SystemAssumption
  <2>. QED  BY <2>1, <2>2 DEF Next
<1>3. ASSUME NEW c \in Consumers, InstanceCrash(c)
      PROVE  Next
  BY <1>3 DEF InstanceCrash, Next, ConsumerNext, Failure
<1>4. ASSUME ConsumerNext
      PROVE  Next
  BY <1>4 DEF Next
<1>5. CASE UNCHANGED system
  BY <1>5 DEF system
<1>. QED  BY <1>1, <1>2, <1>3, <1>4, <1>5, SystemStepCases

LEMMA SystemInitType == ASSUME SystemAssumption, SystemInit PROVE SystemTypeOK
  BY DEF SystemInit, SystemTypeOK, Accepted

(* The variables of web requests, producer and polls keep their types, and *)
(* no request of an unknown user gets past the session check of pay.       *)
THEOREM SystemTypeCorrect == SystemSpec => []SystemTypeOK
<1>1. SystemInit => SystemTypeOK
  BY SystemInitType, SystemAssumption
<1>2. SystemTypeOK /\ [SystemNext]_system => SystemTypeOK'
  BY SystemTypeStep, SystemAssumption
<1>. QED  BY <1>1, <1>2, PTL DEF SystemSpec

(* The controller and the producer drive the consumer side only in ways    *)
(* its specification allows, so all that is proved of Spec holds here.     *)
THEOREM SystemRefinesConsumer == SystemSpec => Spec
<1>1. SystemInit => Init
  BY DEF SystemInit
<1>2. SystemTypeOK /\ [SystemNext]_system => [Next]_vars
  BY SystemStepRefines, SystemAssumption
<1>. QED  BY <1>1, <1>2, SystemTypeCorrect, PTL DEF SystemSpec, Spec

-----------------------------------------------------------------------------
(* A record in the topic is that of a request that was sent: this is what  *)
(* makes OrdersRequested inductive, since InsertOrder copies a record to a *)
(* row.                                                                    *)
Asked(m) == \E r \in sent : m = RecordOf(r)

TopicRequested == \A p \in Partitions : \A o \in 1..Len(topic[p]) : Asked(topic[p][o])

RowsRequested == \A i \in DOMAIN orders : Asked(orders[i])

RequestInv ==
  /\ TypeOK
  /\ SystemTypeOK
  /\ TopicRequested
  /\ RowsRequested

(* What was sent stays sent, also over the crash of the instance.          *)
LEMMA SentStays ==
  ASSUME [SystemNext]_system
  PROVE  sent \subseteq sent'
  BY SystemStepCases
     DEF system, frontend, Enter, ReadStock, Send, Accept, ReadOrders, ReadCountLeft,
         DeliverFails, Deliver, DeliverUnacked, InstanceCrash

(* The rows a step adds are copies of records in the topic.                *)
LEMMA RowsFromTopic ==
  ASSUME TypeOK, [Next]_vars
  PROVE  \/ orders' = orders
         \/ \E c \in Consumers : pc[c] # "idle" /\ orders' = Append(orders, Record(c))
<1>1. ASSUME NEW c \in Consumers, InsertOrder(c) \/ InsertFails(c)
      PROVE  orders' = orders \/ (pc[c] # "idle" /\ orders' = Append(orders, Record(c)))
  BY <1>1 DEF InsertOrder, InsertFails
<1>. QED
  BY <1>1, StepCases
     DEF vars, Publish, Poll, Commit, Rebalance, Watch, ReadCount, Exec, Restore, Crash,
         RedisFails, ExecFails, RestoreFails

(* The records a step adds come from requests that were sent.              *)
LEMMA TopicFromRequests ==
  ASSUME SystemTypeOK, [SystemNext]_system
  PROVE  \/ topic' = topic
         \/ \E r \in sent, p \in Partitions :
              topic' = [topic EXCEPT ![p] = Append(@, RecordOf(r))]
<1>1. ASSUME NEW r \in Requests, NEW p \in Partitions, Deliver(r, p) \/ DeliverUnacked(r, p)
      PROVE  r \in sent /\ topic' = [topic EXCEPT ![p] = Append(@, RecordOf(r))]
  BY <1>1 DEF Deliver, DeliverUnacked, Publish, SystemTypeOK
<1>2. ASSUME ConsumerNext
      PROVE  topic' = topic
  BY <1>2 DEF ConsumerNext, Consume, Step, Failure, Poll, Commit, Rebalance, Watch,
              ReadCount, InsertOrder, Exec, Restore, Crash, RedisFails, InsertFails,
              ExecFails, RestoreFails
<1>3. ASSUME NEW c \in Consumers, InstanceCrash(c)
      PROVE  topic' = topic
  BY <1>3 DEF InstanceCrash, Crash
<1>4. ASSUME NEW r \in Requests,
             \/ Enter(r) \/ ReadStock(r) \/ Send(r) \/ Accept(r)
             \/ ReadOrders(r) \/ ReadCountLeft(r) \/ DeliverFails(r)
      PROVE  topic' = topic
  BY <1>4 DEF Enter, ReadStock, Send, Accept, ReadOrders, ReadCountLeft, DeliverFails, vars
<1>. QED  BY <1>1, <1>2, <1>3, <1>4, SystemStepCases DEF system, vars

LEMMA RequestStep ==
  ASSUME ConsumerAssumption, SystemAssumption, RequestInv, [SystemNext]_system
  PROVE  RequestInv'
<1>1. TypeOK /\ SystemTypeOK /\ TopicRequested /\ RowsRequested
  BY DEF RequestInv
<1>2. [Next]_vars
  BY <1>1, SystemStepRefines
<1>3. TypeOK' /\ SystemTypeOK'
  BY <1>1, <1>2, TypeStep, SystemTypeStep
<1>4. \A m : Asked(m) => Asked(m)'
  BY SentStays DEF Asked, RecordOf
<1>5. TopicRequested'
  <2>1. CASE topic' = topic
    BY <1>1, <1>4, <2>1 DEF TopicRequested
  <2>2. ASSUME NEW r \in sent, NEW p \in Partitions,
               topic' = [topic EXCEPT ![p] = Append(@, RecordOf(r))]
        PROVE  TopicRequested'
    <3>1. Asked(RecordOf(r))
      BY <2>2 DEF Asked
    <3>2. topic \in [Partitions -> Seq(Message)]
      BY <1>1 DEF TypeOK
    <3>3. ASSUME NEW q \in Partitions, NEW o \in 1..Len(topic'[q])
          PROVE  topic'[q][o] = RecordOf(r) \/ (o \in 1..Len(topic[q]) /\ topic'[q][o] = topic[q][o])
      <4>1. CASE q = p
        <5>1. topic'[q] = Append(topic[q], RecordOf(r)) /\ topic[q] \in Seq(Message)
          BY <2>2, <3>2, <4>1
        <5>. QED  BY <5>1
      <4>2. CASE q # p
        BY <2>2, <3>2, <4>2
      <4>. QED  BY <4>1, <4>2
    <3>. QED  BY <1>1, <1>4, <3>1, <3>3 DEF TopicRequested
  <2>. QED  BY <1>1, <2>1, <2>2, TopicFromRequests
<1>6. RowsRequested'
  <2>1. \A i \in DOMAIN orders : Asked(orders[i])
    BY <1>1 DEF RowsRequested
  <2>2. CASE orders' = orders
    BY <1>4, <2>1, <2>2 DEF RowsRequested
  <2>3. ASSUME NEW c \in Consumers, pc[c] # "idle", orders' = Append(orders, Record(c))
        PROVE  RowsRequested'
    <3>1. job[c].part \in Partitions /\ job[c].off \in 1..Len(topic[job[c].part])
      BY <1>1, <2>3, BusyRecord DEF Job
    <3>2. Asked(Record(c))
      BY <1>1, <3>1 DEF TopicRequested, Record
    <3>3. orders \in Seq(Message)
      BY <1>1 DEF TypeOK
    <3>4. \A i \in DOMAIN orders' : orders'[i] = Record(c) \/ (i \in DOMAIN orders /\ orders'[i] = orders[i])
      BY <2>3, <3>3
    <3>5. \A i \in DOMAIN orders' : Asked(orders'[i])
      BY <2>1, <3>2, <3>4
    <3>6. \A i \in DOMAIN orders' : \E r \in sent' : orders'[i] = RecordOf(r)
      BY <3>5, SentStays DEF Asked
    <3>. QED  BY <3>6 DEF RowsRequested, Asked, RecordOf
  <2>. QED  BY <1>1, <1>2, <2>2, <2>3, RowsFromTopic
<1>. QED  BY <1>3, <1>5, <1>6 DEF RequestInv

(* Nobody gets an order he did not ask for or was refused: a row exists    *)
(* only for a request of that user for that article whose record was sent, *)
(* and such a request is answered with "accepted" or, if its instance dies *)
(* first, not at all, whatever crashes, is lost or is delivered twice.     *)
THEOREM OnlyRequestedOrders == SystemSpec => []OrdersRequested
<1>1. SystemInit => RequestInv
  <2>1. Init => TypeOK
    BY ConsumerAssumption DEF Init, TypeOK, ConsumerAssumption
  <2>2. Init => TopicRequested /\ RowsRequested
    BY DEF Init, TopicRequested, RowsRequested
  <2>. QED  BY <2>1, <2>2, SystemInitType, SystemAssumption DEF SystemInit, RequestInv
<1>2. RequestInv /\ [SystemNext]_system => RequestInv'
  BY RequestStep, ConsumerAssumption, SystemAssumption
<1>3. RequestInv => OrdersRequested
  BY DEF RequestInv, RowsRequested, Asked, OrdersRequested, SystemTypeOK
<1>. QED  BY <1>1, <1>2, <1>3, PTL DEF SystemSpec

-----------------------------------------------------------------------------
(* The steps that are left when neither calls, instances nor the broker    *)
(* fail: what a listener thread or the broker does, and what the web       *)
(* requests and the producer do; partitions may still change hands, or not *)
(* even that.                                                              *)
ListenerStep(c) ==
  \/ Watch(c) \/ ReadCount(c) \/ InsertOrder(c) \/ Exec(c)
  \/ \E p \in Partitions, n \in 1..MaxBatch : Poll(c, p, n)

NoCatch == \A c \in Consumers : pc[c] # "restore"

LEMMA CalmSystemCases ==
  ASSUME Faults \subseteq {"rebalance"}, ~BrokerFaults, NoCatch, SystemNext
  PROVE  \/ \E r \in Requests : \/ Enter(r) \/ ReadStock(r) \/ Send(r) \/ Accept(r)
                                \/ ReadOrders(r) \/ ReadCountLeft(r)
         \/ \E r \in Requests, p \in Partitions : Deliver(r, p)
         \/ UNCHANGED frontend /\ \E c \in Consumers : ListenerStep(c)
         \/ UNCHANGED frontend /\ \E p \in Partitions : Commit(p)
         \/ UNCHANGED frontend /\ \E p \in Partitions, c \in Consumers : Rebalance(p, c)
<1>1. ASSUME NEW r \in Requests, DeliverFails(r) \/ \E p \in Partitions : DeliverUnacked(r, p)
      PROVE  FALSE
  BY <1>1 DEF DeliverFails, DeliverUnacked
<1>2. ASSUME NEW c \in Consumers, InstanceCrash(c)
      PROVE  FALSE
  BY <1>2 DEF InstanceCrash, Crash, Fault
<1>3. ASSUME ConsumerNext
      PROVE  \/ \E c \in Consumers : ListenerStep(c)
             \/ \E p \in Partitions : Commit(p)
             \/ \E p \in Partitions, c \in Consumers : Rebalance(p, c)
  <2>1. ASSUME NEW c \in Consumers,
               RedisFails(c) \/ InsertFails(c) \/ ExecFails(c) \/ RestoreFails(c) \/ Crash(c)
        PROVE  FALSE
    BY <2>1 DEF Crash, RedisFails, InsertFails, ExecFails, RestoreFails, Fault
  <2>2. ASSUME NEW c \in Consumers, Restore(c)
        PROVE  FALSE
    BY <2>2 DEF Restore, NoCatch
  <2>. QED  BY <1>3, <2>1, <2>2 DEF ConsumerNext, Consume, Step, Failure, ListenerStep
<1>. QED  BY <1>1, <1>2, <1>3, SystemStepCases

LEMMA CalmCases ==
  ASSUME Faults \subseteq {"rebalance"}, NoCatch, Next
  PROVE  \/ \E p \in Partitions, m \in Message : Publish(p, m)
         \/ \E c \in Consumers, p \in Partitions, n \in 1..MaxBatch : Poll(c, p, n)
         \/ \E p \in Partitions : Commit(p)
         \/ \E p \in Partitions, c \in Consumers : Rebalance(p, c)
         \/ \E c \in Consumers : Watch(c) \/ ReadCount(c) \/ InsertOrder(c) \/ Exec(c)
<1>1. ASSUME NEW c \in Consumers,
             Crash(c) \/ RedisFails(c) \/ InsertFails(c) \/ ExecFails(c) \/ RestoreFails(c)
      PROVE  FALSE
  BY <1>1 DEF Crash, RedisFails, InsertFails, ExecFails, RestoreFails, Fault
<1>2. ASSUME NEW c \in Consumers, Restore(c)
      PROVE  FALSE
  BY <1>2 DEF Restore, NoCatch
<1>. QED  BY <1>1, <1>2, StepCases

LEMMA SmoothSystemCases ==
  ASSUME Faults = {}, ~BrokerFaults, InTurn, SystemNext
  PROVE  \/ \E r \in Requests : \/ Enter(r) \/ ReadStock(r) \/ Send(r) \/ Accept(r)
                                \/ ReadOrders(r) \/ ReadCountLeft(r)
         \/ \E r \in Requests, p \in Partitions : Deliver(r, p)
         \/ UNCHANGED frontend /\ \E c \in Consumers : ListenerStep(c)
         \/ UNCHANGED frontend /\ \E p \in Partitions : Commit(p)
<1>1. NoCatch
  BY DEF InTurn, NoCatch
<1>2. ASSUME NEW p \in Partitions, NEW c \in Consumers, Rebalance(p, c)
      PROVE  FALSE
  BY <1>2 DEF Rebalance
<1>. QED  BY <1>1, <1>2, CalmSystemCases

LEMMA PublishKeepsLog ==
  ASSUME TypeOK, NEW p \in Partitions, NEW m \in Message, Publish(p, m)
  PROVE  /\ \A q \in Partitions : \A o \in 1..Len(topic[q]) :
              o \in 1..Len(topic'[q]) /\ topic'[q][o] = topic[q][o]
         /\ Len(topic'[p]) = Len(topic[p]) + 1 /\ topic'[p][Len(topic[p]) + 1] = m
         /\ \A q \in Partitions : q # p => topic'[q] = topic[q]
<1>1. topic' = [topic EXCEPT ![p] = Append(topic[p], m)] /\ topic \in [Partitions -> Seq(Message)]
  BY DEF Publish, TypeOK
<1>2. topic'[p] = Append(topic[p], m) /\ topic[p] \in Seq(Message)
  BY <1>1
<1>3. \A q \in Partitions : q # p => topic'[q] = topic[q]
  BY <1>1
<1>4. /\ Len(topic'[p]) = Len(topic[p]) + 1 /\ topic'[p][Len(topic[p]) + 1] = m
      /\ \A o \in 1..Len(topic[p]) : o \in 1..Len(topic'[p]) /\ topic'[p][o] = topic[p][o]
  BY <1>2
<1>. QED  BY <1>3, <1>4

-----------------------------------------------------------------------------
(* What listeners are done with is in the log, and no catch block runs.    *)
CalmInv ==
  /\ TypeOK
  /\ NoCatch
  /\ \A p \in Partitions : \A o \in handled[p] : o \in 1..Len(topic[p])

LEMMA CalmStep ==
  ASSUME ConsumerAssumption, Faults \subseteq {"rebalance"}, CalmInv, [Next]_vars
  PROVE  CalmInv'
<1>t. TypeOK /\ NoCatch /\ TypeOK'
  BY TypeStep DEF CalmInv
<1>1. ASSUME NEW p \in Partitions, NEW m \in Message, Publish(p, m)
      PROVE  CalmInv'
  <2>1. pc' = pc /\ handled' = handled
    BY <1>1 DEF Publish, thread
  <2>2. \A q \in Partitions : \A o \in handled'[q] : o \in 1..Len(topic'[q])
    BY <1>t, <1>1, <2>1, PublishKeepsLog DEF CalmInv
  <2>. QED  BY <1>t, <2>1, <2>2 DEF CalmInv, NoCatch
<1>2. ASSUME UNCHANGED <<topic, handled>>, NoCatch'
      PROVE  CalmInv'
  BY <1>t, <1>2 DEF CalmInv
<1>3. ASSUME NEW c \in Consumers, NEW p \in Partitions, NEW n \in 1..MaxBatch, Poll(c, p, n)
      PROVE  CalmInv'
  BY <1>t, <1>2, <1>3 DEF Poll, GoTo, NoCatch, TypeOK
<1>4. ASSUME NEW p \in Partitions, Commit(p) \/ \E c \in Consumers : Rebalance(p, c)
      PROVE  CalmInv'
  BY <1>t, <1>2, <1>4 DEF Commit, Rebalance, thread, NoCatch
<1>5. ASSUME NEW c \in Consumers, Watch(c) \/ ReadCount(c) \/ InsertOrder(c)
      PROVE  CalmInv'
  BY <1>t, <1>2, <1>5 DEF Watch, ReadCount, InsertOrder, GoTo, NoCatch, TypeOK
<1>6. ASSUME NEW c \in Consumers, Exec(c)
      PROVE  CalmInv'
  <2>1. /\ topic' = topic /\ pc[c] = "exec" /\ pc'[c] # "restore"
        /\ \A d \in Consumers \ {c} : pc'[d] = pc[d]
        /\ handled' = [handled EXCEPT ![job[c].part] = @ \cup {job[c].off}]
        /\ handled \in [Partitions -> SUBSET Nat]
    BY <1>t, <1>6, ReturnOthers DEF Exec, Return, GoTo, TypeOK
  <2>2. job[c].off \in 1..Len(topic[job[c].part])
    BY <1>t, <2>1, BusyRecord
  <2>3. \A q \in Partitions : \A o \in handled'[q] : o \in 1..Len(topic'[q])
    BY <2>1, <2>2 DEF CalmInv
  <2>4. NoCatch'
    BY <1>t, <2>1 DEF NoCatch
  <2>. QED  BY <1>t, <2>3, <2>4 DEF CalmInv
<1>7. ASSUME UNCHANGED vars
      PROVE  CalmInv'
  BY <1>t, <1>2, <1>7 DEF vars, thread, NoCatch
<1>. QED  BY <1>1, <1>3, <1>4, <1>5, <1>6, <1>7, CalmCases DEF CalmInv

-----------------------------------------------------------------------------
(* A record is settled for good when its customer has an order of the      *)
(* article, or the article is sold out: without failures rows stay and the *)
(* stock only falls.                                                       *)
Bought(m)   == \E i \in DOMAIN orders : orders[i] = m
Resolved(m) == Bought(m) \/ stockCount[m.sid] <= 0

(* The listener is done with a record only when it is resolved.            *)
HandledResolved ==
  /\ \A p \in Partitions : \A o \in handled[p] : Resolved(topic[p][o])
  /\ \A c \in Consumers : pc[c] = "exec" => Resolved(Record(c))

(* A refusal was for good, and a request that was sent is on its way.      *)
RefusedForGood == \A r \in Requests : reply[r] = "failed" => ~InStock(r)

OnItsWay(r) ==
  \/ r \in outbox
  \/ \E p \in Partitions : \E o \in 1..Len(topic[p]) : topic[p][o] = RecordOf(r)

NoneForgotten == \A r \in sent : OnItsWay(r)

SoldOutInv ==
  /\ CalmInv
  /\ DeliveryInv
  /\ SystemTypeOK
  /\ HandledResolved
  /\ RefusedForGood
  /\ NoneForgotten

LEMMA StockOnlyFalls ==
  ASSUME Faults \subseteq {"rebalance"}, CalmInv, [Next]_vars, NEW s \in Sids
  PROVE  stockCount'[s] <= stockCount[s] /\ stockCount[s] \in Int /\ stockCount'[s] \in Int
<1>1. stockCount \in [Sids -> Int] /\ TypeOK /\ NoCatch
  BY DEF CalmInv, TypeOK
<1>2. ASSUME NEW c \in Consumers, Exec(c)
      PROVE  stockCount' = stockCount \/ stockCount' = [stockCount EXCEPT ![Sid(c)] = @ - 1]
  BY <1>2 DEF Exec, ExecEffect, MoveStock, redis
<1>3. stockCount' = stockCount
      \/ \E c \in Consumers : stockCount' = [stockCount EXCEPT ![Sid(c)] = @ - 1]
  BY <1>1, <1>2, CalmCases
     DEF Publish, Poll, Commit, Rebalance, Watch, ReadCount, InsertOrder, redis, vars
<1>4. ASSUME NEW c \in Consumers, stockCount' = [stockCount EXCEPT ![Sid(c)] = @ - 1]
      PROVE  stockCount'[s] = stockCount[s] \/ stockCount'[s] = stockCount[s] - 1
  BY <1>1, <1>4
<1>5. stockCount[s] \in Int
  BY <1>1
<1>. QED  BY <1>3, <1>4, <1>5

LEMMA ResolvedStays ==
  ASSUME Faults \subseteq {"rebalance"}, CalmInv, [Next]_vars, NEW m \in Message, Resolved(m)
  PROVE  Resolved(m)'
<1>1. m.sid \in Sids
  BY DEF Message
<1>2. CASE Bought(m)
  <2>1. TypeOK
    BY DEF CalmInv
  <2>2. orders \in Seq(Message)
    BY <2>1 DEF TypeOK
  <2>3. orders' = orders \/ \E c \in Consumers : orders' = Append(orders, Record(c))
    BY <2>1, RowsFromTopic
  <2>4. \A i \in DOMAIN orders : i \in DOMAIN orders' /\ orders'[i] = orders[i]
    BY <2>2, <2>3
  <2>. QED  BY <1>2, <2>4 DEF Bought, Resolved
<1>3. CASE stockCount[m.sid] <= 0
  <2>1. stockCount'[m.sid] <= 0
    BY <1>1, <1>3, StockOnlyFalls
  <2>. QED  BY <2>1 DEF Resolved
<1>. QED  BY <1>2, <1>3 DEF Resolved

LEMMA HandledResolvedStep ==
  ASSUME ConsumerAssumption, Faults \subseteq {"rebalance"}, CalmInv, HandledResolved, [Next]_vars
  PROVE  HandledResolved'
<1>1. TypeOK /\ NoCatch
  BY DEF CalmInv
<1>2. ASSUME NEW p \in Partitions, NEW o \in handled[p]
      PROVE  /\ o \in 1..Len(topic[p]) /\ topic[p][o] \in Message
             /\ \E m \in Message : m = topic[p][o] /\ Resolved(m)'
  <2>1. o \in 1..Len(topic[p]) /\ topic[p] \in Seq(Message)
    BY <1>1 DEF CalmInv, TypeOK
  <2>2. PICK m \in Message : m = topic[p][o]
    BY <2>1
  <2>3. Resolved(m)
    BY <2>2 DEF HandledResolved
  <2>. QED  BY <2>1, <2>2, <2>3, ResolvedStays
<1>3. ASSUME NEW c \in Consumers, pc[c] = "exec"
      PROVE  \E m \in Message : m = Record(c) /\ Resolved(m)'
  <2>1. PICK m \in Message : m = Record(c)
    BY <1>1, <1>3, BusyRecord
  <2>2. Resolved(m)
    BY <1>3, <2>1 DEF HandledResolved
  <2>. QED  BY <2>1, <2>2, ResolvedStays
<1>4. ASSUME \A p \in Partitions : \A o \in handled'[p] :
               \E m \in Message : m = topic'[p][o] /\ Resolved(m)',
             \A c \in Consumers : pc'[c] = "exec" =>
               \E m \in Message : m = Record(c)' /\ Resolved(m)'
      PROVE  HandledResolved'
  BY <1>4 DEF HandledResolved, Resolved, Bought
<1>5. ASSUME NEW p \in Partitions, NEW m \in Message, Publish(p, m)
      PROVE  HandledResolved'
  <2>1. handled' = handled /\ pc' = pc
    BY <1>5 DEF Publish, thread
  <2>2. \A q \in Partitions : \A o \in handled'[q] : topic'[q][o] = topic[q][o]
    BY <1>1, <1>2, <1>5, <2>1, PublishKeepsLog
  <2>3. \A c \in Consumers : pc'[c] = "exec" => Record(c)' = Record(c)
    BY <1>1, <1>5, <2>1, PublishKeepsSid
  <2>. QED  BY <1>2, <1>3, <1>4, <2>1, <2>2, <2>3
<1>6. ASSUME UNCHANGED <<handled, topic>>,
             \A c \in Consumers :
               pc'[c] = "exec" => pc[c] = "exec" /\ Record(c)' = Record(c)
      PROVE  HandledResolved'
  BY <1>2, <1>3, <1>4, <1>6
<1>7. ASSUME NEW c \in Consumers, NEW p \in Partitions, NEW n \in 1..MaxBatch, Poll(c, p, n)
      PROVE  HandledResolved'
  <2>1. /\ UNCHANGED <<handled, topic>> /\ pc'[c] = "watch"
        /\ \A d \in Consumers \ {c} : pc'[d] = pc[d] /\ job'[d] = job[d]
    BY <1>1, <1>7 DEF Poll, GoTo, TypeOK
  <2>. QED  BY <1>6, <2>1 DEF Record
<1>8. ASSUME NEW p \in Partitions, Commit(p) \/ \E c \in Consumers : Rebalance(p, c)
      PROVE  HandledResolved'
  BY <1>6, <1>8 DEF Commit, Rebalance, thread, Record
<1>9. ASSUME NEW c \in Consumers, Watch(c)
      PROVE  HandledResolved'
  BY <1>1, <1>6, <1>9 DEF Watch, GoTo, Record, TypeOK
<1>10. ASSUME NEW c \in Consumers, ReadCount(c) \/ InsertOrder(c)
       PROVE  HandledResolved'
  <2>1. /\ UNCHANGED <<handled, topic, job>> /\ pc[c] # "idle"
        /\ \A d \in Consumers \ {c} : pc'[d] = pc[d]
        /\ \A d \in Consumers : Record(d)' = Record(d)
    BY <1>1, <1>10 DEF ReadCount, InsertOrder, GoTo, TypeOK, Record
  <2>2. PICK m \in Message : m = Record(c)
    BY <1>1, <2>1, BusyRecord
  <2>3. ASSUME pc'[c] = "exec"
        PROVE  Resolved(m)'
    <3>1. CASE ReadCount(c)
      <4>1. ~HasStock(stockCount[m.sid]) /\ stockCount' = stockCount
        BY <1>1, <2>2, <2>3, <3>1 DEF ReadCount, GoTo, TypeOK, Sid, redis
      <4>2. stockCount[m.sid] \in Int
        BY <1>1 DEF TypeOK, Message
      <4>. QED  BY <4>1, <4>2 DEF HasStock, Resolved
    <3>2. CASE InsertOrder(c)
      <4>1. orders' = Append(orders, m) /\ orders \in Seq(Message)
        BY <1>1, <2>2, <3>2 DEF InsertOrder, TypeOK
      <4>2. Len(orders) + 1 \in DOMAIN orders' /\ orders'[Len(orders) + 1] = m
        BY <4>1
      <4>. QED  BY <4>2 DEF Resolved, Bought
    <3>. QED  BY <1>10, <3>1, <3>2
  <2>4. \A d \in Consumers : pc'[d] = "exec" => \E k \in Message : k = Record(d)' /\ Resolved(k)'
    BY <1>3, <2>1, <2>2, <2>3
  <2>. QED  BY <1>2, <1>4, <2>1, <2>4
<1>11. ASSUME NEW c \in Consumers, Exec(c)
       PROVE  HandledResolved'
  <2>1. /\ topic' = topic /\ pc[c] = "exec" /\ pc'[c] # "exec"
        /\ \A d \in Consumers \ {c} : pc'[d] = pc[d] /\ job'[d] = job[d]
        /\ handled' = [handled EXCEPT ![job[c].part] = @ \cup {job[c].off}]
        /\ handled \in [Partitions -> SUBSET Nat]
    BY <1>1, <1>11, ReturnOthers DEF Exec, Return, TypeOK
  <2>2. ASSUME NEW p \in Partitions, NEW o \in handled'[p]
        PROVE  \E m \in Message : m = topic'[p][o] /\ Resolved(m)'
    <3>1. CASE o \in handled[p]
      BY <1>2, <2>1, <3>1
    <3>2. CASE o \notin handled[p]
      <4>1. p = job[c].part /\ o = job[c].off
        BY <2>1, <2>2, <3>2
      <4>. QED  BY <1>3, <2>1, <4>1 DEF Record
    <3>. QED  BY <3>1, <3>2
  <2>3. \A d \in Consumers : pc'[d] = "exec" => pc[d] = "exec" /\ Record(d)' = Record(d)
    BY <2>1 DEF Record
  <2>. QED  BY <1>3, <1>4, <2>2, <2>3
<1>12. ASSUME UNCHANGED vars
       PROVE  HandledResolved'
  BY <1>6, <1>12 DEF vars, thread, Record
<1>. QED
  BY <1>1, <1>5, <1>7, <1>8, <1>9, <1>10, <1>11, <1>12, CalmCases

(* The part of SoldOutInv that speaks of requests and their records.       *)
LEMMA RefusedStep ==
  ASSUME SystemAssumption, Faults \subseteq {"rebalance"}, ~BrokerFaults, CalmInv, SystemTypeOK, RefusedForGood,
         [SystemNext]_system
  PROVE  RefusedForGood'
<1>1. [Next]_vars
  BY SystemStepRefines
<1>2. ASSUME NEW r \in Requests
      PROVE  /\ stockCount'[SidOf[r]] <= stockCount[SidOf[r]]
             /\ stockCount[SidOf[r]] \in Int /\ stockCount'[SidOf[r]] \in Int
  <2>1. SidOf[r] \in Sids
    BY DEF SystemAssumption
  <2>. QED  BY <1>1, <2>1, StockOnlyFalls
<1>3. ASSUME NEW r \in Requests, reply'[r] = "failed"
      PROVE  ~InStock(r)'
  <2>1. ~InStock(r)
    <3>1. CASE reply[r] = "failed"
      BY <3>1 DEF RefusedForGood
    <3>2. CASE reply[r] # "failed"
      <4>1. ASSUME NEW q \in Requests, Enter(q) \/ ReadStock(q) \/ Send(q) \/ Accept(q)
            PROVE  ~InStock(r)
        BY <1>3, <3>2, <4>1 DEF Enter, ReadStock, Send, Accept, Answer, SystemTypeOK
      <4>2. reply' # reply
        BY <1>3, <3>2
      <4>. QED
        BY <4>1, <4>2, SystemStepCases
           DEF system, frontend, ReadOrders, ReadCountLeft, DeliverFails, Deliver,
               DeliverUnacked, InstanceCrash
    <3>. QED  BY <3>1, <3>2
  <2>. QED  BY <1>2, <2>1 DEF InStock
<1>. QED  BY <1>3 DEF RefusedForGood

LEMMA OnItsWayStep ==
  ASSUME SystemAssumption, Faults \subseteq {"rebalance"}, ~BrokerFaults, CalmInv, SystemTypeOK, NoneForgotten,
         [SystemNext]_system
  PROVE  NoneForgotten'
<1>1. TypeOK /\ NoCatch
  BY DEF CalmInv
<1>2. ASSUME NEW q \in Requests, NEW p \in Partitions, Deliver(q, p)
      PROVE  NoneForgotten'
  <2>1. /\ RecordOf(q) \in Message /\ Publish(p, RecordOf(q)) /\ outbox' = outbox \ {q}
        /\ sent' = sent
    BY <1>2 DEF Deliver, RecordOf, Message, SystemTypeOK, SystemAssumption
  <2>2. /\ \A k \in Partitions : \A o \in 1..Len(topic[k]) :
             o \in 1..Len(topic'[k]) /\ topic'[k][o] = topic[k][o]
        /\ Len(topic'[p]) = Len(topic[p]) + 1
        /\ topic'[p][Len(topic[p]) + 1] = RecordOf(q)
    BY <1>1, <2>1, PublishKeepsLog
  <2>3. Len(topic[p]) \in Nat
    BY <1>1 DEF TypeOK
  <2>4. \E o \in 1..Len(topic'[p]) : topic'[p][o] = RecordOf(q)
    BY <2>2, <2>3
  <2>5. ASSUME NEW r \in Requests, OnItsWay(r)
        PROVE  OnItsWay(r)'
    BY <2>1, <2>2, <2>4, <2>5 DEF OnItsWay, RecordOf
  <2>. QED  BY <2>1, <2>5 DEF NoneForgotten, SystemTypeOK
<1>3. ASSUME topic' = topic,
             \A r \in sent' : r \in outbox' \/ (r \in sent /\ (r \in outbox => r \in outbox'))
      PROVE  NoneForgotten'
  BY <1>3 DEF NoneForgotten, OnItsWay, RecordOf
<1>4. ASSUME NEW q \in Requests, Enter(q) \/ ReadStock(q) \/ Send(q) \/ Accept(q)
      PROVE  NoneForgotten'
  <2>1. topic' = topic
    BY <1>4 DEF Enter, ReadStock, Send, Accept, vars
  <2>2. ASSUME NEW r \in sent'
        PROVE  r \in outbox' \/ (r \in sent /\ (r \in outbox => r \in outbox'))
    BY <1>4 DEF Enter, ReadStock, Send, Accept
  <2>. QED  BY <1>3, <2>1, <2>2
<1>5. ASSUME UNCHANGED <<topic, sent, outbox>>
      PROVE  NoneForgotten'
  BY <1>3, <1>5
<1>6. ASSUME NEW q \in Requests, ReadOrders(q) \/ ReadCountLeft(q)
      PROVE  NoneForgotten'
  BY <1>5, <1>6 DEF ReadOrders, ReadCountLeft, vars
<1>7. ASSUME UNCHANGED frontend, NEW c \in Consumers, ListenerStep(c)
      PROVE  NoneForgotten'
  BY <1>5, <1>7 DEF frontend, ListenerStep, Poll, Watch, ReadCount, InsertOrder, Exec
<1>8. ASSUME UNCHANGED frontend, NEW p \in Partitions,
             Commit(p) \/ \E c \in Consumers : Rebalance(p, c)
      PROVE  NoneForgotten'
  BY <1>5, <1>8 DEF frontend, Commit, Rebalance
<1>9. ASSUME UNCHANGED system
      PROVE  NoneForgotten'
  BY <1>5, <1>9 DEF system, frontend, vars
<1>. QED
  BY <1>1, <1>2, <1>4, <1>6, <1>7, <1>8, <1>9, CalmSystemCases

(* TurnedAwayOnlyWhenSoldOut: as long as no call, instance or delivery     *)
(* fails, whoever is refused or is left without an order met an article    *)
(* that is sold out, with any number of instances at work and however      *)
(* partitions change hands in the middle of a batch.                       *)
THEOREM RefusedOnlyWhenSoldOut ==
  ASSUME Faults \subseteq {"rebalance"}, ~BrokerFaults
  PROVE  SystemSpec => []TurnedAwayOnlyWhenSoldOut
<1>1. SystemInit => SoldOutInv
  <2>1. Init => CalmInv
    BY ConsumerAssumption DEF Init, CalmInv, NoCatch, TypeOK, ConsumerAssumption
  <2>2. Init => DeliveryInv
    BY ConsumerAssumption DEF Init, DeliveryInv, Fetched, AtLeastOnce, TypeOK, ConsumerAssumption
  <2>3. SystemInit => HandledResolved /\ RefusedForGood /\ NoneForgotten
    BY DEF SystemInit, Init, HandledResolved, RefusedForGood, NoneForgotten
  <2>. QED  BY <2>1, <2>2, <2>3, SystemInitType, SystemAssumption DEF SystemInit, SoldOutInv
<1>2. SoldOutInv /\ [SystemNext]_system => SoldOutInv'
  <2>1. ASSUME SoldOutInv, [SystemNext]_system
        PROVE  SoldOutInv'
    <3>1. [Next]_vars
      BY <2>1, SystemStepRefines, SystemAssumption DEF SoldOutInv
    <3>2. CalmInv' /\ DeliveryInv' /\ SystemTypeOK'
      BY <2>1, <3>1, CalmStep, DeliveryStep, SystemTypeStep, ConsumerAssumption, SystemAssumption
         DEF SoldOutInv
    <3>3. HandledResolved'
      BY <2>1, <3>1, HandledResolvedStep, ConsumerAssumption DEF SoldOutInv
    <3>4. RefusedForGood' /\ NoneForgotten'
      BY <2>1, RefusedStep, OnItsWayStep, SystemAssumption DEF SoldOutInv
    <3>. QED  BY <3>2, <3>3, <3>4 DEF SoldOutInv
  <2>. QED  BY <2>1
<1>3. SoldOutInv => TurnedAwayOnlyWhenSoldOut
  <2>1. ASSUME SoldOutInv, NEW r \in Requests, Quiet, r \in sent, ~HasRow(r)
        PROVE  ~InStock(r)
    <3>1. PICK p \in Partitions : \E o \in 1..Len(topic[p]) : topic[p][o] = RecordOf(r)
      BY <2>1 DEF SoldOutInv, NoneForgotten, OnItsWay, Quiet
    <3>2. PICK o \in 1..Len(topic[p]) : topic[p][o] = RecordOf(r)
      BY <3>1
    <3>3. o \in handled[p]
      <4>1. position[p] = Len(topic[p]) /\ owner[p] \in Consumers /\ pc[owner[p]] = "idle"
        BY <2>1 DEF SoldOutInv, CalmInv, TypeOK, Quiet, AllIdle
      <4>. QED  BY <2>1, <4>1 DEF SoldOutInv, DeliveryInv, Fetched, InHand
    <3>4. Resolved(RecordOf(r))
      BY <2>1, <3>2, <3>3 DEF SoldOutInv, HandledResolved
    <3>5. stockCount[SidOf[r]] <= 0
      BY <2>1, <3>4 DEF Resolved, Bought, HasRow, RecordOf
    <3>6. stockCount[SidOf[r]] \in Int
      BY <2>1, SystemAssumption DEF SoldOutInv, CalmInv, TypeOK, SystemAssumption
    <3>. QED  BY <3>5, <3>6 DEF InStock
  <2>. QED  BY <2>1 DEF TurnedAwayOnlyWhenSoldOut, SoldOutInv, RefusedForGood
<1>. QED  BY <1>1, <1>2, <1>3, PTL DEF SystemSpec

-----------------------------------------------------------------------------
(* How a message multiplies, or does not, from the request to the row: the *)
(* rows made of it, the records of it a listener has passed the insert of, *)
(* the records of it in the log, and the requests for it that were sent,   *)
(* and of those the ones whose record left the producer.                   *)
Logged(m)      == {k \in Partitions \X (1..MaxRecords) :
                     k[2] \in 1..Len(topic[k[1]]) /\ topic[k[1]][k[2]] = m}
Delivered(m)   == SentFor(m) \ outbox

Counted(m) ==
  /\ IsFiniteSet(Logged(m)) /\ IsFiniteSet(SentFor(m))
  /\ Cardinality(RowsFor(m)) <= Cardinality(Used(m))
  /\ Cardinality(Logged(m)) <= Cardinality(Delivered(m))

CountInv == TurnInv /\ SystemTypeOK /\ \A m \in Message : Counted(m)

LEMMA PassedInLog ==
  ASSUME TurnInv, NEW p \in Partitions, NEW o, Passed(p, o)
  PROVE  o \in 1..Len(topic[p]) /\ o \in 1..MaxRecords
<1>1. CASE o \in handled[p]
  BY <1>1, HandledInLog
<1>2. ASSUME NEW c \in Consumers, pc[c] = "exec", job[c].part = p, job[c].off = o
      PROVE  o \in 1..Len(topic[p]) /\ o \in 1..MaxRecords
  <2>1. o \in 1..Len(topic[p])
    BY <1>2, BusyRecord DEF TurnInv
  <2>2. Len(topic[p]) <= MaxRecords /\ Len(topic[p]) \in Nat /\ MaxRecords \in Nat
    BY ConsumerAssumption DEF TurnInv, InTurn, TypeOK, ConsumerAssumption
  <2>. QED  BY <2>1, <2>2
<1>. QED  BY <1>1, <1>2 DEF Passed

LEMMA UsedIsLogged ==
  TurnInv => \A m \in Message : Used(m) \subseteq Logged(m)
  BY PassedInLog DEF Used, Logged

LEMMA UsedIsLoggedNext ==
  TurnInv' => \A m \in Message : Used(m)' \subseteq Logged(m)'
<1>1. TurnInv' => (\A m \in Message : Used(m) \subseteq Logged(m))'
  BY UsedIsLogged, PTL
<1>. QED  BY <1>1

LEMMA RowsForFinite ==
  ASSUME TypeOK, NEW m
  PROVE  IsFiniteSet(RowsFor(m)) /\ Cardinality(RowsFor(m)) \in Nat
<1>1. IsFiniteSet(DOMAIN orders)
  BY FS_Interval DEF TypeOK
<1>. QED  BY <1>1, FS_Subset, FS_CardinalityType DEF RowsFor

(* A record once passed stays so.                                          *)
LEMMA PassedStays ==
  ASSUME Faults = {}, TurnInv, [Next]_vars, NEW p \in Partitions, NEW o, Passed(p, o)
  PROVE  Passed(p, o)' /\ topic'[p][o] = topic[p][o]
<1>1. TypeOK /\ InTurn /\ o \in 1..Len(topic[p])
  BY PassedInLog DEF TurnInv
<1>2. ASSUME NEW q \in Partitions, NEW m \in Message, Publish(q, m)
      PROVE  Passed(p, o)' /\ topic'[p][o] = topic[p][o]
  BY <1>1, <1>2, PublishKeepsLog DEF Publish, thread, Passed
<1>3. ASSUME NEW c \in Consumers, ListenerStep(c) \/ \E q \in Partitions : Commit(q)
      PROVE  Passed(p, o)' /\ topic'[p][o] = topic[p][o]
  <2>1. topic' = topic
    BY <1>3 DEF ListenerStep, Poll, Watch, ReadCount, InsertOrder, Exec, Commit
  <2>2. CASE Exec(c)
    <3>1. /\ \A d \in Consumers \ {c} : pc'[d] = pc[d] /\ job'[d] = job[d]
          /\ handled' = [handled EXCEPT ![job[c].part] = @ \cup {job[c].off}]
          /\ handled \in [Partitions -> SUBSET Nat]
      BY <1>1, <2>2, ReturnOthers DEF Exec, Return, TypeOK
    <3>2. handled[p] \subseteq handled'[p] /\ (job[c].part = p => job[c].off \in handled'[p])
      BY <3>1
    <3>. QED  BY <2>1, <3>1, <3>2 DEF Passed
  <2>3. CASE ~Exec(c)
    <3>1. handled' = handled
      BY <1>3, <2>3 DEF ListenerStep, Poll, Watch, ReadCount, InsertOrder, Commit
    <3>2. \A d \in Consumers : pc[d] = "exec" => pc'[d] = "exec" /\ job'[d] = job[d]
      BY <1>1, <1>3, <2>3
         DEF ListenerStep, Poll, Watch, ReadCount, InsertOrder, Commit, GoTo, TypeOK, thread
    <3>. QED  BY <2>1, <3>1, <3>2 DEF Passed
  <2>. QED  BY <2>2, <2>3
<1>4. ASSUME UNCHANGED vars
      PROVE  Passed(p, o)' /\ topic'[p][o] = topic[p][o]
  BY <1>4 DEF vars, thread, Passed
<1>5. Consumers # {}
  BY ConsumerAssumption DEF ConsumerAssumption
<1>. QED  BY <1>1, <1>2, <1>3, <1>4, <1>5, SmoothCases DEF ListenerStep

LEMMA UsedGrows ==
  ASSUME Faults = {}, TurnInv, [Next]_vars, NEW m
  PROVE  Used(m) \subseteq Used(m)'
<1>1. ASSUME NEW k \in Partitions \X (1..MaxRecords), Passed(k[1], k[2]), topic[k[1]][k[2]] = m
      PROVE  k \in Used(m)'
  <2>1. PICK p \in Partitions, o \in 1..MaxRecords : p = k[1] /\ o = k[2]
    OBVIOUS
  <2>2. Passed(p, o)' /\ topic'[p][o] = m
    BY <1>1, <2>1, PassedStays
  <2>. QED  BY <1>1, <2>1, <2>2 DEF Used, Passed
<1>. QED  BY <1>1 DEF Used

(* A record is decided on once: it is the one in hand of the only thread   *)
(* that has records of its partition, and it is not handled.               *)
LEMMA PassesOne ==
  ASSUME ConsumerAssumption, TurnInv, NEW c \in Consumers, pc[c] \in {"get", "insert"},
         pc' = [pc EXCEPT ![c] = "exec"], UNCHANGED <<job, topic, handled>>
  PROVE  \E k \in Partitions \X (1..MaxRecords), m \in Message :
           /\ m = Record(c) /\ k \notin Used(m) /\ Used(m)' = Used(m) \cup {k}
           /\ \A n \in Message : n # m => Used(n)' = Used(n)
<1> DEFINE j == job[c]
<1>1. TypeOK /\ pc \in [Consumers -> {"idle", "watch", "get", "insert", "exec", "restore"}]
  BY DEF TurnInv, TypeOK
<1>2. /\ j.part \in Partitions /\ j.off \in 1..Len(topic[j.part])
      /\ j.off \notin handled[j.part] /\ owner[j.part] = c
  BY <1>1, NextInTurn, BusyRecord
<1>3. j.off \in 1..MaxRecords
  <2>1. Len(topic[j.part]) <= MaxRecords /\ Len(topic[j.part]) \in Nat /\ MaxRecords \in Nat
    BY <1>2 DEF TurnInv, InTurn, TypeOK, ConsumerAssumption
  <2>. QED  BY <1>2, <2>1
<1>4. ~Passed(j.part, j.off)
  <2>1. ASSUME NEW d \in Consumers, pc[d] = "exec", job[d].part = j.part
        PROVE  FALSE
    BY <1>1, <1>2, <2>1, NextInTurn
  <2>. QED  BY <1>2, <2>1 DEF Passed
<1>5. PICK p \in Partitions, o \in 1..MaxRecords, m \in Message :
        p = j.part /\ o = j.off /\ m = Record(c)
  BY <1>1, <1>2, <1>3, BusyRecord
<1>6. topic[p][o] = m /\ topic' = topic
  BY <1>5 DEF Record
<1>7. ASSUME NEW q \in Partitions, NEW i \in 1..MaxRecords
      PROVE  Passed(q, i)' <=> Passed(q, i) \/ (q = p /\ i = o)
  BY <1>1, <1>5 DEF Passed
<1>8. ASSUME NEW n \in Message, NEW k \in Partitions \X (1..MaxRecords)
      PROVE  k \in Used(n)' <=> k \in Used(n) \/ (k = <<p, o>> /\ n = m)
  <2>1. PICK q \in Partitions, i \in 1..MaxRecords : k = <<q, i>>
    OBVIOUS
  <2>2. k \in Used(n)' <=> Passed(q, i)' /\ topic'[q][i] = n
    BY <2>1 DEF Used, Passed
  <2>3. k \in Used(n) <=> Passed(q, i) /\ topic[q][i] = n
    BY <2>1 DEF Used
  <2>. QED  BY <1>6, <1>7, <2>1, <2>2, <2>3
<1>9. \A n : Used(n) \subseteq Partitions \X (1..MaxRecords)
             /\ Used(n)' \subseteq Partitions \X (1..MaxRecords)
  BY DEF Used
<1>10. <<p, o>> \notin Used(m)
  BY <1>4, <1>5 DEF Used
<1>11. Used(m)' = Used(m) \cup {<<p, o>>}
  BY <1>8, <1>9
<1>12. \A n \in Message : n # m => Used(n)' = Used(n)
  BY <1>8, <1>9
<1>. QED  BY <1>5, <1>10, <1>11, <1>12

(* Rows never outnumber the records used, in a step that adds to both.     *)
LEMMA RowsStep ==
  ASSUME ConsumerAssumption, Faults = {}, TurnInv, [Next]_vars, NEW m \in Message,
         IsFiniteSet(Logged(m)), IsFiniteSet(Logged(m)'), TurnInv',
         Cardinality(RowsFor(m)) <= Cardinality(Used(m))
  PROVE  Cardinality(RowsFor(m)') <= Cardinality(Used(m)')
<1>1. TypeOK /\ InTurn
  BY DEF TurnInv
<1>2. IsFiniteSet(Used(m)) /\ Cardinality(Used(m)) \in Nat
  BY UsedIsLogged, FS_Subset, FS_CardinalityType
<1>3. IsFiniteSet(Used(m)') /\ Cardinality(Used(m)') \in Nat
  <2>1. Used(m)' \subseteq Logged(m)'
    BY UsedIsLoggedNext
  <2>. QED  BY <2>1, FS_Subset, FS_CardinalityType
<1>4. Cardinality(Used(m)) <= Cardinality(Used(m)')
  BY <1>3, UsedGrows, FS_Subset
<1>5. IsFiniteSet(RowsFor(m)) /\ Cardinality(RowsFor(m)) \in Nat
  BY <1>1, RowsForFinite
<1>6. CASE orders' = orders
  BY <1>2, <1>3, <1>4, <1>5, <1>6 DEF RowsFor
<1>7. ASSUME NEW c \in Consumers, InsertOrder(c)
      PROVE  Cardinality(RowsFor(m)') <= Cardinality(Used(m)')
  <2>1. orders' = Append(orders, Record(c)) /\ orders \in Seq(Message)
    BY <1>1, <1>7 DEF InsertOrder, TypeOK
  <2>2. /\ DOMAIN orders' = 1..(Len(orders) + 1) /\ DOMAIN orders = 1..Len(orders)
        /\ Len(orders) \in Nat
        /\ \A i \in 1..Len(orders) : orders'[i] = orders[i]
        /\ orders'[Len(orders) + 1] = Record(c)
    BY <2>1
  <2>3. CASE Record(c) = m
    <3>1. RowsFor(m)' = RowsFor(m) \cup {Len(orders) + 1}
      BY <2>2, <2>3 DEF RowsFor
    <3>2. Len(orders) + 1 \notin RowsFor(m)
      BY <2>2 DEF RowsFor
    <3>3. Cardinality(RowsFor(m)') = Cardinality(RowsFor(m)) + 1
      BY <1>5, <3>1, <3>2, FS_AddElement
    <3>4. PICK k \in Used(m)' : k \notin Used(m)
      <4>1. /\ pc[c] \in {"get", "insert"} /\ pc' = [pc EXCEPT ![c] = "exec"]
            /\ UNCHANGED <<job, topic, handled>>
        BY <1>7 DEF InsertOrder, GoTo
      <4>. QED  BY <2>3, <4>1, PassesOne
    <3>5. Cardinality(Used(m)) <= Cardinality(Used(m)') - 1
      BY <1>3, <3>4, UsedGrows, CardLess
    <3>. QED  BY <1>2, <1>3, <1>5, <3>3, <3>5
  <2>4. CASE Record(c) # m
    <3>1. RowsFor(m)' = RowsFor(m)
      BY <2>2, <2>4 DEF RowsFor
    <3>. QED  BY <1>2, <1>3, <1>4, <1>5, <3>1
  <2>. QED  BY <2>3, <2>4
<1>. QED
  BY <1>1, <1>6, <1>7, SmoothCases DEF Publish, Poll, Commit, Watch, ReadCount, Exec, vars

(* A record more in the log is one request less in the producer's buffer.  *)
LEMMA DeliverCounted ==
  ASSUME ConsumerAssumption, SystemAssumption, TurnInv, SystemTypeOK, NEW m \in Message,
         Counted(m), NEW r \in Requests, NEW p \in Partitions, Deliver(r, p)
  PROVE  /\ IsFiniteSet(Logged(m)') /\ IsFiniteSet(SentFor(m)')
         /\ Cardinality(Logged(m)') <= Cardinality(Delivered(m)')
<1> DEFINE k == <<p, Len(topic[p]) + 1>>
<1>1. /\ TypeOK /\ RecordOf(r) \in Message /\ Publish(p, RecordOf(r)) /\ outbox' = outbox \ {r}
      /\ r \in outbox /\ sent' = sent /\ r \in sent
  BY DEF Deliver, RecordOf, Message, SystemTypeOK, SystemAssumption, TurnInv
<1>2. /\ \A q \in Partitions : \A o \in 1..Len(topic[q]) :
           o \in 1..Len(topic'[q]) /\ topic'[q][o] = topic[q][o]
      /\ Len(topic'[p]) = Len(topic[p]) + 1 /\ topic'[p][Len(topic[p]) + 1] = RecordOf(r)
      /\ \A q \in Partitions : q # p => topic'[q] = topic[q]
  BY <1>1, PublishKeepsLog
<1>3. Len(topic[p]) \in Nat /\ Len(topic[p]) + 1 \in 1..MaxRecords
  BY <1>1 DEF Publish, TypeOK, ConsumerAssumption
<1>4. SentFor(m)' = SentFor(m)
  BY <1>1 DEF SentFor, RecordOf
<1>5. /\ IsFiniteSet(Logged(m)) /\ IsFiniteSet(SentFor(m)) /\ IsFiniteSet(Delivered(m))
      /\ Cardinality(Logged(m)) <= Cardinality(Delivered(m))
      /\ Cardinality(Logged(m)) \in Nat /\ Cardinality(Delivered(m)) \in Nat
  <2>1. Delivered(m) \subseteq SentFor(m)
    BY DEF Delivered
  <2>. QED  BY <2>1, FS_Subset, FS_CardinalityType DEF Counted
<1>6. ASSUME NEW q \in Partitions, NEW o \in 1..MaxRecords
      PROVE  o \in 1..Len(topic'[q]) <=> o \in 1..Len(topic[q]) \/ (q = p /\ o = Len(topic[p]) + 1)
  BY <1>2, <1>3, <1>6
<1>7. CASE RecordOf(r) = m
  <2>1. Logged(m)' = Logged(m) \cup {k}
    <3>1. ASSUME NEW q \in Partitions, NEW o \in 1..MaxRecords
          PROVE  <<q, o>> \in Logged(m)' <=> <<q, o>> \in Logged(m) \/ <<q, o>> = k
      BY <1>2, <1>6, <1>7 DEF Logged
    <3>2. k \in Partitions \X (1..MaxRecords)
      BY <1>3
    <3>3. Logged(m) \subseteq Partitions \X (1..MaxRecords)
          /\ Logged(m)' \subseteq Partitions \X (1..MaxRecords)
      BY DEF Logged
    <3>. QED  BY <3>1, <3>2, <3>3
  <2>2. k \notin Logged(m)
    BY <1>3 DEF Logged
  <2>3. Delivered(m)' = Delivered(m) \cup {r} /\ r \notin Delivered(m)
    BY <1>1, <1>4, <1>7 DEF Delivered, SentFor
  <2>4. IsFiniteSet(Logged(m)') /\ Cardinality(Logged(m)') = Cardinality(Logged(m)) + 1
    <3>1. PICK x \in Partitions \X (1..MaxRecords) : x = k
      BY <1>3
    <3>2. Logged(m)' = Logged(m) \cup {x} /\ x \notin Logged(m)
      BY <2>1, <2>2, <3>1
    <3>. HIDE DEF k
    <3>. QED  BY <1>5, <3>2, FS_AddElement
  <2>5. Cardinality(Delivered(m)') = Cardinality(Delivered(m)) + 1
    BY <1>5, <2>3, FS_AddElement
  <2>. QED  BY <1>4, <1>5, <2>4, <2>5
<1>8. CASE RecordOf(r) # m
  <2>1. Logged(m)' = Logged(m)
    <3>1. ASSUME NEW q \in Partitions, NEW o \in 1..MaxRecords
          PROVE  <<q, o>> \in Logged(m)' <=> <<q, o>> \in Logged(m)
      BY <1>2, <1>6, <1>8 DEF Logged
    <3>2. Logged(m) \subseteq Partitions \X (1..MaxRecords)
          /\ Logged(m)' \subseteq Partitions \X (1..MaxRecords)
      BY DEF Logged
    <3>. QED  BY <3>1, <3>2
  <2>2. Delivered(m)' = Delivered(m)
    BY <1>1, <1>4, <1>8 DEF Delivered, SentFor
  <2>. QED  BY <1>4, <1>5, <2>1, <2>2
<1>. QED  BY <1>7, <1>8

(* A request is sent once, and leaves its record to the producer.          *)
LEMMA PayCounted ==
  ASSUME SystemTypeOK, NEW m \in Message, Counted(m), NEW r \in Requests,
         Enter(r) \/ ReadStock(r) \/ Send(r) \/ Accept(r)
  PROVE  /\ IsFiniteSet(Logged(m)') /\ IsFiniteSet(SentFor(m)')
         /\ Cardinality(Logged(m)') <= Cardinality(Delivered(m)')
<1>1. topic' = topic
  BY DEF Enter, ReadStock, Send, Accept, vars
<1>2. Logged(m)' = Logged(m)
  BY <1>1 DEF Logged
<1>3. \/ sent' = sent /\ outbox' = outbox
      \/ sent' = sent \cup {r} /\ outbox' = outbox \cup {r} /\ r \notin sent
  BY DEF Enter, ReadStock, Send, Accept, SystemTypeOK
<1>4. SentFor(m)' \subseteq SentFor(m) \cup {r}
  BY <1>3 DEF SentFor, RecordOf
<1>5. IsFiniteSet(SentFor(m)')
  <2>1. IsFiniteSet(SentFor(m) \cup {r})
    BY FS_AddElement DEF Counted
  <2>. QED  BY <1>4, <2>1, FS_Subset
<1>6. Delivered(m)' = Delivered(m)
  BY <1>3 DEF Delivered, SentFor, RecordOf
<1>. QED  BY <1>2, <1>5, <1>6 DEF Counted

LEMMA CountStep ==
  ASSUME ConsumerAssumption, SystemAssumption, Faults = {}, ~BrokerFaults, CountInv,
         [SystemNext]_system
  PROVE  CountInv'
<1>1. TurnInv /\ SystemTypeOK /\ InTurn /\ [Next]_vars
  BY SystemStepRefines DEF CountInv, TurnInv
<1>2. TurnInv' /\ SystemTypeOK'
  BY <1>1, TurnStep, SystemTypeStep
<1>3. ASSUME NEW m \in Message
      PROVE  Counted(m)'
  <2>1. Counted(m)
    BY DEF CountInv
  <2>2. /\ IsFiniteSet(Logged(m)') /\ IsFiniteSet(SentFor(m)')
        /\ Cardinality(Logged(m)') <= Cardinality(Delivered(m)')
    <3>1. ASSUME UNCHANGED <<topic, sent, outbox>>
          PROVE  /\ IsFiniteSet(Logged(m)') /\ IsFiniteSet(SentFor(m)')
                 /\ Cardinality(Logged(m)') <= Cardinality(Delivered(m)')
      BY <2>1, <3>1 DEF Counted, Logged, SentFor, Delivered, RecordOf
    <3>2. ASSUME NEW r \in Requests, ReadOrders(r) \/ ReadCountLeft(r)
          PROVE  UNCHANGED <<topic, sent, outbox>>
      BY <3>2 DEF ReadOrders, ReadCountLeft, vars
    <3>3. ASSUME UNCHANGED frontend, NEW c \in Consumers, ListenerStep(c)
          PROVE  UNCHANGED <<topic, sent, outbox>>
      BY <3>3 DEF frontend, ListenerStep, Poll, Watch, ReadCount, InsertOrder, Exec
    <3>4. ASSUME UNCHANGED frontend, NEW p \in Partitions, Commit(p)
          PROVE  UNCHANGED <<topic, sent, outbox>>
      BY <3>4 DEF frontend, Commit
    <3>5. ASSUME UNCHANGED system
          PROVE  UNCHANGED <<topic, sent, outbox>>
      BY <3>5 DEF system, frontend, vars
    <3>. QED
      BY <1>1, <2>1, <3>1, <3>2, <3>3, <3>4, <3>5, SmoothSystemCases, DeliverCounted, PayCounted
  <2>3. Cardinality(RowsFor(m)') <= Cardinality(Used(m)')
    BY <1>1, <1>2, <2>1, <2>2, RowsStep DEF Counted
  <2>. QED  BY <2>2, <2>3 DEF Counted
<1>. QED  BY <1>2, <1>3 DEF CountInv

LEMMA CountInit ==
  ASSUME ConsumerAssumption, SystemAssumption, SystemInit
  PROVE  CountInv
<1>1. TurnInv /\ SystemTypeOK
  BY TurnInit, SystemInitType DEF SystemInit
<1>2. ASSUME NEW m \in Message
      PROVE  Counted(m)
  <2>1. RowsFor(m) = {} /\ Used(m) = {} /\ Logged(m) = {} /\ SentFor(m) = {}
    BY DEF SystemInit, Init, RowsFor, Used, Passed, Logged, SentFor
  <2>2. Delivered(m) = {}
    BY <2>1 DEF Delivered
  <2>. QED  BY <2>1, <2>2, FS_EmptySet DEF Counted
<1>. QED  BY <1>1, <1>2 DEF CountInv

(* OneOrderPerRequest: as long as nothing fails, no request of a user is   *)
(* turned into two orders, whatever the number of instances, partitions    *)
(* and requests in flight.                                                 *)
THEOREM NoDoubleOrder ==
  ASSUME Faults = {}, ~BrokerFaults
  PROVE  SystemSpec => []OneOrderPerRequest
<1>1. SystemInit => CountInv
  BY CountInit, ConsumerAssumption, SystemAssumption
<1>2. CountInv /\ [SystemNext]_system => CountInv'
  BY CountStep, ConsumerAssumption, SystemAssumption
<1>3. CountInv => OneOrderPerRequest
  <2>1. ASSUME CountInv, NEW m \in Message
        PROVE  Cardinality(RowsFor(m)) <= Cardinality(SentFor(m))
    <3>1. TurnInv /\ TypeOK /\ Counted(m)
      BY <2>1 DEF CountInv, TurnInv
    <3>2. Used(m) \subseteq Logged(m) /\ Delivered(m) \subseteq SentFor(m)
      BY <3>1, UsedIsLogged DEF Delivered
    <3>3. /\ Cardinality(RowsFor(m)) \in Nat /\ Cardinality(Used(m)) \in Nat
          /\ Cardinality(Logged(m)) \in Nat /\ Cardinality(Delivered(m)) \in Nat
          /\ Cardinality(SentFor(m)) \in Nat
          /\ Cardinality(Used(m)) <= Cardinality(Logged(m))
          /\ Cardinality(Delivered(m)) <= Cardinality(SentFor(m))
      BY <3>1, <3>2, RowsForFinite, FS_Subset, FS_CardinalityType DEF Counted
    <3>. QED  BY <3>1, <3>3 DEF Counted
  <2>. QED  BY <2>1 DEF OneOrderPerRequest
<1>. QED  BY <1>1, <1>2, <1>3, PTL DEF SystemSpec

-----------------------------------------------------------------------------
(* The whole system implements the abstract sale.  Added to the counts is  *)
(* the bound on the rows, which is the guard of Sell.                      *)
ShopInv == DriftInv /\ CountInv

LEMMA ShopStep ==
  ASSUME ConsumerAssumption, SystemAssumption, Faults = {}, ~BrokerFaults, ShopInv,
         [SystemNext]_system
  PROVE  ShopInv'
<1>1. SystemTypeOK /\ [Next]_vars
  BY SystemStepRefines DEF ShopInv, CountInv
<1>. QED  BY <1>1, DriftStep, CountStep DEF ShopInv

(* The figures of the sale, article by article and message by message.     *)
LEMMA SameFigures ==
  ASSUME orders' = orders,
         \A m \in Message : Used(m)' = Used(m) /\ SentFor(m)' = SentFor(m)
  PROVE  Left' = Left /\ Waiting' = Waiting /\ SoldTo' = SoldTo
<1>1. Left' = Left
  BY DEF Left, Rows
<1>2. SoldTo' = SoldTo
  BY DEF SoldTo, RowsFor
<1>3. Waiting' = Waiting
  BY DEF Waiting
<1>. QED  BY <1>1, <1>2, <1>3

LEMMA FigureTypes ==
  ASSUME CountInv
  PROVE  /\ \A s \in Sids : Left[s] = InitialCount[s] - Rows(s) /\ Left[s] \in Int
         /\ \A m \in Message :
              /\ Waiting[m] = Cardinality(SentFor(m)) - Cardinality(Used(m))
              /\ SoldTo[m] = Cardinality(RowsFor(m))
              /\ IsFiniteSet(RowsFor(m)) /\ IsFiniteSet(Used(m)) /\ IsFiniteSet(SentFor(m))
              /\ Cardinality(SentFor(m)) \in Nat /\ Cardinality(Used(m)) \in Nat
              /\ Cardinality(RowsFor(m)) \in Nat
              /\ Cardinality(Used(m)) <= Cardinality(SentFor(m))
<1>1. TurnInv /\ TypeOK
  BY DEF CountInv, TurnInv
<1>2. ASSUME NEW s \in Sids
      PROVE  Left[s] = InitialCount[s] - Rows(s) /\ Left[s] \in Int
  <2>1. Rows(s) \in Nat /\ InitialCount[s] \in Nat
    BY <1>1, RowsType, ConsumerAssumption DEF ConsumerAssumption
  <2>2. Left[s] = InitialCount[s] - Rows(s)
    BY DEF Left
  <2>. QED  BY <2>1, <2>2
<1>3. ASSUME NEW m \in Message
      PROVE  /\ IsFiniteSet(RowsFor(m)) /\ IsFiniteSet(Used(m)) /\ IsFiniteSet(SentFor(m))
             /\ Cardinality(SentFor(m)) \in Nat /\ Cardinality(Used(m)) \in Nat
             /\ Cardinality(RowsFor(m)) \in Nat
             /\ Cardinality(Used(m)) <= Cardinality(SentFor(m))
  <2>1. Counted(m) /\ Used(m) \subseteq Logged(m) /\ Delivered(m) \subseteq SentFor(m)
    BY <1>1, UsedIsLogged DEF CountInv, Delivered
  <2>2. /\ IsFiniteSet(Used(m)) /\ IsFiniteSet(Delivered(m))
        /\ Cardinality(Used(m)) <= Cardinality(Logged(m))
        /\ Cardinality(Delivered(m)) <= Cardinality(SentFor(m))
    BY <2>1, FS_Subset DEF Counted
  <2>3. /\ Cardinality(Used(m)) \in Nat /\ Cardinality(Logged(m)) \in Nat
        /\ Cardinality(Delivered(m)) \in Nat /\ Cardinality(SentFor(m)) \in Nat
    BY <2>1, <2>2, FS_CardinalityType DEF Counted
  <2>. QED  BY <1>1, <2>1, <2>2, <2>3, RowsForFinite DEF Counted
<1>. QED  BY <1>2, <1>3 DEF Waiting, SoldTo

LEMMA FigureTypesNext ==
  CountInv' => \A m \in Message : Cardinality(Used(m)') <= Cardinality(SentFor(m)')
<1>1. CountInv => \A m \in Message : Cardinality(Used(m)) <= Cardinality(SentFor(m))
  BY FigureTypes
<1>2. CountInv' => (\A m \in Message : Cardinality(Used(m)) <= Cardinality(SentFor(m)))'
  BY <1>1, PTL
<1>. QED  BY <1>2

(* The count in Redis is 0 only when every unit has its order.             *)
LEMMA NoneLeft ==
  ASSUME ShopInv, NEW s \in Sids, ~(stockCount[s] > 0)
  PROVE  Left[s] <= 0
<1>1. TypeOK /\ Backed(s) /\ CountInv
  BY DEF ShopInv, DriftInv, WatchInv
<1>2. /\ Rows(s) \in Nat /\ inserted(s) \in Nat /\ InitialCount[s] \in Nat
      /\ stockCount[s] \in Int
  BY <1>1, RowsType, Finite, ConsumerAssumption DEF TypeOK, ConsumerAssumption
<1>3. InitialCount[s] - stockCount[s] + inserted(s) <= Rows(s)
  BY <1>1 DEF Backed, taken
<1>4. Left[s] = InitialCount[s] - Rows(s)
  BY <1>1, FigureTypes
<1>. QED  BY <1>2, <1>3, <1>4

LEMMA BoundNext == DriftInv' => \A s \in Sids : Rows(s)' <= N * (InitialCount[s] + 2 * faults')
<1>1. DriftInv => \A s \in Sids : Rows(s) <= N * (InitialCount[s] + 2 * faults)
  BY DriftBound
<1>2. DriftInv' => (\A s \in Sids : Rows(s) <= N * (InitialCount[s] + 2 * faults))'
  BY <1>1, PTL
<1>. QED  BY <1>2

LEMMA AskedSame ==
  ASSUME sent' = sent
  PROVE  \A m : SentFor(m)' = SentFor(m)
  BY DEF SentFor, RecordOf

LEMMA RepliesSame ==
  ASSUME UNCHANGED <<sent, reply>>
  PROVE  Replies' = Replies
  BY DEF Replies

(* Steps at which no listener passes a record.                             *)
LEMMA UsedSame ==
  ASSUME TurnInv, handled' = handled, NEW m,
         \A p \in Partitions : \A o \in 1..Len(topic[p]) : topic'[p][o] = topic[p][o],
         \A c \in Consumers :
           /\ pc'[c] = "exec" <=> pc[c] = "exec"
           /\ pc[c] = "exec" => job'[c] = job[c]
  PROVE  Used(m)' = Used(m)
<1>1. ASSUME NEW p \in Partitions, NEW o \in 1..MaxRecords
      PROVE  Passed(p, o)' <=> Passed(p, o)
  BY DEF Passed
<1>2. ASSUME NEW k \in Partitions \X (1..MaxRecords)
      PROVE  k \in Used(m)' <=> k \in Used(m)
  <2>1. PICK p \in Partitions, o \in 1..MaxRecords : k = <<p, o>>
    OBVIOUS
  <2>2. k \in Used(m)' <=> Passed(p, o)' /\ topic'[p][o] = m
    BY <2>1 DEF Used, Passed
  <2>3. k \in Used(m) <=> Passed(p, o) /\ topic[p][o] = m
    BY <2>1 DEF Used
  <2>. QED  BY <1>1, <2>2, <2>3, PassedInLog
<1>3. /\ Used(m) \subseteq Partitions \X (1..MaxRecords)
      /\ Used(m)' \subseteq Partitions \X (1..MaxRecords)
  BY DEF Used
<1>. QED  BY <1>2, <1>3

LEMMA ExecUsedSame ==
  ASSUME TurnInv, NEW c \in Consumers, Exec(c), NEW m
  PROVE  Used(m)' = Used(m)
<1>1. /\ TypeOK /\ topic' = topic /\ pc[c] = "exec" /\ pc'[c] # "exec"
      /\ \A d \in Consumers \ {c} : pc'[d] = pc[d] /\ job'[d] = job[d]
      /\ handled' = [handled EXCEPT ![job[c].part] = @ \cup {job[c].off}]
      /\ handled \in [Partitions -> SUBSET Nat]
  BY ReturnOthers DEF Exec, Return, TurnInv, TypeOK
<1>2. job[c].part \in Partitions
  BY <1>1, BusyRecord DEF Job
<1>3. ASSUME NEW p \in Partitions, NEW o \in 1..MaxRecords
      PROVE  Passed(p, o)' <=> Passed(p, o)
  <2>1. o \in handled'[p] <=> o \in handled[p] \/ (p = job[c].part /\ o = job[c].off)
    BY <1>1, <1>2
  <2>. QED  BY <1>1, <2>1 DEF Passed
<1>4. ASSUME NEW k \in Partitions \X (1..MaxRecords)
      PROVE  k \in Used(m)' <=> k \in Used(m)
  <2>1. PICK p \in Partitions, o \in 1..MaxRecords : k = <<p, o>>
    OBVIOUS
  <2>2. k \in Used(m)' <=> Passed(p, o)' /\ topic'[p][o] = m
    BY <2>1 DEF Used, Passed
  <2>3. k \in Used(m) <=> Passed(p, o) /\ topic[p][o] = m
    BY <2>1 DEF Used
  <2>. QED  BY <1>1, <1>3, <2>2, <2>3
<1>5. /\ Used(m) \subseteq Partitions \X (1..MaxRecords)
      /\ Used(m)' \subseteq Partitions \X (1..MaxRecords)
  BY DEF Used
<1>. QED  BY <1>4, <1>5

LEMMA Stutter ==
  ASSUME orders' = orders, sent' = sent, Replies' = Replies, verdict' = verdict,
         \A m \in Message : Used(m)' = Used(m)
  PROVE  UNCHANGED Shop!sale
  BY AskedSame, SameFigures DEF Shop!sale

(* pay: the answers, and one customer more who waits from the moment his   *)
(* record is in the producer's buffer.                                     *)
LEMMA PayShops ==
  ASSUME SystemAssumption, ShopInv, NEW r \in Requests, Enter(r) \/ ReadStock(r) \/ Send(r) \/ Accept(r),
         Faults = {}, ~BrokerFaults
  PROVE  [Shop!Next]_(Shop!sale)
<1>1. /\ SystemTypeOK /\ TypeOK /\ CountInv /\ TurnInv
      /\ reply \in [Requests -> {"none", "null", "busy", "failed", "accepted"}]
      /\ SidOf[r] \in Sids /\ BuyerOf[r] \in Users \cup {NoUser} /\ NoUser \notin Users
  BY DEF ShopInv, CountInv, TurnInv, SystemTypeOK, SystemAssumption
<1>2. UNCHANGED <<vars, verdict>> /\ orders' = orders
  BY DEF Enter, ReadStock, Send, Accept, vars
<1>3. \A m \in Message : Used(m)' = Used(m)
  BY <1>2 DEF Used, Passed, vars, thread
<1>4. /\ reply[r] = "none" /\ r \in Requests
      /\ r \in sent <=> web[r] = "sent"
  BY <1>1 DEF Enter, ReadStock, Send, Accept, SystemTypeOK
<1>5. RecordOf(r).sid = SidOf[r] /\ (RecordOf(r) \in Message <=> BuyerOf[r] # NoUser)
  BY <1>1 DEF RecordOf, Message
<1>6. CASE UNCHANGED <<sent, reply>>
  BY <1>2, <1>3, <1>6, RepliesSame, Stutter
<1>7. ASSUME NEW text \in {"null", "busy", "failed"}, reply' = [reply EXCEPT ![r] = text],
             sent' = sent, r \notin sent,
             text = "null" => BuyerOf[r] = NoUser,
             text = "failed" => ~InStock(r)
      PROVE  Shop!Next
  <2>1. \A m \in Message : SentFor(m)' = SentFor(m)
    BY <1>7, AskedSame
  <2>2. Left' = Left /\ Waiting' = Waiting /\ SoldTo' = SoldTo
    BY <1>2, <1>3, <2>1, SameFigures
  <2>3. text = "failed" => Left[SidOf[r]] <= 0
    <3>1. stockCount[SidOf[r]] \in Int
      BY <1>1 DEF TypeOK
    <3>. QED  BY <1>1, <1>7, <3>1, NoneLeft DEF InStock
  <2>4. Replies[r] = "none" /\ Replies' = [Replies EXCEPT ![r] = text]
    BY <1>1, <1>4, <1>7 DEF Replies
  <2>5. Shop!Decline(r, text)
    BY <1>2, <1>5, <1>7, <2>2, <2>3, <2>4 DEF Shop!Decline, Shop!SoldOut
  <2>. QED  BY <2>5 DEF Shop!Next
<1>8. ASSUME reply' = reply, sent' = sent \cup {r}, web[r] = "send"
      PROVE  Shop!Next
  <2>1. PICK m \in Message : m = RecordOf(r)
    BY <1>1, <1>5, <1>8 DEF SystemTypeOK
  <2>2. /\ r \notin SentFor(m) /\ SentFor(m)' = SentFor(m) \cup {r}
        /\ \A n \in Message : n # m => SentFor(n)' = SentFor(n)
    BY <1>4, <1>8, <2>1 DEF SentFor, RecordOf
  <2>3. Cardinality(SentFor(m)') = Cardinality(SentFor(m)) + 1
    BY <1>1, <2>2, FigureTypes, FS_AddElement
  <2>4. Cardinality(SentFor(m)) \in Nat /\ Cardinality(Used(m)) \in Nat
    BY <1>1, FigureTypes
  <2>5. Waiting' = [Waiting EXCEPT ![m] = @ + 1]
    <3>1. Waiting'[m] = Waiting[m] + 1
      BY <1>3, <2>3, <2>4 DEF Waiting
    <3>2. \A n \in Message : n # m => Waiting'[n] = Waiting[n]
      BY <1>3, <2>2 DEF Waiting
    <3>. QED  BY <3>1, <3>2 DEF Waiting
  <2>6. Left' = Left /\ SoldTo' = SoldTo
    BY <1>2 DEF Left, Rows, SoldTo, RowsFor
  <2>7. Replies[r] = "none" /\ Replies' = [Replies EXCEPT ![r] = "accepted"]
    BY <1>4, <1>8 DEF Replies
  <2>8. Shop!Accept(r)
    BY <1>2, <2>1, <2>5, <2>6, <2>7 DEF Shop!Accept
  <2>. QED  BY <2>8 DEF Shop!Next
<1>9. CASE Enter(r)
  BY <1>4, <1>6, <1>7, <1>9 DEF Enter, Answer
<1>10. CASE ReadStock(r)
  BY <1>4, <1>6, <1>7, <1>10 DEF ReadStock, Answer
<1>11. CASE Send(r)
  BY <1>8, <1>11 DEF Send, Answer
<1>12. CASE Accept(r)
  <2>1. Replies' = Replies /\ sent' = sent
    BY <1>1, <1>4, <1>12 DEF Accept, Answer, Replies
  <2>. QED  BY <1>2, <1>3, <2>1, Stutter
<1>. QED  BY <1>9, <1>10, <1>11, <1>12

(* getPayResult: success is told on a row, failure on a count of nothing.  *)
LEMMA AskShops ==
  ASSUME SystemAssumption, ShopInv, NEW r \in Requests, ReadOrders(r) \/ ReadCountLeft(r)
  PROVE  [Shop!Next]_(Shop!sale)
<1>1. /\ TypeOK /\ CountInv
      /\ SidOf[r] \in Sids /\ BuyerOf[r] \in Users \cup {NoUser} /\ NoUser \notin Users
  BY DEF ShopInv, CountInv, TurnInv, SystemAssumption
<1>2. UNCHANGED <<vars, sent>> /\ Replies' = Replies /\ orders' = orders
  BY RepliesSame DEF ReadOrders, ReadCountLeft, vars
<1>3. \A m \in Message : Used(m)' = Used(m)
  BY <1>2 DEF Used, Passed, vars, thread
<1>4. Left' = Left /\ Waiting' = Waiting /\ SoldTo' = SoldTo
  BY <1>2, <1>3, AskedSame, SameFigures
<1>5. RecordOf(r).sid = SidOf[r] /\ (RecordOf(r) \in Message <=> BuyerOf[r] # NoUser)
  BY <1>1 DEF RecordOf, Message
<1>6. CASE verdict' = verdict
  BY <1>2, <1>3, <1>6, Stutter
<1>7. ASSUME NEW text \in {"null", "0", "1", "2"}, verdict' = [verdict EXCEPT ![r] = text],
             text = "null" => BuyerOf[r] = NoUser,
             text = "2" => BuyerOf[r] # NoUser /\ HasRow(r),
             text = "0" => ~InStock(r)
      PROVE  Shop!Next
  <2>1. text = "2" => RecordOf(r) \in Message /\ SoldTo[RecordOf(r)] > 0
    <3>1. ASSUME text = "2"
          PROVE  RecordOf(r) \in Message /\ SoldTo[RecordOf(r)] > 0
      <4>1. PICK m \in Message : m = RecordOf(r)
        BY <1>5, <1>7, <3>1
      <4>2. PICK i \in RowsFor(m) : TRUE
        BY <1>7, <3>1, <4>1 DEF HasRow, RowsFor
      <4>3. Cardinality(RowsFor(m)) # 0
        BY <1>1, <4>2, FigureTypes, FS_EmptySet
      <4>. QED  BY <1>1, <4>1, <4>3, FigureTypes
    <3>. QED  BY <3>1
  <2>2. text = "0" => Left[SidOf[r]] <= 0
    <3>1. stockCount[SidOf[r]] \in Int
      BY <1>1 DEF TypeOK
    <3>. QED  BY <1>1, <1>7, <3>1, NoneLeft DEF InStock
  <2>3. Shop!Tell(r, text)
    BY <1>2, <1>4, <1>5, <1>7, <2>1, <2>2 DEF Shop!Tell, Shop!SoldOut
  <2>. QED  BY <2>3 DEF Shop!Next
<1>8. CASE ReadOrders(r)
  BY <1>6, <1>7, <1>8 DEF ReadOrders
<1>9. CASE ReadCountLeft(r)
  BY <1>7, <1>9 DEF ReadCountLeft
<1>. QED  BY <1>8, <1>9

(* The topic: nobody is served by a delivery.                              *)
LEMMA DeliverShops ==
  ASSUME SystemAssumption, ShopInv, NEW r \in Requests, NEW p \in Partitions, Deliver(r, p)
  PROVE  UNCHANGED Shop!sale
<1>1. /\ TurnInv /\ TypeOK /\ RecordOf(r) \in Message /\ Publish(p, RecordOf(r))
      /\ sent' = sent /\ Replies' = Replies /\ verdict' = verdict
  BY RepliesSame DEF Deliver, RecordOf, Message, SystemTypeOK, SystemAssumption, ShopInv, CountInv, TurnInv
<1>2. UNCHANGED <<orders, handled, pc, job>>
  BY <1>1 DEF Publish, thread
<1>3. ASSUME NEW m \in Message
      PROVE  Used(m)' = Used(m)
  BY <1>1, <1>2, PublishKeepsLog, UsedSame
<1>. QED  BY <1>1, <1>2, <1>3, Stutter

(* One customer less waits: what Sell and TurnAway have in common.         *)
LEMMA ServesOne ==
  ASSUME ConsumerAssumption, ShopInv, CountInv', NEW c \in Consumers,
         pc[c] \in {"get", "insert"}, pc' = [pc EXCEPT ![c] = "exec"],
         UNCHANGED <<job, topic, handled, sent>>
  PROVE  \E m \in Message : /\ m = Record(c) /\ Waiting[m] > 0
                            /\ Waiting' = [Waiting EXCEPT ![m] = @ - 1]
<1>1. TurnInv /\ CountInv
  BY DEF ShopInv, CountInv
<1>2. PICK k \in Partitions \X (1..MaxRecords), m \in Message :
        /\ m = Record(c) /\ k \notin Used(m) /\ Used(m)' = Used(m) \cup {k}
        /\ \A n \in Message : n # m => Used(n)' = Used(n)
  BY <1>1, PassesOne
<1>3. /\ Cardinality(SentFor(m)) \in Nat /\ Cardinality(Used(m)) \in Nat
      /\ Waiting[m] = Cardinality(SentFor(m)) - Cardinality(Used(m))
      /\ IsFiniteSet(Used(m))
  BY <1>1, FigureTypes
<1>4. Cardinality(Used(m)') = Cardinality(Used(m)) + 1
  BY <1>2, <1>3, FS_AddElement
<1>5. \A n : SentFor(n)' = SentFor(n)
  BY AskedSame
<1>6. Cardinality(Used(m)') <= Cardinality(SentFor(m)')
  BY FigureTypesNext
<1>7. Waiting[m] > 0
  BY <1>3, <1>4, <1>5, <1>6
<1>8. Waiting'[m] = Waiting[m] - 1
  BY <1>3, <1>4, <1>5 DEF Waiting
<1>9. \A n \in Message : n # m => Waiting'[n] = Waiting[n]
  BY <1>2, <1>5 DEF Waiting
<1>10. Waiting' = [Waiting EXCEPT ![m] = @ - 1]
  BY <1>8, <1>9 DEF Waiting
<1>. QED  BY <1>2, <1>7, <1>10

(* The insert is the sale, allowed as long as the bound is not reached.    *)
LEMMA InsertSells ==
  ASSUME ConsumerAssumption, ShopInv, ShopInv', NEW c \in Consumers, InsertOrder(c),
         UNCHANGED frontend
  PROVE  Shop!Next
<1>1. /\ TypeOK /\ CountInv /\ CountInv' /\ DriftInv' /\ faults = 0 /\ faults' = faults
      /\ orders' = Append(orders, Record(c)) /\ pc[c] = "insert"
      /\ pc' = [pc EXCEPT ![c] = "exec"] /\ UNCHANGED <<job, topic, handled, sent, verdict>>
      /\ Replies' = Replies
  BY RepliesSame DEF InsertOrder, GoTo, ShopInv, CountInv, TurnInv, InTurn, frontend
<1>2. PICK m \in Message : /\ m = Record(c) /\ Waiting[m] > 0
                          /\ Waiting' = [Waiting EXCEPT ![m] = @ - 1]
  BY <1>1, ServesOne
<1>3. m.sid \in Sids
  BY DEF Message
<1>4. \A s \in Sids : Rows(s)' = IF m.sid = s THEN Rows(s) + 1 ELSE Rows(s)
  BY <1>1, <1>2, RowsAppend
<1>5. \A s \in Sids : Rows(s) \in Nat /\ InitialCount[s] \in Nat /\ N \in Nat
  BY <1>1, RowsType, Finite, ConsumerAssumption DEF ConsumerAssumption
<1>6. Left' = [Left EXCEPT ![m.sid] = @ - 1]
  <2>1. Left'[m.sid] = Left[m.sid] - 1
    BY <1>3, <1>4, <1>5 DEF Left
  <2>2. \A s \in Sids : s # m.sid => Left'[s] = Left[s]
    BY <1>4 DEF Left
  <2>. QED  BY <2>1, <2>2 DEF Left
<1>7. SoldTo' = [SoldTo EXCEPT ![m] = @ + 1]
  <2>1. orders' = Append(orders, m) /\ orders \in Seq(Message)
    BY <1>1, <1>2 DEF TypeOK
  <2>2. /\ DOMAIN orders' = 1..(Len(orders) + 1) /\ DOMAIN orders = 1..Len(orders)
        /\ Len(orders) \in Nat /\ orders'[Len(orders) + 1] = m
        /\ \A i \in 1..Len(orders) : orders'[i] = orders[i]
    BY <2>1
  <2>3. RowsFor(m)' = RowsFor(m) \cup {Len(orders) + 1} /\ Len(orders) + 1 \notin RowsFor(m)
    BY <2>2 DEF RowsFor
  <2>4. Cardinality(RowsFor(m)') = Cardinality(RowsFor(m)) + 1
    BY <1>1, <2>3, FigureTypes, FS_AddElement
  <2>5. \A n \in Message : n # m => RowsFor(n)' = RowsFor(n)
    BY <2>2 DEF RowsFor
  <2>6. SoldTo'[m] = SoldTo[m] + 1
    BY <2>4 DEF SoldTo
  <2>7. \A n \in Message : n # m => SoldTo'[n] = SoldTo[n]
    BY <2>5 DEF SoldTo
  <2>. QED  BY <2>6, <2>7 DEF SoldTo
<1>8. Left[m.sid] + (N - 1) * InitialCount[m.sid] > 0
  <2>1. Rows(m.sid)' <= N * (InitialCount[m.sid] + 2 * faults')
    BY <1>1, <1>3, BoundNext
  <2>2. PICK n \in Nat, a \in Nat, k \in Nat : n = N /\ a = InitialCount[m.sid] /\ k = Rows(m.sid)
    BY <1>3, <1>5
  <2>3. k + 1 <= n * (a + 2 * 0)
    BY <1>1, <1>3, <1>4, <2>1, <2>2
  <2>4. Left[m.sid] = a - k
    BY <1>3, <2>2 DEF Left
  <2>5. (n - 1) * a = n * a - a /\ n * a \in Nat
    OBVIOUS
  <2>6. a - k + (n - 1) * a > 0
    BY <2>3, <2>5
  <2>. QED  BY <2>2, <2>4, <2>6
<1>9. Shop!Sell(m)
  BY <1>3, <1>6, <1>7, <1>8 DEF Shop!Sell
<1>10. Shop!Serve(m)
  BY <1>1, <1>2, <1>9 DEF Shop!Serve
<1>. QED  BY <1>10 DEF Shop!Next

(* The read of the count turns a customer away when there is no unit.      *)
LEMMA ReadShops ==
  ASSUME ConsumerAssumption, ShopInv, ShopInv', NEW c \in Consumers, ReadCount(c),
         UNCHANGED frontend
  PROVE  [Shop!Next]_(Shop!sale)
<1>1. /\ TypeOK /\ TurnInv /\ CountInv' /\ pc[c] = "get"
      /\ pc \in [Consumers -> {"idle", "watch", "get", "insert", "exec", "restore"}]
      /\ UNCHANGED <<orders, job, topic, handled, sent, verdict>> /\ Replies' = Replies
  BY RepliesSame DEF ReadCount, ShopInv, CountInv, TurnInv, TypeOK, frontend
<1>2. CASE HasStock(stockCount[Sid(c)])
  <2>1. pc' = [pc EXCEPT ![c] = "insert"]
    BY <1>2 DEF ReadCount, GoTo
  <2>2. \A d \in Consumers : (pc'[d] = "exec" <=> pc[d] = "exec") /\ job'[d] = job[d]
    BY <1>1, <2>1
  <2>3. \A m \in Message : Used(m)' = Used(m)
    BY <1>1, <2>2, UsedSame
  <2>. QED  BY <1>1, <2>3, Stutter
<1>3. CASE ~HasStock(stockCount[Sid(c)])
  <2>1. pc' = [pc EXCEPT ![c] = "exec"]
    BY <1>3 DEF ReadCount, GoTo
  <2>2. PICK m \in Message : /\ m = Record(c) /\ Waiting[m] > 0
                            /\ Waiting' = [Waiting EXCEPT ![m] = @ - 1]
    BY <1>1, <2>1, ServesOne
  <2>3. m.sid \in Sids /\ Sid(c) = m.sid
    BY <2>2 DEF Message, Sid
  <2>4. Left[m.sid] <= 0
    BY <1>3, <2>3, NoneLeft DEF HasStock
  <2>5. Left' = Left /\ SoldTo' = SoldTo
    BY <1>1 DEF Left, Rows, SoldTo, RowsFor
  <2>6. Shop!Serve(m)
    BY <1>1, <2>2, <2>4, <2>5 DEF Shop!Serve, Shop!TurnAway
  <2>. QED  BY <2>6 DEF Shop!Next
<1>. QED  BY <1>2, <1>3

LEMMA ListenerShops ==
  ASSUME ConsumerAssumption, ShopInv, ShopInv', UNCHANGED frontend,
         \/ \E c \in Consumers : ListenerStep(c)
         \/ \E p \in Partitions : Commit(p)
  PROVE  [Shop!Next]_(Shop!sale)
<1>1. /\ TurnInv /\ UNCHANGED <<sent, verdict>> /\ Replies' = Replies
      /\ pc \in [Consumers -> {"idle", "watch", "get", "insert", "exec", "restore"}]
      /\ job \in [Consumers -> Job \cup {NoJob}]
  BY RepliesSame DEF ShopInv, CountInv, TurnInv, TypeOK, frontend
<1>2. ASSUME UNCHANGED <<orders, handled, topic>>,
             \A d \in Consumers : /\ pc'[d] = "exec" <=> pc[d] = "exec"
                                  /\ pc[d] = "exec" => job'[d] = job[d]
      PROVE  UNCHANGED Shop!sale
  <2>1. \A m \in Message : Used(m)' = Used(m)
    BY <1>1, <1>2, UsedSame
  <2>. QED  BY <1>1, <1>2, <2>1, Stutter
<1>3. ASSUME NEW p \in Partitions, Commit(p)
      PROVE  UNCHANGED Shop!sale
  BY <1>2, <1>3 DEF Commit, thread
<1>4. ASSUME NEW c \in Consumers, Watch(c)
      PROVE  UNCHANGED Shop!sale
  <2>1. UNCHANGED <<orders, handled, topic, job>> /\ pc[c] = "watch" /\ pc' = [pc EXCEPT ![c] = "get"]
    BY <1>4 DEF Watch, GoTo
  <2>. QED  BY <1>1, <1>2, <2>1
<1>5. ASSUME NEW c \in Consumers, NEW p \in Partitions, NEW n \in 1..MaxBatch, Poll(c, p, n)
      PROVE  UNCHANGED Shop!sale
  <2>1. /\ UNCHANGED <<orders, handled, topic>> /\ pc[c] = "idle" /\ pc'[c] = "watch"
        /\ \A d \in Consumers \ {c} : pc'[d] = pc[d] /\ job'[d] = job[d]
    BY <1>1, <1>5 DEF Poll, GoTo
  <2>. QED  BY <1>2, <2>1
<1>6. ASSUME NEW c \in Consumers, Exec(c)
      PROVE  UNCHANGED Shop!sale
  <2>1. \A m \in Message : Used(m)' = Used(m)
    BY <1>1, <1>6, ExecUsedSame
  <2>. QED  BY <1>1, <1>6, <2>1, Stutter DEF Exec
<1>. QED
  BY <1>3, <1>4, <1>5, <1>6, InsertSells, ReadShops DEF ListenerStep

LEMMA ShopNext ==
  ASSUME ConsumerAssumption, SystemAssumption, Faults = {}, ~BrokerFaults, ShopInv, ShopInv',
         [SystemNext]_system
  PROVE  [Shop!Next]_(Shop!sale)
<1>1. InTurn
  BY DEF ShopInv, CountInv, TurnInv
<1>2. CASE UNCHANGED system
  <2>1. /\ UNCHANGED <<orders, sent, verdict>> /\ Replies' = Replies
        /\ \A m \in Message : Used(m)' = Used(m)
    BY <1>2, RepliesSame DEF system, frontend, vars, thread, Used, Passed
  <2>. QED  BY <2>1, Stutter
<1>. QED
  BY <1>1, <1>2, PayShops, AskShops, DeliverShops, ListenerShops, SmoothSystemCases

(* SaleSpec: as long as nothing fails, the web requests, the producer, the *)
(* topic, any number of listener threads, Redis and MySQL together are the *)
(* sale of module Sale, which with one thread is exact.                    *)
THEOREM ImplementsSale ==
  ASSUME Faults = {}, ~BrokerFaults
  PROVE  SystemSpec => SaleSpec
<1>1. SystemInit => ShopInv
  BY DriftInit, CountInit, ConsumerAssumption, SystemAssumption DEF SystemInit, ShopInv
<1>2. ShopInv /\ [SystemNext]_system => ShopInv'
  BY ShopStep, ConsumerAssumption, SystemAssumption
<1>3. SystemInit => Shop!Init
  <2>1. ASSUME SystemInit
        PROVE  Shop!Init
    <3>1. orders = <<>> /\ InitialCount \in [Sids -> Nat]
      BY <2>1, ConsumerAssumption DEF SystemInit, Init, ConsumerAssumption
    <3>2. ASSUME NEW s \in Sids
          PROVE  Rows(s) = 0
      <4>1. {i \in DOMAIN orders : orders[i].sid = s} = {}
        BY <3>1
      <4>. QED  BY <4>1, FS_EmptySet DEF Rows
    <3>3. Left = InitialCount
      BY <3>1, <3>2 DEF Left
    <3>4. ASSUME NEW m \in Message
          PROVE  Cardinality(RowsFor(m)) = 0 /\ Cardinality(Used(m)) = 0
                 /\ Cardinality(SentFor(m)) = 0
      <4>1. RowsFor(m) = {} /\ Used(m) = {} /\ SentFor(m) = {}
        BY <2>1 DEF SystemInit, Init, RowsFor, Used, Passed, SentFor
      <4>. QED  BY <4>1, FS_EmptySet
    <3>5. Waiting = [m \in Message |-> 0] /\ SoldTo = [m \in Message |-> 0]
      BY <3>4 DEF Waiting, SoldTo
    <3>6. Replies = [r \in Requests |-> "none"]
      BY <2>1 DEF SystemInit, Replies
    <3>. QED  BY <2>1, <3>3, <3>5, <3>6 DEF SystemInit, Shop!Init
  <2>. QED  BY <2>1
<1>4. ShopInv /\ ShopInv' /\ [SystemNext]_system => [Shop!Next]_(Shop!sale)
  BY ShopNext, ConsumerAssumption, SystemAssumption
<1>. QED  BY <1>1, <1>2, <1>3, <1>4, PTL DEF SystemSpec, SaleSpec, Shop!Spec

=============================================================================
