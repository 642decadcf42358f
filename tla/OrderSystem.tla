----------------------------- MODULE OrderSystem -----------------------------
(***************************************************************************)
(* The whole life of an order: the web request that asks for it            *)
(* (PaymentController.pay, OrderServiceAsync.order), the producer's        *)
(* buffer (mq/Producer), the topic and its consumers (OrderConsumer), and  *)
(* the requests by which the client asks for the outcome (getPayResult).   *)
(*                                                                         *)
(* Nothing is locked across these steps: pay decides on a count it has     *)
(* read, the broker may have the record and a listener its row before pay  *)
(* answers, or long after, and getPayResult reads MySQL first and Redis    *)
(* later.                                                                  *)
(***************************************************************************)
EXTENDS OrderConsumer

CONSTANTS
  Requests,       \* calls of /order
  NoUser,         \* the user of a session that nobody logged in to
  BuyerOf,        \* the session's user of each request
  SidOf,          \* the article of each request
  ServedBy,       \* the application instance, named by its listener thread
  BrokerFaults    \* whether the broker may be out of reach or lose an ack

ASSUME SystemAssumption ==
  /\ NoUser \notin Users
  /\ BuyerOf \in [Requests -> Users \cup {NoUser}]
  /\ SidOf \in [Requests -> Sids]
  /\ ServedBy \in [Requests -> Consumers]
  /\ BrokerFaults \in BOOLEAN

VARIABLES
  web,        \* pay: next step of each request
  reply,      \* pay: the answer
  sent,       \* history: the requests that called produce()
  outbox,     \* producer: the requests whose record it still has to deliver
  poll,       \* getPayResult: the next read of the call about a request
  verdict     \* getPayResult: isSuccess of the last call about a request

frontend  == <<web, reply, sent, outbox, poll, verdict>>
system    == <<vars, frontend>>

SystemInit ==
  /\ Init
  /\ web = [r \in Requests |-> "start"]
  /\ reply = [r \in Requests |-> "none"]
  /\ sent = {}
  /\ outbox = {}
  /\ poll = [r \in Requests |-> "orders"]
  /\ verdict = [r \in Requests |-> "none"]

-----------------------------------------------------------------------------
(* Wrong on purpose: looks for the article only, whoever ordered it.       *)
HasRowOfArticle(r) == \E i \in DOMAIN orders : orders[i].sid = SidOf[r]

(* The record of a request, and whether getOrder finds a row for it: it    *)
(* looks by user name and article, not by request.                         *)
RecordOf(r) == [userId |-> BuyerOf[r], sid |-> SidOf[r]]
HasRow(r)   == \E i \in DOMAIN orders : orders[i] = RecordOf(r)
InStock(r)  == stockCount[SidOf[r]] >= 1

Answer(r, text) ==
  /\ reply' = [reply EXCEPT ![r] = text]
  /\ web' = [web EXCEPT ![r] = "done"]

(* Session check and limiter.  What tryAcquire answers is the business of  *)
(* LeakBucketLimiter; here it may answer either way.                       *)
Enter(r) ==
  /\ web[r] = "start"
  /\ \/ BuyerOf[r] = NoUser /\ Answer(r, "null")
     \/ BuyerOf[r] # NoUser /\ Answer(r, "busy")
     \/ /\ BuyerOf[r] # NoUser
        /\ web' = [web EXCEPT ![r] = "read"]
        /\ UNCHANGED reply
  /\ UNCHANGED <<vars, sent, outbox, poll, verdict>>

(* Wrong on purpose: buffers the record before the reads that may throw.   *)
ReadStockLate(r) ==
  /\ web[r] = "read"
  /\ outbox' = outbox \cup {r}
  /\ sent' = sent \cup {r}
  /\ \/ InStock(r) /\ web' = [web EXCEPT ![r] = "sent"] /\ UNCHANGED reply
     \/ (~InStock(r) \/ "redis" \in Faults) /\ Answer(r, "failed")
  /\ UNCHANGED <<vars, poll, verdict>>

(* Wrong on purpose: turns the customer of the last unit away.             *)
ReadStockKeepsLast(r) ==
  /\ web[r] = "read"
  /\ IF stockCount[SidOf[r]] > 1
       THEN web' = [web EXCEPT ![r] = "send"] /\ UNCHANGED reply
       ELSE Answer(r, "failed")
  /\ UNCHANGED <<vars, sent, outbox, poll, verdict>>

(* order(): the count decides; every exception is answered with a failure. *)
ReadStock(r) ==
  /\ web[r] = "read"
  /\ \/ InStock(r) /\ web' = [web EXCEPT ![r] = "send"] /\ UNCHANGED reply
     \/ (~InStock(r) \/ "redis" \in Faults) /\ Answer(r, "failed")
  /\ UNCHANGED <<vars, sent, outbox, poll, verdict>>

(* Wrong on purpose: waits for the broker, and reports a failure when it   *)
(* takes too long, with the record in the buffer.                          *)
SendThenFails(r) ==
  /\ web[r] = "send"
  /\ outbox' = outbox \cup {r}
  /\ sent' = sent \cup {r}
  /\ \/ web' = [web EXCEPT ![r] = "sent"] /\ UNCHANGED reply
     \/ Answer(r, "failed")
  /\ UNCHANGED <<vars, poll, verdict>>

(* produce() only puts the record into the producer's buffer.  It throws   *)
(* if no producer can be made.                                             *)
Send(r) ==
  /\ web[r] = "send"
  /\ \/ /\ web' = [web EXCEPT ![r] = "sent"]
        /\ outbox' = outbox \cup {r}
        /\ sent' = sent \cup {r}
        /\ UNCHANGED reply
     \/ BrokerFaults /\ Answer(r, "failed") /\ UNCHANGED <<outbox, sent>>
  /\ UNCHANGED <<vars, poll, verdict>>

(* order() has returned: "the order is being placed".                      *)
Accept(r) ==
  /\ web[r] = "sent"
  /\ Answer(r, "accepted")
  /\ UNCHANGED <<vars, sent, outbox, poll, verdict>>

Pay(r) == Enter(r) \/ ReadStock(r) \/ Send(r) \/ Accept(r)

-----------------------------------------------------------------------------
(* Wrong on purpose: a record that stays in the buffer is sent again.      *)
DeliverAgain(r, p) ==
  /\ r \in outbox
  /\ Publish(p, RecordOf(r))
  /\ UNCHANGED frontend

(* The producer's thread brings a record to a partition and is told so.    *)
Deliver(r, p) ==
  /\ r \in outbox
  /\ Publish(p, RecordOf(r))
  /\ outbox' = outbox \ {r}
  /\ UNCHANGED <<web, reply, sent, poll, verdict>>

(* The acknowledgement is lost: the client library will send it again.     *)
DeliverUnacked(r, p) ==
  /\ BrokerFaults
  /\ r \in outbox
  /\ Publish(p, RecordOf(r))
  /\ UNCHANGED frontend

(* delivery.timeout.ms is over: onFailure, which only writes to the log.   *)
DeliverFails(r) ==
  /\ BrokerFaults
  /\ r \in outbox
  /\ outbox' = outbox \ {r}
  /\ UNCHANGED <<vars, web, reply, sent, poll, verdict>>

-----------------------------------------------------------------------------
(* getPayResult: the rows of stock_order first.                            *)
ReadOrders(r) ==
  /\ web[r] = "done"
  /\ poll[r] = "orders"
  /\ \/ BuyerOf[r] = NoUser /\ verdict' = [verdict EXCEPT ![r] = "null"] /\ UNCHANGED poll
     \/ BuyerOf[r] # NoUser /\ HasRow(r)
        /\ verdict' = [verdict EXCEPT ![r] = "2"] /\ UNCHANGED poll
     \/ BuyerOf[r] # NoUser /\ ~HasRow(r)
        /\ poll' = [poll EXCEPT ![r] = "count"] /\ UNCHANGED verdict
  /\ UNCHANGED <<vars, web, reply, sent, outbox>>

(* Wrong on purpose: "in progress" also when nothing is left.              *)
ReadCountAlwaysOpen(r) ==
  /\ poll[r] = "count"
  /\ poll' = [poll EXCEPT ![r] = "orders"]
  /\ verdict' = [verdict EXCEPT ![r] = IF stockCount[SidOf[r]] >= 0 THEN "1" ELSE "0"]
  /\ UNCHANGED <<vars, web, reply, sent, outbox>>

(* getPayResult: without a row, the count that Redis has by now.           *)
ReadCountLeft(r) ==
  /\ poll[r] = "count"
  /\ poll' = [poll EXCEPT ![r] = "orders"]
  /\ verdict' = [verdict EXCEPT ![r] = IF InStock(r) THEN "1" ELSE "0"]
  /\ UNCHANGED <<vars, web, reply, sent, outbox>>

PayResult(r) == ReadOrders(r) \/ ReadCountLeft(r)

-----------------------------------------------------------------------------
(* An instance dies with its listener thread, the requests it is serving   *)
(* and the records its producer has not delivered.                         *)
InstanceCrash(c) ==
  LET lost == {r \in Requests : ServedBy[r] = c} IN
  /\ Crash(c)
  /\ web' = [r \in Requests |-> IF r \in lost /\ web[r] # "start" THEN "done" ELSE web[r]]
  /\ poll' = [r \in Requests |-> IF r \in lost THEN "orders" ELSE poll[r]]
  /\ outbox' = outbox \ lost
  /\ UNCHANGED <<reply, sent, verdict>>

CallFails(c) == RedisFails(c) \/ InsertFails(c) \/ ExecFails(c) \/ RestoreFails(c)

SystemNext ==
  \/ \E r \in Requests : Pay(r) \/ PayResult(r) \/ DeliverFails(r)
  \/ \E r \in Requests, p \in Partitions : Deliver(r, p) \/ DeliverUnacked(r, p)
  \/ /\ \/ \E c \in Consumers : Consume(c) \/ CallFails(c)
        \/ \E p \in Partitions : Commit(p)
        \/ \E p \in Partitions, c \in Consumers : Rebalance(p, c)
     /\ UNCHANGED frontend
  \/ \E c \in Consumers : InstanceCrash(c)

SystemSpec == SystemInit /\ [][SystemNext]_system

(* Web, producer and listener threads that can go on do, and the client    *)
(* asks for the result again and again.                                    *)
FairSystem ==
  /\ SystemSpec
  /\ \A r \in Requests :
       /\ WF_system(Pay(r))
       /\ WF_system(PayResult(r))
       /\ WF_system(DeliverFails(r) \/ \E p \in Partitions : Deliver(r, p))
  /\ \A c \in Consumers : WF_system(Consume(c) /\ UNCHANGED frontend)

-----------------------------------------------------------------------------
Accepted(r) == reply[r] = "accepted"

(* Types of the variables this module adds.  Only requests of a user who   *)
(* is logged in get past the session check, pay answers when it is done,   *)
(* only sent requests are accepted or in the buffer, and none is refused   *)
(* once its record was put there.                                          *)
SystemTypeOK ==
  /\ web \in [Requests -> {"start", "read", "send", "sent", "done"}]
  /\ reply \in [Requests -> {"none", "null", "busy", "failed", "accepted"}]
  /\ outbox \subseteq sent /\ sent \subseteq Requests
  /\ poll \in [Requests -> {"orders", "count"}]
  /\ verdict \in [Requests -> {"none", "null", "0", "1", "2"}]
  /\ \A r \in Requests :
       /\ web[r] \in {"read", "send"} => BuyerOf[r] \in Users
       /\ web[r] = "sent" => r \in sent
       /\ web[r] # "done" => reply[r] = "none"
       /\ Accepted(r) => r \in sent
       /\ r \in sent => /\ BuyerOf[r] \in Users
                       /\ web[r] \in {"sent", "done"}
                       /\ reply[r] \in {"none", "accepted"}

(* Nobody gets an order he did not ask for, or was refused: every row is   *)
(* of a user and an article for which some request called produce() and    *)
(* was accepted, or is about to be, or broke off without an answer.  This  *)
(* through crashes, lost acknowledgements and repeated deliveries.         *)
OrdersRequested ==
  \A i \in DOMAIN orders : \E r \in sent :
    reply[r] \in {"none", "accepted"} /\ orders[i] = RecordOf(r)

(* The rows made of a message, and the requests that sent it.              *)
RowsFor(m) == {i \in DOMAIN orders : orders[i] = m}
SentFor(m) == {r \in sent : RecordOf(r) = m}

(* No failure: a user has at most as many orders of an article as requests *)
(* of his were sent, however many threads and instances are at work.       *)
OneOrderPerRequest ==
  \A m \in Message : Cardinality(RowsFor(m)) <= Cardinality(SentFor(m))

(* Nothing is on its way from a request to a row.                          *)
Quiet ==
  /\ outbox = {}
  /\ AllIdle
  /\ \A p \in Partitions : position[p] = Len(topic[p])

(* No failure: whoever goes away without an order, refused by pay or       *)
(* sent and then not served, does so because the last unit was sold.       *)
TurnedAwayOnlyWhenSoldOut ==
  \A r \in Requests :
    (reply[r] = "failed" \/ (Quiet /\ r \in sent /\ ~HasRow(r))) => ~InStock(r)

(* A listener has decided on record o of p: it is past the insert, or past *)
(* the check that found no stock.                                          *)
Passed(p, o) ==
  \/ o \in handled[p]
  \/ \E c \in Consumers : pc[c] = "exec" /\ job[c].part = p /\ job[c].off = o

(* The records of message m that are decided on.                           *)
Used(m) ==
  {k \in Partitions \X (1..MaxRecords) : Passed(k[1], k[2]) /\ topic[k[1]][k[2]] = m}

(* The figures of the abstract sale, where a request is as good as         *)
(* accepted once it is sent.                                               *)
Left    == [s \in Sids |-> InitialCount[s] - Rows(s)]
Waiting == [m \in Message |-> Cardinality(SentFor(m)) - Cardinality(Used(m))]
Replies == [r \in Requests |-> IF r \in sent THEN "accepted" ELSE reply[r]]
SoldTo  == [m \in Message |-> Cardinality(RowsFor(m))]

Shop == INSTANCE Sale
          WITH left <- Left, waiting <- Waiting, sold <- SoldTo,
               answer <- Replies, told <- verdict,
               Overbook <- [s \in Sids |-> (N - 1) * InitialCount[s]],
               Wish <- [r \in Requests |-> RecordOf(r)]

(* No failure: web requests, producer, topic, threads and the two stores   *)
(* together are the sale that Sale describes.  No request that was sent is *)
(* decided on twice, however far a batch has got when others read the      *)
(* stock, and orders exceed the stock by what the other N - 1 threads may  *)
(* see of it at most.                                                      *)
SaleSpec == Shop!Spec

(* No failure: a client that keeps asking learns the truth and is not told *)
(* otherwise again, although the two stores are read one after the other.  *)
VerdictsSettle ==
  \A r \in Requests :
    <>[](Accepted(r) => verdict[r] = IF HasRow(r) THEN "2" ELSE "0")

(* What the comment on isSuccess says: "0" means the order has failed.  It *)
(* would follow that nobody is told of success after a failure.            *)
FailureIsFinal ==
  [][\A r \in Requests : verdict[r] = "0" => verdict'[r] # "2"]_system

(* What pay promises with its answer "the order is being placed": that the *)
(* client is told of success or failure in the end.                        *)
AcceptedIsAnswered ==
  \A r \in Requests : Accepted(r) ~> verdict[r] \in {"0", "2"}

=============================================================================
