---------------------------- MODULE OrderConsumer ----------------------------
(***************************************************************************)
(* The asynchronous half of order taking: the Kafka listener (mq/Consumer) *)
(* and OrderServiceAsync.consumerTopicToCreateOrderWithKafka, which turns  *)
(* each record of the topic into a row of the MySQL table stock_order and  *)
(* one unit less of the article's Redis stock.                             *)
(*                                                                         *)
(* Each member of Consumers is the listener thread of one application      *)
(* instance.  A step is one call to Redis, MySQL or the broker; another    *)
(* thread may run between any two of them.  Redis executes one command (or *)
(* one EXEC) at a time, and EXEC does nothing, without an error, if a key  *)
(* under WATCH was written since.                                          *)
(***************************************************************************)
EXTENDS Integers, Sequences, FiniteSets

CONSTANTS
  Sids,           \* article ids
  Users,          \* names of logged-in users
  Consumers,      \* listener threads, one per application instance
  Partitions,     \* partitions of the topic
  InitialCount,   \* STOCK_COUNT_<sid> as seeded outside this program
  Faults,         \* the kinds of failure a run may meet
  MaxFaults,      \* bound on the failures that can cost an order or a unit
  MaxRecords,     \* bound on the records published to one partition
  MaxBatch,       \* records one poll may return (max.poll.records)
  NoJob           \* the job of a thread that is waiting in poll()

FaultKinds == {"crash", "rebalance", "redis", "mysql"}

Message == [userId : Users, sid : Sids]

(* The records a thread got from one poll and has not finished: those of   *)
(* part from offset off, the one in hand, to offset last.                  *)
Job == [part : Partitions, off : Nat, last : Nat]

ASSUME ConsumerAssumption ==
  /\ IsFiniteSet(Consumers) /\ Consumers # {}
  /\ InitialCount \in [Sids -> Nat]
  /\ Faults \subseteq FaultKinds
  /\ MaxFaults \in Nat
  /\ MaxRecords \in Nat
  /\ MaxBatch \in Nat
  /\ NoJob \notin Job

VARIABLES
  stockCount, stockSale, stockVersion,  \* Redis: STOCK_COUNT_, _SALE_, _VERSION_
  dirty,      \* Redis: the threads whose watched key was written since WATCH
  orders,     \* MySQL: the rows of stock_order, in order of their id
  topic,      \* broker: the log of each partition
  committed,  \* broker: the offset up to which the group committed
  owner,      \* broker: the thread a partition is assigned to
  position,   \* listener container: offset of the last record fetched
  pc, job,    \* listener thread: next call, and the records in hand
  seen,       \* listener thread: the value of count read after WATCH
  handled,    \* history: the offsets the listener method returned from
  faults      \* history: number of failures so far

redis    == <<stockCount, stockSale, stockVersion>>
cursors  == <<committed, owner, position>>
thread   == <<pc, job, seen>>
vars     == <<redis, dirty, orders, topic, cursors, thread, handled, faults>>

Init ==
  /\ stockCount = InitialCount
  /\ stockSale = [s \in Sids |-> 0]
  /\ stockVersion = [s \in Sids |-> 0]
  /\ dirty = {}
  /\ orders = <<>>
  /\ topic = [p \in Partitions |-> <<>>]
  /\ committed = [p \in Partitions |-> 0]
  /\ owner \in [Partitions -> Consumers]
  /\ position = [p \in Partitions |-> 0]
  /\ pc = [c \in Consumers |-> "idle"]
  /\ job = [c \in Consumers |-> NoJob]
  /\ seen = [c \in Consumers |-> 0]
  /\ handled = [p \in Partitions |-> {}]
  /\ faults = 0

-----------------------------------------------------------------------------
(* The record a busy thread has in hand, and the article it orders.        *)
Record(c) == topic[job[c].part][job[c].off]
Sid(c)    == Record(c).sid

(* Threads between WATCH on the count of article s and the end of EXEC.    *)
Watching(s) == {c \in Consumers : pc[c] \in {"get", "insert", "exec"} /\ Sid(c) = s}

(* INCR/DECR of the three keys of article s, by the connection of c: it    *)
(* spoils the WATCH of every other connection on that count.               *)
MoveStock(c, s, n) ==
  /\ stockCount' = [stockCount EXCEPT ![s] = @ - n]
  /\ stockSale' = [stockSale EXCEPT ![s] = @ + n]
  /\ stockVersion' = [stockVersion EXCEPT ![s] = @ + n]
  /\ dirty' = (dirty \cup Watching(s)) \ {c}

GoTo(c, label) == pc' = [pc EXCEPT ![c] = label]

(* Wrong on purpose, like the other definitions whose comment starts so:   *)
(* one record too many, or the rest of the batch forgotten.                *)
ReturnOneTooMany(c) ==
  LET j == job[c] IN
  /\ handled' = [handled EXCEPT ![j.part] = @ \cup {j.off}]
  /\ job' = [job EXCEPT ![c] = IF j.off <= j.last THEN [j EXCEPT !.off = @ + 1] ELSE NoJob]
  /\ seen' = [seen EXCEPT ![c] = 0]
  /\ GoTo(c, IF j.off <= j.last THEN "watch" ELSE "idle")

ReturnDropsBatch(c) ==
  /\ handled' = [handled EXCEPT ![job[c].part] = @ \cup {job[c].off}]
  /\ job' = [job EXCEPT ![c] = NoJob]
  /\ seen' = [seen EXCEPT ![c] = 0]
  /\ GoTo(c, "idle")

(* The listener method returns: the container goes on with the next record *)
(* of the batch, or back to poll().                                        *)
Return(c) ==
  LET j == job[c]
      more == j.off < j.last
  IN /\ handled' = [handled EXCEPT ![j.part] = @ \cup {j.off}]
     /\ job' = [job EXCEPT ![c] = IF more THEN [j EXCEPT !.off = @ + 1] ELSE NoJob]
     /\ seen' = [seen EXCEPT ![c] = 0]
     /\ GoTo(c, IF more THEN "watch" ELSE "idle")

(* An exception leaves the session: the connection is closed, which drops  *)
(* its WATCH and its MULTI, and the catch block is next.                   *)
Throw(c) ==
  /\ GoTo(c, "restore")
  /\ seen' = [seen EXCEPT ![c] = 0]
  /\ UNCHANGED <<job, handled>>

Fault(kind) ==
  /\ kind \in Faults
  /\ faults < MaxFaults
  /\ faults' = faults + 1

-----------------------------------------------------------------------------
(* The broker appends a record that Producer.produce sent.                 *)
Publish(p, m) ==
  /\ Len(topic[p]) < MaxRecords
  /\ topic' = [topic EXCEPT ![p] = Append(@, m)]
  /\ UNCHANGED <<redis, dirty, orders, cursors, thread, handled, faults>>

(* poll() hands the thread the next n records of a partition it owns.      *)
Poll(c, p, n) ==
  /\ pc[c] = "idle"
  /\ owner[p] = c
  /\ position[p] + n <= Len(topic[p])
  /\ position' = [position EXCEPT ![p] = @ + n]
  /\ job' = [job EXCEPT ![c] = [part |-> p, off |-> position[p] + 1,
                                last |-> position[p] + n]]
  /\ GoTo(c, "watch")
  /\ UNCHANGED <<redis, dirty, orders, topic, committed, owner, seen, handled, faults>>

(* Wrong on purpose: commits, on a timer, a batch that is still in hand.   *)
CommitEarly(p) ==
  /\ committed[p] < position[p]
  /\ committed' = [committed EXCEPT ![p] = position[p]]
  /\ UNCHANGED <<redis, dirty, orders, topic, owner, position, thread, handled, faults>>

(* enable-auto-commit: the poll() after a batch commits the position.      *)
Commit(p) ==
  /\ pc[owner[p]] = "idle"
  /\ committed[p] < position[p]
  /\ committed' = [committed EXCEPT ![p] = position[p]]
  /\ UNCHANGED <<redis, dirty, orders, topic, owner, position, thread, handled, faults>>

-----------------------------------------------------------------------------
(* updateRedisStock, call by call.                                         *)
Watch(c) ==
  /\ pc[c] = "watch"
  /\ GoTo(c, "get")
  /\ dirty' = dirty \ {c}
  /\ UNCHANGED <<redis, orders, topic, cursors, job, seen, handled, faults>>

(* Wrong on purpose: sells a unit that is not there, or keeps the last.    *)
HasStockOrNone(n) == n >= 0
HasStockButOne(n) == n > 1

(* if(count > 0)                                                           *)
HasStock(n) == n > 0

(* get, then multi; without stock the transaction stays empty.             *)
ReadCount(c) ==
  LET n == stockCount[Sid(c)] IN
  /\ pc[c] = "get"
  /\ seen' = [seen EXCEPT ![c] = n]
  /\ GoTo(c, IF HasStock(n) THEN "insert" ELSE "exec")
  /\ UNCHANGED <<redis, dirty, orders, topic, cursors, job, handled, faults>>

(* createOrder: the row is in MySQL before EXEC, and stays whatever EXEC   *)
(* does.  A plain INSERT adds one row or throws, so i > 0 always.          *)
InsertOrder(c) ==
  /\ pc[c] = "insert"
  /\ orders' = Append(orders, Record(c))
  /\ GoTo(c, "exec")
  /\ UNCHANGED <<redis, dirty, topic, cursors, job, seen, handled, faults>>

(* Wrong on purpose: MULTI without WATCH.                                  *)
ExecAppliesUnwatched(c) == HasStock(seen[c])

(* Whether EXEC runs the three queued commands.                            *)
ExecApplies(c) == HasStock(seen[c]) /\ c \notin dirty

ExecEffect(c, applies) ==
  IF applies THEN MoveStock(c, Sid(c), 1)
             ELSE dirty' = dirty \ {c} /\ UNCHANGED redis

(* The result of exec() is returned by updateRedisStock and never read.    *)
Exec(c) ==
  /\ pc[c] = "exec"
  /\ ExecEffect(c, ExecApplies(c))
  /\ Return(c)
  /\ UNCHANGED <<orders, topic, cursors, faults>>

(* The catch block: one unit back, in a transaction without WATCH.         *)
Restore(c) ==
  /\ pc[c] = "restore"
  /\ MoveStock(c, Sid(c), -1)
  /\ Return(c)
  /\ UNCHANGED <<orders, topic, cursors, faults>>

-----------------------------------------------------------------------------
(* A Redis command before the insert throws: WATCH, GET, MULTI or one of   *)
(* the three queued ones.                                                  *)
RedisFails(c) ==
  /\ pc[c] \in {"watch", "get", "insert"}
  /\ Fault("redis")
  /\ Throw(c)
  /\ dirty' = dirty \ {c}
  /\ UNCHANGED <<redis, orders, topic, cursors>>

(* Wrong on purpose: createOrder swallows the exception.                   *)
InsertFailsSwallowed(c) ==
  /\ pc[c] = "insert"
  /\ Fault("mysql")
  /\ GoTo(c, "exec")
  /\ UNCHANGED <<redis, dirty, orders, topic, cursors, job, seen, handled>>

(* orderDao.insert throws; the row may have been stored all the same.      *)
InsertFails(c) ==
  /\ pc[c] = "insert"
  /\ Fault("mysql")
  /\ orders' \in {orders, Append(orders, Record(c))}
  /\ Throw(c)
  /\ dirty' = dirty \ {c}
  /\ UNCHANGED <<redis, topic, cursors>>

(* exec throws; Redis may have run the transaction all the same.           *)
ExecFails(c) ==
  /\ pc[c] = "exec"
  /\ Fault("redis")
  /\ \E applies \in {FALSE, ExecApplies(c)} : ExecEffect(c, applies)
  /\ Throw(c)
  /\ UNCHANGED <<orders, topic, cursors>>

(* The compensation throws too: the container logs it and goes on.         *)
RestoreFails(c) ==
  /\ pc[c] = "restore"
  /\ Fault("redis")
  /\ Return(c)
  /\ UNCHANGED <<redis, dirty, orders, topic, cursors>>

(* The instance of c dies and comes back: its connection and the records   *)
(* in hand are gone, its partitions restart from the committed offset.     *)
Crash(c) ==
  /\ Fault("crash")
  /\ pc' = [pc EXCEPT ![c] = "idle"]
  /\ job' = [job EXCEPT ![c] = NoJob]
  /\ seen' = [seen EXCEPT ![c] = 0]
  /\ dirty' = dirty \ {c}
  /\ position' = [p \in Partitions |-> IF owner[p] = c THEN committed[p] ELSE position[p]]
  /\ UNCHANGED <<redis, orders, topic, committed, owner, handled>>

(* The group gives partition p to c.  The previous owner, if it is slow    *)
(* rather than dead, still finishes the batch it has in hand.              *)
Rebalance(p, c) ==
  /\ "rebalance" \in Faults
  /\ owner[p] # c
  /\ owner' = [owner EXCEPT ![p] = c]
  /\ position' = [position EXCEPT ![p] = committed[p]]
  /\ UNCHANGED <<redis, dirty, orders, topic, committed, thread, handled, faults>>

-----------------------------------------------------------------------------
(* One call of the listener thread that does not fail.                     *)
Step(c) ==
  \/ Watch(c)
  \/ ReadCount(c)
  \/ InsertOrder(c)
  \/ Exec(c)
  \/ Restore(c)

Failure(c) ==
  \/ RedisFails(c)
  \/ InsertFails(c)
  \/ ExecFails(c)
  \/ RestoreFails(c)
  \/ Crash(c)

Consume(c) == Step(c) \/ \E p \in Partitions, n \in 1..MaxBatch : Poll(c, p, n)

ConsumerNext ==
  \/ \E c \in Consumers : Consume(c) \/ Failure(c)
  \/ \E p \in Partitions : Commit(p)
  \/ \E p \in Partitions, c \in Consumers : Rebalance(p, c)

Next ==
  \/ ConsumerNext
  \/ \E p \in Partitions, m \in Message : Publish(p, m)

Spec == Init /\ [][Next]_vars

(* A listener thread that can go on does: it waits for nothing but replies.*)
(* The group does not move partitions to and fro for ever.                 *)
FairSpec ==
  /\ Spec
  /\ \A c \in Consumers : WF_vars(Consume(c))
  /\ <>[][UNCHANGED owner]_vars

-----------------------------------------------------------------------------
(* Type correctness, and the container idles exactly when it has no job.   *)
TypeOK ==
  /\ stockCount \in [Sids -> Int]
  /\ stockSale \in [Sids -> Int]
  /\ stockVersion \in [Sids -> Int]
  /\ dirty \subseteq Consumers
  /\ orders \in Seq(Message)
  /\ topic \in [Partitions -> Seq(Message)]
  /\ committed \in [Partitions -> Nat]
  /\ owner \in [Partitions -> Consumers]
  /\ position \in [Partitions -> Nat]
  /\ pc \in [Consumers -> {"idle", "watch", "get", "insert", "exec", "restore"}]
  /\ job \in [Consumers -> Job \cup {NoJob}]
  /\ seen \in [Consumers -> Int]
  /\ handled \in [Partitions -> SUBSET Nat]
  /\ faults \in Nat
  /\ \A c \in Consumers :
       IF pc[c] = "idle"
         THEN job[c] = NoJob
         ELSE /\ job[c] \in Job
              /\ 1 <= job[c].off
              /\ job[c].off <= job[c].last
              /\ job[c].last <= Len(topic[job[c].part])

N == Cardinality(Consumers)

Rows(s) == Cardinality({i \in DOMAIN orders : orders[i].sid = s})

(* The Redis stock never goes below zero, whatever listener threads        *)
(* interleave between the read of the count (updateRedisStock, line 130)   *)
(* and EXEC, and whatever fails: WATCH makes read and decrement one step.  *)
CountNonNegative == \A s \in Sids : stockCount[s] >= 0

(* A unit that left the Redis stock has a row in stock_order: the insert   *)
(* precedes EXEC, so no failure between the two stores loses a sold unit.  *)
DeductionsBacked == \A s \in Sids : InitialCount[s] - stockCount[s] <= Rows(s)

(* How far stock_order can run ahead of the stock.  The row is inserted    *)
(* before EXEC is known to apply, so each of N threads that saw the last   *)
(* units may add one; and a failure costs at most 2N more, through the     *)
(* unit that the catch block adds without having taken it.  With one       *)
(* thread and no failure there is no order beyond the stock.               *)
OversellBound == \A s \in Sids : Rows(s) <= N * (InitialCount[s] + 2 * faults)

(* No record is skipped: the listener method has returned from every       *)
(* offset the group committed, over crashes and changes of owner.          *)
AtLeastOnce == \A p \in Partitions : 1..committed[p] \subseteq handled[p]

(* The three keys behave as StockLedger says: WATCH, GET, MULTI and EXEC   *)
(* of many threads amount to "take one unit if there is one".              *)
Ledger == INSTANCE StockLedger
            WITH count <- stockCount, sale <- stockSale, version <- stockVersion

LedgerSpec == Ledger!Spec

AllIdle == \A c \in Consumers : pc[c] = "idle"

(* Every order created also took its unit from the Redis stock, once no    *)
(* thread is between the insert and EXEC.                                  *)
EveryOrderDeducted ==
  AllIdle => \A s \in Sids : Rows(s) = InitialCount[s] - stockCount[s]

(* The number of records for article s that a listener has returned from.  *)
HandledRecords(s) ==
  Cardinality({r \in Partitions \X (1..MaxRecords) :
                 r[2] \in handled[r[1]] /\ topic[r[1]][r[2]].sid = s})

(* All records come to one listener thread.                                *)
OneThread == \A p, q \in Partitions : owner[p] = owner[q]

(* One listener thread and no failure: the records handled are served      *)
(* exactly as far as the stock goes, no unit unsold and none sold twice.   *)
ExactSale ==
  OneThread /\ AllIdle => \A s \in Sids :
    Rows(s) = IF HandledRecords(s) < InitialCount[s] THEN HandledRecords(s)
                                                     ELSE InitialCount[s]

(* What the comment of the catch block says it does: give back what was    *)
(* taken from Redis.  So it never leaves more stock than there was.        *)
StockNotInflated == \A s \in Sids : stockCount[s] <= InitialCount[s]

(* Every record published is handled in the end, through failed calls,     *)
(* crashes and changes of owner, as long as the listener threads keep      *)
(* running.                                                                *)
EveryRecordHandled ==
  \A p \in Partitions, o \in 1..MaxRecords :
    (o <= Len(topic[p])) ~> (o \in handled[p])

=============================================================================
