---------------------------- MODULE OversellProofs ----------------------------
(***************************************************************************)
(* How far the orders in MySQL and the stock in Redis can drift apart, for *)
(* any number N of listener threads and any number of failures.            *)
(*                                                                         *)
(* For each article, a thread is in one of three places that matter:       *)
(*   Inserted:  its row is stored and EXEC has not answered;               *)
(*   Spoiled:   it watches the count and somebody has written it;          *)
(*   Restoring: it is about to run the catch block.                        *)
(* DriftInv charges a row beyond the units taken to one of those threads,  *)
(* to a unit taken (which may spoil N-1 threads), or to a failure.         *)
(*                                                                         *)
(* With one thread and no failure nothing is left to charge a row to but   *)
(* the unit it took, and the sale is exact.                                *)
(***************************************************************************)
EXTENDS OrderConsumerProofs

Inserted(s)  == {c \in Consumers : pc[c] = "exec" /\ HasStock(seen[c]) /\ Sid(c) = s}
Spoiled(s)   == dirty \cap Watching(s)
Restoring(s) == {c \in Consumers : pc[c] = "restore" /\ Sid(c) = s}

inserted(s)  == Cardinality(Inserted(s))
spoiled(s)   == Cardinality(Spoiled(s))
restoring(s) == Cardinality(Restoring(s))
taken(s)     == InitialCount[s] - stockCount[s]

(* Enough rows for the units taken, and for those about to be.             *)
Backed(s) == taken(s) + inserted(s) <= Rows(s)

(* Not too many rows.                                                      *)
Bounded(s) ==
  Rows(s) + spoiled(s) + (2 * N - 1) * restoring(s)
    <= inserted(s) + N * taken(s) + 2 * (N * faults)

DriftInv == WatchInv /\ \A s \in Sids : Backed(s) /\ Bounded(s)

-----------------------------------------------------------------------------
(* Two sets that differ in the element c only.                             *)
LEMMA CardDiffer ==
  ASSUME NEW S, NEW T, IsFiniteSet(S), IsFiniteSet(T), NEW c, S \ {c} = T \ {c}
  PROVE  /\ Cardinality(S) \in Nat /\ Cardinality(T) \in Nat
         /\ (c \in S <=> c \in T) => Cardinality(T) = Cardinality(S)
         /\ c \in S /\ c \notin T => Cardinality(T) = Cardinality(S) - 1
         /\ c \notin S /\ c \in T => Cardinality(T) = Cardinality(S) + 1
<1>1. /\ Cardinality(S) \in Nat /\ Cardinality(T) \in Nat
      /\ Cardinality(S \ {c}) = IF c \in S THEN Cardinality(S) - 1 ELSE Cardinality(S)
      /\ Cardinality(T \ {c}) = IF c \in T THEN Cardinality(T) - 1 ELSE Cardinality(T)
  BY FS_RemoveElement, FS_CardinalityType
<1>. QED  BY <1>1

LEMMA CardLess ==
  ASSUME NEW S, NEW T, IsFiniteSet(S), T \subseteq S
  PROVE  /\ Cardinality(S) \in Nat /\ Cardinality(T) \in Nat
         /\ Cardinality(T) <= Cardinality(S)
         /\ \A c \in S : c \notin T => Cardinality(T) <= Cardinality(S) - 1
<1>1. IsFiniteSet(T) /\ Cardinality(T) <= Cardinality(S)
  BY FS_Subset
<1>2. Cardinality(S) \in Nat /\ Cardinality(T) \in Nat
  BY <1>1, FS_CardinalityType
<1>3. ASSUME NEW c \in S, c \notin T
      PROVE  Cardinality(T) <= Cardinality(S) - 1
  <2>1. IsFiniteSet(S \ {c}) /\ Cardinality(S \ {c}) = Cardinality(S) - 1
    BY FS_RemoveElement
  <2>2. T \subseteq S \ {c}
    BY <1>3
  <2>. QED  BY <2>1, <2>2, FS_Subset
<1>. QED  BY <1>1, <1>2, <1>3

LEMMA Finite ==
  ASSUME ConsumerAssumption, NEW s \in Sids
  PROVE  /\ N \in Nat /\ N >= 1
         /\ IsFiniteSet(Inserted(s)) /\ IsFiniteSet(Spoiled(s)) /\ IsFiniteSet(Restoring(s))
         /\ inserted(s) \in Nat /\ spoiled(s) \in Nat /\ restoring(s) \in Nat
         /\ inserted(s) <= N
<1>1. IsFiniteSet(Consumers) /\ Consumers # {}
  BY DEF ConsumerAssumption
<1>2. /\ Inserted(s) \subseteq Consumers /\ Spoiled(s) \subseteq Consumers
      /\ Restoring(s) \subseteq Consumers
  BY DEF Inserted, Spoiled, Restoring, Watching
<1>3. N \in Nat /\ N >= 1
  BY <1>1, FS_EmptySet, FS_CardinalityType DEF N
<1>. QED
  BY <1>1, <1>2, <1>3, FS_Subset, FS_CardinalityType DEF inserted, spoiled, restoring, N

LEMMA FiniteNext ==
  ASSUME ConsumerAssumption, NEW s \in Sids
  PROVE  /\ IsFiniteSet(Inserted(s)') /\ IsFiniteSet(Spoiled(s)') /\ IsFiniteSet(Restoring(s)')
         /\ inserted(s)' \in Nat /\ spoiled(s)' \in Nat /\ restoring(s)' \in Nat
<1>1. IsFiniteSet(Consumers)
  BY DEF ConsumerAssumption
<1>2. /\ Inserted(s)' \subseteq Consumers /\ Spoiled(s)' \subseteq Consumers
      /\ Restoring(s)' \subseteq Consumers
  BY DEF Inserted, Spoiled, Restoring, Watching
<1>. QED
  BY <1>1, <1>2, FS_Subset, FS_CardinalityType DEF inserted, spoiled, restoring

(* A row more counts for its own article only.                             *)
LEMMA RowsType ==
  ASSUME TypeOK, NEW s \in Sids
  PROVE  /\ IsFiniteSet({i \in DOMAIN orders : orders[i].sid = s})
         /\ Rows(s) \in Nat
<1>1. IsFiniteSet(DOMAIN orders)
  BY FS_Interval DEF TypeOK
<1>. QED  BY <1>1, FS_Subset, FS_CardinalityType DEF Rows

LEMMA RowsTypeNext ==
  ASSUME TypeOK', NEW s \in Sids
  PROVE  Rows(s)' \in Nat
<1>1. IsFiniteSet(DOMAIN orders')
  BY FS_Interval DEF TypeOK
<1>. QED  BY <1>1, FS_Subset, FS_CardinalityType DEF Rows

LEMMA RowsAppend ==
  ASSUME TypeOK, NEW s \in Sids, NEW m \in Message, orders' = Append(orders, m)
  PROVE  Rows(s)' = IF m.sid = s THEN Rows(s) + 1 ELSE Rows(s)
<1> DEFINE S == {i \in DOMAIN orders : orders[i].sid = s}
           k == Len(orders) + 1
<1>1. orders \in Seq(Message) /\ Len(orders) \in Nat
  BY DEF TypeOK
<1>2. /\ DOMAIN orders = 1..Len(orders) /\ DOMAIN orders' = 1..k
      /\ \A i \in 1..Len(orders) : orders'[i] = orders[i]
      /\ orders'[k] = m
  BY <1>1
<1>3. {i \in DOMAIN orders' : orders'[i].sid = s} = IF m.sid = s THEN S \cup {k} ELSE S
  BY <1>1, <1>2
<1>4. k \notin S
  BY <1>1, <1>2
<1>5. IsFiniteSet(S)
  BY RowsType
<1>. QED  BY <1>3, <1>4, <1>5, FS_AddElement DEF Rows

-----------------------------------------------------------------------------
(* What one step may do to the figures of one article: the arithmetic of   *)
(* DriftInv.                                                               *)
Still(s) ==
  /\ Rows(s)' = Rows(s) /\ inserted(s)' = inserted(s) /\ spoiled(s)' <= spoiled(s)
  /\ restoring(s)' <= restoring(s) /\ taken(s)' = taken(s) /\ faults' >= faults

Inserts(s) ==
  /\ Rows(s)' = Rows(s) + 1 /\ inserted(s)' = inserted(s) + 1 /\ spoiled(s)' <= spoiled(s)
  /\ restoring(s)' = restoring(s) /\ taken(s)' = taken(s) /\ faults' = faults

Aborts(s) ==
  /\ Rows(s)' = Rows(s) /\ inserted(s)' = inserted(s) - 1 /\ spoiled(s)' <= spoiled(s) - 1
  /\ restoring(s)' = restoring(s) /\ taken(s)' = taken(s) /\ faults' = faults

Takes(s) ==
  /\ Rows(s)' = Rows(s) /\ inserted(s)' = inserted(s) - 1 /\ spoiled(s)' <= N - 1
  /\ taken(s)' = taken(s) + 1
  /\ \/ restoring(s)' = restoring(s) /\ faults' = faults
     \/ restoring(s)' = restoring(s) + 1 /\ faults' = faults + 1

Restores(s) ==
  /\ Rows(s)' = Rows(s) /\ inserted(s)' = inserted(s) /\ spoiled(s)' <= N - 1
  /\ restoring(s)' = restoring(s) - 1 /\ taken(s)' = taken(s) - 1 /\ faults' = faults

Fails(s) ==
  /\ Rows(s)' >= Rows(s) /\ inserted(s)' <= inserted(s)
  /\ Rows(s)' - inserted(s)' <= Rows(s) - inserted(s) + 1
  /\ spoiled(s)' <= spoiled(s) /\ restoring(s)' <= restoring(s) + 1
  /\ taken(s)' = taken(s) /\ faults' = faults + 1

Change(s) ==
  Still(s) \/ Inserts(s) \/ Aborts(s) \/ Takes(s) \/ Restores(s) \/ Fails(s)

LEMMA ChangeKeepsBacked ==
  ASSUME NEW s \in Sids, ConsumerAssumption, TypeOK, TypeOK', Backed(s), Change(s)
  PROVE  Backed(s)'
<1>1. /\ Rows(s) \in Nat /\ Rows(s)' \in Nat /\ inserted(s) \in Nat /\ inserted(s)' \in Nat
      /\ taken(s) \in Int /\ taken(s)' \in Int
  <2>1. Rows(s) \in Nat
    BY RowsType
  <2>2. Rows(s)' \in Nat
    BY RowsTypeNext
  <2>3. taken(s) \in Int /\ taken(s)' \in Int
    BY DEF taken, TypeOK, ConsumerAssumption
  <2>. QED  BY <2>1, <2>2, <2>3, Finite, FiniteNext
<1>2. \/ Rows(s)' - inserted(s)' >= Rows(s) - inserted(s) /\ taken(s)' <= taken(s)
      \/ Rows(s)' = Rows(s) /\ inserted(s)' = inserted(s) - 1 /\ taken(s)' = taken(s) + 1
  BY <1>1 DEF Change, Still, Inserts, Aborts, Takes, Restores, Fails
<1>. QED  BY <1>1, <1>2 DEF Backed

(* The products of Bounded, for the solver.                                *)
LEMMA Multiply ==
  ASSUME NEW a \in Int, NEW b \in Int
  PROVE  a * b \in Int /\ a * (b + 1) = a * b + a /\ a * (b - 1) = a * b - a
  OBVIOUS

LEMMA MultiplyMonotone ==
  ASSUME NEW a \in Nat, NEW b \in Int, NEW c \in Int, b <= c
  PROVE  a * b <= a * c
  OBVIOUS

LEMMA ChangeKeepsBounded ==
  ASSUME NEW s \in Sids, ConsumerAssumption, TypeOK, TypeOK', N >= 1, Bounded(s), Change(s)
  PROVE  Bounded(s)'
<1>1. /\ N \in Nat /\ N' = N
      /\ inserted(s) \in Nat /\ spoiled(s) \in Nat /\ restoring(s) \in Nat
      /\ inserted(s)' \in Nat /\ spoiled(s)' \in Nat /\ restoring(s)' \in Nat
  BY Finite, FiniteNext DEF N
<1>2. /\ Rows(s) \in Nat /\ Rows(s)' \in Nat
      /\ taken(s) \in Int /\ taken(s)' \in Int /\ faults \in Nat /\ faults' \in Nat
  <2>1. Rows(s) \in Nat /\ Rows(s)' \in Nat
    BY RowsType, RowsTypeNext
  <2>2. taken(s) \in Int /\ taken(s)' \in Int /\ faults \in Nat /\ faults' \in Nat
    BY DEF taken, TypeOK, ConsumerAssumption
  <2>. QED  BY <2>1, <2>2
<1>3. PICK n \in Nat, r \in Nat, i \in Nat, d \in Nat, w \in Nat, t \in Int, f \in Nat :
        /\ n = N /\ r = Rows(s) /\ i = inserted(s) /\ d = spoiled(s) /\ w = restoring(s)
        /\ t = taken(s) /\ f = faults
  BY <1>1, <1>2
<1>4. PICK rr \in Nat, ii \in Nat, dd \in Nat, ww \in Nat, tt \in Int, ff \in Nat :
        /\ rr = Rows(s)' /\ ii = inserted(s)' /\ dd = spoiled(s)' /\ ww = restoring(s)'
        /\ tt = taken(s)' /\ ff = faults'
  BY <1>1, <1>2
<1>5. r + d + (2 * n - 1) * w <= i + n * t + 2 * (n * f) /\ n >= 1
  BY <1>3 DEF Bounded
<1>6. /\ n * t \in Int /\ n * tt \in Int /\ n * f \in Int /\ n * ff \in Int
      /\ (2 * n - 1) * w \in Int /\ (2 * n - 1) * ww \in Int /\ 2 * n - 1 \in Nat
  BY <1>5
<1>7. rr + dd + (2 * n - 1) * ww <= ii + n * tt + 2 * (n * ff)
  <2>1. CASE rr = r /\ ii = i /\ dd <= d /\ ww <= w /\ tt = t /\ ff >= f
    <3>1. (2 * n - 1) * ww <= (2 * n - 1) * w /\ n * f <= n * ff
      BY <1>6, <2>1, MultiplyMonotone
    <3>. QED  BY <1>5, <1>6, <2>1, <3>1
  <2>2. CASE rr = r + 1 /\ ii = i + 1 /\ dd <= d /\ ww = w /\ tt = t /\ ff = f
    BY <1>5, <1>6, <2>2
  <2>3. CASE rr = r /\ ii = i - 1 /\ dd <= d - 1 /\ ww = w /\ tt = t /\ ff = f
    BY <1>5, <1>6, <2>3
  <2>4. CASE rr = r /\ ii = i - 1 /\ dd <= n - 1 /\ tt = t + 1 /\ ww = w /\ ff = f
    <3>1. n * tt = n * t + n
      BY <2>4, Multiply
    <3>. QED  BY <1>5, <1>6, <2>4, <3>1
  <2>5. CASE rr = r /\ ii = i - 1 /\ dd <= n - 1 /\ tt = t + 1 /\ ww = w + 1 /\ ff = f + 1
    <3>1. n * tt = n * t + n /\ n * ff = n * f + n
      BY <2>5, Multiply
    <3>2. (2 * n - 1) * ww = (2 * n - 1) * w + (2 * n - 1)
      BY <1>6, <2>5, Multiply
    <3>. QED  BY <1>5, <1>6, <2>5, <3>1, <3>2
  <2>6. CASE rr = r /\ ii = i /\ dd <= n - 1 /\ ww = w - 1 /\ tt = t - 1 /\ ff = f
    <3>1. n * tt = n * t - n /\ (2 * n - 1) * ww = (2 * n - 1) * w - (2 * n - 1)
      BY <1>6, <2>6, Multiply
    <3>. QED  BY <1>5, <1>6, <2>6, <3>1
  <2>7. CASE rr - ii <= r - i + 1 /\ dd <= d /\ ww <= w + 1 /\ tt = t /\ ff = f + 1
    <3>1. n * ff = n * f + n /\ (2 * n - 1) * (w + 1) = (2 * n - 1) * w + (2 * n - 1)
      BY <1>6, <2>7, Multiply
    <3>2. (2 * n - 1) * ww <= (2 * n - 1) * (w + 1)
      BY <1>6, <2>7, MultiplyMonotone
    <3>. QED  BY <1>5, <1>6, <2>7, <3>1, <3>2
  <2>. QED
    BY <1>3, <1>4, <2>1, <2>2, <2>3, <2>4, <2>5, <2>6, <2>7
       DEF Change, Still, Inserts, Aborts, Takes, Restores, Fails
<1>. QED  BY <1>1, <1>3, <1>4, <1>7 DEF Bounded

-----------------------------------------------------------------------------
(* Thread c is none of those that count for article s.                     *)
Absent(c, s) == c \notin Inserted(s) /\ c \notin Watching(s) /\ c \notin Restoring(s)

OthersStay(c) ==
  /\ topic' = topic
  /\ \A d \in Consumers \ {c} : pc'[d] = pc[d] /\ job'[d] = job[d] /\ seen'[d] = seen[d]

(* A step of c moves no other thread in or out of a set.                   *)
LEMMA OthersCount ==
  ASSUME NEW c \in Consumers, NEW s \in Sids, OthersStay(c)
  PROVE  /\ Inserted(s)' \ {c} = Inserted(s) \ {c}
         /\ Watching(s)' \ {c} = Watching(s) \ {c}
         /\ Restoring(s)' \ {c} = Restoring(s) \ {c}
<1>1. \A d \in Consumers \ {c} : Sid(d)' = Sid(d)
  BY DEF OthersStay, Sid, Record
<1>. QED  BY <1>1 DEF OthersStay, Inserted, Watching, Restoring

(* The step of c moves the stock of another article, or none, and c counts *)
(* for s neither before nor after it.                                      *)
LEMMA Elsewhere ==
  ASSUME ConsumerAssumption, WatchInv, NEW c \in Consumers, NEW s \in Sids, OthersStay(c),
         Absent(c, s), Absent(c, s)', (dirty' \cap Watching(s)) \ {c} \subseteq dirty,
         stockCount'[s] = stockCount[s], Rows(s)' = Rows(s), faults' >= faults
  PROVE  Still(s)
<1>1. /\ Inserted(s)' = Inserted(s) /\ Restoring(s)' = Restoring(s)
      /\ Watching(s)' = Watching(s)
  <2>1. \A S, T : S \ {c} = T \ {c} /\ c \notin S /\ c \notin T => S = T
    OBVIOUS
  <2>2. /\ c \notin Inserted(s) /\ c \notin Watching(s) /\ c \notin Restoring(s)
        /\ c \notin Inserted(s)' /\ c \notin Watching(s)' /\ c \notin Restoring(s)'
    BY DEF Absent
  <2>. QED  BY <2>1, <2>2, OthersCount
<1>2. Spoiled(s)' \subseteq Spoiled(s)
  BY <1>1 DEF Spoiled, Absent
<1>3. spoiled(s)' <= spoiled(s) /\ restoring(s)' = restoring(s) /\ restoring(s) \in Nat
  BY <1>1, <1>2, Finite, CardLess DEF spoiled, restoring
<1>. QED  BY <1>1, <1>3 DEF Still, inserted, taken

(* The step of c is about its own article s: how each set changes follows  *)
(* from where c stood and where it goes.                                   *)
LEMMA Here ==
  ASSUME ConsumerAssumption, NEW c \in Consumers, NEW s \in Sids, OthersStay(c)
  PROVE  /\ (c \in Inserted(s) <=> c \in Inserted(s)') => inserted(s)' = inserted(s)
         /\ c \in Inserted(s) /\ c \notin Inserted(s)' => inserted(s)' = inserted(s) - 1
         /\ c \notin Inserted(s) /\ c \in Inserted(s)' => inserted(s)' = inserted(s) + 1
         /\ (c \in Restoring(s) <=> c \in Restoring(s)') => restoring(s)' = restoring(s)
         /\ c \in Restoring(s) /\ c \notin Restoring(s)' => restoring(s)' = restoring(s) - 1
         /\ c \notin Restoring(s) /\ c \in Restoring(s)' => restoring(s)' = restoring(s) + 1
         /\ Spoiled(s)' \subseteq Spoiled(s) => spoiled(s)' <= spoiled(s)
         /\ Spoiled(s)' \subseteq Spoiled(s) \ {c} /\ c \in Spoiled(s)
              => spoiled(s)' <= spoiled(s) - 1
         /\ c \notin Spoiled(s)' => spoiled(s)' <= N - 1
<1>1. /\ Inserted(s)' \ {c} = Inserted(s) \ {c}
      /\ Restoring(s)' \ {c} = Restoring(s) \ {c}
  BY OthersCount
<1>2. /\ IsFiniteSet(Inserted(s)) /\ IsFiniteSet(Inserted(s)')
      /\ IsFiniteSet(Restoring(s)) /\ IsFiniteSet(Restoring(s)')
      /\ IsFiniteSet(Spoiled(s)) /\ IsFiniteSet(Consumers)
  BY Finite, FiniteNext DEF ConsumerAssumption
<1>3. /\ (c \in Inserted(s) <=> c \in Inserted(s)') => inserted(s)' = inserted(s)
      /\ c \in Inserted(s) /\ c \notin Inserted(s)' => inserted(s)' = inserted(s) - 1
      /\ c \notin Inserted(s) /\ c \in Inserted(s)' => inserted(s)' = inserted(s) + 1
  BY <1>1, <1>2, CardDiffer DEF inserted
<1>4. /\ (c \in Restoring(s) <=> c \in Restoring(s)') => restoring(s)' = restoring(s)
      /\ c \in Restoring(s) /\ c \notin Restoring(s)' => restoring(s)' = restoring(s) - 1
      /\ c \notin Restoring(s) /\ c \in Restoring(s)' => restoring(s)' = restoring(s) + 1
  BY <1>1, <1>2, CardDiffer DEF restoring
<1>5. /\ Spoiled(s)' \subseteq Spoiled(s) => spoiled(s)' <= spoiled(s)
      /\ Spoiled(s)' \subseteq Spoiled(s) \ {c} /\ c \in Spoiled(s)
           => spoiled(s)' <= spoiled(s) - 1
  BY <1>2, CardLess DEF spoiled
<1>6. c \notin Spoiled(s)' => spoiled(s)' <= N - 1
  <2>1. Spoiled(s)' \subseteq Consumers
    BY DEF Spoiled, Watching
  <2>. QED  BY <1>2, <2>1, CardLess DEF spoiled, N
<1>. QED  BY <1>3, <1>4, <1>5, <1>6

-----------------------------------------------------------------------------
(* One action after the other.                                             *)
LEMMA NotHere ==
  ASSUME NEW c \in Consumers, NEW s \in Sids, topic' = topic, Sid(c) # s,
         job'[c] = job[c] \/ pc'[c] \in {"idle", "watch"}
  PROVE  Absent(c, s) /\ Absent(c, s)'
<1>1. job'[c] = job[c] => Sid(c)' = Sid(c)
  BY DEF Sid, Record
<1>. QED  BY <1>1 DEF Absent, Inserted, Watching, Restoring

(* A failed call or a crash costs at most what Fails says.                 *)
LEMMA FailsAnywhere ==
  ASSUME ConsumerAssumption, TypeOK, TypeOK', NEW c \in Consumers, NEW s \in Sids, OthersStay(c),
         pc'[c] \in {"idle", "watch", "restore"}, dirty' \subseteq dirty,
         stockCount' = stockCount, faults' = faults + 1,
         \/ Rows(s)' = Rows(s)
         \/ Rows(s)' = Rows(s) + 1 /\ pc[c] # "exec"
  PROVE  Fails(s)
<1>1. c \notin Inserted(s)' /\ c \notin Watching(s)'
  BY DEF Inserted, Watching
<1>2. Spoiled(s)' \subseteq Spoiled(s)
  BY <1>1, OthersCount DEF Spoiled
<1>3. spoiled(s)' <= spoiled(s)
  BY <1>2, Here
<1>4. restoring(s)' <= restoring(s) + 1
  BY Here, Finite, FiniteNext
<1>5. inserted(s)' = inserted(s) \/ (pc[c] = "exec" /\ inserted(s)' = inserted(s) - 1)
  BY <1>1, Here DEF Inserted
<1>6. taken(s)' = taken(s)
  BY DEF taken
<1>7. Rows(s) \in Nat /\ inserted(s) \in Nat /\ inserted(s)' \in Nat
  BY RowsType, Finite, FiniteNext
<1>. QED  BY <1>3, <1>4, <1>5, <1>6, <1>7 DEF Fails

LEMMA StepOthers ==
  ASSUME TypeOK, NEW c \in Consumers,
         \/ Watch(c) \/ ReadCount(c) \/ InsertOrder(c) \/ Exec(c) \/ Restore(c)
         \/ Crash(c) \/ RedisFails(c) \/ InsertFails(c) \/ ExecFails(c) \/ RestoreFails(c)
  PROVE  OthersStay(c)
<1>1. CASE Watch(c) \/ ReadCount(c) \/ InsertOrder(c)
  BY <1>1 DEF Watch, ReadCount, InsertOrder, GoTo, OthersStay, TypeOK
<1>2. CASE Exec(c) \/ Restore(c) \/ RestoreFails(c)
  BY <1>2, ReturnOthers DEF Exec, Restore, RestoreFails, OthersStay
<1>3. CASE RedisFails(c) \/ InsertFails(c) \/ ExecFails(c)
  BY <1>3, ThrowOthers DEF RedisFails, InsertFails, ExecFails, OthersStay
<1>4. CASE Crash(c)
  BY <1>4 DEF Crash, OthersStay, TypeOK
<1>. QED  BY <1>1, <1>2, <1>3, <1>4

LEMMA SameRows ==
  ASSUME NEW s \in Sids, orders' = orders
  PROVE  Rows(s)' = Rows(s)
  BY DEF Rows

(* EXEC runs the transaction: a unit of the article is taken.              *)
LEMMA ExecChange ==
  ASSUME ConsumerAssumption, WatchInv, NEW c \in Consumers, NEW s \in Sids, OthersStay(c),
         pc[c] = "exec", HasStock(seen[c]), MoveStock(c, Sid(c), 1), orders' = orders,
         \/ pc'[c] \in {"idle", "watch"} /\ faults' = faults
         \/ pc'[c] = "restore" /\ job'[c] = job[c] /\ faults' = faults + 1
  PROVE  Takes(s) \/ Still(s)
<1>1. Sid(c) \in Sids /\ TypeOK /\ faults \in Nat
  BY BusyRecord DEF WatchInv, TypeOK
<1>2. CASE s = Sid(c)
  <2>1. c \in Inserted(s) /\ c \notin Inserted(s)' /\ c \notin Spoiled(s)' /\ c \notin Restoring(s)
    BY <1>2 DEF Inserted, Spoiled, Restoring, MoveStock
  <2>2. taken(s)' = taken(s) + 1
    BY <1>1, <1>2 DEF taken, MoveStock, TypeOK, ConsumerAssumption
  <2>3. (pc'[c] = "restore" /\ job'[c] = job[c] => c \in Restoring(s)')
        /\ (pc'[c] # "restore" => c \notin Restoring(s)')
    BY <1>2 DEF Restoring, Sid, Record, OthersStay
  <2>4. restoring(s)' = IF pc'[c] = "restore" THEN restoring(s) + 1 ELSE restoring(s)
    BY <2>1, <2>3, Here
  <2>5. inserted(s)' = inserted(s) - 1 /\ spoiled(s)' <= N - 1
    BY <2>1, Here
  <2>. QED  BY <2>2, <2>4, <2>5, SameRows DEF Takes
<1>3. CASE s # Sid(c)
  <2>1. Absent(c, s) /\ Absent(c, s)'
    BY <1>3, NotHere DEF OthersStay
  <2>2. stockCount'[s] = stockCount[s] /\ (dirty' \cap Watching(s)) \ {c} \subseteq dirty
    BY <1>1, <1>3 DEF MoveStock, Watching, TypeOK
  <2>. QED  BY <1>1, <2>1, <2>2, Elsewhere, SameRows
<1>. QED  BY <1>2, <1>3

(* EXEC is given up, or has nothing to do.                                 *)
LEMMA AbortChange ==
  ASSUME ConsumerAssumption, TypeOK, NEW c \in Consumers, NEW s \in Sids, Exec(c), ~ExecApplies(c)
  PROVE  Aborts(s) \/ Still(s)
<1>1. /\ dirty' = dirty \ {c} /\ stockCount' = stockCount /\ orders' = orders /\ faults' = faults
      /\ pc[c] = "exec" /\ pc'[c] \in {"idle", "watch"} /\ OthersStay(c) /\ faults \in Nat
  BY StepOthers, ReturnOthers DEF Exec, ExecEffect, redis, TypeOK
<1>2. /\ c \notin Inserted(s)' /\ c \notin Watching(s)'
      /\ c \notin Restoring(s) /\ c \notin Restoring(s)'
  BY <1>1 DEF Inserted, Watching, Restoring
<1>3. restoring(s)' = restoring(s) /\ taken(s)' = taken(s) /\ Rows(s)' = Rows(s)
  BY <1>1, <1>2, Here, SameRows DEF taken
<1>4. Spoiled(s)' \subseteq Spoiled(s) \ {c}
  BY <1>1, <1>2, OthersCount DEF Spoiled
<1>5. CASE c \in Inserted(s)
  <2>1. c \in Spoiled(s)
    BY <1>1, <1>5 DEF Spoiled, Watching, Inserted, ExecApplies
  <2>2. inserted(s)' = inserted(s) - 1 /\ spoiled(s)' <= spoiled(s) - 1
    BY <1>1, <1>2, <1>4, <1>5, <2>1, Here
  <2>. QED  BY <1>1, <1>3, <2>2 DEF Aborts
<1>6. CASE c \notin Inserted(s)
  <2>1. inserted(s)' = inserted(s) /\ spoiled(s)' <= spoiled(s) /\ restoring(s) \in Nat
    BY <1>1, <1>2, <1>4, <1>6, Here, Finite
  <2>. QED  BY <1>1, <1>3, <2>1 DEF Still
<1>. QED  BY <1>5, <1>6

(* The catch block gives a unit back.                                      *)
LEMMA RestoreChange ==
  ASSUME ConsumerAssumption, WatchInv, NEW c \in Consumers, NEW s \in Sids, Restore(c)
  PROVE  Restores(s) \/ Still(s)
<1>1. /\ TypeOK /\ pc[c] = "restore" /\ MoveStock(c, Sid(c), -1) /\ orders' = orders /\ faults' = faults
      /\ Return(c) /\ topic' = topic
  BY DEF Restore, WatchInv
<1>2. /\ Sid(c) \in Sids /\ faults \in Nat /\ pc'[c] \in {"idle", "watch"} /\ OthersStay(c)
  <2>1. Sid(c) \in Sids
    BY <1>1, BusyRecord
  <2>2. pc'[c] \in {"idle", "watch"} /\ OthersStay(c)
    BY <1>1, ReturnOthers DEF OthersStay
  <2>. QED  BY <1>1, <2>1, <2>2 DEF TypeOK
<1>3. CASE s = Sid(c)
  <2>1. /\ c \notin Inserted(s) /\ c \notin Inserted(s)' /\ c \notin Spoiled(s)'
        /\ c \in Restoring(s) /\ c \notin Restoring(s)'
    BY <1>1, <1>2, <1>3 DEF Inserted, Spoiled, Restoring, MoveStock
  <2>2. taken(s)' = taken(s) - 1
    BY <1>1, <1>2, <1>3 DEF taken, MoveStock, TypeOK, ConsumerAssumption
  <2>3. inserted(s)' = inserted(s) /\ spoiled(s)' <= N - 1 /\ restoring(s)' = restoring(s) - 1
    BY <1>2, <2>1, Here
  <2>. QED  BY <1>1, <2>2, <2>3, SameRows DEF Restores
<1>4. CASE s # Sid(c)
  <2>1. Absent(c, s) /\ Absent(c, s)'
    BY <1>1, <1>2, <1>4, NotHere
  <2>2. stockCount'[s] = stockCount[s] /\ (dirty' \cap Watching(s)) \ {c} \subseteq dirty
    BY <1>1, <1>2, <1>4 DEF MoveStock, Watching, TypeOK
  <2>. QED  BY <1>1, <1>2, <2>1, <2>2, Elsewhere, SameRows
<1>. QED  BY <1>3, <1>4

(* WATCH, the read of the count, the insert.                               *)
LEMMA BeforeExecChange ==
  ASSUME ConsumerAssumption, WatchInv, NEW c \in Consumers, NEW s \in Sids,
         Watch(c) \/ ReadCount(c) \/ InsertOrder(c)
  PROVE  Inserts(s) \/ Still(s)
<1>1. /\ TypeOK /\ OthersStay(c) /\ stockCount' = stockCount /\ faults' = faults /\ job' = job
      /\ faults \in Nat /\ pc[c] \in {"watch", "get", "insert"}
      /\ pc'[c] \in {"get", "insert", "exec"} /\ dirty' \subseteq dirty
      /\ c \notin dirty' \/ (pc[c] # "watch" /\ dirty' = dirty)
  BY StepOthers DEF Watch, ReadCount, InsertOrder, redis, WatchInv, TypeOK, GoTo
<1>2. /\ c \notin Inserted(s) /\ c \notin Restoring(s) /\ c \notin Restoring(s)'
  BY <1>1 DEF Inserted, Restoring
<1>3. Sid(c)' = Sid(c)
  BY <1>1 DEF Sid, Record, OthersStay
<1>4. Spoiled(s)' \subseteq Spoiled(s)
  BY <1>1, <1>3, OthersCount DEF Spoiled, Watching
<1>5. /\ spoiled(s)' <= spoiled(s) /\ restoring(s)' = restoring(s) /\ taken(s)' = taken(s)
      /\ restoring(s) \in Nat
  BY <1>1, <1>2, <1>4, Here, Finite DEF taken
<1>6. CASE InsertOrder(c) /\ Sid(c) = s
  <2>1. c \in Inserted(s)'
    BY <1>1, <1>3, <1>6 DEF InsertOrder, GoTo, Inserted, WatchInv, TypeOK
  <2>2. inserted(s)' = inserted(s) + 1
    BY <1>1, <1>2, <2>1, Here
  <2>3. Record(c) \in Message /\ Record(c).sid = s /\ orders' = Append(orders, Record(c))
    BY <1>1, <1>6, BusyRecord DEF InsertOrder, Sid
  <2>4. Rows(s)' = Rows(s) + 1
    BY <1>1, <2>3, RowsAppend
  <2>. QED  BY <1>1, <1>5, <2>2, <2>4 DEF Inserts
<1>7. CASE ~(InsertOrder(c) /\ Sid(c) = s)
  <2>1. c \notin Inserted(s)'
    BY <1>1, <1>3, <1>7 DEF Watch, ReadCount, GoTo, Inserted, WatchInv, TypeOK
  <2>2. inserted(s)' = inserted(s)
    BY <1>1, <1>2, <2>1, Here
  <2>3. Rows(s)' = Rows(s)
    <3>1. CASE InsertOrder(c)
      <4>1. Record(c) \in Message /\ Record(c).sid # s /\ orders' = Append(orders, Record(c))
        BY <1>1, <1>7, <3>1, BusyRecord DEF InsertOrder, Sid
      <4>. QED  BY <1>1, <4>1, RowsAppend
    <3>2. CASE ~InsertOrder(c)
      BY <3>2, SameRows DEF Watch, ReadCount
    <3>. QED  BY <3>1, <3>2
  <2>. QED  BY <1>1, <1>5, <2>2, <2>3 DEF Still
<1>. QED  BY <1>6, <1>7

(* Steps of the broker and of poll().                                      *)
LEMMA DeliveryChange ==
  ASSUME ConsumerAssumption, TypeOK, NEW s \in Sids,
         \/ \E p \in Partitions, m \in Message : Publish(p, m)
         \/ \E c \in Consumers, p \in Partitions, n \in 1..MaxBatch : Poll(c, p, n)
         \/ \E p \in Partitions : Commit(p)
         \/ \E p \in Partitions, c \in Consumers : Rebalance(p, c)
         \/ UNCHANGED vars
  PROVE  Still(s)
<1>1. /\ stockCount' = stockCount /\ dirty' = dirty /\ orders' = orders /\ faults' = faults
      /\ seen' = seen /\ faults \in Nat
  BY DEF Publish, Poll, Commit, Rebalance, vars, redis, thread, TypeOK
<1>2. Inserted(s)' = Inserted(s) /\ Watching(s)' = Watching(s) /\ Restoring(s)' = Restoring(s)
  <2>1. CASE \E p \in Partitions, m \in Message : Publish(p, m)
    <3>1. pc' = pc /\ \A c \in Consumers : pc[c] # "idle" => Sid(c)' = Sid(c)
      BY <2>1, PublishKeepsSid DEF Publish, thread
    <3>. QED  BY <1>1, <3>1 DEF Inserted, Watching, Restoring
  <2>2. CASE \E c \in Consumers, p \in Partitions, n \in 1..MaxBatch : Poll(c, p, n)
    <3>1. PICK c \in Consumers : \E p \in Partitions, n \in 1..MaxBatch : Poll(c, p, n)
      BY <2>2
    <3>2. OthersStay(c) /\ pc[c] = "idle" /\ pc'[c] = "watch"
      BY <3>1 DEF Poll, GoTo, OthersStay, TypeOK
    <3>. QED  BY <3>2, OthersCount DEF Inserted, Watching, Restoring
  <2>3. CASE UNCHANGED <<pc, job, topic>>
    BY <1>1, <2>3 DEF Inserted, Watching, Restoring, Sid, Record
  <2>. QED  BY <2>1, <2>2, <2>3 DEF Commit, Rebalance, vars, thread
<1>3. spoiled(s)' = spoiled(s) /\ spoiled(s) \in Nat /\ restoring(s) \in Nat
  BY <1>1, <1>2, Finite DEF spoiled, Spoiled
<1>. QED  BY <1>1, <1>2, <1>3, SameRows DEF Still, inserted, restoring, taken

LEMMA FailureChange ==
  ASSUME ConsumerAssumption, WatchInv, TypeOK', NEW c \in Consumers, NEW s \in Sids,
         Crash(c) \/ RedisFails(c) \/ InsertFails(c) \/ ExecFails(c) \/ RestoreFails(c)
  PROVE  Fails(s) \/ Takes(s) \/ Still(s)
<1>1. TypeOK /\ OthersStay(c) /\ faults' = faults + 1 /\ faults \in Nat
  BY StepOthers DEF Crash, RedisFails, InsertFails, ExecFails, RestoreFails, Fault, WatchInv, TypeOK
<1>2. CASE Crash(c)
  BY <1>1, <1>2, FailsAnywhere, SameRows DEF Crash, redis, TypeOK
<1>3. CASE RestoreFails(c)
  BY <1>1, <1>3, ReturnOthers, FailsAnywhere, SameRows DEF RestoreFails, redis
<1>4. CASE RedisFails(c)
  BY <1>1, <1>4, ThrowOthers, FailsAnywhere, SameRows DEF RedisFails, redis
<1>5. CASE InsertFails(c)
  <2>1. Record(c) \in Message
    BY <1>1, <1>5, BusyRecord DEF InsertFails
  <2>2. Rows(s)' = Rows(s) \/ Rows(s)' = Rows(s) + 1
    BY <1>1, <1>5, <2>1, RowsAppend, SameRows DEF InsertFails
  <2>. QED  BY <1>1, <1>5, <2>2, ThrowOthers, FailsAnywhere DEF InsertFails, redis
<1>6. CASE ExecFails(c)
  <2>1. PICK b \in {FALSE, ExecApplies(c)} : ExecEffect(c, b)
    BY <1>6 DEF ExecFails
  <2>2. pc[c] = "exec" /\ pc'[c] = "restore" /\ job'[c] = job[c] /\ orders' = orders
    BY <1>1, <1>6, ThrowOthers DEF ExecFails, Throw
  <2>3. CASE b
    BY <1>1, <2>1, <2>2, <2>3, ExecChange DEF ExecEffect, ExecApplies
  <2>4. CASE ~b
    BY <1>1, <2>1, <2>2, <2>4, FailsAnywhere, SameRows DEF ExecEffect, redis
  <2>. QED  BY <2>3, <2>4
<1>. QED  BY <1>2, <1>3, <1>4, <1>5, <1>6

-----------------------------------------------------------------------------
LEMMA DriftStep ==
  ASSUME ConsumerAssumption, DriftInv, [Next]_vars
  PROVE  DriftInv'
<1>1. WatchInv /\ WatchInv' /\ TypeOK /\ TypeOK'
  BY WatchStep DEF DriftInv, WatchInv
<1>2. ASSUME NEW s \in Sids
      PROVE  Backed(s)' /\ Bounded(s)'
  <2>1. Change(s)
    <3>1. CASE \/ \E p \in Partitions, m \in Message : Publish(p, m)
               \/ \E c \in Consumers, p \in Partitions, n \in 1..MaxBatch : Poll(c, p, n)
               \/ \E p \in Partitions : Commit(p)
               \/ \E p \in Partitions, c \in Consumers : Rebalance(p, c)
               \/ UNCHANGED vars
      BY <1>1, <3>1, DeliveryChange DEF Change
    <3>2. ASSUME NEW c \in Consumers, Watch(c) \/ ReadCount(c) \/ InsertOrder(c)
          PROVE  Change(s)
      BY <1>1, <3>2, BeforeExecChange DEF Change
    <3>3. ASSUME NEW c \in Consumers, Exec(c)
          PROVE  Change(s)
      <4>1. CASE ~ExecApplies(c)
        BY <1>1, <3>3, <4>1, AbortChange DEF Change
      <4>2. CASE ExecApplies(c)
        <5>1. /\ pc[c] = "exec" /\ pc'[c] \in {"idle", "watch"} /\ OthersStay(c) /\ faults' = faults
              /\ orders' = orders
          BY <1>1, <3>3, StepOthers, ReturnOthers DEF Exec
        <5>2. MoveStock(c, Sid(c), 1) /\ HasStock(seen[c])
          BY <3>3, <4>2 DEF Exec, ExecEffect, ExecApplies
        <5>. QED  BY <1>1, <5>1, <5>2, ExecChange DEF Change
      <4>. QED  BY <4>1, <4>2
    <3>4. ASSUME NEW c \in Consumers, Restore(c)
          PROVE  Change(s)
      BY <1>1, <3>4, RestoreChange DEF Change
    <3>5. ASSUME NEW c \in Consumers,
                 Crash(c) \/ RedisFails(c) \/ InsertFails(c) \/ ExecFails(c) \/ RestoreFails(c)
          PROVE  Change(s)
      BY <1>1, <3>5, FailureChange DEF Change
    <3>. QED  BY <3>1, <3>2, <3>3, <3>4, <3>5, StepCases
  <2>2. Backed(s)'
    BY <1>1, <2>1, ChangeKeepsBacked DEF DriftInv
  <2>3. Bounded(s)'
    BY <1>1, <2>1, Finite, ChangeKeepsBounded DEF DriftInv
  <2>. QED  BY <2>2, <2>3
<1>. QED  BY <1>1, <1>2 DEF DriftInv

LEMMA DriftInit ==
  ASSUME ConsumerAssumption, Init
  PROVE  DriftInv
<1>1. WatchInv /\ TypeOK
  BY WatchInit DEF WatchInv
<1>2. ASSUME NEW s \in Sids
      PROVE  Backed(s) /\ Bounded(s)
  <2>1. Inserted(s) = {} /\ Spoiled(s) = {} /\ Restoring(s) = {}
    BY DEF Init, Inserted, Spoiled, Restoring, Watching
  <2>2. inserted(s) = 0 /\ spoiled(s) = 0 /\ restoring(s) = 0
    BY <2>1, FS_EmptySet DEF inserted, spoiled, restoring
  <2>3. {i \in DOMAIN orders : orders[i].sid = s} = {}
    BY DEF Init
  <2>4. Rows(s) = 0
    BY <2>3, FS_EmptySet DEF Rows
  <2>5. taken(s) = 0 /\ faults = 0 /\ N \in Nat
    BY Finite DEF taken, Init, ConsumerAssumption
  <2>. QED  BY <2>2, <2>4, <2>5 DEF Backed, Bounded
<1>. QED  BY <1>1, <1>2 DEF DriftInv

(* DeductionsBacked: every unit that left the stock has its row.           *)
THEOREM NoUnitLost == Spec => []DeductionsBacked
<1>1. Init => DriftInv
  BY DriftInit, ConsumerAssumption
<1>2. DriftInv /\ [Next]_vars => DriftInv'
  BY DriftStep, ConsumerAssumption
<1>3. DriftInv => DeductionsBacked
  <2>1. ASSUME DriftInv, NEW s \in Sids
        PROVE  InitialCount[s] - stockCount[s] <= Rows(s)
    <3>1. Backed(s) /\ TypeOK
      BY <2>1 DEF DriftInv, WatchInv
    <3>2. Rows(s) \in Nat /\ inserted(s) \in Nat
      BY <3>1, RowsType, Finite, ConsumerAssumption
    <3>3. taken(s) \in Int
      BY <3>1, ConsumerAssumption DEF taken, TypeOK, ConsumerAssumption
    <3>. QED  BY <3>1, <3>2, <3>3 DEF Backed, taken
  <2>. QED  BY <2>1 DEF DeductionsBacked
<1>. QED  BY <1>1, <1>2, <1>3, PTL DEF Spec

(* A thread that has inserted and is not spoiled still sees its unit in    *)
(* stock, so the last N rows are paid for by that unit.                    *)
LEMMA DriftBound ==
  ASSUME DriftInv, NEW s \in Sids
  PROVE  Rows(s) <= N * (InitialCount[s] + 2 * faults)
<1>1. Bounded(s) /\ TypeOK /\ WatchInv
  BY DEF DriftInv, WatchInv
<1>2. /\ Rows(s) \in Nat /\ N \in Nat /\ inserted(s) \in Nat /\ spoiled(s) \in Nat
      /\ restoring(s) \in Nat /\ inserted(s) <= N
  BY <1>1, RowsType, Finite, ConsumerAssumption
<1>3. stockCount[s] \in Nat /\ InitialCount[s] \in Nat /\ faults \in Nat
  BY <1>1, ConsumerAssumption DEF WatchInv, CountNonNegative, TypeOK, ConsumerAssumption
<1>4. stockCount[s] = 0 => inserted(s) <= spoiled(s)
  <2>1. stockCount[s] = 0 => Inserted(s) \subseteq Spoiled(s)
    BY <1>1 DEF WatchInv, Fresh, Inserted, Spoiled, Watching, HasStock
  <2>. QED  BY <2>1, CardLess, Finite, ConsumerAssumption DEF inserted, spoiled
<1>5. PICK n \in Nat, r \in Nat, i \in Nat, d \in Nat, w \in Nat, k \in Nat, a \in Nat, f \in Nat :
        /\ n = N /\ r = Rows(s) /\ i = inserted(s) /\ d = spoiled(s) /\ w = restoring(s)
        /\ k = stockCount[s] /\ a = InitialCount[s] /\ f = faults
  BY <1>2, <1>3
<1>6. /\ r + d + (2 * n - 1) * w <= i + n * (a - k) + 2 * (n * f)
      /\ i <= n /\ (k = 0 => i <= d)
  BY <1>1, <1>2, <1>4, <1>5 DEF Bounded, taken
<1>7. (2 * n - 1) * w >= 0
  <2>1. n >= 1
    BY <1>5, Finite, ConsumerAssumption
  <2>. QED  BY <2>1
<1>8. n * (a - k) = n * a - n * k /\ n * (a + 2 * f) = n * a + 2 * (n * f)
      /\ n * a \in Nat /\ n * k \in Nat /\ n * f \in Nat
  OBVIOUS
<1>9. k >= 1 => n * k >= n
  OBVIOUS
<1>10. r <= n * a + 2 * (n * f)
  <2>1. (2 * n - 1) * w \in Int
    OBVIOUS
  <2>. QED  BY <1>6, <1>7, <1>8, <1>9, <2>1
<1>. QED  BY <1>5, <1>8, <1>10

(* OversellBound: N threads and f failures make at most N(stock + 2f) rows.*)
THEOREM OversellIsBounded == Spec => []OversellBound
<1>1. Init => DriftInv
  BY DriftInit, ConsumerAssumption
<1>2. DriftInv /\ [Next]_vars => DriftInv'
  BY DriftStep, ConsumerAssumption
<1>3. DriftInv => OversellBound
  BY DriftBound DEF OversellBound
<1>. QED  BY <1>1, <1>2, <1>3, PTL DEF Spec

-----------------------------------------------------------------------------
(* Without failures the listener threads take the records of a partition   *)
(* strictly in turn: a partition keeps its owner, what was fetched of it   *)
(* and is not handled is the rest of the owner's batch, and the offsets    *)
(* handled are the first Done(p).                                          *)
Done(p) ==
  IF pc[owner[p]] # "idle" /\ job[owner[p]].part = p
    THEN job[owner[p]].off - 1
    ELSE position[p]

InTurn ==
  /\ faults = 0
  /\ \A c \in Consumers :
       /\ pc[c] # "restore"
       /\ pc[c] # "idle" => owner[job[c].part] = c /\ job[c].last = position[job[c].part]
  /\ \A p \in Partitions :
       handled[p] = 1..Done(p) /\ position[p] <= Len(topic[p]) /\ Len(topic[p]) <= MaxRecords

TurnInv == TypeOK /\ InTurn

(* The steps that are left when nothing fails.                             *)
LEMMA SmoothCases ==
  ASSUME Faults = {}, InTurn, Next
  PROVE  \/ \E p \in Partitions, m \in Message : Publish(p, m)
         \/ \E c \in Consumers, p \in Partitions, n \in 1..MaxBatch : Poll(c, p, n)
         \/ \E p \in Partitions : Commit(p)
         \/ \E c \in Consumers : Watch(c) \/ ReadCount(c) \/ InsertOrder(c) \/ Exec(c)
<1>1. ASSUME NEW p \in Partitions, NEW c \in Consumers, Rebalance(p, c)
      PROVE  FALSE
  BY <1>1 DEF Rebalance
<1>2. ASSUME NEW c \in Consumers,
             Crash(c) \/ RedisFails(c) \/ InsertFails(c) \/ ExecFails(c) \/ RestoreFails(c)
      PROVE  FALSE
  BY <1>2 DEF Crash, RedisFails, InsertFails, ExecFails, RestoreFails, Fault
<1>3. ASSUME NEW c \in Consumers, Restore(c)
      PROVE  FALSE
  BY <1>3 DEF Restore, InTurn
<1>. QED  BY <1>1, <1>2, <1>3, StepCases

(* The record in hand is the first that is not handled.                    *)
LEMMA NextInTurn ==
  ASSUME TurnInv, NEW c \in Consumers, pc[c] # "idle"
  PROVE  /\ job[c].part \in Partitions /\ job[c].off \in Nat \ {0} /\ job[c].last \in Nat
         /\ job[c].off <= job[c].last /\ job[c].last = position[job[c].part]
         /\ owner[job[c].part] = c
         /\ Done(job[c].part) = job[c].off - 1
         /\ handled[job[c].part] = 1..(job[c].off - 1)
         /\ job[c].off \notin handled[job[c].part]
<1>1. job[c] \in Job /\ 1 <= job[c].off /\ job[c].off <= job[c].last
  BY DEF TurnInv, TypeOK
<1>2. job[c].part \in Partitions /\ job[c].off \in Nat /\ job[c].last \in Nat
  BY <1>1 DEF Job
<1>3. /\ owner[job[c].part] = c /\ job[c].last = position[job[c].part]
      /\ handled[job[c].part] = 1..Done(job[c].part)
  BY <1>2 DEF TurnInv, InTurn
<1>4. Done(job[c].part) = job[c].off - 1
  BY <1>3 DEF Done
<1>. QED  BY <1>1, <1>2, <1>3, <1>4

LEMMA TurnExec ==
  ASSUME ConsumerAssumption, TurnInv, TypeOK', NEW c \in Consumers, Exec(c)
  PROVE  InTurn'
<1> DEFINE j == job[c]
<1>1. /\ j \in Job /\ j.part \in Partitions /\ j.off \in Nat \ {0} /\ j.last \in Nat
      /\ j.off <= j.last /\ j.last = position[j.part] /\ owner[j.part] = c
      /\ handled[j.part] = 1..(j.off - 1)
  BY NextInTurn DEF Exec, TurnInv, TypeOK
<1>2. /\ UNCHANGED <<topic, owner, position, faults>>
      /\ owner \in [Partitions -> Consumers]
      /\ handled' = [handled EXCEPT ![j.part] = @ \cup {j.off}]
      /\ \A d \in Consumers \ {c} : pc'[d] = pc[d] /\ job'[d] = job[d]
      /\ \/ /\ j.off < j.last /\ pc'[c] = "watch"
            /\ job'[c].part = j.part /\ job'[c].off = j.off + 1 /\ job'[c].last = j.last
         \/ j.off = j.last /\ pc'[c] = "idle"
  BY <1>1 DEF Exec, Return, GoTo, TurnInv, TypeOK, cursors, Job
<1>3. ASSUME NEW d \in Consumers
      PROVE  /\ pc'[d] # "restore"
             /\ pc'[d] # "idle" => owner'[job'[d].part] = d /\ job'[d].last = position'[job'[d].part]
  BY <1>1, <1>2 DEF TurnInv, InTurn
<1>4. handled'[j.part] = 1..j.off
  <2>1. handled'[j.part] = handled[j.part] \cup {j.off}
    BY <1>1, <1>2 DEF TurnInv, TypeOK
  <2>. QED  BY <1>1, <2>1
<1>5. ASSUME NEW p \in Partitions, p = j.part
      PROVE  handled'[p] = 1..Done(p)'
  <2>1. Done(p)' = j.off
    BY <1>1, <1>2, <1>5 DEF Done
  <2>. QED  BY <1>4, <1>5, <2>1
<1>6. ASSUME NEW p \in Partitions, p # j.part
      PROVE  handled'[p] = 1..Done(p)'
  <2>1. handled'[p] = 1..Done(p)
    BY <1>2, <1>6 DEF TurnInv, InTurn, TypeOK
  <2>2. Done(p)' = Done(p)
    <3>1. CASE owner[p] = c
      BY <1>1, <1>2, <1>6, <3>1 DEF Done
    <3>2. CASE owner[p] # c
      BY <1>2, <3>2 DEF Done
    <3>. QED  BY <3>1, <3>2
  <2>. QED  BY <2>1, <2>2
<1>7. ASSUME NEW p \in Partitions
      PROVE  handled'[p] = 1..Done(p)' /\ position'[p] <= Len(topic'[p]) /\ Len(topic'[p]) <= MaxRecords
  <2>1. handled'[p] = 1..Done(p)'
    BY <1>5, <1>6
  <2>2. position'[p] <= Len(topic'[p]) /\ Len(topic'[p]) <= MaxRecords
    BY <1>2 DEF TurnInv, InTurn
  <2>. QED  BY <2>1, <2>2
<1>8. faults' = 0
  BY <1>2 DEF TurnInv, InTurn
<1>. QED  BY <1>3, <1>7, <1>8 DEF InTurn

LEMMA TurnPoll ==
  ASSUME ConsumerAssumption, TurnInv, NEW c \in Consumers, NEW p \in Partitions,
         NEW n \in 1..MaxBatch, Poll(c, p, n)
  PROVE  InTurn'
<1>1. /\ pc[c] = "idle" /\ owner[p] = c /\ n \in Nat \ {0} /\ position[p] \in Nat
      /\ position[p] + n <= Len(topic[p])
      /\ UNCHANGED <<topic, owner, handled, faults>>
      /\ position' = [position EXCEPT ![p] = position[p] + n]
      /\ job'[c] = [part |-> p, off |-> position[p] + 1, last |-> position[p] + n]
      /\ pc'[c] = "watch"
      /\ \A d \in Consumers \ {c} : pc'[d] = pc[d] /\ job'[d] = job[d]
      /\ owner \in [Partitions -> Consumers] /\ position \in [Partitions -> Nat]
  BY DEF Poll, GoTo, TurnInv, TypeOK, ConsumerAssumption
<1>2. ASSUME NEW d \in Consumers
      PROVE  /\ pc'[d] # "restore"
             /\ pc'[d] # "idle" => owner'[job'[d].part] = d /\ job'[d].last = position'[job'[d].part]
  <2>1. CASE d = c
    BY <1>1, <2>1
  <2>2. CASE d # c
    <3>1. pc'[d] = pc[d] /\ job'[d] = job[d] /\ pc[d] # "restore"
      BY <1>1, <2>2 DEF TurnInv, InTurn
    <3>2. ASSUME pc[d] # "idle"
          PROVE  owner'[job'[d].part] = d /\ job'[d].last = position'[job'[d].part]
      <4>1. owner[job[d].part] = d /\ job[d].last = position[job[d].part] /\ job[d].part \in Partitions
        BY <3>2, NextInTurn
      <4>2. job[d].part # p
        BY <1>1, <2>2, <4>1
      <4>. QED  BY <1>1, <3>1, <4>1, <4>2
    <3>. QED  BY <3>1, <3>2
  <2>. QED  BY <2>1, <2>2
<1>3. ASSUME NEW q \in Partitions
      PROVE  handled'[q] = 1..Done(q)' /\ position'[q] <= Len(topic'[q]) /\ Len(topic'[q]) <= MaxRecords
  <2>1. handled[q] = 1..Done(q) /\ position[q] <= Len(topic[q]) /\ Len(topic[q]) <= MaxRecords
    BY DEF TurnInv, InTurn
  <2>2. Done(q)' = Done(q)
    <3>1. CASE q = p
      <4>1. Done(q) = position[p]
        BY <1>1, <3>1 DEF Done
      <4>2. Done(q)' = (position[p] + 1) - 1
        BY <1>1, <3>1 DEF Done
      <4>. QED  BY <1>1, <4>1, <4>2
    <3>2. CASE q # p /\ owner[q] = c
      BY <1>1, <3>2 DEF Done
    <3>3. CASE q # p /\ owner[q] # c
      BY <1>1, <3>3 DEF Done
    <3>. QED  BY <3>1, <3>2, <3>3
  <2>3. position'[q] <= Len(topic'[q])
    BY <1>1, <2>1
  <2>. QED  BY <1>1, <2>1, <2>2, <2>3
<1>4. faults' = 0
  BY <1>1 DEF TurnInv, InTurn
<1>. QED  BY <1>2, <1>3, <1>4 DEF InTurn

LEMMA TurnStep ==
  ASSUME ConsumerAssumption, Faults = {}, TurnInv, [Next]_vars
  PROVE  TurnInv'
<1>t. TypeOK /\ InTurn /\ TypeOK'
  BY TypeStep DEF TurnInv
<1>1. ASSUME NEW p \in Partitions, NEW m \in Message, Publish(p, m)
      PROVE  InTurn'
  <2>1. /\ UNCHANGED <<pc, job, owner, position, handled, faults>>
        /\ Len(topic[p]) < MaxRecords /\ topic' = [topic EXCEPT ![p] = Append(topic[p], m)]
        /\ topic \in [Partitions -> Seq(Message)]
    BY <1>1, <1>t DEF Publish, TypeOK, thread, cursors
  <2>2. ASSUME NEW q \in Partitions
        PROVE  position'[q] <= Len(topic'[q]) /\ Len(topic'[q]) <= MaxRecords
    <3>1. position[q] <= Len(topic[q]) /\ Len(topic[q]) <= MaxRecords /\ position[q] \in Nat
          /\ topic[q] \in Seq(Message) /\ MaxRecords \in Nat
      BY <1>t DEF InTurn, TypeOK, ConsumerAssumption
    <3>2. CASE q = p
      <4>1. topic'[q] = Append(topic[q], m)
        BY <2>1, <3>2
      <4>2. Len(topic'[q]) = Len(topic[q]) + 1 /\ Len(topic[q]) \in Nat
        BY <3>1, <4>1
      <4>. QED  BY <2>1, <3>1, <3>2, <4>2
    <3>3. CASE q # p
      BY <2>1, <3>1, <3>3
    <3>. QED  BY <3>2, <3>3
  <2>. QED  BY <1>t, <2>1, <2>2 DEF InTurn, Done
<1>2. ASSUME NEW c \in Consumers, NEW p \in Partitions, NEW n \in 1..MaxBatch, Poll(c, p, n)
      PROVE  InTurn'
  BY <1>2, TurnPoll
<1>3. ASSUME NEW p \in Partitions, Commit(p)
      PROVE  InTurn'
  BY <1>t, <1>3 DEF Commit, thread, InTurn, Done
<1>4. ASSUME NEW c \in Consumers, Watch(c) \/ ReadCount(c) \/ InsertOrder(c)
      PROVE  InTurn'
  <2>1. /\ UNCHANGED <<job, owner, position, handled, topic, faults>>
        /\ pc[c] # "idle" /\ pc'[c] \in {"get", "insert", "exec"}
        /\ \A d \in Consumers \ {c} : pc'[d] = pc[d]
    BY <1>t, <1>4 DEF Watch, ReadCount, InsertOrder, GoTo, TypeOK, cursors
  <2>2. \A d \in Consumers : (pc'[d] = "idle" <=> pc[d] = "idle") /\ pc'[d] # "restore"
    BY <1>t, <2>1 DEF InTurn
  <2>3. \A p \in Partitions : Done(p)' = Done(p)
    BY <1>t, <2>1, <2>2 DEF Done, TypeOK
  <2>. QED  BY <1>t, <2>1, <2>2, <2>3 DEF InTurn
<1>5. ASSUME NEW c \in Consumers, Exec(c)
      PROVE  InTurn'
  BY <1>t, <1>5, TurnExec
<1>6. ASSUME UNCHANGED vars
      PROVE  InTurn'
  BY <1>t, <1>6 DEF vars, thread, cursors, InTurn, Done
<1>. QED  BY <1>t, <1>1, <1>2, <1>3, <1>4, <1>5, <1>6, SmoothCases DEF TurnInv

LEMMA TurnInit == ASSUME ConsumerAssumption, Init PROVE TurnInv
  BY DEF Init, TurnInv, TypeOK, InTurn, Done, ConsumerAssumption

-----------------------------------------------------------------------------
(* One thread and no failure leave DriftInv no slack: a row is paid for by *)
(* a unit taken, or the thread is about to take it and nobody can object.  *)
LEMMA NoSlack ==
  ASSUME ConsumerAssumption, N = 1, DriftInv, InTurn, NEW s \in Sids
  PROVE  Rows(s) = taken(s) + inserted(s) /\ Spoiled(s) = {}
<1>1. Restoring(s) = {} /\ faults = 0
  BY DEF InTurn, Restoring
<1>2. restoring(s) = 0
  BY <1>1, FS_EmptySet DEF restoring
<1>3. /\ Rows(s) \in Nat /\ inserted(s) \in Nat /\ spoiled(s) \in Nat /\ taken(s) \in Int
  <2>1. TypeOK
    BY DEF DriftInv, WatchInv
  <2>2. taken(s) \in Int
    BY <2>1 DEF taken, TypeOK, ConsumerAssumption
  <2>. QED  BY <2>1, <2>2, RowsType, Finite
<1>4. taken(s) + inserted(s) <= Rows(s)
  BY DEF DriftInv, Backed
<1>5. Rows(s) + spoiled(s) <= inserted(s) + taken(s)
  <2>1. Rows(s) + spoiled(s) + (2 * 1 - 1) * 0 <= inserted(s) + 1 * taken(s) + 2 * (1 * 0)
    BY <1>1, <1>2 DEF DriftInv, Bounded
  <2>. QED  BY <1>3, <2>1
<1>6. Rows(s) = taken(s) + inserted(s) /\ spoiled(s) = 0
  BY <1>3, <1>4, <1>5
<1>7. Spoiled(s) = {}
  BY <1>6, Finite, FS_EmptySet DEF spoiled
<1>. QED  BY <1>6, <1>7

LEMMA NothingInserted ==
  ASSUME AllIdle, NEW s \in Sids
  PROVE  inserted(s) = 0
<1>1. Inserted(s) = {}
  BY DEF AllIdle, Inserted
<1>. QED  BY <1>1, FS_EmptySet DEF inserted

LEMMA SmoothDriftStep ==
  ASSUME ConsumerAssumption, Faults = {}, DriftInv, TurnInv, [Next]_vars
  PROVE  DriftInv' /\ TurnInv'
  BY DriftStep, TurnStep

(* EveryOrderDeducted, which two threads or one failure break: when the    *)
(* only listener thread is between records, each row took its unit.        *)
THEOREM OrdersAreDeducted ==
  ASSUME N = 1, Faults = {}
  PROVE  Spec => []EveryOrderDeducted
<1>1. Init => DriftInv /\ TurnInv
  BY DriftInit, TurnInit, ConsumerAssumption
<1>2. (DriftInv /\ TurnInv) /\ [Next]_vars => (DriftInv /\ TurnInv)'
  BY SmoothDriftStep, ConsumerAssumption
<1>3. DriftInv /\ TurnInv => EveryOrderDeducted
  <2>1. ASSUME DriftInv, TurnInv, AllIdle, NEW s \in Sids
        PROVE  Rows(s) = InitialCount[s] - stockCount[s]
    <3>1. Rows(s) = taken(s) + inserted(s) /\ inserted(s) = 0
      BY <2>1, NoSlack, NothingInserted, ConsumerAssumption DEF TurnInv
    <3>2. taken(s) \in Int
      BY <2>1, ConsumerAssumption DEF TurnInv, taken, TypeOK, ConsumerAssumption
    <3>. QED  BY <3>1, <3>2 DEF taken
  <2>. QED  BY <2>1 DEF EveryOrderDeducted
<1>. QED  BY <1>1, <1>2, <1>3, PTL DEF Spec

-----------------------------------------------------------------------------
(* What makes ExactSale inductive: at every moment, not only when all      *)
(* threads idle, the units taken are as many as records handled, up to the *)
(* initial stock.                                                          *)
HandledOf(s) ==
  {r \in Partitions \X (1..MaxRecords) :
     r[2] \in handled[r[1]] /\ topic[r[1]][r[2]].sid = s}

Sold(s) ==
  /\ IsFiniteSet(HandledOf(s))
  /\ taken(s) = IF HandledRecords(s) < InitialCount[s] THEN HandledRecords(s)
                                                       ELSE InitialCount[s]

SaleInv == DriftInv /\ TurnInv /\ \A s \in Sids : Sold(s)

LEMMA HandledInLog ==
  ASSUME TurnInv, NEW p \in Partitions, NEW o \in handled[p]
  PROVE  o \in 1..Len(topic[p]) /\ o \in 1..MaxRecords
<1>1. handled[p] = 1..Done(p) /\ position[p] <= Len(topic[p]) /\ Len(topic[p]) <= MaxRecords
      /\ position[p] \in Nat /\ Len(topic[p]) \in Nat
  BY DEF TurnInv, InTurn, TypeOK
<1>2. CASE pc[owner[p]] # "idle" /\ job[owner[p]].part = p
  <2>1. owner[p] \in Consumers
    BY DEF TurnInv, TypeOK
  <2>2. job[owner[p]].off \in Nat /\ job[owner[p]].last \in Nat
        /\ job[owner[p]].off <= job[owner[p]].last /\ job[owner[p]].last = position[p]
    BY <1>2, <2>1, NextInTurn
  <2>3. Done(p) = job[owner[p]].off - 1
    BY <1>2 DEF Done
  <2>4. o \in 1..(job[owner[p]].off - 1)
    BY <1>1, <2>3
  <2>. QED  BY <1>1, <2>2, <2>4, ConsumerAssumption DEF ConsumerAssumption
<1>3. CASE ~(pc[owner[p]] # "idle" /\ job[owner[p]].part = p)
  <2>1. Done(p) = position[p]
    BY <1>3 DEF Done
  <2>. QED  BY <1>1, <2>1, ConsumerAssumption DEF ConsumerAssumption
<1>. QED  BY <1>2, <1>3

LEMMA HandledUnchanged ==
  ASSUME TurnInv, NEW s \in Sids, handled' = handled,
         \A p \in Partitions : \A o \in 1..Len(topic[p]) : topic'[p][o] = topic[p][o]
  PROVE  HandledOf(s)' = HandledOf(s) /\ HandledRecords(s)' = HandledRecords(s)
<1>1. \A r \in Partitions \X (1..MaxRecords) :
        r[2] \in handled[r[1]] => topic'[r[1]][r[2]] = topic[r[1]][r[2]]
  BY HandledInLog
<1>2. HandledOf(s)' = HandledOf(s)
  BY <1>1 DEF HandledOf
<1>3. HandledRecords(s) = Cardinality(HandledOf(s))
  BY DEF HandledRecords, HandledOf
<1>4. HandledRecords(s)' = Cardinality(HandledOf(s)')
  BY DEF HandledRecords, HandledOf
<1>. QED  BY <1>2, <1>3, <1>4

(* Exec hands one record more over, and takes a unit if one is left.       *)
LEMMA ExecSold ==
  ASSUME ConsumerAssumption, N = 1, SaleInv, NEW c \in Consumers, Exec(c), NEW s \in Sids
  PROVE  Sold(s)'
<1> DEFINE j == job[c]
           r == <<j.part, j.off>>
<1>1. /\ TypeOK /\ TurnInv /\ DriftInv /\ WatchInv /\ pc[c] = "exec" /\ topic' = topic
      /\ Sold(s) /\ InTurn
  BY DEF SaleInv, TurnInv, DriftInv, WatchInv, Exec
<1>2. /\ j.part \in Partitions /\ j.off \in Nat \ {0} /\ j.off \notin handled[j.part]
      /\ handled' = [handled EXCEPT ![j.part] = handled[j.part] \cup {j.off}]
      /\ handled \in [Partitions -> SUBSET Nat]
  BY <1>1, NextInTurn DEF Exec, Return, TypeOK
<1>3. j.off \in 1..MaxRecords
  <2>1. j.off <= j.last /\ j.last \in Nat /\ j.last = position[j.part]
    BY <1>1, NextInTurn
  <2>2. position[j.part] <= Len(topic[j.part]) /\ Len(topic[j.part]) <= MaxRecords
        /\ Len(topic[j.part]) \in Nat
    BY <1>1, <1>2 DEF InTurn, TypeOK
  <2>. QED  BY <1>2, <2>1, <2>2 DEF ConsumerAssumption
<1>4. /\ Cardinality(HandledOf(s)) = HandledRecords(s)
      /\ Cardinality(HandledOf(s)') = HandledRecords(s)'
  BY DEF HandledOf, HandledRecords
<1>5. /\ taken(s) \in Int /\ InitialCount[s] \in Nat /\ HandledRecords(s) \in Nat
      /\ stockCount[s] \in Int /\ stockCount[s] >= 0
  BY <1>1, <1>4, FS_CardinalityType
     DEF taken, TypeOK, ConsumerAssumption, Sold, WatchInv, CountNonNegative
<1>6. CASE s # Sid(c)
  <2>1. HandledOf(s)' = HandledOf(s)
    BY <1>1, <1>2, <1>6 DEF HandledOf, Sid, Record
  <2>2. stockCount'[s] = stockCount[s]
    BY <1>1, <1>6, BusyRecord DEF Exec, ExecEffect, MoveStock, TypeOK, redis
  <2>3. taken(s)' = taken(s)
    BY <2>2 DEF taken
  <2>. QED  BY <1>1, <1>4, <2>1, <2>3 DEF Sold
<1>7. CASE s = Sid(c)
  <2>1. HandledOf(s)' = HandledOf(s) \cup {r} /\ r \notin HandledOf(s)
    BY <1>1, <1>2, <1>3, <1>7 DEF HandledOf, Sid, Record
  <2>2. IsFiniteSet(HandledOf(s)') /\ HandledRecords(s)' = HandledRecords(s) + 1
    <3>1. PICK x \in Partitions \X (1..MaxRecords) :
            HandledOf(s)' = HandledOf(s) \cup {x} /\ x \notin HandledOf(s)
      BY <1>2, <1>3, <2>1
    <3>2. IsFiniteSet(HandledOf(s))
      BY <1>1 DEF Sold
    <3>3. IsFiniteSet(HandledOf(s)') /\ Cardinality(HandledOf(s)') = Cardinality(HandledOf(s)) + 1
      BY <3>1, <3>2, FS_AddElement
    <3>. QED  BY <1>4, <3>3
  <2>3. c \notin dirty /\ stockCount[s] = seen[c]
    BY <1>1, <1>7, NoSlack DEF Spoiled, Watching, WatchInv, Fresh
  <2>4. CASE stockCount[s] > 0
    <3>1. MoveStock(c, s, 1)
      BY <1>7, <2>3, <2>4 DEF Exec, ExecEffect, ExecApplies, HasStock
    <3>2. stockCount'[s] = stockCount[s] - 1
      BY <1>1, <3>1 DEF MoveStock, TypeOK
    <3>3. taken(s)' = InitialCount[s] - (stockCount[s] - 1)
          /\ taken(s) = InitialCount[s] - stockCount[s]
      BY <3>2 DEF taken
    <3>4. taken(s) = HandledRecords(s)
      BY <1>1, <1>5, <2>4, <3>3 DEF Sold
    <3>. QED  BY <1>5, <2>2, <2>4, <3>3, <3>4 DEF Sold
  <2>5. CASE stockCount[s] = 0
    <3>1. stockCount' = stockCount
      BY <2>3, <2>5 DEF Exec, ExecEffect, ExecApplies, HasStock, redis
    <3>2. taken(s)' = InitialCount[s] - stockCount[s] /\ taken(s) = InitialCount[s] - stockCount[s]
      BY <3>1 DEF taken
    <3>3. ~(HandledRecords(s) < InitialCount[s])
      BY <1>1, <1>5, <2>5, <3>2 DEF Sold
    <3>. QED  BY <1>5, <2>2, <2>5, <3>2, <3>3 DEF Sold
  <2>. QED  BY <1>5, <2>4, <2>5
<1>. QED  BY <1>6, <1>7

LEMMA SaleStep ==
  ASSUME ConsumerAssumption, N = 1, Faults = {}, SaleInv, [Next]_vars
  PROVE  SaleInv'
<1>1. DriftInv /\ TurnInv /\ DriftInv' /\ TurnInv' /\ TypeOK /\ InTurn
  BY SmoothDriftStep DEF SaleInv, TurnInv
<1>2. ASSUME NEW s \in Sids
      PROVE  Sold(s)'
  <2>1. ASSUME handled' = handled, stockCount' = stockCount,
               \A p \in Partitions : \A o \in 1..Len(topic[p]) : topic'[p][o] = topic[p][o]
        PROVE  Sold(s)'
    <3>1. HandledOf(s)' = HandledOf(s) /\ HandledRecords(s)' = HandledRecords(s)
      BY <1>1, <2>1, HandledUnchanged
    <3>2. taken(s)' = taken(s)
      BY <2>1 DEF taken
    <3>. QED  BY <3>1, <3>2 DEF Sold, SaleInv
  <2>2. ASSUME NEW p \in Partitions, NEW m \in Message, Publish(p, m)
        PROVE  Sold(s)'
    <3>1. handled' = handled /\ stockCount' = stockCount
          /\ topic' = [topic EXCEPT ![p] = Append(topic[p], m)]
          /\ topic \in [Partitions -> Seq(Message)]
      BY <1>1, <2>2 DEF Publish, redis, TypeOK
    <3>2. ASSUME NEW q \in Partitions, NEW o \in 1..Len(topic[q])
          PROVE  topic'[q][o] = topic[q][o]
      <4>1. CASE q = p
        <5>1. topic'[q] = Append(topic[q], m) /\ topic[q] \in Seq(Message)
          BY <3>1, <4>1
        <5>. QED  BY <5>1
      <4>2. CASE q # p
        BY <3>1, <4>2
      <4>. QED  BY <4>1, <4>2
    <3>. QED  BY <2>1, <3>1, <3>2
  <2>3. ASSUME NEW c \in Consumers, NEW p \in Partitions, NEW n \in 1..MaxBatch, Poll(c, p, n)
        PROVE  Sold(s)'
    BY <2>1, <2>3 DEF Poll, redis
  <2>4. ASSUME NEW p \in Partitions, Commit(p)
        PROVE  Sold(s)'
    BY <2>1, <2>4 DEF Commit, redis
  <2>5. ASSUME NEW c \in Consumers, Watch(c) \/ ReadCount(c) \/ InsertOrder(c)
        PROVE  Sold(s)'
    BY <2>1, <2>5 DEF Watch, ReadCount, InsertOrder, redis
  <2>6. ASSUME NEW c \in Consumers, Exec(c)
        PROVE  Sold(s)'
    BY <2>6, ExecSold
  <2>7. ASSUME UNCHANGED vars
        PROVE  Sold(s)'
    BY <2>1, <2>7 DEF vars, redis
  <2>. QED  BY <1>1, <2>2, <2>3, <2>4, <2>5, <2>6, <2>7, SmoothCases
<1>. QED  BY <1>1, <1>2 DEF SaleInv

LEMMA SaleInit ==
  ASSUME ConsumerAssumption, Init
  PROVE  SaleInv
<1>1. DriftInv /\ TurnInv
  BY DriftInit, TurnInit
<1>2. ASSUME NEW s \in Sids
      PROVE  Sold(s)
  <2>1. HandledOf(s) = {}
    BY DEF HandledOf, Init
  <2>2. IsFiniteSet(HandledOf(s)) /\ HandledRecords(s) = 0
    BY <2>1, FS_EmptySet DEF HandledOf, HandledRecords
  <2>3. taken(s) = 0 /\ InitialCount[s] \in Nat
    BY DEF taken, Init, ConsumerAssumption
  <2>. QED  BY <2>2, <2>3 DEF Sold
<1>. QED  BY <1>1, <1>2 DEF SaleInv

(* ExactSale: one listener thread and no failure sell the records handled  *)
(* in full, as far as the stock goes, and nothing beyond it.               *)
THEOREM SaleIsExact ==
  ASSUME N = 1, Faults = {}
  PROVE  Spec => []ExactSale
<1>1. Init => SaleInv
  BY SaleInit, ConsumerAssumption
<1>2. SaleInv /\ [Next]_vars => SaleInv'
  BY SaleStep, ConsumerAssumption
<1>3. SaleInv => ExactSale
  <2>1. ASSUME SaleInv, AllIdle, NEW s \in Sids
        PROVE  Rows(s) = IF HandledRecords(s) < InitialCount[s] THEN HandledRecords(s)
                                                                ELSE InitialCount[s]
    <3>1. Rows(s) = taken(s) + inserted(s) /\ inserted(s) = 0
      BY <2>1, NoSlack, NothingInserted, ConsumerAssumption DEF SaleInv, TurnInv
    <3>2. taken(s) \in Int
      BY <2>1, ConsumerAssumption DEF SaleInv, TurnInv, taken, TypeOK, ConsumerAssumption
    <3>3. Rows(s) = taken(s)
      BY <3>1, <3>2
    <3>. QED  BY <2>1, <3>3 DEF SaleInv, Sold
  <2>. QED  BY <2>1 DEF ExactSale
<1>. QED  BY <1>1, <1>2, <1>3, PTL DEF Spec

=============================================================================
