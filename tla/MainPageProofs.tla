---------------------------- MODULE MainPageProofs ----------------------------
(***************************************************************************)
(* Theorems about the wall of recent pictures and about the covers of the  *)
(* main page, and the lemmas on the order of pictures they rest on.        *)
(***************************************************************************)
EXTENDS MainPage, FiniteSetTheorems, TLAPS

-----------------------------------------------------------------------------
(* Pictures in the order of their times.                                   *)

(* Of two numbers the minimum is the one that is not greater.              *)
LEMMA MinOfTwo ==
  ASSUME NEW a \in Int, NEW b \in Int
  PROVE  Min({a, b}) = IF a <= b THEN a ELSE b
<1> DEFINE m == IF a <= b THEN a ELSE b
<1>1. m \in {a, b} /\ \A y \in {a, b} : m <= y
  OBVIOUS
<1>2. ASSUME NEW x \in {a, b}, \A y \in {a, b} : x <= y
      PROVE  x = m
  BY <1>2
<1> QED
  BY <1>1, <1>2 DEF Min

(* Elements with different times have different places: for each i up to   *)
(* the size of the set there is one that has i - 1 elements above it.      *)
LEMMA PlaceTaken ==
  ASSUME NEW S, IsFiniteSet(S), NEW t \in [S -> Int],
         \A f, g \in S : t[f] = t[g] => f = g,
         NEW i \in 1..Cardinality(S)
  PROVE  \E f \in S : Cardinality({g \in S : t[g] > t[f]}) = i - 1
<1> DEFINE Above(f) == {g \in S : t[g] > t[f]}
           N == Cardinality(S)
           place == [f \in S |-> 1 + Cardinality(Above(f))]
<1>1. N \in Nat
  BY FS_CardinalityType
<1>2. ASSUME NEW f \in S
      PROVE  /\ IsFiniteSet(Above(f))
             /\ Cardinality(Above(f)) \in 0..(N - 1)
  <2>1. /\ IsFiniteSet(S \ {f})
        /\ Cardinality(S \ {f}) = N - 1
    BY FS_RemoveElement
  <2>2. Above(f) \in SUBSET (S \ {f})
    OBVIOUS
  <2>3. /\ IsFiniteSet(Above(f))
        /\ Cardinality(Above(f)) <= N - 1
    BY <2>1, <2>2, FS_Subset
  <2>4. Cardinality(Above(f)) \in Nat
    BY <2>3, FS_CardinalityType
  <2> HIDE DEF Above
  <2> QED
    BY <1>1, <2>3, <2>4
<1>3. ASSUME NEW f \in S, NEW g \in S, t[f] > t[g]
      PROVE  Cardinality(Above(f)) < Cardinality(Above(g))
  <2>1. f \notin Above(f) /\ Above(f) \cup {f} \in SUBSET Above(g)
    BY <1>3
  <2>2. /\ IsFiniteSet(Above(f) \cup {f})
        /\ Cardinality(Above(f) \cup {f}) = Cardinality(Above(f)) + 1
    BY <1>2, <2>1, FS_AddElement
  <2>3. Cardinality(Above(f) \cup {f}) <= Cardinality(Above(g))
    BY <1>2, <2>1, FS_Subset
  <2>4. Cardinality(Above(f)) \in Nat /\ Cardinality(Above(g)) \in Nat
    BY <1>2, FS_CardinalityType
  <2> HIDE DEF Above
  <2> QED
    BY <2>2, <2>3, <2>4
<1> HIDE DEF Above
<1>4. place \in [S -> 1..N]
  BY <1>1, <1>2
<1>5. \A f, g \in S : place[f] = place[g] => f = g
  <2> SUFFICES ASSUME NEW f \in S, NEW g \in S, place[f] = place[g]
               PROVE  f = g
    OBVIOUS
  <2>1. Cardinality(Above(f)) \in Int /\ Cardinality(Above(g)) \in Int
    BY <1>2, <1>1
  <2>2. Cardinality(Above(f)) = Cardinality(Above(g))
    BY <2>1
  <2>3. ~(t[f] > t[g]) /\ ~(t[g] > t[f])
    BY <1>3, <2>1, <2>2
  <2> QED
    BY <2>3
<1>6. place \in Injection(S, 1..N)
  BY <1>4, <1>5 DEF Injection, IsInjective
<1>7. IsFiniteSet(1..N) /\ Cardinality(1..N) = N
  BY <1>1, FS_Interval
<1>8. place \in Surjection(S, 1..N)
  BY <1>6, <1>7, FS_Injection
<1>9. PICK f \in S : place[f] = i
  BY <1>8 DEF Surjection
<1>10. Cardinality(Above(f)) = i - 1
  BY <1>1, <1>2, <1>9
<1> QED
  BY <1>10 DEF Above

(* One that has nothing above it.                                          *)
LEMMA TopTaken ==
  ASSUME NEW S, IsFiniteSet(S), S # {}, NEW t \in [S -> Int],
         \A f, g \in S : t[f] = t[g] => f = g
  PROVE  \E f \in S : \A g \in S : t[f] >= t[g]
<1>1. Cardinality(S) \in Nat /\ Cardinality(S) # 0
  BY FS_CardinalityType, FS_EmptySet
<1>2. 1 \in 1..Cardinality(S)
  BY <1>1
<1>3. PICK f \in S : Cardinality({g \in S : t[g] > t[f]}) = 1 - 1
  BY <1>2, PlaceTaken
<1>4. IsFiniteSet({g \in S : t[g] > t[f]})
  BY FS_Subset
<1>5. {g \in S : t[g] > t[f]} = {}
  BY <1>3, <1>4, FS_EmptySet
<1> QED
  BY <1>5

(* A set of numbers that is finite and not empty has a greatest one.       *)
LEMMA MaxIsGreatest ==
  ASSUME NEW S \in SUBSET Int, IsFiniteSet(S), S # {}
  PROVE  Max(S) \in S /\ \A y \in S : Max(S) >= y
<1> DEFINE t == [x \in S |-> x]
<1>1. t \in [S -> Int] /\ \A f, g \in S : t[f] = t[g] => f = g
  OBVIOUS
<1>2. \E f \in S : \A g \in S : t[f] >= t[g]
  <2> HIDE DEF t
  <2> QED
    BY <1>1, TopTaken
<1>3. \E f \in S : \A g \in S : f >= g
  BY <1>2
<1> QED
  BY <1>3 DEF Max

-----------------------------------------------------------------------------
(* The listing of the newest pictures.                                     *)

(* Pictures have the same time only before they have any.                  *)
TimesDiffer == \A f, g \in Files :
  createTime[f] = createTime[g] /\ record[f] # "none" => f = g

States == {"none", "stamped", "saved", "removed"}

WallType ==
  /\ createTime \in [Files -> Nat]
  /\ record \in [Files -> States]
  /\ loaded \in BOOLEAN

Here == {"saved", "removed"}

(* What a query for n of the pictures S returns: pictures of S, as many as *)
(* asked for or as there are, each with one more above it than the one     *)
(* before it.                                                              *)
LEMMA NewestIsSorted ==
  ASSUME NEW n \in Nat, WallType, TimesDiffer, NEW S \in SUBSET infos, WallAssumption
  PROVE  /\ IsFiniteSet(S)
         /\ Cardinality(S) \in Nat
         /\ DOMAIN Newest(S, n) = 1..(IF n <= Cardinality(S) THEN n ELSE Cardinality(S))
         /\ Newest(S, n) \in Seq(S)
         /\ \A i \in DOMAIN Newest(S, n) :
              /\ Newest(S, n)[i] \in S
              /\ Cardinality({g \in S : Newer(g, Newest(S, n)[i])}) = i - 1
<1>1. S \in SUBSET Files
  BY DEF infos
<1>2. IsFiniteSet(S)
  BY <1>1, FS_Subset DEF WallAssumption
<1>3. Cardinality(S) \in Nat
  BY <1>2, FS_CardinalityType
<1> DEFINE m == IF n <= Cardinality(S) THEN n ELSE Cardinality(S)
           pick(i) == CHOOSE f \in S : Cardinality({g \in S : Newer(g, f)}) = i - 1
<1>4. Newest(S, n) = [i \in 1..m |-> pick(i)]
  BY <1>3, MinOfTwo DEF Newest
<1>5. ASSUME NEW i \in 1..m
      PROVE  /\ pick(i) \in S
             /\ Cardinality({g \in S : Newer(g, pick(i))}) = i - 1
  <2> DEFINE t == [f \in S |-> createTime[f]]
  <2>1. t \in [S -> Int]
    BY <1>1 DEF WallType
  <2>2. \A f, g \in S : t[f] = t[g] => f = g
    BY <1>1 DEF TimesDiffer, infos
  <2>3. i \in 1..Cardinality(S)
    BY <1>3
  <2>4. PICK f \in S : Cardinality({g \in S : t[g] > t[f]}) = i - 1
    <3> HIDE DEF t
    <3> QED
      BY <1>2, <2>1, <2>2, <2>3, PlaceTaken
  <2>5. {g \in S : t[g] > t[f]} = {g \in S : Newer(g, f)}
    BY DEF Newer
  <2>6. \E x \in S : Cardinality({g \in S : Newer(g, x)}) = i - 1
    BY <2>4, <2>5
  <2> QED
    BY <2>6
<1> HIDE DEF pick
<1>6. m \in Nat
  BY <1>3
<1>7. Newest(S, n) \in Seq(S)
  <2> HIDE DEF m
  <2>1. [i \in 1..m |-> pick(i)] \in [1..m -> S]
    BY <1>5
  <2> QED
    BY <1>4, <1>6, <2>1
<1> QED
  BY <1>2, <1>3, <1>4, <1>5, <1>7

(* Of two places in the listing the lower one is newer.                    *)
LEMMA EarlierIsNewer ==
  ASSUME NEW n \in Nat, WallType, TimesDiffer, NEW S \in SUBSET infos, WallAssumption,
         NEW i \in DOMAIN Newest(S, n), NEW j \in DOMAIN Newest(S, n), i < j
  PROVE  Newer(Newest(S, n)[i], Newest(S, n)[j])
<1> DEFINE top == Newest(S, n)
           Above(f) == {g \in S : Newer(g, f)}
<1>1. /\ IsFiniteSet(S)
      /\ Cardinality(S) \in Nat
      /\ DOMAIN top = 1..(IF n <= Cardinality(S) THEN n ELSE Cardinality(S))
      /\ \A k \in DOMAIN top : top[k] \in S /\ Cardinality(Above(top[k])) = k - 1
  BY NewestIsSorted
<1>2. i \in DOMAIN top /\ j \in DOMAIN top
  OBVIOUS
<1> SUFFICES ASSUME ~Newer(top[i], top[j])
             PROVE  FALSE
  OBVIOUS
<1> HIDE DEF top
<1>3. Above(top[j]) \in SUBSET Above(top[i])
  <2>1. top[i] \in Files /\ top[j] \in Files
    BY <1>1, <1>2 DEF infos
  <2> QED
    BY <2>1 DEF Newer, WallType, infos
<1>4. IsFiniteSet(Above(top[i]))
  BY <1>1, FS_Subset
<1>5. Cardinality(Above(top[j])) <= Cardinality(Above(top[i]))
  BY <1>3, <1>4, FS_Subset
<1> HIDE DEF Above
<1>6. j - 1 <= i - 1
  <2>1. /\ Cardinality(Above(top[i])) = i - 1
        /\ Cardinality(Above(top[j])) = j - 1
    BY <1>1, <1>2
  <2> QED
    BY <1>5, <2>1
<1> QED
  BY <1>1, <1>2, <1>6

-----------------------------------------------------------------------------
(* What a step does to the records: one that was saved is saved or removed *)
(* for good and keeps its time, and times stay different.                  *)
RecordsInv == WallType /\ TimesDiffer

LEMMA RecordsInit == Init => RecordsInv
<1> SUFFICES ASSUME Init
             PROVE  RecordsInv
  OBVIOUS
<1>1. WallType
  BY DEF Init, WallType, States
<1>2. TimesDiffer
  BY DEF Init, TimesDiffer
<1> QED
  BY <1>1, <1>2 DEF RecordsInv

(* The time that a picture is stamped with is above all times there are.   *)
LEMMA StampIsNewest ==
  ASSUME WallType, WallAssumption, NEW f \in Files, Stamp(f)
  PROVE  /\ createTime'[f] \in Nat
         /\ createTime' = [createTime EXCEPT ![f] = createTime'[f]]
         /\ \A g \in Files : createTime'[f] > createTime[g]
<1> DEFINE T == {createTime[g] : g \in Files}
<1>1. T \in SUBSET Int /\ T # {}
  BY DEF WallType
<1>2. IsFiniteSet(T)
  <2>1. createTime \in Surjection(Files, T)
    BY DEF WallType, Surjection
  <2> QED
    BY <2>1, FS_Surjection DEF WallAssumption
<1>3. Max(T) \in T /\ \A y \in T : Max(T) >= y
  BY <1>1, <1>2, MaxIsGreatest
<1>4. Max(T) \in Nat /\ \A g \in Files : Max(T) >= createTime[g]
  BY <1>3 DEF WallType
<1>5. createTime' = [createTime EXCEPT ![f] = 1 + Max(T)]
  BY DEF Stamp
<1> HIDE DEF T
<1>6. createTime'[f] = 1 + Max(T)
  BY <1>5 DEF WallType
<1> QED
  BY <1>4, <1>5, <1>6 DEF WallType

LEMMA RecordsStep ==
  ASSUME RecordsInv, WallAssumption, [Next]_vars
  PROVE  /\ RecordsInv'
         /\ \A f \in Files : record[f] \in Here =>
              /\ record'[f] \in Here
              /\ createTime'[f] = createTime[f]
              /\ f \in infos' => f \in infos
<1> USE DEF RecordsInv, Here, infos
<1>1. ASSUME NEW f \in Files, Stamp(f)
      PROVE  /\ RecordsInv'
             /\ \A h \in Files : record[h] \in Here =>
                  /\ record'[h] \in Here
                  /\ createTime'[h] = createTime[h]
                  /\ h \in infos' => h \in infos
  <2>1. /\ createTime'[f] \in Nat
        /\ createTime' = [createTime EXCEPT ![f] = createTime'[f]]
        /\ \A g \in Files : createTime'[f] > createTime[g]
    BY <1>1, StampIsNewest
  <2>2. record[f] = "none" /\ record' = [record EXCEPT ![f] = "stamped"] /\ loaded' = loaded
    BY <1>1 DEF Stamp
  <2>3. WallType'
    BY <2>1, <2>2 DEF WallType, States
  <2>4. TimesDiffer'
    <3>1. SUFFICES ASSUME NEW g \in Files, NEW h \in Files,
                          createTime'[g] = createTime'[h], record'[g] # "none"
                   PROVE  g = h
      BY DEF TimesDiffer
    <3>2. CASE g = f
      BY <2>1, <3>1, <3>2 DEF WallType
    <3>3. CASE g # f /\ h = f
      BY <2>1, <3>1, <3>3 DEF WallType
    <3>4. CASE g # f /\ h # f
      BY <2>1, <2>2, <3>1, <3>4 DEF WallType, TimesDiffer
    <3> QED
      BY <3>2, <3>3, <3>4
  <2> QED
    BY <2>1, <2>2, <2>3, <2>4 DEF WallType
<1>2. ASSUME NEW f \in Files, Save(f)
      PROVE  /\ RecordsInv'
             /\ \A h \in Files : record[h] \in Here =>
                  /\ record'[h] \in Here
                  /\ createTime'[h] = createTime[h]
                  /\ h \in infos' => h \in infos
  BY <1>2 DEF Save, WallType, TimesDiffer, States
<1>3. ASSUME NEW f \in Files, RemovePicture(f)
      PROVE  /\ RecordsInv'
             /\ \A h \in Files : record[h] \in Here =>
                  /\ record'[h] \in Here
                  /\ createTime'[h] = createTime[h]
                  /\ h \in infos' => h \in infos
  BY <1>3 DEF RemovePicture, WallType, TimesDiffer, States
<1>4. CASE List
  BY <1>4 DEF List, WallType, TimesDiffer
<1>5. CASE \E i \in 1..Slots : Fetch(i)
  BY <1>5 DEF Fetch, WallType, TimesDiffer
<1>6. CASE SessionChanges \/ UNCHANGED vars
  BY <1>6 DEF SessionChanges, vars, WallType, TimesDiffer
<1> QED
  BY <1>1, <1>2, <1>3, <1>4, <1>5, <1>6 DEF Next

-----------------------------------------------------------------------------
(* The listing of the page: newest first, of pictures that were there, and *)
(* nothing is shown in a slot that it does not have.                       *)
ListingInv ==
  /\ \E k \in 0..Slots : DOMAIN listed = 1..k
  /\ \A i \in DOMAIN listed : listed[i] \in Files /\ record[listed[i]] \in Here
  /\ \A i, j \in DOMAIN listed : i < j => Newer(listed[i], listed[j])
  /\ DOMAIN shown = 1..Slots
  /\ \A i \in 1..Slots : shown[i] \in Files => record[shown[i]] \in Here
  /\ \A i \in 1..Slots : i \notin DOMAIN listed => shown[i] = "none"
  /\ ~loaded => listed = <<>>

(* A set that holds the first i pictures of the listing has i elements.    *)
LEMMA ListedAreMany ==
  ASSUME RecordsInv, ListingInv, NEW i \in DOMAIN listed,
         NEW T, IsFiniteSet(T), \A k \in 1..i : listed[k] \in T
  PROVE  /\ Cardinality(T) \in Nat
         /\ i <= Cardinality(T)
<1>1. PICK n \in 0..Slots : DOMAIN listed = 1..n
  BY DEF ListingInv
<1>2. i \in Nat /\ 1..i \in SUBSET (DOMAIN listed)
  BY <1>1
<1> DEFINE l == [k \in 1..i |-> listed[k]]
<1>3. l \in [1..i -> T]
  OBVIOUS
<1>4. ASSUME NEW j \in 1..i, NEW k \in 1..i, l[j] = l[k]
      PROVE  j = k
  <2>1. listed[j] = listed[k]
    BY <1>4
  <2>2. ~Newer(listed[j], listed[k]) /\ ~Newer(listed[k], listed[j])
    BY <1>2, <2>1 DEF Newer, ListingInv, RecordsInv, WallType
  <2>3. ~(j < k) /\ ~(k < j)
    BY <1>2, <2>2 DEF ListingInv
  <2> QED
    BY <1>2, <2>3
<1>5. l \in Injection(1..i, T)
  <2> HIDE DEF l
  <2> QED
    BY <1>3, <1>4 DEF Injection, IsInjective
<1>6. Cardinality(1..i) <= Cardinality(T)
  BY <1>5, FS_Injection
<1>7. Cardinality(1..i) = i
  BY <1>2, FS_Interval
<1> QED
  BY <1>6, <1>7, FS_CardinalityType

(* What the page gets for slot i: nothing, or a picture older than the one *)
(* listed, only if a picture listed up to there is gone.                   *)
LEMMA SlotAnswered ==
  ASSUME RecordsInv, ListingInv, WallAssumption, NEW i \in DOMAIN listed
  PROVE  /\ TopN(i) \in infos \/ TopN(i) \in {"empty", "error"}
         /\ TopN(i) \in {"empty", "error"} => Gone(i)
         /\ TopN(i) \in infos /\ Newer(listed[i], TopN(i)) => Gone(i)
<1>1. PICK n \in 0..Slots : DOMAIN listed = 1..n
  BY DEF ListingInv
<1>2. i \in Nat \ {0} /\ \A k \in 1..i : k \in DOMAIN listed /\ k <= i
  BY <1>1
<1> DEFINE top == Top(i)
<1>3. /\ IsFiniteSet(infos)
      /\ Cardinality(infos) \in Nat
      /\ DOMAIN top = 1..(IF i <= Cardinality(infos) THEN i ELSE Cardinality(infos))
      /\ top \in Seq(infos)
      /\ \A k \in DOMAIN top :
           /\ top[k] \in infos
           /\ Cardinality({g \in infos : Newer(g, top[k])}) = k - 1
  BY <1>2, NewestIsSorted DEF Top, RecordsInv
<1>4. TopN(i) = IF top = <<>> THEN "empty" ELSE IF i > Len(top) THEN "error" ELSE top[i]
  BY DEF TopN
<1> HIDE DEF top
<1>5. ASSUME ~Gone(i)
      PROVE  \A k \in 1..i : listed[k] \in infos
  BY <1>5 DEF Gone
<1>6. ASSUME ~Gone(i)
      PROVE  i <= Cardinality(infos)
  BY <1>3, <1>5, <1>6, ListedAreMany
<1>7. CASE i <= Cardinality(infos)
  <2>1. DOMAIN top = 1..i /\ Len(top) = i
    BY <1>2, <1>3, <1>7
  <2>2. top # <<>> /\ TopN(i) = top[i]
    BY <1>2, <1>4, <2>1
  <2>3. i \in DOMAIN top
    BY <1>2, <2>1
  <2>4. TopN(i) \in infos /\ Cardinality({g \in infos : Newer(g, TopN(i))}) = i - 1
    BY <1>3, <2>2, <2>3
  <2>5. TopN(i) \notin {"empty", "error"}
    BY <2>4 DEF infos, WallAssumption
  <2>6. ASSUME Newer(listed[i], TopN(i)), ~Gone(i)
        PROVE  FALSE
    <3> DEFINE T == {g \in infos : Newer(g, TopN(i))}
    <3>1. ASSUME NEW k \in 1..i
          PROVE  listed[k] \in T
      <4>1. k = i \/ Newer(listed[k], listed[i])
        BY <1>2 DEF ListingInv
      <4>2. listed[k] \in infos /\ listed[i] \in Files /\ TopN(i) \in Files
        BY <1>2, <1>5, <2>4, <2>6 DEF infos, ListingInv
      <4>3. Newer(listed[k], TopN(i))
        BY <2>6, <4>1, <4>2 DEF Newer, infos, RecordsInv, WallType
      <4> QED
        BY <4>2, <4>3
    <3>2. IsFiniteSet(T)
      BY <1>3, FS_Subset
    <3>3. i <= Cardinality(T)
      <4> HIDE DEF T
      <4> QED
        BY <3>1, <3>2, ListedAreMany
    <3> QED
      BY <1>2, <2>4, <3>3
  <2> QED
    BY <2>4, <2>5, <2>6
<1>8. CASE ~(i <= Cardinality(infos))
  <2>1. Len(top) = Cardinality(infos)
    BY <1>2, <1>3, <1>8
  <2>2. TopN(i) \in {"empty", "error"}
    BY <1>2, <1>3, <1>4, <1>8, <2>1
  <2>3. TopN(i) \notin infos
    BY <2>2 DEF infos, WallAssumption
  <2> QED
    BY <1>6, <1>8, <2>2, <2>3
<1> QED
  BY <1>7, <1>8

(* What the wall shows is explained by what was removed, and stays so.     *)
SlotsInv == ListingInv /\ BlankIsExplained /\ OlderMeansRemoved

LEMMA SlotsInit == Init /\ WallAssumption => SlotsInv
<1> SUFFICES ASSUME Init, WallAssumption
             PROVE  SlotsInv
  OBVIOUS
<1>1. listed = <<>> /\ DOMAIN listed = 1..0 /\ 0 \in 0..Slots
  BY DEF Init, WallAssumption
<1>2. /\ DOMAIN shown = 1..Slots
      /\ \A i \in 1..Slots : shown[i] = "none" /\ shown[i] \notin Files
  BY DEF Init, WallAssumption
<1>3. \E k \in 0..Slots : DOMAIN listed = 1..k
  BY <1>1
<1>4. DOMAIN listed = {}
  BY <1>1
<1>5. ListingInv
  BY <1>1, <1>2, <1>3, <1>4 DEF ListingInv
<1> QED
  BY <1>4, <1>5 DEF SlotsInv, BlankIsExplained, OlderMeansRemoved

(* Steps that leave the page alone: what is gone stays gone, and a picture *)
(* once listed or shown keeps its time.                                    *)
LEMMA PageUntouched ==
  ASSUME RecordsInv, SlotsInv, UNCHANGED <<listed, loaded, shown, unserved>>,
         \A f \in Files : record[f] \in Here =>
           /\ record'[f] \in Here
           /\ createTime'[f] = createTime[f]
           /\ f \in infos' => f \in infos
  PROVE  SlotsInv'
<1>1. ListingInv'
  BY DEF SlotsInv, ListingInv, Newer
<1>2. ASSUME NEW i \in DOMAIN listed, Gone(i)
      PROVE  Gone(i)'
  <2>1. PICK k \in 1..i : listed[k] \notin infos
    BY <1>2 DEF Gone
  <2>2. k \in DOMAIN listed
    BY <2>1 DEF SlotsInv, ListingInv
  <2>3. listed[k] \notin infos'
    BY <2>1, <2>2 DEF SlotsInv, ListingInv
  <2> QED
    BY <2>1, <2>3 DEF Gone
<1>3. BlankIsExplained'
  BY <1>2 DEF SlotsInv, BlankIsExplained
<1>4. OlderMeansRemoved'
  <2> SUFFICES ASSUME NEW i \in DOMAIN listed,
                      shown[i] \in Files, Newer(listed[i], shown[i])'
               PROVE  Gone(i)'
    BY DEF OlderMeansRemoved
  <2>1. i \in 1..Slots
    <3>1. PICK k \in 0..Slots : DOMAIN listed = 1..k
      BY DEF SlotsInv, ListingInv
    <3> QED
      BY <3>1, WallAssumption DEF WallAssumption
  <2>2. Newer(listed[i], shown[i])
    BY <2>1 DEF SlotsInv, ListingInv, Newer
  <2>3. Gone(i)
    BY <2>2 DEF SlotsInv, OlderMeansRemoved
  <2> QED
    BY <1>2, <2>3
<1> QED
  BY <1>1, <1>3, <1>4 DEF SlotsInv

(* The listing of the wall arrives when no slot shows anything yet.        *)
LEMMA ListStep ==
  ASSUME RecordsInv, SlotsInv, WallAssumption, List
  PROVE  SlotsInv'
<1>1. /\ listed' = Top(Slots) \/ listed' = <<>>
      /\ loaded' = TRUE
      /\ UNCHANGED <<createTime, record, removals, shown>>
      /\ listed = <<>>
  BY DEF List, SlotsInv, ListingInv
<1>2. \A i \in 1..Slots : shown[i] = "none"
  BY <1>1 DEF SlotsInv, ListingInv
<1>3. /\ \E k \in 0..Slots : DOMAIN listed' = 1..k
      /\ \A i \in DOMAIN listed' : listed'[i] \in infos
      /\ \A i, j \in DOMAIN listed' : i < j => Newer(listed'[i], listed'[j])
  <2>1. CASE listed' = Top(Slots)
    <3>1. /\ Cardinality(infos) \in Nat
          /\ DOMAIN listed' = 1..(IF Slots <= Cardinality(infos) THEN Slots ELSE Cardinality(infos))
          /\ \A i \in DOMAIN listed' : listed'[i] \in infos
      BY <2>1, NewestIsSorted DEF Top, RecordsInv, WallAssumption
    <3>2. \A i, j \in DOMAIN listed' : i < j => Newer(listed'[i], listed'[j])
      BY <2>1, EarlierIsNewer DEF Top, RecordsInv, WallAssumption
    <3>3. \E k \in 0..Slots : DOMAIN listed' = 1..k
      BY <3>1 DEF WallAssumption
    <3> QED
      BY <3>1, <3>2, <3>3
  <2>2. CASE listed' = <<>>
    <3>1. DOMAIN listed' = 1..0 /\ 0 \in 0..Slots
      BY <2>2 DEF WallAssumption
    <3>2. DOMAIN listed' = {}
      BY <3>1
    <3> QED
      BY <3>1, <3>2
  <2> QED
    BY <1>1, <2>1, <2>2
<1>4. \A i, j \in DOMAIN listed' : i < j => Newer(listed'[i], listed'[j])
  BY <1>3
<1>5. \E k \in 0..Slots : DOMAIN listed' = 1..k
  BY <1>3
<1>6. ListingInv'
  <2>1. \A i \in DOMAIN listed' : listed'[i] \in Files /\ record'[listed'[i]] \in Here
    BY <1>1, <1>3 DEF infos, Here
  <2>2. \A i, j \in DOMAIN listed' : i < j => Newer(listed[i], listed[j])'
    BY <1>1, <1>4 DEF Newer
  <2>3. DOMAIN shown' = 1..Slots
    BY <1>1 DEF SlotsInv, ListingInv
  <2>4. \A i \in 1..Slots : shown'[i] = "none" /\ shown'[i] \notin Files
    BY <1>1, <1>2 DEF WallAssumption
  <2> QED
    BY <1>1, <1>5, <2>1, <2>2, <2>3, <2>4 DEF ListingInv
<1>7. \A i \in DOMAIN listed' : shown'[i] = "none"
  BY <1>1, <1>2, <1>5
<1> QED
  BY <1>6, <1>7 DEF SlotsInv, BlankIsExplained, OlderMeansRemoved, WallAssumption

(* The answer for one slot, or the lack of one.                            *)
LEMMA FetchStep ==
  ASSUME RecordsInv, SlotsInv, WallAssumption, NEW i \in 1..Slots, Fetch(i)
  PROVE  SlotsInv'
<1>1. PICK got :
        /\ i \in DOMAIN listed
        /\ shown' = [shown EXCEPT ![i] = got]
        /\ UNCHANGED <<createTime, record, listed, loaded>>
        /\ unserved \subseteq unserved'
        /\ got = TopN(i) \/ (got \in {"empty", "error"} /\ i \in unserved')
  BY DEF Fetch
<1>2. /\ got \in infos \/ got \in {"empty", "error"}
      /\ got \in {"empty", "error"} => Gone(i) \/ i \in unserved'
      /\ got \in infos /\ Newer(listed[i], got) => Gone(i)
  <2>1. CASE got = TopN(i)
    BY <1>1, <2>1, SlotAnswered DEF SlotsInv
  <2>2. CASE got \in {"empty", "error"} /\ i \in unserved'
    BY <2>2 DEF infos, WallAssumption
  <2> QED
    BY <1>1, <2>1, <2>2
<1>3. /\ shown'[i] = got
      /\ \A j \in 1..Slots : j # i => shown'[j] = shown[j]
      /\ DOMAIN shown' = 1..Slots
  BY <1>1 DEF SlotsInv, ListingInv
<1>4. got \in Files <=> got \in infos
  BY <1>2 DEF infos, WallAssumption
<1>5. \A j : Gone(j)' <=> Gone(j)
  BY <1>1 DEF Gone, infos
<1>6. \A j \in 1..Slots : shown'[j] \in Files => record'[shown'[j]] \in Here
  BY <1>1, <1>3, <1>4 DEF SlotsInv, ListingInv, infos, Here
<1>7. ListingInv'
  BY <1>1, <1>3, <1>6 DEF SlotsInv, ListingInv, Newer
<1>8. \A j \in DOMAIN listed : j \in 1..Slots
  BY DEF SlotsInv, ListingInv
<1>9. BlankIsExplained'
  BY <1>1, <1>2, <1>3, <1>5, <1>8 DEF SlotsInv, BlankIsExplained
<1>10. OlderMeansRemoved'
  BY <1>1, <1>2, <1>3, <1>4, <1>5, <1>8 DEF SlotsInv, OlderMeansRemoved, Newer
<1> QED
  BY <1>7, <1>9, <1>10 DEF SlotsInv

LEMMA SlotsStep ==
  ASSUME RecordsInv, SlotsInv, WallAssumption, [Next]_vars
  PROVE  SlotsInv'
<1>1. CASE \E f \in Files : Stamp(f) \/ Save(f) \/ RemovePicture(f)
  <2>1. UNCHANGED <<listed, loaded, shown, unserved>>
    BY <1>1 DEF Stamp, Save, RemovePicture
  <2> QED
    BY <2>1, RecordsStep, PageUntouched
<1>2. CASE List
  BY <1>2, ListStep
<1>3. CASE \E i \in 1..Slots : Fetch(i)
  BY <1>3, FetchStep
<1>4. CASE SessionChanges \/ UNCHANGED vars
  <2>1. UNCHANGED <<listed, loaded, shown, unserved>>
    BY <1>4 DEF SessionChanges, vars
  <2> QED
    BY <2>1, RecordsStep, PageUntouched
<1> QED
  BY <1>1, <1>2, <1>3, <1>4 DEF Next

(* The inductive invariant of the wall.                                    *)
LEMMA WallInvariant == Spec => [](RecordsInv /\ SlotsInv)
<1>1. Init => RecordsInv /\ SlotsInv
  BY RecordsInit, SlotsInit, WallAssumption
<1>2. RecordsInv /\ SlotsInv /\ [Next]_vars => (RecordsInv /\ SlotsInv)'
  BY RecordsStep, SlotsStep, WallAssumption
<1> QED
  BY <1>1, <1>2, PTL DEF Spec

(* A slot of the wall stays without a picture only after a removal at or   *)
(* above its rank, or because its request found no user in the session or  *)
(* failed: uploads, and removals further down, never leave a slot blank.   *)
THEOREM BlankExplained == Spec => []BlankIsExplained
<1>1. RecordsInv /\ SlotsInv => BlankIsExplained
  BY DEF SlotsInv
<1> QED
  BY <1>1, WallInvariant, PTL

(* A slot shows a picture older than the one listed for it only after a    *)
(* removal: the i-th newest picture gets older in no other way.            *)
THEOREM OlderAfterRemoval == Spec => []OlderMeansRemoved
<1>1. RecordsInv /\ SlotsInv => OlderMeansRemoved
  BY DEF SlotsInv
<1> QED
  BY <1>1, WallInvariant, PTL

-----------------------------------------------------------------------------
(* The main page drives the wall as its own specification says: the covers *)
(* only read the records.  What holds of the wall thus holds on the page.  *)
THEOREM MainRefinesWall == MainSpec => Spec
<1>1. MainInit => Init
  BY DEF MainInit
<1>2. [MainNext]_mainVars => [Next]_vars
  BY DEF MainNext, mainVars, ComputeCategories, FetchCover
<1> QED
  BY <1>1, <1>2, PTL DEF MainSpec, Spec

(* Covers and what they could show are of pictures that were there.        *)
CoverType ==
  /\ cover \in [Categories -> Files \cup {"none", "asked", "empty", "error"}]
  /\ \A c \in Categories : cover[c] \in Files => record[cover[c]] \in Here
  /\ known \in SUBSET Files
  /\ \A f \in known : record[f] \in Here
  /\ ~laidOut => \A c \in Categories : cover[c] = "none"

CoversInv == CoverType /\ CoverIsNewest /\ BlankCoverIsExplained

LEMMA CoversInit == MainInit /\ WallAssumption => CoversInv
<1> SUFFICES ASSUME MainInit, WallAssumption
             PROVE  CoversInv
  OBVIOUS
<1>1. /\ cover \in [Categories -> {"none"}]
      /\ \A c \in Categories : cover[c] = "none" /\ cover[c] \notin Files
      /\ known = {}
  BY DEF MainInit, WallAssumption
<1> QED
  BY <1>1 DEF CoversInv, CoverType, CoverIsNewest, BlankCoverIsExplained

(* Steps of the wall and of the clients leave the covers as they are, and  *)
(* no step brings a picture back that was removed.                         *)
LEMMA CoversUntouched ==
  ASSUME RecordsInv, CoversInv, UNCHANGED coverVars,
         \A f \in Files : record[f] \in Here =>
           /\ record'[f] \in Here
           /\ createTime'[f] = createTime[f]
           /\ f \in infos' => f \in infos
  PROVE  CoversInv'
<1>1. cover' = cover /\ laidOut' = laidOut /\ known' = known /\ uncovered' = uncovered
  BY DEF coverVars
<1>2. CoverType'
  BY <1>1 DEF CoversInv, CoverType
<1>3. CoverIsNewest'
  <2> SUFFICES ASSUME NEW c \in Categories, cover[c] \in Files
               PROVE  /\ CategoryOf[cover[c]] = c
                      /\ \A f \in known \cap infos' :
                           CategoryOf[f] = c => ~Newer(f, cover[c])'
    BY <1>1 DEF CoverIsNewest
  <2>1. /\ CategoryOf[cover[c]] = c
        /\ \A f \in known \cap infos : CategoryOf[f] = c => ~Newer(f, cover[c])
    BY DEF CoversInv, CoverIsNewest
  <2>2. createTime'[cover[c]] = createTime[cover[c]]
    BY DEF CoversInv, CoverType
  <2>3. \A f \in known : createTime'[f] = createTime[f] /\ (f \in infos' => f \in infos)
    BY DEF CoversInv, CoverType
  <2> QED
    BY <1>1, <2>1, <2>2, <2>3 DEF Newer
<1>4. BlankCoverIsExplained'
  <2>1. \A f \in known : record[f] = "removed" => record'[f] = "removed"
    BY DEF CoversInv, CoverType, Here, infos
  <2> QED
    BY <1>1, <2>1 DEF CoversInv, BlankCoverIsExplained
<1> QED
  BY <1>2, <1>3, <1>4 DEF CoversInv

(* The blocks are laid out, and one cover or none is asked for.            *)
LEMMA LayOutStep ==
  ASSUME CoversInv, WallAssumption, MainAssumption, ComputeCategories
  PROVE  CoversInv'
<1>1. /\ cover' = LayOut \/ cover' = cover
      /\ laidOut' = TRUE
      /\ known' = {f \in infos : cover'[CategoryOf[f]] = "asked"}
      /\ UNCHANGED <<createTime, record>>
      /\ \A c \in Categories : cover[c] = "none"
  BY DEF ComputeCategories, vars, CoversInv, CoverType
<1>2. cover' \in [Categories -> {"asked", "none"}]
  BY <1>1 DEF LayOut, AppendBlock, CoversInv, CoverType
<1>3. \A c \in Categories : cover'[c] \notin Files /\ cover'[c] \notin {"empty", "error"}
  BY <1>2 DEF WallAssumption, MainAssumption
<1>4. known' \in SUBSET Files /\ \A f \in known' : record'[f] \in Here
  BY <1>1 DEF infos, Here
<1> QED
  BY <1>1, <1>2, <1>3, <1>4 DEF CoversInv, CoverType, CoverIsNewest, BlankCoverIsExplained

(* The answer for one cover is the newest picture of its category, and     *)
(* empty only if there is none.                                            *)
LEMMA CoverAnswered ==
  ASSUME RecordsInv, WallAssumption, NEW c
  PROVE  LET S == {f \in infos : CategoryOf[f] = c}
             top == TopOfCategory(1, c)
         IN  /\ top = <<>> => S = {}
             /\ top # <<>> => top[1] \in S /\ \A f \in S : ~Newer(f, top[1])
<1> DEFINE S == {f \in infos : CategoryOf[f] = c}
           top == TopOfCategory(1, c)
<1>1. S \in SUBSET infos
  OBVIOUS
<1>2. top = Newest(S, 1)
  BY DEF TopOfCategory
<1> HIDE DEF S, top
<1>3. /\ IsFiniteSet(S)
      /\ Cardinality(S) \in Nat
      /\ DOMAIN top = 1..(IF 1 <= Cardinality(S) THEN 1 ELSE Cardinality(S))
      /\ top \in Seq(S)
      /\ \A i \in DOMAIN top :
           /\ top[i] \in S
           /\ Cardinality({g \in S : Newer(g, top[i])}) = i - 1
  <2>1. 1 \in Nat /\ WallType /\ TimesDiffer
    BY DEF RecordsInv
  <2>2. /\ IsFiniteSet(S)
        /\ Cardinality(S) \in Nat
        /\ DOMAIN Newest(S, 1) = 1..(IF 1 <= Cardinality(S) THEN 1 ELSE Cardinality(S))
        /\ Newest(S, 1) \in Seq(S)
        /\ \A i \in DOMAIN Newest(S, 1) :
             /\ Newest(S, 1)[i] \in S
             /\ Cardinality({g \in S : Newer(g, Newest(S, 1)[i])}) = i - 1
    BY <1>1, <2>1, NewestIsSorted
  <2> QED
    BY <1>2, <2>2
<1>4. ASSUME top = <<>>
      PROVE  S = {}
  <2>1. 1 \notin DOMAIN top
    BY <1>4
  <2>2. Cardinality(S) = 0
    <3>1. ASSUME 1 <= Cardinality(S)
          PROVE  FALSE
      BY <1>3, <2>1, <3>1
    <3> QED
      BY <1>3, <3>1
  <2> QED
    BY <1>3, <2>2, FS_EmptySet
<1>5. ASSUME top # <<>>
      PROVE  top[1] \in S /\ \A f \in S : ~Newer(f, top[1])
  <2>1. 1 \in DOMAIN top
    BY <1>3, <1>5
  <2>2. top[1] \in S /\ Cardinality({g \in S : Newer(g, top[1])}) = 0
    <3>1. top[1] \in S /\ Cardinality({g \in S : Newer(g, top[1])}) = 1 - 1
      BY <1>3, <2>1
    <3> QED
      BY <3>1
  <2>3. IsFiniteSet({g \in S : Newer(g, top[1])})
    BY <1>3, FS_Subset
  <2>4. {g \in S : Newer(g, top[1])} = {}
    BY <2>2, <2>3, FS_EmptySet
  <2> QED
    BY <2>2, <2>4
<1> QED
  BY <1>4, <1>5 DEF S, top

LEMMA FetchCoverStep ==
  ASSUME RecordsInv, CoversInv, WallAssumption, NEW c \in Categories, FetchCover(c)
  PROVE  CoversInv'
<1> DEFINE S == {f \in infos : CategoryOf[f] = c}
           top == TopOfCategory(1, c)
<1>1. PICK got :
        /\ cover' = [cover EXCEPT ![c] = got]
        /\ UNCHANGED <<createTime, record, laidOut, known>>
        /\ cover[c] = "asked"
        /\ uncovered \subseteq uncovered'
        /\ \/ got = IF top = <<>> THEN "empty" ELSE top[1]
           \/ got \in {"empty", "error"} /\ c \in uncovered'
  BY DEF FetchCover, CoverOf, vars
<1>2. /\ top = <<>> => S = {}
      /\ top # <<>> => top[1] \in S /\ \A f \in S : ~Newer(f, top[1])
  BY CoverAnswered
<1>3. S = {f \in infos : CategoryOf[f] = c}
  OBVIOUS
<1> HIDE DEF S, top
<1>4. \/ /\ got \in {"empty", "error"} /\ got \notin Files
         /\ S = {} \/ c \in uncovered'
      \/ /\ got \in S /\ got \in infos /\ got \notin {"empty", "error"} /\ CategoryOf[got] = c
         /\ \A f \in S : ~Newer(f, got)
  <2>1. CASE got \in {"empty", "error"} /\ c \in uncovered'
    BY <2>1 DEF WallAssumption
  <2>2. CASE top = <<>> /\ got = "empty"
    BY <1>2, <2>2 DEF WallAssumption
  <2>3. CASE top # <<>> /\ got = top[1]
    <3>1. got \in S /\ \A f \in S : ~Newer(f, got)
      BY <1>2, <2>3
    <3>2. got \in infos /\ CategoryOf[got] = c
      BY <1>3, <3>1
    <3>3. got \notin {"empty", "error"}
      BY <3>2 DEF WallAssumption, infos
    <3> QED
      BY <3>1, <3>2, <3>3
  <2> QED
    BY <1>1, <2>1, <2>2, <2>3
<1>5. /\ DOMAIN cover = Categories
      /\ cover'[c] = got
      /\ \A d \in Categories : d # c => cover'[d] = cover[d]
  BY <1>1 DEF CoversInv, CoverType
<1>6. laidOut
  BY <1>1 DEF CoversInv, CoverType
<1>7. CoverType'
  BY <1>1, <1>4, <1>5, <1>6 DEF CoversInv, CoverType, infos, Here
<1>8. CoverIsNewest'
  <2> SUFFICES ASSUME NEW d \in Categories, cover'[d] \in Files
               PROVE  /\ CategoryOf[cover'[d]] = d
                      /\ \A f \in known \cap infos :
                           CategoryOf[f] = d => ~Newer(f, cover'[d])
    BY <1>1 DEF CoverIsNewest, Newer, infos
  <2>1. CASE d = c
    BY <1>3, <1>4, <1>5, <2>1
  <2>2. CASE d # c
    BY <1>5, <2>2 DEF CoversInv, CoverIsNewest
  <2> QED
    BY <2>1, <2>2
<1>9. BlankCoverIsExplained'
  <2> SUFFICES ASSUME NEW d \in Categories, cover'[d] \in {"empty", "error"},
                      NEW f \in known, CategoryOf[f] = d, d \notin uncovered'
               PROVE  record[f] = "removed"
    BY <1>1 DEF BlankCoverIsExplained
  <2>1. CASE d = c
    <3>1. f \notin infos
      BY <1>3, <1>4, <1>5, <2>1
    <3> QED
      BY <3>1 DEF infos, CoversInv, CoverType, Here
  <2>2. CASE d # c
    BY <1>1, <1>5, <2>2 DEF CoversInv, BlankCoverIsExplained
  <2> QED
    BY <2>1, <2>2
<1> QED
  BY <1>7, <1>8, <1>9 DEF CoversInv

LEMMA CoversStep ==
  ASSUME RecordsInv, CoversInv, WallAssumption, MainAssumption, [MainNext]_mainVars
  PROVE  CoversInv'
<1>1. CASE Next /\ UNCHANGED coverVars
  BY <1>1, RecordsStep, CoversUntouched
<1>2. CASE ComputeCategories
  BY <1>2, LayOutStep
<1>3. CASE \E c \in Categories : FetchCover(c)
  BY <1>3, FetchCoverStep
<1>4. CASE UNCHANGED mainVars
  <2>1. UNCHANGED vars /\ UNCHANGED coverVars
    BY <1>4 DEF mainVars
  <2> QED
    BY <2>1, RecordsStep, CoversUntouched
<1> QED
  BY <1>1, <1>2, <1>3, <1>4 DEF MainNext

(* The inductive invariant of the covers, on top of that of the wall.      *)
LEMMA CoversInvariant == MainSpec => []CoversInv
<1>1. MainInit => CoversInv
  BY CoversInit, WallAssumption
<1>2. RecordsInv /\ SlotsInv /\ CoversInv /\ [MainNext]_mainVars => CoversInv'
  BY CoversStep, WallAssumption, MainAssumption
<1> QED
  BY <1>1, <1>2, MainRefinesWall, WallInvariant, PTL DEF MainSpec

(* A cover is of its category and the newest of those that were there when *)
(* the page was laid out and still are, whatever is uploaded and removed   *)
(* before the request for it is answered.                                  *)
THEOREM CoverStaysNewest == MainSpec => []CoverIsNewest
<1>1. CoversInv => CoverIsNewest
  BY DEF CoversInv
<1> QED
  BY <1>1, CoversInvariant, PTL

(* A cover that was asked for stays blank only if all pictures that the    *)
(* category had were removed before the request for it, or because that    *)
(* request found no user in the session or failed.                         *)
THEOREM BlankCoverExplained == MainSpec => []BlankCoverIsExplained
<1>1. CoversInv => BlankCoverIsExplained
  BY DEF CoversInv
<1> QED
  BY <1>1, CoversInvariant, PTL
=============================================================================
