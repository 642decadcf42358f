--------------------------- MODULE LeakBucketProofs ---------------------------
(***************************************************************************)
(* The leaky bucket keeps its rate for every qps, every length of a second *)
(* and every clock, one that is set back or ahead included; so it does     *)
(* next to the counting limiter, and the counting limiter next to it.      *)
(***************************************************************************)
EXTENDS Limiters, TLAPS

(* What a second is worth to the bucket over the time the observer looks.  *)
owed == (capacity * Grain) * ((time - since) + skipped)
slack == (2 * Rounding) * calls

(* Why it does: what was let in since the observer began is either still   *)
(* in the bucket or has leaked out while he watched, up to two errors for  *)
(* every call.  What leaked since the last call is taken off left already; *)
(* setting the clock back only makes that smaller, and setting it ahead    *)
(* costs what the promise allows for it.                                   *)
LevelInv ==
  /\ time \in Int /\ since \in Int /\ since <= time /\ skipped \in Nat /\ calls \in Nat
  /\ admitted \in Nat /\ clock \in Int /\ lastTime \in Int /\ remainWater \in Int
  /\ admitted > 0 => admitted * Drop <= left + owed + slack

LEMMA LevelTypes ==
  ASSUME ClockAssumption, RoundingAssumption, LevelInv
  PROVE  /\ qps \in Nat /\ qps >= 1 /\ Grain \in Nat /\ Drop \in Nat /\ Drop <= qps * Drop
         /\ qps * Drop \in Nat /\ admitted * Drop \in Nat /\ capacity * Grain \in Nat
         /\ outWater \in Int /\ left \in Int /\ owed \in Nat /\ slack \in Nat
         /\ admitted = 0 => admitted * Drop = 0
         /\ (admitted + 1) * Drop = admitted * Drop + Drop
         /\ \A e \in Errors : e \in Int /\ e <= Rounding /\ -Rounding <= e
<1>1. /\ qps \in Nat /\ qps >= 1 /\ Second \in Nat /\ Grain \in Nat /\ Rounding \in Nat
      /\ skipped \in Nat /\ calls \in Nat /\ admitted \in Nat
      /\ (time - since) + skipped \in Nat /\ clock - lastTime \in Int /\ remainWater \in Int
  BY DEF ClockAssumption, RoundingAssumption, LevelInv
<1>2. Drop \in Nat /\ capacity * Grain \in Nat /\ 2 * Rounding \in Nat
  BY <1>1 DEF Drop, capacity
<1>3. outWater \in Int /\ owed \in Nat /\ slack \in Nat
  BY <1>1, <1>2 DEF outWater, owed, slack
<1>4. Drop <= qps * Drop /\ qps * Drop \in Nat /\ admitted * Drop \in Nat
      /\ (admitted + 1) * Drop = admitted * Drop + Drop /\ (admitted = 0 => admitted * Drop = 0)
  BY <1>1, <1>2
<1>5. left \in Int
  BY <1>1, <1>3 DEF left
<1>6. \A e \in Errors : e \in Int /\ e <= Rounding /\ -Rounding <= e
  BY <1>1 DEF Errors
<1>. QED  BY <1>1, <1>2, <1>3, <1>4, <1>5, <1>6

(* The arithmetic of a call that lets a request in: what was let in        *)
(* before, in grains, the level the call leaves, and the two errors.       *)
LEMMA DropArithmetic ==
  ASSUME NEW before \in Nat, NEW drop \in Nat, NEW l \in Int, NEW o \in Nat, NEW s \in Nat,
         NEW r \in Nat, NEW e \in Int, NEW f \in Int, NEW after \in Int,
         e <= r, -r <= e, -r <= f,
         before = 0 \/ before <= l + o + s,
         (l + e < 0 /\ after = drop) \/ (l + e >= 0 /\ after = l + e + drop + f)
  PROVE  before + drop <= after + o + s + 2 * r
OBVIOUS

(* A call: it answers at the time of the clock, and is counted.            *)
LEMMA CallStep ==
  ASSUME ClockAssumption, RoundingAssumption, LevelInv, tryAcquire
  PROVE  LevelInv' /\ (RateOK!Admit \/ RateOK!Refuse)
<1>1. PICK e \in Errors, f \in Errors : Dry(e) \/ Fits(e, f) \/ Full(e, f)
  BY DEF tryAcquire
<1>2. /\ UNCHANGED <<time, since, skipped, clock>> /\ lastTime' = clock /\ calls' = calls + 1
      /\ remainWater' \in Int
  <2>1. UNCHANGED <<time, since, skipped, clock>>
    BY <1>1 DEF Dry, Fits, Full, Answer
  <2>2. remainWater' \in {Drop, left + e + Drop + f, left + e}
    BY <1>1 DEF Dry, Fits, Full
  <2>3. e \in Int /\ f \in Int /\ Drop \in Int /\ left \in Int
    BY LevelTypes
  <2>4. remainWater' \in Int
    BY <2>2, <2>3
  <2>. QED  BY <2>1, <2>4 DEF tryAcquire
<1>3. left' = remainWater' /\ owed' = owed /\ slack' = slack + 2 * Rounding /\ Rounding \in Nat
  <2>1. (clock - clock) * (capacity * Grain) = 0
    BY LevelTypes DEF LevelInv
  <2>2. outWater' = 0
    BY <1>2, <2>1 DEF outWater, capacity
  <2>3. (2 * Rounding) * (calls + 1) = (2 * Rounding) * calls + 2 * Rounding /\ Rounding \in Nat
    BY DEF LevelInv, RoundingAssumption
  <2>4. left' = remainWater'
    <3>1. left' = remainWater' - 0
      BY <2>2 DEF left
    <3>2. \A w \in Int : w - 0 = w
      OBVIOUS
    <3>. QED  BY <1>2, <3>1, <3>2
  <2>5. owed' = owed
    BY <1>2 DEF owed, capacity
  <2>6. slack' = slack + 2 * Rounding
    BY <1>2, <2>3 DEF slack
  <2>. QED  BY <2>3, <2>4, <2>5, <2>6
<1>4. /\ e \in Int /\ e <= Rounding /\ -Rounding <= e
      /\ f \in Int /\ f <= Rounding /\ -Rounding <= f
  BY LevelTypes
<1>5. admitted > 0 => admitted * Drop <= left + owed + slack
  BY DEF LevelInv
<1>6. CASE Dry(e) \/ Fits(e, f)
  <2>1. admitted' = admitted + 1
    BY <1>6 DEF Dry, Fits, Answer
  <2>2. (admitted + 1) * Drop <= remainWater' + owed + slack + 2 * Rounding
    <3>1. \/ left + e < 0 /\ remainWater' = Drop
          \/ left + e >= 0 /\ remainWater' = left + e + Drop + f
      <4>1. CASE Dry(e)
        BY <4>1 DEF Dry
      <4>2. CASE Fits(e, f)
        BY <4>2 DEF Fits
      <4>. QED  BY <1>6, <4>1, <4>2
    <3>2. admitted * Drop = 0 \/ admitted * Drop <= left + owed + slack
      BY <1>5, LevelTypes DEF LevelInv
    <3>3. admitted * Drop + Drop <= remainWater' + owed + slack + 2 * Rounding
      BY <1>2, <1>3, <1>4, <3>1, <3>2, LevelTypes, DropArithmetic
    <3>. QED  BY <3>3, LevelTypes
  <2>3. remainWater' <= qps * Drop
    <3>1. remainWater' = Drop \/ remainWater' <= qps * Drop
      BY <1>6 DEF Dry, Fits, capacity
    <3>. QED  BY <1>2, <3>1, LevelTypes
  <2>4. (admitted + 1) * Drop <= left' + owed' + slack'
    BY <1>2, <1>3, <2>2, LevelTypes
  <2>5. LevelInv'
    BY <1>2, <2>1, <2>4 DEF LevelInv, Drop
  <2>6. (admitted + 1) * Drop <= qps * Drop + owed + (slack + 2 * Rounding)
    BY <1>2, <1>3, <2>2, <2>3, LevelTypes
  <2>7. slack + 2 * Rounding = (2 * Rounding) * (calls + 1)
    BY DEF LevelInv, RoundingAssumption, slack
  <2>8. (admitted + 1) * (Second * Grain)
          <= capacity * (Second * Grain) + qps * Grain * (time - since + skipped)
               + 2 * Rounding * (calls + 1)
    BY <2>6, <2>7 DEF Drop, owed, capacity
  <2>9. RateOK!Admit
    BY <1>2, <2>1, <2>8 DEF RateOK!Admit
  <2>. QED  BY <2>5, <2>9
<1>7. CASE Full(e, f)
  <2>1. admitted' = admitted /\ remainWater' = left + e
    BY <1>7 DEF Full, Answer
  <2>2. admitted > 0 => admitted * Drop <= left' + owed' + slack'
    BY <1>3, <1>4, <1>5, <2>1, LevelTypes
  <2>3. LevelInv'
    BY <1>2, <2>1, <2>2 DEF LevelInv, Drop
  <2>. QED  BY <1>2, <2>1, <2>3 DEF RateOK!Refuse
<1>. QED  BY <1>1, <1>6, <1>7

(* The clock runs on, or is set.                                           *)
LEMMA ClockMoves ==
  ASSUME ClockAssumption, RoundingAssumption, LevelInv, ClockStep, UNCHANGED <<remainWater, history>>
  PROVE  LevelInv' /\ [RateOK!Next]_(RateOK!rate)
<1>. USE DEF history
<1>1. ASSUME NEW d \in Int, clock' = clock + d, UNCHANGED lastTime
      PROVE  left' = left - d * (capacity * Grain) /\ d * (capacity * Grain) \in Int
  <2>1. outWater' = outWater + d * (capacity * Grain)
    BY <1>1, LevelTypes DEF LevelInv, outWater, capacity
  <2>2. d * (capacity * Grain) \in Int
    BY LevelTypes
  <2>. QED  BY <2>1, <2>2, LevelTypes DEF left, LevelInv
<1>2. ASSUME NEW d \in Nat, d >= 1, clock' = clock + d,
             (time' = time + d /\ skipped' = skipped) \/ (time' = time /\ skipped' = skipped + d),
             UNCHANGED <<since, admitted, lastTime>>
      PROVE  LevelInv' /\ RateOK!Next
  <2>1. (time' - since') + skipped' = ((time - since) + skipped) + d
    BY <1>2 DEF LevelInv
  <2>2. owed' = owed + d * (capacity * Grain)
    BY <1>2, <2>1, LevelTypes DEF owed, LevelInv, capacity
  <2>3. left' + owed' + slack' = left + owed + slack
    BY <1>1, <1>2, <2>2, LevelTypes DEF slack
  <2>4. LevelInv'
    BY <1>2, <2>3 DEF LevelInv, Drop
  <2>. QED  BY <1>2, <2>4 DEF LevelInv, RateOK!Next, RateOK!Pass, RateOK!Skip
<1>3. ASSUME NEW d \in StepsBack, SetBack(d)
      PROVE  LevelInv' /\ UNCHANGED RateOK!rate
  <2>1. d \in Nat /\ -d \in Int /\ clock' = clock + (-d) /\ UNCHANGED <<observer, lastTime>>
    BY <1>3 DEF SetBack, ClockAssumption, LevelInv
  <2>2. (-d) * (capacity * Grain) <= 0
    BY <2>1, LevelTypes
  <2>3. left' >= left /\ left' \in Int
    BY <1>1, <2>1, <2>2, LevelTypes
  <2>4. owed' = owed /\ slack' = slack
    BY <2>1 DEF owed, slack, observer, capacity
  <2>5. admitted > 0 => admitted * Drop <= left' + owed' + slack'
    <3>1. admitted > 0 => admitted * Drop <= left + owed + slack
      BY DEF LevelInv
    <3>. QED  BY <2>3, <2>4, <3>1, LevelTypes
  <2>6. LevelInv'
    BY <2>1, <2>5 DEF LevelInv, observer, Drop
  <2>. QED  BY <2>1, <2>6 DEF observer, RateOK!rate
<1>4. ASSUME NEW d \in Nat, d >= 1, Tick(d)
      PROVE  LevelInv' /\ RateOK!Next
  <2>1. /\ clock' = clock + d /\ time' = time + d /\ skipped' = skipped
        /\ UNCHANGED <<since, admitted, lastTime>>
    BY <1>4 DEF Tick
  <2>. QED  BY <1>2, <1>4, <2>1
<1>5. ASSUME NEW d \in StepsAhead, SetAhead(d)
      PROVE  LevelInv' /\ RateOK!Next
  <2>1. d \in Nat /\ d >= 1
    BY DEF ClockAssumption
  <2>. QED  BY <1>2, <1>5, <2>1 DEF SetAhead
<1>6. \A d \in 1..Second : d \in Nat /\ d >= 1
  BY DEF ClockAssumption
<1>. QED  BY <1>3, <1>4, <1>5, <1>6 DEF ClockStep

LEMMA LevelStep ==
  ASSUME ClockAssumption, RoundingAssumption, LevelInv, [Next]_vars
  PROVE  LevelInv' /\ [RateOK!Next]_(RateOK!rate)
<1>1. CASE tryAcquire
  BY <1>1, CallStep DEF RateOK!Next
<1>2. CASE ClockStep /\ UNCHANGED <<remainWater, history>>
  BY <1>2, ClockMoves
<1>3. CASE Observe /\ calls' = 0 /\ UNCHANGED <<remainWater, admittedAt, refused>>
  BY <1>3 DEF Observe, LevelInv, RateOK!Next, RateOK!Count
<1>4. CASE UNCHANGED vars
  BY <1>4 DEF vars, observer, history, LevelInv, outWater, left, owed, slack, Drop, capacity,
              RateOK!rate
<1>. QED  BY <1>1, <1>2, <1>3, <1>4 DEF Next

(* Limits: from any moment on the bucket lets in at most qps requests plus *)
(* qps per second, and what rounding adds; this is what                    *)
(* PaymentController.pay relies on to shield the order service.            *)
THEOREM KeepsRate == Spec => Limits
<1>1. Init => LevelInv /\ RateOK!Init
  BY ClockAssumption, RoundingAssumption
     DEF Init, ClockInit, LevelInv, ClockAssumption, RoundingAssumption, RateOK!Init, capacity, Drop
<1>2. LevelInv /\ [Next]_vars => LevelInv' /\ [RateOK!Next]_(RateOK!rate)
  BY LevelStep, ClockAssumption, RoundingAssumption
<1>. QED  BY <1>1, <1>2, PTL DEF Spec, Limits, RateOK!Spec

-----------------------------------------------------------------------------
LEMMA BucketTypeInit == Init => TypeOK
<1>. SUFFICES ASSUME Init
              PROVE  TypeOK
  OBVIOUS
<1>1. qps * (Second * Grain) \in Nat
  BY ClockAssumption, RoundingAssumption DEF ClockAssumption, RoundingAssumption
<1>2. remainWater \in Nat
  BY <1>1 DEF Init, capacity, Drop
<1>. QED
  BY <1>2, ClockAssumption, RoundingAssumption
     DEF Init, ClockInit, TypeOK, ClockType, ClockAssumption, RoundingAssumption

LEMMA BucketTypeStep ==
  ASSUME ClockAssumption, RoundingAssumption, TypeOK, [Next]_vars
  PROVE  TypeOK'
<1>1. /\ time \in Nat /\ time <= MaxTime /\ since \in 0..time /\ skipped \in 0..MaxSkew
      /\ Second \in Nat /\ Second >= 1 /\ MaxTime \in Nat /\ MaxSkew \in Nat /\ MaxCalls \in Nat
      /\ remainWater \in Nat /\ clock \in Nat /\ lastTime \in Nat /\ admitted \in Nat
      /\ calls \in 0..MaxCalls /\ admittedAt \in Nat /\ refused \in 0..MaxCalls
  BY DEF ClockAssumption, RoundingAssumption, TypeOK, ClockType
<1>2. CASE tryAcquire
  <2>1. PICK e \in Errors, f \in Errors :
          \/ (Dry(e) \/ Fits(e, f)) /\ admittedAt' = clock /\ refused' = 0
          \/ Full(e, f) /\ refused < MaxCalls /\ refused' = refused + 1 /\ UNCHANGED admittedAt
    BY <1>2 DEF tryAcquire
  <2>2. Drop \in Nat /\ f \in Int /\ Drop + f >= 0 /\ left \in Int /\ e \in Int
    <3>1. Second * Grain \in Nat /\ Grain <= Second * Grain
      BY <1>1 DEF RoundingAssumption
    <3>2. f \in Int /\ e \in Int /\ f + Grain >= 0
      BY DEF Errors, RoundingAssumption
    <3>3. capacity * Grain \in Int
      BY DEF ClockAssumption, RoundingAssumption, capacity
    <3>4. left \in Int
      BY <1>1, <3>3 DEF left, outWater
    <3>. QED  BY <3>1, <3>2, <3>4 DEF Drop, RoundingAssumption
  <2>3. remainWater' \in Nat
    <3>1. \/ remainWater' = Drop
          \/ left + e >= 0 /\ remainWater' = left + e + Drop + f
          \/ left + e >= 0 /\ remainWater' = left + e
      BY <2>1 DEF Dry, Fits, Full
    <3>. HIDE DEF Drop, left
    <3>. QED  BY <2>2, <3>1
  <2>4. /\ admitted' \in Nat /\ UNCHANGED <<time, since, skipped, clock>>
    BY <1>1, <2>1 DEF Dry, Fits, Full, Answer
  <2>5. admittedAt' \in Nat /\ refused' \in 0..MaxCalls
    BY <1>1, <2>1
  <2>6. lastTime' = clock /\ calls' = calls + 1 /\ calls < MaxCalls
    BY <1>2 DEF tryAcquire
  <2>. QED  BY <1>1, <2>3, <2>4, <2>5, <2>6 DEF TypeOK, ClockType
<1>3. ASSUME ClockStep, UNCHANGED <<remainWater, history>>
      PROVE  TypeOK'
  <2>1. ASSUME NEW d \in 1..Second, Tick(d)
        PROVE  TypeOK'
    BY <1>1, <1>3, <2>1 DEF Tick, TypeOK, ClockType, history
  <2>2. ASSUME NEW d \in StepsBack, SetBack(d)
        PROVE  TypeOK'
    <3>1. d \in Nat
      BY DEF ClockAssumption
    <3>. QED  BY <1>1, <1>3, <2>2, <3>1 DEF SetBack, TypeOK, ClockType, history, observer
  <2>3. ASSUME NEW d \in StepsAhead, SetAhead(d)
        PROVE  TypeOK'
    <3>1. d \in Nat
      BY DEF ClockAssumption
    <3>. QED  BY <1>1, <1>3, <2>3, <3>1 DEF SetAhead, TypeOK, ClockType, history
  <2>. QED  BY <1>3, <2>1, <2>2, <2>3 DEF ClockStep
<1>4. CASE Observe /\ calls' = 0 /\ UNCHANGED <<remainWater, admittedAt, refused>>
  BY <1>1, <1>4 DEF Observe, TypeOK, ClockType
<1>5. CASE UNCHANGED vars
  BY <1>5 DEF vars, observer, history, TypeOK, ClockType
<1>. QED  BY <1>2, <1>3, <1>4, <1>5 DEF Next

(* The level of the bucket never falls below zero, whichever way a sum is  *)
(* rounded, and the observer and the clock stay within their bounds.       *)
THEOREM BucketTypeCorrect == Spec => []TypeOK
<1>1. Init => TypeOK
  BY BucketTypeInit
<1>2. TypeOK /\ [Next]_vars => TypeOK'
  BY BucketTypeStep, ClockAssumption, RoundingAssumption
<1>. QED  BY <1>1, <1>2, PTL DEF Spec

-----------------------------------------------------------------------------
(* Why a steady caller is served.  The level is at most what the last      *)
(* request let in left of the bucket, less all that leaked since by the    *)
(* clock, plus an error for every call refused in between: what a clock    *)
(* set back pours in leaks out again before it shows the same time.        *)
SteadyInv ==
  remainWater <= capacity * Drop - (lastTime - admittedAt) * (capacity * Grain) + refused * Rounding

LEMMA SteadyTypes ==
  ASSUME ClockAssumption, RoundingAssumption, TypeOK
  PROVE  /\ Drop \in Nat /\ capacity * Drop \in Nat /\ Drop <= capacity * Drop
         /\ capacity * Grain \in Nat /\ refused * Rounding \in Nat /\ Rounding \in Nat
         /\ remainWater \in Nat /\ clock \in Nat /\ lastTime \in Nat /\ admittedAt \in Nat
         /\ refused \in Nat
         /\ (lastTime - admittedAt) * (capacity * Grain) \in Int
         /\ (clock - admittedAt) * (capacity * Grain) \in Int
         /\ outWater \in Int
         /\ outWater + (lastTime - admittedAt) * (capacity * Grain)
               = (clock - admittedAt) * (capacity * Grain)
         /\ \A e \in Errors : e \in Int /\ e <= Rounding
<1>1. /\ qps \in Nat /\ qps >= 1 /\ Second \in Nat /\ Grain \in Nat /\ Rounding \in Nat
      /\ remainWater \in Nat /\ clock \in Nat /\ lastTime \in Nat /\ admittedAt \in Nat
      /\ refused \in Nat
  BY DEF ClockAssumption, RoundingAssumption, TypeOK, ClockType
<1>2. Drop \in Nat /\ capacity * Grain \in Nat
  BY <1>1 DEF Drop, capacity
<1>3. capacity * Drop \in Nat /\ Drop <= capacity * Drop /\ refused * Rounding \in Nat
  BY <1>1, <1>2 DEF capacity
<1>4. ASSUME NEW leak \in Nat
      PROVE  /\ (clock - lastTime) * leak \in Int /\ (clock - admittedAt) * leak \in Int
             /\ (lastTime - admittedAt) * leak \in Int
             /\ (clock - lastTime) * leak + (lastTime - admittedAt) * leak
                   = (clock - admittedAt) * leak
  BY <1>1
<1>5. \A e \in Errors : e \in Int /\ e <= Rounding
  BY <1>1 DEF Errors
<1>. QED  BY <1>1, <1>2, <1>3, <1>4, <1>5 DEF outWater

LEMMA SteadyStep ==
  ASSUME ClockAssumption, RoundingAssumption, TypeOK, SteadyInv, [Next]_vars
  PROVE  SteadyInv'
<1>1. CASE tryAcquire
  <2>1. PICK e \in Errors, f \in Errors :
          \/ (Dry(e) \/ Fits(e, f)) /\ admittedAt' = clock /\ refused' = 0
          \/ Full(e, f) /\ refused' = refused + 1 /\ UNCHANGED admittedAt
    BY <1>1 DEF tryAcquire
  <2>2. lastTime' = clock
    BY <1>1 DEF tryAcquire
  <2>3. CASE (Dry(e) \/ Fits(e, f)) /\ admittedAt' = clock /\ refused' = 0
    <3>1. remainWater' = Drop \/ remainWater' <= capacity * Drop
      BY <2>3 DEF Dry, Fits
    <3>2. remainWater' <= capacity * Drop
      BY <3>1, SteadyTypes
    <3>3. (clock - clock) * (capacity * Grain) = 0 /\ 0 * Rounding = 0
      BY SteadyTypes
    <3>4. remainWater' <= capacity * Drop - (clock - clock) * (capacity * Grain) + 0 * Rounding
      BY <3>1, <3>2, <3>3, SteadyTypes
    <3>. QED  BY <2>2, <2>3, <3>4 DEF SteadyInv, capacity, Drop
  <2>4. CASE Full(e, f) /\ refused' = refused + 1 /\ UNCHANGED admittedAt
    <3>1. remainWater' = remainWater - outWater + e
      BY <2>4 DEF Full, left
    <3>2. (refused + 1) * Rounding = refused * Rounding + Rounding
      BY SteadyTypes
    <3>3. remainWater' <= capacity * Drop - (clock - admittedAt) * (capacity * Grain)
                            + (refused + 1) * Rounding
      BY <3>1, <3>2, SteadyTypes DEF SteadyInv
    <3>. QED  BY <2>2, <2>4, <3>3 DEF SteadyInv, capacity, Drop
  <2>. QED  BY <2>1, <2>3, <2>4
<1>2. ASSUME UNCHANGED <<remainWater, lastTime, admittedAt, refused>>
      PROVE  SteadyInv'
  BY <1>2 DEF SteadyInv, capacity, Drop
<1>3. ASSUME ClockStep \/ Observe
      PROVE  UNCHANGED lastTime
  BY <1>3 DEF ClockStep, Tick, SetBack, SetAhead, Observe
<1>. QED  BY <1>1, <1>2, <1>3 DEF Next, vars, history

LEMMA SteadyFits ==
  ASSUME ClockAssumption, RoundingAssumption, TypeOK, SteadyInv
  PROVE  SteadyRate
<1>. SUFFICES ASSUME (clock - admittedAt) * (capacity * Grain) >= Drop + (refused + 2) * Rounding,
                     NEW e \in Errors, NEW f \in Errors
              PROVE  left + e + Drop + f <= capacity * Drop
  BY DEF SteadyRate
<1>1. (refused + 2) * Rounding = refused * Rounding + Rounding + Rounding
  BY SteadyTypes
<1>2. left = remainWater - outWater
  BY DEF left
<1>3. /\ e \in Int /\ e <= Rounding /\ f \in Int /\ f <= Rounding
  BY SteadyTypes
<1>. HIDE DEF left, Drop, capacity, outWater
<1>. QED  BY <1>1, <1>2, <1>3, SteadyTypes DEF SteadyInv

(* A request that comes 1/qps of a second of the clock after the last one  *)
(* let in, and as much later as rounding may cost in the calls since,      *)
(* finds room, however many were rejected in between and however the clock *)
(* was set: the calls that LeakBucketLimiter rejects let water leak like   *)
(* the others.                                                             *)
THEOREM SteadyCallerServed == Spec => []SteadyRate
<1>1. Init => SteadyInv
  <2>1. ASSUME Init
        PROVE  SteadyInv
    <3>1. TypeOK
      BY <2>1, BucketTypeInit
    <3>2. lastTime = 0 /\ admittedAt = Epoch /\ Epoch \in Nat /\ remainWater = capacity * Drop
      BY <2>1, ClockAssumption DEF Init, ClockInit, ClockAssumption
    <3>3. (0 - Epoch) * (capacity * Grain) <= 0
      BY <3>1, <3>2, SteadyTypes, ClockAssumption, RoundingAssumption
    <3>. QED  BY <3>1, <3>2, <3>3, SteadyTypes, ClockAssumption, RoundingAssumption DEF SteadyInv
  <2>. QED  BY <2>1
<1>2. TypeOK /\ SteadyInv /\ [Next]_vars => SteadyInv'
  BY SteadyStep, ClockAssumption, RoundingAssumption
<1>3. TypeOK /\ SteadyInv => SteadyRate
  BY SteadyFits, ClockAssumption, RoundingAssumption
<1>. QED  BY <1>1, <1>2, <1>3, BucketTypeCorrect, PTL DEF Spec

-----------------------------------------------------------------------------
(* The two limiters side by side: each step of the pair is one of each, or *)
(* leaves the other alone.                                                 *)
CountProofs == INSTANCE CountLimiterProofs WITH lastTime <- countTime, admitted <- countAdmitted

LEMMA BucketSideStep ==
  ASSUME [BothNext]_<<vars, countVars>>
  PROVE  [Next]_vars
  BY DEF BothNext, ClockBoth, Next, ClockStep, countVars, vars

(* What is proved of the leaky bucket holds of it in the pair.             *)
THEOREM BucketInPair == BothSpec => Spec
<1>1. BothInit => Init
  BY DEF BothInit
<1>2. [BothNext]_<<vars, countVars>> => [Next]_vars
  BY BucketSideStep
<1>. QED  BY <1>1, <1>2, PTL DEF BothSpec, Spec

LEMMA CounterSideStep ==
  ASSUME [BothNext]_<<vars, countVars>>
  PROVE  [CountProofs!Next]_(CountProofs!vars)
<1>1. ASSUME Counter!tryAcquire
      PROVE  CountProofs!Next
  BY <1>1 DEF CountProofs!Next, CountProofs!tryAcquire, CountProofs!Open, CountProofs!Within,
              CountProofs!Refuse, CountProofs!Answer, Counter!tryAcquire, Counter!Open,
              Counter!Within, Counter!Refuse, Counter!Answer
<1>2. ASSUME ClockBoth \/ Counter!Observe, UNCHANGED count
      PROVE  CountProofs!Next
  BY <1>2 DEF ClockBoth, CountProofs!Next, CountProofs!ClockStep, CountProofs!Tick,
              CountProofs!SetBack, CountProofs!SetAhead, CountProofs!Observe, CountProofs!observer,
              Counter!Tick, Counter!SetBack, Counter!SetAhead, Counter!Observe, Counter!observer
<1>3. ASSUME tryAcquire, UNCHANGED countVars
      PROVE  UNCHANGED CountProofs!vars
  <2>1. UNCHANGED <<time, since, skipped, clock>>
    BY <1>3 DEF tryAcquire, Dry, Fits, Full, Answer
  <2>. QED  BY <1>3, <2>1 DEF countVars, CountProofs!vars, CountProofs!observer
<1>4. ASSUME UNCHANGED <<vars, countVars>>
      PROVE  UNCHANGED CountProofs!vars
  BY <1>4 DEF vars, observer, countVars, CountProofs!vars, CountProofs!observer
<1>. QED  BY <1>1, <1>2, <1>3, <1>4 DEF BothNext

(* CountLimits: next to the leaky bucket, and with a clock that may be set *)
(* either way, the counting limiter lets in at most 2 * qps requests plus  *)
(* qps a second, from whatever moment on one counts.                       *)
THEOREM PairKeepsCountRate == BothSpec => CountLimits
<1>1. BothInit => CountProofs!CountInv /\ Counter!RateOK!Init
  BY ClockAssumption
     DEF BothInit, Counter!Init, Counter!ClockInit, CountProofs!CountInv, Counter!RateOK!Init,
         ClockAssumption
<1>2. CountProofs!CountInv /\ [BothNext]_<<vars, countVars>>
        => CountProofs!CountInv' /\ [Counter!RateOK!Next]_(Counter!RateOK!rate)
  <2>1. ASSUME CountProofs!CountInv, [BothNext]_<<vars, countVars>>
        PROVE  CountProofs!CountInv' /\ [CountProofs!RateOK!Next]_(CountProofs!RateOK!rate)
    BY <2>1, CounterSideStep, CountProofs!CountStep, ClockAssumption
       DEF CountProofs!ClockAssumption, ClockAssumption
  <2>. QED
    BY <2>1
       DEF CountProofs!RateOK!Next, CountProofs!RateOK!rate, CountProofs!RateOK!Pass,
           CountProofs!RateOK!Skip, CountProofs!RateOK!Count, CountProofs!RateOK!Admit,
           CountProofs!RateOK!Refuse, Counter!RateOK!Next, Counter!RateOK!rate,
           Counter!RateOK!Pass, Counter!RateOK!Skip, Counter!RateOK!Count,
           Counter!RateOK!Admit, Counter!RateOK!Refuse
<1>. QED  BY <1>1, <1>2, PTL DEF BothSpec, CountLimits, Counter!Limits, Counter!RateOK!Spec
=============================================================================
