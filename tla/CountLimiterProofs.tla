-------------------------- MODULE CountLimiterProofs --------------------------
(***************************************************************************)
(* The counting limiter keeps its rate with a burst of 2 * qps, for every  *)
(* qps, every length of a second and every clock, one that is set back or  *)
(* ahead included.                                                         *)
(***************************************************************************)
EXTENDS CountLimiter, TLAPS

(* The requests let in before the current window, if the observer saw any  *)
(* of them, fit into qps plus the rate over the time up to that window.    *)
earlier == (admitted - count) * Second

watched == (time - since) + skipped

EarlierFit ==
  /\ earlier <= qps * Second + qps * watched
  /\ earlier <= qps * Second + qps * (watched - (clock - lastTime))

CountInv ==
  /\ time \in Int /\ since \in Int /\ since <= time /\ skipped \in Nat
  /\ admitted \in Nat /\ clock \in Int /\ lastTime \in Int
  /\ count \in Nat /\ count <= qps
  /\ admitted <= count \/ EarlierFit

(* The arithmetic of the two steps that let a request in.                  *)
LEMMA OpenArithmetic ==
  ASSUME NEW q \in Nat, q >= 1, NEW s \in Nat, s >= 1, NEW a \in Nat, NEW c \in Nat, c <= q,
         NEW e \in Nat, NEW gap \in Int, gap > s,
         a <= c \/ (a - c) * s <= q * s + q * (e - gap)
  PROVE  a * s <= q * s + q * e /\ (a + 1) * s <= 2 * q * s + q * e
<1>1. /\ q * s \in Int /\ q * e \in Nat /\ a * s \in Int /\ c * s \in Int /\ c * s <= q * s /\ s <= q * s
      /\ q * gap \in Int /\ q * s <= q * gap
      /\ q * (e - gap) = q * e - q * gap /\ (a - c) * s = a * s - c * s
      /\ (a + 1) * s = a * s + s /\ 2 * q * s = q * s + q * s
  OBVIOUS
<1>2. a <= c => a * s <= c * s
  OBVIOUS
<1>. QED  BY <1>1, <1>2

LEMMA WithinArithmetic ==
  ASSUME NEW q \in Nat, q >= 1, NEW s \in Nat, s >= 1, NEW a \in Nat, NEW c \in Nat, c < q,
         NEW e \in Nat, a <= c \/ (a - c) * s <= q * s + q * e
  PROVE  (a + 1) * s <= 2 * q * s + q * e
<1>1. /\ q * s \in Int /\ q * e \in Nat /\ a * s \in Int /\ c * s \in Int
      /\ c * s + s = (c + 1) * s /\ (c + 1) * s <= q * s
      /\ (a - c) * s = a * s - c * s /\ 0 <= q * s
      /\ (a + 1) * s = a * s + s /\ 2 * q * s = q * s + q * s
  OBVIOUS
<1>2. a <= c => a * s <= c * s
  OBVIOUS
<1>. QED  BY <1>1, <1>2

(* The clock runs on by d ticks, or is set ahead by d: either way the      *)
(* observer watches d ticks more.                                          *)
LEMMA WatchMore ==
  ASSUME ClockAssumption, CountInv, NEW d \in Nat, clock' = clock + d,
         (time' = time + d /\ skipped' = skipped) \/ (time' = time /\ skipped' = skipped + d),
         UNCHANGED <<since, admitted, lastTime, count>>
  PROVE  CountInv'
<1>1. /\ qps \in Nat /\ Second \in Nat /\ watched \in Nat /\ clock - lastTime \in Int
  BY DEF ClockAssumption, CountInv, watched
<1>2. watched' = watched + d /\ watched' - (clock' - lastTime') = watched - (clock - lastTime)
  BY <1>1 DEF watched, CountInv
<1>3. qps * (watched + d) = qps * watched + qps * d /\ qps * d \in Nat /\ qps * watched \in Nat
  BY <1>1
<1>4. earlier' = earlier /\ earlier \in Int /\ qps * Second \in Int
  BY <1>1 DEF earlier, CountInv
<1>5. EarlierFit => EarlierFit'
  BY <1>1, <1>2, <1>3, <1>4 DEF EarlierFit
<1>. QED  BY <1>5 DEF CountInv

LEMMA CountStep ==
  ASSUME ClockAssumption, CountInv, [Next]_vars
  PROVE  CountInv' /\ [RateOK!Next]_(RateOK!rate)
<1> DEFINE gap == clock - lastTime
<1>1. /\ qps \in Nat /\ qps >= 1 /\ Second \in Nat /\ Second >= 1 /\ watched \in Nat
      /\ gap \in Int /\ admitted \in Nat
  BY DEF ClockAssumption, CountInv, watched
<1>2. ASSUME admitted' = admitted + 1, UNCHANGED <<time, since, skipped>>,
             (admitted + 1) * Second <= 2 * qps * Second + qps * watched
      PROVE  RateOK!Admit
  <2>1. /\ (admitted + 1) * (Second * 1) = (admitted + 1) * Second
        /\ 2 * qps * (Second * 1) = 2 * qps * Second
        /\ qps * 1 * (time - since + skipped) = qps * watched /\ 0 * (admitted + 1) = 0
    BY <1>1 DEF watched, CountInv
  <2>2. 2 * qps * Second + qps * watched \in Int
    BY <1>1
  <2>. QED  BY <1>2, <2>1, <2>2 DEF RateOK!Admit
<1>3. CASE Open
  <2>1. /\ gap > Second /\ lastTime' = clock /\ count' = 1 /\ admitted' = admitted + 1
        /\ time' = time /\ since' = since /\ skipped' = skipped /\ clock' = clock
    BY <1>3 DEF Open, Answer
  <2>2. admitted * Second <= qps * Second + qps * watched
        /\ (admitted + 1) * Second <= 2 * qps * Second + qps * watched
    <3>1. admitted <= count \/ (admitted - count) * Second <= qps * Second + qps * (watched - gap)
      BY DEF CountInv, EarlierFit, earlier
    <3>. HIDE DEF gap
    <3>. QED  BY <1>1, <2>1, <3>1, OpenArithmetic DEF CountInv
  <2>3. /\ admitted' - count' = admitted /\ watched' = watched
        /\ watched' - (clock' - lastTime') = watched
    BY <1>1, <2>1 DEF CountInv, watched
  <2>4. CountInv'
    BY <1>1, <2>1, <2>2, <2>3 DEF CountInv, EarlierFit, earlier
  <2>. QED  BY <1>2, <2>1, <2>2, <2>4 DEF RateOK!Next
<1>4. CASE Within
  <2>1. /\ lastTime' = lastTime /\ count' = count + 1 /\ count < qps /\ admitted' = admitted + 1
        /\ time' = time /\ since' = since /\ skipped' = skipped /\ clock' = clock
    BY <1>4 DEF Within, Answer
  <2>2. (admitted + 1) * Second <= 2 * qps * Second + qps * watched
    <3>1. admitted <= count \/ (admitted - count) * Second <= qps * Second + qps * watched
      BY DEF CountInv, EarlierFit, earlier
    <3>. QED  BY <1>1, <2>1, <3>1, WithinArithmetic DEF CountInv
  <2>3. admitted' - count' = admitted - count /\ watched' = watched
    BY <2>1 DEF CountInv, watched
  <2>4. CountInv'
    BY <1>1, <2>1, <2>3 DEF CountInv, EarlierFit, earlier
  <2>. QED  BY <1>2, <2>1, <2>2, <2>4 DEF RateOK!Next
<1>5. CASE Refuse
  BY <1>5 DEF Refuse, Answer, CountInv, EarlierFit, earlier, watched, RateOK!rate
<1>6. ASSUME NEW d \in Nat, d >= 1, Tick(d), UNCHANGED count
      PROVE  CountInv' /\ RateOK!Next
  <2>1. CountInv'
    <3>1. /\ clock' = clock + d /\ time' = time + d /\ skipped' = skipped
          /\ UNCHANGED <<since, admitted, lastTime, count>>
      BY <1>6 DEF Tick
    <3>. QED  BY <1>6, <3>1, WatchMore
  <2>. QED  BY <1>6, <2>1 DEF Tick, CountInv, RateOK!Next, RateOK!Pass
<1>7. ASSUME NEW d \in StepsAhead, SetAhead(d), UNCHANGED count
      PROVE  CountInv' /\ RateOK!Next
  <2>1. d \in Nat /\ d >= 1
    BY DEF ClockAssumption
  <2>2. CountInv'
    BY <1>7, <2>1, WatchMore DEF SetAhead
  <2>. QED  BY <1>7, <2>1, <2>2 DEF SetAhead, CountInv, RateOK!Next, RateOK!Skip
<1>8. ASSUME NEW d \in StepsBack, SetBack(d), UNCHANGED count
      PROVE  CountInv' /\ UNCHANGED RateOK!rate
  <2>1. /\ clock' = clock - d /\ count' = count /\ d \in Nat
        /\ UNCHANGED <<time, since, skipped, admitted, lastTime>>
    BY <1>8 DEF SetBack, ClockAssumption, observer
  <2>2. /\ qps * (watched - ((clock - d) - lastTime)) = qps * (watched - gap) + qps * d
        /\ qps * d \in Nat /\ qps * (watched - gap) \in Int
    BY <1>1, <2>1 DEF CountInv
  <2>3. earlier' = earlier /\ earlier \in Int /\ qps * Second \in Int /\ watched' = watched
    BY <1>1, <2>1 DEF earlier, CountInv, watched
  <2>4. EarlierFit => EarlierFit'
    BY <1>1, <2>1, <2>2, <2>3 DEF EarlierFit
  <2>5. CountInv'
    BY <2>1, <2>4 DEF CountInv
  <2>. QED  BY <2>1, <2>5 DEF RateOK!rate
<1>9. CASE Observe /\ UNCHANGED count
  BY <1>9 DEF Observe, CountInv, RateOK!Next, RateOK!Count
<1>10. CASE UNCHANGED vars
  BY <1>10 DEF vars, observer, CountInv, EarlierFit, earlier, watched, RateOK!rate
<1>11. \A d \in 1..Second : d \in Nat /\ d >= 1
  BY <1>1
<1>. QED
  BY <1>3, <1>4, <1>5, <1>6, <1>7, <1>8, <1>9, <1>10, <1>11 DEF Next, ClockStep, tryAcquire

(* Limits: whatever two windows an observer's time meets, he sees no more  *)
(* than 2 * qps requests plus qps per second.                              *)
THEOREM CountKeepsRate == Spec => Limits
<1>1. Init => CountInv /\ RateOK!Init
  BY ClockAssumption DEF Init, ClockInit, CountInv, ClockAssumption, RateOK!Init
<1>2. CountInv /\ [Next]_vars => CountInv' /\ [RateOK!Next]_(RateOK!rate)
  BY CountStep, ClockAssumption
<1>. QED  BY <1>1, <1>2, PTL DEF Spec, Limits, RateOK!Spec
=============================================================================
