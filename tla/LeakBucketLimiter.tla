-------------------------- MODULE LeakBucketLimiter --------------------------
(***************************************************************************)
(* limiter/LeakBucketLimiter: a bucket of qps drops that leaks qps drops a *)
(* second; a request is let in if its drop still fits.  This is the bean   *)
(* leakBucketLimiter(10) in front of PaymentController.pay.                *)
(*                                                                         *)
(* The code computes the level in double.  Here water is counted in grains *)
(* and what a call computes is right up to Rounding grains either way:     *)
(* whichever way a sum at the brim is rounded, the model does that too.    *)
(***************************************************************************)
EXTENDS LimiterClock

CONSTANTS
  Grain,      \* grains in 1/Second of a drop
  Rounding,   \* by how many grains a call's arithmetic may be off
  MaxCalls    \* bound on the calls an observer sees, and on those refused in a row

ASSUME RoundingAssumption ==
  /\ Grain \in Nat \ {0}
  /\ Rounding \in Nat /\ Rounding < Grain
  /\ MaxCalls \in Nat

VARIABLES
  remainWater,  \* in grains
  calls,        \* the observer: calls answered since he started to count
  admittedAt,   \* history: what the clock said when a request was last let in ...
  refused       \* ... and how many calls were refused since

history == <<calls, admittedAt, refused>>
vars == <<observer, clock, lastTime, remainWater, history>>

capacity == qps
Drop == Second * Grain
Errors == (-Rounding)..Rounding

Init ==
  /\ ClockInit
  /\ remainWater = capacity * Drop
  /\ calls = 0
  /\ admittedAt = Epoch
  /\ refused = 0

(* What leaked since the last call, and the level that leaves, before      *)
(* rounding.                                                               *)
outWater == (clock - lastTime) * (capacity * Grain)
left == remainWater - outWater

(* Wrong on purpose: a bucket that ran dry starts again empty, without the *)
(* drop of this call.                                                      *)
DryForgets(e) ==
  /\ left + e < 0
  /\ remainWater' = 0
  /\ Answer(TRUE)

(* The bucket ran dry since the last call: it starts again with this drop. *)
Dry(e) ==
  /\ left + e < 0
  /\ remainWater' = Drop
  /\ Answer(TRUE)

(* Wrong on purpose: the level may fall below zero, as a debt.             *)
FitsNoFloor(e, f) ==
  /\ left + e + Drop + f <= capacity * Drop
  /\ remainWater' = left + e + Drop + f
  /\ Answer(TRUE)

Fits(e, f) ==
  /\ left + e >= 0
  /\ left + e + Drop + f <= capacity * Drop
  /\ remainWater' = left + e + Drop + f
  /\ Answer(TRUE)

(* Wrong on purpose: a rejected call moves lastTime but lets nothing leak. *)
FullNoLeak(e, f) ==
  /\ left + e >= 0
  /\ left + e + Drop + f > capacity * Drop
  /\ UNCHANGED remainWater
  /\ Answer(FALSE)

Full(e, f) ==
  /\ left + e >= 0
  /\ left + e + Drop + f > capacity * Drop
  /\ remainWater' = left + e
  /\ Answer(FALSE)

tryAcquire ==
  /\ calls < MaxCalls
  /\ \E e, f \in Errors :
       \/ (Dry(e) \/ Fits(e, f)) /\ admittedAt' = clock /\ refused' = 0
       \/ Full(e, f) /\ refused < MaxCalls /\ refused' = refused + 1 /\ UNCHANGED admittedAt
  /\ lastTime' = clock
  /\ calls' = calls + 1

Next ==
  \/ tryAcquire
  \/ ClockStep /\ UNCHANGED <<remainWater, history>>
  \/ Observe /\ calls' = 0 /\ UNCHANGED <<remainWater, admittedAt, refused>>

Spec == Init /\ [][Next]_vars

-----------------------------------------------------------------------------
TypeOK ==
  /\ ClockType
  /\ remainWater \in Nat
  /\ calls \in 0..MaxCalls
  /\ admittedAt \in Nat
  /\ refused \in 0..MaxCalls

(* From any moment on, at most a bucket plus qps requests per second are   *)
(* let in, also when the clock is set: no call forgets a drop, no drop     *)
(* leaks twice, and rounding adds up to no more than two errors a call.    *)
RateOK == INSTANCE RateLimit WITH Qps <- qps, Burst <- capacity, Error <- 2 * Rounding

Limits == RateOK!Spec

(* A request that comes when the clock shows 1/qps of a second more than   *)
(* for the last one let in, and as much again as rounding may have cost in *)
(* the calls refused since and in this one, finds room: rejected calls do  *)
(* not keep the bucket full, whether the clock was set meanwhile or not.   *)
SteadyRate ==
  (clock - admittedAt) * (capacity * Grain) >= Drop + (refused + 2) * Rounding
    => \A e, f \in Errors : left + e < 0 \/ left + e + Drop + f <= capacity * Drop
=============================================================================
