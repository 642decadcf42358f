----------------------------- MODULE CountLimiter -----------------------------
(***************************************************************************)
(* limiter/CountLimiter: at most qps requests in a window of a little more *)
(* than a second, which starts with the first request after the last one.  *)
(***************************************************************************)
EXTENDS LimiterClock

VARIABLE count

vars == <<observer, clock, lastTime, count>>

Init ==
  /\ ClockInit
  /\ count = 0

Open ==
  /\ clock - lastTime > Second
  /\ lastTime' = clock
  /\ count' = 1
  /\ Answer(TRUE)

(* Wrong on purpose: one request too many in a window.                     *)
WithinTooMany ==
  /\ clock - lastTime <= Second
  /\ count <= qps
  /\ count' = count + 1
  /\ Answer(TRUE)
  /\ UNCHANGED lastTime

Within ==
  /\ clock - lastTime <= Second
  /\ count < qps
  /\ count' = count + 1
  /\ Answer(TRUE)
  /\ UNCHANGED lastTime

Refuse ==
  /\ clock - lastTime <= Second
  /\ count >= qps
  /\ Answer(FALSE)
  /\ UNCHANGED <<count, lastTime>>

tryAcquire == Open \/ Within \/ Refuse

Next ==
  \/ tryAcquire
  \/ (ClockStep \/ Observe) /\ UNCHANGED count

Spec == Init /\ [][Next]_vars

-----------------------------------------------------------------------------
TypeOK == ClockType /\ count \in 0..qps

(* Two windows may meet within the time an observer looks at: the burst is *)
(* twice qps, and no more, also when the clock is set.  The arithmetic is  *)
(* on long, so there is no error, and no need to count the refused calls.  *)
RateOK == INSTANCE RateLimit
  WITH Qps <- qps, Burst <- 2 * qps, Grain <- 1, Error <- 0, calls <- admitted

Limits == RateOK!Spec
=============================================================================
