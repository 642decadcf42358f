------------------------------- MODULE Limiters -------------------------------
(***************************************************************************)
(* The leaky bucket and the counting limiter side by side: two limiters of *)
(* one machine, which read its one clock.  Requests come to either of them *)
(* in any order, and each has an observer who starts to count when the     *)
(* other does.                                                             *)
(***************************************************************************)
EXTENDS LeakBucketLimiter

VARIABLES
  count,          \* the fields of the CountLimiter ...
  countTime,
  countAdmitted   \* ... and its observer

countVars == <<count, countTime, countAdmitted>>

Counter == INSTANCE CountLimiter WITH lastTime <- countTime, admitted <- countAdmitted

BothInit == Init /\ Counter!Init

(* The clock is the same for both.                                         *)
ClockBoth ==
  \/ \E d \in 1..Second : Tick(d) /\ Counter!Tick(d)
  \/ \E d \in StepsBack : SetBack(d) /\ Counter!SetBack(d)
  \/ \E d \in StepsAhead : SetAhead(d) /\ Counter!SetAhead(d)

BothNext ==
  \/ tryAcquire /\ UNCHANGED countVars
  \/ Counter!tryAcquire /\ UNCHANGED vars
  \/ ClockBoth /\ UNCHANGED <<remainWater, history, count>>
  \/ Observe /\ Counter!Observe /\ calls' = 0
       /\ UNCHANGED <<remainWater, admittedAt, refused, count>>

BothSpec == BothInit /\ [][BothNext]_<<vars, countVars>>

-----------------------------------------------------------------------------
(* From any moment on the counting limiter lets in at most twice qps at    *)
(* once plus qps a second: windows that meet while somebody looks on, and  *)
(* clocks that are set, admit that much and no more.                       *)
CountLimits == Counter!Limits
=============================================================================
