------------------------------ MODULE RateLimit ------------------------------
(***************************************************************************)
(* What a limiter is for: from whatever moment one starts to count, it     *)
(* lets in at most a burst plus Qps requests per second.  It measures time *)
(* by the machine's clock, so that every second this is set ahead counts   *)
(* like one that passed; and where it computes in double, rounding adds at *)
(* most Error in a call.  The limiters of com.tao.limiter implement this,  *)
(* each with a burst and an error of its own.                              *)
(***************************************************************************)
EXTENDS Integers

CONSTANTS
  Qps,      \* requests per second
  Burst,    \* requests that may come at once
  Second,   \* clock ticks in a second
  Grain,    \* parts of 1/Second of a request, the unit of ...
  Error     \* ... what rounding may add in a call

VARIABLES
  time,     \* ticks since the start
  since,    \* when the observer started to count
  skipped,  \* ticks the clock was set ahead since then
  calls,    \* calls answered since then
  admitted  \* requests let in since then

rate == <<time, since, skipped, calls, admitted>>

Init ==
  /\ time = 0
  /\ since = 0
  /\ skipped = 0
  /\ calls = 0
  /\ admitted = 0

Pass == time' > time /\ UNCHANGED <<since, skipped, calls, admitted>>

Skip == skipped' > skipped /\ UNCHANGED <<time, since, calls, admitted>>

Count == since' = time /\ skipped' = 0 /\ calls' = 0 /\ admitted' = 0 /\ UNCHANGED time

Admit ==
  /\ (admitted + 1) * (Second * Grain)
       <= Burst * (Second * Grain) + Qps * Grain * (time - since + skipped) + Error * (calls + 1)
  /\ admitted' = admitted + 1
  /\ calls' = calls + 1
  /\ UNCHANGED <<time, since, skipped>>

Refuse == calls' = calls + 1 /\ UNCHANGED <<time, since, skipped, admitted>>

Next == Pass \/ Skip \/ Count \/ Admit \/ Refuse

Spec == Init /\ [][Next]_rate
=============================================================================
