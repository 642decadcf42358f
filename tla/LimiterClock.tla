---------------------------- MODULE LimiterClock ----------------------------
(***************************************************************************)
(* What the three limiters share: the qps of class Limiter, the clock of   *)
(* System.currentTimeMillis(), which an administrator or NTP may set back  *)
(* or ahead, and an observer who counts the requests let in.  tryAcquire   *)
(* holds a lock from before it reads the clock until it returns, so a call *)
(* is one step.                                                            *)
(***************************************************************************)
EXTENDS Integers

CONSTANTS
  qps,        \* the argument of the constructor
  Second,     \* clock ticks in a second: 1000 in the code
  Epoch,      \* what the clock says at the start; lastTime starts at 0
  MaxTime,    \* bound on the ticks of a run
  MaxSkew,    \* bound on the ticks by which the clock is off, either way
  StepsBack,  \* by how many ticks the clock may be set back at once
  StepsAhead  \* by how many ticks it may be set ahead at once

ASSUME ClockAssumption ==
  /\ qps \in Nat \ {0}
  /\ Second \in Nat \ {0}
  /\ Epoch \in Nat /\ Epoch > Second
  /\ MaxTime \in Nat
  /\ MaxSkew \in Nat
  /\ StepsBack \subseteq Nat
  /\ StepsAhead \subseteq Nat \ {0}

VARIABLES
  time, since, skipped, admitted,  \* the observer, as in RateLimit
  clock,                           \* System.currentTimeMillis()
  lastTime                         \* the field of the limiter

observer == <<time, since, skipped, admitted>>

ClockInit ==
  /\ time = 0
  /\ since = 0
  /\ skipped = 0
  /\ admitted = 0
  /\ clock = Epoch
  /\ lastTime = 0

(* Time passes.                                                            *)
Tick(d) ==
  /\ time + d <= MaxTime
  /\ time' = time + d
  /\ clock' = clock + d
  /\ UNCHANGED <<since, skipped, admitted, lastTime>>

(* The clock is set while no time passes.                                  *)
SetBack(d) ==
  /\ d < clock
  /\ clock - d >= Epoch + time - MaxSkew
  /\ clock' = clock - d
  /\ UNCHANGED <<observer, lastTime>>

SetAhead(d) ==
  /\ skipped + d <= MaxSkew
  /\ clock + d <= Epoch + time + MaxSkew
  /\ clock' = clock + d
  /\ skipped' = skipped + d
  /\ UNCHANGED <<time, since, admitted, lastTime>>

ClockStep ==
  \/ \E d \in 1..Second : Tick(d)
  \/ \E d \in StepsBack : SetBack(d)
  \/ \E d \in StepsAhead : SetAhead(d)

(* The observer starts to count afresh.                                    *)
Observe ==
  /\ since' = time
  /\ skipped' = 0
  /\ admitted' = 0
  /\ UNCHANGED <<time, clock, lastTime>>

(* The answer of tryAcquire.                                               *)
Answer(yes) ==
  /\ admitted' = IF yes THEN admitted + 1 ELSE admitted
  /\ UNCHANGED <<time, since, skipped, clock>>

ClockType ==
  /\ time \in 0..MaxTime
  /\ since \in 0..time
  /\ skipped \in 0..MaxSkew
  /\ admitted \in Nat
  /\ clock \in Nat
  /\ lastTime \in Nat
=============================================================================
