-------------------------------- MODULE Sale --------------------------------
(***************************************************************************)
(* What ordering promises its customers as long as nothing fails, with no  *)
(* word of queues, threads, Redis or MySQL: an accepted request waits, and *)
(* is served or turned away, once; nobody is refused, turned away or told  *)
(* that he failed before the last unit is sold; and nobody is told of an   *)
(* order that is not there.  Overbook is the price of working with several *)
(* listener threads; with one it is 0 and the sale is exact.               *)
(***************************************************************************)
EXTENDS Integers

CONSTANTS
  Sids,           \* article ids
  InitialCount,   \* the units of each article
  Overbook,       \* how many orders of each article may exceed its units
  Message,        \* what a customer can order: a user and an article
  Requests,       \* calls of /order
  Wish            \* what each request is for; not in Message: a stranger's

VARIABLES
  left,           \* units of an article without an order
  waiting,        \* requests for a message that are accepted and not served
  sold,           \* orders made of a message
  answer,         \* what a request was answered
  told            \* what its client was told of the outcome last

sale == <<left, waiting, sold, answer, told>>

Init ==
  /\ left = InitialCount
  /\ waiting = [m \in Message |-> 0]
  /\ sold = [m \in Message |-> 0]
  /\ answer = [r \in Requests |-> "none"]
  /\ told = [r \in Requests |-> "none"]

SoldOut(r) == left[Wish[r].sid] <= 0

Accept(r) ==
  /\ answer[r] = "none"
  /\ Wish[r] \in Message
  /\ answer' = [answer EXCEPT ![r] = "accepted"]
  /\ waiting' = [waiting EXCEPT ![Wish[r]] = @ + 1]
  /\ UNCHANGED <<left, sold, told>>

(* A stranger, too many requests at a time, or nothing left.               *)
Decline(r, text) ==
  /\ answer[r] = "none"
  /\ text = "null" => Wish[r] \notin Message
  /\ text = "failed" => SoldOut(r)
  /\ answer' = [answer EXCEPT ![r] = text]
  /\ UNCHANGED <<left, waiting, sold, told>>

Sell(m) ==
  /\ left[m.sid] + Overbook[m.sid] > 0
  /\ left' = [left EXCEPT ![m.sid] = @ - 1]
  /\ sold' = [sold EXCEPT ![m] = @ + 1]

TurnAway(m) == left[m.sid] <= 0 /\ UNCHANGED <<left, sold>>

Serve(m) ==
  /\ waiting[m] > 0
  /\ waiting' = [waiting EXCEPT ![m] = @ - 1]
  /\ Sell(m) \/ TurnAway(m)
  /\ UNCHANGED <<answer, told>>

(* "2" is success, "0" failure, "1" in progress, which promises nothing.   *)
Tell(r, text) ==
  /\ text = "null" => Wish[r] \notin Message
  /\ text = "2" => Wish[r] \in Message /\ sold[Wish[r]] > 0
  /\ text = "0" => SoldOut(r)
  /\ told' = [told EXCEPT ![r] = text]
  /\ UNCHANGED <<left, waiting, sold, answer>>

Next ==
  \/ \E r \in Requests : \/ Accept(r)
                         \/ \E text \in {"null", "busy", "failed"} : Decline(r, text)
                         \/ \E text \in {"null", "0", "1", "2"} : Tell(r, text)
  \/ \E m \in Message : Serve(m)

Spec == Init /\ [][Next]_sale
=============================================================================
