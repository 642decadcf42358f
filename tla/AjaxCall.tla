------------------------------- MODULE AjaxCall -------------------------------
(***************************************************************************)
(* What a page expects of a submission: it begins, one reply at most comes *)
(* back, and it ends once, with success only if the reply was an answer of *)
(* the application.  It may end without success at any moment.             *)
(***************************************************************************)
CONSTANTS
  Submissions,
  Replies,        \* what may come back
  Answers         \* those of them that are answers of the application

VARIABLES
  state,          \* "idle", "begun", "success" or "failure"
  reply           \* "none" until something came back

vars == <<state, reply>>

Init ==
  /\ state = [u \in Submissions |-> "idle"]
  /\ reply = [u \in Submissions |-> "none"]

Begin(u) ==
  /\ state[u] = "idle"
  /\ state' = [state EXCEPT ![u] = "begun"]
  /\ UNCHANGED reply

Reply(u, r) ==
  /\ state[u] = "begun"
  /\ reply[u] = "none"
  /\ reply' = [reply EXCEPT ![u] = r]
  /\ UNCHANGED state

Succeed(u) ==
  /\ state[u] = "begun"
  /\ reply[u] \in Answers
  /\ state' = [state EXCEPT ![u] = "success"]
  /\ UNCHANGED reply

Fail(u) ==
  /\ state[u] = "begun"
  /\ state' = [state EXCEPT ![u] = "failure"]
  /\ UNCHANGED reply

Next ==
  \E u \in Submissions :
    Begin(u) \/ (\E r \in Replies : Reply(u, r)) \/ Succeed(u) \/ Fail(u)

Spec == Init /\ [][Next]_vars
=============================================================================
