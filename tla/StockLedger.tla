----------------------------- MODULE StockLedger -----------------------------
(***************************************************************************)
(* What the order service promises of the three Redis keys of an article,  *)
(* STOCK_COUNT_<sid>, STOCK_SALE_<sid> and STOCK_VERSION_<sid>: they move  *)
(* together, one unit at a time, and a unit is taken only while one is     *)
(* left.  How the service achieves that (WATCH, a read, MULTI, EXEC, a     *)
(* compensating transaction) is the business of OrderConsumer, which       *)
(* implements this specification.                                          *)
(***************************************************************************)
EXTENDS Integers

CONSTANTS
  Sids,           \* article ids
  InitialCount    \* the stock each article is seeded with

VARIABLES count, sale, version

ledger == <<count, sale, version>>

Init ==
  /\ count = InitialCount
  /\ sale = [s \in Sids |-> 0]
  /\ version = [s \in Sids |-> 0]

Move(s, n) ==
  /\ count' = [count EXCEPT ![s] = @ - n]
  /\ sale' = [sale EXCEPT ![s] = @ + n]
  /\ version' = [version EXCEPT ![s] = @ + n]

Take(s) == count[s] > 0 /\ Move(s, 1)

PutBack(s) == Move(s, -1)

Next == \E s \in Sids : Take(s) \/ PutBack(s)

Spec == Init /\ [][Next]_ledger
=============================================================================
