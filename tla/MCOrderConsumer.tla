--------------------------- MODULE MCOrderConsumer ---------------------------
(***************************************************************************)
(* Instances of OrderConsumer for TLC: one unit in stock is contended by   *)
(* any two records.                                                        *)
(***************************************************************************)
EXTENDS OrderConsumer

OneUnit == [s \in Sids |-> 1]
=============================================================================
