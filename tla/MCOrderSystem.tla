---------------------------- MODULE MCOrderSystem ----------------------------
(***************************************************************************)
(* Instances of OrderSystem for TLC.                                       *)
(***************************************************************************)
EXTENDS OrderSystem, TLC

CONSTANTS s1, u1, u2, c1, c2, r1, r2, r3

OneUnit == [s \in Sids |-> 1]
OneSid  == [r \in Requests |-> s1]

(* u1 and u2 ask, and somebody not logged in, if r3 is one of them; r2     *)
(* comes in at the second instance.                                        *)
TwoLogged == [r \in Requests |-> IF r = r1 THEN u1 ELSE IF r = r2 THEN u2 ELSE NoUser]
OneLogged == [r \in Requests |-> IF r = r1 THEN u1 ELSE NoUser]
OneHost   == [r \in Requests |-> c1]
TwoHosts  == [r \in Requests |-> IF r = r2 THEN c2 ELSE c1]
=============================================================================
