------------------------------ MODULE PhotoWall ------------------------------
(***************************************************************************)
(* The wall of recent pictures: the page asks for a listing of the user's  *)
(* newest pictures (getTopImages) and then, slot by slot, for the picture  *)
(* that is the i-th newest by then (getTopNImage), not for the one listed. *)
(* Uploads and removals go on in between, the user's session may end, and  *)
(* any of the requests may fail.                                           *)
(***************************************************************************)
EXTENDS Integers, Sequences, FiniteSetsExt

CONSTANTS
  Files,          \* the pictures the user may upload
  Slots,          \* topN, the number of pictures the page asks for
  MaxRemovals     \* bound on the removals

ASSUME WallAssumption ==
  /\ IsFiniteSet(Files)
  /\ Slots \in Nat \ {0}
  /\ MaxRemovals \in Nat
  /\ Files \cap {"none", "empty", "error"} = {}

VARIABLES
  createTime, \* the time stamped on each picture, 0 before its upload
  record,     \* fileInfo: the state of the record of each picture
  removals,   \* number of removals so far
  listed,     \* the page: the listing
  loaded,     \* the page: whether it has the listing
  shown,      \* the page: what each slot got
  session,    \* whether the session of the page has a user
  unserved    \* history: the slots whose request found no user, or failed

vars == <<createTime, record, removals, listed, loaded, shown, session, unserved>>

Init ==
  /\ createTime = [f \in Files |-> 0]
  /\ record = [f \in Files |-> "none"]
  /\ removals = 0
  /\ listed = <<>>
  /\ loaded = FALSE
  /\ shown = [i \in 1..Slots |-> "none"]
  /\ session = TRUE
  /\ unserved = {}

infos == {f \in Files : record[f] = "saved"}

Newer(f, g) == createTime[f] > createTime[g]

(* The n newest of the pictures S, newest first: the i-th has i - 1 newer. *)
Newest(S, n) ==
  [i \in 1..Min({n, Cardinality(S)}) |->
     CHOOSE f \in S : Cardinality({g \in S : Newer(g, f)}) = i - 1]

(* Wrong on purpose: the oldest come first, or the limit is one short.     *)
TopOldestFirst(n) ==
  [i \in 1..Min({n, Cardinality(infos)}) |->
     CHOOSE f \in infos : Cardinality({g \in infos : Newer(f, g)}) = i - 1]

TopOneShort(n) == Newest(infos, n - 1)

(* The query: by createTime, newest first, limited to n.                   *)
Top(n) == Newest(infos, n)

(* What getTopNImage answers to a user: an empty body if there are no      *)
(* pictures; get(n-1) throws on a list that is too short.                  *)
TopN(n) ==
  LET top == Top(n) IN
  IF top = <<>> THEN "empty" ELSE IF n > Len(top) THEN "error" ELSE top[n]

-----------------------------------------------------------------------------
(* uploadFile stamps the record before it saves it, so that records may be *)
(* saved in another order than that of their times.                        *)
Stamp(f) ==
  /\ record[f] = "none"
  /\ record' = [record EXCEPT ![f] = "stamped"]
  /\ createTime' = [createTime EXCEPT ![f] = 1 + Max({createTime[g] : g \in Files})]
  /\ UNCHANGED <<removals, listed, loaded, shown, session, unserved>>

Save(f) ==
  /\ record[f] = "stamped"
  /\ record' = [record EXCEPT ![f] = "saved"]
  /\ UNCHANGED <<createTime, removals, listed, loaded, shown, session, unserved>>

(* removeFJile takes the record of a picture away.                         *)
RemovePicture(f) ==
  /\ record[f] = "saved"
  /\ removals < MaxRemovals
  /\ removals' = removals + 1
  /\ record' = [record EXCEPT ![f] = "removed"]
  /\ UNCHANGED <<createTime, listed, loaded, shown, session, unserved>>

(* The session expires or loses its user, or the user logs in again.       *)
SessionChanges ==
  /\ session' = ~session
  /\ UNCHANGED <<createTime, record, removals, listed, loaded, shown, unserved>>

(* getTopImages, and the slots that computeRecentImages lays out for it;   *)
(* none without a user (null is answered), or if the request fails.        *)
List ==
  /\ ~loaded
  /\ loaded' = TRUE
  /\ \/ session /\ listed' = Top(Slots)
     \/ listed' = <<>>
  /\ UNCHANGED <<createTime, record, removals, shown, session, unserved>>

(* The browser asks for the picture of slot i.  Without a user the body is *)
(* empty; and the query, the read of the content or the connection may     *)
(* fail.                                                                   *)
Fetch(i) ==
  /\ i \in DOMAIN listed
  /\ shown[i] = "none"
  /\ \/ /\ session
        /\ shown' = [shown EXCEPT ![i] = TopN(i)]
        /\ UNCHANGED unserved
     \/ /\ ~session
        /\ shown' = [shown EXCEPT ![i] = "empty"]
        /\ unserved' = unserved \cup {i}
     \/ /\ shown' = [shown EXCEPT ![i] = "error"]
        /\ unserved' = unserved \cup {i}
  /\ UNCHANGED <<createTime, record, removals, listed, loaded, session>>

Next ==
  \/ \E f \in Files : Stamp(f) \/ Save(f) \/ RemovePicture(f)
  \/ SessionChanges
  \/ List
  \/ \E i \in 1..Slots : Fetch(i)

Spec == Init /\ [][Next]_vars

-----------------------------------------------------------------------------
Gone(i) == \E k \in 1..i : listed[k] \notin infos

(* A slot stays without a picture, with an error or an empty body, only if *)
(* a picture of the listing up to that slot was removed meanwhile, or the  *)
(* request for it found no user in the session, or failed.  Uploads and    *)
(* removals of pictures further down never leave a slot blank.             *)
BlankIsExplained ==
  \A i \in DOMAIN listed :
    shown[i] \in {"empty", "error"} => Gone(i) \/ i \in unserved

(* A slot shows a picture older than the one listed for it only if one of  *)
(* the listing up to it was removed; uploads only push newer ones in.      *)
OlderMeansRemoved ==
  \A i \in DOMAIN listed :
    shown[i] \in Files /\ Newer(listed[i], shown[i]) => Gone(i)
=============================================================================
