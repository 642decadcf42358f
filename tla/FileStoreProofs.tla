--------------------------- MODULE FileStoreProofs ---------------------------
(***************************************************************************)
(* What holds of the album for any number of uploads, files, removals,     *)
(* views and failures.                                                     *)
(***************************************************************************)
EXTENDS FileStore, TLAPS

(* Every step is one of these; each proof below has one case per line.     *)
LEMMA StepCases ==
  ASSUME Next
  PROVE  \/ \E u \in Uploads : \/ NoSession(u) \/ Store(u) \/ StoreFails(u)
                               \/ Save(u) \/ SaveFails(u)
         \/ \E d \in Removals : \/ \E f \in blobs : ChooseRemoval(d, f)
                                \/ FindRemoval(d) \/ DeleteRecord(d)
                                \/ DeleteRecordFails(d)
                                \/ DeleteContent(d) \/ DeleteContentFails(d)
         \/ \E v \in Views : \/ \E f \in blobs : ChooseView(v, f)
                             \/ FindRecord(v) \/ FindContent(v)
         \/ Crash
  BY DEF Next, Upload, Remove, RemoveCalls, View, ViewCalls

LEMMA CurrentIsFile ==
  ASSUME TypeOK, NEW u \in Uploads
  PROVE  Current(u) \in Files
  BY DEF TypeOK, Files, Current

LEMMA TypeStep ==
  ASSUME StoreAssumption, TypeOK, [Next]_vars
  PROVE  TypeOK'
<1>. USE DEF stores, uploads, removals, views
<1>1. ASSUME NEW u \in Uploads, NoSession(u) \/ Store(u) \/ StoreFails(u)
      PROVE  TypeOK'
  <2>1. Current(u) \in Files
    BY CurrentIsFile
  <2>. QED  BY <1>1, <2>1 DEF TypeOK, NoSession, Store, StoreFails, EndUpload, Fault
<1>2. ASSUME NEW u \in Uploads, Save(u)
      PROVE  TypeOK'
  <2>1. Current(u) \in Files /\ FileCount[u] \in Nat /\ place[u] \in Nat
    BY CurrentIsFile DEF StoreAssumption, TypeOK
  <2>2. CASE place[u] < FileCount[u]
    BY <1>2, <2>1, <2>2 DEF TypeOK, Save, NextFile
  <2>3. CASE ~(place[u] < FileCount[u])
    BY <1>2, <2>1, <2>3 DEF TypeOK, Save, NextFile, EndUpload
  <2>. QED  BY <2>2, <2>3
<1>3. ASSUME NEW u \in Uploads, SaveFails(u)
      PROVE  TypeOK'
  <2>1. Current(u) \in Files
    BY CurrentIsFile
  <2>. QED  BY <1>3, <2>1 DEF TypeOK, SaveFails, EndUpload, Fault
<1>4. ASSUME NEW d \in Removals, NEW f \in blobs, ChooseRemoval(d, f)
      PROVE  TypeOK'
  BY <1>4 DEF TypeOK, ChooseRemoval
<1>5. ASSUME NEW d \in Removals, FindRemoval(d) \/ DeleteRecord(d)
      PROVE  TypeOK'
  BY <1>5 DEF TypeOK, FindRemoval, DeleteRecord, EndRemove
<1>6. ASSUME NEW d \in Removals, DeleteRecordFails(d) \/ DeleteContentFails(d)
      PROVE  TypeOK'
  BY <1>6 DEF TypeOK, DeleteRecordFails, DeleteContentFails, EndRemove, Fault
<1>7. ASSUME NEW d \in Removals, DeleteContent(d)
      PROVE  TypeOK'
  BY <1>7 DEF TypeOK, DeleteContent, EndRemove
<1>8. ASSUME NEW v \in Views, NEW f \in blobs, ChooseView(v, f)
      PROVE  TypeOK'
  BY <1>8 DEF TypeOK, ChooseView
<1>9. ASSUME NEW v \in Views, FindRecord(v) \/ FindContent(v)
      PROVE  TypeOK'
  BY <1>9 DEF TypeOK, FindRecord, FindContent, EndView
<1>10. ASSUME Crash
       PROVE  TypeOK'
  BY <1>10 DEF TypeOK, Crash, Fault
<1>11. CASE UNCHANGED vars
  BY <1>11 DEF TypeOK, vars
<1>. QED
  BY <1>1, <1>2, <1>3, <1>4, <1>5, <1>6, <1>7, <1>8, <1>9, <1>10, <1>11, StepCases

LEMMA TypeInit == ASSUME StoreAssumption, Init PROVE TypeOK
  BY DEF StoreAssumption, Init, TypeOK

(* The variables keep their types, and the loop of uploadFile stays within *)
(* the files of its request.                                               *)
THEOREM TypeCorrect == Spec => []TypeOK
<1>1. Init => TypeOK
  BY TypeInit, StoreAssumption
<1>2. TypeOK /\ [Next]_vars => TypeOK'
  BY TypeStep, StoreAssumption
<1>. QED  BY <1>1, <1>2, PTL DEF Spec

-----------------------------------------------------------------------------
(* What uploads about to save and views about to read rely on: the content *)
(* they go on to name or to read is there.                                 *)
ContentInv ==
  /\ RecordHasContent
  /\ \A u \in Uploads : upload[u] = "save" => Current(u) \in blobs
  /\ \A v \in Views : view[v] = "content" => wanted[v] \in blobs
  /\ NeverEmpty

(* No step of the code as it is takes a content away.                      *)
LEMMA ContentStays ==
  ASSUME [Next]_vars
  PROVE  blobs \subseteq blobs'
  BY StepCases
     DEF NoSession, Store, StoreFails, Save, SaveFails, ChooseRemoval, FindRemoval,
         DeleteRecord, DeleteRecordFails, DeleteContent, DeleteContentFails, ContentMatching,
         ChooseView, FindRecord, FindContent, Crash, vars, stores

LEMMA ContentStep ==
  ASSUME StoreAssumption, TypeOK, ContentInv, [Next]_vars
  PROVE  ContentInv'
<1>. USE DEF stores, uploads, removals, views
<1>b. blobs \subseteq blobs'
  BY ContentStays
<1>1. ASSUME NEW u \in Uploads, NoSession(u) \/ Store(u) \/ StoreFails(u)
      PROVE  ContentInv'
  BY <1>1 DEF ContentInv, TypeOK, RecordHasContent, NeverEmpty, Current,
              NoSession, Store, StoreFails, EndUpload
<1>2. ASSUME NEW u \in Uploads, Save(u)
      PROVE  ContentInv'
  <2>1. /\ upload[u] = "save" /\ infos' = infos \cup {Current(u)}
        /\ UNCHANGED <<blobs, view, viewed, wanted>>
    BY <1>2 DEF Save
  <2>2. \A q \in Uploads : upload'[q] = "save" => upload[q] = "save" /\ place'[q] = place[q]
    BY <1>2 DEF Save, NextFile, EndUpload, TypeOK
  <2>. QED  BY <2>1, <2>2 DEF ContentInv, RecordHasContent, NeverEmpty, Current
<1>3. ASSUME NEW u \in Uploads, SaveFails(u)
      PROVE  ContentInv'
  BY <1>3 DEF ContentInv, TypeOK, RecordHasContent, NeverEmpty, Current, SaveFails, EndUpload
<1>4. ASSUME NEW d \in Removals,
             \/ \E f \in blobs : ChooseRemoval(d, f)
             \/ FindRemoval(d) \/ DeleteRecord(d) \/ DeleteRecordFails(d)
             \/ DeleteContent(d) \/ DeleteContentFails(d)
      PROVE  ContentInv'
  <2>1. /\ infos' \subseteq infos /\ UNCHANGED <<upload, place, view, viewed>>
        /\ \A q \in Removals \cup Views : wanted'[q] = wanted[q] \/ wanted'[q] \in blobs
    BY <1>4 DEF TypeOK, ChooseRemoval, FindRemoval, DeleteRecord, DeleteRecordFails,
                DeleteContent, DeleteContentFails
  <2>. QED  BY <1>b, <2>1 DEF ContentInv, RecordHasContent, NeverEmpty, Current
<1>5. ASSUME NEW v \in Views, NEW f \in blobs, ChooseView(v, f)
      PROVE  ContentInv'
  BY <1>5 DEF ContentInv, TypeOK, RecordHasContent, NeverEmpty, Current, ChooseView
<1>6. ASSUME NEW v \in Views, FindRecord(v) \/ FindContent(v)
      PROVE  ContentInv'
  BY <1>6 DEF ContentInv, TypeOK, RecordHasContent, NeverEmpty, Current,
              FindRecord, FindContent, EndView
<1>7. ASSUME Crash
      PROVE  ContentInv'
  BY <1>7 DEF ContentInv, TypeOK, RecordHasContent, NeverEmpty, Current, Crash
<1>8. CASE UNCHANGED vars
  BY <1>8 DEF ContentInv, RecordHasContent, NeverEmpty, Current, vars
<1>. QED  BY <1>1, <1>2, <1>3, <1>4, <1>5, <1>6, <1>7, <1>8, StepCases

(* A listed picture always has its content, through failures and crashes   *)
(* between the two stores.                                                 *)
THEOREM ListedIsServed == Spec => []RecordHasContent
<1>1. Init => ContentInv
  BY DEF Init, ContentInv, RecordHasContent, NeverEmpty
<1>2. TypeOK /\ ContentInv /\ [Next]_vars => ContentInv'
  BY ContentStep, StoreAssumption
<1>3. ContentInv => RecordHasContent
  BY DEF ContentInv
<1>. QED  BY <1>1, <1>2, <1>3, TypeCorrect, PTL DEF Spec

(* No view of a listed picture is empty: between finding the record and    *)
(* reading the content nobody takes the content away.                      *)
THEOREM ViewsAreServed == Spec => []NeverEmpty
<1>1. Init => ContentInv
  BY DEF Init, ContentInv, RecordHasContent, NeverEmpty
<1>2. TypeOK /\ ContentInv /\ [Next]_vars => ContentInv'
  BY ContentStep, StoreAssumption
<1>3. ContentInv => NeverEmpty
  BY DEF ContentInv
<1>. QED  BY <1>1, <1>2, <1>3, TypeCorrect, PTL DEF Spec

-----------------------------------------------------------------------------
(* The loop of uploadFile is past file f: it will not save it (again).     *)
Past(f) == upload[f[1]] = "done" \/ f[2] < place[f[1]]

(* The removal d deleted the record of its file.                           *)
Taker(d) == remove[d] = "content" \/ removed[d] = "ok"

(* A record is saved once, so the file of a removal that took it stays     *)
(* without a record, and no second removal can take it.                    *)
TakerInv ==
  /\ \A f \in infos : Past(f)
  /\ \A d \in Removals : removed[d] # "none" => remove[d] = "done"
  /\ \A d \in Removals : Taker(d) => wanted[d] \in Files \ infos /\ Past(wanted[d])
  /\ \A d, e \in Removals : Taker(d) /\ Taker(e) /\ wanted[d] = wanted[e] => d = e

(* Once past a file, the loop does not come back to it.                    *)
LEMMA PastStays ==
  ASSUME StoreAssumption, TypeOK, [Next]_vars, NEW f \in Files, Past(f)
  PROVE  Past(f)'
<1>. USE DEF stores, uploads, removals, views
<1>1. f[1] \in Uploads /\ f[2] \in Nat /\ f[2] >= 1
  BY DEF Files
<1>2. ASSUME NEW u \in Uploads, NoSession(u) \/ Store(u) \/ StoreFails(u) \/ SaveFails(u)
      PROVE  Past(f)'
  BY <1>1, <1>2 DEF Past, TypeOK, NoSession, Store, StoreFails, SaveFails, EndUpload
<1>3. ASSUME NEW u \in Uploads, Save(u)
      PROVE  Past(f)'
  <2>1. place[u] \in Nat /\ upload[u] = "save"
    BY <1>3 DEF TypeOK, Save
  <2>2. CASE place[u] < FileCount[u]
    BY <1>1, <1>3, <2>1, <2>2 DEF Past, TypeOK, Save, NextFile
  <2>3. CASE ~(place[u] < FileCount[u])
    BY <1>1, <1>3, <2>1, <2>3 DEF Past, TypeOK, Save, NextFile, EndUpload
  <2>. QED  BY <2>2, <2>3
<1>4. ASSUME Crash
      PROVE  Past(f)'
  BY <1>1, <1>4 DEF Past, TypeOK, Crash
<1>5. CASE UNCHANGED <<upload, place>>
  BY <1>5 DEF Past
<1>. QED
  BY <1>2, <1>3, <1>4, <1>5, StepCases
     DEF vars, ChooseRemoval, FindRemoval, DeleteRecord, DeleteRecordFails, DeleteContent,
         DeleteContentFails, ChooseView, FindRecord, FindContent

(* A record that an upload adds is one it was not past, and is past then.  *)
LEMMA SavedOnce ==
  ASSUME StoreAssumption, TypeOK, NEW u \in Uploads, Save(u) \/ SaveFails(u),
         NEW f, f = Current(u)
  PROVE  /\ infos' \subseteq infos \cup {f}
         /\ ~Past(f)
         /\ Past(f)'
         /\ f \in Files
<1>1. /\ place[u] \in Nat /\ upload[u] = "save" /\ f \in Files
      /\ f[1] = u /\ f[2] = place[u]
      /\ infos' \subseteq infos \cup {f}
  BY CurrentIsFile DEF TypeOK, Save, SaveFails, Current
<1>2. ~Past(f)
  BY <1>1 DEF Past
<1>3. CASE Save(u) /\ place[u] < FileCount[u]
  <2>1. place'[u] = place[u] + 1
    BY <1>3 DEF Save, NextFile, TypeOK
  <2>. QED  BY <1>1, <1>2, <2>1 DEF Past
<1>4. CASE SaveFails(u) \/ (Save(u) /\ ~(place[u] < FileCount[u]))
  <2>1. upload'[u] = "done"
    BY <1>4 DEF Save, SaveFails, NextFile, EndUpload, TypeOK
  <2>. QED  BY <1>1, <1>2, <2>1 DEF Past
<1>. QED  BY <1>3, <1>4

LEMMA TakerStep ==
  ASSUME StoreAssumption, TypeOK, TakerInv, [Next]_vars
  PROVE  TakerInv'
<1>. USE DEF stores, uploads, removals, views
<1>p. /\ \A f \in Files : Past(f) => Past(f)'
      /\ infos \subseteq Files
      /\ \A f \in infos : Past(f)'
  BY PastStays DEF TypeOK, TakerInv
<1>1. ASSUME NEW u \in Uploads, Save(u) \/ SaveFails(u)
      PROVE  TakerInv'
  <2>1. PICK f : f = Current(u)
    OBVIOUS
  <2>2. infos' \subseteq infos \cup {f} /\ ~Past(f) /\ Past(f)' /\ f \in Files
    BY <1>1, <2>1, SavedOnce
  <2>3. UNCHANGED <<remove, removed, wanted>>
    BY <1>1 DEF Save, SaveFails
  <2>4. \A d \in Removals : Taker(d)' <=> Taker(d)
    BY <2>3 DEF Taker
  <2>. QED  BY <1>p, <2>2, <2>3, <2>4 DEF TakerInv
<1>2. ASSUME UNCHANGED <<infos, remove, removed>>,
             \A d \in Removals : wanted'[d] = wanted[d]
      PROVE  TakerInv'
  <2>1. \A d \in Removals : Taker(d)' <=> Taker(d)
    BY <1>2 DEF Taker
  <2>. QED  BY <1>p, <1>2, <2>1 DEF TakerInv
<1>3. ASSUME NEW d \in Removals, NEW f \in blobs, ChooseRemoval(d, f)
      PROVE  TakerInv'
  <2>1. /\ remove[d] = "idle" /\ removed[d] = "none" /\ remove'[d] = "find"
        /\ UNCHANGED <<infos, removed>>
        /\ \A e \in Removals : e # d => remove'[e] = remove[e] /\ wanted'[e] = wanted[e]
    BY <1>3 DEF ChooseRemoval, TakerInv, TypeOK
  <2>2. ~Taker(d) /\ ~Taker(d)' /\ \A e \in Removals : e # d => (Taker(e)' <=> Taker(e))
    BY <2>1 DEF Taker
  <2>. QED  BY <1>p, <2>1, <2>2 DEF TakerInv
<1>4. ASSUME NEW d \in Removals, DeleteRecord(d)
      PROVE  TakerInv'
  <2>1. /\ remove[d] = "delete" /\ infos' = infos \ {wanted[d]} /\ wanted' = wanted
        /\ \A e \in Removals : e # d => remove'[e] = remove[e] /\ removed'[e] = removed[e]
        /\ remove'[d] \in {"content", "done"} /\ removed'[d] # "ok"
        /\ remove'[d] = "content" => wanted[d] \in infos
        /\ removed'[d] # "none" => remove'[d] = "done"
    BY <1>4 DEF DeleteRecord, EndRemove, TakerInv, TypeOK
  <2>2. /\ Taker(d)' => wanted[d] \in infos
        /\ \A e \in Removals : e # d => (Taker(e)' <=> Taker(e))
    BY <2>1 DEF Taker
  <2>. QED  BY <1>p, <2>1, <2>2 DEF TakerInv
<1>5. ASSUME NEW d \in Removals,
             FindRemoval(d) \/ DeleteRecordFails(d) \/ DeleteContent(d) \/ DeleteContentFails(d)
      PROVE  TakerInv'
  <2>1. /\ infos' \subseteq infos /\ wanted' = wanted
        /\ \A e \in Removals : e # d => remove'[e] = remove[e] /\ removed'[e] = removed[e]
        /\ remove'[d] = "delete" \/ remove'[d] = "done"
        /\ removed'[d] = "ok" => remove[d] = "content"
        /\ removed'[d] # "none" => remove'[d] = "done"
    BY <1>5 DEF FindRemoval, DeleteRecordFails, DeleteContent, DeleteContentFails, EndRemove,
                TakerInv, TypeOK
  <2>2. \A e \in Removals : Taker(e)' => Taker(e)
    BY <2>1 DEF Taker
  <2>. QED  BY <1>p, <2>1, <2>2 DEF TakerInv
<1>6. ASSUME Crash
      PROVE  TakerInv'
  <2>1. /\ UNCHANGED <<infos, wanted, removed>>
        /\ \A d \in Removals : remove'[d] = "idle" \/ remove'[d] = "done"
        /\ \A d \in Removals : remove[d] = "done" => remove'[d] = "done"
    BY <1>6 DEF Crash, TypeOK
  <2>2. \A d \in Removals : Taker(d)' => Taker(d)
    BY <2>1 DEF Taker
  <2>. QED  BY <1>p, <2>1, <2>2 DEF TakerInv
<1>7. ASSUME NEW u \in Uploads, NoSession(u) \/ Store(u) \/ StoreFails(u)
      PROVE  TakerInv'
  BY <1>2, <1>7 DEF NoSession, Store, StoreFails
<1>8. ASSUME NEW v \in Views,
             (\E f \in blobs : ChooseView(v, f)) \/ FindRecord(v) \/ FindContent(v)
      PROVE  TakerInv'
  BY <1>2, <1>8 DEF ChooseView, FindRecord, FindContent, TypeOK, StoreAssumption
<1>9. CASE UNCHANGED vars
  BY <1>2, <1>9 DEF vars
<1>. QED  BY <1>1, <1>3, <1>4, <1>5, <1>6, <1>7, <1>8, <1>9, StepCases

(* Of all the clients that remove a file, in any order of their calls and  *)
(* whatever fails, one at most is told that he removed it.                 *)
THEOREM RemovedOnceOnly == Spec => []RemovedOnce
<1>1. Init => TakerInv
  BY DEF Init, TakerInv, Taker
<1>2. TypeOK /\ TakerInv /\ [Next]_vars => TakerInv'
  BY TakerStep, StoreAssumption
<1>3. TakerInv => RemovedOnce
  BY DEF TakerInv, Taker, RemovedOnce
<1>. QED  BY <1>1, <1>2, <1>3, TypeCorrect, PTL DEF Spec

-----------------------------------------------------------------------------
(* uploadFile has saved the record of file f.                              *)
Saved(f) == f[2] < place[f[1]] \/ uploaded[f[1]] = "ok"

TakenAway(f) == \E d \in Removals : wanted[d] = f /\ remove[d] \in {"content", "done"}

(* What was saved is still there unless a removal took it, and its content *)
(* is there in any case.                                                   *)
CompleteInv ==
  /\ \A u \in Uploads : uploaded[u] # "none" => upload[u] = "done"
  /\ \A f \in Files : Saved(f) => f \in blobs /\ (f \in infos \/ TakenAway(f))

(* A removal that took a record away stays so.                             *)
LEMMA TakenStays ==
  ASSUME StoreAssumption, TypeOK, [Next]_vars, NEW f, TakenAway(f)
  PROVE  TakenAway(f)'
<1>. USE DEF stores, uploads, removals, views
<1>1. PICK d \in Removals : wanted[d] = f /\ remove[d] \in {"content", "done"}
  BY DEF TakenAway
<1>2. SUFFICES wanted'[d] = f /\ remove'[d] \in {"content", "done"}
  BY DEF TakenAway
<1>3. ASSUME NEW u \in Uploads,
             NoSession(u) \/ Store(u) \/ StoreFails(u) \/ Save(u) \/ SaveFails(u)
      PROVE  UNCHANGED <<wanted, remove>>
  BY <1>3 DEF NoSession, Store, StoreFails, Save, SaveFails
<1>4. ASSUME NEW e \in Removals,
             \/ \E g \in blobs : ChooseRemoval(e, g)
             \/ FindRemoval(e) \/ DeleteRecord(e) \/ DeleteRecordFails(e)
             \/ DeleteContent(e) \/ DeleteContentFails(e)
      PROVE  wanted'[d] = f /\ remove'[d] \in {"content", "done"}
  BY <1>1, <1>4 DEF TypeOK, ChooseRemoval, FindRemoval, DeleteRecord, DeleteRecordFails,
                    DeleteContent, DeleteContentFails, EndRemove
<1>5. ASSUME NEW v \in Views, (\E g \in blobs : ChooseView(v, g)) \/ FindRecord(v) \/ FindContent(v)
      PROVE  wanted'[d] = f /\ remove' = remove
  BY <1>1, <1>5 DEF StoreAssumption, TypeOK, ChooseView, FindRecord, FindContent
<1>6. ASSUME Crash
      PROVE  wanted' = wanted /\ remove'[d] = "done"
  BY <1>1, <1>6 DEF Crash
<1>7. CASE UNCHANGED vars
  BY <1>1, <1>7 DEF vars
<1>. QED  BY <1>1, <1>3, <1>4, <1>5, <1>6, <1>7, StepCases

(* What a step does not save anew, or delete, stays complete.              *)
LEMMA CompleteStays ==
  ASSUME StoreAssumption, TypeOK, CompleteInv, [Next]_vars,
         \A u \in Uploads : uploaded'[u] # "none" => upload'[u] = "done",
         NEW f \in Files,
         Saved(f)' => Saved(f) \/ f \in blobs' \cap infos',
         f \in infos => f \in infos' \/ TakenAway(f)'
  PROVE  Saved(f)' => f \in blobs' /\ (f \in infos' \/ TakenAway(f)')
<1>1. TakenAway(f) => TakenAway(f)'
  BY TakenStays
<1>2. blobs \subseteq blobs'
  BY ContentStays
<1>. QED  BY <1>1, <1>2 DEF CompleteInv

LEMMA CompleteStep ==
  ASSUME StoreAssumption, TypeOK, ContentInv, CompleteInv, [Next]_vars
  PROVE  CompleteInv'
<1>. USE DEF stores, uploads, removals, views
<1>f. Files' = Files
  BY DEF Files
<1>1. ASSUME NEW u \in Uploads, NoSession(u) \/ Store(u) \/ StoreFails(u) \/ SaveFails(u)
      PROVE  CompleteInv'
  <2>1. /\ infos \subseteq infos' /\ place' = place
        /\ \A q \in Uploads : uploaded'[q] = "ok" => uploaded[q] = "ok"
        /\ \A q \in Uploads : uploaded'[q] # "none" => upload'[q] = "done"
    BY <1>1 DEF NoSession, Store, StoreFails, SaveFails, EndUpload, TypeOK, CompleteInv
  <2>2. ASSUME NEW f \in Files
        PROVE  Saved(f)' => Saved(f)
    BY <2>1 DEF Saved, Files
  <2>. QED  BY <1>f, <2>1, <2>2, CompleteStays DEF CompleteInv
<1>2. ASSUME NEW u \in Uploads, Save(u)
      PROVE  CompleteInv'
  <2>1. /\ upload[u] = "save" /\ infos' = infos \cup {Current(u)} /\ blobs' = blobs
        /\ Current(u) \in blobs /\ place[u] \in Nat /\ FileCount[u] \in Nat
    BY <1>2 DEF Save, ContentInv, TypeOK, StoreAssumption
  <2>2. \A q \in Uploads : uploaded'[q] # "none" => upload'[q] = "done"
    BY <1>2 DEF Save, NextFile, EndUpload, TypeOK, CompleteInv
  <2>3. ASSUME NEW f \in Files
        PROVE  Saved(f)' => Saved(f) \/ f = Current(u)
    <3>1. f[1] \in Uploads /\ f[2] \in Nat /\ f[2] <= FileCount[f[1]] /\ f = <<f[1], f[2]>>
      BY DEF Files, StoreAssumption
    <3>2. CASE place[u] < FileCount[u]
      <4>1. /\ uploaded' = uploaded
            /\ place'[f[1]] = IF f[1] = u THEN place[u] + 1 ELSE place[f[1]]
        BY <1>2, <3>1, <3>2 DEF Save, NextFile, TypeOK
      <4>. QED  BY <2>1, <3>1, <4>1 DEF Saved, Current, TypeOK
    <3>3. CASE ~(place[u] < FileCount[u])
      <4>1. /\ place' = place
            /\ \A q \in Uploads : q # u => uploaded'[q] = uploaded[q]
        BY <1>2, <3>3 DEF Save, NextFile, EndUpload, TypeOK
      <4>. QED  BY <2>1, <3>1, <3>3, <4>1 DEF Saved, Current, TypeOK
    <3>. QED  BY <3>2, <3>3
  <2>. QED  BY <1>f, <2>1, <2>2, <2>3, CompleteStays DEF CompleteInv
<1>3. ASSUME UNCHANGED <<upload, place, uploaded>>,
             \A f \in infos : f \in infos' \/ TakenAway(f)'
      PROVE  CompleteInv'
  <2>1. \A f \in Files : Saved(f)' <=> Saved(f)
    BY <1>3 DEF Saved
  <2>2. \A q \in Uploads : uploaded'[q] # "none" => upload'[q] = "done"
    BY <1>3 DEF CompleteInv
  <2>. QED  BY <1>f, <1>3, <2>1, <2>2, CompleteStays DEF CompleteInv
<1>4. ASSUME NEW d \in Removals, DeleteRecord(d) \/ DeleteRecordFails(d)
      PROVE  CompleteInv'
  <2>1. /\ infos \ {wanted[d]} \subseteq infos' /\ wanted' = wanted
        /\ remove'[d] \in {"content", "done"} /\ UNCHANGED <<upload, place, uploaded>>
    BY <1>4 DEF DeleteRecord, DeleteRecordFails, EndRemove, TypeOK
  <2>. QED  BY <1>3, <2>1 DEF TakenAway
<1>5. ASSUME NEW d \in Removals,
             \/ \E f \in blobs : ChooseRemoval(d, f)
             \/ FindRemoval(d) \/ DeleteContent(d) \/ DeleteContentFails(d)
      PROVE  CompleteInv'
  BY <1>3, <1>5 DEF ChooseRemoval, FindRemoval, DeleteContent, DeleteContentFails
<1>6. ASSUME NEW v \in Views, (\E f \in blobs : ChooseView(v, f)) \/ FindRecord(v) \/ FindContent(v)
      PROVE  CompleteInv'
  BY <1>3, <1>6 DEF ChooseView, FindRecord, FindContent
<1>7. ASSUME Crash
      PROVE  CompleteInv'
  <2>1. UNCHANGED <<infos, place, uploaded>>
    BY <1>7 DEF Crash
  <2>2. \A q \in Uploads : uploaded'[q] # "none" => upload'[q] = "done"
    BY <1>7 DEF Crash, CompleteInv
  <2>3. \A f \in Files : Saved(f)' <=> Saved(f)
    BY <2>1 DEF Saved
  <2>. QED  BY <1>f, <2>1, <2>2, <2>3, CompleteStays DEF CompleteInv
<1>8. CASE UNCHANGED vars
  BY <1>3, <1>8 DEF vars
<1>. QED  BY <1>1, <1>2, <1>4, <1>5, <1>6, <1>7, <1>8, StepCases

LEMMA CompleteInit == ASSUME Init PROVE CompleteInv
  BY DEF Init, CompleteInv, Saved, Files

(* An upload answered with success left a record for each of its files,    *)
(* and only a removal of that file took it away since, whatever fails.     *)
THEOREM SuccessComplete == Spec => []SuccessIsComplete
<1>1. Init => CompleteInv /\ ContentInv
  BY CompleteInit DEF Init, ContentInv, RecordHasContent, NeverEmpty
<1>2. TypeOK /\ ContentInv /\ CompleteInv /\ [Next]_vars => ContentInv' /\ CompleteInv'
  BY ContentStep, CompleteStep, StoreAssumption
<1>3. TypeOK /\ CompleteInv => SuccessIsComplete
  BY DEF CompleteInv, SuccessIsComplete, Saved, TakenAway, Files, TypeOK, StoreAssumption
<1>. QED  BY <1>1, <1>2, <1>3, TypeCorrect, PTL DEF Spec

=============================================================================
