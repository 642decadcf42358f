------------------------------ MODULE FileStore ------------------------------
(***************************************************************************)
(* The album: ImageController with its two MongoDB stores, the contents of *)
(* the files in GridFS and their records in the collection fileInfo.       *)
(*                                                                         *)
(* A file is identified by the request that uploads it and its place in    *)
(* that request; the ObjectId that GridFS gives it is unique in the same   *)
(* way.  No transaction spans the two stores: a step is one call to one of *)
(* them, and other requests run, or the server dies, between two steps.    *)
(***************************************************************************)
EXTENDS Integers, FiniteSets

CONSTANTS
  Uploads,        \* calls of /uploadFile
  FileCount,      \* number of files each of them carries
  LoggedIn,       \* the uploads whose session has a user for sure
  Removals,       \* calls of /removeImages
  Views,          \* calls of /queryOneFile
  NoFile,         \* the file of a call that was not made yet
  MaxFaults       \* bound on the failed calls and crashes

ASSUME StoreAssumption ==
  /\ FileCount \in [Uploads -> Nat \ {0}]
  /\ LoggedIn \subseteq Uploads
  /\ Removals \cap Views = {}
  /\ NoFile \notin Uploads \X Nat
  /\ MaxFaults \in Nat

VARIABLES
  blobs,      \* GridFS: the files whose content is stored
  infos,      \* fileInfo: the files that have a record
  upload,     \* uploadFile: next call of each request
  place,      \* uploadFile: the file it is at
  uploaded,   \* uploadFile: the answer
  remove,     \* removeFJile: next call of each request
  removed,    \* removeFJile: the answer
  view,       \* queryAllFile: next call of each request
  viewed,     \* queryAllFile: the answer
  wanted,     \* the fileId of each removal and view
  faults      \* history: number of failures so far

stores   == <<blobs, infos>>
uploads  == <<upload, place, uploaded>>
removals == <<remove, removed>>
views    == <<view, viewed>>
vars     == <<stores, uploads, removals, views, wanted, faults>>

Init ==
  /\ blobs = {}
  /\ infos = {}
  /\ upload = [u \in Uploads |-> "store"]
  /\ place = [u \in Uploads |-> 1]
  /\ uploaded = [u \in Uploads |-> "none"]
  /\ remove = [d \in Removals |-> "idle"]
  /\ removed = [d \in Removals |-> "none"]
  /\ view = [v \in Views |-> "idle"]
  /\ viewed = [v \in Views |-> "none"]
  /\ wanted = [q \in Removals \cup Views |-> NoFile]
  /\ faults = 0

-----------------------------------------------------------------------------
(* The file that upload u is at.                                           *)
Current(u) == <<u, place[u]>>

Fault ==
  /\ faults < MaxFaults
  /\ faults' = faults + 1

EndUpload(u, text) ==
  /\ upload' = [upload EXCEPT ![u] = "done"]
  /\ uploaded' = [uploaded EXCEPT ![u] = text]

(* No user in the session, or none any more: the answer is null.           *)
NoSession(u) ==
  /\ upload[u] = "store"
  /\ place[u] = 1
  /\ u \notin LoggedIn
  /\ EndUpload(u, "null")
  /\ UNCHANGED <<stores, place, removals, views, wanted, faults>>

Store(u) ==
  /\ upload[u] = "store"
  /\ blobs' = blobs \cup {Current(u)}
  /\ upload' = [upload EXCEPT ![u] = "save"]
  /\ UNCHANGED <<infos, place, uploaded, removals, views, wanted, faults>>

(* Wrong on purpose: goes on without the content.                          *)
StoreFailsUnnoticed(u) ==
  /\ upload[u] = "store"
  /\ Fault
  /\ upload' = [upload EXCEPT ![u] = "save"]
  /\ UNCHANGED <<stores, place, uploaded, removals, views, wanted>>

(* The store throws: the request ends without an answer of its own.        *)
StoreFails(u) ==
  /\ upload[u] = "store"
  /\ Fault
  /\ EndUpload(u, "exception")
  /\ UNCHANGED <<stores, place, removals, views, wanted>>

(* Wrong on purpose: one file too many.                                    *)
NextFileTooMany(u) ==
  IF place[u] <= FileCount[u]
    THEN /\ place' = [place EXCEPT ![u] = @ + 1]
         /\ upload' = [upload EXCEPT ![u] = "store"]
         /\ UNCHANGED uploaded
    ELSE EndUpload(u, "ok") /\ UNCHANGED place

(* The next file of the request, or its answer.                            *)
NextFile(u) ==
  IF place[u] < FileCount[u]
    THEN /\ place' = [place EXCEPT ![u] = @ + 1]
         /\ upload' = [upload EXCEPT ![u] = "store"]
         /\ UNCHANGED uploaded
    ELSE EndUpload(u, "ok") /\ UNCHANGED place

Save(u) ==
  /\ upload[u] = "save"
  /\ infos' = infos \cup {Current(u)}
  /\ NextFile(u)
  /\ UNCHANGED <<blobs, removals, views, wanted, faults>>

(* Wrong on purpose: the result of saveOne is not looked at.               *)
SaveFailsIgnored(u) ==
  /\ upload[u] = "save"
  /\ Fault
  /\ infos' \in {infos, infos \cup {Current(u)}}
  /\ NextFile(u)
  /\ UNCHANGED <<blobs, removals, views, wanted>>

(* saveOne swallows the exception and returns 0; the record may have been  *)
(* saved all the same.  Earlier files of the request stay, and so does the *)
(* content of this one.                                                    *)
SaveFails(u) ==
  /\ upload[u] = "save"
  /\ Fault
  /\ infos' \in {infos, infos \cup {Current(u)}}
  /\ EndUpload(u, "recordError")
  /\ UNCHANGED <<blobs, place, removals, views, wanted>>

-----------------------------------------------------------------------------
EndRemove(d, text) ==
  /\ remove' = [remove EXCEPT ![d] = "done"]
  /\ removed' = [removed EXCEPT ![d] = text]

(* A client picks a file from a listing of the records (getImages) or from *)
(* the answer to an upload.  Its list may be old: all that is sure is that *)
(* the file was stored once.                                               *)
ChooseRemoval(d, f) ==
  /\ remove[d] = "idle"
  /\ wanted' = [wanted EXCEPT ![d] = f]
  /\ remove' = [remove EXCEPT ![d] = "find"]
  /\ UNCHANGED <<stores, uploads, removed, views, faults>>

FindRemoval(d) ==
  /\ remove[d] = "find"
  /\ IF wanted[d] \in infos
       THEN remove' = [remove EXCEPT ![d] = "delete"] /\ UNCHANGED removed
       ELSE EndRemove(d, "missing")
  /\ UNCHANGED <<stores, uploads, views, wanted, faults>>

(* Wrong on purpose: the number of records deleted is not looked at.       *)
DeleteRecordUncounted(d) ==
  /\ remove[d] = "delete"
  /\ infos' = infos \ {wanted[d]}
  /\ remove' = [remove EXCEPT ![d] = "content"]
  /\ UNCHANGED <<blobs, uploads, removed, views, wanted, faults>>

(* deleteOne, and the check that it deleted something: another removal may *)
(* have come first.                                                        *)
DeleteRecord(d) ==
  /\ remove[d] = "delete"
  /\ infos' = infos \ {wanted[d]}
  /\ IF wanted[d] \in infos
       THEN remove' = [remove EXCEPT ![d] = "content"] /\ UNCHANGED removed
       ELSE EndRemove(d, "recordError")
  /\ UNCHANGED <<blobs, uploads, views, wanted, faults>>

(* deleteOne swallows the exception and returns 0.                         *)
DeleteRecordFails(d) ==
  /\ remove[d] = "delete"
  /\ Fault
  /\ infos' \in {infos, infos \ {wanted[d]}}
  /\ EndRemove(d, "recordError")
  /\ UNCHANGED <<blobs, uploads, views, wanted>>

(* Wrong on purpose, as a correction made carelessly would be: the content *)
(* goes, whoever is about to read it.                                      *)
ContentMatchingId(f) == {f}

(* The contents that gridFsTemplate.delete finds with the query it is      *)
(* given, fileId = f.  The documents of fs.files have no field fileId, so  *)
(* there are none; the query for a content, line 136, goes by _id.         *)
ContentMatching(f) == {}

DeleteContent(d) ==
  /\ remove[d] = "content"
  /\ blobs' = blobs \ ContentMatching(wanted[d])
  /\ EndRemove(d, "ok")
  /\ UNCHANGED <<infos, uploads, views, wanted, faults>>

DeleteContentFails(d) ==
  /\ remove[d] = "content"
  /\ Fault
  /\ EndRemove(d, "exception")
  /\ UNCHANGED <<stores, uploads, views, wanted>>

-----------------------------------------------------------------------------
EndView(v, text) ==
  /\ view' = [view EXCEPT ![v] = "done"]
  /\ viewed' = [viewed EXCEPT ![v] = text]

ChooseView(v, f) ==
  /\ view[v] = "idle"
  /\ wanted' = [wanted EXCEPT ![v] = f]
  /\ view' = [view EXCEPT ![v] = "find"]
  /\ UNCHANGED <<stores, uploads, removals, viewed, faults>>

(* The record first: get(0) throws on the empty list of a removed file.    *)
FindRecord(v) ==
  /\ view[v] = "find"
  /\ IF wanted[v] \in infos
       THEN view' = [view EXCEPT ![v] = "content"] /\ UNCHANGED viewed
       ELSE EndView(v, "exception")
  /\ UNCHANGED <<stores, uploads, removals, wanted, faults>>

(* Then the content: none is answered with an empty body.                  *)
FindContent(v) ==
  /\ view[v] = "content"
  /\ EndView(v, IF wanted[v] \in blobs THEN "content" ELSE "empty")
  /\ UNCHANGED <<stores, uploads, removals, wanted, faults>>

(* The server dies: whatever was under way ends without an answer.         *)
Crash ==
  /\ Fault
  /\ upload' = [u \in Uploads |-> IF place[u] = 1 /\ upload[u] = "store"
                                   THEN "store" ELSE "done"]
  /\ remove' = [d \in Removals |-> IF remove[d] = "idle" THEN "idle" ELSE "done"]
  /\ view' = [v \in Views |-> IF view[v] = "idle" THEN "idle" ELSE "done"]
  /\ UNCHANGED <<stores, place, uploaded, removed, viewed, wanted>>

Upload(u) == NoSession(u) \/ Store(u) \/ StoreFails(u) \/ Save(u) \/ SaveFails(u)

RemoveCalls(d) ==
  \/ FindRemoval(d) \/ DeleteRecord(d) \/ DeleteRecordFails(d)
  \/ DeleteContent(d) \/ DeleteContentFails(d)

Remove(d) == (\E f \in blobs : ChooseRemoval(d, f)) \/ RemoveCalls(d)

ViewCalls(v) == FindRecord(v) \/ FindContent(v)

View(v) == (\E f \in blobs : ChooseView(v, f)) \/ ViewCalls(v)

Next ==
  \/ \E u \in Uploads : Upload(u)
  \/ \E d \in Removals : Remove(d)
  \/ \E v \in Views : View(v)
  \/ Crash

Spec == Init /\ [][Next]_vars

-----------------------------------------------------------------------------
Files == {f \in Uploads \X Nat : f[2] \in 1..FileCount[f[1]]}

(* Type correctness; and a request that works on a file has one.           *)
TypeOK ==
  /\ blobs \subseteq Files
  /\ infos \subseteq Files
  /\ upload \in [Uploads -> {"store", "save", "done"}]
  /\ place \in [Uploads -> Nat]
  /\ \A u \in Uploads : place[u] \in 1..FileCount[u]
  /\ uploaded \in [Uploads -> {"none", "null", "exception", "recordError", "ok"}]
  /\ remove \in [Removals -> {"idle", "find", "delete", "content", "done"}]
  /\ removed \in [Removals -> {"none", "missing", "recordError", "exception", "ok"}]
  /\ view \in [Views -> {"idle", "find", "content", "done"}]
  /\ viewed \in [Views -> {"none", "exception", "empty", "content"}]
  /\ wanted \in [Removals \cup Views -> Files \cup {NoFile}]
  /\ faults \in Nat
  /\ \A d \in Removals : remove[d] \in {"find", "delete", "content"} => wanted[d] \in Files
  /\ \A v \in Views : view[v] \in {"find", "content"} => wanted[v] \in Files

(* Every picture that a listing shows has its content, whatever fails      *)
(* between the two stores: uploads store the content first and removals    *)
(* delete the record first.                                                *)
RecordHasContent == infos \subseteq blobs

(* However many clients remove a file at the same time, one at most is     *)
(* told that he did: the others find it gone, or delete nothing.           *)
RemovedOnce ==
  \A d, e \in Removals :
    (removed[d] = "ok" /\ removed[e] = "ok" /\ wanted[d] = wanted[e]) => d = e

(* An upload answered with success left a record for each of its files,    *)
(* and only a removal of that file took it away since.                     *)
SuccessIsComplete ==
  \A u \in Uploads : uploaded[u] = "ok" =>
    \A i \in 1..FileCount[u] :
      \/ <<u, i>> \in infos
      \/ \E d \in Removals : wanted[d] = <<u, i>> /\ remove[d] \in {"content", "done"}

(* A client that opens a picture while another removes it gets an error or *)
(* the picture, and never an empty one.                                    *)
NeverEmpty == \A v \in Views : viewed[v] # "empty"

(* What the comment on removeFJile and its answer say: the file is gone.   *)
RemovedIsGone == \A d \in Removals : removed[d] = "ok" => wanted[d] \notin blobs

=============================================================================
