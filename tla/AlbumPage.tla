------------------------------ MODULE AlbumPage ------------------------------
(***************************************************************************)
(* The page of one album (categories.html with myJs.js and category.js)    *)
(* over the album of FileStore and the transport of FormUpload.  The page  *)
(* lists the pictures of its category once, when it opens, and from then   *)
(* on it adds what its own uploads answer and takes away what its own      *)
(* removals answer.  Replies come back in any order, or not at all.        *)
(*                                                                         *)
(* Other clients of the same user upload and remove as well: Uploads that  *)
(* are not Submissions, and Removals that are not clicks on this page.     *)
(***************************************************************************)
EXTENDS FileStore, FormUpload, ContextMenu

CONSTANTS
  Selections,     \* what the user may choose in the file dialog
  NoSelection,
  Escape,         \* what an address holds for each character that it cannot hold
  Visits          \* the album of a visit of the page, and bounds on what happens
                  \* during it: uploads, selections, clicks, removals elsewhere,
                  \* views, menu, faults

ASSUME PageAssumption ==
  /\ Submissions \subseteq Uploads
  /\ Removals \subseteq Nat      \* numbered in their order
  /\ NoSelection \notin Selections
  /\ \A c, d \in DOMAIN Escape : Escape[c] = Escape[d] => c = d
  /\ \A c \in DOMAIN Escape : Escape[c] \notin DOMAIN Escape \cup {"#"}
  /\ \A w \in Visits :
       /\ w.album \in Seq(STRING) \ {<<>>}
       /\ \A i \in 1..Len(w.album) :
            w.album[i] # "#" /\ \A c \in DOMAIN Escape : w.album[i] # Escape[c]
       /\ w.uploads \subseteq Uploads
       /\ w.clicks \subseteq Removals
       /\ w.clicks \cap w.elsewhere = {}

VARIABLES
  visit,      \* the album and the bounds of this visit
  elements,   \* how many list items the page has for each picture
  listing,    \* the request of loadImage: "asked", "read", "shown" or "failed"
  listed,     \* the pictures in its answer
  told,       \* what the page heard of each removal: "no", "answer" or "error"
  hash,       \* the address ends with "#", as after a click on a button
  category,   \* the field category of each submission
  input,      \* the files of the file input
  preview,    \* the files of the thumbnails in photo-listContainer
  early       \* history: the submissions made before the listing was shown

store     == vars
pageVars  == <<visit, elements, listing, listed, told, hash, category, input, preview,
               early>>
albumVars == <<vars, formVars, menuVars, pageVars>>

FilesOf(u) == {u} \X (1..FileCount[u])
Pictures   == UNION {FilesOf(u) : u \in Uploads}

(* The browser escapes the name of the album that a link leads to, and the *)
(* server takes the escapes back out of a query.                           *)
Address(name) ==
  [i \in 1..Len(name) |-> IF name[i] \in DOMAIN Escape THEN Escape[name[i]] ELSE name[i]]
Unescaped(value) ==
  [i \in 1..Len(value) |->
     IF \E c \in DOMAIN Escape : Escape[c] = value[i]
       THEN CHOOSE c \in DOMAIN Escape : Escape[c] = value[i]
       ELSE value[i]]

(* What document.URL has after "category=".                                *)
Value == IF hash THEN Address(visit.album) \o <<"#">> ELSE Address(visit.album)

PageInit ==
  /\ Init /\ FormInit /\ MenuInit
  /\ visit \in Visits
  /\ elements = [f \in Pictures |-> 0]
  /\ listing = "asked"
  /\ listed = {}
  /\ told = [d \in Removals |-> "no"]
  /\ hash = FALSE
  /\ category = [u \in Submissions |-> <<>>]
  /\ input = NoSelection
  /\ preview = NoSelection
  /\ early = {}

-----------------------------------------------------------------------------
(* Wrong on purpose: the last character stays.                             *)
GetParamUncut(value) == value

(* getParam takes one "#" off the end of the value, and leaves its escapes *)
(* alone.                                                                  *)
GetParam(value) ==
  IF value[Len(value)] = "#" THEN SubSeq(value, 1, Len(value) - 1) ELSE value

(* choose, once for each picture of an answer.                             *)
Choose(files) ==
  elements' = [f \in Pictures |-> IF f \in files THEN elements[f] + 1 ELSE elements[f]]

(* The other clients upload from the page of the same album.               *)
AlbumOf(f) ==
  IF f[1] \in Submissions THEN category[f[1]] ELSE GetParam(Address(visit.album))

(* getImages reads the records of the category in its query ...            *)
ReadListing ==
  /\ listing = "asked"
  /\ listing' = "read"
  /\ listed' = {f \in infos : AlbumOf(f) = Unescaped(GetParam(Address(visit.album)))}
  /\ UNCHANGED <<store, formVars, menuVars, visit, elements, told, hash, category, input,
                 preview, early>>

(* Wrong on purpose: the page asks again, without emptying its list.       *)
ShowListingAndPoll ==
  /\ listing = "read"
  /\ listing' = "asked"
  /\ Choose(listed)
  /\ MakeMenu
  /\ UNCHANGED <<store, formVars, visit, listed, told, hash, category, input, preview, early>>

(* ... and the page shows them, and makes the menu.                        *)
ShowListing ==
  /\ listing = "read"
  /\ listing' = "shown"
  /\ Choose(listed)
  /\ MakeMenu
  /\ UNCHANGED <<store, formVars, visit, listed, told, hash, category, input, preview, early>>

ListingFails ==
  /\ listing \in {"asked", "read"}
  /\ listing' = "failed"
  /\ UNCHANGED <<store, formVars, menuVars, visit, elements, listed, told, hash, category,
                 input, preview, early>>

-----------------------------------------------------------------------------
(* Wrong on purpose: thumbnails of a former selection stay.                *)
ChooseFilesBeside(s) ==
  /\ s \in visit.selections
  /\ s # input
  /\ input' = s
  /\ preview' = IF preview = NoSelection THEN s ELSE preview
  /\ ClickReachesMenu
  /\ UNCHANGED <<store, formVars, visit, elements, listing, listed, told, hash, category, early>>

(* The file dialog, and the thumbnails of what was chosen.                 *)
ChooseFiles(s) ==
  /\ s \in visit.selections
  /\ s # input
  /\ input' = s
  /\ preview' = s
  /\ ClickReachesMenu
  /\ UNCHANGED <<store, formVars, visit, elements, listing, listed, told, hash, category, early>>

(* upload(): nothing is sent without a file; the click itself then goes to *)
(* the address "#".                                                        *)
ClickUploadNothing ==
  /\ input = NoSelection
  /\ ~hash
  /\ hash' = TRUE
  /\ ClickReachesMenu
  /\ UNCHANGED <<store, formVars, visit, elements, listing, listed, told, category, input,
                 preview, early>>

ClickUpload(u) ==
  /\ u \in visit.uploads
  /\ input # NoSelection
  /\ AjaxSubmit(u)
  /\ category' = [category EXCEPT ![u] = GetParam(Value)]
  /\ hash' = TRUE
  /\ early' = IF listing = "shown" THEN early ELSE early \cup {u}
  /\ ClickReachesMenu
  /\ UNCHANGED <<store, visit, elements, listing, listed, told, input, preview>>

(* What the server sends back for a request that it has dealt with.        *)
Body(u) ==
  CASE uploaded[u] = "ok" -> "ok"
    [] uploaded[u] = "recordError" -> "refused"
    [] uploaded[u] = "null" -> "empty"
    [] uploaded[u] = "exception" -> "errorpage"
    [] uploaded[u] = "none" -> "lost"

(* The answer arrives, or the connection breaks at any moment.             *)
Receive(u) ==
  /\ \/ upload[u] = "done" /\ Respond(u, Body(u))
     \/ Respond(u, "lost")
  /\ UNCHANGED <<store, menuVars, pageVars>>

(* Wrong on purpose: an answer without success is taken for success.       *)
SuccessUnread(u) ==
  /\ answers'[u] # answers[u]
  /\ answers'[u][Len(answers'[u])] = "success"

(* The callback success of upload() is called with data.ok.                *)
Success(u) ==
  /\ answers'[u] # answers[u]
  /\ answers'[u][Len(answers'[u])] = "success"
  /\ reply[u] = "ok"

(* A task of the form plugin, with the callback that it makes.             *)
PageTask(u) ==
  /\ Task(u)
  /\ IF Success(u)
       THEN Choose(FilesOf(u)) /\ preview' = NoSelection
       ELSE UNCHANGED <<elements, preview>>
  /\ UNCHANGED <<store, menuVars, visit, listing, listed, told, hash, category, input, early>>

-----------------------------------------------------------------------------
(* remove(): a click on the cross of a picture.                            *)
ClickRemove(d, f) ==
  /\ d \in visit.clicks
  /\ elements[f] > 0
  /\ \A e \in visit.clicks : e < d => remove[e] # "idle"
  /\ ChooseRemoval(d, f)
  /\ ClickReachesMenu
  /\ UNCHANGED <<formVars, pageVars>>

(* Another client of the user removes a picture.                           *)
RemoveElsewhere(d, f) ==
  /\ d \in visit.elsewhere
  /\ ChooseRemoval(d, f)
  /\ UNCHANGED <<formVars, menuVars, pageVars>>

(* Wrong on purpose: the picture stays until the page is opened again.     *)
RemoveAnsweredOnly(d) ==
  /\ d \in visit.clicks
  /\ remove[d] = "done"
  /\ told[d] = "no"
  /\ removed[d] # "none"
  /\ told' = [told EXCEPT ![d] = "answer"]
  /\ UNCHANGED <<store, formVars, menuVars, visit, elements, listing, listed, hash, category,
                 input, preview, early>>

(* Its answer: on success the first item with that id goes.                *)
RemoveAnswered(d) ==
  /\ d \in visit.clicks
  /\ remove[d] = "done"
  /\ told[d] = "no"
  /\ removed[d] # "none"
  /\ told' = [told EXCEPT ![d] = "answer"]
  /\ IF removed[d] = "ok" /\ elements[wanted[d]] > 0
       THEN elements' = [elements EXCEPT ![wanted[d]] = @ - 1]
       ELSE UNCHANGED elements
  /\ UNCHANGED <<store, formVars, menuVars, visit, listing, listed, hash, category, input,
                 preview, early>>

(* Its error: the connection broke.  The page does the same whether it     *)
(* hears so before or after the server is done.                            *)
RemoveErrs(d) ==
  /\ d \in visit.clicks
  /\ remove[d] = "done"
  /\ told[d] = "no"
  /\ told' = [told EXCEPT ![d] = "error"]
  /\ UNCHANGED <<store, formVars, menuVars, visit, elements, listing, listed, hash, category,
                 input, preview, early>>

(* The browser loads the image of an item.                                 *)
LoadPicture(v, f) ==
  /\ v \in visit.views
  /\ elements[f] > 0
  /\ ChooseView(v, f)
  /\ UNCHANGED <<formVars, menuVars, pageVars>>

UseMenu ==
  /\ visit.menu
  /\ OpenMenu \/ CloseMenu
  /\ UNCHANGED <<store, formVars, pageVars>>

(* The server works on the requests that reached it.                       *)
Server ==
  /\ \/ \E u \in visit.uploads :
          (u \in Submissions => phase[u] \notin {"none", "queued"}) /\ Upload(u)
     \/ \E d \in Removals : RemoveCalls(d)
     \/ \E v \in Views : ViewCalls(v)
     \/ Crash
  /\ faults' <= visit.faults
  /\ UNCHANGED <<formVars, menuVars, pageVars>>

User ==
  \/ \E s \in Selections : ChooseFiles(s)
  \/ ClickUploadNothing
  \/ \E u \in Submissions : ClickUpload(u)
  \/ \E d \in Removals, f \in Pictures : ClickRemove(d, f)
  \/ UseMenu

Browser ==
  \/ ReadListing \/ ShowListing \/ ListingFails
  \/ \E u \in Submissions : Receive(u) \/ PageTask(u)
  \/ \E d \in Removals : RemoveAnswered(d) \/ RemoveErrs(d)
  \/ \E v \in Views, f \in Pictures : LoadPicture(v, f)

Others == \E d \in Removals, f \in blobs : RemoveElsewhere(d, f)

AlbumNext == User \/ Browser \/ Server \/ Others

AlbumSpec == PageInit /\ [][AlbumNext]_albumVars

(* The event loop of the page runs tasks that are due, timers included.    *)
FairAlbum == AlbumSpec /\ \A u \in Submissions : WF_albumVars(PageTask(u))

-----------------------------------------------------------------------------
(* Types of the page.                                                      *)
PageTypeOK ==
  /\ FormTypeOK
  /\ elements \in [Pictures -> Nat]
  /\ listing \in {"asked", "read", "shown", "failed"}
  /\ listed \subseteq Pictures
  /\ told \in [Removals -> {"no", "answer", "error"}]
  /\ hash \in BOOLEAN
  /\ input \in Selections \cup {NoSelection}
  /\ preview \in Selections \cup {NoSelection}
  /\ early \subseteq Submissions

(* Every picture on the page has its content in the store, whether it came *)
(* from the listing or from the answer to an upload.                       *)
ShownHasContent == \A f \in Pictures : elements[f] > 0 => f \in blobs

(* When a removal is answered with success, its picture is on the page:    *)
(* the callback never looks for an item that is not there, however often   *)
(* the cross was clicked and whoever else removes the picture.             *)
RemovalFindsElement ==
  \A d \in visit.clicks :
    removed[d] = "ok" /\ told[d] = "no" => elements[wanted[d]] > 0

(* A picture is on the page twice only if its upload began before the      *)
(* listing was shown; the listing then may hold it too.                    *)
ShownOnce == \A f \in Pictures : elements[f] <= 1 \/ f[1] \in early

(* A picture that is gone from the store stays on the page only while its  *)
(* removal is not answered, or was answered with an error, or if another   *)
(* client removed it or its upload began before the listing was shown.     *)
GoneIsExplained ==
  \A f \in Pictures : elements[f] > 0 /\ f \in blobs \ infos =>
    \/ f[1] \in early
    \/ \E d \in Removals :
         wanted[d] = f /\ ~(told[d] = "answer" /\ removed[d] = "ok")

(* Every upload of the page goes to the album that the page was opened     *)
(* for, although its buttons change the address, as long as the address    *)
(* can hold the name of the album.  If it is escaped there, the upload     *)
(* goes elsewhere: upload posts the name as it stands in the address,      *)
(* while the server unescapes the one of the listing.                      *)
UploadsToThisAlbum ==
  \A u \in Submissions : phase[u] # "none" =>
    (category[u] = visit.album <=> visit.album = Address(visit.album))

(* The callback of an upload fits what the server did: success only after  *)
(* an answer, "parsererror" only if there was none to parse, or in an      *)
(* Opera browser that never came to read it.                               *)
StatusIsTrue ==
  \A u \in Submissions :
    /\ answers[u] = <<"success">> => uploaded[u] \in {"ok", "recordError"}
    /\ answers[u] = <<"parsererror">> =>
         uploaded[u] \in {"null", "exception"} \/ domChecks[u] = 1

(* Thumbnails in view are those of the files that a click on upload would  *)
(* send.                                                                   *)
PreviewIsInput == preview \in {input, NoSelection}

(* Every submission comes to an end that the page is told of, and no       *)
(* hidden frame stays but those of aborted submissions, even if the server *)
(* never answers.                                                          *)
Settles ==
  \A u \in Submissions :
    phase[u] # "none" ~> answers[u] # <<>> /\ (u \in frames => phase[u] = "aborted")
=============================================================================
