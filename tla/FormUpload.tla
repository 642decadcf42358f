------------------------------ MODULE FormUpload ------------------------------
(***************************************************************************)
(* ajaxSubmit of jquery.form.js, as upload() of myJs.js calls it: a POST   *)
(* with files, a timeout and a JSON answer.  A browser with FormData sends *)
(* an XMLHttpRequest; any other posts the form into a hidden frame whose   *)
(* load event, a timer and a check for an unreachable document compete to  *)
(* end the submission.  Each action is one task of the page's event loop;  *)
(* Respond is the network's.                                               *)
(***************************************************************************)
EXTENDS Integers, Sequences, FiniteSets

CONSTANTS
  Submissions,    \* calls of ajaxSubmit
  Browsers,       \* by the features that scripts detect: see FormAssumption
  DomCheckCount   \* how often the frame of an Opera browser is looked at

ASSUME FormAssumption ==
  /\ IsFiniteSet(Submissions)
  /\ Browsers \subseteq {"formdata", "frames", "opera"}
  /\ DomCheckCount \in Nat \ {0}

VARIABLES
  browser,    \* the browser of this page
  phase,      \* where each submission is
  reply,      \* what came back: the response, or the document of the frame
  timer,      \* its timeout is armed
  domChecks,  \* domCheckCount
  frames,     \* the hidden frames in the page
  active,     \* $.active, the part of it that counts submissions
  answers     \* history: the callbacks made, by the status they were given

formVars == <<browser, phase, reply, timer, domChecks, frames, active, answers>>

(* An answer of uploadFile with or without success, no answer (null), the  *)
(* page of an error, and a connection that broke.                          *)
Json    == {"ok", "refused"}
Replies == Json \cup {"empty", "errorpage", "lost"}

FormInit ==
  /\ browser \in Browsers
  /\ phase = [u \in Submissions |-> "none"]
  /\ reply = [u \in Submissions |-> "none"]
  /\ timer = [u \in Submissions |-> FALSE]
  /\ domChecks = [u \in Submissions |-> DomCheckCount]
  /\ frames = {}
  /\ active = 0
  /\ answers = [u \in Submissions |-> <<>>]

shouldUseFrame == browser # "formdata"

(* A browser with FormData: $.ajax sends the request at once.              *)
fileUploadXhr(u) ==
  /\ phase' = [phase EXCEPT ![u] = "open"]
  /\ timer' = [timer EXCEPT ![u] = TRUE]

(* Any other: a timer, "take a breath", will post the form.                *)
fileUploadIframe(u) ==
  /\ phase' = [phase EXCEPT ![u] = "queued"]
  /\ UNCHANGED timer

(* ajaxSubmit.  Nothing in this application listens to the events, or sets *)
(* the options, with which a submission could be vetoed.                   *)
AjaxSubmit(u) ==
  /\ phase[u] = "none"
  /\ active' = active + 1
  /\ IF shouldUseFrame THEN fileUploadIframe(u) ELSE fileUploadXhr(u)
  /\ UNCHANGED <<browser, reply, domChecks, frames, answers>>

(* Wrong on purpose: the timeout of the options is not armed.              *)
DoSubmitUntimed(u) ==
  /\ phase[u] = "queued"
  /\ phase' = [phase EXCEPT ![u] = "open"]
  /\ frames' = frames \cup {u}
  /\ UNCHANGED <<browser, reply, timer, domChecks, active, answers>>

(* doSubmit: the timeout is armed, the frame enters the page and the form  *)
(* is posted.                                                              *)
DoSubmit(u) ==
  /\ phase[u] = "queued"
  /\ phase' = [phase EXCEPT ![u] = "open"]
  /\ timer' = [timer EXCEPT ![u] = TRUE]
  /\ frames' = frames \cup {u}
  /\ UNCHANGED <<browser, reply, domChecks, active, answers>>

(* Something comes back for a submission that still waits.                 *)
Respond(u, r) ==
  /\ phase[u] = "open"
  /\ reply[u] = "none"
  /\ reply' = [reply EXCEPT ![u] = r]
  /\ UNCHANGED <<browser, phase, timer, domChecks, frames, active, answers>>

-----------------------------------------------------------------------------
Call(u, status) == answers' = [answers EXCEPT ![u] = Append(@, status)]

(* The regular end, of $.ajax and of cb: success or error is called, the   *)
(* submission no longer counts as active, the timeout is disarmed.         *)
End(u, status) ==
  /\ Call(u, status)
  /\ active' = active - 1
  /\ phase' = [phase EXCEPT ![u] = "done"]
  /\ timer' = [timer EXCEPT ![u] = FALSE]

(* xhr.abort of the frame: error is called and the frame goes back to its  *)
(* blank document.  Neither $.active nor the frame in the page is seen to. *)
Abort(u, status) ==
  /\ Call(u, status)
  /\ phase' = [phase EXCEPT ![u] = "aborted"]
  /\ UNCHANGED active

(* getDoc finds a document in the frame, unless the connection broke: the  *)
(* error page of the browser is of another origin.                         *)
Reachable(u) == reply[u] # "lost"

(* What httpData makes of the text of the frame, and $.ajax of a response. *)
Parse(r) ==
  CASE r \in Json -> "success"
    [] r = "empty" -> "parsererror"
    [] r = "errorpage" -> IF shouldUseFrame THEN "parsererror" ELSE "error"
    [] r = "lost" -> "error"

(* In Opera the document may not be traversable yet: it is looked at again *)
(* later, and in the end taken as it is.                                   *)
Traversable(u) ==
  IF browser # "opera" THEN {TRUE}
  ELSE IF reply[u] = "empty" THEN {FALSE} ELSE BOOLEAN

(* Wrong on purpose: domCheckCount is counted but not looked at.           *)
ReadForEver(u) ==
  \E b \in Traversable(u) :
    IF b
      THEN /\ End(u, Parse(reply[u]))
           /\ UNCHANGED domChecks
      ELSE /\ domChecks' = [domChecks EXCEPT ![u] = @ - 1]
           /\ phase' = [phase EXCEPT ![u] = "reading"]
           /\ UNCHANGED <<timer, active, answers>>

(* cb on a document that can be reached.                                   *)
Read(u) ==
  \E b \in Traversable(u) :
    IF b \/ domChecks[u] = 1
      THEN /\ End(u, IF b THEN Parse(reply[u]) ELSE "parsererror")
           /\ UNCHANGED domChecks
      ELSE /\ domChecks' = [domChecks EXCEPT ![u] = @ - 1]
           /\ phase' = [phase EXCEPT ![u] = "reading"]
           /\ UNCHANGED <<timer, active, answers>>

(* The load event: of the request, or cb of the frame.  The document of a  *)
(* broken connection cannot be reached, and cb aborts; the timer runs on.  *)
Load(u) ==
  /\ phase[u] = "open"
  /\ reply[u] # "none"
  /\ IF shouldUseFrame /\ ~Reachable(u)
       THEN Abort(u, "aborted") /\ UNCHANGED <<timer, domChecks>>
       ELSE Read(u)
  /\ UNCHANGED <<browser, reply, frames>>

(* cb once more, by the timer that the last look set.                      *)
ReadAgain(u) ==
  /\ phase[u] = "reading"
  /\ Read(u)
  /\ UNCHANGED <<browser, reply, frames>>

(* Wrong on purpose: a load event of the blank document is taken for the   *)
(* answer.                                                                 *)
BlankLoadRead(u) ==
  /\ u \in frames
  /\ phase[u] = "open"
  /\ reply[u] = "none"
  /\ End(u, "parsererror")
  /\ UNCHANGED <<browser, reply, domChecks, frames>>

(* cb on the load event of the blank document: the response is not         *)
(* received yet, and nothing changes.  The blank document that follows an  *)
(* abort is not worth a step: cb returns at once.                          *)
BlankLoad(u) ==
  /\ u \in frames
  /\ phase[u] = "open"
  /\ reply[u] = "none"
  /\ UNCHANGED formVars

(* Wrong on purpose: cb looks at callbackProcessed but not at xhr.aborted. *)
LateTimeoutCalls(u) ==
  /\ timer[u]
  /\ timer' = [timer EXCEPT ![u] = FALSE]
  /\ IF shouldUseFrame
       THEN Abort(u, IF Reachable(u) THEN "timeout" ELSE "aborted")
       ELSE End(u, "timeout")
  /\ UNCHANGED <<browser, reply, domChecks, frames>>

(* The timeout: $.ajax ends the request, cb aborts the frame unless the    *)
(* submission is aborted already.                                          *)
Timeout(u) ==
  /\ timer[u]
  /\ timer' = [timer EXCEPT ![u] = FALSE]
  /\ CASE phase[u] = "aborted" -> UNCHANGED <<phase, active, answers>>
       [] phase[u] # "aborted" /\ shouldUseFrame ->
            Abort(u, IF Reachable(u) THEN "timeout" ELSE "aborted")
       [] phase[u] # "aborted" /\ ~shouldUseFrame ->
            End(u, "timeout")
  /\ UNCHANGED <<browser, reply, domChecks, frames>>

(* checkState, if it finds a document that cannot be reached before the    *)
(* load event does: a server abort, and the timeout is disarmed.           *)
CheckState(u) ==
  /\ u \in frames
  /\ phase[u] = "open"
  /\ ~Reachable(u)
  /\ Abort(u, "aborted")
  /\ timer' = [timer EXCEPT ![u] = FALSE]
  /\ UNCHANGED <<browser, reply, domChecks, frames>>

(* The frame leaves the page 100 ms after the end.                         *)
Cleanup(u) ==
  /\ phase[u] = "done"
  /\ u \in frames
  /\ frames' = frames \ {u}
  /\ UNCHANGED <<browser, phase, reply, timer, domChecks, active, answers>>

(* The tasks of the page that a submission has set up.                     *)
Task(u) ==
  DoSubmit(u) \/ Load(u) \/ ReadAgain(u) \/ BlankLoad(u) \/ Timeout(u)
    \/ CheckState(u) \/ Cleanup(u)

FormNext ==
  \E u \in Submissions :
    AjaxSubmit(u) \/ (\E r \in Replies : Respond(u, r)) \/ Task(u)

FormSpec == FormInit /\ [][FormNext]_formVars

-----------------------------------------------------------------------------
Phases   == {"none", "queued", "open", "reading", "done", "aborted"}
Statuses == {"success", "error", "parsererror", "timeout", "aborted"}

(* Types; and domCheckCount never reaches zero.                            *)
FormTypeOK ==
  /\ browser \in Browsers
  /\ phase \in [Submissions -> Phases]
  /\ reply \in [Submissions -> Replies \cup {"none"}]
  /\ timer \in [Submissions -> BOOLEAN]
  /\ domChecks \in [Submissions -> 1..DomCheckCount]
  /\ frames \subseteq Submissions
  /\ active \in Int
  /\ answers \in [Submissions -> Seq(Statuses)]

Waiting == {u \in Submissions : phase[u] \in {"queued", "open", "reading"}}

(* What the comment on $.active++ says it is for, "so that                 *)
(* activity/block indicators work like normal": $.active counts the        *)
(* submissions under way, and is zero, with ajaxStop triggered, when there *)
(* is none.                                                                *)
ActiveCounts == active = Cardinality(Waiting)

(* What the page was told of a submission.                                 *)
Told(calls) ==
  CASE calls = <<>> -> "begun"
    [] calls = <<"success">> -> "success"
    [] Len(calls) = 1 /\ calls # <<"success">> -> "failure"
    [] Len(calls) > 1 -> "twice"

CallState ==
  [u \in Submissions |-> IF phase[u] = "none" THEN "idle" ELSE Told(answers[u])]

(* Seen from the page, both transports are one call with one end, however  *)
(* load events, timeout and checkState follow each other.                  *)
Call1 == INSTANCE AjaxCall WITH state <- CallState, Answers <- Json
AsOneCall == Call1!Spec
=============================================================================
