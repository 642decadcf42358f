---------------------------- MODULE AlbumPageProofs ----------------------------
(***************************************************************************)
(* What holds of the page of an album, and of the transport of its         *)
(* uploads, for any number of uploads, files, removals and views, any      *)
(* visit and any browser.                                                  *)
(***************************************************************************)
EXTENDS AlbumPage, FileStoreProofs, FiniteSetTheorems, SequenceTheorems

-----------------------------------------------------------------------------
(* The status s is true to what came back.                                 *)
Fits(u, s) ==
  /\ s = "success" => reply[u] \in Json
  /\ s = "parsererror" => reply[u] \in {"empty", "errorpage"} \/ domChecks[u] = 1

(* Where a submission is says what it has set up and what it has told.     *)
FormInv ==
  /\ FormTypeOK
  /\ \A u \in Submissions :
       /\ phase[u] \in {"none", "queued"} => reply[u] = "none" /\ ~timer[u]
       /\ phase[u] \in {"none", "queued", "open", "reading"} => answers[u] = <<>>
       /\ phase[u] = "reading" => reply[u] \in Replies \ {"lost"}
       /\ phase[u] = "done" => ~timer[u]
       /\ phase[u] \in {"done", "aborted"} =>
            \E s \in Statuses : answers[u] = <<s>> /\ Fits(u, s)

LEMMA FormStart == ASSUME FormAssumption, FormInit PROVE FormInv
  BY DEF FormAssumption, FormInit, FormInv, Fits, FormTypeOK, Phases

(* What each way to the end does.                                          *)
LEMMA ParseStatus ==
  ASSUME NEW r \in Replies
  PROVE  /\ Parse(r) \in Statuses
         /\ Parse(r) = "success" => r \in Json
         /\ Parse(r) = "parsererror" => r \in {"empty", "errorpage"}
  BY DEF Parse, Replies, Json, Statuses

LEMMA EndKeeps ==
  ASSUME FormInv, NEW u \in Submissions, NEW s \in Statuses, Fits(u, s),
         answers[u] = <<>>, End(u, s),
         UNCHANGED <<browser, reply, domChecks, frames>>
  PROVE  FormInv'
<1>1. /\ answers' = [answers EXCEPT ![u] = <<s>>]
      /\ active' = active - 1
      /\ phase' = [phase EXCEPT ![u] = "done"]
      /\ timer' = [timer EXCEPT ![u] = FALSE]
  BY DEF End, Call, FormInv, Fits, FormTypeOK
<1>2. FormTypeOK'
  BY <1>1 DEF FormInv, Fits, FormTypeOK, Phases
<1>. QED  BY <1>1, <1>2 DEF FormInv, Fits, FormTypeOK

LEMMA AbortKeeps ==
  ASSUME FormInv, NEW u \in Submissions, NEW s \in {"timeout", "aborted"},
         answers[u] = <<>>, Abort(u, s),
         timer' \in [Submissions -> BOOLEAN],
         \A v \in Submissions : v # u => timer'[v] = timer[v],
         UNCHANGED <<browser, reply, domChecks, frames>>
  PROVE  FormInv'
<1>1. /\ answers' = [answers EXCEPT ![u] = <<s>>]
      /\ active' = active
      /\ phase' = [phase EXCEPT ![u] = "aborted"]
  BY DEF Abort, Call, FormInv, Fits, FormTypeOK
<1>2. s \in Statuses
  BY DEF Statuses
<1>3. FormTypeOK'
  BY <1>1, <1>2 DEF FormInv, FormTypeOK, Phases
<1>4. Fits(u, s)' /\ \A v \in Submissions, t \in Statuses : Fits(v, t)' <=> Fits(v, t)
  BY DEF Fits
<1>. QED  BY <1>1, <1>2, <1>3, <1>4 DEF FormInv, FormTypeOK

LEMMA ReadKeeps ==
  ASSUME FormAssumption, FormInv, NEW u \in Submissions, Read(u),
         answers[u] = <<>>, phase[u] \in {"open", "reading"},
         reply[u] \in Replies, shouldUseFrame => reply[u] # "lost",
         UNCHANGED <<browser, reply, frames>>
  PROVE  FormInv'
<1>1. PICK b \in Traversable(u) :
        IF b \/ domChecks[u] = 1
          THEN /\ End(u, IF b THEN Parse(reply[u]) ELSE "parsererror")
               /\ UNCHANGED domChecks
          ELSE /\ domChecks' = [domChecks EXCEPT ![u] = @ - 1]
               /\ phase' = [phase EXCEPT ![u] = "reading"]
               /\ UNCHANGED <<timer, active, answers>>
  BY DEF Read
<1>2. CASE b \/ domChecks[u] = 1
  <2>1. PICK s : s = IF b THEN Parse(reply[u]) ELSE "parsererror"
    OBVIOUS
  <2>2. s \in Statuses /\ Fits(u, s)
    BY <1>2, <2>1, ParseStatus DEF Statuses, Fits
  <2>. QED  BY <1>1, <1>2, <2>1, <2>2, EndKeeps
<1>3. CASE ~(b \/ domChecks[u] = 1)
  <2>1. b \in BOOLEAN /\ (~b => shouldUseFrame)
    BY <1>1 DEF Traversable, shouldUseFrame
  <2>2. /\ domChecks' = [domChecks EXCEPT ![u] = @ - 1]
        /\ phase' = [phase EXCEPT ![u] = "reading"]
        /\ UNCHANGED <<timer, active, answers>>
        /\ reply[u] # "lost"
    BY <1>1, <1>3, <2>1
  <2>3. domChecks[u] - 1 \in 1..DomCheckCount
    BY <1>3 DEF FormInv, Fits, FormTypeOK, FormAssumption
  <2>4. FormTypeOK'
    BY <2>2, <2>3 DEF FormInv, Fits, FormTypeOK, Phases
  <2>. QED  BY <2>2, <2>4 DEF FormInv, Fits, FormTypeOK
<1>. QED  BY <1>2, <1>3

LEMMA FormStep ==
  ASSUME FormAssumption, FormInv, [FormNext]_formVars
  PROVE  FormInv'
<1>1. ASSUME NEW u \in Submissions, AjaxSubmit(u)
      PROVE  FormInv'
  <2>1. /\ phase[u] = "none" /\ active' = active + 1
        /\ UNCHANGED <<browser, reply, domChecks, frames, answers>>
    BY <1>1 DEF AjaxSubmit
  <2>2. CASE shouldUseFrame
    <3>1. phase' = [phase EXCEPT ![u] = "queued"] /\ timer' = timer
      BY <1>1, <2>2 DEF AjaxSubmit, fileUploadIframe
    <3>2. FormTypeOK'
      BY <2>1, <3>1 DEF FormInv, FormTypeOK, Phases
    <3>. QED  BY <2>1, <3>1, <3>2 DEF FormInv, Fits, FormTypeOK
  <2>3. CASE ~shouldUseFrame
    <3>1. phase' = [phase EXCEPT ![u] = "open"] /\ timer' = [timer EXCEPT ![u] = TRUE]
      BY <1>1, <2>3 DEF AjaxSubmit, fileUploadXhr
    <3>. QED  BY <2>1, <3>1 DEF FormInv, Fits, FormTypeOK, Phases
  <2>. QED  BY <2>2, <2>3
<1>2. ASSUME NEW u \in Submissions, NEW r \in Replies, Respond(u, r)
      PROVE  FormInv'
  BY <1>2 DEF FormInv, Fits, FormTypeOK, Respond, Replies, Json
<1>3. ASSUME NEW u \in Submissions, DoSubmit(u)
      PROVE  FormInv'
  BY <1>3 DEF FormInv, Fits, FormTypeOK, Phases, DoSubmit
<1>4. ASSUME NEW u \in Submissions, Load(u)
      PROVE  FormInv'
  <2>1. /\ answers[u] = <<>> /\ phase[u] = "open" /\ reply[u] \in Replies
        /\ UNCHANGED <<browser, reply, frames>>
    BY <1>4 DEF Load, FormInv, Fits, FormTypeOK
  <2>2. CASE shouldUseFrame /\ ~Reachable(u)
    <3>1. Abort(u, "aborted") /\ UNCHANGED <<timer, domChecks>>
      BY <1>4, <2>2 DEF Load
    <3>. QED  BY <2>1, <3>1, AbortKeeps DEF FormInv, FormTypeOK
  <2>3. CASE ~(shouldUseFrame /\ ~Reachable(u))
    <3>1. Read(u)
      BY <1>4, <2>3 DEF Load
    <3>. QED  BY <2>1, <2>3, <3>1, ReadKeeps DEF Reachable
  <2>. QED  BY <2>2, <2>3
<1>5. ASSUME NEW u \in Submissions, ReadAgain(u)
      PROVE  FormInv'
  BY <1>5, ReadKeeps DEF ReadAgain, FormInv
<1>6. ASSUME NEW u \in Submissions, BlankLoad(u)
      PROVE  FormInv'
  BY <1>6 DEF FormInv, Fits, FormTypeOK, BlankLoad, formVars
<1>7. ASSUME NEW u \in Submissions, Timeout(u)
      PROVE  FormInv'
  <2>1. /\ timer[u] /\ timer' = [timer EXCEPT ![u] = FALSE]
        /\ UNCHANGED <<browser, reply, domChecks, frames>>
        /\ phase[u] \in {"open", "reading", "aborted"}
    BY <1>7 DEF Timeout, FormInv, Fits, FormTypeOK, Phases
  <2>2. CASE phase[u] = "aborted"
    <3>1. UNCHANGED <<phase, active, answers>>
      BY <1>7, <2>2 DEF Timeout
    <3>. QED  BY <2>1, <3>1 DEF FormInv, Fits, FormTypeOK
  <2>3. CASE phase[u] # "aborted" /\ shouldUseFrame
    <3>1. PICK s \in {"timeout", "aborted"} : Abort(u, s)
      BY <1>7, <2>3 DEF Timeout
    <3>. QED  BY <2>1, <2>3, <3>1, AbortKeeps DEF FormInv, FormTypeOK
  <2>4. CASE phase[u] # "aborted" /\ ~shouldUseFrame
    <3>1. End(u, "timeout")
      BY <1>7, <2>4 DEF Timeout
    <3>. QED  BY <2>1, <2>4, <3>1, EndKeeps DEF Statuses, FormInv, Fits
  <2>. QED  BY <2>2, <2>3, <2>4
<1>8. ASSUME NEW u \in Submissions, CheckState(u)
      PROVE  FormInv'
  BY <1>8, AbortKeeps DEF CheckState, FormInv, FormTypeOK
<1>9. ASSUME NEW u \in Submissions, Cleanup(u)
      PROVE  FormInv'
  BY <1>9 DEF FormInv, Fits, FormTypeOK, Cleanup
<1>10. CASE UNCHANGED formVars
  BY <1>10 DEF FormInv, Fits, FormTypeOK, formVars
<1>. QED
  BY <1>1, <1>2, <1>3, <1>4, <1>5, <1>6, <1>7, <1>8, <1>9, <1>10 DEF FormNext, Task

(* The transport keeps its types, and domCheckCount never reaches zero: an *)
(* Opera browser does not look at a document for ever.                     *)
THEOREM TransportTypeCorrect == FormSpec => []FormTypeOK
<1>1. FormInit => FormInv
  BY FormStart, FormAssumption
<1>2. FormInv /\ [FormNext]_formVars => FormInv'
  BY FormStep, FormAssumption
<1>3. FormInv => FormTypeOK
  BY DEF FormInv
<1>. QED  BY <1>1, <1>2, <1>3, PTL DEF FormSpec

-----------------------------------------------------------------------------
(* The state of a call, by the phase of its submission.                    *)
Ended(u) == phase[u] \in {"done", "aborted"}

LEMMA ToldCases ==
  /\ Told(<<>>) = "begun"
  /\ Told(<<"success">>) = "success"
  /\ \A s \in Statuses : s # "success" => Told(<<s>>) = "failure"
<1>1. /\ <<>> # <<"success">> /\ Len(<<>>) = 0 /\ Len(<<"success">>) = 1
      /\ <<"success">> # <<>>
  OBVIOUS
<1>2. ASSUME NEW s \in Statuses, s # "success"
      PROVE  Len(<<s>>) = 1 /\ <<s>> # <<>> /\ <<s>> # <<"success">>
  BY <1>2
<1>3. Told(<<>>) = "begun"
  BY <1>1 DEF Told
<1>4. Told(<<"success">>) = "success"
  BY <1>1 DEF Told
<1>5. ASSUME NEW s \in Statuses, s # "success"
      PROVE  Told(<<s>>) = "failure"
  BY <1>2, <1>5 DEF Told
<1>. QED  BY <1>3, <1>4, <1>5

LEMMA CallStates ==
  ASSUME FormInv, NEW u \in Submissions
  PROVE  CallState[u] = IF phase[u] = "none" THEN "idle"
                        ELSE IF ~Ended(u) THEN "begun"
                        ELSE IF answers[u] = <<"success">> THEN "success" ELSE "failure"
<1>1. CASE phase[u] = "none"
  BY <1>1 DEF CallState
<1>2. CASE phase[u] \in {"queued", "open", "reading"}
  <2>1. answers[u] = <<>> /\ phase[u] # "none" /\ ~Ended(u)
    BY <1>2 DEF FormInv, Ended
  <2>. QED  BY <2>1, ToldCases DEF CallState
<1>3. CASE Ended(u)
  <2>1. PICK s \in Statuses : answers[u] = <<s>>
    BY <1>3 DEF FormInv, Ended
  <2>2. phase[u] # "none" /\ (<<s>> = <<"success">> <=> s = "success")
    BY <1>3 DEF Ended
  <2>. QED  BY <1>3, <2>1, <2>2, ToldCases DEF CallState
<1>. QED  BY <1>1, <1>2, <1>3 DEF FormInv, FormTypeOK, Phases, Ended

(* An ended submission stays as it is.                                     *)
LEMMA EndCalls ==
  ASSUME FormInv, FormInv', NEW u \in Submissions, phase[u] # "none", ~Ended(u), Ended(u)',
         \A v \in Submissions : v # u => phase'[v] = phase[v] /\ answers'[v] = answers[v],
         reply' = reply
  PROVE  Call1!Succeed(u) \/ Call1!Fail(u)
<1>1. CallState[u] = "begun"
  BY CallStates
<1>2. PICK s \in Statuses : answers'[u] = <<s>> /\ (s = "success" => reply'[u] \in Json)
  BY DEF FormInv, Ended, Fits
<1>3. CallState'[u] = IF s = "success" THEN "success" ELSE "failure"
  <2>1. phase'[u] # "none"
    BY DEF Ended
  <2>2. CallState'[u] = Told(<<s>>)
    BY <1>2, <2>1 DEF CallState
  <2>. QED  BY <2>2, ToldCases
<1>4. \A v \in Submissions : v # u => CallState'[v] = CallState[v]
  BY DEF CallState
<1>5. CallState' = [CallState EXCEPT ![u] = CallState'[u]]
  BY <1>4 DEF CallState
<1>. QED  BY <1>1, <1>2, <1>3, <1>5 DEF Call1!Succeed, Call1!Fail

(* A step that tells the page nothing, and sends nothing, is none of the   *)
(* call.                                                                   *)
LEMMA QuietStep ==
  ASSUME UNCHANGED <<reply, answers>>,
         \A u \in Submissions : phase'[u] = "none" <=> phase[u] = "none"
  PROVE  UNCHANGED Call1!vars
<1>1. CallState' = CallState
  BY DEF CallState
<1>. QED  BY <1>1 DEF Call1!vars

(* What a call of the callback does to the other submissions: nothing.     *)
LEMMA ReadEffect ==
  ASSUME FormInv, NEW u \in Submissions, Read(u), phase[u] \in {"open", "reading"}
  PROVE  /\ \A v \in Submissions : v # u => phase'[v] = phase[v] /\ answers'[v] = answers[v]
         /\ \/ phase'[u] = "done"
            \/ phase'[u] = "reading" /\ answers' = answers
<1>1. CASE \E s : End(u, s)
  BY <1>1 DEF End, Call, FormInv, FormTypeOK
<1>2. CASE phase' = [phase EXCEPT ![u] = "reading"] /\ answers' = answers
  BY <1>2 DEF FormInv, FormTypeOK
<1>. QED  BY <1>1, <1>2 DEF Read

LEMMA CallStep ==
  ASSUME FormAssumption, FormInv, [FormNext]_formVars
  PROVE  [Call1!Next]_(Call1!vars)
<1>i. FormInv'
  BY FormStep
<1>q. ASSUME NEW u \in Submissions, Ended(u)', phase[u] # "none", ~Ended(u),
             \A v \in Submissions : v # u => phase'[v] = phase[v] /\ answers'[v] = answers[v],
             reply' = reply
      PROVE  Call1!Next
  BY <1>i, <1>q, EndCalls DEF Call1!Next
<1>1. ASSUME NEW u \in Submissions, AjaxSubmit(u)
      PROVE  Call1!Next
  <2>1. /\ phase[u] = "none" /\ UNCHANGED <<reply, answers>>
        /\ phase'[u] # "none" /\ \A v \in Submissions : v # u => phase'[v] = phase[v]
    BY <1>1 DEF AjaxSubmit, fileUploadXhr, fileUploadIframe, FormInv, FormTypeOK
  <2>2. answers[u] = <<>> /\ Told(answers[u]) = "begun"
    BY <2>1, ToldCases DEF FormInv
  <2>3. CallState[u] = "idle" /\ CallState' = [CallState EXCEPT ![u] = "begun"]
    BY <2>1, <2>2 DEF CallState
  <2>. QED  BY <2>1, <2>3 DEF Call1!Begin, Call1!Next
<1>2. ASSUME NEW u \in Submissions, NEW r \in Replies, Respond(u, r)
      PROVE  Call1!Next
  <2>1. CallState[u] = "begun" /\ CallState' = CallState
    BY <1>2, CallStates DEF Respond, CallState, Ended
  <2>. QED  BY <1>2, <2>1 DEF Respond, Call1!Reply, Call1!Next
<1>3. ASSUME NEW u \in Submissions, DoSubmit(u) \/ BlankLoad(u) \/ Cleanup(u)
      PROVE  UNCHANGED Call1!vars
  <2>1. UNCHANGED <<reply, answers>>
    BY <1>3 DEF DoSubmit, BlankLoad, Cleanup, formVars
  <2>2. \A v \in Submissions : phase'[v] = "none" <=> phase[v] = "none"
    BY <1>3 DEF DoSubmit, BlankLoad, Cleanup, formVars, FormInv, FormTypeOK
  <2>. QED  BY <2>1, <2>2, QuietStep
<1>4. ASSUME NEW u \in Submissions, Read(u), reply' = reply, phase[u] \in {"open", "reading"}
      PROVE  [Call1!Next]_(Call1!vars)
  <2>1. CASE phase'[u] = "done"
    BY <1>4, <1>q, <2>1, ReadEffect DEF Ended
  <2>2. CASE phase'[u] = "reading" /\ answers' = answers
    <3>1. \A v \in Submissions : phase'[v] = "none" <=> phase[v] = "none"
      BY <1>4, <2>2, ReadEffect
    <3>. QED  BY <1>4, <2>2, <3>1, QuietStep
  <2>. QED  BY <1>4, <2>1, <2>2, ReadEffect
<1>5. ASSUME NEW u \in Submissions, NEW s, Abort(u, s) \/ End(u, s), reply' = reply,
             phase[u] # "none", ~Ended(u)
      PROVE  Call1!Next
  <2>1. /\ \A v \in Submissions : v # u => phase'[v] = phase[v] /\ answers'[v] = answers[v]
        /\ Ended(u)'
    BY <1>5 DEF Abort, End, Call, FormInv, FormTypeOK, Ended
  <2>. QED  BY <1>5, <1>q, <2>1
<1>6. ASSUME NEW u \in Submissions, Load(u)
      PROVE  [Call1!Next]_(Call1!vars)
  <2>1. phase[u] = "open" /\ reply' = reply
    BY <1>6 DEF Load
  <2>2. Abort(u, "aborted") \/ Read(u)
    BY <1>6 DEF Load
  <2>. QED  BY <1>4, <1>5, <2>1, <2>2 DEF Ended
<1>7. ASSUME NEW u \in Submissions, ReadAgain(u)
      PROVE  [Call1!Next]_(Call1!vars)
  BY <1>4, <1>7 DEF ReadAgain
<1>8. ASSUME NEW u \in Submissions, Timeout(u)
      PROVE  [Call1!Next]_(Call1!vars)
  <2>1. phase[u] \in {"open", "reading", "aborted"} /\ reply' = reply
    BY <1>8 DEF Timeout, FormInv, FormTypeOK, Phases
  <2>2. CASE phase[u] = "aborted"
    <3>1. UNCHANGED <<phase, answers>>
      BY <1>8, <2>2 DEF Timeout
    <3>. QED  BY <2>1, <3>1, QuietStep
  <2>3. CASE phase[u] # "aborted"
    <3>1. \E s : Abort(u, s) \/ End(u, s)
      BY <1>8, <2>3 DEF Timeout
    <3>. QED  BY <1>5, <2>1, <2>3, <3>1 DEF Ended
  <2>. QED  BY <2>2, <2>3
<1>9. ASSUME NEW u \in Submissions, CheckState(u)
      PROVE  Call1!Next
  BY <1>5, <1>9 DEF CheckState, Ended
<1>10. CASE UNCHANGED formVars
  BY <1>10, QuietStep DEF formVars
<1>. QED
  BY <1>1, <1>2, <1>3, <1>6, <1>7, <1>8, <1>9, <1>10 DEF FormNext, Task

(* Whichever transport is used, and however load events, looks at slow     *)
(* documents, timeouts and checkState follow each other: the page is told  *)
(* of the end of a submission once, and of success only with an answer.    *)
THEOREM TransportIsOneCall == FormSpec => AsOneCall
<1>1. FormInit => FormInv /\ Call1!Init
  BY FormStart, FormAssumption DEF FormInit, Call1!Init, CallState
<1>2. FormInv /\ [FormNext]_formVars => FormInv' /\ [Call1!Next]_(Call1!vars)
  BY FormStep, CallStep, FormAssumption
<1>. QED  BY <1>1, <1>2, PTL DEF FormSpec, AsOneCall, Call1!Spec

-----------------------------------------------------------------------------
Aborted == {u \in Submissions : phase[u] = "aborted"}

(* $.active is above the number of submissions under way by that of the    *)
(* submissions that a frame ever aborted.                                  *)
AbortedStay == active = Cardinality(Waiting) + Cardinality(Aborted)

LEMMA CountsFinite ==
  ASSUME FormAssumption
  PROVE  /\ IsFiniteSet(Waiting) /\ Cardinality(Waiting) \in Nat
         /\ IsFiniteSet(Aborted) /\ Cardinality(Aborted) \in Nat
  BY FS_Subset, FS_CardinalityType DEF FormAssumption, Waiting, Aborted

(* A step that leaves the sets as they are, or moves one submission.       *)
LEMMA CountMoves ==
  ASSUME FormAssumption, FormTypeOK, FormTypeOK', AbortedStay, NEW u \in Submissions,
         \A v \in Submissions : v # u => phase'[v] = phase[v],
         \/ active' = active /\ (u \in Waiting <=> u \in Waiting')
                             /\ (u \in Aborted <=> u \in Aborted')
         \/ active' = active /\ u \in Waiting /\ phase'[u] = "aborted"
         \/ active' = active - 1 /\ u \in Waiting /\ phase'[u] = "done"
         \/ active' = active + 1 /\ phase[u] = "none" /\ u \in Waiting'
  PROVE  AbortedStay'
<1>. DEFINE W == Cardinality(Waiting)  A == Cardinality(Aborted)
<1>1. W \in Nat /\ A \in Nat /\ active = W + A /\ active \in Int
      /\ IsFiniteSet(Waiting) /\ IsFiniteSet(Aborted)
  BY CountsFinite DEF AbortedStay, FormTypeOK
<1>2. SUFFICES active' = Cardinality(Waiting') + Cardinality(Aborted')
  BY DEF AbortedStay
<1>3. /\ \A v \in Submissions : v # u => (v \in Waiting' <=> v \in Waiting)
      /\ \A v \in Submissions : v # u => (v \in Aborted' <=> v \in Aborted)
      /\ Waiting \subseteq Submissions /\ Waiting' \subseteq Submissions
      /\ Aborted \subseteq Submissions /\ Aborted' \subseteq Submissions
  BY DEF Waiting, Aborted
<1>4. CASE active' = active /\ (u \in Waiting <=> u \in Waiting')
                            /\ (u \in Aborted <=> u \in Aborted')
  <2>1. Waiting' = Waiting /\ Aborted' = Aborted
    BY <1>3, <1>4
  <2>. QED  BY <1>1, <1>4, <2>1
<1>5. CASE active' = active /\ u \in Waiting /\ phase'[u] = "aborted"
  <2>1. u \notin Aborted /\ u \in Aborted' /\ u \notin Waiting'
    BY <1>5 DEF Waiting, Aborted
  <2>2. Waiting' = Waiting \ {u} /\ Aborted' = Aborted \cup {u}
    BY <1>3, <2>1
  <2>3. Cardinality(Waiting') = W - 1 /\ Cardinality(Aborted') = A + 1
    BY <1>1, <1>5, <2>1, <2>2, FS_AddElement, FS_RemoveElement
  <2>. QED  BY <1>1, <1>5, <2>3
<1>6. CASE active' = active - 1 /\ u \in Waiting /\ phase'[u] = "done"
  <2>1. u \notin Aborted /\ u \notin Aborted' /\ u \notin Waiting'
    BY <1>6 DEF Waiting, Aborted
  <2>2. Waiting' = Waiting \ {u} /\ Aborted' = Aborted
    <3>1. Waiting' = Waiting \ {u}
      BY <1>3, <2>1
    <3>2. \A v : v \in Aborted' <=> v \in Aborted
      BY <1>3, <2>1
    <3>3. Aborted' = Aborted
      BY <3>2
    <3>. QED  BY <3>1, <3>3
  <2>3. Cardinality(Waiting') = W - 1 /\ Cardinality(Aborted') = A
    BY <1>1, <1>6, <2>2, FS_RemoveElement
  <2>. QED  BY <1>1, <1>6, <2>3
<1>7. CASE active' = active + 1 /\ phase[u] = "none" /\ u \in Waiting'
  <2>1. u \notin Aborted /\ u \notin Aborted' /\ u \notin Waiting
    BY <1>7 DEF Waiting, Aborted
  <2>2. Waiting' = Waiting \cup {u} /\ Aborted' = Aborted
    <3>1. Waiting' = Waiting \cup {u}
      BY <1>3, <1>7, <2>1
    <3>2. \A v : v \in Aborted' <=> v \in Aborted
      BY <1>3, <2>1
    <3>3. Aborted' = Aborted
      BY <3>2
    <3>. QED  BY <3>1, <3>3
  <2>3. Cardinality(Waiting') = W + 1 /\ Cardinality(Aborted') = A
    BY <1>1, <2>1, <2>2, FS_AddElement
  <2>. QED  BY <1>1, <1>7, <2>3
<1>. QED  BY <1>4, <1>5, <1>6, <1>7

LEMMA CountStep ==
  ASSUME FormAssumption, FormInv, AbortedStay, [FormNext]_formVars
  PROVE  AbortedStay'
<1>i. FormInv' /\ FormTypeOK /\ FormTypeOK'
  BY FormStep DEF FormInv
<1>1. ASSUME NEW u \in Submissions, AjaxSubmit(u)
      PROVE  AbortedStay'
  <2>1. /\ phase[u] = "none" /\ active' = active + 1 /\ phase'[u] \in {"queued", "open"}
        /\ \A v \in Submissions : v # u => phase'[v] = phase[v]
    BY <1>1, <1>i DEF AjaxSubmit, fileUploadXhr, fileUploadIframe, FormTypeOK
  <2>. QED  BY <1>i, <2>1, CountMoves DEF Waiting
<1>2. ASSUME NEW u \in Submissions, NEW s, Abort(u, s) \/ End(u, s), u \in Waiting
      PROVE  AbortedStay'
  <2>1. /\ \A v \in Submissions : v # u => phase'[v] = phase[v]
        /\ \/ active' = active /\ phase'[u] = "aborted"
           \/ active' = active - 1 /\ phase'[u] = "done"
    BY <1>2, <1>i DEF Abort, End, FormTypeOK
  <2>. QED  BY <1>i, <1>2, <2>1, CountMoves
<1>3. ASSUME UNCHANGED <<phase, active>>
      PROVE  AbortedStay'
  BY <1>3 DEF AbortedStay, Waiting, Aborted
<1>4. ASSUME NEW u \in Submissions, DoSubmit(u)
      PROVE  AbortedStay'
  <2>1. /\ phase[u] = "queued" /\ active' = active /\ phase'[u] = "open"
        /\ \A v \in Submissions : v # u => phase'[v] = phase[v]
    BY <1>4, <1>i DEF DoSubmit, FormTypeOK
  <2>. QED  BY <1>i, <2>1, CountMoves DEF Waiting, Aborted
<1>5. ASSUME NEW u \in Submissions, Read(u), phase[u] \in {"open", "reading"}
      PROVE  AbortedStay'
  <2>1. CASE \E s : End(u, s)
    BY <1>2, <1>5, <2>1 DEF Waiting
  <2>2. CASE phase' = [phase EXCEPT ![u] = "reading"] /\ active' = active
    <3>1. /\ phase'[u] = "reading"
          /\ \A v \in Submissions : v # u => phase'[v] = phase[v]
      BY <1>i, <2>2 DEF FormTypeOK
    <3>. QED  BY <1>i, <1>5, <2>2, <3>1, CountMoves DEF Waiting, Aborted
  <2>. QED  BY <1>5, <2>1, <2>2 DEF Read
<1>6. ASSUME NEW u \in Submissions, Load(u) \/ ReadAgain(u) \/ CheckState(u)
      PROVE  AbortedStay'
  BY <1>2, <1>5, <1>6 DEF Load, ReadAgain, CheckState, Waiting
<1>7. ASSUME NEW u \in Submissions, Timeout(u)
      PROVE  AbortedStay'
  <2>1. phase[u] \in {"open", "reading", "aborted"}
    BY <1>7 DEF Timeout, FormInv, FormTypeOK, Phases
  <2>2. CASE phase[u] = "aborted"
    BY <1>3, <1>7, <2>2 DEF Timeout
  <2>3. CASE phase[u] # "aborted"
    <3>1. \E s : Abort(u, s) \/ End(u, s)
      BY <1>7, <2>3 DEF Timeout
    <3>. QED  BY <1>2, <2>1, <2>3, <3>1 DEF Waiting
  <2>. QED  BY <2>2, <2>3
<1>8. ASSUME NEW u \in Submissions, (\E r \in Replies : Respond(u, r)) \/ BlankLoad(u) \/ Cleanup(u)
      PROVE  AbortedStay'
  BY <1>3, <1>8 DEF Respond, BlankLoad, Cleanup, formVars
<1>9. CASE UNCHANGED formVars
  BY <1>3, <1>9 DEF formVars
<1>. QED
  BY <1>1, <1>4, <1>6, <1>7, <1>8, <1>9 DEF FormNext, Task

(* How far xhr.abort, which does not take $.active back, leaves it from    *)
(* ActiveCounts: by one for each aborted submission, for ever, and by      *)
(* nothing else.                                                           *)
THEOREM AbortedStayActive == FormSpec => []AbortedStay
<1>1. FormInit => FormInv /\ AbortedStay
  <2>1. ASSUME FormInit
        PROVE  Waiting = {} /\ Aborted = {} /\ active = 0
    BY <2>1 DEF FormInit, Waiting, Aborted
  <2>. QED  BY <2>1, FormStart, FormAssumption, FS_EmptySet DEF AbortedStay
<1>2. FormInv /\ AbortedStay /\ [FormNext]_formVars => FormInv' /\ AbortedStay'
  BY FormStep, CountStep, FormAssumption
<1>. QED  BY <1>1, <1>2, PTL DEF FormSpec

-----------------------------------------------------------------------------
LEMMA PicturesAreFiles == ASSUME StoreAssumption PROVE Pictures = Files
<1>1. \A u \in Uploads : FileCount[u] \in Nat
  BY DEF StoreAssumption
<1>2. ASSUME NEW f \in Pictures
      PROVE  f \in Files
  <2>1. PICK u \in Uploads : f \in {u} \X (1..FileCount[u])
    BY DEF Pictures, FilesOf
  <2>. QED  BY <1>1, <2>1 DEF Files
<1>3. ASSUME NEW f \in Files
      PROVE  f \in Pictures
  <2>1. f[1] \in Uploads /\ f \in {f[1]} \X (1..FileCount[f[1]])
    BY <1>1 DEF Files
  <2>. QED  BY <2>1 DEF Pictures, FilesOf
<1>. QED  BY <1>2, <1>3

(* What came back from the server, and what it stays true to.              *)
ReplyInv ==
  \A u \in Submissions :
    reply[u] \in Replies \ {"lost"} => upload[u] = "done" /\ reply[u] = Body(u)

(* The server side of an album, the transport and what the page shows.     *)
AlbumInv ==
  /\ TypeOK /\ ContentInv /\ TakerInv /\ CompleteInv
  /\ FormInv
  /\ visit \in Visits
  /\ elements \in [Pictures -> Nat]
  /\ listed \subseteq Pictures \cap blobs
  /\ told \in [Removals -> {"no", "answer", "error"}]
  /\ ReplyInv
  /\ ShownHasContent

(* A step of the page is one of the server or none, and one of the         *)
(* transport or none.                                                      *)
LEMMA BodyIsReply ==
  ASSUME PageAssumption, TypeOK, NEW u \in Submissions
  PROVE  Body(u) \in Replies
  BY DEF PageAssumption, TypeOK, Body, Replies, Json

LEMMA AlbumToForm ==
  ASSUME PageAssumption, TypeOK, [AlbumNext]_albumVars
  PROVE  [FormNext]_formVars
<1>1. ASSUME NEW u \in Submissions, ClickUpload(u)
      PROVE  FormNext
  BY <1>1 DEF ClickUpload, FormNext
<1>2. ASSUME NEW u \in Submissions, Receive(u)
      PROVE  FormNext
  <2>1. "lost" \in Replies /\ Body(u) \in Replies
    BY BodyIsReply DEF Replies
  <2>. QED  BY <1>2, <2>1 DEF Receive, FormNext
<1>3. ASSUME NEW u \in Submissions, PageTask(u)
      PROVE  FormNext
  BY <1>3 DEF PageTask, FormNext
<1>4. ASSUME \/ \E s \in Selections : ChooseFiles(s)
             \/ ClickUploadNothing \/ UseMenu
             \/ \E d \in Removals, f \in Pictures : ClickRemove(d, f)
             \/ ReadListing \/ ShowListing \/ ListingFails
             \/ \E d \in Removals : RemoveAnswered(d) \/ RemoveErrs(d)
             \/ \E v \in Views, f \in Pictures : LoadPicture(v, f)
             \/ Server \/ Others \/ UNCHANGED albumVars
      PROVE  UNCHANGED formVars
  BY <1>4 DEF ChooseFiles, ClickUploadNothing, UseMenu, ClickRemove, ReadListing, ShowListing,
              ListingFails, RemoveAnswered, RemoveErrs, LoadPicture, Server, Others,
              RemoveElsewhere, albumVars
<1>. QED  BY <1>1, <1>2, <1>3, <1>4 DEF AlbumNext, User, Browser

LEMMA AlbumToStore ==
  ASSUME StoreAssumption, PageAssumption, visit \in Visits, ShownHasContent,
         [AlbumNext]_albumVars
  PROVE  [Next]_vars
<1>1. ASSUME NEW d \in Removals, NEW f \in Pictures, ClickRemove(d, f)
      PROVE  Next
  <2>1. f \in blobs /\ ChooseRemoval(d, f)
    BY <1>1 DEF ClickRemove, ShownHasContent
  <2>. QED  BY <2>1 DEF Remove, Next
<1>2. ASSUME NEW v \in Views, NEW f \in Pictures, LoadPicture(v, f)
      PROVE  Next
  <2>1. f \in blobs /\ ChooseView(v, f)
    BY <1>2 DEF LoadPicture, ShownHasContent
  <2>. QED  BY <2>1 DEF View, Next
<1>3. ASSUME Server
      PROVE  Next
  <2>1. visit.uploads \subseteq Uploads
    BY DEF PageAssumption
  <2>. QED  BY <1>3, <2>1 DEF Server, Next, Remove, View
<1>4. ASSUME Others
      PROVE  Next
  BY <1>4 DEF Others, RemoveElsewhere, Remove, Next
<1>5. ASSUME \/ \E s \in Selections : ChooseFiles(s)
             \/ ClickUploadNothing \/ UseMenu
             \/ \E u \in Submissions : ClickUpload(u) \/ Receive(u) \/ PageTask(u)
             \/ ReadListing \/ ShowListing \/ ListingFails
             \/ \E d \in Removals : RemoveAnswered(d) \/ RemoveErrs(d)
             \/ UNCHANGED albumVars
      PROVE  UNCHANGED vars
  BY <1>5 DEF ChooseFiles, ClickUploadNothing, UseMenu, ClickUpload, Receive, PageTask,
              ReadListing, ShowListing, ListingFails, RemoveAnswered, RemoveErrs, store,
              albumVars
<1>. QED  BY <1>1, <1>2, <1>3, <1>4, <1>5 DEF AlbumNext, User, Browser

(* A request that is done stays done, with its answer.                     *)
LEMMA DoneStays ==
  ASSUME TypeOK, [Next]_vars, NEW u \in Uploads, upload[u] = "done"
  PROVE  upload'[u] = "done" /\ uploaded'[u] = uploaded[u]
<1>. USE DEF uploads, removals, views, stores
<1>1. ASSUME NEW q \in Uploads,
             NoSession(q) \/ Store(q) \/ StoreFails(q) \/ Save(q) \/ SaveFails(q)
      PROVE  upload'[u] = "done" /\ uploaded'[u] = uploaded[u]
  <2>1. q # u
    BY <1>1 DEF NoSession, Store, StoreFails, Save, SaveFails
  <2>. QED
    BY <1>1, <2>1 DEF NoSession, Store, StoreFails, Save, SaveFails, NextFile, EndUpload, TypeOK
<1>2. ASSUME Crash
      PROVE  upload'[u] = "done" /\ uploaded' = uploaded
  BY <1>2 DEF Crash
<1>3. CASE UNCHANGED <<upload, uploaded>>
  BY <1>3
<1>. QED
  BY <1>1, <1>2, <1>3, StepCases
     DEF vars, ChooseRemoval, FindRemoval, DeleteRecord, DeleteRecordFails, DeleteContent,
         DeleteContentFails, ChooseView, FindRecord, FindContent

LEMMA RepliesStay ==
  ASSUME PageAssumption, StoreAssumption, TypeOK, FormInv, ReplyInv, [Next]_vars,
         \A u \in Submissions :
           \/ reply'[u] = reply[u]
           \/ reply'[u] = "lost"
           \/ upload[u] = "done" /\ reply'[u] = Body(u)
  PROVE  ReplyInv'
<1>. SUFFICES ASSUME NEW u \in Submissions, reply'[u] \in Replies \ {"lost"}
              PROVE  upload'[u] = "done" /\ reply'[u] = Body(u)'
  BY DEF ReplyInv, Replies
<1>1. u \in Uploads
  BY DEF PageAssumption
<1>2. upload[u] = "done" /\ reply'[u] = Body(u)
  BY DEF ReplyInv
<1>3. upload'[u] = "done" /\ uploaded'[u] = uploaded[u]
  BY <1>1, <1>2, DoneStays
<1>. QED  BY <1>2, <1>3 DEF Body

(* What an answer of success stands for.                                   *)
LEMMA SuccessHasFiles ==
  ASSUME PageAssumption, StoreAssumption, TypeOK, CompleteInv, ReplyInv,
         NEW u \in Submissions, reply[u] = "ok"
  PROVE  FilesOf(u) \subseteq Pictures \cap blobs
<1>1. u \in Uploads /\ uploaded[u] = "ok"
  BY DEF PageAssumption, ReplyInv, Replies, Json, Body, TypeOK
<1>2. FilesOf(u) \subseteq Pictures
  BY <1>1 DEF Pictures
<1>3. ASSUME NEW f \in FilesOf(u)
      PROVE  f \in blobs
  <2>1. f \in Files /\ f[1] = u
    BY <1>2, PicturesAreFiles DEF FilesOf
  <2>. QED  BY <1>1, <2>1 DEF CompleteInv, Saved
<1>. QED  BY <1>2, <1>3

LEMMA ShownStays ==
  ASSUME [Next]_vars, elements \in [Pictures -> Nat], ShownHasContent,
         NEW files \in SUBSET (Pictures \cap blobs),
         elements' \in [Pictures -> Nat],
         \A f \in Pictures : f \in files \/ elements'[f] <= elements[f]
  PROVE  ShownHasContent'
<1>1. blobs \subseteq blobs'
  BY ContentStays
<1>2. ASSUME NEW f \in Pictures, elements'[f] > 0
      PROVE  f \in blobs
  <2>1. CASE f \in files
    BY <2>1
  <2>2. CASE elements'[f] <= elements[f]
    <3>1. elements[f] \in Nat /\ elements'[f] \in Nat
      OBVIOUS
    <3>. QED  BY <1>2, <2>2, <3>1 DEF ShownHasContent
  <2>. QED  BY <2>1, <2>2
<1>3. Pictures' = Pictures
  BY DEF Pictures, FilesOf
<1>. QED  BY <1>1, <1>2, <1>3 DEF ShownHasContent

LEMMA ChooseShows ==
  ASSUME elements \in [Pictures -> Nat], NEW files, Choose(files)
  PROVE  /\ elements' \in [Pictures -> Nat]
         /\ \A f \in Pictures : elements'[f] = IF f \in files THEN elements[f] + 1 ELSE elements[f]
         /\ \A f \in Pictures : f \in files \/ elements'[f] <= elements[f]
<1>1. /\ elements' \in [Pictures -> Nat]
      /\ \A f \in Pictures : elements'[f] = IF f \in files THEN elements[f] + 1 ELSE elements[f]
  BY DEF Choose
<1>2. ASSUME NEW f \in Pictures, f \notin files
      PROVE  elements'[f] <= elements[f]
  <2>1. elements[f] \in Nat /\ elements'[f] = elements[f]
    BY <1>1, <1>2
  <2>. QED  BY <2>1
<1>. QED  BY <1>1, <1>2

LEMMA PageStep ==
  ASSUME StoreAssumption, PageAssumption, AlbumInv, [Next]_vars, [AlbumNext]_albumVars
  PROVE  /\ visit' \in Visits
         /\ elements' \in [Pictures -> Nat]
         /\ listed' \subseteq Pictures \cap blobs'
         /\ told' \in [Removals -> {"no", "answer", "error"}]
         /\ ShownHasContent'
<1>. DEFINE Goal == /\ visit' \in Visits
                    /\ elements' \in [Pictures -> Nat]
                    /\ listed' \subseteq Pictures \cap blobs'
                    /\ told' \in [Removals -> {"no", "answer", "error"}]
                    /\ ShownHasContent'
<1>a. /\ visit \in Visits /\ elements \in [Pictures -> Nat] /\ ShownHasContent
      /\ listed \subseteq Pictures \cap blobs /\ blobs \subseteq blobs'
      /\ told \in [Removals -> {"no", "answer", "error"}]
  BY ContentStays DEF AlbumInv
<1>s. ASSUME visit' = visit, listed' \subseteq Pictures \cap blobs,
             told' \in [Removals -> {"no", "answer", "error"}],
             NEW files \in SUBSET (Pictures \cap blobs), elements' \in [Pictures -> Nat],
             \A f \in Pictures : f \in files \/ elements'[f] <= elements[f]
      PROVE  Goal
  BY <1>a, <1>s, ShownStays
<1>u. ASSUME UNCHANGED <<visit, elements, listed, told>>
      PROVE  Goal
  <2>1. \A f \in Pictures : elements'[f] <= elements[f]
    BY <1>a, <1>u
  <2>. QED  BY <1>a, <1>u, <1>s, <2>1
<1>1. ASSUME ReadListing
      PROVE  Goal
  <2>1. infos \subseteq Pictures \cap blobs
    BY PicturesAreFiles DEF AlbumInv, TypeOK, ContentInv, RecordHasContent
  <2>2. UNCHANGED <<visit, elements, told>> /\ listed' \subseteq infos
    BY <1>1 DEF ReadListing
  <2>3. \A f \in Pictures : elements'[f] <= elements[f]
    BY <1>a, <2>2
  <2>. QED  BY <1>a, <2>1, <2>2, <2>3, <1>s
<1>2. ASSUME ShowListing
      PROVE  Goal
  <2>1. Choose(listed) /\ UNCHANGED <<visit, listed, told>>
    BY <1>2 DEF ShowListing
  <2>2. /\ elements' \in [Pictures -> Nat]
        /\ \A f \in Pictures : f \in listed \/ elements'[f] <= elements[f]
    BY <1>a, <2>1, ChooseShows
  <2>3. listed \in SUBSET (Pictures \cap blobs)
    BY <1>a
  <2>. QED  BY <1>a, <2>1, <2>2, <2>3, <1>s
<1>3. ASSUME NEW u \in Submissions, PageTask(u)
      PROVE  Goal
  <2>1. UNCHANGED <<visit, listed, told>>
    BY <1>3 DEF PageTask
  <2>2. CASE Success(u)
    <3>1. Choose(FilesOf(u)) /\ reply[u] = "ok"
      BY <1>3, <2>2 DEF PageTask, Success
    <3>2. FilesOf(u) \in SUBSET (Pictures \cap blobs)
      BY <3>1, SuccessHasFiles DEF AlbumInv
    <3>3. /\ elements' \in [Pictures -> Nat]
          /\ \A f \in Pictures : f \in FilesOf(u) \/ elements'[f] <= elements[f]
      BY <1>a, <3>1, ChooseShows
    <3>. QED  BY <1>a, <2>1, <3>2, <3>3, <1>s
  <2>3. CASE ~Success(u)
    BY <1>3, <1>u, <2>1, <2>3 DEF PageTask
  <2>. QED  BY <2>2, <2>3
<1>4. ASSUME NEW d \in Removals, RemoveAnswered(d)
      PROVE  Goal
  <2>1. UNCHANGED <<visit, listed>> /\ told' = [told EXCEPT ![d] = "answer"]
    BY <1>4 DEF RemoveAnswered
  <2>2. CASE removed[d] = "ok" /\ elements[wanted[d]] > 0
    <3>1. elements' = [elements EXCEPT ![wanted[d]] = @ - 1]
      BY <1>4, <2>2 DEF RemoveAnswered
    <3>2. wanted[d] \in Pictures
      BY <2>2, PicturesAreFiles DEF AlbumInv, TakerInv, Taker
    <3>3. \A f \in Pictures : elements[f] \in Nat
      BY <1>a
    <3>4. elements' \in [Pictures -> Nat] /\ \A f \in Pictures : elements'[f] <= elements[f]
      BY <1>a, <2>2, <3>1, <3>2, <3>3
    <3>. QED  BY <1>a, <2>1, <3>4, <1>s
  <2>3. CASE ~(removed[d] = "ok" /\ elements[wanted[d]] > 0)
    <3>1. elements' = elements
      BY <1>4, <2>3 DEF RemoveAnswered
    <3>2. \A f \in Pictures : elements'[f] <= elements[f]
      BY <1>a, <3>1
    <3>. QED  BY <1>a, <2>1, <3>1, <3>2, <1>s
  <2>. QED  BY <2>2, <2>3
<1>5. ASSUME NEW d \in Removals, RemoveErrs(d)
      PROVE  Goal
  <2>1. UNCHANGED <<visit, elements, listed>> /\ told' = [told EXCEPT ![d] = "error"]
    BY <1>5 DEF RemoveErrs
  <2>2. \A f \in Pictures : elements'[f] <= elements[f]
    BY <1>a, <2>1
  <2>. QED  BY <1>a, <2>1, <2>2, <1>s
<1>6. ASSUME \/ \E s \in Selections : ChooseFiles(s)
             \/ ClickUploadNothing \/ UseMenu
             \/ \E d \in Removals, f \in Pictures : ClickRemove(d, f)
             \/ ListingFails \/ Server \/ Others \/ UNCHANGED albumVars
             \/ \E u \in Submissions : ClickUpload(u) \/ Receive(u)
             \/ \E v \in Views, f \in Pictures : LoadPicture(v, f)
      PROVE  UNCHANGED <<visit, elements, listed, told>>
  BY <1>6 DEF ChooseFiles, ClickUploadNothing, UseMenu, ClickRemove, ListingFails, LoadPicture,
              Server, Others, RemoveElsewhere, ClickUpload, Receive, albumVars, pageVars
<1>. QED
  BY <1>u, <1>1, <1>2, <1>3, <1>4, <1>5, <1>6 DEF AlbumNext, User, Browser

LEMMA ReplyStep ==
  ASSUME StoreAssumption, PageAssumption, AlbumInv, [Next]_vars, [AlbumNext]_albumVars
  PROVE  ReplyInv'
<1>1. ASSUME NEW u \in Submissions, Receive(u)
      PROVE  ReplyInv'
  <2>1. /\ \A v \in Submissions : v # u => reply'[v] = reply[v]
        /\ reply'[u] = "lost" \/ (upload[u] = "done" /\ reply'[u] = Body(u))
    BY <1>1 DEF Receive, Respond, AlbumInv, FormInv, FormTypeOK
  <2>. QED  BY <2>1, RepliesStay DEF AlbumInv
<1>2. ASSUME reply' = reply
      PROVE  ReplyInv'
  BY <1>2, RepliesStay DEF AlbumInv
<1>3. ASSUME NEW u \in Submissions, ClickUpload(u) \/ PageTask(u)
      PROVE  reply' = reply
  BY <1>3 DEF ClickUpload, AjaxSubmit, PageTask, Task, DoSubmit, Load, ReadAgain, BlankLoad,
              Timeout, CheckState, Cleanup, formVars
<1>4. ASSUME \/ \E s \in Selections : ChooseFiles(s)
             \/ ClickUploadNothing \/ UseMenu
             \/ \E d \in Removals, f \in Pictures : ClickRemove(d, f)
             \/ ReadListing \/ ShowListing \/ ListingFails
             \/ \E d \in Removals : RemoveAnswered(d) \/ RemoveErrs(d)
             \/ \E v \in Views, f \in Pictures : LoadPicture(v, f)
             \/ Server \/ Others \/ UNCHANGED albumVars
      PROVE  reply' = reply
  BY <1>4 DEF ChooseFiles, ClickUploadNothing, UseMenu, ClickRemove, ReadListing, ShowListing,
              ListingFails, RemoveAnswered, RemoveErrs, LoadPicture, Server, Others,
              RemoveElsewhere, albumVars, formVars
<1>. QED  BY <1>1, <1>2, <1>3, <1>4 DEF AlbumNext, User, Browser

LEMMA AlbumStep ==
  ASSUME StoreAssumption, FormAssumption, PageAssumption, AlbumInv, [AlbumNext]_albumVars
  PROVE  AlbumInv' /\ [Next]_vars /\ [FormNext]_formVars
<1>1. [Next]_vars /\ [FormNext]_formVars
  BY AlbumToStore, AlbumToForm DEF AlbumInv
<1>2. TypeOK' /\ ContentInv' /\ TakerInv' /\ CompleteInv'
  BY <1>1, TypeStep, ContentStep, TakerStep, CompleteStep DEF AlbumInv
<1>3. FormInv'
  BY <1>1, FormStep DEF AlbumInv
<1>4. ReplyInv'
  BY <1>1, ReplyStep
<1>5. Pictures' = Pictures
  BY DEF Pictures, FilesOf
<1>. QED  BY <1>1, <1>2, <1>3, <1>4, <1>5, PageStep DEF AlbumInv

LEMMA AlbumStart ==
  ASSUME StoreAssumption, FormAssumption, PageAssumption, PageInit
  PROVE  AlbumInv
<1>1. Init /\ FormInit /\ FormInv
  BY FormStart DEF PageInit
<1>2. TypeOK /\ ContentInv /\ CompleteInv /\ TakerInv
  BY <1>1, CompleteInit
     DEF Init, TypeOK, StoreAssumption, ContentInv, RecordHasContent, NeverEmpty, TakerInv, Taker
<1>3. ReplyInv
  BY <1>1 DEF FormInit, ReplyInv, Replies, Json
<1>. QED  BY <1>1, <1>2, <1>3 DEF AlbumInv, PageInit, ShownHasContent

(* The page keeps to the server's specification and to the transport's:    *)
(* what is proved of each holds on the page.                               *)
THEOREM PageRefines == AlbumSpec => Spec /\ FormSpec
<1>1. PageInit => AlbumInv /\ Init /\ FormInit
  BY AlbumStart, StoreAssumption, FormAssumption, PageAssumption DEF PageInit
<1>2. AlbumInv /\ [AlbumNext]_albumVars => AlbumInv' /\ [Next]_vars /\ [FormNext]_formVars
  BY AlbumStep, StoreAssumption, FormAssumption, PageAssumption
<1>. QED  BY <1>1, <1>2, PTL DEF AlbumSpec, Spec, FormSpec

(* Every picture on the page has its content in the store, in whatever     *)
(* order listing, uploads, removals and views are answered, and whatever   *)
(* is lost or fails on the way.                                            *)
THEOREM ShownIsStored == AlbumSpec => []ShownHasContent
<1>1. PageInit => AlbumInv
  BY AlbumStart, StoreAssumption, FormAssumption, PageAssumption
<1>2. AlbumInv /\ [AlbumNext]_albumVars => AlbumInv'
  BY AlbumStep, StoreAssumption, FormAssumption, PageAssumption
<1>3. AlbumInv => ShownHasContent
  BY DEF AlbumInv
<1>. QED  BY <1>1, <1>2, <1>3, PTL DEF AlbumSpec

(* The callback of an upload fits what the server did, for either          *)
(* transport and any order of load events, timeouts and crashes.           *)
THEOREM StatusFits == AlbumSpec => []StatusIsTrue
<1>1. PageInit => AlbumInv
  BY AlbumStart, StoreAssumption, FormAssumption, PageAssumption
<1>2. AlbumInv /\ [AlbumNext]_albumVars => AlbumInv'
  BY AlbumStep, StoreAssumption, FormAssumption, PageAssumption
<1>3. ASSUME AlbumInv
      PROVE  StatusIsTrue
  <2>1. ASSUME NEW u \in Submissions, NEW s \in Statuses, answers[u] = <<s>>
        PROVE  Fits(u, s)
    <3>1. <<s>> # <<>>
      OBVIOUS
    <3>2. Ended(u)
      BY <1>3, <2>1, <3>1 DEF AlbumInv, FormInv, FormTypeOK, Phases, Ended
    <3>3. PICK t \in Statuses : answers[u] = <<t>> /\ Fits(u, t)
      BY <1>3, <3>2 DEF AlbumInv, FormInv, Ended
    <3>4. t = s
      BY <2>1, <3>3
    <3>. QED  BY <3>3, <3>4
  <2>2. ASSUME NEW u \in Submissions, reply[u] \in Replies \ {"lost"}
        PROVE  /\ reply[u] \in Json => uploaded[u] \in {"ok", "recordError"}
               /\ reply[u] \in {"empty", "errorpage"} => uploaded[u] \in {"null", "exception"}
    <3>1. reply[u] = Body(u) /\ u \in Uploads
      BY <1>3, <2>2, PageAssumption DEF AlbumInv, ReplyInv, PageAssumption
    <3>2. uploaded[u] \in {"none", "null", "exception", "recordError", "ok"}
      BY <1>3, <3>1 DEF AlbumInv, TypeOK
    <3>. QED  BY <3>1, <3>2 DEF Body, Json
  <2>3. "success" \in Statuses /\ "parsererror" \in Statuses
    BY DEF Statuses
  <2>. QED  BY <2>1, <2>2, <2>3 DEF StatusIsTrue, Fits, Replies, Json
<1>. QED  BY <1>1, <1>2, <1>3, PTL DEF AlbumSpec

-----------------------------------------------------------------------------
(* A click on a cross was on a picture of the page, which stays there      *)
(* until a click on the page took it away.                                 *)
TakenHere(f) ==
  \E e \in visit.clicks : removed[e] = "ok" /\ told[e] = "answer" /\ wanted[e] = f

RemovalInv ==
  \A d \in visit.clicks : remove[d] # "idle" =>
    /\ wanted[d] \in Pictures
    /\ elements[wanted[d]] > 0 \/ TakenHere(wanted[d])

(* A removal that began keeps its file, and its success.                   *)
LEMMA RemovalsKept ==
  ASSUME StoreAssumption, TypeOK, TakerInv, [Next]_vars, NEW d \in Removals,
         remove[d] # "idle"
  PROVE  /\ wanted'[d] = wanted[d]
         /\ removed[d] = "ok" => removed'[d] = "ok"
<1>. USE DEF uploads, removals, views, stores
<1>1. ASSUME NEW e \in Removals,
             \/ \E f \in blobs : ChooseRemoval(e, f)
             \/ FindRemoval(e) \/ DeleteRecord(e) \/ DeleteRecordFails(e)
             \/ DeleteContent(e) \/ DeleteContentFails(e)
      PROVE  wanted'[d] = wanted[d] /\ (removed[d] = "ok" => removed'[d] = "ok")
  <2>1. /\ remove[e] # "done"
        /\ remove[e] = "idle" \/ wanted' = wanted
        /\ e # d => wanted'[d] = wanted[d] /\ removed'[d] = removed[d]
    BY <1>1 DEF ChooseRemoval, FindRemoval, DeleteRecord, DeleteRecordFails, DeleteContent,
                DeleteContentFails, EndRemove, TypeOK
  <2>2. removed[d] = "ok" => remove[d] = "done"
    BY DEF TakerInv
  <2>. QED  BY <2>1, <2>2
<1>2. ASSUME NEW v \in Views, (\E f \in blobs : ChooseView(v, f)) \/ FindRecord(v) \/ FindContent(v)
      PROVE  wanted'[d] = wanted[d] /\ removed' = removed
  BY <1>2 DEF ChooseView, FindRecord, FindContent, StoreAssumption, TypeOK
<1>3. ASSUME NEW u \in Uploads,
             NoSession(u) \/ Store(u) \/ StoreFails(u) \/ Save(u) \/ SaveFails(u)
      PROVE  wanted' = wanted /\ removed' = removed
  BY <1>3 DEF NoSession, Store, StoreFails, Save, SaveFails
<1>4. ASSUME Crash \/ UNCHANGED vars
      PROVE  wanted' = wanted /\ removed' = removed
  BY <1>4 DEF Crash, vars
<1>. QED  BY <1>1, <1>2, <1>3, <1>4, StepCases

(* Only a click on the page begins a removal of the page.                  *)
LEMMA ClickBegins ==
  ASSUME PageAssumption, StoreAssumption, AlbumInv, [AlbumNext]_albumVars,
         NEW d \in visit.clicks, remove[d] = "idle", remove'[d] # "idle"
  PROVE  \E f \in Pictures : wanted'[d] = f /\ elements[f] > 0 /\ elements' = elements
<1>0. d \in Removals /\ d \notin visit.elsewhere /\ remove \in [Removals -> {"idle", "find", "delete", "content", "done"}]
  BY DEF PageAssumption, AlbumInv, TypeOK
<1>w. wanted \in [Removals \cup Views -> Files \cup {NoFile}]
  BY DEF AlbumInv, TypeOK
<1>1. ASSUME NEW e \in Removals, NEW f \in Pictures, ClickRemove(e, f)
      PROVE  wanted'[d] = f /\ elements[f] > 0 /\ elements' = elements
  <2>1. remove' = [remove EXCEPT ![e] = "find"] /\ wanted' = [wanted EXCEPT ![e] = f]
        /\ elements[f] > 0 /\ elements' = elements
    BY <1>1 DEF ClickRemove, ChooseRemoval, pageVars
  <2>2. e = d
    BY <1>0, <2>1
  <2>. QED  BY <1>0, <1>w, <2>1, <2>2
<1>2. ASSUME Others
      PROVE  remove'[d] = remove[d]
  BY <1>0, <1>2 DEF Others, RemoveElsewhere, ChooseRemoval
<1>3. ASSUME Server
      PROVE  remove'[d] = remove[d]
  <2>1. ASSUME NEW e \in Removals, RemoveCalls(e)
        PROVE  remove'[d] = remove[d]
    BY <1>0, <2>1 DEF RemoveCalls, FindRemoval, DeleteRecord, DeleteRecordFails, DeleteContent,
                      DeleteContentFails, EndRemove, removals
  <2>2. ASSUME NEW u, Upload(u)
        PROVE  remove' = remove
    BY <2>2 DEF Upload, NoSession, Store, StoreFails, Save, SaveFails, removals
  <2>3. ASSUME NEW v, ViewCalls(v)
        PROVE  remove' = remove
    BY <2>3 DEF ViewCalls, FindRecord, FindContent, removals
  <2>4. ASSUME Crash
        PROVE  remove'[d] = "idle"
    BY <1>0, <2>4 DEF Crash
  <2>. QED  BY <1>3, <2>1, <2>2, <2>3, <2>4 DEF Server
<1>4. ASSUME \/ \E s \in Selections : ChooseFiles(s)
             \/ ClickUploadNothing \/ UseMenu
             \/ \E u \in Submissions : ClickUpload(u) \/ Receive(u) \/ PageTask(u)
             \/ ReadListing \/ ShowListing \/ ListingFails
             \/ \E e \in Removals : RemoveAnswered(e) \/ RemoveErrs(e)
             \/ UNCHANGED albumVars
      PROVE  remove' = remove
  BY <1>4 DEF ChooseFiles, ClickUploadNothing, UseMenu, ClickUpload, Receive, PageTask,
              ReadListing, ShowListing, ListingFails, RemoveAnswered, RemoveErrs, store,
              albumVars, vars, removals
<1>5. ASSUME NEW v \in Views, NEW f \in Pictures, LoadPicture(v, f)
      PROVE  remove' = remove
  BY <1>5 DEF LoadPicture, ChooseView, removals
<1>. QED  BY <1>1, <1>2, <1>3, <1>4, <1>5 DEF AlbumNext, User, Browser

(* A picture leaves the page only by an answer to a click on the page.     *)
LEMMA ElementsKept ==
  ASSUME PageAssumption, StoreAssumption, AlbumInv, [AlbumNext]_albumVars
  PROVE  /\ visit' = visit
         /\ \A d \in Removals : told[d] = "answer" => told'[d] = "answer"
         /\ \A f \in Pictures : elements[f] > 0 =>
              \/ elements'[f] > 0
              \/ \E e \in visit.clicks :
                   removed[e] = "ok" /\ told'[e] = "answer" /\ wanted[e] = f
<1>a. elements \in [Pictures -> Nat] /\ told \in [Removals -> {"no", "answer", "error"}]
  BY DEF AlbumInv
<1>. DEFINE Goal == /\ visit' = visit
                    /\ \A d \in Removals : told[d] = "answer" => told'[d] = "answer"
                    /\ \A f \in Pictures : elements[f] > 0 =>
                         \/ elements'[f] > 0
                         \/ \E e \in visit.clicks :
                              removed[e] = "ok" /\ told'[e] = "answer" /\ wanted[e] = f
<1>c. ASSUME NEW files, Choose(files), UNCHANGED <<visit, told>>
      PROVE  Goal
  <2>1. \A f \in Pictures : elements'[f] = IF f \in files THEN elements[f] + 1 ELSE elements[f]
    BY <1>a, <1>c, ChooseShows
  <2>2. ASSUME NEW f \in Pictures, elements[f] > 0
        PROVE  elements'[f] > 0
    <3>1. elements[f] \in Nat
      BY <1>a
    <3>. QED  BY <2>1, <2>2, <3>1
  <2>. QED  BY <1>c, <2>2
<1>1. ASSUME ShowListing
      PROVE  Goal
  BY <1>1, <1>c DEF ShowListing
<1>2. ASSUME NEW u \in Submissions, PageTask(u)
      PROVE  Goal
  BY <1>2, <1>c DEF PageTask
<1>3. ASSUME NEW d \in Removals, RemoveAnswered(d)
      PROVE  Goal
  <2>1. /\ d \in visit.clicks /\ visit' = visit /\ told' = [told EXCEPT ![d] = "answer"]
        /\ \/ removed[d] = "ok" /\ elements' = [elements EXCEPT ![wanted[d]] = @ - 1]
           \/ elements' = elements
    BY <1>3 DEF RemoveAnswered
  <2>2. told'[d] = "answer" /\ \A e \in Removals : told[e] = "answer" => told'[e] = "answer"
    BY <1>a, <2>1
  <2>3. ASSUME NEW f \in Pictures, elements[f] > 0, f # wanted[d] \/ elements' = elements
        PROVE  elements'[f] > 0
    BY <1>a, <2>1, <2>3
  <2>. QED  BY <2>1, <2>2, <2>3
<1>4. ASSUME NEW d \in Removals, RemoveErrs(d)
      PROVE  Goal
  BY <1>a, <1>4 DEF RemoveErrs
<1>5. ASSUME \/ \E s \in Selections : ChooseFiles(s)
             \/ ClickUploadNothing \/ UseMenu
             \/ \E d \in Removals, f \in Pictures : ClickRemove(d, f)
             \/ ReadListing \/ ListingFails \/ Server \/ Others \/ UNCHANGED albumVars
             \/ \E u \in Submissions : ClickUpload(u) \/ Receive(u)
             \/ \E v \in Views, f \in Pictures : LoadPicture(v, f)
      PROVE  UNCHANGED <<visit, elements, told>>
  BY <1>5 DEF ChooseFiles, ClickUploadNothing, UseMenu, ClickRemove, ReadListing, ListingFails,
              LoadPicture, Server, Others, RemoveElsewhere, ClickUpload, Receive, albumVars,
              pageVars
<1>. QED
  BY <1>1, <1>2, <1>3, <1>4, <1>5 DEF AlbumNext, User, Browser

LEMMA RemovalStep ==
  ASSUME StoreAssumption, FormAssumption, PageAssumption, AlbumInv, RemovalInv,
         [AlbumNext]_albumVars
  PROVE  RemovalInv'
<1>1. [Next]_vars /\ TypeOK /\ TakerInv
  BY AlbumStep DEF AlbumInv
<1>2. /\ visit' = visit /\ visit.clicks \subseteq Removals
      /\ \A d \in Removals : told[d] = "answer" => told'[d] = "answer"
  BY ElementsKept DEF PageAssumption, AlbumInv
<1>3. ASSUME NEW f \in Pictures, elements[f] > 0 \/ TakenHere(f)
      PROVE  elements'[f] > 0 \/ \E e \in visit'.clicks :
                                   removed'[e] = "ok" /\ told'[e] = "answer" /\ wanted'[e] = f
  <2>1. \/ elements'[f] > 0
        \/ \E e \in visit.clicks : removed[e] = "ok" /\ told'[e] = "answer" /\ wanted[e] = f
    BY <1>2, <1>3, ElementsKept DEF TakenHere
  <2>2. ASSUME NEW e \in visit.clicks, removed[e] = "ok", told'[e] = "answer", wanted[e] = f
        PROVE  wanted'[e] = f /\ removed'[e] = "ok"
    <3>1. e \in Removals /\ remove[e] = "done"
      BY <1>1, <1>2, <2>2 DEF TakerInv
    <3>. QED  BY <1>1, <2>2, <3>1, RemovalsKept
  <2>. QED  BY <1>2, <2>1, <2>2
<1>4. ASSUME NEW d \in visit.clicks, remove'[d] # "idle"
      PROVE  /\ wanted'[d] \in Pictures
             /\ elements'[wanted'[d]] > 0 \/ \E e \in visit'.clicks :
                  removed'[e] = "ok" /\ told'[e] = "answer" /\ wanted'[e] = wanted'[d]
  <2>1. CASE remove[d] # "idle"
    <3>1. wanted'[d] = wanted[d]
      BY <1>1, <1>2, <2>1, RemovalsKept
    <3>. QED  BY <1>3, <2>1, <3>1 DEF RemovalInv
  <2>2. CASE remove[d] = "idle"
    BY <1>4, <2>2, ClickBegins
  <2>. QED  BY <2>1, <2>2
<1>5. Pictures' = Pictures
  BY DEF Pictures, FilesOf
<1>. QED  BY <1>2, <1>4, <1>5 DEF RemovalInv, TakenHere

(* The answer to a removal always finds the picture that it is to take off *)
(* the page, however often its cross was clicked, whoever else removes it  *)
(* and however late the listing and the answers to uploads come.           *)
THEOREM RemovalFinds == AlbumSpec => []RemovalFindsElement
<1>1. PageInit => AlbumInv /\ RemovalInv
  <2>1. ASSUME PageInit
        PROVE  RemovalInv
    BY <2>1, PageAssumption DEF PageInit, Init, RemovalInv, PageAssumption
  <2>. QED  BY <2>1, AlbumStart, StoreAssumption, FormAssumption, PageAssumption
<1>2. AlbumInv /\ RemovalInv /\ [AlbumNext]_albumVars => AlbumInv' /\ RemovalInv'
  BY AlbumStep, RemovalStep, StoreAssumption, FormAssumption, PageAssumption
<1>3. ASSUME AlbumInv, RemovalInv
      PROVE  RemovalFindsElement
  <2>. SUFFICES ASSUME NEW d \in visit.clicks, removed[d] = "ok", told[d] = "no"
                PROVE  elements[wanted[d]] > 0
    BY DEF RemovalFindsElement
  <2>1. visit.clicks \subseteq Removals
    BY <1>3, PageAssumption DEF AlbumInv, PageAssumption
  <2>2. remove[d] = "done"
    BY <1>3, <2>1 DEF AlbumInv, TakerInv
  <2>3. ~TakenHere(wanted[d])
    BY <1>3, <2>1 DEF AlbumInv, TakerInv, Taker, TakenHere
  <2>. QED  BY <1>3, <2>2, <2>3 DEF RemovalInv
<1>. QED  BY <1>1, <1>2, <1>3, PTL DEF AlbumSpec

-----------------------------------------------------------------------------
(* Tasks belong to submissions that began, and what was told is final.     *)
LEMMA TaskMoves ==
  ASSUME FormInv, NEW u \in Submissions, Task(u)
  PROVE  /\ phase[u] # "none" /\ phase'[u] # "none"
         /\ \A v \in Submissions : v # u => phase'[v] = phase[v] /\ answers'[v] = answers[v]
         /\ answers[u] # <<>> => answers' = answers
<1>. DEFINE Goal == /\ phase[u] # "none" /\ phase'[u] # "none"
                    /\ \A v \in Submissions :
                         v # u => phase'[v] = phase[v] /\ answers'[v] = answers[v]
                    /\ answers[u] # <<>> => answers' = answers
<1>1. ASSUME DoSubmit(u) \/ BlankLoad(u) \/ Cleanup(u)
      PROVE  Goal
  BY <1>1 DEF DoSubmit, BlankLoad, Cleanup, formVars, FormInv, FormTypeOK
<1>2. ASSUME NEW s, Abort(u, s) \/ End(u, s), phase[u] \in {"open", "reading"}
      PROVE  Goal
  <2>1. answers[u] = <<>>
    BY <1>2 DEF FormInv
  <2>. QED  BY <1>2, <2>1 DEF Abort, End, Call, FormInv, FormTypeOK
<1>3. ASSUME Read(u), phase[u] \in {"open", "reading"}
      PROVE  Goal
  <2>1. CASE \E s : End(u, s)
    BY <1>2, <1>3, <2>1
  <2>2. CASE phase' = [phase EXCEPT ![u] = "reading"] /\ answers' = answers
    BY <1>3, <2>2 DEF FormInv, FormTypeOK
  <2>. QED  BY <1>3, <2>1, <2>2 DEF Read
<1>4. ASSUME Load(u) \/ ReadAgain(u) \/ CheckState(u)
      PROVE  Goal
  BY <1>2, <1>3, <1>4 DEF Load, ReadAgain, CheckState
<1>5. ASSUME Timeout(u)
      PROVE  Goal
  <2>1. phase[u] \in {"open", "reading", "aborted"}
    BY <1>5 DEF Timeout, FormInv, FormTypeOK, Phases
  <2>2. CASE phase[u] = "aborted"
    BY <1>5, <2>2 DEF Timeout
  <2>3. CASE phase[u] # "aborted"
    <3>1. \E s : Abort(u, s) \/ End(u, s)
      BY <1>5, <2>3 DEF Timeout
    <3>. QED  BY <1>2, <2>1, <2>3, <3>1
  <2>. QED  BY <2>2, <2>3
<1>. QED  BY <1>1, <1>4, <1>5 DEF Task

LEMMA SubmitMoves ==
  ASSUME FormInv, NEW u \in Submissions, AjaxSubmit(u)
  PROVE  /\ phase'[u] # "none" /\ answers' = answers
         /\ \A v \in Submissions : v # u => phase'[v] = phase[v]
  BY DEF AjaxSubmit, fileUploadXhr, fileUploadIframe, FormInv, FormTypeOK

(* However the address ends, the upload names the album as the address     *)
(* writes it.                                                              *)
LEMMA ParamIsAddress ==
  ASSUME PageAssumption, visit \in Visits
  PROVE  GetParam(Value) = Address(visit.album)
<1>. DEFINE a == Address(visit.album)  n == Len(visit.album)
            e == [i \in 1..n |-> IF visit.album[i] \in DOMAIN Escape
                                   THEN Escape[visit.album[i]] ELSE visit.album[i]]
            S == {e[i] : i \in 1..n} \cup {"#"}
<1>1. n \in Nat \ {0}
  BY EmptySeq, LenProperties DEF PageAssumption
<1>2. e \in [1..n -> S]
  OBVIOUS
<1>3. e[n] # "#"
  <2>1. n \in 1..n
    BY <1>1
  <2>2. CASE visit.album[n] \in DOMAIN Escape
    BY <2>1, <2>2 DEF PageAssumption
  <2>3. CASE visit.album[n] \notin DOMAIN Escape
    BY <2>1, <2>3 DEF PageAssumption
  <2>. QED  BY <2>2, <2>3
<1>4. a \in Seq(S) /\ Len(a) = n /\ a[n] # "#" /\ "#" \in S
  <2>1. a = e
    BY DEF Address
  <2>2. "#" \in S
    OBVIOUS
  <2>. HIDE DEF e, a, n, S
  <2>3. e \in Seq(S) /\ Len(e) = n
    BY <1>1, <1>2
  <2>. QED  BY <1>3, <2>1, <2>2, <2>3
<1>. HIDE DEF a, n, e, S
<1>5. CASE hash
  <2>. DEFINE v == a \o <<"#">>
  <2>1. <<"#">> \in Seq(S) /\ Len(<<"#">>) = 1 /\ <<"#">>[1] = "#"
    BY <1>4
  <2>2. /\ v \in Seq(S) /\ Len(v) = n + 1 /\ v[n + 1] = "#"
        /\ \A i \in 1..n : v[i] = a[i]
    BY <1>1, <1>4, <2>1, ConcatProperties
  <2>. HIDE DEF v
  <2>3. Value = v
    BY <1>5 DEF Value, v, a
  <2>4. GetParam(v) = SubSeq(v, 1, n)
    BY <1>1, <2>2 DEF GetParam
  <2>5. \A i \in 1..n : v[i] \in S
    BY <1>1, <2>2, LenProperties
  <2>6. /\ SubSeq(v, 1, n) \in Seq(S)
        /\ Len(SubSeq(v, 1, n)) = n
        /\ \A i \in 1..n : SubSeq(v, 1, n)[i] = v[i]
    BY <1>1, <2>5, SubSeqProperties
  <2>7. SubSeq(v, 1, n) = a
    BY <1>4, <2>2, <2>6, SeqEqual
  <2>. QED  BY <2>3, <2>4, <2>7 DEF a
<1>6. CASE ~hash
  BY <1>4, <1>6 DEF Value, GetParam, a
<1>. QED  BY <1>5, <1>6

(* Every upload names the album as the address writes it.                  *)
CategoryInv ==
  /\ category \in [Submissions -> {<<>>, Address(visit.album)}]
  /\ \A u \in Submissions : phase[u] # "none" => category[u] = Address(visit.album)

LEMMA CategoryStep ==
  ASSUME PageAssumption, visit \in Visits, FormInv, CategoryInv, [AlbumNext]_albumVars
  PROVE  CategoryInv'
<1>v. visit' = visit /\ Address(visit.album)' = Address(visit.album)
  <2>1. visit' = visit
    BY DEF AlbumNext, User, Browser, Others, ChooseFiles, ClickUploadNothing, ClickUpload,
           ClickRemove, UseMenu, ReadListing, ShowListing, ListingFails, Receive, PageTask,
           RemoveAnswered, RemoveErrs, LoadPicture, Server, RemoveElsewhere, albumVars, pageVars
  <2>. QED  BY <2>1 DEF Address
<1>1. ASSUME NEW u \in Submissions, ClickUpload(u)
      PROVE  CategoryInv'
  <2>1. category' = [category EXCEPT ![u] = Address(visit.album)]
    BY <1>1, ParamIsAddress DEF ClickUpload
  <2>2. \A v \in Submissions : v # u => phase'[v] = phase[v]
    BY <1>1, SubmitMoves DEF ClickUpload
  <2>. QED  BY <1>v, <2>1, <2>2 DEF CategoryInv
<1>2. ASSUME category' = category,
             \A u \in Submissions : phase'[u] # "none" => phase[u] # "none"
      PROVE  CategoryInv'
  BY <1>v, <1>2 DEF CategoryInv
<1>3. ASSUME NEW u \in Submissions, PageTask(u)
      PROVE  CategoryInv'
  BY <1>2, <1>3, TaskMoves DEF PageTask
<1>4. ASSUME NEW u \in Submissions, Receive(u)
      PROVE  CategoryInv'
  BY <1>2, <1>4 DEF Receive, Respond, pageVars
<1>5. ASSUME \/ \E s \in Selections : ChooseFiles(s)
             \/ ClickUploadNothing \/ UseMenu
             \/ \E d \in Removals, f \in Pictures : ClickRemove(d, f)
             \/ ReadListing \/ ShowListing \/ ListingFails
             \/ \E d \in Removals : RemoveAnswered(d) \/ RemoveErrs(d)
             \/ \E v \in Views, f \in Pictures : LoadPicture(v, f)
             \/ Server \/ Others \/ UNCHANGED albumVars
      PROVE  UNCHANGED <<category, phase>>
  BY <1>5 DEF ChooseFiles, ClickUploadNothing, UseMenu, ClickRemove, ReadListing, ShowListing,
              ListingFails, RemoveAnswered, RemoveErrs, LoadPicture, Server, Others,
              RemoveElsewhere, albumVars, formVars, pageVars
<1>. QED  BY <1>1, <1>2, <1>3, <1>4, <1>5 DEF AlbumNext, User, Browser

(* Every upload goes to the album the page was opened for, exactly if its  *)
(* name stands in the address as it is.                                    *)
THEOREM UploadsStay == AlbumSpec => []UploadsToThisAlbum
<1>1. PageInit => AlbumInv /\ CategoryInv
  <2>1. ASSUME PageInit
        PROVE  CategoryInv
    BY <2>1 DEF PageInit, FormInit, CategoryInv
  <2>. QED  BY <2>1, AlbumStart, StoreAssumption, FormAssumption, PageAssumption
<1>2. AlbumInv /\ CategoryInv /\ [AlbumNext]_albumVars => AlbumInv' /\ CategoryInv'
  BY AlbumStep, CategoryStep, StoreAssumption, FormAssumption, PageAssumption DEF AlbumInv
<1>3. CategoryInv => UploadsToThisAlbum
  BY DEF CategoryInv, UploadsToThisAlbum
<1>. QED  BY <1>1, <1>2, <1>3, PTL DEF AlbumSpec

-----------------------------------------------------------------------------
(* How often the page may show a picture of an upload that is not early.   *)
MayShow(f) ==
  IF f[1] \in Submissions THEN IF answers[f[1]] = <<>> THEN 0 ELSE 1
                          ELSE IF listing = "shown" THEN 1 ELSE 0

(* An upload that begins after the listing is shown is not in it.          *)
OnceInv ==
  /\ \A u \in Submissions : phase[u] # "none" => u \in early \/ listing = "shown"
  /\ \A f \in infos : f[1] \in Submissions => phase[f[1]] # "none"
  /\ \A f \in listed : f[1] \in Submissions => f[1] \in early
  /\ \A f \in Pictures : f[1] \in early \/ elements[f] <= MayShow(f)

(* The parts of OnceInv that a step disturbs.                              *)
LEMMA OnceKept ==
  ASSUME OnceInv, AlbumInv, AlbumInv', early \subseteq early',
         listing = "shown" => listing' = "shown",
         \A u \in Submissions : phase'[u] # "none" =>
           phase[u] # "none" \/ u \in early' \/ listing' = "shown",
         \A u \in Submissions : phase[u] # "none" => phase'[u] # "none",
         \A u \in Submissions : phase[u] # "none" /\ u \notin early => listing' = "shown",
         \A f \in infos' \ infos : f[1] \in Submissions => phase'[f[1]] # "none",
         \A f \in listed' \ listed : f[1] \in Submissions => f[1] \in early',
         \A f \in Pictures : f[1] \in early' \/ elements'[f] <= MayShow(f)'
  PROVE  OnceInv'
<1>1. Pictures' = Pictures
  BY DEF Pictures, FilesOf
<1>. QED  BY <1>1 DEF OnceInv

(* Nothing more is shown, and what may be shown does not shrink.           *)
LEMMA NoMoreShown ==
  ASSUME OnceInv, AlbumInv, AlbumInv', early \subseteq early',
         listing = "shown" => listing' = "shown",
         \A u \in Submissions : answers[u] # <<>> => answers'[u] # <<>>,
         \A f \in Pictures : elements'[f] <= elements[f]
  PROVE  \A f \in Pictures : f[1] \in early' \/ elements'[f] <= MayShow(f)'
<1>. SUFFICES ASSUME NEW f \in Pictures, f[1] \notin early'
              PROVE  elements'[f] <= MayShow(f)'
  OBVIOUS
<1>1. elements[f] \in Nat /\ elements'[f] <= elements[f] /\ elements[f] <= MayShow(f)
  BY DEF OnceInv, AlbumInv
<1>2. elements'[f] \in Nat
  <2>1. Pictures' = Pictures
    BY DEF Pictures, FilesOf
  <2>. QED  BY <2>1 DEF AlbumInv
<1>3. MayShow(f) \in {0, 1} /\ MayShow(f)' \in {0, 1}
  BY DEF MayShow
<1>4. MayShow(f) = 1 => MayShow(f)' = 1
  BY DEF MayShow
<1>. QED  BY <1>1, <1>2, <1>3, <1>4

LEMMA OnceStep ==
  ASSUME StoreAssumption, FormAssumption, PageAssumption, AlbumInv, OnceInv,
         [AlbumNext]_albumVars
  PROVE  OnceInv'
<1>a. AlbumInv' /\ AlbumInv
  BY AlbumStep
<1>e. \A f \in Pictures : elements[f] \in Nat
  BY DEF AlbumInv
<1>q. ASSUME UNCHANGED <<early, listing, listed, elements>>,
             \A u \in Submissions : answers[u] # <<>> => answers'[u] # <<>>,
             \A u \in Submissions : phase'[u] # "none" <=> phase[u] # "none",
             \A f \in infos' \ infos : f[1] \in Submissions => phase[f[1]] # "none"
      PROVE  OnceInv'
  <2>1. \A f \in Pictures : elements'[f] <= elements[f]
    BY <1>e, <1>q
  <2>2. \A f \in Pictures : f[1] \in early' \/ elements'[f] <= MayShow(f)'
    BY <1>a, <1>q, <2>1, NoMoreShown
  <2>. QED  BY <1>a, <1>q, <2>2, OnceKept DEF OnceInv
<1>1. ASSUME ReadListing \/ ListingFails
      PROVE  OnceInv'
  <2>1. /\ UNCHANGED <<early, elements, phase, answers, infos>>
        /\ listing # "shown"
        /\ listed' \subseteq listed \cup infos
    BY <1>1 DEF ReadListing, ListingFails, formVars, store, vars, stores
  <2>2. \A f \in Pictures : elements'[f] <= elements[f]
    BY <1>e, <2>1
  <2>3. \A f \in Pictures : f[1] \in early' \/ elements'[f] <= MayShow(f)'
    BY <1>a, <2>1, <2>2, NoMoreShown
  <2>4. \A u \in Submissions : phase[u] # "none" => u \in early
    BY <2>1 DEF OnceInv
  <2>5. \A f \in listed' \ listed : f[1] \in Submissions => f[1] \in early
    BY <2>1, <2>4 DEF OnceInv
  <2>. QED  BY <1>a, <2>1, <2>3, <2>4, <2>5, OnceKept
<1>2. ASSUME ShowListing
      PROVE  OnceInv'
  <2>1. /\ UNCHANGED <<early, phase, answers, infos, listed>> /\ Choose(listed)
        /\ listing = "read" /\ listing' = "shown"
    BY <1>2 DEF ShowListing, formVars, store, vars, stores
  <2>2. ASSUME NEW f \in Pictures, f[1] \notin early
        PROVE  elements'[f] <= MayShow(f)'
    <3>1. elements[f] \in Nat /\ elements[f] <= MayShow(f)
      BY <1>e, <2>2 DEF OnceInv
    <3>2. elements'[f] = IF f \in listed THEN elements[f] + 1 ELSE elements[f]
      BY <2>1, ChooseShows DEF AlbumInv
    <3>3. CASE f[1] \in Submissions
      <4>1. f \notin listed
        BY <2>2, <3>3 DEF OnceInv
      <4>2. MayShow(f)' = MayShow(f)
        BY <2>1, <3>3 DEF MayShow
      <4>. QED  BY <3>1, <3>2, <4>1, <4>2
    <3>4. CASE f[1] \notin Submissions
      <4>1. MayShow(f) = 0 /\ MayShow(f)' = 1
        BY <2>1, <3>4 DEF MayShow
      <4>. QED  BY <3>1, <3>2, <4>1
    <3>. QED  BY <3>3, <3>4
  <2>. QED  BY <1>a, <2>1, <2>2, OnceKept
<1>3. ASSUME NEW u \in Submissions, ClickUpload(u)
      PROVE  OnceInv'
  <2>1. /\ AjaxSubmit(u) /\ UNCHANGED <<elements, listing, listed, infos>>
        /\ early \subseteq early'
        /\ listing = "shown" \/ u \in early'
    BY <1>3 DEF ClickUpload, store, vars, stores
  <2>2. /\ answers' = answers /\ phase'[u] # "none"
        /\ \A v \in Submissions : v # u => phase'[v] = phase[v]
    BY <2>1, SubmitMoves DEF AlbumInv
  <2>3. \A f \in Pictures : elements'[f] <= elements[f]
    BY <1>e, <2>1
  <2>4. early \subseteq early' /\ listing' = listing
    BY <1>3 DEF ClickUpload
  <2>5. \A f \in Pictures : f[1] \in early' \/ elements'[f] <= MayShow(f)'
    BY <1>a, <2>2, <2>3, <2>4, NoMoreShown
  <2>. QED  BY <1>a, <2>1, <2>2, <2>4, <2>5, OnceKept DEF OnceInv
<1>4. ASSUME NEW u \in Submissions, PageTask(u)
      PROVE  OnceInv'
  <2>1. Task(u) /\ UNCHANGED <<early, listing, listed, infos>>
    BY <1>4 DEF PageTask, store, vars, stores
  <2>2. /\ phase[u] # "none" /\ phase'[u] # "none"
        /\ \A v \in Submissions : v # u => phase'[v] = phase[v] /\ answers'[v] = answers[v]
        /\ answers[u] # <<>> => answers' = answers
    BY <2>1, TaskMoves DEF AlbumInv
  <2>3. CASE ~Success(u)
    BY <1>4, <1>q, <2>1, <2>2, <2>3 DEF PageTask
  <2>4. CASE Success(u)
    <3>1. /\ Choose(FilesOf(u)) /\ answers'[u] # answers[u]
      BY <1>4, <2>4 DEF PageTask, Success
    <3>2. answers[u] = <<>> /\ answers'[u] # <<>>
      BY <2>2, <3>1
    <3>3. ASSUME NEW f \in Pictures, f[1] \notin early
          PROVE  elements'[f] <= MayShow(f)'
      <4>1. elements[f] \in Nat /\ elements[f] <= MayShow(f)
        BY <1>e, <3>3 DEF OnceInv
      <4>2. elements'[f] = IF f \in FilesOf(u) THEN elements[f] + 1 ELSE elements[f]
        BY <3>1, ChooseShows DEF AlbumInv
      <4>3. CASE f[1] = u
        <5>1. MayShow(f) = 0 /\ MayShow(f)' = 1
          BY <3>2, <4>3 DEF MayShow
        <5>. QED  BY <4>1, <4>2, <5>1
      <4>4. CASE f[1] # u
        <5>1. f \notin FilesOf(u)
          BY <4>4 DEF FilesOf
        <5>2. MayShow(f)' = MayShow(f)
          BY <2>1, <2>2, <4>4 DEF MayShow
        <5>. QED  BY <4>1, <4>2, <5>1, <5>2
      <4>. QED  BY <4>3, <4>4
    <3>. QED  BY <1>a, <2>1, <2>2, <3>3, OnceKept DEF OnceInv
  <2>. QED  BY <2>3, <2>4
<1>5. ASSUME NEW d \in Removals, RemoveAnswered(d) \/ RemoveErrs(d)
      PROVE  OnceInv'
  <2>1. UNCHANGED <<early, listing, listed, phase, answers, infos>>
    BY <1>5 DEF RemoveAnswered, RemoveErrs, formVars, store, vars, stores
  <2>2. ASSUME NEW f \in Pictures
        PROVE  elements'[f] <= elements[f]
    <3>1. elements[f] \in Nat /\ elements \in [Pictures -> Nat]
      BY DEF AlbumInv
    <3>2. elements' = elements \/ elements' = [elements EXCEPT ![wanted[d]] = @ - 1]
      BY <1>5 DEF RemoveAnswered, RemoveErrs
    <3>. QED  BY <3>1, <3>2
  <2>3. \A f \in Pictures : f[1] \in early' \/ elements'[f] <= MayShow(f)'
    BY <1>a, <2>1, <2>2, NoMoreShown
  <2>. QED  BY <1>a, <2>1, <2>3, OnceKept DEF OnceInv
<1>6. ASSUME Server
      PROVE  OnceInv'
  <2>1. UNCHANGED <<early, listing, listed, elements, phase, answers>>
    BY <1>6 DEF Server, formVars, pageVars
  <2>2. ASSUME NEW u, u \in Submissions => phase[u] \notin {"none", "queued"}, Upload(u)
        PROVE  \A f \in infos' \ infos : f[1] \in Submissions => phase[f[1]] # "none"
    BY <2>2 DEF Upload, NoSession, Store, StoreFails, Save, SaveFails, stores, Current
  <2>3. ASSUME NEW d, RemoveCalls(d)
        PROVE  infos' \subseteq infos
    BY <2>3 DEF RemoveCalls, FindRemoval, DeleteRecord, DeleteRecordFails, DeleteContent,
                DeleteContentFails, stores
  <2>4. ASSUME NEW v, ViewCalls(v)
        PROVE  infos' = infos
    BY <2>4 DEF ViewCalls, FindRecord, FindContent, stores
  <2>5. ASSUME Crash
        PROVE  infos' = infos
    BY <2>5 DEF Crash, stores
  <2>6. \A f \in infos' \ infos : f[1] \in Submissions => phase[f[1]] # "none"
    BY <1>6, <2>2, <2>3, <2>4, <2>5 DEF Server
  <2>. QED  BY <1>q, <2>1, <2>6
<1>7. ASSUME \/ \E s \in Selections : ChooseFiles(s)
             \/ ClickUploadNothing \/ UseMenu
             \/ \E d \in Removals, f \in Pictures : ClickRemove(d, f)
             \/ \E v \in Views, f \in Pictures : LoadPicture(v, f)
             \/ Others \/ UNCHANGED albumVars
             \/ \E u \in Submissions : Receive(u)
      PROVE  UNCHANGED <<early, listing, listed, elements, phase, answers, infos>>
  BY <1>7 DEF ChooseFiles, ClickUploadNothing, UseMenu, ClickRemove, ChooseRemoval, LoadPicture,
              ChooseView, Others, RemoveElsewhere, Receive, Respond, store, vars, stores,
              albumVars, formVars, pageVars
<1>8. CASE UNCHANGED <<early, listing, listed, elements, phase, answers, infos>>
  BY <1>8, <1>q
<1>. QED
  BY <1>1, <1>2, <1>3, <1>4, <1>5, <1>6, <1>7, <1>8 DEF AlbumNext, User, Browser

(* No picture is on the page twice, unless its upload began before the     *)
(* listing was shown.                                                      *)
THEOREM ShownAtMostOnce == AlbumSpec => []ShownOnce
<1>1. PageInit => AlbumInv /\ OnceInv
  <2>1. ASSUME PageInit
        PROVE  OnceInv
    BY <2>1 DEF PageInit, Init, FormInit, OnceInv, MayShow
  <2>. QED  BY <2>1, AlbumStart, StoreAssumption, FormAssumption, PageAssumption
<1>2. AlbumInv /\ OnceInv /\ [AlbumNext]_albumVars => AlbumInv' /\ OnceInv'
  BY AlbumStep, OnceStep, StoreAssumption, FormAssumption, PageAssumption
<1>3. ASSUME AlbumInv, OnceInv
      PROVE  ShownOnce
  <2>1. \A f \in Pictures : elements[f] \in Nat /\ MayShow(f) \in {0, 1}
    BY <1>3 DEF AlbumInv, MayShow
  <2>2. ASSUME NEW f \in Pictures, f[1] \notin early
        PROVE  elements[f] <= 1
    <3>1. elements[f] <= MayShow(f)
      BY <1>3, <2>2 DEF OnceInv
    <3>. QED  BY <2>1, <3>1
  <2>. QED  BY <2>2 DEF ShownOnce
<1>. QED  BY <1>1, <1>2, <1>3, PTL DEF AlbumSpec

-----------------------------------------------------------------------------
(* What the page shows, or is about to show, has a record, or a removal    *)
(* took it away.                                                           *)
RecordedInv ==
  \A f \in Pictures : elements[f] > 0 \/ f \in listed => f \in infos \/ TakenAway(f)

(* An item for which there is no more to come: its upload was answered, or *)
(* the listing was shown.  A click is on such an item, unless it is early; *)
(* after a click took it off it is gone for good.                          *)
GoneInv ==
  /\ \A d \in Removals : told[d] # "no" => d \in visit.clicks /\ remove[d] = "done"
  /\ \A d \in visit.clicks, f \in Pictures : remove[d] # "idle" /\ wanted[d] = f =>
       f[1] \in early \/ MayShow(f) = 1
  /\ \A f \in Pictures : TakenHere(f) => f[1] \in early \/ elements[f] = 0

(* Only the removals of a file take its record away.                       *)
LEMMA RecordStays ==
  ASSUME StoreAssumption, TypeOK, [Next]_vars, NEW f \in infos
  PROVE  f \in infos' \/ TakenAway(f)'
<1>. USE DEF stores, uploads, removals, views
<1>1. ASSUME NEW d \in Removals, DeleteRecord(d) \/ DeleteRecordFails(d)
      PROVE  f \in infos' \/ TakenAway(f)'
  <2>1. /\ infos \ {wanted[d]} \subseteq infos' /\ wanted' = wanted
        /\ remove'[d] \in {"content", "done"}
    BY <1>1 DEF DeleteRecord, DeleteRecordFails, EndRemove, TypeOK
  <2>. QED  BY <2>1 DEF TakenAway
<1>2. ASSUME \/ \E u \in Uploads : \/ NoSession(u) \/ Store(u) \/ StoreFails(u)
                                   \/ Save(u) \/ SaveFails(u)
             \/ \E d \in Removals : \/ \E g \in blobs : ChooseRemoval(d, g)
                                    \/ FindRemoval(d)
                                    \/ DeleteContent(d) \/ DeleteContentFails(d)
             \/ \E v \in Views : \/ \E g \in blobs : ChooseView(v, g)
                                 \/ FindRecord(v) \/ FindContent(v)
             \/ Crash \/ UNCHANGED vars
      PROVE  infos \subseteq infos'
  BY <1>2 DEF NoSession, Store, StoreFails, Save, SaveFails, ChooseRemoval, FindRemoval,
              DeleteContent, DeleteContentFails, ChooseView, FindRecord, FindContent, Crash, vars
<1>. QED  BY <1>1, <1>2, StepCases

(* A removal that is done stays as it is.                                  *)
LEMMA DoneRemovalStays ==
  ASSUME StoreAssumption, TypeOK, [Next]_vars, NEW d \in Removals, remove[d] = "done"
  PROVE  remove'[d] = "done" /\ removed'[d] = removed[d] /\ wanted'[d] = wanted[d]
<1>. USE DEF uploads, removals, views, stores
<1>1. ASSUME NEW e \in Removals,
             \/ \E f \in blobs : ChooseRemoval(e, f)
             \/ FindRemoval(e) \/ DeleteRecord(e) \/ DeleteRecordFails(e)
             \/ DeleteContent(e) \/ DeleteContentFails(e)
      PROVE  remove'[d] = "done" /\ removed'[d] = removed[d] /\ wanted'[d] = wanted[d]
  <2>1. e # d
    BY <1>1 DEF ChooseRemoval, FindRemoval, DeleteRecord, DeleteRecordFails, DeleteContent,
                DeleteContentFails
  <2>. QED
    BY <1>1, <2>1 DEF ChooseRemoval, FindRemoval, DeleteRecord, DeleteRecordFails,
                      DeleteContent, DeleteContentFails, EndRemove, TypeOK
<1>2. ASSUME NEW v \in Views, (\E f \in blobs : ChooseView(v, f)) \/ FindRecord(v) \/ FindContent(v)
      PROVE  wanted'[d] = wanted[d] /\ UNCHANGED <<remove, removed>>
  BY <1>2 DEF ChooseView, FindRecord, FindContent, StoreAssumption, TypeOK
<1>3. ASSUME NEW u \in Uploads,
             NoSession(u) \/ Store(u) \/ StoreFails(u) \/ Save(u) \/ SaveFails(u)
      PROVE  UNCHANGED <<remove, removed, wanted>>
  BY <1>3 DEF NoSession, Store, StoreFails, Save, SaveFails
<1>4. ASSUME Crash
      PROVE  remove'[d] = "done" /\ UNCHANGED <<removed, wanted>>
  BY <1>4 DEF Crash
<1>5. CASE UNCHANGED vars
  BY <1>5 DEF vars
<1>. QED  BY <1>1, <1>2, <1>3, <1>4, <1>5, StepCases

(* What the server answered with success has its records, or had them.     *)
LEMMA SuccessIsRecorded ==
  ASSUME PageAssumption, StoreAssumption, TypeOK, CompleteInv, ReplyInv,
         NEW u \in Submissions, reply[u] = "ok", NEW f \in FilesOf(u)
  PROVE  f \in Pictures /\ (f \in infos \/ TakenAway(f))
<1>1. u \in Uploads /\ uploaded[u] = "ok"
  BY DEF PageAssumption, ReplyInv, Replies, Json, Body, TypeOK
<1>2. f \in Pictures /\ f \in Files /\ f[1] = u
  BY <1>1, PicturesAreFiles DEF Pictures, FilesOf
<1>. QED  BY <1>1, <1>2 DEF CompleteInv, Saved

(* What a step may add to the page, and to the answer that it waits for:   *)
(* an item comes once with the listing, and once with the answer to its    *)
(* upload.                                                                 *)
LEMMA ItemsAdded ==
  ASSUME StoreAssumption, FormAssumption, PageAssumption, AlbumInv, OnceInv,
         [AlbumNext]_albumVars
  PROVE  /\ listed' \subseteq listed \cup infos
         /\ early \subseteq early'
         /\ listing = "shown" => listing' = "shown"
         /\ \A u \in Submissions : answers[u] # <<>> => answers'[u] # <<>>
         /\ \A f \in Pictures : elements'[f] <= elements[f] \/
              /\ \/ f \in listed
                 \/ \E u \in Submissions : reply[u] = "ok" /\ f \in FilesOf(u)
              /\ f[1] \in early \/ MayShow(f) = 0
<1>. DEFINE More(f) == /\ \/ f \in listed
                          \/ \E u \in Submissions : reply[u] = "ok" /\ f \in FilesOf(u)
                       /\ f[1] \in early \/ MayShow(f) = 0
            Goal == /\ listed' \subseteq listed \cup infos
                    /\ early \subseteq early'
                    /\ listing = "shown" => listing' = "shown"
                    /\ \A u \in Submissions : answers[u] # <<>> => answers'[u] # <<>>
                    /\ \A f \in Pictures : elements'[f] <= elements[f] \/ More(f)
<1>e. elements \in [Pictures -> Nat] /\ \A f \in Pictures : elements[f] \in Nat
  BY DEF AlbumInv
<1>q. ASSUME elements' = elements
      PROVE  \A f \in Pictures : elements'[f] <= elements[f]
  BY <1>e, <1>q
<1>1. ASSUME ReadListing \/ ListingFails
      PROVE  Goal
  <2>1. /\ UNCHANGED <<elements, early, answers>> /\ listing # "shown"
        /\ listed' \subseteq listed \cup infos
    BY <1>1 DEF ReadListing, ListingFails, formVars
  <2>. QED  BY <1>q, <2>1
<1>2. ASSUME ShowListing
      PROVE  Goal
  <2>1. /\ Choose(listed) /\ listing = "read" /\ listing' = "shown"
        /\ UNCHANGED <<early, answers, listed>>
    BY <1>2 DEF ShowListing, formVars
  <2>2. ASSUME NEW f \in Pictures
        PROVE  elements'[f] <= elements[f] \/ More(f)
    <3>1. f \in listed \/ elements'[f] <= elements[f]
      BY <1>e, <2>1, ChooseShows
    <3>2. CASE f \in listed
      <4>1. f[1] \in Submissions => f[1] \in early
        BY <3>2 DEF OnceInv
      <4>2. f[1] \notin Submissions => MayShow(f) = 0
        BY <2>1 DEF MayShow
      <4>. QED  BY <3>2, <4>1, <4>2
    <3>. QED  BY <3>1, <3>2
  <2>. HIDE DEF More
  <2>. QED  BY <2>1, <2>2
<1>3. ASSUME NEW u \in Submissions, PageTask(u)
      PROVE  Goal
  <2>1. Task(u) /\ UNCHANGED <<early, listing, listed>>
    BY <1>3 DEF PageTask
  <2>2. /\ \A v \in Submissions : v # u => answers'[v] = answers[v]
        /\ answers[u] # <<>> => answers' = answers
    BY <2>1, TaskMoves DEF AlbumInv
  <2>3. CASE ~Success(u)
    BY <1>3, <1>q, <2>1, <2>2, <2>3 DEF PageTask
  <2>4. CASE Success(u)
    <3>1. Choose(FilesOf(u)) /\ reply[u] = "ok" /\ answers'[u] # answers[u]
      BY <1>3, <2>4 DEF PageTask, Success
    <3>2. ASSUME NEW f \in Pictures
          PROVE  elements'[f] <= elements[f] \/ More(f)
      <4>1. f \in FilesOf(u) \/ elements'[f] <= elements[f]
        BY <1>e, <3>1, ChooseShows
      <4>2. ASSUME f \in FilesOf(u)
            PROVE  MayShow(f) = 0
        <5>1. f[1] = u
          BY <4>2 DEF FilesOf
        <5>. QED  BY <2>2, <3>1, <5>1 DEF MayShow
      <4>. QED  BY <3>1, <4>1, <4>2
    <3>. HIDE DEF More
    <3>. QED  BY <2>1, <2>2, <3>2
  <2>. QED  BY <2>3, <2>4
<1>4. ASSUME NEW d \in Removals, RemoveAnswered(d) \/ RemoveErrs(d)
      PROVE  Goal
  <2>1. UNCHANGED <<early, listing, listed, answers>>
    BY <1>4 DEF RemoveAnswered, RemoveErrs, formVars
  <2>2. ASSUME NEW f \in Pictures
        PROVE  elements'[f] <= elements[f]
    BY <1>4, <1>e DEF RemoveAnswered, RemoveErrs
  <2>. QED  BY <2>1, <2>2
<1>5. ASSUME NEW u \in Submissions, ClickUpload(u)
      PROVE  Goal
  <2>1. AjaxSubmit(u) /\ UNCHANGED <<elements, listing, listed>> /\ early \subseteq early'
    BY <1>5 DEF ClickUpload
  <2>2. answers' = answers
    BY <2>1, SubmitMoves DEF AlbumInv
  <2>. QED  BY <1>q, <2>1, <2>2
<1>6. ASSUME \/ \E s \in Selections : ChooseFiles(s)
             \/ ClickUploadNothing \/ UseMenu
             \/ \E d \in Removals, f \in Pictures : ClickRemove(d, f)
             \/ \E v \in Views, f \in Pictures : LoadPicture(v, f)
             \/ Server \/ Others \/ UNCHANGED albumVars
             \/ \E u \in Submissions : Receive(u)
      PROVE  UNCHANGED <<early, listing, listed, elements, answers>>
  BY <1>6 DEF ChooseFiles, ClickUploadNothing, UseMenu, ClickRemove, LoadPicture,
              Others, RemoveElsewhere, Server, Receive, Respond, albumVars, formVars, pageVars
<1>7. CASE UNCHANGED <<early, listing, listed, elements, answers>>
  BY <1>7, <1>q
<1>. QED
  BY <1>1, <1>2, <1>3, <1>4, <1>5, <1>6, <1>7 DEF AlbumNext, User, Browser

LEMMA RecordedStep ==
  ASSUME StoreAssumption, FormAssumption, PageAssumption, AlbumInv, OnceInv, RecordedInv,
         [AlbumNext]_albumVars
  PROVE  RecordedInv'
<1>1. [Next]_vars /\ TypeOK /\ AlbumInv'
  BY AlbumStep DEF AlbumInv
<1>2. Pictures' = Pictures
  BY DEF Pictures, FilesOf
<1>3. ASSUME NEW f \in Pictures, elements'[f] > 0 \/ f \in listed'
      PROVE  f \in infos \/ TakenAway(f)
  <2>1. CASE f \in listed'
    BY <2>1, ItemsAdded DEF RecordedInv
  <2>2. CASE elements'[f] > 0 /\ elements'[f] <= elements[f]
    <3>1. elements[f] \in Nat /\ elements'[f] \in Nat
      BY <1>1, <1>2 DEF AlbumInv
    <3>2. elements[f] > 0
      BY <2>2, <3>1
    <3>. QED  BY <3>2 DEF RecordedInv
  <2>3. ASSUME NEW u \in Submissions, reply[u] = "ok", f \in FilesOf(u)
        PROVE  f \in infos \/ TakenAway(f)
    BY <2>3, SuccessIsRecorded DEF AlbumInv
  <2>4. CASE f \in listed
    BY <2>4 DEF RecordedInv
  <2>. QED  BY <1>3, <2>1, <2>2, <2>3, <2>4, ItemsAdded
<1>4. ASSUME NEW f \in Pictures, f \in infos \/ TakenAway(f)
      PROVE  f \in infos' \/ TakenAway(f)'
  BY <1>1, <1>4, RecordStays, TakenStays
<1>. QED  BY <1>2, <1>3, <1>4 DEF RecordedInv

(* What the page is told of a removal, and what becomes of its item.       *)
LEMMA TellStep ==
  ASSUME PageAssumption, StoreAssumption, AlbumInv, [AlbumNext]_albumVars,
         NEW d \in Removals, told'[d] # told[d]
  PROVE  /\ d \in visit.clicks /\ remove[d] = "done" /\ removed' = removed /\ wanted' = wanted
         /\ told'[d] = "answer" /\ removed[d] = "ok" =>
              \A f \in Pictures : wanted[d] = f /\ elements[f] > 0 => elements'[f] = elements[f] - 1
<1>. DEFINE Goal == /\ d \in visit.clicks /\ remove[d] = "done" /\ removed' = removed /\ wanted' = wanted
                    /\ told'[d] = "answer" /\ removed[d] = "ok" =>
                         \A f \in Pictures : wanted[d] = f /\ elements[f] > 0
                                               => elements'[f] = elements[f] - 1
<1>a. elements \in [Pictures -> Nat] /\ told \in [Removals -> {"no", "answer", "error"}]
  BY DEF AlbumInv
<1>1. ASSUME NEW e \in Removals, RemoveAnswered(e)
      PROVE  Goal
  <2>1. /\ e \in visit.clicks /\ remove[e] = "done" /\ told' = [told EXCEPT ![e] = "answer"]
        /\ removed' = removed /\ wanted' = wanted
        /\ IF removed[e] = "ok" /\ elements[wanted[e]] > 0
             THEN elements' = [elements EXCEPT ![wanted[e]] = @ - 1]
             ELSE UNCHANGED elements
    BY <1>1 DEF RemoveAnswered, store, vars, removals
  <2>2. e = d
    BY <1>a, <2>1
  <2>3. ASSUME NEW f \in Pictures, removed[d] = "ok", wanted[d] = f, elements[f] > 0
        PROVE  elements'[f] = elements[f] - 1
    BY <1>a, <2>1, <2>2, <2>3
  <2>. QED  BY <2>1, <2>2, <2>3
<1>2. ASSUME NEW e \in Removals, RemoveErrs(e)
      PROVE  Goal
  <2>1. /\ e \in visit.clicks /\ remove[e] = "done" /\ told' = [told EXCEPT ![e] = "error"]
        /\ removed' = removed /\ wanted' = wanted
    BY <1>2 DEF RemoveErrs, store, vars, removals
  <2>2. e = d /\ told'[d] = "error"
    BY <1>a, <2>1
  <2>. QED  BY <2>1, <2>2
<1>3. ASSUME \/ \E s \in Selections : ChooseFiles(s)
             \/ ClickUploadNothing \/ UseMenu \/ ReadListing \/ ShowListing \/ ListingFails
             \/ \E e \in Removals, f \in Pictures : ClickRemove(e, f)
             \/ \E u \in Submissions : ClickUpload(u) \/ Receive(u) \/ PageTask(u)
             \/ \E v \in Views, f \in Pictures : LoadPicture(v, f)
             \/ Server \/ Others \/ UNCHANGED albumVars
      PROVE  told' = told
  BY <1>3 DEF ChooseFiles, ClickUploadNothing, UseMenu, ReadListing, ShowListing, ListingFails,
              ClickRemove, ClickUpload, Receive, PageTask, LoadPicture, Server, Others,
              RemoveElsewhere, albumVars, pageVars
<1>. QED  BY <1>1, <1>2, <1>3 DEF AlbumNext, User, Browser

LEMMA GoneStep ==
  ASSUME StoreAssumption, FormAssumption, PageAssumption, AlbumInv, OnceInv, RemovalInv, GoneInv,
         [AlbumNext]_albumVars
  PROVE  GoneInv'
<1>1. [Next]_vars /\ TypeOK /\ AlbumInv' /\ Pictures' = Pictures
  BY AlbumStep DEF AlbumInv, Pictures, FilesOf
<1>2. /\ visit' = visit /\ visit.clicks \subseteq Removals
      /\ \A f \in Pictures : elements[f] \in Nat /\ elements'[f] \in Nat
  BY <1>1, ElementsKept DEF PageAssumption, AlbumInv
<1>3. early \subseteq early' /\ \A f \in Pictures : MayShow(f) = 1 => MayShow(f)' = 1
  BY ItemsAdded DEF MayShow
<1>4. ASSUME NEW d \in Removals, told'[d] # "no"
      PROVE  d \in visit'.clicks /\ remove'[d] = "done"
  <2>1. d \in visit.clicks /\ remove[d] = "done"
    BY <1>4, TellStep DEF GoneInv
  <2>. QED  BY <1>1, <1>2, <2>1, DoneRemovalStays
<1>5. ASSUME NEW d \in visit.clicks, NEW f \in Pictures, remove'[d] # "idle", wanted'[d] = f
      PROVE  f[1] \in early' \/ MayShow(f)' = 1
  <2>1. CASE remove[d] # "idle"
    <3>1. wanted[d] = f
      BY <1>1, <1>2, <1>5, <2>1, RemovalsKept DEF AlbumInv
    <3>. QED  BY <1>3, <2>1, <3>1 DEF GoneInv
  <2>2. CASE remove[d] = "idle"
    <3>1. elements[f] > 0
      BY <1>5, <2>2, ClickBegins
    <3>2. f[1] \in early \/ elements[f] <= MayShow(f)
      BY DEF OnceInv
    <3>3. MayShow(f) \in {0, 1}
      BY DEF MayShow
    <3>4. f[1] \in early \/ MayShow(f) = 1
      BY <1>2, <3>1, <3>2, <3>3
    <3>. QED  BY <1>3, <3>4
  <2>. QED  BY <2>1, <2>2
<1>6. ASSUME NEW f \in Pictures, f[1] \notin early', NEW e \in visit.clicks,
             removed'[e] = "ok", told'[e] = "answer", wanted'[e] = f
      PROVE  elements'[f] = 0
  <2>1. f[1] \notin early /\ elements[f] \in Nat /\ elements'[f] \in Nat /\ e \in Removals
    BY <1>2, <1>3, <1>6
  <2>2. CASE told[e] = "answer"
    <3>1. remove[e] = "done"
      BY <2>1, <2>2 DEF GoneInv
    <3>2. removed[e] = "ok" /\ wanted[e] = f
      BY <1>1, <1>6, <2>1, <3>1, DoneRemovalStays
    <3>3. elements[f] = 0
      BY <2>1, <2>2, <3>2 DEF GoneInv, TakenHere
    <3>4. MayShow(f) = 1
      BY <2>1, <3>1, <3>2 DEF GoneInv
    <3>5. elements'[f] <= elements[f]
      BY <2>1, <3>4, ItemsAdded
    <3>. QED  BY <2>1, <3>3, <3>5
  <2>3. CASE told[e] # "answer"
    <3>1. /\ remove[e] = "done" /\ removed[e] = "ok" /\ wanted[e] = f
          /\ elements[f] > 0 => elements'[f] = elements[f] - 1
      BY <1>6, <2>1, <2>3, TellStep
    <3>2. MayShow(f) = 1 /\ elements[f] <= MayShow(f)
      BY <2>1, <3>1 DEF GoneInv, OnceInv
    <3>3. elements'[f] <= elements[f]
      BY <2>1, <3>2, ItemsAdded
    <3>. QED  BY <2>1, <3>1, <3>2, <3>3
  <2>. QED  BY <2>2, <2>3
<1>. QED  BY <1>1, <1>2, <1>4, <1>5, <1>6 DEF GoneInv, TakenHere

(* A picture that is gone from the store stays on the page only if no      *)
(* removal of it was answered here with success, or its upload began       *)
(* before the listing was shown.                                           *)
THEOREM GoneWithCause == AlbumSpec => []GoneIsExplained
<1>. DEFINE Inv == AlbumInv /\ OnceInv /\ RemovalInv /\ RecordedInv /\ GoneInv
<1>1. PageInit => Inv
  <2>1. ASSUME PageInit
        PROVE  OnceInv /\ RemovalInv /\ RecordedInv /\ GoneInv
    BY <2>1, PageAssumption
       DEF PageInit, Init, FormInit, OnceInv, MayShow, RemovalInv, RecordedInv, GoneInv,
           TakenHere, PageAssumption
  <2>. QED  BY <2>1, AlbumStart, StoreAssumption, FormAssumption, PageAssumption
<1>2. Inv /\ [AlbumNext]_albumVars => Inv'
  BY AlbumStep, OnceStep, RemovalStep, RecordedStep, GoneStep,
     StoreAssumption, FormAssumption, PageAssumption
<1>3. ASSUME Inv
      PROVE  GoneIsExplained
  <2>. SUFFICES ASSUME NEW f \in Pictures, elements[f] > 0, f \in blobs \ infos, f[1] \notin early
                PROVE  \E d \in Removals :
                         wanted[d] = f /\ ~(told[d] = "answer" /\ removed[d] = "ok")
    BY DEF GoneIsExplained
  <2>1. PICK d \in Removals : wanted[d] = f
    BY <1>3 DEF RecordedInv, TakenAway
  <2>2. ASSUME told[d] = "answer", removed[d] = "ok"
        PROVE  FALSE
    BY <1>3, <2>1, <2>2 DEF GoneInv, TakenHere
  <2>. QED  BY <2>1, <2>2
<1>. QED  BY <1>1, <1>2, <1>3, PTL DEF AlbumSpec

-----------------------------------------------------------------------------
(* The types that AlbumInv does not speak of.                              *)
FieldsInv ==
  /\ listing \in {"asked", "read", "shown", "failed"}
  /\ hash \in BOOLEAN
  /\ input \in Selections \cup {NoSelection}
  /\ preview \in Selections \cup {NoSelection}
  /\ early \subseteq Submissions

LEMMA FieldsStep ==
  ASSUME FieldsInv, [AlbumNext]_albumVars
  PROVE  FieldsInv'
<1>1. ASSUME NEW s \in Selections, ChooseFiles(s)
      PROVE  FieldsInv'
  BY <1>1 DEF ChooseFiles, FieldsInv
<1>2. ASSUME ClickUploadNothing \/ ReadListing \/ ShowListing \/ ListingFails
      PROVE  FieldsInv'
  BY <1>2 DEF ClickUploadNothing, ReadListing, ShowListing, ListingFails, FieldsInv
<1>3. ASSUME NEW u \in Submissions, ClickUpload(u) \/ PageTask(u)
      PROVE  FieldsInv'
  BY <1>3 DEF ClickUpload, PageTask, FieldsInv
<1>4. ASSUME \/ \E u \in Submissions : Receive(u)
             \/ \E d \in Removals : RemoveAnswered(d) \/ RemoveErrs(d)
             \/ \E d \in Removals, f \in Pictures : ClickRemove(d, f)
             \/ \E v \in Views, f \in Pictures : LoadPicture(v, f)
             \/ UseMenu \/ Server \/ Others \/ UNCHANGED albumVars
      PROVE  UNCHANGED <<listing, hash, input, preview, early>>
  BY <1>4 DEF Receive, RemoveAnswered, RemoveErrs, ClickRemove, LoadPicture, UseMenu, Server,
              Others, RemoveElsewhere, albumVars, pageVars
<1>. QED
  BY <1>1, <1>2, <1>3, <1>4 DEF AlbumNext, User, Browser, FieldsInv

(* The variables of the page keep their types; an answer to a removal      *)
(* takes off no more items than there are.                                 *)
THEOREM PageTypeCorrect == AlbumSpec => []PageTypeOK
<1>1. PageInit => AlbumInv /\ FieldsInv
  <2>1. ASSUME PageInit
        PROVE  FieldsInv
    BY <2>1 DEF PageInit, FieldsInv
  <2>. QED  BY <2>1, AlbumStart, StoreAssumption, FormAssumption, PageAssumption
<1>2. AlbumInv /\ FieldsInv /\ [AlbumNext]_albumVars => AlbumInv' /\ FieldsInv'
  BY AlbumStep, FieldsStep, StoreAssumption, FormAssumption, PageAssumption
<1>3. AlbumInv /\ FieldsInv => PageTypeOK
  BY DEF AlbumInv, FieldsInv, FormInv, PageTypeOK
<1>. QED  BY <1>1, <1>2, <1>3, PTL DEF AlbumSpec

LEMMA PreviewStep ==
  ASSUME PreviewIsInput, [AlbumNext]_albumVars
  PROVE  PreviewIsInput'
<1>1. ASSUME NEW s \in Selections, ChooseFiles(s)
      PROVE  PreviewIsInput'
  BY <1>1 DEF ChooseFiles, PreviewIsInput
<1>2. ASSUME NEW u \in Submissions, PageTask(u)
      PROVE  input' = input /\ preview' \in {preview, NoSelection}
  BY <1>2 DEF PageTask
<1>3. ASSUME \/ ClickUploadNothing \/ ReadListing \/ ShowListing \/ ListingFails
             \/ \E u \in Submissions : ClickUpload(u) \/ Receive(u)
             \/ \E d \in Removals : RemoveAnswered(d) \/ RemoveErrs(d)
             \/ \E d \in Removals, f \in Pictures : ClickRemove(d, f)
             \/ \E v \in Views, f \in Pictures : LoadPicture(v, f)
             \/ UseMenu \/ Server \/ Others \/ UNCHANGED albumVars
      PROVE  UNCHANGED <<input, preview>>
  BY <1>3 DEF ClickUploadNothing, ReadListing, ShowListing, ListingFails, ClickUpload, Receive,
              RemoveAnswered, RemoveErrs, ClickRemove, LoadPicture, UseMenu, Server, Others,
              RemoveElsewhere, albumVars, pageVars
<1>. QED
  BY <1>1, <1>2, <1>3 DEF AlbumNext, User, Browser, PreviewIsInput

(* The thumbnails in view are those of the files that a click on upload    *)
(* would send, whatever uploads are answered in between.                   *)
THEOREM PreviewShowsInput == AlbumSpec => []PreviewIsInput
<1>1. PageInit => PreviewIsInput
  BY DEF PageInit, PreviewIsInput
<1>2. PreviewIsInput /\ [AlbumNext]_albumVars => PreviewIsInput'
  BY PreviewStep
<1>. QED  BY <1>1, <1>2, PTL DEF AlbumSpec

-----------------------------------------------------------------------------
(* The menu is made once, with the listing, before anything can open it:   *)
(* making it again would hide a menu and leave its handler behind.         *)
MenuInv ==
  /\ MenuCanClose
  /\ menu = "none" \/ listing = "shown"

LEMMA MenuStep ==
  ASSUME MenuInv, [AlbumNext]_albumVars
  PROVE  MenuInv'
<1>1. CASE ShowListing
  <2>1. menu = "none" /\ handlers = 0
    BY <1>1 DEF ShowListing, MenuInv, MenuCanClose
  <2>. QED  BY <1>1, <2>1 DEF ShowListing, MakeMenu, MenuInv, MenuCanClose
<1>2. ASSUME OpenMenu \/ CloseMenu \/ ClickReachesMenu, listing' = listing
      PROVE  MenuInv'
  BY <1>2 DEF OpenMenu, CloseMenu, ClickReachesMenu, HideMenu, menuVars, MenuInv, MenuCanClose
<1>3. ASSUME ReadListing \/ ListingFails
      PROVE  MenuInv'
  BY <1>3 DEF ReadListing, ListingFails, menuVars, MenuInv, MenuCanClose
<1>4. ASSUME \/ \E s \in Selections : ChooseFiles(s)
             \/ ClickUploadNothing \/ UseMenu
             \/ \E u \in Submissions : ClickUpload(u)
             \/ \E d \in Removals, f \in Pictures : ClickRemove(d, f)
      PROVE  (OpenMenu \/ CloseMenu \/ ClickReachesMenu) /\ listing' = listing
  BY <1>4 DEF ChooseFiles, ClickUploadNothing, UseMenu, ClickUpload, ClickRemove, pageVars
<1>5. ASSUME \/ \E u \in Submissions : Receive(u) \/ PageTask(u)
             \/ \E d \in Removals : RemoveAnswered(d) \/ RemoveErrs(d)
             \/ \E v \in Views, f \in Pictures : LoadPicture(v, f)
             \/ Server \/ Others \/ UNCHANGED albumVars
      PROVE  UNCHANGED <<menu, handlers, listing>>
  BY <1>5 DEF Receive, PageTask, RemoveAnswered, RemoveErrs, LoadPicture, Server, Others,
              RemoveElsewhere, albumVars, pageVars, menuVars
<1>. QED
  BY <1>1, <1>2, <1>3, <1>4, <1>5 DEF AlbumNext, User, Browser, MenuInv, MenuCanClose

(* A menu in view has exactly one handler that a click can close it with,  *)
(* and a menu out of view leaves none behind.                              *)
THEOREM MenuCloses == AlbumSpec => []MenuCanClose
<1>1. PageInit => MenuInv
  BY DEF PageInit, MenuInit, MenuInv, MenuCanClose
<1>2. MenuInv /\ [AlbumNext]_albumVars => MenuInv'
  BY MenuStep
<1>3. MenuInv => MenuCanClose
  BY DEF MenuInv
<1>. QED  BY <1>1, <1>2, <1>3, PTL DEF AlbumSpec
=============================================================================
