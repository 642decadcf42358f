------------------------------- MODULE MainPage -------------------------------
(***************************************************************************)
(* The main page (main.html with myJs.js and common.js): next to the wall  *)
(* of PhotoWall it asks for the user's categories and lays out one block   *)
(* for each, whose background is the newest picture of the category        *)
(* (getTopNCategoryImage).  All its requests run side by side.             *)
(***************************************************************************)
EXTENDS PhotoWall

CONSTANTS
  CategoryList,   \* the user's categories, in the order getCategorys finds them
  CategoryOf      \* the category that each picture is uploaded to

Categories == {CategoryList[i] : i \in DOMAIN CategoryList}

ASSUME MainAssumption ==
  /\ CategoryOf \in [Files -> Categories]
  /\ "asked" \notin Files

VARIABLES
  cover,      \* the background of each block: "none", "asked" or what it got
  laidOut,    \* whether the blocks are there
  known,      \* history: the pictures that asked covers could show by then
  uncovered   \* history: the covers whose request found no user, or failed

coverVars == <<cover, laidOut, known, uncovered>>
mainVars  == <<vars, coverVars>>

MainInit ==
  /\ Init
  /\ cover = [c \in Categories |-> "none"]
  /\ laidOut = FALSE
  /\ known = {}
  /\ uncovered = {}

(* Wrong on purpose: the category of the request is not put in the query.  *)
TopOfUser(n, c) == Newest(infos, n)

(* Wrong on purpose: the limit is one short.                               *)
TopOfCategoryOneShort(n, c) == Newest({f \in infos : CategoryOf[f] = c}, n - 1)

(* The query of getTopNCategoryImage.                                      *)
TopOfCategory(n, c) == Newest({f \in infos : CategoryOf[f] = c}, n)

(* One round of the loop of computeCategories: a block for category c is   *)
(* appended, the backgrounds of all blocks are cleared, and that of the    *)
(* new block is set.                                                       *)
AppendBlock(c) == [x \in Categories |-> IF x = c THEN "asked" ELSE "none"]

(* Each round clears what the rounds before it set, the last one stays.    *)
LayOut ==
  IF CategoryList = <<>> THEN cover ELSE AppendBlock(CategoryList[Len(CategoryList)])

(* The answer to loadCategory: no block without a user (null is answered), *)
(* or if the request fails.                                                *)
ComputeCategories ==
  /\ ~laidOut
  /\ laidOut' = TRUE
  /\ \/ session /\ cover' = LayOut
     \/ UNCHANGED cover
  /\ known' = {f \in infos : cover'[CategoryOf[f]] = "asked"}
  /\ UNCHANGED <<vars, uncovered>>

(* What getTopNCategoryImage answers to a user, with topN = 1.             *)
CoverOf(c) ==
  LET top == TopOfCategory(1, c) IN IF top = <<>> THEN "empty" ELSE top[1]

(* The browser asks for the background of a block, and may fail to get it  *)
(* like the picture of a slot.                                             *)
FetchCover(c) ==
  /\ cover[c] = "asked"
  /\ \/ /\ session
        /\ cover' = [cover EXCEPT ![c] = CoverOf(c)]
        /\ UNCHANGED uncovered
     \/ /\ ~session
        /\ cover' = [cover EXCEPT ![c] = "empty"]
        /\ uncovered' = uncovered \cup {c}
     \/ /\ cover' = [cover EXCEPT ![c] = "error"]
        /\ uncovered' = uncovered \cup {c}
  /\ UNCHANGED <<vars, laidOut, known>>

MainNext ==
  \/ Next /\ UNCHANGED coverVars
  \/ ComputeCategories
  \/ \E c \in Categories : FetchCover(c)

MainSpec == MainInit /\ [][MainNext]_mainVars

-----------------------------------------------------------------------------
(* A cover belongs to the category of its block, and no picture of that    *)
(* category that was there when the blocks were laid out, and still is, is *)
(* newer: uploads and removals in between do not leave an old cover.       *)
CoverIsNewest ==
  \A c \in Categories : cover[c] \in Files =>
    /\ CategoryOf[cover[c]] = c
    /\ \A f \in known \cap infos : CategoryOf[f] = c => ~Newer(f, cover[c])

(* The block of a category with a cover to ask for stays blank only if all *)
(* the pictures it had were removed before the request, or the request     *)
(* found no user in the session, or failed.                                *)
BlankCoverIsExplained ==
  \A c \in Categories : cover[c] \in {"empty", "error"} =>
    \/ \A f \in known : CategoryOf[f] = c => record[f] = "removed"
    \/ c \in uncovered
=============================================================================
