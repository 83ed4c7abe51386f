------------------------------ MODULE PitPages ------------------------------
(***************************************************************************)
(* The pages about PITs: the list with its deletions, the form of a new PIT *)
(* and the form of an existing one.  Only what a page loads is cancelled    *)
(* when the page is left; what it writes goes on, and its answer still      *)
(* brings the tab back to the list.                                         *)
(***************************************************************************)
EXTENDS PitsApi

VARIABLES
    page,   \* page[e]: what tab e shows, and the form of that page
    used    \* ids given to PITs so far, the dummy's included

Page == [at : {"list", "create", "edit"}, pit : Pits \cup {None},
         form : Form]
ListPage == [at |-> "list", pit |-> None, form |-> NoForm]
FormPage(at, p) == [ListPage EXCEPT !.at = at, !.pit = p]

PitPagesTypeOK ==
    /\ page \in [Editors -> Page]
    /\ used \subseteq Pits

PitPagesInit ==
    /\ page = [e \in Editors |-> ListPage]
    /\ used = {Dummy}

-----------------------------------------------------------------------------
Goto(e, pg) == page' = [page EXCEPT ![e] = pg]
Left(e) ==
    {c \in calls : c.from # e} \cup
    {[c EXCEPT !.open = FALSE] : c \in {d \in calls : d.from = e /\ d.kind # "get"}}
Busy(e, kind) == \E c \in calls : c.from = e /\ c.kind = kind /\ c.open

(* A call that changes something.                                           *)
Make(c) ==
    /\ made < MaxCalls
    /\ made' = made + 1
    /\ calls' = calls \cup {c}

OpenEdit(e, p) ==
    /\ page[e].at = "list"
    /\ p \in used
    /\ Goto(e, FormPage("edit", p))
    /\ calls' = Left(e) \cup {PitCall(e, "get", p, NoForm, "find")}
    /\ UNCHANGED <<made, used>>

OpenCreate(e) ==
    /\ page[e].at = "list"
    /\ Goto(e, FormPage("create", None))
    /\ calls' = Left(e)
    /\ UNCHANGED <<made, used>>

(* The user fills in the form.                                              *)
Type(e) ==
    /\ page[e].at # "list"
    /\ \E code \in Codes, note \in Notes \cup {None} :
          Goto(e, [page[e] EXCEPT !.form = [code |-> code, note |-> note]])
    /\ UNCHANGED <<calls, made, used>>

(* Mutant: the form is sent before it is valid.                             *)
SubmitAnyForm(e) == ~Busy(e, "update") /\ ~Busy(e, "create")

(* onSubmit returns at once while a save runs or the form is invalid.       *)
CanSubmit(e) ==
    page[e].form.code # None /\ ~Busy(e, "update") /\ ~Busy(e, "create")

SubmitEdit(e) ==
    /\ page[e].at = "edit"
    /\ CanSubmit(e)
    /\ Make(PitCall(e, "update", page[e].pit, page[e].form, "find"))
    /\ UNCHANGED <<page, used>>

SubmitCreate(e) ==
    /\ page[e].at = "create"
    /\ CanSubmit(e)
    /\ Pits \ used # {}
    /\ LET p == CHOOSE p \in Pits \ used : TRUE
       IN /\ used' = used \cup {p}
          /\ Make([PitCall(e, "create", p, page[e].form, "insert")
                      EXCEPT !.entity = NewRow(page[e].form)])
    /\ UNCHANGED page

(* EditPit.uploadTests.                                                     *)
ClickUpload(e) ==
    /\ page[e].at = "edit"
    /\ ~Busy(e, "upload")
    /\ Make(PitCall(e, "upload", page[e].pit, NoForm, "find"))
    /\ UNCHANGED <<page, used>>

(* The list's Delete, confirmed in its dialog.                              *)
ClickDeletePit(e, p) ==
    /\ page[e].at = "list"
    /\ p \in used
    /\ ~Busy(e, "delete")
    /\ Make(PitCall(e, "delete", p, NoForm, "find"))
    /\ UNCHANGED <<page, used>>

(* cancel, or a link of the navigation bar.                                 *)
LeavePage(e) ==
    /\ page[e].at # "list"
    /\ Goto(e, ListPage)
    /\ calls' = Left(e)
    /\ UNCHANGED <<made, used>>

-----------------------------------------------------------------------------
Drop(c) == calls' = calls \ {c}
GoToList(c) ==
    IF page[c.from].at = "list"
       THEN Drop(c) /\ UNCHANGED page
       ELSE Goto(c.from, ListPage) /\ calls' = Left(c.from) \ {c, [c EXCEPT !.open = FALSE]}

(* loadPit: the form takes the row's values, whatever was typed meanwhile.  *)
PitLoaded(c) ==
    /\ c.kind = "get"
    /\ IF c.step = "ok"
          THEN /\ Goto(c.from, [page[c.from] EXCEPT
                                   !.form = [code |-> c.entity.code, note |-> c.entity.note]])
               /\ Drop(c)
          ELSE GoToList(c)
    /\ UNCHANGED made

PitUpdated(c) ==
    /\ c.kind = "update"
    /\ IF c.step = "ok" THEN GoToList(c)
                        ELSE Drop(c) /\ UNCHANGED page
    /\ UNCHANGED made

(* The answer to a create: tests follow, if a file was chosen.              *)
PitCreated(c) ==
    /\ c.kind = "create"
    /\ CASE c.step = "failed" -> Drop(c) /\ UNCHANGED <<page, made>>
         [] OTHER ->
              \/ GoToList(c) /\ UNCHANGED made
              \/ /\ made < MaxCalls
                 /\ made' = made + 1
                 /\ calls' = (calls \ {c}) \cup
                       {[PitCall(c.from, "tests", c.pit, NoForm, "find")
                            EXCEPT !.open = c.open]}
                 /\ UNCHANGED page

(* The answer to an upload: an edit page loads the PIT again, if it is      *)
(* still shown; a create page is left either way.                           *)
TestsUploaded(c) ==
    /\ c.kind \in {"upload", "tests"}
    /\ CASE c.kind = "tests" -> GoToList(c)
         [] c.kind = "upload" /\ c.open /\ c.step = "ok" ->
              /\ calls' = (calls \ {c}) \cup {PitCall(c.from, "get", c.pit, NoForm, "find")}
              /\ UNCHANGED page
         [] OTHER -> Drop(c) /\ UNCHANGED page
    /\ UNCHANGED made

PitDeleted(c) == c.kind = "delete" /\ Drop(c) /\ UNCHANGED <<page, made>>

ReceivePit(c) ==
    /\ c.step \in {"ok", "failed"}
    /\ \/ PitLoaded(c) \/ PitUpdated(c) \/ PitCreated(c)
       \/ TestsUploaded(c) \/ PitDeleted(c)
    /\ UNCHANGED used

PitClick(e) ==
    \/ \E p \in Pits : OpenEdit(e, p) \/ ClickDeletePit(e, p)
    \/ OpenCreate(e) \/ Type(e) \/ SubmitEdit(e) \/ SubmitCreate(e)
    \/ ClickUpload(e) \/ LeavePage(e)
=============================================================================
