------------------------------ MODULE WebPages ------------------------------
(***************************************************************************)
(* The pages about submissions: Upload with its chain of three requests,    *)
(* Status with its load and its poll every five seconds, and Home with its  *)
(* list.  Every action receives an answer or is a click or a timer.         *)
(***************************************************************************)
EXTENDS WebSession

VARIABLE chosen   \* the choices of a file made so far

SetView(t, v) == view' = [view EXCEPT ![t] = v]
Done(c) == calls' = calls \ {c}
Then(c, op, about) == calls' = (calls \ {c}) \cup {Request(c.tab, op, about)}

-----------------------------------------------------------------------------
(* Upload *)
Chain(t) == {c \in calls : c.tab = t /\ c.op \in {"request", "put", "confirm", "pause"}}
Uploading(t) == Chain(t) # {}

(* validateAndSelectFile.                                                   *)
SelectFile(t, f) ==
    /\ at[t] = "upload"
    /\ view[t].step = "start"
    /\ ~Uploading(t)
    /\ f \notin chosen
    /\ chosen' = chosen \cup {f}
    /\ SetView(t, [view[t] EXCEPT !.file = f])
    /\ UNCHANGED calls

(* Mutant: a click while an upload runs starts another.                     *)
UploadFileAgain(t) ==
    /\ at[t] = "upload"
    /\ view[t].file # None
    /\ SetView(t, [view[t] EXCEPT !.step = "uploading"])
    /\ calls' = calls \cup {Request(t, "request", [file |-> view[t].file, by |-> None])}

(* uploadFile, its guard and its first request.                             *)
UploadFile(t) ==
    /\ at[t] = "upload"
    /\ view[t].step = "start"
    /\ view[t].file # None
    /\ ~Uploading(t)
    /\ SetView(t, [view[t] EXCEPT !.step = "uploading"])
    /\ calls' = calls \cup {Request(t, "request", [file |-> view[t].file, by |-> None])}

(* The key of the answer is the account's that asked, and the file goes     *)
(* there.                                                                   *)
PutFile(c) ==
    /\ c.op = "request"
    /\ c.answer = "ok"
    /\ \E u \in c.got : Then(c, "put", [c.about EXCEPT !.by = u])
    /\ UNCHANGED view

(* S3 has the file; the confirm carries the token that is stored by now.    *)
ConfirmUpload(c) ==
    /\ c.op = "put"
    /\ Then(c, "confirm", c.about)
    /\ UNCHANGED view

(* The row is known; the page waits a second before it moves on.            *)
Confirmed(c) ==
    /\ c.op = "confirm"
    /\ c.answer = "ok"
    /\ \E w \in c.got :
          SetView(c.tab, [view[c.tab] EXCEPT !.step = "success", !.sub = w])
    /\ Then(c, "pause", None)

UploadFailed(c) ==
    /\ \/ c.op \in {"request", "confirm"} /\ c.answer # "ok"
       \/ c.op = "put" /\ "net" \in Faults
    /\ SetView(c.tab, [view[c.tab] EXCEPT !.step = "error"])
    /\ Then(c, "pause", None)

(* uploadAnother, from either end of an upload.                             *)
UploadAnother(t) ==
    /\ at[t] = "upload"
    /\ view[t].step \in {"success", "error"}
    /\ SetView(t, NewView)
    /\ UNCHANGED calls

(* After the pause: to the status page, unless Upload Another was clicked.  *)
UploadEnds(c) ==
    /\ c.op = "pause"
    /\ IF view[c.tab].sub = None
          THEN Done(c) /\ UNCHANGED <<at, view, back>>
          ELSE /\ Enter(c.tab, view[c.tab].sub)
               /\ back' = [back EXCEPT ![c.tab] = Remember(c.tab, view[c.tab].sub)]

-----------------------------------------------------------------------------
(* Status *)
Loading(t) == \E c \in calls : c.tab = t /\ c.op = "load"

(* loadSubmission's answer: a row that waits starts the poll.               *)
Loaded(c) ==
    /\ c.op = "load"
    /\ Done(c)
    /\ SetView(c.tab,
         IF c.answer = "ok"
         THEN LET status == CHOOSE s \in c.got : TRUE
                  polls == status = "PENDING" /\ ~view[c.tab].refreshing
              IN [view[c.tab] EXCEPT
                    !.shown = status,
                    !.refreshing = @ \/ polls,
                    !.stream = IF polls THEN "on" ELSE @]
         ELSE [view[c.tab] EXCEPT !.step = "error"])

(* retry(), the button of the error card and the Refresh of a submission    *)
(* that is shown: also beside a poll stream, running or broken.             *)
Retry(t) ==
    /\ at[t] \in Rows
    /\ view[t].step = "error" \/ view[t].shown # "none"
    /\ ~Loading(t)
    /\ SetView(t, [view[t] EXCEPT !.step = "start"])
    /\ calls' = calls \cup {Request(t, "load", at[t])}

(* The interval ticks: switchMap drops the poll that is not answered yet.   *)
Tick(t) ==
    /\ view[t].stream = "on"
    /\ calls' = {c \in calls : ~(c.tab = t /\ c.op = "poll")}
                   \cup {Request(t, "poll", at[t])}
    /\ UNCHANGED view

(* Mutant: takeWhile does not pass on the value that ends it.               *)
PolledExclusive(c) ==
    /\ c.op = "poll"
    /\ Done(c)
    /\ SetView(c.tab,
         CASE c.answer # "ok" -> [view[c.tab] EXCEPT !.stream = "broken"]
           [] c.answer = "ok" /\ c.got = {"PENDING"} -> [view[c.tab] EXCEPT !.shown = "PENDING"]
           [] OTHER -> [view[c.tab] EXCEPT !.stream = "off"])

(* A poll's answer.  Its failure ends the stream, and nothing else.         *)
Polled(c) ==
    /\ c.op = "poll"
    /\ Done(c)
    /\ SetView(c.tab,
         CASE c.answer # "ok" -> [view[c.tab] EXCEPT !.stream = "broken"]
           [] c.answer = "ok" /\ c.got = {"PENDING"} -> [view[c.tab] EXCEPT !.shown = "PENDING"]
           [] OTHER -> [view[c.tab] EXCEPT !.shown = "final", !.stream = "off",
                                           !.refreshing = FALSE])

-----------------------------------------------------------------------------
(* Home *)

(* Either list falls back to an empty one.                                  *)
ListLoaded(c) ==
    /\ c.op = "list"
    /\ Done(c)
    /\ SetView(c.tab, [view[c.tab] EXCEPT !.seen = c.got])

ClickDelete(t, w) ==
    /\ w \in view[t].seen \ view[t].removed
    /\ \A c \in calls : ~(c.tab = t /\ c.op = "delete" /\ c.about = w)
    /\ calls' = calls \cup {Request(t, "delete", w)}
    /\ UNCHANGED view

(* Mutant: the row leaves the list whatever the answer.                     *)
DeletedAnyway(c) ==
    /\ c.op = "delete"
    /\ Done(c)
    /\ SetView(c.tab, [view[c.tab] EXCEPT !.removed = @ \cup {c.about}])

Deleted(c) ==
    /\ c.op = "delete"
    /\ Done(c)
    /\ IF c.answer = "ok"
          THEN SetView(c.tab, [view[c.tab] EXCEPT !.removed = @ \cup {c.about}])
          ELSE UNCHANGED view

-----------------------------------------------------------------------------
Click(t) ==
    /\ \/ \E f \in Files : SelectFile(t, f)
       \/ /\ \/ UploadFile(t)
             \/ UploadAnother(t)
             \/ Retry(t)
             \/ Tick(t)
             \/ \E w \in Rows : ClickDelete(t, w)
          /\ UNCHANGED chosen
    /\ UNCHANGED <<sessionVars, at, authVars>>

(* Mutant: any failure ends the session, a 403 or a 404 too.                *)
AnyFailure == {"expired", "nouser", "failed"}
Unauthorized == {"expired", "nouser"}

(* The component's part of an answer that is not a 401.                     *)
Handled(c) ==
    \/ /\ \/ PutFile(c)
          \/ ConfirmUpload(c)
          \/ Confirmed(c)
          \/ UploadFailed(c)
          \/ Loaded(c)
          \/ Polled(c)
          \/ ListLoaded(c)
          \/ Deleted(c)
       /\ UNCHANGED <<sessionVars, at>>
    \/ c.op = "verify" /\ c.answer = "ok" /\ Verified(c.tab, c)
    \/ c.op = "verify" /\ c.answer = "failed" /\ Done(c)
          /\ UNCHANGED <<sessionVars, at, view>>
    \/ UploadEnds(c) /\ UNCHANGED <<token, user>>

Receive(c) ==
    /\ c.tab # None
    /\ c.answer # "none" \/ c.op \in {"put", "pause"}
    /\ IF c.answer \in Unauthorized THEN SignOut(c.tab) ELSE Handled(c)
    /\ UNCHANGED <<authVars, chosen>>
=============================================================================
