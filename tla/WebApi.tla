------------------------------- MODULE WebApi -------------------------------
(***************************************************************************)
(* The API as the web application sees it: the guard of its routes, the     *)
(* login, and the requests on submissions.  A request is served in one      *)
(* step, the insertion of a new user aside; SubmissionsApi has the steps of *)
(* a confirm, Platform what becomes of a row.                               *)
(***************************************************************************)
EXTENDS WebSession

VARIABLE table   \* table[w]: the submission in row w

SubmissionRow == [owner : Users, upload : Upload, status : Statuses \cup {"gone"}]
Empty == [owner |-> None, upload |-> None, status |-> "none"]

Listed(u) == {w \in Rows : table[w].owner = u /\ table[w].status \in Statuses}

ApiTypeOK == table \in [Rows -> SubmissionRow \cup {Empty}]

ApiInit == table = [w \in Rows |-> Empty]

-----------------------------------------------------------------------------

(* The answer to a page that was left goes nowhere.  What token a request   *)
(* carried is forgotten unless it is the cause of a 401.                    *)
Answer(c, answer, got) ==
    calls' = (calls \ {c}) \cup
        (IF c.tab = None THEN {}
         ELSE {[c EXCEPT !.answer = answer, !.got = got,
                         !.token = IF answer = "expired" THEN @ ELSE None]})

(* The network loses the request or its answer, or a service fails.         *)
Fails(c) == "net" \in Faults /\ Answer(c, "failed", {})

FreshToken == CHOOSE n \in Tokens : owner[n] = None

(* The verifies of a user that nobody waits for: once the user is known,    *)
(* they change nothing.                                                     *)
Idle(u) == {c \in calls : c.op = "verify" /\ c.tab = None /\ c.about = u}

(* A session for the page that waits; a token nobody receives is left out.  *)
Issue(c) ==
    IF c.tab = None
    THEN calls' = calls \ Idle(c.about) /\ UNCHANGED owner
    ELSE /\ \E n \in Tokens : owner[n] = None
         /\ owner' = [owner EXCEPT ![FreshToken] = c.about]
         /\ calls' = (calls \ ({c} \cup Idle(c.about)))
                        \cup {[c EXCEPT !.answer = "ok", !.got = {FreshToken}]}

(* Mutant: the new user is not saved before the answer.                     *)
VerifyLinkAnswersFirst(c) ==
    \/ Issue(c) /\ UNCHANGED known
    \/ Answer(c, "expired", {}) /\ UNCHANGED <<owner, known>>
    \/ Fails(c) /\ UNCHANGED <<owner, known>>

(* GET /auth/verify with findOrCreateByEmail: the lookup of the user, then, *)
(* for a new one, the INSERT, which fails when the same link was verified   *)
(* in between.  An old link is answered with a 401.                         *)
VerifyLink(c) ==
    \/ /\ c.got = {}
       /\ \/ c.about \in known /\ Issue(c)
          \/ /\ c.about \notin known
             /\ calls' = (calls \ {c}) \cup {[c EXCEPT !.got = {c.about}]}
             /\ UNCHANGED owner
       /\ UNCHANGED known
    \/ /\ c.got # {}
       /\ c.about \notin known
       /\ known' = known \cup {c.about}
       /\ Issue(c) \/ (Fails(c) /\ UNCHANGED owner)
    \/ c.got # {} /\ c.about \in known /\ Answer(c, "failed", {}) /\ UNCHANGED <<owner, known>>
    \/ c.got = {} /\ Answer(c, "expired", {}) /\ UNCHANGED <<owner, known>>
    \/ Fails(c) /\ UNCHANGED <<owner, known>>

(* AuthGuard: a missing, expired or unreadable token and a lookup of the    *)
(* user that fails are one and the same 401.                                *)
Guard(c) ==
    IF c.token = None \/ c.token \in dead
       THEN Answer(c, "expired", {})
       ELSE "guard" \in Faults /\ Answer(c, "nouser", {})

Passes(c) == c.token # None /\ c.token \notin dead
Principal(c) == owner[c.token]

(* submissions/feedback/:id and submissions/mine.                           *)
Feedback(c) ==
    IF c.about \in Listed(Principal(c))
       THEN Answer(c, "ok", {table[c.about].status})
       ELSE Answer(c, "failed", {})

Read(c) ==
    /\ \/ c.op \in {"load", "poll"} /\ Feedback(c)
       \/ c.op = "list" /\ Answer(c, "ok", Listed(Principal(c)))
       \/ c.op = "request" /\ Answer(c, "ok", {Principal(c)})
    /\ UNCHANGED table

(* A row the table does not hold yet; without one the request waits.       *)
Free == {w \in Rows : table[w] = Empty}

Insert(c) ==
    /\ Free # {}
    /\ LET w == CHOOSE w \in Free : TRUE
       IN /\ table' = [table EXCEPT ![w] = [owner |-> Principal(c), upload |-> c.about,
                                             status |-> "PENDING"]]
          /\ Answer(c, "ok", {w}) \/ Fails(c)

(* Mutant: the key is not compared with the user.                           *)
ConfirmAnyKey(c) ==
    Insert(c)

(* confirmUpload: the key must be the user's own.  (Every upload has a key  *)
(* of its own, so that its row does not exist yet.)                         *)
Confirm(c) ==
    IF c.about.by # Principal(c)
       THEN Answer(c, "failed", {}) /\ UNCHANGED table
       ELSE Insert(c)

(* deleteSubmission, of a row that exists and is the user's own.            *)
Delete(c) ==
    IF c.about \in Listed(Principal(c))
       THEN /\ table' = [table EXCEPT ![c.about].status = "gone"]
            /\ Answer(c, "ok", {}) \/ Fails(c)
       ELSE Answer(c, "failed", {}) /\ UNCHANGED table

Serve(c) ==
    /\ c.answer = "none"
    /\ \/ c.op = "verify" /\ VerifyLink(c) /\ UNCHANGED table
       \/ /\ c.op \notin {"verify", "put", "pause"}
          /\ \/ (Guard(c) \/ Fails(c)) /\ UNCHANGED table
             \/ Passes(c) /\ Read(c)
             \/ Passes(c) /\ c.op = "confirm" /\ Confirm(c)
             \/ Passes(c) /\ c.op = "delete" /\ Delete(c)
          /\ UNCHANGED <<owner, known>>
    /\ UNCHANGED <<sessionVars, at, view, dead>>

(* A row leaves PENDING.                                                    *)
Graded(w) ==
    /\ table[w].status = "PENDING"
    /\ table' = [table EXCEPT ![w].status = "final"]
    /\ UNCHANGED <<sessionVars, at, view, calls, authVars>>
=============================================================================
