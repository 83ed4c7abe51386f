------------------------------ MODULE Browser ------------------------------
(***************************************************************************)
(* A browser with several tabs of the web application, and the API.         *)
(***************************************************************************)
EXTENDS WebApi, WebPages

vars == <<sessionVars, at, view, calls, authVars, table, chosen>>

(* Pages, requests and rows are what the application can hold.              *)
TypeOK == SessionTypeOK /\ ApiTypeOK /\ chosen \subseteq Files

Init == SessionInit /\ ApiInit /\ chosen = {}

Next ==
    \/ SessionStep /\ UNCHANGED <<table, chosen>>
    \/ \E t \in Tabs : Click(t) /\ UNCHANGED table
    \/ \E c \in calls : Receive(c) /\ UNCHANGED table
    \/ \E c \in calls : Serve(c) /\ UNCHANGED chosen
    \/ \E w \in Rows : Graded(w) /\ UNCHANGED chosen

Spec == Init /\ [][Next]_vars

-----------------------------------------------------------------------------
(* The stored user is the one the stored token was issued to, whoever       *)
(* logged out, was logged out or logged in before, in whatever tab.         *)
UserMatchesToken == token # None => user = owner[token]

(* Every account with a session has its row in the users table, so that the *)
(* guard never has to create one: also when two verifies of a new account   *)
(* overlap, one of them of a page that was left, and the INSERT of the      *)
(* slower one fails.                                                        *)
SessionsHaveUsers == \A n \in Tokens : owner[n] # None => owner[n] \in known

(* A file that was uploaded to one account's key is never submitted by      *)
(* another, also when the account changes in the middle of the upload.      *)
OwnUploads == \A w \in Rows : table[w] # Empty => table[w].owner = table[w].upload.by

(* A file that was chosen once is submitted at most once.                   *)
OneRowPerChoice ==
    \A v, w \in Rows :
        table[v] # Empty /\ table[w] # Empty
        /\ table[v].upload.file = table[w].upload.file => v = w

(* A submission leaves the list of the dashboard only if it is deleted.     *)
DeletedIsGone ==
    \A t \in Tabs : \A w \in view[t].removed : table[w].status = "gone"

(* A session that the API would still accept ends only by the logout of the *)
(* navigation bar, by a login, or by a 401 that was not its own: of a magic *)
(* link, of an earlier token, or of a lookup that failed.                   *)
LiveSessionKept ==
    [][token # None /\ token \notin dead /\ token' = None =>
          \/ \E t \in Tabs : LogOut(t)
          \/ \E c \in calls \ calls' :
                \/ c.answer = "nouser"
                \/ c.answer = "expired" /\ (c.op = "verify" \/ c.token # token)]_vars

(* A status page that shows a row as waiting keeps polling, unless one of   *)
(* its polls failed, in whatever order ticks, the clicks of Refresh and the *)
(* answers of loads and polls come; also when an answer shows a row as      *)
(* waiting again that an overtaking one had shown final.                    *)
FollowsUntilFinal ==
    \A t \in Tabs :
        view[t].shown = "PENDING" => view[t].stream \in {"on", "broken"}

-----------------------------------------------------------------------------
(* status.ts:106, "Stop polling when status is DONE or ERROR": polling does *)
(* not stop before, whatever a single poll is answered.                     *)
PollsWhilePending ==
    \A t \in Tabs : view[t].shown = "PENDING" => view[t].stream = "on"
=============================================================================
