----------------------------- MODULE WebSession -----------------------------
(***************************************************************************)
(* The web application's session: the token and the user it keeps in        *)
(* localStorage, shared by all tabs of a browser; in every tab the page it  *)
(* shows, the return address it keeps in sessionStorage and the requests it *)
(* waits for.  A route or login change is one step: Angular destroys the    *)
(* page that is left, and with it what the page waits for.                  *)
(***************************************************************************)
EXTENDS FiniteSets

CONSTANTS
    Tabs, Users,
    Tokens,   \* session tokens the API may issue
    Rows,     \* rows of the submissions table
    Files,    \* choices of a file in the upload page
    None,     \* no token, user, row, file, tab or address
    Opens,    \* Opens[t]: the pages whose address is typed in tab t
    Faults    \* what may fail, out of FaultKinds

FaultKinds == {"net",     \* a request fails, or its answer is lost
               "guard"}   \* the guard cannot look up the user

ASSUME WebAssumption ==
    /\ Faults \subseteq FaultKinds
    /\ None \notin Tabs \cup Users \cup Tokens \cup Rows \cup Files
    /\ (Rows \cup {None}) \cap {"login", "verify", "home", "upload", "nowhere"} = {}

VARIABLES
    token, user,   \* localStorage
    at,            \* at[t]: the page of tab t; a status page is its row
    back,          \* back[t]: the returnUrl in the sessionStorage of tab t
    view,          \* view[t]: the signals of the component of that page
    calls,         \* the requests the tabs wait for
    owner, dead,   \* the users of the issued tokens; the expired ones
    known          \* users in the users table

sessionVars == <<token, user, back>>
authVars == <<owner, dead, known>>

Protected == {"home", "upload"} \cup Rows
Pages == {"login", "verify"} \cup Protected

Statuses == {"PENDING", "final"}
Ops == {"verify", "list", "delete", "request", "put", "confirm", "pause",
        "load", "poll"}

(* What the pages tell apart: a 401, of two causes, and any other failure.  *)
Answers == {"none", "ok", "expired", "nouser", "failed"}

(* A request carries the token stored when it is made.                      *)
Request(t, op, about) ==
    [tab |-> t, op |-> op, about |-> about, token |-> token,
     answer |-> "none", got |-> {}]

NewView == [step |-> "start", shown |-> "none", refreshing |-> FALSE,
            stream |-> "off", file |-> None, sub |-> None,
            seen |-> {}, removed |-> {}]

View == [step : {"start", "uploading", "success", "error"},
         shown : {"none"} \cup Statuses,
         refreshing : BOOLEAN,
         stream : {"off", "on", "broken"},
         file : Files \cup {None}, sub : Rows \cup {None},
         seen : SUBSET Rows, removed : SUBSET Rows]

Upload == [file : Files, by : Users \cup {None}]

Requests ==
    [tab : Tabs \cup {None}, op : Ops,
     about : Users \cup Rows \cup {None} \cup Upload,
     token : Tokens \cup {None}, answer : Answers,
     got : SUBSET (Tokens \cup Rows \cup Users \cup Statuses)]

SessionTypeOK ==
    /\ token \in Tokens \cup {None}
    /\ user \in Users \cup {None}
    /\ at \in [Tabs -> Pages]
    /\ back \in [Tabs -> Protected \cup {None, "nowhere"}]
    /\ view \in [Tabs -> View]
    /\ calls \subseteq Requests
    /\ owner \in [Tokens -> Users \cup {None}]
    /\ dead \subseteq Tokens
    /\ known \subseteq Users

SessionInit ==
    /\ token = None /\ user = None
    /\ at = [t \in Tabs |-> "login"]
    /\ back = [t \in Tabs |-> None]
    /\ view = [t \in Tabs |-> NewView]
    /\ calls = {}
    /\ owner = [n \in Tokens |-> None]
    /\ dead = {} /\ known = {}

-----------------------------------------------------------------------------
(* isAuthenticated: the token is there and its exp has not passed.          *)
Authenticated == token # None /\ token \notin dead

(* What ngOnInit of a page asks the API for.                                *)
Opening(t, page) ==
    CASE page = "home" -> {Request(t, "list", None)}
      [] page \in Rows -> {Request(t, "load", page)}
      [] OTHER -> {}

(* Requests of a page that is left are dropped; the API may still serve     *)
(* those that change something: a verify inserts a user it does not know.   *)
Abandoned(t) ==
    {c \in calls : c.tab # t} \cup
    {[c EXCEPT !.tab = None] :
        c \in {d \in calls : /\ d.tab = t /\ d.answer = "none"
                             /\ \/ d.op \in {"confirm", "delete"}
                                \/ d.op = "verify" /\ d.about \notin known}}

Show(t, page) ==
    /\ at' = [at EXCEPT ![t] = page]
    /\ view' = [view EXCEPT ![t] = NewView]
    /\ calls' = Abandoned(t) \cup Opening(t, page)

(* authGuard: the login page keeps the address it was redirected from.      *)
Enter(t, page) ==
    IF page \notin Protected \/ Authenticated
       THEN Show(t, page)
       ELSE Show(t, "login")

Remember(t, page) ==
    IF page \notin Protected \/ Authenticated
       THEN back[t]
       ELSE page

(* The user types an address, or follows a link of the page.                *)
Visit(t, page) ==
    /\ page \in Opens[t]
    /\ Enter(t, page)
    /\ back' = [back EXCEPT ![t] = Remember(t, page)]
    /\ UNCHANGED <<token, user, authVars>>

(* The user opens, in tab t, a magic link the login page asked for.  (What  *)
(* token the request carries is the same to the API; Tokens bounds the      *)
(* logins.)                                                                 *)
FollowLink(t, u) ==
    /\ "verify" \in Opens[t]
    /\ \E n \in Tokens : owner[n] = None
    /\ at' = [at EXCEPT ![t] = "verify"]
    /\ view' = [view EXCEPT ![t] = NewView]
    /\ calls' = Abandoned(t) \cup {[Request(t, "verify", u) EXCEPT !.token = None]}
    /\ UNCHANGED <<sessionVars, authVars>>

(* Mutant: the user of an earlier session is kept.                          *)
VerifiedKeepsUser(t, c) ==
    /\ \E n \in c.got :
          /\ token' = n
          /\ user' = IF user = None THEN owner[n] ELSE user
    /\ view' = [view EXCEPT ![t].step = "success"]
    /\ calls' = calls \ {c}
    /\ UNCHANGED <<back, at>>

(* The answer of /auth/verify: both halves of the session are stored.       *)
Verified(t, c) ==
    /\ \E n \in c.got : token' = n /\ user' = owner[n]
    /\ view' = [view EXCEPT ![t].step = "success"]
    /\ calls' = calls \ {c}
    /\ UNCHANGED <<back, at>>

(* Mutant: the router has no route for unknown paths.                       *)
RedirectVerbatim(t) ==
    LET page == IF back[t] = None THEN "home" ELSE back[t]
    IN /\ at[t] = "verify"
       /\ view[t].step = "success"
       /\ Enter(t, page)
       /\ back' = [back EXCEPT ![t] = None]
       /\ UNCHANGED <<token, user, authVars>>

(* Two seconds later the page leaves for the return address.  The router    *)
(* knows no path for one with a query, and ends at the login page.          *)
Redirect(t) ==
    LET page == CASE back[t] = None -> "home"
                  [] back[t] = "nowhere" -> "login"
                  [] OTHER -> back[t]
    IN /\ at[t] = "verify"
       /\ view[t].step = "success"
       /\ Enter(t, page)
       /\ back' = [back EXCEPT ![t] =
                      IF Authenticated \/ page = "login" THEN None ELSE page]
       /\ UNCHANGED <<token, user, authVars>>

(* Navbar.logout: only the token is removed.                                *)
LogOut(t) ==
    /\ token # None
    /\ token' = None
    /\ Show(t, "login")
    /\ UNCHANGED <<user, back, authVars>>

(* errorInterceptor on a 401: everything stored is cleared, and the login   *)
(* page keeps the address of the page that asked.                           *)
SignOut(t) ==
    /\ token' = None
    /\ user' = None
    /\ back' = [back EXCEPT ![t] =
                   IF at[t] = "verify" THEN "nowhere" ELSE at[t]]
    /\ Show(t, "login")

(* The exp of a token passes, for the browser and for the API.              *)
Expire(n) ==
    /\ owner[n] # None
    /\ dead' = dead \cup {n}
    /\ UNCHANGED <<sessionVars, at, view, calls, owner, known>>

SessionStep ==
    \/ \E t \in Tabs :
          \/ \E page \in Pages : Visit(t, page)
          \/ \E u \in Users : FollowLink(t, u)
          \/ Redirect(t)
          \/ LogOut(t)
    \/ \E n \in Tokens \ dead : Expire(n)
=============================================================================
