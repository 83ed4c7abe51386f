---------------------------- MODULE BrowserProofs ----------------------------
(***************************************************************************)
(* Theorems about Browser, for any tabs, accounts, sessions, rows, choices  *)
(* of a file and typed addresses, and any choice of faults.                 *)
(***************************************************************************)
EXTENDS Browser, TLAPS

Issued(n) == n \in Tokens /\ owner[n] # None

SessionInv ==
    /\ token \in Tokens \cup {None} /\ user \in Users \cup {None}
    /\ owner \in [Tokens -> Users \cup {None}]
    /\ dead \subseteq Tokens /\ known \subseteq Users
    /\ token # None => Issued(token)
    /\ UserMatchesToken /\ SessionsHaveUsers

TableInv == ApiTypeOK /\ OwnUploads

(* What holds of a view of a page, wherever its requests stand.             *)
ViewOK(page, v) ==
    /\ v \in View
    /\ v.stream # "off" => page \in Rows
    /\ v.seen # {} => page # "login"
    /\ \A w \in v.removed : table[w].status = "gone"

PagesInv ==
    /\ at \in [Tabs -> Pages]
    /\ back \in [Tabs -> Protected \cup {None, "nowhere"}]
    /\ view \in [Tabs -> View]
    /\ \A t \in Tabs : ViewOK(at[t], view[t])

(* What holds of a request, whether or not its tab still waits for it.      *)
Sound(c) ==
    /\ c \in Requests
    /\ c.token # None => Issued(c.token)
    /\ c.op = "verify" => c.about \in Users
    /\ c.op \in {"request", "put", "confirm"} => c.about \in Upload
    /\ c.op \in {"delete", "load", "poll"} => c.about \in Rows
    /\ c.op = "list" => c.got \subseteq Rows
    /\ c.answer = "ok" =>
          /\ c.op = "verify" => \A n \in c.got : Issued(n)
          /\ c.op = "request" => c.got \subseteq Users
          /\ c.op = "confirm" => c.got \subseteq Rows
          /\ c.op \in {"load", "poll"} => \E s \in Statuses : c.got = {s}
          /\ c.op = "delete" => table[c.about].status = "gone"
    /\ c.answer = "expired" /\ c.op # "verify" =>
          c.token = None \/ c.token \in dead

(* The login page waits for nothing, and only a status page for statuses.   *)
Located(c) ==
    c.tab # None =>
       /\ at[c.tab] # "login"
       /\ c.op \in {"load", "poll"} => at[c.tab] \in Rows

CallsInv == \A c \in calls : Sound(c) /\ Located(c)

BrowserInv ==
    /\ SessionInv /\ TableInv /\ PagesInv /\ CallsInv
    /\ chosen \subseteq Files

-----------------------------------------------------------------------------
(* Tokens stay issued, the expired ones expired, deleted rows deleted.      *)
Grows ==
    /\ \A n \in Tokens : owner[n] # None => owner'[n] # None
    /\ dead \subseteq dead'
    /\ \A w \in Rows : table[w].status = "gone" => table'[w].status = "gone"

LEMMA SoundStays ==
    ASSUME NEW c, Sound(c), Grows
    PROVE  Sound(c)'
<1>1. c.token \in Tokens \cup {None}
  BY DEF Sound, Requests
<1> QED
  BY <1>1 DEF Sound, Grows, Issued

LEMMA ViewStays ==
    ASSUME NEW page, NEW v, ViewOK(page, v), Grows
    PROVE  ViewOK(page, v)'
<1>1. v.removed \subseteq Rows
  BY DEF ViewOK, View
<1> QED
  BY <1>1 DEF ViewOK, Grows

(* A new request.                                                           *)
Fits(op, about) ==
    /\ op = "verify" => about \in Users
    /\ op \in {"request", "put", "confirm"} => about \in Upload
    /\ op \in {"delete", "load", "poll"} => about \in Rows
    /\ op \in {"list", "pause"} => about = None

LEMMA NewRequest ==
    ASSUME SessionInv, NEW t \in Tabs, NEW op \in Ops, NEW about, Fits(op, about)
    PROVE  LET c == Request(t, op, about)
           IN  /\ Sound(c)
               /\ c.tab = t /\ c.op = op /\ c.about = about /\ c.answer = "none"
<1> DEFINE c == Request(t, op, about)
<1>1. about \in Users \cup Rows \cup {None} \cup Upload
  BY DEF Fits, Ops
<1>2. c \in Requests
  BY <1>1 DEF Request, Requests, Answers, SessionInv
<1>3. /\ c.tab = t /\ c.op = op /\ c.about = about /\ c.answer = "none"
      /\ c.token = token /\ c.got = {}
  BY DEF Request
<1> HIDE DEF c
<1>4. Sound(c)
  BY <1>2, <1>3 DEF Sound, Fits, SessionInv
<1> QED
  BY <1>3, <1>4 DEF c

LEMMA NewViewOK ==
    ASSUME NEW page PROVE ViewOK(page, NewView)
BY DEF ViewOK, NewView, View

(* Requests of a page that is left stay sound.                              *)
LEMMA AbandonedAreSound ==
    ASSUME CallsInv, NEW t \in Tabs, NEW c \in Abandoned(t)
    PROVE  /\ Sound(c)
           /\ c.tab # None => c \in calls /\ c.tab # t
<1>1. CASE c \in {d \in calls : d.tab # t}
  BY <1>1 DEF CallsInv
<1>2. CASE \E d \in calls : c = [d EXCEPT !.tab = None] /\ d.answer = "none"
  <2> PICK d \in calls : c = [d EXCEPT !.tab = None] /\ d.answer = "none"
    BY <1>2
  <2>1. Sound(d) /\ d \in Requests
    BY DEF CallsInv, Sound
  <2>2. /\ c \in Requests /\ c.tab = None /\ c.op = d.op /\ c.about = d.about
        /\ c.token = d.token /\ c.answer = "none" /\ c.got = d.got
    BY <2>1 DEF Requests
  <2> QED
    BY <2>1, <2>2 DEF Sound
<1> QED
  BY <1>1, <1>2 DEF Abandoned

(* A tab leaves for another page, which opens with the requests new.        *)
LEMMA LeaveInv ==
    ASSUME BrowserInv, NEW t \in Tabs, NEW page \in Pages, NEW new,
           \A c \in new : Sound(c) /\ c.tab = t,
           page = "login" => new = {},
           page \notin Rows => \A c \in new : c.op \notin {"load", "poll"},
           at' = [at EXCEPT ![t] = page],
           view' = [view EXCEPT ![t] = NewView],
           calls' = Abandoned(t) \cup new,
           back' \in [Tabs -> Protected \cup {None, "nowhere"}],
           SessionInv', UNCHANGED <<owner, dead, table, chosen>>
    PROVE  BrowserInv'
<1> USE DEF BrowserInv, PagesInv, CallsInv
<1>1. Grows
  BY DEF Grows
<1>2. PagesInv'
  <2>1. NewView \in View
    BY NewViewOK DEF ViewOK
  <2>2. ASSUME NEW s \in Tabs PROVE ViewOK(at'[s], view'[s])
    BY NewViewOK
  <2>3. ASSUME NEW s \in Tabs PROVE ViewOK(at[s], view[s])'
    BY <2>2 DEF ViewOK
  <2> QED
    BY <2>1, <2>3
<1>3. CallsInv'
  <2>1. ASSUME NEW c \in calls' PROVE Sound(c) /\ Located(c)'
    <3>1. CASE c \in Abandoned(t)
      <4>1. c.tab # None => c \in calls /\ c.tab # t /\ Located(c) /\ c.tab \in Tabs
        BY <3>1, AbandonedAreSound DEF Sound, Requests
      <4> QED
        BY <3>1, <4>1, AbandonedAreSound DEF Located
    <3>2. CASE c \in new
      BY <3>2 DEF Located
    <3> QED
      BY <3>1, <3>2
  <2> QED
    BY <1>1, <2>1, SoundStays
<1>4. TableInv'
  BY DEF TableInv, ApiTypeOK, OwnUploads
<1> QED
  BY <1>2, <1>3, <1>4

(* A tab stays on its page: at most its view and its requests change.       *)
LEMMA StayInv ==
    ASSUME BrowserInv, NEW t \in Tabs, NEW v,
           view' = [view EXCEPT ![t] = v], ViewOK(at[t], v),
           \A c \in calls' \ calls : Sound(c) /\ Located(c),
           UNCHANGED <<at, back, owner, dead, table>>,
           SessionInv', chosen' \subseteq Files
    PROVE  BrowserInv'
<1> USE DEF BrowserInv, PagesInv, CallsInv
<1>1. Grows
  BY DEF Grows
<1>2. PagesInv'
  <2>1. v \in View
    BY DEF ViewOK
  <2>2. ASSUME NEW s \in Tabs PROVE ViewOK(at[s], view[s])'
    <3>1. ViewOK(at'[s], view'[s])
      OBVIOUS
    <3> QED
      BY <3>1 DEF ViewOK
  <2> QED
    BY <2>1, <2>2
<1>3. CallsInv'
  <2>1. ASSUME NEW c \in calls' PROVE Sound(c) /\ Located(c)'
    BY DEF Located
  <2> QED
    BY <1>1, <2>1, SoundStays
<1>4. TableInv'
  BY DEF TableInv, ApiTypeOK, OwnUploads
<1> QED
  BY <1>2, <1>3, <1>4

(* The API answers: pages stay, and at most d joins the requests.           *)
LEMMA AnswerInv ==
    ASSUME BrowserInv, NEW c \in calls, NEW d,
           calls' \subseteq calls \cup {d}, Sound(d)', d.tab = c.tab, d.op = c.op,
           Grows, SessionInv', TableInv', UNCHANGED <<at, view, back, chosen>>
    PROVE  BrowserInv'
<1> USE DEF BrowserInv, PagesInv, CallsInv
<1>1. PagesInv'
  <2>1. ASSUME NEW s \in Tabs PROVE ViewOK(at[s], view[s])'
    <3>1. ViewOK(at[s], view[s])
      OBVIOUS
    <3> QED
      BY <3>1, ViewStays
  <2> QED
    BY <2>1
<1>2. CallsInv'
  <2>1. ASSUME NEW x \in calls' PROVE Sound(x)' /\ Located(x)'
    <3>1. CASE x \in calls
      BY <3>1, SoundStays DEF Located
    <3>2. CASE x = d
      BY <3>2 DEF Located
    <3> QED
      BY <3>1, <3>2
  <2> QED
    BY <2>1
<1> QED
  BY <1>1, <1>2

-----------------------------------------------------------------------------
(* The steps of the session.                                                *)
LEMMA SameSession ==
    ASSUME SessionInv, UNCHANGED <<token, user, authVars>>
    PROVE  SessionInv'
BY DEF SessionInv, authVars, Issued, UserMatchesToken, SessionsHaveUsers

(* A page is shown with the requests its ngOnInit makes.                    *)
LEMMA ShowInv ==
    ASSUME BrowserInv, NEW t \in Tabs, NEW page \in Pages, Show(t, page),
           back' \in [Tabs -> Protected \cup {None, "nowhere"}],
           SessionInv', UNCHANGED <<authVars, table, chosen>>
    PROVE  BrowserInv'
<1>1. page \in Rows => page # "home" /\ page # "login"
  BY WebAssumption
<1>2. \A c \in Opening(t, page) :
         Sound(c) /\ c.tab = t /\ (c.op \in {"load", "poll"} => page \in Rows)
  <2>1. CASE page = "home"
    BY <2>1, NewRequest DEF BrowserInv, Opening, Ops, Fits
  <2>2. CASE page # "home" /\ page \in Rows
    BY <2>2, NewRequest DEF BrowserInv, Opening, Ops, Fits
  <2>3. CASE page # "home" /\ page \notin Rows
    BY <2>3 DEF Opening
  <2> QED
    BY <2>1, <2>2, <2>3
<1>3. page = "login" => Opening(t, page) = {}
  BY <1>1 DEF Opening
<1> QED
  BY <1>2, <1>3, LeaveInv DEF Show, authVars

LEMMA EnterInv ==
    ASSUME BrowserInv, NEW t \in Tabs, NEW page \in Pages, Enter(t, page),
           back' \in [Tabs -> Protected \cup {None, "nowhere"}],
           UNCHANGED <<token, user, authVars, table, chosen>>
    PROVE  BrowserInv'
<1>1. SessionInv'
  BY SameSession DEF BrowserInv, authVars
<1>2. \E p \in Pages : Show(t, p)
  BY DEF Enter, Pages
<1> QED
  BY <1>1, <1>2, ShowInv

LEMMA VisitInv ==
    ASSUME BrowserInv, NEW t \in Tabs, NEW page \in Pages, Visit(t, page),
           UNCHANGED <<table, chosen>>
    PROVE  BrowserInv'
<1>1. Remember(t, page) \in Protected \cup {None, "nowhere"}
  BY DEF BrowserInv, PagesInv, Remember
<1>2. back' \in [Tabs -> Protected \cup {None, "nowhere"}]
  BY <1>1 DEF Visit, BrowserInv, PagesInv
<1> QED
  BY <1>2, EnterInv DEF Visit

LEMMA FollowLinkInv ==
    ASSUME BrowserInv, NEW t \in Tabs, NEW u \in Users, FollowLink(t, u),
           UNCHANGED <<table, chosen>>
    PROVE  BrowserInv'
<1> DEFINE r == Request(t, "verify", u)
           c == [r EXCEPT !.token = None]
<1>1. Sound(c) /\ c.tab = t /\ c.op = "verify"
  <2>1. Sound(r) /\ r.tab = t /\ r.op = "verify" /\ r.answer = "none"
    BY NewRequest DEF BrowserInv, Ops, Fits
  <2>2. r \in Requests
    BY <2>1 DEF Sound
  <2> HIDE DEF r
  <2>3. /\ c \in Requests /\ c.tab = r.tab /\ c.op = r.op /\ c.about = r.about
        /\ c.token = None /\ c.answer = r.answer /\ c.got = r.got
    BY <2>2 DEF Requests
  <2> QED
    BY <2>1, <2>3 DEF Sound
<1>2. SessionInv'
  BY SameSession DEF FollowLink, sessionVars, BrowserInv
<1>3. "verify" \in Pages /\ back' \in [Tabs -> Protected \cup {None, "nowhere"}]
  BY DEF FollowLink, sessionVars, BrowserInv, PagesInv, Pages
<1>4. /\ at' = [at EXCEPT ![t] = "verify"]
      /\ view' = [view EXCEPT ![t] = NewView]
      /\ calls' = Abandoned(t) \cup {c}
      /\ UNCHANGED <<owner, dead, table, chosen>>
  BY DEF FollowLink, authVars
<1> HIDE DEF c
<1>5. PICK new : new = {c}
  OBVIOUS
<1>6. /\ \A x \in new : Sound(x) /\ x.tab = t /\ x.op \notin {"load", "poll"}
      /\ calls' = Abandoned(t) \cup new
  BY <1>1, <1>4, <1>5
<1> QED
  BY <1>2, <1>3, <1>4, <1>6, LeaveInv

LEMMA RedirectInv ==
    ASSUME BrowserInv, NEW t \in Tabs, Redirect(t), UNCHANGED <<table, chosen>>
    PROVE  BrowserInv'
<1>1. PICK page : page = CASE back[t] = None -> "home"
                           [] back[t] = "nowhere" -> "login"
                           [] OTHER -> back[t]
  OBVIOUS
<1>2. back[t] \in Protected \cup {None, "nowhere"} /\ None # "nowhere"
  BY WebAssumption DEF BrowserInv, PagesInv
<1>3. page \in Protected \cup {"login"}
  BY <1>1, <1>2 DEF Protected
<1>4. /\ Enter(t, page)
      /\ back' = [back EXCEPT ![t] =
                     IF Authenticated \/ page = "login" THEN None ELSE page]
      /\ UNCHANGED <<token, user, authVars>>
  BY <1>1 DEF Redirect
<1>5. back' \in [Tabs -> Protected \cup {None, "nowhere"}]
  BY <1>3, <1>4 DEF BrowserInv, PagesInv
<1>6. page \in Pages
  BY <1>3 DEF Pages
<1> QED
  BY <1>4, <1>5, <1>6, EnterInv

LEMMA LogOutInv ==
    ASSUME BrowserInv, NEW t \in Tabs, LogOut(t), UNCHANGED <<table, chosen>>
    PROVE  BrowserInv'
<1>1. SessionInv'
  BY DEF LogOut, BrowserInv, SessionInv, authVars, Issued, UserMatchesToken,
         SessionsHaveUsers
<1>2. "login" \in Pages /\ back' \in [Tabs -> Protected \cup {None, "nowhere"}]
  BY DEF LogOut, BrowserInv, PagesInv, Pages
<1> QED
  BY <1>1, <1>2, ShowInv DEF LogOut

LEMMA SignOutInv ==
    ASSUME BrowserInv, NEW c \in calls, c.tab # None, SignOut(c.tab),
           UNCHANGED <<authVars, table, chosen>>
    PROVE  BrowserInv'
<1>1. SessionInv'
  BY DEF SignOut, BrowserInv, SessionInv, authVars, Issued, UserMatchesToken,
         SessionsHaveUsers
<1>2. c.tab \in Tabs /\ at[c.tab] \in Protected \cup {"verify"}
  BY DEF BrowserInv, CallsInv, Sound, Requests, Located, PagesInv, Pages
<1>3. "login" \in Pages /\ back' \in [Tabs -> Protected \cup {None, "nowhere"}]
  BY <1>2 DEF SignOut, BrowserInv, PagesInv, Pages
<1> QED
  BY <1>1, <1>2, <1>3, ShowInv DEF SignOut

LEMMA ExpireInv ==
    ASSUME BrowserInv, NEW n \in Tokens, Expire(n), UNCHANGED <<table, chosen>>
    PROVE  BrowserInv'
<1> USE DEF BrowserInv
<1>1. SessionInv'
  BY DEF Expire, sessionVars, SessionInv, Issued, UserMatchesToken,
         SessionsHaveUsers
<1>2. Grows
  BY DEF Grows, Expire
<1>3. PagesInv'
  BY DEF Expire, sessionVars, PagesInv, ViewOK
<1>4. CallsInv'
  <2>1. ASSUME NEW c \in calls' PROVE Sound(c)' /\ Located(c)'
    BY <1>2, SoundStays DEF CallsInv, Located, Expire
  <2> QED
    BY <2>1 DEF CallsInv
<1>5. TableInv'
  BY DEF TableInv, ApiTypeOK, OwnUploads
<1> QED
  BY <1>1, <1>3, <1>4, <1>5

LEMMA SessionStepInv ==
    ASSUME BrowserInv, SessionStep, UNCHANGED <<table, chosen>>
    PROVE  BrowserInv'
BY VisitInv, FollowLinkInv, RedirectInv, LogOutInv, ExpireInv DEF SessionStep

-----------------------------------------------------------------------------
(* The steps of the API.                                                    *)
LEMMA NothingElse ==
    ASSUME SessionInv, TableInv, UNCHANGED <<token, user, authVars, table>>
    PROVE  SessionInv' /\ TableInv' /\ Grows
BY SameSession DEF TableInv, ApiTypeOK, OwnUploads, Grows, authVars

(* An answer whose content is right for the request is a sound one.         *)
Right(c, answer, got) ==
    /\ c.op = "list" => got \subseteq Rows
    /\ answer = "ok" =>
          /\ c.op = "verify" => \A n \in got : Issued(n)'
          /\ c.op = "request" => got \subseteq Users
          /\ c.op = "confirm" => got \subseteq Rows
          /\ c.op \in {"load", "poll"} => \E s \in Statuses : got = {s}
          /\ c.op = "delete" => table'[c.about].status = "gone"
    /\ answer = "expired" /\ c.op # "verify" =>
          c.token = None \/ c.token \in dead'

LEMMA AnswerKeeps ==
    ASSUME BrowserInv, NEW c \in calls, NEW answer \in Answers,
           NEW got \in SUBSET (Tokens \cup Rows \cup Users \cup Statuses),
           Answer(c, answer, got), Right(c, answer, got),
           Grows, SessionInv', TableInv', UNCHANGED <<at, view, back, chosen>>
    PROVE  BrowserInv'
<1> DEFINE d == [c EXCEPT !.answer = answer, !.got = got,
                          !.token = IF answer = "expired" THEN @ ELSE None]
<1>1. Sound(c)
  BY DEF BrowserInv, CallsInv
<1>2. Sound(c)'
  BY <1>1, SoundStays
<1>3. /\ d \in Requests /\ d.tab = c.tab /\ d.op = c.op
      /\ d.about = c.about
      /\ d.token = IF answer = "expired" THEN c.token ELSE None
      /\ d.answer = answer /\ d.got = got
  BY <1>1 DEF Sound, Requests
<1>4. calls' \subseteq calls \cup {d}
  BY DEF Answer
<1> HIDE DEF d
<1>5. Sound(d)'
  BY <1>2, <1>3 DEF Sound, Right
<1> QED
  BY <1>3, <1>4, <1>5, AnswerInv

(* Answers that change nothing else.                                        *)
LEMMA PlainAnswer ==
    ASSUME BrowserInv, NEW c \in calls, NEW answer \in Answers,
           NEW got \in SUBSET (Tokens \cup Rows \cup Users \cup Statuses),
           Answer(c, answer, got), Right(c, answer, got),
           UNCHANGED <<token, user, authVars, table, at, view, back, chosen>>
    PROVE  BrowserInv'
BY AnswerKeeps, NothingElse DEF BrowserInv

LEMMA FailsInv ==
    ASSUME BrowserInv, NEW c \in calls, Fails(c),
           Grows, SessionInv', TableInv', UNCHANGED <<at, view, back, chosen>>
    PROVE  BrowserInv'
<1>1. "failed" \in Answers
  BY DEF Answers
<1> QED
  BY <1>1, AnswerKeeps DEF Fails, Right

(* The login of a user who is in the table by then.                         *)
LEMMA IssueInv ==
    ASSUME BrowserInv, NEW c \in calls, Issue(c), c.op = "verify",
           c.about \in known', known' \subseteq Users, known \subseteq known',
           UNCHANGED <<token, user, dead, table, at, view, back, chosen>>
    PROVE  BrowserInv'
<1>1. c.about \in Users /\ c.about # None
  BY WebAssumption DEF BrowserInv, CallsInv, Sound
<1>2. Sound(c)
  BY DEF BrowserInv, CallsInv
<1>3. TableInv'
  BY DEF BrowserInv, TableInv, ApiTypeOK, OwnUploads
<1>4. CASE c.tab = None
  <2>1. calls' \subseteq calls /\ owner' = owner
    BY <1>4 DEF Issue
  <2>2. SessionInv' /\ Grows
    BY <2>1
       DEF BrowserInv, SessionInv, Issued, UserMatchesToken, SessionsHaveUsers, Grows
  <2> QED
    BY <1>2, <1>3, <2>1, <2>2, SoundStays, AnswerInv
<1>5. CASE c.tab # None
  <2> PICK n : n = FreshToken
    OBVIOUS
  <2> PICK d : d = [c EXCEPT !.answer = "ok", !.got = {n}]
    OBVIOUS
  <2>1. n \in Tokens /\ owner[n] = None
    BY <1>5 DEF Issue, FreshToken
  <2>2. /\ owner' = [owner EXCEPT ![n] = c.about]
        /\ calls' \subseteq calls \cup {d}
    BY <1>5 DEF Issue
  <2>3. {n} \in SUBSET (Tokens \cup Rows \cup Users \cup Statuses)
    BY <2>1
  <2>4. SessionInv'
    BY <1>1, <2>1, <2>2
       DEF BrowserInv, SessionInv, Issued, UserMatchesToken, SessionsHaveUsers
  <2>5. Grows
    BY <1>1, <2>1, <2>2 DEF Grows, BrowserInv, SessionInv
  <2>6. Issued(n)'
    BY <1>1, <2>1, <2>2 DEF Issued, BrowserInv, SessionInv
  <2>7. /\ d \in Requests /\ d.tab = c.tab /\ d.op = "verify" /\ d.about = c.about
        /\ d.token = c.token /\ d.answer = "ok" /\ d.got = {n}
    BY <1>2, <2>3 DEF Sound, Requests, Answers
  <2>8. Sound(d)'
    BY <1>2, <2>5, <2>6, <2>7, SoundStays DEF Sound
  <2> QED
    BY <1>3, <2>2, <2>4, <2>5, <2>7, <2>8, AnswerInv
<1> QED
  BY <1>4, <1>5

LEMMA VerifyLinkInv ==
    ASSUME BrowserInv, NEW c \in calls, c.op = "verify", c.answer = "none", VerifyLink(c),
           UNCHANGED <<token, user, dead, table, at, view, back, chosen>>
    PROVE  BrowserInv'
<1>1. c.about \in Users /\ known \subseteq Users
  BY DEF BrowserInv, CallsInv, Sound, SessionInv
<1>2. {"none", "expired", "failed"} \subseteq Answers
  BY DEF Answers
<1>3. Right(c, "expired", {}) /\ Right(c, "failed", {})
  BY DEF Right
<1>4. CASE /\ Issue(c)
           /\ \/ c.about \in known /\ known' = known
              \/ known' = known \cup {c.about}
  BY <1>1, <1>4, IssueInv
<1>5. CASE /\ calls' = (calls \ {c}) \cup {[c EXCEPT !.got = {c.about}]}
           /\ c.answer = "none" /\ UNCHANGED <<owner, known>>
  <2> DEFINE d == [c EXCEPT !.got = {c.about}]
  <2>1. Sound(c)
    BY DEF BrowserInv, CallsInv
  <2>2. /\ d \in Requests /\ d.tab = c.tab /\ d.op = "verify" /\ d.about = c.about
        /\ d.token = c.token /\ d.answer = "none"
    BY <1>1, <1>5, <2>1 DEF Sound, Requests
  <2>3. calls' \subseteq calls \cup {d}
    BY <1>5
  <2> HIDE DEF d
  <2>4. Grows /\ SessionInv' /\ TableInv'
    BY <1>5, NothingElse DEF BrowserInv, authVars
  <2>5. Sound(d)'
    BY <2>1, <2>2, <2>4, SoundStays DEF Sound
  <2> QED
    BY <2>2, <2>3, <2>4, <2>5, AnswerInv
<1>6. CASE Answer(c, "expired", {}) /\ UNCHANGED <<owner, known>>
  BY <1>2, <1>3, <1>6, PlainAnswer DEF authVars
<1>7. CASE Answer(c, "failed", {}) /\ UNCHANGED <<owner, known>>
  BY <1>2, <1>3, <1>7, PlainAnswer DEF authVars
<1>8. CASE /\ Answer(c, "failed", {}) /\ UNCHANGED owner
           /\ known' = known \cup {c.about}
  <2>1. Grows /\ SessionInv' /\ TableInv'
    BY <1>1, <1>8 DEF BrowserInv, SessionInv, Issued, UserMatchesToken,
                      SessionsHaveUsers, Grows, TableInv, ApiTypeOK, OwnUploads
  <2> QED
    BY <1>2, <1>3, <1>8, <2>1, AnswerKeeps
<1> QED
  BY <1>4, <1>5, <1>6, <1>7, <1>8 DEF VerifyLink, Fails

LEMMA GuardInv ==
    ASSUME BrowserInv, NEW c \in calls, Guard(c), c.op # "verify",
           UNCHANGED <<token, user, authVars, table, at, view, back, chosen>>
    PROVE  BrowserInv'
<1>1. {"expired", "nouser"} \subseteq Answers
  BY DEF Answers
<1>2. CASE c.token = None \/ c.token \in dead
  <2>1. Right(c, "expired", {})
    BY <1>2 DEF Right, authVars
  <2> QED
    BY <1>1, <1>2, <2>1, PlainAnswer DEF Guard
<1>3. CASE ~(c.token = None \/ c.token \in dead)
  <2>1. Right(c, "nouser", {})
    BY DEF Right
  <2> QED
    BY <1>1, <1>3, <2>1, PlainAnswer DEF Guard
<1> QED
  BY <1>2, <1>3

(* The account a request is served for.                                     *)
LEMMA PrincipalIsUser ==
    ASSUME BrowserInv, NEW c \in calls, Passes(c)
    PROVE  Principal(c) \in Users
BY DEF BrowserInv, CallsInv, Sound, Issued, SessionInv, Passes, Principal

LEMMA ReadInv ==
    ASSUME BrowserInv, NEW c \in calls, Passes(c), Read(c),
           UNCHANGED <<token, user, authVars, table, at, view, back, chosen>>
    PROVE  BrowserInv'
<1>1. {"ok", "failed"} \subseteq Answers
  BY DEF Answers
<1>2. CASE c.op \in {"load", "poll"} /\ Feedback(c)
  <2>1. Right(c, "failed", {})
    BY <1>2 DEF Right
  <2>2. c.about \in Listed(Principal(c)) =>
           /\ table[c.about].status \in Statuses
           /\ Right(c, "ok", {table[c.about].status})
    BY <1>2 DEF Right, Listed
  <2> QED
    BY <1>1, <1>2, <2>1, <2>2, PlainAnswer DEF Feedback
<1>3. CASE c.op = "list" /\ Answer(c, "ok", Listed(Principal(c)))
  <2>1. Listed(Principal(c)) \subseteq Rows
    BY DEF Listed
  <2>2. Right(c, "ok", Listed(Principal(c)))
    BY <1>3, <2>1 DEF Right
  <2> QED
    BY <1>1, <1>3, <2>1, <2>2, PlainAnswer
<1>4. CASE c.op = "request" /\ Answer(c, "ok", {Principal(c)})
  <2>1. Right(c, "ok", {Principal(c)})
    BY <1>4, PrincipalIsUser DEF Right
  <2> QED
    BY <1>1, <1>4, <2>1, PrincipalIsUser, PlainAnswer
<1> QED
  BY <1>2, <1>3, <1>4 DEF Read

LEMMA ConfirmInv ==
    ASSUME BrowserInv, NEW c \in calls, c.op = "confirm", Passes(c), Confirm(c),
           UNCHANGED <<token, user, authVars, at, view, back, chosen>>
    PROVE  BrowserInv'
<1>1. {"ok", "failed"} \subseteq Answers
  BY DEF Answers
<1>2. CASE c.about.by # Principal(c)
  <2>1. Right(c, "failed", {})
    BY <1>2 DEF Right, Answers
  <2> QED
    BY <1>1, <1>2, <2>1, PlainAnswer DEF Confirm
<1>3. CASE c.about.by = Principal(c)
  <2>1. PICK w \in Free :
           /\ table' = [table EXCEPT ![w] = [owner |-> Principal(c), upload |-> c.about,
                                              status |-> "PENDING"]]
           /\ Answer(c, "ok", {w}) \/ Fails(c)
    BY <1>3 DEF Confirm, Insert
  <2>2. w \in Rows /\ table[w] = Empty
    BY DEF Free
  <2>3. Principal(c) \in Users /\ c.about \in Upload
    BY <1>3, PrincipalIsUser DEF BrowserInv, CallsInv, Sound
  <2>4. [owner |-> Principal(c), upload |-> c.about, status |-> "PENDING"] \in SubmissionRow
    BY <2>3 DEF SubmissionRow, Statuses
  <2>5. TableInv'
    BY <1>3, <2>1, <2>2, <2>4 DEF BrowserInv, TableInv, ApiTypeOK, OwnUploads, Empty
  <2>6. Grows /\ SessionInv'
    <3>1. Empty.status # "gone"
      BY DEF Empty
    <3> QED
      BY <2>1, <2>2, <3>1, SameSession
         DEF Grows, BrowserInv, TableInv, ApiTypeOK, authVars
  <2>7. Right(c, "ok", {w})
    BY <1>3, <2>2 DEF Right
  <2> QED
    BY <1>1, <2>1, <2>2, <2>5, <2>6, <2>7, AnswerKeeps, FailsInv
<1> QED
  BY <1>2, <1>3

LEMMA DeleteInv ==
    ASSUME BrowserInv, NEW c \in calls, c.op = "delete", Passes(c), Delete(c),
           UNCHANGED <<token, user, authVars, at, view, back, chosen>>
    PROVE  BrowserInv'
<1> DEFINE row == table[c.about]
<1>1. {"ok", "failed"} \subseteq Answers
  BY DEF Answers
<1>2. CASE Answer(c, "failed", {}) /\ UNCHANGED table
  <2>1. Right(c, "failed", {})
    BY DEF Right
  <2> QED
    BY <1>1, <1>2, <2>1, PlainAnswer
<1>3. CASE /\ row.status \in Statuses
           /\ table' = [table EXCEPT ![c.about].status = "gone"]
           /\ Answer(c, "ok", {}) \/ Fails(c)
  <2>1. c.about \in Rows
    BY DEF BrowserInv, CallsInv, Sound
  <2>2. row \in SubmissionRow /\ table \in [Rows -> SubmissionRow \cup {Empty}]
    BY <1>3, <2>1 DEF BrowserInv, TableInv, ApiTypeOK, Empty, Statuses
  <2>3. PICK gone : gone = [row EXCEPT !.status = "gone"]
    OBVIOUS
  <2>4. gone \in SubmissionRow /\ gone.owner = row.owner /\ gone.upload = row.upload
        /\ gone.status = "gone"
    BY <2>2, <2>3 DEF SubmissionRow
  <2>5. table' = [table EXCEPT ![c.about] = gone]
    BY <1>3, <2>1, <2>2, <2>3
  <2>6. row # Empty
    BY <1>3 DEF Empty, Statuses
  <2>7. TableInv'
    BY <2>1, <2>2, <2>4, <2>5, <2>6 DEF BrowserInv, TableInv, ApiTypeOK, OwnUploads
  <2>8. Grows /\ SessionInv'
    BY <2>1, <2>2, <2>4, <2>5, SameSession DEF Grows, BrowserInv, authVars
  <2>9. Right(c, "ok", {})
    BY <1>3, <2>1, <2>2, <2>4, <2>5 DEF Right
  <2> QED
    BY <1>1, <1>3, <2>7, <2>8, <2>9, AnswerKeeps, FailsInv
<1>4. CASE c.about \notin Listed(Principal(c))
  BY <1>2, <1>4 DEF Delete
<1>5. CASE c.about \in Listed(Principal(c))
  BY <1>3, <1>5 DEF Delete, Listed
<1> QED
  BY <1>4, <1>5

LEMMA ServeInv ==
    ASSUME BrowserInv, NEW c \in calls, Serve(c), UNCHANGED chosen
    PROVE  BrowserInv'
<1>1. UNCHANGED <<token, user, back, at, view, dead, chosen>> /\ c.answer = "none"
  BY DEF Serve, sessionVars
<1>2. CASE c.op = "verify" /\ VerifyLink(c) /\ UNCHANGED table
  BY <1>1, <1>2, VerifyLinkInv
<1>3. CASE c.op \notin {"verify", "put", "pause"} /\ UNCHANGED <<owner, known>>
  <2>1. UNCHANGED authVars
    BY <1>1, <1>3 DEF authVars
  <2>2. CASE Guard(c) /\ UNCHANGED table
    BY <1>1, <1>3, <2>1, <2>2, GuardInv
  <2>3. CASE Fails(c) /\ UNCHANGED table
    BY <1>1, <2>1, <2>3, FailsInv, NothingElse DEF BrowserInv
  <2>4. CASE Passes(c) /\ Read(c)
    BY <1>1, <2>1, <2>4, ReadInv DEF Read
  <2>5. CASE Passes(c) /\ c.op = "confirm" /\ Confirm(c)
    BY <1>1, <2>1, <2>5, ConfirmInv
  <2>6. CASE Passes(c) /\ c.op = "delete" /\ Delete(c)
    BY <1>1, <2>1, <2>6, DeleteInv
  <2> QED
    BY <1>3, <2>2, <2>3, <2>4, <2>5, <2>6 DEF Serve
<1> QED
  BY <1>2, <1>3 DEF Serve

LEMMA GradedInv ==
    ASSUME BrowserInv, NEW w \in Rows, Graded(w), UNCHANGED chosen
    PROVE  BrowserInv'
<1> USE DEF BrowserInv
<1>u. UNCHANGED <<token, user, back, at, view, calls, authVars>>
  BY DEF Graded, sessionVars
<1> DEFINE row == table[w]
<1>1. /\ row \in SubmissionRow /\ table \in [Rows -> SubmissionRow \cup {Empty}]
      /\ row # Empty
  BY DEF Graded, TableInv, ApiTypeOK, Empty
<1>2. PICK final : final = [row EXCEPT !.status = "final"]
  OBVIOUS
<1>3. final \in SubmissionRow /\ final.owner = row.owner /\ final.upload = row.upload
  BY <1>1, <1>2 DEF SubmissionRow, Statuses
<1>4. table' = [table EXCEPT ![w] = final]
  BY <1>1, <1>2 DEF Graded
<1>5. TableInv'
  BY <1>1, <1>3, <1>4 DEF TableInv, ApiTypeOK, OwnUploads
<1>6. Grows /\ SessionInv'
  BY <1>u, <1>1, <1>4, SameSession DEF Grows, authVars, Graded
<1>7. PagesInv'
  <2>1. ASSUME NEW s \in Tabs PROVE ViewOK(at[s], view[s])'
    <3>1. ViewOK(at[s], view[s])
      BY DEF PagesInv
    <3> QED
      BY <1>u, <1>6, <3>1, ViewStays
  <2> QED
    BY <1>u, <2>1 DEF PagesInv
<1>8. CallsInv'
  <2>1. ASSUME NEW c \in calls' PROVE Sound(c)' /\ Located(c)'
    BY <1>u, <1>6, SoundStays DEF CallsInv, Located
  <2> QED
    BY <2>1 DEF CallsInv
<1> QED
  BY <1>5, <1>6, <1>7, <1>8

-----------------------------------------------------------------------------
(* The steps of the pages.                                                  *)
LEMMA StepFields ==
    ASSUME NEW page, NEW v, ViewOK(page, v)
    PROVE  /\ \A step \in {"start", "uploading", "success", "error"} :
                 ViewOK(page, [v EXCEPT !.step = step])
           /\ \A file \in Files : ViewOK(page, [v EXCEPT !.file = file])
           /\ \A w \in Rows :
                 ViewOK(page, [v EXCEPT !.step = "success", !.sub = w])
BY DEF ViewOK, View

(* A click or an answer that leaves the view alone.                         *)
LEMMA QuietInv ==
    ASSUME BrowserInv, NEW t \in Tabs,
           \A c \in calls' \ calls : Sound(c) /\ Located(c),
           UNCHANGED <<at, view, back, token, user, authVars, table>>,
           chosen' \subseteq Files
    PROVE  BrowserInv'
<1>1. view' = [view EXCEPT ![t] = view[t]] /\ ViewOK(at[t], view[t])
  BY DEF BrowserInv, PagesInv
<1>2. SessionInv'
  BY SameSession DEF BrowserInv
<1> QED
  BY <1>1, <1>2, StayInv DEF authVars

(* ... and one that changes it.                                             *)
LEMMA ViewInv ==
    ASSUME BrowserInv, NEW t \in Tabs, NEW v, SetView(t, v), ViewOK(at[t], v),
           \A c \in calls' \ calls : Sound(c) /\ Located(c),
           UNCHANGED <<at, back, token, user, authVars, table>>,
           chosen' \subseteq Files
    PROVE  BrowserInv'
<1>1. SessionInv'
  BY SameSession DEF BrowserInv
<1> QED
  BY <1>1, StayInv DEF SetView, authVars

LEMMA ClickInv ==
    ASSUME BrowserInv, NEW t \in Tabs, Click(t), UNCHANGED table
    PROVE  BrowserInv'
<1>u. UNCHANGED <<at, back, token, user, authVars, table>>
  BY DEF Click, sessionVars
<1>c. chosen' \subseteq Files
  BY DEF Click, SelectFile, BrowserInv
<1>v. ViewOK(at[t], view[t]) /\ view[t] \in View
  BY DEF BrowserInv, PagesInv
<1>n. "upload" # "login" /\ \A w \in Rows : w # "login"
  BY WebAssumption
<1>1. CASE \E f \in Files : SelectFile(t, f)
  <2> PICK f \in Files : SelectFile(t, f)
    BY <1>1
  <2>1. SetView(t, [view[t] EXCEPT !.file = f]) /\ UNCHANGED calls
    BY DEF SelectFile
  <2> QED
    BY <1>u, <1>c, <1>v, <2>1, StepFields, ViewInv
<1>2. CASE UploadFile(t)
  <2> DEFINE about == [file |-> view[t].file, by |-> None]
             c == Request(t, "request", about)
  <2>1. view[t].file \in Files
    BY <1>2, <1>v DEF UploadFile, View
  <2>2. Fits("request", about) /\ "request" \in Ops
    BY <2>1 DEF Fits, Upload, Ops
  <2>3. /\ SetView(t, [view[t] EXCEPT !.step = "uploading"])
        /\ calls' = calls \cup {c} /\ at[t] = "upload"
    BY <1>2 DEF UploadFile
  <2> HIDE DEF about
  <2>4. Sound(c) /\ c.tab = t /\ c.op = "request"
    BY <2>2, NewRequest DEF BrowserInv
  <2> HIDE DEF c
  <2>5. Located(c)
    BY <1>n, <2>3, <2>4 DEF Located
  <2> QED
    BY <1>u, <1>c, <1>v, <2>3, <2>4, <2>5, StepFields, ViewInv
<1>3. CASE UploadAnother(t)
  <2>1. SetView(t, NewView) /\ UNCHANGED calls
    BY <1>3 DEF UploadAnother
  <2> QED
    BY <1>u, <1>c, <2>1, NewViewOK, ViewInv
<1>4. CASE Retry(t)
  <2> DEFINE c == Request(t, "load", at[t])
  <2>1. Fits("load", at[t]) /\ "load" \in Ops
    BY <1>4 DEF Fits, Retry, Ops
  <2>2. /\ SetView(t, [view[t] EXCEPT !.step = "start"])
        /\ calls' = calls \cup {c} /\ at[t] \in Rows
    BY <1>4 DEF Retry
  <2>3. Sound(c) /\ c.tab = t
    BY <2>1, NewRequest DEF BrowserInv
  <2> HIDE DEF c
  <2>4. Located(c)
    BY <1>n, <2>2, <2>3 DEF Located
  <2> QED
    BY <1>u, <1>c, <1>v, <2>2, <2>3, <2>4, StepFields, ViewInv
<1>5. CASE Tick(t)
  <2> DEFINE c == Request(t, "poll", at[t])
  <2>1. at[t] \in Rows
    BY <1>5, <1>v DEF Tick, ViewOK
  <2>2. Fits("poll", at[t]) /\ "poll" \in Ops
    BY <2>1 DEF Fits, Ops
  <2>3. calls' \subseteq calls \cup {c} /\ UNCHANGED view
    BY <1>5 DEF Tick
  <2>4. Sound(c) /\ c.tab = t
    BY <2>2, NewRequest DEF BrowserInv
  <2> HIDE DEF c
  <2>5. Located(c)
    BY <1>n, <2>1, <2>4 DEF Located
  <2> QED
    BY <1>u, <1>c, <2>3, <2>4, <2>5, QuietInv
<1>6. CASE \E w \in Rows : ClickDelete(t, w)
  <2> PICK w \in Rows : ClickDelete(t, w)
    BY <1>6
  <2> DEFINE c == Request(t, "delete", w)
  <2>1. at[t] # "login"
    BY <1>v DEF ClickDelete, ViewOK
  <2>2. Fits("delete", w) /\ "delete" \in Ops
    BY DEF Fits, Ops
  <2>3. calls' = calls \cup {c} /\ UNCHANGED view
    BY DEF ClickDelete
  <2>4. Sound(c) /\ c.tab = t /\ c.op = "delete"
    BY <2>2, NewRequest DEF BrowserInv
  <2> HIDE DEF c
  <2>5. Located(c)
    BY <2>1, <2>4 DEF Located
  <2> QED
    BY <1>u, <1>c, <2>3, <2>4, <2>5, QuietInv
<1> QED
  BY <1>1, <1>2, <1>3, <1>4, <1>5, <1>6 DEF Click

(* The next request of a chain.                                             *)
LEMMA ThenIsSound ==
    ASSUME BrowserInv, NEW c \in calls, c.tab # None, NEW op \in Ops, NEW about,
           op \notin {"load", "poll"}, Fits(op, about), Then(c, op, about)
    PROVE  \A d \in calls' \ calls : Sound(d) /\ Located(d)
<1>1. c.tab \in Tabs /\ at[c.tab] # "login"
  BY DEF BrowserInv, CallsInv, Sound, Requests, Located
<1> DEFINE d == Request(c.tab, op, about)
<1>2. Sound(d) /\ d.tab = c.tab /\ d.op = op
  BY <1>1, NewRequest DEF BrowserInv
<1>3. calls' = (calls \ {c}) \cup {d}
  BY DEF Then
<1> HIDE DEF d
<1> QED
  BY <1>1, <1>2, <1>3 DEF Located

LEMMA UploadEndsInv ==
    ASSUME BrowserInv, NEW c \in calls, c.tab # None, UploadEnds(c),
           UNCHANGED <<token, user, authVars, table, chosen>>
    PROVE  BrowserInv'
<1>1. c.tab \in Tabs /\ view[c.tab] \in View
  BY DEF BrowserInv, CallsInv, Sound, Requests, PagesInv
<1> DEFINE sub == view[c.tab].sub
<1>2. CASE sub = None
  <2>1. calls' \subseteq calls /\ UNCHANGED <<at, view, back>>
    BY <1>2 DEF UploadEnds, Done
  <2> QED
    BY <1>1, <2>1, QuietInv DEF BrowserInv
<1>3. CASE sub # None
  <2>1. sub \in Rows
    BY <1>1, <1>3 DEF View
  <2>2. sub \in Pages /\ Remember(c.tab, sub) \in Protected \cup {None, "nowhere"}
    BY <1>1, <2>1 DEF Pages, Protected, Remember, BrowserInv, PagesInv
  <2>3. Enter(c.tab, sub) /\ back' = [back EXCEPT ![c.tab] = Remember(c.tab, sub)]
    BY <1>3 DEF UploadEnds
  <2>4. back' \in [Tabs -> Protected \cup {None, "nowhere"}]
    BY <2>2, <2>3 DEF BrowserInv, PagesInv
  <2> HIDE DEF sub
  <2> QED
    BY <1>1, <2>2, <2>3, <2>4, EnterInv
<1> QED
  BY <1>2, <1>3

LEMMA VerifiedInv ==
    ASSUME BrowserInv, NEW c \in calls, c.tab # None, c.op = "verify",
           c.answer = "ok", Verified(c.tab, c),
           UNCHANGED <<authVars, table, chosen>>
    PROVE  BrowserInv'
<1>1. c.tab \in Tabs /\ ViewOK(at[c.tab], view[c.tab])
  BY DEF BrowserInv, CallsInv, Sound, Requests, PagesInv
<1>2. PICK n \in c.got : token' = n /\ user' = owner[n]
  BY DEF Verified
<1>3. Issued(n)
  BY DEF BrowserInv, CallsInv, Sound
<1>4. SessionInv'
  BY <1>2, <1>3 DEF BrowserInv, SessionInv, authVars, Issued, UserMatchesToken,
                    SessionsHaveUsers
<1>5. PICK v : v = [view[c.tab] EXCEPT !.step = "success"]
  OBVIOUS
<1>6. ViewOK(at[c.tab], v) /\ view' = [view EXCEPT ![c.tab] = v]
  BY <1>1, <1>5, StepFields DEF Verified, BrowserInv, PagesInv
<1>7. calls' \subseteq calls /\ UNCHANGED <<at, back>>
  BY DEF Verified
<1>8. chosen' \subseteq Files
  BY DEF BrowserInv
<1> QED
  BY <1>1, <1>4, <1>6, <1>7, <1>8, StayInv DEF authVars

LEMMA LoadedInv ==
    ASSUME BrowserInv, NEW c \in calls, c.tab # None, Loaded(c),
           UNCHANGED <<at, back, token, user, authVars, table, chosen>>
    PROVE  BrowserInv'
<1> DEFINE v == view[c.tab]
<1>1. /\ c.tab \in Tabs /\ ViewOK(at[c.tab], v) /\ v \in View
      /\ at[c.tab] \in Rows
  BY DEF Loaded, BrowserInv, CallsInv, Sound, Requests, PagesInv, Located
<1>2. calls' \subseteq calls /\ chosen' \subseteq Files
  BY DEF Loaded, Done, BrowserInv
<1>s. ASSUME NEW x, SetView(c.tab, x), ViewOK(at[c.tab], x) PROVE BrowserInv'
  BY <1>1, <1>2, <1>s, ViewInv
<1>3. CASE c.answer # "ok"
  <2>1. SetView(c.tab, [v EXCEPT !.step = "error"])
    BY <1>3 DEF Loaded
  <2> QED
    BY <1>1, <1>s, <2>1, StepFields
<1>4. CASE c.answer = "ok"
  <2>1. PICK status \in Statuses : c.got = {status}
    BY <1>4 DEF Loaded, BrowserInv, CallsInv, Sound
  <2>2. (CHOOSE x \in c.got : TRUE) = status
    BY <2>1
  <2>3. CASE status = "PENDING" /\ ~v.refreshing
    <3> PICK x : x = [v EXCEPT !.shown = status, !.refreshing = TRUE, !.stream = "on"]
      OBVIOUS
    <3>1. SetView(c.tab, x)
      <4>1. (v.refreshing \/ (status = "PENDING" /\ ~v.refreshing)) = TRUE
        BY <2>3
      <4> QED
        BY <1>4, <2>2, <2>3, <4>1 DEF Loaded
    <3>2. ViewOK(at[c.tab], x)
      BY <1>1, <2>3 DEF ViewOK, View
    <3> QED
      BY <1>s, <3>1, <3>2
  <2>4. CASE ~(status = "PENDING" /\ ~v.refreshing)
    <3> PICK x : x = [v EXCEPT !.shown = status]
      OBVIOUS
    <3>1. SetView(c.tab, x)
      <4>1. (v.refreshing \/ (status = "PENDING" /\ ~v.refreshing)) = v.refreshing
        BY <1>1, <2>4 DEF View
      <4>2. [v EXCEPT !.shown = status, !.refreshing = v.refreshing,
                      !.stream = v.stream] = x
        BY <1>1 DEF View
      <4> QED
        BY <1>4, <2>2, <2>4, <4>1, <4>2 DEF Loaded
    <3>2. ViewOK(at[c.tab], x)
      BY <1>1, <2>4 DEF ViewOK, View
    <3> QED
      BY <1>s, <3>1, <3>2
  <2> QED
    BY <2>3, <2>4
<1> QED
  BY <1>3, <1>4

LEMMA PolledInv ==
    ASSUME BrowserInv, NEW c \in calls, c.tab # None, Polled(c),
           UNCHANGED <<at, back, token, user, authVars, table, chosen>>
    PROVE  BrowserInv'
<1> DEFINE v == view[c.tab]
<1>1. /\ c.tab \in Tabs /\ ViewOK(at[c.tab], v) /\ v \in View
      /\ at[c.tab] \in Rows
  BY DEF Polled, BrowserInv, CallsInv, Sound, Requests, PagesInv, Located
<1>2. calls' \subseteq calls /\ chosen' \subseteq Files
  BY DEF Polled, Done, BrowserInv
<1>s. ASSUME NEW x, SetView(c.tab, x), ViewOK(at[c.tab], x) PROVE BrowserInv'
  BY <1>1, <1>2, <1>s, ViewInv
<1>3. CASE c.answer # "ok"
  <2> PICK x : x = [v EXCEPT !.stream = "broken"]
    OBVIOUS
  <2>1. SetView(c.tab, x)
    BY <1>3 DEF Polled
  <2>2. ViewOK(at[c.tab], x)
    BY <1>1 DEF ViewOK, View
  <2> QED
    BY <1>s, <2>1, <2>2
<1>4. CASE c.answer = "ok" /\ c.got = {"PENDING"}
  <2> PICK x : x = [v EXCEPT !.shown = "PENDING"]
    OBVIOUS
  <2>1. SetView(c.tab, x)
    BY <1>4 DEF Polled
  <2>2. ViewOK(at[c.tab], x)
    BY <1>1 DEF ViewOK, View, Statuses
  <2> QED
    BY <1>s, <2>1, <2>2
<1>5. CASE c.answer = "ok" /\ c.got # {"PENDING"}
  <2> PICK x : x = [v EXCEPT !.shown = "final", !.stream = "off", !.refreshing = FALSE]
    OBVIOUS
  <2>1. SetView(c.tab, x)
    BY <1>5 DEF Polled
  <2>2. ViewOK(at[c.tab], x)
    BY <1>1 DEF ViewOK, View, Statuses
  <2> QED
    BY <1>s, <2>1, <2>2
<1> QED
  BY <1>3, <1>4, <1>5

LEMMA HomeInv ==
    ASSUME BrowserInv, NEW c \in calls, c.tab # None, ListLoaded(c) \/ Deleted(c),
           UNCHANGED <<at, back, token, user, authVars, table, chosen>>
    PROVE  BrowserInv'
<1> DEFINE v == view[c.tab]
<1>1. /\ c.tab \in Tabs /\ ViewOK(at[c.tab], v) /\ v \in View
      /\ at[c.tab] # "login"
  BY DEF BrowserInv, CallsInv, Sound, Requests, PagesInv, Located
<1>2. calls' \subseteq calls /\ chosen' \subseteq Files
  BY DEF ListLoaded, Deleted, Done, BrowserInv
<1>3. CASE ListLoaded(c)
  <2> PICK x : x = [v EXCEPT !.seen = c.got]
    OBVIOUS
  <2>1. SetView(c.tab, x) /\ c.got \subseteq Rows
    BY <1>3 DEF ListLoaded, BrowserInv, CallsInv, Sound
  <2>2. ViewOK(at[c.tab], x)
    BY <1>1, <2>1 DEF ViewOK, View
  <2> QED
    BY <1>1, <1>2, <2>1, <2>2, ViewInv
<1>4. CASE Deleted(c) /\ c.answer = "ok"
  <2> PICK x : x = [v EXCEPT !.removed = v.removed \cup {c.about}]
    OBVIOUS
  <2>1. /\ SetView(c.tab, x)
        /\ c.about \in Rows /\ table[c.about].status = "gone"
    BY <1>4 DEF Deleted, BrowserInv, CallsInv, Sound
  <2>2. ViewOK(at[c.tab], x)
    BY <1>1, <2>1 DEF ViewOK, View
  <2> QED
    BY <1>1, <1>2, <2>1, <2>2, ViewInv
<1>5. CASE Deleted(c) /\ c.answer # "ok"
  BY <1>1, <1>2, <1>5, QuietInv DEF Deleted
<1> QED
  BY <1>3, <1>4, <1>5

LEMMA ChainInv ==
    ASSUME BrowserInv, NEW c \in calls, c.tab # None,
           PutFile(c) \/ ConfirmUpload(c) \/ Confirmed(c) \/ UploadFailed(c),
           UNCHANGED <<at, back, token, user, authVars, table, chosen>>
    PROVE  BrowserInv'
<1>1. /\ c.tab \in Tabs /\ ViewOK(at[c.tab], view[c.tab])
      /\ Sound(c) /\ chosen' \subseteq Files
  BY DEF BrowserInv, CallsInv, Sound, Requests, PagesInv
<1>2. {"put", "confirm", "pause"} \subseteq Ops /\ Fits("pause", None)
  BY DEF Ops, Fits
<1>3. CASE PutFile(c)
  <2> PICK u \in c.got : Then(c, "put", [c.about EXCEPT !.by = u]) /\ UNCHANGED view
    BY <1>3 DEF PutFile
  <2>1. c.about \in Upload /\ u \in Users
    BY <1>1, <1>3 DEF PutFile, Sound
  <2>2. Fits("put", [c.about EXCEPT !.by = u])
    BY <2>1 DEF Fits, Upload
  <2> QED
    BY <1>1, <1>2, <2>2, ThenIsSound, QuietInv
<1>4. CASE ConfirmUpload(c)
  <2>1. Fits("confirm", c.about)
    BY <1>1, <1>4 DEF Fits, ConfirmUpload, Sound
  <2> QED
    BY <1>1, <1>2, <1>4, <2>1, ThenIsSound, QuietInv DEF ConfirmUpload
<1>5. CASE Confirmed(c)
  <2> PICK w \in c.got :
         SetView(c.tab, [view[c.tab] EXCEPT !.step = "success", !.sub = w])
    BY <1>5 DEF Confirmed
  <2>1. w \in Rows
    BY <1>1, <1>5 DEF Confirmed, Sound
  <2> QED
    BY <1>1, <1>2, <1>5, <2>1, ThenIsSound, StepFields, ViewInv DEF Confirmed
<1>6. CASE UploadFailed(c)
  BY <1>1, <1>2, <1>6, ThenIsSound, StepFields, ViewInv DEF UploadFailed
<1> QED
  BY <1>3, <1>4, <1>5, <1>6

LEMMA ReceiveInv ==
    ASSUME BrowserInv, NEW c \in calls, Receive(c), UNCHANGED table
    PROVE  BrowserInv'
<1>1. c.tab # None /\ UNCHANGED <<authVars, chosen>>
  BY DEF Receive
<1>2. CASE c.answer \in Unauthorized
  BY <1>1, <1>2, SignOutInv DEF Receive
<1>3. CASE Handled(c)
  <2>1. CASE UNCHANGED <<sessionVars, at>>
             /\ (PutFile(c) \/ ConfirmUpload(c) \/ Confirmed(c) \/ UploadFailed(c))
    BY <1>1, <2>1, ChainInv DEF sessionVars
  <2>2. CASE UNCHANGED <<sessionVars, at>>
             /\ (Loaded(c) \/ Polled(c) \/ ListLoaded(c) \/ Deleted(c))
    BY <1>1, <2>2, LoadedInv, PolledInv, HomeInv DEF sessionVars
  <2>3. CASE c.op = "verify" /\ c.answer = "ok" /\ Verified(c.tab, c)
    BY <1>1, <2>3, VerifiedInv
  <2>4. CASE Done(c) /\ UNCHANGED <<sessionVars, at, view>>
    <3>1. c.tab \in Tabs /\ chosen' \subseteq Files /\ calls' \subseteq calls
      BY <1>1, <2>4 DEF BrowserInv, CallsInv, Sound, Requests, Done
    <3> QED
      BY <1>1, <2>4, <3>1, QuietInv DEF sessionVars
  <2>5. CASE UploadEnds(c) /\ UNCHANGED <<token, user>>
    BY <1>1, <2>5, UploadEndsInv
  <2> QED
    BY <1>3, <2>1, <2>2, <2>3, <2>4, <2>5 DEF Handled
<1> QED
  BY <1>2, <1>3 DEF Receive

-----------------------------------------------------------------------------
LEMMA InitBrowser == Init => BrowserInv
<1> SUFFICES ASSUME Init PROVE BrowserInv
  OBVIOUS
<1> USE DEF Init, SessionInit, ApiInit
<1>1. SessionInv
  BY DEF SessionInv, UserMatchesToken, SessionsHaveUsers
<1>2. TableInv
  BY DEF TableInv, ApiTypeOK, OwnUploads
<1>3. PagesInv
  <2>1. "login" \in Pages /\ NewView \in View
    BY NewViewOK DEF Pages, ViewOK
  <2> QED
    BY <2>1, NewViewOK DEF PagesInv
<1> QED
  BY <1>1, <1>2, <1>3 DEF BrowserInv, CallsInv

LEMMA BrowserStep == BrowserInv /\ [Next]_vars => BrowserInv'
<1>1. ASSUME BrowserInv, Next PROVE BrowserInv'
  BY <1>1, SessionStepInv, ClickInv, ReceiveInv, ServeInv, GradedInv DEF Next
<1>2. ASSUME BrowserInv, UNCHANGED vars PROVE BrowserInv'
  <2>1. UNCHANGED <<token, user, back, at, view, calls, authVars, table, chosen>>
    BY <1>2 DEF vars, sessionVars
  <2>2. SessionInv' /\ TableInv' /\ Grows
    BY <1>2, <2>1, NothingElse DEF BrowserInv
  <2>3. PagesInv'
    BY <1>2, <2>1 DEF BrowserInv, PagesInv, ViewOK
  <2>4. CallsInv'
    BY <1>2, <2>1, <2>2, SoundStays DEF BrowserInv, CallsInv, Located
  <2> QED
    BY <1>2, <2>1, <2>2, <2>3, <2>4 DEF BrowserInv
<1> QED
  BY <1>1, <1>2

LEMMA BrowserInvariance == Spec => []BrowserInv
BY InitBrowser, BrowserStep, PTL DEF Spec

-----------------------------------------------------------------------------
(* Pages, requests, rows and the session are what they can be.              *)
THEOREM BrowserTypeCorrect == Spec => []TypeOK
<1>1. BrowserInv => TypeOK
  BY DEF BrowserInv, TypeOK, SessionTypeOK, SessionInv, PagesInv, CallsInv, Sound,
         TableInv
<1> QED
  BY <1>1, BrowserInvariance, PTL

(* The stored user is the one of the stored token, whatever tabs log in,    *)
(* log out or are logged out, in whatever order.                            *)
THEOREM SessionIsWhole == Spec => []UserMatchesToken
<1>1. BrowserInv => UserMatchesToken
  BY DEF BrowserInv, SessionInv
<1> QED
  BY <1>1, BrowserInvariance, PTL

(* An account with a session is in the users table, also when two first     *)
(* logins of it race for the INSERT.                                        *)
THEOREM UsersComeFirst == Spec => []SessionsHaveUsers
<1>1. BrowserInv => SessionsHaveUsers
  BY DEF BrowserInv, SessionInv
<1> QED
  BY <1>1, BrowserInvariance, PTL

(* A row belongs to the account whose key its file was uploaded to, also    *)
(* when the session changes in the middle of the chain.                     *)
THEOREM UploadsAreOnesOwn == Spec => []OwnUploads
<1>1. BrowserInv => OwnUploads
  BY DEF BrowserInv, TableInv
<1> QED
  BY <1>1, BrowserInvariance, PTL

(* What a dashboard drops from its list is deleted.                         *)
THEOREM OnlyTheDeletedLeave == Spec => []DeletedIsGone
<1>1. BrowserInv => DeletedIsGone
  BY DEF BrowserInv, PagesInv, ViewOK, DeletedIsGone
<1> QED
  BY <1>1, BrowserInvariance, PTL

(* Only a 401 of another session, a 401 without a cause in the session or   *)
(* the logout of the navigation bar removes a token the API still accepts.  *)
THEOREM LiveSessionsLast == Spec => LiveSessionKept
<1> DEFINE Kept == token # None /\ token \notin dead /\ token' = None =>
          \/ \E t \in Tabs : LogOut(t)
          \/ \E c \in calls \ calls' :
                \/ c.answer = "nouser"
                \/ c.answer = "expired" /\ (c.op = "verify" \/ c.token # token)
<1>1. ASSUME BrowserInv, Next, token # None, token \notin dead, token' = None
      PROVE  Kept
  <2>1. CASE SessionStep
    BY <1>1, <2>1
       DEF SessionStep, Visit, FollowLink, Redirect, Expire, sessionVars
  <2>2. CASE \E t \in Tabs : Click(t)
    BY <1>1, <2>2 DEF Click, sessionVars
  <2>3. CASE \E c \in calls : Receive(c)
    <3> PICK c \in calls : Receive(c)
      BY <2>3
    <3>1. Sound(c) /\ c.tab # None
      BY <1>1 DEF BrowserInv, CallsInv, Receive
    <3>2. CASE c.answer \in Unauthorized
      <4>1. c \notin Abandoned(c.tab)
        <5>1. \A d : [d EXCEPT !.tab = None] = c => d \notin calls
          <6> SUFFICES ASSUME NEW d \in calls, [d EXCEPT !.tab = None] = c
                       PROVE  FALSE
            OBVIOUS
          <6>1. d \in Requests
            BY <1>1 DEF BrowserInv, CallsInv, Sound
          <6>2. c.tab = None
            BY <6>1 DEF Requests
          <6> QED
            BY <3>1, <6>2
        <5> QED
          BY <5>1 DEF Abandoned
      <4>2. Opening(c.tab, "login") = {}
        BY WebAssumption DEF Opening
      <4>3. c \in calls \ calls'
        BY <3>2, <4>1, <4>2 DEF Receive, SignOut, Show
      <4>4. c.answer = "expired" /\ c.op # "verify" => c.token # token
        BY <1>1, <3>1 DEF Sound
      <4>5. c.answer \in {"expired", "nouser"}
        BY <3>2 DEF Unauthorized
      <4> QED
        BY <4>3, <4>4, <4>5
    <3>3. CASE c.answer \notin Unauthorized
      <4>1. Handled(c)
        BY <3>3 DEF Receive
      <4>2. ~(c.op = "verify" /\ c.answer = "ok" /\ Verified(c.tab, c))
        BY <1>1, <3>1, WebAssumption DEF Verified, Sound, Issued
      <4> QED
        BY <1>1, <4>1, <4>2 DEF Handled, sessionVars
    <3> QED
      BY <3>2, <3>3
  <2>4. CASE \E c \in calls : Serve(c)
    BY <1>1, <2>4 DEF Serve, sessionVars
  <2>5. CASE \E w \in Rows : Graded(w)
    BY <1>1, <2>5 DEF Graded, sessionVars
  <2> QED
    BY <1>1, <2>1, <2>2, <2>3, <2>4, <2>5 DEF Next
<1>2. ASSUME UNCHANGED vars PROVE Kept
  BY <1>2 DEF vars, sessionVars
<1>3. BrowserInv /\ [Next]_vars => [Kept]_vars
  BY <1>1, <1>2
<1> QED
  BY <1>3, BrowserInvariance, PTL DEF Spec, LiveSessionKept

-----------------------------------------------------------------------------
(* The poll stream of a status page: a page that shows PENDING, or believes *)
(* it refreshes, has a stream; only a running stream has a poll under way,  *)
(* and one at a time, so that no poll survives the stream it belongs to.    *)
Polls(t) == {c \in calls : c.tab = t /\ c.op = "poll"}

Streams(t) ==
    /\ view[t].shown = "PENDING" \/ view[t].refreshing => view[t].stream \in {"on", "broken"}
    /\ \A c \in Polls(t) : view[t].stream = "on" /\ \A d \in Polls(t) : d = c

StreamInv == BrowserInv /\ \A t \in Tabs : Streams(t)

(* A stream that nothing touches: its one poll may get its answer.          *)
LEMMA StreamRests ==
    ASSUME NEW t \in Tabs, Streams(t),
           view'[t].shown = view[t].shown, view'[t].stream = view[t].stream,
           view'[t].refreshing = view[t].refreshing, Polls(t)' \subseteq Polls(t)
    PROVE  Streams(t)'
BY DEF Streams

(* A page that is left takes its stream along.                              *)
LEMMA LeftStreams ==
    ASSUME StreamInv, NEW t \in Tabs, NEW new,
           \A c \in new : c.tab = t /\ c.op # "poll",
           view' = [view EXCEPT ![t] = NewView], calls' = Abandoned(t) \cup new
    PROVE  \A s \in Tabs : Streams(s)'
<1> SUFFICES ASSUME NEW s \in Tabs PROVE Streams(s)'
  OBVIOUS
<1>1. view \in [Tabs -> View] /\ CallsInv /\ Streams(s)
  BY DEF StreamInv, BrowserInv, PagesInv
<1>2. \A c \in Abandoned(t) : c.tab # None => c \in calls /\ c.tab # t
  BY <1>1, AbandonedAreSound
<1>3. s # None
  BY WebAssumption
<1>4. CASE s = t
  <2>1. Polls(s)' = {}
    BY <1>2, <1>3, <1>4 DEF Polls
  <2> QED
    BY <1>1, <1>4, <2>1 DEF Streams, NewView
<1>5. CASE s # t
  <2>1. Polls(s)' \subseteq Polls(s)
    BY <1>2, <1>3, <1>5 DEF Polls
  <2> QED
    BY <1>1, <1>5, <2>1, StreamRests
<1> QED
  BY <1>4, <1>5

LEMMA ShowStreams ==
    ASSUME StreamInv, NEW t \in Tabs, NEW page, Show(t, page)
    PROVE  \A s \in Tabs : Streams(s)'
<1>1. \A c \in Opening(t, page) : c.tab = t /\ c.op # "poll"
  <2>1. CASE page = "home"
    BY <2>1 DEF Opening, Request
  <2>2. CASE page # "home" /\ page \in Rows
    BY <2>2 DEF Opening, Request
  <2>3. CASE page # "home" /\ page \notin Rows
    BY <2>3 DEF Opening
  <2> QED
    BY <2>1, <2>2, <2>3
<1> QED
  BY <1>1, LeftStreams DEF Show

LEMMA EnterStreams ==
    ASSUME StreamInv, NEW t \in Tabs, NEW page, Enter(t, page)
    PROVE  \A s \in Tabs : Streams(s)'
BY ShowStreams DEF Enter

(* Nothing of the tabs' views and streams changes.                          *)
LEMMA RestingStreams ==
    ASSUME StreamInv, UNCHANGED view, \A t \in Tabs : Polls(t)' \subseteq Polls(t)
    PROVE  \A s \in Tabs : Streams(s)'
BY StreamRests DEF StreamInv

LEMMA SessionStreams ==
    ASSUME StreamInv, SessionStep
    PROVE  \A s \in Tabs : Streams(s)'
<1>1. ASSUME NEW t \in Tabs, NEW u, FollowLink(t, u) PROVE \A s \in Tabs : Streams(s)'
  <2> PICK c : c = [Request(t, "verify", u) EXCEPT !.token = None]
    OBVIOUS
  <2> PICK new : new = {c}
    OBVIOUS
  <2>1. c.tab = t /\ c.op = "verify"
    BY DEF Request
  <2>2. \A x \in new : x.tab = t /\ x.op # "poll"
    BY <2>1
  <2> QED
    BY <1>1, <2>2, LeftStreams DEF FollowLink
<1>2. ASSUME NEW n, Expire(n) PROVE \A s \in Tabs : Streams(s)'
  BY <1>2, RestingStreams DEF Expire, Polls
<1> QED
  BY <1>1, <1>2, EnterStreams, ShowStreams DEF SessionStep, Visit, Redirect, LogOut

(* A tab's view and requests change, its stream and its polls do not.       *)
LEMMA SteadyStreams ==
    ASSUME StreamInv, NEW t \in Tabs, NEW v, SetView(t, v),
           v.shown = view[t].shown, v.stream = view[t].stream,
           v.refreshing = view[t].refreshing,
           \A c \in calls' \ calls : c.op # "poll"
    PROVE  \A s \in Tabs : Streams(s)'
<1> SUFFICES ASSUME NEW s \in Tabs PROVE Streams(s)'
  OBVIOUS
<1>1. view \in [Tabs -> View] /\ Streams(s)
  BY DEF StreamInv, BrowserInv, PagesInv
<1>2. Polls(s)' \subseteq Polls(s)
  BY DEF Polls
<1> QED
  BY <1>1, <1>2, StreamRests DEF SetView

(* ... or they do, of that tab only.                                        *)
LEMMA OwnStream ==
    ASSUME StreamInv, NEW t \in Tabs,
           \A s \in Tabs : s # t => view'[s] = view[s],
           \A c \in calls' \ calls : c.op = "poll" => c.tab = t,
           Streams(t)'
    PROVE  \A s \in Tabs : Streams(s)'
<1> SUFFICES ASSUME NEW s \in Tabs, s # t PROVE Streams(s)'
  OBVIOUS
<1>1. Polls(s)' \subseteq Polls(s)
  BY DEF Polls
<1> QED
  BY <1>1, StreamRests DEF StreamInv

LEMMA ClickStreams ==
    ASSUME StreamInv, NEW t \in Tabs, Click(t)
    PROVE  \A s \in Tabs : Streams(s)'
<1>1. /\ view[t] \in View /\ view \in [Tabs -> View] /\ Streams(t)
      /\ CallsInv /\ at[t] \in Pages
  BY DEF StreamInv, BrowserInv, PagesInv
<1>2. CASE \E f \in Files : SelectFile(t, f)
  <2> PICK f \in Files : SelectFile(t, f)
    BY <1>2
  <2> PICK v : v = [view[t] EXCEPT !.file = f]
    OBVIOUS
  <2> QED
    BY <1>1, SteadyStreams DEF SelectFile, View
<1>3. CASE UploadFile(t)
  <2> PICK v : v = [view[t] EXCEPT !.step = "uploading"]
    OBVIOUS
  <2>1. \A c \in calls' \ calls : c.op # "poll"
    BY <1>3 DEF UploadFile, Request
  <2> QED
    BY <1>1, <1>3, <2>1, SteadyStreams DEF UploadFile, View
<1>4. CASE UploadAnother(t)
  <2>1. at[t] \notin Rows /\ view' = [view EXCEPT ![t] = NewView] /\ calls' = calls
    BY <1>4, WebAssumption DEF UploadAnother, SetView
  <2>2. Polls(t)' = {}
    BY <1>1, <2>1, WebAssumption DEF Polls, CallsInv, Located
  <2>3. Streams(t)'
    BY <1>1, <2>1, <2>2 DEF Streams, NewView
  <2> QED
    BY <1>1, <2>1, <2>3, OwnStream
<1>5. CASE Retry(t)
  <2> PICK v : v = [view[t] EXCEPT !.step = "start"]
    OBVIOUS
  <2>1. \A c \in calls' \ calls : c.op # "poll"
    BY <1>5 DEF Retry, Request
  <2> QED
    BY <1>1, <1>5, <2>1, SteadyStreams DEF Retry, View
<1>6. CASE Tick(t)
  <2> PICK c : c = Request(t, "poll", at[t])
    OBVIOUS
  <2>1. /\ calls' = {x \in calls : ~(x.tab = t /\ x.op = "poll")} \cup {c}
        /\ view[t].stream = "on" /\ view' = view
    BY <1>6 DEF Tick
  <2>2. c.tab = t /\ c.op = "poll"
    BY DEF Request
  <2>3. Polls(t)' = {c}
    BY <2>1, <2>2 DEF Polls
  <2>4. Streams(t)'
    BY <2>1, <2>3 DEF Streams
  <2> QED
    BY <2>1, <2>2, <2>4, OwnStream
<1>7. CASE \E w \in Rows : ClickDelete(t, w)
  <2>1. \A c \in calls' \ calls : c.op # "poll"
    BY <1>7 DEF ClickDelete, Request
  <2> QED
    BY <1>7, <2>1, RestingStreams DEF ClickDelete, Polls
<1> QED
  BY <1>2, <1>3, <1>4, <1>5, <1>6, <1>7 DEF Click

LEMMA LoadedStreams ==
    ASSUME StreamInv, NEW c \in calls, c.tab \in Tabs, Loaded(c)
    PROVE  \A s \in Tabs : Streams(s)'
<1> DEFINE t == c.tab
           v == view[t]
           status == CHOOSE s \in c.got : TRUE
           polls == status = "PENDING" /\ ~v.refreshing
<1>1. v \in View /\ view \in [Tabs -> View] /\ Streams(t) /\ calls' \subseteq calls
  BY DEF StreamInv, BrowserInv, PagesInv, Loaded, Done
<1>2. CASE c.answer # "ok"
  <2> PICK x : x = [v EXCEPT !.step = "error"]
    OBVIOUS
  <2> QED
    BY <1>1, <1>2, SteadyStreams DEF Loaded, View
<1>3. CASE c.answer = "ok"
  <2>1. PICK x : x = [v EXCEPT !.shown = status, !.refreshing = v.refreshing \/ polls,
                               !.stream = IF polls THEN "on" ELSE v.stream]
    OBVIOUS
  <2>2. view' = [view EXCEPT ![t] = x]
    BY <1>3, <2>1 DEF Loaded, SetView
  <2>3. /\ x.shown = status /\ x.refreshing = (v.refreshing \/ polls)
        /\ x.stream = IF polls THEN "on" ELSE v.stream
    BY <1>1, <2>1 DEF View
  <2>4. x.shown = "PENDING" \/ x.refreshing => x.stream \in {"on", "broken"}
    BY <1>1, <2>3 DEF Streams
  <2>5. Polls(t)' \subseteq Polls(t)
    BY <1>1 DEF Polls
  <2>6. v.stream = "on" => x.stream = "on"
    BY <2>3
  <2> HIDE DEF t, v
  <2>7. Streams(t)'
    <3>1. view'[t] = x /\ v = view[t]
      BY <1>1, <2>2 DEF t, v
    <3> QED
      BY <1>1, <2>4, <2>5, <2>6, <3>1 DEF Streams
  <2> QED
    BY <1>1, <2>2, <2>7, OwnStream DEF t
<1> QED
  BY <1>2, <1>3

LEMMA PolledStreams ==
    ASSUME StreamInv, NEW c \in calls, c.tab \in Tabs, Polled(c)
    PROVE  \A s \in Tabs : Streams(s)'
<1> DEFINE t == c.tab
           v == view[t]
<1>1. /\ v \in View /\ view \in [Tabs -> View] /\ Streams(t) /\ calls' = calls \ {c}
      /\ c \in Polls(t)
  BY DEF StreamInv, BrowserInv, PagesInv, Polled, Done, Polls
<1>2. Polls(t)' = {} /\ v.stream = "on"
  BY <1>1 DEF Polls, Streams
<1>3. ASSUME NEW x, SetView(t, x),
             x.shown = "PENDING" \/ x.refreshing => x.stream \in {"on", "broken"}
      PROVE  \A s \in Tabs : Streams(s)'
  <2>1. Streams(t)'
    BY <1>1, <1>2, <1>3 DEF Streams, SetView
  <2> QED
    BY <1>1, <1>3, <2>1, OwnStream DEF SetView
<1>4. CASE c.answer # "ok"
  <2> PICK x : x = [v EXCEPT !.stream = "broken"]
    OBVIOUS
  <2>1. SetView(t, x) /\ x.stream = "broken"
    BY <1>1, <1>4 DEF Polled, View
  <2> QED
    BY <1>3, <2>1
<1>5. CASE c.answer = "ok" /\ c.got = {"PENDING"}
  <2> PICK x : x = [v EXCEPT !.shown = "PENDING"]
    OBVIOUS
  <2>1. SetView(t, x) /\ x.stream = v.stream
    BY <1>1, <1>5 DEF Polled, View
  <2> QED
    BY <1>2, <1>3, <2>1
<1>6. CASE c.answer = "ok" /\ c.got # {"PENDING"}
  <2> PICK x : x = [v EXCEPT !.shown = "final", !.stream = "off", !.refreshing = FALSE]
    OBVIOUS
  <2>1. SetView(t, x) /\ x.shown = "final" /\ ~x.refreshing
    BY <1>1, <1>6 DEF Polled, View
  <2> QED
    BY <1>3, <2>1
<1> QED
  BY <1>4, <1>5, <1>6

LEMMA ReceiveStreams ==
    ASSUME StreamInv, NEW c \in calls, Receive(c)
    PROVE  \A s \in Tabs : Streams(s)'
<1> DEFINE t == c.tab
<1>1. t \in Tabs /\ view[t] \in View /\ view \in [Tabs -> View]
  BY DEF Receive, StreamInv, BrowserInv, PagesInv, CallsInv, Sound, Requests
<1>2. ASSUME UNCHANGED view, \A d \in calls' \ calls : d.op # "poll"
      PROVE  \A s \in Tabs : Streams(s)'
  BY <1>2, RestingStreams DEF Polls
<1>3. ASSUME NEW op, NEW about, Then(c, op, about), op # "poll"
      PROVE  \A d \in calls' \ calls : d.op # "poll"
  BY <1>3 DEF Then, Request
<1>4. CASE c.answer \in Unauthorized
  BY <1>1, <1>4, ShowStreams DEF Receive, SignOut
<1>5. CASE PutFile(c) \/ ConfirmUpload(c)
  BY <1>2, <1>3, <1>5 DEF PutFile, ConfirmUpload
<1>6. CASE Confirmed(c)
  <2> PICK w : SetView(t, [view[t] EXCEPT !.step = "success", !.sub = w])
    BY <1>6 DEF Confirmed
  <2> PICK v : v = [view[t] EXCEPT !.step = "success", !.sub = w]
    OBVIOUS
  <2> QED
    BY <1>1, <1>3, <1>6, SteadyStreams DEF Confirmed, View
<1>7. CASE UploadFailed(c)
  <2> PICK v : v = [view[t] EXCEPT !.step = "error"]
    OBVIOUS
  <2> QED
    BY <1>1, <1>3, <1>7, SteadyStreams DEF UploadFailed, View
<1>8. CASE Loaded(c) \/ Polled(c)
  BY <1>1, <1>8, LoadedStreams, PolledStreams
<1>9. CASE ListLoaded(c)
  <2> PICK v : v = [view[t] EXCEPT !.seen = c.got]
    OBVIOUS
  <2> QED
    BY <1>1, <1>9, SteadyStreams DEF ListLoaded, Done, View
<1>10. CASE Deleted(c)
  <2> PICK v : v = [view[t] EXCEPT !.removed = view[t].removed \cup {c.about}]
    OBVIOUS
  <2> QED
    BY <1>1, <1>2, <1>10, SteadyStreams DEF Deleted, Done, View
<1>11. CASE Verified(t, c)
  <2> PICK v : v = [view[t] EXCEPT !.step = "success"]
    OBVIOUS
  <2> QED
    BY <1>1, <1>11, SteadyStreams DEF Verified, SetView, View
<1>12. CASE Done(c) /\ UNCHANGED view
  BY <1>2, <1>12 DEF Done
<1>13. CASE UploadEnds(c)
  BY <1>1, <1>12, <1>13, EnterStreams DEF UploadEnds
<1> QED
  BY <1>4, <1>5, <1>6, <1>7, <1>8, <1>9, <1>10, <1>11, <1>12, <1>13
     DEF Receive, Handled

LEMMA AnsweredStreams ==
    ASSUME StreamInv, UNCHANGED view, NEW c \in calls, NEW d,
           d.tab = c.tab, d.op = c.op, calls' \subseteq (calls \ {c}) \cup {d}
    PROVE  \A s \in Tabs : Streams(s)'
<1> SUFFICES ASSUME NEW s \in Tabs PROVE Streams(s)'
  OBVIOUS
<1>1. Streams(s)
  BY DEF StreamInv
<1>2. \A x \in Polls(s)' : x \in Polls(s) \/ (x = d /\ c \in Polls(s))
  BY DEF Polls
<1>3. c \notin Polls(s)' \/ c = d
  BY DEF Polls
<1>4. \A x, y \in Polls(s)' : x = y
  BY <1>1, <1>2, <1>3 DEF Streams
<1>5. \A x \in Polls(s)' : view[s].stream = "on"
  BY <1>1, <1>2 DEF Streams
<1> QED
  BY <1>1, <1>4, <1>5 DEF Streams

LEMMA ServeStreams ==
    ASSUME StreamInv, NEW c \in calls, Serve(c)
    PROVE  \A s \in Tabs : Streams(s)'
<1>1. UNCHANGED view /\ c \in Requests
  BY DEF Serve, StreamInv, BrowserInv, CallsInv, Sound
<1>2. ASSUME NEW answer, NEW got, Answer(c, answer, got)
      PROVE  \A s \in Tabs : Streams(s)'
  <2> PICK d : d = [c EXCEPT !.answer = answer, !.got = got,
                             !.token = IF answer = "expired" THEN @ ELSE None]
    OBVIOUS
  <2>1. d.tab = c.tab /\ d.op = c.op
    BY <1>1 DEF Requests
  <2>2. calls' \subseteq (calls \ {c}) \cup {d}
    BY <1>2 DEF Answer
  <2> QED
    BY <1>1, <2>1, <2>2, AnsweredStreams
<1>3. ASSUME Issue(c) PROVE \A s \in Tabs : Streams(s)'
  <2> PICK d : d = [c EXCEPT !.answer = "ok", !.got = {FreshToken}]
    OBVIOUS
  <2>1. d.tab = c.tab /\ d.op = c.op
    BY <1>1 DEF Requests
  <2>2. CASE c.tab # None
    <3>1. calls' \subseteq (calls \ {c}) \cup {d}
      BY <1>3, <2>2 DEF Issue
    <3> QED
      BY <1>1, <2>1, <3>1, AnsweredStreams
  <2>3. CASE c.tab = None
    BY <1>1, <1>3, <2>3, RestingStreams DEF Issue, Polls
  <2> QED
    BY <2>2, <2>3
<1>4. ASSUME NEW got, calls' = (calls \ {c}) \cup {[c EXCEPT !.got = got]}
      PROVE  \A s \in Tabs : Streams(s)'
  <2> PICK d : d = [c EXCEPT !.got = got]
    OBVIOUS
  <2>1. d.tab = c.tab /\ d.op = c.op
    BY <1>1 DEF Requests
  <2> QED
    BY <1>1, <1>4, <2>1, AnsweredStreams
<1>5. CASE VerifyLink(c)
  BY <1>2, <1>3, <1>4, <1>5 DEF VerifyLink, Fails
<1>6. CASE Guard(c) \/ Fails(c) \/ Read(c) \/ Confirm(c) \/ Delete(c)
  BY <1>2, <1>6 DEF Guard, Fails, Read, Feedback, Confirm, Insert, Delete
<1> QED
  BY <1>5, <1>6 DEF Serve

LEMMA StreamStep == StreamInv /\ [Next]_vars => StreamInv'
<1> SUFFICES ASSUME StreamInv, [Next]_vars PROVE \A s \in Tabs : Streams(s)'
  BY BrowserStep DEF StreamInv
<1>1. CASE Next
  <2>1. ASSUME NEW w, Graded(w) PROVE \A s \in Tabs : Streams(s)'
    BY <2>1, RestingStreams DEF Graded, Polls
  <2> QED
    BY <1>1, <2>1, SessionStreams, ClickStreams, ReceiveStreams, ServeStreams DEF Next
<1>2. CASE UNCHANGED vars
  BY <1>2, RestingStreams DEF vars, Polls
<1> QED
  BY <1>1, <1>2

LEMMA InitStreams == Init => StreamInv
BY InitBrowser DEF Init, SessionInit, StreamInv, Streams, Polls, NewView

(* A page that shows PENDING polls, or one of its polls failed, also when   *)
(* loads of the Refresh button run beside the stream and answers overtake   *)
(* one another.                                                             *)
THEOREM WaitingPagesPoll == Spec => []FollowsUntilFinal
<1>1. StreamInv => FollowsUntilFinal
  BY DEF StreamInv, Streams, FollowsUntilFinal
<1>2. Spec => []StreamInv
  BY InitStreams, StreamStep, PTL DEF Spec
<1> QED
  BY <1>1, <1>2, PTL

-----------------------------------------------------------------------------
(* What becomes of one choice of a file: a page is ready to upload it, then *)
(* a request of a chain carries it, then a row holds it.                    *)
Ready(t, f) == view[t].step = "start" /\ view[t].file = f

Carries(c, f) ==
    /\ \/ c.op \in {"request", "put"}
       \/ c.op = "confirm" /\ c.answer = "none"
    /\ c.about.file = f

Holds(w, f) == table[w] # Empty /\ table[w].upload.file = f

(* A choice is in one place at a time, and in none before it is made.       *)
Once(f) ==
    /\ \A t, s \in Tabs : Ready(t, f) /\ Ready(s, f) => t = s
    /\ \A c, d \in calls : Carries(c, f) /\ Carries(d, f) => c = d
    /\ \A v, w \in Rows : Holds(v, f) /\ Holds(w, f) => v = w
    /\ \A t \in Tabs, c \in calls : ~(Ready(t, f) /\ Carries(c, f))
    /\ \A t \in Tabs, w \in Rows : ~(Ready(t, f) /\ Holds(w, f))
    /\ \A c \in calls, w \in Rows : ~(Carries(c, f) /\ Holds(w, f))
    /\ f \notin chosen =>
          /\ \A t \in Tabs : ~Ready(t, f)
          /\ \A c \in calls : ~Carries(c, f)
          /\ \A w \in Rows : ~Holds(w, f)

FilesAtUpload == \A t \in Tabs : view[t].file # None => at[t] = "upload"

ChoiceInv == BrowserInv /\ FilesAtUpload /\ \A f \in Files : Once(f)

(* The steps that take no choice from one place to the next.                *)
ViewsPass ==
    \A t \in Tabs : view'[t].file # None =>
        /\ view'[t].file = view[t].file /\ at'[t] = at[t]
        /\ view'[t].step = "start" => view[t].step = "start"

CallsPass(f) ==
    \A c \in calls' : Carries(c, f) =>
        /\ \E d \in calls : Carries(d, f)
        /\ \A d \in calls' : Carries(d, f) => c = d

RowsPass ==
    \A w \in Rows : table'[w] # Empty =>
        table[w] # Empty /\ table'[w].upload = table[w].upload

LEMMA PassInv ==
    ASSUME ChoiceInv, BrowserInv', ViewsPass, \A f \in Files : CallsPass(f),
           RowsPass, chosen \subseteq chosen'
    PROVE  ChoiceInv'
<1>1. FilesAtUpload'
  BY DEF ChoiceInv, FilesAtUpload, ViewsPass
<1>2. ASSUME NEW f \in Files PROVE Once(f)'
  <2>1. \A t \in Tabs : Ready(t, f)' => Ready(t, f)
    BY WebAssumption DEF ViewsPass, Ready
  <2>2. \A w \in Rows : Holds(w, f)' => Holds(w, f)
    BY DEF RowsPass, Holds
  <2>3. Once(f) /\ CallsPass(f)
    BY DEF ChoiceInv
  <2> QED
    BY <2>1, <2>2, <2>3 DEF Once, CallsPass
<1> QED
  BY <1>1, <1>2 DEF ChoiceInv

LEMMA OneViewPasses ==
    ASSUME BrowserInv, NEW t \in Tabs, NEW v, SetView(t, v), UNCHANGED at,
           v.file # None => /\ v.file = view[t].file
                            /\ v.step = "start" => view[t].step = "start"
    PROVE  ViewsPass
BY DEF BrowserInv, PagesInv, SetView, ViewsPass

LEMMA FewerCallsPass ==
    ASSUME NEW f, Once(f), \A c \in calls' \ calls : ~Carries(c, f)
    PROVE  CallsPass(f)
BY DEF Once, CallsPass

LEMMA ReplacedCallPasses ==
    ASSUME NEW f, Once(f), NEW c \in calls, NEW d,
           calls' \subseteq (calls \ {c}) \cup {d}, Carries(d, f) => Carries(c, f)
    PROVE  CallsPass(f)
BY DEF Once, CallsPass

LEMMA AbandonedCallsPass ==
    ASSUME CallsInv, NEW f, Once(f), NEW t \in Tabs, NEW new,
           calls' = Abandoned(t) \cup new, \A c \in new : ~Carries(c, f)
    PROVE  CallsPass(f)
<1>1. ASSUME NEW x \in Abandoned(t), Carries(x, f)
      PROVE  \E c \in calls : Carries(c, f) /\ x = (IF c.tab = t THEN [c EXCEPT !.tab = None] ELSE c)
  <2>1. CASE x \in {c \in calls : c.tab # t}
    BY <1>1, <2>1
  <2>2. CASE \E c \in calls : c.tab = t /\ c.answer = "none" /\ x = [c EXCEPT !.tab = None]
    <3> PICK c \in calls : c.tab = t /\ c.answer = "none" /\ x = [c EXCEPT !.tab = None]
      BY <2>2
    <3>1. x.op = c.op /\ x.answer = c.answer /\ x.about = c.about
      BY DEF CallsInv, Sound, Requests
    <3> QED
      BY <1>1, <3>1 DEF Carries
  <2> QED
    BY <1>1, <2>1, <2>2 DEF Abandoned
<1>2. ASSUME NEW x \in calls', NEW y \in calls', Carries(x, f), Carries(y, f)
      PROVE  x = y
  <2>1. x \in Abandoned(t) /\ y \in Abandoned(t)
    BY <1>2
  <2>2. PICK c \in calls : Carries(c, f) /\ x = (IF c.tab = t THEN [c EXCEPT !.tab = None] ELSE c)
    BY <1>1, <1>2, <2>1
  <2>3. PICK d \in calls : Carries(d, f) /\ y = (IF d.tab = t THEN [d EXCEPT !.tab = None] ELSE d)
    BY <1>1, <1>2, <2>1
  <2>4. c = d
    BY <2>2, <2>3 DEF Once
  <2> QED
    BY <2>2, <2>3, <2>4
<1> QED
  BY <1>1, <1>2 DEF CallsPass

(* Leaving a page drops its choice.                                         *)
LEMMA LeaveChoice ==
    ASSUME ChoiceInv, BrowserInv', NEW t \in Tabs, NEW page, NEW new,
           at' = [at EXCEPT ![t] = page],
           view' = [view EXCEPT ![t] = NewView],
           calls' = Abandoned(t) \cup new,
           \A c \in new : c.op \in {"list", "load", "verify"},
           UNCHANGED <<table, chosen>>
    PROVE  ChoiceInv'
<1>1. ViewsPass
  <2>1. NewView.file = None
    BY DEF NewView
  <2> QED
    BY <2>1 DEF ViewsPass, ChoiceInv, BrowserInv, PagesInv
<1>2. \A f \in Files : CallsPass(f)
  <2>1. ASSUME NEW f \in Files PROVE CallsPass(f)
    <3>1. \A c \in new : ~Carries(c, f)
      BY DEF Carries
    <3> QED
      BY <3>1, AbandonedCallsPass DEF ChoiceInv, BrowserInv
  <2> QED
    BY <2>1
<1> QED
  BY <1>1, <1>2, PassInv DEF RowsPass

LEMMA ShowChoice ==
    ASSUME ChoiceInv, BrowserInv', NEW t \in Tabs, NEW page, Show(t, page),
           UNCHANGED <<table, chosen>>
    PROVE  ChoiceInv'
<1>1. \A c \in Opening(t, page) : c.op \in {"list", "load", "verify"}
  <2>1. CASE page = "home"
    BY <2>1 DEF Opening, Request
  <2>2. CASE page # "home" /\ page \in Rows
    BY <2>2 DEF Opening, Request
  <2>3. CASE page # "home" /\ page \notin Rows
    BY <2>3 DEF Opening
  <2> QED
    BY <2>1, <2>2, <2>3
<1> QED
  BY <1>1, LeaveChoice DEF Show

LEMMA EnterChoice ==
    ASSUME ChoiceInv, BrowserInv', NEW t \in Tabs, NEW page, Enter(t, page),
           UNCHANGED <<table, chosen>>
    PROVE  ChoiceInv'
BY ShowChoice DEF Enter

LEMMA SessionChoice ==
    ASSUME ChoiceInv, BrowserInv', SessionStep, UNCHANGED <<table, chosen>>
    PROVE  ChoiceInv'
<1>1. ASSUME NEW t \in Tabs, NEW page, Visit(t, page) PROVE ChoiceInv'
  BY <1>1, EnterChoice DEF Visit
<1>2. ASSUME NEW t \in Tabs, NEW u, FollowLink(t, u) PROVE ChoiceInv'
  <2> PICK new : new = {[Request(t, "verify", u) EXCEPT !.token = None]}
    OBVIOUS
  <2>1. \A c \in new : c.op \in {"list", "load", "verify"}
    BY DEF Request
  <2> QED
    BY <1>2, <2>1, LeaveChoice DEF FollowLink
<1>3. ASSUME NEW t \in Tabs, Redirect(t) PROVE ChoiceInv'
  BY <1>3, EnterChoice DEF Redirect
<1>4. ASSUME NEW t \in Tabs, LogOut(t) PROVE ChoiceInv'
  BY <1>4, ShowChoice DEF LogOut
<1>5. ASSUME NEW n, Expire(n) PROVE ChoiceInv'
  <2>1. \A f \in Files : CallsPass(f)
    BY <1>5, FewerCallsPass DEF Expire, ChoiceInv
  <2> QED
    BY <1>5, <2>1, PassInv DEF Expire, ViewsPass, RowsPass
<1> QED
  BY <1>1, <1>2, <1>3, <1>4, <1>5 DEF SessionStep

(* Choosing a file and starting its upload.                                 *)
LEMMA SelectChoice ==
    ASSUME ChoiceInv, BrowserInv', NEW t \in Tabs, NEW g \in Files,
           SelectFile(t, g), UNCHANGED <<at, table>>
    PROVE  ChoiceInv'
<1> DEFINE v == [view[t] EXCEPT !.file = g]
<1>1. /\ at[t] = "upload" /\ g \notin chosen /\ chosen' = chosen \cup {g}
      /\ view' = [view EXCEPT ![t] = v] /\ UNCHANGED calls
      /\ view \in [Tabs -> View]
  BY DEF SelectFile, SetView, ChoiceInv, BrowserInv, PagesInv
<1>2. v.file = g /\ v.step = view[t].step
  BY <1>1 DEF View
<1> HIDE DEF v
<1>3. FilesAtUpload'
  BY <1>1, <1>2 DEF ChoiceInv, FilesAtUpload
<1>4. ASSUME NEW f \in Files PROVE Once(f)'
  <2>1. \A w \in Rows : Holds(w, f)' = Holds(w, f)
    BY DEF Holds
  <2>2. Once(f)
    BY DEF ChoiceInv
  <2>3. CASE f = g
    <3>1. \A s \in Tabs : Ready(s, f)' => s = t
      BY <1>1, <1>2, <2>2, <2>3 DEF Ready, Once
    <3> QED
      BY <1>1, <2>1, <2>2, <2>3, <3>1 DEF Once
  <2>4. CASE f # g
    <3>1. \A s \in Tabs : Ready(s, f)' => Ready(s, f)
      BY <1>1, <1>2, <2>4 DEF Ready
    <3> QED
      BY <1>1, <2>1, <2>2, <2>4, <3>1 DEF Once
  <2> QED
    BY <2>3, <2>4
<1> QED
  BY <1>3, <1>4 DEF ChoiceInv

LEMMA UploadChoice ==
    ASSUME ChoiceInv, BrowserInv', NEW t \in Tabs, UploadFile(t),
           UNCHANGED <<at, table, chosen>>
    PROVE  ChoiceInv'
<1> DEFINE v == [view[t] EXCEPT !.step = "uploading"]
           c == Request(t, "request", [file |-> view[t].file, by |-> None])
<1>1. /\ view[t].step = "start"
      /\ view' = [view EXCEPT ![t] = v] /\ calls' = calls \cup {c}
      /\ view \in [Tabs -> View]
  BY DEF UploadFile, SetView, ChoiceInv, BrowserInv, PagesInv
<1>2. v.file = view[t].file /\ v.step = "uploading"
  BY <1>1 DEF View
<1>3. c.op = "request" /\ c.about.file = view[t].file
  BY DEF Request
<1> HIDE DEF v, c
<1>4. FilesAtUpload'
  BY <1>1, <1>2 DEF ChoiceInv, FilesAtUpload
<1>5. ASSUME NEW f \in Files PROVE Once(f)'
  <2>1. \A w \in Rows : Holds(w, f)' = Holds(w, f)
    BY DEF Holds
  <2>2. Once(f)
    BY DEF ChoiceInv
  <2>3. \A s \in Tabs : Ready(s, f)' => Ready(s, f) /\ s # t
    BY <1>1, <1>2 DEF Ready
  <2>4. Carries(c, f) => Ready(t, f)
    BY <1>1, <1>3 DEF Carries, Ready
  <2> QED
    BY <1>1, <2>1, <2>2, <2>3, <2>4 DEF Once
<1> QED
  BY <1>4, <1>5 DEF ChoiceInv

LEMMA ClickChoice ==
    ASSUME ChoiceInv, BrowserInv', NEW t \in Tabs, Click(t), UNCHANGED table
    PROVE  ChoiceInv'
<1>v. view[t] \in View /\ BrowserInv /\ UNCHANGED at
  BY DEF Click, ChoiceInv, BrowserInv, PagesInv
<1>r. RowsPass
  BY DEF RowsPass
<1>1. CASE \E f \in Files : SelectFile(t, f)
  BY <1>v, <1>1, SelectChoice
<1>2. CASE UploadFile(t) /\ UNCHANGED chosen
  BY <1>v, <1>2, UploadChoice
<1>3. CASE UploadAnother(t) /\ UNCHANGED chosen
  <2>1. SetView(t, NewView) /\ UNCHANGED calls /\ NewView.file = None
    BY <1>3 DEF UploadAnother, NewView
  <2>2. ViewsPass
    BY <1>v, <2>1, OneViewPasses
  <2>3. \A f \in Files : CallsPass(f)
    BY <2>1, FewerCallsPass DEF ChoiceInv
  <2> QED
    BY <1>3, <1>r, <2>2, <2>3, PassInv
<1>4. CASE Retry(t) /\ UNCHANGED chosen
  <2> PICK v : v = [view[t] EXCEPT !.step = "start"]
    OBVIOUS
  <2>1. SetView(t, v) /\ calls' = calls \cup {Request(t, "load", at[t])} /\ at[t] \in Rows
    BY <1>4 DEF Retry
  <2>2. view[t].file = None
    BY <2>1, WebAssumption DEF ChoiceInv, FilesAtUpload
  <2>3. v.file = None
    BY <1>v, <2>2 DEF View
  <2>4. ViewsPass
    BY <1>v, <2>1, <2>3, OneViewPasses
  <2>5. ASSUME NEW f \in Files PROVE CallsPass(f)
    BY <2>1, FewerCallsPass DEF ChoiceInv, Carries, Request
  <2> QED
    BY <1>4, <1>r, <2>4, <2>5, PassInv
<1>5. CASE (Tick(t) \/ \E w \in Rows : ClickDelete(t, w)) /\ UNCHANGED chosen
  <2>1. UNCHANGED view /\ \A c \in calls' \ calls : c.op \in {"poll", "delete"}
    BY <1>5 DEF Tick, ClickDelete, Request
  <2>2. ViewsPass
    BY <1>v, <2>1 DEF ViewsPass
  <2>3. ASSUME NEW f \in Files PROVE CallsPass(f)
    BY <2>1, FewerCallsPass DEF ChoiceInv, Carries
  <2> QED
    BY <1>5, <1>r, <2>2, <2>3, PassInv
<1> QED
  BY <1>1, <1>2, <1>3, <1>4, <1>5 DEF Click

(* An answer: the next request of a chain carries what the last one did.    *)
LEMMA ThenPasses ==
    ASSUME ChoiceInv, NEW c \in calls, NEW op, NEW about, Then(c, op, about),
           \/ op = "pause"
           \/ op = "put" /\ c.op = "request" /\ about.file = c.about.file
           \/ op = "confirm" /\ c.op = "put" /\ about = c.about
    PROVE  \A f \in Files : CallsPass(f)
<1> DEFINE d == Request(c.tab, op, about)
<1>1. calls' = (calls \ {c}) \cup {d}
  BY DEF Then
<1>2. d.op = op /\ d.about = about
  BY DEF Request
<1> HIDE DEF d
<1>3. ASSUME NEW f \in Files PROVE CallsPass(f)
  <2>1. Carries(d, f) => Carries(c, f)
    BY <1>2 DEF Carries
  <2> QED
    BY <1>1, <2>1, ReplacedCallPasses DEF ChoiceInv
<1> QED
  BY <1>3

LEMMA ReceiveChoice ==
    ASSUME ChoiceInv, BrowserInv', NEW c \in calls, Receive(c), UNCHANGED table
    PROVE  ChoiceInv'
<1> DEFINE t == c.tab
<1>1. /\ t \in Tabs /\ view[t] \in View /\ Sound(c)
      /\ UNCHANGED chosen /\ BrowserInv
  BY DEF Receive, ChoiceInv, BrowserInv, PagesInv, CallsInv, Sound, Requests
<1>r. RowsPass
  BY DEF RowsPass
<1>d. ASSUME Done(c) \/ calls' = calls \ {c} PROVE \A f \in Files : CallsPass(f)
  BY <1>d, FewerCallsPass DEF Done, ChoiceInv
<1>q. ASSUME UNCHANGED <<view, at>> PROVE ViewsPass
  BY <1>q DEF ViewsPass
<1>2. CASE c.answer \in Unauthorized
  BY <1>1, <1>2, ShowChoice DEF Receive, SignOut
<1>3. CASE UNCHANGED at /\ PutFile(c)
  <2>1. c.about \in Upload
    BY <1>1, <1>3 DEF PutFile, Sound
  <2>2. \A u : [c.about EXCEPT !.by = u].file = c.about.file
    BY <2>1 DEF Upload
  <2> PICK u : Then(c, "put", [c.about EXCEPT !.by = u])
    BY <1>3 DEF PutFile
  <2>3. \A f \in Files : CallsPass(f)
    BY <1>3, <2>2, ThenPasses DEF PutFile
  <2> QED
    BY <1>1, <1>3, <1>q, <1>r, <2>3, PassInv DEF PutFile
<1>4. CASE UNCHANGED at /\ ConfirmUpload(c)
  BY <1>1, <1>4, <1>q, <1>r, ThenPasses, PassInv DEF ConfirmUpload
<1>5. CASE UNCHANGED at /\ (Confirmed(c) \/ UploadFailed(c))
  <2>1. PICK v : /\ SetView(t, v)
                 /\ v.file = view[t].file /\ v.step \in {"success", "error"}
    <3>1. CASE Confirmed(c)
      <4> PICK w : SetView(t, [view[t] EXCEPT !.step = "success", !.sub = w])
        BY <3>1 DEF Confirmed
      <4> PICK v : v = [view[t] EXCEPT !.step = "success", !.sub = w]
        OBVIOUS
      <4>1. SetView(t, v)
        OBVIOUS
      <4>2. v.file = view[t].file /\ v.step = "success"
        BY <1>1 DEF View
      <4> QED
        BY <4>1, <4>2
    <3>2. CASE UploadFailed(c)
      <4> PICK v : v = [view[t] EXCEPT !.step = "error"]
        OBVIOUS
      <4> QED
        BY <1>1, <3>2 DEF UploadFailed, View
    <3> QED
      BY <1>5, <3>1, <3>2
  <2>2. ViewsPass
    BY <1>1, <1>5, <2>1, OneViewPasses
  <2>3. \A f \in Files : CallsPass(f)
    BY <1>5, ThenPasses DEF Confirmed, UploadFailed
  <2> QED
    BY <1>1, <1>r, <2>2, <2>3, PassInv
<1>6. CASE UNCHANGED at /\ (Loaded(c) \/ Polled(c) \/ ListLoaded(c) \/ Deleted(c))
  <2>1. \A f \in Files : CallsPass(f)
    BY <1>d, <1>6 DEF Loaded, Polled, ListLoaded, Deleted
  <2>2. CASE UNCHANGED view
    BY <1>1, <1>6, <1>q, <1>r, <2>1, <2>2, PassInv
  <2>3. CASE \E v : /\ SetView(t, v) /\ v.file = view[t].file
                    /\ v.step = "start" => view[t].step = "start"
    <3>1. ViewsPass
      BY <1>1, <1>6, <2>3, OneViewPasses
    <3> QED
      BY <1>1, <1>r, <2>1, <3>1, PassInv
  <2>4. CASE Loaded(c)
    <3>1. CASE c.answer = "ok"
      <4>1. PICK status, refreshing, stream :
               SetView(t, [view[t] EXCEPT !.shown = status, !.refreshing = refreshing,
                                          !.stream = stream])
        BY <2>4, <3>1 DEF Loaded
      <4>2. PICK v : v = [view[t] EXCEPT !.shown = status, !.refreshing = refreshing,
                                         !.stream = stream]
        OBVIOUS
      <4>3. v.file = view[t].file /\ v.step = view[t].step
        BY <1>1, <4>2 DEF View
      <4> QED
        BY <2>3, <4>1, <4>2, <4>3
    <3>2. CASE c.answer # "ok"
      <4> PICK v : v = [view[t] EXCEPT !.step = "error"]
        OBVIOUS
      <4> QED
        BY <1>1, <2>3, <2>4, <3>2 DEF Loaded, View
    <3> QED
      BY <3>1, <3>2
  <2>5. CASE Polled(c)
    <3>1. CASE c.answer # "ok"
      <4> PICK v : v = [view[t] EXCEPT !.stream = "broken"]
        OBVIOUS
      <4>1. SetView(t, v) /\ v.file = view[t].file /\ v.step = view[t].step
        BY <1>1, <2>5, <3>1 DEF Polled, View
      <4> QED
        BY <2>3, <4>1
    <3>2. CASE c.answer = "ok" /\ c.got = {"PENDING"}
      <4> PICK v : v = [view[t] EXCEPT !.shown = "PENDING"]
        OBVIOUS
      <4>1. SetView(t, v) /\ v.file = view[t].file /\ v.step = view[t].step
        BY <1>1, <2>5, <3>2 DEF Polled, View
      <4> QED
        BY <2>3, <4>1
    <3>3. CASE c.answer = "ok" /\ c.got # {"PENDING"}
      <4> PICK v : v = [view[t] EXCEPT !.shown = "final", !.stream = "off",
                                       !.refreshing = FALSE]
        OBVIOUS
      <4>1. SetView(t, v) /\ v.file = view[t].file /\ v.step = view[t].step
        BY <1>1, <2>5, <3>3 DEF Polled, View
      <4> QED
        BY <2>3, <4>1
    <3> QED
      BY <3>1, <3>2, <3>3
  <2>6. CASE ListLoaded(c)
    BY <1>1, <2>3, <2>6 DEF ListLoaded, View
  <2>7. CASE Deleted(c)
    BY <1>1, <2>2, <2>3, <2>7 DEF Deleted, View
  <2> QED
    BY <1>6, <2>4, <2>5, <2>6, <2>7
<1>7. CASE Verified(t, c)
  <2> PICK v : v = [view[t] EXCEPT !.step = "success"]
    OBVIOUS
  <2>1. v.file = view[t].file /\ v.step = "success"
    BY <1>1 DEF View
  <2>2. SetView(t, v) /\ UNCHANGED at /\ calls' = calls \ {c}
    BY <1>1, <1>7 DEF Verified, SetView, BrowserInv, PagesInv
  <2>3. ViewsPass
    BY <1>1, <2>1, <2>2, OneViewPasses
  <2> QED
    BY <1>1, <1>d, <1>r, <2>2, <2>3, PassInv
<1>8. CASE Done(c) /\ UNCHANGED <<at, view>>
  BY <1>1, <1>d, <1>q, <1>r, <1>8, PassInv
<1>9. CASE UploadEnds(c)
  BY <1>1, <1>8, <1>9, EnterChoice DEF UploadEnds
<1> QED
  BY <1>2, <1>3, <1>4, <1>5, <1>6, <1>7, <1>8, <1>9 DEF Receive, Handled

(* An answer of the API; the one to a confirm may have stored the choice.   *)
LEMMA AnswerPasses ==
    ASSUME CallsInv, NEW f, Once(f), NEW c \in calls, c.answer = "none",
           NEW answer, NEW got, Answer(c, answer, got)
    PROVE  CallsPass(f)
<1> DEFINE d == [c EXCEPT !.answer = answer, !.got = got,
                          !.token = IF answer = "expired" THEN @ ELSE None]
<1>1. calls' \subseteq (calls \ {c}) \cup {d}
  BY DEF Answer
<1>2. d.op = c.op /\ d.about = c.about
  BY DEF CallsInv, Sound, Requests
<1> HIDE DEF d
<1>3. Carries(d, f) => Carries(c, f)
  BY <1>2 DEF Carries
<1> QED
  BY <1>1, <1>3, ReplacedCallPasses

LEMMA InsertChoice ==
    ASSUME ChoiceInv, BrowserInv', NEW c \in calls, c.answer = "none",
           c.op = "confirm", Insert(c), UNCHANGED <<at, view, chosen>>
    PROVE  ChoiceInv'
<1>1. PICK w \in Rows :
         table' = [table EXCEPT ![w] = [owner |-> Principal(c), upload |-> c.about,
                                         status |-> "PENDING"]]
  BY DEF Insert, Free
<1>2. PICK answer \in {"ok", "failed"} : \E got : Answer(c, answer, got)
  BY DEF Insert, Fails
<1>3. PICK got : Answer(c, answer, got)
  BY <1>2
<1> DEFINE d == [c EXCEPT !.answer = answer, !.got = got,
                          !.token = IF answer = "expired" THEN @ ELSE None]
<1>4. calls' \subseteq (calls \ {c}) \cup {d}
  BY <1>3 DEF Answer
<1>5. d.op = "confirm" /\ d.answer # "none"
  BY DEF ChoiceInv, BrowserInv, CallsInv, Sound, Requests
<1> HIDE DEF d
<1>6. table \in [Rows -> SubmissionRow \cup {Empty}]
  BY DEF ChoiceInv, BrowserInv, TableInv, ApiTypeOK
<1>7. ASSUME NEW f \in Files PROVE Once(f)'
  <2>1. Once(f)
    BY DEF ChoiceInv
  <2>2. \A t \in Tabs : Ready(t, f)' = Ready(t, f)
    BY DEF Ready
  <2>3. ~Carries(d, f)
    BY <1>5 DEF Carries
  <2>4. \A v \in Rows : Holds(v, f)' => Holds(v, f) \/ (v = w /\ Carries(c, f))
    BY <1>1, <1>6 DEF Holds, Carries
  <2>5. \A x \in calls' : Carries(x, f) => x \in calls /\ x # c
    BY <1>4, <2>3
  <2> QED
    BY <2>1, <2>2, <2>4, <2>5 DEF Once
<1>8. FilesAtUpload'
  BY DEF ChoiceInv, FilesAtUpload
<1> QED
  BY <1>7, <1>8 DEF ChoiceInv

LEMMA ServeChoice ==
    ASSUME ChoiceInv, BrowserInv', NEW c \in calls, Serve(c), UNCHANGED chosen
    PROVE  ChoiceInv'
<1>1. c.answer = "none" /\ UNCHANGED <<at, view, chosen>>
  BY DEF Serve
<1>2. CASE RowsPass /\ \E answer, got : Answer(c, answer, got)
  <2>1. \A f \in Files : CallsPass(f)
    BY <1>1, <1>2, AnswerPasses DEF ChoiceInv, BrowserInv
  <2>2. ViewsPass
    BY <1>1 DEF ViewsPass
  <2> QED
    BY <1>1, <1>2, <2>1, <2>2, PassInv
<1>3. UNCHANGED table => RowsPass
  BY DEF RowsPass
<1>4. CASE c.op = "verify" /\ VerifyLink(c) /\ UNCHANGED table
  <2>1. \A d \in calls' \ calls : d.op = "verify"
    <3>1. Sound(c) /\ c \in Requests
      BY DEF ChoiceInv, BrowserInv, CallsInv, Sound
    <3>2. \A got : [c EXCEPT !.got = got].op = "verify"
      BY <1>4, <3>1 DEF Requests
    <3>3. ASSUME Issue(c) PROVE \A d \in calls' \ calls : d.op = "verify"
      <4> PICK d : d = [c EXCEPT !.answer = "ok", !.got = {FreshToken}]
        OBVIOUS
      <4>1. d.op = "verify"
        BY <1>4, <3>1 DEF Requests
      <4>2. calls' \subseteq calls \cup {d}
        BY <3>3 DEF Issue
      <4> QED
        BY <4>1, <4>2
    <3>4. ASSUME NEW answer, Answer(c, answer, {})
          PROVE  \A d \in calls' \ calls : d.op = "verify"
      <4> PICK d : d = [c EXCEPT !.answer = answer, !.got = {},
                                 !.token = IF answer = "expired" THEN @ ELSE None]
        OBVIOUS
      <4>1. d.op = "verify"
        BY <1>4, <3>1 DEF Requests
      <4>2. calls' \subseteq calls \cup {d}
        BY <3>4 DEF Answer
      <4> QED
        BY <4>1, <4>2
    <3> QED
      BY <1>4, <3>2, <3>3, <3>4 DEF VerifyLink, Fails
  <2>2. \A f \in Files : CallsPass(f)
    BY <2>1, FewerCallsPass DEF ChoiceInv, Carries
  <2>3. ViewsPass
    BY <1>1 DEF ViewsPass
  <2> QED
    BY <1>1, <1>3, <1>4, <2>2, <2>3, PassInv
<1>5. CASE (Guard(c) \/ Fails(c)) /\ UNCHANGED table
  BY <1>2, <1>3, <1>5 DEF Guard, Fails
<1>6. CASE Read(c)
  BY <1>2, <1>3, <1>6 DEF Read, Feedback
<1>7. CASE c.op = "confirm" /\ Confirm(c)
  BY <1>1, <1>2, <1>3, <1>7, InsertChoice DEF Confirm
<1>8. CASE c.op = "delete" /\ Delete(c)
  <2>1. RowsPass
    <3>1. CASE UNCHANGED table
      BY <1>3, <3>1
    <3>2. CASE /\ c.about \in Listed(Principal(c))
               /\ table' = [table EXCEPT ![c.about].status = "gone"]
      <4>1. c.about \in Rows /\ table \in [Rows -> SubmissionRow \cup {Empty}]
        BY <1>8 DEF ChoiceInv, BrowserInv, CallsInv, Sound, TableInv, ApiTypeOK
      <4>2. PICK row : row = [table[c.about] EXCEPT !.status = "gone"]
        OBVIOUS
      <4>3. table[c.about] # Empty /\ row.upload = table[c.about].upload
        BY <3>2, <4>1, <4>2 DEF Listed, Empty, Statuses, SubmissionRow
      <4>4. table' = [table EXCEPT ![c.about] = row]
        BY <3>2, <4>1, <4>2
      <4> QED
        BY <4>1, <4>3, <4>4 DEF RowsPass
    <3> QED
      BY <1>8, <3>1, <3>2 DEF Delete
  <2>2. \E answer, got : Answer(c, answer, got)
    BY <1>8 DEF Delete, Fails
  <2> QED
    BY <1>2, <2>1, <2>2
<1> QED
  BY <1>4, <1>5, <1>6, <1>7, <1>8 DEF Serve

LEMMA GradedChoice ==
    ASSUME ChoiceInv, BrowserInv', NEW w \in Rows, Graded(w), UNCHANGED chosen
    PROVE  ChoiceInv'
<1>1. table \in [Rows -> SubmissionRow \cup {Empty}] /\ table[w] # Empty
  BY DEF ChoiceInv, BrowserInv, TableInv, ApiTypeOK, Graded, Empty
<1>2. PICK row : row = [table[w] EXCEPT !.status = "final"]
  OBVIOUS
<1>3. row.upload = table[w].upload /\ table' = [table EXCEPT ![w] = row]
  BY <1>1, <1>2 DEF Graded, SubmissionRow
<1>4. RowsPass
  BY <1>1, <1>3 DEF RowsPass
<1>5. \A f \in Files : CallsPass(f)
  BY FewerCallsPass DEF Graded, ChoiceInv
<1> QED
  BY <1>4, <1>5, PassInv DEF Graded, ViewsPass

LEMMA ChoiceStep == ChoiceInv /\ [Next]_vars => ChoiceInv'
<1>1. ASSUME ChoiceInv, Next PROVE ChoiceInv'
  <2>1. BrowserInv'
    BY <1>1, BrowserStep DEF ChoiceInv
  <2> QED
    BY <1>1, <2>1, SessionChoice, ClickChoice, ReceiveChoice, ServeChoice,
       GradedChoice DEF Next
<1>2. ASSUME ChoiceInv, UNCHANGED vars PROVE ChoiceInv'
  <2>1. BrowserInv' /\ UNCHANGED <<at, view, calls, table, chosen>>
    BY <1>2, BrowserStep DEF ChoiceInv, vars
  <2>2. \A f \in Files : CallsPass(f)
    BY <1>2, <2>1, FewerCallsPass DEF ChoiceInv
  <2> QED
    BY <1>2, <2>1, <2>2, PassInv DEF ViewsPass, RowsPass
<1> QED
  BY <1>1, <1>2

LEMMA InitChoice == Init => ChoiceInv
<1> SUFFICES ASSUME Init PROVE ChoiceInv
  OBVIOUS
<1>1. \A t \in Tabs : view[t].file = None
  BY DEF Init, SessionInit, NewView
<1>2. \A f \in Files : f # None
  BY WebAssumption
<1> QED
  BY <1>1, <1>2, InitBrowser
     DEF Init, SessionInit, ApiInit, ChoiceInv, FilesAtUpload, Once, Ready, Holds

(* One choice of a file becomes at most one submission, through failures,   *)
(* Upload Another, changes of page and changes of account.                  *)
THEOREM ChoicesAreSpentOnce == Spec => []OneRowPerChoice
<1>1. ChoiceInv => OneRowPerChoice
  <2> SUFFICES ASSUME ChoiceInv, NEW v \in Rows, NEW w \in Rows,
                      table[v] # Empty, table[w] # Empty,
                      table[v].upload.file = table[w].upload.file
               PROVE  v = w
    BY DEF OneRowPerChoice
  <2>1. table[v].upload.file \in Files
    BY DEF ChoiceInv, BrowserInv, TableInv, ApiTypeOK, SubmissionRow, Upload
  <2> QED
    BY <2>1 DEF ChoiceInv, Once, Holds
<1>2. Spec => []ChoiceInv
  BY InitChoice, ChoiceStep, PTL DEF Spec
<1> QED
  BY <1>1, <1>2, PTL
=============================================================================
