--------------------------- MODULE CatalogueProofs ---------------------------
(***************************************************************************)
(* Theorems about Catalogue, for any PITs, form values, number of tabs and  *)
(* of changing calls, and any choice of faults.                             *)
(***************************************************************************)
EXTENDS Catalogue, TLAPS

Writing == {"put", "compare", "update", "insert"}

(* What the copy of a row that a call works on is, as long as nobody else   *)
(* writes the PIT: the row, then what the call wants the row to be.         *)
Fresh(c) ==
    LET row == pits[c.pit]
    IN  /\ c.step = "put" =>
              c.kind \in {"upload", "tests"} /\ row # None /\ c.entity = row
        /\ c.step = "compare" =>
              IF row = None THEN c.kind = "seed"
              ELSE c.kind \in {"update", "upload", "tests"} /\ c.entity = Asked(c, row)
        /\ c.step = "update" =>
              /\ c.kind # "seed" /\ row # None /\ c.entity = Asked(c, row)
              /\ "code" \notin c.cols => c.entity.code = row.code
              /\ "note" \notin c.cols => c.entity.note = row.note
              /\ "key" \notin c.cols => c.entity.key = row.key

(* What holds of every call at every moment.                                *)
Sound(c) ==
    /\ c \in PitCalls
    /\ c.kind = "seed" => c.from \in Strays
    /\ c.kind = "get" \/ c.step \in {"ok", "failed"} => c.from \in Editors
    /\ c.kind = "create" => c.step # "find"
    /\ c.kind = "delete" => c.step \in {"find", "remove", "ok", "failed"}
    /\ c.kind = "get" =>
          /\ c.step \in {"find", "ok", "failed"}
          /\ c.step = "ok" => c.entity \in PitRow
    /\ c.kind \in {"update", "create", "seed"} /\ c.step \notin {"ok", "failed"}
          => c.form.code \in Codes
    /\ c.step \in Writing =>
          /\ c.entity \in PitRow
          /\ c.entity.key => c.pit \in objects
    /\ c.pit \notin raced => Fresh(c)

TableInv ==
    /\ pits \in [Pits -> PitRow \cup {None}]
    /\ intended \in [Pits -> PitRow \cup {None}]
    /\ objects \subseteq Pits /\ raced \subseteq Pits
    /\ KeyHasTests /\ SavesAreKept

(* An edit page is about a PIT.                                             *)
EditedPages == \A e \in Editors : page[e].at = "edit" => page[e].pit \in Pits

CatalogueInv ==
    /\ TableInv
    /\ \A c \in calls : Sound(c)
    /\ made \in 0 .. MaxCalls
    /\ PitPagesTypeOK /\ EditedPages

-----------------------------------------------------------------------------
(* The records the variables hold.                                          *)
LEMMA CallTypes ==
    /\ NoForm \in Form
    /\ \A e \in Editors \cup Strays, kind \in Kinds, p \in Pits, form \in Form,
          step \in PitSteps :
          LET c == PitCall(e, kind, p, form, step)
          IN  /\ c \in PitCalls
              /\ c.from = e /\ c.kind = kind /\ c.pit = p /\ c.form = form
              /\ c.step = step /\ c.open = TRUE
BY DEF NoForm, Form, PitCall, PitCalls

LEMMA RowTypes ==
    /\ \A form \in Form : form.code \in Codes =>
          NewRow(form) \in PitRow /\ NewRow(form).key = FALSE
    /\ \A row \in PitRow, form \in Form : form.code \in Codes =>
          Assigned(row, form) \in PitRow /\ Assigned(row, form).key = row.key
BY DEF NewRow, PitRow, Form, Assigned

(* The row a write leaves, when every other call that works on the PIT is   *)
(* stale from then on: the others stay sound.                               *)
LEMMA OthersStaySound ==
    ASSUME TableInv, NEW c \in calls, NEW d \in calls \ {c}, Sound(d),
           objects \subseteq objects',
           \/ UNCHANGED <<pits, raced>>
           \/ \E row, asked : Wrote(c, row, asked)
    PROVE  Sound(d)'
<1> USE DEF Sound
<1>1. d.step \in Writing => (d.entity.key => d.pit \in objects')
  OBVIOUS
<1>2. CASE UNCHANGED <<pits, raced>>
  BY <1>1, <1>2 DEF Fresh
<1>3. CASE \E row, asked : Wrote(c, row, asked)
  <2> PICK row, asked : Wrote(c, row, asked)
    BY <1>3
  <2>1. raced \subseteq raced'
    BY DEF Wrote
  <2>2. CASE d.pit # c.pit
    <3>1. pits'[d.pit] = pits[d.pit]
      BY <2>2 DEF Wrote, TableInv, PitCalls
    <3> QED
      BY <1>1, <2>1, <3>1 DEF Fresh
  <2>3. CASE d.pit = c.pit /\ d.step \in Writing
    <3>1. d \in Working(c.pit) \ {c}
      BY <2>3 DEF Working, Writing
    <3>2. d.pit \in raced'
      BY <2>3, <3>1 DEF Wrote
    <3> QED
      BY <1>1, <3>2
  <2>4. CASE d.step \notin Writing
    BY <1>1, <2>4 DEF Fresh, Writing
  <2> QED
    BY <2>2, <2>3, <2>4
<1> QED
  BY <1>2, <1>3

(* What becomes of a call is sound, or one of the other calls.              *)
Turned(c) == \A d \in calls' : d \in calls \ {c} \/ Sound(d)'

LEMMA ReplaceTurns ==
    ASSUME NEW c, NEW d, Replace(c, d), Sound(d)'
    PROVE  Turned(c)
BY DEF Replace, Turned

(* A call that is over is sound, unless it is one that loads a PIT.         *)
LEMMA FinishedIsSound ==
    ASSUME NEW c, Sound(c), c.from \in Editors, NEW outcome \in {"ok", "failed"},
           c.kind = "get" => outcome = "failed"
    PROVE  Sound(Finished(c, outcome))'
<1> DEFINE d == Finished(c, outcome)
<1>1. /\ d \in PitCalls
      /\ d.from = c.from /\ d.kind = c.kind /\ d.pit = c.pit /\ d.step = outcome
  <2>1. /\ c.from \in Editors \cup Strays /\ c.kind \in Kinds /\ c.pit \in Pits
        /\ c.open \in BOOLEAN /\ outcome \in PitSteps
    BY DEF Sound, PitCalls, PitSteps
  <2> QED
    BY <2>1, CallTypes DEF PitCalls, PitCall, Finished
<1>2. c.kind # "seed"
  BY PitsApiAssumption DEF Sound
<1> HIDE DEF d
<1>3. Sound(d)'
  BY <1>1, <1>2 DEF Sound, Fresh, Writing
<1> QED
  BY <1>3 DEF d

(* Finish leaves a finished call, or none.                                  *)
LEMMA FinishTurns ==
    ASSUME NEW c, Sound(c), NEW outcome \in {"ok", "failed"},
           c.kind = "get" => outcome = "failed", Finish(c, outcome)
    PROVE  Turned(c)
<1>1. CASE c.from \in Editors
  BY <1>1, FinishedIsSound DEF Finish, Turned
<1>2. CASE c.from \notin Editors
  BY <1>2 DEF Finish, Turned
<1> QED
  BY <1>1, <1>2

(* A step of the API on call c: what becomes of it is sound, the table      *)
(* stays as the properties want it, and the rest is as it was.              *)
Served(c) ==
    /\ Turned(c)
    /\ TableInv' /\ objects \subseteq objects'
    /\ \/ UNCHANGED <<pits, raced>>
       \/ \E row, asked : Wrote(c, row, asked)
    /\ UNCHANGED made

LEMMA ServedInv ==
    ASSUME CatalogueInv, NEW c \in calls, Served(c),
           UNCHANGED <<page, used>>
    PROVE  CatalogueInv'
<1>1. \A x \in calls \ {c} : Sound(x)'
  BY OthersStaySound DEF CatalogueInv, Served
<1>2. \A x \in calls' : Sound(x)'
  BY <1>1 DEF Served, Turned
<1> QED
  BY <1>2 DEF CatalogueInv, Served, PitPagesTypeOK, EditedPages

LEMMA UnchangedTable ==
    ASSUME TableInv, UNCHANGED <<pits, objects, intended, raced>>
    PROVE  TableInv'
BY DEF TableInv, KeyHasTests, SavesAreKept

-----------------------------------------------------------------------------
(* The steps of the API, one lemma each.                                    *)
LEMMA FindServes ==
    ASSUME CatalogueInv, NEW c \in calls, FindPit(c)
    PROVE  Served(c)
<1> DEFINE row == pits[c.pit]
           Work(entity, step) == [c EXCEPT !.entity = entity, !.step = step]
<1>c. Sound(c) /\ TableInv /\ c.step = "find"
  BY DEF CatalogueInv, FindPit
<1>u. UNCHANGED <<pits, objects, made, intended, raced>>
  BY DEF FindPit
<1>t. TableInv'
  BY <1>c, <1>u, UnchangedTable
<1>s. ASSUME NEW d, Replace(c, d), Sound(d)' PROVE Served(c)
  BY <1>s, <1>t, <1>u, ReplaceTurns DEF Served
<1>r. c \in PitCalls /\ row \in PitRow \cup {None}
  BY <1>c DEF Sound, TableInv, PitCalls
<1>w. \A entity, step :
         LET d == Work(entity, step)
         IN  /\ d.from = c.from /\ d.kind = c.kind /\ d.pit = c.pit
             /\ d.form = c.form /\ d.entity = entity /\ d.step = step
             /\ entity \in PitRow /\ step \in PitSteps => d \in PitCalls
  BY <1>r DEF PitCalls
<1>f. ASSUME NEW outcome \in {"ok", "failed"},
             c.kind = "get" => outcome = "failed", Finish(c, outcome)
      PROVE  Served(c)
  BY <1>c, <1>f, <1>t, <1>u, FinishTurns DEF Served
<1>k. row # None => row \in PitRow /\ (row.key => c.pit \in objects')
  BY <1>r, <1>c, <1>u DEF TableInv, KeyHasTests, PitCalls
<1> HIDE DEF Work
<1>1. CASE row = None /\ c.kind = "seed"
  <2> DEFINE d == Work(NewRow(c.form), "compare")
  <2>1. Replace(c, d)
    BY <1>1 DEF FindPit, Work
  <2>2. NewRow(c.form) \in PitRow /\ NewRow(c.form).key = FALSE
    BY <1>c, <1>1, RowTypes DEF Sound, PitCalls
  <2>3. Sound(d)'
    BY <1>c, <1>1, <1>w, <1>u, <2>2 DEF Sound, Fresh, PitSteps, Writing
  <2> QED
    BY <1>s, <2>1, <2>3
<1>2. CASE row = None /\ c.kind # "seed"
  BY <1>2, <1>f DEF FindPit, Fail
<1>3. CASE row # None
  <2>1. CASE c.kind = "seed"
    BY <1>3, <1>f, <2>1 DEF FindPit
  <2>2. CASE c.kind = "get"
    <3> PICK d : d = Work(row, "ok")
      OBVIOUS
    <3>1. Replace(c, d)
      BY <1>3, <2>2 DEF FindPit, Work
    <3>2. Sound(d)'
      BY <1>c, <1>3, <1>w, <1>k, <2>2 DEF Sound, Fresh, PitSteps, Writing
    <3> QED
      BY <1>s, <3>1, <3>2
  <2>3. CASE c.kind = "update"
    <3> PICK d : d = Work(Assigned(row, c.form), "compare")
      OBVIOUS
    <3>1. Replace(c, d)
      BY <1>3, <2>3 DEF FindPit, Work
    <3>2. /\ Assigned(row, c.form) \in PitRow
          /\ Assigned(row, c.form).key = row.key
      BY <1>c, <1>3, <1>k, <2>3, RowTypes DEF Sound, PitCalls
    <3>3. Asked(d, row) = Assigned(row, c.form)
      <4>1. d.kind = "update" /\ d.form = c.form
        BY <1>w, <2>3
      <4> QED
        BY <4>1, Zenon DEF Asked, Assigned
    <3>4. Sound(d)'
      BY <1>c, <1>3, <1>w, <1>k, <1>u, <2>3, <3>2, <3>3
         DEF Sound, Fresh, PitSteps, Writing
    <3> QED
      BY <1>s, <3>1, <3>4
  <2>4. CASE c.kind \in {"upload", "tests"}
    <3> PICK d : d = Work(row, "put")
      OBVIOUS
    <3>1. Replace(c, d)
      BY <1>3, <2>4 DEF FindPit, Work
    <3>2. Sound(d)'
      BY <1>c, <1>3, <1>w, <1>k, <1>u, <2>4 DEF Sound, Fresh, PitSteps, Writing
    <3> QED
      BY <1>s, <3>1, <3>2
  <2>5. CASE c.kind = "delete"
    <3> DEFINE d == [c EXCEPT !.step = "remove"]
    <3>1. Replace(c, d)
      BY <1>3, <2>5 DEF FindPit, Step
    <3>2. /\ d \in PitCalls /\ d.from = c.from /\ d.kind = c.kind
          /\ d.pit = c.pit /\ d.step = "remove"
      BY <1>r DEF PitCalls, PitSteps
    <3> HIDE DEF d
    <3>3. Sound(d)'
      BY <1>c, <2>5, <3>2 DEF Sound, Fresh, Writing
    <3> QED
      BY <1>s, <3>1, <3>3 DEF d
  <2> QED
    BY <1>c, <1>r, <2>1, <2>2, <2>3, <2>4, <2>5 DEF PitCalls, Kinds, Sound
<1> QED
  BY <1>1, <1>2, <1>3

LEMMA PutServes ==
    ASSUME CatalogueInv, NEW c \in calls, PutTests(c)
    PROVE  Served(c)
<1>c. /\ Sound(c) /\ TableInv /\ c.step = "put"
      /\ UNCHANGED <<pits, made, intended, raced>>
      /\ c \in PitCalls /\ c.entity \in PitRow /\ c.kind # "get"
  BY DEF CatalogueInv, PutTests, Sound, Writing
<1>1. CASE /\ objects' = objects \cup {c.pit}
           /\ Replace(c, [c EXCEPT !.entity.key = TRUE, !.step = "compare"])
  <2> DEFINE entity == [c.entity EXCEPT !.key = TRUE]
             d == [c EXCEPT !.entity = entity, !.step = "compare"]
  <2>1. entity \in PitRow
    BY <1>c DEF PitRow
  <2>2. /\ d \in PitCalls /\ d.from = c.from /\ d.kind = c.kind
        /\ d.pit = c.pit /\ d.form = c.form
        /\ d.entity = entity /\ d.step = "compare"
    BY <1>c, <2>1 DEF PitCalls, PitSteps
  <2>3. Replace(c, d)
    BY <1>1, <1>c DEF PitCalls
  <2>4. c.pit \in Pits /\ TableInv'
    BY <1>c, <1>1 DEF TableInv, KeyHasTests, SavesAreKept, PitCalls
  <2>5. c.pit \notin raced =>
           /\ c.kind \in {"upload", "tests"} /\ pits[c.pit] # None
           /\ entity = Asked(d, pits[c.pit])
    BY <1>c, <2>2 DEF Sound, Fresh, Asked
  <2> HIDE DEF entity, d
  <2>6. Sound(d)'
    BY <1>c, <1>1, <2>1, <2>2, <2>5 DEF Sound, Fresh, Writing
  <2> QED
    BY <1>c, <1>1, <2>3, <2>4, <2>6, ReplaceTurns DEF Served
<1>2. CASE Fail(c) /\ objects' \in {objects, objects \cup {c.pit}}
  <2>1. Turned(c)
    BY <1>c, <1>2, FinishTurns DEF Fail
  <2>2. c.pit \in Pits /\ TableInv'
    BY <1>c, <1>2 DEF TableInv, KeyHasTests, SavesAreKept, PitCalls
  <2> QED
    BY <1>c, <1>2, <2>1, <2>2 DEF Served
<1> QED
  BY <1>1, <1>2 DEF PutTests

LEMMA CompareServes ==
    ASSUME CatalogueInv, NEW c \in calls, SaveCompares(c)
    PROVE  Served(c)
<1> DEFINE row == pits[c.pit]
           has == IF c.kind = "seed" THEN Columns \ {"key"} ELSE Columns
           differ == {k \in has : row[k] # c.entity[k]}
<1>c. /\ Sound(c) /\ TableInv /\ c.step = "compare"
      /\ UNCHANGED <<pits, objects, made, intended, raced>>
      /\ c \in PitCalls /\ c.entity \in PitRow /\ c.kind # "get"
  BY DEF CatalogueInv, SaveCompares, Sound, Writing
<1>t. TableInv'
  BY <1>c, UnchangedTable
<1>s. ASSUME NEW d, Replace(c, d), Sound(d)' PROVE Served(c)
  BY <1>c, <1>s, <1>t, ReplaceTurns DEF Served
<1>r. row \in PitRow \cup {None}
  BY <1>c DEF TableInv, PitCalls
<1>1. CASE row = None
  <2> DEFINE d == [c EXCEPT !.step = "insert"]
  <2>1. Replace(c, d)
    BY <1>1 DEF SaveCompares, Step
  <2>2. /\ d \in PitCalls /\ d.from = c.from /\ d.kind = c.kind
        /\ d.pit = c.pit /\ d.form = c.form
        /\ d.entity = c.entity /\ d.step = "insert"
    BY <1>c DEF PitCalls, PitSteps
  <2> HIDE DEF d
  <2>3. Sound(d)'
    BY <1>c, <2>2 DEF Sound, Fresh, Writing
  <2> QED
    BY <1>s, <2>1, <2>3
<1>2. CASE row # None /\ differ = {}
  <2>1. Finish(c, "ok")
    BY <1>2 DEF SaveCompares
  <2> QED
    BY <1>c, <1>t, <2>1, FinishTurns DEF Served
<1>3. CASE row # None /\ differ # {}
  <2> PICK d : d = [c EXCEPT !.cols = differ, !.step = "update"]
    OBVIOUS
  <2>1. Replace(c, d)
    BY <1>3 DEF SaveCompares
  <2>2. /\ d \in PitCalls /\ d.from = c.from /\ d.kind = c.kind
        /\ d.pit = c.pit /\ d.form = c.form /\ d.cols = differ
        /\ d.entity = c.entity /\ d.step = "update"
    BY <1>c DEF PitCalls, PitSteps, Columns
  <2>3. /\ "code" \notin differ => c.entity.code = row.code
        /\ "note" \notin differ => c.entity.note = row.note
        /\ c.kind # "seed" /\ "key" \notin differ => c.entity.key = row.key
    BY DEF Columns
  <2>4. Asked(d, row) = Asked(c, row)
    BY <2>2 DEF Asked
  <2> HIDE DEF differ
  <2>5. Sound(d)'
    BY <1>c, <1>3, <2>2, <2>3, <2>4 DEF Sound, Fresh, Writing
  <2> QED
    BY <1>s, <2>1, <2>5
<1> QED
  BY <1>1, <1>2, <1>3

(* A write under the unique constraint, of a row that has its tests, keeps  *)
(* the table as it should be.                                               *)
LEMMA WriteKeepsTable ==
    ASSUME TableInv, NEW c \in PitCalls, NEW row \in PitRow \cup {None},
           NEW asked \in PitRow \cup {None}, Wrote(c, row, asked), UNCHANGED objects,
           row # None => (row.key => c.pit \in objects),
           c.pit \notin raced => row = asked
    PROVE  TableInv'
<1>1. c.pit \in Pits /\ raced \subseteq raced' /\ raced' \subseteq Pits
  BY DEF PitCalls, Wrote, TableInv
<1>2. \A p \in Pits : /\ pits'[p] = IF p = c.pit THEN row ELSE pits[p]
                      /\ intended'[p] = IF p = c.pit THEN asked ELSE intended[p]
  BY <1>1 DEF Wrote, TableInv
<1>3. /\ pits' \in [Pits -> PitRow \cup {None}]
      /\ intended' \in [Pits -> PitRow \cup {None}]
  BY DEF Wrote, TableInv
<1>4. KeyHasTests' /\ SavesAreKept'
  BY <1>1, <1>2 DEF TableInv, KeyHasTests, SavesAreKept
<1> QED
  BY <1>1, <1>3, <1>4 DEF TableInv

LEMMA UpdateServes ==
    ASSUME CatalogueInv, NEW c \in calls, SaveUpdates(c)
    PROVE  Served(c)
<1> DEFINE row == pits[c.pit]
           new == [code |-> IF "code" \in c.cols THEN c.entity.code ELSE row.code,
                   note |-> IF "note" \in c.cols THEN c.entity.note ELSE row.note,
                   key |-> IF "key" \in c.cols THEN c.entity.key ELSE row.key]
<1>c. /\ Sound(c) /\ TableInv /\ c.step = "update"
      /\ UNCHANGED <<objects, made>>
      /\ c \in PitCalls /\ c.entity \in PitRow /\ c.kind # "get"
  BY DEF CatalogueInv, SaveUpdates, Sound, Writing
<1>r. row \in PitRow \cup {None} /\ c.pit \in Pits
  BY <1>c DEF TableInv, PitCalls
<1>1. CASE /\ row # None /\ CodeIsFree(c.pit, new.code)
           /\ Finish(c, "ok") /\ Wrote(c, new, Asked(c, row))
  <2>1. new \in PitRow
    BY <1>c, <1>r, <1>1 DEF PitRow
  <2>2. new.key => c.pit \in objects
    BY <1>c, <1>r, <1>1 DEF Sound, Writing, TableInv, KeyHasTests
  <2>3. c.pit \notin raced => new = Asked(c, row)
    <3>1. c.pit \notin raced =>
             /\ c.entity = Asked(c, row)
             /\ new.code = c.entity.code /\ new.note = c.entity.note
             /\ new.key = c.entity.key
      BY <1>c DEF Sound, Fresh
    <3>2. new \in PitRow /\ c.entity \in PitRow
      BY <1>c, <2>1
    <3> HIDE DEF new
    <3> QED
      BY <3>1, <3>2 DEF PitRow
  <2>4. Asked(c, row) \in PitRow
    <3>1. row \in PitRow /\ c.form \in Form
      BY <1>c, <1>r, <1>1 DEF PitCalls
    <3>2. CASE c.kind = "update"
      <4>1. Asked(c, row) = Assigned(row, c.form) /\ c.form.code \in Codes
        BY <1>c, <3>2 DEF Asked, Assigned, Sound
      <4> QED
        BY <3>1, <4>1, RowTypes
    <3>3. CASE c.kind \in {"upload", "tests"}
      BY <3>1, <3>3 DEF Asked, PitRow
    <3>4. CASE c.kind \notin {"update", "upload", "tests"}
      <4>1. c.kind \in {"create", "seed", "delete"}
        BY <1>c, <3>4 DEF PitCalls, Kinds
      <4>2. c.form.code \in Codes
        BY <1>c, <4>1 DEF Sound
      <4>3. Asked(c, row) = Assigned(row, c.form)
        BY <3>4, Zenon DEF Asked, Assigned
      <4> QED
        BY <3>1, <4>2, <4>3, RowTypes
    <3> QED
      BY <3>2, <3>3, <3>4
  <2> HIDE DEF new
  <2>5. TableInv'
    BY <1>c, <1>1, <2>1, <2>2, <2>3, <2>4, WriteKeepsTable
  <2>6. Turned(c)
    BY <1>c, <1>1, FinishTurns
  <2> QED
    BY <1>c, <1>1, <2>5, <2>6 DEF Served
<1>2. CASE /\ Finish(c, "ok") \/ Fail(c)
           /\ UNCHANGED <<pits, intended, raced>>
  <2>1. Turned(c)
    BY <1>c, <1>2, FinishTurns DEF Fail
  <2> QED
    BY <1>c, <1>2, <2>1, UnchangedTable DEF Served
<1> QED
  BY <1>1, <1>2 DEF SaveUpdates

LEMMA InsertServes ==
    ASSUME CatalogueInv, NEW c \in calls, SaveInserts(c)
    PROVE  Served(c)
<1>c. /\ Sound(c) /\ TableInv /\ c.step = "insert"
      /\ UNCHANGED <<objects, made>>
      /\ c \in PitCalls /\ c.entity \in PitRow /\ c.kind # "get"
      /\ c.entity.key => c.pit \in objects
  BY DEF CatalogueInv, SaveInserts, Sound, Writing
<1>1. CASE /\ CodeIsFree(c.pit, c.entity.code)
           /\ Finish(c, "ok") /\ Wrote(c, c.entity, c.entity)
  <2>1. TableInv'
    BY <1>c, <1>1, WriteKeepsTable
  <2>2. Turned(c)
    BY <1>c, <1>1, FinishTurns
  <2> QED
    BY <1>c, <1>1, <2>1, <2>2 DEF Served
<1>2. CASE Fail(c) /\ UNCHANGED <<pits, intended, raced>>
  <2>1. Turned(c)
    BY <1>c, <1>2, FinishTurns DEF Fail
  <2> QED
    BY <1>c, <1>2, <2>1, UnchangedTable DEF Served
<1> QED
  BY <1>1, <1>2 DEF SaveInserts

LEMMA RemoveServes ==
    ASSUME CatalogueInv, NEW c \in calls, RemovePit(c)
    PROVE  Served(c)
<1>c. /\ Sound(c) /\ TableInv /\ c.step = "remove" /\ c.kind # "get"
      /\ UNCHANGED <<objects, made>> /\ c \in PitCalls
  BY DEF CatalogueInv, RemovePit, Sound
<1>1. CASE Finish(c, "ok") /\ Wrote(c, None, None)
  <2>1. TableInv'
    BY <1>c, <1>1, WriteKeepsTable
  <2>2. Turned(c)
    BY <1>c, <1>1, FinishTurns
  <2> QED
    BY <1>c, <1>1, <2>1, <2>2 DEF Served
<1>2. CASE Fail(c) /\ UNCHANGED <<pits, intended, raced>>
  <2>1. Turned(c)
    BY <1>c, <1>2, FinishTurns DEF Fail
  <2> QED
    BY <1>c, <1>2, <2>1, UnchangedTable DEF Served
<1> QED
  BY <1>1, <1>2 DEF RemovePit

(* A call goes on as soundly when its page has lost it.                     *)
LEMMA StraySound ==
    ASSUME NEW c, Sound(c), NEW k \in Strays,
           c.kind # "get", c.kind # "seed", c.step \notin {"ok", "failed"},
           UNCHANGED <<pits, objects, raced>>
    PROVE  Sound([c EXCEPT !.from = k, !.open = FALSE])'
<1> DEFINE d == [c EXCEPT !.from = k, !.open = FALSE]
<1>1. /\ d \in PitCalls /\ d.from = k /\ d.kind = c.kind /\ d.pit = c.pit
      /\ d.form = c.form /\ d.step = c.step /\ d.entity = c.entity
      /\ d.cols = c.cols
  BY DEF Sound, PitCalls
<1>2. \A row : Asked(d, row) = Asked(c, row)
  BY <1>1 DEF Asked
<1> HIDE DEF d
<1>3. Sound(d)'
  BY <1>1, <1>2 DEF Sound, Fresh
<1> QED
  BY <1>3 DEF d

LEMMA ServeInv ==
    ASSUME CatalogueInv, NEW c \in calls, ServePit(c), UNCHANGED <<page, used>>
    PROVE  CatalogueInv'
<1>t. Sound(c) /\ TableInv
  BY DEF CatalogueInv
<1>1. CASE CallFails(c)
  <2>1. UNCHANGED <<pits, objects, made, intended, raced>>
    BY <1>1 DEF CallFails
  <2>2. Turned(c)
    BY <1>1, <1>t, FinishTurns DEF CallFails, Fail
  <2>3. Served(c)
    BY <1>t, <2>1, <2>2, UnchangedTable DEF Served
  <2> QED
    BY <2>3, ServedInv
<1>2. CASE AnswerLost(c)
  <2>1. UNCHANGED <<pits, objects, made, intended, raced>>
    BY <1>2 DEF AnswerLost
  <2>2. /\ c.from \in Editors /\ c.kind # "get" /\ c.kind # "seed"
        /\ c.step \notin {"ok", "failed"}
    BY <1>2, <1>t, PitsApiAssumption DEF AnswerLost, Sound
  <2>3. PICK k \in Strays :
           calls' = (calls \ {c}) \cup
              {Finished(c, "failed"), [c EXCEPT !.from = k, !.open = FALSE]}
    BY <1>2 DEF AnswerLost
  <2>4. Sound(Finished(c, "failed"))'
    BY <1>t, <2>2, FinishedIsSound
  <2>5. Sound([c EXCEPT !.from = k, !.open = FALSE])'
    BY <1>t, <2>1, <2>2, StraySound
  <2>6. Turned(c)
    BY <2>3, <2>4, <2>5 DEF Turned
  <2>7. Served(c)
    BY <1>t, <2>1, <2>6, UnchangedTable DEF Served
  <2> QED
    BY <2>7, ServedInv
<1> QED
  BY <1>1, <1>2, FindServes, PutServes, CompareServes, UpdateServes, InsertServes,
     RemoveServes, ServedInv DEF ServePit

-----------------------------------------------------------------------------
(* The pages: they make calls and drop them, and leave the table alone.     *)

(* A call is as sound when its page has been left.                          *)
LEMMA ClosedIsSound ==
    ASSUME NEW c, Sound(c)
    PROVE  Sound([c EXCEPT !.open = FALSE])
<1> DEFINE d == [c EXCEPT !.open = FALSE]
<1>1. /\ d \in PitCalls /\ d.from = c.from /\ d.kind = c.kind /\ d.pit = c.pit
      /\ d.form = c.form /\ d.step = c.step /\ d.entity = c.entity
      /\ d.cols = c.cols
  BY DEF Sound, PitCalls
<1>2. \A row : Asked(d, row) = Asked(c, row)
  BY <1>1 DEF Asked
<1> HIDE DEF d
<1>3. Sound(d)
  BY <1>1, <1>2 DEF Sound, Fresh
<1> QED
  BY <1>3 DEF d

LEMMA LeftIsSound ==
    ASSUME CatalogueInv, NEW e
    PROVE  \A x \in Left(e) : Sound(x)
BY ClosedIsSound DEF CatalogueInv, Left

(* A call that is just made works on no copy yet.                           *)
LEMMA NewCallIsSound ==
    ASSUME NEW e \in Editors, NEW p \in Pits,
           NEW kind \in Kinds \ {"create", "seed"}, NEW form \in Form,
           kind = "update" => form.code \in Codes
    PROVE  Sound(PitCall(e, kind, p, form, "find"))
<1> DEFINE c == PitCall(e, kind, p, form, "find")
<1>1. /\ c \in PitCalls /\ c.from = e /\ c.kind = kind /\ c.pit = p
      /\ c.form = form /\ c.step = "find"
  BY CallTypes DEF PitSteps
<1> HIDE DEF c
<1>2. Sound(c)
  BY <1>1 DEF Sound, Fresh, Writing
<1> QED
  BY <1>2 DEF c

LEMMA PageStepInv ==
    ASSUME CatalogueInv, UNCHANGED <<pits, objects, intended, raced>>,
           made' \in 0 .. MaxCalls, PitPagesTypeOK' /\ EditedPages',
           \A x \in calls' : Sound(x)
    PROVE  CatalogueInv'
<1>1. \A x \in calls' : Sound(x)'
  BY DEF Sound, Fresh
<1> QED
  BY <1>1, UnchangedTable DEF CatalogueInv

(* The pages a tab can show.                                                *)
ShowablePage(pg) == pg \in Page /\ (pg.at = "edit" => pg.pit \in Pits)

LEMMA PageTypes ==
    /\ ShowablePage(ListPage) /\ ShowablePage(FormPage("create", None))
    /\ \A p \in Pits : ShowablePage(FormPage("edit", p))
    /\ \A pg, form : ShowablePage(pg) /\ form \in Form =>
          ShowablePage([pg EXCEPT !.form = form])
    /\ \A pg : ShowablePage(pg) => pg.form \in Form
BY CallTypes DEF ListPage, FormPage, Page, ShowablePage

LEMMA GotoShows ==
    ASSUME PitPagesTypeOK /\ EditedPages, used' \subseteq Pits,
           NEW e \in Editors,
           UNCHANGED page \/ \E pg : ShowablePage(pg) /\ Goto(e, pg)
    PROVE  PitPagesTypeOK' /\ EditedPages'
<1>1. CASE UNCHANGED page
  BY <1>1 DEF PitPagesTypeOK, EditedPages
<1>2. ASSUME NEW pg, ShowablePage(pg), Goto(e, pg)
      PROVE  PitPagesTypeOK' /\ EditedPages'
  BY <1>2 DEF PitPagesTypeOK, EditedPages, Goto, ShowablePage
<1> QED
  BY <1>1, <1>2

LEMMA ShownPages ==
    ASSUME PitPagesTypeOK /\ EditedPages
    PROVE  \A e \in Editors : ShowablePage(page[e])
BY DEF PitPagesTypeOK, EditedPages, ShowablePage

LEMMA ClickInv ==
    ASSUME CatalogueInv, NEW e \in Editors, PitClick(e),
           UNCHANGED <<pits, objects, intended, raced>>
    PROVE  CatalogueInv'
<1>c. /\ \A x \in calls : Sound(x)
      /\ made \in 0 .. MaxCalls /\ MaxCalls \in Nat
      /\ PitPagesTypeOK /\ EditedPages /\ used \subseteq Pits
      /\ ShowablePage(page[e])
  BY PitsApiAssumption, ShownPages DEF CatalogueInv, PitPagesTypeOK
<1>k. {"get", "update", "upload", "delete"} \subseteq Kinds \ {"create", "seed"}
  BY DEF Kinds
<1>g. ASSUME NEW pg, ShowablePage(pg), Goto(e, pg), used' \subseteq Pits
      PROVE  PitPagesTypeOK' /\ EditedPages'
  BY <1>c, <1>g, GotoShows
<1>p. ASSUME UNCHANGED page, used' \subseteq Pits
      PROVE  PitPagesTypeOK' /\ EditedPages'
  BY <1>c, <1>p, GotoShows
<1>m. ASSUME NEW c, Sound(c), Make(c)
      PROVE  made' \in 0 .. MaxCalls /\ \A x \in calls' : Sound(x)
  BY <1>c, <1>m DEF Make
<1>1. ASSUME NEW p \in Pits, OpenEdit(e, p) PROVE CatalogueInv'
  <2>1. Sound(PitCall(e, "get", p, NoForm, "find"))
    BY <1>k, CallTypes, NewCallIsSound
  <2>2. \A x \in calls' : Sound(x)
    BY <1>1, <2>1, LeftIsSound DEF OpenEdit
  <2>3. PitPagesTypeOK' /\ EditedPages'
    BY <1>1, <1>c, <1>g, PageTypes DEF OpenEdit
  <2> QED
    BY <1>1, <1>c, <2>2, <2>3, PageStepInv DEF OpenEdit
<1>2. ASSUME NEW p \in Pits, ClickDeletePit(e, p) PROVE CatalogueInv'
  <2>1. Sound(PitCall(e, "delete", p, NoForm, "find"))
    BY <1>k, CallTypes, NewCallIsSound
  <2>2. made' \in 0 .. MaxCalls /\ \A x \in calls' : Sound(x)
    BY <1>2, <1>m, <2>1 DEF ClickDeletePit
  <2> QED
    BY <1>2, <1>c, <1>p, <2>2, PageStepInv DEF ClickDeletePit
<1>3. CASE OpenCreate(e)
  BY <1>3, <1>c, <1>g, PageTypes, LeftIsSound, PageStepInv
     DEF OpenCreate
<1>4. CASE Type(e)
  <2>1. PICK code \in Codes, note \in Notes \cup {None} :
           Goto(e, [page[e] EXCEPT !.form = [code |-> code, note |-> note]])
    BY <1>4 DEF Type
  <2>2. [code |-> code, note |-> note] \in Form
    BY DEF Form
  <2>3. ShowablePage([page[e] EXCEPT !.form = [code |-> code, note |-> note]])
    BY <1>c, <2>2, PageTypes
  <2> QED
    BY <1>4, <1>c, <1>g, <2>1, <2>3, PageStepInv DEF Type
<1>5. CASE SubmitEdit(e)
  <2>1. page[e].pit \in Pits /\ page[e].form \in Form
    BY <1>5, <1>c, PageTypes DEF SubmitEdit, ShowablePage
  <2>2. page[e].form.code \in Codes
    BY <1>5, <2>1 DEF SubmitEdit, CanSubmit, Form
  <2>3. Sound(PitCall(e, "update", page[e].pit, page[e].form, "find"))
    BY <1>k, <2>1, <2>2, NewCallIsSound
  <2>4. made' \in 0 .. MaxCalls /\ \A x \in calls' : Sound(x)
    BY <1>5, <1>m, <2>3 DEF SubmitEdit
  <2> QED
    BY <1>5, <1>c, <1>p, <2>4, PageStepInv DEF SubmitEdit
<1>6. CASE SubmitCreate(e)
  <2> DEFINE form == page[e].form
             p == CHOOSE p \in Pits \ used : TRUE
             c == [PitCall(e, "create", p, form, "insert")
                      EXCEPT !.entity = NewRow(form)]
  <2>1. p \in Pits /\ used' = used \cup {p} /\ Make(c) /\ UNCHANGED page
    BY <1>6 DEF SubmitCreate
  <2>2. form \in Form /\ form.code \in Codes
    BY <1>6, <1>c, PageTypes DEF SubmitCreate, CanSubmit, Form
  <2>3. NewRow(form) \in PitRow /\ NewRow(form).key = FALSE
    BY <2>2, RowTypes
  <2>4. /\ c \in PitCalls /\ c.from = e /\ c.kind = "create" /\ c.pit = p
        /\ c.form = form /\ c.step = "insert" /\ c.entity = NewRow(form)
    <3> HIDE DEF p, form
    <3> QED
      BY <2>1, <2>2, <2>3 DEF PitCall, PitCalls, Kinds, PitSteps
  <2> HIDE DEF p, form, c
  <2>5. Sound(c)
    BY <2>1, <2>2, <2>3, <2>4 DEF Sound, Fresh, Writing
  <2>6. made' \in 0 .. MaxCalls /\ \A x \in calls' : Sound(x)
    BY <1>m, <2>1, <2>5
  <2> QED
    BY <1>c, <1>p, <2>1, <2>6, PageStepInv
<1>7. CASE ClickUpload(e)
  <2>1. page[e].pit \in Pits
    BY <1>7, <1>c, PageTypes DEF ClickUpload, ShowablePage
  <2>2. Sound(PitCall(e, "upload", page[e].pit, NoForm, "find"))
    BY <1>k, <2>1, CallTypes, NewCallIsSound
  <2>3. made' \in 0 .. MaxCalls /\ \A x \in calls' : Sound(x)
    BY <1>7, <1>m, <2>2 DEF ClickUpload
  <2> QED
    BY <1>7, <1>c, <1>p, <2>3, PageStepInv DEF ClickUpload
<1>8. CASE LeavePage(e)
  BY <1>8, <1>c, <1>g, PageTypes, LeftIsSound, PageStepInv
     DEF LeavePage
<1> QED
  BY <1>1, <1>2, <1>3, <1>4, <1>5, <1>6, <1>7, <1>8 DEF PitClick

LEMMA ReceiveAnswerInv ==
    ASSUME CatalogueInv, NEW c \in calls, ReceivePit(c),
           UNCHANGED <<pits, objects, intended, raced>>
    PROVE  CatalogueInv'
<1>c. /\ Sound(c) /\ \A x \in calls : Sound(x)
      /\ made \in 0 .. MaxCalls /\ MaxCalls \in Nat
      /\ PitPagesTypeOK /\ EditedPages /\ used' \subseteq Pits
  BY PitsApiAssumption DEF CatalogueInv, PitPagesTypeOK, ReceivePit
<1>f. c.from \in Editors /\ c.pit \in Pits
  BY <1>c DEF ReceivePit, Sound, PitCalls
<1>x. ASSUME UNCHANGED page \/ \E e \in Editors : \E pg : ShowablePage(pg) /\ Goto(e, pg),
             made' \in 0 .. MaxCalls, \A x \in calls' : Sound(x)
      PROVE  CatalogueInv'
  <2>1. PitPagesTypeOK' /\ EditedPages'
    <3>1. CASE UNCHANGED page
      BY <1>c, <3>1 DEF PitPagesTypeOK, EditedPages
    <3>2. CASE \E e \in Editors : \E pg : ShowablePage(pg) /\ Goto(e, pg)
      BY <1>c, <3>2, GotoShows
    <3> QED
      BY <1>x, <3>1, <3>2
  <2> QED
    BY <1>x, <2>1, PageStepInv
<1>d. ASSUME Drop(c), UNCHANGED <<page, made>> PROVE CatalogueInv'
  BY <1>c, <1>d, <1>x DEF Drop
<1>g. ASSUME GoToList(c), UNCHANGED made PROVE CatalogueInv'
  <2>1. \A x \in calls' : Sound(x)
    BY <1>c, <1>g, LeftIsSound DEF GoToList, Drop
  <2>2. UNCHANGED page \/ Goto(c.from, ListPage)
    BY <1>g DEF GoToList
  <2> QED
    BY <1>c, <1>f, <1>g, <1>x, <2>1, <2>2, PageTypes
<1>k. {"get", "tests"} \subseteq Kinds \ {"create", "seed"}
  BY DEF Kinds
<1>1. CASE PitLoaded(c) /\ c.step = "ok"
  <2> DEFINE form == [code |-> c.entity.code, note |-> c.entity.note]
  <2>1. form \in Form
    BY <1>1, <1>c DEF PitLoaded, Sound, PitRow, Form
  <2>2. ShowablePage([page[c.from] EXCEPT !.form = form])
    BY <1>1, <1>c, <1>f, <2>1, PageTypes, ShownPages DEF PitLoaded
  <2>3. Goto(c.from, [page[c.from] EXCEPT !.form = form]) /\ Drop(c) /\ UNCHANGED made
    BY <1>1 DEF PitLoaded
  <2>4. c.from \in Editors
    BY <1>1, <1>f DEF PitLoaded
  <2> HIDE DEF form
  <2> QED
    BY <1>c, <1>x, <2>2, <2>3, <2>4 DEF Drop
<1>2. CASE PitLoaded(c) /\ c.step # "ok"
  BY <1>2, <1>g DEF PitLoaded
<1>3. CASE PitUpdated(c)
  BY <1>3, <1>d, <1>g DEF PitUpdated
<1>4. CASE PitCreated(c)
  <2>1. CASE Drop(c) /\ UNCHANGED <<page, made>>
    BY <1>d, <2>1
  <2>2. CASE GoToList(c) /\ UNCHANGED made
    BY <1>4, <1>g, <2>2 DEF PitCreated
  <2> DEFINE made1 == PitCall(c.from, "tests", c.pit, NoForm, "find")
             d == [made1 EXCEPT !.open = c.open]
  <2>3. CASE /\ made < MaxCalls /\ made' = made + 1
             /\ calls' = (calls \ {c}) \cup {d} /\ UNCHANGED page
    <3>1. Sound(made1) /\ made1.open = TRUE
      BY <1>4, <1>f, <1>k, CallTypes, NewCallIsSound DEF PitCreated, PitSteps
    <3>2. Sound([made1 EXCEPT !.open = FALSE])
      BY <3>1, ClosedIsSound
    <3>3. c.open \in BOOLEAN /\ made1 \in PitCalls
      BY <1>c, <3>1 DEF Sound, PitCalls
    <3> HIDE DEF made1
    <3>4. c.open => d = made1
      BY <3>1, <3>3 DEF PitCalls
    <3>5. ~c.open => d = [made1 EXCEPT !.open = FALSE]
      BY <3>3 DEF PitCalls
    <3>6. Sound(d)
      BY <3>1, <3>2, <3>4, <3>5
    <3> HIDE DEF d
    <3> QED
      BY <1>c, <1>x, <2>3, <3>6
  <2> HIDE DEF d
  <2> QED
    <3>1. CASE c.step = "failed"
      BY <1>4, <2>1, <3>1 DEF PitCreated
    <3>2. CASE c.step # "failed"
      BY <1>4, <2>2, <2>3, <3>2 DEF PitCreated, d
    <3> QED
      BY <3>1, <3>2
<1>5. CASE TestsUploaded(c)
  <2>1. CASE GoToList(c) /\ c.kind = "tests"
    BY <1>5, <1>g, <2>1 DEF TestsUploaded
  <2>2. CASE /\ calls' = (calls \ {c}) \cup
                   {PitCall(c.from, "get", c.pit, NoForm, "find")}
             /\ UNCHANGED page /\ c.kind = "upload"
    <3>1. Sound(PitCall(c.from, "get", c.pit, NoForm, "find"))
      BY <1>f, <1>k, <2>2, CallTypes, NewCallIsSound
    <3> QED
      BY <1>5, <1>c, <1>x, <2>2, <3>1 DEF TestsUploaded
  <2>3. CASE Drop(c) /\ UNCHANGED page
    BY <1>5, <1>d, <2>3 DEF TestsUploaded
  <2> QED
    <3>1. CASE c.kind = "tests"
      BY <1>5, <2>1, <3>1 DEF TestsUploaded
    <3>2. CASE c.kind # "tests" /\ c.kind = "upload" /\ c.open /\ c.step = "ok"
      BY <1>5, <2>2, <3>2 DEF TestsUploaded
    <3>3. CASE c.kind # "tests" /\ ~(c.kind = "upload" /\ c.open /\ c.step = "ok")
      BY <1>5, <2>3, <3>3 DEF TestsUploaded
    <3> QED
      BY <3>1, <3>2, <3>3
<1>6. CASE PitDeleted(c)
  BY <1>6, <1>d DEF PitDeleted
<1> QED
  BY <1>1, <1>2, <1>3, <1>4, <1>5, <1>6 DEF ReceivePit

LEMMA StartInv ==
    ASSUME CatalogueInv, ApiStarts, UNCHANGED <<page, used>>
    PROVE  CatalogueInv'
<1>1. PICK k \in Strays :
         calls' = calls \cup {PitCall(k, "seed", Dummy, DummyForm, "find")}
  BY DEF ApiStarts
<1> DEFINE c == PitCall(k, "seed", Dummy, DummyForm, "find")
<1>2. DummyForm \in Form /\ DummyForm.code \in Codes /\ Dummy \in Pits
  BY PitsApiAssumption DEF Form
<1>3. /\ c \in PitCalls /\ c.from = k /\ c.kind = "seed" /\ c.form = DummyForm
      /\ c.step = "find" /\ c.pit = Dummy
  <2>1. k \in Editors \cup Strays /\ "seed" \in Kinds /\ "find" \in PitSteps
    BY DEF Kinds, PitSteps
  <2> QED
    BY <1>2, <2>1, CallTypes
<1> HIDE DEF c
<1>4. Sound(c)
  BY <1>2, <1>3 DEF Sound, Fresh, Writing
<1>5. \A x \in calls' : Sound(x)
  BY <1>1, <1>4 DEF CatalogueInv, c
<1>6. PitPagesTypeOK' /\ EditedPages' /\ made' \in 0 .. MaxCalls
  BY DEF CatalogueInv, PitPagesTypeOK, EditedPages, ApiStarts
<1> QED
  BY <1>5, <1>6, PageStepInv DEF ApiStarts

LEMMA InitCatalogue == Init => CatalogueInv
<1> SUFFICES ASSUME Init PROVE CatalogueInv
  OBVIOUS
<1> USE DEF Init, PitsApiInit, PitPagesInit
<1>1. NewRow(DummyForm) \in PitRow /\ NewRow(DummyForm).key = FALSE
  BY PitsApiAssumption DEF NewRow, PitRow
<1>2. /\ pits \in [Pits -> PitRow \cup {None}]
      /\ \A p \in Pits : pits[p] # None => p = Dummy /\ pits[p] = NewRow(DummyForm)
  BY <1>1
<1>3. TableInv
  BY <1>1, <1>2 DEF TableInv, KeyHasTests, SavesAreKept
<1>4. PitPagesTypeOK
  BY PageTypes, PitsApiAssumption DEF PitPagesTypeOK, ShowablePage
<1>5. EditedPages
  BY DEF EditedPages, ListPage
<1> QED
  BY <1>3, <1>4, <1>5, PitsApiAssumption DEF CatalogueInv

LEMMA CatalogueStep == CatalogueInv /\ [Next]_vars => CatalogueInv'
<1>1. ASSUME CatalogueInv, Next PROVE CatalogueInv'
  BY <1>1, ServeInv, StartInv, ReceiveAnswerInv, ClickInv DEF Next
<1>2. ASSUME CatalogueInv, UNCHANGED vars PROVE CatalogueInv'
  <2>1. /\ UNCHANGED <<pits, objects, intended, raced, calls, made>>
        /\ UNCHANGED <<page, used>>
    BY <1>2 DEF vars, apiVars
  <2>2. PitPagesTypeOK' /\ EditedPages'
    BY <1>2, <2>1 DEF CatalogueInv, PitPagesTypeOK, EditedPages
  <2> QED
    BY <1>2, <2>1, <2>2, PageStepInv DEF CatalogueInv
<1> QED
  BY <1>1, <1>2

LEMMA CatalogueInvariance == Spec => []CatalogueInv
BY InitCatalogue, CatalogueStep, PTL DEF Spec

-----------------------------------------------------------------------------
(* Rows, requests and forms are what they can be; a row always has a code.  *)
THEOREM CatalogueTypeCorrect == Spec => []TypeOK
<1>1. CatalogueInv => TypeOK
  BY DEF CatalogueInv, TableInv, TypeOK, PitsApiTypeOK, Sound
<1> QED
  BY <1>1, CatalogueInvariance, PTL

(* A PIT that names its tests has them in the bucket, whatever else is      *)
(* saved, deleted, inserted again or lost meanwhile.                        *)
THEOREM TestsAreThere == Spec => []KeyHasTests
<1>1. CatalogueInv => KeyHasTests
  BY DEF CatalogueInv, TableInv
<1> QED
  BY <1>1, CatalogueInvariance, PTL

(* However many tasks of the API start and seed at once, a seed changes an  *)
(* existing row of the dummy PIT only if another call wrote the row after   *)
(* the seed had found none.                                                 *)
THEOREM SeedsKeepEdits == Spec => []SeedsOnlyFillGaps
<1>1. CatalogueInv => SeedsOnlyFillGaps
  BY DEF CatalogueInv, Sound, Fresh, SeedsOnlyFillGaps
<1> QED
  BY <1>1, CatalogueInvariance, PTL

(* Read, change and save keeps every field of the other calls and all of    *)
(* its own, for a PIT that was never written between the read and the save  *)
(* of another call.                                                         *)
THEOREM SavesKeepWhatWasAsked == Spec => []SavesAreKept
<1>1. CatalogueInv => SavesAreKept
  BY DEF CatalogueInv, TableInv
<1> QED
  BY <1>1, CatalogueInvariance, PTL
=============================================================================
