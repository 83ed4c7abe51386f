------------------------------ MODULE PitsApi ------------------------------
(***************************************************************************)
(* PitsService and the seed of the dummy PIT, one awaited step at a time.   *)
(* A row has a required and unique field (its code), an optional one (its   *)
(* description) and the key of its tests in S3.                             *)
(* TypeORM's save reads the row again, and then writes the columns in which *)
(* the entity differs from it, or inserts the entity.                       *)
(***************************************************************************)
EXTENDS FiniteSets, Naturals

CONSTANTS
    Pits, Codes, Notes,   \* ids of PITs; values of the two form fields
    Editors,              \* the tabs that show PIT pages
    Strays,               \* bound: calls at work at once that no page waits for
    None,                 \* an empty field, no row
    Dummy, DummyForm,     \* the PIT that is seeded when the API starts
    MaxCalls,             \* bound: calls of the pages that change something
    Faults                \* what may fail: "s3", "fk", "net"

ASSUME PitsApiAssumption ==
    /\ Dummy \in Pits
    /\ DummyForm \in [code : Codes, note : Notes]
    /\ MaxCalls \in Nat
    /\ Editors \cap Strays = {}

VARIABLES
    pits,      \* the pits table
    objects,   \* PITs whose tests.zip is in the bucket
    calls,     \* requests the API serves or has served
    made,      \* how many calls that change something the pages made
    intended,  \* history: the row the calls so far asked for, if not raced
    raced      \* history: PITs written while another call worked on its copy

apiVars == <<pits, objects, calls, made, intended, raced>>

Columns == {"code", "note", "key"}
PitRow == [code : Codes, note : Notes \cup {None}, key : BOOLEAN]
NewRow(form) == [code |-> form.code, note |-> form.note, key |-> FALSE]
NoForm == [code |-> None, note |-> None]
Form == [code : Codes \cup {None}, note : Notes \cup {None}]

Kinds == {"get", "update", "upload", "tests", "delete", "create", "seed"}
PitSteps == {"find", "put", "compare", "update", "insert", "remove", "ok", "failed"}

(* from: the tab that waits for the call, or one of Strays; open: the page  *)
(* that made the call is still shown; entity: the copy of the row the call  *)
(* works on; cols: what it will write.                                      *)
PitCall(e, kind, pit, form, step) ==
    [from |-> e, open |-> TRUE, kind |-> kind, pit |-> pit, form |-> form, step |-> step,
     entity |-> None, cols |-> {}]

PitCalls ==
    [from : Editors \cup Strays, open : BOOLEAN, kind : Kinds, pit : Pits,
     form : Form, step : PitSteps,
     entity : PitRow \cup {None}, cols : SUBSET Columns]

PitsApiTypeOK ==
    /\ pits \in [Pits -> PitRow \cup {None}]
    /\ objects \subseteq Pits
    /\ calls \subseteq PitCalls
    /\ made \in 0..MaxCalls
    /\ intended \in [Pits -> PitRow \cup {None}]
    /\ raced \subseteq Pits

(* Before the first start of the API the table is empty.                    *)
PitsApiInit ==
    /\ \E dummy \in {None, NewRow(DummyForm)} :
          pits = [p \in Pits |-> IF p = Dummy THEN dummy ELSE None]
    /\ objects = {} /\ calls = {} /\ made = 0 /\ raced = {}
    /\ intended = pits

-----------------------------------------------------------------------------
Replace(c, d) == calls' = (calls \ {c}) \cup {d}
Step(c, step) == Replace(c, [c EXCEPT !.step = step])
Finished(c, outcome) ==
    [PitCall(c.from, c.kind, c.pit, NoForm, outcome) EXCEPT !.open = c.open]
Finish(c, outcome) ==
    calls' = (calls \ {c}) \cup
        (IF c.from \in Editors THEN {Finished(c, outcome)} ELSE {})
Fail(c) == Finish(c, "failed")

(* Calls that have read the PIT, and not written it yet.                    *)
Working(p) == {c \in calls : c.pit = p /\ c.step \in {"put", "compare", "update", "insert"}}

(* The table and what it should be, after a write of call c.                *)
Wrote(c, row, asked) ==
    /\ pits' = [pits EXCEPT ![c.pit] = row]
    /\ raced' = IF Working(c.pit) \ {c} # {} THEN raced \cup {c.pit} ELSE raced
    /\ intended' = [intended EXCEPT ![c.pit] = asked]

(* Mutant: a field that was left out is taken for an empty one.             *)
AssignedNull(row, form) == [row EXCEPT !.code = form.code, !.note = form.note]

(* Object.assign(pit, dto): JSON leaves out the fields that are undefined.  *)
Assigned(row, form) ==
    [row EXCEPT !.code = form.code,
                !.note = IF form.note = None THEN row.note ELSE form.note]

(* What a call wants the row to be.                                         *)
Asked(c, row) ==
    IF c.kind \in {"upload", "tests"}
       THEN [row EXCEPT !.key = TRUE]
       ELSE [row EXCEPT !.code = c.form.code,
                        !.note = IF c.form.note = None THEN row.note ELSE c.form.note]

(* Mutant: the seed saves the dummy PIT without looking for it.             *)
FindPitSeedsAlways(c) ==
    LET row == pits[c.pit]
        Work(entity, step) == Replace(c, [c EXCEPT !.entity = entity, !.step = step])
    IN /\ c.step = "find"
       /\ CASE c.kind = "seed" -> Work(NewRow(c.form), "compare")
            [] c.kind # "seed" /\ row = None -> Fail(c)
            [] OTHER ->
                 CASE c.kind = "get" -> Work(row, "ok")
                   [] c.kind = "update" -> Work(Assigned(row, c.form), "compare")
                   [] c.kind \in {"upload", "tests"} -> Work(row, "put")
                   [] c.kind = "delete" -> Step(c, "remove")
       /\ UNCHANGED <<pits, objects, made, intended, raced>>

FindPit(c) ==
    LET row == pits[c.pit]
        Work(entity, step) == Replace(c, [c EXCEPT !.entity = entity, !.step = step])
    IN /\ c.step = "find"
       /\ IF row = None
             THEN IF c.kind = "seed" THEN Work(NewRow(c.form), "compare") ELSE Fail(c)
             ELSE CASE c.kind = "seed" -> Finish(c, "ok")
                    [] c.kind = "get" -> Work(row, "ok")
                    [] c.kind = "update" -> Work(Assigned(row, c.form), "compare")
                    [] c.kind \in {"upload", "tests"} -> Work(row, "put")
                    [] c.kind = "delete" -> Step(c, "remove")
       /\ UNCHANGED <<pits, objects, made, intended, raced>>

(* Mutant: the upload to S3 is not awaited.                                 *)
PutTestsInBackground(c) ==
    /\ c.step = "put"
    /\ \/ objects' = objects \cup {c.pit}
       \/ "s3" \in Faults /\ UNCHANGED objects
    /\ Replace(c, [c EXCEPT !.entity.key = TRUE, !.step = "compare"])
    /\ UNCHANGED <<pits, made, intended, raced>>

(* uploadTests: the object first, then its key.  A put that failed may have *)
(* stored the object.                                                       *)
PutTests(c) ==
    /\ c.step = "put"
    /\ \/ /\ objects' = objects \cup {c.pit}
          /\ Replace(c, [c EXCEPT !.entity.key = TRUE, !.step = "compare"])
       \/ "s3" \in Faults /\ Fail(c) /\ objects' \in {objects, objects \cup {c.pit}}
    /\ UNCHANGED <<pits, made, intended, raced>>

(* save: the row is read again, and compared with the entity.  The seed's   *)
(* entity has no key at all.                                                *)
SaveCompares(c) ==
    LET row == pits[c.pit]
        has == IF c.kind = "seed" THEN Columns \ {"key"} ELSE Columns
        differ == {k \in has : row[k] # c.entity[k]}
    IN /\ c.step = "compare"
       /\ CASE row = None -> Step(c, "insert")
            [] row # None /\ differ = {} -> Finish(c, "ok")
            [] OTHER -> Replace(c, [c EXCEPT !.cols = differ, !.step = "update"])
       /\ UNCHANGED <<pits, objects, made, intended, raced>>

(* The unique constraint of pits.code.                                      *)
CodeIsFree(p, code) ==
    \A q \in Pits \ {p} : pits[q] # None => pits[q].code # code

(* The UPDATE of the differing columns; it is no error if it finds no row.  *)
SaveUpdates(c) ==
    LET row == pits[c.pit]
        new == [code |-> IF "code" \in c.cols THEN c.entity.code ELSE row.code,
                note |-> IF "note" \in c.cols THEN c.entity.note ELSE row.note,
                key |-> IF "key" \in c.cols THEN c.entity.key ELSE row.key]
    IN /\ c.step = "update"
       /\ CASE row = None -> Finish(c, "ok") /\ UNCHANGED <<pits, intended, raced>>
            [] row # None /\ CodeIsFree(c.pit, new.code) ->
                  Finish(c, "ok") /\ Wrote(c, new, Asked(c, row))
            [] OTHER -> Fail(c) /\ UNCHANGED <<pits, intended, raced>>
       /\ UNCHANGED <<objects, made>>

(* The INSERT of a new PIT, or of one that was deleted after it was read.   *)
SaveInserts(c) ==
    /\ c.step = "insert"
    /\ IF pits[c.pit] = None /\ CodeIsFree(c.pit, c.entity.code)
          THEN Finish(c, "ok") /\ Wrote(c, c.entity, c.entity)
          ELSE Fail(c) /\ UNCHANGED <<pits, intended, raced>>
    /\ UNCHANGED <<objects, made>>

(* deletePit; rows of submissions that refer to the PIT make it fail.       *)
RemovePit(c) ==
    /\ c.step = "remove"
    /\ \/ Finish(c, "ok") /\ Wrote(c, None, None)
       \/ "fk" \in Faults /\ Fail(c) /\ UNCHANGED <<pits, intended, raced>>
    /\ UNCHANGED <<objects, made>>

(* The API stops: whatever a call has not done stays undone.                *)
CallFails(c) ==
    /\ "net" \in Faults
    /\ c.step \notin {"ok", "failed"}
    /\ Fail(c)
    /\ UNCHANGED <<pits, objects, made, intended, raced>>

Idle(k) == k \in Strays /\ \A c \in calls : c.from # k

(* The connection of a page breaks: the page reports a failure, and the API *)
(* goes on with the call.                                                   *)
AnswerLost(c) ==
    /\ "net" \in Faults
    /\ c.from \in Editors
    /\ c.kind # "get"
    /\ c.step \notin {"ok", "failed"}
    /\ \E k \in Strays :
          /\ Idle(k)
          /\ calls' = (calls \ {c}) \cup
                {Finished(c, "failed"), [c EXCEPT !.from = k, !.open = FALSE]}
    /\ UNCHANGED <<pits, objects, made, intended, raced>>

(* A task of the API starts, next to the ones that run or start.            *)
ApiStarts ==
    /\ \E k \in Strays :
          Idle(k) /\ calls' = calls \cup {PitCall(k, "seed", Dummy, DummyForm, "find")}
    /\ UNCHANGED <<pits, objects, made, intended, raced>>

ServePit(c) ==
    \/ FindPit(c) \/ PutTests(c) \/ SaveCompares(c) \/ SaveUpdates(c)
    \/ SaveInserts(c) \/ RemovePit(c) \/ CallFails(c) \/ AnswerLost(c)
=============================================================================
