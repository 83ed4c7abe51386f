----------------------------- MODULE Catalogue -----------------------------
(***************************************************************************)
(* The catalogue of PITs: its pages in several tabs over the API.           *)
(***************************************************************************)
EXTENDS PitPages

vars == <<apiVars, page, used>>

(* Rows, requests and forms are what they can be; a row always has a code.  *)
TypeOK == PitsApiTypeOK /\ PitPagesTypeOK

Init == PitsApiInit /\ PitPagesInit

Next ==
    \/ \E c \in calls : ServePit(c) /\ UNCHANGED <<page, used>>
    \/ ApiStarts /\ UNCHANGED <<page, used>>
    \/ \E c \in calls : ReceivePit(c)
                        /\ UNCHANGED <<pits, objects, intended, raced>>
    \/ \E e \in Editors : PitClick(e)
                          /\ UNCHANGED <<pits, objects, intended, raced>>

Spec == Init /\ [][Next]_vars

-----------------------------------------------------------------------------
(* A PIT that names its tests has them in the bucket.                       *)
KeyHasTests == \A p \in Pits : pits[p] # None /\ pits[p].key => p \in objects

(* A task of the API that starts never sets the dummy PIT back, whose row   *)
(* may have been edited, unless another call wrote it between the look-up   *)
(* of the seed and its save.                                                *)
SeedsOnlyFillGaps ==
    \A c \in calls : c.kind = "seed" /\ c.step = "update" => c.pit \in raced

(* As long as no call writes a PIT under another one's hands, its row is    *)
(* what the calls asked for: every field that was sent is kept, no other    *)
(* changes, and what was deleted stays deleted.  Calls whose page was told  *)
(* of a failure count, if they went on.                                     *)
SavesAreKept == \A p \in Pits \ raced : pits[p] = intended[p]
=============================================================================
