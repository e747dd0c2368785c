-------------------------- MODULE WorldStoreProofs --------------------------
(***************************************************************************)
(* What the file of a dimension's edits is worth, for any number of        *)
(* editors, of savers, of edits, failures and kills: as long as no two     *)
(* calls of Save meet it always holds a whole snapshot, and as long as no  *)
(* save clears a mark it does not save, an edit is never forgotten and a   *)
(* nil answer is never wrong.                                              *)
(***************************************************************************)
EXTENDS WorldStore, TLAPS

USE DEF Revisions

-----------------------------------------------------------------------------
LEMMA IdleType == Idle \in Call
  BY WorldStoreAssumption DEF Idle, Call

LEMMA CallType ==
  ASSUME TypeOK, NEW s \in Savers
  PROVE  /\ saver[s] \in Call
         /\ saver[s].copy \in Revisions /\ saver[s].owed \in Revisions
         /\ 0 \in Revisions
  BY WorldStoreAssumption DEF TypeOK, Call

LEMMA NowType ==
  ASSUME TypeOK, NEW s \in Savers, NEW copy \in Revisions,
         NEW at \in {"copied", "cleared", "open", "written", "failed", "done", "refused"},
         NEW on \in {"none", "tmp"}
  PROVE  Now(s, at, copy, on) \in Call
  BY CallType DEF Now, Call

LEMMA OverType ==
  ASSUME TypeOK, NEW s \in Savers, NEW at \in {"failed", "done", "refused"}
  PROVE  Over(s, at) \in Call
  BY CallType, NowType DEF Over

\* A step that changes the call of s alone.
LEMMA OneCall ==
  ASSUME TypeOK, NEW s \in Savers, NEW c \in Call, saver' = [saver EXCEPT ![s] = c]
  PROVE  saver' \in [Savers -> Call]
  BY DEF TypeOK

LEMMA BegunType ==
  ASSUME TypeOK
  PROVE  [at   |-> IF dirty THEN "begun" ELSE "done", copy |-> 0,
          owed |-> IF marking = {} THEN edits ELSE 0, on |-> "none"] \in Call
<1>1. /\ (IF dirty THEN "begun" ELSE "done") \in {"begun", "done"}
      /\ (IF marking = {} THEN edits ELSE 0) \in Revisions
  BY WorldStoreAssumption DEF TypeOK
<1> QED
  BY <1>1, WorldStoreAssumption DEF Call

LEMMA NameType ==
  ASSUME NEW on \in {"none", "tmp", "live", "gone"}
  PROVE  /\ Followed(on) \in {"none", "tmp", "live", "gone"}
         /\ Orphaned(on) \in {"none", "tmp", "live", "gone"}
         /\ Followed(on) = "none" <=> on = "none"
         /\ Orphaned(on) = "none" <=> on = "none"
  BY DEF Followed, Orphaned

LEMMA ContentsType ==
  ASSUME TypeOK, NEW s \in Savers
  PROVE  Contents(s) \subseteq Revisions \union {Torn}
  BY DEF TypeOK, Contents, Call

LEMMA InitType == Init => TypeOK
<1> SUFFICES ASSUME Init PROVE TypeOK
  OBVIOUS
<1>1. saver \in [Savers -> Call]
  BY IdleType DEF Init
<1>2. edits \in Revisions
  BY WorldStoreAssumption DEF Init
<1>5. /\ proc \in {"up", "stopped", "killed"} /\ marking \subseteq Editors
      /\ dirty \in BOOLEAN /\ saveOff \in BOOLEAN /\ slipped \in BOOLEAN /\ overlapped \in BOOLEAN
  BY DEF Init
<1>3. file \in [live : Revisions \union {Torn}, tmp : Revisions \union {Torn, Absent}]
  BY WorldStoreAssumption DEF Init
<1>4. faults \in [failures : 0..MaxFailures, kills : 0..MaxKills]
  BY WorldStoreAssumption DEF Init
<1> QED
  BY <1>1, <1>2, <1>3, <1>4, <1>5 DEF TypeOK

LEMMA SaveStepType ==
  ASSUME TypeOK, NEW s \in Savers, SaveStep(s)
  PROVE  TypeOK'
<1> USE CallType
<1>1. CASE CopyEdits(s)
  <2>1. Now(s, "copied", edits, "none") \in Call
    BY NowType DEF TypeOK
  <2> QED
    BY <1>1, <2>1, OneCall DEF CopyEdits, TypeOK
<1>2. CASE ClearDirty(s)
  <2>1. Now(s, "cleared", saver[s].copy, "none") \in Call
    BY NowType
  <2> QED
    BY <1>2, <2>1, OneCall DEF ClearDirty, TypeOK
<1>3. CASE Create(s)
  <2>1. Now(s, "open", saver[s].copy, "tmp") \in Call
    BY NowType
  <2>2. file' \in [live : Revisions \union {Torn}, tmp : Revisions \union {Torn, Absent}]
    BY <1>3 DEF Create, Truncated, TypeOK
  <2> QED
    BY <1>3, <2>1, <2>2, OneCall DEF Create, TypeOK
<1>4. CASE Write(s)
  <2>1. Now(s, "written", saver[s].copy, "none") \in Call
    BY NowType
  <2>2. file' \in [live : Revisions \union {Torn}, tmp : Revisions \union {Torn, Absent}]
    BY <1>4, ContentsType DEF Write, TypeOK
  <2> QED
    BY <1>4, <2>1, <2>2, OneCall DEF Write, TypeOK
<1>5. CASE Rename(s)
  <2>1. ASSUME NEW r \in Savers PROVE [saver[r] EXCEPT !.on = Followed(@)] \in Call
    BY NameType DEF Call
  <2>2. saver' \in [Savers -> Call]
    BY <1>5, <2>1, OverType DEF Rename
  <2>3. file' \in [live : Revisions \union {Torn}, tmp : Revisions \union {Torn, Absent}]
    BY <1>5 DEF Rename, TmpThere, TypeOK
  <2> QED
    BY <1>5, <2>2, <2>3 DEF Rename, TypeOK
<1>6. CASE FailWrite(s)
  <2>1. ASSUME NEW r \in Savers PROVE [saver[r] EXCEPT !.on = Orphaned(@)] \in Call
    BY NameType DEF Call
  <2>2. saver' \in [Savers -> Call]
    BY <1>6, <2>1, OverType DEF FailWrite
  <2>3. file' \in [live : Revisions \union {Torn}, tmp : Revisions \union {Torn, Absent}]
    <3>1. saver[s].copy \in Revisions
      BY DEF Call
    <3> QED
      BY <1>6, <3>1 DEF FailWrite, TypeOK
  <2>4. faults' \in [failures : 0..MaxFailures, kills : 0..MaxKills]
    BY <1>6, WorldStoreAssumption DEF FailWrite, TypeOK
  <2> QED
    BY <1>6, <2>2, <2>3, <2>4 DEF FailWrite, TypeOK
<1>7. CASE FailName(s)
  <2>1. saver' \in [Savers -> Call]
    BY <1>7, OverType, OneCall DEF FailName
  <2>2. faults' \in [failures : 0..MaxFailures, kills : 0..MaxKills]
    BY <1>7, WorldStoreAssumption DEF FailName, TypeOK
  <2> QED
    BY <1>7, <2>1, <2>2 DEF FailName, TypeOK
<1>8. CASE Refuse(s)
  BY <1>8, OverType, OneCall DEF Refuse, Redirtied, TypeOK
<1>9. CASE Return(s)
  BY <1>9, IdleType, OneCall DEF Return, TypeOK
<1> QED
  BY SaveStep(s), <1>1, <1>2, <1>3, <1>4, <1>5, <1>6, <1>7, <1>8, <1>9 DEF SaveStep

\* Every variable of the world store always holds what the code keeps in it.
THEOREM StoreTypeCorrect == Spec => []TypeOK
<1>1. TypeOK /\ [Next]_vars => TypeOK'
  <2> SUFFICES ASSUME TypeOK, [Next]_vars PROVE TypeOK'
    OBVIOUS
  <2>1. ASSUME NEW e \in Editors, ChangeBlock(e) PROVE TypeOK'
    BY <2>1, WorldStoreAssumption DEF ChangeBlock, TypeOK
  <2>2. ASSUME NEW e \in Editors, MarkDirty(e) PROVE TypeOK'
    BY <2>2 DEF MarkDirty, Marked, TypeOK
  <2>3. ASSUME NEW s \in Savers, Begin(s) PROVE TypeOK'
    <3> QED
      BY <2>3, BegunType, OneCall DEF Begin, TypeOK
  <2>4. ASSUME NEW s \in Savers, SaveStep(s) PROVE TypeOK'
    BY <2>4, SaveStepType
  <2>5. CASE Tick
    <3>1. [Idle EXCEPT !.at = "ticked"] \in Call
      BY IdleType DEF Call
    <3> QED
      BY <2>5, <3>1, WorldStoreAssumption, OneCall DEF Tick, TypeOK
  <2>6. CASE SwitchSaving
    BY <2>6 DEF SwitchSaving, TypeOK
  <2>7. CASE Exit
    BY <2>7 DEF Exit, TypeOK
  <2>8. CASE Kill
    <3>1. faults' \in [failures : 0..MaxFailures, kills : 0..MaxKills]
      BY <2>8, WorldStoreAssumption DEF Kill, TypeOK
    <3> QED
      BY <2>8, <3>1 DEF Kill, TypeOK
  <2>9. CASE Boot
    BY <2>9, IdleType DEF Boot, TypeOK
  <2>10. CASE UNCHANGED vars
    BY <2>10 DEF vars, TypeOK
  <2> QED
    BY <2>1, <2>2, <2>3, <2>4, <2>5, <2>6, <2>7, <2>8, <2>9, <2>10 DEF Next
<1> QED
  BY InitType, <1>1, PTL DEF Spec

-----------------------------------------------------------------------------
(* The strengthening.  While one call of Save is at work at a time, the    *)
(* saver's descriptor reaches the temporary, the temporary holds its copy  *)
(* once written, and the copy lies between what the file has and what the  *)
(* overlay has: so the file only ever gains.                               *)

Alone == \A r, s \in Savers : AtWork(r) /\ AtWork(s) => r = s

Whole == file.live # Torn /\ file.live <= edits

Holding(s) == saver[s].at \in {"copied", "cleared", "open", "written"}

InHand == \A s \in Savers :
  /\ saver[s].on # "none" => saver[s].at = "open"
  /\ saver[s].at = "open" => saver[s].on = "tmp"
  /\ saver[s].at = "written" => file.tmp = saver[s].copy
  /\ saver[s].at = "begun" => saver[s].owed <= edits
  /\ Holding(s) => /\ saver[s].owed <= saver[s].copy
                   /\ file.live <= saver[s].copy
                   /\ saver[s].copy <= edits

Kept == \A s \in Savers : saver[s].at = "done" => saver[s].owed <= file.live

Remembered ==
  proc = "up" => file.live = edits \/ dirty \/ marking # {} \/ \E s \in Savers : Carries(s)

Orderly == Alone /\ Whole /\ InHand

Exact == Kept /\ Remembered

StoreInv ==
  /\ TypeOK
  /\ ~ overlapped => Orderly
  /\ ~ overlapped /\ ~ slipped => Exact

\* Nothing of the call of r has changed.
Same(r) == /\ saver'[r].at = saver[r].at /\ saver'[r].copy = saver[r].copy
           /\ saver'[r].owed = saver[r].owed /\ saver'[r].on = saver[r].on

LEMMA OthersRest ==
  ASSUME TypeOK, Alone, InHand, NEW s \in Savers, AtWork(s), NEW r \in Savers \ {s}
  PROVE  ~ AtWork(r) /\ saver[r].on = "none"
  BY DEF Alone, InHand, AtWork, TypeOK

\* The call of s after a step of it, and that no other has changed.
LEMMA Update ==
  ASSUME TypeOK, NEW s \in Savers, NEW c, saver' = [saver EXCEPT ![s] = c]
  PROVE  saver'[s] = c /\ \A r \in Savers \ {s} : Same(r)
  BY DEF TypeOK, Same

LEMMA UpdateAll ==
  ASSUME TypeOK, Orderly, NEW s \in Savers, AtWork(s), NEW c,
         \/ saver' = [r \in Savers |-> IF r = s THEN c ELSE [saver[r] EXCEPT !.on = Followed(@)]]
         \/ saver' = [r \in Savers |-> IF r = s THEN c ELSE [saver[r] EXCEPT !.on = Orphaned(@)]]
  PROVE  saver'[s] = c /\ \A r \in Savers \ {s} : Same(r)
<1>1. saver'[s] = c
  OBVIOUS
<1>2. ASSUME NEW r \in Savers \ {s} PROVE Same(r)
  <2>1. saver[r].on = "none" /\ saver[r] \in Call
    BY OthersRest, CallType DEF Orderly
  <2>2. Followed("none") = "none" /\ Orphaned("none") = "none"
    BY DEF Followed, Orphaned
  <2>3. saver'[r] = [saver[r] EXCEPT !.on = "none"]
    BY <2>1, <2>2
  <2> QED
    BY <2>1, <2>3 DEF Same, Call
<1> QED
  BY <1>1, <1>2

-----------------------------------------------------------------------------
(* Orderly: the steps of the one saver at work.                            *)

\* What is left to show of a step of s that leaves every other call alone.
LEMMA OrderlyByOne ==
  ASSUME TypeOK, Orderly, NEW s \in Savers, AtWork(s),
         \A r \in Savers \ {s} : Same(r),
         Whole',
         saver'[s].on # "none" => saver'[s].at = "open",
         saver'[s].at = "open" => saver'[s].on = "tmp",
         saver'[s].at = "written" => file'.tmp = saver'[s].copy,
         saver'[s].at # "begun",
         Holding(s)' => /\ saver'[s].owed <= saver'[s].copy
                        /\ file'.live <= saver'[s].copy
                        /\ saver'[s].copy <= edits'
  PROVE  Orderly'
<1>1. ASSUME NEW r \in Savers \ {s} PROVE ~ AtWork(r)' /\ saver'[r].on = "none"
  BY OthersRest DEF Orderly, Same, AtWork
<1>2. Alone'
  BY <1>1 DEF Alone
<1>3. ASSUME NEW r \in Savers \ {s}
      PROVE  saver'[r].at \notin {"open", "written", "begun"} /\ ~ Holding(r)'
  BY <1>1 DEF AtWork, Holding
<1>4. InHand'
  BY <1>1, <1>3 DEF InHand
<1> QED
  BY <1>2, <1>4 DEF Orderly

LEMMA OrderlySave ==
  ASSUME TypeOK, Orderly, NEW s \in Savers, SaveStep(s)
  PROVE  Orderly'
<1> USE CallType
<1>1. CASE CopyEdits(s)
  <2>1. saver'[s] = Now(s, "copied", edits, "none") /\ \A r \in Savers \ {s} : Same(r)
    BY <1>1, Update DEF CopyEdits
  <2>2. AtWork(s) /\ edits \in Nat
    BY <1>1, WorldStoreAssumption DEF CopyEdits, AtWork, TypeOK
  <2>3. saver[s].owed <= edits /\ file.live <= edits
    BY <1>1 DEF CopyEdits, Orderly, InHand, Whole
  <2>4. Whole' /\ edits' = edits /\ file' = file
    BY <1>1 DEF CopyEdits, Whole, Orderly
  <2> QED
    BY <2>1, <2>2, <2>3, <2>4, OrderlyByOne DEF Now, Holding
<1>2. CASE ClearDirty(s)
  <2>1. saver'[s] = Now(s, "cleared", saver[s].copy, "none") /\ \A r \in Savers \ {s} : Same(r)
    BY <1>2, Update DEF ClearDirty
  <2>2. AtWork(s) /\ Holding(s)
    BY <1>2 DEF ClearDirty, AtWork, Holding
  <2>4. Whole' /\ edits' = edits /\ file' = file
    BY <1>2 DEF ClearDirty, Whole, Orderly
  <2> QED
    BY <2>1, <2>2, <2>4, OrderlyByOne DEF Now, Holding, Orderly, InHand
<1>3. CASE Create(s)
  <2>1. saver'[s] = Now(s, "open", saver[s].copy, "tmp") /\ \A r \in Savers \ {s} : Same(r)
    BY <1>3, Update DEF Create
  <2>2. AtWork(s) /\ Holding(s)
    BY <1>3 DEF Create, AtWork, Holding
  <2>3. edits' = edits /\ file'.live = file.live
    BY <1>3 DEF Create, Truncated, TypeOK
  <2>4. Whole'
    BY <2>3 DEF Whole, Orderly
  <2> QED
    BY <2>1, <2>2, <2>3, <2>4, OrderlyByOne DEF Now, Holding, Orderly, InHand
<1>4. CASE Write(s)
  <2>1. saver'[s] = Now(s, "written", saver[s].copy, "none") /\ \A r \in Savers \ {s} : Same(r)
    BY <1>4, Update DEF Write
  <2>2. AtWork(s) /\ Holding(s)
    BY <1>4 DEF Write, AtWork, Holding
  <2>3. saver[s].on = "tmp" /\ \A r \in Savers \ {s} : saver[r].on = "none"
    BY <1>4, <2>2, OthersRest DEF Write, Orderly, InHand
  <2>4. Contents(s) = {saver[s].copy}
    BY <2>3 DEF Contents
  <2>5. edits' = edits /\ file'.live = file.live /\ file'.tmp = saver[s].copy
    BY <1>4, <2>3, <2>4 DEF Write, TypeOK
  <2>6. Whole'
    BY <2>5 DEF Whole, Orderly
  <2> QED
    BY <2>1, <2>2, <2>5, <2>6, OrderlyByOne DEF Now, Holding, Orderly, InHand
<1>5. CASE Rename(s)
  <2>2. AtWork(s) /\ Holding(s) /\ saver[s].at = "written"
    BY <1>5 DEF Rename, AtWork, Holding
  <2>1. saver'[s] = Over(s, "done") /\ \A r \in Savers \ {s} : Same(r)
    BY <1>5, <2>2, UpdateAll DEF Rename
  <2>3. edits' = edits /\ file'.live = saver[s].copy
    BY <1>5, <2>2 DEF Rename, Orderly, InHand
  <2>4. saver[s].copy # Torn /\ saver[s].copy <= edits
    BY <2>2, WorldStoreAssumption DEF Orderly, InHand
  <2>5. Whole'
    BY <2>3, <2>4 DEF Whole
  <2> QED
    BY <2>1, <2>2, <2>5, OrderlyByOne DEF Over, Now, Holding
<1>6. CASE FailWrite(s)
  <2>2. AtWork(s) /\ saver[s].at = "open"
    BY <1>6 DEF FailWrite, AtWork
  <2>1. saver'[s] = Over(s, "failed") /\ \A r \in Savers \ {s} : Same(r)
    BY <1>6, <2>2, UpdateAll DEF FailWrite
  <2>3. saver[s].on = "tmp"
    BY <2>2 DEF Orderly, InHand
  <2>4. edits' = edits /\ file'.live = file.live
    BY <1>6, <2>3 DEF FailWrite
  <2>5. Whole'
    BY <2>4 DEF Whole, Orderly
  <2> QED
    BY <2>1, <2>2, <2>5, OrderlyByOne DEF Over, Now, Holding
<1>7. CASE FailName(s)
  <2>1. saver'[s] = Over(s, "failed") /\ \A r \in Savers \ {s} : Same(r)
    BY <1>7, Update DEF FailName
  <2>2. AtWork(s)
    BY <1>7 DEF FailName, AtWork
  <2>4. Whole'
    BY <1>7 DEF FailName, Whole, Orderly
  <2> QED
    BY <2>1, <2>2, <2>4, OrderlyByOne DEF Over, Now, Holding
<1>8. CASE Refuse(s)
  <2>1. saver'[s] = Over(s, "refused") /\ \A r \in Savers \ {s} : Same(r)
    BY <1>8, Update DEF Refuse
  <2>2. AtWork(s)
    BY <1>8 DEF Refuse, AtWork
  <2>4. Whole'
    BY <1>8 DEF Refuse, Whole, Orderly
  <2> QED
    BY <2>1, <2>2, <2>4, OrderlyByOne DEF Over, Now, Holding
<1>9. CASE Return(s)
  <2>1. saver'[s] = Idle /\ \A r \in Savers \ {s} : Same(r)
    BY <1>9, Update DEF Return
  <2>2. edits' = edits /\ file' = file
    BY <1>9 DEF Return
  <2>3. Alone'
    BY <2>1 DEF Alone, AtWork, Same, Idle, Orderly
  <2>4. InHand' /\ Whole'
    BY <2>1, <2>2 DEF InHand, Whole, Same, Idle, Orderly, Holding
  <2> QED
    BY <2>3, <2>4 DEF Orderly
<1> QED
  BY SaveStep(s), <1>1, <1>2, <1>3, <1>4, <1>5, <1>6, <1>7, <1>8, <1>9 DEF SaveStep

-----------------------------------------------------------------------------
(* Exact: what a save does to the edits it carries and the answers given.  *)

LEMMA CarriesWorks ==
  ASSUME NEW s \in Savers, Carries(s)
  PROVE  AtWork(s)
  BY DEF Carries, AtWork

\* A step of s that leaves the live file and every other call alone.
LEMMA ExactByOne ==
  ASSUME TypeOK, Exact, NEW s \in Savers,
         \A r \in Savers \ {s} : Same(r),
         proc' = proc, edits' = edits, marking' = marking, file'.live = file.live,
         saver'[s].at = "done" => saver'[s].owed <= file.live,
         dirty => dirty' \/ Carries(s)' \/ marking # {},
         Carries(s) => Carries(s)' \/ dirty'
  PROVE  Exact'
<1>1. Kept'
  BY DEF Exact, Kept, Same
<1>2. ASSUME NEW r \in Savers \ {s}, Carries(r) PROVE Carries(r)'
  BY <1>2 DEF Carries, Same
<1>3. Remembered'
  BY <1>2 DEF Exact, Remembered
<1> QED
  BY <1>1, <1>3 DEF Exact

LEMMA ExactSave ==
  ASSUME TypeOK, Orderly, Exact, NEW s \in Savers, SaveStep(s), ~ slipped'
  PROVE  Exact'
<1> USE CallType
<1>1. CASE CopyEdits(s)
  <2>1. saver'[s] = Now(s, "copied", edits, "none") /\ \A r \in Savers \ {s} : Same(r)
    BY <1>1, Update DEF CopyEdits
  <2>2. Carries(s)' /\ saver'[s].at # "done"
    BY <1>1, <2>1 DEF CopyEdits, Carries, Now
  <2> QED
    BY <1>1, <2>1, <2>2, ExactByOne DEF CopyEdits
<1>2. CASE ClearDirty(s)
  <2>1. saver'[s] = Now(s, "cleared", saver[s].copy, "none") /\ \A r \in Savers \ {s} : Same(r)
    BY <1>2, Update DEF ClearDirty
  <2>4. saver[s].copy = edits \/ marking # {}
    BY <1>2 DEF ClearDirty
  <2>2. saver'[s].at # "done" /\ (Carries(s)' \/ marking # {})
    BY <1>2, <2>1, <2>4 DEF ClearDirty, Carries, Now
  <2>3. Carries(s) => Carries(s)'
    BY <1>2, <2>1 DEF ClearDirty, Carries, Now
  <2> QED
    BY <1>2, <2>1, <2>2, <2>3, ExactByOne DEF ClearDirty
<1>3. CASE Create(s)
  <2>1. saver'[s] = Now(s, "open", saver[s].copy, "tmp") /\ \A r \in Savers \ {s} : Same(r)
    BY <1>3, Update DEF Create
  <2>2. saver'[s].at # "done" /\ (Carries(s) => Carries(s)')
    BY <1>3, <2>1 DEF Create, Carries, Now
  <2>3. file'.live = file.live
    BY <1>3 DEF Create, Truncated, TypeOK
  <2> QED
    BY <1>3, <2>1, <2>2, <2>3, ExactByOne DEF Create
<1>4. CASE Write(s)
  <2>1. saver'[s] = Now(s, "written", saver[s].copy, "none") /\ \A r \in Savers \ {s} : Same(r)
    BY <1>4, Update DEF Write
  <2>2. saver'[s].at # "done" /\ (Carries(s) => Carries(s)')
    BY <1>4, <2>1 DEF Write, Carries, Now
  <2>3. saver[s].on = "tmp"
    BY <1>4 DEF Write, Orderly, InHand
  <2>4. file'.live = file.live
    BY <1>4, <2>3 DEF Write, TypeOK
  <2> QED
    BY <1>4, <2>1, <2>2, <2>4, ExactByOne DEF Write
<1>5. CASE Rename(s)
  <2>1. AtWork(s) /\ Holding(s) /\ saver[s].at = "written"
    BY <1>5 DEF Rename, AtWork, Holding
  <2>2. saver'[s] = Over(s, "done") /\ \A r \in Savers \ {s} : Same(r)
    BY <1>5, <2>1, UpdateAll DEF Rename
  <2>3. file'.live = saver[s].copy
    BY <1>5, <2>1 DEF Rename, Orderly, InHand
  <2>4. /\ saver[s].owed <= saver[s].copy /\ file.live <= saver[s].copy
        /\ saver[s].copy <= edits /\ file.live \in Nat /\ edits \in Nat /\ saver[s].copy \in Nat
    BY <2>1, WorldStoreAssumption DEF Orderly, InHand, Whole, TypeOK
  <2>5. ASSUME NEW r \in Savers, saver'[r].at = "done" PROVE saver'[r].owed <= file'.live
    <3>1. CASE r = s
      BY <3>1, <2>2, <2>3, <2>4 DEF Over, Now
    <3>2. CASE r # s
      <4>1. saver'[r].owed = saver[r].owed /\ saver[r].owed <= file.live
        BY <2>5, <3>2, <2>2 DEF Same, Exact, Kept
      <4>2. saver[r].owed \in Nat
        BY WorldStoreAssumption
      <4> QED
        BY <4>1, <4>2, <2>3, <2>4
    <3> QED
      BY <3>1, <3>2
  <2>6. Remembered'
    <3>1. /\ proc' = proc /\ edits' = edits /\ marking' = marking /\ dirty' = dirty
      BY <1>5 DEF Rename
    <3>2. ASSUME NEW r \in Savers, Carries(r) PROVE file'.live = edits
      BY <3>2, <2>1, <2>3, CarriesWorks DEF Orderly, Alone, Carries
    <3>3. file.live = edits => file'.live = edits
      BY <2>3, <2>4
    <3> QED
      BY <3>1, <3>2, <3>3 DEF Exact, Remembered
  <2> QED
    BY <2>5, <2>6 DEF Exact, Kept
<1>6. CASE FailWrite(s)
  <2>1. AtWork(s) /\ saver[s].on = "tmp"
    BY <1>6 DEF FailWrite, AtWork, Orderly, InHand
  <2>2. saver'[s] = Over(s, "failed") /\ \A r \in Savers \ {s} : Same(r)
    BY <1>6, <2>1, UpdateAll DEF FailWrite
  <2>3. saver'[s].at # "done" /\ Carries(s)'
    BY <2>2 DEF Carries, Over, Now
  <2>4. file'.live = file.live
    BY <1>6, <2>1 DEF FailWrite
  <2> QED
    BY <1>6, <2>2, <2>3, <2>4, ExactByOne DEF FailWrite
<1>7. CASE FailName(s)
  <2>1. saver'[s] = Over(s, "failed") /\ \A r \in Savers \ {s} : Same(r)
    BY <1>7, Update DEF FailName
  <2>2. saver'[s].at # "done" /\ Carries(s)'
    BY <2>1 DEF Carries, Over, Now
  <2> QED
    BY <1>7, <2>1, <2>2, ExactByOne DEF FailName
<1>8. CASE Refuse(s)
  <2>1. saver'[s] = Over(s, "refused") /\ \A r \in Savers \ {s} : Same(r)
    BY <1>8, Update DEF Refuse
  <2>2. saver'[s].at # "done" /\ dirty'
    BY <1>8, <2>1 DEF Refuse, Redirtied, Over, Now
  <2> QED
    BY <1>8, <2>1, <2>2, ExactByOne DEF Refuse
<1>9. CASE Return(s)
  <2>1. saver'[s] = Idle /\ \A r \in Savers \ {s} : Same(r)
    BY <1>9, Update DEF Return
  <2>2. saver'[s].at # "done" /\ ~ Carries(s)
    BY <1>9, <2>1 DEF Return, Answered, Carries, Idle
  <2> QED
    BY <1>9, <2>1, <2>2, ExactByOne DEF Return
<1> QED
  BY SaveStep(s), <1>1, <1>2, <1>3, <1>4, <1>5, <1>6, <1>7, <1>8, <1>9 DEF SaveStep

-----------------------------------------------------------------------------
(* A call of Save begins.                                                  *)

LEMMA BeginInv ==
  ASSUME StoreInv, NEW s \in Savers, Begin(s), ~ overlapped'
  PROVE  Orderly' /\ (~ slipped' => Exact')
<1> DEFINE c == [at   |-> IF dirty THEN "begun" ELSE "done", copy |-> 0,
                 owed |-> IF marking = {} THEN edits ELSE 0, on |-> "none"]
<1>0. TypeOK /\ Orderly /\ (~ slipped => Exact) /\ saver[s].at \in {"idle", "ticked"} /\ proc = "up"
  BY DEF StoreInv, Begin
<1>1. saver' = [saver EXCEPT ![s] = c]
  BY DEF Begin
<1>2. /\ proc' = proc /\ edits' = edits /\ marking' = marking /\ dirty' = dirty
      /\ file' = file /\ slipped' = slipped
  BY DEF Begin
<1>3. ASSUME NEW r \in Savers PROVE ~ AtWork(r)
  BY <1>0 DEF Begin, AtWork
<1>4. /\ c.at \in {"begun", "done"} /\ c.on = "none"
      /\ c.at = "done" => ~ dirty
      /\ c.at = "begun" => dirty
      /\ c.owed = IF marking = {} THEN edits ELSE 0
  OBVIOUS
<1>5. edits \in Nat /\ c.owed <= edits /\ file.live \in Nat
  BY <1>0, <1>4, WorldStoreAssumption DEF TypeOK, Orderly, Whole
<1> HIDE DEF c
<1>6. saver'[s] = c /\ \A r \in Savers \ {s} : Same(r)
  BY <1>0, <1>1, Update
<1>7. Orderly'
  <2>1. ASSUME NEW r \in Savers \ {s} PROVE ~ AtWork(r)' /\ ~ Holding(r)'
    BY <1>3, <1>6 DEF AtWork, Holding, Same
  <2>2. Alone'
    BY <2>1 DEF Alone
  <2>3. Whole'
    BY <1>0, <1>2 DEF Whole, Orderly
  <2>4. InHand'
    BY <1>0, <1>2, <1>4, <1>5, <1>6, <2>1 DEF InHand, Holding, Same, Orderly, AtWork
  <2> QED
    BY <2>2, <2>3, <2>4 DEF Orderly
<1>8. ASSUME ~ slipped PROVE Exact'
  <2>1. ~ dirty /\ marking = {} => file.live = edits
    BY <1>0, <1>3, <1>8, CarriesWorks DEF Exact, Remembered
  <2>2. saver'[s].at = "done" => saver'[s].owed <= file.live
    BY <1>4, <1>5, <1>6, <2>1
  <2>3. ~ Carries(s)
    BY <1>3, CarriesWorks
  <2> QED
    BY <1>0, <1>2, <1>6, <1>8, <2>2, <2>3, ExactByOne
<1> QED
  BY <1>2, <1>7, <1>8

LEMMA TickInv ==
  ASSUME StoreInv, Tick, ~ overlapped'
  PROVE  Orderly' /\ (~ slipped' => Exact')
<1> DEFINE c == [Idle EXCEPT !.at = "ticked"]
<1>1. /\ proc = "up" /\ Ticker \in Savers /\ saver[Ticker].at = "idle"
      /\ saver' = [saver EXCEPT ![Ticker] = c]
      /\ edits' = edits /\ marking' = marking /\ dirty' = dirty /\ proc' = proc
      /\ file' = file /\ slipped' = slipped /\ overlapped' = overlapped
  BY WorldStoreAssumption DEF Tick
<1>2. TypeOK /\ Orderly /\ (~ slipped => Exact)
  BY <1>1 DEF StoreInv
<1>3. c.at = "ticked" /\ c.on = "none"
  BY DEF Idle
<1> HIDE DEF c
<1>4. saver'[Ticker] = c /\ \A r \in Savers \ {Ticker} : Same(r)
  BY <1>1, <1>2, Update
<1>5. Alone'
  BY <1>2, <1>3, <1>4 DEF Alone, AtWork, Same, Orderly
<1>6. InHand' /\ Whole'
  BY <1>1, <1>2, <1>3, <1>4 DEF InHand, Whole, Same, Orderly, Holding
<1>7. ~ Carries(Ticker)
  BY <1>1 DEF Carries
<1>8. ASSUME ~ slipped PROVE Exact'
  BY <1>1, <1>2, <1>3, <1>4, <1>7, <1>8, ExactByOne
<1> QED
  BY <1>1, <1>5, <1>6, <1>8 DEF Orderly

-----------------------------------------------------------------------------
(* The invariance of StoreInv, and what follows from it.                   *)

LEMMA StoreInit == Init => StoreInv
<1> SUFFICES ASSUME Init PROVE StoreInv
  OBVIOUS
<1>1. TypeOK
  BY InitType
<1>2. \A s \in Savers : saver[s] = Idle
  BY DEF Init
<1>3. Orderly
  BY <1>2, WorldStoreAssumption DEF Init, Orderly, Alone, Whole, InHand, Holding, AtWork, Idle
<1>4. Exact
  BY <1>2 DEF Init, Exact, Kept, Remembered, Idle
<1> QED
  BY <1>1, <1>3, <1>4 DEF StoreInv

LEMMA StoreStep ==
  ASSUME StoreInv, TypeOK', [Next]_vars, ~ overlapped'
  PROVE  Orderly' /\ (~ slipped' => Exact')
<1>1. ASSUME NEW e \in Editors, ChangeBlock(e) PROVE Orderly' /\ (~ slipped' => Exact')
  <2>1. /\ saver' = saver /\ file' = file /\ marking' # {} /\ edits <= edits' /\ proc' = proc
        /\ slipped' = slipped /\ overlapped' = overlapped
    BY <1>1, WorldStoreAssumption DEF ChangeBlock, StoreInv, TypeOK
  <2>2. TypeOK /\ Orderly /\ (~ slipped => Exact)
    BY <2>1 DEF StoreInv
  <2>3. edits \in Nat /\ edits' \in Nat /\ file.live \in Nat
    BY <2>2, WorldStoreAssumption DEF TypeOK, Orderly, Whole
  <2>4. Whole'
    BY <2>1, <2>2, <2>3 DEF Orderly, Whole
  <2>5. \A s \in Savers : saver[s].copy \in Nat /\ saver[s].owed \in Nat
    BY <2>2, CallType, WorldStoreAssumption
  <2>6. InHand'
    BY <2>1, <2>2, <2>3, <2>5 DEF Orderly, InHand, Holding
  <2>7. Alone' /\ (Exact => Exact')
    BY <2>1, <2>2 DEF Orderly, Alone, AtWork, Exact, Kept, Remembered
  <2> QED
    BY <2>1, <2>2, <2>4, <2>6, <2>7 DEF Orderly
<1>2. ASSUME NEW e \in Editors, MarkDirty(e) PROVE Orderly' /\ (~ slipped' => Exact')
  <2>1. /\ saver' = saver /\ file' = file /\ dirty' /\ edits' = edits
        /\ slipped' = slipped /\ overlapped' = overlapped
    BY <1>2 DEF MarkDirty, Marked
  <2> QED
    BY <2>1 DEF StoreInv, Orderly, Alone, AtWork, Whole, InHand, Holding, Exact, Kept, Remembered
<1>3. ASSUME NEW s \in Savers, Begin(s) PROVE Orderly' /\ (~ slipped' => Exact')
  BY <1>3, BeginInv
<1>4. ASSUME NEW s \in Savers, SaveStep(s) PROVE Orderly' /\ (~ slipped' => Exact')
  <2>1. overlapped' = overlapped /\ (slipped => slipped')
    <3>1. CASE ClearDirty(s)
      <4>1. overlapped' = overlapped
        BY <3>1 DEF ClearDirty
      <4>2. slipped => slipped'
        BY <3>1 DEF ClearDirty
      <4> QED
        BY <4>1, <4>2
    <3>2. CASE ~ ClearDirty(s)
      BY <1>4, <3>2 DEF SaveStep, CopyEdits, Create, Write, Rename, FailWrite, FailName,
                        Refuse, Return
    <3> QED
      BY <3>1, <3>2
  <2>2. TypeOK /\ Orderly
    BY <2>1 DEF StoreInv
  <2>3. Orderly'
    BY <1>4, <2>2, OrderlySave
  <2>4. ASSUME ~ slipped' PROVE Exact'
    <3>1. Exact
      BY <2>1, <2>4 DEF StoreInv
    <3> QED
      BY <1>4, <2>2, <2>4, <3>1, ExactSave
  <2> QED
    BY <2>3, <2>4
<1>5. CASE Tick
  BY <1>5, TickInv
<1>6. CASE SwitchSaving
  <2>1. UNCHANGED <<proc, edits, marking, dirty, saver, file, slipped, overlapped>>
    BY <1>6 DEF SwitchSaving
  <2> QED
    BY <2>1 DEF StoreInv, Orderly, Alone, AtWork, Whole, InHand, Holding, Exact, Kept,
                Remembered, Carries
<1>7. CASE Exit \/ Kill
  <2>1. /\ saver' = saver /\ file' = file /\ edits' = edits /\ proc' # "up"
        /\ slipped' = slipped /\ overlapped' = overlapped
    BY <1>7 DEF Exit, Kill
  <2> QED
    BY <2>1 DEF StoreInv, Orderly, Alone, AtWork, Whole, InHand, Holding, Exact, Kept, Remembered
<1>8. CASE Boot
  <2>1. /\ edits' = file.live /\ file' = file /\ file.live # Torn
        /\ \A s \in Savers : saver'[s] = Idle
    BY <1>8 DEF Boot
  <2>2. file.live \in Nat
    BY <2>1, WorldStoreAssumption DEF StoreInv, TypeOK
  <2>3. Orderly'
    BY <2>1, <2>2 DEF Orderly, Alone, Whole, InHand, Holding, AtWork, Idle
  <2>4. Exact'
    BY <2>1 DEF Exact, Kept, Remembered, Idle
  <2> QED
    BY <2>3, <2>4
<1>9. CASE UNCHANGED vars
  BY <1>9 DEF vars, StoreInv, Orderly, Alone, AtWork, Whole, InHand, Holding, Exact, Kept,
              Remembered, Carries
<1> QED
  BY <1>1, <1>2, <1>3, <1>4, <1>5, <1>6, <1>7, <1>8, <1>9 DEF Next

LEMMA StoreInvariant == Spec => []StoreInv
<1>1. StoreInv /\ TypeOK' /\ [Next]_vars => StoreInv'
  BY StoreStep DEF StoreInv
<1> QED
  BY StoreInit, StoreTypeCorrect, <1>1, PTL DEF Spec

\* store.go:65: whatever fails and whenever the process dies, the live file is
\* a whole snapshot, as long as no two calls of Save have met.
THEOREM NeverTornAlways == Spec => []NeverTorn
<1>1. StoreInv => NeverTorn
  BY DEF StoreInv, Orderly, Whole, NeverTorn
<1> QED
  BY StoreInvariant, <1>1, PTL

\* world.go:338: while no save has cleared a mark it does not save and no two
\* have met, the newest edit is in the file, marked, about to be, or carried.
THEOREM NothingMissedAlways == Spec => []NothingMissed
<1>1. StoreInv => NothingMissed
  BY DEF StoreInv, Exact, Remembered, NothingMissed
<1> QED
  BY StoreInvariant, <1>1, PTL

\* busv2.go:345: under the same conditions a nil answer of Save means that all
\* that was complete when it was called is in the file.
THEOREM AnswerKeptAlways == Spec => []AnswerKept
<1>1. StoreInv => AnswerKept
  <2> SUFFICES ASSUME StoreInv, ~ slipped, ~ overlapped, NEW s \in Savers, saver[s].at = "done"
               PROVE  file.live >= saver[s].owed
    BY DEF AnswerKept
  <2>1. TypeOK /\ saver[s].owed <= file.live /\ file.live # Torn
    BY DEF StoreInv, Exact, Kept, Orderly, Whole
  <2>2. saver[s].owed \in Nat /\ file.live \in Nat
    BY <2>1, CallType, WorldStoreAssumption DEF TypeOK
  <2> QED
    BY <2>1, <2>2
<1> QED
  BY StoreInvariant, <1>1, PTL
=============================================================================
