----------------------------- MODULE WorldStore -----------------------------
(***************************************************************************)
(* The blocks players have changed in one dimension and the file that      *)
(* keeps them (internal/world/world.go, store.go).  Connections and the    *)
(* hub edit the overlay and mark it dirty; the autosave ticker, a          *)
(* /save-all, every bus "save" command and the shutdown each call Save on  *)
(* a goroutine of their own, with no lock held from end to end: Save looks *)
(* at the mark, copies the overlay, clears the mark, writes the copy to a  *)
(* temporary file and renames that over the live one.  /save-off holds     *)
(* back the autosave, and nothing else.                                    *)
(*                                                                         *)
(* An overlay is named by the number of edits that made it.  Where the     *)
(* edits are, the caches each edit refreshes, and power loss (which the    *)
(* fsync before the rename is for) are left out.                           *)
(***************************************************************************)
EXTENDS Naturals, FiniteSets

CONSTANTS
    Editors,     \* goroutines that change blocks
    Savers,      \* goroutines that call Save
    Ticker,      \* the one of them that is Server.autosave
    Stopper,     \* the one that runs Server.Save and exits
    Torn,        \* the content of a file no snapshot can be read from
    Absent,      \* the content of no file
    MaxEdits,    \* bound: edits the overlay holds
    MaxFailures, \* bound: file operations that fail
    MaxKills     \* bound: how often the process is killed

ASSUME WorldStoreAssumption ==
    /\ {Ticker, Stopper} \subseteq Savers
    /\ Ticker # Stopper
    /\ Torn # Absent
    /\ {Torn, Absent} \cap Nat = {}
    /\ {MaxEdits, MaxFailures, MaxKills} \subseteq Nat

VARIABLES
    proc,      \* "up"; "stopped" by Server.Save's caller; "killed"
    edits,     \* w.edits
    marking,   \* the editors between their edit and their dirty.Store(true)
    dirty,     \* w.dirty
    saveOff,   \* hub.saveOff
    saver,     \* each saver's call of Save
    file,      \* the live file and its temporary
    faults,    \* failures and kills so far
    slipped,   \* history: an edit lost its mark to a save that does not hold it
    overlapped \* history: a Save began while another one was at work

vars == <<proc, edits, marking, dirty, saveOff, saver, file, faults, slipped, overlapped>>

Revisions == 0..MaxEdits

\* at is the step of Save the saver has reached: "ticked" is the autosave that
\* has found saving on and not called Save yet; "begun" past the dirty check,
\* "copied", "cleared", "open" with the temporary created, "written", "failed";
\* "done" is a nil answer, "refused" an error.  on is the file its descriptor
\* reaches, by the name it has now.
Call == [at    : {"idle", "ticked", "begun", "copied", "cleared", "open", "written",
                  "failed", "done", "refused"},
         copy  : Revisions,
         owed  : Revisions,
         on    : {"none", "tmp", "live", "gone"}]

Idle == [at |-> "idle", copy |-> 0, owed |-> 0, on |-> "none"]

AtWork(s) == saver[s].at \in {"begun", "copied", "cleared", "open", "written", "failed"}

Init ==
    /\ proc = "up"
    /\ edits = 0
    /\ marking = {}
    /\ dirty = FALSE
    /\ saveOff = FALSE
    /\ saver = [s \in Savers |-> Idle]
    /\ file = [live |-> 0, tmp |-> Absent]  \* a missing live file is no edits
    /\ faults = [failures |-> 0, kills |-> 0]
    /\ slipped = FALSE
    /\ overlapped = FALSE

-----------------------------------------------------------------------------
(* Edits: SetBlock and RevertEdit change the overlay under its lock and    *)
(* mark it after they have let go.  A RevertEdit that finds nothing to     *)
(* revert marks all the same.                                              *)

ChangeBlock(e) ==
    /\ proc = "up"
    /\ e \notin marking
    /\ \/ edits < MaxEdits /\ edits' = edits + 1
       \/ UNCHANGED edits
    /\ marking' = marking \union {e}
    /\ UNCHANGED <<proc, dirty, saveOff, saver, file, faults, slipped, overlapped>>

\* Fault: the mark is forgotten.
StillUnmarked == dirty

Marked == TRUE

MarkDirty(e) ==
    /\ proc = "up"
    /\ e \in marking
    /\ marking' = marking \ {e}
    /\ dirty' = Marked
    /\ UNCHANGED <<proc, edits, saveOff, saver, file, faults, slipped, overlapped>>

-----------------------------------------------------------------------------
(* World.Save and FileStore.Save.                                          *)

\* The call of s at a later step.
Now(s, at, copy, on) == [at |-> at, copy |-> copy, owed |-> saver[s].owed, on |-> on]

\* ... and when it needs its copy no more.
Over(s, at) == Now(s, at, 0, "none")

\* The autosave's next round, unless saving is off; other dimensions may be
\* saved before this one.
Tick ==
    /\ proc = "up"
    /\ saver[Ticker].at = "idle"
    /\ ~ saveOff
    /\ saver' = [saver EXCEPT ![Ticker] = [Idle EXCEPT !.at = "ticked"]]
    /\ UNCHANGED <<proc, edits, marking, dirty, saveOff, file, faults, slipped, overlapped>>

\* Save is called; a clean world is answered at once.  The caller is owed
\* the edits that were complete then.
Begin(s) ==
    /\ proc = "up"
    /\ saver[s].at = IF s = Ticker THEN "ticked" ELSE "idle"
    /\ saver' = [saver EXCEPT ![s] =
         [at   |-> IF dirty THEN "begun" ELSE "done",
          copy |-> 0,
          owed |-> IF marking = {} THEN edits ELSE 0,
          on   |-> "none"]]
    /\ overlapped' = (overlapped \/ \E r \in Savers \ {s} : AtWork(r))
    /\ UNCHANGED <<proc, edits, marking, dirty, saveOff, file, faults, slipped>>

CopyEdits(s) ==
    /\ proc = "up"
    /\ saver[s].at = "begun"
    /\ saver' = [saver EXCEPT ![s] = Now(s, "copied", edits, "none")]
    /\ UNCHANGED <<proc, edits, marking, dirty, saveOff, file, faults, slipped, overlapped>>

\* The mark goes, and with it that of an edit made since the copy.
ClearDirty(s) ==
    /\ proc = "up"
    /\ saver[s].at = "copied"
    /\ saver' = [saver EXCEPT ![s] = Now(s, "cleared", saver[s].copy, "none")]
    /\ dirty' = FALSE
    /\ slipped' = (slipped \/ (saver[s].copy # edits /\ marking = {}))
    /\ UNCHANGED <<proc, edits, marking, saveOff, file, faults, overlapped>>

\* Fault: the live file is written in place.
TruncateLive == [file EXCEPT !.live = Torn]

\* os.Create: a new file under the temporary's name, or the one there emptied.
Truncated == [file EXCEPT !.tmp = Torn]

Create(s) ==
    /\ proc = "up"
    /\ saver[s].at = "cleared"
    /\ saver' = [saver EXCEPT ![s] = Now(s, "open", saver[s].copy, "tmp")]
    /\ file' = Truncated
    /\ UNCHANGED <<proc, edits, marking, dirty, saveOff, faults, slipped, overlapped>>

\* What a file holds once s has written its copy to it: two writers at
\* offsets of their own leave one's bytes or a mixture.
Contents(s) ==
    {saver[s].copy} \union
        (IF \E r \in Savers \ {s} : saver[r].on = saver[s].on THEN {Torn} ELSE {})

\* Encode, Sync and Close: into whatever the descriptor reaches by now.
Write(s) ==
    /\ proc = "up"
    /\ saver[s].at = "open"
    /\ saver' = [saver EXCEPT ![s] = Now(s, "written", saver[s].copy, "none")]
    /\ \/ saver[s].on = "tmp"  /\ \E c \in Contents(s) : file' = [file EXCEPT !.tmp = c]
       \/ saver[s].on = "live" /\ \E c \in Contents(s) : file' = [file EXCEPT !.live = c]
       \/ saver[s].on = "gone" /\ UNCHANGED file
    /\ UNCHANGED <<proc, edits, marking, dirty, saveOff, faults, slipped, overlapped>>

\* Open descriptors follow the file when its name moves to the live one, and
\* keep the live one that was replaced.
Followed(on) == CASE on = "tmp"  -> "live"
                  [] on = "live" -> "gone"
                  [] OTHER       -> on

\* Fault: a rename of nothing succeeds.
AlwaysThere == TRUE

TmpThere == file.tmp # Absent

\* os.Rename of the temporary, whoever's it is by now; Save answers nil.
Rename(s) ==
    /\ proc = "up"
    /\ saver[s].at = "written"
    /\ TmpThere
    /\ file' = [live |-> file.tmp, tmp |-> Absent]
    /\ saver' = [r \in Savers |-> IF r = s THEN Over(s, "done")
                                           ELSE [saver[r] EXCEPT !.on = Followed(@)]]
    /\ UNCHANGED <<proc, edits, marking, dirty, saveOff, faults, slipped, overlapped>>

\* A descriptor whose file was removed reaches no name.
Orphaned(on) == IF on = "tmp" THEN "gone" ELSE on

\* Encode, Sync or Close fails, with anything written or nothing: whatever
\* has the temporary's name is removed.
FailWrite(s) ==
    /\ proc = "up"
    /\ saver[s].at = "open"
    /\ faults.failures < MaxFailures
    /\ faults' = [faults EXCEPT !.failures = @ + 1]
    /\ \E c \in {file.live} \union
                 (IF saver[s].on = "live" THEN {Torn, saver[s].copy} ELSE {}) :
         file' = [live |-> c, tmp |-> Absent]
    /\ saver' = [r \in Savers |->
         IF r = s THEN Over(s, "failed")
                  ELSE [saver[r] EXCEPT !.on = Orphaned(@)]]
    /\ UNCHANGED <<proc, edits, marking, dirty, saveOff, slipped, overlapped>>

\* Create or Rename fails; to rename what another saver has renamed or
\* removed always does.
FailName(s) ==
    /\ proc = "up"
    /\ \/ /\ saver[s].at = "written"
          /\ ~ TmpThere
          /\ UNCHANGED faults
       \/ /\ saver[s].at \in {"cleared", "written"}
          /\ faults.failures < MaxFailures
          /\ faults' = [faults EXCEPT !.failures = @ + 1]
    /\ saver' = [saver EXCEPT ![s] = Over(s, "failed")]
    /\ UNCHANGED <<proc, edits, marking, dirty, saveOff, file, slipped, overlapped>>

\* Fault: a failed save does not put the mark back.
LeftClean == dirty

Redirtied == TRUE

\* The mark goes back and Save answers the error.
Refuse(s) ==
    /\ proc = "up"
    /\ saver[s].at = "failed"
    /\ saver' = [saver EXCEPT ![s] = Over(s, "refused")]
    /\ dirty' = Redirtied
    /\ UNCHANGED <<proc, edits, marking, saveOff, file, faults, slipped, overlapped>>

Answered(s) == saver[s].at \in {"done", "refused"}

\* The caller goes on; the ticker, a bus client and an operator ask again.
Return(s) ==
    /\ proc = "up"
    /\ s # Stopper
    /\ Answered(s)
    /\ saver' = [saver EXCEPT ![s] = Idle]
    /\ UNCHANGED <<proc, edits, marking, dirty, saveOff, file, faults, slipped, overlapped>>

-----------------------------------------------------------------------------
(* The process and its operators.                                          *)

\* cmdSaveOff, cmdSaveOn.
SwitchSaving ==
    /\ proc = "up"
    /\ saveOff' = ~ saveOff
    /\ UNCHANGED <<proc, edits, marking, dirty, saver, file, faults, slipped, overlapped>>

\* The signal handler: os.Exit once Server.Save has returned, whatever it said.
\* /save-off is not remembered.
Exit ==
    /\ proc = "up"
    /\ Answered(Stopper)
    /\ proc' = "stopped"
    /\ saveOff' = FALSE
    /\ UNCHANGED <<edits, marking, dirty, saver, file, faults, slipped, overlapped>>

Kill ==
    /\ proc = "up"
    /\ faults.kills < MaxKills
    /\ faults' = [faults EXCEPT !.kills = @ + 1]
    /\ proc' = "killed"
    /\ saveOff' = FALSE
    /\ UNCHANGED <<edits, marking, dirty, saver, file, slipped, overlapped>>

\* NewWithStore: a file that does not decode stops the boot.
Boot ==
    /\ proc # "up"
    /\ file.live # Torn
    /\ proc' = "up"
    /\ edits' = file.live
    /\ marking' = {}
    /\ dirty' = FALSE
    /\ saver' = [s \in Savers |-> Idle]
    /\ slipped' = FALSE
    /\ overlapped' = FALSE
    /\ UNCHANGED <<saveOff, file, faults>>

-----------------------------------------------------------------------------
SaveStep(s) ==
    \/ CopyEdits(s) \/ ClearDirty(s) \/ Create(s) \/ Write(s) \/ Rename(s)
    \/ FailWrite(s) \/ FailName(s) \/ Refuse(s) \/ Return(s)

Next ==
    \/ \E e \in Editors : ChangeBlock(e) \/ MarkDirty(e)
    \/ \E s \in Savers : Begin(s) \/ SaveStep(s)
    \/ Tick \/ SwitchSaving \/ Exit \/ Kill \/ Boot

Spec == Init /\ [][Next]_vars

\* Go runs every goroutine, a call of Save runs to its end, and the autosave
\* comes round again while saving is on: Tick is owed nothing while it is off.
Fairness ==
    /\ \A e \in Editors : WF_vars(MarkDirty(e))
    /\ \A s \in Savers : WF_vars(SaveStep(s))
    /\ WF_vars(Tick) /\ WF_vars(Begin(Ticker))

FairSpec == Spec /\ Fairness

-----------------------------------------------------------------------------
(* Properties.                                                             *)

\* Every variable holds what the code keeps in it: a live file is never
\* missing once it was there.
TypeOK ==
    /\ proc \in {"up", "stopped", "killed"}
    /\ edits \in Revisions
    /\ marking \subseteq Editors
    /\ dirty \in BOOLEAN
    /\ saveOff \in BOOLEAN
    /\ saver \in [Savers -> Call]
    /\ file \in [live : Revisions \union {Torn}, tmp : Revisions \union {Torn, Absent}]
    /\ faults \in [failures : 0..MaxFailures, kills : 0..MaxKills]
    /\ slipped \in BOOLEAN
    /\ overlapped \in BOOLEAN

\* store.go:65, "a crash mid-write can never corrupt the live save": as long
\* as no two calls of Save meet, whatever fails and whenever the process dies.
NeverTorn == ~ overlapped => file.live # Torn

\* A saver that holds the newest edits and has not given up on them.
Carries(s) ==
    \/ saver[s].at = "begun"
    \/ saver[s].at \in {"copied", "cleared", "open", "written"} /\ saver[s].copy = edits
    \/ saver[s].at = "failed"

\* world.go:338, "so we never miss a change": with no save clearing a mark it
\* did not save, and no two at work, the newest edit is in the file, or marked,
\* or about to be marked, or in the hands of a save.
NothingMissed ==
    proc = "up" /\ ~ slipped /\ ~ overlapped =>
        file.live = edits \/ dirty \/ marking # {} \/ \E s \in Savers : Carries(s)

\* busv2.go:345, "asking for a save first ... closes that window": under the
\* same conditions a nil answer means that every edit complete when Save was
\* called is in the file.
AnswerKept ==
    ~ slipped /\ ~ overlapped =>
        \A s \in Savers : saver[s].at = "done" => file.live >= saver[s].owed

\* Under the same conditions, and if saving is not off for ever or off again
\* and again, the autosave brings every edit to the file, those made while
\* saving was off included, once the disk stops failing, unless the process
\* dies first.
EditsReachDisk ==
    <>[](~ saveOff) =>
        \A r \in 1..MaxEdits :
            (proc = "up" /\ edits >= r)
                ~> (file.live = Torn \/ file.live >= r \/ slipped \/ overlapped \/ proc # "up")

\* servercmd.go:174, "flush the world one last time before exiting so a clean
\* stop never loses recent building": when the process has stopped on a nil
\* answer, every edit complete when the stop began is in the file.
CleanStopKeeps ==
    proc = "stopped" /\ saver[Stopper].at = "done" =>
        file.live # Torn /\ file.live >= saver[Stopper].owed
=============================================================================
