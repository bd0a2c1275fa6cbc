------------------------------ MODULE Installer ------------------------------
(***************************************************************************)
(* installer/transaction.py, class Installer, with the live integration of *)
(* installer/platform_runtime.py and the adopt command of installer/cli.py:*)
(* a product version replaces the installed one, its journal pending.json  *)
(* is kept as rollback.json, and the scheduled tasks are paused meanwhile. *)
(* A lock admits one operation at a time; it may crash, a step of it may   *)
(* raise, and the user may edit program files while it runs.               *)
(***************************************************************************)
EXTENDS Naturals, FiniteSets, Functions

CONSTANTS
    Files,          (* program files                                       *)
    Absent,         (* the content of a file that does not exist           *)
    Own,            (* contents that the user gives to files by hand       *)
    Broken,         (* contents that fail the load check                   *)
    Packages,       (* versions: [version, files], files the function of   *)
                    (* its managed files to their contents                 *)
    Disturbed,      (* operations that may be disturbed by the following   *)
    MaxEdits,       (* bound on the user's edits                           *)
    MaxFaults       (* bound on crashes and failing steps                  *)

ASSUME OwnAssumption == \A p \in Packages : Absent \notin Own /\ Range(p.files) \cap Own = {}
ASSUME AbsentAssumption == \A p \in Packages : Absent \notin Range(p.files)
ASSUME PackagesAssumption == \A p \in Packages : DOMAIN p.files \subseteq Files

VARIABLES
    file,           (* the content of each program file                    *)
    state,          (* installation.json: {} or {the installed package}    *)
    journal,        (* pending.json: {} or {the transaction}               *)
    previous,       (* rollback.json: {} or {the last transaction}         *)
    services,       (* whether the scheduled tasks are enabled             *)
    op, pc,         (* the operation in progress and its next step         *)
    run,            (* {} or {the transaction it works on}                 *)
    left,           (* files it has still to replace                       *)
    strays,         (* history: files that an adoption left unmanaged      *)
    late,           (* history: files edited since the targets were checked *)
    edits, faults

disk == <<file, state, journal, previous>>
memory == <<op, pc, run, left>>
history == <<strays, late>>
bounds == <<edits, faults>>
vars == <<disk, services, memory, history, bounds>>

(* What a state, {} or {a package}, says of the files.                     *)
Managed(s) == UNION {DOMAIN p.files : p \in s}
Content(s, f) == IF f \in Managed(s) THEN (CHOOSE p \in s : TRUE).files[f] ELSE Absent

(* Nothing, or an installation that no state describes yet.                *)
Init ==
    /\ \E s \in {{}} \cup {{p} : p \in Packages} : file = [f \in Files |-> Content(s, f)]
    /\ state = {} /\ journal = {} /\ previous = {}
    /\ services = "enabled"
    /\ op = "none" /\ pc = "idle" /\ run = {} /\ left = {}
    /\ strays = {} /\ late = {} /\ edits = 0 /\ faults = 0

-----------------------------------------------------------------------------
(* plan: what apply is going to do, and what it refuses.                   *)

(* Variants, each named for the mistake it makes, stand before the         *)
(* definition they replace when the properties are tried against them.     *)

NoLocalEditUnlessManaged(f, p) ==
    file[f] # Absent => f \in Managed(state) \/ file[f] = Content({p}, f)

NoLocalEdit(f, p) ==
    file[f] # Absent => /\ f \in Managed(state)
                        /\ file[f] \in {Content(state, f), Content({p}, f)}

Accepted(p) ==
    /\ \A s \in state : s.version <= p.version
    /\ state = {} => \A f \in Files : file[f] = Absent
    /\ \A f \in Managed(state) \cup DOMAIN p.files : NoLocalEdit(f, p)

Changed(p) ==
    {f \in Managed(state) \cup DOMAIN p.files : file[f] # Content({p}, f)}

Transaction(p) ==
    [before |-> state, after |-> {p}, services |-> services,
     old |-> [f \in Changed(p) |-> file[f]],
     new |-> [f \in Changed(p) |-> Content({p}, f)]]

BeginApply(p) ==
    /\ pc = "idle"
    /\ journal = {}
    /\ Accepted(p)
    /\ state # {p} \/ Changed(p) # {}
    /\ journal' = {Transaction(p)}
    /\ run' = {Transaction(p)}
    /\ op' = "apply" /\ pc' = "pause"
    /\ UNCHANGED <<file, state, previous, services, left, history, bounds>>

(* check_targets of a transaction: what a file may hold.                   *)
Untouched(r, f) == file[f] = r.old[f]
OwnWorkUndone(r, f) == file[f] = r.old[f]

OwnWork(r, f) == file[f] \in {r.old[f], r.new[f]}

(* recover, and rollback: what they find decides what they do.             *)
BeginRecover ==
    /\ pc = "idle"
    /\ \E r \in journal :
        /\ \A f \in DOMAIN r.old : OwnWork(r, f)
        /\ run' = {r}
    /\ op' = "recover" /\ pc' = "pause"
    /\ UNCHANGED <<disk, services, left, history, bounds>>

BeginRollback ==
    /\ pc = "idle"
    /\ journal = {}
    /\ \E r \in previous :
        /\ state = r.after
        /\ \A f \in DOMAIN r.old : OwnWork(r, f)
        /\ run' = {r}
    /\ op' = "rollback" /\ pc' = "pause"
    /\ UNCHANGED <<disk, services, left, history, bounds>>

(* cli.py adopt: pauses first and looks at the installation afterwards.    *)
BeginAdopt ==
    /\ pc = "idle"
    /\ run' = {[services |-> services]}
    /\ op' = "adopt" /\ pc' = "pause"
    /\ UNCHANGED <<disk, services, left, history, bounds>>

-----------------------------------------------------------------------------
(* The steps of an operation.  Backward ones restore the old files; the    *)
(* handler of a failed apply is the operation "undo".                      *)

Backward == op \in {"undo", "recover", "rollback"}
Loads == \A f \in Files : file[f] \notin Broken
Goto(place) == pc' = place /\ UNCHANGED <<op, run, left>>
End == op' = "none" /\ pc' = "idle" /\ run' = {} /\ left' = {}

RaiseResuming ==
    \/ /\ op \in {"apply", "adopt"}
       /\ op' = IF op = "apply" THEN "undo" ELSE op
       /\ pc' = "resume"
       /\ left' = {}
       /\ UNCHANGED run
    \/ Backward /\ End

(* An exception.  Before the tasks were paused, apply only resumes them;   *)
(* afterwards it undoes.  The others give up; adopt resumes.               *)
Raise ==
    \/ /\ op = "apply"
       /\ op' = "undo"
       /\ pc' = IF pc = "pause" THEN "resume" ELSE "pause"
       /\ left' = {}
       /\ UNCHANGED run
    \/ op = "adopt" /\ pc # "resume" /\ Goto("resume")
    \/ op = "adopt" /\ pc = "resume" /\ End
    \/ Backward /\ End

Pause ==
    /\ pc = "pause"
    /\ services' = "disabled"
    /\ Goto(IF op = "adopt" THEN "load" ELSE "check")
    /\ UNCHANGED <<disk, history, bounds>>

CheckTargets ==
    /\ pc = "check"
    /\ \E r \in run :
        IF \A f \in DOMAIN r.old : IF Backward THEN OwnWork(r, f) ELSE Untouched(r, f)
        THEN /\ pc' = "write"
             /\ left' = DOMAIN r.old
             /\ UNCHANGED <<op, run>>
        ELSE Raise
    /\ late' = {}
    /\ UNCHANGED <<disk, services, strays, bounds>>

WriteFile ==
    /\ pc = "write"
    /\ \E r \in run : \E f \in left :
        /\ file' = [file EXCEPT ![f] = IF Backward THEN r.old[f] ELSE r.new[f]]
        /\ left' = left \ {f}
    /\ UNCHANGED <<state, journal, previous, services, op, pc, run, history, bounds>>

(* Forward the load check comes before the state, backward after it, and   *)
(* not at all in undo or when nothing was installed before.                *)
LoadCheck ==
    /\ \/ pc = "write" /\ left = {} /\ op = "apply"
       \/ pc = "load"
    /\ IF Loads THEN /\ Goto(IF op = "apply" THEN "state" ELSE IF op = "adopt" THEN "adopt"
                             ELSE "resume")
                ELSE Raise
    /\ UNCHANGED <<disk, services, history, bounds>>

SaveState ==
    /\ \/ pc = "state"
       \/ pc = "write" /\ left = {} /\ Backward
    /\ \E r \in run :
        /\ state' = IF Backward THEN r.before ELSE r.after
        /\ Goto(IF op \in {"recover", "rollback"} /\ r.before # {} THEN "load" ELSE "resume")
    /\ UNCHANGED <<file, journal, previous, services, history, bounds>>

(* adopt: only where nothing is managed; the files of a package as they    *)
(* are in the package, or (--accept-local) as they are on the disk.        *)
Adoptable(p) ==
    \/ /\ \A f \in DOMAIN p.files : file[f] = p.files[f]
       /\ state' = {p}
    \/ /\ \E f \in DOMAIN p.files : file[f] # Absent
       /\ state' = {[version |-> 0,
                     files |-> [f \in {g \in DOMAIN p.files : file[g] # Absent} |-> file[f]]]}

Adopt ==
    /\ pc = "adopt"
    /\ state = {} /\ journal = {}
    /\ \E p \in Packages :
        /\ Adoptable(p)
        /\ strays' = {f \in Files \ DOMAIN p.files : file[f] # Absent}
    /\ Goto("resume")
    /\ UNCHANGED <<file, journal, previous, services, late, bounds>>

AdoptRefused ==
    /\ pc = "adopt"
    /\ \/ state # {} \/ journal # {}
       \/ \E p \in Packages : \E f \in DOMAIN p.files : file[f] # p.files[f]
    /\ Goto("resume")
    /\ UNCHANGED <<disk, services, history, bounds>>

Resume ==
    /\ pc = "resume"
    /\ \E r \in run : services' = r.services
    /\ IF op = "adopt" THEN End ELSE Goto("finish")
    /\ UNCHANGED <<disk, history, bounds>>

(* os.replace(journal, previous) of an apply.                              *)
Retain ==
    /\ pc = "finish" /\ op = "apply"
    /\ previous' = journal /\ journal' = {}
    /\ End
    /\ UNCHANGED <<file, state, services, history, bounds>>

UnlinkRetaining ==
    /\ pc = "finish" /\ Backward
    /\ IF op = "rollback" THEN previous' = {} /\ UNCHANGED journal
                          ELSE previous' = journal /\ journal' = {}
    /\ End
    /\ UNCHANGED <<file, state, services, history, bounds>>

Unlink ==
    /\ pc = "finish" /\ Backward
    /\ IF op = "rollback" THEN previous' = {} /\ UNCHANGED journal
                          ELSE journal' = {} /\ UNCHANGED previous
    /\ End
    /\ UNCHANGED <<file, state, services, history, bounds>>

-----------------------------------------------------------------------------
(* What disturbs an operation.                                             *)

Fail ==
    /\ op \in Disturbed
    /\ faults < MaxFaults
    /\ faults' = faults + 1
    /\ Raise
    /\ UNCHANGED <<disk, services, history, edits>>

Crash ==
    /\ op \in Disturbed
    /\ faults < MaxFaults
    /\ faults' = faults + 1
    /\ End
    /\ UNCHANGED <<disk, services, history, edits>>

Edit(f, c) ==
    /\ op \in Disturbed \cup {"none"}
    /\ edits < MaxEdits
    /\ file[f] # c
    /\ edits' = edits + 1
    /\ file' = [file EXCEPT ![f] = c]
    /\ late' = late \cup {f}
    /\ UNCHANGED <<state, journal, previous, services, memory, strays, faults>>

Begin == BeginRecover \/ BeginRollback \/ BeginAdopt
         \/ \E p \in Packages : BeginApply(p)
Advance == Pause \/ CheckTargets \/ WriteFile \/ LoadCheck \/ SaveState \/ Adopt \/ AdoptRefused
           \/ Resume \/ Retain \/ Unlink
User == \E f \in Files : \E c \in Own : Edit(f, c)

Next == Begin \/ Advance \/ Fail \/ Crash \/ User

Spec == Init /\ [][Next]_vars

(* An operation that has begun goes on, and after an interruption the      *)
(* user runs recover.                                                      *)
FairSpec == Spec /\ WF_vars(Advance) /\ SF_vars(BeginRecover)

-----------------------------------------------------------------------------
(* What installation.json says is what is on the disk, apart from the      *)
(* user's edits and of what an adoption passed over (without a state:      *)
(* nothing, or one version), and the scheduled tasks are as they were.     *)
Describes(s) == \A f \in Files \ strays : file[f] \in {Content(s, f)} \cup Own

Whole ==
    /\ services = "enabled"
    /\ IF state = {} THEN Describes({}) \/ \E p \in Packages : Describes({p})
                     ELSE Describes(state)

(* Between operations the installation is whole, whichever step of an      *)
(* apply or of a recover raised or was cut off; only a pending journal,    *)
(* which recover takes up, excuses it.                                     *)
InstallationIsWhole == pc = "idle" /\ journal = {} => Whole

(* The retained rollback fits the installed version.                       *)
RollbackStaysPossible ==
    pc = "idle" /\ journal = {} => \A r \in previous : state = r.after

(* "Unknown subsequent local edits prevent automatic overwrite or          *)
(* recovery": a file with the user's own content is replaced only if that  *)
(* content was adopted, or came after the last check of the targets.       *)
LocalEditsKept ==
    [][\A f \in Files :
        file[f] \in Own /\ file'[f] \notin Own
            => file[f] = Content(state, f) \/ f \in late]_vars

(* "Use recover for an interrupted transaction, rollback for the most      *)
(* recent completed replacement": after an interruption either nothing is  *)
(* left to do or one of the two commands takes it up.                      *)
InterruptedIsTakenUp ==
    pc = "idle" => Whole \/ journal # {} \/ \E r \in previous : state = r.after

(* Where the user runs recover, an interrupted update comes to an end,     *)
(* unless the user has edited a file of it.                                *)
RecoveryCompletes ==
    journal # {} ~> \/ pc = "idle" /\ journal = {} /\ Whole
                    \/ \E r \in journal : \E f \in DOMAIN r.old : file[f] \in Own \ {r.old[f]}

=============================================================================
