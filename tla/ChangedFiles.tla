----------------------------- MODULE ChangedFiles -----------------------------
(***************************************************************************)
(* core/install.py, class ChangedFileInstaller, as core/environment.py,    *)
(* class EnvironmentService, uses it for one binding: a revision replaces  *)
(* the files of a tree one by one, together with the registry that holds   *)
(* the binding's baseline, under one journal.  Locks admit one apply or    *)
(* recover at a time.  The user may edit files and bind again meanwhile,   *)
(* which looks at no journal.                                              *)
(***************************************************************************)
EXTENDS Naturals, FiniteSets, Functions

CONSTANTS
    Files,          (* files of the bound tree                             *)
    Absent,         (* the content of a file that does not exist           *)
    Own,            (* contents that the user gives to files by hand       *)
    Revisions,      (* functions of a revision's files to their contents   *)
    MaxEdits,       (* bound on the user's edits                           *)
    MaxBinds,       (* bound on the user's binds                           *)
    MaxFaults       (* bound on crashes and failing steps                  *)

ASSUME OwnAssumption == Absent \notin Own /\ \A r \in Revisions : Range(r) \cap Own = {}
ASSUME RevisionAssumption == \A r \in Revisions : DOMAIN r \subseteq Files

VARIABLES
    file,           (* the content of each file                            *)
    baseline,       (* .assembly-bindings.json: the contents it expects    *)
    journal,        (* .assembly-apply-journal.json: {} or {the transaction} *)
    binding,        (* {} or {the contents that bind has read}             *)
    pc,             (* where the apply or the recover is                   *)
    incoming,       (* {} or {the revision that is applied}                *)
    left,           (* files it has still to replace                       *)
    late,           (* history: files edited since they were checked       *)
    astray,         (* history: the last bind wrote beside a journal, or   *)
                    (* what the files were before they changed             *)
    edits, binds, faults

disk == <<file, baseline, journal>>
memory == <<pc, incoming, left>>
bounds == <<edits, binds, faults>>
history == <<late, astray>>
vars == <<disk, binding, memory, history, bounds>>

Init ==
    /\ file \in [Files -> {Absent} \cup Own]
    /\ baseline = file
    /\ journal = {} /\ binding = {}
    /\ pc = "idle" /\ incoming = {} /\ left = {}
    /\ late = {} /\ astray = FALSE /\ edits = 0 /\ binds = 0 /\ faults = 0

Goto(place) == pc' = place /\ UNCHANGED <<incoming, left>>
Quit == pc' = "idle" /\ incoming' = {} /\ left' = {}

-----------------------------------------------------------------------------
(* bind: reads the files without the registry's lock, and writes with it.  *)

BindRead ==
    /\ binding = {} /\ binds < MaxBinds
    /\ binds' = binds + 1
    /\ binding' = {file}
    /\ UNCHANGED <<disk, memory, history, edits, faults>>

BindWrite ==
    /\ pc = "idle"
    /\ \E b \in binding : baseline' = b /\ astray' = (journal # {} \/ b # file)
    /\ binding' = {}
    /\ UNCHANGED <<file, journal, memory, late, bounds>>

-----------------------------------------------------------------------------
(* EnvironmentService.apply: every file is as the binding expects, or      *)
(* already as the revision has it.                                         *)

(* Variants, each named for the mistake it makes, stand before the         *)
(* definition they replace when the properties are tried against them.     *)

PermittedUnlessAbsent(r, f) == baseline[f] # Absent => file[f] \in {baseline[f], r[f]}

Permitted(r, f) == file[f] \in {baseline[f], r[f]}

Apply(r) ==
    /\ pc = "idle"
    /\ \A f \in DOMAIN r : Permitted(r, f)
    /\ pc' = "plan" /\ incoming' = {r} /\ late' = {}
    /\ UNCHANGED <<disk, binding, left, astray, bounds>>

(* ChangedFileInstaller.apply.                                             *)
Changed(r) == {f \in DOMAIN r : file[f] # r[f]}
NextBaseline(r) == [f \in Files |-> IF f \in DOMAIN r THEN r[f] ELSE baseline[f]]

Transaction(r) ==
    [old |-> [f \in Changed(r) |-> file[f]], new |-> [f \in Changed(r) |-> r[f]],
     oldBaseline |-> baseline, newBaseline |-> NextBaseline(r)]

Unfinished == pc = "plan" /\ journal # {} /\ Quit /\ UNCHANGED <<disk, binding, history, bounds>>

NothingChanged ==
    /\ pc = "plan" /\ journal = {}
    /\ \E r \in incoming : Changed(r) = {} /\ NextBaseline(r) = baseline
    /\ Quit
    /\ UNCHANGED <<disk, binding, history, bounds>>

WriteJournal ==
    /\ pc = "plan" /\ journal = {}
    /\ \E r \in incoming :
        /\ Changed(r) # {} \/ NextBaseline(r) # baseline
        /\ journal' = {Transaction(r)}
        /\ left' = Changed(r)
    /\ pc' = "write"
    /\ UNCHANGED <<file, baseline, binding, incoming, history, bounds>>

ReplaceFile ==
    /\ pc = "write"
    /\ \E t \in journal : \E f \in left :
        /\ file' = [file EXCEPT ![f] = t.new[f]]
        /\ left' = left \ {f}
    /\ UNCHANGED <<baseline, journal, binding, pc, incoming, history, bounds>>

(* The registry comes last.                                                *)
ReplaceRegistry ==
    /\ pc = "write" /\ left = {}
    /\ \E t \in journal : baseline' = t.newBaseline
    /\ Goto("load")
    /\ UNCHANGED <<file, journal, binding, history, bounds>>

(* The load check either finds the entry readable or raises.               *)
LoadCheck ==
    /\ pc = "load"
    /\ Goto("unlink") \/ Goto("recover")
    /\ UNCHANGED <<disk, binding, history, bounds>>

UnlinkJournal ==
    /\ pc = "unlink"
    /\ journal' = {}
    /\ Quit
    /\ UNCHANGED <<file, baseline, binding, history, bounds>>

-----------------------------------------------------------------------------
(* _recover_locked: after an exception, or by recover() after a crash.     *)

BeginRecover ==
    /\ pc = "idle" /\ journal # {}
    /\ Goto("recover")
    /\ UNCHANGED <<disk, binding, history, bounds>>

OwnWorkUndone(t) ==
    /\ \A f \in DOMAIN t.old : file[f] = t.new[f]
    /\ baseline \in {t.oldBaseline, t.newBaseline}

OwnWork(t) ==
    /\ \A f \in DOMAIN t.old : file[f] \in {t.old[f], t.new[f]}
    /\ baseline \in {t.oldBaseline, t.newBaseline}

CheckEntries ==
    /\ pc = "recover"
    /\ \E t \in journal :
        IF OwnWork(t) THEN /\ pc' = "restore"
                           /\ left' = {f \in DOMAIN t.old : file[f] # t.old[f]}
                           /\ UNCHANGED incoming
                      ELSE Quit
    /\ late' = {}
    /\ UNCHANGED <<disk, binding, astray, bounds>>

RestoreRegistryAlone ==
    /\ pc = "restore"
    /\ \E t \in journal : baseline' = t.oldBaseline
    /\ Goto("unlink")
    /\ UNCHANGED <<file, journal, binding, history, bounds>>

(* In reverse: the registry first.                                         *)
RestoreRegistry ==
    /\ pc = "restore"
    /\ \E t \in journal : baseline' = t.oldBaseline
    /\ Goto("restore files")
    /\ UNCHANGED <<file, journal, binding, history, bounds>>

RestoreFile ==
    /\ pc = "restore files"
    /\ \E t \in journal : \E f \in left :
        /\ file' = [file EXCEPT ![f] = t.old[f]]
        /\ left' = left \ {f}
    /\ UNCHANGED <<baseline, journal, binding, pc, incoming, history, bounds>>

Restored ==
    /\ pc = "restore files" /\ left = {}
    /\ Goto("unlink")
    /\ UNCHANGED <<disk, binding, history, bounds>>

-----------------------------------------------------------------------------
(* A step that raises, a crash, and the user's edits.                      *)

Fail ==
    /\ pc # "idle" /\ faults < MaxFaults
    /\ faults' = faults + 1
    /\ IF pc \in {"write", "load"} THEN Goto("recover") ELSE Quit
    /\ UNCHANGED <<disk, binding, history, edits, binds>>

Crash ==
    /\ pc # "idle" /\ faults < MaxFaults
    /\ faults' = faults + 1
    /\ Quit
    /\ UNCHANGED <<disk, binding, history, edits, binds>>

Edit(f, c) ==
    /\ edits < MaxEdits
    /\ file[f] # c
    /\ edits' = edits + 1
    /\ file' = [file EXCEPT ![f] = c]
    /\ late' = late \cup {f}
    /\ UNCHANGED <<baseline, journal, binding, memory, astray, binds, faults>>

Advance == Unfinished \/ NothingChanged \/ WriteJournal \/ ReplaceFile \/ ReplaceRegistry
           \/ LoadCheck \/ UnlinkJournal \/ CheckEntries \/ RestoreRegistry \/ RestoreFile \/ Restored

Next ==
    \/ BindRead \/ BindWrite
    \/ \E r \in Revisions : Apply(r)
    \/ BeginRecover \/ Advance
    \/ Fail \/ Crash
    \/ \E f \in Files : \E c \in Own : Edit(f, c)

Spec == Init /\ [][Next]_vars

-----------------------------------------------------------------------------
(* "Binding baseline and target files share the same durable changed-file  *)
(* journal": without a pending journal a file that is not as its baseline  *)
(* says was edited by the user, so nothing else is ever refused as an edit *)
(* and the files are those of one apply, all or none.  Not so after a bind *)
(* that wrote what the files were before an apply changed them.            *)
BaselineMatchesFiles ==
    pc = "idle" /\ journal = {} /\ ~astray => \A f \in Files : file[f] \in {baseline[f]} \cup Own

(* Recovery refuses only what the user edited: it accepts every state that *)
(* crashes and failing steps of an apply, and of itself, leave behind.  A  *)
(* bind beside the journal, which holds the registry, makes it refuse.     *)
RecoveryAccepts ==
    \A t \in journal : ~astray /\ (\A f \in DOMAIN t.old : file[f] = t.old[f] \/ file[f] \notin Own) => OwnWork(t)

(* "Stop on unhandled local edits": the user's content is replaced only if *)
(* the binding expects it, or it came after the check of the files.        *)
LocalEditsKept ==
    [][\A f \in Files :
        file[f] \in Own /\ file'[f] \notin Own
            => f \in late \/ file[f] = baseline[f] \/ \E t \in journal : file[f] = t.oldBaseline[f]]_vars

=============================================================================
