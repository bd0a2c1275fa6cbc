--------------------------- MODULE InstallerProofs ---------------------------
(***************************************************************************)
(* Proofs about the installer's transaction, for every set of files and of *)
(* versions and any number of the user's edits, crashes and failing steps. *)
(*                                                                         *)
(* The properties speak of an installer at rest, or of one step.  The      *)
(* invariant has three layers.  Placed says which transaction an operation *)
(* works on and that what a journal recorded of the user's files was       *)
(* managed then.  Fits relates the journals to the installed state and to  *)
(* the load check: a rollback that loads after its state was written must  *)
(* not find a file that fails.  Settled says of each place in the program  *)
(* which files are still old and which are new already, and who still has  *)
(* to enable the tasks.                                                    *)
(***************************************************************************)
EXTENDS Installer, TLAPS

OnJournal == op \in {"apply", "undo", "recover"}

(* Where a backward operation is past its files and its state.             *)
Restored == Backward /\ pc \in {"load", "resume", "finish"}

(* Where apply is past its files, and past its state.                      *)
Replaced == op = "apply" /\ pc \in {"state", "resume", "finish"}
Recorded == op = "apply" /\ pc \in {"resume", "finish"}

(* The transactions that have a claim on the files as they are.            *)
Pending == IF op = "rollback" THEN run ELSE journal

-----------------------------------------------------------------------------
(* Of one version at most, and of program files.                           *)
Installed(s) == \A q \in s : s = {q} /\ DOMAIN q.files \subseteq Files

(* What plan writes into a journal; a file of the user's own was managed.  *)
Planned(r) ==
    /\ \E p \in Packages : r.after = {p}
    /\ Installed(r.before)
    /\ DOMAIN r.old \subseteq Files /\ DOMAIN r.new = DOMAIN r.old
    /\ \A f \in DOMAIN r.old :
        /\ r.new[f] = Content(r.after, f)
        /\ r.old[f] \in Own => r.old[f] = Content(r.before, f)

Journals ==
    /\ \A r \in journal : journal = {r} /\ Planned(r)
    /\ \A r \in previous : previous = {r} /\ Planned(r)

Places ==
    /\ op \in {"none", "apply", "undo", "recover", "rollback", "adopt"}
    /\ op = "none" <=> pc = "idle"
    /\ op = "apply" => pc \in {"pause", "check", "write", "state", "resume", "finish"}
    /\ Backward => pc \in {"pause", "check", "write", "load", "resume", "finish"}
    /\ op = "adopt" => pc \in {"pause", "load", "adopt", "resume"}
    /\ OnJournal => run = journal /\ journal # {}
    /\ op = "rollback" => run = previous /\ previous # {} /\ journal = {}
    /\ pc = "load" /\ Backward => \A r \in run : r.before # {}
    /\ pc = "write" => \A r \in run : left \subseteq DOMAIN r.old

(* apply has not touched the state before it writes it.                    *)
StateKept ==
    op = "apply" /\ pc \in {"pause", "check", "write", "state"} => \A r \in run : state = r.before

(* The user's content in a file yet to be written is the one that was      *)
(* checked, or came after the check.                                       *)
EditsKnown ==
    pc = "write" => \A r \in run : \A f \in left :
        file[f] \in Own => f \in late \/ file[f] = r.old[f]

Placed == DOMAIN file = Files /\ Installed(state) /\ Journals /\ Places /\ StateKept /\ EditsKnown

-----------------------------------------------------------------------------
(* What the journals and the place in the program say of the state.        *)
StateFits ==
    /\ \A r \in journal : state \in {r.before, r.after}
    /\ Recorded => \A r \in run : state = r.after
    /\ Restored => \A r \in run : state = r.before

PreviousFits ==
    \A r \in previous :
        /\ \A j \in journal : j.before = r.after
        /\ journal = {} /\ ~Restored => state = r.after

(* What was installed passes the load check, and what a journal keeps of   *)
(* it passes the check again.                                              *)
KeptLoads ==
    /\ \A r \in journal \cup previous : r.before # {} =>
          \A f \in DOMAIN r.old : r.old[f] \notin Broken
    /\ \A r \in Pending : r.before # {} =>
          \A f \in Files \ DOMAIN r.old : file[f] \notin Broken

RestLoads ==
    /\ journal = {} /\ state # {} /\ (op = "rollback" => pc \in {"pause", "check"}) => Loads
    /\ pc = "adopt" => Loads
    /\ Replaced => Loads
    /\ Restored \/ (op = "apply" /\ pc = "pause") => \A r \in run : r.before # {} => Loads
    /\ pc = "write" /\ Backward => \A r \in run : r.before # {} =>
          \A f \in DOMAIN r.old \ left : file[f] \notin Broken

Fits == StateFits /\ PreviousFits /\ KeptLoads /\ RestLoads

-----------------------------------------------------------------------------
(* The tasks are enabled, or who paused them has yet to resume them.       *)
TasksKept ==
    /\ \A r \in journal \cup previous : r.services = "enabled"
    /\ op = "adopt" /\ journal = {} => \A r \in run : r.services = "enabled"
    /\ pc = "finish" \/ (op = "none" /\ journal = {}) => services = "enabled"

(* A file is as it should be, or as the user edited it; strays apart.      *)
Is(f, c) == file[f] = c \/ file[f] \in Own
Of(fs) == fs \ strays

(* A journal leaves out the files that both versions have alike.           *)
JournalTrue(r) ==
    /\ \A f \in Of(DOMAIN r.old) : r.old[f] = Content(r.before, f) \/ r.old[f] \in Own
    /\ \A f \in Of(Files \ DOMAIN r.old) : Content(r.before, f) = Content(r.after, f)

JournalsTrue == \A r \in journal \cup previous : JournalTrue(r)

(* Every file is old or new while a transaction is under way.              *)
OldOrNew ==
    \A r \in Pending :
        /\ \A f \in Of(DOMAIN r.old) : Is(f, r.old[f]) \/ Is(f, r.new[f])
        /\ \A f \in Of(Files \ DOMAIN r.old) : Is(f, Content(r.before, f))

WrittenSoFar ==
    pc = "write" => \A r \in run : \A f \in Of(DOMAIN r.old \ left) :
        Is(f, IF Backward THEN r.old[f] ELSE r.new[f])

(* A rollback that nothing disturbs finds what it found when it began.     *)
RollbackAccepted ==
    op = "rollback" /\ pc \in {"pause", "check"} =>
        \A r \in run : \A f \in DOMAIN r.old : OwnWork(r, f)

Untorn(s) ==
    IF s = {} THEN Describes({}) \/ \E p \in Packages : Describes({p}) ELSE Describes(s)

FilesSettled ==
    /\ op = "apply" /\ pc = "pause" => \A r \in run : Describes(r.before)
    /\ Replaced => \A r \in run : Describes(r.after)
    /\ Restored => \A r \in run : Describes(r.before)
    /\ journal = {} /\ (op = "rollback" => pc \in {"pause", "check"}) => Untorn(state)

Settled == TasksKept /\ JournalsTrue /\ OldOrNew /\ WrittenSoFar /\ RollbackAccepted /\ FilesSettled

-----------------------------------------------------------------------------
(* What a state says of a file.                                            *)
LEMMA ContentOf ==
    ASSUME NEW q, NEW f
    PROVE  /\ Managed({q}) = DOMAIN q.files
           /\ Content({q}, f) = IF f \in DOMAIN q.files THEN q.files[f] ELSE Absent
<1>1. Managed({q}) = DOMAIN q.files
  BY DEF Managed
<1>2. (CHOOSE p \in {q} : TRUE) = q
  OBVIOUS
<1> QED BY <1>1, <1>2 DEF Content

(* Where nothing is installed no file is expected.                         *)
LEMMA ContentOfNothing ==
    ASSUME NEW f PROVE Managed({}) = {} /\ Content({}, f) = Absent
BY DEF Managed, Content

(* A file that a state does not manage is expected to be absent.           *)
LEMMA ContentUnmanaged ==
    ASSUME NEW s, NEW f, f \notin Managed(s) PROVE Content(s, f) = Absent
BY DEF Content

(* No version holds what a user writes.                                    *)
LEMMA ContentPublished ==
    ASSUME NEW p \in Packages, NEW f
    PROVE  Content({p}, f) \notin Own
<1>1. CASE f \in DOMAIN p.files
  <2>1. p.files[f] \in Range(p.files)
    BY <1>1 DEF Range
  <2> QED BY <1>1, <2>1, ContentOf, OwnAssumption
<1>2. CASE f \notin DOMAIN p.files
  BY <1>2, ContentOf, OwnAssumption
<1> QED BY <1>1, <1>2

(* What a state manages is among the program files.                        *)
LEMMA ManagedFiles ==
    ASSUME NEW s, Installed(s) PROVE Managed(s) \subseteq Files
BY DEF Installed, Managed

(* A version can be installed.                                             *)
LEMMA PackageInstalled ==
    ASSUME NEW p \in Packages PROVE Installed({p}) /\ {p} # {}
BY PackagesAssumption DEF Installed

(* What a transaction writes forward is not the user's.                    *)
LEMMA PlannedNew ==
    ASSUME NEW r, Planned(r)
    PROVE  /\ \A f \in DOMAIN r.old : r.new[f] \notin Own /\ r.new[f] = Content(r.after, f)
           /\ Installed(r.after) /\ r.after # {}
BY ContentPublished, PackageInstalled DEF Planned

(* plan: the transaction that apply begins.                                *)
LEMMA TransactionFields ==
    ASSUME NEW p \in Packages
    PROVE  LET t == Transaction(p) IN
           /\ t.before = state /\ t.after = {p} /\ t.services = services
           /\ DOMAIN t.old = Changed(p) /\ DOMAIN t.new = Changed(p)
           /\ \A f \in Changed(p) : t.old[f] = file[f] /\ t.new[f] = Content({p}, f)
BY DEF Transaction

LEMMA TransactionPlanned ==
    ASSUME Installed(state), NEW p \in Packages, Accepted(p)
    PROVE  Planned(Transaction(p))
<1>1. Changed(p) \subseteq Managed(state) \cup DOMAIN p.files
  BY DEF Changed
<1>2. Changed(p) \subseteq Files
  BY <1>1, ManagedFiles, PackagesAssumption
<1>3. ASSUME NEW f \in Changed(p), file[f] \in Own PROVE file[f] = Content(state, f)
  <2>1. NoLocalEdit(f, p) /\ file[f] # Absent /\ file[f] # Content({p}, f)
    BY <1>1, <1>3, OwnAssumption, ContentPublished DEF Accepted
  <2> QED BY <2>1 DEF NoLocalEdit
<1> QED BY <1>2, <1>3, TransactionFields DEF Planned

-----------------------------------------------------------------------------
(* The first layer.                                                        *)
LEMMA InitPlaced == Init => Placed
<1> SUFFICES ASSUME Init PROVE Placed
  OBVIOUS
<1>1. DOMAIN file = Files
  BY DEF Init
<1> QED BY <1>1 DEF Init, Placed, Installed, Journals, Places, StateKept, EditsKnown, Backward,
             OnJournal

(* A step that leaves the disk alone keeps what is said of the disk.       *)
LEMMA DiskPlaced ==
    ASSUME Placed, UNCHANGED disk
    PROVE  DOMAIN file' = Files /\ Installed(state)' /\ Journals'
BY DEF Placed, disk, Installed, Journals, Planned, Content, Managed

LEMMA BeginApplyPlaced ==
    ASSUME Placed, NEW p \in Packages, BeginApply(p)
    PROVE  Placed'
<1> DEFINE t == Transaction(p)
<1>1. Planned(t) /\ t.before = state
  BY TransactionPlanned, TransactionFields DEF Placed, BeginApply
<1> HIDE DEF t
<1>2. /\ journal' = {t} /\ run' = {t} /\ op' = "apply" /\ pc' = "pause"
      /\ UNCHANGED <<file, state, previous>>
  BY DEF BeginApply, t
<1>3. Journals'
  <2>1. \A r : Planned(r)' <=> Planned(r)
    BY DEF Planned, Installed, Content, Managed
  <2> QED BY <2>1, <1>1, <1>2 DEF Placed, Journals
<1>4. Installed(state)' /\ DOMAIN file' = Files
  BY <1>2 DEF Placed, Installed
<1>5. Places'
  BY <1>2 DEF Places, OnJournal, Backward
<1>6. StateKept' /\ EditsKnown'
  BY <1>1, <1>2 DEF StateKept, EditsKnown
<1> QED BY <1>3, <1>4, <1>5, <1>6 DEF Placed

LEMMA BeginPlaced ==
    ASSUME Placed, BeginRecover \/ BeginRollback \/ BeginAdopt
    PROVE  Placed'
<1>1. UNCHANGED disk /\ op' \in {"recover", "rollback", "adopt"} /\ pc' = "pause"
  BY DEF BeginRecover, BeginRollback, BeginAdopt, disk
<1>2. Places'
  <2>1. CASE BeginRecover
    BY <2>1, <1>1 DEF BeginRecover, Placed, Journals, Places, OnJournal, Backward, disk
  <2>2. CASE BeginRollback
    BY <2>2, <1>1 DEF BeginRollback, Placed, Journals, Places, OnJournal, Backward, disk
  <2>3. CASE BeginAdopt
    BY <2>3, <1>1 DEF BeginAdopt, Places, OnJournal, Backward, disk
  <2> QED BY <2>1, <2>2, <2>3
<1>3. StateKept' /\ EditsKnown'
  BY <1>1 DEF StateKept, EditsKnown
<1> QED BY <1>1, <1>2, <1>3, DiskPlaced DEF Placed

LEMMA EndPlaced ==
    ASSUME Placed, End, UNCHANGED disk
    PROVE  Placed'
BY DiskPlaced DEF End, Placed, Places, StateKept, EditsKnown, OnJournal, Backward

LEMMA RaisePlaced ==
    ASSUME Placed, Raise, UNCHANGED disk
    PROVE  Placed'
<1>1. CASE op = "apply" /\ op' = "undo" /\ run' = run /\ pc' \in {"resume", "pause"}
  <2>1. Places'
    BY <1>1 DEF Placed, Places, OnJournal, Backward, disk
  <2>2. StateKept' /\ EditsKnown'
    BY <1>1 DEF StateKept, EditsKnown
  <2> QED BY <2>1, <2>2, DiskPlaced DEF Placed
<1>2. CASE op = "adopt" /\ Goto("resume")
  <2>1. Places'
    BY <1>2 DEF Placed, Places, OnJournal, Backward, disk, Goto
  <2>2. StateKept' /\ EditsKnown'
    BY <1>2 DEF StateKept, EditsKnown, Goto
  <2> QED BY <2>1, <2>2, DiskPlaced DEF Placed
<1> QED BY <1>1, <1>2, EndPlaced DEF Raise

LEMMA PausePlaced ==
    ASSUME Placed, Pause PROVE Placed'
<1>1. UNCHANGED <<disk, op, run, left>> /\ pc' \in {"load", "check"} /\ pc = "pause"
      /\ (pc' = "load" <=> op = "adopt")
  BY DEF Pause, Goto
<1>2. Places'
  BY <1>1 DEF Placed, Places, OnJournal, Backward, disk
<1>3. StateKept' /\ EditsKnown'
  BY <1>1 DEF Placed, Places, StateKept, EditsKnown, disk
<1> QED BY <1>1, <1>2, <1>3, DiskPlaced DEF Placed

LEMMA CheckTargetsPlaced ==
    ASSUME Placed, CheckTargets PROVE Placed'
<1>1. UNCHANGED disk
  BY DEF CheckTargets
<1>2. PICK r \in run :
        IF \A f \in DOMAIN r.old : IF Backward THEN OwnWork(r, f) ELSE Untouched(r, f)
        THEN pc' = "write" /\ left' = DOMAIN r.old /\ UNCHANGED <<op, run>>
        ELSE Raise
  BY DEF CheckTargets
<1>3. CASE Raise
  BY <1>1, <1>3, RaisePlaced
<1>4. CASE /\ \A f \in DOMAIN r.old : OwnWork(r, f) \/ Untouched(r, f)
           /\ pc' = "write" /\ left' = DOMAIN r.old /\ UNCHANGED <<op, run>>
  <2>1. /\ run = {r} /\ Planned(r)
        /\ op \in {"apply", "undo", "recover", "rollback"}
    BY DEF CheckTargets, Placed, Places, Journals, OnJournal, Backward
  <2>2. \A f \in DOMAIN r.old : r.new[f] \notin Own
    BY <2>1, PlannedNew
  <2>3. Places'
    BY <2>1, <1>1, <1>4 DEF Placed, Places, OnJournal, Backward, disk, CheckTargets
  <2>4. StateKept'
    BY <2>1, <1>1, <1>4 DEF Placed, StateKept, disk, CheckTargets
  <2>5. EditsKnown'
    BY <2>1, <2>2, <1>1, <1>4 DEF EditsKnown, OwnWork, Untouched, disk
  <2> QED BY <2>3, <2>4, <2>5, <1>1, DiskPlaced DEF Placed
<1> QED BY <1>2, <1>3, <1>4

LEMMA WriteFilePlaced ==
    ASSUME Placed, WriteFile PROVE Placed'
<1>1. PICK r \in run, f \in left :
        /\ file' = [file EXCEPT ![f] = IF Backward THEN r.old[f] ELSE r.new[f]]
        /\ left' = left \ {f}
  BY DEF WriteFile
<1>2. UNCHANGED <<state, journal, previous, op, pc, run, late>> /\ pc = "write"
  BY DEF WriteFile, history
<1>3. DOMAIN file' = Files /\ \A g \in Files : g # f => file'[g] = file[g]
  BY <1>1 DEF Placed
<1>4. Installed(state)' /\ Journals'
  BY <1>2 DEF Placed, Installed, Journals, Planned, Content, Managed
<1>5. Places'
  BY <1>1, <1>2 DEF Placed, Places, OnJournal, Backward
<1>6. StateKept'
  BY <1>2 DEF Placed, StateKept
<1>7. EditsKnown'
  <2>1. \A q \in run : DOMAIN q.old \subseteq Files
    BY <1>2 DEF Placed, Places, Journals, Planned, OnJournal, Backward
  <2>2. left \subseteq Files
    BY <2>1, <1>1, <1>2 DEF Placed, Places
  <2> QED BY <2>2, <1>1, <1>2, <1>3 DEF Placed, EditsKnown
<1> QED BY <1>3, <1>4, <1>5, <1>6, <1>7 DEF Placed

LEMMA LoadCheckPlaced ==
    ASSUME Placed, LoadCheck PROVE Placed'
<1>1. UNCHANGED disk
  BY DEF LoadCheck
<1>2. CASE Raise
  BY <1>1, <1>2, RaisePlaced
<1>3. CASE Goto(IF op = "apply" THEN "state" ELSE IF op = "adopt" THEN "adopt" ELSE "resume")
  <2>1. (pc = "write" /\ op = "apply") \/ pc = "load"
    BY DEF LoadCheck
  <2>2. Places'
    BY <2>1, <1>1, <1>3 DEF Placed, Places, OnJournal, Backward, disk, Goto
  <2>3. StateKept' /\ EditsKnown'
    BY <2>1, <1>1, <1>3 DEF Placed, Places, Backward, StateKept, EditsKnown, disk, Goto
  <2> QED BY <2>2, <2>3, <1>1, DiskPlaced DEF Placed
<1> QED BY <1>2, <1>3 DEF LoadCheck

LEMMA SaveStatePlaced ==
    ASSUME Placed, SaveState PROVE Placed'
<1>1. PICK r \in run :
        /\ state' = IF Backward THEN r.before ELSE r.after
        /\ Goto(IF op \in {"recover", "rollback"} /\ r.before # {} THEN "load" ELSE "resume")
  BY DEF SaveState
<1>2. UNCHANGED <<file, journal, previous>>
      /\ (pc = "state" \/ (pc = "write" /\ left = {} /\ Backward))
  BY DEF SaveState
<1>3. run = {r} /\ Planned(r)
  BY <1>2 DEF Placed, Places, Journals, OnJournal, Backward
<1>4. Installed(state)'
  <2>1. Installed(r.before) /\ Installed(r.after)
    BY <1>3, PlannedNew DEF Planned
  <2> QED BY <2>1, <1>1 DEF Installed
<1>5. Journals' /\ DOMAIN file' = Files
  BY <1>2 DEF Placed, Journals, Planned, Installed, Content, Managed
<1>6. Places'
  BY <1>1, <1>2, <1>3 DEF Placed, Places, OnJournal, Backward, Goto
<1>7. StateKept' /\ EditsKnown'
  BY <1>1, <1>2 DEF StateKept, EditsKnown, Goto
<1> QED BY <1>4, <1>5, <1>6, <1>7 DEF Placed

LEMMA AdoptablePlaced ==
    ASSUME DOMAIN file = Files, NEW p \in Packages, Adoptable(p)
    PROVE  Installed(state)' /\ state' # {}
<1>1. CASE state' = {p}
  BY <1>1, PackagesAssumption DEF Installed
<1>2. ASSUME state' = {[version |-> 0,
                 files |-> [f \in {g \in DOMAIN p.files : file[g] # Absent} |-> file[f]]]}
      PROVE  Installed(state)' /\ state' # {}
  BY <1>2, PackagesAssumption DEF Installed
<1> QED BY <1>1, <1>2 DEF Adoptable

LEMMA AdoptPlaced ==
    ASSUME Placed, Adopt PROVE Placed'
<1>1. UNCHANGED <<file, journal, previous, op, run, left, late>> /\ pc = "adopt"
      /\ pc' = "resume"
  BY DEF Adopt, Goto
<1>2. Installed(state)'
  BY AdoptablePlaced DEF Adopt, Placed
<1>3. Journals' /\ DOMAIN file' = Files
  BY <1>1 DEF Placed, Journals, Planned, Installed, Content, Managed
<1>4. Places'
  BY <1>1 DEF Placed, Places, OnJournal, Backward
<1>5. StateKept' /\ EditsKnown'
  BY <1>1 DEF Placed, Places, Backward, StateKept, EditsKnown
<1> QED BY <1>2, <1>3, <1>4, <1>5 DEF Placed

LEMMA ControlPlaced ==
    ASSUME Placed, AdoptRefused \/ Resume
    PROVE  Placed'
<1>1. UNCHANGED disk
  BY DEF AdoptRefused, Resume
<1>2. CASE AdoptRefused
  <2>1. Places' /\ StateKept' /\ EditsKnown'
    BY <1>1, <1>2 DEF Placed, Places, OnJournal, Backward, StateKept, EditsKnown, AdoptRefused,
                      Goto, disk
  <2> QED BY <2>1, <1>1, DiskPlaced DEF Placed
<1>3. CASE Resume
  <2>1. CASE End
    BY <2>1, <1>1, EndPlaced
  <2>2. CASE op # "adopt" /\ Goto("finish")
    <3>1. Places' /\ StateKept' /\ EditsKnown'
      BY <1>1, <1>3, <2>2 DEF Placed, Places, OnJournal, Backward, StateKept, EditsKnown, Resume,
                              Goto, disk
    <3> QED BY <3>1, <1>1, DiskPlaced DEF Placed
  <2> QED BY <2>1, <2>2, <1>3 DEF Resume
<1> QED BY <1>2, <1>3

LEMMA FinishPlaced ==
    ASSUME Placed, Retain \/ Unlink
    PROVE  Placed'
<1>1. End /\ UNCHANGED <<file, state>>
  BY DEF Retain, Unlink
<1>2. \/ previous' = journal /\ journal' = {}
      \/ previous' = {} /\ journal' = journal
      \/ previous' = previous /\ journal' = {}
  BY DEF Retain, Unlink
<1>3. Journals'
  BY <1>2 DEF Placed, Journals, Planned, Installed, Content, Managed
<1>4. Places' /\ StateKept' /\ EditsKnown'
  BY <1>1 DEF End, Places, OnJournal, Backward, StateKept, EditsKnown
<1> QED BY <1>1, <1>3, <1>4 DEF Placed, Installed

LEMMA EditPlaced ==
    ASSUME Placed, NEW f \in Files, NEW c \in Own, Edit(f, c)
    PROVE  Placed'
<1>1. /\ file' = [file EXCEPT ![f] = c] /\ late' = late \cup {f}
      /\ UNCHANGED <<state, journal, previous, op, pc, run, left>>
  BY DEF Edit, memory
<1>2. DOMAIN file' = Files /\ \A g \in Files : g # f => file'[g] = file[g]
  BY <1>1 DEF Placed
<1>3. Installed(state)' /\ Journals'
  BY <1>1 DEF Placed, Installed, Journals, Planned, Content, Managed
<1>4. Places' /\ StateKept'
  BY <1>1 DEF Placed, Places, OnJournal, Backward, StateKept
<1>5. EditsKnown'
  <2>1. \A q \in run : pc = "write" => left \subseteq Files
    BY DEF Placed, Places, Journals, Planned, OnJournal, Backward
  <2> QED BY <2>1, <1>1, <1>2 DEF Placed, EditsKnown
<1> QED BY <1>2, <1>3, <1>4, <1>5 DEF Placed

LEMMA StepPlaced == Placed /\ [Next]_vars => Placed'
<1> SUFFICES ASSUME Placed, [Next]_vars PROVE Placed'
  OBVIOUS
<1>1. CASE UNCHANGED vars
  <2>1. UNCHANGED <<disk, op, pc, run, left, late>>
    BY <1>1 DEF vars, memory, history
  <2>2. Places' /\ StateKept' /\ EditsKnown'
    BY <2>1 DEF Placed, Places, OnJournal, Backward, StateKept, EditsKnown, disk
  <2> QED BY <2>1, <2>2, DiskPlaced DEF Placed
<1>2. CASE Begin
  BY <1>2, BeginPlaced, BeginApplyPlaced DEF Begin
<1>3. CASE Advance
  BY <1>3, PausePlaced, CheckTargetsPlaced, WriteFilePlaced, LoadCheckPlaced, SaveStatePlaced,
     AdoptPlaced, ControlPlaced, FinishPlaced DEF Advance
<1>4. CASE Fail
  BY <1>4, RaisePlaced DEF Fail
<1>5. CASE Crash
  BY <1>5, EndPlaced DEF Crash
<1>6. CASE User
  BY <1>6, EditPlaced DEF User
<1> QED BY <1>1, <1>2, <1>3, <1>4, <1>5, <1>6 DEF Next

LEMMA PlacedHolds == Spec => []Placed
BY InitPlaced, StepPlaced, PTL DEF Spec

(* No operation, however disturbed, and no journal that it left replaces a *)
(* file with content of the user's own, unless that content was adopted or *)
(* came after the last check of the targets.                               *)
THEOREM LocalEditsKeptHolds == Spec => LocalEditsKept
<1> DEFINE Kept == \A f \in Files :
        file[f] \in Own /\ file'[f] \notin Own => file[f] = Content(state, f) \/ f \in late
<1>1. Placed /\ [Next]_vars => Kept
  <2> SUFFICES ASSUME Placed, [Next]_vars, NEW g \in Files, file[g] \in Own, file'[g] \notin Own
               PROVE  file[g] = Content(state, g) \/ g \in late
    OBVIOUS
  <2>1. CASE UNCHANGED file
    BY <2>1
  <2>2. ASSUME NEW f \in Files, NEW c \in Own, Edit(f, c)
        PROVE  FALSE
    BY <2>2 DEF Edit, Placed
  <2>3. CASE WriteFile
    <3>1. PICK r \in run, f \in left :
            file' = [file EXCEPT ![f] = IF Backward THEN r.old[f] ELSE r.new[f]]
      BY <2>3 DEF WriteFile
    <3>2. g = f
      BY <3>1 DEF Placed
    <3>3. pc = "write" /\ (Backward \/ op = "apply")
      BY <2>3 DEF WriteFile, Placed, Places, Backward
    <3>4. Planned(r) /\ f \in DOMAIN r.old /\ (f \in late \/ file[f] = r.old[f])
      BY <3>2, <3>3 DEF Placed, Places, Journals, OnJournal, Backward, EditsKnown
    <3>5. CASE Backward
      BY <3>1, <3>2, <3>4, <3>5 DEF Placed
    <3>6. CASE op = "apply"
      BY <3>2, <3>3, <3>4, <3>6 DEF Planned, Placed, StateKept
    <3> QED BY <3>3, <3>5, <3>6
  <2>4. UNCHANGED file \/ WriteFile \/ \E f \in Files, c \in Own : Edit(f, c)
    <3>1. CASE UNCHANGED vars
      BY <3>1 DEF vars, disk
    <3>2. CASE Begin \/ Advance
      BY <3>2 DEF Begin, BeginRecover, BeginRollback, BeginAdopt, BeginApply, Advance, Pause,
                  CheckTargets, LoadCheck, SaveState, Adopt, AdoptRefused, Resume, Retain, Unlink,
                  disk
    <3>3. CASE Fail \/ Crash \/ User
      BY <3>3 DEF Fail, Crash, User, disk
    <3> QED BY <3>1, <3>2, <3>3 DEF Next
  <2> QED BY <2>1, <2>2, <2>3, <2>4
<1>2. [Kept]_vars <=> Kept \/ UNCHANGED vars
  OBVIOUS
<1> QED BY <1>1, PlacedHolds, PTL DEF Spec, LocalEditsKept

-----------------------------------------------------------------------------
(* The second layer.  It needs that nothing disturbs a rollback: one that  *)
(* is cut off after its state was written leaves rollback.json behind for  *)
(* a version that is not installed any more (run installer_rollback shows  *)
(* it).  A load check that fails there does the same, and it can fail only *)
(* for what the user wrote.                                                *)
RollbackUndisturbed == "rollback" \notin Disturbed /\ Own \cap Broken = {}

LEMMA InitFits == Init => Fits
BY DEF Init, Fits, StateFits, PreviousFits, KeptLoads, RestLoads, Pending, Restored, Replaced,
       Recorded, Backward

LEMMA BeginApplyFits ==
    ASSUME Placed, Fits, NEW p \in Packages, BeginApply(p)
    PROVE  Fits'
<1> DEFINE t == Transaction(p)
<1>1. /\ Planned(t) /\ t.before = state
      /\ \A f \in DOMAIN t.old : t.old[f] = file[f]
  BY TransactionPlanned, TransactionFields DEF Placed, BeginApply
<1> HIDE DEF t
<1>2. /\ journal = {} /\ op = "none"
      /\ journal' = {t} /\ run' = {t} /\ op' = "apply" /\ pc' = "pause"
      /\ UNCHANGED <<file, state, previous>>
  BY DEF BeginApply, t, Placed, Places
<1>3. ~Restored /\ ~Restored' /\ ~Recorded' /\ ~Replaced' /\ Pending' = {t}
  BY <1>2 DEF Restored, Recorded, Replaced, Backward, Pending
<1>4. StateFits' /\ PreviousFits'
  BY <1>1, <1>2, <1>3 DEF Fits, StateFits, PreviousFits
<1>5. state # {} => Loads
  BY <1>2 DEF Fits, RestLoads
<1>6. \A f \in DOMAIN t.old : f \in Files
  BY <1>1 DEF Planned
<1>7. KeptLoads'
  BY <1>1, <1>2, <1>3, <1>5, <1>6 DEF Fits, KeptLoads, Loads
<1>8. RestLoads'
  BY <1>1, <1>2, <1>3, <1>5 DEF RestLoads, Loads, Backward
<1> QED BY <1>4, <1>7, <1>8 DEF Fits

LEMMA BeginFits ==
    ASSUME Placed, Fits, BeginRecover \/ BeginRollback \/ BeginAdopt
    PROVE  Fits'
<1>1. /\ UNCHANGED <<file, state, journal, previous>> /\ pc' = "pause" /\ op = "none"
      /\ op' \in {"recover", "rollback", "adopt"}
  BY DEF BeginRecover, BeginRollback, BeginAdopt, disk, Placed, Places
<1>2. ~Restored /\ ~Restored' /\ ~Recorded' /\ ~Replaced'
  BY <1>1 DEF Restored, Recorded, Replaced, Backward
<1>3. StateFits' /\ PreviousFits'
  BY <1>1, <1>2 DEF Fits, StateFits, PreviousFits
<1>4. KeptLoads'
  <2>1. CASE op' # "rollback"
    BY <2>1, <1>1 DEF Fits, KeptLoads, Pending
  <2>2. CASE op' = "rollback"
    <3>1. PICK r \in previous : run' = {r} /\ state = r.after
      BY <2>2 DEF BeginRecover, BeginRollback, BeginAdopt
    <3>2. journal = {} /\ state # {}
      BY <2>2, <3>1, PlannedNew DEF BeginRecover, BeginRollback, BeginAdopt, Placed, Journals
    <3>3. Loads
      BY <3>2, <1>1 DEF Fits, RestLoads
    <3> QED BY <3>1, <3>3, <2>2, <1>1 DEF Fits, KeptLoads, Pending, Loads
  <2> QED BY <2>1, <2>2
<1>5. RestLoads'
  BY <1>1, <1>2 DEF Fits, RestLoads, Loads, Backward
<1> QED BY <1>3, <1>4, <1>5 DEF Fits

(* An operation that ends without having done what it was for.             *)
LEMMA EndFits ==
    ASSUME Placed, Fits, End, UNCHANGED disk, op = "rollback" => pc = "check"
    PROVE  Fits'
<1>1. /\ UNCHANGED <<file, state, journal, previous>> /\ op' = "none" /\ pc' = "idle"
  BY DEF End, disk
<1>2. ~Restored' /\ ~Recorded' /\ ~Replaced' /\ Pending' = journal
  BY <1>1 DEF Restored, Recorded, Replaced, Backward, Pending
<1>3. StateFits'
  BY <1>1, <1>2 DEF Fits, StateFits
<1>4. PreviousFits'
  BY <1>1, <1>2 DEF Placed, Places, OnJournal, Fits, PreviousFits, Restored, Backward
<1>5. KeptLoads'
  BY <1>1, <1>2 DEF Placed, Places, Fits, KeptLoads, Pending
<1>6. RestLoads'
  BY <1>1, <1>2 DEF Fits, RestLoads, Loads, Backward
<1> QED BY <1>3, <1>4, <1>5, <1>6 DEF Fits

LEMMA RaiseFits ==
    ASSUME Placed, Fits, Raise, UNCHANGED disk, op = "rollback" => pc = "check"
    PROVE  Fits'
<1>0. UNCHANGED <<file, state, journal, previous>>
  BY DEF disk
<1>1. CASE /\ op = "apply" /\ op' = "undo" /\ run' = run
           /\ pc' = IF pc = "pause" THEN "resume" ELSE "pause"
  <2>1. ~Restored /\ ~Recorded' /\ ~Replaced' /\ Pending' = journal /\ Pending = journal
        /\ (Restored' => pc = "pause") /\ journal # {} /\ run = journal
    BY <1>1, <1>0 DEF Restored, Recorded, Replaced, Backward, Pending, Placed, Places, OnJournal
  <2>2. StateFits'
    BY <1>0, <1>1, <2>1 DEF Fits, StateFits, Placed, StateKept
  <2>3. PreviousFits' /\ KeptLoads'
    BY <1>0, <2>1 DEF Fits, PreviousFits, KeptLoads
  <2>4. RestLoads'
    BY <1>0, <1>1, <2>1 DEF Fits, RestLoads, Loads
  <2> QED BY <2>2, <2>3, <2>4 DEF Fits
<1>2. CASE op = "adopt" /\ Goto("resume")
  <2>1. ~Restored /\ ~Restored' /\ ~Recorded' /\ ~Replaced' /\ Pending' = Pending
    BY <1>2, <1>0 DEF Restored, Recorded, Replaced, Backward, Pending, Goto
  <2>2. StateFits' /\ PreviousFits' /\ KeptLoads'
    BY <1>0, <2>1 DEF Fits, StateFits, PreviousFits, KeptLoads
  <2>3. RestLoads'
    BY <1>0, <1>2, <2>1 DEF Fits, RestLoads, Loads, Goto, Backward
  <2> QED BY <2>2, <2>3 DEF Fits
<1> QED BY <1>1, <1>2, EndFits DEF Raise

LEMMA PauseFits ==
    ASSUME Placed, Fits, Pause PROVE Fits'
<1>1. /\ UNCHANGED <<file, state, journal, previous, op, run>> /\ pc = "pause"
      /\ pc' = IF op = "adopt" THEN "load" ELSE "check"
  BY DEF Pause, Goto, disk
<1>2. ~Restored /\ ~Restored' /\ ~Recorded' /\ ~Replaced' /\ Pending' = Pending
  BY <1>1 DEF Restored, Recorded, Replaced, Backward, Pending
<1>3. StateFits' /\ PreviousFits' /\ KeptLoads'
  BY <1>1, <1>2 DEF Fits, StateFits, PreviousFits, KeptLoads
<1>4. RestLoads'
  BY <1>1, <1>2 DEF Fits, RestLoads, Loads
<1> QED BY <1>3, <1>4 DEF Fits

LEMMA CheckTargetsFits ==
    ASSUME Placed, Fits, CheckTargets PROVE Fits'
<1>1. UNCHANGED disk /\ pc = "check"
  BY DEF CheckTargets
<1>2. CASE Raise
  BY <1>1, <1>2, RaiseFits
<1>3. ASSUME NEW r \in run, pc' = "write", left' = DOMAIN r.old, UNCHANGED <<op, run>>
      PROVE  Fits'
  <2>0. UNCHANGED <<file, state, journal, previous>>
    BY <1>1 DEF disk
  <2>1. ~Restored /\ ~Restored' /\ ~Recorded' /\ ~Replaced' /\ Pending' = Pending
    BY <1>1, <1>3, <2>0 DEF Restored, Recorded, Replaced, Backward, Pending
  <2>2. StateFits' /\ PreviousFits' /\ KeptLoads'
    BY <2>0, <2>1 DEF Fits, StateFits, PreviousFits, KeptLoads
  <2>3. Backward => run = {r}
    BY <1>3 DEF Placed, Places, Journals, OnJournal, Backward
  <2>4. (op = "rollback" \/ journal # {}) /\ op # "none"
    BY <1>1 DEF Placed, Places, OnJournal, Backward
  <2>5. RestLoads'
    BY <1>3, <2>0, <2>1, <2>3, <2>4 DEF RestLoads, Loads, Backward
  <2> QED BY <2>2, <2>5 DEF Fits
<1> QED BY <1>2, <1>3 DEF CheckTargets

(* The files of a transaction are the only ones that are written.          *)
LEMMA WriteFileStep ==
    ASSUME Placed, WriteFile
    PROVE  \E r \in run, f \in left :
             /\ run = {r} /\ Planned(r) /\ f \in DOMAIN r.old /\ Pending = run
             /\ file'[f] = (IF Backward THEN r.old[f] ELSE r.new[f])
             /\ \A g \in Files : g # f => file'[g] = file[g]
             /\ left' = left \ {f} /\ pc = "write"
             /\ UNCHANGED <<state, journal, previous, services, op, pc, run, strays>>
             /\ (journal = {} => op = "rollback") /\ (Backward \/ op = "apply")
<1>1. PICK r \in run, f \in left :
        /\ file' = [file EXCEPT ![f] = IF Backward THEN r.old[f] ELSE r.new[f]]
        /\ left' = left \ {f} /\ pc = "write"
        /\ UNCHANGED <<state, journal, previous, services, op, pc, run, strays>>
  BY DEF WriteFile, history
<1>2. /\ run = {r} /\ Planned(r) /\ f \in DOMAIN r.old /\ Pending = run
      /\ (journal = {} => op = "rollback") /\ (Backward \/ op = "apply")
  BY <1>1 DEF Placed, Places, Journals, OnJournal, Backward, Pending
<1>3. f \in DOMAIN file
  BY <1>2 DEF Placed, Planned
<1> QED BY <1>1, <1>2, <1>3 DEF Placed

LEMMA WriteFileFits ==
    ASSUME Placed, Fits, WriteFile PROVE Fits'
<1>1. PICK r \in run, f \in left :
         /\ run = {r} /\ Planned(r) /\ f \in DOMAIN r.old /\ Pending = run
         /\ file'[f] = (IF Backward THEN r.old[f] ELSE r.new[f])
         /\ \A g \in Files : g # f => file'[g] = file[g]
         /\ left' = left \ {f} /\ pc = "write"
         /\ UNCHANGED <<state, journal, previous, services, op, pc, run, strays>>
         /\ (journal = {} => op = "rollback") /\ (Backward \/ op = "apply")
  BY WriteFileStep
<1>2. /\ ~Restored /\ ~Restored' /\ ~Recorded' /\ ~Replaced' /\ Pending' = run
      /\ (Backward' <=> Backward)
  BY <1>1 DEF Restored, Recorded, Replaced, Backward, Pending
<1>3. StateFits' /\ PreviousFits'
  BY <1>1, <1>2 DEF Fits, StateFits, PreviousFits
<1>4. KeptLoads'
  BY <1>1, <1>2 DEF Fits, KeptLoads
<1>5. RestLoads'
  <2>1. r.before # {} /\ Backward => \A g \in DOMAIN r.old \ left' : file'[g] \notin Broken
    <3> SUFFICES ASSUME r.before # {}, Backward, NEW g \in DOMAIN r.old, g \notin left'
                 PROVE  file'[g] \notin Broken
      OBVIOUS
    <3>1. r \in journal \cup previous
      BY <1>1 DEF Placed, Places, OnJournal, Backward
    <3>2. CASE g = f
      BY <3>1, <3>2, <1>1 DEF Fits, KeptLoads
    <3>3. CASE g # f
      <4>1. g \in Files /\ g \notin left
        BY <3>3, <1>1 DEF Planned
      <4> QED BY <3>3, <4>1, <1>1 DEF Fits, RestLoads
    <3> QED BY <3>2, <3>3
  <2> QED BY <2>1, <1>1, <1>2 DEF RestLoads
<1> QED BY <1>3, <1>4, <1>5 DEF Fits

LEMMA LoadCheckFits ==
    ASSUME Placed, Fits, LoadCheck PROVE Fits'
<1>0. /\ UNCHANGED <<file, state, journal, previous>> /\ UNCHANGED disk
      /\ (pc = "write" /\ op = "apply") \/ pc = "load"
  BY DEF LoadCheck, disk
<1>1. CASE ~Loads
  <2>1. op # "rollback"
    BY <1>0, <1>1 DEF Placed, Places, Fits, RestLoads, Restored, Backward
  <2> QED BY <2>1, <1>0, <1>1, RaiseFits DEF LoadCheck
<1>2. CASE Loads
  <2>1. /\ pc' = IF op = "apply" THEN "state" ELSE IF op = "adopt" THEN "adopt" ELSE "resume"
        /\ UNCHANGED <<op, run>>
    BY <1>2 DEF LoadCheck, Goto
  <2>2. op \in {"apply", "recover", "rollback", "undo", "adopt"} /\ Loads'
    BY <1>0, <1>2 DEF Placed, Places, Loads
  <2>3. Restored' = Restored /\ ~Recorded' /\ Pending' = Pending
    BY <1>0, <2>1, <2>2 DEF Restored, Recorded, Backward, Pending
  <2>4. StateFits' /\ PreviousFits' /\ KeptLoads'
    BY <1>0, <2>1, <2>3 DEF Fits, StateFits, PreviousFits, KeptLoads
  <2>5. RestLoads'
    BY <2>1, <2>2 DEF RestLoads, Backward
  <2> QED BY <2>4, <2>5 DEF Fits
<1> QED BY <1>1, <1>2

LEMMA SaveStateFits ==
    ASSUME Placed, Fits, SaveState PROVE Fits'
<1>1. PICK r \in run :
        /\ state' = IF Backward THEN r.before ELSE r.after
        /\ Goto(IF op \in {"recover", "rollback"} /\ r.before # {} THEN "load" ELSE "resume")
  BY DEF SaveState
<1>2. /\ UNCHANGED <<file, journal, previous, op, run>> /\ pc' \in {"load", "resume"}
      /\ (op = "apply" /\ pc = "state") \/ (pc = "write" /\ left = {} /\ Backward)
      /\ (pc' = "load" => Backward)
  BY <1>1 DEF SaveState, Goto, Placed, Places, Backward
<1>3. /\ run = {r} /\ Pending = run /\ Pending' = run
      /\ (journal = {} => op = "rollback") /\ (journal # {} => journal = run)
  BY <1>2 DEF Placed, Places, Journals, OnJournal, Backward, Pending
<1>4. /\ (Restored' <=> Backward) /\ (Recorded' <=> op = "apply") /\ (Replaced' <=> op = "apply")
      /\ (op = "apply" => ~Backward)
  BY <1>1, <1>2 DEF Restored, Recorded, Replaced, Backward, Goto
<1>5. StateFits'
  BY <1>1, <1>2, <1>3, <1>4 DEF StateFits
<1>6. PreviousFits'
  BY <1>2, <1>3, <1>4 DEF Fits, PreviousFits, Backward
<1>7. KeptLoads'
  BY <1>2, <1>3 DEF Fits, KeptLoads
<1>8. op = "apply" => Loads
  BY <1>2, <1>4 DEF Fits, RestLoads, Replaced
<1>9. Backward /\ r.before # {} => Loads
  <2> SUFFICES ASSUME Backward, r.before # {}, NEW f \in Files PROVE file[f] \notin Broken
    BY DEF Loads
  <2>1. pc = "write" /\ left = {}
    BY <1>2, <1>4
  <2>2. CASE f \in DOMAIN r.old
    BY <2>1, <2>2 DEF Fits, RestLoads
  <2>3. CASE f \notin DOMAIN r.old
    BY <2>3, <1>3 DEF Fits, KeptLoads
  <2> QED BY <2>2, <2>3
<1>10. RestLoads'
  BY <1>2, <1>3, <1>4, <1>8, <1>9 DEF RestLoads, Loads
<1> QED BY <1>5, <1>6, <1>7, <1>10 DEF Fits

(* Where something can be adopted there is nothing to roll back to.        *)
LEMMA NothingBeforeAdopt ==
    ASSUME Placed, Fits, Adopt PROVE previous = {}
<1>1. journal = {} /\ ~Restored /\ state = {}
  BY DEF Adopt, Placed, Places, Restored, Backward
<1>2. \A r \in previous : r.after # {}
  BY PlannedNew DEF Placed, Journals
<1> QED BY <1>1, <1>2 DEF Fits, PreviousFits

LEMMA AdoptFits ==
    ASSUME Placed, Fits, Adopt PROVE Fits'
<1>1. /\ UNCHANGED <<file, journal, previous, op, run>> /\ pc = "adopt" /\ pc' = "resume"
      /\ op = "adopt" /\ journal = {} /\ previous = {}
  BY NothingBeforeAdopt DEF Adopt, Goto, Placed, Places, Backward
<1>2. Loads
  BY <1>1 DEF Fits, RestLoads
<1> QED BY <1>1, <1>2 DEF Fits, StateFits, PreviousFits, KeptLoads, RestLoads, Loads, Pending,
                          Restored, Replaced, Recorded, Backward

LEMMA ControlFits ==
    ASSUME Placed, Fits, AdoptRefused \/ Resume
    PROVE  Fits'
<1>0. UNCHANGED <<file, state, journal, previous>> /\ UNCHANGED disk
  BY DEF AdoptRefused, Resume, disk
<1>1. CASE AdoptRefused
  BY <1>0, <1>1 DEF AdoptRefused, Goto, Placed, Places, Fits, StateFits, PreviousFits, KeptLoads,
     RestLoads, Loads, Pending, Restored, Replaced, Recorded, Backward
<1>2. CASE Resume /\ op = "adopt"
  BY <1>0, <1>2, EndFits DEF Resume
<1>3. CASE Resume /\ op # "adopt"
  <2>1. pc = "resume" /\ pc' = "finish" /\ UNCHANGED <<op, run>>
    BY <1>3 DEF Resume, Goto
  <2>2. /\ (Restored' <=> Restored) /\ (Recorded' <=> Recorded) /\ (Replaced' <=> Replaced)
        /\ Pending' = Pending
    BY <2>1, <1>0 DEF Restored, Replaced, Recorded, Backward, Pending
  <2>3. StateFits' /\ PreviousFits' /\ KeptLoads'
    BY <1>0, <2>1, <2>2 DEF Fits, StateFits, PreviousFits, KeptLoads
  <2>4. RestLoads'
    BY <1>0, <2>1, <2>2 DEF Fits, RestLoads, Loads
  <2> QED BY <2>3, <2>4 DEF Fits
<1> QED BY <1>1, <1>2, <1>3

LEMMA FinishFits ==
    ASSUME Placed, Fits, Retain \/ Unlink
    PROVE  Fits'
<1>1. /\ UNCHANGED <<file, state>> /\ op' = "none" /\ pc' = "idle" /\ pc = "finish"
      /\ op \in {"apply", "undo", "recover", "rollback"} /\ (Restored <=> op # "apply")
      /\ (op = "apply" => Recorded /\ Replaced)
  BY DEF Retain, Unlink, End, Backward, Restored, Recorded, Replaced
<1>2. PICK r \in run : run = {r} /\ r \in journal \cup previous
  BY <1>1 DEF Placed, Places, Journals, OnJournal, Backward
<1>3. /\ ~Restored' /\ ~Recorded' /\ ~Replaced' /\ Pending' = journal' /\ ~Backward'
  BY <1>1 DEF Restored, Recorded, Replaced, Backward, Pending
<1>4. state # {} => Loads
  BY <1>1, <1>2 DEF Fits, StateFits, RestLoads
<1>5. journal' = {}
  BY <1>1 DEF Retain, Unlink, Placed, Places
<1>6. PreviousFits'
  <2>1. CASE op = "apply"
    <3>1. previous' = {r}
      BY <2>1, <1>1, <1>2 DEF Retain, Unlink, Placed, Places, OnJournal, Backward
    <3> QED BY <3>1, <2>1, <1>1, <1>2, <1>5 DEF Fits, StateFits, PreviousFits
  <2>2. CASE op = "rollback"
    BY <2>2 DEF Retain, Unlink, PreviousFits
  <2>3. CASE op \in {"undo", "recover"}
    <3>1. previous' = previous /\ journal = {r} /\ state = r.before
      BY <2>3, <1>1, <1>2 DEF Retain, Unlink, Placed, Places, OnJournal, Fits, StateFits
    <3> QED BY <3>1, <1>1, <1>5 DEF Fits, PreviousFits
  <2> QED BY <1>1, <2>1, <2>2, <2>3
<1>7. previous' \subseteq journal \cup previous
  BY DEF Retain, Unlink
<1>8. KeptLoads'
  BY <1>3, <1>5, <1>7 DEF Fits, KeptLoads
<1>9. StateFits' /\ RestLoads'
  BY <1>1, <1>3, <1>4, <1>5 DEF StateFits, RestLoads, Loads
<1> QED BY <1>6, <1>8, <1>9 DEF Fits

LEMMA EditFits ==
    ASSUME RollbackUndisturbed, Placed, Fits, NEW f \in Files, NEW c \in Own, Edit(f, c)
    PROVE  Fits'
<1>1. /\ UNCHANGED <<state, journal, previous, op, pc, run, left>>
      /\ \A g \in Files : file'[g] \notin Broken \/ file'[g] = file[g]
  BY DEF Edit, memory, Placed, RollbackUndisturbed
<1>2. /\ (Restored' <=> Restored) /\ (Recorded' <=> Recorded) /\ (Replaced' <=> Replaced)
      /\ Pending' = Pending /\ (Backward' <=> Backward) /\ (Loads => Loads')
  BY <1>1 DEF Restored, Replaced, Recorded, Backward, Pending, Loads
<1>3. StateFits' /\ PreviousFits'
  BY <1>1, <1>2 DEF Fits, StateFits, PreviousFits
<1>4. KeptLoads'
  BY <1>1, <1>2 DEF Fits, KeptLoads
<1>5. pc = "write" => \A r \in run : DOMAIN r.old \subseteq Files
  BY DEF Placed, Places, Journals, Planned, OnJournal, Backward
<1>6. RestLoads'
  BY <1>1, <1>2, <1>5 DEF Fits, RestLoads
<1> QED BY <1>3, <1>4, <1>6 DEF Fits

LEMMA StepFits ==
    ASSUME RollbackUndisturbed
    PROVE  Placed /\ Fits /\ [Next]_vars => Fits'
<1> SUFFICES ASSUME Placed, Fits, [Next]_vars PROVE Fits'
  OBVIOUS
<1>1. CASE UNCHANGED vars
  <2>1. UNCHANGED <<file, state, journal, previous, op, pc, run, left>>
    BY <1>1 DEF vars, memory, disk
  <2> QED BY <2>1 DEF Fits, StateFits, PreviousFits, KeptLoads, RestLoads, Loads, Pending,
                      Restored, Replaced, Recorded, Backward
<1>2. CASE Begin
  BY <1>2, BeginFits, BeginApplyFits DEF Begin
<1>3. CASE Advance
  BY <1>3, PauseFits, CheckTargetsFits, WriteFileFits, LoadCheckFits, SaveStateFits, AdoptFits,
     ControlFits, FinishFits DEF Advance
<1>4. CASE Fail
  BY <1>4, RaiseFits DEF Fail, RollbackUndisturbed
<1>5. CASE Crash
  BY <1>5, EndFits DEF Crash, RollbackUndisturbed
<1>6. CASE User
  BY <1>6, EditFits DEF User
<1> QED BY <1>1, <1>2, <1>3, <1>4, <1>5, <1>6 DEF Next

LEMMA FitsHolds ==
    ASSUME RollbackUndisturbed PROVE Spec => []Fits
<1>1. Placed /\ Fits /\ [Next]_vars => Fits'
  BY StepFits
<1> QED BY <1>1, PlacedHolds, InitFits, PTL DEF Spec

(* Whatever becomes of an apply, an undo, a recover or an adopt, the       *)
(* retained rollback.json is the one of the installed version.             *)
THEOREM RollbackStays ==
    ASSUME RollbackUndisturbed PROVE Spec => []RollbackStaysPossible
<1>1. Placed /\ Fits => RollbackStaysPossible
  BY DEF Placed, Places, Fits, PreviousFits, Restored, Backward, RollbackStaysPossible
<1> QED BY <1>1, FitsHolds, PlacedHolds, PTL

-----------------------------------------------------------------------------
(* The third layer.  An adopt that is cut off leaves the tasks paused, and *)
(* with no journal no recover will resume them.                            *)
AdoptUndisturbed == "adopt" \notin Disturbed

LEMMA DescribesIs ==
    ASSUME NEW s PROVE Describes(s) <=> \A f \in Of(Files) : Is(f, Content(s, f))
BY DEF Describes, Of, Is

LEMMA InitSettled == Init => Settled
<1> SUFFICES ASSUME Init PROVE Settled
  OBVIOUS
<1>1. Untorn(state)
  <2>1. PICK s \in {{}} \cup {{p} : p \in Packages} : file = [f \in Files |-> Content(s, f)]
    BY DEF Init
  <2>2. Describes(s)
    BY <2>1 DEF Describes
  <2> QED BY <2>1, <2>2 DEF Init, Untorn
<1> QED BY <1>1 DEF Init, Settled, TasksKept, JournalsTrue, OldOrNew, WrittenSoFar, Pending,
             RollbackAccepted, FilesSettled, Restored, Replaced, Backward

(* What plan accepts is described by the state: an edit of an unmanaged    *)
(* file, or any file where nothing is installed, would be a local edit.    *)
LEMMA AcceptedDescribes ==
    ASSUME Placed, Settled, journal = {}, op = "none", NEW p \in Packages, Accepted(p)
    PROVE  Describes(state)
<1>1. Untorn(state)
  BY DEF Settled, FilesSettled
<1>2. CASE state # {}
  BY <1>1, <1>2 DEF Untorn
<1>3. CASE state = {}
  BY <1>3, ContentOfNothing DEF Accepted, Describes
<1> QED BY <1>2, <1>3

LEMMA TransactionTrue ==
    ASSUME Placed, Settled, journal = {}, op = "none", NEW p \in Packages, Accepted(p)
    PROVE  JournalTrue(Transaction(p))
<1> DEFINE t == Transaction(p)
<1>1. /\ t.before = state /\ t.after = {p} /\ DOMAIN t.old = Changed(p)
      /\ \A f \in Changed(p) : t.old[f] = file[f]
      /\ DOMAIN t.old \subseteq Files
  BY TransactionFields, TransactionPlanned DEF Placed, Planned
<1> HIDE DEF t
<1>2. \A f \in Of(Files) : Is(f, Content(state, f))
  BY AcceptedDescribes, DescribesIs
<1>3. ASSUME NEW f \in Of(DOMAIN t.old)
      PROVE  t.old[f] = Content(t.before, f) \/ t.old[f] \in Own
  BY <1>1, <1>2 DEF Of, Is
<1>4. ASSUME NEW f \in Of(Files \ DOMAIN t.old)
      PROVE  Content(t.before, f) = Content(t.after, f)
  <2>1. CASE f \in Managed(state) \cup DOMAIN p.files
    <3>1. file[f] = Content({p}, f)
      BY <2>1, <1>1 DEF Changed, Of
    <3> QED BY <3>1, <1>1, <1>2, ContentPublished DEF Of, Is
  <2>2. CASE f \notin Managed(state) \cup DOMAIN p.files
    BY <2>2, <1>1, ContentUnmanaged, ContentOf
  <2> QED BY <2>1, <2>2
<1> QED BY <1>3, <1>4 DEF JournalTrue, t

(* Steps that leave strays alone keep what is said of a transaction.       *)
LEMMA JournalTrueKept ==
    ASSUME UNCHANGED strays, NEW r, JournalTrue(r)
    PROVE  JournalTrue(r)'
BY DEF JournalTrue, Of, Content, Managed

LEMMA DescribesKept ==
    ASSUME UNCHANGED <<file, strays>>
    PROVE  /\ \A s : Describes(s) => Describes(s)'
           /\ \A s : Untorn(s) => Untorn(s)'
           /\ OldOrNew /\ Pending' = Pending => OldOrNew'
<1>1. \A s : Describes(s) => Describes(s)'
  BY DEF Describes, Content, Managed
<1>2. \A s : Untorn(s) => Untorn(s)'
  BY <1>1 DEF Untorn
<1>3. OldOrNew /\ Pending' = Pending => OldOrNew'
  BY DEF OldOrNew, Of, Is, Content, Managed
<1> QED BY <1>1, <1>2, <1>3

LEMMA BeginApplySettled ==
    ASSUME Placed, Settled, NEW p \in Packages, BeginApply(p)
    PROVE  Settled'
<1>0. PICK t : t = Transaction(p)
  OBVIOUS
<1>1. /\ journal = {} /\ op = "none" /\ Accepted(p)
      /\ journal' = {t} /\ run' = {t} /\ op' = "apply" /\ pc' = "pause"
      /\ UNCHANGED <<file, state, previous, services, strays>>
  BY <1>0 DEF BeginApply, Placed, Places, history
<1>2. /\ Planned(t) /\ t.before = state /\ t.services = services
      /\ \A f \in DOMAIN t.old : t.old[f] = file[f]
  BY <1>0, <1>1, TransactionPlanned, TransactionFields DEF Placed
<1>3. JournalTrue(t) /\ Describes(state)
  BY <1>0, <1>1, TransactionTrue, AcceptedDescribes
<1>4. Pending' = {t} /\ ~Restored' /\ ~Replaced'
  BY <1>1 DEF Pending, Restored, Replaced, Backward
<1>5. TasksKept'
  BY <1>1, <1>2 DEF Settled, TasksKept
<1>6. JournalsTrue'
  BY <1>1, <1>3, JournalTrueKept DEF Settled, JournalsTrue
<1>7. OldOrNew'
  <2>1. \A f \in Of(Files) : Is(f, Content(state, f))
    BY <1>3, DescribesIs
  <2>2. \A f \in Of(DOMAIN t.old) : Is(f, t.old[f])'
    BY <1>1, <1>2 DEF Of, Is
  <2>3. \A f \in Of(Files \ DOMAIN t.old) : Is(f, Content(t.before, f))'
    BY <2>1, <1>1, <1>2 DEF Of, Is, Content, Managed
  <2> QED BY <2>2, <2>3, <1>1, <1>4 DEF OldOrNew, Of
<1>8. Describes(t.before)'
  BY <1>1, <1>2, <1>3, DescribesKept
<1>9. FilesSettled'
  BY <1>1, <1>4, <1>8 DEF FilesSettled
<1> QED BY <1>1, <1>5, <1>6, <1>7, <1>9 DEF Settled, WrittenSoFar, RollbackAccepted

LEMMA BeginSettled ==
    ASSUME Placed, Settled, BeginRecover \/ BeginRollback \/ BeginAdopt
    PROVE  Settled'
<1>1. /\ UNCHANGED <<file, state, journal, previous, services, strays>>
      /\ pc' = "pause" /\ op = "none" /\ op' \in {"recover", "rollback", "adopt"}
  BY DEF BeginRecover, BeginRollback, BeginAdopt, disk, history, Placed, Places
<1>2. ~Restored' /\ ~Replaced'
  BY <1>1 DEF Restored, Replaced, Backward
<1>3. TasksKept'
  <2>1. op' = "adopt" => run' = {[services |-> services]}
    BY <1>1 DEF BeginRecover, BeginRollback, BeginAdopt
  <2> QED BY <2>1, <1>1 DEF Settled, TasksKept
<1>4. JournalsTrue'
  BY <1>1, JournalTrueKept DEF Settled, JournalsTrue
<1>5. OldOrNew' /\ RollbackAccepted'
  <2>1. CASE op' # "rollback"
    <3>1. Pending' = Pending
      BY <2>1, <1>1 DEF Pending
    <3> QED BY <2>1, <3>1, <1>1, DescribesKept DEF Settled, RollbackAccepted
  <2>2. CASE op' = "rollback"
    <3>1. PICK r \in previous : /\ run' = {r} /\ state = r.after /\ journal = {}
                                /\ \A f \in DOMAIN r.old : OwnWork(r, f)
      BY <2>2 DEF BeginRecover, BeginRollback, BeginAdopt
    <3>2. Planned(r) /\ JournalTrue(r) /\ state # {}
      BY <3>1, PlannedNew DEF Placed, Journals, Settled, JournalsTrue
    <3>3. Describes(r.after)
      BY <3>1, <3>2, <1>1 DEF Settled, FilesSettled, Untorn
    <3>4. \A f \in Of(Files \ DOMAIN r.old) : Is(f, Content(r.before, f))
      BY <3>2, <3>3, DescribesIs DEF JournalTrue, Of
    <3>5. \A f \in Of(DOMAIN r.old) : Is(f, r.old[f]) \/ Is(f, r.new[f])
      BY <3>1 DEF OwnWork, Of, Is
    <3>6. Pending' = {r}
      BY <2>2, <3>1 DEF Pending
    <3>7. OldOrNew'
      BY <3>4, <3>5, <3>6, <1>1 DEF OldOrNew, Of, Is, Content, Managed
    <3> QED BY <3>1, <3>7, <1>1 DEF RollbackAccepted, OwnWork
  <2> QED BY <2>1, <2>2
<1>6. FilesSettled'
  BY <1>1, <1>2, DescribesKept DEF Settled, FilesSettled
<1> QED BY <1>1, <1>3, <1>4, <1>5, <1>6 DEF Settled, WrittenSoFar

(* An operation that ends without having done what it was for.             *)
LEMMA EndSettled ==
    ASSUME Placed, Settled, End, UNCHANGED <<disk, strays>>, op # "rollback",
           journal = {} => services' = "enabled"
    PROVE  Settled'
<1>1. /\ UNCHANGED <<file, state, journal, previous, strays>> /\ op' = "none" /\ pc' = "idle"
  BY DEF End, disk
<1>2. ~Restored' /\ ~Replaced' /\ Pending' = Pending
  BY <1>1 DEF Restored, Replaced, Backward, Pending
<1>3. TasksKept'
  BY <1>1 DEF Settled, TasksKept
<1>4. JournalsTrue'
  BY <1>1, JournalTrueKept DEF Settled, JournalsTrue
<1>5. OldOrNew' /\ FilesSettled'
  BY <1>1, <1>2, DescribesKept DEF Settled, FilesSettled
<1> QED BY <1>1, <1>3, <1>4, <1>5 DEF Settled, WrittenSoFar, RollbackAccepted

LEMMA RaiseSettled ==
    ASSUME Placed, Settled, Raise, UNCHANGED <<disk, services, strays>>, op # "rollback",
           op = "adopt" => pc # "resume"
    PROVE  Settled'
<1>0. UNCHANGED <<file, state, journal, previous, services, strays>>
  BY DEF disk
<1>1. CASE End /\ Backward
  BY <1>1, EndSettled DEF Placed, Places, OnJournal, Backward
<1>2. CASE /\ op = "apply" /\ op' = "undo" /\ run' = run
           /\ pc' = IF pc = "pause" THEN "resume" ELSE "pause"
  <2>1. /\ Pending' = Pending /\ ~Replaced' /\ (Restored' => pc = "pause")
        /\ journal # {} /\ pc' # "finish" /\ pc' # "write"
    BY <1>0, <1>2 DEF Pending, Replaced, Restored, Backward, Placed, Places, OnJournal
  <2>2. TasksKept' /\ JournalsTrue' /\ OldOrNew'
    BY <1>0, <1>2, <2>1, JournalTrueKept, DescribesKept DEF Settled, TasksKept, JournalsTrue
  <2>3. FilesSettled'
    BY <1>0, <1>2, <2>1, DescribesKept DEF Settled, FilesSettled
  <2> QED BY <1>2, <2>1, <2>2, <2>3 DEF Settled, WrittenSoFar, RollbackAccepted
<1>3. CASE op = "adopt" /\ Goto("resume")
  <2>1. Pending' = Pending /\ ~Replaced' /\ ~Restored' /\ UNCHANGED <<op, run>> /\ pc' = "resume"
    BY <1>0, <1>3 DEF Pending, Replaced, Restored, Backward, Goto
  <2>2. TasksKept' /\ JournalsTrue' /\ OldOrNew'
    BY <1>0, <1>3, <2>1, JournalTrueKept, DescribesKept DEF Settled, TasksKept, JournalsTrue
  <2>3. FilesSettled'
    BY <1>0, <1>3, <2>1, DescribesKept DEF Settled, FilesSettled
  <2> QED BY <1>3, <2>1, <2>2, <2>3 DEF Settled, WrittenSoFar, RollbackAccepted
<1> QED BY <1>1, <1>2, <1>3 DEF Raise

LEMMA PauseSettled ==
    ASSUME Placed, Settled, Pause PROVE Settled'
<1>1. /\ UNCHANGED <<file, state, journal, previous, strays, op, run>> /\ pc = "pause"
      /\ pc' = (IF op = "adopt" THEN "load" ELSE "check") /\ op # "none"
  BY DEF Pause, Goto, disk, history, Placed, Places
<1>2. Pending' = Pending /\ ~Replaced' /\ ~Restored'
  BY <1>1 DEF Pending, Replaced, Restored, Backward
<1>3. TasksKept' /\ JournalsTrue' /\ OldOrNew'
  BY <1>1, <1>2, JournalTrueKept, DescribesKept DEF Settled, TasksKept, JournalsTrue
<1>4. FilesSettled'
  BY <1>1, <1>2, DescribesKept DEF Settled, FilesSettled
<1>5. RollbackAccepted'
  BY <1>1 DEF Settled, RollbackAccepted, OwnWork
<1> QED BY <1>1, <1>3, <1>4, <1>5 DEF Settled, WrittenSoFar

LEMMA CheckTargetsSettled ==
    ASSUME Placed, Settled, CheckTargets PROVE Settled'
<1>1. /\ UNCHANGED <<disk, services, strays>> /\ pc = "check"
      /\ UNCHANGED <<file, state, journal, previous>>
  BY DEF CheckTargets, disk
<1>2. PICK r \in run :
        IF \A f \in DOMAIN r.old : IF Backward THEN OwnWork(r, f) ELSE Untouched(r, f)
        THEN pc' = "write" /\ left' = DOMAIN r.old /\ UNCHANGED <<op, run>>
        ELSE Raise
  BY DEF CheckTargets
<1>3. op \in {"apply", "undo", "recover", "rollback"} /\ run = {r}
  BY <1>1, <1>2 DEF Placed, Places, Journals, OnJournal, Backward
<1>4. CASE pc' = "write" /\ left' = DOMAIN r.old /\ UNCHANGED <<op, run>>
  <2>1. Pending' = Pending /\ ~Replaced' /\ ~Restored'
    BY <1>1, <1>4 DEF Pending, Replaced, Restored, Backward
  <2>2. TasksKept' /\ JournalsTrue' /\ OldOrNew'
    BY <1>1, <1>3, <1>4, <2>1, JournalTrueKept, DescribesKept
       DEF Settled, TasksKept, JournalsTrue
  <2>3. FilesSettled'
    <3>1. journal = {} => op = "rollback"
      BY <1>3 DEF Placed, Places, OnJournal
    <3> QED BY <3>1, <1>1, <1>4, <2>1 DEF FilesSettled
  <2>4. WrittenSoFar' /\ RollbackAccepted'
    BY <1>3, <1>4 DEF WrittenSoFar, RollbackAccepted, Of
  <2> QED BY <2>2, <2>3, <2>4 DEF Settled
<1>5. CASE Raise /\ op # "rollback"
  BY <1>1, <1>3, <1>5, RaiseSettled
<1>6. op = "rollback" => \A f \in DOMAIN r.old : OwnWork(r, f)
  BY <1>1, <1>3 DEF Settled, RollbackAccepted
<1> QED BY <1>2, <1>4, <1>5, <1>6 DEF Backward

LEMMA WriteFileSettled ==
    ASSUME Placed, Settled, WriteFile PROVE Settled'
<1>1. PICK r \in run, f \in left :
         /\ run = {r} /\ Planned(r) /\ f \in DOMAIN r.old /\ Pending = run
         /\ file'[f] = (IF Backward THEN r.old[f] ELSE r.new[f])
         /\ \A g \in Files : g # f => file'[g] = file[g]
         /\ left' = left \ {f} /\ pc = "write"
         /\ UNCHANGED <<state, journal, previous, services, op, pc, run, strays>>
         /\ (journal = {} => op = "rollback") /\ (Backward \/ op = "apply")
  BY WriteFileStep
<1>2. /\ ~Restored' /\ ~Replaced' /\ Pending' = {r} /\ (Backward' <=> Backward)
      /\ op # "none"
  BY <1>1 DEF Restored, Replaced, Backward, Pending
<1>3. TasksKept' /\ JournalsTrue'
  BY <1>1, <1>2, JournalTrueKept DEF Settled, TasksKept, JournalsTrue
<1>4. DOMAIN r.old \subseteq Files
  BY <1>1 DEF Planned
<1>5. OldOrNew'
  <2>1. \A g \in Of(DOMAIN r.old) : Is(g, r.old[g])' \/ Is(g, r.new[g])'
    BY <1>1, <1>4 DEF Settled, OldOrNew, Of, Is
  <2>2. \A g \in Of(Files \ DOMAIN r.old) : Is(g, Content(r.before, g))'
    BY <1>1, <1>4 DEF Settled, OldOrNew, Of, Is, Content, Managed
  <2> QED BY <2>1, <2>2, <1>1, <1>2 DEF OldOrNew, Of
<1>6. WrittenSoFar'
  <2> SUFFICES ASSUME NEW g \in Of(DOMAIN r.old \ left')
               PROVE  Is(g, IF Backward THEN r.old[g] ELSE r.new[g])'
    BY <1>1, <1>2 DEF WrittenSoFar, Of
  <2>1. CASE g = f
    BY <2>1, <1>1, <1>2 DEF Is
  <2>2. CASE g # f
    <3>1. g \in Of(DOMAIN r.old \ left) /\ g \in Files
      BY <2>2, <1>1, <1>4 DEF Of
    <3> QED BY <3>1, <2>2, <1>1, <1>2 DEF Settled, WrittenSoFar, Is
  <2> QED BY <2>1, <2>2
<1>7. FilesSettled' /\ RollbackAccepted'
  BY <1>1, <1>2 DEF FilesSettled, RollbackAccepted
<1> QED BY <1>3, <1>5, <1>6, <1>7 DEF Settled

(* When every file is written, the files are those of the other version.   *)
LEMMA AllWritten ==
    ASSUME Placed, Settled, NEW r \in run, pc = "write", left = {}
    PROVE  /\ Backward => Describes(r.before)
           /\ op = "apply" => Describes(r.after)
<1>1. run = {r} /\ Planned(r) /\ r \in journal \cup previous /\ r \in Pending
  BY DEF Placed, Places, Journals, OnJournal, Backward, Pending
<1>2. /\ JournalTrue(r)
      /\ \A f \in Of(Files \ DOMAIN r.old) : Is(f, Content(r.before, f))
      /\ \A f \in Of(DOMAIN r.old) : Is(f, IF Backward THEN r.old[f] ELSE r.new[f])
  BY <1>1 DEF Settled, JournalsTrue, OldOrNew, WrittenSoFar, Of
<1>3. \A f \in DOMAIN r.old : r.new[f] = Content(r.after, f)
  BY <1>1, PlannedNew
<1>4. ASSUME Backward, NEW f \in Of(Files) PROVE Is(f, Content(r.before, f))
  <2>1. CASE f \in Of(DOMAIN r.old)
    BY <2>1, <1>2, <1>4 DEF JournalTrue, Is
  <2>2. CASE f \in Of(Files \ DOMAIN r.old)
    BY <2>2, <1>2
  <2> QED BY <2>1, <2>2, <1>4 DEF Of
<1>5. ASSUME op = "apply", NEW f \in Of(Files) PROVE Is(f, Content(r.after, f))
  <2>1. CASE f \in Of(DOMAIN r.old)
    BY <2>1, <1>2, <1>3, <1>5 DEF Of, Backward
  <2>2. CASE f \in Of(Files \ DOMAIN r.old)
    BY <2>2, <1>2 DEF JournalTrue
  <2> QED BY <2>1, <2>2, <1>5 DEF Of
<1> QED BY <1>4, <1>5, DescribesIs

LEMMA LoadCheckSettled ==
    ASSUME Placed, Fits, Settled, LoadCheck PROVE Settled'
<1>0. /\ UNCHANGED <<file, state, journal, previous, services, strays>> /\ UNCHANGED disk
      /\ (pc = "write" /\ left = {} /\ op = "apply") \/ pc = "load"
  BY DEF LoadCheck, disk, history
<1>1. CASE ~Loads
  <2>1. op # "rollback" /\ pc # "resume"
    BY <1>0, <1>1 DEF Placed, Places, Fits, RestLoads, Restored, Backward
  <2> QED BY <2>1, <1>0, <1>1, RaiseSettled DEF LoadCheck
<1>2. CASE Loads
  <2>1. /\ pc' = (IF op = "apply" THEN "state" ELSE IF op = "adopt" THEN "adopt" ELSE "resume")
        /\ UNCHANGED <<op, run>>
    BY <1>2 DEF LoadCheck, Goto
  <2>2. op \in {"apply", "recover", "rollback", "undo", "adopt"}
    BY <1>0 DEF Placed, Places
  <2>3. Pending' = Pending /\ (Restored' <=> Restored) /\ (Replaced' <=> op = "apply")
    BY <1>0, <2>1, <2>2 DEF Pending, Restored, Replaced, Backward
  <2>4. TasksKept' /\ JournalsTrue' /\ OldOrNew'
    BY <1>0, <2>1, <2>2, <2>3, JournalTrueKept, DescribesKept
       DEF Settled, TasksKept, JournalsTrue
  <2>5. op = "apply" => pc = "write" /\ left = {} /\ journal # {}
    BY <1>0 DEF Placed, Places, OnJournal
  <2>6. op = "apply" => \A r \in run : Describes(r.after)
    BY <2>5, AllWritten
  <2>7. FilesSettled'
    BY <1>0, <2>1, <2>2, <2>3, <2>5, <2>6, DescribesKept DEF Settled, FilesSettled
  <2> QED BY <2>1, <2>4, <2>7 DEF Settled, WrittenSoFar, RollbackAccepted
<1> QED BY <1>1, <1>2

LEMMA SaveStateSettled ==
    ASSUME Placed, Settled, SaveState PROVE Settled'
<1>1. /\ UNCHANGED <<file, journal, previous, services, strays, op, run>>
      /\ pc' \in {"load", "resume"}
      /\ (op = "apply" /\ pc = "state") \/ (pc = "write" /\ left = {} /\ Backward)
      /\ (pc' = "load" => Backward)
  BY DEF SaveState, Goto, history, Placed, Places, Backward
<1>2. /\ Pending' = Pending /\ (journal = {} => op = "rollback") /\ op # "none"
      /\ op # "adopt"
  BY <1>1 DEF Placed, Places, OnJournal, Backward, Pending
<1>3. /\ (Restored' <=> Backward) /\ (Replaced' <=> op = "apply") /\ (op = "apply" => Replaced)
  BY <1>1 DEF Restored, Replaced, Backward
<1>4. TasksKept' /\ JournalsTrue' /\ OldOrNew'
  BY <1>1, <1>2, JournalTrueKept, DescribesKept DEF Settled, TasksKept, JournalsTrue
<1>5. Backward => \A r \in run : Describes(r.before)
  BY <1>1, AllWritten DEF Backward
<1>6. FilesSettled'
  BY <1>1, <1>2, <1>3, <1>5, DescribesKept DEF Settled, FilesSettled
<1> QED BY <1>1, <1>4, <1>6 DEF Settled, WrittenSoFar, RollbackAccepted

(* An adoption describes what it found, apart from what it passed over.    *)
LEMMA AdoptDescribes ==
    ASSUME Placed, Adopt PROVE state' # {} /\ Describes(state)'
<1>1. PICK p \in Packages : /\ Adoptable(p)
                            /\ strays' = {f \in Files \ DOMAIN p.files : file[f] # Absent}
  BY DEF Adopt
<1>2. state' # {} /\ DOMAIN p.files \subseteq Files
  BY <1>1, AdoptablePlaced, PackagesAssumption DEF Placed
<1>3. file' = file
  BY DEF Adopt
<1>4. PICK q : state' = {q} /\ \A f \in Files \ strays' : file[f] = IF f \in DOMAIN q.files
                                                          THEN q.files[f] ELSE Absent
  <2>1. CASE state' = {p} /\ \A f \in DOMAIN p.files : file[f] = p.files[f]
    BY <2>1, <1>1
  <2>2. CASE state' = {[version |-> 0,
                 files |-> [f \in {g \in DOMAIN p.files : file[g] # Absent} |-> file[f]]]}
    <3> DEFINE q == [version |-> 0,
                 files |-> [f \in {g \in DOMAIN p.files : file[g] # Absent} |-> file[f]]]
    <3>1. \A f \in Files \ strays' : file[f] = IF f \in DOMAIN q.files
                                               THEN q.files[f] ELSE Absent
      BY <1>1
    <3> QED BY <2>2, <3>1
  <2> QED BY <2>1, <2>2, <1>1 DEF Adoptable
<1>5. \A f : Content({q}, f) = IF f \in DOMAIN q.files THEN q.files[f] ELSE Absent
  BY ContentOf
<1>6. \A f \in Files \ strays' : file'[f] = Content({q}, f)
  BY <1>3, <1>4, <1>5
<1>7. \A f : Content(state, f)' = Content({q}, f)
  BY <1>4 DEF Content, Managed
<1> QED BY <1>2, <1>6, <1>7 DEF Describes

LEMMA AdoptSettled ==
    ASSUME Placed, Fits, Settled, Adopt PROVE Settled'
<1>1. /\ UNCHANGED <<file, journal, previous, services, op, run>> /\ pc = "adopt"
      /\ pc' = "resume" /\ op = "adopt" /\ journal = {} /\ previous = {}
  BY NothingBeforeAdopt DEF Adopt, Goto, Placed, Places, Backward
<1>2. ~Restored' /\ ~Replaced' /\ Pending' = {}
  BY <1>1 DEF Restored, Replaced, Backward, Pending
<1>3. FilesSettled'
  BY <1>1, <1>2, AdoptDescribes DEF FilesSettled, Untorn
<1> QED BY <1>1, <1>2, <1>3 DEF Settled, TasksKept, JournalsTrue, OldOrNew, WrittenSoFar,
                                RollbackAccepted

LEMMA ControlSettled ==
    ASSUME Placed, Settled, AdoptRefused \/ Resume
    PROVE  Settled'
<1>0. UNCHANGED <<file, state, journal, previous, strays>> /\ UNCHANGED disk
  BY DEF AdoptRefused, Resume, disk, history
<1>1. CASE AdoptRefused
  <2>1. /\ UNCHANGED <<op, run, services>> /\ pc = "adopt" /\ pc' = "resume" /\ op = "adopt"
    BY <1>1 DEF AdoptRefused, Goto, Placed, Places, Backward
  <2>2. Pending' = Pending /\ ~Restored' /\ ~Replaced'
    BY <2>1, <1>0 DEF Pending, Restored, Replaced, Backward
  <2>3. TasksKept' /\ JournalsTrue' /\ OldOrNew'
    BY <1>0, <2>1, <2>2, JournalTrueKept, DescribesKept DEF Settled, TasksKept, JournalsTrue
  <2>4. FilesSettled'
    BY <1>0, <2>1, <2>2, DescribesKept DEF Settled, FilesSettled
  <2> QED BY <2>1, <2>3, <2>4 DEF Settled, WrittenSoFar, RollbackAccepted
<1>2. CASE Resume /\ op = "adopt"
  <2>1. journal = {} => services' = "enabled"
    BY <1>2 DEF Resume, Settled, TasksKept
  <2> QED BY <2>1, <1>0, <1>2, EndSettled DEF Resume
<1>3. CASE Resume /\ op # "adopt"
  <2>1. pc = "resume" /\ pc' = "finish" /\ UNCHANGED <<op, run>>
    BY <1>3 DEF Resume, Goto
  <2>2. /\ (Restored' <=> Restored) /\ (Replaced' <=> Replaced) /\ Pending' = Pending
    BY <2>1, <1>0 DEF Restored, Replaced, Backward, Pending
  <2>3. services' = "enabled"
    <3>1. run \subseteq journal \cup previous
      BY <2>1, <1>3 DEF Placed, Places, OnJournal
    <3> QED BY <3>1, <1>3 DEF Resume, Settled, TasksKept
  <2>4. TasksKept' /\ JournalsTrue' /\ OldOrNew'
    BY <1>0, <1>3, <2>1, <2>2, <2>3, JournalTrueKept, DescribesKept
       DEF Settled, TasksKept, JournalsTrue
  <2>5. FilesSettled'
    BY <1>0, <2>1, <2>2, DescribesKept DEF Settled, FilesSettled
  <2> QED BY <2>1, <2>4, <2>5 DEF Settled, WrittenSoFar, RollbackAccepted
<1> QED BY <1>1, <1>2, <1>3

LEMMA FinishSettled ==
    ASSUME Placed, Fits, Settled, Retain \/ Unlink
    PROVE  Settled'
<1>1. /\ UNCHANGED <<file, state, services, strays>> /\ op' = "none" /\ pc' = "idle"
      /\ pc = "finish" /\ op \in {"apply", "undo", "recover", "rollback"}
      /\ (Restored <=> op # "apply") /\ (op = "apply" => Recorded /\ Replaced)
  BY DEF Retain, Unlink, End, Backward, Restored, Recorded, Replaced, history
<1>2. PICK r \in run : run = {r}
  BY <1>1 DEF Placed, Places, Journals, OnJournal, Backward
<1>3. journal' = {} /\ previous' \subseteq journal \cup previous
  BY <1>1 DEF Retain, Unlink, Placed, Places
<1>4. /\ ~Restored' /\ ~Replaced' /\ Pending' = {}
  BY <1>1, <1>3 DEF Restored, Replaced, Backward, Pending
<1>5. Describes(state)
  BY <1>1, <1>2 DEF Fits, StateFits, Settled, FilesSettled
<1>6. Untorn(state)'
  BY <1>1, <1>5, DescribesKept DEF Untorn
<1>7. FilesSettled'
  BY <1>1, <1>4, <1>6 DEF FilesSettled
<1>8. TasksKept' /\ JournalsTrue'
  BY <1>1, <1>3, JournalTrueKept DEF Settled, TasksKept, JournalsTrue
<1> QED BY <1>1, <1>4, <1>7, <1>8 DEF Settled, OldOrNew, WrittenSoFar, RollbackAccepted

LEMMA EditSettled ==
    ASSUME Placed, Settled, NEW f \in Files, NEW c \in Own, Edit(f, c), op # "rollback"
    PROVE  Settled'
<1>1. /\ UNCHANGED <<state, journal, previous, services, op, pc, run, left, strays>>
      /\ \A g \in Files : file'[g] \in Own \/ file'[g] = file[g]
  BY DEF Edit, memory, Placed
<1>2. /\ (Restored' <=> Restored) /\ (Replaced' <=> Replaced)
      /\ Pending' = Pending /\ (Backward' <=> Backward)
  BY <1>1 DEF Restored, Replaced, Backward, Pending
<1>3. \A g \in Files : \A d : Is(g, d) => Is(g, d)'
  BY <1>1 DEF Is
<1>4. \A s : Describes(s) => Describes(s)'
  BY <1>1 DEF Describes, Content, Managed
<1>5. \A s : Untorn(s) => Untorn(s)'
  BY <1>4 DEF Untorn
<1>6. \A r \in Pending : DOMAIN r.old \subseteq Files
  BY DEF Placed, Places, Journals, Planned, Pending
<1>7. OldOrNew'
  <2>1. ASSUME NEW r \in Pending, NEW g \in Of(DOMAIN r.old)
        PROVE  Is(g, r.old[g])' \/ Is(g, r.new[g])'
    BY <1>3, <1>6 DEF Settled, OldOrNew, Of
  <2>2. ASSUME NEW r \in Pending, NEW g \in Of(Files \ DOMAIN r.old)
        PROVE  Is(g, Content(r.before, g))'
    <3>1. Is(g, Content(r.before, g))
      BY DEF Settled, OldOrNew
    <3>2. Content(r.before, g)' = Content(r.before, g)
      BY DEF Content, Managed
    <3> QED BY <3>1, <1>1 DEF Is, Of, Content, Managed
  <2> QED BY <2>1, <2>2, <1>1, <1>2 DEF OldOrNew, Of
<1>8. WrittenSoFar'
  <2>1. pc = "write" => \A r \in run : DOMAIN r.old \subseteq Files
    BY DEF Placed, Places, Journals, Planned, OnJournal, Backward
  <2>2. ASSUME pc = "write", NEW r \in run, NEW g \in Of(DOMAIN r.old \ left)
        PROVE  Is(g, IF Backward THEN r.old[g] ELSE r.new[g])'
    BY <2>1, <2>2, <1>1, <1>2 DEF Settled, WrittenSoFar, Is, Of
  <2> QED BY <2>2, <1>1 DEF WrittenSoFar, Of
<1>9. TasksKept' /\ JournalsTrue' /\ RollbackAccepted'
  BY <1>1, JournalTrueKept DEF Settled, TasksKept, JournalsTrue, RollbackAccepted
<1>10. FilesSettled'
  BY <1>1, <1>2, <1>4, <1>5 DEF Settled, FilesSettled
<1> QED BY <1>7, <1>8, <1>9, <1>10 DEF Settled

LEMMA StepSettled ==
    ASSUME RollbackUndisturbed, AdoptUndisturbed
    PROVE  Placed /\ Fits /\ Settled /\ [Next]_vars => Settled'
<1> SUFFICES ASSUME Placed, Fits, Settled, [Next]_vars PROVE Settled'
  OBVIOUS
<1>1. CASE UNCHANGED vars
  <2>1. UNCHANGED <<file, state, journal, previous, services, op, pc, run, left, strays>>
    BY <1>1 DEF vars, memory, disk, history
  <2>2. /\ (Restored' <=> Restored) /\ (Replaced' <=> Replaced)
        /\ Pending' = Pending /\ (Backward' <=> Backward)
    BY <2>1 DEF Restored, Replaced, Backward, Pending
  <2>3. TasksKept' /\ JournalsTrue' /\ OldOrNew'
    BY <2>1, <2>2, JournalTrueKept, DescribesKept DEF Settled, TasksKept, JournalsTrue
  <2>4. WrittenSoFar' /\ RollbackAccepted'
    BY <2>1, <2>2 DEF Settled, WrittenSoFar, RollbackAccepted, OwnWork, Is, Of
  <2>5. FilesSettled'
    BY <2>1, <2>2, DescribesKept DEF Settled, FilesSettled
  <2> QED BY <2>3, <2>4, <2>5 DEF Settled
<1>2. CASE Begin
  BY <1>2, BeginSettled, BeginApplySettled DEF Begin
<1>3. CASE Advance
  BY <1>3, PauseSettled, CheckTargetsSettled, WriteFileSettled, LoadCheckSettled,
     SaveStateSettled, AdoptSettled, ControlSettled, FinishSettled DEF Advance
<1>4. CASE Fail
  BY <1>4, RaiseSettled DEF Fail, RollbackUndisturbed, AdoptUndisturbed, history
<1>5. CASE Crash
  <2>1. op \notin {"rollback", "adopt"} /\ End /\ UNCHANGED <<disk, services, strays>>
    BY <1>5 DEF Crash, RollbackUndisturbed, AdoptUndisturbed, history
  <2>2. journal = {} => services = "enabled"
    BY <2>1 DEF Placed, Places, OnJournal, Settled, TasksKept
  <2> QED BY <2>1, <2>2, EndSettled
<1>6. CASE User
  BY <1>6, EditSettled DEF User, Edit, RollbackUndisturbed
<1> QED BY <1>1, <1>2, <1>3, <1>4, <1>5, <1>6 DEF Next

LEMMA SettledHolds ==
    ASSUME RollbackUndisturbed, AdoptUndisturbed PROVE Spec => []Settled
<1>1. Placed /\ Fits /\ Settled /\ [Next]_vars => Settled'
  BY StepSettled
<1> QED BY <1>1, PlacedHolds, FitsHolds, InitSettled, PTL DEF Spec

(* Whichever step of an apply, an undo or a recover raised or was cut off, *)
(* and whatever the user edited meanwhile: with no journal the files are   *)
(* those of the installed version and the tasks are enabled.               *)
THEOREM InstallationStaysWhole ==
    ASSUME RollbackUndisturbed, AdoptUndisturbed PROVE Spec => []InstallationIsWhole
<1>1. Placed /\ Settled => InstallationIsWhole
  BY DEF Placed, Places, Settled, TasksKept, FilesSettled, Untorn, Whole, InstallationIsWhole
<1> QED BY <1>1, SettledHolds, PlacedHolds, PTL

=============================================================================
