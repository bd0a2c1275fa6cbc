-------------------------- MODULE ChangedFilesProofs --------------------------
(***************************************************************************)
(* Proofs about ChangedFiles, for every set of files, contents and         *)
(* revisions and any number of edits, binds, crashes and failing steps.    *)
(*                                                                         *)
(* The properties speak of a tree at rest, or of one step.  The inductive  *)
(* invariant says what they rest on while a transaction is under way: what *)
(* its journal records never changes, and of each place in the program,    *)
(* which files are still as they were and which are already replaced.      *)
(***************************************************************************)
EXTENDS ChangedFiles, TLAPS

Contents == {Absent} \cup Own \cup UNION {Range(r) : r \in Revisions}
Trees == [Files -> Contents]

(* A transaction as apply composes it.                                     *)
Composed(t) ==
    /\ DOMAIN t.old \subseteq Files /\ DOMAIN t.new = DOMAIN t.old
    /\ t.oldBaseline \in Trees /\ t.newBaseline \in Trees
    /\ \A f \in DOMAIN t.old :
        /\ t.old[f] \in Contents /\ t.new[f] \in Contents \ Own
        /\ t.new[f] = t.newBaseline[f]

TypeOK ==
    /\ file \in Trees /\ baseline \in Trees /\ binding \subseteq Trees
    /\ incoming \subseteq Revisions /\ astray \in BOOLEAN
    /\ \A t \in journal : Composed(t)

OneJournal == \A t, u \in journal : t = u

(* A file is as another state of it says, or as the user edited it.        *)
Is(f, c) == file[f] = c \/ file[f] \in Own

(* The transaction took its files from a tree that matched its baseline.   *)
OldMatches ==
    \A t \in journal : ~astray =>
        /\ \A f \in DOMAIN t.old : t.old[f] = t.oldBaseline[f] \/ t.old[f] \in Own
        /\ \A f \in Files \ DOMAIN t.old :
              t.newBaseline[f] = t.oldBaseline[f] /\ Is(f, t.oldBaseline[f])

EveryFileOldOrNew ==
    \A t \in journal : \A f \in DOMAIN t.old : Is(f, t.old[f]) \/ Is(f, t.new[f])

BaselineOldOrNew ==
    \A t \in journal : ~astray => baseline \in {t.oldBaseline, t.newBaseline}

(* No journal: every file is as its baseline says, or edited.              *)
Matching == \A f \in Files : Is(f, baseline[f])
MatchingUnjournalled == journal = {} /\ ~astray => Matching

(* What the place in the program says of the files and of the baseline.    *)
LeftToReplace ==
    pc \in {"write", "restore", "restore files"} => \A t \in journal : left \subseteq DOMAIN t.old

Replaced ==
    \A t \in journal :
        /\ pc = "write" => \A f \in DOMAIN t.old \ left : Is(f, t.new[f])
        /\ pc = "load" => (~astray => Matching)

PutBack ==
    \A t \in journal :
        /\ pc \in {"restore", "restore files"} => \A f \in DOMAIN t.old \ left : Is(f, t.old[f])
        /\ pc = "restore files" => baseline = t.oldBaseline

Finished == pc = "unlink" => (~astray => Matching)

(* Of the files still to replace, only those edited since the check hold   *)
(* what the binding does not expect.                                       *)
Checked == pc = "plan" => \A r \in incoming : \A f \in DOMAIN r : f \in late \/ Permitted(r, f)

CheckedToReplace ==
    pc = "write" =>
        \A t \in journal : \A f \in left : file[f] \in Own => f \in late \/ file[f] = t.oldBaseline[f]

CheckedToRestore ==
    pc \in {"restore", "restore files"} =>
        \A t \in journal : \A f \in left : file[f] \in Own => f \in late

DiskInv ==
    /\ TypeOK /\ OneJournal
    /\ OldMatches /\ EveryFileOldOrNew /\ BaselineOldOrNew /\ MatchingUnjournalled

PlaceInv ==
    /\ LeftToReplace /\ Replaced /\ PutBack /\ Finished
    /\ Checked /\ CheckedToReplace /\ CheckedToRestore

IInv == DiskInv /\ PlaceInv

-----------------------------------------------------------------------------
(* Facts about the operators.                                              *)

(* A revision gives files of the tree contents that are not the user's.    *)
LEMMA RevisionContents ==
    ASSUME NEW r \in Revisions, NEW f \in DOMAIN r
    PROVE  f \in Files /\ r[f] \in Contents \ Own
BY OwnAssumption, RevisionAssumption DEF Contents, Range

(* What apply journals is composed as recovery reads it.                   *)
LEMMA TransactionComposed ==
    ASSUME TypeOK, NEW r \in Revisions
    PROVE  Composed(Transaction(r))
<1>1. Changed(r) \subseteq DOMAIN r /\ Changed(r) \subseteq Files
  BY RevisionContents DEF Changed
<1>2. NextBaseline(r) \in Trees
  BY RevisionContents DEF NextBaseline, TypeOK, Trees
<1>3. \A f \in Changed(r) :
         /\ file[f] \in Contents /\ r[f] \in Contents \ Own
         /\ r[f] = NextBaseline(r)[f]
  BY <1>1, RevisionContents DEF NextBaseline, TypeOK, Trees
<1> QED BY <1>1, <1>2, <1>3 DEF Composed, Transaction, TypeOK

(* A step that leaves the disk alone keeps what does not depend on the     *)
(* place in the program.                                                   *)
LEMMA DiskUntouched ==
    ASSUME DiskInv, UNCHANGED <<disk, binding, astray>>, incoming' \subseteq Revisions
    PROVE  DiskInv'
<1>1. TypeOK' /\ OneJournal'
  BY DEF DiskInv, disk, TypeOK, OneJournal
<1>2. OldMatches' /\ EveryFileOldOrNew'
  BY DEF DiskInv, disk, OldMatches, EveryFileOldOrNew, Is
<1>3. BaselineOldOrNew' /\ MatchingUnjournalled'
  BY DEF DiskInv, disk, BaselineOldOrNew, MatchingUnjournalled, Matching, Is
<1> QED BY <1>1, <1>2, <1>3 DEF DiskInv

(* A step to a place of which nothing is claimed.                          *)
LEMMA NothingClaimed ==
    ASSUME pc' \in {"idle", "recover"}
    PROVE  PlaceInv'
BY DEF PlaceInv, LeftToReplace, Replaced, PutBack, Finished, Checked, CheckedToReplace,
       CheckedToRestore

-----------------------------------------------------------------------------
(* The steps that leave the disk alone.                                    *)

LEMMA BindReadStep == ASSUME IInv, BindRead PROVE IInv'
<1>1. TypeOK' /\ OneJournal'
  BY DEF BindRead, IInv, DiskInv, disk, memory, history, TypeOK, OneJournal
<1>2. OldMatches' /\ EveryFileOldOrNew'
  BY DEF BindRead, IInv, DiskInv, disk, history, OldMatches, EveryFileOldOrNew, Is
<1>3. BaselineOldOrNew' /\ MatchingUnjournalled'
  BY DEF BindRead, IInv, DiskInv, disk, history, BaselineOldOrNew, MatchingUnjournalled, Matching, Is
<1>4. LeftToReplace' /\ Replaced' /\ PutBack' /\ Finished'
  BY DEF BindRead, IInv, PlaceInv, disk, memory, history, LeftToReplace, Replaced, PutBack,
         Finished, Matching, Is
<1>5. Checked' /\ CheckedToReplace' /\ CheckedToRestore'
  BY DEF BindRead, IInv, PlaceInv, disk, memory, history, Checked, CheckedToReplace,
         CheckedToRestore, Permitted
<1> QED BY <1>1, <1>2, <1>3, <1>4, <1>5 DEF IInv, DiskInv, PlaceInv

LEMMA ApplyStep == ASSUME IInv, NEW r \in Revisions, Apply(r) PROVE IInv'
<1>1. DiskInv'
  BY DiskUntouched DEF Apply, IInv
<1>2. Checked'
  BY DEF Apply, disk, Checked, Permitted
<1>3. PlaceInv'
  BY <1>2 DEF Apply, PlaceInv, LeftToReplace, Replaced, PutBack, Finished, CheckedToReplace,
              CheckedToRestore
<1> QED BY <1>1, <1>3 DEF IInv

(* The apply gives up, or recovery begins, or the program stops.           *)
LEMMA QuitStep ==
    ASSUME IInv, Unfinished \/ NothingChanged \/ BeginRecover \/ Fail \/ Crash
    PROVE  IInv'
<1>1. /\ UNCHANGED <<disk, binding, astray>> /\ pc' \in {"idle", "recover"}
      /\ incoming' \in {{}, incoming}
  BY DEF Unfinished, NothingChanged, BeginRecover, Fail, Crash, Quit, Goto, history
<1>2. DiskInv'
  BY <1>1, DiskUntouched DEF IInv, DiskInv, TypeOK
<1> QED BY <1>1, <1>2, NothingClaimed DEF IInv

LEMMA LoadCheckStep == ASSUME IInv, LoadCheck PROVE IInv'
<1>1. DiskInv'
  BY DiskUntouched DEF LoadCheck, Goto, history, IInv, DiskInv, TypeOK
<1>2. CASE pc' = "unlink"
  <2>1. \A t \in journal : ~astray => Matching
    BY DEF LoadCheck, IInv, PlaceInv, Replaced
  <2>2. Finished'
    BY <2>1 DEF LoadCheck, Goto, disk, history, IInv, DiskInv, MatchingUnjournalled, Finished,
                Matching, Is
  <2> QED BY <1>1, <1>2, <2>2 DEF IInv, PlaceInv, LeftToReplace, Replaced, PutBack, Checked,
                                  CheckedToReplace, CheckedToRestore
<1>3. CASE pc' = "recover"
  BY <1>1, <1>3, NothingClaimed DEF IInv
<1> QED BY <1>2, <1>3 DEF LoadCheck, Goto

LEMMA CheckEntriesStep == ASSUME IInv, CheckEntries PROVE IInv'
<1>1. PICK t \in journal :
         IF OwnWork(t) THEN /\ pc' = "restore"
                            /\ left' = {f \in DOMAIN t.old : file[f] # t.old[f]}
                            /\ UNCHANGED incoming
                       ELSE Quit
  BY DEF CheckEntries
<1>2. DiskInv'
  BY <1>1, DiskUntouched DEF CheckEntries, Quit, IInv, DiskInv, TypeOK
<1>3. CASE OwnWork(t)
  <2>1. /\ pc' = "restore" /\ left' = {f \in DOMAIN t.old : file[f] # t.old[f]}
        /\ UNCHANGED disk /\ \A u \in journal' : u = t
    BY <1>1, <1>3 DEF CheckEntries, IInv, DiskInv, OneJournal, disk
  <2>2. LeftToReplace' /\ PutBack'
    BY <2>1 DEF LeftToReplace, PutBack, Is, disk
  (* What recovery puts back is what the apply wrote, not the user.        *)
  <2>3. CheckedToRestore'
    BY <1>3, <2>1 DEF CheckedToRestore, OwnWork, IInv, DiskInv, TypeOK, Composed, disk
  <2> QED BY <1>2, <2>1, <2>2, <2>3 DEF IInv, PlaceInv, Replaced, Finished, Checked, CheckedToReplace
<1>4. CASE ~OwnWork(t)
  BY <1>1, <1>2, <1>4, NothingClaimed DEF Quit, IInv
<1> QED BY <1>3, <1>4

LEMMA RestoredStep == ASSUME IInv, Restored PROVE IInv'
<1>1. DiskInv'
  BY DiskUntouched DEF Restored, Goto, history, IInv, DiskInv, TypeOK
<1>2. ASSUME ~astray PROVE Matching
  <2>1. CASE journal = {}
    BY <1>2, <2>1 DEF IInv, DiskInv, MatchingUnjournalled
  <2>2. ASSUME NEW t \in journal, NEW f \in Files PROVE Is(f, baseline[f])
    <3>1. baseline = t.oldBaseline /\ \A g \in DOMAIN t.old : Is(g, t.old[g])
      BY <2>2 DEF Restored, IInv, PlaceInv, PutBack
    <3> QED BY <1>2, <2>2, <3>1 DEF IInv, DiskInv, OldMatches, Is
  <2> QED BY <2>1, <2>2 DEF Matching
<1>3. Finished'
  BY <1>2 DEF Restored, Goto, disk, history, Finished, Matching, Is, IInv, DiskInv, TypeOK
<1> QED BY <1>1, <1>3 DEF Restored, Goto, IInv, PlaceInv, LeftToReplace, Replaced, PutBack, Checked,
                          CheckedToReplace, CheckedToRestore

-----------------------------------------------------------------------------
(* The steps that write.                                                   *)

LEMMA BindWriteStep == ASSUME IInv, BindWrite PROVE IInv'
<1>1. PICK b \in binding : baseline' = b /\ astray' = (journal # {} \/ b # file)
  BY DEF BindWrite
<1>2. /\ pc' \in {"idle", "recover"} /\ binding' = {}
      /\ UNCHANGED <<file, journal, incoming>>
  BY DEF BindWrite, memory
<1>3. TypeOK' /\ OneJournal'
  BY <1>1, <1>2 DEF IInv, DiskInv, TypeOK, OneJournal
(* With a journal the bind is astray; without one nothing else is claimed. *)
<1>4. OldMatches' /\ EveryFileOldOrNew' /\ BaselineOldOrNew'
  BY <1>1, <1>2 DEF IInv, DiskInv, OldMatches, EveryFileOldOrNew, BaselineOldOrNew, Is
<1>5. MatchingUnjournalled'
  BY <1>1, <1>2 DEF MatchingUnjournalled, Matching, Is
<1> QED BY <1>2, <1>3, <1>4, <1>5, NothingClaimed DEF IInv, DiskInv

LEMMA WriteJournalStep == ASSUME IInv, WriteJournal PROVE IInv'
<1>1. PICK r \in incoming : journal' = {Transaction(r)} /\ left' = Changed(r)
  BY DEF WriteJournal
<1>2. /\ pc = "plan" /\ pc' = "write" /\ journal = {}
      /\ UNCHANGED <<file, baseline, binding, incoming, late, astray>>
  BY DEF WriteJournal, history
<1>3. r \in Revisions
  BY <1>1 DEF IInv, DiskInv, TypeOK
<1> DEFINE t == Transaction(r)
<1>4. /\ Composed(t) /\ DOMAIN t.old = Changed(r) /\ t.oldBaseline = baseline
      /\ t.newBaseline = NextBaseline(r)
      /\ \A f \in Changed(r) : t.old[f] = file[f]
  BY <1>3, TransactionComposed DEF IInv, DiskInv, Transaction
<1> HIDE DEF t
<1>5. TypeOK' /\ OneJournal'
  BY <1>1, <1>2, <1>4 DEF IInv, DiskInv, TypeOK, OneJournal, Composed, t
(* A file that the revision does not change was already as it says, which  *)
(* without an edit is as the binding says.                                 *)
<1>6. OldMatches'
  <2> SUFFICES ASSUME ~astray
               PROVE  /\ \A f \in Changed(r) : file[f] = baseline[f] \/ file[f] \in Own
                      /\ \A f \in Files \ Changed(r) :
                            NextBaseline(r)[f] = baseline[f] /\ Is(f, baseline[f])
    BY <1>1, <1>2, <1>4 DEF OldMatches, Is, t
  <2>1. \A f \in Files : Is(f, baseline[f])
    BY <1>2 DEF IInv, DiskInv, MatchingUnjournalled, Matching
  <2>2. \A f \in DOMAIN r \ Changed(r) : r[f] = file[f] /\ file[f] \notin Own
    BY <1>3, RevisionContents DEF Changed
  <2> QED BY <1>3, <2>1, <2>2, RevisionContents DEF Is, Changed, NextBaseline
<1>7. EveryFileOldOrNew' /\ BaselineOldOrNew' /\ MatchingUnjournalled'
  BY <1>1, <1>2, <1>4 DEF EveryFileOldOrNew, BaselineOldOrNew, MatchingUnjournalled, Is, t
<1>8. LeftToReplace' /\ Replaced' /\ PutBack' /\ Finished'
  BY <1>1, <1>2, <1>4 DEF LeftToReplace, Replaced, PutBack, Finished, t
<1>9. CheckedToReplace'
  <2>1. \A f \in Changed(r) : f \in late \/ file[f] = baseline[f]
    BY <1>1, <1>2 DEF IInv, PlaceInv, Checked, Permitted, Changed
  <2> QED BY <1>1, <1>2, <1>4, <2>1 DEF CheckedToReplace, t
<1> QED BY <1>2, <1>5, <1>6, <1>7, <1>8, <1>9 DEF IInv, DiskInv, PlaceInv, Checked, CheckedToRestore

LEMMA ReplaceFileStep == ASSUME IInv, ReplaceFile PROVE IInv'
<1>1. PICK t \in journal, f \in left :
         file' = [file EXCEPT ![f] = t.new[f]] /\ left' = left \ {f}
  BY DEF ReplaceFile
<1>2. /\ pc = "write" /\ pc' = "write"
      /\ UNCHANGED <<baseline, journal, binding, incoming, late, astray>>
  BY DEF ReplaceFile, history
<1>3. /\ Composed(t) /\ f \in DOMAIN t.old /\ \A u \in journal : u = t
      /\ file \in Trees /\ left \subseteq DOMAIN t.old
  BY <1>1, <1>2 DEF IInv, DiskInv, PlaceInv, TypeOK, OneJournal, LeftToReplace
<1>4. f \in Files /\ file'[f] = t.new[f] /\ \A g \in Files \ {f} : file'[g] = file[g]
  BY <1>1, <1>3 DEF Trees, Composed
<1>5. TypeOK' /\ OneJournal'
  BY <1>1, <1>2, <1>3 DEF IInv, DiskInv, TypeOK, OneJournal, Composed, Trees
<1>6. OldMatches' /\ EveryFileOldOrNew' /\ BaselineOldOrNew' /\ MatchingUnjournalled'
  BY <1>1, <1>2, <1>3, <1>4 DEF IInv, DiskInv, OldMatches, EveryFileOldOrNew, BaselineOldOrNew,
     MatchingUnjournalled, Is, Composed
<1>7. LeftToReplace' /\ Replaced' /\ PutBack' /\ Finished'
  BY <1>1, <1>2, <1>3, <1>4 DEF IInv, PlaceInv, LeftToReplace, Replaced, PutBack, Finished, Is,
     Composed
<1>8. Checked' /\ CheckedToReplace' /\ CheckedToRestore'
  BY <1>1, <1>2, <1>3, <1>4 DEF IInv, PlaceInv, Checked, CheckedToReplace, CheckedToRestore, Composed
<1> QED BY <1>5, <1>6, <1>7, <1>8 DEF IInv, DiskInv, PlaceInv

LEMMA ReplaceRegistryStep == ASSUME IInv, ReplaceRegistry PROVE IInv'
<1>1. PICK t \in journal : baseline' = t.newBaseline
  BY DEF ReplaceRegistry
<1>2. /\ pc = "write" /\ left = {} /\ pc' = "load"
      /\ UNCHANGED <<file, journal, binding, incoming, late, astray>>
  BY DEF ReplaceRegistry, Goto, history
<1>3. Composed(t) /\ \A u \in journal : u = t
  BY <1>1 DEF IInv, DiskInv, TypeOK, OneJournal
<1>4. TypeOK' /\ OneJournal'
  BY <1>1, <1>2, <1>3 DEF IInv, DiskInv, TypeOK, OneJournal, Composed
<1>5. OldMatches' /\ EveryFileOldOrNew' /\ BaselineOldOrNew' /\ MatchingUnjournalled'
  BY <1>1, <1>2, <1>3 DEF IInv, DiskInv, OldMatches, EveryFileOldOrNew, BaselineOldOrNew,
     MatchingUnjournalled, Is
(* Every file is replaced: the tree matches the new baseline.              *)
<1>6. ASSUME ~astray, NEW f \in Files PROVE Is(f, t.newBaseline[f])
  <2>1. CASE f \in DOMAIN t.old
    BY <1>1, <1>2, <1>3, <2>1 DEF IInv, PlaceInv, Replaced, Composed
  <2>2. CASE f \notin DOMAIN t.old
    BY <1>1, <1>6, <2>2 DEF IInv, DiskInv, OldMatches
  <2> QED BY <2>1, <2>2
<1>7. Replaced'
  BY <1>1, <1>2, <1>6 DEF Replaced, Matching, Is
<1> QED BY <1>2, <1>4, <1>5, <1>7 DEF IInv, DiskInv, PlaceInv, LeftToReplace, PutBack, Finished,
                                      Checked, CheckedToReplace, CheckedToRestore

LEMMA UnlinkJournalStep == ASSUME IInv, UnlinkJournal PROVE IInv'
<1>1. /\ pc = "unlink" /\ pc' = "idle" /\ journal' = {} /\ incoming' = {}
      /\ UNCHANGED <<file, baseline, binding, late, astray>>
  BY DEF UnlinkJournal, Quit, history
<1>2. TypeOK' /\ OneJournal'
  BY <1>1 DEF IInv, DiskInv, TypeOK, OneJournal
<1>3. MatchingUnjournalled'
  BY <1>1 DEF IInv, PlaceInv, Finished, MatchingUnjournalled, Matching, Is
<1> QED BY <1>1, <1>2, <1>3, NothingClaimed DEF IInv, DiskInv, OldMatches, EveryFileOldOrNew,
                                                BaselineOldOrNew

LEMMA RestoreRegistryStep == ASSUME IInv, RestoreRegistry PROVE IInv'
<1>1. PICK t \in journal : baseline' = t.oldBaseline
  BY DEF RestoreRegistry
<1>2. /\ pc = "restore" /\ pc' = "restore files"
      /\ UNCHANGED <<file, journal, binding, incoming, left, late, astray>>
  BY DEF RestoreRegistry, Goto, history
<1>3. Composed(t) /\ \A u \in journal : u = t
  BY <1>1 DEF IInv, DiskInv, TypeOK, OneJournal
<1>4. TypeOK' /\ OneJournal'
  BY <1>1, <1>2, <1>3 DEF IInv, DiskInv, TypeOK, OneJournal, Composed
<1>5. OldMatches' /\ EveryFileOldOrNew' /\ BaselineOldOrNew' /\ MatchingUnjournalled'
  BY <1>1, <1>2, <1>3 DEF IInv, DiskInv, OldMatches, EveryFileOldOrNew, BaselineOldOrNew,
     MatchingUnjournalled, Is
<1>6. LeftToReplace' /\ PutBack' /\ CheckedToRestore'
  BY <1>1, <1>2, <1>3 DEF IInv, PlaceInv, LeftToReplace, PutBack, CheckedToRestore, Is
<1> QED BY <1>2, <1>4, <1>5, <1>6 DEF IInv, DiskInv, PlaceInv, Replaced, Finished, Checked,
                                      CheckedToReplace

LEMMA RestoreFileStep == ASSUME IInv, RestoreFile PROVE IInv'
<1>1. PICK t \in journal, f \in left :
         file' = [file EXCEPT ![f] = t.old[f]] /\ left' = left \ {f}
  BY DEF RestoreFile
<1>2. /\ pc = "restore files" /\ pc' = "restore files"
      /\ UNCHANGED <<baseline, journal, binding, incoming, late, astray>>
  BY DEF RestoreFile, history
<1>3. /\ Composed(t) /\ f \in DOMAIN t.old /\ \A u \in journal : u = t
      /\ file \in Trees /\ left \subseteq DOMAIN t.old
  BY <1>1, <1>2 DEF IInv, DiskInv, PlaceInv, TypeOK, OneJournal, LeftToReplace
<1>4. f \in Files /\ file'[f] = t.old[f] /\ \A g \in Files \ {f} : file'[g] = file[g]
  BY <1>1, <1>3 DEF Trees, Composed
<1>5. TypeOK' /\ OneJournal'
  BY <1>1, <1>2, <1>3 DEF IInv, DiskInv, TypeOK, OneJournal, Composed, Trees
<1>6. OldMatches' /\ EveryFileOldOrNew' /\ BaselineOldOrNew' /\ MatchingUnjournalled'
  <2>1. OldMatches'
    BY <1>1, <1>2, <1>3, <1>4 DEF IInv, DiskInv, OldMatches, Is
  <2>2. EveryFileOldOrNew' /\ BaselineOldOrNew' /\ MatchingUnjournalled'
    BY <1>1, <1>2, <1>3, <1>4 DEF IInv, DiskInv, EveryFileOldOrNew, BaselineOldOrNew,
       MatchingUnjournalled, Is, Composed
  <2> QED BY <2>1, <2>2
<1>7. LeftToReplace' /\ Replaced' /\ PutBack' /\ Finished'
  BY <1>1, <1>2, <1>3, <1>4 DEF IInv, PlaceInv, LeftToReplace, Replaced, PutBack, Finished, Is,
     Composed
<1>8. Checked' /\ CheckedToReplace' /\ CheckedToRestore'
  BY <1>1, <1>2, <1>3, <1>4 DEF IInv, PlaceInv, Checked, CheckedToReplace, CheckedToRestore, Composed
<1> QED BY <1>5, <1>6, <1>7, <1>8 DEF IInv, DiskInv, PlaceInv

(* The user's edit is the user's content, and it comes late.               *)
LEMMA EditStep == ASSUME IInv, NEW f \in Files, NEW c \in Own, Edit(f, c) PROVE IInv'
<1>1. /\ file' = [file EXCEPT ![f] = c] /\ late' = late \cup {f}
      /\ UNCHANGED <<baseline, journal, binding, pc, incoming, left, astray>>
  BY DEF Edit, memory
<1>2. file \in Trees /\ c \in Contents
  BY DEF IInv, DiskInv, TypeOK, Contents
<1>3. file' \in Trees /\ file'[f] \in Own /\ \A g \in Files \ {f} : file'[g] = file[g]
  BY <1>1, <1>2 DEF Trees
<1>4. TypeOK' /\ OneJournal'
  BY <1>1, <1>3 DEF IInv, DiskInv, TypeOK, OneJournal
<1>5. OldMatches' /\ EveryFileOldOrNew' /\ BaselineOldOrNew' /\ MatchingUnjournalled'
  BY <1>1, <1>3 DEF IInv, DiskInv, TypeOK, Composed, OldMatches, EveryFileOldOrNew,
     BaselineOldOrNew, MatchingUnjournalled, Matching, Is
<1>6. LeftToReplace' /\ Replaced' /\ PutBack' /\ Finished'
  <2>1. LeftToReplace' /\ Finished'
    BY <1>1, <1>3 DEF IInv, PlaceInv, LeftToReplace, Finished, Matching, Is
  <2>2. \A t \in journal : \A g \in DOMAIN t.old : g \in Files
    BY DEF IInv, DiskInv, TypeOK, Composed
  <2>3. Replaced'
    BY <1>1, <1>3, <2>2 DEF IInv, PlaceInv, Replaced, Matching, Is
  <2>4. PutBack'
    BY <1>1, <1>3, <2>2 DEF IInv, PlaceInv, PutBack, Is
  <2> QED BY <2>1, <2>3, <2>4
<1>7. Checked' /\ CheckedToReplace' /\ CheckedToRestore'
  <2>1. Checked'
    BY <1>1, <1>3, RevisionContents DEF IInv, DiskInv, TypeOK, PlaceInv, Checked, Permitted
  <2>2. CheckedToReplace' /\ CheckedToRestore'
    BY <1>1, <1>3 DEF IInv, DiskInv, TypeOK, Composed, PlaceInv, LeftToReplace, CheckedToReplace,
       CheckedToRestore
  <2> QED BY <2>1, <2>2
<1> QED BY <1>4, <1>5, <1>6, <1>7 DEF IInv, DiskInv, PlaceInv

-----------------------------------------------------------------------------
LEMMA InitIInv == Init => IInv
<1> SUFFICES ASSUME Init PROVE IInv
  OBVIOUS
<1>1. DiskInv
  BY DEF Init, DiskInv, TypeOK, OneJournal, OldMatches, EveryFileOldOrNew, BaselineOldOrNew,
         MatchingUnjournalled, Matching, Is, Contents, Trees
<1>2. PlaceInv
  BY DEF Init, PlaceInv, LeftToReplace, Replaced, PutBack, Finished, Checked, CheckedToReplace,
         CheckedToRestore
<1> QED BY <1>1, <1>2 DEF IInv

LEMMA StepIInv == IInv /\ [Next]_vars => IInv'
<1> SUFFICES ASSUME IInv, [Next]_vars PROVE IInv'
  OBVIOUS
<1>1. CASE Next
  BY <1>1, BindReadStep, BindWriteStep, ApplyStep, QuitStep, WriteJournalStep, ReplaceFileStep,
     ReplaceRegistryStep, LoadCheckStep, UnlinkJournalStep, CheckEntriesStep, RestoreRegistryStep,
     RestoreFileStep, RestoredStep, EditStep DEF Next, Advance
<1>2. CASE UNCHANGED vars
  <2>1. DiskInv'
    BY <1>2, DiskUntouched DEF vars, memory, history, IInv, DiskInv, TypeOK
  <2>2. LeftToReplace' /\ Replaced' /\ PutBack' /\ Finished'
    BY <1>2 DEF vars, disk, memory, history, IInv, PlaceInv, LeftToReplace, Replaced, PutBack,
                Finished, Matching, Is
  <2>3. Checked' /\ CheckedToReplace' /\ CheckedToRestore'
    BY <1>2 DEF vars, disk, memory, history, IInv, PlaceInv, Checked, CheckedToReplace,
                CheckedToRestore, Permitted
  <2> QED BY <2>1, <2>2, <2>3 DEF IInv, PlaceInv
<1> QED BY <1>1, <1>2

(* The inductive invariant holds of every reachable state.                 *)
THEOREM Inductive == Spec => []IInv
BY InitIInv, StepIInv, PTL DEF Spec

(* Without a pending journal every file is as the binding's baseline says, *)
(* or the user edited it: an apply leaves the files of one revision, or    *)
(* those before it, whatever crashed or failed (apply, _recover_locked).   *)
THEOREM BaselineMatchesFilesHolds == Spec => []BaselineMatchesFiles
<1>1. IInv => BaselineMatchesFiles
  BY DEF IInv, DiskInv, MatchingUnjournalled, Matching, Is, BaselineMatchesFiles
<1> QED BY <1>1, Inductive, PTL

(* Recovery accepts every state that crashes and failing steps of an apply *)
(* and of itself leave behind (the checks of _recover_locked).             *)
THEOREM RecoveryAcceptsHolds == Spec => []RecoveryAccepts
<1>1. IInv => RecoveryAccepts
  BY DEF IInv, DiskInv, EveryFileOldOrNew, BaselineOldOrNew, Is, OwnWork, RecoveryAccepts
<1> QED BY <1>1, Inductive, PTL

(* A step replaces the user's content only if the binding expects it, or   *)
(* it came after the check of the files (apply's refusal of local edits).  *)
THEOREM LocalEditsKeptHolds == Spec => LocalEditsKept
<1>1. IInv /\ [Next]_vars =>
        [\A f \in Files :
            file[f] \in Own /\ file'[f] \notin Own
                => f \in late \/ file[f] = baseline[f] \/ \E t \in journal : file[f] = t.oldBaseline[f]]_vars
  <2> SUFFICES ASSUME IInv, Next, NEW f \in Files, file[f] \in Own, file'[f] \notin Own
               PROVE  f \in late \/ \E t \in journal : file[f] = t.oldBaseline[f]
    OBVIOUS
  <2>1. file \in Trees /\ \A t \in journal : Composed(t)
    BY DEF IInv, DiskInv, TypeOK
  <2>2. ReplaceFile \/ RestoreFile
    BY <2>1 DEF Next, Advance, BindRead, BindWrite, Apply, BeginRecover, Fail, Crash, Edit, Unfinished,
       NothingChanged, WriteJournal, ReplaceRegistry, LoadCheck, UnlinkJournal, CheckEntries,
       RestoreRegistry, Restored, disk, Trees
  <2>3. f \in left
    BY <2>1, <2>2 DEF ReplaceFile, RestoreFile, Trees
  <2>4. CASE ReplaceFile
    BY <2>3, <2>4 DEF ReplaceFile, IInv, PlaceInv, CheckedToReplace
  <2>5. CASE RestoreFile
    BY <2>3, <2>5 DEF RestoreFile, IInv, PlaceInv, CheckedToRestore
  <2> QED BY <2>2, <2>4, <2>5
<1> QED BY <1>1, Inductive, PTL DEF Spec, LocalEditsKept
=============================================================================
