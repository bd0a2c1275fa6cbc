------------------------------- MODULE Backup -------------------------------
(***************************************************************************)
(* core/backup.py and the backup phase of core/live.py, over the parts of  *)
(* the archive whose order matters to a copy: the native bridge, the       *)
(* session collector and the exchange go on while a snapshot is taken.     *)
(* A snapshot is copied file by file under the archive's lock, which the   *)
(* cursors of the collector and of the exchange are written without.  It   *)
(* may be restored to a fresh place, where everything goes on from it,     *)
(* while the native files, the session and the peer are further on.        *)
(***************************************************************************)
EXTENDS Rounds, Sequences, FiniteSetsExt

CONSTANTS
    Source, Bad, Lines, Convs, Internal, Events,
    Keep,       (* retention                                               *)
    Loads       (* bound: what may happen in one behaviour                 *)

ASSUME KeepAssumption == Keep \in Nat \ {0}
ASSUME LinesAssumption ==
    /\ Len(Lines) \in Nat /\ DOMAIN Lines = 1..Len(Lines)
    /\ \A k \in DOMAIN Lines : Lines[k].conv \in Convs /\ Lines[k].kind \in Kinds

VARIABLES
    size, log, rounds, excluded, evidence, saved, bridge, captured, checkpoint,
    produced, replica, peerCursor, receiving,
    lock,
    backup,     (* what the tick is doing: [at, generation, copy]          *)
    kept,       (* the completed snapshots, oldest first                   *)
    debt,       (* live-status.json: {} or {backed_up_generation}          *)
    load        (* what may still happen                                   *)

bridgeVars == <<size, log, rounds, excluded, evidence, saved, bridge, captured, checkpoint>>
exchangeVars == <<produced, replica, peerCursor, receiving>>
backupVars == <<backup, kept, debt>>
vars == <<bridgeVars, exchangeVars, lock, backupVars, load>>

Bridge == INSTANCE NativeBridge
Peer == INSTANCE Exchange

ASSUME SourceAssumption ==
    /\ Source \in Seq(Seq(Bridge!Blocks))
    /\ \A b \in Bridge!Blocks \ {Bad} :
           b.msg.conv \in Convs /\ b.msg.kind \in Kinds /\ b.round \in Nat
NoBackup == [at |-> "idle", generation |-> 0, copy |-> <<>>]

Init ==
    /\ Bridge!Init /\ Peer!Init
    /\ backup = NoBackup /\ kept = <<>> /\ debt = {}
    /\ load \in Loads

-----------------------------------------------------------------------------
(* The components, as far as this behaviour's load lets them.              *)

Spend(kind) == load[kind] > 0 /\ load' = [load EXCEPT ![kind] = @ - 1]

BridgeActs ==
    /\ \/ \E f \in DOMAIN Source :
              Bridge!Write(f) /\ (IF Bridge!Torn(f) THEN UNCHANGED load ELSE Spend("blocks"))
       \/ Bridge!Capture /\ Spend("captured")
       \/ Bridge!BridgeDies /\ Spend("crash")
       \/ Bridge!CollectorDies /\ Spend("crash")
       \/ (Bridge!BridgeStep \/ Bridge!SaveCheckpoint) /\ UNCHANGED load
    /\ UNCHANGED <<exchangeVars, backupVars>>

ExchangeActs ==
    /\ \/ Peer!Produce /\ Spend("produced")
       \/ Peer!ReceiverDies /\ Spend("crash")
       \/ (Peer!ImportPage \/ Peer!SaveCursor
              \/ \E page \in Peer!Exported : Peer!BeginReceive(page)) /\ UNCHANGED load
    /\ UNCHANGED <<bridgeVars, backupVars>>

-----------------------------------------------------------------------------
(* The tick compares generations before it waits for the archive's lock;   *)
(* load.backup is "backup" of its configuration.                           *)

Only == UNCHANGED <<bridgeVars, exchangeVars, load>>

NoticeDebt ==
    /\ Only /\ backup.at = "idle" /\ load.backup
    /\ debt # {Len(log)}
    /\ backup' = [NoBackup EXCEPT !.at = "wait", !.generation = Len(log)]
    /\ UNCHANGED <<lock, kept, debt>>

(* LockNothing and PruneAtGenerationOfNow are variants with a mistake, for *)
(* trying the properties.                                                  *)
LockNothing ==
    /\ Only /\ backup.at = "wait"
    /\ backup' = [backup EXCEPT !.at = "index"]
    /\ UNCHANGED <<lock, kept, debt>>

LockArchive ==
    /\ Only /\ backup.at = "wait"
    /\ lock = "free" /\ lock' = "backup"
    /\ backup' = [backup EXCEPT !.at = "index"]
    /\ UNCHANGED <<kept, debt>>

CopyIndex ==
    /\ Only /\ backup.at = "index"
    /\ backup' = [backup EXCEPT !.at = "cursor", !.copy = [log |-> log, rounds |-> rounds]]
    /\ UNCHANGED <<lock, kept, debt>>

(* The exchange's cursor and the exclusions.                               *)
CopyCursor ==
    /\ Only /\ backup.at = "cursor"
    /\ backup' = [backup EXCEPT !.at = "directories",
           !.copy = [log |-> @.log, rounds |-> @.rounds,
                     peerCursor |-> peerCursor, excluded |-> excluded]]
    /\ UNCHANGED <<lock, kept, debt>>

(* replicas, collectors, legacy, native-bridge; then the lock is released. *)
CopyDirectories ==
    /\ Only /\ backup.at = "directories"
    /\ backup' = [backup EXCEPT !.at = "publish",
           !.copy = [log |-> @.log, rounds |-> @.rounds,
                     peerCursor |-> @.peerCursor, excluded |-> @.excluded,
                     replica |-> replica, checkpoint |-> checkpoint,
                     evidence |-> evidence, saved |-> saved]]
    /\ lock' = "free"
    /\ UNCHANGED <<kept, debt>>

(* The temporary directory gets its final name ...                         *)
Publish ==
    /\ Only /\ backup.at = "publish"
    /\ kept' = Append(kept, backup.copy)
    /\ backup' = [backup EXCEPT !.at = "prune"]
    /\ UNCHANGED <<lock, debt>>

Newest == kept[Len(kept)]

(* ... and older ones beyond the retention are removed; the tick takes     *)
(* down the generation that it had compared.                               *)
PruneAtGenerationOfNow ==
    /\ Only /\ backup.at = "prune"
    /\ kept' = SubSeq(kept, Max({1, Len(kept) - Keep + 1}), Len(kept))
    /\ debt' = {Len(log)}
    /\ backup' = NoBackup
    /\ UNCHANGED lock

Prune ==
    /\ Only /\ backup.at = "prune"
    /\ kept' = SubSeq(kept, Max({1, Len(kept) - Keep + 1}), Len(kept))
    /\ debt' = {backup.generation}
    /\ backup' = NoBackup
    /\ UNCHANGED lock

BackupDies ==
    /\ backup.at # "idle" /\ Spend("crash")
    /\ backup' = NoBackup
    /\ lock' = IF lock = "backup" THEN "free" ELSE lock
    /\ UNCHANGED <<bridgeVars, exchangeVars, kept, debt>>

(* restore() to a fresh place; the processes of the old place are gone,    *)
(* and live-status.json is not part of a snapshot.                         *)
Restore ==
    /\ Spend("restore")
    /\ \E i \in DOMAIN kept :
        LET s == kept[i]
        IN  /\ log' = s.log /\ rounds' = s.rounds /\ excluded' = s.excluded
            /\ evidence' = s.evidence /\ saved' = s.saved
            /\ checkpoint' = s.checkpoint /\ captured' = s.checkpoint
            /\ replica' = s.replica /\ peerCursor' = s.peerCursor
    /\ bridge' = Bridge!NoRun /\ receiving' = {} /\ backup' = NoBackup
    /\ lock' = "free" /\ debt' = {}
    /\ UNCHANGED <<size, produced, kept>>

-----------------------------------------------------------------------------

Copying == CopyIndex \/ CopyCursor \/ CopyDirectories \/ Publish \/ Prune

Next ==
    \/ BridgeActs \/ ExchangeActs
    \/ NoticeDebt \/ LockArchive \/ Copying \/ BackupDies \/ Restore

Spec == Init /\ [][Next]_vars

(* The scheduler runs the bridge, the collector and the tick again and     *)
(* again; the older collector completes the block that it has begun.  The  *)
(* lock is tried many times a second, and a bridge whose every run ends at *)
(* a broken block leaves it free in between.                               *)
Fairness ==
    /\ WF_vars(Bridge!BridgeStep /\ UNCHANGED <<exchangeVars, backupVars, load>>)
    /\ WF_vars(NoticeDebt) /\ SF_vars(LockArchive) /\ WF_vars(Copying)
    /\ \A f \in DOMAIN Source :
        WF_vars(Bridge!Torn(f) /\ Bridge!Write(f)
                  /\ UNCHANGED <<exchangeVars, backupVars, load>>)

FairSpec == Spec /\ Fairness

-----------------------------------------------------------------------------

Live == [log |-> log, excluded |-> excluded, evidence |-> evidence, saved |-> saved,
         checkpoint |-> checkpoint, replica |-> replica, peerCursor |-> peerCursor]

Covered(a) ==
    /\ \A f \in DOMAIN Source : \A k \in 1..a.saved[f].offset :
           Bridge!Accounted(Source[f][k], a.log, a.excluded, a.evidence)
    /\ \A k \in 1..a.checkpoint :
           \E i \in DOMAIN a.log : a.log[i].msg = Lines[k] /\ ~a.log[i].version
    /\ 1..a.peerCursor \subseteq a.replica.records

(* No cursor is ahead of what it stands for, neither in the archive nor in *)
(* any snapshot, although a snapshot is copied in pieces while cursors are *)
(* written, and a process may be killed between a step and its cursor.     *)
(* What a cursor passed is not read again: it would be lost.               *)
CursorsCovered == Covered(Live) /\ \A i \in DOMAIN kept : Covered(kept[i])

(* The next round that append_message opens is a new one, whatever numbers *)
(* were imported or restored: no record of the conversation has it.        *)
RoundsFresh == \A i \in DOMAIN log : log[i].round < rounds[log[i].msg.conv].next

(* The page that starts behind the receiver's cursor is always taken, also *)
(* after a crash or a restore: a page that is refused once is refused for  *)
(* good, and nothing after it can be taken.                                *)
NextPageAccepted ==
    \A page \in Peer!Exported : page.from = peerCursor + 1 => Peer!Acceptable(page)

(* Every block of the native files is in the archive in the end, or known  *)
(* as internal; unless an earlier block is broken, which ends every run.   *)
EveryBlockImported ==
    \A f \in DOMAIN Source : \A k \in {n \in DOMAIN Source[f] : Source[f][n] # Bad} :
        size[f] >= 2 * k ~> Bridge!Accounted(Source[f][k], log, excluded, evidence)

(* Where a backup is configured, what is archived is in the newest         *)
(* snapshot in the end, however appends and backups overlap.               *)
DebtIsPaid == load.backup => []<>(kept # <<>> /\ Newest.log = log)

=============================================================================
