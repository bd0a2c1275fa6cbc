---------------------------- MODULE ArchiveStore ----------------------------
(***************************************************************************)
(* core/archive.py, class ArchiveStore: several processes append to one    *)
(* archive.  A raw record goes to a file per conversation and to a row of  *)
(* index.sqlite; the file pending-append.json makes the two agree again    *)
(* after an interruption.  A process may be interrupted between any two    *)
(* writes, and inside the raw write: a record reaches its file in Chunks   *)
(* pieces.  An interruption releases the process lock and leaves the files *)
(* as they are.                                                            *)
(***************************************************************************)
EXTENDS Rounds, Sequences, FiniteSetsExt

CONSTANTS
    Writers,            (* processes that open the archive                 *)
    Convs,
    Messages,           (* what callers may append: [id, conv, kind, body] *)
    Chunks,             (* pieces in which a raw record reaches its file   *)
    MaxInterruptions    (* bound on crashes and failed writes              *)

ASSUME ChunksAssumption == Chunks \in Nat \ {0}

ASSUME MessagesAssumption ==
    \A m \in Messages : m.conv \in Convs /\ m.kind \in Kinds

ASSUME InterruptionsAssumption == MaxInterruptions \in Nat

VARIABLES
    journal,        (* pending-append.json: {} or {[record, offset, rounds]} *)
    raw,            (* raw/<conversation>.jsonl, as pieces [record, part]  *)
    table,          (* SQLite "messages": rows [record, offset]            *)
    rounds,         (* SQLite "rounds"                                     *)
    pc,             (* where each process is                               *)
    job,            (* {} or {m}: the message a process is appending       *)
    returned,       (* messages whose append returned to the caller        *)
    interruptions

files == <<journal, raw, table, rounds>>
vars == <<files, pc, job, returned, interruptions>>

Log == INSTANCE AppendLog WITH log <- [i \in DOMAIN table |-> table[i].record]

Record(m, sequence) == Log!Entry(m, sequence, rounds[m.conv])

Rows == {table[i] : i \in DOMAIN table}

Init ==
    /\ journal = {}
    /\ raw = [c \in Convs |-> <<>>]
    /\ table = <<>>
    /\ rounds = [c \in Convs |-> FreshCounters]
    /\ pc = [w \in Writers |-> "closed"]
    /\ job = [w \in Writers |-> {}]
    /\ returned = {}
    /\ interruptions = 0

-----------------------------------------------------------------------------
(* The lock .archive.lock is held by the process that is inside one of its *)
(* sections: recover() of the constructor, or append_message.              *)

Holding(w) == pc[w] \in {"recover", "decide", "commit"}

LockFree == \A w \in Writers : ~Holding(w)

(* The constructor opens the index and calls recover().                    *)
Open(w) ==
    /\ pc[w] = "closed"
    /\ LockFree
    /\ pc' = [pc EXCEPT ![w] = "recover"]
    /\ UNCHANGED <<files, job, returned, interruptions>>

OpenDone(w) ==
    /\ pc[w] = "recover"
    /\ job[w] = {}
    /\ journal = {}
    /\ pc' = [pc EXCEPT ![w] = "idle"]
    /\ UNCHANGED <<files, job, returned, interruptions>>

Close(w) ==
    /\ pc[w] = "idle"
    /\ pc' = [pc EXCEPT ![w] = "closed"]
    /\ UNCHANGED <<files, job, returned, interruptions>>

-----------------------------------------------------------------------------
(* _recover: finish the append that the journal holds.                     *)

Recovering(w) == pc[w] \in {"recover", "commit"}

Conv(p) == p.record.msg.conv

Piece(record, k) == [record |-> record, part |-> k]

(* The pieces of the record that its file already has.                     *)
Written(p) == Len(raw[Conv(p)]) - p.offset

(* _recover raises unless the file ends inside the pending record ...      *)
PositionUnchanged(p) ==
    /\ p.offset <= Len(raw[Conv(p)])
    /\ Len(raw[Conv(p)]) <= p.offset + Chunks

(* ... with a prefix of that record ...                                    *)
PrefixMatches(p) ==
    \A k \in 1..Chunks :
        p.offset + k \in DOMAIN raw[Conv(p)]
            => raw[Conv(p)][p.offset + k] = Piece(p.record, k)

(* ... and unless the row of that ID, if there is one, is the same record. *)
NoIdConflict(p) ==
    \A row \in Rows : row.record.msg.id = p.record.msg.id => row.record = p.record

(* Variants, each named for the mistake it makes, stand before the         *)
(* definition they replace when the properties are tried against them.     *)

RecoverRawTruncating(w) ==
    /\ Recovering(w)
    /\ \E p \in journal :
        /\ PositionUnchanged(p) /\ PrefixMatches(p)
        /\ Written(p) < Chunks
        /\ raw' = [raw EXCEPT ![Conv(p)] =
                SubSeq(@, 1, p.offset)
                    \o (IF Written(p) = 0 THEN <<Piece(p.record, 1)>> ELSE <<>>)]
    /\ UNCHANGED <<journal, table, rounds, pc, job, returned, interruptions>>

RecoverRawFromStart(w) ==
    /\ Recovering(w)
    /\ \E p \in journal :
        /\ PositionUnchanged(p) /\ PrefixMatches(p)
        /\ Written(p) < Chunks
        /\ raw' = [raw EXCEPT ![Conv(p)] = Append(@, Piece(p.record, 1))]
    /\ UNCHANGED <<journal, table, rounds, pc, job, returned, interruptions>>

RecoverRaw(w) ==
    /\ Recovering(w)
    /\ \E p \in journal :
        /\ PositionUnchanged(p) /\ PrefixMatches(p)
        /\ Written(p) < Chunks
        /\ raw' = [raw EXCEPT ![Conv(p)] = Append(@, Piece(p.record, Written(p) + 1))]
    /\ UNCHANGED <<journal, table, rounds, pc, job, returned, interruptions>>

Indexed(id) == \E row \in Rows : row.record.msg.id = id

RecoverIndexOfTornRaw(w) ==
    /\ Recovering(w)
    /\ \E p \in journal :
        /\ ~Indexed(p.record.msg.id)
        /\ table' = Append(table, [record |-> p.record, offset |-> p.offset])
        /\ rounds' = [rounds EXCEPT ![Conv(p)] = p.rounds]
    /\ UNCHANGED <<journal, raw, pc, job, returned, interruptions>>

RecoverIndexWithoutRounds(w) ==
    /\ Recovering(w)
    /\ \E p \in journal :
        /\ Written(p) = Chunks
        /\ ~Indexed(p.record.msg.id)
        /\ table' = Append(table, [record |-> p.record, offset |-> p.offset])
    /\ UNCHANGED <<journal, raw, rounds, pc, job, returned, interruptions>>

(* One SQLite transaction: the row and the round counters.                 *)
RecoverIndex(w) ==
    /\ Recovering(w)
    /\ \E p \in journal :
        /\ PositionUnchanged(p) /\ PrefixMatches(p)
        /\ Written(p) = Chunks
        /\ ~Indexed(p.record.msg.id)
        /\ table' = Append(table, [record |-> p.record, offset |-> p.offset])
        /\ rounds' = [rounds EXCEPT ![Conv(p)] = p.rounds]
    /\ UNCHANGED <<journal, raw, pc, job, returned, interruptions>>

RecoverUnlink(w) ==
    /\ Recovering(w)
    /\ \E p \in journal :
        /\ PositionUnchanged(p) /\ PrefixMatches(p) /\ NoIdConflict(p)
        /\ Written(p) = Chunks
        /\ Indexed(p.record.msg.id)
    /\ journal' = {}
    /\ UNCHANGED <<raw, table, rounds, pc, job, returned, interruptions>>

-----------------------------------------------------------------------------
(* append_message, under the lock: recover, look the ID up, journal the    *)
(* new record, recover again to commit it.                                 *)

BeginAppend(w, m) ==
    /\ pc[w] = "idle"
    /\ LockFree
    /\ pc' = [pc EXCEPT ![w] = "recover"]
    /\ job' = [job EXCEPT ![w] = {m}]
    /\ UNCHANGED <<files, returned, interruptions>>

RecoveredUnchecked(w) ==
    /\ pc[w] = "recover"
    /\ job[w] # {}
    /\ pc' = [pc EXCEPT ![w] = "decide"]
    /\ UNCHANGED <<files, job, returned, interruptions>>

Recovered(w) ==
    /\ pc[w] = "recover"
    /\ job[w] # {}
    /\ journal = {}
    /\ pc' = [pc EXCEPT ![w] = "decide"]
    /\ UNCHANGED <<files, job, returned, interruptions>>

EndAppend(w) ==
    /\ pc' = [pc EXCEPT ![w] = "idle"]
    /\ job' = [job EXCEPT ![w] = {}]
    /\ UNCHANGED <<files, interruptions>>

AppendDuplicate(w, m) ==
    /\ pc[w] = "decide" /\ job[w] = {m}
    /\ \E row \in Rows : row.record.msg = m
    /\ returned' = returned \cup {m}
    /\ EndAppend(w)

(* The same ID with other content raises.                                  *)
AppendConflict(w, m) ==
    /\ pc[w] = "decide" /\ job[w] = {m}
    /\ \E row \in Rows : row.record.msg.id = m.id /\ row.record.msg # m
    /\ EndAppend(w)
    /\ UNCHANGED returned

NextSequenceFromZero == Max({0} \cup {row.record.sequence : row \in Rows})

(* SELECT COALESCE(MAX(sequence),0)+1 FROM messages                        *)
NextSequence == Max({0} \cup {row.record.sequence : row \in Rows}) + 1

AppendJournal(w, m) ==
    /\ pc[w] = "decide" /\ job[w] = {m}
    /\ ~Indexed(m.id)
    /\ journal' = {[record |-> Record(m, NextSequence),
                    offset |-> Len(raw[m.conv]),
                    rounds |-> CountersAfter(m.kind, rounds[m.conv])]}
    /\ pc' = [pc EXCEPT ![w] = "commit"]
    /\ UNCHANGED <<raw, table, rounds, job, returned, interruptions>>

AppendReturnBeforeCommit(w, m) ==
    /\ pc[w] = "commit" /\ job[w] = {m}
    /\ returned' = returned \cup {m}
    /\ EndAppend(w)

AppendReturn(w, m) ==
    /\ pc[w] = "commit" /\ job[w] = {m}
    /\ journal = {}
    /\ returned' = returned \cup {m}
    /\ EndAppend(w)

-----------------------------------------------------------------------------

(* The process dies, or a write of it fails and the exception leaves the   *)
(* locked section; one that fails in the constructor leaves no archive.    *)
Interrupt(w) ==
    /\ Holding(w)
    /\ interruptions < MaxInterruptions
    /\ interruptions' = interruptions + 1
    /\ \E place \in {"closed", "idle"} :
        /\ place = "idle" => job[w] # {}
        /\ pc' = [pc EXCEPT ![w] = place]
    /\ job' = [job EXCEPT ![w] = {}]
    /\ UNCHANGED <<files, returned>>

Advance(w) ==
    \/ OpenDone(w) \/ RecoverRaw(w) \/ RecoverIndex(w) \/ RecoverUnlink(w)
    \/ Recovered(w)
    \/ \E m \in Messages : \/ AppendDuplicate(w, m) \/ AppendConflict(w, m)
                           \/ AppendJournal(w, m) \/ AppendReturn(w, m)

Next ==
    \E w \in Writers :
        \/ Open(w) \/ Close(w) \/ Interrupt(w) \/ Advance(w)
        \/ \E m \in Messages : BeginAppend(w, m)

(* A process inside the lock runs on; commands are short-lived processes   *)
(* that the scheduler starts again and again.                              *)
Fairness ==
    \A w \in Writers : WF_vars(Advance(w)) /\ WF_vars(Open(w)) /\ WF_vars(Close(w))

Spec == Init /\ [][Next]_vars

FairSpec == Spec /\ Fairness

-----------------------------------------------------------------------------

Journals == [record : Log!Entries, offset : Nat, rounds : Counters]
Pieces == [record : Log!Entries, part : 1..Chunks]
TableRows == [record : Log!Entries, offset : Nat]

TypeOK ==
    /\ journal \in SUBSET Journals
    /\ raw \in [Convs -> Seq(Pieces)]
    /\ table \in Seq(TableRows)
    /\ rounds \in [Convs -> Counters]
    /\ pc \in [Writers -> {"closed", "idle", "recover", "decide", "commit"}]
    /\ job \in [Writers -> SUBSET Messages]
    /\ returned \subseteq Messages
    /\ interruptions \in 0..MaxInterruptions

(* No interruption leaves files that the next _recover refuses: the three  *)
(* "raise ValueError" of _recover report damage from outside, never the    *)
(* program's own torn write.  A refusal would block every later append.    *)
RecoveryNeverRefused ==
    \A p \in journal : PositionUnchanged(p) /\ PrefixMatches(p) /\ NoIdConflict(p)

(* Whatever a row says, the raw file has: the bytes at the row's offset    *)
(* are the row's record.  Readers (records, message_by_id) take no lock,   *)
(* so this must hold in every state, also inside an append and after an    *)
(* interruption.                                                           *)
IndexMatchesRaw ==
    \A row \in Rows, k \in 1..Chunks :
        LET file == raw[row.record.msg.conv]
        IN  row.offset + k \in DOMAIN file /\ file[row.offset + k] = Piece(row.record, k)

(* With no append pending, nothing is torn: the raw files hold the indexed *)
(* records and not a byte more.                                            *)
RawFullyIndexed ==
    journal = {} =>
        \A c \in Convs :
            Len(raw[c]) = Chunks * Cardinality({i \in DOMAIN table : table[i].record.msg.conv = c})

(* An append that returned to its caller, as new or as a duplicate, is in  *)
(* the log and stays there, whatever is interrupted later.                 *)
ReturnedIsDurable == \A m \in returned : \E row \in Rows : row.record.msg = m

(* What SummaryService relies on in every state of the index: no record    *)
(* joins a completed round, rounds follow one another in the order of      *)
(* their messages, and each holds a user's message before the others.      *)
(* Torn appends, their recovery and a change of writer must not disturb    *)
(* the counters.                                                           *)
RoundsSound == Log!RoundsClosed /\ Log!RoundsMonotone /\ Log!RoundsOpenWithUser

(* A raw file is only ever extended, as _recover's refusal to "rewrite     *)
(* history" says: a reader that opened it before sees the same bytes.      *)
RawAppendOnly ==
    [][\A c \in Convs : /\ Len(raw'[c]) >= Len(raw[c])
                        /\ \A k \in DOMAIN raw[c] : raw'[c][k] = raw[c][k]]_raw

(* Whatever was journalled is committed in the end, by the process that    *)
(* wrote the journal or by the next one to open the archive or to append.  *)
JournalledIsCommitted ==
    \A m \in Messages :
        (\E p \in journal : p.record.msg = m) ~> (\E row \in Rows : row.record.msg = m)

(* The archive implements the append-only log.                             *)
LogSpec == Log!Spec

=============================================================================
