------------------------- MODULE ArchiveStoreProofs --------------------------
(***************************************************************************)
(* Proofs about ArchiveStore, for every set of processes, conversations    *)
(* and messages, every number of pieces and any number of interruptions.   *)
(*                                                                         *)
(* The inductive invariant says what the journal knows: its record is      *)
(* either already in the table or exactly the record the log would give    *)
(* its message next, and its file ends inside that record.                 *)
(***************************************************************************)
EXTENDS ArchiveStore, FiniteSetTheorems, TLAPS

(* The counters keep their type whatever their values are.                 *)
LEMMA CountersType ==
    ASSUME NEW kind \in Kinds, NEW c \in Counters
    PROVE  /\ CountersAfter(kind, c) \in Counters
           /\ RoundOf(kind, c) \in Nat
           /\ Completes(kind, c) \in BOOLEAN
BY DEF Kinds, Counters, CountersAfter, RoundOf, Completes, OpenRound, Opens, NoRound

SequencesContiguous == \A i \in DOMAIN table : table[i].record.sequence = i

IdsUnique ==
    \A i, j \in DOMAIN table : table[i].record.msg.id = table[j].record.msg.id => i = j

LockExclusive == \A v, w \in Writers : Holding(v) /\ Holding(w) => v = w

OneJournal == \A p, q \in journal : p = q

PendingPlaced == \A p \in journal : PositionUnchanged(p) /\ PrefixMatches(p)

PendingIsNext ==
    \A p \in journal :
        ~Indexed(p.record.msg.id) =>
            /\ p.record = Record(p.record.msg, Len(table) + 1)
            /\ p.rounds = CountersAfter(p.record.msg.kind, rounds[Conv(p)])

PendingOrCommitted ==
    \A p \in journal :
        Indexed(p.record.msg.id) => \E row \in Rows : row.record = p.record

(* A process that decides has no journal before it; one that commits finds *)
(* its message in the journal or in the table.                             *)
HolderKnows ==
    \A w \in Writers :
        /\ pc[w] = "decide" => journal = {}
        /\ pc[w] = "commit" =>
               \A m \in job[w] : \/ \E p \in journal : p.record.msg = m
                                 \/ \E row \in Rows : row.record.msg = m

IInv ==
    /\ TypeOK /\ SequencesContiguous /\ IdsUnique /\ LockExclusive /\ OneJournal
    /\ PendingPlaced /\ PendingIsNext /\ PendingOrCommitted /\ HolderKnows
    /\ IndexMatchesRaw /\ ReturnedIsDurable

-----------------------------------------------------------------------------
(* Facts about the operators.                                              *)

LEMMA NextIsLength ==
    ASSUME TypeOK, SequencesContiguous
    PROVE  NextSequence = Len(table) + 1
<1> DEFINE S == {0} \cup {row.record.sequence : row \in Rows}
<1>1. Len(table) \in Nat /\ DOMAIN table = 1..Len(table)
  BY DEF TypeOK
<1>2. \A n \in S : n \in Nat /\ n <= Len(table)
  BY <1>1 DEF Rows, SequencesContiguous
<1>3. Len(table) \in S
  BY <1>1 DEF Rows, SequencesContiguous
<1> HIDE DEF S
<1>4. Max(S) = Len(table)
  BY <1>1, <1>2, <1>3 DEF Max
<1> QED BY <1>4 DEF NextSequence, S

(* The log numbers rounds with the same operators.                         *)
LEMMA SameRounds ==
    ASSUME NEW kind, NEW c
    PROVE  /\ Log!RoundOf(kind, c) = RoundOf(kind, c)
           /\ Log!Completes(kind, c) = Completes(kind, c)
           /\ Log!CountersAfter(kind, c) = CountersAfter(kind, c)
           /\ Log!NoRound = NoRound
BY DEF Log!RoundOf, RoundOf, Log!Completes, Completes, Log!CountersAfter, CountersAfter,
       Log!OpenRound, OpenRound, Log!Opens, Opens, Log!NoRound, NoRound

LEMMA RecordType ==
    ASSUME TypeOK, NEW m \in Messages, NEW n \in Nat \ {0}
    PROVE  /\ Record(m, n) \in Log!Entries
           /\ Record(m, n).msg = m /\ Record(m, n).sequence = n
           /\ CountersAfter(m.kind, rounds[m.conv]) \in Counters
<1>1. m.conv \in Convs /\ m.kind \in Kinds /\ rounds[m.conv] \in Counters
  BY MessagesAssumption DEF TypeOK
<1> QED BY <1>1, CountersType, SameRounds DEF Record, Log!Entry, Log!Entries

LEMMA JournalType ==
    ASSUME TypeOK, NEW p \in journal
    PROVE  /\ p \in Journals /\ p.record \in Log!Entries /\ p.record.msg \in Messages
           /\ p.offset \in Nat /\ p.rounds \in Counters
           /\ Conv(p) \in Convs
           /\ raw[Conv(p)] \in Seq(Pieces)
           /\ Len(raw[Conv(p)]) \in Nat
<1>1. p \in Journals
  BY DEF TypeOK
<1>2. p.record \in Log!Entries /\ p.offset \in Nat /\ p.rounds \in Counters
  BY <1>1 DEF Journals
<1>3. p.record.msg \in Messages
  BY <1>2 DEF Log!Entries
<1>4. Conv(p) \in Convs
  BY <1>3, MessagesAssumption DEF Conv
<1>5. raw[Conv(p)] \in Seq(Pieces)
  BY <1>4 DEF TypeOK
<1> QED BY <1>1, <1>2, <1>3, <1>4, <1>5

LEMMA RowType ==
    ASSUME TypeOK, NEW row \in Rows
    PROVE  /\ row.record \in Log!Entries /\ row.offset \in Nat
           /\ row.record.msg \in Messages /\ row.record.msg.conv \in Convs
<1>1. PICK i \in DOMAIN table : row = table[i]
  BY DEF Rows
<1>2. row \in TableRows
  BY <1>1 DEF TypeOK
<1>3. row.record \in Log!Entries /\ row.offset \in Nat
  BY <1>2 DEF TableRows
<1>4. row.record.msg \in Messages
  BY <1>3 DEF Log!Entries
<1> QED BY <1>3, <1>4, MessagesAssumption

-----------------------------------------------------------------------------
(* Steps that write the files.                                             *)

(* Appending the next piece of the pending record.                         *)
LEMMA RecoverRawStep ==
    ASSUME IInv, NEW w \in Writers, RecoverRaw(w)
    PROVE  IInv' /\ \A c \in Convs : /\ Len(raw'[c]) >= Len(raw[c])
                                     /\ \A k \in DOMAIN raw[c] : raw'[c][k] = raw[c][k]
<1> USE DEF IInv
<1>1. PICK p \in journal :
        /\ PositionUnchanged(p) /\ PrefixMatches(p)
        /\ Written(p) < Chunks
        /\ raw' = [raw EXCEPT ![Conv(p)] = Append(@, Piece(p.record, Written(p) + 1))]
  BY DEF RecoverRaw
<1>2. UNCHANGED <<journal, table, rounds, pc, job, returned, interruptions>>
  BY DEF RecoverRaw
<1>3. /\ p.record \in Log!Entries /\ p.offset \in Nat /\ Conv(p) \in Convs
      /\ raw[Conv(p)] \in Seq(Pieces)
      /\ Len(raw[Conv(p)]) \in Nat
      /\ raw \in [Convs -> Seq(Pieces)]
  BY JournalType DEF TypeOK
<1>4. p.offset <= Len(raw[Conv(p)]) /\ Len(raw[Conv(p)]) < p.offset + Chunks
  BY <1>1, <1>3, ChunksAssumption DEF PositionUnchanged, Written
<1>5. Piece(p.record, Written(p) + 1) \in Pieces
  BY <1>1, <1>3, <1>4, ChunksAssumption DEF Piece, Written, Pieces
<1>6. raw' \in [Convs -> Seq(Pieces)]
  BY <1>1, <1>3, <1>5
<1>7. \A c \in Convs :
          /\ c # Conv(p) => raw'[c] = raw[c]
          /\ raw[c] \in Seq(Pieces)
          /\ DOMAIN raw[c] = 1..Len(raw[c]) /\ Len(raw[c]) \in Nat
  BY <1>1, <1>3
<1>8. /\ raw'[Conv(p)] = Append(raw[Conv(p)], Piece(p.record, Written(p) + 1))
      /\ Len(raw'[Conv(p)]) = Len(raw[Conv(p)]) + 1
      /\ DOMAIN raw'[Conv(p)] = 1..(Len(raw[Conv(p)]) + 1)
      /\ \A k \in DOMAIN raw[Conv(p)] : raw'[Conv(p)][k] = raw[Conv(p)][k]
      /\ raw'[Conv(p)][Len(raw[Conv(p)]) + 1] = Piece(p.record, Written(p) + 1)
  BY <1>1, <1>3, <1>5
<1>9. \A c \in Convs : /\ Len(raw'[c]) >= Len(raw[c])
                       /\ DOMAIN raw[c] \subseteq DOMAIN raw'[c]
                       /\ \A k \in DOMAIN raw[c] : raw'[c][k] = raw[c][k]
  BY <1>7, <1>8
<1>10. TypeOK'
  BY <1>2, <1>6 DEF TypeOK, Journals
<1>11. PendingPlaced'
  <2> SUFFICES PositionUnchanged(p)' /\ PrefixMatches(p)'
    BY <1>2 DEF PendingPlaced, OneJournal
  <2>1. PositionUnchanged(p)'
    BY <1>3, <1>4, <1>8, ChunksAssumption DEF PositionUnchanged, Conv
  <2>2. ASSUME NEW k \in 1..Chunks, p.offset + k \in DOMAIN raw'[Conv(p)]
        PROVE  raw'[Conv(p)][p.offset + k] = Piece(p.record, k)
    <3>1. CASE p.offset + k \in DOMAIN raw[Conv(p)]
      BY <3>1, <1>1, <1>8 DEF PrefixMatches
    <3>2. CASE p.offset + k \notin DOMAIN raw[Conv(p)]
      <4>1. p.offset + k = Len(raw[Conv(p)]) + 1
        BY <3>2, <2>2, <1>3, <1>4, <1>7, <1>8, ChunksAssumption
      <4>2. Written(p) + 1 = k
        BY <4>1, <1>3, ChunksAssumption DEF Written
      <4> QED BY <4>1, <4>2, <1>8
    <3> QED BY <3>1, <3>2
  <2>3. PrefixMatches(p)'
    BY <2>2 DEF PrefixMatches, Conv, Piece
  <2> QED BY <2>1, <2>3
<1>12. IndexMatchesRaw'
  <2>1. ASSUME NEW row \in Rows, NEW k \in 1..Chunks
        PROVE  /\ row.offset + k \in DOMAIN raw'[row.record.msg.conv]
               /\ raw'[row.record.msg.conv][row.offset + k] = Piece(row.record, k)
    <3>1. /\ row.offset + k \in DOMAIN raw[row.record.msg.conv]
          /\ raw[row.record.msg.conv][row.offset + k] = Piece(row.record, k)
      BY DEF IndexMatchesRaw
    <3> QED BY <3>1, <1>9, RowType
  <2>2. Rows' = Rows
    BY <1>2 DEF Rows
  <2> QED BY <2>1, <2>2 DEF IndexMatchesRaw, Piece
<1>13. SequencesContiguous' /\ IdsUnique' /\ LockExclusive' /\ OneJournal'
  BY <1>2 DEF SequencesContiguous, IdsUnique, LockExclusive, Holding, OneJournal
<1>14. PendingIsNext' /\ PendingOrCommitted'
  BY <1>2 DEF PendingIsNext, PendingOrCommitted, Indexed, Rows, Record, Conv
<1>15. HolderKnows' /\ ReturnedIsDurable'
  BY <1>2 DEF HolderKnows, ReturnedIsDurable, Rows
<1> QED BY <1>9, <1>10, <1>11, <1>12, <1>13, <1>14, <1>15

(* Committing the pending record to the index: the step of the log.        *)
LEMMA RecoverIndexStep ==
    ASSUME IInv, NEW w \in Writers, RecoverIndex(w)
    PROVE  /\ IInv'
           /\ UNCHANGED raw
           /\ \E p \in journal : Log!AppendMessage(p.record.msg)
<1> USE DEF IInv
<1>1. PICK p \in journal :
        /\ Written(p) = Chunks
        /\ ~Indexed(p.record.msg.id)
        /\ table' = Append(table, [record |-> p.record, offset |-> p.offset])
        /\ rounds' = [rounds EXCEPT ![Conv(p)] = p.rounds]
  BY DEF RecoverIndex
<1> DEFINE m == p.record.msg
           new == [record |-> p.record, offset |-> p.offset]
<1>2. UNCHANGED <<journal, raw, pc, job, returned, interruptions>>
  BY DEF RecoverIndex
<1>3. /\ p.record \in Log!Entries /\ m \in Messages
      /\ p.offset \in Nat /\ p.rounds \in Counters
      /\ Conv(p) \in Convs /\ Len(raw[Conv(p)]) \in Nat
      /\ raw[Conv(p)] \in Seq(Pieces)
      /\ table \in Seq(TableRows)
      /\ rounds \in [Convs -> Counters]
  BY JournalType DEF TypeOK
<1>4. new \in TableRows
  BY <1>3 DEF TableRows
<1>5. /\ Len(table) \in Nat /\ Len(table') = Len(table) + 1
      /\ DOMAIN table = 1..Len(table) /\ DOMAIN table' = 1..(Len(table) + 1)
      /\ \A i \in DOMAIN table : table'[i] = table[i]
      /\ table'[Len(table) + 1] = new
      /\ table' \in Seq(TableRows)
  BY <1>1, <1>3, <1>4
<1>6. /\ p.record = Record(m, Len(table) + 1)
      /\ p.rounds = CountersAfter(m.kind, rounds[m.conv])
  BY <1>1 DEF PendingIsNext, Conv
<1>7. p.record.sequence = Len(table) + 1
  BY <1>3, <1>5, <1>6, RecordType
<1>8. Rows' = Rows \cup {new}
  <2>1. ASSUME NEW row \in Rows' PROVE row \in Rows \cup {new}
    BY <1>5 DEF Rows
  <2>2. ASSUME NEW row \in Rows PROVE row \in Rows'
    BY <1>5 DEF Rows
  <2>3. new \in Rows'
    <3>1. Len(table) + 1 \in DOMAIN table'
      BY <1>5
    <3> QED BY <3>1, <1>5 DEF Rows
  <2> QED BY <2>1, <2>2, <2>3
<1>9. \A i \in DOMAIN table : table[i].record.msg.id # m.id
  BY <1>1 DEF Indexed, Rows
<1> HIDE DEF new
<1>10. new.record = p.record /\ new.offset = p.offset
  BY DEF new
<1>11. TypeOK'
  BY <1>1, <1>2, <1>3, <1>5 DEF TypeOK, Journals
<1>12. SequencesContiguous'
  BY <1>5, <1>7, <1>10 DEF SequencesContiguous
<1>13. IdsUnique'
  BY <1>5, <1>9, <1>10 DEF IdsUnique
<1>14. LockExclusive' /\ OneJournal' /\ PendingPlaced'
  BY <1>2 DEF LockExclusive, Holding, OneJournal, PendingPlaced, PositionUnchanged,
              PrefixMatches, Conv, Piece
<1>15. PendingIsNext' /\ PendingOrCommitted'
  <2>1. \A q \in journal' : q = p
    BY <1>2 DEF OneJournal
  <2>2. new \in Rows' /\ new.record.msg.id = m.id
    BY <1>8, <1>10
  <2>3. Indexed(m.id)'
    BY <2>2 DEF Indexed
  <2> QED BY <2>1, <2>2, <2>3, <1>10 DEF PendingIsNext, PendingOrCommitted, Indexed
<1>16. HolderKnows' /\ ReturnedIsDurable'
  BY <1>2, <1>8 DEF HolderKnows, ReturnedIsDurable
<1>17. IndexMatchesRaw'
  <2> SUFFICES ASSUME NEW row \in Rows', NEW k \in 1..Chunks
               PROVE  /\ row.offset + k \in DOMAIN raw[row.record.msg.conv]
                      /\ raw[row.record.msg.conv][row.offset + k] = Piece(row.record, k)
    BY <1>2 DEF IndexMatchesRaw, Piece
  <2>1. CASE row \in Rows
    BY <2>1 DEF IndexMatchesRaw
  <2>2. CASE row = new
    <3>1. p.offset + k \in DOMAIN raw[Conv(p)]
      BY <1>1, <1>3, ChunksAssumption DEF Written
    <3> QED BY <3>1, <2>2, <1>10 DEF PendingPlaced, PrefixMatches, Conv
  <2> QED BY <2>1, <2>2, <1>8
<1>18. Log!AppendMessage(m)
  <2> DEFINE log == [i \in DOMAIN table |-> table[i].record]
             entry == Log!Entry(m, Len(log) + 1, rounds[m.conv])
  <2>1. /\ log \in Seq(Log!Entries) /\ Len(log) = Len(table)
        /\ DOMAIN log = 1..Len(table)
    <3>1. \A i \in 1..Len(table) : table[i].record \in Log!Entries
      <4>1. \A i \in 1..Len(table) : table[i] \in TableRows
        BY <1>3, <1>5
      <4> QED BY <4>1 DEF TableRows
    <3>2. log = [i \in 1..Len(table) |-> table[i].record]
      BY <1>5
    <3>3. log \in [1..Len(table) -> Log!Entries]
      BY <3>1, <3>2
    <3>4. log \in Seq(Log!Entries)
      BY <3>3, <1>5
    <3> QED BY <3>2, <3>3, <3>4, <1>5
  <2>2. m.id \notin Log!Ids(log)
    BY <1>5, <1>9, <2>1 DEF Log!Ids
  <2>3. entry = p.record
    BY <1>6, <2>1 DEF Record
  <2>4. log' = Append(log, entry)
    <3>1. DOMAIN log' = 1..(Len(table) + 1) /\ DOMAIN Append(log, entry) = 1..(Len(table) + 1)
      BY <1>3, <1>5, <2>1, <2>3
    <3>2. ASSUME NEW i \in 1..(Len(table) + 1)
          PROVE  log'[i] = Append(log, entry)[i]
      <4>1. CASE i \in DOMAIN table
        BY <4>1, <1>3, <1>5, <2>1, <2>3
      <4>2. CASE i = Len(table) + 1
        BY <4>2, <1>3, <1>5, <1>10, <2>1, <2>3
      <4> QED BY <4>1, <4>2, <1>5
    <3>3. log' = [i \in 1..(Len(table) + 1) |-> log'[i]]
      BY <1>5
    <3>4. Append(log, entry) = [i \in 1..(Len(table) + 1) |-> Append(log, entry)[i]]
      BY <1>3, <2>1, <2>3
    <3> QED BY <3>2, <3>3, <3>4
  <2>5. rounds' = [rounds EXCEPT ![m.conv] = CountersAfter(m.kind, @)]
    BY <1>1, <1>3, <1>6 DEF Conv
  <2>6. rounds' = [rounds EXCEPT ![m.conv] = Log!CountersAfter(m.kind, @)]
    BY <2>5, SameRounds
  <2> QED BY <2>2, <2>4, <2>6 DEF Log!AppendMessage
<1> QED BY <1>2, <1>11, <1>12, <1>13, <1>14, <1>15, <1>16, <1>17, <1>18

(* Removing the journal of a committed record.                             *)
LEMMA RecoverUnlinkStep ==
    ASSUME IInv, NEW w \in Writers, RecoverUnlink(w)
    PROVE  IInv'
<1> USE DEF IInv
<1>1. PICK p \in journal : Indexed(p.record.msg.id)
  BY DEF RecoverUnlink
<1>2. journal' = {} /\ UNCHANGED <<raw, table, rounds, pc, job, returned, interruptions>>
  BY DEF RecoverUnlink
<1>3. PICK row \in Rows : row.record = p.record
  BY <1>1 DEF PendingOrCommitted
<1>4. \A q \in journal : q = p
  BY DEF OneJournal
<1>5. TypeOK'
  BY <1>2 DEF TypeOK, Journals
<1>6. SequencesContiguous' /\ IdsUnique' /\ IndexMatchesRaw'
  BY <1>2 DEF SequencesContiguous, IdsUnique, IndexMatchesRaw, Rows, Piece
<1>7. LockExclusive' /\ OneJournal' /\ PendingPlaced' /\ PendingIsNext' /\ PendingOrCommitted'
  BY <1>2 DEF LockExclusive, Holding, OneJournal, PendingPlaced, PendingIsNext, PendingOrCommitted
<1>8. HolderKnows'
  BY <1>2, <1>3, <1>4 DEF HolderKnows, Rows
<1>9. ReturnedIsDurable'
  BY <1>2 DEF ReturnedIsDurable, Rows
<1> QED BY <1>5, <1>6, <1>7, <1>8, <1>9

(* Writing the journal of a new record.                                    *)
LEMMA AppendJournalStep ==
    ASSUME IInv, NEW w \in Writers, NEW m \in Messages, AppendJournal(w, m)
    PROVE  IInv'
<1> USE DEF IInv
<1> DEFINE p == [record |-> Record(m, NextSequence),
                 offset |-> Len(raw[m.conv]),
                 rounds |-> CountersAfter(m.kind, rounds[m.conv])]
<1>1. /\ pc[w] = "decide" /\ job[w] = {m}
      /\ ~Indexed(m.id)
      /\ journal' = {p}
      /\ pc' = [pc EXCEPT ![w] = "commit"]
      /\ UNCHANGED <<raw, table, rounds, job, returned, interruptions>>
  BY DEF AppendJournal
<1>2. NextSequence = Len(table) + 1 /\ Len(table) \in Nat
  BY NextIsLength DEF TypeOK
<1>3. /\ Record(m, NextSequence) \in Log!Entries
      /\ Record(m, NextSequence).msg = m
      /\ CountersAfter(m.kind, rounds[m.conv]) \in Counters
  BY <1>2, RecordType
<1>4. m.conv \in Convs /\ raw[m.conv] \in Seq(Pieces)
  BY MessagesAssumption DEF TypeOK
<1>5. Len(raw[m.conv]) \in Nat /\ DOMAIN raw[m.conv] = 1..Len(raw[m.conv])
  BY <1>4
<1>6. /\ p.record = Record(m, Len(table) + 1) /\ p.record.msg = m
      /\ p.offset = Len(raw[m.conv]) /\ Conv(p) = m.conv
      /\ p.rounds = CountersAfter(m.kind, rounds[m.conv])
      /\ p \in Journals
  BY <1>2, <1>3, <1>5 DEF Conv, Journals
<1> HIDE DEF p
<1>7. /\ Holding(w) /\ pc \in [Writers -> {"closed", "idle", "recover", "decide", "commit"}]
      /\ \A v \in Writers : Holding(v)' <=> Holding(v)
  BY <1>1 DEF Holding, TypeOK
<1>8. TypeOK'
  BY <1>1, <1>6, <1>7 DEF TypeOK
<1>9. SequencesContiguous' /\ IdsUnique' /\ IndexMatchesRaw' /\ ReturnedIsDurable'
  BY <1>1 DEF SequencesContiguous, IdsUnique, IndexMatchesRaw, ReturnedIsDurable, Rows, Piece
<1>10. LockExclusive' /\ OneJournal'
  BY <1>1, <1>7 DEF LockExclusive, OneJournal
<1>11. PendingPlaced'
  <2>1. PositionUnchanged(p)
    BY <1>5, <1>6, ChunksAssumption DEF PositionUnchanged
  <2>2. PrefixMatches(p)
    BY <1>5, <1>6, ChunksAssumption DEF PrefixMatches
  <2> QED BY <2>1, <2>2, <1>1 DEF PendingPlaced, PositionUnchanged, PrefixMatches, Conv, Piece
<1>12. PendingIsNext'
  BY <1>1, <1>6 DEF PendingIsNext, Record, Conv
<1>13. PendingOrCommitted'
  BY <1>1, <1>6 DEF PendingOrCommitted, Indexed, Rows
<1>14. HolderKnows'
  <2>1. ASSUME NEW v \in Writers, v # w PROVE pc'[v] \notin {"decide", "commit"}
    BY <2>1, <1>1, <1>7 DEF LockExclusive, Holding
  <2> QED BY <2>1, <1>1, <1>6, <1>7 DEF HolderKnows
<1> QED BY <1>8, <1>9, <1>10, <1>11, <1>12, <1>13, <1>14

-----------------------------------------------------------------------------
(* Steps that leave the files alone.                                       *)

LEMMA FilesUntouched ==
    ASSUME IInv, UNCHANGED files
    PROVE  /\ SequencesContiguous' /\ IdsUnique' /\ OneJournal' /\ PendingPlaced'
           /\ PendingIsNext' /\ PendingOrCommitted' /\ IndexMatchesRaw'
           /\ Rows' = Rows
BY DEF IInv, files, SequencesContiguous, IdsUnique, OneJournal, PendingPlaced, PendingIsNext,
       PendingOrCommitted, IndexMatchesRaw, PositionUnchanged, PrefixMatches, Indexed, Rows,
       Record, Conv, Piece

LEMMA ControlStep ==
    ASSUME IInv, NEW w \in Writers,
           \/ Open(w) \/ OpenDone(w) \/ Close(w) \/ Interrupt(w) \/ Recovered(w)
           \/ \E m \in Messages :
                BeginAppend(w, m) \/ AppendDuplicate(w, m) \/ AppendConflict(w, m) \/ AppendReturn(w, m)
    PROVE  IInv' /\ UNCHANGED files
<1> USE DEF IInv
<1>1. UNCHANGED files
  BY DEF Open, OpenDone, Close, Interrupt, Recovered, BeginAppend, AppendDuplicate,
         AppendConflict, AppendReturn, EndAppend
<1>2. /\ pc' \in [Writers -> {"closed", "idle", "recover", "decide", "commit"}]
      /\ \A v \in Writers : v # w => pc'[v] = pc[v]
  BY DEF TypeOK, Open, OpenDone, Close, Interrupt, Recovered, BeginAppend, AppendDuplicate,
         AppendConflict, AppendReturn, EndAppend
<1>3. /\ job' \in [Writers -> SUBSET Messages]
      /\ \A v \in Writers : v # w => job'[v] = job[v]
  <2>1. \/ job' = job
        \/ \E jobs \in SUBSET Messages : job' = [job EXCEPT ![w] = jobs]
    BY DEF Open, OpenDone, Close, Interrupt, Recovered, BeginAppend, AppendDuplicate,
           AppendConflict, AppendReturn, EndAppend
  <2> QED BY <2>1 DEF TypeOK
<1>4. \/ UNCHANGED returned
      \/ \E m \in Messages : /\ returned' = returned \cup {m}
                             /\ \E row \in Rows : row.record.msg = m
  <2>1. ASSUME NEW m \in Messages, AppendReturn(w, m)
        PROVE  \E row \in Rows : row.record.msg = m
    BY <2>1 DEF AppendReturn, HolderKnows
  <2> QED BY <2>1 DEF Open, OpenDone, Close, Interrupt, Recovered, BeginAppend, AppendDuplicate,
                      AppendConflict, AppendReturn, EndAppend
<1>5. interruptions' \in 0..MaxInterruptions
  BY InterruptionsAssumption
     DEF TypeOK, Open, OpenDone, Close, Interrupt, Recovered, BeginAppend, AppendDuplicate,
         AppendConflict, AppendReturn, EndAppend
<1>6. TypeOK'
  BY <1>1, <1>2, <1>3, <1>4, <1>5 DEF TypeOK, files
<1>7. Holding(w)' => Holding(w) \/ LockFree
  BY <1>2 DEF TypeOK, Holding, Open, OpenDone, Close, Interrupt, Recovered, BeginAppend,
              AppendDuplicate, AppendConflict, AppendReturn, EndAppend
<1>8. LockExclusive'
  BY <1>2, <1>7 DEF LockExclusive, LockFree, Holding
<1>9. /\ pc'[w] # "commit"
      /\ pc'[w] = "decide" => journal = {}
  BY <1>2 DEF TypeOK, Open, OpenDone, Close, Interrupt, Recovered, BeginAppend, AppendDuplicate,
              AppendConflict, AppendReturn, EndAppend
<1>10. HolderKnows'
  BY <1>1, <1>2, <1>3, <1>9, FilesUntouched DEF HolderKnows, files
<1>11. ReturnedIsDurable'
  BY <1>4, <1>1, FilesUntouched DEF ReturnedIsDurable
<1> QED BY <1>1, <1>6, <1>8, <1>10, <1>11, FilesUntouched

-----------------------------------------------------------------------------
(* Theorems of the specification.                                          *)

LEMMA InitIInv == Init => IInv
BY InterruptionsAssumption
   DEF Init, IInv, TypeOK, SequencesContiguous, IdsUnique, LockExclusive, OneJournal, PendingPlaced,
       PendingIsNext, PendingOrCommitted, HolderKnows, IndexMatchesRaw, ReturnedIsDurable, Holding,
       Rows, Counters, FreshCounters, NoRound

(* One process, one step.                                                  *)
LEMMA NextCases ==
    ASSUME Next
    PROVE  \E w \in Writers :
               \/ RecoverRaw(w) \/ RecoverIndex(w) \/ RecoverUnlink(w)
               \/ \E m \in Messages : AppendJournal(w, m)
               \/ \/ Open(w) \/ OpenDone(w) \/ Close(w) \/ Interrupt(w) \/ Recovered(w)
                  \/ \E m \in Messages :
                       BeginAppend(w, m) \/ AppendDuplicate(w, m) \/ AppendConflict(w, m) \/ AppendReturn(w, m)
BY DEF Next, Advance

LEMMA StepIInv == IInv /\ [Next]_vars => IInv'
<1>1. CASE IInv /\ Next
  BY <1>1, NextCases, RecoverRawStep, RecoverIndexStep, RecoverUnlinkStep, AppendJournalStep, ControlStep
<1>2. CASE IInv /\ UNCHANGED vars
  <2>1. UNCHANGED files /\ UNCHANGED <<pc, job, returned, interruptions>>
    BY <1>2 DEF vars
  <2>2. TypeOK' /\ LockExclusive' /\ HolderKnows' /\ ReturnedIsDurable'
    BY <1>2, <2>1 DEF IInv, files, TypeOK, LockExclusive, Holding, HolderKnows, ReturnedIsDurable, Rows
  <2> QED BY <1>2, <2>1, <2>2, FilesUntouched DEF IInv
<1> QED BY <1>1, <1>2

LEMMA Invariance == Spec => []IInv
BY InitIInv, StepIInv, PTL DEF Spec

(* The files always have the shape that the code reads back.               *)
THEOREM TypeCorrect == Spec => []TypeOK
BY Invariance, PTL DEF IInv

(* _recover never raises on what an interrupted append left behind.        *)
THEOREM RecoveryAlwaysAccepts == Spec => []RecoveryNeverRefused
<1>1. IInv => RecoveryNeverRefused
  <2> SUFFICES ASSUME IInv, NEW p \in journal, NEW row \in Rows,
                      row.record.msg.id = p.record.msg.id
               PROVE  row.record = p.record
    BY DEF IInv, PendingPlaced, RecoveryNeverRefused, NoIdConflict
  <2>1. PICK i \in DOMAIN table : row = table[i]
    BY DEF Rows
  <2>2. PICK j \in DOMAIN table : table[j].record = p.record
    BY DEF IInv, PendingOrCommitted, Indexed, Rows
  <2> QED BY <2>1, <2>2 DEF IInv, IdsUnique
<1> QED BY <1>1, Invariance, PTL

(* A reader that trusts the index finds the record, in every state.        *)
THEOREM IndexIsTrue == Spec => []IndexMatchesRaw
BY Invariance, PTL DEF IInv

(* What append_message returned is never lost.                             *)
THEOREM ReturnedStays == Spec => []ReturnedIsDurable
BY Invariance, PTL DEF IInv

(* Raw files only grow.                                                    *)
THEOREM HistoryNotRewritten == Spec => RawAppendOnly
<1>1. IInv /\ [Next]_vars =>
        [\A c \in Convs : /\ Len(raw'[c]) >= Len(raw[c])
                          /\ \A k \in DOMAIN raw[c] : raw'[c][k] = raw[c][k]]_raw
  <2>1. ASSUME IInv, NEW w \in Writers, RecoverRaw(w)
        PROVE  \A c \in Convs : /\ Len(raw'[c]) >= Len(raw[c])
                                /\ \A k \in DOMAIN raw[c] : raw'[c][k] = raw[c][k]
    BY <2>1, RecoverRawStep
  <2>2. ASSUME IInv, [Next]_vars, \A w \in Writers : ~RecoverRaw(w)
        PROVE  UNCHANGED raw
    <3>1. CASE UNCHANGED vars
      BY <3>1 DEF vars, files
    <3>2. CASE Next
      BY <2>2, <3>2, NextCases, ControlStep DEF RecoverIndex, RecoverUnlink, AppendJournal, files
    <3> QED BY <2>2, <3>1, <3>2
  <2> QED BY <2>1, <2>2
<1> QED BY <1>1, Invariance, PTL DEF Spec, RawAppendOnly

-----------------------------------------------------------------------------
(* How long the raw files are: each holds Chunks pieces per row of its     *)
(* conversation, and for the record of the journal the pieces after its    *)
(* offset, all of them as soon as it has a row.                            *)

RowsOf(c) == {i \in DOMAIN table : table[i].record.msg.conv = c}

Accounted(c) == Len(raw[c]) = Chunks * Cardinality(RowsOf(c))

RawAccounted ==
    /\ \A c \in Convs : (\A p \in journal : Conv(p) # c) => Accounted(c)
    /\ \A p \in journal :
        IF Indexed(p.record.msg.id)
        THEN Written(p) = Chunks /\ Accounted(Conv(p))
        ELSE p.offset = Chunks * Cardinality(RowsOf(Conv(p)))

LEMMA RowsOfFinite ==
    ASSUME TypeOK, NEW c
    PROVE  IsFiniteSet(RowsOf(c)) /\ Cardinality(RowsOf(c)) \in Nat
<1>1. DOMAIN table = 1..Len(table) /\ Len(table) \in Nat
  BY DEF TypeOK
<1>2. IsFiniteSet(DOMAIN table)
  BY <1>1, FS_Interval
<1>3. RowsOf(c) \in SUBSET DOMAIN table
  BY DEF RowsOf
<1>4. IsFiniteSet(RowsOf(c))
  BY <1>2, <1>3, FS_Subset
<1> QED BY <1>4, FS_CardinalityType

LEMMA OneMoreRecord ==
    ASSUME NEW n \in Nat
    PROVE  Chunks * n + Chunks = Chunks * (n + 1)
BY ChunksAssumption

LEMMA RawAccountedInit == Init => RawAccounted
<1> SUFFICES ASSUME Init, NEW c \in Convs PROVE Accounted(c)
  BY DEF Init, RawAccounted
<1>1. Len(raw[c]) = 0 /\ RowsOf(c) = {}
  BY DEF Init, RowsOf
<1> QED BY <1>1, FS_EmptySet, ChunksAssumption DEF Accounted

LEMMA RawAccountedStep == IInv /\ RawAccounted /\ [Next]_vars => RawAccounted'
<1> SUFFICES ASSUME IInv, RawAccounted, [Next]_vars PROVE RawAccounted'
  OBVIOUS
<1>1. ASSUME UNCHANGED files PROVE RawAccounted'
  BY <1>1 DEF RawAccounted, files, Accounted, RowsOf, Conv, Indexed, Rows, Written
<1>2. ASSUME NEW w \in Writers, RecoverRaw(w) PROVE RawAccounted'
  <2>1. PICK p \in journal :
          /\ Written(p) < Chunks
          /\ raw' = [raw EXCEPT ![Conv(p)] = Append(@, Piece(p.record, Written(p) + 1))]
    BY <1>2 DEF RecoverRaw
  <2>2. UNCHANGED <<journal, table>> /\ \A q \in journal : q = p
    BY <1>2 DEF RecoverRaw, IInv, OneJournal
  <2>3. p.offset \in Nat /\ Len(raw[Conv(p)]) \in Nat
    BY JournalType DEF IInv
  <2>4. ~Indexed(p.record.msg.id)
    BY <2>1, <2>3, ChunksAssumption DEF RawAccounted, Written
  <2>5. p.offset = Chunks * Cardinality(RowsOf(Conv(p)))
    BY <2>4 DEF RawAccounted
  <2>6. ASSUME NEW c \in Convs, c # Conv(p) PROVE Accounted(c)'
    <3>1. raw'[c] = raw[c] /\ RowsOf(c)' = RowsOf(c)
      BY <2>1, <2>2, <2>6 DEF IInv, TypeOK, RowsOf
    <3>2. Accounted(c)
      BY <2>2, <2>6 DEF RawAccounted
    <3> QED BY <3>1, <3>2 DEF Accounted
  <2>7. ~Indexed(p.record.msg.id)'
    BY <2>2, <2>4 DEF Indexed, Rows
  <2>8. p.offset = Chunks * Cardinality(RowsOf(Conv(p)))'
    BY <2>2, <2>5 DEF RowsOf, Conv
  <2> QED BY <2>2, <2>6, <2>7, <2>8 DEF RawAccounted, Conv
<1>3. ASSUME NEW w \in Writers, RecoverIndex(w) PROVE RawAccounted'
  <2>1. PICK p \in journal :
          /\ Written(p) = Chunks
          /\ ~Indexed(p.record.msg.id)
          /\ table' = Append(table, [record |-> p.record, offset |-> p.offset])
    BY <1>3 DEF RecoverIndex
  <2>2. UNCHANGED <<journal, raw>> /\ \A q \in journal : q = p
    BY <1>3 DEF RecoverIndex, IInv, OneJournal
  <2>3. p.offset \in Nat /\ Len(raw[Conv(p)]) \in Nat /\ Conv(p) \in Convs
    BY JournalType DEF IInv
  <2>4. /\ Len(table) \in Nat /\ DOMAIN table = 1..Len(table)
        /\ DOMAIN table' = 1..(Len(table) + 1)
        /\ \A i \in DOMAIN table : table'[i] = table[i]
        /\ table'[Len(table) + 1].record = p.record
    BY <2>1 DEF IInv, TypeOK
  <2>5. RowsOf(Conv(p))' = RowsOf(Conv(p)) \cup {Len(table) + 1}
    BY <2>2, <2>4 DEF RowsOf, Conv
  <2>6. Cardinality(RowsOf(Conv(p)))' = Cardinality(RowsOf(Conv(p))) + 1
    <3>1. Len(table) + 1 \notin RowsOf(Conv(p))
      BY <2>4 DEF RowsOf
    <3> QED BY <2>5, <3>1, RowsOfFinite, FS_AddElement DEF IInv
  <2>7. p.offset = Chunks * Cardinality(RowsOf(Conv(p)))
    BY <2>1 DEF RawAccounted
  <2>8. Len(raw[Conv(p)]) = Chunks * (Cardinality(RowsOf(Conv(p))) + 1)
    <3>1. Len(raw[Conv(p)]) = p.offset + Chunks
      BY <2>1, <2>3, ChunksAssumption DEF Written
    <3> QED BY <3>1, <2>7, RowsOfFinite, OneMoreRecord DEF IInv
  <2>9. Accounted(Conv(p))' /\ Written(p)' = Chunks
    BY <2>1, <2>2, <2>6, <2>8 DEF Accounted, Conv, Written
  <2>10. Indexed(p.record.msg.id)'
    <3>1. Len(table) + 1 \in DOMAIN table'
      BY <2>4
    <3>2. table'[Len(table) + 1] \in Rows'
      BY <3>1 DEF Rows
    <3> QED BY <2>4, <3>2 DEF Indexed
  <2>11. ASSUME NEW c \in Convs, c # Conv(p) PROVE Accounted(c)'
    <3>1. RowsOf(c)' = RowsOf(c)
      BY <2>4, <2>11 DEF RowsOf, Conv
    <3>2. Accounted(c)
      BY <2>2, <2>11 DEF RawAccounted
    <3> QED BY <2>2, <3>1, <3>2 DEF Accounted
  <2> QED BY <2>2, <2>9, <2>10, <2>11 DEF RawAccounted, Conv
<1>4. ASSUME NEW w \in Writers, RecoverUnlink(w) PROVE RawAccounted'
  <2>1. PICK p \in journal : Indexed(p.record.msg.id)
    BY <1>4 DEF RecoverUnlink
  <2>2. journal' = {} /\ UNCHANGED <<raw, table>> /\ \A q \in journal : q = p
    BY <1>4 DEF RecoverUnlink, IInv, OneJournal
  <2>3. Accounted(Conv(p))
    BY <2>1 DEF RawAccounted
  <2>4. \A c \in Convs : Accounted(c)
    BY <2>2, <2>3 DEF RawAccounted
  <2> QED BY <2>2, <2>4 DEF RawAccounted, Accounted, RowsOf
<1>5. ASSUME NEW w \in Writers, NEW m \in Messages, AppendJournal(w, m) PROVE RawAccounted'
  <2>1. journal = {} /\ ~Indexed(m.id) /\ UNCHANGED <<raw, table>>
    BY <1>5 DEF AppendJournal, IInv, HolderKnows
  <2>2. m.conv \in Convs /\ Accounted(m.conv)
    BY <2>1, MessagesAssumption DEF RawAccounted
  <2>3. NextSequence \in Nat \ {0}
    BY NextIsLength DEF IInv, TypeOK
  <2>4. PICK p : journal' = {p} /\ p.record.msg = m /\ p.offset = Len(raw[m.conv])
    <3> DEFINE new == [record |-> Record(m, NextSequence),
                       offset |-> Len(raw[m.conv]),
                       rounds |-> CountersAfter(m.kind, rounds[m.conv])]
    <3>1. journal' = {new}
      BY <1>5 DEF AppendJournal
    <3>2. new.record.msg = m /\ new.offset = Len(raw[m.conv])
      BY <2>3, RecordType DEF IInv
    <3> HIDE DEF new
    <3> QED BY <3>1, <3>2
  <2>5. /\ \A c \in Convs : Accounted(c)'
        /\ ~Indexed(p.record.msg.id)'
    BY <2>1, <2>4 DEF RawAccounted, Accounted, RowsOf, Indexed, Rows
  <2>6. p.offset = Chunks * Cardinality(RowsOf(Conv(p)))'
    BY <2>1, <2>2, <2>4 DEF Accounted, RowsOf, Conv
  <2> QED BY <2>4, <2>5, <2>6 DEF RawAccounted, Conv
<1>6. CASE UNCHANGED vars
  BY <1>1, <1>6 DEF vars
<1>7. CASE Next
  BY <1>1, <1>2, <1>3, <1>4, <1>5, <1>7, NextCases, ControlStep
<1> QED BY <1>6, <1>7

(* Between appends the raw files hold the indexed records and nothing      *)
(* else: recovery never leaves a torn record, nor writes one twice.        *)
THEOREM RawStaysFullyIndexed == Spec => []RawFullyIndexed
<1>1. RawAccounted => RawFullyIndexed
  BY DEF RawAccounted, RawFullyIndexed, Accounted, RowsOf
<1>2. Spec => []RawAccounted
  BY Invariance, RawAccountedInit, RawAccountedStep, PTL DEF Spec
<1> QED BY <1>1, <1>2, PTL

(* The archive implements the append-only log: committing a row is the     *)
(* log's append, and every other step leaves the log alone.                *)
THEOREM ImplementsLog == Spec => LogSpec
<1> DEFINE log == [i \in DOMAIN table |-> table[i].record]
<1>1. Init => Log!Init
  BY DEF Init, Log!Init, FreshCounters, Log!FreshCounters, NoRound, Log!NoRound
<1>2. IInv /\ [Next]_vars => [Log!Next]_(Log!vars)
  <2>1. ASSUME IInv, NEW w \in Writers, RecoverIndex(w)
        PROVE  Log!Next
    <3>1. PICK p \in journal : Log!AppendMessage(p.record.msg)
      BY <2>1, RecoverIndexStep
    <3>2. p.record.msg \in Messages
      BY <2>1, JournalType DEF IInv
    <3> QED BY <3>1, <3>2 DEF Log!Next
  <2>2. ASSUME IInv, [Next]_vars, \A w \in Writers : ~RecoverIndex(w)
        PROVE  UNCHANGED <<table, rounds>>
    <3>1. CASE UNCHANGED vars
      BY <3>1 DEF vars, files
    <3>2. CASE Next
      BY <2>2, <3>2, NextCases, ControlStep DEF RecoverRaw, RecoverUnlink, AppendJournal, files
    <3> QED BY <2>2, <3>1, <3>2
  <2>3. UNCHANGED <<table, rounds>> => UNCHANGED Log!vars
    BY DEF Log!vars
  <2> QED BY <2>1, <2>2, <2>3
<1> QED BY <1>1, <1>2, Invariance, PTL DEF Spec, LogSpec, Log!Spec

(* The log's theorems, read for the archive.  They stand with those of the *)
(* summary phase, whose own parameters do not occur in them: here it is    *)
(* one in which nothing arrives and nothing is ever summarised.            *)
LogFacts ==
    INSTANCE SummariesProofs
    WITH log <- [i \in DOMAIN table |-> table[i].record],
         Arrivals <- {}, Internal <- {}, MinRounds <- 1, MinChildren <- 2, MaxLevel <- 1,
         MaxInput <- 2, Mishaps <- {},
         cursor <- 0, files <- <<>>, indexed <- {}, excluded <- {}, task <- <<>>,
         disturbed <- {}, late <- {}, orphans <- {}

(* The instance of the proofs speaks of the same log.                      *)
LEMMA SameLog ==
    /\ Log!Init => LogFacts!Init
    /\ [Log!Next]_(Log!vars) => [LogFacts!Next]_(LogFacts!vars)
    /\ LogFacts!RoundsClosed /\ LogFacts!RoundsMonotone /\ LogFacts!RoundsOpenWithUser
           => RoundsSound
BY DEF Log!Init, LogFacts!Init, Log!FreshCounters, LogFacts!FreshCounters,
       Log!NoRound, LogFacts!NoRound, Log!Next, LogFacts!Next, Log!vars, LogFacts!vars,
       Log!AppendMessage, LogFacts!AppendMessage, Log!Ids, LogFacts!Ids,
       Log!Entry, LogFacts!Entry, Log!RoundOf, LogFacts!RoundOf,
       Log!Completes, LogFacts!Completes, Log!OpenRound, LogFacts!OpenRound,
       Log!Opens, LogFacts!Opens, Log!CountersAfter, LogFacts!CountersAfter,
       RoundsSound, Log!RoundsClosed, LogFacts!RoundsClosed,
       Log!RoundsMonotone, LogFacts!RoundsMonotone,
       Log!RoundsOpenWithUser, LogFacts!RoundsOpenWithUser,
       Log!SameConversation, LogFacts!SameConversation

(* The rounds of the archive are what SummaryService takes them for: what  *)
(* holds of the abstract log holds of whatever implements it.              *)
THEOREM RoundsStaySound == Spec => []RoundsSound
<1>1. \A m \in Messages : m.conv \in Convs /\ m.kind \in LogFacts!Kinds
  BY MessagesAssumption DEF Kinds, LogFacts!Kinds
<1>2. LogFacts!Spec => []LogFacts!RoundsClosed
  BY <1>1, LogFacts!RoundsStayClosed
<1>3. LogFacts!Spec => []LogFacts!RoundsMonotone
  BY <1>1, LogFacts!RoundsInOrder
<1>4. LogFacts!Spec => []LogFacts!RoundsOpenWithUser
  BY <1>1, LogFacts!RoundsHaveUser
<1> QED BY <1>2, <1>3, <1>4, SameLog, ImplementsLog, PTL DEF LogSpec, Log!Spec, LogFacts!Spec

=============================================================================
