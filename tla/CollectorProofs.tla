--------------------------- MODULE CollectorProofs ----------------------------
(***************************************************************************)
(* Proofs about Collector, for every number of processes and files, every  *)
(* script, every size of batches and any number of crashes.                *)
(*                                                                         *)
(* Between the append of a line and the checkpoint that covers it stands   *)
(* only the batch of a process: the inductive invariant says that a batch  *)
(* holds its file alone, began at the file's checkpoint and has everything *)
(* up to its line in the archive.                                          *)
(*                                                                         *)
(* The ledger is a fold over the lines of a file.  Its invariant says that *)
(* it remembers the last count of its lines, by which the next report      *)
(* either continues a run of the counter or begins one.                    *)
(***************************************************************************)
EXTENDS Collector, SequenceTheorems, WellFoundedInduction, TLAPS

Batches == [file : Files, line : Nat, left : Nat]

TypeOK ==
    /\ size \in [Files -> Nat] /\ \A f \in Files : size[f] <= Len(Script[f])
    /\ checkpoint \in [Files -> Nat]
    /\ batch \in [Workers -> SUBSET Batches]

LogOK ==
    /\ log \in Seq(Range(log))
    /\ \A i \in DOMAIN log : log[i].msg \in Messages

ArchivedOnce == \A i, j \in DOMAIN log : log[i].msg = log[j].msg => i = j

(* The lock of a file.                                                     *)
FileLocked ==
    \A v, w \in Workers : \A b \in batch[v], c \in batch[w] :
        b.file = c.file => v = w /\ b = c

BatchCovered ==
    \A w \in Workers : \A b \in batch[w] :
        checkpoint[b.file] <= b.line /\ b.line <= size[b.file] /\ Covered(b.file, b.line)

(* CapturedInOrder, of every place of the log.                             *)
InOrder ==
    \A f \in Files : \A k, l \in DOMAIN Script[f] : \A j \in DOMAIN log :
        (k < l /\ Own(f, l) /\ log[j].msg = Script[f][l]) =>
            /\ Script[f][k] \notin {Poison, Garbled}
            /\ Visible(f, k) => Archived(Script[f][k])
            /\ Own(f, k) => \E i \in DOMAIN log : i < j /\ log[i].msg = Script[f][k]

IInv ==
    /\ TypeOK /\ LogOK /\ ArchivedOnce
    /\ FileLocked /\ BatchCovered /\ CheckpointSound /\ InOrder

-----------------------------------------------------------------------------
(* Facts about the operators.                                              *)

LEMMA ScriptLines ==
    ASSUME NEW f \in Files
    PROVE  /\ Len(Script[f]) \in Nat /\ DOMAIN Script[f] = 1..Len(Script[f])
           /\ \A k \in DOMAIN Script[f] : Script[f][k] \in LinesOfAll
BY ScriptAssumption

(* What an append of the archive does to what was archived before.         *)
LEMMA AppendGrows ==
    ASSUME LogOK, NEW m \in Messages, Log!AppendMessage(m)
    PROVE  /\ LogOK' /\ ~Archived(m) /\ Len(log) \in Nat
           /\ DOMAIN log = 1..Len(log) /\ DOMAIN log' = 1..(Len(log) + 1)
           /\ \A i \in DOMAIN log : log'[i] = log[i]
           /\ log'[Len(log) + 1].msg = m
<1> DEFINE e == Log!Entry(m, Len(log) + 1, rounds[m.conv])
           S == Range(log) \cup {e}
<1>1. log' = Append(log, e) /\ m.id \notin Log!Ids(log)
  BY DEF Log!AppendMessage
<1>2. e.msg = m
  BY DEF Log!Entry
<1> HIDE DEF e
<1>3. log \in Seq(S)
  BY DEF LogOK
<1> HIDE DEF S
<1>4. e \in S
  BY DEF S
<1>5. /\ Len(log) \in Nat /\ DOMAIN log = 1..Len(log) /\ DOMAIN log' = 1..(Len(log) + 1)
      /\ \A i \in DOMAIN log : log'[i] = log[i]
      /\ log'[Len(log) + 1] = e /\ log' \in Seq(S)
  BY <1>1, <1>3, <1>4
<1>6. Range(log)' = S
  BY <1>5 DEF Range, S
<1>7. LogOK'
  BY <1>2, <1>5, <1>6 DEF LogOK
<1> QED BY <1>1, <1>2, <1>5, <1>7 DEF Log!Ids, Archived

LEMMA CoveredStays ==
    ASSUME NEW f \in Files, NEW n \in Nat, Covered(f, n),
           \A m : Archived(m) => Archived(m)'
    PROVE  Covered(f, n)'
BY DEF Covered, Visible

(* A step that appends nothing.                                            *)
LEMMA SameArchive ==
    ASSUME IInv, log' = log
    PROVE  /\ LogOK' /\ ArchivedOnce' /\ InOrder'
           /\ \A f \in Files, n \in Nat : Covered(f, n) => Covered(f, n)'
<1>1. LogOK' /\ ArchivedOnce'
  BY DEF IInv, LogOK, ArchivedOnce, Range
<1>2. \A m : Archived(m) => Archived(m)'
  BY DEF Archived
<1>3. InOrder'
  BY DEF IInv, InOrder, Own, Visible, Archived
<1> QED BY <1>1, <1>2, <1>3, CoveredStays

(* A line that a batch has dealt with does not spoil what it covers.       *)
LEMMA CoveredGrows ==
    ASSUME NEW f \in Files, NEW n \in Nat, Covered(f, n),
           Script[f][n + 1] \notin {Poison, Garbled},
           Visible(f, n + 1) => Archived(Script[f][n + 1])
    PROVE  Covered(f, n + 1)
BY DEF Covered

-----------------------------------------------------------------------------
(* The steps of one process.                                               *)

LEMMA WriteStep == ASSUME IInv, NEW f \in Files, Write(f) PROVE IInv'
<1>1. /\ size[f] < Len(Script[f]) /\ size' = [size EXCEPT ![f] = @ + 1]
      /\ checkpoint' = checkpoint /\ batch' = batch /\ log' = log
  BY DEF Write, archive
<1>2. TypeOK' /\ \A g \in Files : size[g] <= size'[g]
  BY <1>1, ScriptLines DEF IInv, TypeOK
<1>3. FileLocked'
  BY <1>1 DEF IInv, FileLocked
<1>4. BatchCovered'
  <2> SUFFICES ASSUME NEW w \in Workers, NEW b \in batch[w]
               PROVE  checkpoint[b.file] <= b.line /\ b.line <= size'[b.file] /\ Covered(b.file, b.line)'
    BY <1>1 DEF BatchCovered
  <2>1. b.file \in Files /\ b.line \in Nat /\ size[b.file] \in Nat /\ size'[b.file] \in Nat
    BY <1>2 DEF IInv, TypeOK, Batches
  <2> QED BY <1>1, <1>2, <2>1, SameArchive DEF IInv, BatchCovered
<1>5. CheckpointSound'
  BY <1>1, <1>2, SameArchive DEF IInv, TypeOK, CheckpointSound
<1> QED BY <1>1, <1>2, <1>3, <1>4, <1>5, SameArchive DEF IInv

(* A process starts, visits the next file, or stops.                       *)
LEMMA NoBatchStep ==
    ASSUME IInv, NEW w \in Workers, UNCHANGED <<size, checkpoint, log>>,
           batch' = batch \/ batch' = [batch EXCEPT ![w] = {}]
    PROVE  IInv'
<1>1. \A v \in Workers : batch'[v] \subseteq batch[v]
  BY DEF IInv, TypeOK
<1>2. TypeOK'
  BY <1>1 DEF IInv, TypeOK
<1>3. FileLocked'
  BY <1>1 DEF IInv, FileLocked
<1>4. BatchCovered'
  BY <1>1, SameArchive DEF IInv, BatchCovered, TypeOK, Batches
<1>5. CheckpointSound'
  BY SameArchive DEF IInv, CheckpointSound, TypeOK
<1> QED BY <1>2, <1>3, <1>4, <1>5, SameArchive DEF IInv

LEMMA BeginBatchStep ==
    ASSUME IInv, NEW w \in Workers, NEW f \in Files, BeginBatch(w, f)
    PROVE  IInv'
<1>1. /\ batch' = [batch EXCEPT ![w] = {Opened(f)}] /\ batch[w] = {}
      /\ \A v \in Workers : \A b \in batch[v] : b.file # f
      /\ UNCHANGED <<size, checkpoint, log>>
  BY DEF BeginBatch, AtFile, Unlocked, archive
<1>2. /\ Opened(f) \in Batches /\ Opened(f).file = f /\ Opened(f).line = checkpoint[f]
      /\ checkpoint[f] \in Nat /\ checkpoint[f] <= size[f] /\ Covered(f, checkpoint[f])
  BY BatchAssumption DEF Opened, IInv, TypeOK, Batches, CheckpointSound
<1>3. /\ batch'[w] = {Opened(f)} /\ \A v \in Workers \ {w} : batch'[v] = batch[v]
  BY <1>1 DEF IInv, TypeOK
<1>4. TypeOK'
  BY <1>1, <1>2 DEF IInv, TypeOK
<1>5. FileLocked'
  BY <1>1, <1>2, <1>3 DEF IInv, FileLocked
<1>6. BatchCovered'
  <2> SUFFICES ASSUME NEW v \in Workers, NEW b \in batch'[v]
               PROVE  checkpoint[b.file] <= b.line /\ b.line <= size[b.file] /\ Covered(b.file, b.line)'
    BY <1>1 DEF BatchCovered
  <2>1. CASE v = w
    BY <1>1, <1>2, <1>3, <2>1, SameArchive
  <2>2. CASE v # w
    BY <1>1, <1>3, <2>2, SameArchive DEF IInv, BatchCovered, TypeOK, Batches
  <2> QED BY <2>1, <2>2
<1>7. CheckpointSound'
  BY <1>1, SameArchive DEF IInv, CheckpointSound, TypeOK
<1> QED BY <1>1, <1>4, <1>5, <1>6, <1>7, SameArchive DEF IInv

(* What PassLine and CaptureLine do to the batches.                        *)
LEMMA BatchMoves ==
    ASSUME IInv, NEW w \in Workers, NEW b \in batch[w], HasLine(b),
           batch' = [batch EXCEPT ![w] = {Step(b)}], UNCHANGED <<size, checkpoint>>,
           \A m : Archived(m) => Archived(m)',
           NextLine(b) \notin {Poison, Garbled},
           NextLine(b) \in Messages => Archived(NextLine(b))'
    PROVE  TypeOK' /\ FileLocked' /\ BatchCovered' /\ CheckpointSound'
<1>1. /\ b \in Batches /\ b.file \in Files /\ b.line \in Nat /\ b.left > 0
      /\ b.line < size[b.file] /\ checkpoint[b.file] <= b.line /\ Covered(b.file, b.line)
      /\ size[b.file] \in Nat /\ checkpoint[b.file] \in Nat
  BY DEF IInv, TypeOK, Batches, HasLine, BatchCovered
<1>2. Step(b) \in Batches /\ Step(b).file = b.file /\ Step(b).line = b.line + 1
  BY <1>1 DEF Step, Batches
<1>3. batch'[w] = {Step(b)} /\ \A v \in Workers \ {w} : batch'[v] = batch[v]
  BY DEF IInv, TypeOK
<1>4. TypeOK'
  BY <1>2 DEF IInv, TypeOK
<1>5. FileLocked'
  BY <1>2, <1>3 DEF IInv, FileLocked
<1>6. Covered(b.file, b.line + 1)'
  BY <1>1, CoveredStays DEF Covered, Visible, NextLine
<1>7. BatchCovered'
  <2> SUFFICES ASSUME NEW v \in Workers, NEW c \in batch'[v]
               PROVE  checkpoint[c.file] <= c.line /\ c.line <= size[c.file] /\ Covered(c.file, c.line)'
    BY DEF BatchCovered
  <2>1. CASE v = w
    BY <1>1, <1>2, <1>3, <1>6, <2>1
  <2>2. CASE v # w
    BY <1>3, <2>2, CoveredStays DEF IInv, BatchCovered, TypeOK, Batches
  <2> QED BY <2>1, <2>2
<1>8. CheckpointSound'
  BY CoveredStays DEF IInv, CheckpointSound, TypeOK
<1> QED BY <1>4, <1>5, <1>7, <1>8

LEMMA PassLineStep == ASSUME IInv, NEW w \in Workers, PassLine(w) PROVE IInv'
<1>1. PICK b \in batch[w] :
         /\ HasLine(b) /\ batch' = [batch EXCEPT ![w] = {Step(b)}]
         /\ NextLine(b) \in {Skip} \cup Reports \/ Archived(NextLine(b))
  BY DEF PassLine
<1>2. UNCHANGED <<size, checkpoint, log>>
  BY DEF PassLine, archive
<1>3. \A m : Archived(m) => Archived(m)'
  BY <1>2 DEF Archived
<1>4. NextLine(b) \notin {Poison, Garbled}
  BY <1>1, MarkersAssumption DEF Reports, Archived, Messages, IInv, LogOK
<1>5. NextLine(b) \in Messages => Archived(NextLine(b))'
  BY <1>1, <1>3 DEF Messages
<1> QED BY <1>1, <1>2, <1>3, <1>4, <1>5, BatchMoves, SameArchive DEF IInv

LEMMA CaptureLineStep == ASSUME IInv, NEW w \in Workers, CaptureLine(w) PROVE IInv'
<1>1. PICK b \in batch[w] :
         /\ HasLine(b) /\ batch' = [batch EXCEPT ![w] = {Step(b)}]
         /\ NextLine(b) \in Messages /\ Log!AppendMessage(NextLine(b))
  BY DEF CaptureLine
<1> DEFINE m == NextLine(b)
<1>2. UNCHANGED <<size, checkpoint>>
  BY DEF CaptureLine
<1>3. /\ LogOK' /\ ~Archived(m) /\ Len(log) \in Nat
      /\ DOMAIN log = 1..Len(log) /\ DOMAIN log' = 1..(Len(log) + 1)
      /\ \A i \in DOMAIN log : log'[i] = log[i]
      /\ log'[Len(log) + 1].msg = m
  BY <1>1, AppendGrows DEF IInv
<1>4. \A n : Archived(n)' <=> Archived(n) \/ n = m
  BY <1>3 DEF Archived
<1>5. TypeOK' /\ FileLocked' /\ BatchCovered' /\ CheckpointSound'
  BY <1>1, <1>2, <1>4, BatchMoves DEF Messages
<1>6. ArchivedOnce'
  BY <1>3 DEF IInv, ArchivedOnce, Archived
<1>7. /\ b.file \in Files /\ b.line \in Nat /\ Covered(b.file, b.line)
      /\ b.line + 1 \in DOMAIN Script[b.file] /\ m = Script[b.file][b.line + 1]
  BY <1>1, ScriptLines DEF IInv, TypeOK, Batches, HasLine, BatchCovered, NextLine
<1>8. InOrder'
  <2> SUFFICES ASSUME NEW f \in Files, NEW k \in DOMAIN Script[f], NEW l \in DOMAIN Script[f],
                      NEW j \in DOMAIN log', k < l, Own(f, l), log'[j].msg = Script[f][l]
               PROVE  /\ Script[f][k] \notin {Poison, Garbled}
                      /\ Visible(f, k) => Archived(Script[f][k])'
                      /\ Own(f, k) => \E i \in DOMAIN log' : i < j /\ log'[i].msg = Script[f][k]
    BY DEF InOrder, Own, Visible
  <2>1. CASE j \in DOMAIN log
    <3>1. log[j].msg = Script[f][l]
      BY <1>3, <2>1
    <3>2. /\ Script[f][k] \notin {Poison, Garbled}
          /\ Visible(f, k) => Archived(Script[f][k])
          /\ Own(f, k) => \E i \in DOMAIN log : i < j /\ log[i].msg = Script[f][k]
      BY <2>1, <3>1 DEF IInv, InOrder
    <3> QED BY <1>3, <1>4, <3>2
  (* The new record is line l of the file of the batch, no later copy of   *)
  (* it, and everything before it is archived.                             *)
  <2>2. CASE j = Len(log) + 1
    <3>1. Script[f][l] = m
      BY <1>3, <2>2
    <3>2. f = b.file /\ l <= b.line + 1
      BY <1>7, <3>1 DEF Own
    <3>3. k \in Nat /\ l \in Nat /\ k \in 1..b.line
      BY <1>7, <3>2, ScriptLines
    <3>4. Script[f][k] \notin {Poison, Garbled} /\ (Visible(f, k) => Archived(Script[f][k]))
      BY <1>7, <3>2, <3>3 DEF Covered
    <3>5. Archived(Script[f][k]) => \E i \in DOMAIN log' : i < j /\ log'[i].msg = Script[f][k]
      BY <1>3, <2>2 DEF Archived
    <3> QED BY <1>4, <3>4, <3>5 DEF Own
  <2> QED BY <1>3, <2>1, <2>2
<1> QED BY <1>3, <1>5, <1>6, <1>8 DEF IInv

(* The checkpoint moves to what the batch has archived.                    *)
LEMMA EndBatchStep ==
    ASSUME IInv, NEW w \in Workers, EndBatch(w)
    PROVE  IInv' /\ \A f \in Files : checkpoint'[f] >= checkpoint[f]
<1>1. PICK b \in batch[w] : checkpoint' = [checkpoint EXCEPT ![b.file] = b.line]
  BY DEF EndBatch
<1>2. batch' = [batch EXCEPT ![w] = {}] /\ UNCHANGED <<size, log>>
  BY DEF EndBatch, archive
<1>3. /\ b \in Batches /\ b.file \in Files /\ b.line \in Nat
      /\ checkpoint[b.file] <= b.line /\ b.line <= size[b.file] /\ Covered(b.file, b.line)
      /\ checkpoint \in [Files -> Nat]
  BY DEF IInv, TypeOK, Batches, BatchCovered
<1>4. /\ batch'[w] = {} /\ \A v \in Workers \ {w} : batch'[v] = batch[v]
      /\ checkpoint'[b.file] = b.line /\ \A f \in Files \ {b.file} : checkpoint'[f] = checkpoint[f]
  BY <1>1, <1>2, <1>3 DEF IInv, TypeOK
<1>5. TypeOK'
  BY <1>1, <1>2, <1>3 DEF IInv, TypeOK
<1>6. FileLocked'
  BY <1>4 DEF IInv, FileLocked
(* The other batches hold other files.                                     *)
<1>7. BatchCovered'
  <2> SUFFICES ASSUME NEW v \in Workers \ {w}, NEW c \in batch[v]
               PROVE  /\ checkpoint'[c.file] <= c.line /\ c.line <= size[c.file]
                      /\ Covered(c.file, c.line)'
    BY <1>2, <1>4 DEF BatchCovered
  <2>1. c.file # b.file
    BY DEF IInv, FileLocked
  <2>2. c.file \in Files /\ c.line \in Nat
    BY DEF IInv, TypeOK, Batches
  <2>3. checkpoint'[c.file] = checkpoint[c.file]
    BY <1>4, <2>1, <2>2
  <2>4. checkpoint[c.file] <= c.line /\ c.line <= size[c.file] /\ Covered(c.file, c.line)
    BY DEF IInv, BatchCovered
  <2> QED BY <1>2, <2>2, <2>3, <2>4, SameArchive
<1>8. CheckpointSound'
  BY <1>2, <1>3, <1>4, SameArchive DEF IInv, CheckpointSound, TypeOK
<1>9. \A f \in Files : checkpoint'[f] >= checkpoint[f]
  BY <1>3, <1>4
<1> QED BY <1>2, <1>5, <1>6, <1>7, <1>8, <1>9, SameArchive DEF IInv

-----------------------------------------------------------------------------
LEMMA InitIInv == Init => IInv
<1> SUFFICES ASSUME Init PROVE IInv
  OBVIOUS
<1>1. log = <<>>
  BY DEF Init, Log!Init
<1>2. LogOK /\ ArchivedOnce /\ InOrder
  BY <1>1 DEF LogOK, ArchivedOnce, InOrder
<1>3. TypeOK /\ FileLocked /\ BatchCovered /\ CheckpointSound
  BY ScriptLines DEF Init, TypeOK, FileLocked, BatchCovered, CheckpointSound, Covered
<1> QED BY <1>2, <1>3 DEF IInv

LEMMA StepIInv == IInv /\ [Next]_vars => IInv'
<1> SUFFICES ASSUME IInv, [Next]_vars PROVE IInv'
  OBVIOUS
<1>1. CASE \E f \in Files : Write(f)
  BY <1>1, WriteStep
<1>2. ASSUME NEW w \in Workers,
             \/ StartTick(w) \/ StartWatch(w) \/ PassOver(w) \/ FailLine(w) \/ Crash(w)
             \/ \E f \in Files : FailUsage(w, f)
      PROVE  IInv'
  <2>1. /\ UNCHANGED <<size, checkpoint, log>>
        /\ batch' = batch \/ batch' = [batch EXCEPT ![w] = {}]
    BY <1>2 DEF StartTick, StartWatch, PassOver, FailLine, Crash, FailUsage, archive
  <2> QED BY <2>1, NoBatchStep
<1>3. ASSUME NEW w \in Workers, NEW f \in Files, BeginBatch(w, f) PROVE IInv'
  BY <1>3, BeginBatchStep
<1>4. ASSUME NEW w \in Workers, PassLine(w) \/ CaptureLine(w) \/ EndBatch(w) PROVE IInv'
  BY <1>4, PassLineStep, CaptureLineStep, EndBatchStep
<1>5. CASE UNCHANGED vars
  <2>1. UNCHANGED <<size, checkpoint, batch, log>>
    BY <1>5 DEF vars, archive
  <2>2. TypeOK' /\ FileLocked'
    BY <2>1 DEF IInv, TypeOK, FileLocked
  <2>3. BatchCovered' /\ CheckpointSound'
    BY <2>1, SameArchive DEF IInv, BatchCovered, CheckpointSound, TypeOK, Batches
  <2> QED BY <2>1, <2>2, <2>3, SameArchive DEF IInv
<1> QED BY <1>1, <1>2, <1>3, <1>4, <1>5 DEF Next, Advance

(* The inductive invariant holds of every reachable state.                 *)
THEOREM Inductive == Spec => []IInv
BY InitIInv, StepIInv, PTL DEF Spec

(* No checkpoint covers a visible line that is not archived, a line that   *)
(* raises, or a line that is not complete: collect forgets nothing when it *)
(* is interrupted or when two collectors visit one file.                   *)
THEOREM CheckpointSoundHolds == Spec => []CheckpointSound
<1>1. IInv => CheckpointSound
  BY DEF IInv
<1> QED BY <1>1, Inductive, PTL

(* The lines of a file stand in the archive without a gap and in the order *)
(* of the file (collect, append_message).                                  *)
THEOREM CapturedInOrderHolds == Spec => []CapturedInOrder
<1>1. IInv => CapturedInOrder
  <2> SUFFICES ASSUME IInv, NEW f \in Files, NEW k \in DOMAIN Script[f], NEW l \in DOMAIN Script[f],
                      k < l, Own(f, l), Archived(Script[f][l])
               PROVE  /\ Script[f][k] \notin {Poison, Garbled}
                      /\ Visible(f, k) => Archived(Script[f][k])
                      /\ Own(f, k) => Place(Script[f][k]) < Place(Script[f][l])
    BY DEF CapturedInOrder
  <2>1. PICK j \in DOMAIN log : log[j].msg = Script[f][l]
    BY DEF Archived
  <2>2. \A i \in DOMAIN log : Place(log[i].msg) = i
    BY DEF IInv, ArchivedOnce, Place
  <2>3. /\ Script[f][k] \notin {Poison, Garbled}
        /\ Visible(f, k) => Archived(Script[f][k])
        /\ Own(f, k) => \E i \in DOMAIN log : i < j /\ log[i].msg = Script[f][k]
    BY <2>1 DEF IInv, InOrder
  <2> QED BY <2>1, <2>2, <2>3
<1> QED BY <1>1, Inductive, PTL

(* The slower of two collectors never takes a checkpoint back              *)
(* (atomic_write_json of the cursor under the lock of the file).           *)
THEOREM CheckpointAdvancesHolds == Spec => CheckpointAdvances
<1>1. IInv /\ [Next]_vars => [\A f \in Files : checkpoint'[f] >= checkpoint[f]]_checkpoint
  <2> SUFFICES ASSUME IInv, Next, checkpoint' # checkpoint
               PROVE  \A f \in Files : checkpoint'[f] >= checkpoint[f]
    BY DEF vars
  <2>1. \E w \in Workers : EndBatch(w)
    BY DEF Next, Advance, Write, StartTick, StartWatch, PassOver, BeginBatch, FailUsage, PassLine,
           CaptureLine, FailLine, Crash
  <2> QED BY <2>1, EndBatchStep
<1> QED BY <1>1, Inductive, PTL DEF Spec, CheckpointAdvances

-----------------------------------------------------------------------------
(* Numbers, sums and the fold of collect_usage.                            *)

(* A set of numbers has a least one: what holds of 0, and of a number if   *)
(* it holds of the one before, holds of all, as there is no least number   *)
(* of which it does not.                                                   *)
LEMMA LeastOf ==
    ASSUME NEW S \in SUBSET Nat, S # {}
    PROVE  \E m \in S : \A k \in S : m <= k
<1> DEFINE R == OpToRel(<, Nat)
<1>1. PICK m \in S : \A k \in S : ~ (<<k, m>> \in R)
  <2>1. IsWellFoundedOn(R, Nat)
    BY NatLessThanWellFounded
  <2> HIDE DEF R
  <2> QED BY <2>1, WFMin
<1>2. ASSUME NEW k \in S, k < m PROVE FALSE
  <2>1. <<k, m>> \in Nat \X Nat
    OBVIOUS
  <2>2. <<k, m>> \in {p \in Nat \X Nat : p[1] < p[2]}
    BY <1>2, <2>1
  <2>3. <<k, m>> \in R
    BY <2>2 DEF OpToRel
  <2> QED BY <1>1, <2>3
<1>3. \A k \in S : m <= k
  BY <1>2
<1> QED BY <1>3

(* SumOf is defined by recursion: there is a function that obeys it.       *)
LEMMA SumExists ==
    ASSUME NEW n \in Nat, NEW a
    PROVE  \E g : g = [k \in 0..n |-> IF k = 0 THEN 0 ELSE g[k - 1] + a[k]]
<1> DEFINE Exists(m) == \E g : g = [k \in 0..m |-> IF k = 0 THEN 0 ELSE g[k - 1] + a[k]]
           Missing == {m \in Nat : ~Exists(m)}
<1>1. Exists(0)
  <2> DEFINE h == [k \in 0..0 |-> 0]
  <2>1. h = [k \in 0..0 |-> IF k = 0 THEN 0 ELSE h[k - 1] + a[k]]
    OBVIOUS
  <2> QED BY <2>1
<1>2. ASSUME NEW m \in Nat, Exists(m) PROVE Exists(m + 1)
  <2>1. PICK g : g = [k \in 0..m |-> IF k = 0 THEN 0 ELSE g[k - 1] + a[k]]
    BY <1>2
  <2> DEFINE h == [k \in 0..(m + 1) |-> IF k = m + 1 THEN g[m] + a[m + 1] ELSE g[k]]
  <2>2. ASSUME NEW k \in 0..(m + 1)
        PROVE  h[k] = IF k = 0 THEN 0 ELSE h[k - 1] + a[k]
    <3>1. CASE k = 0
      BY <3>1, <2>1
    <3>2. CASE k = m + 1
      BY <3>2
    <3>3. CASE k # 0 /\ k # m + 1
      <4>1. k \in 0..m /\ k - 1 \in 0..m
        BY <3>3
      <4>2. g[k] = g[k - 1] + a[k]
        BY <2>1, <3>3, <4>1
      <4>3. h[k] = g[k] /\ h[k - 1] = g[k - 1]
        BY <3>3, <4>1
      <4> QED BY <3>3, <4>2, <4>3
    <3> QED BY <3>1, <3>2, <3>3
  <2>3. h = [k \in 0..(m + 1) |-> IF k = 0 THEN 0 ELSE h[k - 1] + a[k]]
    <3>1. h = [k \in 0..(m + 1) |-> h[k]]
      OBVIOUS
    <3> HIDE DEF h
    <3> QED BY <2>2, <3>1
  <2> QED BY <2>3
<1> HIDE DEF Exists
<1>3. CASE Missing # {}
  <2>1. PICK m \in Missing : \A k \in Missing : m <= k
    BY <1>3, LeastOf
  <2>2. m # 0 /\ m - 1 \in Nat /\ m - 1 \notin Missing
    BY <1>1, <2>1
  <2>3. Exists((m - 1) + 1)
    BY <1>2, <2>2
  <2> QED BY <2>1, <2>3
<1>4. CASE Missing = {}
  BY <1>4 DEF Exists
<1> QED BY <1>3, <1>4

(* What SumOf computes.                                                    *)
LEMMA SumLaws ==
    ASSUME NEW n \in Nat, NEW a \in [1..n -> Nat]
    PROVE  \E g \in [0..n -> Nat] :
               g[0] = 0 /\ (\A k \in 1..n : g[k] = g[k - 1] + a[k]) /\ SumOf(a, n) = g[n]
<1> DEFINE g == CHOOSE g : g = [k \in 0..n |-> IF k = 0 THEN 0 ELSE g[k - 1] + a[k]]
<1>1. g = [k \in 0..n |-> IF k = 0 THEN 0 ELSE g[k - 1] + a[k]]
  BY SumExists
<1>2. SumOf(a, n) = g[n]
  BY DEF SumOf
<1> HIDE DEF g
<1>3. g[0] = 0 /\ \A k \in 1..n : g[k] = g[k - 1] + a[k]
  BY <1>1
<1> DEFINE Other == {k \in 0..n : g[k] \notin Nat}
<1>4. CASE Other # {}
  <2>1. PICK k \in Other : \A l \in Other : k <= l
    <3>1. Other \in SUBSET Nat
      OBVIOUS
    <3> HIDE DEF Other
    <3> QED BY <1>4, <3>1, LeastOf
  <2>2. k # 0 /\ k - 1 \in 0..n /\ k - 1 \notin Other
    BY <1>3, <2>1
  <2>3. g[k - 1] \in Nat /\ a[k] \in Nat /\ g[k] = g[k - 1] + a[k]
    BY <1>3, <2>2
  <2> QED BY <2>1, <2>3
<1>5. CASE Other = {}
  BY <1>1, <1>2, <1>3, <1>5
<1> QED BY <1>4, <1>5

(* Two columns of numbers that differ in one place, and at their end.      *)
LEMMA SumChanges ==
    ASSUME NEW n \in Nat, NEW a \in [1..n -> Nat], NEW b \in [1..(n + 1) -> Nat],
           NEW last \in 0..n,
           \A k \in 1..n : k # last => b[k] = a[k]
    PROVE  /\ SumOf(a, n) \in Nat /\ SumOf(b, n + 1) \in Nat
           /\ last = 0 => SumOf(b, n + 1) = SumOf(a, n) + b[n + 1]
           /\ last # 0 => SumOf(b, n + 1) + a[last] = SumOf(a, n) + b[last] + b[n + 1]
<1>1. PICK g \in [0..n -> Nat] :
        g[0] = 0 /\ (\A k \in 1..n : g[k] = g[k - 1] + a[k]) /\ SumOf(a, n) = g[n]
  BY SumLaws
<1>2. PICK h \in [0..(n + 1) -> Nat] :
        h[0] = 0 /\ (\A k \in 1..(n + 1) : h[k] = h[k - 1] + b[k]) /\ SumOf(b, n + 1) = h[n + 1]
  <2>1. n + 1 \in Nat
    OBVIOUS
  <2> QED BY <2>1, SumLaws
<1> DEFINE Agree(k) == IF last = 0 \/ k < last THEN h[k] = g[k]
                       ELSE h[k] + a[last] = g[k] + b[last]
           Other == {k \in 0..n : ~Agree(k)}
<1>3. Agree(0)
  BY <1>1, <1>2
<1>4. ASSUME NEW k \in 1..n, Agree(k - 1) PROVE Agree(k)
  <2>1. g[k] = g[k - 1] + a[k] /\ h[k] = h[k - 1] + b[k]
    BY <1>1, <1>2
  <2>2. /\ g[k] \in Nat /\ g[k - 1] \in Nat /\ h[k] \in Nat /\ h[k - 1] \in Nat
        /\ a[k] \in Nat /\ b[k] \in Nat
        /\ last # 0 => a[last] \in Nat /\ b[last] \in Nat
    BY <1>1, <1>2
  <2>3. CASE k = last
    BY <1>4, <2>1, <2>2, <2>3
  <2>4. CASE k # last
    <3>1. a[k] = b[k]
      BY <2>4
    <3>2. CASE last = 0 \/ k < last
      BY <1>4, <2>1, <2>2, <3>1, <3>2
    <3>3. CASE last # 0 /\ last < k
      <4>1. last <= k - 1
        BY <3>3
      <4>2. h[k - 1] + a[last] = g[k - 1] + b[last]
        BY <1>4, <3>3, <4>1
      <4>3. a[last] \in Nat /\ b[last] \in Nat
        BY <2>2, <3>3
      <4>4. h[k] + a[last] = g[k] + b[last]
        <5>1. h[k] = h[k - 1] + a[k] /\ g[k] = g[k - 1] + a[k]
          BY <2>1, <3>1
        <5>2. h[k - 1] \in Nat /\ g[k - 1] \in Nat /\ a[k] \in Nat
          BY <2>2
        <5>3. (h[k - 1] + a[k]) + a[last] = (g[k - 1] + a[k]) + b[last]
          <6> DEFINE x == h[k - 1]
                     y == g[k - 1]
                     p == a[last]
                     q == b[last]
                     c == a[k]
          <6>1. /\ x \in Nat /\ y \in Nat /\ p \in Nat /\ q \in Nat /\ c \in Nat
                /\ x + p = y + q
            BY <4>2, <4>3, <5>2
          <6> HIDE DEF x, y, p, q, c
          <6>2. (x + c) + p = (y + c) + q
            BY <6>1
          <6> QED BY <6>2 DEF x, y, p, q, c
        <5> QED BY <5>1, <5>3
      <4> QED BY <3>3, <4>4
    <3> QED BY <2>4, <3>2, <3>3
  <2> QED BY <2>3, <2>4
<1> HIDE DEF Agree
<1>5. Agree(n)
  <2>1. CASE Other # {}
    <3>1. PICK k \in Other : \A l \in Other : k <= l
      <4>1. Other \in SUBSET Nat
        OBVIOUS
      <4> HIDE DEF Other
      <4> QED BY <2>1, <4>1, LeastOf
    <3>2. k \in 1..n /\ Agree(k - 1)
      BY <1>3, <3>1
    <3> QED BY <1>4, <3>1, <3>2
  <2>2. CASE Other = {}
    BY <2>2
  <2> QED BY <2>1, <2>2
<1>6. h[n + 1] = h[n] + b[n + 1]
  BY <1>2
<1>7. /\ g[n] \in Nat /\ h[n] \in Nat /\ h[n + 1] \in Nat /\ b[n + 1] \in Nat
      /\ last # 0 => a[last] \in Nat /\ b[last] \in Nat
  BY <1>1, <1>2
<1>8. CASE last = 0
  <2>1. h[n] = g[n]
    BY <1>5, <1>8 DEF Agree
  <2> QED BY <1>1, <1>2, <1>6, <1>7, <1>8, <2>1
<1>9. CASE last # 0
  <2>1. h[n] + a[last] = g[n] + b[last]
    BY <1>5, <1>9 DEF Agree
  <2>2. h[n + 1] + a[last] = g[n] + b[last] + b[n + 1]
    <3>1. a[last] \in Nat /\ b[last] \in Nat
      BY <1>7, <1>9
    <3> QED BY <1>6, <1>7, <2>1, <3>1
  <2> QED BY <1>1, <1>2, <1>7, <1>9, <2>2
<1> QED BY <1>8, <1>9

LEMMA MaxOfInterval ==
    ASSUME NEW n \in Nat, NEW S \in SUBSET (1..(n + 1)), n + 1 \in S
    PROVE  Max(S) = n + 1
<1>1. \A y \in S : n + 1 >= y
  OBVIOUS
<1>2. \A x \in S : (\A y \in S : x >= y) => x = n + 1
  OBVIOUS
<1> QED BY <1>1, <1>2 DEF Max

(* The function that FoldLeft computes, from a column of lines.            *)
Folding(g, base, lines, n) ==
    g = [S \in SUBSET (1..n) |->
           IF S = {} THEN base ELSE Account(g[S \ {Max(S)}], lines[Max(S)])]

(* There is such a function.                                               *)
LEMMA FoldExists ==
    ASSUME NEW n \in Nat, NEW base, NEW lines
    PROVE  \E g : Folding(g, base, lines, n)
<1> DEFINE Exists(m) == \E g : Folding(g, base, lines, m)
           Missing == {m \in Nat : ~Exists(m)}
<1>1. Exists(0)
  <2> DEFINE h == [S \in SUBSET (1..0) |-> base]
  <2>1. h = [S \in SUBSET (1..0) |->
               IF S = {} THEN base ELSE Account(h[S \ {Max(S)}], lines[Max(S)])]
    OBVIOUS
  <2> HIDE DEF h
  <2> QED BY <2>1 DEF Folding
<1>2. ASSUME NEW m \in Nat, Exists(m) PROVE Exists(m + 1)
  <2>1. PICK g : g = [S \in SUBSET (1..m) |->
                        IF S = {} THEN base ELSE Account(g[S \ {Max(S)}], lines[Max(S)])]
    BY <1>2 DEF Folding
  <2> DEFINE h == [S \in SUBSET (1..(m + 1)) |->
                     IF m + 1 \in S THEN Account(g[S \ {m + 1}], lines[m + 1]) ELSE g[S]]
  <2>2. ASSUME NEW S \in SUBSET (1..(m + 1))
        PROVE  h[S] = IF S = {} THEN base ELSE Account(h[S \ {Max(S)}], lines[Max(S)])
    <3>1. CASE m + 1 \in S
      <4>1. Max(S) = m + 1 /\ S # {}
        BY <3>1, MaxOfInterval
      <4>2. S \ {m + 1} \in SUBSET (1..m) /\ S \ {m + 1} \in SUBSET (1..(m + 1))
        OBVIOUS
      <4>3. h[S \ {m + 1}] = g[S \ {m + 1}]
        BY <4>2
      <4>4. h[S] = Account(g[S \ {m + 1}], lines[m + 1])
        BY <3>1
      <4> HIDE DEF h
      <4> QED BY <4>1, <4>3, <4>4
    <3>2. CASE m + 1 \notin S
      <4>1. S \in SUBSET (1..m)
        BY <3>2
      <4>2. S \ {Max(S)} \in SUBSET (1..m) /\ S \ {Max(S)} \in SUBSET (1..(m + 1))
        BY <4>1
      <4>3. h[S] = g[S] /\ h[S \ {Max(S)}] = g[S \ {Max(S)}]
        BY <3>2, <4>2
      <4>4. g[S] = IF S = {} THEN base ELSE Account(g[S \ {Max(S)}], lines[Max(S)])
        BY <2>1, <4>1
      <4> HIDE DEF h
      <4> QED BY <4>3, <4>4
    <3> QED BY <3>1, <3>2
  <2>3. h = [S \in SUBSET (1..(m + 1)) |->
               IF S = {} THEN base ELSE Account(h[S \ {Max(S)}], lines[Max(S)])]
    <3>1. h = [S \in SUBSET (1..(m + 1)) |-> h[S]]
      OBVIOUS
    <3> HIDE DEF h
    <3> QED BY <2>2, <3>1
  <2> HIDE DEF h
  <2> QED BY <2>3 DEF Folding
<1> HIDE DEF Exists
<1>3. CASE Missing # {}
  <2>1. PICK m \in Missing : \A k \in Missing : m <= k
    BY <1>3, LeastOf
  <2>2. m # 0 /\ m - 1 \in Nat /\ m - 1 \notin Missing
    BY <1>1, <2>1
  <2>3. Exists((m - 1) + 1)
    BY <1>2, <2>2
  <2> QED BY <2>1, <2>3
<1>4. CASE Missing = {}
  BY <1>4 DEF Exists
<1> QED BY <1>3, <1>4

(* What collect_usage makes of a ledger.                                   *)
AccountAll(g, lines) == FoldLeft(Account, g, lines)

(* The ledgers that it goes through.                                       *)
AccountingSteps(g, base, lines, n) ==
    /\ g[0] = base
    /\ \A k \in 1..n : g[k] = Account(g[k - 1], lines[k])
    /\ AccountAll(base, lines) = g[n]

LEMMA FoldLaws ==
    ASSUME NEW base, NEW lines, NEW n \in Nat, DOMAIN lines = 1..n
    PROVE  \E g : AccountingSteps(g, base, lines, n)
<1> DEFINE iter == CHOOSE g : Folding(g, base, lines, n)
           g == [k \in 0..n |-> iter[1..k]]
<1>1. Folding(iter, base, lines, n)
  BY FoldExists
<1>2. AccountAll(base, lines) = iter[1..n]
  BY DEF AccountAll, FoldLeft, MapThenFoldSet, Folding
<1> HIDE DEF iter
<1>3. g[0] = base
  BY <1>1 DEF Folding
<1>4. ASSUME NEW k \in 1..n PROVE g[k] = Account(g[k - 1], lines[k])
  <2>1. 1..k \in SUBSET (1..n) /\ 1..k # {} /\ (1..k) \ {k} = 1..(k - 1)
    OBVIOUS
  <2>2. Max(1..k) = k
    BY DEF Max
  <2>3. iter[1..k] = Account(iter[1..(k - 1)], lines[k])
    BY <1>1, <2>1, <2>2 DEF Folding
  <2> QED BY <2>3
<1>5. g[n] = iter[1..n]
  OBVIOUS
<1> HIDE DEF g
<1>6. AccountingSteps(g, base, lines, n)
  BY <1>2, <1>3, <1>4, <1>5 DEF AccountingSteps
<1> QED BY <1>6

-----------------------------------------------------------------------------
(* The ledger.                                                             *)

Ledgers == [line : Nat, last : Nat, total : Nat]

LastReport(f, n, k) ==
    /\ k \in 0..n
    /\ k # 0 => Script[f][k] \in Reports
    /\ \A l \in 1..n : k < l => Script[f][l] \notin Reports

(* A ledger that has counted the lines of a file up to its own.            *)
Counted(f, g) ==
    /\ g \in Ledgers
    /\ g.line <= Len(Script[f])
    /\ g.total = Reported(f, g.line)
    /\ \E k \in 0..g.line :
         LastReport(f, g.line, k) /\ g.last = IF k = 0 THEN 0 ELSE Script[f][k].tokens

LedgerCounted ==
    /\ ledger \in [Files -> Ledgers]
    /\ \A f \in Files : ledger[f].line <= size[f] /\ Counted(f, ledger[f])

Column(f, n) == [k \in 1..n |-> IF k \in RunEnds(f, n) THEN Script[f][k].tokens ELSE 0]

LEMMA ColumnType ==
    ASSUME NEW f \in Files, NEW n \in Nat
    PROVE  /\ Column(f, n) \in [1..n -> Nat]
           /\ Reported(f, n) = SumOf(Column(f, n), n)
           /\ Reported(f, n) \in Nat
           /\ n = 0 => Reported(f, n) = 0
<1>1. \A k \in RunEnds(f, n) : Script[f][k].tokens \in Nat
  BY TokensAssumption DEF RunEnds, Reporting
<1>2. Column(f, n) \in [1..n -> Nat]
  BY <1>1 DEF Column
<1>3. Reported(f, n) = SumOf(Column(f, n), n)
  BY DEF Column, Reported
<1>4. PICK g \in [0..n -> Nat] : g[0] = 0 /\ SumOf(Column(f, n), n) = g[n]
  BY <1>2, SumLaws
<1> QED BY <1>2, <1>3, <1>4

(* A line that reports nothing changes no sum.                             *)
LEMMA QuietLine ==
    ASSUME NEW f \in Files, NEW n \in Nat, Script[f][n + 1] \notin Reports
    PROVE  Reported(f, n + 1) = Reported(f, n)
<1>1. Reporting(f, n + 1) = Reporting(f, n)
  BY DEF Reporting
<1>2. RunEnds(f, n + 1) = RunEnds(f, n) /\ n + 1 \notin RunEnds(f, n)
  BY <1>1 DEF RunEnds, Reporting
<1> DEFINE a == Column(f, n)
           b == Column(f, n + 1)
<1>3. (\A k \in 1..n : b[k] = a[k]) /\ b[n + 1] = 0
  BY <1>2 DEF Column
<1>4. a \in [1..n -> Nat] /\ b \in [1..(n + 1) -> Nat]
  <2>1. n + 1 \in Nat
    OBVIOUS
  <2> QED BY <2>1, ColumnType
<1>5. Reported(f, n) = SumOf(a, n) /\ Reported(f, n + 1) = SumOf(b, n + 1)
  BY ColumnType
<1> HIDE DEF a, b
<1>6. SumOf(a, n) \in Nat /\ SumOf(b, n + 1) = SumOf(a, n) + b[n + 1]
  <2>1. 0 \in 0..n
    OBVIOUS
  <2> QED BY <1>3, <1>4, <2>1, SumChanges
<1> QED BY <1>3, <1>5, <1>6

(* A report continues the run of the last one, whose count it replaces, or *)
(* is the first of a new run.                                              *)
LEMMA ReportLine ==
    ASSUME NEW f \in Files, NEW n \in Nat, Script[f][n + 1] \in Reports,
           NEW last \in 0..n, LastReport(f, n, last)
    PROVE  LET count == Script[f][n + 1].tokens
               before == IF last = 0 THEN 0 ELSE Script[f][last].tokens
           IN  /\ Reported(f, n) \in Nat /\ count \in Nat /\ before \in Nat
               /\ count < before => Reported(f, n + 1) = Reported(f, n) + count
               /\ ~(count < before) => Reported(f, n + 1) + before = Reported(f, n) + count
<1> DEFINE count == Script[f][n + 1].tokens
           a == Column(f, n)
           b == Column(f, n + 1)
<1>1. Reporting(f, n + 1) = Reporting(f, n) \cup {n + 1}
  BY DEF Reporting
<1>2. \A k \in Reporting(f, n) : k \in 1..n /\ k <= last
  BY DEF Reporting, LastReport
<1>3. n + 1 \in RunEnds(f, n + 1)
  BY <1>1, <1>2 DEF RunEnds
<1>4. last # 0 => last \in Reporting(f, n) /\ last \in RunEnds(f, n)
  BY <1>2 DEF RunEnds, Reporting, LastReport
<1>5. ASSUME NEW k \in 1..n, k # last
      PROVE  k \in RunEnds(f, n + 1) <=> k \in RunEnds(f, n)
  <2>1. CASE k \notin Reporting(f, n)
    BY <2>1, <1>1 DEF RunEnds
  <2>2. CASE k \in Reporting(f, n)
    <3>1. last \in Reporting(f, n) /\ k < last /\ last < n + 1
      BY <2>2, <1>2, <1>4, <1>5
    <3>2. ~ \A j \in Reporting(f, n + 1) : j <= k \/ n + 1 <= j
      BY <3>1, <1>1
    <3>3. \A l \in Reporting(f, n) :
             (\A j \in Reporting(f, n + 1) : j <= k \/ l <= j)
                <=> (\A j \in Reporting(f, n) : j <= k \/ l <= j)
      BY <1>1, <1>2
    <3>4. k \in Reporting(f, n + 1)
      BY <2>2, <1>1
    <3> HIDE DEF count, a, b
    <3> QED BY <2>2, <1>1, <3>2, <3>3, <3>4 DEF RunEnds
  <2> QED BY <2>1, <2>2
<1>6. last # 0 => (last \in RunEnds(f, n + 1) <=> count < Script[f][last].tokens)
  <2> SUFFICES ASSUME last # 0
               PROVE  last \in RunEnds(f, n + 1) <=> count < Script[f][last].tokens
    OBVIOUS
  <2>1. last \in Reporting(f, n + 1) /\ last < n + 1
    BY <1>1, <1>4
  <2>2. \A j \in Reporting(f, n + 1) : j <= last \/ n + 1 <= j
    BY <1>1, <1>2
  <2>3. \A l \in Reporting(f, n + 1) : last < l => l = n + 1
    BY <1>1, <1>2
  <2>4. n + 1 \in Reporting(f, n + 1)
    BY <1>1
  <2> QED BY <2>1, <2>2, <2>3, <2>4 DEF RunEnds
<1>7. count \in Nat /\ (last # 0 => Script[f][last].tokens \in Nat)
  BY TokensAssumption DEF LastReport
<1>8. /\ \A k \in 1..n : k # last => b[k] = a[k]
      /\ b[n + 1] = count
      /\ last # 0 => /\ a[last] = Script[f][last].tokens
                     /\ b[last] = IF count < Script[f][last].tokens THEN Script[f][last].tokens ELSE 0
  BY <1>3, <1>4, <1>5, <1>6 DEF Column
<1>9. a \in [1..n -> Nat] /\ b \in [1..(n + 1) -> Nat]
  <2>1. n + 1 \in Nat
    OBVIOUS
  <2> QED BY <2>1, ColumnType
<1>10. Reported(f, n) = SumOf(a, n) /\ Reported(f, n + 1) = SumOf(b, n + 1)
  BY ColumnType
<1> HIDE DEF a, b, count
<1>11. /\ SumOf(a, n) \in Nat /\ SumOf(b, n + 1) \in Nat
       /\ last = 0 => SumOf(b, n + 1) = SumOf(a, n) + b[n + 1]
       /\ last # 0 => SumOf(b, n + 1) + a[last] = SumOf(a, n) + b[last] + b[n + 1]
  BY <1>8, <1>9, SumChanges
<1>12. CASE last = 0
  BY <1>7, <1>8, <1>10, <1>11, <1>12 DEF count
<1>13. CASE last # 0
  <2> DEFINE before == Script[f][last].tokens
  <2>1. before \in Nat
    BY <1>7, <1>13
  <2>2. a[last] = before /\ b[last] = IF count < before THEN before ELSE 0
    BY <1>8, <1>13
  <2> HIDE DEF before
  <2>3. SumOf(b, n + 1) + before = SumOf(a, n) + (IF count < before THEN before ELSE 0) + count
    BY <1>8, <1>11, <1>13, <2>2
  <2>4. /\ count < before => SumOf(b, n + 1) = SumOf(a, n) + count
        /\ ~(count < before) => SumOf(b, n + 1) + before = SumOf(a, n) + count
    BY <1>7, <1>11, <2>1, <2>3
  <2> QED BY <1>7, <1>10, <1>11, <1>13, <2>1, <2>4 DEF count, before
<1> QED BY <1>12, <1>13

LEMMA AccountCounts ==
    ASSUME NEW f \in Files, NEW g, Counted(f, g), g.line < Len(Script[f])
    PROVE  LET next == Account(g, Script[f][g.line + 1])
           IN  Counted(f, next) /\ next.line = g.line + 1
<1> DEFINE n == g.line
           l == Script[f][n + 1]
           next == Account(g, l)
<1>1. /\ g \in Ledgers /\ n \in Nat /\ Len(Script[f]) \in Nat /\ n + 1 <= Len(Script[f])
      /\ g.total = Reported(f, n)
  BY ScriptLines DEF Counted, Ledgers
<1>2. PICK last \in 0..n :
        LastReport(f, n, last) /\ g.last = IF last = 0 THEN 0 ELSE Script[f][last].tokens
  BY DEF Counted
<1>3. CASE l \notin Reports
  <2>1. next = [line |-> n + 1, last |-> g.last, total |-> g.total]
    BY <1>1, <1>3 DEF Account, Ledgers
  <2>2. next \in Ledgers
    BY <1>1, <2>1 DEF Ledgers
  <2>3. LastReport(f, n + 1, last)
    BY <1>1, <1>2, <1>3 DEF LastReport
  <2>4. Reported(f, n + 1) = Reported(f, n)
    BY <1>1, <1>3, QuietLine
  <2>5. next.line = n + 1 /\ next.last = g.last /\ next.total = g.total
    BY <2>1
  <2>6. last \in 0..(n + 1)
    BY <1>1
  <2> HIDE DEF next, n, l
  <2> QED BY <1>1, <1>2, <2>2, <2>3, <2>4, <2>5, <2>6 DEF Counted, next, n, l
<1>4. CASE l \in Reports
  <2> DEFINE total == g.total + (IF l.tokens < g.last THEN l.tokens ELSE l.tokens - g.last)
  <2>1. next = [line |-> n + 1, last |-> l.tokens, total |-> total]
    BY <1>4 DEF Account
  <2>2. /\ Reported(f, n) \in Nat /\ l.tokens \in Nat /\ g.last \in Nat
        /\ l.tokens < g.last => Reported(f, n + 1) = Reported(f, n) + l.tokens
        /\ ~(l.tokens < g.last) => Reported(f, n + 1) + g.last = Reported(f, n) + l.tokens
    BY <1>1, <1>2, <1>4, ReportLine
  <2>3. Reported(f, n + 1) \in Nat
    <3>1. n + 1 \in Nat
      BY <1>1
    <3> QED BY <3>1, ColumnType
  <2>4. total = Reported(f, n + 1)
    <3> DEFINE x == Reported(f, n)
               y == Reported(f, n + 1)
               c == l.tokens
    <3> HIDE DEF x, y, c
    <3>1. /\ x \in Nat /\ y \in Nat /\ c \in Nat /\ g.last \in Nat /\ g.total = x
          /\ c < g.last => y = x + c
          /\ ~(c < g.last) => y + g.last = x + c
      BY <1>1, <2>2, <2>3 DEF x, y, c
    <3>2. x + (IF c < g.last THEN c ELSE c - g.last) = y
      BY <3>1
    <3> QED BY <3>1, <3>2 DEF x, y, c
  <2>5. next \in Ledgers
    BY <1>1, <2>1, <2>2, <2>3, <2>4 DEF Ledgers
  <2>6. LastReport(f, n + 1, n + 1) /\ n + 1 # 0 /\ n + 1 \in 0..(n + 1)
    BY <1>1, <1>4 DEF LastReport
  <2>7. next.line = n + 1 /\ next.last = l.tokens /\ next.total = Reported(f, n + 1)
    BY <2>1, <2>4
  <2> HIDE DEF next, n
  <2>8. \E k \in 0..(n + 1) :
          LastReport(f, n + 1, k) /\ next.last = IF k = 0 THEN 0 ELSE Script[f][k].tokens
    BY <2>6, <2>7
  <2> HIDE DEF l
  <2> QED BY <1>1, <2>5, <2>7, <2>8 DEF Counted, next, n, l
<1> QED BY <1>3, <1>4

LEMMA FoldCounts ==
    ASSUME NEW f \in Files, NEW g, Counted(f, g), NEW n \in Nat, NEW lines,
           DOMAIN lines = 1..n, g.line + n <= Len(Script[f]),
           \A k \in 1..n : lines[k] = Script[f][g.line + k]
    PROVE  LET after == AccountAll(g, lines)
           IN  Counted(f, after) /\ after.line = g.line + n
<1>1. PICK h : AccountingSteps(h, g, lines, n)
  BY FoldLaws
<1>2. g.line \in Nat /\ Len(Script[f]) \in Nat
  BY ScriptLines DEF Counted, Ledgers
<1> DEFINE Good(k) == Counted(f, h[k]) /\ h[k].line = g.line + k
           Bad == {k \in 0..n : ~Good(k)}
<1>3. Good(0)
  BY <1>1, <1>2 DEF AccountingSteps
<1>4. ASSUME NEW k \in 1..n, Good(k - 1) PROVE Good(k)
  <2>1. /\ Counted(f, h[k - 1]) /\ h[k - 1].line = g.line + (k - 1)
        /\ h[k - 1].line + 1 = g.line + k
        /\ h[k - 1].line < Len(Script[f])
    BY <1>2, <1>4
  <2>2. h[k] = Account(h[k - 1], Script[f][h[k - 1].line + 1])
    BY <1>1, <2>1 DEF AccountingSteps
  <2> QED BY <2>1, <2>2, AccountCounts
<1> HIDE DEF Good
<1>5. CASE Bad # {}
  <2>1. PICK k \in Bad : \A l \in Bad : k <= l
    <3>1. Bad \in SUBSET Nat
      OBVIOUS
    <3> HIDE DEF Bad
    <3> QED BY <1>5, <3>1, LeastOf
  <2>2. k \in 1..n /\ Good(k - 1)
    BY <1>3, <2>1
  <2> QED BY <1>4, <2>1, <2>2
<1>6. CASE Bad = {}
  <2>1. Good(n)
    BY <1>6
  <2> QED BY <1>1, <2>1 DEF Good, AccountingSteps
<1> QED BY <1>5, <1>6

LEMMA LesserOfTwo ==
    ASSUME NEW a \in Nat, NEW b \in Nat
    PROVE  Min({a, b}) = IF a <= b THEN a ELSE b
<1> DEFINE m == IF a <= b THEN a ELSE b
<1>1. m \in {a, b} /\ \A y \in {a, b} : m <= y
  OBVIOUS
<1>2. \A x \in {a, b} : (\A y \in {a, b} : x <= y) => x = m
  OBVIOUS
<1> HIDE DEF m
<1>3. Min({a, b}) = m
  BY <1>1, <1>2 DEF Min
<1> QED BY <1>3 DEF m

(* What collect_usage reads is the next lines of the file.                 *)
LEMMA UsageLinesLaws ==
    ASSUME IInv, NEW f \in Files, LedgerCounted
    PROVE  \E n \in Nat :
             /\ DOMAIN UsageLines(f) = 1..n
             /\ ledger[f].line + n <= size[f] /\ size[f] <= Len(Script[f])
             /\ \A k \in 1..n : UsageLines(f)[k] = Script[f][ledger[f].line + k]
<1> DEFINE from == ledger[f].line
           to == Min({size[f], from + MaxUsage})
<1>1. /\ from \in Nat /\ size[f] \in Nat /\ Len(Script[f]) \in Nat /\ from <= size[f]
      /\ size[f] <= Len(Script[f]) /\ from + MaxUsage \in Nat /\ from <= from + MaxUsage
  BY ScriptLines, UsageAssumption DEF LedgerCounted, Counted, Ledgers, IInv, TypeOK
<1>2. to \in Nat /\ from <= to /\ to <= size[f]
  BY <1>1, LesserOfTwo
<1> HIDE DEF to
<1>3. UsageLines(f) = SubSeq(Script[f], from + 1, to)
  BY DEF UsageLines, to
<1> HIDE DEF from
<1>4. \A i \in (from + 1)..to : Script[f][i] \in LinesOfAll
  BY <1>1, <1>2, ScriptLines
<1>5. /\ UsageLines(f) \in Seq(LinesOfAll)
      /\ Len(UsageLines(f)) = IF from + 1 <= to THEN to - (from + 1) + 1 ELSE 0
      /\ \A i \in 1..(to - (from + 1) + 1) : UsageLines(f)[i] = Script[f][from + 1 + i - 1]
  BY <1>1, <1>2, <1>3, <1>4, SubSeqProperties
<1>6. /\ to - from \in Nat /\ DOMAIN UsageLines(f) = 1..(to - from)
      /\ from + (to - from) <= size[f]
      /\ \A k \in 1..(to - from) : UsageLines(f)[k] = Script[f][from + k]
  BY <1>1, <1>2, <1>5
<1> QED BY <1>1, <1>6 DEF from

LEMMA LedgerInit == Init => LedgerCounted
<1> SUFFICES ASSUME Init, NEW f \in Files
             PROVE  ledger[f].line <= size[f] /\ Counted(f, ledger[f])
  BY DEF LedgerCounted, Init, Ledgers
<1>1. size[f] = 0 /\ ledger[f] = [line |-> 0, last |-> 0, total |-> 0]
  BY DEF Init
<1>2. Reported(f, 0) = 0
  BY ColumnType
<1>3. LastReport(f, 0, 0)
  BY DEF LastReport
<1> QED BY <1>1, <1>2, <1>3, ScriptLines DEF Counted, Ledgers

LEMMA LedgerStep == IInv /\ LedgerCounted /\ [Next]_vars => LedgerCounted'
<1> SUFFICES ASSUME IInv, LedgerCounted, [Next]_vars PROVE LedgerCounted'
  OBVIOUS
<1>1. ASSUME NEW w \in Workers, NEW f \in Files, BeginBatch(w, f) PROVE LedgerCounted'
  <2>1. size' = size /\ ledger' = [ledger EXCEPT ![f] = AccountAll(ledger[f], UsageLines(f))]
    BY <1>1 DEF BeginBatch, CollectUsage, AccountAll
  <2> DEFINE after == AccountAll(ledger[f], UsageLines(f))
  <2>2. PICK n \in Nat :
             /\ DOMAIN UsageLines(f) = 1..n
             /\ ledger[f].line + n <= size[f] /\ size[f] <= Len(Script[f])
             /\ \A k \in 1..n : UsageLines(f)[k] = Script[f][ledger[f].line + k]
    BY UsageLinesLaws
  <2>3. Counted(f, ledger[f]) /\ ledger[f].line + n <= Len(Script[f])
    <3>1. ledger[f].line \in Nat /\ size[f] \in Nat /\ Len(Script[f]) \in Nat
      BY ScriptLines DEF LedgerCounted, Counted, Ledgers, IInv, TypeOK
    <3> QED BY <2>2, <3>1 DEF LedgerCounted
  <2>4. Counted(f, after) /\ after.line = ledger[f].line + n
    BY <2>2, <2>3, FoldCounts
  <2> HIDE DEF after
  <2>5. ASSUME NEW g \in Files PROVE ledger'[g].line <= size'[g] /\ Counted(g, ledger'[g])
    <3>1. ledger' = [ledger EXCEPT ![f] = after]
      BY <2>1 DEF after
    <3>2. CASE g = f
      BY <2>1, <2>2, <2>4, <3>1, <3>2 DEF LedgerCounted
    <3>3. CASE g # f
      BY <2>1, <3>1, <3>3 DEF LedgerCounted
    <3> QED BY <3>2, <3>3
  <2>6. ledger' \in [Files -> Ledgers]
    BY <2>1, <2>4 DEF LedgerCounted, Counted, after
  <2> QED BY <2>5, <2>6 DEF LedgerCounted
<1>2. ASSUME NEW f \in Files, Write(f) PROVE LedgerCounted'
  <2>1. ledger' = ledger /\ size' = [size EXCEPT ![f] = @ + 1]
    BY <1>2 DEF Write
  <2>2. \A g \in Files : size[g] \in Nat /\ size'[g] \in Nat /\ size[g] <= size'[g]
    BY <2>1 DEF IInv, TypeOK
  <2>3. \A g \in Files : ledger[g].line \in Nat
    BY DEF LedgerCounted, Ledgers
  <2>4. \A g \in Files : ledger[g].line <= size'[g]
    BY <2>2, <2>3 DEF LedgerCounted
  <2> QED BY <2>1, <2>4 DEF LedgerCounted
<1>3. CASE UNCHANGED <<size, ledger>>
  BY <1>3 DEF LedgerCounted
<1>4. ASSUME NEW w \in Workers, Advance(w), \A f \in Files : ~BeginBatch(w, f)
      PROVE  UNCHANGED <<size, ledger>>
  BY <1>4 DEF Advance, PassOver, FailUsage, PassLine, CaptureLine, FailLine, EndBatch
<1>5. ASSUME NEW w \in Workers, StartTick(w) \/ StartWatch(w) \/ Crash(w)
      PROVE  UNCHANGED <<size, ledger>>
  BY <1>5 DEF StartTick, StartWatch, Crash
<1>6. CASE UNCHANGED vars
  BY <1>3, <1>6 DEF vars
<1>7. CASE Next
  BY <1>1, <1>2, <1>3, <1>4, <1>5, <1>7 DEF Next
<1> QED BY <1>6, <1>7

(* The ledger has counted every token that its lines report, and none      *)
(* twice (collect_usage).                                                  *)
THEOREM CheckpointCoveredHolds == Spec => []CheckpointCovered
<1>1. Spec => []LedgerCounted
  BY Inductive, LedgerInit, LedgerStep, PTL DEF Spec
<1>2. LedgerCounted => LedgerExact
  BY DEF LedgerCounted, LedgerExact, Counted
<1> QED BY <1>1, <1>2, CheckpointSoundHolds, PTL DEF CheckpointCovered

=============================================================================
