---------------------------- MODULE BackupProofs ----------------------------
(* Cursors, round numbers and pages of Backup, proved for every archive,   *)
(* every session, every sender and every retention.  The bridge and a      *)
(* backup exclude each other (LockKept); a copy in progress is described   *)
(* by what the lock holds still meanwhile (CopySound); and what is kept    *)
(* satisfies what the live archive satisfies (KeptSound), so that it may   *)
(* take its place in a restore.                                            *)
EXTENDS Backup, FiniteSetTheorems, TLAPS

-----------------------------------------------------------------------------
(* The inductive invariant.                                                *)

Messages == {b.msg : b \in Bridge!Blocks \ {Bad}} \cup {Lines[k] : k \in DOMAIN Lines}

Entries == [msg : Messages, block : SUBSET Bridge!Blocks, version : BOOLEAN,
            round : Nat, completes : BOOLEAN]

Cursors == [DOMAIN Source -> [offset : Nat, stamp : Nat, pending : BOOLEAN]]

Replicas == [records : SUBSET Nat, summaries : SUBSET Nat]

Pages == [from : Nat, to : Nat, summaries : SUBSET Nat]

Snapshots ==
    [log : Seq(Entries), rounds : [Convs -> Counters],
     peerCursor : Nat, excluded : SUBSET Convs,
     replica : Replicas, checkpoint : 0..Len(Lines),
     evidence : SUBSET Bridge!Blocks, saved : Cursors]

BridgeType ==
    /\ size \in [DOMAIN Source -> Nat]
    /\ log \in Seq(Entries) /\ rounds \in [Convs -> Counters]
    /\ excluded \in SUBSET Convs /\ evidence \in SUBSET Bridge!Blocks /\ saved \in Cursors
    /\ bridge \in [at : {"idle", "next", "read", "evidence"}, file : Nat, pos : Nat, limit : Nat]
    /\ bridge.at # "idle" => bridge.file \in DOMAIN Source
    /\ captured \in 0..Len(Lines) /\ checkpoint \in 0..captured

PeerType ==
    /\ produced \in Nat
    /\ replica \in Replicas /\ peerCursor \in Nat
    /\ receiving \in SUBSET [page : Pages, imported : BOOLEAN]

(* The bridge's and the backup's use of the archive's lock.                *)
Reading == bridge.at \in {"read", "evidence"}
Holding == backup.at \in {"index", "cursor", "directories"}

LockKept ==
    /\ lock \in {"free", "bridge", "backup"}
    /\ Reading <=> lock = "bridge"
    /\ Holding <=> lock = "backup"

OffsetsCovered(l, ex, ev, sv) ==
    \A f \in DOMAIN Source : \A k \in 1..sv[f].offset : Bridge!Accounted(Source[f][k], l, ex, ev)

LinesCovered(l, n) ==
    \A k \in 1..n : \E i \in DOMAIN l : l[i].msg = Lines[k] /\ ~l[i].version

(* The run of the bridge has accounted for all it passed, and what it is   *)
(* about to explain is there.                                              *)
RunCovered ==
    Reading =>
        /\ \A k \in 1..bridge.pos :
               Bridge!Accounted(Source[bridge.file][k], log, excluded, evidence)
        /\ bridge.at = "evidence" => Bridge!Version(Source[bridge.file][bridge.pos + 1])

BridgeCovered ==
    /\ OffsetsCovered(log, excluded, evidence, saved)
    /\ RunCovered
    /\ LinesCovered(log, captured)

(* Every record is of an earlier round than the next, a pending one too.   *)
Numbered(l, r) ==
    /\ \A i \in DOMAIN l : l[i].round < r[l[i].msg.conv].next
    /\ \A c \in Convs : r[c].pending < r[c].next

(* A page being received continues the cursor, and is in the replica when  *)
(* it was imported.                                                        *)
PeerCovered ==
    /\ 1..peerCursor \subseteq replica.records
    /\ \A r \in receiving : /\ r.page.from = peerCursor + 1
                            /\ r.imported => Peer!Records(r.page) \subseteq replica.records

Sound(s) == Covered(s) /\ Numbered(s.log, s.rounds)

(* What was copied under the lock is still so; once the copy is complete   *)
(* it stands by itself.                                                    *)
CopySound ==
    /\ backup = [at |-> backup.at, generation |-> backup.generation, copy |-> backup.copy]
    /\ backup.at \in {"idle", "wait", "index", "cursor", "directories", "publish", "prune"}
    /\ backup.at = "cursor" => backup.copy.log = log /\ backup.copy.rounds = rounds
    /\ backup.at = "directories" =>
           /\ backup.copy.log = log /\ backup.copy.rounds = rounds
           /\ backup.copy.excluded = excluded
           /\ backup.copy.peerCursor \in Nat
           /\ 1..backup.copy.peerCursor \subseteq replica.records
    /\ backup.at = "publish" => backup.copy \in Snapshots /\ Sound(backup.copy)

KeptSound == kept \in Seq({s \in Snapshots : Sound(s)})

BridgeInv == BridgeType /\ BridgeCovered /\ Numbered(log, rounds)
PeerInv == PeerType /\ PeerCovered

IInv == LockKept /\ BridgeInv /\ PeerInv /\ CopySound /\ KeptSound

-----------------------------------------------------------------------------
(* Facts about the operators.                                              *)

(* What an append does to a sequence.                                      *)
LEMMA AppendLaw ==
    ASSUME NEW S, NEW s \in Seq(S), NEW e \in S
    PROVE  /\ Append(s, e) \in Seq(S)
           /\ DOMAIN s = 1..Len(s) /\ Len(s) \in Nat
           /\ DOMAIN Append(s, e) = 1..Len(s) + 1
           /\ \A i \in DOMAIN s : Append(s, e)[i] = s[i]
           /\ Append(s, e)[Len(s) + 1] = e
OBVIOUS

(* A block that is accounted for stays so while the log grows at its end.  *)
LEMMA AccountedGrows ==
    ASSUME NEW b, NEW l, NEW l2, NEW ex, NEW ex2, NEW ev, NEW ev2,
           DOMAIN l \subseteq DOMAIN l2, \A i \in DOMAIN l : l2[i] = l[i],
           ex \subseteq ex2, ev \subseteq ev2, Bridge!Accounted(b, l, ex, ev)
    PROVE  Bridge!Accounted(b, l2, ex2, ev2)
BY DEF Bridge!Accounted

(* The cursors of the bridge and of the collector stay covered likewise.   *)
LEMMA CoverGrows ==
    ASSUME NEW l, NEW l2, NEW ex, NEW ex2, NEW ev, NEW ev2, NEW sv, NEW n,
           DOMAIN l \subseteq DOMAIN l2, \A i \in DOMAIN l : l2[i] = l[i],
           ex \subseteq ex2, ev \subseteq ev2
    PROVE  /\ OffsetsCovered(l, ex, ev, sv) => OffsetsCovered(l2, ex2, ev2, sv)
           /\ LinesCovered(l, n) => LinesCovered(l2, n)
<1>1. OffsetsCovered(l, ex, ev, sv) => OffsetsCovered(l2, ex2, ev2, sv)
  BY AccountedGrows DEF OffsetsCovered
<1>2. LinesCovered(l, n) => LinesCovered(l2, n)
  BY DEF LinesCovered
<1> QED BY <1>1, <1>2

(* The parts of Covered.                                                   *)
LEMMA CoveredParts ==
    ASSUME NEW a
    PROVE  Covered(a) <=> /\ OffsetsCovered(a.log, a.excluded, a.evidence, a.saved)
                          /\ LinesCovered(a.log, a.checkpoint)
                          /\ 1..a.peerCursor \subseteq a.replica.records
BY DEF Covered, OffsetsCovered, LinesCovered

(* append_message keeps the counters' type, and moves them past the round  *)
(* that it gives.                                                          *)
LEMMA CountersAppend ==
    ASSUME NEW kind \in Kinds, NEW c \in Counters, c.pending < c.next
    PROVE  /\ Bridge!CountersAfter(kind, c) \in Counters
           /\ Bridge!RoundOf(kind, c) \in Nat
           /\ Bridge!Completes(kind, c) \in BOOLEAN
           /\ c.next <= Bridge!CountersAfter(kind, c).next
           /\ Bridge!RoundOf(kind, c) < Bridge!CountersAfter(kind, c).next
           /\ Bridge!CountersAfter(kind, c).pending < Bridge!CountersAfter(kind, c).next
BY DEF Kinds, Counters, Bridge!CountersAfter, Bridge!RoundOf, Bridge!Completes,
       Bridge!OpenRound, Bridge!Opens, Bridge!NoRound

(* So does the import of a numbered block, whatever number it has.         *)
LEMMA CountersImport ==
    ASSUME NEW b, b.round \in Nat, NEW c \in Counters, c.pending < c.next
    PROVE  /\ Bridge!NativeCounters(b, c) \in Counters
           /\ c.next <= Bridge!NativeCounters(b, c).next
           /\ b.round < Bridge!NativeCounters(b, c).next
           /\ Bridge!NativeCounters(b, c).pending < Bridge!NativeCounters(b, c).next
<1> DEFINE top == Bridge!Max({c.next, b.round + 1})
<1>1. top \in Nat \ {0} /\ c.next <= top /\ b.round < top
  BY DEF Bridge!Max, Counters
<1> HIDE DEF top
<1>2. Bridge!NativeCounters(b, c).next = top
  BY DEF Bridge!NativeCounters, top
<1>3. Bridge!NativeCounters(b, c).pending \in {0, b.round, c.pending}
  BY DEF Bridge!NativeCounters, Bridge!NoRound
<1>4. Bridge!NativeCounters(b, c)
          = [next |-> top, pending |-> Bridge!NativeCounters(b, c).pending]
  BY DEF Bridge!NativeCounters, top
<1> QED BY <1>1, <1>2, <1>3, <1>4 DEF Counters

(* What is appended is of an earlier round than the next one then.         *)
LEMMA NumberedAppend ==
    ASSUME NEW l \in Seq(Entries), NEW r \in [Convs -> Counters], Numbered(l, r),
           NEW e \in Entries, e.msg.conv \in Convs,
           \A m \in Messages : m.conv \in Convs,
           NEW c \in Counters, r[e.msg.conv].next <= c.next, e.round < c.next,
           c.pending < c.next
    PROVE  Numbered(Append(l, e), [r EXCEPT ![e.msg.conv] = c])
<1> DEFINE l2 == Append(l, e)
           r2 == [r EXCEPT ![e.msg.conv] = c]
<1>1. \A i \in DOMAIN l : l[i] \in Entries /\ l[i].msg.conv \in Convs /\ l[i].round \in Nat
  <2> SUFFICES ASSUME NEW i \in DOMAIN l
               PROVE  l[i] \in Entries /\ l[i].msg.conv \in Convs /\ l[i].round \in Nat
    OBVIOUS
  <2>1. l[i] \in Entries
    OBVIOUS
  <2> QED BY <2>1 DEF Entries
<1>2. /\ DOMAIN l2 = 1..Len(l) + 1 /\ DOMAIN l = 1..Len(l) /\ Len(l) \in Nat
      /\ \A i \in DOMAIN l : l2[i] = l[i]
      /\ l2[Len(l) + 1] = e
  BY AppendLaw
<1>3. \A d \in Convs : r2[d] = IF d = e.msg.conv THEN c ELSE r[d]
  OBVIOUS
<1> HIDE DEF l2, r2
<1>4. \A d \in Convs : r[d] \in Counters /\ r[d].next \in Nat /\ r[d].next <= r2[d].next /\ r2[d].next \in Nat
  BY <1>3 DEF Counters
<1>5. \A i \in DOMAIN l2 : l2[i].round < r2[l2[i].msg.conv].next
  <2> SUFFICES ASSUME NEW i \in DOMAIN l2
               PROVE  l2[i].round < r2[l2[i].msg.conv].next
    OBVIOUS
  <2>1. CASE i = Len(l) + 1
    BY <2>1, <1>2, <1>3
  <2>2. CASE i \in DOMAIN l
    <3>1. l[i].round < r[l[i].msg.conv].next
      BY <2>2 DEF Numbered
    <3> QED BY <3>1, <2>2, <1>1, <1>2, <1>4
  <2> QED BY <1>2, <2>1, <2>2
<1>6. \A d \in Convs : r2[d].pending < r2[d].next
  BY <1>3 DEF Numbered
<1> QED BY <1>5, <1>6 DEF Numbered, l2, r2

(* A message of the session or of a native block, and the block itself.    *)
LEMMA MessageFacts ==
    /\ \A m \in Messages : m.conv \in Convs /\ m.kind \in Kinds
    /\ \A b \in Bridge!Blocks \ {Bad} : b.msg \in Messages /\ b.round \in Nat
    /\ \A k \in 1..Len(Lines) : Lines[k] \in Messages
BY SourceAssumption, LinesAssumption DEF Messages

-----------------------------------------------------------------------------
(* The bridge and the session collector.                                   *)

(* The archive only grows.                                                 *)
Grows ==
    /\ DOMAIN log \subseteq DOMAIN log' /\ \A i \in DOMAIN log : log'[i] = log[i]
    /\ excluded \subseteq excluded' /\ evidence \subseteq evidence'

(* What was covered stays covered while the archive grows.                 *)
LEMMA GrowthKeeps ==
    ASSUME BridgeType, BridgeCovered, Grows
    PROVE  /\ OffsetsCovered(log', excluded', evidence', saved)
           /\ LinesCovered(log', captured)
           /\ Reading => \A k \in 1..bridge.pos :
                  Bridge!Accounted(Source[bridge.file][k], log', excluded', evidence')
           /\ bridge.at = "evidence" =>
                  \E i \in DOMAIN log' : /\ log'[i].version
                                         /\ log'[i].block = {Source[bridge.file][bridge.pos + 1]}
<1>1. OffsetsCovered(log', excluded', evidence', saved)
  BY CoverGrows DEF Grows, BridgeCovered
<1>2. LinesCovered(log', captured)
  BY CoverGrows DEF Grows, BridgeCovered
<1>3. ASSUME Reading, NEW k \in 1..bridge.pos
      PROVE  Bridge!Accounted(Source[bridge.file][k], log', excluded', evidence')
  BY <1>3, AccountedGrows DEF Grows, BridgeCovered, RunCovered
<1>4. ASSUME bridge.at = "evidence"
      PROVE  \E i \in DOMAIN log' : /\ log'[i].version
                                    /\ log'[i].block = {Source[bridge.file][bridge.pos + 1]}
  BY <1>4 DEF Grows, BridgeCovered, RunCovered, Reading, Bridge!Version
<1> QED BY <1>1, <1>2, <1>3, <1>4

(* An append is such a growth, and keeps the numbering if the counters of  *)
(* its conversation move past its round.                                   *)
LEMMA AppendKeeps ==
    ASSUME BridgeType, Numbered(log, rounds), NEW e \in Entries, NEW c \in Counters,
           log' = Append(log, e), rounds' = [rounds EXCEPT ![e.msg.conv] = c],
           rounds[e.msg.conv].next <= c.next, e.round < c.next, c.pending < c.next,
           excluded' = excluded, evidence' = evidence
    PROVE  /\ log' \in Seq(Entries) /\ rounds' \in [Convs -> Counters]
           /\ Grows /\ Numbered(log', rounds')
           /\ Len(log) + 1 \in DOMAIN log' /\ log'[Len(log) + 1] = e
<1>1. e.msg \in Messages /\ e.msg.conv \in Convs
  BY MessageFacts DEF Entries
<1>2. log \in Seq(Entries) /\ rounds \in [Convs -> Counters]
  BY DEF BridgeType
<1>3. /\ Append(log, e) \in Seq(Entries)
      /\ DOMAIN log = 1..Len(log) /\ Len(log) \in Nat
      /\ DOMAIN Append(log, e) = 1..Len(log) + 1
      /\ \A i \in DOMAIN log : Append(log, e)[i] = log[i]
      /\ Append(log, e)[Len(log) + 1] = e
  BY <1>2, AppendLaw
<1>4. Numbered(Append(log, e), [rounds EXCEPT ![e.msg.conv] = c])
  BY <1>1, <1>2, MessageFacts, NumberedAppend
<1>5. rounds' \in [Convs -> Counters]
  BY <1>1, <1>2
<1> QED BY <1>3, <1>4, <1>5 DEF Grows

(* The session's next line is appended with its own round, or is there.    *)
LEMMA CaptureKeeps ==
    ASSUME LockKept, BridgeInv, Bridge!Capture, UNCHANGED backup
    PROVE  BridgeInv' /\ LockKept'
<1> DEFINE m == Lines[captured + 1]
<1>1. /\ BridgeType /\ BridgeCovered /\ Numbered(log, rounds)
      /\ lock = "free" /\ captured < Len(Lines) /\ captured' = captured + 1
      /\ UNCHANGED <<size, excluded, evidence, saved, bridge, checkpoint, lock>>
  BY DEF BridgeInv, Bridge!Capture
<1>2. captured \in Nat /\ Len(Lines) \in Nat /\ captured + 1 \in 1..Len(Lines)
      /\ checkpoint \in 0..captured'
  BY <1>1, LinesAssumption DEF BridgeType
<1>3. m \in Messages /\ m.conv \in Convs /\ m.kind \in Kinds
  BY <1>2, MessageFacts
<1>4. ~Reading /\ ~Reading'
  BY <1>1 DEF LockKept, Reading
<1>5. /\ log' \in Seq(Entries) /\ rounds' \in [Convs -> Counters]
      /\ Grows /\ Numbered(log', rounds')
      /\ \E i \in DOMAIN log' : log'[i].msg = m /\ ~log'[i].version
  <2>1. CASE Bridge!Stored(m.id) # {}
    <3>1. log' = log /\ rounds' = rounds /\ \A i \in Bridge!Stored(m.id) : log[i].msg = m
      BY <2>1 DEF Bridge!Capture
    <3>2. \E i \in DOMAIN log : log[i].msg = m /\ ~log[i].version
      BY <2>1, <3>1 DEF Bridge!Stored
    <3> QED BY <3>1, <3>2, <1>1 DEF Grows, BridgeType
  <2>2. CASE Bridge!Stored(m.id) = {}
    <3> DEFINE old == rounds[m.conv]
               e == [msg |-> m, block |-> {}, version |-> FALSE,
                     round |-> Bridge!RoundOf(m.kind, old),
                     completes |-> Bridge!Completes(m.kind, old)]
               c == Bridge!CountersAfter(m.kind, old)
    <3>1. log' = Append(log, e) /\ rounds' = [rounds EXCEPT ![m.conv] = c]
      BY <2>2 DEF Bridge!Capture
    <3>2. old \in Counters /\ old.pending < old.next
      BY <1>1, <1>3 DEF BridgeType, Numbered
    <3>3. /\ c \in Counters /\ Bridge!RoundOf(m.kind, old) \in Nat
          /\ Bridge!Completes(m.kind, old) \in BOOLEAN
          /\ old.next <= c.next /\ Bridge!RoundOf(m.kind, old) < c.next
          /\ c.pending < c.next
      BY <1>3, <3>2, CountersAppend
    <3>4. e \in Entries /\ e.msg = m /\ e.round < c.next /\ ~e.version
      BY <1>3, <3>3 DEF Entries
    <3> HIDE DEF e, c
    <3>5. /\ log' \in Seq(Entries) /\ rounds' \in [Convs -> Counters]
          /\ Grows /\ Numbered(log', rounds')
          /\ Len(log) + 1 \in DOMAIN log' /\ log'[Len(log) + 1] = e
      BY <1>1, <3>1, <3>3, <3>4, AppendKeeps
    <3> QED BY <3>4, <3>5
  <2> QED BY <2>1, <2>2
<1>6. OffsetsCovered(log', excluded', evidence', saved) /\ LinesCovered(log', captured)
  BY <1>1, <1>5, GrowthKeeps
<1>7. LinesCovered(log', captured')
  BY <1>1, <1>2, <1>5, <1>6 DEF LinesCovered
<1>8. BridgeType'
  BY <1>1, <1>2, <1>5 DEF BridgeType
<1>9. BridgeCovered'
  BY <1>1, <1>4, <1>6, <1>7 DEF BridgeCovered, RunCovered
<1>10. LockKept'
  BY <1>1 DEF LockKept, Reading, Holding, Bridge!Capture
<1> QED BY <1>5, <1>8, <1>9, <1>10 DEF BridgeInv

(* Steps that leave the archive and the counters of the session alone:     *)
(* only the run, the lock and the sizes of the files change.               *)
LEMMA QuietKeeps ==
    ASSUME LockKept, BridgeInv, UNCHANGED <<log, rounds, excluded, evidence, saved>>,
           UNCHANGED backup, UNCHANGED <<captured, checkpoint>>,
           size' \in [DOMAIN Source -> Nat],
           \/ UNCHANGED <<bridge, lock>>
           \/ /\ bridge' = Bridge!NoRun
              /\ lock' = IF lock = "bridge" THEN "free" ELSE lock
    PROVE  BridgeInv' /\ LockKept'
<1>1. /\ BridgeType /\ BridgeCovered /\ Numbered(log, rounds)
  BY DEF BridgeInv
<1>2. BridgeType'
  BY <1>1 DEF BridgeType, Bridge!NoRun
<1>3. BridgeCovered'
  BY <1>1 DEF BridgeCovered, OffsetsCovered, LinesCovered, RunCovered, Reading,
              Bridge!NoRun, Bridge!Version
<1>4. LockKept'
  BY DEF LockKept, Reading, Holding, Bridge!NoRun
<1> QED BY <1>1, <1>2, <1>3, <1>4 DEF BridgeInv

(* The older collector writes on.                                          *)
LEMMA WriteKeeps ==
    ASSUME LockKept, BridgeInv, NEW f \in DOMAIN Source, Bridge!Write(f), UNCHANGED backup
    PROVE  BridgeInv' /\ LockKept'
<1>1. size' \in [DOMAIN Source -> Nat]
  BY DEF BridgeInv, BridgeType, Bridge!Write
<1> QED BY <1>1, QuietKeeps DEF Bridge!Write, Bridge!archive

(* A bridge that is killed loses its run, and its lock.                    *)
LEMMA BridgeDiesKeeps ==
    ASSUME LockKept, BridgeInv, Bridge!BridgeDies, UNCHANGED backup
    PROVE  BridgeInv' /\ LockKept'
<1>1. size' \in [DOMAIN Source -> Nat]
  BY DEF BridgeInv, BridgeType, Bridge!BridgeDies
<1> QED BY <1>1, QuietKeeps DEF Bridge!BridgeDies, Bridge!archive

(* The checkpoint comes up to what was captured, or what was captured      *)
(* falls back to the checkpoint.                                           *)
LEMMA CheckpointKeeps ==
    ASSUME LockKept, BridgeInv, UNCHANGED backup,
           Bridge!SaveCheckpoint \/ Bridge!CollectorDies
    PROVE  BridgeInv' /\ LockKept'
<1>1. /\ BridgeType /\ BridgeCovered /\ Numbered(log, rounds)
      /\ UNCHANGED <<size, log, rounds, excluded, evidence, saved, bridge, lock, backup>>
      /\ captured' \in 0..captured /\ checkpoint' \in 0..captured'
  BY DEF BridgeInv, BridgeType, Bridge!SaveCheckpoint, Bridge!CollectorDies, Bridge!archive
<1>2. captured \in 0..Len(Lines) /\ Len(Lines) \in Nat
  BY <1>1, LinesAssumption DEF BridgeType
<1>3. LinesCovered(log, captured')
  BY <1>1, <1>2 DEF BridgeCovered, LinesCovered
<1>4. BridgeType'
  BY <1>1, <1>2 DEF BridgeType
<1>5. BridgeCovered'
  BY <1>1, <1>3 DEF BridgeCovered, OffsetsCovered, RunCovered, Reading, Bridge!Version
<1>6. LockKept'
  BY <1>1 DEF LockKept, Reading, Holding
<1> QED BY <1>1, <1>4, <1>5, <1>6 DEF BridgeInv

(* The steps of a run between files.                                       *)
LEMMA SourceFacts ==
    /\ Len(Source) \in Nat /\ DOMAIN Source = 1..Len(Source)
    /\ \A f \in DOMAIN Source : DOMAIN Source[f] = 1..Len(Source[f]) /\ Len(Source[f]) \in Nat
    /\ \A f \in DOMAIN Source : \A k \in DOMAIN Source[f] : Source[f][k] \in Bridge!Blocks
<1>1. Source \in Seq(Seq(Bridge!Blocks))
  BY SourceAssumption
<1>2. \A f \in DOMAIN Source : Source[f] \in Seq(Bridge!Blocks)
  BY <1>1
<1> QED BY <1>1, <1>2

(* What follows a file is a file, or the end of the run.                   *)
LEMMA NextFileFacts ==
    ASSUME bridge.file \in DOMAIN Source, NEW p \in BOOLEAN
    PROVE  /\ Bridge!NextFile(p) \in [at : {"idle", "next"}, file : Nat, pos : Nat, limit : Nat]
           /\ Bridge!NextFile(p).at # "idle" => Bridge!NextFile(p).file \in DOMAIN Source
<1>1. bridge.file \in 1..Len(Source) /\ Len(Source) \in Nat /\ DOMAIN Source = 1..Len(Source)
  BY SourceFacts
<1>2. CASE p \/ bridge.file = Len(Source)
  BY <1>2 DEF Bridge!NextFile, Bridge!NoRun
<1>3. CASE ~(p \/ bridge.file = Len(Source))
  <2>1. Bridge!NextFile(p) = [at |-> "next", file |-> bridge.file + 1, pos |-> 0, limit |-> 0]
    BY <1>3 DEF Bridge!NextFile, Bridge!NoRun
  <2>2. bridge.file + 1 \in 1..Len(Source)
    BY <1>1, <1>3
  <2> QED BY <2>1, <2>2, <1>1
<1> QED BY <1>2, <1>3

(* A run begins, passes a file over, opens one, or stops at a broken block. *)
LEMMA BetweenFilesKeeps ==
    ASSUME LockKept, BridgeInv, UNCHANGED backup,
           Bridge!StartBridge \/ Bridge!SkipFile \/ Bridge!OpenFile \/ Bridge!RefuseBlock
    PROVE  BridgeInv' /\ LockKept'
<1>1. /\ BridgeType /\ BridgeCovered /\ Numbered(log, rounds)
      /\ UNCHANGED <<size, log, rounds, excluded, evidence, saved, captured, checkpoint, backup>>
  BY DEF BridgeInv, Bridge!StartBridge, Bridge!SkipFile, Bridge!OpenFile, Bridge!RefuseBlock,
         Bridge!archive
<1>2. CASE Bridge!StartBridge
  <2>1. bridge' = [at |-> "next", file |-> 1, pos |-> 0, limit |-> 0] /\ lock' = lock
        /\ bridge.at = "idle" /\ 1 \in DOMAIN Source
    <3>1. PICK f \in DOMAIN Source : saved[f].stamp # size[f]
      BY <1>2 DEF Bridge!StartBridge
    <3>2. 1 \in DOMAIN Source
      BY <3>1, SourceFacts
    <3> QED BY <1>2, <3>2 DEF Bridge!StartBridge, Bridge!NoRun
  <2>2. BridgeType'
    BY <1>1, <2>1 DEF BridgeType
  <2>3. BridgeCovered'
    BY <1>1, <2>1 DEF BridgeCovered, OffsetsCovered, LinesCovered, RunCovered, Reading
  <2>4. LockKept'
    BY <1>1, <2>1 DEF LockKept, Reading, Holding
  <2> QED BY <1>1, <2>2, <2>3, <2>4 DEF BridgeInv
<1>3. CASE Bridge!SkipFile
  <2>1. /\ bridge.at = "next" /\ bridge.file \in DOMAIN Source /\ lock' = lock
        /\ saved[bridge.file].pending \in BOOLEAN
        /\ bridge' = Bridge!NextFile(saved[bridge.file].pending)
    BY <1>1, <1>3 DEF Bridge!SkipFile, BridgeType, Cursors
  <2>2. /\ bridge' \in [at : {"idle", "next"}, file : Nat, pos : Nat, limit : Nat]
        /\ bridge'.at # "idle" => bridge'.file \in DOMAIN Source
    BY <2>1, NextFileFacts
  <2>3. BridgeType'
    BY <1>1, <2>2 DEF BridgeType
  <2>4. BridgeCovered'
    BY <1>1, <2>2 DEF BridgeCovered, OffsetsCovered, LinesCovered, RunCovered, Reading
  <2>5. LockKept'
    BY <1>1, <2>1, <2>2 DEF LockKept, Reading, Holding
  <2> QED BY <1>1, <2>3, <2>4, <2>5 DEF BridgeInv
<1>4. CASE Bridge!OpenFile
  <2> DEFINE f == bridge.file
  <2>1. /\ bridge.at = "next" /\ f \in DOMAIN Source /\ lock = "free" /\ lock' = "bridge"
        /\ saved[f].offset \in Nat /\ size[f] \in Nat
        /\ bridge' = [at |-> "read", file |-> f, pos |-> saved[f].offset, limit |-> size[f]]
    BY <1>1, <1>4 DEF Bridge!OpenFile, BridgeType, Cursors
  <2>2. BridgeType'
    BY <1>1, <2>1, SourceFacts DEF BridgeType
  <2>3. RunCovered'
    BY <1>1, <2>1 DEF BridgeCovered, OffsetsCovered, RunCovered
  <2>4. BridgeCovered'
    BY <1>1, <2>3 DEF BridgeCovered, OffsetsCovered, LinesCovered
  <2>5. LockKept'
    BY <1>1, <2>1 DEF LockKept, Reading, Holding
  <2> QED BY <1>1, <2>2, <2>4, <2>5 DEF BridgeInv
<1>5. CASE Bridge!RefuseBlock
  <2>1. Reading /\ bridge' = Bridge!NoRun /\ lock' = "free"
    BY <1>5 DEF Bridge!RefuseBlock, Bridge!AtBlock, Reading
  <2>2. lock = "bridge" /\ size' \in [DOMAIN Source -> Nat]
    BY <1>1, <2>1 DEF LockKept, BridgeType
  <2> QED BY <1>1, <2>1, <2>2, QuietKeeps
<1> QED BY <1>2, <1>3, <1>4, <1>5

(* The cursor is written of the run that ends there.                       *)
LEMMA CloseFileKeeps ==
    ASSUME LockKept, BridgeInv, UNCHANGED backup, Bridge!CloseFile
    PROVE  BridgeInv' /\ LockKept'
<1> DEFINE f == bridge.file
           torn == bridge.limit % 2 = 1
<1>1. /\ BridgeType /\ BridgeCovered /\ Numbered(log, rounds)
      /\ Reading /\ lock' = "free"
      /\ saved' = [saved EXCEPT ![f] =
             [offset |-> bridge.pos, stamp |-> bridge.limit, pending |-> torn]]
      /\ bridge' = Bridge!NextFile(torn)
      /\ UNCHANGED <<size, log, rounds, excluded, evidence, captured, checkpoint, backup>>
  BY DEF BridgeInv, Bridge!CloseFile, Bridge!AtEnd, Reading
<1>2. f \in DOMAIN Source /\ torn \in BOOLEAN
  BY <1>1 DEF BridgeType, Reading
<1>3. /\ bridge' \in [at : {"idle", "next"}, file : Nat, pos : Nat, limit : Nat]
      /\ bridge'.at # "idle" => bridge'.file \in DOMAIN Source
  BY <1>1, <1>2, NextFileFacts
<1> HIDE DEF torn
<1>4. saved' \in Cursors /\ saved'[f].offset = bridge.pos
      /\ \A g \in DOMAIN Source \ {f} : saved'[g] = saved[g]
  BY <1>1, <1>2 DEF BridgeType, Cursors
<1>5. BridgeType'
  BY <1>1, <1>3, <1>4 DEF BridgeType
<1>6. OffsetsCovered(log, excluded, evidence, saved')
  <2> SUFFICES ASSUME NEW g \in DOMAIN Source, NEW k \in 1..saved'[g].offset
               PROVE  Bridge!Accounted(Source[g][k], log, excluded, evidence)
    BY DEF OffsetsCovered
  <2>1. CASE g = f
    BY <2>1, <1>1, <1>4 DEF BridgeCovered, RunCovered
  <2>2. CASE g # f
    BY <2>2, <1>1, <1>4 DEF BridgeCovered, OffsetsCovered
  <2> QED BY <2>1, <2>2
<1>7. BridgeCovered'
  BY <1>1, <1>3, <1>6 DEF BridgeCovered, LinesCovered, RunCovered, Reading
<1>8. LockKept'
  BY <1>1, <1>3 DEF LockKept, Reading, Holding
<1> QED BY <1>1, <1>5, <1>7, <1>8 DEF BridgeInv

(* A block that is accounted for at the position of a run may be passed.   *)
LEMMA PassKeeps ==
    ASSUME LockKept, BridgeInv, UNCHANGED backup, Reading, Grows,
           log' \in Seq(Entries), rounds' \in [Convs -> Counters], Numbered(log', rounds'),
           excluded' \in SUBSET Convs, evidence' \in SUBSET Bridge!Blocks,
           UNCHANGED <<size, saved, captured, checkpoint, lock>>,
           bridge' = Bridge!Passed,
           Bridge!Accounted(Source[bridge.file][bridge.pos + 1], log', excluded', evidence')
    PROVE  BridgeInv' /\ LockKept'
<1>1. BridgeType /\ BridgeCovered
  BY DEF BridgeInv
<1>2. /\ bridge' = [at |-> "read", file |-> bridge.file, pos |-> bridge.pos + 1,
                    limit |-> bridge.limit]
      /\ bridge.file \in DOMAIN Source /\ bridge.pos \in Nat
  BY <1>1 DEF Bridge!Passed, BridgeType, Reading
<1>3. /\ OffsetsCovered(log', excluded', evidence', saved)
      /\ LinesCovered(log', captured)
      /\ \A k \in 1..bridge.pos :
             Bridge!Accounted(Source[bridge.file][k], log', excluded', evidence')
  BY <1>1, GrowthKeeps
<1>4. \A k \in 1..bridge.pos + 1 :
          Bridge!Accounted(Source[bridge.file][k], log', excluded', evidence')
  BY <1>2, <1>3
<1>5. RunCovered'
  BY <1>2, <1>4 DEF RunCovered
<1>6. BridgeCovered'
  BY <1>3, <1>5 DEF BridgeCovered
<1>7. BridgeType'
  BY <1>1, <1>2 DEF BridgeType
<1>8. LockKept'
  BY <1>2 DEF LockKept, Reading, Holding
<1> QED BY <1>6, <1>7, <1>8 DEF BridgeInv

(* Blocks of internal conversations, and blocks that are there already.    *)
LEMMA ReadKnownKeeps ==
    ASSUME LockKept, BridgeInv, UNCHANGED backup, NEW b \in Bridge!Blocks,
           Bridge!ReadInternal(b) \/ Bridge!ReadDuplicate(b)
    PROVE  BridgeInv' /\ LockKept'
<1>1. /\ BridgeType /\ Numbered(log, rounds) /\ b # Bad
      /\ b = Source[bridge.file][bridge.pos + 1] /\ Reading /\ bridge' = Bridge!Passed
      /\ UNCHANGED <<size, log, rounds, evidence, saved, captured, checkpoint, lock>>
  BY DEF BridgeInv, Bridge!ReadInternal, Bridge!ReadDuplicate, Bridge!Readable, Bridge!AtBlock,
         Reading, Bridge!archive
<1>2. b.msg.conv \in Convs
  BY <1>1, MessageFacts
<1>3. CASE Bridge!ReadInternal(b)
  <2>1. excluded' = excluded \cup {b.msg.conv}
    BY <1>3 DEF Bridge!ReadInternal
  <2>2. excluded' \in SUBSET Convs /\ Grows
    BY <1>1, <1>2, <2>1 DEF BridgeType, Grows
  <2>3. Bridge!Accounted(b, log', excluded', evidence')
    BY <2>1 DEF Bridge!Accounted
  <2> QED BY <1>1, <2>2, <2>3, PassKeeps DEF BridgeType
<1>4. CASE Bridge!ReadDuplicate(b)
  <2>1. excluded' = excluded /\ Bridge!Duplicate(b)
    BY <1>4 DEF Bridge!ReadDuplicate, Bridge!archive
  <2>2. Grows
    BY <1>1, <2>1 DEF Grows
  <2>3. Bridge!Accounted(b, log', excluded', evidence')
    BY <1>1, <2>1 DEF Bridge!Accounted, Bridge!Duplicate, Bridge!Stored
  <2> QED BY <1>1, <2>1, <2>2, <2>3, PassKeeps DEF BridgeType
<1> QED BY <1>3, <1>4

(* What an import does to the log and the counters.                        *)
LEMMA ImportKeeps ==
    ASSUME BridgeInv, NEW b \in Bridge!Blocks, b # Bad, NEW v \in BOOLEAN,
           Bridge!Import(b, v), excluded' = excluded, evidence' = evidence
    PROVE  /\ log' \in Seq(Entries) /\ rounds' \in [Convs -> Counters]
           /\ Grows /\ Numbered(log', rounds')
           /\ \E i \in DOMAIN log' : log'[i].block = {b} /\ log'[i].version = v
<1> DEFINE e == [msg |-> b.msg, block |-> {b}, version |-> v, round |-> b.round,
                 completes |-> b.msg.kind = "final"]
           old == rounds[b.msg.conv]
           c == Bridge!NativeCounters(b, old)
<1>1. BridgeType /\ Numbered(log, rounds)
  BY DEF BridgeInv
<1>2. b.msg \in Messages /\ b.msg.conv \in Convs /\ b.round \in Nat
  BY MessageFacts
<1>3. old \in Counters /\ old.pending < old.next
  BY <1>1, <1>2 DEF BridgeType, Numbered
<1>4. /\ c \in Counters /\ old.next <= c.next /\ b.round < c.next /\ c.pending < c.next
  BY <1>2, <1>3, CountersImport
<1>5. log' = Append(log, e) /\ rounds' = [rounds EXCEPT ![b.msg.conv] = c]
  BY DEF Bridge!Import
<1>6. (b.msg.kind = "final") \in BOOLEAN
  OBVIOUS
<1>7. e \in Entries /\ e.msg = b.msg /\ e.round = b.round /\ e.block = {b} /\ e.version = v
  BY <1>2, <1>6 DEF Entries
<1> HIDE DEF e, c
<1>8. /\ log' \in Seq(Entries) /\ rounds' \in [Convs -> Counters]
      /\ Grows /\ Numbered(log', rounds')
      /\ Len(log) + 1 \in DOMAIN log' /\ log'[Len(log) + 1] = e
  BY <1>1, <1>4, <1>5, <1>7, AppendKeeps
<1> QED BY <1>7, <1>8

(* A new block is imported and passed at once.                             *)
LEMMA ReadNewKeeps ==
    ASSUME LockKept, BridgeInv, UNCHANGED backup, NEW b \in Bridge!Blocks, Bridge!ReadNew(b)
    PROVE  BridgeInv' /\ LockKept'
<1>1. /\ BridgeType /\ b # Bad /\ Bridge!Import(b, FALSE)
      /\ b = Source[bridge.file][bridge.pos + 1] /\ Reading /\ bridge' = Bridge!Passed
      /\ UNCHANGED <<size, excluded, evidence, saved, captured, checkpoint, lock>>
  BY DEF BridgeInv, Bridge!ReadNew, Bridge!Readable, Bridge!AtBlock, Reading
<1>2. /\ log' \in Seq(Entries) /\ rounds' \in [Convs -> Counters]
      /\ Grows /\ Numbered(log', rounds')
      /\ \E i \in DOMAIN log' : log'[i].block = {b} /\ log'[i].version = FALSE
  BY <1>1, ImportKeeps
<1>3. Bridge!Accounted(b, log', excluded', evidence')
  BY <1>2 DEF Bridge!Accounted
<1> QED BY <1>1, <1>2, <1>3, PassKeeps DEF BridgeType

(* A version is there before its evidence is, and is not passed yet.       *)
LEMMA ReadVersionKeeps ==
    ASSUME LockKept, BridgeInv, UNCHANGED backup, NEW b \in Bridge!Blocks, Bridge!ReadVersion(b)
    PROVE  BridgeInv' /\ LockKept'
<1>1. /\ BridgeType /\ BridgeCovered /\ b # Bad /\ Bridge!Import(b, TRUE)
      /\ b = Source[bridge.file][bridge.pos + 1] /\ Reading
      /\ bridge' = [bridge EXCEPT !.at = "evidence"]
      /\ UNCHANGED <<size, excluded, evidence, saved, captured, checkpoint, lock>>
  BY DEF BridgeInv, Bridge!ReadVersion, Bridge!Readable, Bridge!AtBlock, Reading
<1>2. /\ log' \in Seq(Entries) /\ rounds' \in [Convs -> Counters]
      /\ Grows /\ Numbered(log', rounds')
      /\ \E i \in DOMAIN log' : log'[i].block = {b} /\ log'[i].version = TRUE
  BY <1>1, ImportKeeps
<1>3. /\ bridge' = [at |-> "evidence", file |-> bridge.file, pos |-> bridge.pos,
                    limit |-> bridge.limit]
      /\ bridge.file \in DOMAIN Source
  BY <1>1 DEF BridgeType, Reading
<1>4. /\ OffsetsCovered(log', excluded', evidence', saved)
      /\ LinesCovered(log', captured)
      /\ \A k \in 1..bridge.pos :
             Bridge!Accounted(Source[bridge.file][k], log', excluded', evidence')
  BY <1>1, <1>2, GrowthKeeps
<1>5. RunCovered'
  BY <1>1, <1>2, <1>3, <1>4 DEF RunCovered, Bridge!Version
<1>6. BridgeCovered'
  BY <1>1, <1>4, <1>5 DEF BridgeCovered
<1>7. BridgeType'
  BY <1>1, <1>2, <1>3 DEF BridgeType
<1>8. LockKept'
  BY <1>1, <1>3 DEF LockKept, Reading, Holding
<1> QED BY <1>2, <1>6, <1>7, <1>8 DEF BridgeInv

(* Once it is explained, the version is passed.                            *)
LEMMA WriteEvidenceKeeps ==
    ASSUME LockKept, BridgeInv, UNCHANGED backup, NEW b \in Bridge!Blocks,
           Bridge!WriteEvidence(b)
    PROVE  BridgeInv' /\ LockKept'
<1>1. /\ BridgeType /\ BridgeCovered /\ Numbered(log, rounds)
      /\ b = Source[bridge.file][bridge.pos + 1] /\ Reading /\ bridge' = Bridge!Passed
      /\ evidence' = evidence \cup {b}
      /\ UNCHANGED <<size, log, rounds, excluded, saved, captured, checkpoint, lock>>
  BY DEF BridgeInv, Bridge!WriteEvidence, Bridge!Readable, Bridge!AtBlock, Reading
<1>2. Bridge!Version(b)
  BY <1>1 DEF Bridge!WriteEvidence, BridgeCovered, RunCovered
<1>3. evidence' \in SUBSET Bridge!Blocks /\ Grows
  BY <1>1 DEF BridgeType, Grows
<1>4. Bridge!Accounted(b, log', excluded', evidence')
  BY <1>1, <1>2 DEF Bridge!Accounted, Bridge!Version
<1> QED BY <1>1, <1>3, <1>4, PassKeeps DEF BridgeType

(* Every step of the bridge and of the session collector.                  *)
LEMMA BridgeActsKeep ==
    ASSUME LockKept, BridgeInv, BridgeActs
    PROVE  BridgeInv' /\ LockKept'
<1>1. UNCHANGED backup
  BY DEF BridgeActs, backupVars
<1>2. ASSUME Bridge!BridgeStep PROVE BridgeInv' /\ LockKept'
  <2>1. CASE Bridge!StartBridge \/ Bridge!SkipFile \/ Bridge!OpenFile \/ Bridge!RefuseBlock
    BY <1>1, <2>1, BetweenFilesKeeps
  <2>2. CASE Bridge!CloseFile
    BY <1>1, <2>2, CloseFileKeeps
  <2>3. ASSUME NEW b \in Bridge!Blocks,
               \/ Bridge!ReadInternal(b) \/ Bridge!ReadDuplicate(b) \/ Bridge!ReadNew(b)
               \/ Bridge!ReadVersion(b) \/ Bridge!WriteEvidence(b)
        PROVE  BridgeInv' /\ LockKept'
    BY <1>1, <2>3, ReadKnownKeeps, ReadNewKeeps, ReadVersionKeeps, WriteEvidenceKeeps
  <2> QED BY <1>2, <2>1, <2>2, <2>3 DEF Bridge!BridgeStep
<1> QED BY <1>1, <1>2, WriteKeeps, CaptureKeeps, BridgeDiesKeeps, CheckpointKeeps DEF BridgeActs

(* What a backup finds under its lock does not move: bridge and collector  *)
(* append and import only while nobody else keeps the archive.             *)
LEMMA HeldStill ==
    ASSUME LockKept, BridgeActs, Holding
    PROVE  UNCHANGED <<log, rounds, excluded, evidence, saved, lock>>
<1>1. lock = "backup" /\ ~Reading
  BY DEF LockKept
<1>2. ~Bridge!Capture /\ ~Bridge!OpenFile /\ ~Bridge!CloseFile /\ ~Bridge!RefuseBlock
  BY <1>1 DEF Reading, Bridge!Capture, Bridge!OpenFile, Bridge!CloseFile, Bridge!RefuseBlock,
              Bridge!AtEnd, Bridge!AtBlock
<1>3. ASSUME NEW b
      PROVE  /\ ~Bridge!ReadInternal(b) /\ ~Bridge!ReadDuplicate(b) /\ ~Bridge!ReadNew(b)
             /\ ~Bridge!ReadVersion(b) /\ ~Bridge!WriteEvidence(b)
  BY <1>1 DEF Reading, Bridge!ReadInternal, Bridge!ReadDuplicate, Bridge!ReadNew,
              Bridge!ReadVersion, Bridge!WriteEvidence, Bridge!Readable, Bridge!AtBlock
<1>4. CASE Bridge!StartBridge \/ Bridge!SkipFile
  BY <1>4 DEF Bridge!StartBridge, Bridge!SkipFile, Bridge!archive
<1>5. CASE Bridge!BridgeDies \/ Bridge!CollectorDies \/ Bridge!SaveCheckpoint
           \/ \E f \in DOMAIN Source : Bridge!Write(f)
  BY <1>1, <1>5 DEF Bridge!BridgeDies, Bridge!CollectorDies, Bridge!SaveCheckpoint,
                    Bridge!Write, Bridge!archive
<1> QED BY <1>2, <1>3, <1>4, <1>5 DEF BridgeActs, Bridge!BridgeStep

-----------------------------------------------------------------------------
(* The exchange.                                                           *)

(* The sender has at most as many records as events, and never fewer later.*)
LEMMA RecordsAtFacts ==
    /\ \A t \in Nat : Peer!RecordsAt(t) \in Nat
    /\ \A s, t \in Nat : s <= t => Peer!RecordsAt(s) <= Peer!RecordsAt(t)
<1> DEFINE Recorded(t) == {i \in 1..t : Events[i] = "record"}
<1>1. \A t \in Nat : Peer!RecordsAt(t) = Cardinality(Recorded(t))
  BY DEF Peer!RecordsAt, Peer!Cardinality, Cardinality
<1>2. \A t \in Nat : IsFiniteSet(Recorded(t))
  <2> TAKE t \in Nat
  <2>1. IsFiniteSet(1..t)
    BY FS_Interval
  <2>2. Recorded(t) \in SUBSET (1..t)
    OBVIOUS
  <2> HIDE DEF Recorded
  <2> QED BY <2>1, <2>2, FS_Subset
<1>3. \A s, t \in Nat : s <= t => Recorded(s) \in SUBSET Recorded(t)
  OBVIOUS
<1> HIDE DEF Recorded
<1>4. \A t \in Nat : Peer!RecordsAt(t) \in Nat
  BY <1>1, <1>2, FS_CardinalityType
<1>5. ASSUME NEW s \in Nat, NEW t \in Nat, s <= t
      PROVE  Peer!RecordsAt(s) <= Peer!RecordsAt(t)
  <2>1. Cardinality(Recorded(s)) <= Cardinality(Recorded(t))
    BY <1>2, <1>3, <1>5, FS_Subset
  <2> QED BY <1>1, <2>1
<1> QED BY <1>4, <1>5

(* What is exported is a page.                                             *)
LEMMA PageTypes ==
    ASSUME produced \in Nat, NEW page \in Peer!Exported
    PROVE  page \in Pages
<1>1. PICK t \in 0..produced, k \in 0..Peer!RecordsAt(produced) : page = Peer!Page(t, k)
  BY DEF Peer!Exported
<1>2. t \in Nat /\ k \in Nat /\ Peer!RecordsAt(t) \in Nat
  BY RecordsAtFacts
<1>3. {s \in 1..t : Events[s] = "summary"} \in SUBSET Nat
  BY <1>2
<1> QED BY <1>1, <1>2, <1>3 DEF Peer!Page, Pages

(* Every step of the exchange; the replica only grows, and does not while  *)
(* a backup holds the archive.                                             *)
LEMMA ExchangeActsKeep ==
    ASSUME PeerInv, ExchangeActs
    PROVE  /\ PeerInv' /\ lock' = lock /\ replica.records \subseteq replica'.records
<1>1. PeerType /\ PeerCovered
  BY DEF PeerInv
<1>2. CASE Peer!Produce
  <2>1. produced' = produced + 1 /\ UNCHANGED <<replica, peerCursor, receiving, lock>>
    BY <1>2 DEF Peer!Produce, Peer!received
  <2> QED BY <1>1, <2>1 DEF PeerInv, PeerType, PeerCovered
<1>3. CASE Peer!ReceiverDies
  <2>1. receiving' = {} /\ UNCHANGED <<produced, replica, peerCursor, lock>>
    BY <1>3 DEF Peer!ReceiverDies
  <2> QED BY <1>1, <2>1 DEF PeerInv, PeerType, PeerCovered
<1>4. ASSUME NEW page \in Peer!Exported, Peer!BeginReceive(page)
      PROVE  PeerInv' /\ lock' = lock /\ replica' = replica
  <2>1. /\ receiving' = {[page |-> page, imported |-> FALSE]} /\ page.from = peerCursor + 1
        /\ UNCHANGED <<produced, replica, peerCursor, lock>>
    BY <1>4 DEF Peer!BeginReceive
  <2>2. page \in Pages
    BY <1>1, PageTypes DEF PeerType
  <2> QED BY <1>1, <2>1, <2>2 DEF PeerInv, PeerType, PeerCovered
<1>5. CASE Peer!ImportPage
  <2>1. PICK r \in receiving :
            /\ replica' = [records   |-> replica.records \cup Peer!Records(r.page),
                           summaries |-> replica.summaries \cup r.page.summaries]
            /\ receiving' = {[page |-> r.page, imported |-> TRUE]}
            /\ UNCHANGED <<produced, peerCursor, lock>>
    BY <1>5 DEF Peer!ImportPage
  <2>2. r \in [page : Pages, imported : BOOLEAN] /\ r.page \in Pages
    BY <1>1 DEF PeerType
  <2>3. Peer!Records(r.page) \in SUBSET Nat /\ r.page.summaries \in SUBSET Nat
    BY <2>2 DEF Pages, Peer!Records
  <2>4. [page |-> r.page, imported |-> TRUE] \in [page : Pages, imported : BOOLEAN]
    BY <2>2
  <2> DEFINE recs == replica.records \cup Peer!Records(r.page)
             sums == replica.summaries \cup r.page.summaries
  <2>5. recs \in SUBSET Nat /\ sums \in SUBSET Nat
    BY <1>1, <2>3 DEF PeerType, Replicas
  <2>6. replica.records \subseteq recs /\ Peer!Records(r.page) \subseteq recs
    OBVIOUS
  <2>7. replica' = [records |-> recs, summaries |-> sums]
    BY <2>1
  <2> HIDE DEF recs, sums
  <2>8. PeerType'
    <3>1. replica' \in Replicas
      BY <2>5, <2>7 DEF Replicas
    <3>2. receiving' \in SUBSET [page : Pages, imported : BOOLEAN]
      BY <2>1, <2>4
    <3> QED BY <1>1, <2>1, <3>1, <3>2 DEF PeerType
  <2>9. PeerCovered'
    BY <1>1, <2>1, <2>4, <2>6, <2>7 DEF PeerCovered
  <2> QED BY <2>1, <2>6, <2>7, <2>8, <2>9 DEF PeerInv
<1>6. CASE Peer!SaveCursor
  <2>1. PICK r \in receiving : r.imported /\ peerCursor' = r.page.to
    BY <1>6 DEF Peer!SaveCursor
  <2>2. receiving' = {} /\ UNCHANGED <<produced, replica, lock>>
    BY <1>6 DEF Peer!SaveCursor
  <2>3. r.page \in Pages
    BY <1>1 DEF PeerType
  <2>4. r.page.from = peerCursor + 1 /\ r.page.from..r.page.to \subseteq replica.records
        /\ 1..peerCursor \subseteq replica.records
    BY <1>1, <2>1 DEF PeerCovered, Peer!Records
  <2>5. peerCursor \in Nat /\ peerCursor' \in Nat
    BY <1>1, <2>1, <2>3 DEF PeerType, Pages
  <2>6. 1..peerCursor' \subseteq replica.records
    BY <2>1, <2>4, <2>5
  <2> QED BY <1>1, <2>2, <2>5, <2>6 DEF PeerInv, PeerType, PeerCovered
<1> QED BY <1>2, <1>3, <1>4, <1>5, <1>6 DEF ExchangeActs

-----------------------------------------------------------------------------
(* The backup.                                                             *)

(* Steps of the backup leave the archive as it is.                         *)
LEMMA OnlyKeeps ==
    ASSUME BridgeInv, PeerInv, UNCHANGED <<bridgeVars, exchangeVars>>
    PROVE  BridgeInv' /\ PeerInv'
<1>1. BridgeInv'
  BY DEF BridgeInv, BridgeType, BridgeCovered, OffsetsCovered, LinesCovered, RunCovered,
         Reading, Bridge!Version, bridgeVars
<1>2. PeerInv'
  BY DEF PeerInv, PeerType, PeerCovered, exchangeVars
<1> QED BY <1>1, <1>2

(* The steps of the components leave the copy as true as it was.           *)
LEMMA ComponentsKeepCopy ==
    ASSUME LockKept, PeerInv, CopySound, KeptSound, BridgeActs \/ ExchangeActs
    PROVE  CopySound' /\ KeptSound'
<1>1. backup' = backup /\ kept' = kept
  BY DEF BridgeActs, ExchangeActs, backupVars
<1>2. Holding => UNCHANGED <<log, rounds, excluded>>
  BY HeldStill DEF ExchangeActs, bridgeVars
<1>3. replica.records \subseteq replica'.records
  <2>1. CASE BridgeActs
    BY <2>1 DEF BridgeActs, exchangeVars
  <2>2. CASE ExchangeActs
    BY <2>2, ExchangeActsKeep
  <2> QED BY <2>1, <2>2
<1>4. CopySound'
  BY <1>1, <1>2, <1>3 DEF CopySound, Holding
<1> QED BY <1>1, <1>4 DEF KeptSound

(* A complete copy is a sound snapshot: its log, counters and exclusions   *)
(* are those of the moment when the cursors are copied, and the replica is *)
(* copied after the exchange's cursor.                                     *)
LEMMA CompleteCopy ==
    ASSUME BridgeInv, PeerInv, CopySound, backup.at = "directories",
           NEW s, s = [log |-> backup.copy.log, rounds |-> backup.copy.rounds,
                       peerCursor |-> backup.copy.peerCursor,
                       excluded |-> backup.copy.excluded,
                       replica |-> replica, checkpoint |-> checkpoint,
                       evidence |-> evidence, saved |-> saved]
    PROVE  s \in Snapshots /\ Sound(s)
<1>1. /\ s.log = log /\ s.rounds = rounds /\ s.excluded = excluded
      /\ s.peerCursor \in Nat /\ 1..s.peerCursor \subseteq replica.records
      /\ s.replica = replica /\ s.checkpoint = checkpoint /\ s.evidence = evidence
      /\ s.saved = saved
  BY DEF CopySound
<1>2. captured \in Nat /\ checkpoint \in Nat /\ checkpoint <= captured
      /\ checkpoint \in 0..Len(Lines)
  BY LinesAssumption DEF BridgeInv, BridgeType
<1>3. s = [log |-> s.log, rounds |-> s.rounds, peerCursor |-> s.peerCursor,
           excluded |-> s.excluded, replica |-> s.replica, checkpoint |-> s.checkpoint,
           evidence |-> s.evidence, saved |-> s.saved]
  OBVIOUS
<1>4. s \in Snapshots
  BY <1>1, <1>2, <1>3 DEF Snapshots, BridgeInv, BridgeType, PeerInv, PeerType
<1>5. LinesCovered(log, checkpoint)
  BY <1>2 DEF BridgeInv, BridgeCovered, LinesCovered
<1>6. Covered(s)
  BY <1>1, <1>5, CoveredParts DEF BridgeInv, BridgeCovered
<1>7. Numbered(s.log, s.rounds)
  BY <1>1 DEF BridgeInv
<1> QED BY <1>4, <1>6, <1>7 DEF Sound

(* The steps up to the complete copy.                                      *)
LEMMA CopyingKeeps ==
    ASSUME LockKept, BridgeInv, PeerInv, CopySound,
           NoticeDebt \/ LockArchive \/ CopyIndex \/ CopyCursor \/ CopyDirectories
    PROVE  LockKept' /\ CopySound'
<1>1. backup = [at |-> backup.at, generation |-> backup.generation, copy |-> backup.copy]
  BY DEF CopySound
<1>2. CASE NoticeDebt
  <2>1. /\ backup.at = "idle" /\ lock' = lock /\ bridge' = bridge
        /\ backup' = [at |-> "wait", generation |-> Len(log), copy |-> <<>>]
    BY <1>2 DEF NoticeDebt, NoBackup, Only, bridgeVars
  <2> QED BY <2>1 DEF LockKept, CopySound, Holding, Reading
<1>3. CASE LockArchive
  <2>1. /\ backup.at = "wait" /\ lock = "free" /\ lock' = "backup" /\ bridge' = bridge
        /\ backup' = [at |-> "index", generation |-> backup.generation, copy |-> backup.copy]
    BY <1>1, <1>3 DEF LockArchive, Only, bridgeVars
  <2> QED BY <2>1 DEF LockKept, CopySound, Holding, Reading
<1>4. CASE CopyIndex
  <2> DEFINE copy == [log |-> log, rounds |-> rounds]
  <2>1. /\ backup.at = "index" /\ lock' = lock /\ bridge' = bridge
        /\ log' = log /\ rounds' = rounds
        /\ backup' = [at |-> "cursor", generation |-> backup.generation, copy |-> copy]
    BY <1>1, <1>4 DEF CopyIndex, Only, bridgeVars
  <2>2. copy.log = log /\ copy.rounds = rounds
    OBVIOUS
  <2> QED BY <2>1 DEF LockKept, CopySound, Holding, Reading
<1>5. CASE CopyCursor
  <2>1. /\ backup.at = "cursor" /\ lock' = lock /\ bridge' = bridge
        /\ log' = log /\ rounds' = rounds /\ excluded' = excluded /\ replica' = replica
        /\ backup' = [at |-> "directories", generation |-> backup.generation,
                      copy |-> [log |-> backup.copy.log, rounds |-> backup.copy.rounds,
                                peerCursor |-> peerCursor, excluded |-> excluded]]
    BY <1>1, <1>5 DEF CopyCursor, Only, bridgeVars, exchangeVars
  <2>2. peerCursor \in Nat /\ 1..peerCursor \subseteq replica.records
    BY DEF PeerInv, PeerType, PeerCovered
  <2>3. CopySound'
    BY <2>1, <2>2 DEF CopySound
  <2> QED BY <2>1, <2>3 DEF LockKept, Holding, Reading
<1>6. CASE CopyDirectories
  <2> DEFINE copy == [log |-> backup.copy.log, rounds |-> backup.copy.rounds,
                      peerCursor |-> backup.copy.peerCursor,
                      excluded |-> backup.copy.excluded,
                      replica |-> replica, checkpoint |-> checkpoint,
                      evidence |-> evidence, saved |-> saved]
  <2>1. /\ backup.at = "directories" /\ lock' = "free" /\ bridge' = bridge
        /\ backup' = [at |-> "publish", generation |-> backup.generation, copy |-> copy]
    BY <1>1, <1>6 DEF CopyDirectories, Only, bridgeVars
  <2>2. copy \in Snapshots /\ Sound(copy)
    BY <2>1, CompleteCopy
  <2> HIDE DEF copy
  <2>3. backup'.copy = copy /\ backup'.at = "publish"
        /\ backup' = [at |-> backup'.at, generation |-> backup'.generation, copy |-> backup'.copy]
    BY <2>1
  <2>4. ASSUME NEW s, s = backup.copy'
        PROVE  Sound(s) => Sound(backup.copy)'
    BY <2>4 DEF Sound, Covered, Numbered, Bridge!Accounted
  <2>5. CopySound'
    BY <2>2, <2>3, <2>4 DEF CopySound
  <2>6. lock = "backup" /\ ~Reading
    BY <2>1 DEF LockKept, Holding
  <2> QED BY <2>1, <2>3, <2>5, <2>6 DEF LockKept, Holding, Reading
<1> QED BY <1>2, <1>3, <1>4, <1>5, <1>6

(* The copy gets its name, or is given up, or older ones are removed.      *)
LEMMA EndingKeeps ==
    ASSUME LockKept, CopySound, KeptSound, Publish \/ Prune \/ BackupDies
    PROVE  LockKept' /\ CopySound' /\ KeptSound'
<1> DEFINE S == {s \in Snapshots : Sound(s)}
<1>1. kept \in Seq(S)
  BY DEF KeptSound
<1>2. backup = [at |-> backup.at, generation |-> backup.generation, copy |-> backup.copy]
      /\ bridge' = bridge
  BY DEF CopySound, Publish, Prune, BackupDies, Only, bridgeVars
<1>3. CASE Publish
  <2>1. /\ backup.at = "publish" /\ lock' = lock /\ kept' = Append(kept, backup.copy)
        /\ backup' = [at |-> "prune", generation |-> backup.generation, copy |-> backup.copy]
    BY <1>2, <1>3 DEF Publish
  <2>2. backup.copy \in S
    BY <2>1 DEF CopySound
  <2> HIDE DEF S
  <2>3. kept' \in Seq(S)
    BY <1>1, <2>1, <2>2
  <2>4. KeptSound'
    BY <2>3 DEF KeptSound, S
  <2> QED BY <1>2, <2>1, <2>4 DEF LockKept, CopySound, Holding, Reading
<1>4. CASE Prune
  <2> DEFINE first == Max({1, Len(kept) - Keep + 1})
  <2>1. /\ backup.at = "prune" /\ lock' = lock /\ kept' = SubSeq(kept, first, Len(kept))
        /\ backup' = NoBackup
    BY <1>4 DEF Prune
  <2>2. Len(kept) \in Nat /\ Keep \in Nat
    BY <1>1, KeepAssumption
  <2>3. first \in Nat \ {0}
    BY <2>2 DEF Max
  <2> HIDE DEF S, first
  <2>4. \A i \in first..Len(kept) : kept[i] \in S
    BY <1>1, <2>2, <2>3
  <2>5. SubSeq(kept, first, Len(kept)) \in Seq(S)
    BY <1>1, <2>2, <2>3, <2>4
  <2>6. KeptSound'
    BY <2>1, <2>5 DEF KeptSound, S
  <2> QED BY <1>2, <2>1, <2>6 DEF LockKept, CopySound, Holding, Reading, NoBackup
<1>5. CASE BackupDies
  <2>1. /\ backup' = NoBackup /\ kept' = kept
        /\ lock' = IF lock = "backup" THEN "free" ELSE lock
    BY <1>5 DEF BackupDies
  <2> QED BY <1>1, <1>2, <2>1 DEF LockKept, CopySound, KeptSound, Holding, Reading, NoBackup
<1> QED BY <1>3, <1>4, <1>5

(* A snapshot is as good as what it was taken of: everything goes on from  *)
(* it with cursors that it covers and counters that are past its rounds.   *)
LEMMA RestoreKeeps ==
    ASSUME BridgeInv, PeerInv, KeptSound, Restore
    PROVE  IInv'
<1>1. PICK i \in DOMAIN kept :
          /\ log' = kept[i].log /\ rounds' = kept[i].rounds /\ excluded' = kept[i].excluded
          /\ evidence' = kept[i].evidence /\ saved' = kept[i].saved
          /\ checkpoint' = kept[i].checkpoint /\ captured' = kept[i].checkpoint
          /\ replica' = kept[i].replica /\ peerCursor' = kept[i].peerCursor
  BY DEF Restore
<1>2. PICK s : s = kept[i]
  OBVIOUS
<1>3. s \in Snapshots /\ Sound(s)
  BY <1>2 DEF KeptSound
<1>4. /\ log' = s.log /\ rounds' = s.rounds /\ excluded' = s.excluded
      /\ evidence' = s.evidence /\ saved' = s.saved
      /\ checkpoint' = s.checkpoint /\ captured' = s.checkpoint
      /\ replica' = s.replica /\ peerCursor' = s.peerCursor
  BY <1>1, <1>2
<1>5. /\ bridge' = Bridge!NoRun /\ receiving' = {} /\ backup' = NoBackup /\ lock' = "free"
      /\ UNCHANGED <<size, produced, kept>>
  BY DEF Restore
<1>6. /\ OffsetsCovered(s.log, s.excluded, s.evidence, s.saved)
      /\ LinesCovered(s.log, s.checkpoint) /\ 1..s.peerCursor \subseteq s.replica.records
      /\ Numbered(s.log, s.rounds)
  BY <1>3, CoveredParts DEF Sound
<1>7. BridgeType'
  BY <1>3, <1>4, <1>5, LinesAssumption DEF BridgeInv, BridgeType, Snapshots, Bridge!NoRun
<1>8. BridgeCovered'
  BY <1>4, <1>5, <1>6 DEF BridgeCovered, RunCovered, Reading, Bridge!NoRun
<1>9. Numbered(log, rounds)'
  BY <1>4, <1>6
<1>10. PeerType' /\ PeerCovered'
  BY <1>3, <1>4, <1>5, <1>6 DEF PeerInv, PeerType, PeerCovered, Snapshots
<1>11. LockKept' /\ CopySound'
  BY <1>5 DEF LockKept, CopySound, Reading, Holding, Bridge!NoRun, NoBackup
<1> QED BY <1>5, <1>7, <1>8, <1>9, <1>10, <1>11 DEF IInv, BridgeInv, PeerInv, KeptSound

-----------------------------------------------------------------------------

(* The inductive invariant holds at first ...                              *)
LEMMA InitIInv == Init => IInv
<1> SUFFICES ASSUME Init PROVE IInv
  OBVIOUS
<1>1. /\ size = [f \in DOMAIN Source |-> 0] /\ log = <<>>
      /\ rounds = [c \in Convs |-> [next |-> 1, pending |-> 0]]
      /\ excluded = {} /\ evidence = {}
      /\ saved = [f \in DOMAIN Source |-> [offset |-> 0, stamp |-> 0, pending |-> FALSE]]
      /\ bridge = [at |-> "idle", file |-> 0, pos |-> 0, limit |-> 0]
      /\ captured = 0 /\ checkpoint = 0 /\ lock = "free"
  BY DEF Init, Bridge!Init, Bridge!FreshCounters, Bridge!NoRound, Bridge!NoRun
<1>2. /\ produced = 0 /\ replica = [records |-> {}, summaries |-> {}]
      /\ peerCursor = 0 /\ receiving = {}
      /\ backup = [at |-> "idle", generation |-> 0, copy |-> <<>>] /\ kept = <<>>
  BY DEF Init, Peer!Init, NoBackup
<1>3. BridgeType
  BY <1>1, LinesAssumption DEF BridgeType, Cursors, Counters
<1>4. BridgeCovered /\ Numbered(log, rounds)
  BY <1>1 DEF BridgeCovered, OffsetsCovered, LinesCovered, RunCovered, Reading, Numbered
<1>5. PeerInv
  BY <1>2 DEF PeerInv, PeerType, PeerCovered, Replicas
<1>6. LockKept /\ CopySound
  BY <1>1, <1>2 DEF LockKept, CopySound, Reading, Holding
<1>7. KeptSound
  BY <1>2 DEF KeptSound
<1> QED BY <1>3, <1>4, <1>5, <1>6, <1>7 DEF IInv, BridgeInv

(* ... and every step keeps it,                                            *)
LEMMA NextIInv == IInv /\ [Next]_vars => IInv'
<1> SUFFICES ASSUME IInv, [Next]_vars PROVE IInv'
  OBVIOUS
<1>1. LockKept /\ BridgeInv /\ PeerInv /\ CopySound /\ KeptSound
  BY DEF IInv
<1>2. CASE BridgeActs
  <2>1. PeerInv'
    BY <1>1, <1>2 DEF BridgeActs, exchangeVars, PeerInv, PeerType, PeerCovered
  <2> QED BY <1>1, <1>2, <2>1, BridgeActsKeep, ComponentsKeepCopy DEF IInv
<1>3. CASE ExchangeActs
  <2>1. PeerInv' /\ lock' = lock
    BY <1>1, <1>3, ExchangeActsKeep
  <2>2. BridgeInv'
    BY <1>1, <1>3 DEF ExchangeActs, bridgeVars, BridgeInv, BridgeType, BridgeCovered,
                      OffsetsCovered, LinesCovered, RunCovered, Reading, Bridge!Version
  <2>3. LockKept'
    BY <1>1, <1>3, <2>1 DEF ExchangeActs, bridgeVars, backupVars, LockKept, Reading, Holding
  <2> QED BY <1>1, <1>3, <2>1, <2>2, <2>3, ComponentsKeepCopy DEF IInv
<1>4. CASE NoticeDebt \/ LockArchive \/ CopyIndex \/ CopyCursor \/ CopyDirectories
  <2>1. UNCHANGED <<bridgeVars, exchangeVars, kept>>
    BY <1>4 DEF NoticeDebt, LockArchive, CopyIndex, CopyCursor, CopyDirectories, Only
  <2>2. KeptSound'
    BY <1>1, <2>1 DEF KeptSound
  <2> QED BY <1>1, <1>4, <2>1, <2>2, CopyingKeeps, OnlyKeeps DEF IInv
<1>5. CASE Publish \/ Prune \/ BackupDies
  <2>1. UNCHANGED <<bridgeVars, exchangeVars>>
    BY <1>5 DEF Publish, Prune, BackupDies, Only
  <2> QED BY <1>1, <1>5, <2>1, EndingKeeps, OnlyKeeps DEF IInv
<1>6. CASE Restore
  BY <1>1, <1>6, RestoreKeeps
<1>7. CASE UNCHANGED vars
  <2>1. UNCHANGED <<bridgeVars, exchangeVars, lock, backup, kept>>
    BY <1>7 DEF vars, backupVars
  <2>2. LockKept'
    BY <1>1, <2>1 DEF bridgeVars, LockKept, Reading, Holding
  <2>3. CopySound' /\ KeptSound'
    BY <1>1, <2>1 DEF bridgeVars, exchangeVars, CopySound, KeptSound
  <2> QED BY <1>1, <2>1, <2>2, <2>3, OnlyKeeps DEF IInv
<1> QED BY <1>2, <1>3, <1>4, <1>5, <1>6, <1>7 DEF Next, Copying

(* so that it always holds.                                                *)
LEMMA Invariance == Spec => []IInv
BY InitIInv, NextIInv, PTL DEF Spec

-----------------------------------------------------------------------------
(* The theorems.                                                           *)

(* No cursor is ahead of what it stands for, in the archive or in any      *)
(* snapshot: neither the bridge's, nor the collector's, nor the            *)
(* exchange's, whatever is killed, copied meanwhile or restored.           *)
THEOREM CursorsStayCovered == Spec => []CursorsCovered
<1>1. IInv => CursorsCovered
  <2> SUFFICES ASSUME IInv PROVE CursorsCovered
    OBVIOUS
  <2>1. BridgeType /\ BridgeCovered /\ PeerType /\ PeerCovered /\ KeptSound
    BY DEF IInv, BridgeInv, PeerInv
  <2>2. captured \in Nat /\ checkpoint \in 0..captured
    BY <2>1, LinesAssumption DEF BridgeType
  <2>3. LinesCovered(log, checkpoint)
    BY <2>1, <2>2 DEF BridgeCovered, LinesCovered
  <2>4. Covered(Live)
    BY <2>1, <2>3, CoveredParts DEF Live, BridgeCovered, PeerCovered
  <2>5. \A i \in DOMAIN kept : Covered(kept[i])
    BY <2>1 DEF KeptSound, Sound
  <2> QED BY <2>4, <2>5 DEF CursorsCovered
<1> QED BY <1>1, Invariance, PTL

(* The next round of a conversation is a new one, whatever numbers were    *)
(* imported and whatever snapshot was restored.                            *)
THEOREM RoundsStayFresh == Spec => []RoundsFresh
<1>1. IInv => RoundsFresh
  BY DEF IInv, BridgeInv, Numbered, RoundsFresh
<1> QED BY <1>1, Invariance, PTL

(* The page behind the receiver's cursor rests on records that are there   *)
(* or come with it, whenever it was exported.                              *)
THEOREM NextPageIsAccepted == Spec => []NextPageAccepted
<1>1. IInv => NextPageAccepted
  <2> SUFFICES ASSUME IInv, NEW page \in Peer!Exported, page.from = peerCursor + 1
               PROVE  Peer!Acceptable(page)
    BY DEF NextPageAccepted
  <2>1. /\ produced \in Nat /\ peerCursor \in Nat /\ 1..peerCursor \subseteq replica.records
    BY DEF IInv, PeerInv, PeerType, PeerCovered
  <2>2. PICK t \in 0..produced, k \in 0..Peer!RecordsAt(produced) : page = Peer!Page(t, k)
    BY DEF Peer!Exported
  <2>3. t \in Nat /\ Peer!RecordsAt(t) \in Nat
    BY <2>1, RecordsAtFacts
  <2>4. page.to = Peer!RecordsAt(t) /\ page.summaries \subseteq 1..t
    BY <2>2 DEF Peer!Page
  <2> SUFFICES ASSUME NEW s \in page.summaries
               PROVE  Peer!Raw(s) \subseteq replica.records \cup Peer!Records(page)
    BY DEF Peer!Acceptable
  <2>5. s \in Nat /\ s <= t
    BY <2>3, <2>4
  <2>6. Peer!RecordsAt(s) \in Nat /\ Peer!RecordsAt(s) <= Peer!RecordsAt(t)
    BY <2>3, <2>5, RecordsAtFacts
  <2>7. Peer!Raw(s) = 1..Peer!RecordsAt(s)
    BY DEF Peer!Raw
  <2>8. Peer!Records(page) = (peerCursor + 1)..Peer!RecordsAt(t)
    BY <2>4 DEF Peer!Records
  <2> QED BY <2>1, <2>3, <2>6, <2>7, <2>8
<1> QED BY <1>1, Invariance, PTL

=============================================================================
