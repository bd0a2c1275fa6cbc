---------------------------- MODULE NativeBridge ----------------------------
(***************************************************************************)
(* core/native_bridge.py: the records that an older collector writes as    *)
(* blocks into Markdown files are imported into the archive, file by file, *)
(* with the round numbers that they already have.  A cursor per file says  *)
(* which bytes were taken.  The session collector appends to the same      *)
(* archive, numbers its rounds itself and may bring the same messages.     *)
(* An append is one step, as ArchiveStore makes it; what was journalled    *)
(* when a process was killed is committed before anybody reads on.         *)
(***************************************************************************)
EXTENDS Rounds, Sequences, FiniteSetsExt

CONSTANTS
    Source,     (* the files in the order of their names, each with its    *)
                (* blocks [msg |-> [id, conv, kind, body], round |-> n]    *)
    Bad,        (* a block whose framing is broken                         *)
    Lines,      (* the messages that the session collector brings          *)
    Convs,
    Internal    (* conversations that their metadata calls a sub-agent's   *)

VARIABLES
    size,       (* of each file, in half blocks: an odd one ends torn      *)
    log,        (* the archive: [msg, block, version, round, completes]    *)
    rounds,
    excluded,   (* excluded-conversations.json                             *)
    evidence,   (* legacy/conflicts: blocks whose version is explained     *)
    saved,      (* cursor of each file: [offset, stamp, pending]           *)
    bridge,     (* the run: [at, file, pos, limit]                         *)
    captured,   (* lines that the session collector has passed             *)
    checkpoint, (* ... and those that its checkpoint covers                *)
    lock        (* .archive.lock: "free", or who keeps it for long         *)

archive == <<log, rounds, excluded, evidence, saved>>
vars == <<size, archive, bridge, captured, checkpoint, lock>>

NoRun == [at |-> "idle", file |-> 0, pos |-> 0, limit |-> 0]

Init ==
    /\ size = [f \in DOMAIN Source |-> 0]
    /\ log = <<>> /\ rounds = [c \in Convs |-> FreshCounters]
    /\ excluded = {} /\ evidence = {}
    /\ saved = [f \in DOMAIN Source |-> [offset |-> 0, stamp |-> 0, pending |-> FALSE]]
    /\ bridge = NoRun
    /\ captured = 0 /\ checkpoint = 0
    /\ lock = "free"

-----------------------------------------------------------------------------
(* The world around.                                                       *)

(* The older collector writes half a block.                                *)
Write(f) ==
    /\ size[f] < 2 * Len(Source[f])
    /\ size' = [size EXCEPT ![f] = @ + 1]
    /\ UNCHANGED <<archive, bridge, captured, checkpoint, lock>>

Torn(f) == size[f] % 2 = 1

Stored(id) == {i \in DOMAIN log : log[i].msg.id = id /\ ~log[i].version}

(* The session collector appends its next line, or finds the message there *)
(* (a legacy record that differs would raise).                             *)
Capture ==
    /\ lock = "free"
    /\ captured < Len(Lines)
    /\ captured' = captured + 1
    /\ LET m == Lines[captured + 1]
       IN  IF Stored(m.id) # {} THEN
               /\ \A i \in Stored(m.id) : log[i].msg = m
               /\ UNCHANGED <<log, rounds>>
           ELSE
               /\ log' = Append(log, [msg       |-> m,
                                      block     |-> {},
                                      version   |-> FALSE,
                                      round     |-> RoundOf(m.kind, rounds[m.conv]),
                                      completes |-> Completes(m.kind, rounds[m.conv])])
               /\ rounds' = [rounds EXCEPT ![m.conv] = CountersAfter(m.kind, @)]
    /\ UNCHANGED <<size, excluded, evidence, saved, bridge, checkpoint, lock>>

(* It writes its checkpoint after the appends, without the archive's lock. *)
SaveCheckpoint ==
    /\ checkpoint < captured
    /\ checkpoint' = captured
    /\ UNCHANGED <<size, archive, bridge, captured, lock>>

CollectorDies ==
    /\ checkpoint < captured
    /\ captured' = checkpoint
    /\ UNCHANGED <<size, archive, bridge, checkpoint, lock>>

-----------------------------------------------------------------------------
(* A run of the bridge, under bridge.lock.  One that finds every file as   *)
(* its cursor left it changes nothing, and is left out.                    *)

StartBridge ==
    /\ bridge.at = "idle"
    /\ \E f \in DOMAIN Source : saved[f].stamp # size[f]
    /\ bridge' = [NoRun EXCEPT !.at = "next", !.file = 1]
    /\ UNCHANGED <<size, archive, captured, checkpoint, lock>>

NextFile(pending) ==
    IF pending \/ bridge.file = Len(Source) THEN NoRun
    ELSE [NoRun EXCEPT !.at = "next", !.file = bridge.file + 1]

(* A file that did not change since its cursor is not read; when it ended  *)
(* torn it still ends the run.                                             *)
SkipFile ==
    /\ bridge.at = "next"
    /\ saved[bridge.file].stamp = size[bridge.file]
    /\ bridge' = NextFile(saved[bridge.file].pending)
    /\ UNCHANGED <<size, archive, captured, checkpoint, lock>>

(* The archive's lock is kept for the whole file; what is written later    *)
(* is left for the next run.                                               *)
OpenFile ==
    /\ bridge.at = "next"
    /\ saved[bridge.file].stamp # size[bridge.file]
    /\ lock = "free" /\ lock' = "bridge"
    /\ bridge' = [bridge EXCEPT !.at = "read", !.pos = saved[bridge.file].offset,
                                !.limit = size[bridge.file]]
    /\ UNCHANGED <<size, archive, captured, checkpoint>>

AtBlock(b) ==
    /\ bridge.at = "read"
    /\ 2 * (bridge.pos + 1) <= bridge.limit
    /\ b = Source[bridge.file][bridge.pos + 1]

Passed == [bridge EXCEPT !.at = "read", !.pos = @ + 1]

(* "native raw record block framing changed": the run ends, no cursor.     *)
RefuseBlock ==
    /\ AtBlock(Bad)
    /\ bridge' = NoRun /\ lock' = "free"
    /\ UNCHANGED <<size, archive, captured, checkpoint>>

ReadInternal(b) ==
    /\ AtBlock(b) /\ b # Bad /\ b.msg.conv \in Internal
    /\ excluded' = excluded \cup {b.msg.conv}
    /\ bridge' = Passed
    /\ UNCHANGED <<size, log, rounds, evidence, saved, captured, checkpoint, lock>>

Readable(b) == AtBlock(b) /\ b # Bad /\ b.msg.conv \notin Internal

Duplicate(b) == \E i \in Stored(b.msg.id) : log[i].block = {b}

Version(b) == \E i \in DOMAIN log : log[i].version /\ log[i].block = {b}

(* Variants, each named for the mistake it makes, stand before the         *)
(* definition they replace when the properties are tried against them.     *)

(* Rounds of imported records are taken as they are, and the counters of   *)
(* the conversation are moved past them.                                   *)
NativeCountersAsNumbered(b, c) ==
    [next    |-> b.round + 1,
     pending |-> IF b.msg.kind = "final" THEN NoRound
                 ELSE IF b.msg.kind = "user" /\ b.round # NoRound THEN b.round
                 ELSE c.pending]

NativeCounters(b, c) ==
    [next    |-> Max({c.next, b.round + 1}),
     pending |-> IF b.msg.kind = "final" THEN NoRound
                 ELSE IF b.msg.kind = "user" /\ b.round # NoRound THEN b.round
                 ELSE c.pending]

Import(b, version) ==
    /\ log' = Append(log, [msg       |-> b.msg,
                           block     |-> {b},
                           version   |-> version,
                           round     |-> b.round,
                           completes |-> b.msg.kind = "final"])
    /\ rounds' = [rounds EXCEPT ![b.msg.conv] = NativeCounters(b, @)]

ReadDuplicateOrVersion(b) ==
    /\ Readable(b) /\ (Duplicate(b) \/ Version(b))
    /\ bridge' = Passed
    /\ UNCHANGED <<size, archive, captured, checkpoint, lock>>

ReadDuplicate(b) ==
    /\ Readable(b) /\ Duplicate(b)
    /\ bridge' = Passed
    /\ UNCHANGED <<size, archive, captured, checkpoint, lock>>

ReadNew(b) ==
    /\ Readable(b) /\ Stored(b.msg.id) = {}
    /\ Import(b, FALSE)
    /\ bridge' = Passed
    /\ UNCHANGED <<size, excluded, evidence, saved, captured, checkpoint, lock>>

(* The ID has other content, or was brought by the session collector: the  *)
(* block is kept beside it, and a file explains why.                       *)
ReadVersion(b) ==
    /\ Readable(b) /\ Stored(b.msg.id) # {} /\ ~Duplicate(b) /\ ~Version(b)
    /\ Import(b, TRUE)
    /\ bridge' = [bridge EXCEPT !.at = "evidence"]
    /\ UNCHANGED <<size, excluded, evidence, saved, captured, checkpoint, lock>>

(* The evidence follows its record, at once or when the block is met again.*)
WriteEvidence(b) ==
    /\ \/ bridge.at = "evidence" /\ b = Source[bridge.file][bridge.pos + 1]
       \/ Readable(b) /\ ~Duplicate(b) /\ Version(b)
    /\ evidence' = evidence \cup {b}
    /\ bridge' = Passed
    /\ UNCHANGED <<size, log, rounds, excluded, saved, captured, checkpoint, lock>>

AtEnd == bridge.at = "read" /\ 2 * (bridge.pos + 1) > bridge.limit

(* The cursor carries the size that was read, not the one of now.          *)
CloseFileStampedNow ==
    /\ AtEnd
    /\ saved' = [saved EXCEPT ![bridge.file] =
           [offset |-> bridge.pos, stamp |-> size[bridge.file],
            pending |-> bridge.limit % 2 = 1]]
    /\ bridge' = NextFile(bridge.limit % 2 = 1)
    /\ lock' = "free"
    /\ UNCHANGED <<size, log, rounds, excluded, evidence, captured, checkpoint>>

CloseFile ==
    /\ AtEnd
    /\ saved' = [saved EXCEPT ![bridge.file] =
           [offset |-> bridge.pos, stamp |-> bridge.limit, pending |-> bridge.limit % 2 = 1]]
    /\ bridge' = NextFile(bridge.limit % 2 = 1)
    /\ lock' = "free"
    /\ UNCHANGED <<size, log, rounds, excluded, evidence, captured, checkpoint>>

-----------------------------------------------------------------------------

Blocks == UNION {{Source[f][k] : k \in DOMAIN Source[f]} : f \in DOMAIN Source}

BridgeStep ==
    \/ StartBridge \/ SkipFile \/ OpenFile \/ RefuseBlock \/ CloseFile
    \/ \E b \in Blocks : \/ ReadInternal(b) \/ ReadDuplicate(b) \/ ReadNew(b)
                         \/ ReadVersion(b) \/ WriteEvidence(b)

(* The process is killed; the lock goes with it.                           *)
BridgeDies ==
    /\ bridge.at # "idle"
    /\ bridge' = NoRun
    /\ lock' = IF lock = "bridge" THEN "free" ELSE lock
    /\ UNCHANGED <<size, archive, captured, checkpoint>>

(* What a cursor may pass: a block that is in the archive, explained if it *)
(* stands beside another, or of a conversation that is known as internal.  *)
Accounted(b, records, internal, explained) ==
    \/ b.msg.conv \in internal
    \/ \E i \in DOMAIN records : records[i].block = {b}
                                 /\ (records[i].version => b \in explained)

=============================================================================
