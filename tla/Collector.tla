----------------------------- MODULE Collector ------------------------------
(***************************************************************************)
(* core/collector.py, class DirectCollector, with core/token_usage.py:     *)
(* maintenance ticks and watch commands copy the visible lines of growing  *)
(* session files into the archive, and add up the tokens that the sessions *)
(* report.  Each file has a checkpoint, which is written once per batch of *)
(* at most MaxBatch lines, under a lock of that file, after the appends of *)
(* the batch.  A process may die between any two of these steps.  The      *)
(* archive is the append-only log that ArchiveStore implements.            *)
(***************************************************************************)
EXTENDS SequencesExt, FiniteSetsExt

CONSTANTS
    Workers,        (* processes that collect                              *)
    Watchers,       (* those of them that are watch or collect commands    *)
    Walk,           (* the session files, in the order of run_once; those  *)
                    (* of sub-agents and of "exec" sessions, which it      *)
                    (* passes over by their first line, are left out       *)
    Script,         (* the lines each file will hold after its session     *)
                    (* line: one of those below, a message [id, conv,      *)
                    (* kind, body], or [tokens], a report of the tokens    *)
                    (* that the session has used so far                    *)
    Skip, Poison,   (* a line with nothing visible; a message that raises  *)
    Garbled,        (* a line that is no JSON                              *)
    Convs,
    MaxBatch,       (* MAX_BATCH                                           *)
    MaxUsage,       (* max_lines of collect_usage                          *)
    MaxCrashes      (* bound on crashes                                    *)

Files == {Walk[i] : i \in DOMAIN Walk}

LinesOfAll == UNION {Range(Script[f]) : f \in Files}

Reports == {l \in LinesOfAll \ {Skip, Poison, Garbled} : DOMAIN l = {"tokens"}}

Messages == LinesOfAll \ ({Skip, Poison, Garbled} \cup Reports)

ASSUME ScriptAssumption == Script \in [Files -> Seq(LinesOfAll)]
ASSUME MarkersAssumption == Skip \notin {Poison, Garbled}
ASSUME BatchAssumption == MaxBatch \in Nat \ {0}
ASSUME UsageAssumption == MaxUsage \in Nat \ {0}
(* collect_usage takes no other count for a report.                        *)
ASSUME TokensAssumption == \A l \in Reports : l.tokens \in Nat

VARIABLES
    size,           (* complete lines in each file; readline leaves a torn *)
                    (* tail alone, which is therefore as good as absent    *)
    checkpoint,     (* lines of each file that its checkpoint covers       *)
    ledger,         (* token-usage/ of each file: [line, last, total]      *)
    todo,           (* files that a process has still to visit             *)
    batch,          (* {} or {[file, line, left]}: the batch of a process  *)
    log, rounds,    (* the archive                                         *)
    crashes

archive == <<log, rounds>>
vars == <<size, checkpoint, ledger, todo, batch, archive, crashes>>

Log == INSTANCE AppendLog

Init ==
    /\ size = [f \in Files |-> 0]
    /\ checkpoint = [f \in Files |-> 0]
    /\ ledger = [f \in Files |-> [line |-> 0, last |-> 0, total |-> 0]]
    /\ todo = [w \in Workers |-> <<>>]
    /\ batch = [w \in Workers |-> {}]
    /\ Log!Init
    /\ crashes = 0

(* The session is running: Codex completes a line.                         *)
Write(f) ==
    /\ size[f] < Len(Script[f])
    /\ size' = [size EXCEPT ![f] = @ + 1]
    /\ UNCHANGED <<checkpoint, ledger, todo, batch, archive, crashes>>

Idle(w) == todo[w] = <<>> /\ batch[w] = {}

(* run_once of a tick.                                                     *)
StartTick(w) ==
    /\ w \notin Watchers /\ Idle(w)
    /\ todo' = [todo EXCEPT ![w] = Walk]
    /\ UNCHANGED <<size, checkpoint, ledger, batch, archive, crashes>>

(* collect_session of a watch or collect command.                          *)
StartWatch(w) ==
    /\ w \in Watchers /\ Idle(w)
    /\ \E f \in Files : todo' = [todo EXCEPT ![w] = <<f>>]
    /\ UNCHANGED <<size, checkpoint, ledger, batch, archive, crashes>>

(* Variants, each named for the mistake it makes, stand before the         *)
(* definition they replace when the properties are tried against them.     *)

UnlockedAlways(f) == TRUE

Unlocked(f) == \A w \in Workers : \A b \in batch[w] : b.file # f

(* The session line must be complete, as it is when a line follows it.     *)
Collectable(f) == size[f] >= 1

NextFile(w) == todo' = [todo EXCEPT ![w] = Tail(@)]

PassOver(w) ==
    /\ todo[w] # <<>> /\ batch[w] = {}
    /\ Unlocked(Head(todo[w]))
    /\ ~Collectable(Head(todo[w]))
    /\ NextFile(w)
    /\ UNCHANGED <<size, checkpoint, ledger, batch, archive, crashes>>

(* collect_usage, which every batch begins with: at most MaxUsage lines go *)
(* into the file's ledger, at once.  A counter that fell was started anew. *)
AccountWithoutReset(g, l) ==
    IF l \in Reports
    THEN [line |-> g.line + 1, last |-> l.tokens,
          total |-> g.total + (IF l.tokens < g.last THEN 0 ELSE l.tokens - g.last)]
    ELSE [g EXCEPT !.line = @ + 1]

Account(g, l) ==
    IF l \in Reports
    THEN [line |-> g.line + 1, last |-> l.tokens,
          total |-> g.total + (IF l.tokens < g.last THEN l.tokens ELSE l.tokens - g.last)]
    ELSE [g EXCEPT !.line = @ + 1]

UsageLines(f) ==
    SubSeq(Script[f], ledger[f].line + 1, Min({size[f], ledger[f].line + MaxUsage}))

CollectUsage(f) ==
    /\ Garbled \notin Range(UsageLines(f))
    /\ ledger' = [ledger EXCEPT ![f] = FoldLeft(Account, @, UsageLines(f))]

AtFile(w, f) ==
    /\ todo[w] # <<>> /\ batch[w] = {}
    /\ f = Head(todo[w]) /\ Unlocked(f) /\ Collectable(f)

Opened(f) == [file |-> f, line |-> checkpoint[f], left |-> MaxBatch]

BeginBatchSavingFirst(w, f) ==
    /\ AtFile(w, f)
    /\ CollectUsage(f)
    /\ batch' = [batch EXCEPT ![w] = {Opened(f)}]
    /\ checkpoint' = [checkpoint EXCEPT ![f] = Min({@ + MaxBatch, size[f]})]
    /\ UNCHANGED <<size, todo, archive, crashes>>

(* Take the lock of the file, read its checkpoint and collect its usage.   *)
BeginBatch(w, f) ==
    /\ AtFile(w, f)
    /\ CollectUsage(f)
    /\ batch' = [batch EXCEPT ![w] = {Opened(f)}]
    /\ UNCHANGED <<size, checkpoint, todo, archive, crashes>>

(* collect_usage raises, before it saves anything and before any message   *)
(* is read: run_once notes the error and visits the next file.             *)
FailUsage(w, f) ==
    /\ AtFile(w, f)
    /\ Garbled \in Range(UsageLines(f))
    /\ NextFile(w)
    /\ UNCHANGED <<size, checkpoint, ledger, batch, archive, crashes>>

HasLine(b) == b.left > 0 /\ b.line < size[b.file]

NextLine(b) == Script[b.file][b.line + 1]

Step(b) == [file |-> b.file, line |-> b.line + 1, left |-> b.left - 1]

Archived(m) == \E i \in DOMAIN log : log[i].msg = m

PassLineOnError(w) ==
    /\ \E b \in batch[w] :
        /\ HasLine(b)
        /\ NextLine(b) \in {Skip, Poison} \cup Reports \/ Archived(NextLine(b))
        /\ batch' = [batch EXCEPT ![w] = {Step(b)}]
    /\ UNCHANGED <<size, checkpoint, ledger, todo, archive, crashes>>

(* Not a visible message, or one that is archived already.                 *)
PassLine(w) ==
    /\ \E b \in batch[w] :
        /\ HasLine(b)
        /\ NextLine(b) \in {Skip} \cup Reports \/ Archived(NextLine(b))
        /\ batch' = [batch EXCEPT ![w] = {Step(b)}]
    /\ UNCHANGED <<size, checkpoint, ledger, todo, archive, crashes>>

CaptureLine(w) ==
    /\ \E b \in batch[w] :
        /\ HasLine(b)
        /\ NextLine(b) \in Messages
        /\ Log!AppendMessage(NextLine(b))
        /\ batch' = [batch EXCEPT ![w] = {Step(b)}]
    /\ UNCHANGED <<size, checkpoint, ledger, todo, crashes>>

Conflicts(m) == m.id \in Log!Ids(log) /\ ~Archived(m)

FailLineEndingTick(w) ==
    /\ \E b \in batch[w] :
        /\ HasLine(b)
        /\ NextLine(b) \in {Poison, Garbled} \/ (NextLine(b) \in Messages /\ Conflicts(NextLine(b)))
    /\ batch' = [batch EXCEPT ![w] = {}]
    /\ todo' = [todo EXCEPT ![w] = <<>>]
    /\ UNCHANGED <<size, checkpoint, ledger, archive, crashes>>

(* The line raises: run_once notes the error and visits the next file; the *)
(* checkpoint is not written.                                              *)
FailLine(w) ==
    /\ \E b \in batch[w] :
        /\ HasLine(b)
        /\ NextLine(b) \in {Poison, Garbled} \/ (NextLine(b) \in Messages /\ Conflicts(NextLine(b)))
    /\ batch' = [batch EXCEPT ![w] = {}]
    /\ NextFile(w)
    /\ UNCHANGED <<size, checkpoint, ledger, archive, crashes>>

(* The batch is full, or the file has no further complete line.            *)
EndBatch(w) ==
    /\ \E b \in batch[w] :
        /\ ~HasLine(b)
        /\ checkpoint' = [checkpoint EXCEPT ![b.file] = b.line]
    /\ batch' = [batch EXCEPT ![w] = {}]
    /\ NextFile(w)
    /\ UNCHANGED <<size, ledger, archive, crashes>>

Crash(w) ==
    /\ ~Idle(w)
    /\ crashes < MaxCrashes
    /\ crashes' = crashes + 1
    /\ todo' = [todo EXCEPT ![w] = <<>>]
    /\ batch' = [batch EXCEPT ![w] = {}]
    /\ UNCHANGED <<size, checkpoint, ledger, archive>>

Advance(w) ==
    \/ PassOver(w) \/ (\E f \in Files : BeginBatch(w, f) \/ FailUsage(w, f))
    \/ PassLine(w) \/ CaptureLine(w) \/ FailLine(w) \/ EndBatch(w)

Next ==
    \/ \E f \in Files : Write(f)
    \/ \E w \in Workers : StartTick(w) \/ StartWatch(w) \/ Advance(w) \/ Crash(w)

(* The scheduler starts ticks again and again, and a started process runs  *)
(* on; nothing obliges a session to write another line, or a user to       *)
(* watch.  A tick gets the lock of a file in the end: it tries every 50 ms *)
(* (storage.exclusive_lock), and a watch command sleeps between its visits.*)
Fairness ==
    /\ \A w \in Watchers : WF_vars(Advance(w))
    /\ \A w \in Workers \ Watchers : SF_vars(StartTick(w)) /\ SF_vars(Advance(w))

Spec == Init /\ [][Next]_vars

FairSpec == Spec /\ Fairness

-----------------------------------------------------------------------------

Visible(f, k) == Script[f][k] \in Messages

Reporting(f, n) == {k \in 1..n : Script[f][k] \in Reports}

(* The reports that end a run of the counter, as far as line n tells: the  *)
(* next report, if there is one, shows a counter that was started anew.    *)
RunEnds(f, n) ==
    {k \in Reporting(f, n) : \A l \in Reporting(f, n) :
        (k < l /\ \A j \in Reporting(f, n) : j <= k \/ l <= j)
            => Script[f][l].tokens < Script[f][k].tokens}

SumOf(a, n) ==
    LET sum[k \in 0..n] == IF k = 0 THEN 0 ELSE sum[k - 1] + a[k]
    IN  sum[n]

(* What the counter said at the end of each of its runs, up to line n.     *)
Reported(f, n) ==
    SumOf([k \in 1..n |-> IF k \in RunEnds(f, n) THEN Script[f][k].tokens ELSE 0], n)

(* Up to line n nothing raises, and every visible line is in the archive.  *)
Covered(f, n) ==
    \A k \in 1..n :
        Script[f][k] \notin {Poison, Garbled} /\ (Visible(f, k) => Archived(Script[f][k]))

CheckpointSound == \A f \in Files : checkpoint[f] <= size[f] /\ Covered(f, checkpoint[f])

LedgerExact ==
    \A f \in Files :
        ledger[f].line <= size[f] /\ ledger[f].total = Reported(f, ledger[f].line)

(* A checkpoint never covers a visible line that is not in the archive,    *)
(* nor a line that is not complete: the collector forgets nothing, however *)
(* its batches are interrupted.  The ledger has counted every token that   *)
(* its lines report, and none twice, when a batch that followed it fails,  *)
(* is interrupted or is repeated by the other collector.                   *)
CheckpointCovered == CheckpointSound /\ LedgerExact

(* A line that no other file, and no earlier line of its own, repeats.     *)
Own(f, k) ==
    /\ Visible(f, k)
    /\ \A g \in Files : \A l \in DOMAIN Script[g] :
          Script[g][l] = Script[f][k] => g = f /\ k <= l

Place(m) == CHOOSE i \in DOMAIN log : log[i].msg = m

(* The archive holds the lines of a file from its start, without a gap and *)
(* in the order of the file, with two collectors and after every crash.    *)
(* Round numbers depend on it: an answer archived before its question      *)
(* would get no round.                                                     *)
CapturedInOrder ==
    \A f \in Files : \A k, l \in DOMAIN Script[f] :
        (k < l /\ Own(f, l) /\ Archived(Script[f][l])) =>
            /\ Script[f][k] \notin {Poison, Garbled}
            /\ Visible(f, k) => Archived(Script[f][k])
            /\ Own(f, k) => Place(Script[f][k]) < Place(Script[f][l])

(* No collector takes a checkpoint back, although two may visit one file:  *)
(* the slower one never writes an older position over a newer one.         *)
CheckpointAdvances == [][\A f \in Files : checkpoint'[f] >= checkpoint[f]]_checkpoint

(* Messages with the ID of another one that may be archived before them.   *)
Disputed ==
    {m \in Messages : \E g \in Files : \E l \in DOMAIN Script[g] :
        /\ Visible(g, l) /\ Script[g][l].id = m.id
        /\ \A j \in 1..l : Script[g][j] # m}

(* The line is complete, and neither it nor one before it raises.          *)
Readable(f, k) ==
    /\ Collectable(f) /\ k <= size[f]
    /\ \A l \in 1..k : Script[f][l] \notin {Poison, Garbled} \cup Disputed

(* A garbled line also holds up readable ones before it, if the ledger     *)
(* meets it first.                                                         *)
Overtaken(f) == \E l \in 1..size[f] : Script[f][l] = Garbled

(* Every visible line of a session is archived in the end; a line          *)
(* that raises holds up its own file only, and a message that raises only  *)
(* what follows it there.                                                  *)
EveryLineCaptured ==
    \A f \in Files : \A k \in {l \in DOMAIN Script[f] : Visible(f, l)} :
        Readable(f, k) ~> (Archived(Script[f][k]) \/ Overtaken(f))

=============================================================================
