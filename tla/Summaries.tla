----------------------------- MODULE Summaries ------------------------------
(***************************************************************************)
(* The summary phase of the live tick (core/live.py, core/runtime.py) over *)
(* SummaryService (core/summary.py): the conversations with messages past  *)
(* the summary cursor are looked at, their completed rounds that no        *)
(* summary has taken are handed to a model in groups of limited size, the  *)
(* partial summaries are reduced to one, and summaries of a level are      *)
(* composed into parents.  Messages are appended all the while; the model  *)
(* runs without the archive lock and may fail; a summary is a file and     *)
(* then a row of summary_index; a process may be killed at any point.  The *)
(* archive itself is the abstract log, which ArchiveStore implements.      *)
(***************************************************************************)
EXTENDS AppendLog, FiniteSetsExt, SequencesExt

CONSTANTS
    Arrivals,       (* bound: the orders in which messages arrive          *)
    Internal,       (* conversations that may be found to be sub-agents'   *)
    MinRounds,      (* summary_rounds of the configuration                 *)
    MinChildren,    (* minimum_children of summarize_parents_due           *)
    MaxLevel,       (* maximum_level of summarize_parents_due              *)
    MaxInput,       (* items that fit into one prompt                      *)
    Mishaps         (* bound: which disturbances may come together, once   *)
                    (* each, in one behaviour                              *)

ASSUME ArrivalsAssumption == Arrivals \subseteq Seq(Messages)

(* A prompt takes two items at least, or _reduce could not reduce.         *)
ASSUME SizesAssumption ==
    /\ MinRounds \in Nat \ {0} /\ MinChildren \in Nat \ {0, 1}
    /\ MaxLevel \in Nat \ {0} /\ MaxInput \in Nat \ {0, 1}

VARIABLES
    cursor,         (* summary_cursor of live-status.json                  *)
    files,          (* summaries/, in the order in which they were written *)
    indexed,        (* summary_index: positions in files                   *)
    excluded,       (* excluded-conversations.json                         *)
    task,           (* what the tick and the user's command are doing      *)
    disturbed,      (* the disturbances so far                             *)
    late,           (* history: the last message came while a tick ran     *)
    orphans         (* history: files of a killed process without a row    *)

archive == <<log, rounds>>
history == <<late, orphans>>
liveVars == <<archive, cursor, files, indexed, excluded, task, disturbed, history>>

Procs == {"tick", "user"}

Idle == [at |-> "idle", todo |-> {}, errors |-> FALSE, conv |-> {},
         scan |-> 0, level |-> 0, groups |-> <<>>, nodes |-> <<>>, last |-> 0]

LiveInit ==
    /\ Init
    /\ cursor = 0 /\ files = <<>> /\ indexed = {} /\ excluded = {}
    /\ task = [p \in Procs |-> Idle]
    /\ disturbed = {}
    /\ late = {} /\ orphans = {}

-----------------------------------------------------------------------------
(* The archive, as the summaries see it.                                   *)

Records(c) == {i \in DOMAIN log : log[i].msg.conv = c}

CompletedRounds(c) == {log[i].round : i \in {j \in Records(c) : log[j].completes}}

(* SummaryService.list(conversation) goes by the index.                    *)
Listed(c) == {k \in indexed : files[k].conv = c}

(* What level-1 summaries were given counts as covered, cited or not; a    *)
(* parent counts by the raw messages that it rests on.                     *)
CoveredIfCited(c) == UNION {files[k].raw : k \in Listed(c)}

Covered(c) ==
    UNION {IF files[k].level = 1 THEN files[k].inputs ELSE files[k].raw : k \in Listed(c)}

SelectedOfAnyRound(c) == {i \in Records(c) : log[i].round # NoRound} \ Covered(c)

Selected(c) ==
    {i \in Records(c) : log[i].round \in CompletedRounds(c)} \ Covered(c)

Due(c) == Cardinality({log[i].round : i \in Selected(c)}) >= MinRounds

(* "one source item exceeds the model input budget"                        *)
Oversized(items) == \E i \in items : log[i].msg.body = "huge"

Consumed(c) == UNION {files[k].inputs : k \in {j \in Listed(c) : files[j].level > 1}}

Ready(c, level) == {k \in Listed(c) \ Consumed(c) : files[k].level = level}

(* _partition: as many items as fit, in their order.                       *)
Groups(items) ==
    [g \in 1..((Len(items) + MaxInput - 1) \div MaxInput) |->
        SubSeq(items, (g - 1) * MaxInput + 1, Min({g * MaxInput, Len(items)}))]

(* A set of places in a list, as the list orders them.                     *)
InOrder(S) ==
    [k \in 1..Cardinality(S) |-> CHOOSE x \in S : Cardinality({y \in S : y < x}) = k - 1]

-----------------------------------------------------------------------------
(* The world around: messages arrive, a conversation turns out internal.   *)

Disturb(kind) ==
    /\ kind \notin disturbed
    /\ \E together \in Mishaps : disturbed \cup {kind} \subseteq together
    /\ disturbed' = disturbed \cup {kind}

Arrive(m) ==
    /\ \E order \in Arrivals : IsPrefix(Append([i \in DOMAIN log |-> log[i].msg], m), order)
    /\ AppendMessage(m)
    /\ late' = IF task["tick"].at = "idle" THEN late \ {m.conv} ELSE late \cup {m.conv}
    /\ UNCHANGED <<cursor, files, indexed, excluded, task, disturbed, orphans>>

Exclude(c) ==
    /\ c \in Internal \ excluded
    /\ excluded' = excluded \cup {c}
    /\ Disturb("exclude")
    /\ UNCHANGED <<archive, cursor, files, indexed, task, history>>

-----------------------------------------------------------------------------
(* The tick opens the archive, which repairs the index, and selects        *)
(* conversations under its lock; live-tick.lock admits one tick at a time. *)

Begin(p, work) ==
    /\ task[p].at = "idle"
    /\ indexed' = DOMAIN files
    /\ task' = [task EXCEPT ![p] = work]
    /\ UNCHANGED <<archive, cursor, files, excluded, history>>

Fresh(c) == \E i \in Records(c) : i > cursor

(* Variants, each named for the mistake it makes, stand before the         *)
(* definition they replace when the properties are tried against them.     *)

StartTickWithoutRepair ==
    /\ task["tick"].at = "idle"
    /\ task' = [task EXCEPT !["tick"] = [Idle EXCEPT !.at = "next",
                                !.todo = {c \in Convs : Fresh(c)} \ excluded]]
    /\ UNCHANGED <<archive, cursor, files, indexed, excluded, disturbed, history>>

StartTick ==
    /\ Begin("tick", [Idle EXCEPT !.at = "next",
                                  !.todo = {c \in Convs : Fresh(c)} \ excluded])
    /\ UNCHANGED disturbed

Only(p) ==
    /\ task[p].at # "idle"
    /\ UNCHANGED <<archive, cursor, excluded, disturbed, history>>

Goto(p, place, c) == [task[p] EXCEPT !.at = place, !.conv = {c}, !.scan = 1]

Generation(p, c, level, items) ==
    [task[p] EXCEPT !.at = "lock", !.conv = {c}, !.level = level, !.nodes = <<>>,
                    !.groups = Groups(InOrder(items))]

(* summarize_due: nothing to do for this conversation.                     *)
BelowThreshold(c) ==
    /\ Only("tick") /\ task["tick"].at = "next" /\ c \in task["tick"].todo
    /\ ~Due(c)
    /\ task' = [task EXCEPT !["tick"] = Goto("tick", "parents", c)]
    /\ UNCHANGED <<files, indexed>>

(* generate() raises for an internal conversation, _partition for an item  *)
(* that fits into no prompt.                                               *)
Refused(c, items) == c \in excluded \/ Oversized(items)

GenerateDue(c) ==
    /\ Only("tick") /\ task["tick"].at = "next" /\ c \in task["tick"].todo
    /\ Due(c) /\ ~Refused(c, Selected(c))
    /\ task' = [task EXCEPT !["tick"] = Generation("tick", c, 1, Selected(c))]
    /\ UNCHANGED <<files, indexed>>

(* The tick catches what one conversation raises and takes the next one.   *)
Raised(c) == [Idle EXCEPT !.at = "next", !.todo = task["tick"].todo \ {c},
                          !.errors = TRUE]

RefuseDue(c) ==
    /\ Only("tick") /\ task["tick"].at = "next" /\ c \in task["tick"].todo
    /\ Due(c) /\ Refused(c, Selected(c))
    /\ task' = [task EXCEPT !["tick"] = Raised(c)]
    /\ UNCHANGED <<files, indexed>>

(* summarize_parents_due, level by level; list() sorts by a hash, so the   *)
(* children of a parent are any of those that are ready.                   *)
GenerateParent(c) ==
    /\ Only("tick") /\ task["tick"].at = "parents" /\ task["tick"].conv = {c}
    /\ task["tick"].scan < MaxLevel
    /\ c \notin excluded
    /\ \E children \in kSubset(MinChildren, Ready(c, task["tick"].scan)) :
        task' = [task EXCEPT !["tick"] =
                    Generation("tick", c, task["tick"].scan + 1, children)]
    /\ UNCHANGED <<files, indexed>>

RefuseParent(c) ==
    /\ Only("tick") /\ task["tick"].at = "parents" /\ task["tick"].conv = {c}
    /\ task["tick"].scan < MaxLevel
    /\ c \in excluded
    /\ Cardinality(Ready(c, task["tick"].scan)) >= MinChildren
    /\ task' = [task EXCEPT !["tick"] = Raised(c)]
    /\ UNCHANGED <<files, indexed>>

NextLevel(c) ==
    /\ Only("tick") /\ task["tick"].at = "parents" /\ task["tick"].conv = {c}
    /\ task["tick"].scan < MaxLevel
    /\ Cardinality(Ready(c, task["tick"].scan)) < MinChildren
    /\ task' = [task EXCEPT !["tick"].scan = @ + 1]
    /\ UNCHANGED <<files, indexed>>

ConversationDone(c) ==
    /\ Only("tick") /\ task["tick"].at = "parents" /\ task["tick"].conv = {c}
    /\ task["tick"].scan = MaxLevel
    /\ task' = [task EXCEPT !["tick"] = [Raised(c) EXCEPT !.errors = task["tick"].errors]]
    /\ UNCHANGED <<files, indexed>>

EndTickDespiteErrors ==
    /\ task["tick"].at = "next" /\ task["tick"].todo = {}
    /\ task' = [task EXCEPT !["tick"] = Idle]
    /\ cursor' = Len(log)
    /\ UNCHANGED <<archive, files, indexed, excluded, disturbed, history>>

EndTick ==
    /\ task["tick"].at = "next" /\ task["tick"].todo = {}
    /\ task' = [task EXCEPT !["tick"] = Idle]
    /\ cursor' = IF task["tick"].errors THEN cursor ELSE Len(log)
    /\ UNCHANGED <<archive, files, indexed, excluded, disturbed, history>>

(* "runtime summarize": generate() over all completed rounds.              *)
UserSummarize(c) ==
    LET items == {i \in Records(c) : log[i].round \in CompletedRounds(c)}
    IN  /\ items # {} /\ ~Refused(c, items)
        /\ Begin("user", Generation("user", c, 1, items))
        /\ Disturb("user")

-----------------------------------------------------------------------------
(* _generate_one, for the first of the groups.                             *)

Source(p) == [level |-> task[p].level, inputs |-> Range(Head(task[p].groups))]

InModel(p) == task[p].at \in {"call", "index"}

(* The lock of this source: summary-locks/<source_sha256>.lock.            *)
SourceLocked(p) == \E q \in Procs \ {p} : InModel(q) /\ task[q].conv = task[p].conv
                                                     /\ Source(q) = Source(p)

Same(p, k) ==
    /\ task[p].conv = {files[k].conv}
    /\ Source(p) = [level |-> files[k].level, inputs |-> files[k].inputs]

(* The group is done; _reduce composes the partial summaries of a level    *)
(* until one is left, and then generate() returns.                         *)
GroupDone(p, k) ==
    LET nodes == Append(task[p].nodes, k)
        rest == Tail(task[p].groups)
    IN  IF rest # <<>> THEN
            [task[p] EXCEPT !.at = "lock", !.groups = rest, !.nodes = nodes, !.last = 0]
        ELSE IF Len(nodes) > 1 THEN
            [task[p] EXCEPT !.at = "lock", !.groups = Groups(nodes), !.nodes = <<>>,
                            !.level = @ + 1, !.last = 0]
        ELSE IF p = "user" THEN Idle
        ELSE [task[p] EXCEPT !.at = "parents", !.groups = <<>>, !.nodes = <<>>,
                             !.level = 0, !.last = 0, !.scan = Max({@, 1})]

EnterSourceUnlocked(p) ==
    /\ Only(p) /\ task[p].at = "lock"
    /\ ~\E k \in indexed : Same(p, k)
    /\ task' = [task EXCEPT ![p].at = "call"]
    /\ UNCHANGED <<files, indexed>>

EnterSource(p) ==
    /\ Only(p) /\ task[p].at = "lock"
    /\ ~SourceLocked(p)
    /\ ~\E k \in indexed : Same(p, k)
    /\ task' = [task EXCEPT ![p].at = "call"]
    /\ UNCHANGED <<files, indexed>>

ReuseSummary(p) ==
    /\ Only(p) /\ task[p].at = "lock"
    /\ ~SourceLocked(p)
    /\ \E k \in indexed : Same(p, k) /\ task' = [task EXCEPT ![p] = GroupDone(p, k)]
    /\ UNCHANGED <<files, indexed>>

(* The raw messages that the cited inputs rest on.                         *)
RawOfAll(source, refs) ==
    IF source.level = 1 THEN refs ELSE UNION {files[k].raw : k \in source.inputs}

Raw(source, refs) ==
    IF source.level = 1 THEN refs ELSE UNION {files[k].raw : k \in refs}

(* The model may cite any of its inputs; bound: it cites the first one, so *)
(* that uncited input is the rule.                                         *)
Citations(inputs) == {{Min(inputs)}}

(* The model answers with citations of some of its inputs, and commit()    *)
(* writes the file of the summary ...                                      *)
CommitFile(p) ==
    LET source == Source(p)
    IN  /\ Only(p) /\ task[p].at = "call"
        /\ \E c \in task[p].conv, refs \in Citations(source.inputs) :
            files' = Append(files, [conv |-> c, level |-> source.level,
                                    inputs |-> source.inputs, refs |-> refs,
                                    raw |-> Raw(source, refs), by |-> p])
        /\ task' = [task EXCEPT ![p].at = "index", ![p].last = Len(files) + 1]
        /\ UNCHANGED indexed

(* ... and its row.                                                        *)
CommitIndex(p) ==
    /\ Only(p) /\ task[p].at = "index"
    /\ indexed' = indexed \cup {task[p].last}
    /\ task' = [task EXCEPT ![p] = GroupDone(p, task[p].last)]
    /\ UNCHANGED files

Mishap(kind) ==
    /\ Disturb(kind)
    /\ UNCHANGED <<archive, cursor, files, indexed, excluded, late>>

(* The model fails, times out or gives no usable answer.                   *)
ModelFails(p) ==
    /\ Mishap("fail") /\ task[p].at = "call"
    /\ \E c \in task[p].conv :
        task' = [task EXCEPT ![p] = IF p = "user" THEN Idle ELSE Raised(c)]
    /\ UNCHANGED orphans

Killed(p) ==
    /\ Mishap("kill") /\ task[p].at # "idle"
    /\ task' = [task EXCEPT ![p] = Idle]
    /\ orphans' = IF task[p].at = "index" THEN orphans \cup {task[p].last} ELSE orphans

-----------------------------------------------------------------------------

TickStep(c) ==
    \/ BelowThreshold(c) \/ GenerateDue(c) \/ RefuseDue(c)
    \/ GenerateParent(c) \/ RefuseParent(c) \/ NextLevel(c) \/ ConversationDone(c)

GenerateStep(p) == EnterSource(p) \/ ReuseSummary(p) \/ CommitFile(p) \/ CommitIndex(p)

LiveNext ==
    \/ \E c \in Convs : Exclude(c) \/ UserSummarize(c) \/ TickStep(c)
    \/ \E m \in Messages : Arrive(m)
    \/ StartTick \/ EndTick
    \/ \E p \in Procs : GenerateStep(p) \/ ModelFails(p) \/ Killed(p)

LiveSpec == LiveInit /\ [][LiveNext]_liveVars

(* The tick is started again and again and carries on while it runs; every *)
(* call of the model ends, by its time limit at the latest.                *)
Fairness ==
    /\ WF_liveVars(StartTick \/ EndTick \/ (\E c \in Convs : TickStep(c)) \/ GenerateStep("tick"))
    /\ WF_liveVars(GenerateStep("user"))

LiveFairSpec == LiveSpec /\ Fairness

-----------------------------------------------------------------------------

(* The tick gives a message, or a summary, to the model for one summary    *)
(* only, whatever failed or was killed before and whatever the user asked  *)
(* for in between.  Twice would count the same events twice.               *)
InputOnce ==
    \A j, k \in DOMAIN files :
        /\ j # k /\ files[j].by = "tick" /\ files[k].by = "tick"
        /\ files[j].conv = files[k].conv
        /\ (files[j].level = 1) = (files[k].level = 1)
        => files[j].inputs \cap files[k].inputs = {}

(* Of one source there is one summary, whoever asks for it: the lock of    *)
(* the source makes the second one find the first.  Only a file whose      *)
(* writer was killed before its row can have a second one beside it.       *)
SourceOnce ==
    \A j, k \in DOMAIN files :
        /\ files[j].conv = files[k].conv /\ files[j].level = files[k].level
        /\ files[j].inputs = files[k].inputs
        => j = k \/ {j, k} \cap orphans # {}

(* What a peer demands of summaries before it takes any record with them   *)
(* (import_peer, PeerIndex.ingest): cited children are there, one level    *)
(* down, and the raw messages are exactly theirs.  One summary that fails  *)
(* this would stop the exchange for good.  The rounds are complete: a      *)
(* summary of half a round would never see the other half.                 *)
PeersAccept ==
    \A k \in DOMAIN files :
        LET s == files[k]
        IN  IF s.level = 1
            THEN /\ s.raw = s.refs
                 /\ \A i \in s.inputs : i \in Records(s.conv)
                                        /\ log[i].round \in CompletedRounds(s.conv)
            ELSE /\ \A j \in s.refs : j \in 1..(k - 1) /\ files[j].conv = s.conv
                                      /\ files[j].level = s.level - 1
                 /\ s.raw = UNION {files[j].raw : j \in s.refs}

(* A conversation with enough completed rounds is summarised in the end.   *)
(* Not so when it is internal, when one of its messages fits into no       *)
(* prompt, and when its messages came while a tick was running that then   *)
(* moved the cursor past them: it must wait for its next message.          *)
DueIsSummarised ==
    \A c \in Convs :
        Due(c) ~> (~Due(c) \/ c \in excluded \cup late \/ Oversized(Selected(c)))

=============================================================================
