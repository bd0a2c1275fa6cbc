# Memory-Wuxian: specifications, model checking and proofs

Memory-Wuxian archives the visible messages of Codex sessions, summarises them
and replicates records, summaries and selected files between two paired
machines through a shared cloud folder. It has no server. Its processes are
short-lived commands (a scheduled tick, watch commands, a dashboard, an
installer) that share files, SQLite databases and lock files, and any of them
may be killed at any point. What can go wrong is therefore in the *order of
writes*, and that is what these modules are about.

Paths are relative to the repository, which is `src/` in `PROJECT.json`.

## Inventory

| Component | State | Operations | What makes it correct |
|---|---|---|---|
| Archive store, `core/archive.py` | `raw/*.jsonl`, `index.sqlite` (messages, rounds), `pending-append.json`, `.archive.lock` | `recover`, `append_message`, readers without a lock | recovery never refuses the program's own torn write; index and raw files agree; what returned is durable; round numbers make summaries complete |
| Storage, `core/storage.py` | lock files | `exclusive_lock`, `atomic_replace_bytes` | mutual exclusion, all-or-nothing replacement |
| Session collector, `core/collector.py` | a checkpoint per session file, and its lock | `collect` (one batch), `run_once`, `collect_session` | no line forgotten, none out of order, checkpoints never go back, a bad file blocks only itself |
| Archive channel, `core/core_sync.py` | `core-sync/<peer>.json`, outbox, ACK folders | `sync_once`: `_process_acks`, `_accept_one`, `_export_one`; `status` | ACKs tell the truth, the replica has no gap, no page gets stuck, everything arrives |
| Peer index, `core/peer_bridge.py` | `peer-index.sqlite` (records, heads, batches) | `ingest`, `has_batch`, `state`, search | one transaction per page; sources of a summary are present |
| Files channel, `core/core_sync.py` | pending files, versions, file ACKs | `publish_files`, `receive_files`, `acknowledge_files`, `_process_file_acks` | the newest revision is applied in the end, an older one never after it |
| Environment sync, `core/environment_sync.py`, `core/environment.py` | bindings | collect, validate, publish, apply | applied means applied; local edits are not overwritten |
| Summaries, `core/summary.py`, and thresholds, `core/runtime.py` | `summaries/*.json`, `summary_index`, a lock per source | `generate` (without the archive's lock while the model runs), `commit`, `summarize_due`, `summarize_parents_due` | every completed round is the input of one summary; one source has one summary; peers accept them |
| Live tick, `core/live.py` | `live-status.json` | collection, summaries, sync, environment, backup | no conversation that is due slips behind `summary_cursor`; the backup's debt is paid |
| Native bridge and exclusions, `core/native_bridge.py` | a cursor per Markdown file, `legacy/conflicts`, `excluded-conversations.json` | `run_once`, `record_exclusions` | no cursor passes a block that is not in the archive; every block is imported; later rounds are fresh |
| Exchange, `core/exchange.py` | a cursor per peer, `replicas/*.json` | `export`, `receive`, `import_peer` | no cursor ahead of the replica; the next page is always accepted |
| Changed files, `core/install.py` | apply journal | `apply`, `recover` | all new or all old |
| Installer, `installer/transaction.py`, `updates.py` | `pending.json`, `rollback.json`, `installation.json`, services | `apply`, `recover`, rollback, update, launch | files, state and services move together |
| Backup, `core/backup.py` | snapshots, `backed_up_generation` | `create`, `restore` | what is restored is an archive that the cursors beside it do not outrun |
| Token usage, `core/token_usage.py` | a ledger per session file | `collect_usage`, before every batch of the collector | every reported token counted once, also when a counter starts anew |
| Query, MCP server, dashboards, legacy readers, migrations, configuration, packaging | - | read-only, one-off or build time | not modelled |

How they interact. The tick and the watch commands run the collector, which
adds up a file's tokens and then calls `append_message`; the native bridge
appends beside it. `summarize_due` reads completed rounds from the archive, has
a model summarise them without any lock but that of their source, and commits
summaries under the archive's lock. The backup copies everything under the
archive's lock, which not every writer of the copied files takes. `sync_once` reads archive and
summaries, and writes pages into a folder that a cloud service copies to the
peer, whose `sync_once` commits them to its peer index and writes ACK files,
which the cloud copies back. `PROJECT.json` lists, under `hazards`, the lines
where an order of steps, a crash or a late file bites.

## Modules

    Rounds          the round numbering, as pure operators
    AppendLog       what the archive promises: an append is one step
    ArchiveStore    how it keeps the promise         implements AppendLog
    Collector       session files into the archive   instantiates AppendLog
    Summaries       the tick's summary phase         extends AppendLog
    CoreSync        two nodes, pages and ACKs
    FilesChannel    selected files: publish, receive, apply, ACKs
    ChangedFiles    one apply, file by file, with its journal
    Installer       a product update, with its journal, rollback and tasks
    NativeBridge    an older collector's files into the archive
    Exchange        signed pages into a replica
    Backup          snapshot and restore, composed with NativeBridge
                    and Exchange, which go on meanwhile
    ArchiveStoreProofs, SummariesProofs, CollectorProofs, CoreSyncProofs,
    FilesChannelProofs, ChangedFilesProofs, InstallerProofs, BackupProofs
    MC<module>      the instances of a module that TLC checks

**Rounds** is lines 147-162 of `archive.py`: when a round opens, which number a
message gets, when the round completes. `Kinds` splits the assistant by
`complete_round`; NULL in column `pending` is `NoRound`.

**AppendLog** is the abstract archive: `log` and `rounds`, and one action,
`AppendMessage`, with no journal, lock or crash.

**ArchiveStore** has `append_message` and `_recover` step by step. `raw[c]` is a
file, as pieces: a record reaches its file in `Chunks` pieces, so that an
interruption can tear it. `journal` is `pending-append.json`, `table` and
`rounds` are the database. `pc` says in which section a process is: `recover`
(`recover()` of the constructor, or the first `_recover` of an append), `decide`
(the lookup of the ID), `commit` (the second `_recover`). `RecoverRaw`,
`RecoverIndex` and `RecoverUnlink` are the three writes of `_recover`, in an
order that their guards enforce, as the code's early exits do. `Interrupt` is
the end of a process, or an exception out of a write, which ends the locked
section and leaves the process alive. A loss of power that undoes completed
writes is not modelled.

**Collector** has one action per line that a batch reads. The checkpoint is
written by `EndBatch` alone. A line is a member of `Script[f]`: `Skip`
(`visible` returns None), `Poison` (it raises), `Garbled` (it is no JSON), a
report of tokens, or a message. A torn last line is as good as absent, since
`readline` is followed by a check for the line end, so `size` counts complete
lines. A batch begins with `CollectUsage`, one step that reads ahead of the
messages (2,000 lines to their 500; 3 to 2 in the instance) and saves the ledger
of tokens by itself; a garbled line makes it raise before anything of the batch
is done (`FailUsage`). `Account` has one counter for the four of the code; days,
models and the anchor of the cursor are left out. `Watchers` run
`collect_session` on any file at any time; the other workers are ticks. Left
out: files of sub-agents and `exec` sessions, which are passed over by their
first line; legacy records; files that shrink or are rewritten, for which
`collect` raises before it changes anything.

**Summaries** is the summary phase of `run_tick` over the abstract log. `files`
is `summaries/`, `indexed` the rows of `summary_index`, which the constructor
repairs from the files (`Begin`). A task goes from conversation to conversation
(`next`), composes parents level by level (`parents`), and generates: `lock` and
`call` are before and in the section of the source's lock, `index` is between
file and row. `UserSummarize` is `runtime summarize`, which takes all completed
rounds again and therefore overlaps with the tick by design; a watch command
with `--codex` summarises too and is not modelled. An input is an item, and
`MaxInput` items fit into a prompt (2 at least, or `_reduce` could not reduce);
a message with the body `huge` fits into none. The model cites the first of its
inputs only, so that uncited input is the rule. `list()` sorts by a hash, so
parents take any ready children. Texts, hashes, and the re-verification of
sources at the commit, which cannot fail over an append-only log, are left out.

**CoreSync** is both nodes and the folder. `state[n]` is the state file,
`outS/outR` the pages as the sender and the receiver see them, `ackR/ackS` the
ACKs, `ackGone` the removals of ACKs that have not reached the receiver.
`CopyPage`, `DropPage`, `CopyAck` and `DropAck` are the cloud service, file by
file and in any order. A run of `sync_once` is: `AckSave`, `UnlinkPage`,
`UnlinkAck` for each ACK; `BeginReceive`, then `AcceptPage` and `WriteAck` for
each page, or `RefusePage`, which ends receiving; `BeginExport`, then
`SkipExcluded`, or `WritePage` and `SavePage`, for each page; `EndSync`. A page
is written before the state is saved, and the two are separate actions, because
the code may be killed in between. A page carries its numbers, records and
summaries; its digest is its identity as a value, and `SameKey` is the identity
without the digest. Encryption, envelopes and their checks are left out: in the
model a page that arrives is one that was written. The records of a page are a
set, as are those of the peer's index: the code puts them in the order of their
numbers, and the index passes over one that it has (`peer_bridge.py:171-174`).
`PageCursors(n)` is the source record that a page ends with, which is the last one
in the page if it was cut down and the last one read if it was not. Sizes are counted in records
and summaries (`PageLimit`); the failure of a single record beyond the limit is
not modelled.

**FilesChannel** is one direction of the files channel, with the environment
sync as its client. At the publisher, `versions` is the state file's list of
published revisions with their status, and `PublishNew` and `PublishAgain` are
the two ways `publish_files` queues a package (the state is saved first,
`WritePackage` follows). At the peer, `AckAgain` is the part of `receive_files`
that answers packages already reached, `Receive` the part that picks the newest
of each artifact; `Apply`, `LeaveOut`, `SaveApplied`, `WriteAck` and `EndRun`
are `run_once` on what was picked. `Apply` is one step here, because
ChangedFiles makes it one: target and baseline change together or not at all.
`Bind` and `EditTarget` are the user's. `Reverts` says whether a source may
return to an earlier content, the case of a disagreement below.

**ChangedFiles** is `ChangedFileInstaller` as `EnvironmentService.apply` uses it
for one binding. The journal is written (`WriteJournal`), then the files
one by one (`ReplaceFile`), the registry with the new baseline
(`ReplaceRegistry`), the load check, the removal of the journal. A step that
raises goes to the recovery of the same process; a crash leaves it to a later
`recover()`. Recovery checks every entry (`CheckEntries`: old or new content),
then restores in reverse. `late` is a history variable: the files that were
edited after their last check. `astray` is one too: the last `bind` wrote beside
a pending journal, or contents that the files no longer had (see below).

**Installer** is the product installer: `op` is the command, `pc` its next step.
Apply, the undo of a failed apply, `recover` and `rollback` share the steps that
the code shares (`restore` is the same code for the last three). `journal` is
`pending.json`, `previous` is `rollback.json`, `state` is `installation.json`,
`services` whether the scheduled tasks are enabled; a transaction records what
they were. `Disturbed` names the operations that a crash, a failure or an edit
may hit, so that one run can leave out the rollback, which does not survive it
(below). `adopt` takes files over as they are, `strays` are the ones it leaves
unmanaged.

**NativeBridge** imports blocks of Markdown files that an older collector still
writes (half a block a step, so that files end torn). `run_once` goes through
the files by name under `bridge.lock`; a file is read under the archive's lock
up to the size it had when it was opened, and its cursor gets that size as its
stamp. A block is passed when it is a duplicate, imported as a new record or as
a version beside the record that has its ID (whose evidence is a second write),
or belongs to a sub-agent's conversation. Imported records keep their round
numbers (`NativeCounters`). A torn file or a broken block ends the run, so the
files behind it wait. The session collector is here as one stream of lines whose
checkpoint follows its appends, without the archive's lock. An append is one
step, which ArchiveStore justifies. Files that were truncated, replaced or
removed raise before anything changes and are left out.

**Exchange** is the receiver of archive pages; pages of any moment arrive in any
order and any number of times. `ImportPage` and `SaveCursor` are the two writes
of `receive`. Records are numbers, a summary is the moment it was made and rests
on the records before. A page that is not the next one is answered `duplicate`
or refused, which changes nothing, and is left out, as are envelopes and
packages of files.

**Backup** instantiates both over one archive and one lock, and adds the backup
phase of the tick: `NoticeDebt` compares generations, `LockArchive`, then index,
cursors and directories are copied one by one, then the snapshot gets its name
and older ones are removed. `Restore` puts any kept snapshot in a fresh place;
native files, session and peer are further on by then, and `live-status.json`
is not in a snapshot. One backup runs at a time. `Loads` lists what may happen
together in one behaviour: blocks, lines, events, crashes, restores, backups.

Definitions whose name says what is wrong with them (`RecoverRawFromStart`,
`WriteAckOmitted`, ...) are not used by any specification. Each stands before a
definition of the model and makes one plausible mistake of it;
`PROJECT.json` ("mutants") says which property notices.

## Runs

| Run | Instance | What it shows |
|---|---|---|
| `archive_store` | 2 processes, 4 messages (one repeats an ID with other content), 2 pieces, 2 interruptions; 21,296 states | consistency of the files, durability, refinement of AppendLog, that a journalled append is committed in the end, and that rounds are closed, in order and opened by a user |
| `collector` | a tick and a watch command, 2 files of 3 and 6 lines (a message that raises, a conflicting and a shared one, a counter that falls, a garbled line), batches of 2, 1 crash; 94,803 states | checkpoints cover what they say and never go back, tokens are counted once, files are archived in order, every readable line is archived |
| `summaries` | 2 conversations, 2 arrival orders, 2 items a prompt, parents up to level 3, and either a user's command and a kill or a failing model and an exclusion; 215,651 states | inputs are taken once, a source has one summary, peers accept every summary, what is due is summarised |
| `backup` | 2 native files, 2 lines, 3 events, retention 1, and five loads: 4 blocks, a line and a crash, or a backup and a restore with 2 blocks, or with a crash and 1 block, 1 line or 3 events; 140,974 states | no cursor is ahead of what it covers, also after a restore; rounds stay fresh; the next page is accepted; every block is imported; the backup's debt is paid |
| `core_sync` | 2 records, 1 summary, 2 pages a run, no crash; 108,691 states | no stuck page, everything arrives and is acknowledged |
| `core_sync_crash` | 2 records, 1 summary, a conversation excluded at any time, pages cut to 1 of 2 records, a crash anywhere; 1,553,836 states | ACKs and status are true, also after a crash, and there is no gap unless the crash and an exclusion come together; cursors and wire numbers stay apart correctly |
| `core_sync_retry` | 3 records, 1 crash, a conversation excluded at any time | **violated**: see below |
| `files_channel` | 1 artifact, 2 contents, 1 change, 1 edit of the target, 2 crashes; 23,444 states | numbers and statuses are true, the target never goes back, the newest revision is applied, every package is answered |
| `files_channel_revert` | 1 artifact, 2 changes, no crash | **violated**: see below |
| `changed_files` | 3 files, 3 revisions, 2 edits, 1 bind at any time, 2 failures or crashes; 4,800,069 states | all or nothing, recovery accepts its own half-done work, the user's edits survive |
| `installer` | 3 files, 3 versions (one does not load), 2 edits, 2 failures or crashes; 249,241 states | files, state and tasks move together, rollback stays possible, edits survive, recovery completes |
| `installer_rollback` | the same, 1 crash of a rollback | **violated**: see below |

Bounds. Two processes suffice for the archive and the collector, since all
interaction goes through one lock at a time and what it guards; the proofs cover
any number for the archive. Two pieces make a record that is torn or whole; two
interruptions allow one during the recovery from another, and the same holds of
the two faults of `changed_files` and `installer`. Two pages in flight are what
it takes to reorder them, and a limit of one record out of two read is what it
takes to cut a page. `core_sync` instances have summaries of the first level
only: parents are in the model, but each level more than doubles the pages
in flight. `summaries` has a round of two prompts, whose two partial
summaries are reduced and composed; `Mishaps` names
the disturbances that may come together, once each. In `backup`, everything at
once would be out of reach; each load pairs the copy, a crash and a restore with
one of the writers that do not take the archive's lock, which share nothing else
with each other. One artifact suffices in `files_channel`, because artifacts share no
state but the counter of numbers and the folder. Deadlock is checked except in
the runs of FilesChannel and Backup, which rest when everything is delivered or
copied, and of ChangedFiles, where nobody need apply anything. `MaxInterruptions`, `MaxCrashes` and `MaxFaults` bound failures,
`MaxEdits`, `MaxBinds`, `MaxChanges` and `MaxLocalEdits` the user, `Mishaps` and
`Loads` what comes together; nothing else is capped by a counter, since messages, summaries and lines come from finite sets.

Fairness. `ArchiveStore`: a process inside a locked section runs on, and commands
are started again and again; no process is obliged to append. `Collector`: a
started process runs on, and ticks are started again and again and get the lock
of a file in the end (strong fairness: the lock is tried every 50 ms, and a
watch command sleeps 100 ms or more between its visits). `Summaries`: the tick
is started again and goes on, and every call of the model ends, by its time
limit of at most 900 s (`summary.py:120`). `Backup`: the scheduler runs the
bridge, the collector and the tick again and again, the older collector
completes the block it has begun, and the backup gets the archive's lock, which
is tried every 50 ms, even if a bridge fails at a broken block in every run. `CoreSync`:
each node runs `sync_once` again and again, as the scheduler does, and the
cloud service carries every creation and removal across in the end (weak
fairness of the folder as a whole: only finitely many files are written).
`FilesChannel`: the scheduler starts the publisher's and the peer's ticks again
and again, so what a tick looks at first is strongly fair, since the other
steps of the tick come in between; what was begun goes on, and the folder
delivers. `Installer`: a command goes on, and the user runs `recover` after an
interruption, as `installer/README.md:58` tells them. Sessions need not write,
conversations need not be excluded, users need not edit, and nothing is assumed
of crashes. `core_sync` has no crashes, because after the one of
`core_sync_retry` delivery does stop.

### Disagreements found

* **A crash during export can make a gap, or stop the stream.** `_export_one`
  writes the page (line 639) before it saves the state (line 647). If the process
  dies in between, the page stays in the outbox, and the next run makes its first
  page anew, from the saved cursor and with the records and the exclusions of that
  moment, under the same wire number. If the conversation of the page's record was
  excluded meanwhile, the retried page holds the *next* record. The peer commits
  the old page and refuses the retried one ("wire batch content conflict",
  `peer_bridge.py:144`, or "a sequence gap or replay", line 712); a later page of
  the retry, if it is delivered first, continues the old one, and the peer
  has records 1 and 3 and never 2. If instead a record was appended meanwhile, the
  retried page has more records than the old one; it is refused, and is first in
  the listing at every later run, so that pages behind it are never reached. The
  comment at `core/core_sync.py:585-586` says that "retrying cannot create a gap".
  Run `core_sync_retry`, property `RetryingCreatesNoGap`. It takes both, the crash
  and the exclusion: `ReplicaHasNoGap`, which TLC checks in `core_sync_crash` and
  TLAPS proves, says that there is no gap with one of them alone. (The stopped
  stream is a violation of `HeadOfQueueAcceptable` with one crash; it holds without
  crashes.) Even then no ACK and no status is false: the node reports
  `awaiting-peer`. The gap came out of the attempt to prove its absence: with the two
  records of `core_sync_crash` it cannot be seen.
* **A file that returns to an earlier content is not delivered.** The identity
  of a revision is a digest of its contents (`environment_sync.py:136-141`), and
  `publish_files` answers `no-change` for an identity it has seen
  (`core_sync.py:333-336`). After A, B, A the peer keeps B for good;
  `RELEASE_NOTES.md:10` says the newest revision is processed. Run
  `files_channel_revert`, property `NewestDelivered`, which holds where no
  content returns.
* **An interrupted rollback leaves the tasks disabled.** `restore` writes the old
  state before the tasks are resumed and `rollback.json` is removed; after an
  interruption in between, `recover` finds nothing to do and `rollback` does not
  match the installed state (`transaction.py:202`). `installer/README.md:58-59`
  names these two as the remedy. Run `installer_rollback`, property
  `InterruptedIsTakenUp`. An `adopt` that is killed between its pause and its
  resume has the same effect, since it writes no journal.

The properties of the passing runs leave out, by name, what the code does not
promise:

* **A binding beside a pending journal blocks recovery** (`astray` in
  `ChangedFiles`). `bind` (`environment.py:80`) rewrites the registry without a
  look at the apply journal, which covers that very file ("Binding baseline and
  target files share the same durable changed-file journal",
  `environment.py:143`). Recovery then refuses the registry, and every apply is
  refused while the journal exists. Without `~astray`, TLC shows
  `RecoveryAccepts` violated in six steps.
* **A conversation may wait for its next message** (`late` in `Summaries`).
  `summary_cursor` is moved to the last sequence of the moment after the
  summaries were made (`live.py:73`), past messages that came meanwhile. A
  message that fits into no prompt holds its conversation and the cursor for
  good, and an internal conversation is never summarised.
* **A killed writer can leave a second summary of one source** (`orphans`): its
  file has no row until the next constructor repairs the index, and until then
  another process does not find it.
* **A garbled line holds up readable ones before it** (`Overtaken` in
  `Collector`), because the tokens are collected first and read further ahead.

Read in the code and not modelled: `live.py:89-91` counts only the pages that
were received in this very tick, so pages of a tick within 900 s of the last
backup drop out of the debt when the next tick is quiet; two backups at once, by
hand and by a tick with retention 1, may let the slower and older one remove the
newer (`backup.py:70`); `version` records that bring the number of a completed
round join it late (`native_bridge.py:155`), so `RoundsSound` is claimed of the
archive's own appends only; a crash after a pending page was dropped from the
state and before its files are removed leaves them in the folder for good
(`core_sync.py:671`).

## Proofs

Checked by TLAPS for all values of the constants that satisfy the assumptions
named in the modules. These say: a message has one of the conversations, kinds or
nodes; a record has at least one piece; a script is a sequence of lines, the
marks of lines differ, and a report counts a natural number of tokens
(`token_usage.py:34`); there are two nodes; page, batch, usage and run sizes are at least
1, as `core_sync.py:98-104` enforces; the levels of summaries begin at 1; a prompt
takes two items or more; revisions are of the binding's files, packages of the
installation's, and what the user writes by hand is told apart from what is
published; native blocks have a conversation, a kind and a round number, and a
backup keeps at least one snapshot. Bounds such as `MaxCrashes` may have any value.

* `ArchiveStoreProofs`: the inductive invariant `IInv` says at most one process
  is inside the lock; a journal is extant only with a raw file that ends inside
  the pending record and has a prefix of it; the record of the journal is the
  next one of the table, or its last; rows and raw files agree; sequences
  are the places in the table. From it: `RecoveryAlwaysAccepts`, `IndexIsTrue`,
  `ReturnedStays`, `HistoryNotRewritten`, `RawStaysFullyIndexed` (which adds how long
  each raw file is, also while a record is torn: `RawAccounted`), and `ImplementsLog`, that the store
  with its journal, lock and interruptions implements `AppendLog`
  (`RecoverIndex` is the append; every other step is a stutter). From that
  and the theorems of the log in `SummariesProofs`, instantiated with a summary
  phase that does nothing, `RoundsStaySound`, which run `archive_store`
  checks as `RoundsSound`.
* `SummariesProofs` begins with the log by itself, of which it is an extension:
  `TypeCorrect`, and `RoundsStayClosed`, `RoundsInOrder`, `RoundsHaveUser` for every
  set of messages. The three properties are not inductive: they speak of
  the log only, and what the next record gets depends on the counters. The invariant
  adds `CountersCoverLog` (no record has a number of `next` or above, a pending round
  is the one opened last, and no completed record belongs to it) and `PendingHasUser`
  (the pending round has its user message in the log). Then `LiveImplementsLog`, that the summary phase, whatever the
  tick, the user, the model and the faults do, leaves the archive an
  append-only log, and hence `SummarisedRoundsStayClosed`: no record joins a
  round after a summary could take it. Then `SourceOnceHolds`, `InputOnceHolds` and
  `PeersAcceptHolds`. For the first, `CallIsFirst`: who is in the model finds no
  earlier file of its source but an orphan's, because a file that has no row is an
  orphan or is held by a process that has the lock of its source
  (`RowsFollow`, `SourcesLocked`). For the second, what the tick holds between two
  prompts (`TickApart`): no group shares an item with another one, with an earlier
  file of the level, or with what a partial summary was made of; and there is a
  set of old summaries, those of the index when the generation began less its
  inputs, which is closed under inputs, in which every higher summary rests, and
  which nothing that the tick holds or makes can enter. So a summary that is found
  and reused is never an old one. The lemmas `GroupsLaw` and `InOrderLaw` say that
  `_partition` makes groups that are not empty and share no item, for any limit.
* `CollectorProofs`: `CheckpointSoundHolds`, `CheckpointCoveredHolds`,
  `CapturedInOrderHolds`, `CheckpointAdvancesHolds`. Between the append of a line and the checkpoint that
  covers it stands only the batch of a process, and another process may be in the
  same file after a crash. The invariant: a file is in one batch at a time, the
  batch began at its checkpoint, and everything up to its line is in the archive;
  no message is in the archive twice, and whatever of a file is there has what
  precedes it before it. `CheckpointCovered` is that and `LedgerExact`, whose
  invariant `LedgerCounted` says what the last count of a ledger is. `collect_usage` is a fold over
  lines and `Reported` a sum: `FoldExists` and `SumExists` show that functions with
  these recursions exist, and every induction is on the least number for which it
  fails (`LeastOf`). The proof
  attempt corrected `Own`, which takes a line for a file's own: a line that its
  file has said before is archived where it came first.
* `FilesChannelProofs`: `NumberNeverReusedHolds`, `StatusIsTrueHolds`,
  `TargetNeverGoesBackHolds`. The peer applies a package first and saves its
  number later, so after a crash it does not know what it applied. The invariant
  says why it never goes back: a package that was applied and not saved is still
  in the folder on both sides (`AppliedIsFound`), since it leaves the publisher's
  only after its ACK (`RemovedIsAnswered`) and there is no ACK before the saved
  number (`AcksTrue`); so the next run picks it, or a newer one
  (`TodoIsNewer`).
* `ChangedFilesProofs`: `BaselineMatchesFilesHolds`, `RecoveryAcceptsHolds`,
  `LocalEditsKeptHolds`. The properties speak of a tree at rest, or of one step.
  The invariant says of each place in the program which files are still old and
  which are new already (`Replaced`, `PutBack`), that the journal's old contents
  are those of its old baseline, and that of the files still to be written only
  those in `late` hold an edit that the binding does not expect.
* `CoreSyncProofs`: `AcknowledgedIsCommittedHolds`, `ReplicaHasNoGapHolds`,
  `PeerAcknowledgedMeansDeliveredHolds`. What an ACK or a record in the index
  means rests on what every page in the folder says, so the invariant is about the
  pages: each is numbered like its contents and accounts for every record of its
  window of the archive (`PagesGood`); only a committed page has an ACK
  (`AcksTrue`); the index is what its pages hold, up to its head (`IndexTrue`); what
  is behind the cursor is in a page that was sent (`CursorTrue`). Two more parts
  carry the absence of gaps, each in a case of its own: until the first
  crash the pages form a chain of which the peer has an initial part (`Chained`),
  and while nothing is excluded wire numbers are sequence numbers, whatever
  crashed (`AllExact`). `HeadOfQueueAcceptableHolds`, until the first crash, takes a
  second invariant, `QInv`: no page that the peer has not committed is missing from the
  folder and no number is in no page (`QueueWhole`); no two pages of summaries
  have one number, and what a summary rests on is in its page or in one that is named
  before (`InOrder`). The last rests on how a page is cut: records are cut off
  only when no summary is left, and the first k summaries in the order of levels have
  their children among them. With a crash the property is false, as said above.
* `InstallerProofs`: `LocalEditsKeptHolds`, `RollbackStays`,
  `InstallationStaysWhole`. The invariant has three layers. `Placed`: which journals can
  be there at which place of the program, and which edits the user made after the last
  look at a file; it carries `LocalEditsKept` alone, with no hypothesis. `Fits`: the
  installed state, the state before, and the two journals belong together, whichever
  step raised or was cut off. `Settled`: file by file, what is old, what is new already
  and what was restored. The other two theorems need what TLC showed to be needed, as
  named assumptions: `RollbackUndisturbed`, that no rollback is interrupted or fails
  (else its `rollback.json` is of a version that is not installed any more, which is
  the disagreement of run `installer_rollback`), and, for the whole installation,
  `AdoptUndisturbed`, since an `adopt` that is cut off leaves the tasks paused and no
  journal. Both are about the constant `Disturbed` only, and run `installer` has
  values for which they hold.
* `BackupProofs`: `CursorsStayCovered`, `RoundsStayFresh`, `NextPageIsAccepted`. A
  snapshot is copied in pieces while others write, and a restore goes back to it, so
  whatever is true of the archive must be true of the copy in hand and of each snapshot.
  The bridge and the backup exclude each other
  (`LockKept`, `HeldStill`), the other writers do not: what was copied of them is
  sound because a cursor is copied before, or with, what it stands for, and that only
  grows (`CopySound`, `CompleteCopy`, `KeptSound`). Round numbers: `Numbered`. The
  next page of the exchange is acceptable because the receiver's cursor is covered
  (`PeerCovered`) and the records at a cursor only grow with it (`RecordsAtFacts`).

Only model-checked: the liveness properties, `JournalledIsCommitted` among them,
which are beyond the prover.

## Not modelled

* Updates (`installer/updates.py`): a process of the operating system's
  scheduler and a status file with a rule of 900 seconds; the rule may start a
  second update beside a slow first one (`updates.py:103`).
* `PeerCacheBridge` of the peer index, legacy readers and migrations: one-off
  conversions of older data.
* Query, MCP server, dashboards: they read. Configuration, bootstrap and
  packaging: they run once.
* A restored node in core sync, whose state is older than its peer's index
  (`backup.py:102`): the instance of CoreSync with two nodes is as large as TLC
  takes within minutes.
* Losses of power that undo completed writes, clocks, encryption and contents.

## Plan

Done: all modules above, and the proofs of AppendLog, ArchiveStore,
Summaries, Collector, CoreSync, FilesChannel, ChangedFiles, Installer and Backup. To
come, in this order:

1. That ChangedFiles implements the one-step `Apply` of FilesChannel.
2. A restore over CoreSync, in a smaller instance of its own.

## Checking it

    tlc -workers 2 -config MCCoreSync.cfg MCCoreSync.tla
    tlapm ArchiveStoreProofs.tla
