------------------------------ MODULE CoreSync ------------------------------
(***************************************************************************)
(* core/core_sync.py, class CoreSyncService, and core/peer_bridge.py,      *)
(* class PeerIndex: two paired nodes send each other their raw records and *)
(* summaries as numbered pages through a shared folder.  A page is a file  *)
(* that the sender writes and removes; its ACK is a file of the same name  *)
(* that the receiver writes and the sender removes.  The folder is kept in *)
(* step by a cloud service, which copies each creation and each removal in *)
(* its own time.  Direction d is the stream that node d sends.             *)
(***************************************************************************)
EXTENDS Sequences, FiniteSetsExt, SequencesExt

CONSTANTS
    Nodes,          (* the two paired nodes                                *)
    Messages,       (* raw records: [id, node, conv]                       *)
    Summaries,      (* summaries: [id, node, conv, level, raws, children]  *)
    Excludable,     (* conversations that may be found to be internal      *)
    MaxRecords,     (* batch_records                                       *)
    MaxSummaries,   (* the 200 summaries of a page                         *)
    PageLimit,      (* max_package_bytes, each record and summary being 1  *)
    MaxBatches,     (* max_batches: pages received and sent per run        *)
    MaxCrashes      (* bound on crashes                                    *)

ASSUME NodesAssumption == \E a, b \in Nodes : a # b /\ Nodes = {a, b}

ASSUME MessagesAssumption == \A m \in Messages : m.node \in Nodes

ASSUME SummariesAssumption == \A s \in Summaries : s.level \in Nat \ {0}

(* The lower bounds that the configuration enforces.                       *)
ASSUME SizesAssumption ==
    /\ MaxRecords \in Nat \ {0} /\ MaxBatches \in Nat \ {0}
    /\ PageLimit \in Nat \ {0} /\ MaxSummaries \in Nat \ {0}

VARIABLES
    archive,        (* the raw records of each node, in sequence order     *)
    made,           (* the summaries of each node                          *)
    excluded,       (* excluded-conversations.json of each node            *)
    state,          (* core-sync/<peer>.json of each node                  *)
    outS, outR,     (* pages of a direction, as sender and receiver see them *)
    ackR, ackS,     (* ACKs of a direction, as receiver and sender see them *)
    ackGone,        (* ACKs whose removal has not reached the receiver     *)
    replica,        (* peer-index.sqlite of the node that receives         *)
    pc, at,         (* where sync_once is, and the page it handles: {} or {p} *)
    queue,          (* pages that sync_once has still to receive           *)
    cache, left,    (* {} or {the summaries it read}, pages it may still send *)
    crashes

content == <<archive, made, excluded>>
folder == <<outS, outR, ackR, ackS, ackGone>>
run == <<pc, at, queue, cache, left>>
vars == <<content, state, folder, replica, run, crashes>>

Peer(n) == CHOOSE m \in Nodes : m # n

Init ==
    /\ archive = [n \in Nodes |-> <<>>]
    /\ made = [n \in Nodes |-> {}]
    /\ excluded = [n \in Nodes |-> {}]
    /\ state = [n \in Nodes |-> [cursor |-> 0, published |-> 0, acked |-> 0,
                                 pending |-> {}, sent |-> {}, batches |-> 0]]
    /\ outS = [n \in Nodes |-> {}] /\ outR = [n \in Nodes |-> {}]
    /\ ackR = [n \in Nodes |-> {}] /\ ackS = [n \in Nodes |-> {}]
    /\ ackGone = [n \in Nodes |-> {}]
    /\ replica = [n \in Nodes |-> [head |-> 0, batches |-> {}, records |-> {}, summaries |-> {}]]
    /\ pc = [n \in Nodes |-> "idle"] /\ at = [n \in Nodes |-> {}]
    /\ queue = [n \in Nodes |-> <<>>]
    /\ cache = [n \in Nodes |-> {}] /\ left = [n \in Nodes |-> 0]
    /\ crashes = 0

-----------------------------------------------------------------------------
(* The rest of the node: capture, summaries, and the classification of     *)
(* internal conversations, which record_exclusions only ever adds to.      *)

Held(n) == Range(archive[n])

AppendRecord(m) ==
    /\ m \notin Held(m.node)
    /\ archive' = [archive EXCEPT ![m.node] = Append(@, m)]
    /\ UNCHANGED <<made, excluded, state, folder, replica, run, crashes>>

CommitSummary(s) ==
    /\ s \notin made[s.node]
    /\ s.conv \notin excluded[s.node]
    /\ s.raws \subseteq Held(s.node)
    /\ s.children \subseteq made[s.node]
    /\ made' = [made EXCEPT ![s.node] = @ \cup {s}]
    /\ UNCHANGED <<archive, excluded, state, folder, replica, run, crashes>>

Exclude(n, c) ==
    /\ c \notin excluded[n]
    /\ excluded' = [excluded EXCEPT ![n] = @ \cup {c}]
    /\ UNCHANGED <<archive, made, state, folder, replica, run, crashes>>

-----------------------------------------------------------------------------
(* sync_once, first part: _process_acks.  A node that is idle may start a  *)
(* run at any time: it has then taken the state lock and read the state    *)
(* file, which no other process changes.                                   *)

Larger(i, j) == IF i < j THEN j ELSE i

(* The ACK of a page that is not pending is passed over and stays.  One    *)
(* that arrives while others are processed is like one that arrives later. *)
AckSave(n) ==
    /\ pc[n] = "idle"
    /\ \E p \in ackS[n] \cap state[n].pending :
        /\ state' = [state EXCEPT ![n] =
               [cursor    |-> @.cursor,
                published |-> @.published,
                acked     |-> Larger(@.acked, p.to),
                pending   |-> @.pending \ {p},
                sent      |-> @.sent,
                batches   |-> @.batches]]
        /\ at' = [at EXCEPT ![n] = {p}]
    /\ pc' = [pc EXCEPT ![n] = "unlink page"]
    /\ UNCHANGED <<content, folder, replica, queue, cache, left, crashes>>

UnlinkPage(n) ==
    /\ pc[n] = "unlink page"
    /\ outS' = [outS EXCEPT ![n] = @ \ at[n]]
    /\ pc' = [pc EXCEPT ![n] = "unlink ack"]
    /\ UNCHANGED <<content, state, outR, ackR, ackS, ackGone, replica, at, queue, cache, left, crashes>>

UnlinkAck(n) ==
    /\ pc[n] = "unlink ack"
    /\ ackS' = [ackS EXCEPT ![n] = @ \ at[n]]
    /\ ackGone' = [ackGone EXCEPT ![n] = @ \cup at[n]]
    /\ pc' = [pc EXCEPT ![n] = "idle"]
    /\ at' = [at EXCEPT ![n] = {}]
    /\ UNCHANGED <<content, state, outS, outR, ackR, replica, queue, cache, left, crashes>>

-----------------------------------------------------------------------------
(* Second part: receive at most MaxBatches pages in the order of their     *)
(* names, and stop at the first one that is refused.                       *)

SummaryOnly(p) == p.records = {}

Rank(p) == IF SummaryOnly(p) THEN 0 ELSE 1

(* File names sort by first number, rank, last number, summary batch and   *)
(* digest; which of two digests is the smaller is left open.               *)
NamedBefore(p, q) ==
    \/ p.from < q.from
    \/ p.from = q.from /\ Rank(p) < Rank(q)
    \/ p.from = q.from /\ Rank(p) = Rank(q) /\ p.to < q.to
    \/ p.from = q.from /\ Rank(p) = Rank(q) /\ p.to = q.to /\ p.batch < q.batch

Listings(S) ==
    {q \in [1..Cardinality(S) -> S] :
        /\ \A i, j \in DOMAIN q : i < j => q[i] # q[j] /\ ~NamedBefore(q[j], q[i])}

Received(n) == outR[Peer(n)] \ ackR[Peer(n)]

BeginReceive(n) ==
    /\ pc[n] = "idle"
    /\ ackS[n] \cap state[n].pending = {}
    /\ \E q \in Listings(Received(n)) :
           queue' = [queue EXCEPT ![n] = SubSeq(q, 1, Min({Len(q), MaxBatches}))]
    /\ pc' = [pc EXCEPT ![n] = "receive"]
    /\ UNCHANGED <<content, state, folder, replica, at, cache, left, crashes>>

(* The key of a batch is its identity without the digest.                  *)
SameKey(p, q) == p.from = q.from /\ p.to = q.to /\ p.batch = q.batch

(* Variants, each named for the mistake it makes, stand before the         *)
(* definition they replace when the properties are tried against them.     *)

ContinuesAnywhere(r, p) == p.to <= r.head \/ p.from > r.head

ContinuesLate(r, p) ==
    IF SummaryOnly(p) THEN p.to <= r.head ELSE p.from = r.head + 2

(* The numbers that ingest takes next: a page of records continues the     *)
(* head, a page of summaries only refers back.                             *)
Continues(r, p) ==
    IF SummaryOnly(p) THEN p.to <= r.head ELSE p.from = r.head + 1

(* _summary_sources: nothing a summary rests on is absent; lower levels of *)
(* the page are inserted first.                                            *)
SourcesPresent(r, p) ==
    \A s \in p.summaries :
        /\ s.raws \subseteq r.records \cup p.records
        /\ s.children \subseteq r.summaries \cup {c \in p.summaries : c.level < s.level}

CommittedByKey(r, p) == \E q \in r.batches : SameKey(p, q)

(* has_batch: committed already, content and all.                          *)
Committed(r, p) == p \in r.batches

Acceptable(r, p) ==
    \/ Committed(r, p)
    \/ /\ \A q \in r.batches : ~SameKey(p, q)
       /\ Continues(r, p)
       /\ SourcesPresent(r, p)

(* ingest: one SQLite transaction.                                         *)
Ingested(r, p) ==
    IF Committed(r, p) THEN r
    ELSE [head      |-> IF SummaryOnly(p) THEN r.head ELSE p.to,
          batches   |-> r.batches \cup {p},
          records   |-> r.records \cup p.records,
          summaries |-> r.summaries \cup p.summaries]

AcceptPageUncommitted(n) ==
    /\ pc[n] = "receive" /\ queue[n] # <<>>
    /\ Head(queue[n]) \in outR[Peer(n)]
    /\ Acceptable(replica[n], Head(queue[n]))
    /\ pc' = [pc EXCEPT ![n] = "write ack"]
    /\ UNCHANGED <<content, state, folder, replica, at, queue, cache, left, crashes>>

AcceptPage(n) ==
    /\ pc[n] = "receive" /\ queue[n] # <<>>
    /\ Head(queue[n]) \in outR[Peer(n)]
    /\ Acceptable(replica[n], Head(queue[n]))
    /\ replica' = [replica EXCEPT ![n] = Ingested(@, Head(queue[n]))]
    /\ pc' = [pc EXCEPT ![n] = "write ack"]
    /\ UNCHANGED <<content, state, folder, at, queue, cache, left, crashes>>

WriteAckOmitted(n) ==
    /\ pc[n] = "write ack"
    /\ queue' = [queue EXCEPT ![n] = Tail(@)]
    /\ pc' = [pc EXCEPT ![n] = "receive"]
    /\ UNCHANGED <<content, state, folder, replica, at, cache, left, crashes>>

WriteAck(n) ==
    /\ pc[n] = "write ack"
    /\ ackR' = [ackR EXCEPT ![Peer(n)] = @ \cup {Head(queue[n])}]
    /\ queue' = [queue EXCEPT ![n] = Tail(@)]
    /\ pc' = [pc EXCEPT ![n] = "receive"]
    /\ UNCHANGED <<content, state, outS, outR, ackS, ackGone, replica, at, cache, left, crashes>>

(* The page is gone, or it is refused: receive no further page.            *)
RefusePage(n) ==
    /\ pc[n] = "receive" /\ queue[n] # <<>>
    /\ Head(queue[n]) \notin outR[Peer(n)] \/ ~Acceptable(replica[n], Head(queue[n]))
    /\ queue' = [queue EXCEPT ![n] = <<>>]
    /\ UNCHANGED <<content, state, folder, replica, pc, at, cache, left, crashes>>

-----------------------------------------------------------------------------
(* Third part: send at most MaxBatches pages (_export_one).                *)

BeginExport(n) ==
    /\ pc[n] = "receive" /\ queue[n] = <<>>
    /\ left' = [left EXCEPT ![n] = MaxBatches]
    /\ pc' = [pc EXCEPT ![n] = "export"]
    /\ UNCHANGED <<content, state, folder, replica, at, queue, cache, crashes>>

(* Wire numbers count the records sent, not the records read.              *)
WireFrom(n) == state[n].published + 1

(* _limited_records: their sequence numbers.                               *)
NextCursor(n) == Min({state[n].cursor + MaxRecords, Len(archive[n])})
LimitedRecords(n) == (state[n].cursor + 1)..NextCursor(n)

Shared(n, m) == m.conv \notin excluded[n]

(* The records of a page whose last source record is c.                    *)
SelectedTo(n, c) ==
    {archive[n][i] : i \in {j \in (state[n].cursor + 1)..c : Shared(n, archive[n][j])}}

Selected(n) == SelectedTo(n, NextCursor(n))

(* _summary_cache: the summaries are read once in a run, for its first     *)
(* page.                                                                   *)
Known(n) == IF cache[n] = {} THEN made[n] ELSE UNION cache[n]

(* _summary_candidates: the unsent summaries whose records are within the  *)
(* cursor and not internal, a parent only with or after its children: the  *)
(* largest set of them that needs none but sent ones and its own.          *)
SummaryCandidates(n) ==
    LET within == {archive[n][i] : i \in {j \in 1..NextCursor(n) : Shared(n, archive[n][j])}}
        candidates == {s \in Known(n) \ state[n].sent :
                          s.conv \notin excluded[n] /\ s.raws \subseteq within}
        ChildrenFirst(S) ==
            \A s \in S : s.children \subseteq state[n].sent \cup {c \in S : c.level < s.level}
    IN  UNION {S \in SUBSET candidates : ChildrenFirst(S)}

LevelOrder(s, t) == s.level < t.level \/ (s.level = t.level /\ s.id < t.id)

FirstSummaries(S, k) == {s \in S : Cardinality({t \in S : LevelOrder(t, s)}) < k}

(* What is left of n after it was halved some number of times.             *)
Halvings(n) == {k \in 0..n : \E i \in 0..n : k = n \div (2 ^ i)}

(* An oversized page gives up summaries first, half of them at a time,     *)
(* then records, half of them at a time; a page without records keeps one  *)
(* summary.                                                                *)
SummariesKept(records, ready) ==
    LET wanted == Min({Cardinality(ready), MaxSummaries})
    IN  Max({0} \cup {k \in Halvings(wanted) : records + k <= PageLimit})

RecordsKept(records) == Max({k \in Halvings(records) : k <= PageLimit})

(* The last source record that the page accounts for: with records cut     *)
(* off, the last one in the page, else all that were read.                 *)
PageCursors(n) ==
    LET all == Cardinality(Selected(n))
        kept == RecordsKept(all)
    IN  IF kept = all THEN {NextCursor(n)}
        ELSE {c \in LimitedRecords(n) : /\ Shared(n, archive[n][c])
                                        /\ Cardinality(SelectedTo(n, c)) = kept}

PageTo(n, c) ==
    LET records == SelectedTo(n, c)
    IN  [from      |-> WireFrom(n),
         to        |-> WireFrom(n) + Cardinality(records) - 1,
         batch     |-> IF records = {} THEN state[n].batches + 1 ELSE 0,
         source    |-> <<state[n].cursor + 1, c>>,
         records   |-> records,
         summaries |-> FirstSummaries(SummaryCandidates(n),
                           SummariesKept(Cardinality(Selected(n)), SummaryCandidates(n)))]

AllExcluded(n) == LimitedRecords(n) # {} /\ Selected(n) = {}

NothingToSend(n) == LimitedRecords(n) = {} /\ SummaryCandidates(n) = {}

SkipExcluded(n) ==
    /\ pc[n] = "export" /\ left[n] > 0
    /\ AllExcluded(n)
    /\ state' = [state EXCEPT ![n].cursor = NextCursor(n)]
    /\ left' = [left EXCEPT ![n] = @ - 1]
    /\ UNCHANGED <<content, folder, replica, pc, at, queue, cache, crashes>>

(* A record that is appended while the page is made is like one that is    *)
(* appended after: the page and its summaries do not look beyond it.       *)
WritePage(n) ==
    /\ pc[n] = "export" /\ left[n] > 0
    /\ ~AllExcluded(n) /\ ~NothingToSend(n)
    /\ \E c \in PageCursors(n) :
        /\ outS' = [outS EXCEPT ![n] = @ \cup {PageTo(n, c)}]
        /\ at' = [at EXCEPT ![n] = {PageTo(n, c)}]
    /\ cache' = [cache EXCEPT ![n] = {Known(n)}]
    /\ pc' = [pc EXCEPT ![n] = "save page"]
    /\ UNCHANGED <<content, state, outR, ackR, ackS, ackGone, replica, queue, left, crashes>>

SavePage(n) ==
    /\ pc[n] = "save page"
    /\ \E p \in at[n] :
           state' = [state EXCEPT ![n] =
               [cursor    |-> p.source[2],
                published |-> p.to,
                acked     |-> @.acked,
                pending   |-> @.pending \cup {p},
                sent      |-> @.sent \cup p.summaries,
                batches   |-> IF SummaryOnly(p) THEN @.batches + 1 ELSE @.batches]]
    /\ left' = [left EXCEPT ![n] = @ - 1]
    /\ at' = [at EXCEPT ![n] = {}]
    /\ pc' = [pc EXCEPT ![n] = "export"]
    /\ UNCHANGED <<content, folder, replica, queue, cache, crashes>>

EndSyncKeepingCache(n) ==
    /\ pc[n] = "export"
    /\ left[n] = 0 \/ NothingToSend(n)
    /\ pc' = [pc EXCEPT ![n] = "idle"]
    /\ left' = [left EXCEPT ![n] = 0]
    /\ UNCHANGED <<content, state, folder, replica, at, queue, cache, crashes>>

(* The next run reads the summaries anew.                                  *)
EndSync(n) ==
    /\ pc[n] = "export"
    /\ left[n] = 0 \/ NothingToSend(n)
    /\ pc' = [pc EXCEPT ![n] = "idle"]
    /\ cache' = [cache EXCEPT ![n] = {}]
    /\ left' = [left EXCEPT ![n] = 0]
    /\ UNCHANGED <<content, state, folder, replica, at, queue, crashes>>

Crash(n) ==
    /\ pc[n] # "idle"
    /\ crashes < MaxCrashes
    /\ crashes' = crashes + 1
    /\ pc' = [pc EXCEPT ![n] = "idle"]
    /\ at' = [at EXCEPT ![n] = {}]
    /\ queue' = [queue EXCEPT ![n] = <<>>]
    /\ cache' = [cache EXCEPT ![n] = {}]
    /\ left' = [left EXCEPT ![n] = 0]
    /\ UNCHANGED <<content, state, folder, replica>>

-----------------------------------------------------------------------------
(* The cloud service, file by file.                                        *)

CopyPage(d) ==
    /\ \E p \in outS[d] \ outR[d] : outR' = [outR EXCEPT ![d] = @ \cup {p}]
    /\ UNCHANGED <<content, state, outS, ackR, ackS, ackGone, replica, run, crashes>>

DropPage(d) ==
    /\ \E p \in outR[d] \ outS[d] : outR' = [outR EXCEPT ![d] = @ \ {p}]
    /\ UNCHANGED <<content, state, outS, ackR, ackS, ackGone, replica, run, crashes>>

CopyAck(d) ==
    /\ \E p \in ackR[d] \ (ackS[d] \cup ackGone[d]) : ackS' = [ackS EXCEPT ![d] = @ \cup {p}]
    /\ UNCHANGED <<content, state, outS, outR, ackR, ackGone, replica, run, crashes>>

DropAck(d) ==
    /\ \E p \in ackGone[d] :
        /\ ackR' = [ackR EXCEPT ![d] = @ \ {p}]
        /\ ackGone' = [ackGone EXCEPT ![d] = @ \ {p}]
    /\ UNCHANGED <<content, state, outS, outR, ackS, replica, run, crashes>>

Deliver(d) == CopyPage(d) \/ DropPage(d) \/ CopyAck(d) \/ DropAck(d)

Advance(n) ==
    \/ AckSave(n) \/ UnlinkPage(n) \/ UnlinkAck(n)
    \/ BeginReceive(n) \/ AcceptPage(n) \/ WriteAck(n) \/ RefusePage(n)
    \/ BeginExport(n) \/ SkipExcluded(n) \/ WritePage(n) \/ SavePage(n) \/ EndSync(n)

Next ==
    \/ \E m \in Messages : AppendRecord(m)
    \/ \E s \in Summaries : CommitSummary(s)
    \/ \E n \in Nodes : Advance(n) \/ Crash(n) \/ Deliver(n)
    \/ \E n \in Nodes, c \in Excludable : Exclude(n, c)

(* The scheduler runs sync_once again and again on both nodes.  The cloud  *)
(* service goes on as long as a change is under way; every change is made  *)
(* once, so each is brought across in the end.                             *)
Fairness == \A n \in Nodes : WF_vars(Advance(n)) /\ WF_vars(Deliver(n))

Spec == Init /\ [][Next]_vars

FairSpec == Spec /\ Fairness

-----------------------------------------------------------------------------

(* What an ACK has acknowledged is committed: the peer's index holds every *)
(* record up to the acknowledged number ("receipt ACKs are emitted after   *)
(* the configured replica index has committed the complete batch").        *)
AcknowledgedIsCommitted ==
    \A n \in Nodes : state[n].acked <= replica[Peer(n)].head

(* With a record of the peer, a node has every earlier one of the peer's   *)
(* archive that is not internal.                                           *)
HasNoGap(n) ==
    LET theirs == archive[Peer(n)]
        mine == replica[n].records
    IN  /\ mine \subseteq Held(Peer(n))
        /\ \A k \in DOMAIN theirs : theirs[k] \in mine =>
               \A j \in 1..(k - 1) : theirs[j] \in mine \/ ~Shared(Peer(n), theirs[j])

(* The replica has no gap, whatever order the files arrive in, however     *)
(* pages are cut and whatever is found to be internal meanwhile.  A crash  *)
(* alone makes none either, only one together with an exclusion.           *)
ReplicaHasNoGap ==
    \A n \in Nodes : crashes = 0 \/ excluded[Peer(n)] = {} => HasNoGap(n)

(* "Retrying cannot create a gap", as a comment of _export_one has it.     *)
RetryingCreatesNoGap == \A n \in Nodes : HasNoGap(n)

(* status(): nothing pending, nothing remaining, something published.      *)
PeerAcknowledged(n) ==
    /\ state[n].pending = {}
    /\ state[n].cursor = Len(archive[n])
    /\ \A s \in made[n] : s.conv \notin excluded[n] => s \in state[n].sent
    /\ state[n].published > 0

(* When status() reports "peer-acknowledged", the peer has every record    *)
(* and every summary that is not internal.                                 *)
PeerAcknowledgedMeansDelivered ==
    \A n \in Nodes :
        PeerAcknowledged(n) =>
            /\ \A m \in Held(n) : Shared(n, m) => m \in replica[Peer(n)].records
            /\ \A s \in made[n] : s.conv \notin excluded[n] => s \in replica[Peer(n)].summaries

Undelivered(d) == outS[d] \ replica[Peer(d)].batches

(* Of the pages that the peer has not committed, the one that is named     *)
(* first is one that it will take: as long as no node crashes, no page is  *)
(* stuck at the head of the queue.                                         *)
HeadOfQueueAcceptable ==
    \A d \in Nodes : \A p \in Undelivered(d) :
        (\A q \in Undelivered(d) : ~NamedBefore(q, p)) => Acceptable(replica[Peer(d)], p)

(* Every record and every summary of a conversation that is never internal *)
(* reaches the peer, however pages and runs are cut.                       *)
EverythingDelivered ==
    /\ \A m \in Messages :
        (m \in Held(m.node) /\ m.conv \notin Excludable)
            ~> m \in replica[Peer(m.node)].records
    /\ \A s \in Summaries :
        (s \in made[s.node] /\ s.conv \notin Excludable)
            ~> s \in replica[Peer(s.node)].summaries

(* Every page is acknowledged in the end: "awaiting-peer" passes.          *)
EveryPageAcknowledged ==
    \A n \in Nodes : state[n].pending # {} ~> state[n].pending = {}

=============================================================================
