--------------------------- MODULE CoreSyncProofs ---------------------------
(***************************************************************************)
(* Proofs about CoreSync, for every set of messages and summaries, every   *)
(* size of pages and runs, and any number of crashes and exclusions.       *)
(*                                                                         *)
(* None of the four properties is inductive:  what a node may conclude     *)
(* from an ACK, or from a record in its index, rests on what every page    *)
(* that is still somewhere in the folder says.  The inductive invariant is *)
(* about those pages.                                                      *)
(*   PagesGood   a page is numbered like its contents and accounts for     *)
(*               each record of the window that it was cut from            *)
(*   AcksTrue    only a committed page has an ACK, wherever the ACK is     *)
(*   IndexTrue   the peer's index is what its pages hold, up to its head   *)
(*   CursorTrue  what lies behind the cursor is in a page that was sent    *)
(*   Chained     until the first crash the pages are a chain, and the      *)
(*               peer has an initial part of it                            *)
(*   AllExact    while nothing is excluded, a wire number is the sequence  *)
(*               number of a record, whatever crashed                      *)
(* The last two are the two reasons for which the replica has no gap; with *)
(* a crash and an exclusion together both fail, and so does the property.  *)
(***************************************************************************)
EXTENDS CoreSync, FiniteSetTheorems, WellFoundedInduction, TLAPS

(* A page file, and the places where sync_once can be.                     *)
Page == [from : Nat \ {0}, to : Nat, batch : Nat, source : Nat \X Nat,
         records : SUBSET Messages, summaries : SUBSET Summaries]

Places == {"idle", "unlink page", "unlink ack", "receive", "write ack", "export", "save page"}

TypeOK ==
    /\ archive \in [Nodes -> Seq(Messages)]
    /\ made \in [Nodes -> SUBSET Summaries]
    /\ excluded \in [Nodes -> SUBSET Excludable]
    /\ state \in [Nodes -> [cursor : Nat, published : Nat, acked : Nat, pending : SUBSET Page,
                            sent : SUBSET Summaries, batches : Nat]]
    /\ outS \in [Nodes -> SUBSET Page] /\ outR \in [Nodes -> SUBSET Page]
    /\ ackR \in [Nodes -> SUBSET Page] /\ ackS \in [Nodes -> SUBSET Page]
    /\ ackGone \in [Nodes -> SUBSET Page]
    /\ replica \in [Nodes -> [head : Nat, batches : SUBSET Page,
                              records : SUBSET Messages, summaries : SUBSET Summaries]]
    /\ pc \in [Nodes -> Places] /\ at \in [Nodes -> SUBSET Page]
    /\ DOMAIN queue = Nodes
    /\ cache \in [Nodes -> SUBSET SUBSET Summaries] /\ DOMAIN left = Nodes
    /\ crashes \in Nat

(* The page that n has written and not yet saved; the pages that n saved   *)
(* or that its peer committed; both; and all that are on disk somewhere.   *)
Saving(n) == IF pc[n] = "save page" THEN at[n] ELSE {}
Sent(n) == state[n].pending \cup replica[Peer(n)].batches
Written(n) == Sent(n) \cup Saving(n)
Files(n) == outS[n] \cup outR[n] \cup Written(n)

(* A page of records has as many numbers as it needs; one of summaries     *)
(* names the number before.                                                *)
Numbered(p) == IF SummaryOnly(p) THEN p.to = p.from - 1 ELSE p.to >= p.from

(* The page stands for all the source records of its window: the ones it   *)
(* leaves out are internal.                                                *)
Window(p) == p.source[1]..p.source[2]
Accounts(n, p) ==
    /\ p.source[1] > 0 /\ p.source[1] <= p.source[2] + 1 /\ p.source[2] <= Len(archive[n])
    /\ p.records \subseteq {archive[n][i] : i \in Window(p)}
    /\ \A i \in Window(p) : archive[n][i] \in p.records \/ ~Shared(n, archive[n][i])

(* No record is in the archive twice.                                      *)
NoTwice == \A n \in Nodes : \A i, j \in DOMAIN archive[n] : archive[n][i] = archive[n][j] => i = j

PagesGood == \A n \in Nodes : \A p \in Files(n) : Numbered(p) /\ Accounts(n, p)

AcksTrue ==
    \A n \in Nodes :
        /\ ackR[n] \cup ackS[n] \cup ackGone[n] \subseteq replica[Peer(n)].batches
        /\ pc[n] = "write ack" => Head(queue[n]) \in replica[n].batches
        /\ pc[n] \in {"unlink page", "unlink ack"} => at[n] \subseteq replica[Peer(n)].batches

IndexTrue ==
    \A n \in Nodes :
        /\ replica[n].records = UNION {p.records : p \in replica[n].batches}
        /\ \A p \in replica[n].batches : p.summaries \subseteq replica[n].summaries
        /\ \A p \in replica[n].batches : p.to <= replica[n].head
        /\ replica[n].head = 0 \/ \E p \in replica[n].batches : p.to = replica[n].head

CursorTrue ==
    \A n \in Nodes :
        /\ state[n].cursor <= Len(archive[n])
        /\ \A i \in 1..state[n].cursor :
              ~Shared(n, archive[n][i]) \/ \E p \in Sent(n) : archive[n][i] \in p.records
        /\ \A s \in state[n].sent : \E p \in Sent(n) : s \in p.summaries
        /\ \A p \in Saving(n) : p.source[1] = state[n].cursor + 1 /\ p.from = state[n].published + 1

(* Pages that n has written do not overlap, each has all earlier records   *)
(* in earlier pages, and the peer has committed each one up to its head.   *)
(* Every file is one that was saved, or the one in hand: a page that a     *)
(* crash has left behind would not be.                                     *)
Chain(n) ==
    /\ outS[n] \cup outR[n] \subseteq Written(n)
    /\ \A p, q \in Saving(n) : p = q
    /\ \A p \in Written(n) : p.to <= state[n].published \/ p \in Saving(n)
    /\ \A p, q \in Written(n) : SummaryOnly(p) \/ SummaryOnly(q) \/ p = q \/ p.to < q.from \/ q.to < p.from
    /\ \A p \in Written(n) : \A i \in 1..(p.source[1] - 1) :
          ~Shared(n, archive[n][i]) \/ \E q \in Written(n) : q.to < p.from /\ archive[n][i] \in q.records
    /\ \A p \in Written(n) :
          ~SummaryOnly(p) /\ p.to <= replica[Peer(n)].head => p \in replica[Peer(n)].batches

Chained == crashes = 0 => \A n \in Nodes : Chain(n)

(* Every page of n, and what its peer has of n, is an interval of the      *)
(* archive.                                                                *)
Exact(n) ==
    /\ state[n].published = state[n].cursor
    /\ \A p \in Files(n) : p.to <= Len(archive[n]) /\ p.records = {archive[n][i] : i \in p.from..p.to}
    /\ \A p \in Saving(n) : p.source[2] = p.to
    /\ replica[Peer(n)].head <= Len(archive[n])
    /\ replica[Peer(n)].records = {archive[n][i] : i \in 1..replica[Peer(n)].head}

AllExact == \A n \in Nodes : excluded[n] = {} => Exact(n)

(* The inductive invariant.                                                *)
IInv ==
    /\ TypeOK /\ NoTwice /\ PagesGood /\ AcksTrue /\ IndexTrue /\ CursorTrue
    /\ AcknowledgedIsCommitted /\ Chained /\ AllExact

-----------------------------------------------------------------------------
(* Operators of the model.                                                 *)

(* There are two nodes, and each is the peer of the other.                 *)
LEMMA PeerLaws ==
    ASSUME NEW n \in Nodes
    PROVE  Peer(n) \in Nodes /\ Peer(n) # n /\ Peer(Peer(n)) = n
BY NodesAssumption DEF Peer

LEMMA PeerOnto ==
    ASSUME NEW n \in Nodes, NEW m \in Nodes, m # Peer(n)
    PROVE  m = n
BY NodesAssumption DEF Peer

(* The smaller of two numbers.                                             *)
LEMMA MinOfTwo ==
    ASSUME NEW i \in Nat, NEW j \in Nat
    PROVE  Min({i, j}) = IF i <= j THEN i ELSE j
BY DEF Min

(* _limited_records reads on from the cursor, at least one record when     *)
(* there is one, and not beyond the end of the archive.                    *)
LEMMA NextCursorBounds ==
    ASSUME TypeOK, NEW n \in Nodes, state[n].cursor <= Len(archive[n])
    PROVE  /\ NextCursor(n) \in state[n].cursor..Len(archive[n])
           /\ state[n].cursor < Len(archive[n]) => state[n].cursor < NextCursor(n)
<1>1. state[n].cursor \in Nat /\ archive[n] \in Seq(Messages)
  BY DEF TypeOK
<1>2. Len(archive[n]) \in Nat
  BY <1>1
<1>3. state[n].cursor + MaxRecords \in Nat /\ MaxRecords > 0 /\ MaxRecords \in Nat
  BY <1>1, SizesAssumption
<1>4. NextCursor(n) = IF state[n].cursor + MaxRecords <= Len(archive[n])
                      THEN state[n].cursor + MaxRecords ELSE Len(archive[n])
  BY <1>2, <1>3, MinOfTwo DEF NextCursor
<1> QED BY <1>1, <1>2, <1>3, <1>4

(* The last record that a page accounts for is among those.                *)
LEMMA PageCursorBounds ==
    ASSUME TypeOK, NEW n \in Nodes, state[n].cursor <= Len(archive[n]), NEW c \in PageCursors(n)
    PROVE  c \in state[n].cursor..Len(archive[n])
<1>1. state[n].cursor \in Nat /\ Len(archive[n]) \in Nat
  BY DEF TypeOK
<1>2. NextCursor(n) \in state[n].cursor..Len(archive[n])
  BY NextCursorBounds
<1>3. c = NextCursor(n) \/ c \in LimitedRecords(n)
  BY DEF PageCursors
<1> QED BY <1>1, <1>2, <1>3 DEF LimitedRecords

(* The records of a page are finitely many, and none is left out when      *)
(* nothing is excluded.                                                    *)
LEMMA SelectedCardinality ==
    ASSUME TypeOK, NoTwice, NEW n \in Nodes, NEW c \in state[n].cursor..Len(archive[n])
    PROVE  /\ Cardinality(SelectedTo(n, c)) \in Nat
           /\ SelectedTo(n, c) = {} <=> Cardinality(SelectedTo(n, c)) = 0
           /\ excluded[n] = {} => Cardinality(SelectedTo(n, c)) = c - state[n].cursor
<1> DEFINE J == {j \in (state[n].cursor + 1)..c : Shared(n, archive[n][j])}
           T == SelectedTo(n, c)
           f == [j \in J |-> archive[n][j]]
<1>1. state[n].cursor \in Nat /\ Len(archive[n]) \in Nat /\ archive[n] \in Seq(Messages) /\ c \in Nat
  BY DEF TypeOK
<1>2. IsFiniteSet((state[n].cursor + 1)..c)
      /\ Cardinality((state[n].cursor + 1)..c) = c - state[n].cursor
  <2>1. /\ IsFiniteSet((state[n].cursor + 1)..c)
        /\ Cardinality((state[n].cursor + 1)..c) =
               IF state[n].cursor + 1 > c THEN 0 ELSE c - (state[n].cursor + 1) + 1
    <3>1. state[n].cursor + 1 \in Int /\ c \in Int
      BY <1>1
    <3> QED BY <3>1, FS_Interval
  <2> QED BY <1>1, <2>1
<1>3. J \in SUBSET ((state[n].cursor + 1)..c)
  OBVIOUS
<1>4. IsFiniteSet(J)
  BY <1>2, <1>3, FS_Subset
<1>5. T = {archive[n][j] : j \in J}
  BY DEF SelectedTo
<1>6. f \in Surjection(J, T)
  BY <1>5 DEF Surjection
<1>7. IsFiniteSet(T) /\ (Cardinality(T) = Cardinality(J) <=> f \in Injection(J, T))
  <2> HIDE DEF J, T, f
  <2> QED BY <1>4, <1>6, FS_Surjection
<1>8. f \in Injection(J, T)
  <2>1. J \subseteq DOMAIN archive[n]
    BY <1>1
  <2>2. f \in [J -> T]
    BY <1>5
  <2>3. \A i, j \in J : f[i] = f[j] => i = j
    BY <2>1 DEF NoTwice
  <2> QED BY <2>2, <2>3 DEF Injection, IsInjective
<1>9. ASSUME excluded[n] = {} PROVE J = (state[n].cursor + 1)..c
  BY <1>9 DEF Shared
<1>10. Cardinality(T) \in Nat /\ (T = {} <=> Cardinality(T) = 0)
  <2> HIDE DEF T
  <2> QED BY <1>7, FS_CardinalityType, FS_EmptySet
<1> QED
  <2> HIDE DEF J, f
  <2> QED BY <1>2, <1>7, <1>8, <1>9, <1>10

(* What _export_one writes: a page that is numbered from the last          *)
(* published number and accounts for its window, which begins after the    *)
(* cursor.                                                                 *)
LEMMA NewPage ==
    ASSUME IInv, NEW n \in Nodes, NEW c \in PageCursors(n)
    PROVE  LET p == PageTo(n, c)
           IN  /\ p \in Page /\ Numbered(p) /\ Accounts(n, p)
               /\ p.from = state[n].published + 1
               /\ p.source = <<state[n].cursor + 1, c>>
               /\ p.to = state[n].published + Cardinality(p.records)
               /\ excluded[n] = {} => /\ Cardinality(p.records) = c - state[n].cursor
                                      /\ p.records = {archive[n][i] : i \in Window(p)}
<1> DEFINE p == PageTo(n, c)
           records == SelectedTo(n, c)
           k == Cardinality(records)
<1> USE DEF IInv
<1>1. c \in state[n].cursor..Len(archive[n])
  BY PageCursorBounds DEF CursorTrue
<1>2. k \in Nat /\ (records = {} <=> k = 0) /\ (excluded[n] = {} => k = c - state[n].cursor)
  BY <1>1, SelectedCardinality
<1>3. /\ state[n].cursor \in Nat /\ state[n].published \in Nat /\ state[n].batches \in Nat
      /\ archive[n] \in Seq(Messages) /\ Len(archive[n]) \in Nat /\ c \in Nat
  BY <1>1 DEF TypeOK
<1>4. records \subseteq Messages
  BY <1>1, <1>3 DEF SelectedTo
<1>5. SummaryCandidates(n) \subseteq Summaries
  <2>1. Known(n) \subseteq Summaries
    BY DEF Known, TypeOK
  <2> QED BY <2>1 DEF SummaryCandidates
<1>6. p.summaries \subseteq Summaries
  BY <1>5 DEF PageTo, FirstSummaries
<1>7. p = [from |-> state[n].published + 1, to |-> state[n].published + k,
           batch |-> IF records = {} THEN state[n].batches + 1 ELSE 0,
           source |-> <<state[n].cursor + 1, c>>, records |-> records, summaries |-> p.summaries]
  <2>1. state[n].published + 1 + k - 1 = state[n].published + k
    BY <1>2, <1>3
  <2>2. p = [from |-> WireFrom(n), to |-> WireFrom(n) + k - 1,
             batch |-> IF records = {} THEN state[n].batches + 1 ELSE 0,
             source |-> <<state[n].cursor + 1, c>>, records |-> records,
             summaries |-> FirstSummaries(SummaryCandidates(n),
                 SummariesKept(Cardinality(Selected(n)), SummaryCandidates(n)))]
    BY DEF PageTo
  <2> QED BY <2>1, <2>2 DEF WireFrom
<1> HIDE DEF p, k
<1>8. p \in Page
  <2>1. <<state[n].cursor + 1, c>> \in Nat \X Nat
    BY <1>3
  <2>2. (IF records = {} THEN state[n].batches + 1 ELSE 0) \in Nat
    BY <1>3
  <2>3. state[n].published + 1 \in Nat \ {0} /\ state[n].published + k \in Nat
    BY <1>2, <1>3
  <2> HIDE DEF records
  <2> QED BY <1>4, <1>6, <1>7, <2>1, <2>2, <2>3 DEF Page
<1>9. Numbered(p)
  BY <1>2, <1>3, <1>7 DEF Numbered, SummaryOnly
<1>10. Window(p) = (state[n].cursor + 1)..c /\ p.source[1] = state[n].cursor + 1 /\ p.source[2] = c
  BY <1>7 DEF Window
<1>11. Accounts(n, p)
  <2>1. p.records \subseteq {archive[n][i] : i \in Window(p)}
    BY <1>7, <1>10 DEF SelectedTo
  <2>2. \A i \in Window(p) : archive[n][i] \in p.records \/ ~Shared(n, archive[n][i])
    BY <1>7, <1>10 DEF SelectedTo
  <2>3. p.source[1] > 0 /\ p.source[1] <= p.source[2] + 1 /\ p.source[2] <= Len(archive[n])
    BY <1>1, <1>3, <1>10
  <2> QED BY <2>1, <2>2, <2>3 DEF Accounts
<1>12. ASSUME excluded[n] = {}
       PROVE  records = {archive[n][i] : i \in Window(p)}
  BY <1>10, <1>12 DEF SelectedTo, Shared
<1>13. p.records = records /\ k = Cardinality(p.records)
  BY <1>7 DEF k
<1> QED BY <1>2, <1>7, <1>8, <1>9, <1>11, <1>12, <1>13 DEF p

-----------------------------------------------------------------------------
(* Types.                                                                  *)

(* Every step keeps the types.                                             *)
LEMMA TypeHolds == ASSUME IInv, [Next]_vars PROVE TypeOK'
<1> USE DEF IInv
<1>0. TypeOK
  OBVIOUS
<1>1. CASE UNCHANGED vars
  BY <1>0, <1>1 DEF vars, content, folder, run, TypeOK
<1>2. ASSUME NEW m \in Messages, AppendRecord(m) PROVE TypeOK'
  <2>1. m.node \in Nodes
    BY MessagesAssumption
  <2>2. archive' \in [Nodes -> Seq(Messages)]
    BY <1>0, <1>2, <2>1 DEF AppendRecord, TypeOK
  <2> QED BY <1>0, <1>2, <2>2 DEF AppendRecord, TypeOK, folder, run
<1>3. ASSUME NEW s \in Summaries, CommitSummary(s) PROVE TypeOK'
  BY <1>0, <1>3 DEF CommitSummary, TypeOK, folder, run
<1>4. ASSUME NEW n \in Nodes, NEW c \in Excludable, Exclude(n, c) PROVE TypeOK'
  BY <1>0, <1>4 DEF Exclude, TypeOK, folder, run
<1>5. ASSUME NEW n \in Nodes, AckSave(n) PROVE TypeOK'
  <2> PICK p \in ackS[n] \cap state[n].pending :
        /\ state' = [state EXCEPT ![n] =
               [cursor    |-> @.cursor, published |-> @.published,
                acked     |-> Larger(@.acked, p.to), pending   |-> @.pending \ {p},
                sent      |-> @.sent, batches   |-> @.batches]]
        /\ at' = [at EXCEPT ![n] = {p}]
    BY <1>5 DEF AckSave
  <2>1. p \in Page /\ p.to \in Nat
    BY <1>0 DEF TypeOK, Page
  <2>2. Larger(state[n].acked, p.to) \in Nat
    BY <1>0, <2>1 DEF TypeOK, Larger
  <2>3. state' \in [Nodes -> [cursor : Nat, published : Nat, acked : Nat, pending : SUBSET Page,
                              sent : SUBSET Summaries, batches : Nat]]
    BY <1>0, <2>2 DEF TypeOK
  <2>4. at' \in [Nodes -> SUBSET Page]
    BY <1>0, <2>1 DEF TypeOK
  <2>5. pc' \in [Nodes -> Places]
    BY <1>0, <1>5 DEF TypeOK, AckSave, Places
  <2> QED BY <1>0, <1>5, <2>3, <2>4, <2>5 DEF TypeOK, AckSave, content, folder
<1>6. ASSUME NEW n \in Nodes, UnlinkPage(n) \/ UnlinkAck(n) PROVE TypeOK'
  <2>1. CASE UnlinkPage(n)
    BY <1>0, <2>1 DEF UnlinkPage, TypeOK, content, Places
  <2>2. CASE UnlinkAck(n)
    <3>1. pc' \in [Nodes -> Places] /\ at' \in [Nodes -> SUBSET Page]
      BY <1>0, <2>2 DEF UnlinkAck, TypeOK, Places
    <3>2. ackS' \in [Nodes -> SUBSET Page] /\ ackGone' \in [Nodes -> SUBSET Page]
      BY <1>0, <2>2 DEF UnlinkAck, TypeOK
    <3> QED BY <1>0, <2>2, <3>1, <3>2 DEF UnlinkAck, TypeOK, content
  <2> QED BY <1>6, <2>1, <2>2
<1>7. ASSUME NEW n \in Nodes, BeginReceive(n) \/ RefusePage(n) \/ BeginExport(n) PROVE TypeOK'
  BY <1>0, <1>7 DEF BeginReceive, RefusePage, BeginExport, TypeOK, content, folder, Places
<1>8. ASSUME NEW n \in Nodes, AcceptPage(n) PROVE TypeOK'
  <2> DEFINE p == Head(queue[n])
  <2>1. p \in Page
    BY <1>0, <1>8, PeerLaws DEF AcceptPage, TypeOK
  <2>2. Ingested(replica[n], p) \in [head : Nat, batches : SUBSET Page,
                                     records : SUBSET Messages, summaries : SUBSET Summaries]
    <3> HIDE DEF p
    <3> QED BY <1>0, <2>1 DEF Ingested, TypeOK, Page
  <2>3. replica' = [replica EXCEPT ![n] = Ingested(@, p)]
    BY <1>8 DEF AcceptPage
  <2>4. replica' \in [Nodes -> [head : Nat, batches : SUBSET Page,
                                records : SUBSET Messages, summaries : SUBSET Summaries]]
    BY <1>0, <2>2, <2>3 DEF TypeOK
  <2>5. pc' \in [Nodes -> Places]
    BY <1>0, <1>8 DEF AcceptPage, TypeOK, Places
  <2> QED BY <1>0, <1>8, <2>4, <2>5 DEF AcceptPage, TypeOK, content, folder
<1>9. ASSUME NEW n \in Nodes, WriteAck(n) PROVE TypeOK'
  <2>1. Head(queue[n]) \in Page
    BY <1>0, <1>9 DEF WriteAck, AcksTrue, TypeOK
  <2> QED BY <1>0, <1>9, <2>1, PeerLaws DEF WriteAck, TypeOK, content, Places
<1>10. ASSUME NEW n \in Nodes, SkipExcluded(n) PROVE TypeOK'
  <2>1. NextCursor(n) \in Nat
    BY <1>0, NextCursorBounds DEF CursorTrue, TypeOK
  <2>0. state' = [state EXCEPT ![n].cursor = NextCursor(n)]
    BY <1>10 DEF SkipExcluded
  <2>2. state' \in [Nodes -> [cursor : Nat, published : Nat, acked : Nat, pending : SUBSET Page,
                              sent : SUBSET Summaries, batches : Nat]]
    <3> DEFINE StateType == [cursor : Nat, published : Nat, acked : Nat, pending : SUBSET Page,
                             sent : SUBSET Summaries, batches : Nat]
    <3>1. state \in [Nodes -> StateType]
      BY <1>0 DEF TypeOK
    <3>2. [state[n] EXCEPT !.cursor = NextCursor(n)] \in StateType
      BY <2>1, <3>1
    <3>3. state' = [state EXCEPT ![n] = [state[n] EXCEPT !.cursor = NextCursor(n)]]
      BY <2>0
    <3> HIDE DEF StateType
    <3>4. state' \in [Nodes -> StateType]
      BY <3>1, <3>2, <3>3
    <3> QED BY <3>4 DEF StateType
  <2> QED BY <1>0, <1>10, <2>2 DEF SkipExcluded, TypeOK, content, folder
<1>11. ASSUME NEW n \in Nodes, WritePage(n) PROVE TypeOK'
  <2> PICK c \in PageCursors(n) : /\ outS' = [outS EXCEPT ![n] = @ \cup {PageTo(n, c)}]
                                  /\ at' = [at EXCEPT ![n] = {PageTo(n, c)}]
    BY <1>11 DEF WritePage
  <2>1. PageTo(n, c) \in Page
    BY NewPage
  <2>2. Known(n) \subseteq Summaries
    BY <1>0 DEF Known, TypeOK
  <2>3. outS' \in [Nodes -> SUBSET Page] /\ at' \in [Nodes -> SUBSET Page]
    BY <1>0, <2>1 DEF TypeOK
  <2>4. pc' \in [Nodes -> Places]
    BY <1>0, <1>11 DEF WritePage, TypeOK, Places
  <2>5. cache' \in [Nodes -> SUBSET SUBSET Summaries]
    <3>1. {Known(n)} \in SUBSET SUBSET Summaries
      BY <2>2
    <3>2. cache' = [cache EXCEPT ![n] = {Known(n)}] /\ cache \in [Nodes -> SUBSET SUBSET Summaries]
      BY <1>0, <1>11 DEF WritePage, TypeOK
    <3> QED BY <3>1, <3>2
  <2> QED BY <1>0, <1>11, <2>3, <2>4, <2>5 DEF WritePage, TypeOK, content
<1>12. ASSUME NEW n \in Nodes, SavePage(n) PROVE TypeOK'
  <2> PICK p \in at[n] : state' = [state EXCEPT ![n] =
               [cursor    |-> p.source[2], published |-> p.to, acked     |-> @.acked,
                pending   |-> @.pending \cup {p}, sent      |-> @.sent \cup p.summaries,
                batches   |-> IF SummaryOnly(p) THEN @.batches + 1 ELSE @.batches]]
    BY <1>12 DEF SavePage
  <2>1. p \in Page /\ p.source[2] \in Nat /\ p.to \in Nat /\ p.summaries \subseteq Summaries
    BY <1>0 DEF TypeOK, Page
  <2>2. (IF SummaryOnly(p) THEN state[n].batches + 1 ELSE state[n].batches) \in Nat
    BY <1>0 DEF TypeOK
  <2>3. state' \in [Nodes -> [cursor : Nat, published : Nat, acked : Nat, pending : SUBSET Page,
                              sent : SUBSET Summaries, batches : Nat]]
    BY <1>0, <2>1, <2>2 DEF TypeOK
  <2> QED BY <1>0, <1>12, <2>3 DEF SavePage, TypeOK, content, folder, Places
<1>13. ASSUME NEW n \in Nodes, EndSync(n) \/ Crash(n) PROVE TypeOK'
  <2>1. pc' \in [Nodes -> Places]
    BY <1>0, <1>13 DEF EndSync, Crash, TypeOK, Places
  <2>2. at' \in [Nodes -> SUBSET Page] /\ DOMAIN queue' = Nodes
    BY <1>0, <1>13 DEF EndSync, Crash, TypeOK
  <2>3. cache' \in [Nodes -> SUBSET SUBSET Summaries]
    <3>1. {} \in SUBSET SUBSET Summaries
      OBVIOUS
    <3>2. cache' = [cache EXCEPT ![n] = {}] /\ cache \in [Nodes -> SUBSET SUBSET Summaries]
      BY <1>0, <1>13 DEF EndSync, Crash, TypeOK
    <3> QED BY <3>1, <3>2
  <2>4. DOMAIN left' = Nodes /\ crashes' \in Nat
    BY <1>0, <1>13 DEF EndSync, Crash, TypeOK
  <2> QED BY <1>0, <1>13, <2>1, <2>2, <2>3, <2>4 DEF EndSync, Crash, TypeOK, content, folder
<1>14. ASSUME NEW n \in Nodes, Deliver(n) PROVE TypeOK'
  <2>1. CASE CopyPage(n)
    BY <1>0, <2>1 DEF CopyPage, TypeOK, content, run
  <2>2. CASE DropPage(n)
    BY <1>0, <2>2 DEF DropPage, TypeOK, content, run
  <2>3. CASE CopyAck(n)
    BY <1>0, <2>3 DEF CopyAck, TypeOK, content, run
  <2>4. CASE DropAck(n)
    <3>1. ackR' \in [Nodes -> SUBSET Page] /\ ackGone' \in [Nodes -> SUBSET Page]
      BY <1>0, <2>4 DEF DropAck, TypeOK
    <3> QED BY <1>0, <2>4, <3>1 DEF DropAck, TypeOK, content, run
  <2> QED BY <1>14, <2>1, <2>2, <2>3, <2>4 DEF Deliver
<1> QED BY <1>1, <1>2, <1>3, <1>4, <1>5, <1>6, <1>7, <1>8, <1>9, <1>10, <1>11, <1>12, <1>13, <1>14
    DEF Next, Advance

-----------------------------------------------------------------------------
(* What no step undoes, and where pages come from.                         *)

(* The archive and the exclusions only grow.                               *)
LEMMA ContentGrows ==
    ASSUME TypeOK, [Next]_vars, NEW n \in Nodes
    PROVE  /\ excluded[n] \subseteq excluded'[n]
           /\ Len(archive[n]) <= Len(archive'[n])
           /\ \A i \in 1..Len(archive[n]) : archive'[n][i] = archive[n][i]
<1>1. CASE UNCHANGED <<archive, excluded>>
  BY <1>1 DEF TypeOK
<1>2. ASSUME NEW m \in Messages, AppendRecord(m)
      PROVE  /\ excluded[n] \subseteq excluded'[n]
             /\ Len(archive[n]) <= Len(archive'[n])
             /\ \A i \in 1..Len(archive[n]) : archive'[n][i] = archive[n][i]
  <2>1. archive[n] \in Seq(Messages) /\ m.node \in Nodes
    BY MessagesAssumption DEF TypeOK
  <2>2. archive'[n] = archive[n] \/ archive'[n] = Append(archive[n], m)
    BY <1>2, <2>1 DEF AppendRecord, TypeOK
  <2>3. excluded' = excluded
    BY <1>2 DEF AppendRecord
  <2> QED BY <2>1, <2>2, <2>3
<1>3. ASSUME NEW m \in Nodes, NEW c \in Excludable, Exclude(m, c)
      PROVE  archive' = archive /\ excluded[n] \subseteq excluded'[n]
  BY <1>3 DEF Exclude, TypeOK
<1>4. archive[n] \in Seq(Messages)
  BY DEF TypeOK
<1>5. ASSUME NEW m \in Nodes, Advance(m) \/ Crash(m) \/ Deliver(m)
      PROVE  UNCHANGED <<archive, excluded>>
  BY <1>5 DEF Advance, Crash, Deliver, AckSave, UnlinkPage, UnlinkAck, BeginReceive, AcceptPage,
     WriteAck, RefusePage, BeginExport, SkipExcluded, WritePage, SavePage, EndSync,
     CopyPage, DropPage, CopyAck, DropAck, content
<1>6. ASSUME NEW s \in Summaries, CommitSummary(s) PROVE UNCHANGED <<archive, excluded>>
  BY <1>6 DEF CommitSummary
<1>7. CASE UNCHANGED vars
  BY <1>1, <1>7 DEF vars, content
<1> QED BY <1>1, <1>2, <1>3, <1>4, <1>5, <1>6, <1>7 DEF Next

(* What was found to be internal stays so.                                 *)
LEMMA SharedShrinks ==
    ASSUME TypeOK, [Next]_vars, NEW n \in Nodes, NEW i \in 1..Len(archive[n]),
           ~Shared(n, archive[n][i])
    PROVE  ~Shared(n, archive[n][i])'
BY ContentGrows DEF Shared

(* A page goes on accounting for its window.                               *)
LEMMA AccountsStable ==
    ASSUME TypeOK, TypeOK', [Next]_vars, NEW n \in Nodes, NEW p \in Page, Accounts(n, p)
    PROVE  Accounts(n, p)'
<1>1. p.source[1] \in Nat /\ p.source[2] \in Nat /\ Len(archive[n]) \in Nat /\ Len(archive'[n]) \in Nat
  BY DEF Page, TypeOK
<1>2. Window(p) \subseteq 1..Len(archive[n])
  BY <1>1 DEF Window, Accounts
<1>3. \A i \in Window(p) : archive'[n][i] = archive[n][i]
  BY <1>2, ContentGrows
<1>4. p.source[2] <= Len(archive'[n])
  BY <1>1, ContentGrows DEF Accounts
<1>5. \A i \in Window(p) : ~Shared(n, archive[n][i]) => ~Shared(n, archive[n][i])'
  BY <1>2, SharedShrinks
<1> QED BY <1>1, <1>3, <1>4, <1>5 DEF Accounts, Window

(* A record is captured once.                                              *)
LEMMA NoTwiceHolds == ASSUME IInv, [Next]_vars PROVE NoTwice'
<1> USE DEF IInv
<1>1. ASSUME NEW m \in Messages, AppendRecord(m) PROVE NoTwice'
  <2> SUFFICES ASSUME NEW n \in Nodes, NEW i \in DOMAIN archive'[n], NEW j \in DOMAIN archive'[n],
                      archive'[n][i] = archive'[n][j]
               PROVE  i = j
    BY DEF NoTwice
  <2>1. archive[n] \in Seq(Messages) /\ m.node \in Nodes
    BY MessagesAssumption DEF TypeOK
  <2>2. CASE n # m.node
    BY <1>1, <2>1, <2>2 DEF AppendRecord, TypeOK, NoTwice
  <2>3. CASE n = m.node
    <3>1. archive'[n] = Append(archive[n], m)
      BY <1>1, <2>1, <2>3 DEF AppendRecord, TypeOK
    <3>2. \A k \in 1..Len(archive[n]) : archive[n][k] # m
      BY <1>1, <2>1, <2>3 DEF AppendRecord, Held, Range
    <3>3. \A k, l \in 1..Len(archive[n]) : archive[n][k] = archive[n][l] => k = l
      BY <2>1 DEF NoTwice
    <3> QED BY <2>1, <3>1, <3>2, <3>3
  <2> QED BY <2>2, <2>3
<1>2. ASSUME UNCHANGED archive PROVE NoTwice'
  BY <1>2 DEF NoTwice
<1>3. ASSUME NEW m \in Nodes, Advance(m) \/ Crash(m) \/ Deliver(m) PROVE UNCHANGED archive
  BY <1>3 DEF Advance, Crash, Deliver, AckSave, UnlinkPage, UnlinkAck, BeginReceive, AcceptPage,
     WriteAck, RefusePage, BeginExport, SkipExcluded, WritePage, SavePage, EndSync,
     CopyPage, DropPage, CopyAck, DropAck, content
<1>4. ASSUME NEW m \in Nodes, NEW c \in Excludable, Exclude(m, c) PROVE UNCHANGED archive
  BY <1>4 DEF Exclude
<1>5. ASSUME NEW s \in Summaries, CommitSummary(s) PROVE UNCHANGED archive
  BY <1>5 DEF CommitSummary
<1>6. CASE UNCHANGED vars
  BY <1>2, <1>6 DEF vars, content
<1> QED BY <1>1, <1>2, <1>3, <1>4, <1>5, <1>6 DEF Next

(* Only AcceptPage changes an index.                                       *)
LEMMA ReplicaStep ==
    ASSUME TypeOK, [Next]_vars, NEW n \in Nodes
    PROVE  replica'[n] = replica[n] \/ AcceptPage(n)
<1>1. CASE UNCHANGED replica
  BY <1>1
<1>2. ASSUME NEW m \in Nodes, AcceptPage(m) PROVE replica'[n] = replica[n] \/ AcceptPage(n)
  BY <1>2 DEF AcceptPage, TypeOK
<1>3. ASSUME NEW m \in Nodes, Advance(m) \/ Crash(m) \/ Deliver(m), ~AcceptPage(m)
      PROVE  UNCHANGED replica
  BY <1>3 DEF Advance, Crash, Deliver, AckSave, UnlinkPage, UnlinkAck, BeginReceive,
     WriteAck, RefusePage, BeginExport, SkipExcluded, WritePage, SavePage, EndSync,
     CopyPage, DropPage, CopyAck, DropAck
<1>4. ASSUME NEW m \in Nodes, NEW c \in Excludable, Exclude(m, c) PROVE UNCHANGED replica
  BY <1>4 DEF Exclude
<1>5. ASSUME NEW s \in Summaries, CommitSummary(s) PROVE UNCHANGED replica
  BY <1>5 DEF CommitSummary
<1>6. ASSUME NEW m \in Messages, AppendRecord(m) PROVE UNCHANGED replica
  BY <1>6 DEF AppendRecord
<1>7. CASE UNCHANGED vars
  BY <1>7 DEF vars
<1> QED BY <1>1, <1>2, <1>3, <1>4, <1>5, <1>6, <1>7 DEF Next

(* A page that is taken continues the replica, or is in it.                *)
LEMMA AcceptedPage ==
    ASSUME IInv, NEW n \in Nodes, AcceptPage(n)
    PROVE  LET p == Head(queue[n])
               r == replica[n]
           IN  /\ p \in outR[Peer(n)] /\ p \in Page /\ Numbered(p)
               /\ \/ p \in r.batches /\ replica'[n] = r
                  \/ /\ Continues(r, p)
                     /\ replica'[n] = [head      |-> IF SummaryOnly(p) THEN r.head ELSE p.to,
                                       batches   |-> r.batches \cup {p},
                                       records   |-> r.records \cup p.records,
                                       summaries |-> r.summaries \cup p.summaries]
               /\ p \in replica'[n].batches
<1> USE DEF IInv
<1> DEFINE p == Head(queue[n])
           r == replica[n]
<1>1. p \in outR[Peer(n)] /\ Acceptable(r, p) /\ replica'[n] = Ingested(r, p)
  BY DEF AcceptPage, TypeOK
<1>2. p \in Page
  BY <1>1, PeerLaws DEF TypeOK
<1>3. Numbered(p)
  BY <1>1, PeerLaws DEF PagesGood, Files
<1> HIDE DEF p, r
<1>4. \/ p \in r.batches /\ replica'[n] = r
      \/ /\ Continues(r, p)
         /\ replica'[n] = [head      |-> IF SummaryOnly(p) THEN r.head ELSE p.to,
                           batches   |-> r.batches \cup {p},
                           records   |-> r.records \cup p.records,
                           summaries |-> r.summaries \cup p.summaries]
  BY <1>1 DEF Acceptable, Ingested, Committed
<1>5. p \in replica'[n].batches
  BY <1>4
<1> QED BY <1>1, <1>2, <1>3, <1>4, <1>5 DEF p, r

(* An index never loses what it has.                                       *)
LEMMA ReplicaGrows ==
    ASSUME IInv, [Next]_vars, NEW n \in Nodes
    PROVE  /\ replica[n].batches \subseteq replica'[n].batches
           /\ replica[n].head <= replica'[n].head
           /\ replica'[n].batches \subseteq replica[n].batches \cup outR[Peer(n)]
<1>1. TypeOK
  BY DEF IInv
<1>2. replica[n].head \in Nat
  BY <1>1 DEF TypeOK
<1>3. CASE replica'[n] = replica[n]
  BY <1>2, <1>3
<1>4. CASE AcceptPage(n)
  <2> DEFINE p == Head(queue[n])
             r == replica[n]
  <2>1. /\ p \in outR[Peer(n)] /\ p \in Page /\ Numbered(p)
        /\ \/ p \in r.batches /\ replica'[n] = r
           \/ /\ Continues(r, p)
              /\ replica'[n] = [head      |-> IF SummaryOnly(p) THEN r.head ELSE p.to,
                                batches   |-> r.batches \cup {p},
                                records   |-> r.records \cup p.records,
                                summaries |-> r.summaries \cup p.summaries]
    BY <1>4, AcceptedPage
  <2>2. p.from \in Nat /\ p.to \in Nat
    BY <2>1 DEF Page
  <2> HIDE DEF p
  <2> QED BY <1>2, <2>1, <2>2 DEF Continues, Numbered
<1> QED BY <1>1, <1>3, <1>4, ReplicaStep

(* The files of a direction are those that were there, and the page that   *)
(* is being written.                                                       *)
LEMMA FilesStep ==
    ASSUME IInv, [Next]_vars, NEW n \in Nodes, NEW p \in Files(n)'
    PROVE  p \in Files(n) \/ (WritePage(n) /\ \E c \in PageCursors(n) : p = PageTo(n, c) /\ p \in Saving(n)')
<1> USE DEF IInv
<1>1. Peer(n) \in Nodes /\ Peer(Peer(n)) = n
  BY PeerLaws
<1>2. replica'[Peer(n)].batches \subseteq replica[Peer(n)].batches \cup outR[n]
  BY <1>1, ReplicaGrows
<1>3. SUFFICES ASSUME p \in outS'[n] \/ p \in outR'[n] \/ p \in state'[n].pending \/ p \in Saving(n)'
               PROVE  p \in outS[n] \cup outR[n] \cup state[n].pending \cup Saving(n)
                      \/ (WritePage(n) /\ \E c \in PageCursors(n) : p = PageTo(n, c) /\ p \in Saving(n)')
  BY <1>2 DEF Files, Written, Sent
<1> DEFINE Old == outS[n] \cup outR[n] \cup state[n].pending \cup Saving(n)
           Goal == p \in Old \/ (WritePage(n) /\ \E c \in PageCursors(n) : p = PageTo(n, c) /\ p \in Saving(n)')
<1>4. CASE UNCHANGED <<folder, state, pc, at>>
  BY <1>3, <1>4 DEF folder, Saving
<1>5. ASSUME NEW m \in Nodes, AckSave(m) PROVE Goal
  <2>1. state'[n].pending \subseteq state[n].pending /\ UNCHANGED folder
    <3>1. PICK q \in ackS[m] \cap state[m].pending :
            state' = [state EXCEPT ![m] =
               [cursor    |-> @.cursor, published |-> @.published,
                acked     |-> Larger(@.acked, q.to), pending   |-> @.pending \ {q},
                sent      |-> @.sent, batches   |-> @.batches]]
      BY <1>5 DEF AckSave
    <3>2. n \in DOMAIN state
      BY DEF TypeOK
    <3>3. state'[n].pending \subseteq state[n].pending
      BY <3>1, <3>2
    <3> QED BY <1>5, <3>3 DEF AckSave
  <2>2. Saving(n)' \subseteq Saving(n)
    BY <1>5 DEF AckSave, TypeOK, Saving
  <2> QED BY <1>3, <2>1, <2>2 DEF folder
<1>6. ASSUME NEW m \in Nodes, UnlinkPage(m) \/ UnlinkAck(m) PROVE Goal
  <2>1. outS'[n] \subseteq outS[n] /\ UNCHANGED <<outR, state>>
    <3>1. CASE UnlinkPage(m)
      <4>1. outS' = [outS EXCEPT ![m] = @ \ at[m]] /\ n \in DOMAIN outS
        BY <3>1 DEF UnlinkPage, TypeOK
      <4>2. outS'[n] \subseteq outS[n]
        BY <4>1
      <4> QED BY <3>1, <4>2 DEF UnlinkPage
    <3>2. CASE UnlinkAck(m)
      BY <3>2 DEF UnlinkAck
    <3> QED BY <1>6, <3>1, <3>2
  <2>2. Saving(n)' \subseteq Saving(n)
    BY <1>6 DEF UnlinkPage, UnlinkAck, TypeOK, Saving
  <2> QED BY <1>3, <2>1, <2>2
<1>7. ASSUME NEW m \in Nodes, BeginReceive(m) \/ AcceptPage(m) \/ WriteAck(m) \/ RefusePage(m)
                              \/ BeginExport(m) \/ EndSync(m) \/ Crash(m)
      PROVE  Goal
  <2>1. UNCHANGED <<outS, outR, state>>
    BY <1>7 DEF BeginReceive, AcceptPage, WriteAck, RefusePage, BeginExport, EndSync, Crash, folder
  <2>2. Saving(n)' \subseteq Saving(n)
    BY <1>7 DEF BeginReceive, AcceptPage, WriteAck, RefusePage, BeginExport, EndSync, Crash, TypeOK, Saving
  <2> QED BY <1>3, <2>1, <2>2
<1>8. ASSUME NEW m \in Nodes, SkipExcluded(m) PROVE Goal
  <2>1. state'[n].pending = state[n].pending /\ UNCHANGED <<folder, pc, at>>
    BY <1>8 DEF SkipExcluded, TypeOK
  <2> QED BY <1>3, <2>1 DEF folder, Saving
<1>9. ASSUME NEW m \in Nodes, WritePage(m) PROVE Goal
  <2> PICK c \in PageCursors(m) : /\ outS' = [outS EXCEPT ![m] = @ \cup {PageTo(m, c)}]
                                  /\ at' = [at EXCEPT ![m] = {PageTo(m, c)}]
    BY <1>9 DEF WritePage
  <2>1. UNCHANGED <<outR, state>> /\ pc' = [pc EXCEPT ![m] = "save page"]
    BY <1>9 DEF WritePage
  <2>2. CASE n = m
    BY <1>3, <1>9, <2>1, <2>2 DEF TypeOK, Saving
  <2>3. CASE n # m
    BY <1>3, <2>1, <2>3 DEF TypeOK, Saving
  <2> QED BY <2>2, <2>3
<1>10. ASSUME NEW m \in Nodes, SavePage(m) PROVE Goal
  <2>1. state'[n].pending \subseteq state[n].pending \cup Saving(n) /\ UNCHANGED folder
    <3>1. PICK q \in at[m] : state' = [state EXCEPT ![m] =
               [cursor    |-> q.source[2], published |-> q.to, acked     |-> @.acked,
                pending   |-> @.pending \cup {q}, sent      |-> @.sent \cup q.summaries,
                batches   |-> IF SummaryOnly(q) THEN @.batches + 1 ELSE @.batches]]
      BY <1>10 DEF SavePage
    <3>2. n \in DOMAIN state
      BY DEF TypeOK
    <3>3. state'[n].pending \subseteq state[n].pending \cup (IF n = m THEN at[m] ELSE {})
      BY <3>1, <3>2
    <3> QED BY <1>10, <3>3 DEF SavePage, Saving
  <2>2. Saving(n)' \subseteq Saving(n)
    BY <1>10 DEF SavePage, TypeOK, Saving
  <2> QED BY <1>3, <2>1, <2>2 DEF folder
<1>11. ASSUME NEW m \in Nodes, Deliver(m) PROVE Goal
  <2>1. /\ UNCHANGED <<outS, state, pc, at>> /\ outR'[n] \subseteq outR[n] \cup outS[n]
    <3>1. CASE CopyPage(m)
      <4>1. PICK q \in outS[m] \ outR[m] : outR' = [outR EXCEPT ![m] = @ \cup {q}]
        BY <3>1 DEF CopyPage
      <4>2. outR'[n] \subseteq outR[n] \cup outS[n]
        BY <4>1 DEF TypeOK
      <4> QED BY <3>1, <4>2 DEF CopyPage, run
    <3>2. CASE DropPage(m)
      <4>1. PICK q \in outR[m] \ outS[m] : outR' = [outR EXCEPT ![m] = @ \ {q}]
        BY <3>2 DEF DropPage
      <4>2. outR'[n] \subseteq outR[n]
        BY <4>1 DEF TypeOK
      <4> QED BY <3>2, <4>2 DEF DropPage, run
    <3>3. CASE CopyAck(m) \/ DropAck(m)
      BY <3>3 DEF CopyAck, DropAck, run
    <3> QED BY <1>11, <3>1, <3>2, <3>3 DEF Deliver
  <2> QED BY <1>3, <2>1 DEF Saving
<1>12. ASSUME NEW m \in Nodes, NEW c \in Excludable, Exclude(m, c) PROVE Goal
  BY <1>4, <1>12 DEF Exclude, run
<1>13. ASSUME NEW s \in Summaries, CommitSummary(s) PROVE Goal
  BY <1>4, <1>13 DEF CommitSummary, run
<1>14. ASSUME NEW m \in Messages, AppendRecord(m) PROVE Goal
  BY <1>4, <1>14 DEF AppendRecord, run
<1>15. CASE UNCHANGED vars
  BY <1>4, <1>15 DEF vars, run
<1> QED BY <1>5, <1>6, <1>7, <1>8, <1>9, <1>10, <1>11, <1>12, <1>13, <1>14, <1>15 DEF Next, Advance

(* Every page keeps to its numbers and its window.                         *)
LEMMA PagesGoodHolds == ASSUME IInv, [Next]_vars PROVE PagesGood'
<1>1. TypeOK /\ TypeOK'
  BY TypeHolds DEF IInv
<1> SUFFICES ASSUME NEW n \in Nodes, NEW p \in Files(n)' PROVE Numbered(p) /\ Accounts(n, p)'
  BY DEF PagesGood
<1>2. p \in Page /\ Numbered(p) /\ Accounts(n, p)
  <2>1. CASE p \in Files(n)
    BY <1>1, <2>1, PeerLaws DEF IInv, PagesGood, TypeOK, Files, Written, Sent, Saving
  <2>2. ASSUME NEW c \in PageCursors(n), p = PageTo(n, c) PROVE p \in Page /\ Numbered(p) /\ Accounts(n, p)
    BY <2>2, NewPage
  <2> QED BY <2>1, <2>2, FilesStep
<1> QED BY <1>1, <1>2, AccountsStable

-----------------------------------------------------------------------------
(* ACKs and the index.                                                     *)

(* An ACK is of a committed page, through every copy, removal and crash.   *)
LEMMA AcksTrueHolds == ASSUME IInv, [Next]_vars PROVE AcksTrue'
<1> USE DEF IInv
<1> DEFINE Acks(n) == ackR[n] \cup ackS[n] \cup ackGone[n]
<1>1. SUFFICES ASSUME NEW n \in Nodes
               PROVE  /\ Acks(n)' \subseteq replica'[Peer(n)].batches
                      /\ pc'[n] = "write ack" => Head(queue'[n]) \in replica'[n].batches
                      /\ pc'[n] \in {"unlink page", "unlink ack"} => at'[n] \subseteq replica'[Peer(n)].batches
  BY DEF AcksTrue
<1>2. /\ Peer(n) \in Nodes /\ Peer(Peer(n)) = n
      /\ replica[Peer(n)].batches \subseteq replica'[Peer(n)].batches
      /\ replica[n].batches \subseteq replica'[n].batches
  BY PeerLaws, ReplicaGrows
<1>3. /\ Acks(n) \subseteq replica'[Peer(n)].batches
      /\ pc[n] = "write ack" => Head(queue[n]) \in replica'[n].batches
      /\ pc[n] \in {"unlink page", "unlink ack"} => at[n] \subseteq replica'[Peer(n)].batches
  BY <1>2 DEF AcksTrue
<1> HIDE DEF Acks
<1> DEFINE Goal == /\ Acks(n)' \subseteq replica'[Peer(n)].batches
                   /\ pc'[n] = "write ack" => Head(queue'[n]) \in replica'[n].batches
                   /\ pc'[n] \in {"unlink page", "unlink ack"} => at'[n] \subseteq replica'[Peer(n)].batches
      SameAt == pc'[n] \in {"unlink page", "unlink ack"} =>
                    pc[n] \in {"unlink page", "unlink ack"} /\ at'[n] = at[n]
<1>4. CASE UNCHANGED <<ackR, ackS, ackGone, pc, at, queue>>
  BY <1>3, <1>4 DEF Acks
<1>5. ASSUME NEW m \in Nodes, AckSave(m) PROVE Goal
  <2>1. UNCHANGED <<ackR, ackS, ackGone, queue>>
    BY <1>5 DEF AckSave, folder
  <2>2. pc'[n] = "write ack" => pc[n] = "write ack"
    BY <1>5 DEF AckSave, TypeOK
  <2>3. PICK p \in ackS[m] : at' = [at EXCEPT ![m] = {p}]
    BY <1>5 DEF AckSave
  <2>4. CASE n = m
    <3>1. at'[n] \subseteq Acks(n)
      BY <2>3, <2>4 DEF TypeOK, Acks
    <3> QED BY <1>3, <2>1, <2>2, <3>1 DEF Acks
  <2>5. CASE n # m
    <3>1. SameAt
      BY <1>5, <2>3, <2>5 DEF AckSave, TypeOK
    <3> QED BY <1>3, <2>1, <2>2, <3>1 DEF Acks
  <2> QED BY <2>4, <2>5
<1>51. ASSUME NEW m \in Nodes, UnlinkPage(m) \/ EndSync(m) \/ BeginExport(m)
                              \/ WritePage(m) \/ SavePage(m)
      PROVE  Goal
  <2>1. UNCHANGED <<ackR, ackS, ackGone, queue>>
    BY <1>51 DEF UnlinkPage, EndSync, BeginExport, WritePage, SavePage, folder
  <2>2. pc'[n] = "write ack" => pc[n] = "write ack"
    BY <1>51 DEF UnlinkPage, EndSync, BeginExport, WritePage, SavePage, TypeOK
  <2>3. SameAt
    BY <1>51 DEF UnlinkPage, EndSync, BeginExport, WritePage, SavePage, TypeOK
  <2> QED BY <1>3, <2>1, <2>2, <2>3 DEF Acks
<1>6. ASSUME NEW m \in Nodes, UnlinkAck(m) PROVE Goal
  <2>1. ackS'[n] \subseteq ackS[n]
    <3>1. ackS' = [ackS EXCEPT ![m] = @ \ at[m]] /\ n \in DOMAIN ackS
      BY <1>6 DEF UnlinkAck, TypeOK
    <3> QED BY <3>1
  <2>2. ackGone'[n] \subseteq ackGone[n] \cup replica[Peer(n)].batches
    <3>1. ackGone' = [ackGone EXCEPT ![m] = @ \cup at[m]] /\ n \in DOMAIN ackGone
      BY <1>6 DEF UnlinkAck, TypeOK
    <3>2. at[m] \subseteq replica[Peer(m)].batches
      BY <1>6 DEF UnlinkAck, AcksTrue
    <3> QED BY <3>1, <3>2
  <2>3. ackR' = ackR /\ queue' = queue /\ (pc'[n] = "write ack" => pc[n] = "write ack")
    BY <1>6 DEF UnlinkAck, TypeOK
  <2>4. SameAt
    BY <1>6 DEF UnlinkAck, TypeOK
  <2> QED BY <1>2, <1>3, <2>1, <2>2, <2>3, <2>4 DEF Acks
<1>7. ASSUME NEW m \in Nodes, BeginReceive(m) \/ RefusePage(m) \/ Crash(m) PROVE Goal
  <2>1. UNCHANGED <<ackR, ackS, ackGone>>
    BY <1>7 DEF BeginReceive, RefusePage, Crash, folder
  <2>2. pc'[n] = "write ack" => pc[n] = "write ack" /\ queue'[n] = queue[n]
    BY <1>7 DEF BeginReceive, RefusePage, Crash, TypeOK
  <2>3. SameAt
    BY <1>7 DEF BeginReceive, RefusePage, Crash, TypeOK
  <2> QED BY <1>3, <2>1, <2>2, <2>3 DEF Acks
<1>8. ASSUME NEW m \in Nodes, AcceptPage(m) PROVE Goal
  <2>1. UNCHANGED <<ackR, ackS, ackGone, queue>>
    BY <1>8 DEF AcceptPage, folder
  <2>2. Head(queue[m]) \in replica'[m].batches
    BY <1>8, AcceptedPage
  <2>3. pc'[n] = "write ack" => pc[n] = "write ack" \/ n = m
    BY <1>8 DEF AcceptPage, TypeOK
  <2>4. SameAt
    BY <1>8 DEF AcceptPage, TypeOK
  <2> QED BY <1>3, <2>1, <2>2, <2>3, <2>4 DEF Acks
<1>9. ASSUME NEW m \in Nodes, WriteAck(m) PROVE Goal
  <2>1. Head(queue[m]) \in replica[m].batches
    BY <1>9 DEF WriteAck, AcksTrue
  <2>2. ackR'[n] \subseteq ackR[n] \cup (IF n = Peer(m) THEN {Head(queue[m])} ELSE {})
    BY <1>9 DEF WriteAck, TypeOK
  <2>3. n = Peer(m) => Peer(n) = m
    BY PeerLaws
  <2>4. pc'[n] = "write ack" => pc[n] = "write ack" /\ queue'[n] = queue[n]
    BY <1>9 DEF WriteAck, TypeOK
  <2>5. UNCHANGED <<ackS, ackGone>>
    BY <1>9 DEF WriteAck
  <2>6. SameAt
    BY <1>9 DEF WriteAck, TypeOK
  <2> QED BY <1>2, <1>3, <2>1, <2>2, <2>3, <2>4, <2>5, <2>6 DEF Acks
<1>10. ASSUME NEW m \in Nodes, Deliver(m) PROVE Goal
  <2>1. Acks(n)' \subseteq Acks(n)
    <3>1. CASE CopyPage(m) \/ DropPage(m)
      BY <3>1 DEF CopyPage, DropPage, Acks
    <3>2. CASE CopyAck(m)
      <4>1. PICK p \in ackR[m] : ackS' = [ackS EXCEPT ![m] = @ \cup {p}]
        BY <3>2 DEF CopyAck
      <4>2. ackS'[n] \subseteq ackS[n] \cup ackR[n]
        BY <4>1 DEF TypeOK
      <4> QED BY <3>2, <4>2 DEF CopyAck, Acks
    <3>3. CASE DropAck(m)
      <4>1. PICK p \in ackGone[m] : /\ ackR' = [ackR EXCEPT ![m] = @ \ {p}]
                                    /\ ackGone' = [ackGone EXCEPT ![m] = @ \ {p}]
        BY <3>3 DEF DropAck
      <4>2. ackR'[n] \subseteq ackR[n] /\ ackGone'[n] \subseteq ackGone[n]
        BY <4>1 DEF TypeOK
      <4> QED BY <3>3, <4>2 DEF DropAck, Acks
    <3> QED BY <1>10, <3>1, <3>2, <3>3 DEF Deliver
  <2>2. UNCHANGED <<pc, at, queue>>
    BY <1>10 DEF Deliver, CopyPage, DropPage, CopyAck, DropAck, run
  <2> QED BY <1>3, <2>1, <2>2
<1>11. ASSUME NEW m \in Nodes, SkipExcluded(m) PROVE Goal
  BY <1>4, <1>11 DEF SkipExcluded, folder
<1>12. ASSUME NEW m \in Nodes, NEW c \in Excludable, Exclude(m, c) PROVE Goal
  BY <1>4, <1>12 DEF Exclude, run, folder
<1>13. ASSUME NEW s \in Summaries, CommitSummary(s) PROVE Goal
  BY <1>4, <1>13 DEF CommitSummary, run, folder
<1>14. ASSUME NEW m \in Messages, AppendRecord(m) PROVE Goal
  BY <1>4, <1>14 DEF AppendRecord, run, folder
<1>15. CASE UNCHANGED vars
  BY <1>4, <1>15 DEF vars, run, folder
<1> QED BY <1>5, <1>51, <1>6, <1>7, <1>8, <1>9, <1>10, <1>11, <1>12, <1>13, <1>14, <1>15 DEF Next, Advance

(* The index is what its pages hold.                                       *)
LEMMA IndexTrueHolds == ASSUME IInv, [Next]_vars PROVE IndexTrue'
<1> USE DEF IInv
<1> SUFFICES ASSUME NEW n \in Nodes
             PROVE  /\ replica'[n].records = UNION {p.records : p \in replica'[n].batches}
                    /\ \A p \in replica'[n].batches : p.summaries \subseteq replica'[n].summaries
                    /\ \A p \in replica'[n].batches : p.to <= replica'[n].head
                    /\ replica'[n].head = 0 \/ \E p \in replica'[n].batches : p.to = replica'[n].head
  BY DEF IndexTrue
<1> DEFINE r == replica[n]
           p == Head(queue[n])
<1>1. /\ r.records = UNION {q.records : q \in r.batches}
      /\ \A q \in r.batches : q.summaries \subseteq r.summaries
      /\ \A q \in r.batches : q.to <= r.head
      /\ r.head = 0 \/ \E q \in r.batches : q.to = r.head
  BY DEF IndexTrue
<1>2. CASE replica'[n] = r
  BY <1>1, <1>2
<1>3. CASE AcceptPage(n) /\ replica'[n] # r
  <2>1. /\ p \in Page /\ Numbered(p) /\ Continues(r, p)
        /\ replica'[n] = [head      |-> IF SummaryOnly(p) THEN r.head ELSE p.to,
                          batches   |-> r.batches \cup {p},
                          records   |-> r.records \cup p.records,
                          summaries |-> r.summaries \cup p.summaries]
    BY <1>3, AcceptedPage
  <2>2. r.head \in Nat /\ p.to \in Nat /\ p.from \in Nat /\ \A q \in r.batches : q.to \in Nat
    BY <2>1 DEF TypeOK, Page
  <2> HIDE DEF r, p
  <2>3. replica'[n].records = UNION {q.records : q \in replica'[n].batches}
    BY <1>1, <2>1
  <2>4. \A q \in replica'[n].batches : q.summaries \subseteq replica'[n].summaries
    BY <1>1, <2>1
  <2>5. CASE SummaryOnly(p)
    BY <1>1, <2>1, <2>2, <2>3, <2>4, <2>5 DEF Continues
  <2>6. CASE ~SummaryOnly(p)
    <3>1. p.to > r.head /\ replica'[n].head = p.to
      BY <2>1, <2>2, <2>6 DEF Continues, Numbered
    <3> QED BY <1>1, <2>1, <2>2, <2>3, <2>4, <3>1
  <2> QED BY <2>5, <2>6
<1> QED BY <1>2, <1>3, ReplicaStep

-----------------------------------------------------------------------------
(* What a step does to the sender.                                         *)

(* Only AckSave, SkipExcluded and SavePage change the state file.          *)
LEMMA StateRecordStep ==
    ASSUME TypeOK, [Next]_vars, NEW n \in Nodes
    PROVE  \/ state'[n] = state[n]
           \/ /\ AckSave(n)
              /\ \E p \in ackS[n] \cap state[n].pending :
                    state'[n] = [cursor    |-> state[n].cursor,
                                 published |-> state[n].published,
                                 acked     |-> Larger(state[n].acked, p.to),
                                 pending   |-> state[n].pending \ {p},
                                 sent      |-> state[n].sent,
                                 batches   |-> state[n].batches]
           \/ /\ SkipExcluded(n)
              /\ state'[n] = [state[n] EXCEPT !.cursor = NextCursor(n)]
           \/ /\ SavePage(n)
              /\ \E p \in at[n] :
                    state'[n] = [cursor    |-> p.source[2],
                                 published |-> p.to,
                                 acked     |-> state[n].acked,
                                 pending   |-> state[n].pending \cup {p},
                                 sent      |-> state[n].sent \cup p.summaries,
                                 batches   |-> IF SummaryOnly(p) THEN state[n].batches + 1
                                               ELSE state[n].batches]
<1>0. n \in DOMAIN state
  BY DEF TypeOK
<1>1. CASE UNCHANGED state
  BY <1>1
<1>2. ASSUME NEW m \in Nodes, AckSave(m)
      PROVE  \/ m # n /\ state'[n] = state[n]
             \/ /\ m = n
                /\ \E p \in ackS[n] \cap state[n].pending :
                    state'[n] = [cursor    |-> state[n].cursor,
                                 published |-> state[n].published,
                                 acked     |-> Larger(state[n].acked, p.to),
                                 pending   |-> state[n].pending \ {p},
                                 sent      |-> state[n].sent,
                                 batches   |-> state[n].batches]
  BY <1>0, <1>2 DEF AckSave
<1>3. ASSUME NEW m \in Nodes, SkipExcluded(m)
      PROVE  \/ m # n /\ state'[n] = state[n]
             \/ m = n /\ state'[n] = [state[n] EXCEPT !.cursor = NextCursor(n)]
  BY <1>0, <1>3 DEF SkipExcluded
<1>4. ASSUME NEW m \in Nodes, SavePage(m)
      PROVE  \/ m # n /\ state'[n] = state[n]
             \/ /\ m = n
                /\ \E p \in at[n] :
                    state'[n] = [cursor    |-> p.source[2],
                                 published |-> p.to,
                                 acked     |-> state[n].acked,
                                 pending   |-> state[n].pending \cup {p},
                                 sent      |-> state[n].sent \cup p.summaries,
                                 batches   |-> IF SummaryOnly(p) THEN state[n].batches + 1
                                               ELSE state[n].batches]
  BY <1>0, <1>4 DEF SavePage
<1>5. ASSUME NEW m \in Nodes, Advance(m) \/ Crash(m) \/ Deliver(m),
             ~AckSave(m), ~SkipExcluded(m), ~SavePage(m)
      PROVE  UNCHANGED state
  BY <1>5 DEF Advance, Crash, Deliver, UnlinkPage, UnlinkAck, BeginReceive, AcceptPage,
     WriteAck, RefusePage, BeginExport, WritePage, EndSync,
     CopyPage, DropPage, CopyAck, DropAck
<1>6. ASSUME NEW m \in Nodes, NEW c \in Excludable, Exclude(m, c) PROVE UNCHANGED state
  BY <1>6 DEF Exclude
<1>7. ASSUME NEW s \in Summaries, CommitSummary(s) PROVE UNCHANGED state
  BY <1>7 DEF CommitSummary
<1>8. ASSUME NEW m \in Messages, AppendRecord(m) PROVE UNCHANGED state
  BY <1>8 DEF AppendRecord
<1>9. CASE UNCHANGED vars
  BY <1>9 DEF vars
<1> QED BY <1>1, <1>2, <1>3, <1>4, <1>5, <1>6, <1>7, <1>8, <1>9 DEF Next

(* The same, field by field.                                               *)
LEMMA StateStep ==
    ASSUME TypeOK, [Next]_vars, NEW n \in Nodes
    PROVE  LET s == state[n]
               t == state'[n]
           IN  \/ /\ t.cursor = s.cursor /\ t.published = s.published /\ t.acked = s.acked
                  /\ t.pending = s.pending /\ t.sent = s.sent
               \/ /\ AckSave(n)
                  /\ t.cursor = s.cursor /\ t.published = s.published /\ t.sent = s.sent
                  /\ \E p \in ackS[n] \cap s.pending :
                        t.acked = Larger(s.acked, p.to) /\ t.pending = s.pending \ {p}
               \/ /\ SkipExcluded(n)
                  /\ t.cursor = NextCursor(n) /\ t.published = s.published /\ t.acked = s.acked
                  /\ t.pending = s.pending /\ t.sent = s.sent
               \/ /\ SavePage(n)
                  /\ t.acked = s.acked
                  /\ \E p \in at[n] :
                        /\ t.cursor = p.source[2] /\ t.published = p.to
                        /\ t.pending = s.pending \cup {p} /\ t.sent = s.sent \cup p.summaries
<1> DEFINE s == state[n]
           t == state'[n]
<1>1. CASE t = s
  BY <1>1
<1>2. CASE AckSave(n) /\ \E p \in ackS[n] \cap s.pending :
              t = [cursor |-> s.cursor, published |-> s.published, acked |-> Larger(s.acked, p.to),
                   pending |-> s.pending \ {p}, sent |-> s.sent, batches |-> s.batches]
  BY <1>2
<1>3. CASE SkipExcluded(n) /\ t = [s EXCEPT !.cursor = NextCursor(n)]
  BY <1>3 DEF TypeOK
<1>4. CASE SavePage(n) /\ \E p \in at[n] :
              t = [cursor |-> p.source[2], published |-> p.to, acked |-> s.acked,
                   pending |-> s.pending \cup {p}, sent |-> s.sent \cup p.summaries,
                   batches |-> IF SummaryOnly(p) THEN s.batches + 1 ELSE s.batches]
  BY <1>4
<1> QED BY <1>1, <1>2, <1>3, <1>4, StateRecordStep

(* A page in hand was in hand before, or WritePage has just made it.       *)
LEMMA SavingStep ==
    ASSUME TypeOK, [Next]_vars, NEW n \in Nodes
    PROVE  \/ Saving(n)' = Saving(n) /\ ~SavePage(n)
           \/ Saving(n)' = {} /\ (SavePage(n) \/ crashes' > 0)
           \/ /\ WritePage(n)
              /\ Saving(n) = {}
              /\ \E c \in PageCursors(n) : Saving(n)' = {PageTo(n, c)}
<1> DEFINE Goal == \/ Saving(n)' = Saving(n) /\ ~SavePage(n)
                   \/ Saving(n)' = {} /\ (SavePage(n) \/ crashes' > 0)
                   \/ /\ WritePage(n)
                      /\ Saving(n) = {}
                      /\ \E c \in PageCursors(n) : Saving(n)' = {PageTo(n, c)}
<1>0. SavePage(n) => Saving(n)' = {}
  BY DEF SavePage, Saving, TypeOK
<1>1. CASE UNCHANGED <<pc, at>>
  BY <1>0, <1>1 DEF Saving
<1>2. ASSUME NEW m \in Nodes, AckSave(m) \/ UnlinkPage(m) \/ UnlinkAck(m) \/ BeginReceive(m)
                              \/ AcceptPage(m) \/ WriteAck(m) \/ BeginExport(m) \/ EndSync(m)
      PROVE  Saving(n)' = Saving(n)
  <2>1. CASE m = n
    BY <1>2, <2>1 DEF AckSave, UnlinkPage, UnlinkAck, BeginReceive, AcceptPage, WriteAck,
       BeginExport, EndSync, Saving, TypeOK
  <2>2. CASE m # n
    BY <1>2, <2>2 DEF AckSave, UnlinkPage, UnlinkAck, BeginReceive, AcceptPage, WriteAck,
       BeginExport, EndSync, Saving, TypeOK
  <2> QED BY <2>1, <2>2
<1>3. ASSUME NEW m \in Nodes, RefusePage(m) \/ SkipExcluded(m) \/ Deliver(m) PROVE Goal
  BY <1>1, <1>3 DEF RefusePage, SkipExcluded, Deliver, CopyPage, DropPage, CopyAck, DropAck, run
<1>4. ASSUME NEW m \in Nodes, WritePage(m) PROVE Goal
  <2>1. PICK c \in PageCursors(m) : at' = [at EXCEPT ![m] = {PageTo(m, c)}]
    BY <1>4 DEF WritePage
  <2>2. pc[m] = "export" /\ pc' = [pc EXCEPT ![m] = "save page"]
    BY <1>4 DEF WritePage
  <2>3. CASE m = n
    BY <1>4, <2>1, <2>2, <2>3 DEF Saving, TypeOK
  <2>4. CASE m # n
    BY <1>0, <2>1, <2>2, <2>4 DEF Saving, TypeOK
  <2> QED BY <2>3, <2>4
<1>5. ASSUME NEW m \in Nodes, SavePage(m) PROVE Goal
  BY <1>0, <1>5 DEF SavePage, Saving, TypeOK
<1>6. ASSUME NEW m \in Nodes, Crash(m) PROVE Goal
  <2>1. crashes' > 0
    BY <1>6 DEF Crash, TypeOK
  <2> QED BY <1>0, <1>6, <2>1 DEF Crash, Saving, TypeOK
<1>7. ASSUME NEW m \in Nodes, NEW c \in Excludable, Exclude(m, c) PROVE Goal
  BY <1>1, <1>7 DEF Exclude, run
<1>8. ASSUME NEW s \in Summaries, CommitSummary(s) PROVE Goal
  BY <1>1, <1>8 DEF CommitSummary, run
<1>9. ASSUME NEW m \in Messages, AppendRecord(m) PROVE Goal
  BY <1>1, <1>9 DEF AppendRecord, run
<1>10. CASE UNCHANGED vars
  BY <1>1, <1>10 DEF vars, run
<1> QED BY <1>0, <1>2, <1>3, <1>4, <1>5, <1>6, <1>7, <1>8, <1>9, <1>10 DEF Next, Advance

(* A page that was sent is pending, or committed by the peer, ever after.  *)
LEMMA SentGrows == ASSUME IInv, [Next]_vars, NEW n \in Nodes PROVE Sent(n) \subseteq Sent(n)'
<1> USE DEF IInv
<1>1. replica[Peer(n)].batches \subseteq replica'[Peer(n)].batches
  BY PeerLaws, ReplicaGrows
<1>2. CASE state'[n].pending = state[n].pending
  BY <1>1, <1>2 DEF Sent
<1>3. ASSUME NEW p \in ackS[n], state'[n].pending = state[n].pending \ {p}
      PROVE  Sent(n) \subseteq Sent(n)'
  <2>1. p \in replica[Peer(n)].batches
    BY DEF AcksTrue
  <2> QED BY <1>1, <1>3, <2>1 DEF Sent
<1>4. ASSUME NEW p, state'[n].pending = state[n].pending \cup {p}
      PROVE  Sent(n) \subseteq Sent(n)'
  BY <1>1, <1>4 DEF Sent
<1> QED BY <1>2, <1>3, <1>4, StateStep

(* The acknowledged number is one that the peer has reached.               *)
LEMMA AcknowledgedHolds == ASSUME IInv, [Next]_vars PROVE AcknowledgedIsCommitted'
<1> USE DEF IInv
<1> SUFFICES ASSUME NEW n \in Nodes PROVE state'[n].acked <= replica'[Peer(n)].head
  BY DEF AcknowledgedIsCommitted
<1>1. /\ state[n].acked \in Nat /\ replica[Peer(n)].head \in Nat /\ replica'[Peer(n)].head \in Nat
      /\ state[n].acked <= replica[Peer(n)].head /\ replica[Peer(n)].head <= replica'[Peer(n)].head
  BY PeerLaws, ReplicaGrows, TypeHolds DEF TypeOK, AcknowledgedIsCommitted
<1>2. CASE state'[n].acked = state[n].acked
  BY <1>1, <1>2
<1>3. ASSUME NEW p \in ackS[n], state'[n].acked = Larger(state[n].acked, p.to)
      PROVE  state'[n].acked <= replica'[Peer(n)].head
  <2>1. p \in replica[Peer(n)].batches
    BY DEF AcksTrue
  <2>2. p.to <= replica[Peer(n)].head
    BY <2>1, PeerLaws DEF IndexTrue
  <2>3. p \in Page
    BY DEF TypeOK
  <2>4. p.to \in Nat
    BY <2>3 DEF Page
  <2> QED BY <1>1, <1>3, <2>2, <2>4 DEF Larger
<1> QED BY <1>2, <1>3, StateStep

(* The cursor passes a record only when a page that was saved has it, or   *)
(* it is internal.                                                         *)
LEMMA CursorTrueHolds == ASSUME IInv, [Next]_vars PROVE CursorTrue'
<1> USE DEF IInv
<1>0. TypeOK'
  BY TypeHolds
<1> SUFFICES ASSUME NEW n \in Nodes
             PROVE  /\ state'[n].cursor <= Len(archive'[n])
                    /\ \A i \in 1..state'[n].cursor :
                          ~Shared(n, archive[n][i])' \/ \E p \in Sent(n)' : archive'[n][i] \in p.records
                    /\ \A s \in state'[n].sent : \E p \in Sent(n)' : s \in p.summaries
                    /\ \A p \in Saving(n)' : /\ p.source[1] = state'[n].cursor + 1
                                             /\ p.from = state'[n].published + 1
  BY DEF CursorTrue
<1>1. /\ state[n].cursor \in Nat /\ Len(archive[n]) \in Nat /\ Len(archive'[n]) \in Nat
      /\ state[n].cursor <= Len(archive[n]) /\ Len(archive[n]) <= Len(archive'[n])
  <2>1. archive[n] \in Seq(Messages) /\ archive'[n] \in Seq(Messages) /\ state[n].cursor \in Nat
    BY <1>0 DEF TypeOK
  <2>2. state[n].cursor <= Len(archive[n]) /\ Len(archive[n]) <= Len(archive'[n])
    BY ContentGrows DEF CursorTrue
  <2> QED BY <2>1, <2>2
<1> DEFINE Done(i) == ~Shared(n, archive[n][i])' \/ \E p \in Sent(n)' : archive'[n][i] \in p.records
<1>2. ASSUME NEW i \in 1..Len(archive[n]), ~Shared(n, archive[n][i]) PROVE Done(i)
  BY <1>2, SharedShrinks
<1>3. ASSUME NEW i \in 1..Len(archive[n]), NEW p \in Sent(n)', archive[n][i] \in p.records PROVE Done(i)
  BY <1>3, ContentGrows
<1>4. \A i \in 1..state[n].cursor : Done(i)
  <2> SUFFICES ASSUME NEW i \in 1..state[n].cursor PROVE Done(i)
    OBVIOUS
  <2>1. i \in 1..Len(archive[n])
    BY <1>1
  <2>2. ~Shared(n, archive[n][i]) \/ \E p \in Sent(n) : archive[n][i] \in p.records
    BY DEF CursorTrue
  <2>3. Sent(n) \subseteq Sent(n)'
    BY SentGrows
  <2> HIDE DEF Done
  <2> QED BY <1>2, <1>3, <2>1, <2>2, <2>3
<1>5. \A s \in state[n].sent : \E p \in Sent(n)' : s \in p.summaries
  BY SentGrows DEF CursorTrue
<1>6. \A p \in Saving(n) : /\ p.source[1] = state[n].cursor + 1 /\ p.from = state[n].published + 1
                           /\ p \in Page /\ Accounts(n, p)
  BY DEF CursorTrue, PagesGood, Files, Written, Saving, TypeOK
<1> HIDE DEF Done
<1>7. CASE /\ state'[n].cursor = state[n].cursor /\ state'[n].published = state[n].published
           /\ state'[n].sent = state[n].sent
  <2>1. \A p \in Saving(n)' : p.source[1] = state'[n].cursor + 1 /\ p.from = state'[n].published + 1
    <3>1. ASSUME NEW c \in PageCursors(n)
          PROVE  PageTo(n, c).source[1] = state[n].cursor + 1 /\ PageTo(n, c).from = state[n].published + 1
      BY NewPage
    <3> QED BY <1>6, <1>7, <3>1, SavingStep
  <2> QED BY <1>1, <1>4, <1>5, <1>7, <2>1 DEF Done
<1>8. CASE /\ SkipExcluded(n) /\ state'[n].cursor = NextCursor(n) /\ state'[n].sent = state[n].sent
  <2>1. /\ state'[n].cursor = NextCursor(n) /\ state'[n].sent = state[n].sent
    BY <1>8
  <2>2. NextCursor(n) \in state[n].cursor..Len(archive[n])
    BY <1>1, NextCursorBounds
  <2>3. \A i \in (state[n].cursor + 1)..NextCursor(n) : ~Shared(n, archive[n][i])
    BY <1>8 DEF SkipExcluded, AllExcluded, Selected, SelectedTo
  <2>4. \A i \in 1..state'[n].cursor : Done(i)
    <3> SUFFICES ASSUME NEW i \in 1..state'[n].cursor, i \notin 1..state[n].cursor PROVE Done(i)
      BY <1>4
    <3>1. i \in (state[n].cursor + 1)..NextCursor(n) /\ i \in 1..Len(archive[n])
      BY <1>1, <2>1, <2>2
    <3> QED BY <1>2, <2>3, <3>1
  <2>5. Saving(n)' = {}
    BY <1>8 DEF SkipExcluded, Saving, TypeOK
  <2>6. state'[n].cursor <= Len(archive'[n])
    BY <1>1, <2>1, <2>2
  <2> QED BY <1>5, <2>1, <2>4, <2>5, <2>6 DEF Done
<1>9. ASSUME SavePage(n), NEW p \in at[n],
             state'[n].cursor = p.source[2], state'[n].pending = state[n].pending \cup {p},
             state'[n].sent = state[n].sent \cup p.summaries
      PROVE  /\ state'[n].cursor <= Len(archive'[n])
             /\ \A i \in 1..state'[n].cursor : Done(i)
             /\ \A s \in state'[n].sent : \E q \in Sent(n)' : s \in q.summaries
             /\ Saving(n)' = {}
  <2>1. p \in Saving(n) /\ Saving(n)' = {}
    BY <1>9 DEF SavePage, Saving, TypeOK
  <2>2. p.source[1] = state[n].cursor + 1 /\ p \in Page /\ Accounts(n, p)
    BY <1>6, <2>1
  <2>3. p.source[2] \in Nat /\ p.source[2] <= Len(archive[n]) /\ state'[n].cursor = p.source[2]
    BY <1>9, <2>2 DEF Accounts, Page
  <2>4. p \in Sent(n)' /\ state'[n].sent = state[n].sent \cup p.summaries
    BY <1>9 DEF Sent
  <2>5. \A i \in 1..state'[n].cursor : Done(i)
    <3> SUFFICES ASSUME NEW i \in 1..state'[n].cursor, i \notin 1..state[n].cursor PROVE Done(i)
      BY <1>4
    <3>1. i \in Window(p) /\ i \in 1..Len(archive[n])
      BY <1>1, <2>2, <2>3 DEF Window
    <3>2. archive[n][i] \in p.records \/ ~Shared(n, archive[n][i])
      BY <2>2, <3>1 DEF Accounts
    <3> QED BY <1>2, <1>3, <2>4, <3>1, <3>2
  <2>6. state'[n].cursor <= Len(archive'[n])
    BY <1>1, <2>3
  <2> QED BY <1>5, <2>1, <2>4, <2>5, <2>6
<1> QED BY <1>7, <1>8, <1>9, StateStep DEF Done

-----------------------------------------------------------------------------
(* Without a crash the pages form a chain.                                 *)

(* A state without crashes comes from one without.                         *)
LEMMA CrashesGrow == ASSUME TypeOK, [Next]_vars, crashes' = 0 PROVE crashes = 0
<1>1. CASE UNCHANGED crashes
  BY <1>1
<1>2. ASSUME NEW m \in Nodes, Advance(m) \/ Deliver(m) PROVE UNCHANGED crashes
  BY <1>2 DEF Advance, Deliver, AckSave, UnlinkPage, UnlinkAck, BeginReceive, AcceptPage,
     WriteAck, RefusePage, BeginExport, SkipExcluded, WritePage, SavePage, EndSync,
     CopyPage, DropPage, CopyAck, DropAck
<1>3. ASSUME NEW m \in Nodes, Crash(m) PROVE FALSE
  BY <1>3 DEF Crash, TypeOK
<1>4. ASSUME NEW m \in Nodes, NEW c \in Excludable, Exclude(m, c) PROVE UNCHANGED crashes
  BY <1>4 DEF Exclude
<1>5. ASSUME NEW s \in Summaries, CommitSummary(s) PROVE UNCHANGED crashes
  BY <1>5 DEF CommitSummary
<1>6. ASSUME NEW m \in Messages, AppendRecord(m) PROVE UNCHANGED crashes
  BY <1>6 DEF AppendRecord
<1>7. CASE UNCHANGED vars
  BY <1>7 DEF vars
<1> QED BY <1>1, <1>2, <1>3, <1>4, <1>5, <1>6, <1>7 DEF Next

(* Until the first crash no page is forgotten.                             *)
LEMMA WrittenGrows ==
    ASSUME IInv, [Next]_vars, crashes' = 0, NEW n \in Nodes
    PROVE  Written(n) \subseteq Written(n)'
<1> USE DEF IInv
<1>1. Sent(n) \subseteq Sent(n)'
  BY SentGrows
<1>2. ASSUME SavePage(n), NEW p \in Saving(n) PROVE p \in Sent(n)'
  <2>1. PICK q \in at[n] : state' = [state EXCEPT ![n] =
           [cursor    |-> q.source[2], published |-> q.to, acked     |-> @.acked,
            pending   |-> @.pending \cup {q}, sent      |-> @.sent \cup q.summaries,
            batches   |-> IF SummaryOnly(q) THEN @.batches + 1 ELSE @.batches]]
    BY <1>2 DEF SavePage
  <2>2. state'[n].pending = state[n].pending \cup {q}
    BY <2>1 DEF TypeOK
  <2>3. q \in Saving(n)
    BY <1>2 DEF SavePage, Saving
  <2>4. p = q
    BY <2>3, CrashesGrow DEF Chained, Chain
  <2> QED BY <2>2, <2>4 DEF Sent
<1>3. Saving(n) \subseteq Saving(n)' \/ SavePage(n) \/ Saving(n) = {}
  BY SavingStep
<1> QED BY <1>1, <1>2, <1>3 DEF Written

(* Until the first crash every step keeps the chain of each direction.     *)
LEMMA ChainedHolds == ASSUME IInv, [Next]_vars PROVE Chained'
<1> USE DEF IInv
<1>0. TypeOK'
  BY TypeHolds
<1> SUFFICES ASSUME crashes' = 0, NEW n \in Nodes PROVE Chain(n)'
  BY DEF Chained
<1>1. Chain(n)
  BY CrashesGrow DEF Chained
<1>2. Peer(n) \in Nodes /\ Peer(Peer(n)) = n
  BY PeerLaws
<1>3. \A p \in Files(n) : p \in Page /\ p \in Written(n) /\ Numbered(p) /\ Accounts(n, p)
  BY <1>1, <1>2 DEF Chain, Files, Written, Sent, Saving, PagesGood, TypeOK
<1>4. state[n].published \in Nat /\ replica[Peer(n)].head \in Nat /\ replica'[Peer(n)].head \in Nat
  BY <1>0, <1>2 DEF TypeOK
<1>5. \A p \in Saving(n) : p.from = state[n].published + 1
  BY DEF CursorTrue
<1>6. Written(n) \subseteq Written(n)'
  BY WrittenGrows
<1>7. ASSUME NEW p \in Files(n)', p \notin Written(n)
      PROVE  /\ WritePage(n) /\ p \in Saving(n)' /\ Saving(n) = {}
             /\ p \in Page /\ Numbered(p)
             /\ p.from = state[n].published + 1 /\ p.source[1] = state[n].cursor + 1
             /\ \A q \in Written(n) : q.to <= state[n].published
             /\ replica' = replica
             /\ Saving(n)' \subseteq {p}
  <2>1. PICK c \in PageCursors(n) : p = PageTo(n, c) /\ WritePage(n) /\ p \in Saving(n)'
    BY <1>3, <1>7, FilesStep
  <2>2. Saving(n) = {}
    BY <2>1 DEF WritePage, Saving
  <2>3. p \in Page /\ Numbered(p) /\ p.from = state[n].published + 1 /\ p.source[1] = state[n].cursor + 1
    BY <2>1, NewPage
  <2>4. \A q \in Written(n) : q.to <= state[n].published
    BY <1>1, <2>2 DEF Chain
  <2>5. \A q \in Saving(n)' : q = p
    BY <2>1, <2>2, SavingStep
  <2> QED BY <2>1, <2>2, <2>3, <2>4, <2>5 DEF WritePage
<1>8. \A p \in Files(n)' : p \in Written(n)'
  BY <1>6, <1>7 DEF Written
<1>9. \A p, q \in Saving(n)' : p = q
  BY <1>1, SavingStep DEF Chain
<1>10. \A p \in Written(n)' : p.to <= state'[n].published \/ p \in Saving(n)'
  <2> SUFFICES ASSUME NEW p \in Written(n)', p \notin Saving(n)' PROVE p.to <= state'[n].published
    OBVIOUS
  <2>1. p \in Written(n) /\ p \in Page
    BY <1>3, <1>7 DEF Files
  <2>2. p.to \in Nat
    BY <2>1 DEF Page
  <2>3. CASE p \in Saving(n)
    <3>1. SavePage(n)
      BY <2>3, SavingStep
    <3>2. PICK q \in at[n] : state' = [state EXCEPT ![n] =
               [cursor    |-> q.source[2], published |-> q.to, acked     |-> @.acked,
                pending   |-> @.pending \cup {q}, sent      |-> @.sent \cup q.summaries,
                batches   |-> IF SummaryOnly(q) THEN @.batches + 1 ELSE @.batches]]
      BY <3>1 DEF SavePage
    <3>3. state'[n].published = q.to
      BY <3>2 DEF TypeOK
    <3>4. q \in Saving(n)
      BY <3>1 DEF SavePage, Saving
    <3>5. p = q
      BY <1>1, <2>3, <3>4 DEF Chain
    <3> QED BY <2>2, <3>3, <3>5
  <2>4. CASE p \notin Saving(n)
    <3>1. p.to <= state[n].published
      BY <1>1, <2>1, <2>4 DEF Chain
    <3>2. state[n].published <= state'[n].published
      <4>1. ASSUME NEW q \in at[n], SavePage(n), state'[n].published = q.to
            PROVE  state[n].published <= q.to
        <5>1. q \in Saving(n) /\ q \in Files(n)
          BY <4>1 DEF SavePage, Saving, Files, Written
        <5>2. q.from = state[n].published + 1 /\ Numbered(q) /\ q \in Page
          BY <1>3, <1>5, <5>1
        <5> QED BY <1>4, <5>2 DEF Numbered, Page
      <4> QED BY <1>4, <4>1, StateStep
    <3>3. state'[n].published \in Nat
      BY <1>0 DEF TypeOK
    <3> QED BY <1>4, <2>2, <3>1, <3>2, <3>3
  <2> QED BY <2>3, <2>4
<1>11. \A p, q \in Written(n)' : SummaryOnly(p) \/ SummaryOnly(q) \/ p = q
                                  \/ p.to < q.from \/ q.to < p.from
  <2>1. ASSUME NEW p \in Written(n)', p \notin Written(n), NEW q \in Written(n)
        PROVE  q.to < p.from
    <3>1. p.from = state[n].published + 1 /\ q.to <= state[n].published
      BY <1>7, <2>1 DEF Files
    <3>2. q.to \in Nat
      BY <1>3 DEF Files, Page
    <3> QED BY <1>4, <3>1, <3>2
  <2>2. ASSUME NEW p \in Written(n)', p \notin Written(n), NEW q \in Written(n)', q \notin Written(n)
        PROVE  p = q
    <3>1. p \in Saving(n)' /\ q \in Saving(n)'
      BY <1>7, <2>2 DEF Files
    <3> QED BY <1>9, <3>1
  <2>3. \A p, q \in Written(n) : SummaryOnly(p) \/ SummaryOnly(q) \/ p = q
                                  \/ p.to < q.from \/ q.to < p.from
    BY <1>1 DEF Chain
  <2> QED BY <2>1, <2>2, <2>3
<1>12. \A p \in Written(n)' : \A i \in 1..(p.source[1] - 1) :
          \/ ~Shared(n, archive[n][i])'
          \/ \E q \in Written(n)' : q.to < p.from /\ archive'[n][i] \in q.records
  <2> SUFFICES ASSUME NEW p \in Written(n)', NEW i \in 1..(p.source[1] - 1), Shared(n, archive[n][i])'
               PROVE  \E q \in Written(n)' : q.to < p.from /\ archive'[n][i] \in q.records
    OBVIOUS
  <2>1. archive[n] \in Seq(Messages) /\ Len(archive[n]) \in Nat /\ state[n].cursor \in Nat
        /\ state[n].cursor <= Len(archive[n])
    BY DEF TypeOK, CursorTrue
  <2>2. CASE p \in Written(n)
    <3>1. p \in Page /\ Accounts(n, p)
      BY <1>3, <2>2 DEF Files
    <3>2. i \in 1..Len(archive[n])
      BY <2>1, <3>1 DEF Accounts, Page
    <3>3. Shared(n, archive[n][i])
      BY <3>2, SharedShrinks
    <3>4. PICK q \in Written(n) : q.to < p.from /\ archive[n][i] \in q.records
      BY <1>1, <2>2, <3>3 DEF Chain
    <3> QED BY <1>6, <3>2, <3>4, ContentGrows
  <2>3. CASE p \notin Written(n)
    <3>1. p.source[1] = state[n].cursor + 1 /\ p.from = state[n].published + 1
          /\ \A q \in Written(n) : q.to <= state[n].published
      BY <1>7, <2>3 DEF Files
    <3>2. i \in 1..state[n].cursor /\ i \in 1..Len(archive[n])
      BY <2>1, <3>1
    <3>3. Shared(n, archive[n][i])
      BY <3>2, SharedShrinks
    <3>4. PICK q \in Sent(n) : archive[n][i] \in q.records
      BY <3>2, <3>3 DEF CursorTrue
    <3>5. q \in Written(n) /\ q.to \in Nat
      BY <1>3, <3>4 DEF Written, Files, Page
    <3>6. q.to < p.from
      BY <1>4, <3>1, <3>5
    <3> QED BY <1>6, <3>2, <3>4, <3>5, <3>6, ContentGrows
  <2> QED BY <2>2, <2>3
<1>13. \A p \in Written(n)' :
          ~SummaryOnly(p) /\ p.to <= replica'[Peer(n)].head => p \in replica'[Peer(n)].batches
  <2> SUFFICES ASSUME NEW p \in Written(n)', ~SummaryOnly(p), p.to <= replica'[Peer(n)].head
               PROVE  p \in replica'[Peer(n)].batches
    OBVIOUS
  <2> DEFINE r == replica[Peer(n)]
             a == Head(queue[Peer(n)])
  <2>1. CASE p \notin Written(n)
    <3>1. /\ replica' = replica /\ p \in Page /\ Numbered(p) /\ p.from = state[n].published + 1
          /\ \A q \in Written(n) : q.to <= state[n].published
      BY <1>7, <2>1 DEF Files
    <3>2. r.head <= state[n].published
      <4>1. r.head = 0 \/ \E q \in r.batches : q.to = r.head
        BY <1>2 DEF IndexTrue
      <4>2. r.batches \subseteq Written(n)
        BY DEF Written, Sent
      <4> QED BY <1>4, <3>1, <4>1, <4>2
    <3>3. p.to >= state[n].published + 1 /\ p.to \in Nat
      BY <3>1 DEF Numbered, Page
    <3> QED BY <1>4, <3>1, <3>2, <3>3
  <2>2. CASE p \in Written(n) /\ p.to <= r.head
    BY <1>1, <1>2, <2>2, ReplicaGrows DEF Chain
  <2>3. CASE p \in Written(n) /\ ~(p.to <= r.head)
    <3>1. AcceptPage(Peer(n)) /\ replica'[Peer(n)] # r
      BY <1>2, <2>3, ReplicaStep
    <3>2. /\ a \in outR[n] /\ a \in Page /\ Numbered(a) /\ Continues(r, a)
          /\ replica'[Peer(n)] = [head      |-> IF SummaryOnly(a) THEN r.head ELSE a.to,
                                  batches   |-> r.batches \cup {a},
                                  records   |-> r.records \cup a.records,
                                  summaries |-> r.summaries \cup a.summaries]
      BY <1>2, <3>1, AcceptedPage
    <3> HIDE DEF a
    <3>3. ~SummaryOnly(a) /\ replica'[Peer(n)].head = a.to /\ a.from = r.head + 1
      BY <2>3, <3>2 DEF Continues
    <3>4. a \in Written(n)
      BY <1>1, <3>2 DEF Chain
    <3>5. p = a \/ p.to < a.from \/ a.to < p.from
      BY <1>1, <2>3, <3>3, <3>4 DEF Chain
    <3>6. p \in Page /\ Numbered(p)
      BY <1>3, <2>3 DEF Files
    <3>7. p.to \in Nat /\ p.from \in Nat /\ a.to \in Nat /\ a.from \in Nat /\ p.to >= p.from
      BY <3>2, <3>6 DEF Page, Numbered
    <3>8. p = a
      BY <1>4, <2>3, <3>3, <3>5, <3>7
    <3> QED BY <3>2, <3>8
  <2> QED BY <2>1, <2>2, <2>3
<1> QED BY <1>8, <1>9, <1>10, <1>11, <1>12, <1>13 DEF Chain, Files

-----------------------------------------------------------------------------
(* Without an exclusion wire numbers are sequence numbers.                 *)

(* While nothing of n is excluded, every step keeps its numbers exact.     *)
LEMMA AllExactHolds == ASSUME IInv, [Next]_vars PROVE AllExact'
<1> USE DEF IInv
<1>0. TypeOK'
  BY TypeHolds
<1> SUFFICES ASSUME NEW n \in Nodes, excluded'[n] = {} PROVE Exact(n)'
  BY DEF AllExact
<1>1. excluded[n] = {}
  BY ContentGrows
<1>2. Exact(n)
  BY <1>1 DEF AllExact
<1>3. Peer(n) \in Nodes /\ Peer(Peer(n)) = n
  BY PeerLaws
<1>4. /\ state[n].cursor \in Nat /\ state[n].published \in Nat /\ replica[Peer(n)].head \in Nat
      /\ archive[n] \in Seq(Messages) /\ Len(archive[n]) \in Nat /\ Len(archive'[n]) \in Nat
      /\ state[n].cursor <= Len(archive[n]) /\ Len(archive[n]) <= Len(archive'[n])
      /\ \A i \in 1..Len(archive[n]) : archive'[n][i] = archive[n][i]
  <2>1. archive[n] \in Seq(Messages) /\ archive'[n] \in Seq(Messages)
    BY <1>0 DEF TypeOK
  <2>2. state[n].cursor \in Nat /\ state[n].published \in Nat /\ replica[Peer(n)].head \in Nat
    BY <1>3 DEF TypeOK
  <2> QED BY <2>1, <2>2, ContentGrows DEF CursorTrue
<1>5. ASSUME NEW c \in PageCursors(n)
      PROVE  LET p == PageTo(n, c)
             IN  /\ p \in Page /\ p.to = c /\ p.source[2] = c /\ p.to <= Len(archive[n])
                 /\ p.records = {archive[n][i] : i \in p.from..p.to}
  <2> DEFINE p == PageTo(n, c)
  <2>1. /\ p \in Page /\ p.from = state[n].published + 1 /\ p.source = <<state[n].cursor + 1, c>>
        /\ p.to = state[n].published + Cardinality(p.records)
        /\ Cardinality(p.records) = c - state[n].cursor
        /\ p.records = {archive[n][i] : i \in Window(p)}
    BY <1>1, NewPage
  <2>2. c \in state[n].cursor..Len(archive[n])
    BY <1>4, PageCursorBounds
  <2> HIDE DEF p
  <2>3. p.to = c /\ p.source[2] = c /\ p.from = p.source[1]
    BY <1>2, <1>4, <2>1, <2>2 DEF Exact
  <2> QED BY <1>4, <2>1, <2>2, <2>3 DEF Window, p
<1>6. \A p \in Files(n)' :
          /\ p \in Page /\ p.to <= Len(archive[n])
          /\ p.records = {archive[n][i] : i \in p.from..p.to}
  <2> SUFFICES ASSUME NEW p \in Files(n)'
               PROVE  /\ p \in Page /\ p.to <= Len(archive[n])
                      /\ p.records = {archive[n][i] : i \in p.from..p.to}
    OBVIOUS
  <2>1. CASE p \in Files(n)
    BY <1>2, <1>3, <2>1 DEF Exact, Files, Written, Sent, Saving, TypeOK
  <2>2. CASE p \notin Files(n)
    BY <1>5, <2>2, FilesStep
  <2> QED BY <2>1, <2>2
<1>7. ASSUME NEW k \in Nat, NEW l \in Nat, k > 0, l <= Len(archive[n])
      PROVE  {archive'[n][i] : i \in k..l} = {archive[n][i] : i \in k..l}
  <2>1. \A i \in k..l : i \in 1..Len(archive[n])
    BY <1>4, <1>7
  <2>2. \A i \in k..l : archive'[n][i] = archive[n][i]
    BY <1>4, <2>1
  <2> QED BY <2>2
<1>8. \A p \in Files(n)' : p.to <= Len(archive'[n]) /\ p.records = {archive'[n][i] : i \in p.from..p.to}
  <2> SUFFICES ASSUME NEW p \in Files(n)'
               PROVE  p.to <= Len(archive'[n]) /\ p.records = {archive'[n][i] : i \in p.from..p.to}
    OBVIOUS
  <2>1. p.from \in Nat /\ p.from > 0 /\ p.to \in Nat
    BY <1>6 DEF Page
  <2>2. p.to <= Len(archive[n]) /\ p.records = {archive[n][i] : i \in p.from..p.to}
    BY <1>6
  <2>3. {archive'[n][i] : i \in p.from..p.to} = {archive[n][i] : i \in p.from..p.to}
    BY <1>7, <2>1, <2>2
  <2>4. p.to <= Len(archive'[n])
    BY <1>4, <2>1, <2>2
  <2> QED BY <2>2, <2>3, <2>4
<1>9. \A p \in Saving(n)' : p.source[2] = p.to
  BY <1>2, <1>5, SavingStep DEF Exact
<1>10. state'[n].published = state'[n].cursor
  <2>1. CASE state'[n].cursor = state[n].cursor /\ state'[n].published = state[n].published
    BY <1>2, <2>1 DEF Exact
  <2>2. ~SkipExcluded(n)
    <3> SUFFICES ASSUME LimitedRecords(n) # {} PROVE Selected(n) # {}
      BY DEF SkipExcluded, AllExcluded
    <3>1. PICK i \in (state[n].cursor + 1)..NextCursor(n) : TRUE
      BY DEF LimitedRecords
    <3>2. archive[n][i] \in Selected(n)
      BY <1>1, <3>1 DEF Selected, SelectedTo, Shared
    <3> QED BY <3>2
  <2>3. ASSUME SavePage(n), NEW p \in at[n], state'[n].cursor = p.source[2], state'[n].published = p.to
        PROVE  state'[n].published = state'[n].cursor
    <3>1. p \in Saving(n)
      BY <2>3 DEF SavePage, Saving
    <3> QED BY <1>2, <2>3, <3>1 DEF Exact
  <2> QED BY <2>1, <2>2, <2>3, StateStep
<1>11. /\ replica'[Peer(n)].head <= Len(archive[n]) /\ replica'[Peer(n)].head \in Nat
       /\ replica'[Peer(n)].records = {archive[n][i] : i \in 1..replica'[Peer(n)].head}
  <2> DEFINE r == replica[Peer(n)]
             a == Head(queue[Peer(n)])
  <2>1. CASE replica'[Peer(n)] = r
    BY <1>2, <1>4, <2>1 DEF Exact
  <2>2. CASE AcceptPage(Peer(n)) /\ replica'[Peer(n)] # r
    <3>1. /\ a \in outR[n] /\ a \in Page /\ Numbered(a) /\ Continues(r, a)
          /\ replica'[Peer(n)] = [head      |-> IF SummaryOnly(a) THEN r.head ELSE a.to,
                                  batches   |-> r.batches \cup {a},
                                  records   |-> r.records \cup a.records,
                                  summaries |-> r.summaries \cup a.summaries]
      BY <1>3, <2>2, AcceptedPage
    <3>2. a.to <= Len(archive[n]) /\ a.records = {archive[n][i] : i \in a.from..a.to}
      BY <1>2, <3>1 DEF Exact, Files
    <3>3. r.records = {archive[n][i] : i \in 1..r.head} /\ r.head <= Len(archive[n])
      BY <1>2 DEF Exact
    <3>4. a.to \in Nat /\ a.from \in Nat
      BY <3>1 DEF Page
    <3> HIDE DEF a, r
    <3>5. CASE SummaryOnly(a)
      BY <3>1, <3>3, <3>5, <1>4 DEF SummaryOnly, r
    <3>6. CASE ~SummaryOnly(a)
      <4>1. a.from = r.head + 1 /\ a.to >= a.from /\ r.head \in Nat
        BY <1>4, <3>1, <3>6 DEF Continues, Numbered, r
      <4>2. 1..a.to = (1..r.head) \cup (a.from..a.to)
        BY <3>4, <4>1
      <4>3. replica'[Peer(n)].head = a.to /\ replica'[Peer(n)].records = r.records \cup a.records
        BY <3>1, <3>6
      <4>4. r.records \cup a.records = {archive[n][i] : i \in (1..r.head) \cup (a.from..a.to)}
        BY <3>2, <3>3
      <4> QED BY <3>2, <3>4, <4>2, <4>3, <4>4
    <3> QED BY <3>5, <3>6
  <2> QED BY <1>0, <1>3, <2>1, <2>2, ReplicaStep
<1>12. /\ replica'[Peer(n)].head <= Len(archive'[n])
       /\ replica'[Peer(n)].records = {archive'[n][i] : i \in 1..replica'[Peer(n)].head}
  <2>1. {archive'[n][i] : i \in 1..replica'[Peer(n)].head} = {archive[n][i] : i \in 1..replica'[Peer(n)].head}
    <3>1. 1 \in Nat /\ 1 > 0
      OBVIOUS
    <3> QED BY <1>7, <1>11, <3>1
  <2>2. replica'[Peer(n)].head <= Len(archive'[n])
    BY <1>4, <1>11
  <2> QED BY <1>11, <2>1, <2>2
<1> QED BY <1>8, <1>9, <1>10, <1>12 DEF Exact

-----------------------------------------------------------------------------

(* Nothing is written, sent or committed at the start.                     *)
LEMMA InitHolds == Init => IInv
<1> SUFFICES ASSUME Init PROVE IInv
  OBVIOUS
<1> USE DEF Init
<1>1. TypeOK
  BY DEF TypeOK, Places
<1>2. NoTwice
  BY DEF NoTwice
<1>3. \A n \in Nodes : Files(n) = {} /\ Written(n) = {} /\ Sent(n) = {} /\ Saving(n) = {}
  BY PeerLaws DEF Files, Written, Sent, Saving
<1>4. PagesGood
  BY <1>3 DEF PagesGood
<1>5. AcksTrue
  BY DEF AcksTrue
<1>6. IndexTrue
  BY DEF IndexTrue
<1>7. CursorTrue
  BY <1>3 DEF CursorTrue
<1>8. AcknowledgedIsCommitted
  BY PeerLaws DEF AcknowledgedIsCommitted
<1>9. Chained
  BY <1>3 DEF Chained, Chain
<1>10. AllExact
  <2> SUFFICES ASSUME NEW n \in Nodes PROVE Exact(n)
    BY DEF AllExact
  <2>1. \A m \in Nodes : replica[m].head = 0 /\ replica[m].records = {}
    OBVIOUS
  <2>2. replica[Peer(n)].head = 0 /\ replica[Peer(n)].records = {}
    BY <2>1, PeerLaws
  <2>3. archive[n] = <<>> /\ Len(archive[n]) = 0
    OBVIOUS
  <2>4. state[n].published = state[n].cursor
    OBVIOUS
  <2>5. {archive[n][i] : i \in 1..0} = {}
    OBVIOUS
  <2>6. replica[Peer(n)].head <= Len(archive[n])
    BY <2>2, <2>3
  <2>7. replica[Peer(n)].records = {archive[n][i] : i \in 1..replica[Peer(n)].head}
    BY <2>2, <2>5
  <2> QED BY <1>3, <2>4, <2>6, <2>7 DEF Exact
<1> QED BY <1>1, <1>2, <1>4, <1>5, <1>6, <1>7, <1>8, <1>9, <1>10 DEF IInv

(* The invariant holds in every reachable state.                           *)
THEOREM Inductive == Spec => []IInv
<1>1. IInv /\ [Next]_vars => IInv'
  BY TypeHolds, NoTwiceHolds, PagesGoodHolds, AcksTrueHolds, IndexTrueHolds, CursorTrueHolds,
     AcknowledgedHolds, ChainedHolds, AllExactHolds DEF IInv
<1> QED BY <1>1, InitHolds, PTL DEF Spec

(* AcknowledgedIsCommitted: the sender never takes a number for            *)
(* acknowledged that its peer has not committed.                           *)
THEOREM AcknowledgedIsCommittedHolds == Spec => []AcknowledgedIsCommitted
<1>1. IInv => AcknowledgedIsCommitted
  BY DEF IInv
<1> QED BY <1>1, Inductive, PTL

(* ReplicaHasNoGap: a replica that has a record has all earlier ones of    *)
(* its peer that are not internal, as long as no crash has happened or     *)
(* nothing of the peer is excluded. With an interval of the archive        *)
(* (AllExact) that is immediate; with a chain (Chained), an earlier record *)
(* is in a page with smaller numbers, which the peer has committed.        *)
THEOREM ReplicaHasNoGapHolds == Spec => []ReplicaHasNoGap
<1>1. IInv => ReplicaHasNoGap
  <2> SUFFICES ASSUME IInv, NEW n \in Nodes, crashes = 0 \/ excluded[Peer(n)] = {} PROVE HasNoGap(n)
    BY DEF ReplicaHasNoGap
  <2> USE DEF IInv
  <2> DEFINE d == Peer(n)
             mine == replica[n].records
  <2>1. d \in Nodes /\ Peer(d) = n
    BY PeerLaws
  <2>2. \A q \in replica[n].batches : q \in Written(d) /\ q \in Files(d) /\ q.records \subseteq mine
    BY <2>1 DEF Written, Sent, Files, IndexTrue
  <2>3. \A m \in mine : \E q \in replica[n].batches : m \in q.records
    BY DEF IndexTrue
  <2>4. archive[d] \in Seq(Messages)
    BY <2>1 DEF TypeOK
  <2>5. \A q \in replica[n].batches : q \in Page /\ Numbered(q) /\ Accounts(d, q)
    BY <2>1, <2>2 DEF PagesGood, TypeOK
  <2>6. ASSUME NEW q \in replica[n].batches, NEW m \in q.records
        PROVE  \E i \in Window(q) : i \in DOMAIN archive[d] /\ m = archive[d][i]
    <3>1. PICK i \in Window(q) : m = archive[d][i]
      BY <2>5, <2>6 DEF Accounts
    <3>2. i \in DOMAIN archive[d]
      BY <2>4, <2>5, <3>1 DEF Accounts, Window, Page
    <3> QED BY <3>1, <3>2
  <2>7. mine \subseteq Held(d)
    BY <2>3, <2>6 DEF Held, Range
  <2> SUFFICES ASSUME NEW k \in DOMAIN archive[d], archive[d][k] \in mine, NEW j \in 1..(k - 1),
                      Shared(d, archive[d][j])
               PROVE  archive[d][j] \in mine
    BY <2>7 DEF HasNoGap
  <2> HIDE DEF d
  <2>8. k \in Nat /\ j \in Nat /\ j < k /\ j >= 1
    BY <2>4
  <2>9. CASE excluded[d] = {}
    <3>1. mine = {archive[d][i] : i \in 1..replica[n].head} /\ replica[n].head <= Len(archive[d])
          /\ replica[n].head \in Nat
      BY <2>1, <2>9 DEF AllExact, Exact, TypeOK
    <3>2. PICK i \in 1..replica[n].head : archive[d][k] = archive[d][i]
      BY <3>1
    <3>3. i = k
      BY <2>1, <2>4, <3>1, <3>2 DEF NoTwice
    <3> QED BY <2>8, <3>1, <3>3
  <2>10. CASE crashes = 0
    <3>1. PICK q \in replica[n].batches : archive[d][k] \in q.records
      BY <2>3
    <3>2. k \in Window(q)
      BY <2>1, <2>6, <3>1 DEF NoTwice
    <3>3. q \in Page /\ Numbered(q) /\ Accounts(d, q) /\ q \in Written(d)
      BY <2>2, <2>5
    <3>4. CASE j \in Window(q)
      BY <2>2, <3>3, <3>4 DEF Accounts
    <3>5. CASE j \notin Window(q)
      <4>1. j \in 1..(q.source[1] - 1)
        BY <2>8, <3>2, <3>3, <3>5 DEF Window, Page
      <4>2. PICK p \in Written(d) : p.to < q.from /\ archive[d][j] \in p.records
        BY <2>1, <2>10, <3>3, <4>1 DEF Chained, Chain
      <4>3. q.to <= replica[n].head /\ q.to >= q.from /\ q.to \in Nat /\ q.from \in Nat
        BY <3>1, <3>3 DEF IndexTrue, Numbered, SummaryOnly, Page
      <4>4. p.to \in Nat /\ replica[n].head \in Nat
        <5>1. replica[n].head \in Nat
          BY DEF TypeOK
        <5>2. state[d].pending \subseteq Page /\ replica[n].batches \subseteq Page /\ at[d] \subseteq Page
          BY <2>1 DEF TypeOK
        <5>3. p \in Page
          BY <2>1, <5>2 DEF Written, Sent, Saving
        <5> QED BY <5>1, <5>3 DEF Page
      <4>5. p.to <= replica[n].head /\ ~SummaryOnly(p)
        BY <4>2, <4>3, <4>4 DEF SummaryOnly
      <4>6. p \in replica[n].batches
        BY <2>1, <2>10, <4>5 DEF Chained, Chain
      <4> QED BY <2>2, <4>2, <4>6
    <3> QED BY <3>4, <3>5
  <2> QED BY <2>9, <2>10 DEF d
<1> QED BY <1>1, Inductive, PTL

(* PeerAcknowledgedMeansDelivered: when status() says "peer-acknowledged", *)
(* every page sent is committed, and each record and summary is in such a  *)
(* page.                                                                   *)
THEOREM PeerAcknowledgedMeansDeliveredHolds == Spec => []PeerAcknowledgedMeansDelivered
<1>1. IInv => PeerAcknowledgedMeansDelivered
  <2> SUFFICES ASSUME IInv, NEW n \in Nodes, PeerAcknowledged(n)
               PROVE  /\ \A m \in Held(n) : Shared(n, m) => m \in replica[Peer(n)].records
                      /\ \A s \in made[n] : s.conv \notin excluded[n] => s \in replica[Peer(n)].summaries
    BY DEF PeerAcknowledgedMeansDelivered
  <2> USE DEF IInv
  <2>1. Sent(n) = replica[Peer(n)].batches /\ Peer(n) \in Nodes
    BY PeerLaws DEF PeerAcknowledged, Sent
  <2>2. \A p \in Sent(n) : p.records \subseteq replica[Peer(n)].records
                           /\ p.summaries \subseteq replica[Peer(n)].summaries
    BY <2>1 DEF IndexTrue
  <2>3. ASSUME NEW m \in Held(n), Shared(n, m) PROVE m \in replica[Peer(n)].records
    <3>1. PICK i \in DOMAIN archive[n] : m = archive[n][i]
      BY DEF Held, Range
    <3>2. i \in 1..state[n].cursor
      BY DEF PeerAcknowledged, TypeOK
    <3>3. PICK p \in Sent(n) : archive[n][i] \in p.records
      BY <2>3, <3>1, <3>2 DEF CursorTrue
    <3> QED BY <2>2, <3>1, <3>3
  <2>4. ASSUME NEW s \in made[n], s.conv \notin excluded[n] PROVE s \in replica[Peer(n)].summaries
    <3>1. s \in state[n].sent
      BY <2>4 DEF PeerAcknowledged
    <3> QED BY <2>2, <3>1 DEF CursorTrue
  <2> QED BY <2>3, <2>4
<1> QED BY <1>1, Inductive, PTL

-----------------------------------------------------------------------------
(***************************************************************************)
(* The head of the queue.  That the page which is named first among those  *)
(* that the peer has not committed is one it will take needs more than the *)
(* chain: that no number is skipped, and that summaries come in an order   *)
(* in which each finds its sources.                                        *)
(*   SummariesListed   what sync_once has read of the summaries is in the  *)
(*                     list, which is finite                               *)
(*   QueueWhole        a page that is not committed is in the folder, each *)
(*                     published number is in a page, and the head of the  *)
(*                     index is the end of a committed page of records     *)
(*   InOrder           until the first crash no two pages of summaries     *)
(*                     have one number, and what a summary rests on is in  *)
(*                     its page or in one that is named before             *)
(***************************************************************************)
SummariesListed ==
    \A n \in Nodes : IsFiniteSet(made[n]) /\ \A K \in cache[n] : K \subseteq made[n]

QueueWhole ==
    \A n \in Nodes :
        /\ Written(n) \ replica[Peer(n)].batches \subseteq outS[n]
        /\ \A k \in 1..state[n].published : \E q \in Sent(n) : q.from <= k /\ k <= q.to
        /\ replica[n].head = 0
           \/ \E q \in replica[n].batches : ~SummaryOnly(q) /\ q.to = replica[n].head

SummaryPagesNumbered(n) ==
    /\ \A p, q \in Written(n) :
          SummaryOnly(p) /\ SummaryOnly(q) /\ p.batch = q.batch => p = q
    /\ \A p \in Written(n) :
          \/ p.batch <= state[n].batches
          \/ p \in Saving(n) /\ p.batch = state[n].batches + 1
    /\ \A p \in Written(n) : SummaryOnly(p) \/ p.batch = 0

(* Each source of a summary of page p is in p or in a page named before.   *)
Sourced(n, p) ==
    \A s \in p.summaries :
        /\ \A m \in s.raws : m \in p.records
                             \/ \E q \in Written(n) : NamedBefore(q, p) /\ m \in q.records
        /\ \A t \in s.children : (t \in p.summaries /\ t.level < s.level)
                                 \/ \E q \in Written(n) : NamedBefore(q, p) /\ t \in q.summaries

InOrder ==
    crashes = 0 => \A n \in Nodes : SummaryPagesNumbered(n) /\ \A p \in Written(n) : Sourced(n, p)

QInv == SummariesListed /\ QueueWhole /\ InOrder

-----------------------------------------------------------------------------
(* What a page is made of.                                                 *)

(* A bounded set of numbers has a largest one.                             *)
LEMMA MaxOfBounded ==
    ASSUME NEW b \in Nat, NEW S \in SUBSET (0..b), S # {}
    PROVE  Max(S) \in S /\ \A y \in S : Max(S) >= y
<1> DEFINE T == {b - x : x \in S}
           R == OpToRel(<, Nat)
<1>1. T \subseteq Nat
  <2>1. \A x \in S : x \in Nat /\ x <= b
    OBVIOUS
  <2>2. \A x \in S : b - x \in Nat
    BY <2>1
  <2> QED BY <2>2
<1>2. T # {}
  OBVIOUS
<1>3. PICK t \in T : \A y \in T : ~ (<<y, t>> \in R)
  <2>1. IsWellFoundedOn(R, Nat)
    BY NatLessThanWellFounded
  <2> HIDE DEF T, R
  <2> QED BY <1>1, <1>2, <2>1, WFMin
<1>4. ASSUME NEW y \in T, y < t PROVE FALSE
  <2>1. <<y, t>> \in Nat \X Nat
    BY <1>1
  <2>2. <<y, t>> \in {p \in Nat \X Nat : p[1] < p[2]}
    BY <1>4, <2>1
  <2>3. <<y, t>> \in R
    BY <2>2 DEF OpToRel
  <2> QED BY <1>3, <2>3
<1>5. PICK x \in S : t = b - x
  OBVIOUS
<1>6. ASSUME NEW y \in S PROVE x >= y
  <2>1. b - y \in T /\ x \in Nat /\ y \in Nat
    OBVIOUS
  <2>2. ~(b - y < t)
    <3> HIDE DEF T
    <3> QED BY <1>4, <2>1
  <2> QED BY <1>5, <2>1, <2>2
<1> QED BY <1>5, <1>6 DEF Max

(* Halving begins with the whole and never gives more.                     *)
LEMMA HalvingsLaws ==
    ASSUME NEW n \in Nat
    PROVE  Halvings(n) \in SUBSET (0..n) /\ n \in Halvings(n)
<1>1. 2 ^ 0 = 1
  OBVIOUS
<1>2. n \div 1 = n
  OBVIOUS
<1>3. n = n \div (2 ^ 0) /\ 0 \in 0..n /\ n \in 0..n
  BY <1>1, <1>2
<1> QED BY <1>3 DEF Halvings

(* The number of summaries that a page keeps: none when its records alone  *)
(* are too large.                                                          *)
LEMMA SummariesKeptLaws ==
    ASSUME NEW records \in Nat, NEW ready, IsFiniteSet(ready)
    PROVE  /\ SummariesKept(records, ready) \in Nat
           /\ records > PageLimit => SummariesKept(records, ready) = 0
<1> DEFINE wanted == Min({Cardinality(ready), MaxSummaries})
           S == {0} \cup {k \in Halvings(wanted) : records + k <= PageLimit}
<1>1. wanted \in Nat
  <2>1. Cardinality(ready) \in Nat /\ MaxSummaries \in Nat
    BY FS_CardinalityType, SizesAssumption
  <2> QED BY <2>1, MinOfTwo
<1>2. S \in SUBSET (0..wanted) /\ S # {}
  <2> HIDE DEF wanted
  <2> QED BY <1>1, HalvingsLaws
<1>3. Max(S) \in S
  <2> HIDE DEF wanted, S
  <2> QED BY <1>1, <1>2, MaxOfBounded
<1>4. SummariesKept(records, ready) = Max(S)
  BY DEF SummariesKept
<1>5. ASSUME records > PageLimit PROVE S = {0}
  <2>1. \A k \in 0..wanted : ~(records + k <= PageLimit)
    <3> HIDE DEF wanted
    <3> QED BY <1>1, <1>5, SizesAssumption
  <2> HIDE DEF wanted
  <2> QED BY <1>1, <2>1, HalvingsLaws
<1>6. Max(S) \in Nat
  <2> HIDE DEF wanted
  <2> QED BY <1>1, <1>2, <1>3
<1> HIDE DEF S
<1> QED BY <1>3, <1>4, <1>5, <1>6

(* A page whose records fit is not cut.                                    *)
LEMMA RecordsAllKept ==
    ASSUME NEW records \in Nat, records <= PageLimit
    PROVE  RecordsKept(records) = records
<1> DEFINE S == {k \in Halvings(records) : k <= PageLimit}
<1>1. S \in SUBSET (0..records) /\ records \in S
  BY HalvingsLaws
<1>2. Max(S) \in S /\ Max(S) >= records
  <2> HIDE DEF S
  <2> QED BY <1>1, MaxOfBounded
<1>3. RecordsKept(records) = Max(S)
  BY DEF RecordsKept
<1> QED
  <2>1. Max(S) \in 0..records
    <3> HIDE DEF S
    <3> QED BY <1>1, <1>2
  <2> HIDE DEF S
  <2> QED BY <1>2, <1>3, <2>1

(* A summary is a candidate with its records behind the cursor of the      *)
(* page, and with its children sent or candidates of a lower level.        *)
LEMMA CandidatesLaws ==
    ASSUME NEW n \in Nodes
    PROVE  /\ SummaryCandidates(n) \subseteq Known(n)
           /\ \A s \in SummaryCandidates(n) :
                 /\ s.raws \subseteq {archive[n][i] : i \in {j \in 1..NextCursor(n) : Shared(n, archive[n][j])}}
                 /\ s.children \subseteq
                        state[n].sent \cup {c \in SummaryCandidates(n) : c.level < s.level}
<1> DEFINE within == {archive[n][i] : i \in {j \in 1..NextCursor(n) : Shared(n, archive[n][j])}}
           candidates == {s \in Known(n) \ state[n].sent :
                             s.conv \notin excluded[n] /\ s.raws \subseteq within}
           ChildrenFirst(S) ==
               \A s \in S : s.children \subseteq state[n].sent \cup {c \in S : c.level < s.level}
           C == UNION {S \in SUBSET candidates : ChildrenFirst(S)}
<1>1. SummaryCandidates(n) = C
  BY DEF SummaryCandidates
<1>2. C \subseteq candidates
  OBVIOUS
<1>3. ASSUME NEW s \in C PROVE s.children \subseteq state[n].sent \cup {c \in C : c.level < s.level}
  <2>1. PICK S \in SUBSET candidates : ChildrenFirst(S) /\ s \in S
    OBVIOUS
  <2>2. S \subseteq C
    BY <2>1
  <2>3. s.children \subseteq state[n].sent \cup {c \in S : c.level < s.level}
    BY <2>1
  <2> HIDE DEF C, candidates
  <2> QED BY <2>2, <2>3
<1>4. candidates \subseteq Known(n) /\ \A s \in candidates : s.raws \subseteq within
  OBVIOUS
<1> HIDE DEF C, candidates
<1> QED BY <1>1, <1>2, <1>3, <1>4

(* Cut to its first k, a list that is ordered by levels keeps with a       *)
(* summary all those of lower levels.                                      *)
LEMMA FirstKeepLower ==
    ASSUME NEW S \in SUBSET Summaries, IsFiniteSet(S), NEW k \in Nat,
           NEW s \in FirstSummaries(S, k), NEW t \in S, t.level < s.level
    PROVE  t \in FirstSummaries(S, k) /\ k > 0
<1> DEFINE Before(x) == {u \in S : LevelOrder(u, x)}
<1>1. s \in S /\ Cardinality(Before(s)) < k
  BY DEF FirstSummaries
<1>2. s.level \in Nat /\ t.level \in Nat /\ \A u \in S : u.level \in Nat
  BY <1>1, SummariesAssumption
<1>3. Before(t) \subseteq Before(s)
  BY <1>2 DEF LevelOrder
<1>4. IsFiniteSet(Before(s)) /\ IsFiniteSet(Before(t))
  <2>1. Before(s) \in SUBSET S /\ Before(t) \in SUBSET S
    OBVIOUS
  <2> HIDE DEF Before
  <2> QED BY <2>1, FS_Subset
<1>5. /\ Cardinality(Before(t)) \in Nat /\ Cardinality(Before(s)) \in Nat
      /\ Cardinality(Before(t)) <= Cardinality(Before(s))
  <2> HIDE DEF Before
  <2> QED BY <1>3, <1>4, FS_Subset, FS_CardinalityType
<1>6. Cardinality(Before(t)) < k
  BY <1>1, <1>5
<1> QED BY <1>1, <1>5, <1>6 DEF FirstSummaries

(* What _export_one puts into a page: the records of a summary are in the  *)
(* page or behind the cursor, its children in the page or sent.            *)
LEMMA NewPageSources ==
    ASSUME IInv, SummariesListed, NEW n \in Nodes, NEW c \in PageCursors(n),
           NEW s \in PageTo(n, c).summaries
    PROVE  /\ \A m \in s.raws : \/ m \in PageTo(n, c).records
                                \/ \E i \in 1..state[n].cursor : m = archive[n][i] /\ Shared(n, archive[n][i])
           /\ \A t \in s.children : \/ t \in state[n].sent
                                    \/ t \in PageTo(n, c).summaries /\ t.level < s.level
<1> USE DEF IInv
<1> DEFINE S == SummaryCandidates(n)
           all == Cardinality(Selected(n))
           k == SummariesKept(all, S)
<1>1. PageTo(n, c).summaries = FirstSummaries(S, k) /\ PageTo(n, c).records = SelectedTo(n, c)
  BY DEF PageTo
<1>2. /\ state[n].cursor \in Nat /\ Len(archive[n]) \in Nat /\ state[n].cursor <= Len(archive[n])
      /\ NextCursor(n) \in state[n].cursor..Len(archive[n])
  BY NextCursorBounds DEF TypeOK, CursorTrue
<1>3. IsFiniteSet(S) /\ S \in SUBSET Summaries
  <2>1. Known(n) \subseteq made[n]
    BY DEF Known, SummariesListed
  <2>2. S \subseteq made[n] /\ made[n] \subseteq Summaries
    BY <2>1, CandidatesLaws DEF TypeOK
  <2> HIDE DEF S
  <2> QED BY <2>2, FS_Subset DEF SummariesListed
<1>4. all \in Nat
  BY <1>2, SelectedCardinality DEF Selected
<1>5. k \in Nat /\ (all > PageLimit => k = 0)
  <2> HIDE DEF all, S
  <2> QED BY <1>3, <1>4, SummariesKeptLaws
<1>6. s \in FirstSummaries(S, k) /\ s \in S
  BY <1>1 DEF FirstSummaries
<1>7. k > 0
  <2>1. {u \in S : LevelOrder(u, s)} \in SUBSET S
    OBVIOUS
  <2>2. Cardinality({u \in S : LevelOrder(u, s)}) \in Nat
    <3> HIDE DEF S
    <3> QED BY <1>3, <2>1, FS_Subset, FS_CardinalityType
  <2>3. Cardinality({u \in S : LevelOrder(u, s)}) < k
    BY <1>6 DEF FirstSummaries
  <2> HIDE DEF S, k
  <2> QED BY <1>5, <2>2, <2>3
<1>8. c = NextCursor(n)
  <2>1. all <= PageLimit
    BY <1>4, <1>5, <1>7, SizesAssumption
  <2>2. RecordsKept(all) = all
    BY <1>4, <2>1, RecordsAllKept
  <2> QED BY <2>2 DEF PageCursors
<1>9. ASSUME NEW m \in s.raws, m \notin PageTo(n, c).records
      PROVE  \E i \in 1..state[n].cursor : m = archive[n][i] /\ Shared(n, archive[n][i])
  <2>1. PICK i \in 1..NextCursor(n) : Shared(n, archive[n][i]) /\ m = archive[n][i]
    BY <1>6, CandidatesLaws
  <2>2. i \notin (state[n].cursor + 1)..NextCursor(n)
    BY <1>1, <1>8, <1>9, <2>1 DEF SelectedTo
  <2>3. i \in 1..state[n].cursor
    BY <1>2, <2>1, <2>2
  <2> QED BY <2>1, <2>3
<1>10. ASSUME NEW t \in s.children, t \notin state[n].sent
       PROVE  t \in PageTo(n, c).summaries /\ t.level < s.level
  <2>1. t \in S /\ t.level < s.level
    BY <1>6, <1>10, CandidatesLaws
  <2>2. t \in FirstSummaries(S, k)
    <3> HIDE DEF S, k
    <3> QED BY <1>3, <1>5, <1>6, <2>1, FirstKeepLower
  <2> QED BY <1>1, <2>1, <2>2
<1> QED BY <1>9, <1>10

(* What a page of _export_one is named after.                              *)
LEMMA NewPageBatch ==
    ASSUME NEW n \in Nodes, NEW c \in PageCursors(n)
    PROVE  PageTo(n, c).batch = IF SummaryOnly(PageTo(n, c)) THEN state[n].batches + 1 ELSE 0
BY DEF PageTo, SummaryOnly

-----------------------------------------------------------------------------
(* The list of summaries.                                                  *)

(* The list grows by one summary at a time, and what a run has read of it  *)
(* stays part of it.                                                       *)
LEMMA SummariesListedHolds == ASSUME IInv, SummariesListed, [Next]_vars PROVE SummariesListed'
<1> USE DEF IInv
<1> SUFFICES ASSUME NEW n \in Nodes
             PROVE  IsFiniteSet(made'[n]) /\ \A K \in cache'[n] : K \subseteq made'[n]
  BY DEF SummariesListed
<1>1. IsFiniteSet(made[n]) /\ \A K \in cache[n] : K \subseteq made[n]
  BY DEF SummariesListed
<1>2. n \in DOMAIN made /\ n \in DOMAIN cache
  BY DEF TypeOK
<1>3. CASE UNCHANGED <<made, cache>>
  BY <1>1, <1>3
<1>4. ASSUME NEW s \in Summaries, CommitSummary(s)
      PROVE  IsFiniteSet(made'[n]) /\ \A K \in cache'[n] : K \subseteq made'[n]
  <2>1. cache' = cache /\ (made'[n] = made[n] \/ made'[n] = made[n] \cup {s})
    BY <1>2, <1>4 DEF CommitSummary, run
  <2> QED BY <1>1, <2>1, FS_AddElement
<1>5. ASSUME NEW m \in Nodes, WritePage(m)
      PROVE  made' = made /\ \A K \in cache'[n] : K \subseteq made[n]
  <2>1. Known(n) \subseteq made[n]
    BY <1>1 DEF Known
  <2>2. cache'[n] = cache[n] \/ cache'[n] = {Known(n)}
    BY <1>2, <1>5 DEF WritePage
  <2> QED BY <1>1, <1>5, <2>1, <2>2 DEF WritePage, content
<1>6. ASSUME NEW m \in Nodes, EndSync(m) \/ Crash(m)
      PROVE  made' = made /\ cache'[n] \subseteq cache[n]
  BY <1>2, <1>6 DEF EndSync, Crash, content
<1>7. ASSUME NEW m \in Nodes, Advance(m) \/ Deliver(m), ~WritePage(m), ~EndSync(m)
      PROVE  UNCHANGED <<made, cache>>
  BY <1>7 DEF Advance, Deliver, AckSave, UnlinkPage, UnlinkAck, BeginReceive, AcceptPage,
     WriteAck, RefusePage, BeginExport, SkipExcluded, SavePage,
     CopyPage, DropPage, CopyAck, DropAck, content, run
<1>8. ASSUME NEW m \in Nodes, NEW c \in Excludable, Exclude(m, c) PROVE UNCHANGED <<made, cache>>
  BY <1>8 DEF Exclude, run
<1>9. ASSUME NEW m \in Messages, AppendRecord(m) PROVE UNCHANGED <<made, cache>>
  BY <1>9 DEF AppendRecord, run
<1>10. CASE UNCHANGED vars
  BY <1>3, <1>10 DEF vars, content, run
<1> QED BY <1>1, <1>3, <1>4, <1>5, <1>6, <1>7, <1>8, <1>9, <1>10 DEF Next

-----------------------------------------------------------------------------
(* The queue.                                                              *)

(* The sender removes a page only when the peer has committed it.          *)
LEMMA PagesStay ==
    ASSUME IInv, [Next]_vars, NEW n \in Nodes, NEW p \in outS[n], p \notin replica[Peer(n)].batches
    PROVE  p \in outS'[n]
<1> USE DEF IInv
<1>0. n \in DOMAIN outS
  BY DEF TypeOK
<1>1. CASE UNCHANGED outS
  BY <1>1
<1>2. ASSUME NEW m \in Nodes, UnlinkPage(m) PROVE p \in outS'[n]
  <2>1. at[m] \subseteq replica[Peer(m)].batches
    BY <1>2 DEF UnlinkPage, AcksTrue
  <2> QED BY <1>0, <1>2, <2>1 DEF UnlinkPage
<1>3. ASSUME NEW m \in Nodes, WritePage(m) PROVE p \in outS'[n]
  BY <1>0, <1>3 DEF WritePage
<1>4. ASSUME NEW m \in Nodes, Advance(m) \/ Crash(m) \/ Deliver(m), ~UnlinkPage(m), ~WritePage(m)
      PROVE  UNCHANGED outS
  BY <1>4 DEF Advance, Crash, Deliver, AckSave, UnlinkAck, BeginReceive, AcceptPage,
     WriteAck, RefusePage, BeginExport, SkipExcluded, SavePage, EndSync,
     CopyPage, DropPage, CopyAck, DropAck, folder
<1>5. ASSUME NEW m \in Nodes, NEW c \in Excludable, Exclude(m, c) PROVE UNCHANGED outS
  BY <1>5 DEF Exclude, folder
<1>6. ASSUME NEW s \in Summaries, CommitSummary(s) PROVE UNCHANGED outS
  BY <1>6 DEF CommitSummary, folder
<1>7. ASSUME NEW m \in Messages, AppendRecord(m) PROVE UNCHANGED outS
  BY <1>7 DEF AppendRecord, folder
<1>8. CASE UNCHANGED vars
  BY <1>8 DEF vars, folder
<1> QED BY <1>1, <1>2, <1>3, <1>4, <1>5, <1>6, <1>7, <1>8 DEF Next, Advance

(* A page of the sender was one before, or WritePage makes it.             *)
LEMMA WrittenStep ==
    ASSUME IInv, [Next]_vars, NEW n \in Nodes, NEW p \in Written(n)', p \notin replica'[Peer(n)].batches
    PROVE  \/ p \in Written(n) /\ p \notin replica[Peer(n)].batches
           \/ /\ WritePage(n) /\ Saving(n) = {} /\ p \in Saving(n)' /\ p \in outS'[n]
              /\ \E c \in PageCursors(n) : p = PageTo(n, c)
<1> USE DEF IInv
<1>1. p \notin replica[Peer(n)].batches
  BY PeerLaws, ReplicaGrows
<1>2. CASE p \in state'[n].pending
  <2>1. state'[n].pending \subseteq state[n].pending \cup Saving(n)
    <3>1. SavePage(n) => at[n] = Saving(n)
      BY DEF SavePage, Saving
    <3> QED BY <3>1, StateStep
  <2> QED BY <1>1, <1>2, <2>1 DEF Written, Sent
<1>3. CASE p \in Saving(n)'
  <2>1. CASE p \in Saving(n)
    BY <1>1, <2>1 DEF Written
  <2>2. CASE p \notin Saving(n)
    <3>1. WritePage(n) /\ Saving(n) = {} /\ \E c \in PageCursors(n) : Saving(n)' = {PageTo(n, c)}
      BY <1>3, <2>2, SavingStep
    <3>2. Saving(n)' \subseteq outS'[n]
      <4>1. PICK c \in PageCursors(n) : /\ outS' = [outS EXCEPT ![n] = @ \cup {PageTo(n, c)}]
                                        /\ at' = [at EXCEPT ![n] = {PageTo(n, c)}]
        BY <3>1 DEF WritePage
      <4>2. at'[n] \subseteq outS'[n]
        BY <4>1 DEF TypeOK
      <4> QED BY <4>2 DEF Saving
    <3> QED BY <1>3, <3>1, <3>2
  <2> QED BY <2>1, <2>2
<1> QED BY <1>2, <1>3 DEF Written, Sent

(* No page is lost, no number is skipped.                                  *)
LEMMA QueueWholeHolds == ASSUME IInv, QueueWhole, [Next]_vars PROVE QueueWhole'
<1> USE DEF IInv
<1> SUFFICES ASSUME NEW n \in Nodes
             PROVE  /\ (Written(n) \ replica[Peer(n)].batches)' \subseteq outS'[n]
                    /\ \A k \in 1..state'[n].published : \E q \in Sent(n)' : q.from <= k /\ k <= q.to
                    /\ replica'[n].head = 0
                       \/ \E q \in replica'[n].batches : ~SummaryOnly(q) /\ q.to = replica'[n].head
  BY DEF QueueWhole
<1>1. Peer(n)' = Peer(n)
  BY DEF Peer
<1>2. ASSUME NEW p \in Written(n)', p \notin replica'[Peer(n)].batches PROVE p \in outS'[n]
  <2>1. CASE p \in Written(n) /\ p \notin replica[Peer(n)].batches
    BY <2>1, PagesStay DEF QueueWhole
  <2> QED BY <1>2, <2>1, WrittenStep
<1>3. ASSUME NEW k \in 1..state'[n].published PROVE \E q \in Sent(n)' : q.from <= k /\ k <= q.to
  <2>0. state[n].published \in Nat
    BY DEF TypeOK
  <2>1. CASE k \in 1..state[n].published
    BY <2>1, SentGrows DEF QueueWhole
  <2>2. CASE k \notin 1..state[n].published
    <3>1. state'[n].published # state[n].published
      BY <1>3, <2>2
    <3>2. PICK p \in at[n] : SavePage(n) /\ state'[n].published = p.to
                             /\ state'[n].pending = state[n].pending \cup {p}
      BY <3>1, StateStep
    <3>3. p \in Saving(n)
      BY <3>2 DEF SavePage, Saving
    <3>4. p.from = state[n].published + 1 /\ p \in Page
      BY <3>3 DEF CursorTrue, Saving, TypeOK
    <3>5. p.to \in Nat
      BY <3>4 DEF Page
    <3>6. p.from <= k /\ k <= p.to
      BY <1>3, <2>0, <2>2, <3>2, <3>4, <3>5
    <3> QED BY <3>2, <3>6 DEF Sent
  <2> QED BY <2>1, <2>2
<1>4. replica'[n].head = 0
      \/ \E q \in replica'[n].batches : ~SummaryOnly(q) /\ q.to = replica'[n].head
  <2>1. CASE replica'[n].head = replica[n].head
    BY <2>1, ReplicaGrows DEF QueueWhole
  <2>2. CASE replica'[n].head # replica[n].head
    <3>1. AcceptPage(n)
      BY <2>2, ReplicaStep
    <3> DEFINE a == Head(queue[n])
    <3>2. /\ replica'[n] = [head      |-> IF SummaryOnly(a) THEN replica[n].head ELSE a.to,
                            batches   |-> replica[n].batches \cup {a},
                            records   |-> replica[n].records \cup a.records,
                            summaries |-> replica[n].summaries \cup a.summaries]
          /\ a \in replica'[n].batches
      BY <2>2, <3>1, AcceptedPage
    <3> HIDE DEF a
    <3> QED BY <2>2, <3>2
  <2> QED BY <2>1, <2>2
<1> QED BY <1>1, <1>2, <1>3, <1>4

-----------------------------------------------------------------------------
(* The order of the pages.                                                 *)

(* The page that is written now is named after all the others.             *)
LEMMA NamedLast ==
    ASSUME IInv, NEW n \in Nodes, Chain(n), SummaryPagesNumbered(n), Saving(n) = {},
           NEW c \in PageCursors(n), NEW q \in Written(n)
    PROVE  NamedBefore(q, PageTo(n, c))
<1> USE DEF IInv
<1> DEFINE p == PageTo(n, c)
<1>1. p \in Page /\ Numbered(p) /\ p.from = state[n].published + 1
  BY NewPage
<1>2. p.batch = IF SummaryOnly(p) THEN state[n].batches + 1 ELSE 0
  BY NewPageBatch
<1>3. q \in Page /\ Numbered(q)
  BY PeerLaws DEF Written, Sent, Saving, Files, PagesGood, TypeOK
<1>4. q.to <= state[n].published /\ q.batch <= state[n].batches
  BY DEF Chain, SummaryPagesNumbered
<1>5. /\ state[n].published \in Nat /\ state[n].batches \in Nat
      /\ q.from \in Nat /\ q.to \in Nat /\ q.batch \in Nat
      /\ p.from \in Nat /\ p.to \in Nat /\ p.batch \in Nat
  BY <1>1, <1>3 DEF TypeOK, Page
<1> SUFFICES NamedBefore(q, p)
  OBVIOUS
<1> HIDE DEF p
<1>6. CASE ~SummaryOnly(q)
  BY <1>1, <1>3, <1>4, <1>5, <1>6 DEF Numbered, NamedBefore
<1>7. CASE SummaryOnly(q) /\ ~SummaryOnly(p)
  BY <1>1, <1>3, <1>4, <1>5, <1>7 DEF Numbered, NamedBefore, Rank
<1>8. CASE SummaryOnly(q) /\ SummaryOnly(p)
  BY <1>1, <1>2, <1>3, <1>4, <1>5, <1>8 DEF Numbered, NamedBefore, Rank
<1> QED BY <1>6, <1>7, <1>8

(* Until the first crash every step keeps the order.                       *)
LEMMA InOrderHolds == ASSUME IInv, QInv, [Next]_vars PROVE InOrder'
<1> USE DEF IInv, QInv
<1> SUFFICES ASSUME crashes' = 0, NEW n \in Nodes
             PROVE  SummaryPagesNumbered(n)' /\ \A p \in Written(n)' : Sourced(n, p)'
  BY DEF InOrder
<1>1. crashes = 0 /\ Chain(n) /\ SummaryPagesNumbered(n) /\ \A p \in Written(n) : Sourced(n, p)
  BY CrashesGrow DEF Chained, InOrder
<1>2. Written(n) \subseteq Written(n)'
  BY WrittenGrows
<1>3. ASSUME NEW p \in Written(n)', p \notin Written(n)
      PROVE  /\ WritePage(n) /\ Saving(n) = {} /\ p \in Saving(n)'
             /\ \E c \in PageCursors(n) : p = PageTo(n, c)
  <2>1. p \notin replica'[Peer(n)].batches
    <3>1. replica'[Peer(n)].batches \subseteq replica[Peer(n)].batches \cup outR[n]
      BY PeerLaws, ReplicaGrows
    <3>2. replica[Peer(n)].batches \cup outR[n] \subseteq Written(n)
      BY <1>1 DEF Chain, Written, Sent
    <3> QED BY <1>3, <3>1, <3>2
  <2> QED BY <1>3, <2>1, WrittenStep
<1>4. state[n].batches \in Nat /\ state'[n].batches \in Nat /\ \A p \in Written(n)' : p.batch \in Nat
  <2>1. TypeOK'
    BY TypeHolds
  <2>2. state[n].batches \in Nat /\ state'[n].batches \in Nat
    BY <2>1 DEF TypeOK
  <2>3. Written(n)' \subseteq Page
    <3>1. Peer(n)' = Peer(n) /\ Peer(n) \in Nodes
      BY PeerLaws DEF Peer
    <3>2. state'[n].pending \subseteq Page /\ replica'[Peer(n)].batches \subseteq Page /\ at'[n] \subseteq Page
      BY <2>1, <3>1 DEF TypeOK
    <3> QED BY <3>1, <3>2 DEF Written, Sent, Saving
  <2> QED BY <2>2, <2>3 DEF Page
<1>5. ASSUME NEW p \in Written(n)', p \notin Written(n)
      PROVE  /\ p.batch = IF SummaryOnly(p) THEN state[n].batches + 1 ELSE 0
             /\ state' = state
             /\ \A q \in Written(n) : q.batch <= state[n].batches /\ NamedBefore(q, p)
             /\ \A q \in Written(n)' : q \notin Written(n) => q = p
  <2>1. PICK c \in PageCursors(n) : WritePage(n) /\ Saving(n) = {} /\ p \in Saving(n)' /\ p = PageTo(n, c)
    BY <1>3, <1>5
  <2>2. \A q \in Written(n) : q.batch <= state[n].batches
    BY <1>1, <2>1 DEF SummaryPagesNumbered
  <2>3. \A q \in Written(n) : NamedBefore(q, p)
    BY <1>1, <2>1, NamedLast
  <2>4. ASSUME NEW q \in Written(n)', q \notin Written(n) PROVE q = p
    <3>1. q \in Saving(n)' /\ p \in Saving(n)' /\ Saving(n) = {}
      BY <1>3, <2>1, <2>4
    <3> QED BY <3>1, SavingStep
  <2>5. p.batch = IF SummaryOnly(p) THEN state[n].batches + 1 ELSE 0
    BY <2>1, NewPageBatch
  <2> QED BY <2>1, <2>2, <2>3, <2>4, <2>5 DEF WritePage
<1>6. \A p, q \in Written(n)' :
          SummaryOnly(p) /\ SummaryOnly(q) /\ p.batch = q.batch => p = q
  <2> SUFFICES ASSUME NEW p \in Written(n)', NEW q \in Written(n)',
                      SummaryOnly(p), SummaryOnly(q), p.batch = q.batch
               PROVE  p = q
    OBVIOUS
  <2>1. CASE p \in Written(n) /\ q \in Written(n)
    BY <1>1, <2>1 DEF SummaryPagesNumbered
  <2>2. CASE p \notin Written(n)
    BY <1>4, <1>5, <2>2
  <2>3. CASE q \notin Written(n)
    BY <1>4, <1>5, <2>3
  <2> QED BY <2>1, <2>2, <2>3
<1>7. \A p \in Written(n)' : \/ p.batch <= state'[n].batches
                             \/ p \in Saving(n)' /\ p.batch = state'[n].batches + 1
  <2> SUFFICES ASSUME NEW p \in Written(n)'
               PROVE  \/ p.batch <= state'[n].batches
                      \/ p \in Saving(n)' /\ p.batch = state'[n].batches + 1
    OBVIOUS
  <2>1. CASE p \notin Written(n)
    BY <1>3, <1>4, <1>5, <2>1
  <2>2. ASSUME SavePage(n)
        PROVE  \E q \in Saving(n) :
                  state'[n].batches = IF SummaryOnly(q) THEN state[n].batches + 1 ELSE state[n].batches
    <3>1. PICK q \in at[n] : state' = [state EXCEPT ![n] =
           [cursor    |-> q.source[2], published |-> q.to, acked     |-> @.acked,
            pending   |-> @.pending \cup {q}, sent      |-> @.sent \cup q.summaries,
            batches   |-> IF SummaryOnly(q) THEN @.batches + 1 ELSE @.batches]]
      BY <2>2 DEF SavePage
    <3>2. state'[n].batches = IF SummaryOnly(q) THEN state[n].batches + 1 ELSE state[n].batches
      BY <3>1 DEF TypeOK
    <3>3. q \in Saving(n)
      BY <2>2 DEF SavePage, Saving
    <3> QED BY <3>2, <3>3
  <2>3. ~SavePage(n) => state'[n].batches = state[n].batches
    <3>1. CASE state'[n] = [state[n] EXCEPT !.cursor = NextCursor(n)]
      BY <3>1 DEF TypeOK
    <3>2. CASE \E q \in ackS[n] \cap state[n].pending :
                  state'[n] = [cursor    |-> state[n].cursor,
                               published |-> state[n].published,
                               acked     |-> Larger(state[n].acked, q.to),
                               pending   |-> state[n].pending \ {q},
                               sent      |-> state[n].sent,
                               batches   |-> state[n].batches]
      BY <3>2
    <3> QED BY <3>1, <3>2, StateRecordStep
  <2>4. CASE p \in Written(n) /\ p.batch <= state[n].batches
    BY <1>4, <2>2, <2>3, <2>4
  <2>5. CASE p \in Saving(n) /\ p.batch = state[n].batches + 1
    <3>1. CASE SavePage(n)
      <4>1. PICK q \in Saving(n) :
                state'[n].batches = IF SummaryOnly(q) THEN state[n].batches + 1 ELSE state[n].batches
        BY <2>2, <3>1
      <4>2. q = p
        BY <1>1, <2>5 DEF Chain
      <4>3. SummaryOnly(p)
        BY <1>1, <1>4, <2>5 DEF SummaryPagesNumbered, Written
      <4> QED BY <1>4, <2>5, <4>1, <4>2, <4>3
    <3>2. CASE ~SavePage(n)
      <4>1. Saving(n)' = Saving(n)
        BY <2>5, <3>2, SavingStep
      <4> QED BY <2>3, <2>5, <3>2, <4>1
    <3> QED BY <3>1, <3>2
  <2> QED BY <1>1, <2>1, <2>4, <2>5 DEF SummaryPagesNumbered
<1>8. \A p \in Written(n)' : SummaryOnly(p) \/ p.batch = 0
  BY <1>1, <1>5 DEF SummaryPagesNumbered
<1>9. ASSUME NEW p \in Written(n)' PROVE Sourced(n, p)'
  <2>1. CASE p \in Written(n)
    BY <1>1, <1>2, <2>1 DEF Sourced
  <2>2. CASE p \notin Written(n)
    <3>1. PICK c \in PageCursors(n) : p = PageTo(n, c)
      BY <1>3, <2>2
    <3>2. \A q \in Sent(n) : q \in Written(n)' /\ NamedBefore(q, p)
      BY <1>2, <1>5, <2>2 DEF Written
    <3>3. ASSUME NEW s \in p.summaries, NEW m \in s.raws
          PROVE  m \in p.records \/ \E q \in Written(n)' : NamedBefore(q, p) /\ m \in q.records
      <4>1. CASE m \in p.records
        BY <4>1
      <4>2. CASE \E i \in 1..state[n].cursor : m = archive[n][i] /\ Shared(n, archive[n][i])
        <5>1. \E q \in Sent(n) : m \in q.records
          BY <4>2 DEF CursorTrue
        <5> QED BY <3>2, <5>1
      <4> QED BY <3>1, <3>3, <4>1, <4>2, NewPageSources
    <3>4. ASSUME NEW s \in p.summaries, NEW t \in s.children
          PROVE  \/ t \in p.summaries /\ t.level < s.level
                 \/ \E q \in Written(n)' : NamedBefore(q, p) /\ t \in q.summaries
      <4>1. CASE t \in p.summaries /\ t.level < s.level
        BY <4>1
      <4>2. CASE t \in state[n].sent
        <5>1. \E q \in Sent(n) : t \in q.summaries
          BY <4>2 DEF CursorTrue
        <5> QED BY <3>2, <5>1
      <4> QED BY <3>1, <3>4, <4>1, <4>2, NewPageSources
    <3> QED BY <3>3, <3>4 DEF Sourced
  <2> QED BY <2>1, <2>2
<1> QED BY <1>6, <1>7, <1>8, <1>9 DEF SummaryPagesNumbered

(* At the start there is no page.                                          *)
LEMMA QueueInitHolds == Init => QInv
<1> SUFFICES ASSUME Init PROVE QInv
  OBVIOUS
<1>1. \A n \in Nodes : Written(n) = {} /\ Sent(n) = {} /\ Saving(n) = {}
  BY PeerLaws DEF Init, Written, Sent, Saving
<1>2. SummariesListed
  BY FS_EmptySet DEF Init, SummariesListed
<1>3. QueueWhole
  BY <1>1 DEF Init, QueueWhole
<1>4. InOrder
  BY <1>1 DEF InOrder, SummaryPagesNumbered
<1> QED BY <1>2, <1>3, <1>4 DEF QInv

(* What is known of the queue holds in every reachable state.              *)
THEOREM QueueInductive == Spec => []QInv
<1>1. IInv /\ QInv /\ [Next]_vars => QInv'
  BY SummariesListedHolds, QueueWholeHolds, InOrderHolds DEF QInv
<1> QED BY <1>1, QueueInitHolds, Inductive, PTL DEF Spec

(* HeadOfQueueAcceptable: until the first crash, the page that is named    *)
(* first among those the peer has not committed is one that it takes. Its  *)
(* key is new, as pages of records do not overlap and pages of summaries   *)
(* are numbered; were its number not the next, a page with a number in     *)
(* between would be named before; and what its summaries rest on is in     *)
(* pages that are named before, which are committed.                       *)
THEOREM HeadOfQueueAcceptableHolds == Spec => [](crashes = 0 => HeadOfQueueAcceptable)
<1>1. IInv /\ QInv => (crashes = 0 => HeadOfQueueAcceptable)
  <2> SUFFICES ASSUME IInv, QInv, crashes = 0, NEW d \in Nodes, NEW p \in Undelivered(d),
                      \A q \in Undelivered(d) : ~NamedBefore(q, p)
               PROVE  Acceptable(replica[Peer(d)], p)
    BY DEF HeadOfQueueAcceptable
  <2> USE DEF IInv, QInv
  <2> DEFINE r == replica[Peer(d)]
  <2>1. Chain(d) /\ SummaryPagesNumbered(d) /\ \A q \in Written(d) : Sourced(d, q)
    BY DEF Chained, InOrder
  <2>2. \A q \in Written(d) : q \in Page /\ Numbered(q)
    BY PeerLaws DEF Written, Sent, Saving, Files, PagesGood, TypeOK
  <2>3. p \in Written(d) /\ p \notin r.batches
    BY <2>1 DEF Undelivered, Chain
  <2>4. /\ r.head \in Nat /\ state[d].published \in Nat
        /\ r.batches \subseteq Written(d)
        /\ \A q \in r.batches : q.to <= r.head /\ q.records \subseteq r.records /\ q.summaries \subseteq r.summaries
    BY PeerLaws DEF TypeOK, Written, Sent, IndexTrue
  <2>5. ASSUME NEW q \in Written(d), NamedBefore(q, p) PROVE q \in r.batches
    BY <2>5 DEF QueueWhole, Undelivered
  <2>6. /\ p.from \in Nat /\ p.from > 0 /\ p.to \in Nat /\ p.batch \in Nat
        /\ Numbered(p) /\ \A q \in Written(d) : q.from \in Nat /\ q.to \in Nat /\ q.batch \in Nat
    BY <2>2, <2>3 DEF Page
  <2>7. p.from <= state[d].published + 1
    <3>1. CASE p \in Saving(d)
      BY <2>4, <2>6, <3>1 DEF CursorTrue
    <3>2. CASE p.to <= state[d].published
      BY <2>4, <2>6, <3>2 DEF Numbered
    <3> QED BY <2>1, <2>3, <3>1, <3>2 DEF Chain
  <2>8. p.from <= r.head + 1
    <3> SUFFICES ASSUME r.head + 1 < p.from PROVE FALSE
      BY <2>4, <2>6
    <3>1. r.head + 1 \in 1..state[d].published
      BY <2>4, <2>6, <2>7
    <3>2. PICK q \in Sent(d) : q.from <= r.head + 1 /\ r.head + 1 <= q.to
      BY <3>1 DEF QueueWhole
    <3>3. q \in Written(d) /\ q.from < p.from /\ ~(q.to <= r.head)
      BY <2>4, <2>6, <3>2 DEF Written
    <3>4. q \in r.batches
      BY <2>5, <3>3 DEF NamedBefore
    <3> QED BY <2>4, <3>3, <3>4
  <2> HIDE DEF r
  <2>9. ASSUME ~SummaryOnly(p) PROVE p.from = r.head + 1
    <3>1. p.from <= p.to /\ ~(p.to <= r.head)
      BY <2>1, <2>3, <2>6, <2>9 DEF Numbered, Chain, r
    <3>2. ASSUME p.from <= r.head PROVE FALSE
      <4>1. PICK b \in r.batches : ~SummaryOnly(b) /\ b.to = r.head
        BY <2>4, <2>6, <3>2, PeerLaws DEF QueueWhole, r
      <4>2. b \in Written(d) /\ b.from <= b.to
        BY <2>2, <2>4, <4>1 DEF Numbered
      <4>3. p = b \/ p.to < b.from \/ b.to < p.from
        BY <2>1, <2>3, <2>9, <4>1, <4>2 DEF Chain
      <4> QED BY <2>3, <2>4, <2>6, <3>1, <3>2, <4>1, <4>2, <4>3
    <3> QED BY <2>4, <2>6, <2>8, <3>2
  <2>10. Continues(r, p)
    BY <2>4, <2>6, <2>8, <2>9 DEF Continues, Numbered
  <2>11. ASSUME NEW q \in r.batches, SameKey(p, q) PROVE FALSE
    <3>1. q \in Written(d) /\ Numbered(q) /\ q # p
      BY <2>2, <2>3, <2>4
    <3>2. SummaryOnly(p) <=> SummaryOnly(q)
      BY <2>6, <2>11, <3>1 DEF SameKey, Numbered
    <3>3. CASE SummaryOnly(p)
      BY <2>1, <2>3, <2>11, <3>1, <3>2, <3>3 DEF SameKey, SummaryPagesNumbered
    <3>4. CASE ~SummaryOnly(p)
      <4>1. p.to < q.from \/ q.to < p.from
        BY <2>1, <2>3, <3>1, <3>2, <3>4 DEF Chain
      <4> QED BY <2>6, <2>11, <3>1, <3>4, <4>1 DEF SameKey, Numbered
    <3> QED BY <3>3, <3>4
  <2>12. SourcesPresent(r, p)
    <3> SUFFICES ASSUME NEW s \in p.summaries
                 PROVE  /\ s.raws \subseteq r.records \cup p.records
                        /\ s.children \subseteq r.summaries \cup {c \in p.summaries : c.level < s.level}
      BY DEF SourcesPresent
    <3>1. Sourced(d, p)
      BY <2>1, <2>3
    <3>2. s.raws \subseteq r.records \cup p.records
      BY <2>4, <2>5, <3>1 DEF Sourced
    <3>3. s.children \subseteq r.summaries \cup {c \in p.summaries : c.level < s.level}
      BY <2>4, <2>5, <3>1 DEF Sourced
    <3> QED BY <3>2, <3>3
  <2> QED BY <2>10, <2>11, <2>12 DEF Acceptable, SameKey, r
<1> QED BY <1>1, Inductive, QueueInductive, PTL

=============================================================================
