------------------------------ MODULE Exchange ------------------------------
(***************************************************************************)
(* core/exchange.py: signed pages of one archive for another, without the  *)
(* shared folder and the ACKs of core sync.  A page is exported after any  *)
(* number that the caller names, with every summary there is; pages are    *)
(* files that arrive in any order, late and again.  The receiver merges a  *)
(* page into its replica (ArchiveStore.import_peer) and then moves its     *)
(* cursor, under a lock of the cursor that admits one page at a time.      *)
(***************************************************************************)
EXTENDS Naturals, Sequences, FiniteSetsExt

CONSTANT
    Events          (* what the sender archives: "record" or "summary"     *)

VARIABLES
    produced,       (* the events so far                                   *)
    replica,        (* replicas/<origin>.json: [records, summaries]        *)
    peerCursor,     (* .exchange-peer-cursors.json                         *)
    receiving,      (* {} or {[page, imported]}                            *)
    lock            (* the receiver's .archive.lock                        *)

received == <<replica, peerCursor, receiving>>

Init ==
    /\ produced = 0
    /\ replica = [records |-> {}, summaries |-> {}]
    /\ peerCursor = 0
    /\ receiving = {}

Produce ==
    /\ produced < Len(Events)
    /\ produced' = produced + 1
    /\ UNCHANGED <<received, lock>>

(* The sender's sequence after t events.                                   *)
RecordsAt(t) == Cardinality({i \in 1..t : Events[i] = "record"})

(* A summary rests on records from before it.                              *)
Raw(s) == 1..RecordsAt(s)

(* Two events pass between the reading of the records and the summaries.   *)
PageOfTwoMoments(t, k) ==
    [from      |-> k + 1,
     to        |-> RecordsAt(Max({0, t - 2})),
     summaries |-> {s \in 1..t : Events[s] = "summary"}]

(* export(k) at time t: one snapshot, under the sender's lock.             *)
Page(t, k) ==
    [from      |-> k + 1,
     to        |-> RecordsAt(t),
     summaries |-> {s \in 1..t : Events[s] = "summary"}]

(* What may arrive: any page of any moment.                                *)
Exported == {Page(t, k) : t \in 0..produced, k \in 0..RecordsAt(produced)}

Records(page) == page.from..page.to

(* Only the next page goes on; an older one is answered "duplicate" or     *)
(* refused, which changes nothing.                                         *)
BeginReceive(page) ==
    /\ receiving = {}
    /\ page.from = peerCursor + 1 /\ page.to >= peerCursor
    /\ receiving' = {[page |-> page, imported |-> FALSE]}
    /\ UNCHANGED <<produced, replica, peerCursor, lock>>

(* import_peer raises for a summary whose messages are not there.          *)
Acceptable(page) ==
    \A s \in page.summaries : Raw(s) \subseteq replica.records \cup Records(page)

ImportPage ==
    /\ lock = "free"
    /\ \E r \in receiving :
        /\ ~r.imported /\ Acceptable(r.page)
        /\ replica' = [records   |-> replica.records \cup Records(r.page),
                       summaries |-> replica.summaries \cup r.page.summaries]
        /\ receiving' = {[page |-> r.page, imported |-> TRUE]}
    /\ UNCHANGED <<produced, peerCursor, lock>>

SaveCursorBeforeImport ==
    /\ \E r \in receiving :
        /\ peerCursor # r.page.to
        /\ peerCursor' = r.page.to
    /\ UNCHANGED <<produced, replica, receiving, lock>>

SaveCursor ==
    /\ \E r \in receiving :
        /\ r.imported
        /\ peerCursor' = r.page.to
    /\ receiving' = {}
    /\ UNCHANGED <<produced, replica, lock>>

ReceiverDies ==
    /\ receiving # {} /\ receiving' = {}
    /\ UNCHANGED <<produced, replica, peerCursor, lock>>

=============================================================================
