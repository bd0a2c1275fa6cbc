----------------------------- MODULE AppendLog ------------------------------
(***************************************************************************)
(* What the archive promises to its callers: one append-only log of raw    *)
(* messages, in which an append is a single indivisible step.  The log     *)
(* forgets journals, torn files, locks and crashes; ArchiveStore is shown  *)
(* to implement it.                                                        *)
(***************************************************************************)
EXTENDS Rounds, Sequences

CONSTANTS
    Convs,      (* conversations                                           *)
    Messages    (* what callers may append: [id, conv, kind, body]         *)

VARIABLES
    log,        (* the committed records, in sequence order                *)
    rounds      (* the round counters of each conversation                 *)

vars == <<log, rounds>>

ASSUME MessagesAssumption ==
    \A m \in Messages : m.conv \in Convs /\ m.kind \in Kinds

(* The record that a message becomes at a place of the log.                *)
Entry(m, sequence, c) ==
    [msg       |-> m,
     sequence  |-> sequence,
     round     |-> RoundOf(m.kind, c),
     completes |-> Completes(m.kind, c)]

Entries == [msg : Messages, sequence : Nat \ {0}, round : Nat, completes : BOOLEAN]

Ids(entries) == {entries[i].msg.id : i \in DOMAIN entries}

Init ==
    /\ log = <<>>
    /\ rounds = [c \in Convs |-> FreshCounters]

AppendMessage(m) ==
    /\ m.id \notin Ids(log)
    /\ log' = Append(log, Entry(m, Len(log) + 1, rounds[m.conv]))
    /\ rounds' = [rounds EXCEPT ![m.conv] = CountersAfter(m.kind, @)]

Next == \E m \in Messages : AppendMessage(m)

Spec == Init /\ [][Next]_vars

-----------------------------------------------------------------------------

TypeOK ==
    /\ log \in Seq(Entries)
    /\ rounds \in [Convs -> Counters]

SameConversation(i, j) == log[i].msg.conv = log[j].msg.conv

(* A completed round is closed: no later record of the conversation joins  *)
(* it.  SummaryService selects whole completed rounds and never looks at   *)
(* one again once it is covered, so a record that joined late would be     *)
(* missing from every summary.                                             *)
RoundsClosed ==
    \A i, j \in DOMAIN log :
        (i < j /\ SameConversation(i, j) /\ log[i].completes)
            => log[j].round # log[i].round

(* Within a conversation, round numbers never go back: the order of the    *)
(* rounds is the order of their messages, which is how SummaryService      *)
(* groups them.                                                            *)
RoundsMonotone ==
    \A i, j \in DOMAIN log :
        (i < j /\ SameConversation(i, j)
               /\ log[i].round # NoRound /\ log[j].round # NoRound)
            => log[i].round <= log[j].round

(* Every record that has a round stands at or after a user message of the  *)
(* same round: tools and answers are never numbered into a round that no   *)
(* user opened.                                                            *)
RoundsOpenWithUser ==
    \A j \in DOMAIN log :
        log[j].round # NoRound =>
            \E i \in DOMAIN log :
                /\ i <= j /\ SameConversation(i, j)
                /\ log[i].round = log[j].round /\ log[i].msg.kind = "user"

=============================================================================
