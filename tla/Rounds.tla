------------------------------- MODULE Rounds -------------------------------
(***************************************************************************)
(* The round numbering that ArchiveStore.append_message gives to each      *)
(* message of a conversation (core/archive.py).  A round opens with the    *)
(* first user message, collects the messages that follow it and closes     *)
(* with the assistant's final answer.  The counters of a conversation are  *)
(* one row of the SQLite table "rounds".                                   *)
(***************************************************************************)
EXTENDS Naturals

(* What a caller hands to append_message, as far as numbering can tell it  *)
(* apart: the speaker, with the assistant split by complete_round.         *)
Kinds == {"user", "assistant", "final", "tool", "system"}

NoRound == 0

Counters == [next : Nat \ {0}, pending : Nat]

(* A conversation with no row in "rounds".                                 *)
FreshCounters == [next |-> 1, pending |-> NoRound]

Opens(kind, c) == kind = "user" /\ c.pending = NoRound

(* The round that is open once this message has been counted.              *)
OpenRound(kind, c) == IF Opens(kind, c) THEN c.next ELSE c.pending

RoundOf(kind, c) == IF kind = "system" THEN NoRound ELSE OpenRound(kind, c)

Completes(kind, c) == kind = "final" /\ OpenRound(kind, c) # NoRound

(* A variant with a mistake, for trying the properties: an answer does not *)
(* close its round.                                                        *)
CountersAfterLeavingOpen(kind, c) ==
    [next    |-> IF Opens(kind, c) THEN c.next + 1 ELSE c.next,
     pending |-> OpenRound(kind, c)]

CountersAfter(kind, c) ==
    [next    |-> IF Opens(kind, c) THEN c.next + 1 ELSE c.next,
     pending |-> IF Completes(kind, c) THEN NoRound ELSE OpenRound(kind, c)]

=============================================================================
