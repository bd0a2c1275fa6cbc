---------------------------- MODULE MCCollector -----------------------------
(* Two files of one session, which share the message "a" (the second is    *)
(* the stream of the resumed session, and counts its tokens anew when it   *)
(* is resumed again); the first has a message that raises, the second one  *)
(* with the ID "a" again and a garbled line.  A watcher visits any file at *)
(* any time, so that it stands for a second run of the collector as well.  *)
EXTENDS Collector, TLC

CONSTANTS f1, f2, c1, w1, w2

MCWalk == <<f1, f2>>
MCConvs == {c1}

Message(id, kind) == [id |-> id, conv |-> c1, kind |-> kind, body |-> id]

Tokens(n) == [tokens |-> n]

MCScript ==
    (f1 :> <<Message("a", "user"), Poison, Message("c", "final")>>)
 @@ (f2 :> <<Tokens(2), Message("a", "user"), Message("d", "final"), Tokens(1),
             Message("a", "tool"), Garbled>>)

=============================================================================
