--------------------------- MODULE MCArchiveStore ---------------------------
(* Two conversations; the second message repeats the ID of the first with  *)
(* other content, the third closes the round that the first opens, and the *)
(* fourth may come before, inside or after that round.                     *)
EXTENDS ArchiveStore

CONSTANTS c1, c2, w1, w2

MCConvs == {c1, c2}

MCMessages ==
    {[id |-> 1, conv |-> c1, kind |-> "user",  body |-> "a"],
     [id |-> 1, conv |-> c2, kind |-> "user",  body |-> "b"],
     [id |-> 2, conv |-> c1, kind |-> "final", body |-> "a"],
     [id |-> 3, conv |-> c1, kind |-> "tool",  body |-> "a"]}
=============================================================================
