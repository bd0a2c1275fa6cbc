------------------------------ MODULE MCBackup ------------------------------
(* Two native files: the first has two blocks of one ID with different     *)
(* contents and rounds that go back, and one of them is the session's      *)
(* message too; the second has a sub-agent's block and a broken one.       *)
EXTENDS Backup

CONSTANTS c1, c2

Message(id, conv, kind, body) == [id |-> id, conv |-> conv, kind |-> kind, body |-> body]

Block(m, n) == [msg |-> m, round |-> n]

MCSource ==
    << <<Block(Message(1, c1, "user", "a"), 2), Block(Message(1, c1, "user", "b"), 1)>>,
       <<Block(Message(2, c2, "user", "a"), 1), Bad>> >>

MCLines == <<Message(1, c1, "user", "a"), Message(3, c1, "final", "a")>>

MCConvs == {c1, c2}

MCEvents == <<"record", "summary", "record">>

(* In one behaviour: blocks begun at most, lines captured, events          *)
(* produced, processes killed, restores, and whether backups are made.     *)
Load(blocks, lines, events, crash, restore, backing) ==
    [blocks |-> blocks, captured |-> lines, produced |-> events,
     crash |-> crash, restore |-> restore, backup |-> backing]

MCLoads ==
    {Load(4, 1, 0, 1, 0, FALSE), Load(2, 0, 0, 0, 1, TRUE),
     Load(1, 0, 0, 1, 1, TRUE), Load(0, 1, 0, 1, 1, TRUE), Load(0, 0, 3, 1, 1, TRUE)}

=============================================================================
