--------------------------- MODULE MCChangedFiles ----------------------------
(* Three files; the revisions share one of them, and one file may be there *)
(* from the beginning.                                                     *)
EXTENDS ChangedFiles

CONSTANTS f1, f2, f3, c1, c2, mine

MCRevisions ==
    {[f \in {f1, f2} |-> c1],
     [f \in {f1, f3} |-> IF f = f1 THEN c2 ELSE c1],
     [f \in {f1, f2} |-> c2]}
=============================================================================
