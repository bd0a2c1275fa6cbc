---------------------------- MODULE MCInstaller -----------------------------
(* Three files: the second version drops one and adds one, the third does  *)
(* not load.                                                               *)
EXTENDS Installer

CONSTANTS f1, f2, f3, c1, c2, bad, mine

MCVersions ==
    {[version |-> 1, files |-> [f \in {f1, f2} |-> c1]],
     [version |-> 2, files |-> [f \in {f1, f3} |-> c2]],
     [version |-> 3, files |-> [f \in {f1, f3} |-> IF f = f1 THEN bad ELSE c2]]}
=============================================================================
