-------------------------- MODULE MCFilesChannel ---------------------------
(* One artifact whose source takes two contents.                           *)
EXTENDS FilesChannel

CONSTANTS rules, x, y
=============================================================================
