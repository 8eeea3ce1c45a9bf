------------------------------ MODULE MCFsDir ------------------------------
(* FsDir for TLC: short names after renaming, longer ones before.          *)
EXTENDS FsQuery, TLC
MCNameLen == [n \in Names \cup NewNames |-> IF n \in NewNames THEN 1 ELSE 3]
Symmetric == Permutations(Procs)
=============================================================================
