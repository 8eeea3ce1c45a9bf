------------------------------- MODULE MCIpc -------------------------------
(* Instances of Ipc for TLC: one process some interrupt informs, and others. *)
EXTENDS IpcRefinement

CONSTANTS t, u, v, w, m1, m2

Senders == Procs \ IntTasks
SymProcs == Permutations(Senders)
SymAll == Permutations(Senders) \cup Permutations(Bodies)
=============================================================================
