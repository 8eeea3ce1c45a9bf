------------------------------- MODULE MCTty -------------------------------
(* Instances of Tty for TLC: who has which terminal open, and calls what. *)
EXTENDS Tty, TLC

CONSTANTS u1, u2

\* a shell on the first terminal, and a process that only uses files
MCUsers == {u1, u2}
MCFirst == u1 :> 1 @@ u2 :> 1
MCShell == u1 :> {"READ", "WRITE"} @@ u2 :> {"CLOSE"}

\* a shell alone
MCUser == {u1}
MCAlone == u1 :> 1
MCShellAlone == u1 :> {"OPEN", "READ", "WRITE"}

\* one process that reads, and one that writes, each on its own terminal
MCEach == u1 :> 1 @@ u2 :> 2
MCReaderWriter == u1 :> {"READ"} @@ u2 :> {"WRITE"}
=============================================================================
