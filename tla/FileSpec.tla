------------------------------ MODULE FileSpec ------------------------------
(***************************************************************************)
(* What reading and writing a file of 211 OS promises (lib/read.c,         *)
(* lib/write.c): a file is a sequence of bytes, every descriptor has a     *)
(* position in it, a read copies the bytes behind the position and a write *)
(* replaces them, growing the file at its end.  A request may be served in *)
(* parts, but one after the other, and moves the position by what it asks  *)
(* for.                                                                    *)
(***************************************************************************)
EXTENDS Integers, Sequences

CONSTANTS
    Buffers,     \* the buffers requests are made with
    Descs,       \* descriptors of the file
    Free         \* the process asks for nothing

VARIABLES
    content,     \* the bytes of the file
    at,          \* at[d]: how many bytes are in front of d's position
    req          \* the request served: its descriptor, direction, the number
                 \* of bytes done and the buffer, or Free

vars == <<content, at, req>>

Init ==
    /\ content = <<>>
    /\ at = [d \in Descs |-> 0]
    /\ req = Free

\* a descriptor is opened or closed
Rewind(d) ==
    /\ req = Free
    /\ at' = [at EXCEPT ![d] = 0]
    /\ UNCHANGED <<content, req>>

\* A read asks for bytes the file has.
Ask(d, type, buf) ==
    /\ req = Free
    /\ type = "READ" => at[d] + Len(buf) <= Len(content)
    /\ req' = [desc |-> d, type |-> type, done |-> 0, buf |-> buf]
    /\ UNCHANGED <<content, at>>

\* s with the bytes of t from place i + 1 on
Overwritten(s, i, t) ==
    [j \in 1 .. (IF i + Len(t) > Len(s) THEN i + Len(t) ELSE Len(s)) |->
        IF j \in i + 1 .. i + Len(t) THEN t[j - i] ELSE s[j]]

\* the next n bytes of the request
Part(n) ==
    /\ at' = [at EXCEPT ![req.desc] = @ + n]
    /\ \/ /\ req.type = "WRITE"
          /\ content' = Overwritten(content, at[req.desc],
                                    SubSeq(req.buf, req.done + 1, req.done + n))
          /\ req' = [req EXCEPT !.done = @ + n]
       \/ /\ req.type = "READ"
          /\ req' = [req EXCEPT !.done = @ + n,
                        !.buf = Overwritten(@, req.done,
                            SubSeq(content, at[req.desc] + 1, at[req.desc] + n))]
          /\ UNCHANGED content

\* all of it is done
Answer ==
    /\ req # Free
    /\ req.done = Len(req.buf)
    /\ req' = Free
    /\ UNCHANGED <<content, at>>

Next ==
    \/ \E d \in Descs :
          \/ Rewind(d)
          \/ \E type \in {"READ", "WRITE"}, buf \in Buffers : Ask(d, type, buf)
    \/ /\ req # Free
       /\ \E n \in 1 .. Len(req.buf) - req.done : Part(n)
    \/ Answer

Spec == Init /\ [][Next]_vars
=============================================================================
