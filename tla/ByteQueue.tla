------------------------------ MODULE ByteQueue ------------------------------
(***************************************************************************)
(* What network/buffer.h promises its users: a queue of bytes. Appended      *)
(* bytes come out once, in order; a Retrieve...AsString returns exactly the  *)
(* bytes it removes.                                                         *)
(***************************************************************************)
EXTENDS Naturals, Sequences

CONSTANTS
    Byte,       \* the values of a char
    Chunks      \* bound: the strings the users append

VARIABLES
    q,          \* the readable bytes, oldest first
    out         \* the string the last Retrieve...AsString returned

vars == <<q, out>>

Init == q = <<>> /\ out = <<>>

Put(s) == q' = q \o s /\ UNCHANGED out

Drop(n) ==
    /\ q' = SubSeq(q, n + 1, Len(q))
    /\ UNCHANGED out

Take(n) ==
    /\ out' = SubSeq(q, 1, n)
    /\ q' = SubSeq(q, n + 1, Len(q))

Next ==
    \/ \E s \in Chunks : Put(s)
    \/ \E n \in 0..Len(q) : Drop(n) \/ Take(n)

Spec == Init /\ [][Next]_vars
=============================================================================
