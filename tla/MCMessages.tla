----------------------------- MODULE MCMessages -----------------------------
(* A string of one byte, and a port whose varint takes two. *)
EXTENDS Messages

MCStrings == {<<>>, <<97>>}

=============================================================================
