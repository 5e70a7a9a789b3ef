------------------------------ MODULE MCBridge ------------------------------
(* A nonce of one byte. *)
EXTENDS Bridge

MCNonce == <<110>>
MCStrings == {<<>>, MCNonce}

=============================================================================
