------------------------------ MODULE MCBuffer ------------------------------
EXTENDS Buffer

MCChar == {0, 1}
MCChunks == UNION {[1..n -> MCChar] : n \in 0..MaxChunk}
=============================================================================
