------------------------- MODULE MCTracePropagation -------------------------
(***************************************************************************)
(* TLC instance of TracePropagation.                                       *)
(***************************************************************************)
EXTENDS TracePropagation

CONSTANTS Bytes, MaxLen

\* Strings of the bytes, up to MaxLen long.
MCRequestIds == UNION {[1 .. n -> Bytes] : n \in 0 .. MaxLen}

MCOwnIds == {<<49, 65>>, <<122>>}

\* One id begins with the digit 0.
MCIds == {<<1>>, <<170>>, <<171>>}
=============================================================================
