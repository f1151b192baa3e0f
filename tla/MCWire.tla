------------------------------- MODULE MCWire -------------------------------
(* Instances of Wire for TLC. *)
EXTENDS Wire

\* Bodies that are empty, that look like the end of a head, that stop short
\* of the end of a line.
MCBodies == {<<>>, <<Byte>>, Blank, <<Byte, CR>>}

\* What the embedder's resolver answers, for any of the names: one address
\* for all of them, which a guest may also write itself.
MCGiven == {Literal}
=============================================================================
