------------------------------ MODULE MCByteArray ------------------------------
(***************************************************************************)
(* Instance of ByteArray for TLC.                                          *)
(***************************************************************************)
EXTENDS ByteArray

\* The smallest and the largest number of three bits.
BoundaryInts == {-4, 3}

\* Texts of no bytes, and of as many as a block.
ShortTexts == {<<>>, <<6, 5>>}

=============================================================================
