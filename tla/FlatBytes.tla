------------------------------- MODULE FlatBytes -------------------------------
(***************************************************************************)
(* What the comments of bytearray.h promise of a ByteArray, without blocks *)
(* and cursors: one sequence of bytes with a position, where writing       *)
(* overwrites and extends, and reading returns what lies ahead.            *)
(***************************************************************************)
EXTENDS Integers, Sequences

CONSTANT Bytes

VARIABLES content, position, taken

Ahead == SubSeq(content, position + 1, Len(content))

Init == content = <<>> /\ position = 0 /\ taken = <<>>

\* No byte changes but the ones the position is moved over, and the content grows
\* only to the new position.
Put ==
    /\ position' >= position
    /\ content' \in Seq(Bytes)
    /\ Len(content') = IF position' > Len(content) THEN position' ELSE Len(content)
    /\ \A k \in 1 .. Len(content) : k <= position \/ k > position' => content'[k] = content[k]
    /\ taken' = <<>>

\* A failed read may have consumed the part of a value it had read.
Take ==
    \E n \in 0 .. Len(Ahead) :
        /\ position' = position + n
        /\ taken' = SubSeq(Ahead, 1, n)
        /\ UNCHANGED content

\* Bytes between the old end and a position behind it are whatever was there.
Seek ==
    /\ content' \in Seq(Bytes)
    /\ Len(content') = IF position' > Len(content) THEN position' ELSE Len(content)
    /\ \A k \in 1 .. Len(content) : content'[k] = content[k]
    /\ taken' = <<>>

Clear == content' = <<>> /\ position' = 0 /\ taken' = <<>>

Next == Put \/ Take \/ Seek \/ Clear

Spec == Init /\ [][Next]_<<content, position, taken>>

=============================================================================
