------------------------------- MODULE ByteArray -------------------------------
(***************************************************************************)
(* ByteArray (net/bytearray.h, net/bytearray.cpp): a buffer kept in a list *)
(* of blocks of m_baseSize bytes, with a cursor m_cur that must stay on    *)
(* the block of m_position, and typed values coded into it: varints,       *)
(* zigzag, fixed width in either byte order, strings behind their length.  *)
(*                                                                         *)
(* The loops that copy block by block are given by the cell each byte goes *)
(* to, found from m_cur and never from the position, as in the code.  The  *)
(* widths are parameters: a varint byte carries GroupBits bits (7) and a   *)
(* number has Width bits (32 and 64); a fixed number has two bytes.  The   *)
(* host is little-endian.  SocketStream's read and write of a ByteArray    *)
(* are the users of getWriteBuffers() and getReadBuffers().                *)
(***************************************************************************)
EXTENDS Integers, Sequences, FiniteSets

CONSTANTS
    m_baseSize,     \* bytes of a block, 4096 in the code
    GroupBits,      \* payload bits of a varint byte
    Width,          \* bits of a varint number
    Uints, Ints, Fixeds, Texts,     \* values written
    Garbage,        \* what the memory of a new block may hold
    MaxSize         \* bound on the size

\* 1 << n.
Pow2[n \in Nat] == IF n = 0 THEN 1 ELSE 2 * Pow2[n - 1]

Group == Pow2[GroupBits]
Byte == 0 .. 2 * Group - 1

ASSUME ByteArrayAssumption ==
    /\ {m_baseSize, GroupBits, Width, MaxSize} \subseteq Nat \ {0}
    /\ Uints \subseteq 0 .. Pow2[Width] - 1
    /\ Ints \subseteq -Pow2[Width - 1] .. Pow2[Width - 1] - 1
    /\ Fixeds \subseteq 0 .. (2 * Group) * (2 * Group) - 1
    /\ Garbage \subseteq Byte
    /\ \A s \in Texts : s \in Seq(Byte) /\ Len(s) < Pow2[Width]

VARIABLES
    blocks,         \* the list from m_root on
    m_cur,          \* index of the cursor's block, or Null
    m_position, m_size, m_capacity,
    m_endian,       \* "big" or "little"
    taken,          \* bytes the last call consumed
    got,            \* value the last typed read returned
    items,          \* typed values written and not overwritten since
    alive           \* no null block was followed

bufVars == <<blocks, m_cur, m_position, m_size, m_capacity>>
vars == <<bufVars, m_endian, taken, got, items, alive>>

Null == 0
Nothing == [kind |-> "none"]

-----------------------------------------------------------------------------
(* Codes *)

Reversed(s) == [i \in DOMAIN s |-> s[Len(s) + 1 - i]]

\* EncodeZigzag32 and 64, in the arithmetic of their unsigned type.
EncodeZigzag(v) == (IF v < 0 THEN (-v) * 2 - 1 ELSE v * 2) % Pow2[Width]

\* (v >> 1) ^ -(v & 1), read as a signed number.
DecodeZigzag(v) == IF v % 2 = 0 THEN v \div 2 ELSE -(v \div 2) - 1

\* What is left of v after n turns of the loop of writeUint32 and 64, and the
\* turn that finds less than a group left.
Shifted(v, n) == v \div Pow2[GroupBits * n]
LastTurn(v) ==
    CHOOSE n \in 0 .. Width : Shifted(v, n) < Group /\ \A k \in 0 .. n - 1 : Shifted(v, k) >= Group

\* The bytes the loop writes: all but the last have the bit above the group set.
Varint(v) ==
    [i \in 1 .. LastTurn(v) + 1 |->
        (Shifted(v, i - 1) % Group) + (IF i <= LastTurn(v) THEN Group ELSE 0)]

\* Mutant of MaxGroups: the loop of readUint32 stops a byte early.
MaxGroupsShort == Width \div GroupBits

\* for(i = 0; i < Width; i += GroupBits).
MaxGroups == (Width + GroupBits - 1) \div GroupBits

\* How many bytes of s readUint32 and 64 take, if s has enough of them.
VarintEnds(s) == {n \in 1 .. MaxGroups : n <= Len(s) /\ (n = MaxGroups \/ s[n] < Group)}
VarintLen(s) == CHOOSE n \in VarintEnds(s) : \A k \in VarintEnds(s) : n <= k

\* What they return: groups are shifted and or-ed into Width bits.
Unvarint(s) ==
    LET sum[n \in 0 .. Len(s)] ==
            IF n = 0 THEN 0 ELSE sum[n - 1] + (s[n] % Group) * Pow2[GroupBits * (n - 1)]
    IN  sum[Len(s)] % Pow2[Width]

\* The two bytes of a number in memory, swapped when m_endian is not the host's.
Swapped(s) == IF m_endian = "big" THEN Reversed(s) ELSE s
Fixed(v) == Swapped(<<v % (2 * Group), v \div (2 * Group)>>)
Unfixed(s) == Swapped(s)[1] + Swapped(s)[2] * 2 * Group

-----------------------------------------------------------------------------
(* Blocks *)

\* Where byte k behind the cursor is, walking on from m_cur.
CellBlock(cur, k) == cur + ((m_position % m_baseSize) + k - 1) \div m_baseSize
CellOffset(k) == (((m_position % m_baseSize) + k - 1) % m_baseSize) + 1

\* The unread bytes, as read() and getReadBuffers() find them.
Ahead ==
    [k \in 1 .. m_size - m_position |-> blocks[CellBlock(m_cur, k)][CellOffset(k)]]

\* The memory of a new block is not initialised.
NewBlock(junk) == [j \in 1 .. m_baseSize |-> junk]

\* Mutant of BlocksNeeded: the division is rounded down.
BlocksNeededFloor(n) ==
    LET room == m_capacity - m_position
    IN  IF n <= room THEN 0 ELSE (n - room) \div m_baseSize

\* How many blocks addCapacity() appends.
BlocksNeeded(n) ==
    LET room == m_capacity - m_position
    IN  IF n <= room THEN 0 ELSE (n - room + m_baseSize - 1) \div m_baseSize

\* Mutant of CursorAfterGrowth: the cursor stays null when the list has grown.
CursorAfterGrowthStays(n) == m_cur

\* addCapacity() moves a cursor that stood behind the last block.
CursorAfterGrowth(n) ==
    IF BlocksNeeded(n) > 0 /\ m_capacity = m_position THEN Len(blocks) + 1 ELSE m_cur

\* addCapacity(n), then the first Len(bs) of those n bytes are copied in.
Filled(bs, n, junk) ==
    LET cur == CursorAfterGrowth(n)
        grown == blocks \o [i \in 1 .. BlocksNeeded(n) |-> NewBlock(junk)]
        hits(i, j) == {k \in 1 .. Len(bs) : CellBlock(cur, k) = i /\ CellOffset(k) = j}
    IN  [i \in DOMAIN grown |-> [j \in 1 .. m_baseSize |->
            IF hits(i, j) = {} THEN grown[i][j] ELSE bs[CHOOSE k \in hits(i, j) : TRUE]]]

\* The walk of setPosition(): a position at the end of a block is on the next.
CursorAt(v, list) ==
    LET i == v \div m_baseSize + 1 IN IF i > Len(list) THEN Null ELSE i

\* Mutant of CursorMoved: a block that was just filled stays the cursor's.
CursorMovedLate(cur, n, list) ==
    LET i == cur + ((m_position % m_baseSize) + n - 1) \div m_baseSize
    IN  IF i > Len(list) THEN Null ELSE i

\* m_cur after n bytes were copied from where it stood.
CursorMoved(cur, n, list) ==
    LET i == cur + ((m_position % m_baseSize) + n) \div m_baseSize
    IN  IF i > Len(list) THEN Null ELSE i

-----------------------------------------------------------------------------
(* Writing *)

Overlaps(item, from, n) == item.at < from + n /\ from < item.at + item.len

Kept(from, n) == {item \in items : ~Overlaps(item, from, n)}

\* write(): nothing to do for no bytes.  Two calls in a row come to one call
\* with both parts.
Write(bs) ==
    /\ m_position + Len(bs) <= MaxSize
    /\ bs # <<>>
    /\ \E junk \in Garbage : blocks' = Filled(bs, Len(bs), junk)
    /\ m_cur' = CursorMoved(CursorAfterGrowth(Len(bs)), Len(bs), blocks')
    /\ m_capacity' = m_capacity + BlocksNeeded(Len(bs)) * m_baseSize
    /\ m_position' = m_position + Len(bs)
    /\ m_size' = IF m_position' > m_size THEN m_position' ELSE m_size
    /\ taken' = <<>>
    /\ got' = Nothing
    /\ UNCHANGED <<m_endian, alive>>

\* Every writeX() is a write() of the value's code.
WriteItem(kind, value, code) ==
    /\ Write(code)
    /\ items' = Kept(m_position, Len(code))
                  \cup {[kind |-> kind, value |-> value, at |-> m_position,
                         len |-> Len(code), endian |-> m_endian]}

WriteUint(v) == WriteItem("uint", v, Varint(v))
WriteInt(v) == WriteItem("int", v, Varint(EncodeZigzag(v)))
WriteFixed(v) == WriteItem("fixed", v, Fixed(v))
WriteString(s) == WriteItem("string", s, Varint(Len(s)) \o s)

\* writeStringWithoutLength(), and readFromFile() block by block.
WriteRaw(s) == Write(s) /\ items' = Kept(m_position, Len(s))

-----------------------------------------------------------------------------
(* Reading *)

\* Dereferencing a null block ends the program.
Crash == alive' = FALSE /\ UNCHANGED <<bufVars, m_endian, taken, got, items>>

\* read() of n bytes that are there.
Consume(n) ==
    /\ taken' = SubSeq(Ahead, 1, n)
    /\ m_position' = m_position + n
    /\ m_cur' = CursorMoved(m_cur, n, blocks)
    /\ UNCHANGED <<blocks, m_size, m_capacity, m_endian, items, alive>>

Return(kind, value) ==
    got' = [kind |-> kind, value |-> value, at |-> m_position, endian |-> m_endian]

\* readUint32 and 64 read byte by byte; the bytes of an unfinished number are
\* consumed before out_of_range is thrown.
ReadVarint(kind) ==
    \/ /\ VarintEnds(Ahead) # {}
       /\ Consume(VarintLen(Ahead))
       /\ LET v == Unvarint(SubSeq(Ahead, 1, VarintLen(Ahead)))
          IN  Return(kind, IF kind = "int" THEN DecodeZigzag(v) ELSE v)
    \/ /\ VarintEnds(Ahead) = {}
       /\ Ahead # <<>>
       /\ Consume(Len(Ahead))
       /\ got' = Nothing

ReadUint == ReadVarint("uint")
ReadInt == ReadVarint("int")

ReadFixed ==
    /\ Len(Ahead) >= 2
    /\ Consume(2)
    /\ Return("fixed", Unfixed(SubSeq(Ahead, 1, 2)))

\* The length is consumed even if the text is not there.  read() looks at the
\* cursor's block before it looks at the size: reading no bytes with the cursor
\* behind the last block follows a null pointer.
ReadString ==
    /\ VarintEnds(Ahead) # {}
    /\ LET head == VarintLen(Ahead)
           len == Unvarint(SubSeq(Ahead, 1, head))
       IN  \/ /\ head + len > Len(Ahead)
              /\ Consume(head)
              /\ got' = Nothing
           \/ /\ len = 0
              /\ CursorMoved(m_cur, head, blocks) = Null
              /\ Crash
           \/ /\ head + len <= Len(Ahead)
              /\ len > 0 \/ CursorMoved(m_cur, head, blocks) # Null
              /\ Consume(head + len)
              /\ Return("string", SubSeq(Ahead, head + 1, head + len))

-----------------------------------------------------------------------------
(* Positions and buffers *)

\* setPosition(); further than m_capacity it throws.
SetPosition(v) ==
    /\ v <= m_capacity
    /\ v <= MaxSize
    /\ m_position' = v
    /\ m_size' = IF v > m_size THEN v ELSE m_size
    /\ m_cur' = CursorAt(v, blocks)
    /\ taken' = <<>>
    /\ got' = Nothing
    /\ UNCHANGED <<blocks, m_capacity, m_endian, items, alive>>

\* clear() keeps the first block and what is in it.
Clear ==
    /\ blocks' = SubSeq(blocks, 1, 1)
    /\ m_cur' = 1
    /\ m_position' = 0 /\ m_size' = 0 /\ m_capacity' = m_baseSize
    /\ taken' = <<>> /\ got' = Nothing /\ items' = {}
    /\ UNCHANGED <<m_endian, alive>>

SetIsLittleEndian ==
    /\ m_endian' = IF m_endian = "big" THEN "little" ELSE "big"
    /\ taken' = <<>>
    /\ got' = Nothing
    /\ UNCHANGED <<bufVars, items, alive>>

\* SocketStream::read(): room for n bytes, of which recv() fills some or none,
\* then setPosition() behind them.
Receive(n, bs) ==
    /\ n > 0 /\ Len(bs) <= n
    /\ m_position + n <= MaxSize
    /\ \E junk \in Garbage : blocks' = Filled(bs, n, junk)
    /\ m_capacity' = m_capacity + BlocksNeeded(n) * m_baseSize
    /\ m_position' = m_position + Len(bs)
    /\ m_size' = IF m_position' > m_size THEN m_position' ELSE m_size
    /\ m_cur' = IF bs = <<>> THEN CursorAfterGrowth(n) ELSE CursorAt(m_position', blocks')
    /\ items' = Kept(m_position, Len(bs))
    /\ taken' = <<>> /\ got' = Nothing
    /\ UNCHANGED <<m_endian, alive>>

\* SocketStream::write(): send() takes some of the unread bytes.
Send(n) ==
    /\ n \in 1 .. Len(Ahead)
    /\ taken' = SubSeq(Ahead, 1, n)
    /\ m_position' = m_position + n
    /\ m_cur' = CursorAt(m_position', blocks)
    /\ got' = Nothing
    /\ UNCHANGED <<blocks, m_size, m_capacity, m_endian, items, alive>>

\* Mutant of FileTurn: the offset is not taken from the length.
FileTurnWide(s, block) ==
    LET diff == s.pos % m_baseSize
        len == IF s.left > m_baseSize THEN m_baseSize ELSE s.left
    IN  IF s.left <= 0 THEN s
        ELSE [pos |-> s.pos + len, left |-> s.left - len, bad |-> FALSE,
              bytes |-> s.bytes \o SubSeq(block, diff + 1, m_baseSize)]

\* The file writeToFile() writes, one turn of its loop for each block from m_cur
\* on.  A turn writes len bytes; a negative len makes the stream fail, and
\* nothing is written from then on.
FileTurn(s, block) ==
    LET diff == s.pos % m_baseSize
        len == (IF s.left > m_baseSize THEN m_baseSize ELSE s.left) - diff
        bad == s.bad \/ len < 0
    IN  IF s.left <= 0 THEN s
        ELSE [pos |-> s.pos + len, left |-> s.left - len, bad |-> bad,
              bytes |-> IF bad THEN s.bytes ELSE s.bytes \o SubSeq(block, diff + 1, diff + len)]

WrittenFile ==
    LET turn[n \in 0 .. Len(blocks) + 1 - m_cur] ==
            IF n = 0 THEN [pos |-> m_position, left |-> Len(Ahead), bad |-> FALSE, bytes |-> <<>>]
            ELSE FileTurn(turn[n - 1], blocks[m_cur + n - 1])
    IN  IF m_cur = Null THEN <<>> ELSE turn[Len(blocks) + 1 - m_cur].bytes

-----------------------------------------------------------------------------
Init ==
    /\ \E junk \in Garbage : blocks = <<NewBlock(junk)>>
    /\ m_cur = 1
    /\ m_position = 0 /\ m_size = 0 /\ m_capacity = m_baseSize
    /\ m_endian = "big"
    /\ taken = <<>> /\ got = Nothing /\ items = {}
    /\ alive = TRUE

WriteStep ==
    \/ \E v \in Uints : WriteUint(v)
    \/ \E v \in Ints : WriteInt(v)
    \/ \E v \in Fixeds : WriteFixed(v)
    \/ \E s \in Texts : WriteString(s) \/ WriteRaw(s)

ReadStep == ReadUint \/ ReadInt \/ ReadFixed \/ ReadString

MoveStep ==
    \/ \E v \in 0 .. MaxSize : SetPosition(v)
    \/ Clear
    \/ SetIsLittleEndian
    \/ \E n \in 1 .. MaxSize : Send(n)
    \/ \E n \in 1 .. MaxSize, bs \in Texts : Receive(n, bs)

Next == alive /\ (WriteStep \/ ReadStep \/ MoveStep)

Spec == Init /\ [][Next]_vars

-----------------------------------------------------------------------------
(* Properties *)

\* Types, and the sizes: the position is within the size, the size within the
\* capacity, and the capacity is what the list of blocks holds.
TypeOK ==
    /\ blocks \in Seq([1 .. m_baseSize -> Byte])
    /\ m_cur \in 0 .. Len(blocks)
    /\ m_position \in 0 .. m_size
    /\ m_size \in 0 .. m_capacity
    /\ m_capacity = Len(blocks) * m_baseSize
    /\ m_endian \in {"big", "little"}
    /\ alive \in BOOLEAN

\* The cursor is on the block of the position, and null exactly when the position
\* is behind the last block.  write(), read() and the iovec functions walk from
\* m_cur and trust it; every call moves it in its own way.
CursorRight ==
    m_cur = IF m_position = m_capacity THEN Null ELSE m_position \div m_baseSize + 1

\* A typed value that was not overwritten is read back by the read of its type
\* and byte order, however it was cut into blocks and whatever the code of its
\* neighbours.
ReadsBack ==
    \A item \in items :
        got # Nothing /\ got.at = item.at /\ got.kind = item.kind /\ got.endian = item.endian
            => got.value = item.value

\* writeToFile() writes all unread bytes if the position is at the start of a block
\* or a whole block is unread.  Otherwise the offset into the first block is taken
\* from the number of bytes left, not from the room in the block, and the file is
\* short or a null block is followed.
FileWhole ==
    m_position % m_baseSize = 0 \/ Len(Ahead) >= m_baseSize => WrittenFile = Ahead

\* One sequence of bytes, read off the blocks.
Flat == INSTANCE FlatBytes WITH
    Bytes <- Byte,
    content <- [k \in 1 .. m_size |->
                  blocks[(k - 1) \div m_baseSize + 1][((k - 1) % m_baseSize) + 1]],
    position <- m_position

\* The blocks and the cursor implement one sequence of bytes with a position: no
\* call changes a byte outside the ones it writes, and reads return what is ahead.
FlatSpec == Flat!Spec
=============================================================================
