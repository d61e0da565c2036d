-------------------------- MODULE CacheRingProofs --------------------------
(***************************************************************************)
(* Proofs about CacheRing, for every size of the ring, of its sectors and  *)
(* of the file.                                                            *)
(*                                                                         *)
(* The first part is about the filler and the window, in all four modes.   *)
(* The second is about the player when the demuxer seeks forward only:     *)
(* what it copies is published while it copies it, and the sectors it gets *)
(* are those of the file.  Interrupts and short reads may happen.          *)
(***************************************************************************)
EXTENDS MCCacheRing, TLAPS

(* The sizes cache_init and stream_enable_cache compute: the clamps of the *)
(* source are what the bounds below come from.                             *)
LEMMA Sizes ==
  /\ Sector \in Nat /\ Sector > 0
  /\ BufferSize \in Nat /\ BufferSize >= 16 * Sector
  /\ FillLimit = 8 * Sector
  /\ SeekLimit \in Nat /\ SeekLimit <= BufferSize - FillLimit
  /\ BackSize \in Nat /\ 2 * BackSize <= BufferSize
  /\ FileLen \in Nat
<1> DEFINE num == Most(16, CacheSize \div Sector)
<1>1. Sector \in Nat /\ Sector > 0 /\ CacheSize \in Nat /\ FileLen \in Nat
      /\ SeekLimitArg \in Nat
  BY SizesAssumption
<1>2. CacheSize \div Sector \in Int
  BY <1>1
<1>3. num \in Nat /\ num >= 16
  BY <1>2 DEF Most
<1>4. PICK k \in Nat : num = 16 + k
  <2>1. num - 16 \in Nat /\ num = 16 + (num - 16)
    BY <1>3
  <2>2. QED BY <2>1
<1>5. Sector * num = 16 * Sector + Sector * k /\ Sector * k \in Nat
  BY <1>1, <1>4
<1>6. BufferSize = 16 * Sector + Sector * k
  BY <1>5 DEF BufferSize
<1>7. BufferSize \in Nat /\ BufferSize >= 16 * Sector
  BY <1>1, <1>5, <1>6
<1>8. BackSize \in Nat /\ 2 * BackSize <= BufferSize
  BY <1>7 DEF BackSize
<1>9. SeekLimit \in Nat /\ SeekLimit <= BufferSize - FillLimit
  BY <1>1, <1>7 DEF SeekLimit, FillLimit, Least
<1>10. QED BY <1>1, <1>7, <1>8, <1>9 DEF FillLimit
-----------------------------------------------------------------------------
(* The inductive invariant of the filler, in any mode.  NextMax and        *)
(* NextOffset are the values max_filepos and offset have once the stores   *)
(* still to be made are made: the ring is consistent in terms of them.     *)

NextMax    == IF "max" \in todo THEN max_filepos + len ELSE max_filepos
NextOffset == IF "offset" \in todo THEN offset + BufferSize ELSE offset

Filling == fpc \notin {"drop", "dead"}

(* Stores are pending only when a block is published or the ring dropped.  *)
TodoInv ==
  /\ Filling /\ fpc # "publish" => todo = {}
  /\ fpc = "publish" => todo \subseteq {"eof", "max", "offset"}
  /\ fpc = "drop" => todo \subseteq {"max", "min", "offset"}

(* A ring b with base o holds the positions from lo up to hi.              *)
Holds(b, lo, hi, o) ==
  /\ hi - lo <= BufferSize
  /\ o <= hi /\ hi < o + BufferSize
  /\ \A p \in lo .. hi - 1 : b[SlotOf(p, o)] = p

(* The ring holds the window and what follows it; the stream is at its end *)
RingInv ==
  Filling =>
    /\ min_filepos <= max_filepos
    /\ Holds(buffer, min_filepos, NextMax, NextOffset)
    /\ "offset" \in todo => NextMax = NextOffset
    /\ upos = NextMax

(* Half way through a drop the stores already made hold the new position.  *)
DropInv ==
  fpc = "drop" =>
    /\ "max" \notin todo => max_filepos = read
    /\ "min" \notin todo => min_filepos = read
    /\ "offset" \notin todo => offset = read

(* The snapshot is not behind the window and less than seek_limit ahead.   *)
SizeInv == fpc = "size" => min_filepos <= read /\ read <= max_filepos + SeekLimit

(* Once trimmed there is room for the block, in front of the wrap.         *)
RoomInv ==
  fpc \in {"read", "copy"} =>
    /\ max_filepos + space - min_filepos <= BufferSize
    /\ max_filepos - offset + space <= BufferSize
    /\ fpc = "copy" => len <= space

(* The player copies a block of newb units, done of them so far.           *)
CopyInv ==
  /\ ppc = "copy" => done <= newb
  /\ ppc # "copy" => done = 0

IInv == TypeOK /\ TodoInv /\ RingInv /\ DropInv /\ SizeInv /\ RoomInv /\ CopyInv

-----------------------------------------------------------------------------
(* The slots of two bases one lap apart are the same from the later base   *)
(* minus a lap to the later base.                                          *)
LEMMA SlotLap ==
  ASSUME NEW p \in Int, NEW o \in Int, o <= p, p < o + BufferSize
  PROVE  SlotOf(p, o) = SlotOf(p, o + BufferSize)
BY Sizes DEF SlotOf

(* Two positions less than a lap apart are never in the same slot.         *)
LEMMA SlotsApart ==
  ASSUME NEW p \in Int, NEW q \in Int, NEW o \in Int,
         o - BufferSize <= p, p < q, q < o + BufferSize, q - p < BufferSize
  PROVE  /\ SlotOf(p, o) \in Slots /\ SlotOf(q, o) \in Slots
         /\ SlotOf(p, o) # SlotOf(q, o)
BY Sizes DEF SlotOf, Slots

LEMMA InitIInv == Init => IInv
<1> SUFFICES ASSUME Init PROVE IInv
  OBVIOUS
<1>1. TypeOK
  <2>1. buffer \in [Slots -> Nat \cup {Junk}]
    BY DEF Init
  <2>2. sbuf = <<>> /\ got = <<>>
    BY DEF Init
  <2>3. sbuf \in Seq(Nat \cup {Junk}) /\ got \in Seq(Nat \cup {Junk})
    BY <2>2
  <2>4. eof \in BOOLEAN /\ seof \in BOOLEAN
    BY DEF Init
  <2>5. space \in 0 .. 4 * Sector /\ len \in 0 .. 4 * Sector
    BY Sizes DEF Init
  <2>6. QED BY <2>1, <2>3, <2>4, <2>5 DEF Init, TypeOK
<1>2. TodoInv /\ DropInv /\ SizeInv /\ RoomInv /\ CopyInv
  BY DEF Init, TodoInv, DropInv, SizeInv, RoomInv, CopyInv, Filling
<1>3. RingInv
  BY Sizes DEF Init, RingInv, Holds, NextMax, NextOffset, Filling
<1>4. QED BY <1>1, <1>2, <1>3 DEF IInv

LEMMA FillLoopIInv == ASSUME IInv, FillLoop PROVE IInv'
<1> USE DEF IInv, FillLoop, shared, player
<1>1. TypeOK'
  BY DEF TypeOK
<1>2. RingInv'
  BY DEF RingInv, Holds, NextMax, NextOffset, Filling, SlotOf
<1>3. (TodoInv /\ DropInv /\ SizeInv /\ RoomInv /\ CopyInv)'
  BY DEF TodoInv, DropInv, SizeInv, RoomInv, CopyInv, Filling
<1>4. QED BY <1>1, <1>2, <1>3

LEMMA FillTopIInv == ASSUME IInv, FillTop PROVE IInv'
<1> USE DEF IInv, FillTop, shared, player
<1>1. TypeOK'
  BY DEF TypeOK
<1>2. RingInv'
  BY DEF RingInv, Holds, NextMax, NextOffset, Filling, SlotOf, TodoInv
<1>3. SizeInv'
  BY Sizes DEF SizeInv, TypeOK
<1>4. (TodoInv /\ DropInv /\ RoomInv /\ CopyInv)'
  BY DEF TodoInv, DropInv, RoomInv, CopyInv, Filling
<1>5. QED BY <1>1, <1>2, <1>3, <1>4

LEMMA FillDropIInv == ASSUME IInv, NEW x, FillDrop(x) PROVE IInv'
<1> USE DEF IInv, FillDrop, player, MayStore
<1>1. TypeOK'
  BY DEF TypeOK
<1>2. DropInv' /\ TodoInv'
  BY DEF DropInv, TodoInv, Filling
<1>3. (RingInv /\ SizeInv /\ RoomInv /\ CopyInv)'
  BY DEF RingInv, Holds, SizeInv, RoomInv, CopyInv, Filling
<1>4. QED BY <1>1, <1>2, <1>3

LEMMA FillSeekIInv == ASSUME IInv, FillSeek PROVE IInv'
<1> USE DEF IInv, FillSeek, shared, player
<1>1. TypeOK'
  BY DEF TypeOK
<1>2. max_filepos = read /\ min_filepos = read /\ offset = read /\ read \in Nat
  BY DEF DropInv, TypeOK
<1>3. RingInv'
  <2>1. NextMax' = read /\ NextOffset' = read
    BY <1>2 DEF NextMax, NextOffset
  <2>2. QED BY <1>2, <2>1, Sizes DEF RingInv, Holds
<1>4. SizeInv'
  BY <1>2, Sizes DEF SizeInv
<1>5. (TodoInv /\ DropInv /\ RoomInv /\ CopyInv)'
  BY DEF TodoInv, DropInv, RoomInv, CopyInv, Filling
<1>6. QED BY <1>1, <1>3, <1>4, <1>5

LEMMA FillFullIInv == ASSUME IInv, FillFull PROVE IInv'
<1> USE DEF IInv, FillFull, FillEnd, shared, player
<1>1. TypeOK'
  BY Sizes DEF TypeOK
<1>2. RingInv'
  BY DEF RingInv, Holds, NextMax, NextOffset, Filling, SlotOf, TodoInv
<1>3. (TodoInv /\ DropInv /\ SizeInv /\ RoomInv /\ CopyInv)'
  BY DEF TodoInv, DropInv, SizeInv, RoomInv, CopyInv, Filling
<1>4. QED BY <1>1, <1>2, <1>3

(* The arithmetic of cache_fill: the block fits in front of the wrap, and  *)
(* the trim leaves room for it without passing the end of the window.      *)
LEMMA TrimArithmetic ==
  ASSUME IInv, FillTrim
  PROVE  /\ min_filepos' \in Nat /\ min_filepos <= min_filepos'
         /\ min_filepos' <= max_filepos
         /\ space' \in Nat /\ space' <= 4 * Sector
         /\ max_filepos - min_filepos' <= BufferSize
         /\ max_filepos + space' - min_filepos' <= BufferSize
         /\ max_filepos - offset + space' <= BufferSize
<1> DEFINE d == max_filepos - offset
<1>1. /\ min_filepos \in Nat /\ max_filepos \in Nat /\ offset \in Nat /\ read \in Nat
      /\ d >= 0 /\ d < BufferSize
      /\ min_filepos <= read /\ read <= max_filepos + SeekLimit
      /\ min_filepos <= max_filepos /\ max_filepos - min_filepos <= BufferSize
  <2>1. fpc = "size" /\ todo = {} /\ Filling
    BY DEF IInv, TodoInv, Filling, FillTrim
  <2>2. NextMax = max_filepos /\ NextOffset = offset
    BY <2>1 DEF NextMax, NextOffset
  <2>3. QED BY <2>1, <2>2, Sizes DEF IInv, TypeOK, RingInv, Holds, SizeInv
<1>2. FillPos = d
  BY <1>1, Sizes DEF FillPos
<1>3. /\ BackBytes \in Nat /\ BackBytes <= read - min_filepos
      /\ BackBytes <= BackSize
  BY <1>1, Sizes DEF BackBytes, Least, Most
<1>4. /\ NewBytes \in Nat
      /\ max_filepos >= read => NewBytes = max_filepos - read
      /\ max_filepos <= read => NewBytes = 0
  BY <1>1 DEF NewBytes, Most
<1>5. FreeSpace \in Int /\ FreeSpace >= 8 * Sector
  BY <1>3, <1>4, Sizes DEF FreeSpace, FillTrim
<1>6. /\ BlockSize \in Nat /\ BlockSize <= FreeSpace
      /\ BlockSize <= BufferSize - d /\ BlockSize <= 4 * Sector
  BY <1>1, <1>2, <1>5, Sizes DEF BlockSize, Least
<1>7. /\ KeptFrom \in Int
      /\ KeptFrom <= max_filepos
      /\ max_filepos + BlockSize - BufferSize <= KeptFrom
  <2>1. KeptFrom = read - BufferSize + BlockSize + NewBytes
    BY <1>1, <1>4, <1>6, Sizes DEF KeptFrom
  <2>2. CASE max_filepos >= read
    BY <2>1, <2>2, <1>1, <1>4, <1>6, Sizes
  <2>3. CASE max_filepos < read
    BY <2>1, <2>3, <1>1, <1>4, <1>6, Sizes
  <2>4. QED BY <1>1, <2>2, <2>3
<1>8. min_filepos' = Most(min_filepos, KeptFrom) /\ space' = BlockSize
  BY DEF FillTrim
<1>9. PICK m \in Int : m = Most(min_filepos, KeptFrom)
  BY <1>1, <1>7 DEF Most
<1>10. /\ min_filepos <= m /\ m <= max_filepos /\ m \in Nat
       /\ max_filepos - m <= BufferSize
       /\ max_filepos + BlockSize - m <= BufferSize
       /\ max_filepos - offset + BlockSize <= BufferSize
  BY <1>1, <1>6, <1>7, <1>9, Sizes DEF Most
<1>11. min_filepos' = m
  BY <1>8, <1>9
<1>12. QED BY <1>6, <1>8, <1>10, <1>11

LEMMA FillTrimIInv == ASSUME IInv, FillTrim PROVE IInv'
<1>1. TypeOK'
  BY TrimArithmetic, Sizes DEF IInv, TypeOK, FillTrim, player
<1>2. RoomInv'
  BY TrimArithmetic DEF RoomInv, FillTrim
<1>3. RingInv'
  <2>1. /\ min_filepos' \in Nat /\ min_filepos <= min_filepos'
        /\ min_filepos' <= max_filepos /\ min_filepos \in Nat /\ max_filepos \in Nat
    BY TrimArithmetic DEF IInv, TypeOK
  <2>2. todo = {} /\ todo' = {} /\ max_filepos' = max_filepos /\ offset' = offset
        /\ buffer' = buffer /\ upos' = upos
    BY DEF IInv, TodoInv, Filling, FillTrim
  <2>3. NextMax = max_filepos /\ NextMax' = max_filepos
        /\ NextOffset = offset /\ NextOffset' = offset
    BY <2>2 DEF NextMax, NextOffset
  <2>4. Filling
    BY DEF Filling, FillTrim
  <2>5. max_filepos - min_filepos' <= BufferSize
    BY TrimArithmetic
  <2>6. \A p \in min_filepos' .. max_filepos - 1 : buffer[SlotOf(p, offset)] = p
    BY <2>1, <2>3, <2>4 DEF IInv, RingInv, Holds
  <2>7. QED BY <2>1, <2>2, <2>3, <2>4, <2>5, <2>6 DEF IInv, RingInv, Holds, SlotOf
<1>4. (TodoInv /\ DropInv /\ SizeInv /\ CopyInv)'
  BY DEF IInv, TodoInv, DropInv, SizeInv, CopyInv, Filling, FillTrim, player
<1>5. QED BY <1>1, <1>2, <1>3, <1>4 DEF IInv

(* While a block is read: where it goes, and that it touches no slot of    *)
(* the published window.                                                   *)
LEMMA BlockSlots ==
  ASSUME IInv, fpc \in {"read", "copy"}, NEW n \in Nat, n <= space
  PROVE  /\ todo = {} /\ NextMax = max_filepos /\ NextOffset = offset
         /\ min_filepos \in Nat /\ max_filepos \in Nat /\ offset \in Nat
         /\ upos = max_filepos
         /\ min_filepos <= max_filepos
         /\ max_filepos + n - min_filepos <= BufferSize
         /\ offset <= max_filepos /\ max_filepos - offset + n <= BufferSize
         /\ FillPos = max_filepos - offset
         /\ Target(n) = {max_filepos - offset + k : k \in 0 .. n - 1}
         /\ \A p \in min_filepos .. max_filepos - 1 :
              /\ SlotOf(p, offset) \in Slots \ Target(n)
              /\ buffer[SlotOf(p, offset)] = p
<1>1. todo = {} /\ Filling /\ NextMax = max_filepos /\ NextOffset = offset
  BY DEF IInv, TodoInv, Filling, NextMax, NextOffset
<1>2. /\ min_filepos \in Nat /\ max_filepos \in Nat /\ offset \in Nat /\ space \in Nat
      /\ upos = max_filepos /\ min_filepos <= max_filepos
      /\ offset <= max_filepos /\ max_filepos < offset + BufferSize
      /\ \A p \in min_filepos .. max_filepos - 1 : buffer[SlotOf(p, offset)] = p
  BY <1>1, Sizes DEF IInv, TypeOK, RingInv, Holds
<1>3. /\ max_filepos + n - min_filepos <= BufferSize
      /\ max_filepos - offset + n <= BufferSize
  BY <1>2, Sizes DEF IInv, RoomInv
<1>4. FillPos = max_filepos - offset
  BY <1>2, Sizes DEF FillPos
<1>5. Target(n) = {max_filepos - offset + k : k \in 0 .. n - 1}
  BY <1>4 DEF Target
<1>6. ASSUME NEW p \in min_filepos .. max_filepos - 1
      PROVE  SlotOf(p, offset) \in Slots \ Target(n)
  <2>1. SlotOf(p, offset) \in Slots
    BY <1>2, <1>3, Sizes DEF SlotOf, Slots
  <2>2. ASSUME NEW k \in 0 .. n - 1 PROVE SlotOf(p, offset) # max_filepos - offset + k
    BY <1>2, <1>3, <2>2, Sizes DEF SlotOf
  <2>3. QED BY <1>5, <2>1, <2>2
<1>7. QED BY <1>1, <1>2, <1>3, <1>4, <1>5, <1>6

LEMMA FillReadIInv == ASSUME IInv, NEW n \in 0 .. 4 * Sector, FillRead(n) PROVE IInv'
<1>1. n \in Nat /\ n <= space /\ space \in Nat
  BY Sizes DEF IInv, TypeOK, FillRead, ReadLens, Least, Most
<1>2. TypeOK'
  BY DEF IInv, TypeOK, FillRead, player
<1>3. RingInv'
  <2>1. /\ max_filepos' = max_filepos /\ min_filepos' = min_filepos
        /\ offset' = offset /\ upos' = upos /\ todo' = todo
        /\ buffer' = [i \in Slots |-> IF i \in Target(n) THEN Junk ELSE buffer[i]]
        /\ fpc = "read"
    BY DEF FillRead
  <2>2. NextMax' = max_filepos /\ NextOffset' = offset
    BY <1>1, <2>1, BlockSlots DEF NextMax, NextOffset
  <2>3. \A p \in min_filepos .. max_filepos - 1 : buffer'[SlotOf(p, offset)] = p
    BY <1>1, <2>1, BlockSlots
  <2>4. /\ Filling /\ NextMax = max_filepos /\ NextOffset = offset /\ todo = {}
    BY <1>1, <2>1, BlockSlots DEF Filling
  <2>5. /\ min_filepos <= max_filepos /\ max_filepos - min_filepos <= BufferSize
        /\ offset <= max_filepos /\ max_filepos < offset + BufferSize
        /\ upos = max_filepos
    BY <2>4 DEF IInv, RingInv, Holds
  <2>6. QED BY <2>1, <2>2, <2>3, <2>4, <2>5 DEF RingInv, Holds, SlotOf
<1>4. RoomInv'
  BY <1>1 DEF IInv, RoomInv, FillRead
<1>5. (TodoInv /\ DropInv /\ SizeInv /\ CopyInv)'
  BY DEF IInv, TodoInv, DropInv, SizeInv, CopyInv, Filling, FillRead, player
<1>6. QED BY <1>2, <1>3, <1>4, <1>5 DEF IInv

LEMMA FillCopiedIInv == ASSUME IInv, FillCopied PROVE IInv'
<1>1. len \in Nat /\ len <= space /\ fpc = "copy"
  BY Sizes DEF IInv, TypeOK, RoomInv, FillCopied
<1>2. /\ max_filepos' = max_filepos /\ min_filepos' = min_filepos
      /\ offset' = offset /\ upos' = upos + len /\ len' = len
      /\ buffer' = [i \in Slots |-> IF i \in Target(len) THEN upos + (i - FillPos)
                                                       ELSE buffer[i]]
      /\ todo' = {"eof", "max"} \cup
                 (IF FillPos + len >= BufferSize THEN {"offset"} ELSE {})
      /\ fpc' = "publish"
  BY DEF FillCopied
<1>3. /\ min_filepos \in Nat /\ max_filepos \in Nat /\ offset \in Nat
      /\ upos = max_filepos /\ min_filepos <= max_filepos
      /\ max_filepos + len - min_filepos <= BufferSize
      /\ offset <= max_filepos /\ max_filepos - offset + len <= BufferSize
      /\ FillPos = max_filepos - offset
      /\ Target(len) = {max_filepos - offset + k : k \in 0 .. len - 1}
  BY <1>1, BlockSlots
<1>4. TypeOK'
  <2>1. buffer' \in [Slots -> Nat \cup {Junk}]
    <3>1. ASSUME NEW i \in Target(len) PROVE upos + (i - FillPos) \in Nat
      BY <1>1, <1>3
    <3>2. buffer \in [Slots -> Nat \cup {Junk}]
      BY DEF IInv, TypeOK
    <3>3. QED BY <1>2, <3>1, <3>2
  <2>2. upos' \in Nat
    BY <1>1, <1>2, <1>3
  <2>3. QED BY <1>2, <2>1, <2>2 DEF IInv, TypeOK, FillCopied, player
<1>5. RingInv'
  <2>1. NextMax' = max_filepos + len
    BY <1>2 DEF NextMax
  <2>2. \A p \in min_filepos .. (max_filepos + len) - 1 : buffer'[SlotOf(p, offset)] = p
    <3>1. ASSUME NEW p \in min_filepos .. max_filepos - 1
          PROVE  buffer'[SlotOf(p, offset)] = p
      BY <1>1, <1>2, BlockSlots
    <3>2. ASSUME NEW p \in max_filepos .. (max_filepos + len) - 1
          PROVE  buffer'[SlotOf(p, offset)] = p
      <4>1. SlotOf(p, offset) = max_filepos - offset + (p - max_filepos)
        BY <1>1, <1>3, Sizes DEF SlotOf
      <4>2. p - max_filepos \in 0 .. len - 1 /\ SlotOf(p, offset) \in Slots
        BY <1>1, <1>3, <4>1, Sizes DEF Slots
      <4>3. SlotOf(p, offset) \in Target(len)
        BY <1>3, <4>1, <4>2
      <4>4. buffer'[SlotOf(p, offset)] = upos + (SlotOf(p, offset) - FillPos)
        BY <1>2, <4>2, <4>3
      <4>5. QED BY <1>3, <4>1, <4>4
    <3>3. QED BY <1>1, <1>3, <3>1, <3>2
  <2>3. CASE FillPos + len >= BufferSize
    <3>1. NextOffset' = offset + BufferSize /\ "offset" \in todo'
      BY <1>2, <2>3 DEF NextOffset
    <3>2. max_filepos + len = offset + BufferSize /\ offset <= min_filepos
      BY <1>1, <1>3, <2>3, Sizes
    <3>3. ASSUME NEW p \in min_filepos .. (max_filepos + len) - 1
          PROVE  SlotOf(p, offset) = SlotOf(p, offset + BufferSize)
      <4>1. p \in Int /\ offset \in Int /\ offset <= p /\ p < offset + BufferSize
        BY <1>1, <1>3, <3>2, Sizes
      <4>2. QED BY <4>1, SlotLap
    <3>4. \A p \in min_filepos .. (max_filepos + len) - 1 :
            buffer'[SlotOf(p, offset + BufferSize)] = p
      BY <2>2, <3>3
    <3>5. /\ (max_filepos + len) - min_filepos <= BufferSize
          /\ offset + BufferSize <= max_filepos + len
          /\ max_filepos + len < offset + BufferSize + BufferSize
          /\ upos' = max_filepos + len
      BY <1>1, <1>2, <1>3, <3>2, Sizes
    <3>6. Holds(buffer', min_filepos, max_filepos + len, offset + BufferSize)
      BY <3>4, <3>5 DEF Holds
    <3>7. QED BY <1>2, <1>3, <2>1, <3>1, <3>2, <3>5, <3>6 DEF RingInv
  <2>4. CASE ~(FillPos + len >= BufferSize)
    <3>1. NextOffset' = offset /\ "offset" \notin todo'
      BY <1>2, <2>4 DEF NextOffset
    <3>2. max_filepos + len < offset + BufferSize
      BY <1>1, <1>3, <2>4, Sizes
    <3>3. /\ (max_filepos + len) - min_filepos <= BufferSize
          /\ offset <= max_filepos + len
          /\ upos' = max_filepos + len
      BY <1>1, <1>2, <1>3, Sizes
    <3>4. Holds(buffer', min_filepos, max_filepos + len, offset)
      BY <2>2, <3>2, <3>3 DEF Holds
    <3>5. QED BY <1>2, <1>3, <2>1, <3>1, <3>3, <3>4 DEF RingInv
  <2>5. QED BY <2>3, <2>4
<1>6. (TodoInv /\ DropInv /\ SizeInv /\ RoomInv /\ CopyInv)'
  BY DEF IInv, TodoInv, DropInv, SizeInv, RoomInv, CopyInv, Filling, FillCopied, player
<1>7. QED BY <1>4, <1>5, <1>6 DEF IInv

LEMMA FillPublishIInv == ASSUME IInv, NEW x, FillPublish(x) PROVE IInv'
<1>1. /\ fpc = "publish" /\ x \in todo /\ todo \subseteq {"eof", "max", "offset"}
      /\ todo' = todo \ {x}
      /\ x = "max" => max_filepos' = max_filepos + len
      /\ x # "max" => max_filepos' = max_filepos
      /\ x = "offset" => offset' = offset + BufferSize
      /\ x # "offset" => offset' = offset
      /\ buffer' = buffer /\ min_filepos' = min_filepos /\ upos' = upos
  BY DEF IInv, TodoInv, FillPublish, MayStore, Filling
<1>2. todo' # {} => len' = len /\ fpc' = "publish"
  BY DEF FillPublish
<1>3. todo' = {} => len' = 0 /\ fpc' = "control"
  BY DEF FillPublish, FillEnd
<1>4. len \in Nat /\ max_filepos \in Nat /\ offset \in Nat /\ min_filepos \in Nat
  BY Sizes DEF IInv, TypeOK
<1>5. TypeOK'
  <2>1. max_filepos' \in Nat /\ offset' \in Nat
    BY <1>1, <1>4, Sizes
  <2>2. read' \in Nat /\ fpc' \in {"publish", "control"}
    BY <1>1, <1>2, <1>3 DEF IInv, TypeOK, FillPublish, FillEnd
  <2>3. eof' \in BOOLEAN
    BY DEF IInv, TypeOK, FillPublish, EofFlag
  <2>4. todo' \subseteq {"eof", "max", "min", "offset"}
    BY <1>1
  <2>5. space' \in 0 .. 4 * Sector /\ len' \in 0 .. 4 * Sector
    BY Sizes DEF IInv, TypeOK, FillPublish, FillEnd
  <2>6. QED BY <1>1, <2>1, <2>2, <2>3, <2>4, <2>5 DEF IInv, TypeOK, FillPublish, player
<1>6. NextMax' = NextMax
  BY <1>1, <1>2, <1>3 DEF NextMax
<1>7. NextOffset' = NextOffset
  BY <1>1 DEF NextOffset
<1>8. RingInv'
  <2>1. Filling
    BY <1>1 DEF Filling
  <2>2. min_filepos' <= max_filepos'
    BY <1>1, <1>4, <2>1 DEF IInv, RingInv
  <2>3. Holds(buffer', min_filepos', NextMax', NextOffset')
    BY <1>1, <1>6, <1>7, <2>1 DEF IInv, RingInv
  <2>4. "offset" \in todo' => NextMax' = NextOffset'
    BY <1>1, <1>6, <1>7, <2>1 DEF IInv, RingInv
  <2>5. QED BY <1>1, <1>6, <2>1, <2>2, <2>3, <2>4 DEF IInv, RingInv
<1>9. (TodoInv /\ DropInv /\ SizeInv /\ RoomInv /\ CopyInv)'
  BY <1>1, <1>2, <1>3
  DEF IInv, TodoInv, DropInv, SizeInv, RoomInv, CopyInv, Filling, FillPublish, player
<1>10. QED BY <1>5, <1>8, <1>9 DEF IInv

-----------------------------------------------------------------------------
(* The player writes none of what RingInv speaks of; it may kill the       *)
(* filler.                                                                 *)
LEMMA PlayerKeepsRing ==
  ASSUME Player \/ Ended
  PROVE  /\ UNCHANGED <<buffer, min_filepos, max_filepos, offset, todo, read,
                        space, len, upos>>
         /\ fpc' \in {fpc, "dead"}
BY DEF Player, Working, Calls, Ended, PrefillCheck, PrefillWait, ClearEof, CheckMax,
       CheckMin, CheckEof, Wait, Interrupted, NewB, Locate, Copy, Advance, StartFill,
       ResetStream, Uninit, SeekLong, shared, filler, player, vars

LEMMA ReturnType ==
  ASSUME TypeOK, Return(got)
  PROVE  /\ ppc' = "idle" /\ pos' \in Nat /\ seof' \in BOOLEAN
         /\ sbuf' \in Seq(Nat \cup {Junk}) /\ got' \in Seq(Nat \cup {Junk})
<1>1. got \in Seq(Nat \cup {Junk}) /\ pos \in Nat
  BY DEF TypeOK
<1>2. Len(got) \in Nat
  BY <1>1
<1>3. pos' = pos + Len(got) /\ sbuf' = got /\ got' = <<>> /\ ppc' = "idle"
  BY DEF Return
<1>4. seof' \in BOOLEAN
  BY DEF Return
<1>5. <<>> \in Seq(Nat \cup {Junk})
  OBVIOUS
<1>6. QED BY <1>1, <1>2, <1>3, <1>4, <1>5

LEMMA PlayerType == ASSUME TypeOK, CopyInv, Player \/ Ended PROVE TypeOK' /\ CopyInv'
<1> USE DEF TypeOK, CopyInv, shared, filler, player
<1>1. CASE PrefillCheck
  BY <1>1 DEF PrefillCheck
<1>2. CASE PrefillWait
  BY <1>2 DEF PrefillWait
<1>3. CASE ClearEof
  BY <1>3 DEF ClearEof
<1>4. CASE CheckMax
  BY <1>4 DEF CheckMax
<1>5. CASE CheckMin
  BY <1>5 DEF CheckMin
<1>6. CASE CheckEof
  <2>1. CASE eof
    BY <1>6, <2>1, ReturnType DEF CheckEof
  <2>2. CASE ~eof
    BY <1>6, <2>2 DEF CheckEof
  <2>3. QED BY <2>1, <2>2
<1>7. CASE Wait
  BY <1>7 DEF Wait
<1>8. CASE Interrupted
  BY <1>8, ReturnType DEF Interrupted
<1>9. CASE NewB
  BY <1>9 DEF NewB
<1>10. CASE Locate
  <2>1. slot' \in Int /\ newb' \in Int
    BY <1>10, Sizes DEF Locate, SlotOf, Least
  <2>2. ppc' = "copy" => done' <= newb'
    BY <1>10, <2>1 DEF Locate
  <2>3. ppc' # "copy" => done' = 0
    BY <1>10 DEF Locate
  <2>4. ppc' \in {"crashed", "copy"}
    BY <1>10 DEF Locate
  <2>5. QED BY <1>10, <2>1, <2>2, <2>3, <2>4 DEF Locate
<1>11. CASE Copy
  <2>1. PICK u \in Nat \cup {Junk} : got' = Append(got, u)
    BY <1>11 DEF Copy
  <2>2. got' \in Seq(Nat \cup {Junk})
    BY <2>1
  <2>3. done' \in Nat /\ done' <= newb'
    BY <1>11 DEF Copy
  <2>4. QED BY <1>11, <2>2, <2>3 DEF Copy
<1>12. CASE Advance
  <2>1. read_filepos' \in Nat /\ newb' = 0 /\ slot' = 0 /\ done' = 0
    BY <1>12 DEF Advance
  <2>2. CASE Len(got) = Sector
    BY <1>12, <2>1, <2>2, ReturnType DEF Advance
  <2>3. CASE Len(got) # Sector
    BY <1>12, <2>1, <2>3 DEF Advance
  <2>4. QED BY <2>2, <2>3
<1>13. CASE StartFill
  BY <1>13 DEF StartFill
<1>14. CASE ResetStream
  <2>1. <<>> \in Seq(Nat \cup {Junk})
    OBVIOUS
  <2>2. QED BY <1>14, <2>1 DEF ResetStream
<1>15. CASE Uninit
  BY <1>15 DEF Uninit
<1>16. ASSUME NEW t \in SeekTargets, SeekLong(t) PROVE TypeOK' /\ CopyInv'
  <2>1. Align(t) \in Nat
    <3>1. t \in Nat /\ Sector \in Nat /\ Sector > 0
      BY SizesAssumption
    <3>2. t \div Sector \in Nat
      BY <3>1
    <3>3. QED BY <3>1, <3>2 DEF Align
  <2>2. QED BY <1>16, <2>1 DEF SeekLong
<1>17. CASE Ended
  BY <1>17 DEF Ended, vars
<1>18. QED BY <1>1, <1>2, <1>3, <1>4, <1>5, <1>6, <1>7, <1>8, <1>9, <1>10, <1>11,
             <1>12, <1>13, <1>14, <1>15, <1>16, <1>17 DEF Player, Working, Calls

LEMMA PlayerIInv == ASSUME IInv, Player \/ Ended PROVE IInv'
<1>1. TypeOK' /\ CopyInv'
  BY PlayerType DEF IInv
<1>2. /\ UNCHANGED <<buffer, min_filepos, max_filepos, offset, todo, read,
                     space, len, upos>>
      /\ fpc' \in {fpc, "dead"}
  BY PlayerKeepsRing
<1>3. NextMax' = NextMax /\ NextOffset' = NextOffset
  BY <1>2 DEF NextMax, NextOffset
<1>4. RingInv'
  <2>1. SUFFICES ASSUME Filling' PROVE RingInv'
    BY DEF RingInv
  <2>2. Filling
    BY <1>2, <2>1 DEF Filling
  <2>3. Holds(buffer', min_filepos', NextMax', NextOffset')
    BY <1>2, <1>3, <2>2 DEF IInv, RingInv
  <2>4. QED BY <1>2, <1>3, <2>2, <2>3 DEF IInv, RingInv
<1>5. (TodoInv /\ DropInv /\ SizeInv /\ RoomInv)'
  BY <1>2 DEF IInv, TodoInv, DropInv, SizeInv, RoomInv, Filling
<1>6. QED BY <1>1, <1>4, <1>5 DEF IInv

LEMMA FillerIInv == ASSUME IInv, Filler PROVE IInv'
<1>1. ASSUME NEW x, FillDrop(x) \/ FillPublish(x) PROVE IInv'
  BY <1>1, FillDropIInv, FillPublishIInv
<1>2. ASSUME NEW n \in 0 .. 4 * Sector, FillRead(n) PROVE IInv'
  BY <1>2, FillReadIInv
<1>3. QED BY <1>1, <1>2, FillLoopIInv, FillTopIInv, FillSeekIInv, FillFullIInv,
             FillTrimIInv, FillCopiedIInv DEF Filler

LEMMA StutterIInv == ASSUME IInv, UNCHANGED vars PROVE IInv'
<1> USE DEF IInv, vars, shared, filler, player
<1>1. TypeOK' /\ CopyInv'
  BY DEF TypeOK, CopyInv
<1>2. NextMax' = NextMax /\ NextOffset' = NextOffset /\ Filling' = Filling
  BY DEF NextMax, NextOffset, Filling
<1>3. RingInv'
  <2>1. Filling => Holds(buffer', min_filepos', NextMax', NextOffset')
    BY <1>2 DEF RingInv
  <2>2. QED BY <1>2, <2>1 DEF RingInv
<1>4. (TodoInv /\ DropInv /\ SizeInv /\ RoomInv)'
  BY <1>2 DEF TodoInv, DropInv, SizeInv, RoomInv
<1>5. QED BY <1>1, <1>3, <1>4

(* The invariant is inductive.                                             *)
THEOREM Inductive == Spec => []IInv
<1>1. Init => IInv
  BY InitIInv
<1>2. IInv /\ [Next]_vars => IInv'
  BY FillerIInv, PlayerIInv, StutterIInv DEF Next
<1>3. QED BY <1>1, <1>2, PTL DEF Spec

(* Every variable keeps its type; in particular a block never exceeds four *)
(* sectors and the read position never becomes negative.                   *)
THEOREM TypeCorrect == Spec => []TypeOK
<1>1. IInv => TypeOK
  BY DEF IInv
<1>2. QED BY <1>1, Inductive, PTL

(* Where a published position lies does not depend on whether the offset   *)
(* of a wrap has been stored yet.                                          *)
LEMMA WindowSlot ==
  ASSUME IInv, Filling, NEW p \in min_filepos .. max_filepos - 1
  PROVE  /\ p \in Int /\ NextOffset \in Nat
         /\ NextOffset - BufferSize <= p /\ p < NextOffset + BufferSize
         /\ SlotOf(p, offset) = SlotOf(p, NextOffset)
         /\ buffer[SlotOf(p, offset)] = p
<1>1. /\ Holds(buffer, min_filepos, NextMax, NextOffset)
      /\ "offset" \in todo => NextMax = NextOffset
      /\ min_filepos \in Nat /\ max_filepos \in Nat /\ offset \in Nat /\ len \in Nat
  BY Sizes DEF IInv, TypeOK, RingInv, Filling
<1>2. NextMax \in Nat /\ max_filepos <= NextMax /\ NextOffset \in Nat
  BY <1>1, Sizes DEF NextMax, NextOffset
<1>3. p \in Int /\ p \in min_filepos .. NextMax - 1
  BY <1>1, <1>2
<1>4. buffer[SlotOf(p, NextOffset)] = p
  BY <1>1, <1>3 DEF Holds
<1>5. /\ NextMax - min_filepos <= BufferSize
      /\ NextOffset <= NextMax /\ NextMax < NextOffset + BufferSize
  BY <1>1 DEF Holds
<1>6. NextOffset - BufferSize <= p /\ p < NextOffset + BufferSize
  BY <1>1, <1>2, <1>3, <1>5, Sizes
<1>7. CASE "offset" \notin todo
  BY <1>2, <1>3, <1>4, <1>6, <1>7 DEF NextOffset
<1>8. CASE "offset" \in todo
  <2>1. NextOffset = offset + BufferSize /\ NextMax = offset + BufferSize
    BY <1>1, <1>8 DEF NextOffset
  <2>2. offset <= p /\ p < offset + BufferSize
    BY <1>1, <1>2, <1>3, <1>5, <2>1, Sizes
  <2>3. SlotOf(p, offset) = SlotOf(p, NextOffset)
    BY <1>1, <1>3, <2>1, <2>2, SlotLap
  <2>4. QED BY <1>2, <1>3, <1>4, <1>6, <2>3
<1>9. QED BY <1>7, <1>8

(* cache_fill: the published window is in the ring, for every ring, sector *)
(* and file size, every seek, interrupt and short read, and for either     *)
(* order of the two stores that publish a wrap.                            *)
THEOREM WindowCorrect == Spec => []WindowHolds
<1>1. IInv => WindowHolds
  <2> SUFFICES ASSUME IInv, fpc \notin {"drop", "dead"}
               PROVE  /\ min_filepos <= max_filepos
                      /\ max_filepos - min_filepos <= BufferSize
                      /\ \A p \in min_filepos .. max_filepos - 1 :
                           buffer[SlotOf(p, offset)] = p
    BY DEF WindowHolds
  <2>1. /\ Filling /\ min_filepos <= max_filepos
        /\ NextMax - min_filepos <= BufferSize
        /\ min_filepos \in Nat /\ max_filepos \in Nat /\ len \in Nat
    BY Sizes DEF IInv, TypeOK, RingInv, Filling, Holds
  <2>2. NextMax \in Nat /\ max_filepos <= NextMax
    BY <2>1 DEF NextMax
  <2>3. max_filepos - min_filepos <= BufferSize
    BY <2>1, <2>2, Sizes
  <2>4. QED BY <2>1, <2>3, WindowSlot
<1>2. QED BY <1>1, Inductive, PTL

(* cache_fill keeps back_size bytes behind the position it works with      *)
(* whenever it gives up old ones ("we should keep back_size amount of old  *)
(* bytes for backward seek").                                              *)
THEOREM BackKeptCorrect == Spec => BackKept
<1>1. ASSUME IInv, fpc = "size", Next, min_filepos' # min_filepos
      PROVE  read - min_filepos' >= BackSize
  <2>1. FillTrim
    BY <1>1 DEF Next, Filler, FillLoop, FillTop, FillDrop, FillSeek, FillFull, FillCopied,
       FillRead, FillPublish, Player, Working, Calls, Ended, PrefillCheck,
       PrefillWait, ClearEof, CheckMax, CheckMin, CheckEof, Wait, Interrupted, NewB,
       Locate, Copy, Advance, StartFill, ResetStream, Uninit, SeekLong, shared, filler,
       player, vars
  <2>2. /\ min_filepos \in Nat /\ max_filepos \in Nat /\ offset \in Nat /\ read \in Nat
        /\ min_filepos <= read
    BY <1>1 DEF IInv, TypeOK, SizeInv
  <2>3. /\ BackBytes \in Nat
        /\ read - min_filepos <= BackSize => BackBytes = read - min_filepos
        /\ read - min_filepos >= BackSize => BackBytes = BackSize
    BY <2>2, Sizes DEF BackBytes, Least, Most
  <2>4. NewBytes \in Nat
    BY <2>2 DEF NewBytes, Most
  <2>5. BlockSize \in Int /\ BlockSize <= FreeSpace
    BY <2>2, <2>3, <2>4, Sizes DEF BlockSize, FreeSpace, FillPos, Least
  <2>6. KeptFrom \in Int /\ KeptFrom <= read - BackBytes
    BY <2>2, <2>3, <2>4, <2>5, Sizes DEF KeptFrom, FreeSpace
  <2>7. min_filepos' = Most(min_filepos, KeptFrom)
    BY <2>1 DEF FillTrim
  <2>8. min_filepos' = KeptFrom /\ KeptFrom > min_filepos
    BY <1>1, <2>2, <2>6, <2>7 DEF Most
  <2>9. BackBytes = BackSize
    BY <2>2, <2>3, <2>6, <2>8, Sizes
  <2>10. QED BY <2>2, <2>6, <2>8, <2>9, Sizes
<1>2. IInv /\ [Next]_vars =>
        [fpc = "size" /\ min_filepos' # min_filepos => read - min_filepos' >= BackSize]_vars
  BY <1>1
<1>3. QED BY <1>2, Inductive, PTL DEF Spec, BackKept
-----------------------------------------------------------------------------
(* The player, when the demuxer seeks forward only                         *)

(* The player found data and has not finished copying it.                  *)
Past == ppc \in {"checkMin", "newb", "locate", "copy"}

(* The filler works with a read position the player may have left behind,  *)
(* never with one ahead of it, and so never trims past the player; it      *)
(* drops the ring only when the player is beyond its end and waits.        *)
BehindInv ==
  /\ read <= read_filepos /\ min_filepos <= read_filepos
  /\ fpc = "drop" => max_filepos <= read /\ ~Past
  /\ fpc = "dead" => ppc = "closed"

(* What the player found stays there.                                      *)
SeenInv ==
  /\ ppc \in {"checkMin", "newb"} =>
       read_filepos < seenmax /\ seenmax <= max_filepos
  /\ ppc \in {"locate", "copy"} => 1 <= newb /\ read_filepos + newb <= max_filepos

(* The slots it copies are those of the positions it reads.                *)
SlotInv ==
  ppc = "copy" =>
    /\ slot \in Slots /\ slot + newb <= BufferSize
    /\ \A i \in 0 .. newb - 1 : slot + i = SlotOf(read_filepos + i, NextOffset)

(* What has been copied is the file from stream->pos on.                   *)
GotInv ==
  /\ ppc \notin {"reset", "closed"} => read_filepos + done = pos + Len(got)
  /\ ppc \in {"prefill", "prefillWait", "idle", "reset", "clearEof"} => got = <<>>
  /\ ppc \in {"prefill", "prefillWait"} => sbuf = <<>>
  /\ Len(got) < Sector \/ ppc = "copy"
  /\ ppc = "copy" => Len(got) + (newb - done) <= Sector
  /\ \A i \in 1 .. Len(got) : got[i] = pos + i - 1
  /\ ppc # "crashed"

ReaderInv == BehindInv /\ SeenInv /\ SlotInv /\ GotInv

-----------------------------------------------------------------------------
LEMMA InitReaderInv == Init => ReaderInv
<1> SUFFICES ASSUME Init PROVE ReaderInv
  OBVIOUS
<1>1. Len(got) = 0 /\ Len(sbuf) = 0
  BY DEF Init
<1>2. BehindInv /\ SeenInv /\ SlotInv
  BY DEF Init, BehindInv, SeenInv, SlotInv, Past
<1>3. GotInv
  BY <1>1, Sizes DEF Init, GotInv
<1>4. QED BY <1>2, <1>3 DEF ReaderInv

(* Every step of the filler leaves the player its data: the window's end   *)
(* only moves up, its start stays behind the player, and the slot of no    *)
(* published position changes.                                             *)
FillerOK ==
  /\ UNCHANGED <<read_filepos, player>>
  /\ fpc' # "dead"
  /\ read' <= read_filepos /\ min_filepos' <= read_filepos
  /\ max_filepos <= max_filepos'
  /\ fpc' = "drop" => max_filepos' <= read' /\ (fpc = "drop" \/ max_filepos <= read_filepos)
  /\ fpc # "drop" /\ fpc' # "drop" =>
       \A p \in min_filepos .. max_filepos - 1 :
         SlotOf(p, NextOffset') = SlotOf(p, NextOffset)

LEMMA FillerSteps ==
  ASSUME IInv, BehindInv, Filler, fpc # "dead"
  PROVE  FillerOK
<1> USE DEF FillerOK
<1>1. /\ min_filepos \in Nat /\ max_filepos \in Nat /\ offset \in Nat /\ read \in Nat
      /\ read_filepos \in Nat /\ len \in Nat /\ len <= 4 * Sector
      /\ read <= read_filepos /\ min_filepos <= read_filepos
  BY Sizes DEF IInv, TypeOK, BehindInv
<1>2. CASE FillLoop
  BY <1>1, <1>2 DEF FillLoop, shared, player, NextOffset
<1>3. CASE FillTop
  <2>1. /\ read' = read_filepos /\ UNCHANGED <<shared, player>>
        /\ fpc' = "drop" => max_filepos + SeekLimit <= read_filepos
    BY <1>1, <1>3, Sizes DEF FillTop
  <2>2. todo = {} /\ (todo' = {} \/ fpc' = "drop")
    BY <1>3 DEF FillTop, IInv, TodoInv, Filling
  <2>3. fpc' # "dead" /\ fpc = "top"
    BY <1>3 DEF FillTop
  <2>4. NextOffset = offset
    BY <2>2 DEF NextOffset
  <2>5. CASE fpc' = "drop"
    <3>1. todo' = {"max", "min", "offset"} /\ max_filepos <= read_filepos
      BY <1>1, <1>3, <2>1, <2>5, Sizes DEF FillTop
    <3>2. QED BY <1>1, <2>1, <2>3, <2>5, <3>1 DEF shared
  <2>6. CASE fpc' # "drop"
    BY <1>1, <2>1, <2>2, <2>3, <2>6 DEF shared, NextOffset
  <2>7. QED BY <2>5, <2>6
<1>4. ASSUME NEW x, FillDrop(x) PROVE FillerOK
  <2>1. max_filepos <= read /\ fpc = "drop"
    BY <1>4 DEF FillDrop, BehindInv
  <2>2. max_filepos' \in {max_filepos, read} /\ min_filepos' \in {min_filepos, read}
    BY <1>4 DEF FillDrop
  <2>3. QED BY <1>1, <1>4, <2>1, <2>2 DEF FillDrop
<1>5. CASE FillSeek
  BY <1>1, <1>5 DEF FillSeek, shared, player
<1>6. CASE FillFull
  BY <1>1, <1>6 DEF FillFull, FillEnd, shared, player, NextOffset
<1>7. CASE FillTrim
  <2>1. /\ BackBytes \in Nat /\ NewBytes \in Nat
    BY <1>1, Sizes DEF BackBytes, NewBytes, Least, Most
  <2>2. BlockSize \in Int /\ BlockSize <= FreeSpace
    BY <1>1, <2>1, Sizes DEF BlockSize, FreeSpace, FillPos, Least
  <2>3. KeptFrom \in Int /\ KeptFrom <= read
    BY <1>1, <2>1, <2>2, Sizes DEF KeptFrom, FreeSpace
  <2>4. Most(min_filepos, KeptFrom) <= read_filepos
    BY <1>1, <2>3 DEF Most
  <2>5. QED BY <1>1, <1>7, <2>4 DEF FillTrim, player, NextOffset
<1>8. ASSUME NEW n, FillRead(n) PROVE FillerOK
  BY <1>1, <1>8 DEF FillRead, player, NextOffset
<1>9. CASE FillCopied
  <2>1. /\ fpc = "copy" /\ todo = {} /\ NextOffset = offset
        /\ max_filepos + len - min_filepos <= BufferSize
        /\ offset <= max_filepos
        /\ FillPos = max_filepos - offset
    <3>1. fpc = "copy" /\ len <= space
      BY <1>9 DEF FillCopied, IInv, RoomInv
    <3>2. QED BY <1>1, <3>1, BlockSlots
  <2>2. CASE FillPos + len >= BufferSize
    <3>1. NextOffset' = offset + BufferSize
      BY <1>9, <2>2 DEF FillCopied, NextOffset
    <3>2. ASSUME NEW p \in min_filepos .. max_filepos - 1
          PROVE  SlotOf(p, NextOffset') = SlotOf(p, NextOffset)
      <4>1. p \in Int /\ offset \in Int /\ offset <= p
        BY <1>1, <2>1, <2>2, Sizes
      <4>2. p < offset + BufferSize
        BY <2>1, WindowSlot DEF Filling
      <4>3. SlotOf(p, offset) = SlotOf(p, offset + BufferSize)
        BY <4>1, <4>2, SlotLap
      <4>4. QED BY <2>1, <3>1, <4>3
    <3>3. QED BY <1>1, <1>9, <3>2 DEF FillCopied, player
  <2>3. CASE ~(FillPos + len >= BufferSize)
    <3>1. NextOffset' = offset
      BY <1>9, <2>3 DEF FillCopied, NextOffset
    <3>2. QED BY <1>1, <1>9, <2>1, <3>1 DEF FillCopied, player
  <2>4. QED BY <2>2, <2>3
<1>10. ASSUME NEW x, FillPublish(x) PROVE FillerOK
  <2>1. x \in todo /\ todo' = todo \ {x} /\ fpc = "publish"
    BY <1>10 DEF FillPublish, MayStore
  <2>2. NextOffset' = NextOffset
    BY <1>10, <2>1 DEF FillPublish, NextOffset
  <2>3. max_filepos' \in {max_filepos, max_filepos + len}
    BY <1>10 DEF FillPublish
  <2>4. fpc' \in {"publish", "control"} /\ read' \in {read, 0}
    BY <1>10, <2>1 DEF FillPublish, FillEnd
  <2>5. UNCHANGED <<read_filepos, player>> /\ min_filepos' = min_filepos
    BY <1>10 DEF FillPublish
  <2>6. QED BY <1>1, <2>2, <2>3, <2>4, <2>5
<1>11. QED BY <1>2, <1>3, <1>4, <1>5, <1>6, <1>7, <1>8, <1>9, <1>10 DEF Filler

LEMMA FillerReaderInv ==
  ASSUME IInv, ReaderInv, Filler, fpc # "dead"
  PROVE  ReaderInv'
<1>1. FillerOK
  BY FillerSteps DEF ReaderInv
<1>2. /\ read_filepos' = read_filepos /\ ppc' = ppc /\ pos' = pos /\ sbuf' = sbuf
      /\ got' = got /\ seenmax' = seenmax /\ newb' = newb /\ slot' = slot /\ done' = done
  BY <1>1 DEF FillerOK, player
<1>3. /\ min_filepos \in Nat /\ max_filepos \in Nat /\ read_filepos \in Nat
      /\ seenmax \in Nat /\ newb \in Int
  BY DEF IInv, TypeOK
<1>4. /\ max_filepos' \in Nat /\ max_filepos <= max_filepos'
  BY <1>1, FillerIInv DEF FillerOK, IInv, TypeOK
<1>5. Past => fpc # "drop" /\ read_filepos < max_filepos
  BY <1>3 DEF ReaderInv, BehindInv, SeenInv, Past
<1>6. Past => fpc' # "drop"
  BY <1>1, <1>3, <1>5 DEF FillerOK
<1>7. BehindInv'
  <2>1. Past' = Past
    BY <1>2 DEF Past
  <2>2. QED BY <1>1, <1>2, <1>6, <2>1 DEF FillerOK, BehindInv
<1>8. SeenInv'
  BY <1>2, <1>3, <1>4 DEF ReaderInv, SeenInv
<1>9. SlotInv'
  <2>1. SUFFICES ASSUME ppc = "copy" PROVE SlotInv'
    BY <1>2 DEF SlotInv
  <2>2. ASSUME NEW i \in 0 .. newb - 1
        PROVE  slot + i = SlotOf(read_filepos + i, NextOffset')
    <3>1. read_filepos + i \in min_filepos .. max_filepos - 1
      BY <1>3, <2>1 DEF ReaderInv, SeenInv, BehindInv
    <3>2. SlotOf(read_filepos + i, NextOffset') = SlotOf(read_filepos + i, NextOffset)
      BY <1>1, <1>5, <1>6, <2>1, <3>1 DEF FillerOK, Past
    <3>3. QED BY <2>1, <3>2 DEF ReaderInv, SlotInv
  <2>3. slot \in Slots /\ slot + newb <= BufferSize
    BY <2>1 DEF ReaderInv, SlotInv
  <2>4. QED BY <1>2, <2>2, <2>3 DEF SlotInv, SlotOf, Slots
<1>10. GotInv'
  BY <1>2 DEF ReaderInv, GotInv
<1>11. QED BY <1>7, <1>8, <1>9, <1>10 DEF ReaderInv

-----------------------------------------------------------------------------
(* cache_read returns what it copied: the sector the demuxer gets.         *)
LEMMA ReturnReader ==
  ASSUME IInv, GotInv, Return(got), done' = 0, read_filepos' = pos + Len(got)
  PROVE  SeenInv' /\ SlotInv' /\ GotInv'
<1>1. /\ ppc' = "idle" /\ sbuf' = got /\ pos' = pos + Len(got) /\ got' = <<>>
  BY DEF Return
<1>2. pos \in Nat /\ Len(got) \in Nat /\ got \in Seq(Nat \cup {Junk})
  BY DEF IInv, TypeOK
<1>3. Len(got') = 0
  BY <1>1
<1>4. GotInv'
  BY <1>1, <1>2, <1>3, Sizes DEF GotInv
<1>5. SeenInv' /\ SlotInv'
  BY <1>1 DEF SeenInv, SlotInv
<1>6. QED BY <1>4, <1>5

(* What the player does never lets the filler get ahead of it, and finds   *)
(* data only in a ring that is not being dropped.                          *)
LEMMA PlayerBehind ==
  ASSUME IInv, BehindInv, SeenInv, ~Backward, Player
  PROVE  BehindInv'
<1>1. /\ min_filepos \in Nat /\ max_filepos \in Nat /\ read \in Nat /\ newb \in Int
      /\ read_filepos \in Nat /\ read <= read_filepos /\ min_filepos <= read_filepos
  BY DEF IInv, TypeOK, BehindInv
<1>2. /\ UNCHANGED <<min_filepos, max_filepos, read>>
      /\ fpc' \in {fpc, "dead"}
  BY PlayerKeepsRing
<1>3. /\ read_filepos' \in Nat /\ read_filepos <= read_filepos'
  <2>1. CASE Advance
    BY <1>1, <2>1 DEF Advance, SeenInv
  <2>2. ASSUME NEW t \in SeekTargets, SeekLong(t) PROVE read_filepos <= read_filepos'
    BY <1>1, <2>2 DEF SeekLong
  <2>3. CASE Working /\ ~Advance
    BY <1>1, <2>3 DEF Working, PrefillCheck, PrefillWait, ClearEof, CheckMax, CheckMin,
       CheckEof, Wait, Interrupted, NewB, Locate, Copy, shared
  <2>4. CASE StartFill \/ ResetStream \/ Uninit
    BY <1>1, <2>4 DEF StartFill, ResetStream, Uninit, shared
  <2>5. read_filepos' \in Nat
    BY PlayerIInv DEF IInv, TypeOK
  <2>6. QED BY <2>1, <2>2, <2>3, <2>4, <2>5 DEF Player, Calls
<1>4. fpc = "drop" => ~Past'
  <2>1. CASE CheckMax
    BY <1>1, <2>1 DEF CheckMax, BehindInv, Past
  <2>2. CASE Working /\ ~CheckMax
    BY <2>2 DEF BehindInv, Past, Working, PrefillCheck, PrefillWait, ClearEof, CheckMin,
       CheckEof, Wait, Interrupted, NewB, Locate, Copy, Advance, Return
  <2>3. CASE Calls
    BY <2>3 DEF Past, Calls, StartFill, ResetStream, Uninit, SeekLong
  <2>4. QED BY <2>1, <2>2, <2>3 DEF Player
<1>5. fpc' = "dead" => ppc' = "closed"
  BY DEF BehindInv, Player, Working, Calls, PrefillCheck, PrefillWait, ClearEof, CheckMax,
     CheckMin, CheckEof, Wait, Interrupted, NewB, Locate, Copy, Advance, StartFill,
     ResetStream, Uninit, SeekLong, filler
<1>6. fpc' = "drop" => max_filepos' <= read' /\ ~Past'
  BY <1>2, <1>4 DEF BehindInv
<1>7. read' <= read_filepos' /\ min_filepos' <= read_filepos'
  BY <1>1, <1>2, <1>3
<1>8. QED BY <1>5, <1>6, <1>7 DEF BehindInv

(* Slots follow each other up to the end of the ring.                      *)
LEMMA SlotsFollow ==
  ASSUME NEW p \in Int, NEW o \in Int, NEW i \in Nat,
         o - BufferSize <= p, p < o + BufferSize,
         o - BufferSize <= p + i, p + i < o + BufferSize,
         SlotOf(p, o) + i < BufferSize
  PROVE  SlotOf(p, o) + i = SlotOf(p + i, o)
BY Sizes DEF SlotOf

(* Locate finds the slots of the positions it is about to copy: the window *)
(* is in the ring, and the block is clipped at the ring's end.             *)
LEMMA LocateReader ==
  ASSUME IInv, ReaderInv, Locate
  PROVE  SeenInv' /\ SlotInv' /\ GotInv'
<1> DEFINE rp == read_filepos
<1>1. /\ ppc = "locate" /\ slot' = SlotOf(rp, offset)
      /\ newb' = Least(Least(newb, BufferSize - slot'), Sector - Len(got))
      /\ ppc' = IF newb' < 0 THEN "crashed" ELSE "copy"
      /\ UNCHANGED <<shared, filler, pos, sbuf, seof, got, seenmax, done>>
  BY DEF Locate
<1>2. /\ min_filepos \in Nat /\ max_filepos \in Nat /\ rp \in Nat /\ newb \in Int
      /\ min_filepos <= rp /\ 1 <= newb /\ rp + newb <= max_filepos
      /\ Len(got) \in Nat /\ Len(got) < Sector /\ done = 0 /\ pos \in Nat
  BY <1>1 DEF IInv, TypeOK, CopyInv, ReaderInv, BehindInv, SeenInv, GotInv
<1>3. Filling
  BY <1>1 DEF ReaderInv, BehindInv, Past, Filling
<1>4. ASSUME NEW i \in 0 .. newb - 1
      PROVE  NextOffset \in Nat /\ NextOffset - BufferSize <= rp + i
             /\ rp + i < NextOffset + BufferSize
  <2>1. rp + i \in min_filepos .. max_filepos - 1
    BY <1>2
  <2>2. QED BY <1>3, <2>1, WindowSlot
<1>5. slot' = SlotOf(rp, NextOffset)
  <2>1. rp \in min_filepos .. max_filepos - 1
    BY <1>2
  <2>2. QED BY <1>1, <1>3, <2>1, WindowSlot
<1>6. NextOffset \in Nat /\ NextOffset - BufferSize <= rp /\ rp < NextOffset + BufferSize
  <2>1. rp \in min_filepos .. max_filepos - 1
    BY <1>2
  <2>2. QED BY <1>3, <2>1, WindowSlot
<1>7. PICK s \in 0 .. BufferSize - 1 : s = slot' /\ s = SlotOf(rp, NextOffset)
  <2>1. SlotOf(rp, NextOffset) \in 0 .. BufferSize - 1
    BY <1>2, <1>6, Sizes DEF SlotOf
  <2>2. QED BY <1>5, <2>1
<1>8. PICK n \in Int : /\ n = newb' /\ 1 <= n /\ n <= newb /\ n <= BufferSize - s
                       /\ n <= Sector - Len(got)
  <2>1. BufferSize - s \in Int /\ BufferSize - s >= 1
    BY <1>7, Sizes
  <2>2. Sector - Len(got) \in Int /\ Sector - Len(got) >= 1
    BY <1>2, Sizes
  <2>3. newb' = Least(Least(newb, BufferSize - s), Sector - Len(got))
    BY <1>1, <1>7
  <2>4. QED BY <1>2, <2>1, <2>2, <2>3 DEF Least
<1>9. /\ 1 <= n /\ n <= newb /\ n + s <= BufferSize /\ n + Len(got) <= Sector
       /\ s \in Slots
  <2>1. n <= BufferSize - s /\ s \in Int /\ BufferSize \in Int
    BY <1>8, Sizes
  <2>2. n <= Sector - Len(got) /\ Sector \in Int
    BY <1>8, Sizes
  <2>3. n + s <= BufferSize
    BY <2>1
  <2>4. n + Len(got) <= Sector
    BY <1>2, <2>2
  <2>5. QED BY <1>8, <2>3, <2>4 DEF Slots
<1>10. ppc' = "copy"
  BY <1>1, <1>8
<1>11. UNCHANGED <<read_filepos, max_filepos, pos, sbuf, got, seenmax, done, todo, offset>>
  BY <1>1 DEF shared, filler
<1>12. NextOffset' = NextOffset
  BY <1>11 DEF NextOffset
<1>13. SeenInv'
  <2>1. 1 <= n /\ rp + n <= max_filepos
    BY <1>2, <1>9
  <2>2. 1 <= newb' /\ read_filepos' + newb' <= max_filepos'
    BY <1>8, <1>11, <2>1
  <2>3. QED BY <1>10, <2>2 DEF SeenInv
<1>14. SlotInv'
  <2>1. ASSUME NEW i \in 0 .. n - 1 PROVE s + i = SlotOf(rp + i, NextOffset)
    <3>1. i \in 0 .. newb - 1 /\ s + i < BufferSize /\ i \in Nat
      BY <1>2, <1>9, Sizes
    <3>2. SlotOf(rp, NextOffset) + i < BufferSize
      BY <1>7, <3>1
    <3>3. /\ NextOffset \in Int /\ rp \in Int /\ NextOffset - BufferSize <= rp + i
          /\ rp + i < NextOffset + BufferSize
      BY <1>2, <1>4, <3>1
    <3>4. SlotOf(rp, NextOffset) + i = SlotOf(rp + i, NextOffset)
      BY <1>6, <3>1, <3>2, <3>3, SlotsFollow
    <3>5. QED BY <1>7, <3>4
  <2>2. s + n <= BufferSize /\ s \in Slots
    BY <1>9, Sizes
  <2>3. slot' + newb' <= BufferSize /\ slot' \in Slots
    BY <1>7, <1>8, <2>2
  <2>4. \A i \in 0 .. newb' - 1 : slot' + i = SlotOf(rp + i, NextOffset)
    BY <1>7, <1>8, <2>1
  <2>5. QED BY <1>11, <1>12, <2>3, <2>4 DEF SlotInv, SlotOf, Slots
<1>15. GotInv'
  <2>1. Len(got) + (n - 0) <= Sector
    BY <1>2, <1>9, Sizes
  <2>2. Len(got') + (newb' - done') <= Sector
    BY <1>2, <1>8, <1>11, <2>1
  <2>3. read_filepos' + done' = pos' + Len(got')
    BY <1>1, <1>11 DEF ReaderInv, GotInv
  <2>4. \A i \in 1 .. Len(got') : got'[i] = pos' + i - 1
    BY <1>11 DEF ReaderInv, GotInv
  <2>5. QED BY <1>10, <2>2, <2>3, <2>4 DEF GotInv
<1>16. QED BY <1>13, <1>14, <1>15

(* memcpy copies the file: each slot holds the position it is read for.    *)
LEMMA CopyReader ==
  ASSUME IInv, ReaderInv, Copy
  PROVE  SeenInv' /\ SlotInv' /\ GotInv'
<1> DEFINE q == read_filepos + done
<1>1. /\ ppc = "copy" /\ done < newb /\ done' = done + 1
      /\ got' = Append(got, IF slot + done \in Slots THEN buffer[slot + done] ELSE Junk)
      /\ UNCHANGED <<shared, filler, ppc, pos, sbuf, seof, seenmax, newb, slot>>
  BY DEF Copy
<1>2. /\ min_filepos \in Nat /\ max_filepos \in Nat /\ read_filepos \in Nat
      /\ newb \in Int /\ done \in Nat /\ done < newb /\ pos \in Nat
      /\ min_filepos <= read_filepos /\ read_filepos + newb <= max_filepos
      /\ got \in Seq(Nat \cup {Junk}) /\ Len(got) \in Nat
      /\ q = pos + Len(got) /\ Len(got) + (newb - done) <= Sector
      /\ slot \in Slots /\ slot + newb <= BufferSize
      /\ slot + done = SlotOf(q, NextOffset)
  BY <1>1 DEF IInv, TypeOK, ReaderInv, BehindInv, SeenInv, GotInv, SlotInv
<1>3. Filling
  BY <1>1 DEF ReaderInv, BehindInv, Past, Filling
<1>4. q \in min_filepos .. max_filepos - 1
  BY <1>2
<1>5. buffer[slot + done] = q
  BY <1>2, <1>3, <1>4, WindowSlot
<1>6. slot + done \in Slots
  BY <1>2, Sizes DEF Slots
<1>7. got' = Append(got, q) /\ q \in Nat
  BY <1>1, <1>2, <1>5, <1>6
<1>8. Len(got') = Len(got) + 1
  BY <1>2, <1>7
<1>9. ASSUME NEW i \in 1 .. Len(got') PROVE got'[i] = pos + i - 1
  <2>1. CASE i \in 1 .. Len(got)
    BY <1>2, <1>7, <2>1 DEF ReaderInv, GotInv
  <2>2. CASE i = Len(got) + 1
    BY <1>2, <1>7, <2>2
  <2>3. QED BY <1>2, <1>8, <2>1, <2>2
<1>10. UNCHANGED <<read_filepos, max_filepos, pos, ppc, sbuf, seenmax, newb, slot, todo,
                   offset>>
  BY <1>1 DEF shared, filler
<1>11. GotInv'
  <2>1. Len(got') + (newb' - done') <= Sector
    BY <1>1, <1>2, <1>8, <1>10, Sizes
  <2>2. read_filepos' + done' = pos' + Len(got')
    BY <1>1, <1>2, <1>8, <1>10
  <2>3. QED BY <1>1, <1>9, <1>10, <2>1, <2>2 DEF GotInv
<1>12. SeenInv'
  BY <1>10 DEF ReaderInv, SeenInv
<1>13. SlotInv'
  <2>1. NextOffset' = NextOffset
    BY <1>10 DEF NextOffset
  <2>2. QED BY <1>10, <2>1 DEF ReaderInv, SlotInv, SlotOf, Slots
<1>14. QED BY <1>11, <1>12, <1>13

(* The other steps of the player.                                          *)
LEMMA AdvanceReader ==
  ASSUME IInv, ReaderInv, Advance
  PROVE  SeenInv' /\ SlotInv' /\ GotInv'
<1>1. /\ ppc = "copy" /\ done = newb /\ read_filepos' = read_filepos + newb
      /\ newb' = 0 /\ slot' = 0 /\ done' = 0
  BY DEF Advance
<1>2. /\ read_filepos + done = pos + Len(got) /\ Len(got) + (newb - done) <= Sector
      /\ pos \in Nat /\ Len(got) \in Nat /\ newb \in Int /\ done \in Nat
  BY <1>1 DEF IInv, TypeOK, ReaderInv, GotInv
<1>3. read_filepos' = pos + Len(got)
  BY <1>1, <1>2
<1>4. CASE Len(got) = Sector
  <2>1. Return(got)
    BY <1>4 DEF Advance
  <2>2. QED BY <1>1, <1>3, <2>1, ReturnReader DEF ReaderInv
<1>5. CASE Len(got) # Sector
  <2>1. ppc' = "check" /\ UNCHANGED <<pos, sbuf, seof, got>>
    BY <1>5 DEF Advance
  <2>2. Len(got) < Sector
    BY <1>1, <1>2, <1>5, Sizes
  <2>3. read_filepos' + 0 = pos + Len(got)
    BY <1>2, <1>3
  <2>4. GotInv'
    BY <1>1, <2>1, <2>2, <2>3 DEF ReaderInv, GotInv
  <2>5. QED BY <2>1, <2>4 DEF SeenInv, SlotInv
<1>6. QED BY <1>4, <1>5

LEMMA SeekReader ==
  ASSUME IInv, ReaderInv, NEW t \in SeekTargets, SeekLong(t)
  PROVE  SeenInv' /\ SlotInv' /\ GotInv'
<1>1. /\ ppc \in {"idle", "reset"} /\ ppc' = "clearEof" /\ pos' = read_filepos'
      /\ UNCHANGED <<got, done>> /\ got = <<>> /\ done = 0
  BY DEF SeekLong, IInv, CopyInv, ReaderInv, GotInv
<1>2. Len(got') = 0 /\ pos' \in Nat
  BY <1>1, PlayerIInv DEF IInv, TypeOK, Player, Calls
<1>3. GotInv'
  BY <1>1, <1>2, Sizes DEF GotInv
<1>4. QED BY <1>1, <1>3 DEF SeenInv, SlotInv

LEMMA PlayerReaderInv ==
  ASSUME IInv, ReaderInv, ~Backward, Player
  PROVE  ReaderInv'
<1> SUFFICES SeenInv' /\ SlotInv' /\ GotInv'
  BY PlayerBehind DEF ReaderInv
<1>1. CASE PrefillCheck \/ PrefillWait
  BY <1>1, Sizes DEF PrefillCheck, PrefillWait, shared, filler, ReaderInv, SeenInv, SlotInv,
     GotInv
<1>2. CASE StartFill \/ ClearEof \/ (CheckEof /\ ~eof) \/ Wait
  BY <1>2, Sizes DEF StartFill, ClearEof, CheckEof, Wait, shared, filler, ReaderInv, SeenInv,
     SlotInv, GotInv
<1>3. CASE CheckMax \/ CheckMin
  <2>1. read_filepos \in Nat /\ max_filepos \in Nat
    BY DEF IInv, TypeOK
  <2>2. SeenInv'
    BY <1>3, <2>1 DEF CheckMax, CheckMin, shared, ReaderInv, SeenInv
  <2>3. GotInv'
    BY <1>3 DEF CheckMax, CheckMin, shared, ReaderInv, GotInv
  <2>4. QED BY <1>3, <2>2, <2>3 DEF CheckMax, CheckMin, SlotInv
<1>4. CASE NewB
  <2>1. /\ read_filepos \in Nat /\ max_filepos \in Nat /\ seenmax \in Nat
        /\ read_filepos < seenmax /\ seenmax <= max_filepos
    BY <1>4 DEF NewB, IInv, TypeOK, ReaderInv, SeenInv
  <2>2. PICK m \in {seenmax, max_filepos} : newb' = m - read_filepos
    BY <1>4 DEF NewB
  <2>3. 1 <= m - read_filepos /\ read_filepos + (m - read_filepos) <= max_filepos
    BY <2>1
  <2>4. SeenInv'
    BY <1>4, <2>2, <2>3 DEF NewB, shared, SeenInv
  <2>5. GotInv'
    BY <1>4 DEF NewB, shared, ReaderInv, GotInv
  <2>6. QED BY <1>4, <2>4, <2>5 DEF NewB, SlotInv
<1>5. CASE (CheckEof /\ eof) \/ Interrupted
  <2>1. Return(got) /\ ppc \in {"empty", "wait"} /\ UNCHANGED <<read_filepos, done>>
    BY <1>5 DEF CheckEof, Interrupted, shared
  <2>2. done = 0
    BY <2>1 DEF IInv, CopyInv
  <2>3. read_filepos' = pos + Len(got)
    BY <2>1, <2>2 DEF IInv, TypeOK, ReaderInv, GotInv
  <2>4. QED BY <2>1, <2>2, <2>3, ReturnReader DEF ReaderInv
<1>6. CASE ResetStream
  BY <1>6, Sizes DEF ResetStream, ReaderInv, SeenInv, SlotInv, GotInv
<1>7. CASE Uninit
  BY <1>7 DEF Uninit, shared, ReaderInv, SeenInv, SlotInv, GotInv
<1>8. ASSUME NEW t \in SeekTargets, SeekLong(t)
      PROVE  SeenInv' /\ SlotInv' /\ GotInv'
  BY <1>8, SeekReader
<1>9. CASE Locate \/ Copy \/ Advance
  BY <1>9, LocateReader, CopyReader, AdvanceReader
<1>10. CASE Working
  BY <1>1, <1>2, <1>3, <1>4, <1>5, <1>9, <1>10 DEF Working
<1>11. CASE Calls
  BY <1>2, <1>6, <1>7, <1>8, <1>11 DEF Calls
<1>12. QED BY <1>10, <1>11 DEF Player

LEMMA StutterReaderInv == ASSUME ReaderInv, UNCHANGED vars PROVE ReaderInv'
<1> USE DEF vars, shared, filler, player
<1>1. NextOffset' = NextOffset
  BY DEF NextOffset
<1>2. BehindInv' /\ SeenInv' /\ SlotInv'
  BY <1>1 DEF ReaderInv, BehindInv, SeenInv, SlotInv, Past, SlotOf, Slots
<1>3. GotInv'
  BY DEF ReaderInv, GotInv
<1>4. QED BY <1>2, <1>3 DEF ReaderInv

(* The player's invariant holds as long as the demuxer does not seek       *)
(* behind the position it reads at.                                        *)
THEOREM ReaderInductive == ASSUME ~Backward PROVE Spec => []ReaderInv
<1>1. Init => ReaderInv
  BY InitReaderInv
<1>2. IInv /\ ReaderInv /\ [Next]_vars => ReaderInv'
  <2>1. SUFFICES ASSUME IInv, ReaderInv, [Next]_vars PROVE ReaderInv'
    OBVIOUS
  <2>2. CASE fpc # "dead" /\ Filler
    BY <2>1, <2>2, FillerReaderInv
  <2>3. CASE Player
    BY <2>1, <2>3, PlayerReaderInv
  <2>4. CASE Ended \/ UNCHANGED vars
    BY <2>1, <2>4, StutterReaderInv DEF Ended
  <2>5. QED BY <2>1, <2>2, <2>3, <2>4 DEF Next
<1>3. QED BY <1>1, <1>2, Inductive, PTL DEF Spec

(* cache_read never copies a position the filler has not published or has  *)
(* given up, for every size and every interleaving, without a lock.        *)
THEOREM CopyCorrect == ASSUME ~Backward PROVE Spec => []CopyInsideWindow
<1>1. ReaderInv => CopyInsideWindow
  BY DEF ReaderInv, BehindInv, SeenInv, GotInv, CopyInsideWindow
<1>2. QED BY <1>1, ReaderInductive, PTL

(* The sector in hand changes only when a call returns what it copied.     *)
LEMMA DeliveredStep ==
  ASSUME IInv, ReaderInv, DeliveredIsFile, Player
  PROVE  DeliveredIsFile'
<1>1. CASE Return(got)
  <2>1. /\ sbuf' = got /\ pos' = pos + Len(got) /\ pos \in Nat /\ Len(got) \in Nat
        /\ got \in Seq(Nat \cup {Junk})
    BY <1>1 DEF Return, IInv, TypeOK
  <2>2. ASSUME NEW i \in DOMAIN got PROVE got[i] = (pos + Len(got)) - Len(got) + i - 1
    BY <2>1 DEF ReaderInv, GotInv
  <2>3. QED BY <2>1, <2>2 DEF DeliveredIsFile
<1>2. CASE ppc' # "idle"
  BY <1>2 DEF DeliveredIsFile
<1>3. CASE PrefillCheck \/ PrefillWait
  <2>1. sbuf' = <<>>
    BY <1>3 DEF PrefillCheck, PrefillWait, ReaderInv, GotInv
  <2>2. QED BY <2>1 DEF DeliveredIsFile
<1>4. QED BY <1>1, <1>2, <1>3 DEF Player, Working, Calls, ClearEof, CheckMax, CheckMin, CheckEof,
          Wait, Interrupted, NewB, Locate, Copy, Advance, StartFill, ResetStream, Uninit, SeekLong

(* Every sector the demuxer gets is the piece of the file it asked for.    *)
THEOREM DeliveryCorrect == ASSUME ~Backward PROVE Spec => []DeliveredIsFile
<1>1. Init => DeliveredIsFile
  BY DEF Init, DeliveredIsFile
<1>2. IInv /\ ReaderInv /\ DeliveredIsFile /\ [Next]_vars => DeliveredIsFile'
  <2> SUFFICES ASSUME IInv, ReaderInv, DeliveredIsFile, [Next]_vars PROVE DeliveredIsFile'
    OBVIOUS
  <2>1. CASE fpc # "dead" /\ Filler
    <3>1. UNCHANGED <<ppc, pos, sbuf>>
      BY <2>1, FillerSteps DEF ReaderInv, FillerOK, player
    <3>2. QED BY <3>1 DEF DeliveredIsFile
  <2>2. CASE Player
    BY <2>2, DeliveredStep
  <2>3. CASE Ended \/ UNCHANGED vars
    BY <2>3 DEF Ended, vars, player, DeliveredIsFile
  <2>4. QED BY <2>1, <2>2, <2>3 DEF Next
<1>3. QED BY <1>1, <1>2, Inductive, ReaderInductive, PTL DEF Spec
-----------------------------------------------------------------------------
(* The end of the file.  The ring never holds a position beyond it: the    *)
(* filler may go there (a seek behind the end), but reads nothing.         *)

EndInv ==
  /\ Filling => NextMax <= FileLen \/ min_filepos = NextMax
  /\ fpc = "read" => space > 0
  /\ fpc = "copy" => len = 0 \/ upos + len <= FileLen

LEMMA InitEndInv == Init => EndInv
  BY Sizes DEF Init, EndInv, NextMax

(* A block that is begun has room for at least one unit, and giving up old *)
(* bytes leaves an empty window where it is.                               *)
LEMMA TrimEnd ==
  ASSUME IInv, FillTrim
  PROVE  space' > 0 /\ (min_filepos = max_filepos => min_filepos' = min_filepos)
<1>1. /\ fpc = "size" /\ FreeSpace >= FillLimit /\ space' = BlockSize
      /\ min_filepos' = Most(min_filepos, KeptFrom)
  BY DEF FillTrim
<1>2. /\ min_filepos \in Nat /\ max_filepos \in Nat /\ offset \in Nat /\ read \in Nat
      /\ read <= max_filepos + SeekLimit
  BY <1>1 DEF IInv, TypeOK, SizeInv
<1>3. todo = {} /\ max_filepos < offset + BufferSize /\ offset <= max_filepos
  BY <1>1 DEF IInv, TodoInv, RingInv, Holds, NextMax, NextOffset, Filling
<1>4. FillPos \in Nat /\ FillPos < BufferSize
  BY <1>2, <1>3, Sizes DEF FillPos
<1>5. NewBytes \in Nat /\ BackBytes \in Nat /\ (read >= max_filepos => NewBytes = 0)
      /\ (read < max_filepos => NewBytes = max_filepos - read)
  BY <1>2, Sizes DEF NewBytes, BackBytes, Least, Most
<1>6. BlockSize \in Int /\ BlockSize > 0 /\ BlockSize <= 4 * Sector /\ BlockSize <= FreeSpace
  <2>1. FreeSpace \in Int /\ FreeSpace > 0 /\ BufferSize - FillPos \in Int
        /\ BufferSize - FillPos > 0
    BY <1>1, <1>4, <1>5, Sizes DEF FreeSpace
  <2>2. 4 * Sector \in Int /\ 4 * Sector > 0
    BY Sizes
  <2>3. QED BY <2>1, <2>2 DEF BlockSize, Least
<1>7. KeptFrom \in Int /\ KeptFrom <= max_filepos
  <2>1. KeptFrom = read - BufferSize + BlockSize + NewBytes
    BY <1>2, <1>5, <1>6, Sizes DEF KeptFrom
  <2>2. BlockSize + NewBytes <= BufferSize
    BY <1>5, <1>6, Sizes DEF FreeSpace
  <2>3. CASE read >= max_filepos
    BY <1>2, <1>5, <1>6, <2>1, <2>3, Sizes
  <2>4. CASE read < max_filepos
    BY <1>2, <1>5, <1>6, <2>1, <2>2, <2>4, Sizes
  <2>5. QED BY <1>2, <2>3, <2>4
<1>8. QED BY <1>1, <1>2, <1>6, <1>7 DEF Most

(* What is still to be stored of a block is the same as what was.          *)
LEMMA PublishMax ==
  ASSUME IInv, NEW x, FillPublish(x)
  PROVE  /\ NextMax' = NextMax /\ min_filepos' = min_filepos /\ upos' = upos
         /\ fpc = "publish" /\ fpc' \in {"publish", "control"}
         /\ fpc' = "publish" => len' = len
<1>1. /\ x \in todo /\ todo' = todo \ {x}
      /\ max_filepos' = IF x = "max" THEN max_filepos + len ELSE max_filepos
      /\ todo' # {} => len' = len
  BY DEF FillPublish, MayStore
<1>2. max_filepos \in Nat /\ len \in Nat
  BY Sizes DEF IInv, TypeOK
<1>3. NextMax' = NextMax
  <2>1. CASE x = "max"
    BY <1>1, <1>2, <2>1 DEF NextMax
  <2>2. CASE x # "max" /\ "max" \in todo
    <3>1. "max" \in todo' /\ todo' # {}
      BY <1>1, <2>2
    <3>2. QED BY <1>1, <2>2, <3>1 DEF NextMax
  <2>3. CASE "max" \notin todo
    BY <1>1, <2>3 DEF NextMax
  <2>4. QED BY <2>1, <2>2, <2>3
<1>4. /\ min_filepos' = min_filepos /\ upos' = upos /\ fpc = "publish"
      /\ fpc' = IF todo' = {} THEN "control" ELSE "publish"
  BY DEF FillPublish, FillEnd
<1>5. QED BY <1>1, <1>3, <1>4

(* A block that was read is empty, or within the file.                     *)
LEMMA ReadEnd ==
  ASSUME IInv, NEW n, FillRead(n)
  PROVE  /\ n \in Nat /\ upos \in Nat
         /\ n = 0 \/ upos + n <= FileLen
         /\ ~ShortReads /\ n = 0 /\ space > 0 => upos >= FileLen
<1>1. n \in ReadLens /\ upos \in Nat /\ space \in Nat
  BY Sizes DEF FillRead, IInv, TypeOK
<1>2. QED BY <1>1, Sizes DEF ReadLens, Least, Most

LEMMA FillerEndInv == ASSUME IInv, EndInv, Filler PROVE EndInv'
<1> USE DEF EndInv
<1>1. CASE FillLoop \/ FillFull
  <2>1. todo = {} /\ UNCHANGED <<todo, max_filepos, min_filepos>>
    BY <1>1 DEF FillLoop, FillFull, shared, IInv, TodoInv, Filling
  <2>2. fpc' \in {"top", "control"} /\ Filling
    BY <1>1 DEF FillLoop, FillFull, FillEnd, Filling
  <2>3. QED BY <2>1, <2>2 DEF NextMax
<1>2. CASE FillTop
  <2>1. Filling /\ todo = {} /\ UNCHANGED <<max_filepos, min_filepos>>
    BY <1>2 DEF FillTop, shared, IInv, TodoInv, Filling
  <2>2. fpc' = "drop" \/ (fpc' = "size" /\ todo' = {})
    BY <1>2, <2>1 DEF FillTop
  <2>3. QED BY <2>1, <2>2 DEF NextMax, Filling
<1>3. ASSUME NEW x, FillDrop(x) PROVE EndInv'
  BY <1>3 DEF FillDrop, Filling
<1>4. CASE FillSeek
  BY <1>4 DEF FillSeek, shared, IInv, DropInv, NextMax
<1>5. CASE FillTrim
  <2>1. Filling /\ todo = {} /\ UNCHANGED <<max_filepos, todo>> /\ fpc' = "read"
    BY <1>5 DEF FillTrim, IInv, TodoInv, Filling
  <2>2. QED BY <1>5, <2>1, TrimEnd DEF NextMax
<1>6. ASSUME NEW n, FillRead(n) PROVE EndInv'
  <2>1. Filling /\ todo = {} /\ UNCHANGED <<max_filepos, min_filepos, todo, upos>>
        /\ fpc' = "copy" /\ len' = n
    BY <1>6 DEF FillRead, IInv, TodoInv, Filling
  <2>2. QED BY <1>6, <2>1, ReadEnd DEF NextMax
<1>7. CASE FillCopied
  <2>1. /\ fpc = "copy" /\ fpc' = "publish" /\ "max" \in todo' /\ len' = len
        /\ UNCHANGED <<max_filepos, min_filepos>>
    BY <1>7 DEF FillCopied
  <2>2. /\ todo = {} /\ NextMax = max_filepos /\ upos = max_filepos /\ max_filepos \in Nat
        /\ len \in Nat
    BY <2>1, Sizes DEF IInv, TypeOK, TodoInv, RingInv, Filling, NextMax
  <2>3. NextMax' = max_filepos + len
    BY <2>1 DEF NextMax
  <2>4. QED BY <2>1, <2>2, <2>3 DEF Filling
<1>8. ASSUME NEW x, FillPublish(x) PROVE EndInv'
  BY <1>8, PublishMax DEF Filling
<1>9. QED BY <1>1, <1>2, <1>3, <1>4, <1>5, <1>6, <1>7, <1>8 DEF Filler

(* What the player holds lies within the file.                             *)
GotEnd == Len(got) > 0 => pos + Len(got) <= FileLen

(* The step of the player that adds to it is the copy from the ring.       *)
LEMMA PlayerEndInv ==
  ASSUME IInv, ReaderInv, EndInv, GotEnd, Player \/ Ended
  PROVE  EndInv' /\ GotEnd'
<1>1. UNCHANGED <<min_filepos, max_filepos, todo, space, len, upos>> /\ fpc' \in {fpc, "dead"}
  BY PlayerKeepsRing
<1>2. EndInv'
  BY <1>1 DEF EndInv, Filling, NextMax
<1>3. CASE Copy
  <2>1. /\ ppc = "copy" /\ done < newb /\ UNCHANGED pos
        /\ got' = Append(got, IF slot + done \in Slots THEN buffer[slot + done] ELSE Junk)
    BY <1>3 DEF Copy
  <2>2. /\ min_filepos \in Nat /\ max_filepos \in Nat /\ read_filepos \in Nat
        /\ newb \in Int /\ done \in Nat /\ len \in Nat
        /\ min_filepos <= read_filepos /\ read_filepos + newb <= max_filepos
        /\ read_filepos + done = pos + Len(got) /\ pos \in Nat /\ Len(got) \in Nat
        /\ got \in Seq(Nat \cup {Junk})
    BY <2>1, Sizes DEF IInv, TypeOK, ReaderInv, BehindInv, SeenInv, GotInv
  <2>3. Len(got') = Len(got) + 1
    BY <2>1, <2>2
  <2>4. Filling
    BY <2>1 DEF ReaderInv, BehindInv, Past, Filling
  <2>5. NextMax \in Nat /\ max_filepos <= NextMax
    BY <2>2 DEF NextMax
  <2>6. pos + Len(got) + 1 <= FileLen
    BY <2>1, <2>2, <2>4, <2>5, Sizes DEF EndInv
  <2>7. QED BY <1>2, <2>1, <2>2, <2>3, <2>6 DEF GotEnd
<1>4. CASE (CheckEof /\ eof) \/ Interrupted \/ (Advance /\ Len(got) = Sector)
  <2>1. got' = <<>>
    BY <1>4 DEF CheckEof, Interrupted, Advance, Return
  <2>2. QED BY <1>2, <2>1 DEF GotEnd
<1>5. ASSUME NEW t \in SeekTargets, SeekLong(t) PROVE EndInv' /\ GotEnd'
  <2>1. got' = got /\ got = <<>>
    BY <1>5 DEF SeekLong, ReaderInv, GotInv
  <2>2. QED BY <1>2, <2>1 DEF GotEnd
<1>6. CASE ResetStream
  <2>1. got' = got /\ got = <<>>
    BY <1>6 DEF ResetStream, ReaderInv, GotInv
  <2>2. QED BY <1>2, <2>1 DEF GotEnd
<1>7. CASE UNCHANGED <<pos, got>>
  BY <1>2, <1>7 DEF GotEnd
<1>8. CASE Working
  BY <1>3, <1>4, <1>7, <1>8 DEF Working, PrefillCheck, PrefillWait, ClearEof, CheckMax,
     CheckMin, CheckEof, Wait, NewB, Locate, Advance
<1>9. CASE Calls
  BY <1>5, <1>6, <1>7, <1>9 DEF Calls, StartFill, Uninit
<1>10. CASE Ended
  BY <1>7, <1>10 DEF Ended, vars, player
<1>11. QED BY <1>8, <1>9, <1>10 DEF Player

THEOREM WithinFile == ASSUME ~Backward PROVE Spec => [](EndInv /\ GotEnd)
<1>1. Init => EndInv /\ GotEnd
  <2>1. Init => GotEnd
    BY DEF Init, GotEnd
  <2>2. QED BY <2>1, InitEndInv
<1>2. IInv /\ ReaderInv /\ EndInv /\ GotEnd /\ [Next]_vars => EndInv' /\ GotEnd'
  <2> SUFFICES ASSUME IInv, ReaderInv, EndInv, GotEnd, [Next]_vars
               PROVE  EndInv' /\ GotEnd'
    OBVIOUS
  <2>1. CASE fpc # "dead" /\ Filler
    <3>1. UNCHANGED <<pos, got>>
      BY <2>1, FillerSteps DEF ReaderInv, FillerOK, player
    <3>2. QED BY <2>1, <3>1, FillerEndInv DEF GotEnd
  <2>2. CASE Player \/ Ended
    BY <2>2, PlayerEndInv
  <2>3. CASE UNCHANGED vars
    BY <2>3 DEF vars, shared, filler, player, EndInv, GotEnd, Filling, NextMax
  <2>4. QED BY <2>1, <2>2, <2>3 DEF Next
<1>3. QED BY <1>1, <1>2, Inductive, ReaderInductive, PTL DEF Spec
-----------------------------------------------------------------------------
(* The flag of the filler and that of the stream say that all of the file  *)
(* was read: a block of no units was read at its end.                      *)
EofInv ==
  /\ eof \/ seof => max_filepos >= FileLen
  /\ fpc \in {"copy", "publish"} /\ len = 0 => upos >= FileLen

LEMMA FillerEofInv ==
  ASSUME IInv, ReaderInv, EndInv, EofInv, ~ShortReads, Filler, fpc # "dead"
  PROVE  EofInv'
<1>1. UNCHANGED seof /\ max_filepos' \in Nat /\ max_filepos <= max_filepos'
      /\ max_filepos \in Nat /\ FileLen \in Nat /\ len \in Nat /\ upos \in Nat
  BY FillerSteps, FillerIInv, Sizes DEF ReaderInv, FillerOK, player, IInv, TypeOK
<1>2. CASE FillLoop \/ FillTop \/ FillSeek \/ FillFull \/ FillTrim
  <2>1. UNCHANGED eof /\ fpc' \notin {"copy", "publish"}
    BY <1>2 DEF FillLoop, FillTop, FillSeek, FillFull, FillEnd, FillTrim, shared
  <2>2. QED BY <1>1, <2>1 DEF EofInv
<1>3. ASSUME NEW x, FillDrop(x) PROVE EofInv'
  <2>1. UNCHANGED eof /\ fpc' = "drop"
    BY <1>3 DEF FillDrop
  <2>2. QED BY <1>1, <2>1 DEF EofInv
<1>4. ASSUME NEW n, FillRead(n) PROVE EofInv'
  <2>1. UNCHANGED <<eof, upos>> /\ len' = n /\ space > 0
    BY <1>4 DEF FillRead, EndInv
  <2>2. n = 0 => upos >= FileLen
    BY <1>4, <2>1, ReadEnd
  <2>3. QED BY <1>1, <2>1, <2>2 DEF EofInv
<1>5. CASE FillCopied
  <2>1. UNCHANGED <<eof, len>> /\ upos' = upos + len /\ fpc = "copy"
    BY <1>5 DEF FillCopied
  <2>2. QED BY <1>1, <2>1 DEF EofInv
<1>6. ASSUME NEW x, FillPublish(x) PROVE EofInv'
  <2>1. /\ NextMax = upos /\ fpc = "publish" /\ UNCHANGED upos
        /\ fpc' \in {"publish", "control"} /\ (fpc' = "publish" => len' = len)
    BY <1>6, PublishMax DEF IInv, RingInv, Filling
  <2>2. eof' => eof \/ len = 0
    BY <1>6, Zenon DEF FillPublish, EofFlag
  <2>3. len = 0 => max_filepos >= FileLen
    BY <1>1, <2>1 DEF NextMax, EofInv
  <2>4. QED BY <1>1, <2>1, <2>2, <2>3 DEF EofInv
<1>7. QED BY <1>2, <1>3, <1>4, <1>5, <1>6 DEF Filler

LEMMA PlayerEofInv ==
  ASSUME IInv, EofInv, ~Interrupts, Player \/ Ended
  PROVE  EofInv'
<1>1. UNCHANGED <<max_filepos, len, upos>> /\ fpc' \in {fpc, "dead"}
  BY PlayerKeepsRing
<1>2. CASE (CheckEof /\ eof) \/ (Advance /\ Len(got) = Sector)
  <2>1. UNCHANGED eof /\ (seof' = (got = <<>>)) /\ (got = <<>> => eof)
    <3>1. Sector > 0
      BY Sizes
    <3>2. Advance /\ Len(got) = Sector => got # <<>>
      BY <3>1
    <3>3. QED BY <1>2, <3>2 DEF CheckEof, Advance, Return, shared
  <2>2. QED BY <1>1, <2>1 DEF EofInv
<1>3. CASE (seof' => seof) /\ (eof' => eof)
  BY <1>1, <1>3 DEF EofInv
<1>4. CASE ResetStream
  BY <1>1, <1>4 DEF ResetStream, shared, EofInv
<1>5. CASE Working
  BY <1>2, <1>3, <1>5 DEF Working, PrefillCheck, PrefillWait, ClearEof, CheckMax,
     CheckMin, CheckEof, Wait, Interrupted, NewB, Locate, Copy, Advance, shared
<1>6. CASE Calls
  BY <1>3, <1>4, <1>6 DEF Calls, StartFill, Uninit, SeekLong, shared
<1>7. CASE Ended
  BY <1>3, <1>7 DEF Ended, vars, shared, player
<1>8. QED BY <1>5, <1>6, <1>7 DEF Player

(* A demuxer that reads forward, from a source that gives what the file    *)
(* has, and is not interrupted, is told of the end only when the cache has *)
(* read all of the file, in whichever order the flag and the end of the    *)
(* window are stored.                                                      *)
THEOREM EofCorrect ==
  ASSUME ~Backward, ~ShortReads, ~Interrupts
  PROVE  Spec => []EofAfterLast
<1>1. Init => EofInv
  BY DEF Init, EofInv
<1>2. IInv /\ ReaderInv /\ EndInv /\ EofInv /\ [Next]_vars => EofInv'
  <2> SUFFICES ASSUME IInv, ReaderInv, EndInv, EofInv, [Next]_vars PROVE EofInv'
    OBVIOUS
  <2>1. CASE fpc # "dead" /\ Filler
    BY <2>1, FillerEofInv
  <2>2. CASE Player \/ Ended
    BY <2>2, PlayerEofInv
  <2>3. CASE UNCHANGED vars
    BY <2>3 DEF vars, shared, filler, player, EofInv
  <2>4. QED BY <2>1, <2>2, <2>3 DEF Next
<1>3. EofInv => EofAfterLast
  BY DEF EofInv, EofAfterLast
<1>4. QED BY <1>1, <1>2, <1>3, Inductive, ReaderInductive, WithinFile, PTL DEF Spec

-----------------------------------------------------------------------------
(* Through the cache the demuxer sees FileStream.                          *)

(* A call that returns gives the next units of the file, or its end.       *)
LEMMA ReturnRefines ==
  ASSUME IInv, GotInv, GotEnd, Return(got), Busy = "filling"
  PROVE  File!Return
<1>1. /\ ppc' = "idle" /\ sbuf' = got /\ (seof' = (got = <<>>))
      /\ pos' = pos + Len(got)
  BY DEF Return
<1>2. Busy' = "idle"
  BY <1>1 DEF Busy
<1>3. /\ pos \in Nat /\ got \in Seq(Nat \cup {Junk}) /\ Len(got) \in Nat
      /\ Sector \in Nat /\ Sector > 0 /\ FileLen \in Nat
  BY Sizes DEF IInv, TypeOK
<1>4. CASE got = <<>>
  <2>1. Len(got) = 0
    BY <1>4
  <2>2. pos' = pos /\ sbuf' = <<>>
    BY <1>1, <1>3, <1>4, <2>1
  <2>3. seof' = TRUE
    BY <1>1, <1>4, Zenon
  <2>4. QED BY <1>2, <2>2, <2>3 DEF File!Return, File!EndOfFile
<1>5. CASE got # <<>>
  <2> DEFINE n == Len(got)
  <2>1. n > 0 /\ pos + n <= FileLen /\ n <= Sector
    <3>1. n > 0
      BY <1>3, <1>5
    <3>2. n <= Sector
      BY <1>3 DEF GotInv, IInv, TypeOK, CopyInv
    <3>3. QED BY <3>1, <3>2 DEF GotEnd
  <2>2. got = [i \in 1 .. n |-> pos + i - 1]
    <3>1. \A i \in 1 .. n : got[i] = pos + i - 1
      BY DEF GotInv
    <3>2. got = [i \in 1 .. n |-> got[i]]
      BY <1>3
    <3>3. QED BY <3>1, <3>2
  <2>3. seof' = FALSE /\ sbuf' = [i \in 1 .. n |-> pos + i - 1] /\ pos' = pos + n
    BY <1>1, <1>5, <2>2
  <2>4. pos < FileLen /\ (n = File!SectorLen \/ n < File!SectorLen) /\ n \in 1 .. Sector
    BY <1>3, <2>1 DEF File!SectorLen
  <2>5. File!Fill(n)
    BY <1>2, <2>3, <2>4 DEF File!Fill
  <2>6. QED BY <2>4, <2>5 DEF File!Return
<1>6. QED BY <1>4, <1>5

(* Every step of the player is a step of a plain file, or goes unnoticed.  *)
LEMMA PlayerRefines ==
  ASSUME IInv, GotInv, GotEnd, ppc' # "crashed", Player
  PROVE  [File!Next]_File!vars
<1> DEFINE Calling == ppc \in {"clearEof", "check", "checkMin", "empty", "wait", "newb",
                               "locate", "copy"}
<1>1. Calling => Busy = "filling"
  BY DEF Busy
<1>2. CASE Calling /\ Calling' /\ UNCHANGED <<pos, sbuf, seof>>
  <2>1. Busy = "filling" /\ Busy' = "filling"
    BY <1>2 DEF Busy
  <2>2. QED BY <1>2, <2>1 DEF File!vars
<1>3. CASE Calling /\ Return(got)
  BY <1>1, <1>3, ReturnRefines DEF File!Next
<1>4. CASE PrefillCheck \/ PrefillWait
  <2>1. /\ Busy = "opening" /\ UNCHANGED <<pos, sbuf, seof>>
        /\ ppc' \in {"prefill", "prefillWait", "idle"}
    BY <1>4 DEF PrefillCheck, PrefillWait, Busy
  <2>2. Busy' \in {"opening", "idle"}
    BY <2>1 DEF Busy
  <2>3. QED BY <2>1, <2>2 DEF File!vars, File!Next, File!Opened
<1>5. CASE Uninit
  <2>1. Busy \in {"opening", "idle"} /\ ppc' = "closed" /\ UNCHANGED <<pos, sbuf, seof>>
    BY <1>5 DEF Uninit, Busy
  <2>2. Busy' = "closed"
    BY <2>1 DEF Busy
  <2>3. QED BY <2>1, <2>2 DEF File!Next, File!Close
<1>6. CASE StartFill
  <2>1. ppc = "idle" /\ ppc' = "check" /\ UNCHANGED <<pos, sbuf, seof>>
    BY <1>6 DEF StartFill
  <2>2. Busy = "idle" /\ Busy' = "filling"
    BY <2>1 DEF Busy
  <2>3. QED BY <2>1, <2>2 DEF File!Next, File!StartFill
<1>7. CASE ResetStream
  <2>1. ppc = "idle" /\ ppc' = "reset" /\ seof /\ pos' = 0 /\ sbuf' = <<>> /\ seof' = FALSE
    BY <1>7 DEF ResetStream
  <2>2. Busy = "idle" /\ Busy' = "reset"
    BY <2>1 DEF Busy
  <2>3. QED BY <2>1, <2>2 DEF File!Next, File!Reset
<1>8. ASSUME NEW t \in SeekTargets, SeekLong(t) PROVE File!Next
  <2>1. /\ ppc \in {"idle", "reset"} /\ ppc' = "clearEof" /\ UNCHANGED <<sbuf, seof>>
        /\ pos' = (t \div Sector) * Sector
    BY <1>8 DEF SeekLong, Align
  <2>2. Busy \in {"idle", "reset"} /\ Busy' = "filling"
    BY <2>1 DEF Busy
  <2>3. File!Seek(t)
    BY <2>1, <2>2 DEF File!Seek
  <2>4. QED BY <2>3 DEF File!Next
<1>9. CASE ClearEof \/ CheckMax \/ CheckMin \/ (CheckEof /\ ~eof) \/ Wait \/ NewB \/ Locate
           \/ Copy \/ (Advance /\ Len(got) # Sector)
  <2>1. Calling /\ Calling' /\ UNCHANGED <<pos, sbuf, seof>>
    BY <1>9 DEF ClearEof, CheckMax, CheckMin, CheckEof, Wait, NewB, Locate, Copy, Advance
  <2>2. QED BY <1>2, <2>1
<1>10. CASE (CheckEof /\ eof) \/ Interrupted \/ (Advance /\ Len(got) = Sector)
  <2>1. Calling /\ Return(got)
    BY <1>10 DEF CheckEof, Interrupted, Advance
  <2>2. QED BY <1>3, <2>1
<1>11. CASE Working
  BY <1>4, <1>9, <1>10, <1>11 DEF Working
<1>12. CASE Calls
  BY <1>5, <1>6, <1>7, <1>8, <1>12 DEF Calls
<1>13. QED BY <1>11, <1>12 DEF Player

(* The safety part of ImplementsFile: however the filler and the player    *)
(* interleave, with interrupts and short reads too, a demuxer that seeks   *)
(* forward sees the file sector by sector, whole or cut short, and its end *)
(* or an early one, and nothing else.                                      *)
THEOREM FileRefines ==
  ASSUME ~Backward
  PROVE  Spec => File!Init /\ [][File!Next]_File!vars
<1>1. Init => File!Init
  BY DEF Init, File!Init, Busy
<1>2. IInv /\ ReaderInv /\ ReaderInv' /\ GotEnd /\ [Next]_vars => [File!Next]_File!vars
  <2> SUFFICES ASSUME IInv, ReaderInv, ReaderInv', GotEnd, [Next]_vars
               PROVE  [File!Next]_File!vars
    OBVIOUS
  <2>1. CASE fpc # "dead" /\ Filler
    <3>1. UNCHANGED <<ppc, pos, sbuf, seof>>
      BY <2>1, FillerSteps DEF ReaderInv, FillerOK, player
    <3>2. QED BY <3>1 DEF File!vars, Busy
  <2>2. CASE Player
    BY <2>2, PlayerRefines DEF ReaderInv, GotInv
  <2>3. CASE Ended \/ UNCHANGED vars
    BY <2>3 DEF Ended, vars, player, File!vars, Busy
  <2>4. QED BY <2>1, <2>2, <2>3 DEF Next
<1>3. QED BY <1>1, <1>2, Inductive, ReaderInductive, WithinFile, PTL DEF Spec
=============================================================================
