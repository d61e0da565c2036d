----------------------------- MODULE CacheRing -----------------------------
(***************************************************************************)
(* The stream cache of stream/cache2.c, data path.  stream_enable_cache    *)
(* forks: the child runs cache_mainloop and fills a ring buffer in shared  *)
(* memory from the file (the FILLER), the player reads the ring through    *)
(* cache_stream_fill_buffer and cache_stream_seek_long (the PLAYER).  The  *)
(* two share cache_vars_t and take no lock.                                *)
(*                                                                         *)
(* Every action makes at most one access to a field the other process may  *)
(* change meanwhile; what runs on private state in between belongs to it.  *)
(* The file is the sequence 0, 1, .., FileLen-1: the unit at position p    *)
(* holds p, so a unit read at the wrong place is seen at once.             *)
(***************************************************************************)
EXTENDS Integers, Sequences

CONSTANTS
  Sector,         \* s->sector_size, in units of the file
  CacheSize,      \* the size argument of stream_enable_cache
  MinFill,        \* its min argument: the prefill the player waits for
  SeekLimitArg,   \* its seek_limit argument
  FileLen,        \* the length of the file
  SeekTargets,    \* the positions the demuxer may seek to
  Backward,       \* may the demuxer seek behind its read position?
  Interrupts,     \* may stream_check_interrupt return true?
  ShortReads,     \* may the source return less than the file holds?
  Reorder         \* may the build swap two neighbouring stores?

ASSUME SizesAssumption ==
  /\ Sector \in Nat \ {0}
  /\ CacheSize \in Nat /\ MinFill \in Nat /\ SeekLimitArg \in Nat
  /\ FileLen \in Nat
  /\ SeekTargets \subseteq Nat

ASSUME ModesAssumption ==
  {Backward, Interrupts, ShortReads, Reorder} \subseteq BOOLEAN

Least(a, b) == IF a <= b THEN a ELSE b
Most(a, b)  == IF a >= b THEN a ELSE b

(* What cache_init and stream_enable_cache compute before the fork.        *)
BufferSize == Sector * Most(16, CacheSize \div Sector)
FillLimit9 == 9 * Sector          \* mutant: needs more room than a waiting player leaves
FillLimit  == 8 * Sector
BackSize   == BufferSize \div 2
SeekLimit  == Least(SeekLimitArg, BufferSize - FillLimit)
Prefill    == Most(1, Least(MinFill, BufferSize - FillLimit))

Slots == 0 .. BufferSize - 1
Junk  == -1                  \* a slot never written, or being written

VARIABLES
  \* cache_vars_t, shared by the two processes
  buffer, eof, min_filepos, max_filepos, offset, read_filepos,
  \* the filler: its pc, its locals, its own copy of the stream
  fpc, todo, read, space, len, upos,
  \* the player: its pc, its stream_t, the locals of cache_read
  ppc, pos, sbuf, seof, got, seenmax, newb, slot, done

shared == <<buffer, eof, min_filepos, max_filepos, offset, read_filepos>>
filler == <<fpc, todo, read, space, len, upos>>
player == <<ppc, pos, sbuf, seof, got, seenmax, newb, slot, done>>
vars   == <<shared, filler, player>>

Init ==
  /\ buffer = [i \in Slots |-> Junk]
  /\ eof = FALSE
  /\ min_filepos = 0 /\ max_filepos = 0 /\ offset = 0 /\ read_filepos = 0
  /\ fpc = "top" /\ todo = {} /\ read = 0 /\ space = 0 /\ len = 0 /\ upos = 0
  /\ ppc = "prefill" /\ pos = 0 /\ sbuf = <<>> /\ seof = FALSE
  /\ got = <<>> /\ seenmax = 0 /\ newb = 0 /\ slot = 0 /\ done = 0

-----------------------------------------------------------------------------
(* The filler: cache_fill called by cache_mainloop for ever.               *)

(* The order in which the source text makes the stores of a group.         *)
Rank(x) == CASE x = "eof" -> 0 [] x = "max" -> 1 [] x = "min" -> 2 [] x = "offset" -> 3

MayStore(x) == x \in todo /\ (Reorder \/ \A y \in todo : Rank(x) <= Rank(y))

(* cache_fill returns: its locals are dead.                                *)
FillEnd ==
  /\ fpc' = "control" /\ read' = 0 /\ space' = 0 /\ len' = 0

(* cache_execute_control finds no command, cache_mainloop goes round again *)
FillLoop ==
  /\ fpc = "control" /\ fpc' = "top"
  /\ UNCHANGED <<shared, player, todo, read, space, len, upos>>

(* The snapshot of the read position, and whether the ring must be dropped *)
FillTop ==
  /\ fpc = "top"
  /\ read' = read_filepos
  /\ LET outside == read_filepos < min_filepos \/ read_filepos > max_filepos
         far     == \/ read_filepos < min_filepos
                    \/ read_filepos >= max_filepos + SeekLimit
     IN  IF outside /\ far
           THEN fpc' = "drop" /\ todo' = {"max", "min", "offset"}
           ELSE fpc' = "size" /\ UNCHANGED todo
  /\ UNCHANGED <<shared, player, space, len, upos>>

(* offset = min_filepos = max_filepos = read, one store at a time          *)
FillDrop(x) ==
  /\ fpc = "drop" /\ MayStore(x)
  /\ todo' = todo \ {x}
  /\ max_filepos' = IF x = "max" THEN read ELSE max_filepos
  /\ min_filepos' = IF x = "min" THEN read ELSE min_filepos
  /\ offset' = IF x = "offset" THEN read ELSE offset
  /\ UNCHANGED <<buffer, eof, read_filepos, fpc, read, space, len, upos, player>>

(* stream_reset and stream_seek of the filler's own stream                 *)
FillSeekForgotten ==              \* mutant: the stream stays where it was
  /\ fpc = "drop" /\ todo = {}
  /\ fpc' = "size" /\ UNCHANGED <<shared, player, todo, read, space, len, upos>>

FillSeek ==
  /\ fpc = "drop" /\ todo = {}
  /\ upos' = read /\ fpc' = "size"
  /\ UNCHANGED <<shared, player, todo, read, space, len>>

BackBytesNone == 0                \* mutant: no bytes kept for seeking back
BackBytes == Least(Most(read - min_filepos, 0), BackSize)
NewBytes  == Most(max_filepos - read, 0)
FreeSpace == BufferSize - (NewBytes + BackBytes)
FillPos   == LET p == max_filepos - offset
             IN  IF p >= BufferSize THEN p - BufferSize ELSE p
BlockSizeAll == Least(FreeSpace, BufferSize - FillPos)   \* mutant: no limit per block
BlockSize == Least(Least(FreeSpace, BufferSize - FillPos), 4 * Sector)
KeptFromShort == read - (BufferSize - NewBytes)          \* mutant: the block is forgotten
KeptFromMax   == max_filepos - (BufferSize - (BlockSize + NewBytes))  \* mutant: wrong end
KeptFrom  == read - (BufferSize - (BlockSize + NewBytes))

FillFullDeaf ==                   \* mutant: a filler that sleeps looks for no command
  /\ fpc = "size" /\ FreeSpace < FillLimit
  /\ fpc' = "top" /\ read' = 0
  /\ UNCHANGED <<shared, player, todo, space, len, upos>>

(* Too little room: cache_fill returns 0, the filler sleeps and retries    *)
FillFull ==
  /\ fpc = "size" /\ FreeSpace < FillLimit
  /\ FillEnd
  /\ UNCHANGED <<shared, player, todo, upos>>

(* Give up the oldest bytes to make room for the block                     *)
FillTrim ==
  /\ fpc = "size" /\ FreeSpace >= FillLimit
  /\ space' = BlockSize
  /\ min_filepos' = Most(min_filepos, KeptFrom)
  /\ fpc' = "read"
  /\ UNCHANGED <<buffer, eof, max_filepos, offset, read_filepos, todo, read,
                 len, upos, player>>

(* stream_read of space units: how many it returns                         *)
ReadLens ==
  LET full == Least(space, Most(FileLen - upos, 0))
  IN  IF ShortReads THEN 0 .. full ELSE {full}

Target(n) == {FillPos + k : k \in 0 .. n - 1}   \* the slots a block of n takes

(* While stream_read copies, its slots hold neither the old nor the new    *)
FillRead(n) ==
  /\ fpc = "read" /\ n \in ReadLens
  /\ len' = n
  /\ buffer' = [i \in Slots |-> IF i \in Target(n) THEN Junk ELSE buffer[i]]
  /\ fpc' = "copy"
  /\ UNCHANGED <<eof, min_filepos, max_filepos, offset, read_filepos, todo, read,
                 space, upos, player>>

FillCopied ==
  /\ fpc = "copy"
  /\ buffer' = [i \in Slots |-> IF i \in Target(len) THEN upos + (i - FillPos)
                                                     ELSE buffer[i]]
  /\ upos' = upos + len
  /\ todo' = {"eof", "max"} \cup
             (IF FillPos + len >= BufferSize THEN {"offset"} ELSE {})
  /\ fpc' = "publish"
  /\ UNCHANGED <<eof, min_filepos, max_filepos, offset, read_filepos, read,
                 space, len, player>>

EofShort == len < space           \* mutant: a short block counts as the end
EofFlag  == len = 0

(* eof = !len; max_filepos += len; on a wrap offset += buffer_size         *)
FillPublish(x) ==
  /\ fpc = "publish" /\ MayStore(x)
  /\ todo' = todo \ {x}
  /\ eof' = IF x = "eof" THEN EofFlag ELSE eof
  /\ max_filepos' = IF x = "max" THEN max_filepos + len ELSE max_filepos
  /\ offset' = IF x = "offset" THEN offset + BufferSize ELSE offset
  /\ IF todo' = {} THEN FillEnd ELSE UNCHANGED <<fpc, read, space, len>>
  /\ UNCHANGED <<buffer, min_filepos, read_filepos, upos, player>>

Filler ==
  \/ FillLoop \/ FillTop \/ FillSeek \/ FillFull \/ FillTrim \/ FillCopied
  \/ \E n \in 0 .. 4 * Sector : FillRead(n)
  \/ \E x \in {"eof", "max", "min", "offset"} : FillDrop(x) \/ FillPublish(x)

-----------------------------------------------------------------------------
(* The player.                                                             *)

(* The prefill loop of stream_enable_cache; min_filepos is not moved yet.  *)
PrefillCheck ==
  /\ ppc = "prefill"
  /\ ppc' = IF \/ read_filepos < min_filepos
               \/ max_filepos - read_filepos < Prefill
              THEN "prefillWait" ELSE "idle"
  /\ UNCHANGED <<shared, filler, pos, sbuf, seof, got, seenmax, newb, slot, done>>

PrefillWait ==
  /\ ppc = "prefillWait"
  /\ ppc' = IF eof THEN "idle" ELSE "prefill"
  /\ UNCHANGED <<shared, filler, pos, sbuf, seof, got, seenmax, newb, slot, done>>

(* cache_uninit, on an interrupted prefill or when the stream is closed:   *)
(* SIGKILL reaches the filler wherever it is.                              *)
Uninit ==
  /\ \/ ppc = "prefillWait" /\ ~eof /\ Interrupts
     \/ ppc = "idle"
  /\ ppc' = "closed" /\ fpc' = "dead"
  /\ UNCHANGED <<shared, todo, read, space, len, upos, pos, sbuf, seof, got,
                 seenmax, newb, slot, done>>

(* cache_stream_fill_buffer, called when the demuxer used up the sector    *)
StartFill ==
  /\ ppc = "idle"
  /\ ppc' = "check"
  /\ UNCHANGED <<shared, filler, pos, sbuf, seof, got, seenmax, newb, slot, done>>

(* stream_reset at end of file; its callers seek next                      *)
ResetStream ==
  /\ ppc = "idle" /\ seof
  /\ pos' = 0 /\ sbuf' = <<>> /\ seof' = FALSE
  /\ ppc' = "reset"
  /\ UNCHANGED <<shared, filler, got, seenmax, newb, slot, done>>

Align(t) == (t \div Sector) * Sector

(* stream_seek outside the sector in hand: cache_stream_seek_long          *)
SeekLong(t) ==
  /\ ppc \in {"idle", "reset"}
  /\ ~(pos - Len(sbuf) <= t /\ t < pos)
  /\ Backward \/ Align(t) >= read_filepos
  /\ pos' = Align(t) /\ read_filepos' = Align(t)
  /\ ppc' = "clearEof"
  /\ UNCHANGED <<buffer, eof, min_filepos, max_filepos, offset, filler, sbuf,
                 seof, got, seenmax, newb, slot, done>>

ClearEof ==
  /\ ppc = "clearEof"
  /\ eof' = FALSE /\ ppc' = "check"
  /\ UNCHANGED <<buffer, min_filepos, max_filepos, offset, read_filepos, filler,
                 pos, sbuf, seof, got, seenmax, newb, slot, done>>

(* cache_read returned g: the end of cache_stream_fill_buffer              *)
ReturnEofKept(g) ==               \* mutant: s->eof=0 is missing
  /\ ppc' = "idle"
  /\ sbuf' = g /\ seof' = (seof \/ g = <<>>) /\ pos' = pos + Len(g)
  /\ got' = <<>>

Return(g) ==
  /\ ppc' = "idle"
  /\ sbuf' = g /\ seof' = (g = <<>>) /\ pos' = pos + Len(g)
  /\ got' = <<>>

(* The loop of cache_read: is there anything at read_filepos?              *)
CheckMax ==
  /\ ppc = "check"
  /\ IF read_filepos >= max_filepos
       THEN ppc' = "empty" /\ UNCHANGED seenmax
       ELSE ppc' = "checkMin" /\ seenmax' = max_filepos
  /\ UNCHANGED <<shared, filler, pos, sbuf, seof, got, newb, slot, done>>

CheckMin ==
  /\ ppc = "checkMin"
  /\ ppc' = IF read_filepos < min_filepos THEN "empty" ELSE "newb"
  /\ UNCHANGED <<shared, filler, pos, sbuf, seof, got, seenmax, newb, slot, done>>

CheckEof ==
  /\ ppc = "empty"
  /\ IF eof THEN Return(got)
            ELSE ppc' = "wait" /\ UNCHANGED <<pos, sbuf, seof, got>>
  /\ UNCHANGED <<shared, filler, seenmax, newb, slot, done>>

Wait ==
  /\ ppc = "wait"
  /\ ppc' = "check"
  /\ UNCHANGED <<shared, filler, pos, sbuf, seof, got, seenmax, newb, slot, done>>

(* The user wants something else: stream_check_interrupt returned true     *)
Interrupted ==
  /\ ppc = "wait" /\ Interrupts
  /\ eof' = TRUE /\ Return(got)
  /\ UNCHANGED <<buffer, min_filepos, max_filepos, offset, read_filepos, filler,
                 seenmax, newb, slot, done>>

(* newb = max_filepos - read_filepos, from the value tested or a new load  *)
NewB ==
  /\ ppc = "newb"
  /\ \E m \in {seenmax, max_filepos} : newb' = m - read_filepos
  /\ seenmax' = 0 /\ ppc' = "locate"
  /\ UNCHANGED <<shared, filler, pos, sbuf, seof, got, slot, done>>

SlotOf(p, o) ==
  LET d == p - o
  IN  IF d < 0 THEN d + BufferSize ELSE IF d >= BufferSize THEN d - BufferSize ELSE d

(* Where to copy from and how much; memcpy of a negative size is a crash   *)
Locate ==
  /\ ppc = "locate"
  /\ slot' = SlotOf(read_filepos, offset)
  /\ newb' = Least(Least(newb, BufferSize - slot'), Sector - Len(got))
  /\ ppc' = IF newb' < 0 THEN "crashed" ELSE "copy"
  /\ UNCHANGED <<shared, filler, pos, sbuf, seof, got, seenmax, done>>

(* memcpy, unit by unit                                                    *)
Copy ==
  /\ ppc = "copy" /\ done < newb
  /\ got' = Append(got, IF slot + done \in Slots THEN buffer[slot + done] ELSE Junk)
  /\ done' = done + 1
  /\ UNCHANGED <<shared, filler, ppc, pos, sbuf, seof, seenmax, newb, slot>>

(* read_filepos += len, and the loop test                                  *)
Advance ==
  /\ ppc = "copy" /\ done = newb
  /\ read_filepos' = read_filepos + newb
  /\ IF Len(got) = Sector THEN Return(got)
                          ELSE ppc' = "check" /\ UNCHANGED <<pos, sbuf, seof, got>>
  /\ newb' = 0 /\ slot' = 0 /\ done' = 0
  /\ UNCHANGED <<buffer, eof, min_filepos, max_filepos, offset, filler, seenmax>>

(* What the player does by itself once it called the cache ...             *)
Working ==
  \/ PrefillCheck \/ PrefillWait \/ ClearEof \/ CheckMax \/ CheckMin \/ CheckEof
  \/ Wait \/ Interrupted \/ NewB \/ Locate \/ Copy \/ Advance

(* ... and the calls the demuxers and the player's main loop make.         *)
Calls ==
  \/ StartFill \/ ResetStream \/ Uninit
  \/ \E t \in SeekTargets : SeekLong(t)

Player == Working \/ Calls

Ended == ppc \in {"closed", "crashed"} /\ UNCHANGED vars

Next == (fpc # "dead" /\ Filler) \/ Player \/ Ended

(* Two processes of a preemptive scheduler: neither is starved for ever.   *)
(* The demuxer need not make another call, hence nothing for Calls.        *)
Spec == Init /\ [][Next]_vars /\ WF_vars(Filler) /\ WF_vars(Working)
-----------------------------------------------------------------------------
(* Properties.                                                             *)

TypeOK ==
  /\ buffer \in [Slots -> Nat \cup {Junk}]
  /\ eof \in BOOLEAN /\ seof \in BOOLEAN
  /\ min_filepos \in Nat /\ max_filepos \in Nat /\ offset \in Nat
  /\ read_filepos \in Nat
  /\ fpc \in {"control", "top", "drop", "size", "read", "copy", "publish", "dead"}
  /\ todo \subseteq {"eof", "max", "min", "offset"}
  /\ read \in Nat /\ upos \in Nat
  /\ space \in 0 .. 4 * Sector /\ len \in 0 .. 4 * Sector
  /\ ppc \in {"prefill", "prefillWait", "idle", "reset", "clearEof", "check",
              "checkMin", "empty", "wait", "newb", "locate", "copy", "crashed",
              "closed"}
  /\ pos \in Nat /\ seenmax \in Nat /\ done \in Nat
  /\ sbuf \in Seq(Nat \cup {Junk}) /\ got \in Seq(Nat \cup {Junk})
  /\ newb \in Int /\ slot \in Int

(* Whatever the demuxer does, whenever the filler is not half way through  *)
(* dropping the ring: every position of the published window is in its     *)
(* slot, also while a block is being written next to it, before and after  *)
(* the wrap, and whichever of max_filepos and offset was stored first.     *)
WindowHolds ==
  fpc \notin {"drop", "dead"} =>
    /\ min_filepos <= max_filepos /\ max_filepos - min_filepos <= BufferSize
    /\ \A p \in min_filepos .. max_filepos - 1 : buffer[SlotOf(p, offset)] = p

(* What the player is about to copy is published and stays published until *)
(* it is copied: the filler trims or drops nothing of it in between.       *)
CopyInsideWindow ==
  /\ ppc = "copy" => /\ min_filepos <= read_filepos
                     /\ read_filepos + newb <= max_filepos
  /\ ppc # "crashed"

(* cache_fill gives up old bytes only while back_size of them remain       *)
(* behind the read position it works with.                                 *)
BackKept ==
  [][fpc = "size" /\ min_filepos' # min_filepos
       => read - min_filepos' >= BackSize]_vars

(* The sector in hand is the piece of the file that ends at stream->pos.   *)
DeliveredIsFile ==
  ppc = "idle" => \A i \in DOMAIN sbuf : sbuf[i] = pos - Len(sbuf) + i - 1

(* The player is told of the end of the file only once the cache has read  *)
(* all of it.                                                              *)
EofAfterLast == ppc = "idle" /\ seof => max_filepos >= FileLen

(* The player is told of the end of the file only at the end of the file.  *)
EofIsHonest == ppc = "idle" /\ seof => pos >= FileLen

(* The prefill loop of stream_enable_cache ends, and every read, after a   *)
(* seek or not, comes back with data or an end of file.                    *)
PrefillEnds == (ppc = "prefill") ~> (ppc \in {"idle", "closed"})
ReadReturns ==
  /\ PrefillEnds
  /\ (ppc = "check") ~> (ppc \in {"idle", "crashed"})
=============================================================================
