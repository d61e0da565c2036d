--------------------------- MODULE BufferedStream ---------------------------
(***************************************************************************)
(* The buffer between a demuxer and a file (stream.c, stream.h) and the    *)
(* stream of a local file or a pipe below it (stream_file.c), when there   *)
(* is no cache.  A call (seek, read or skip) runs until job is "done"; its *)
(* steps are the reads of the descriptor.                                  *)
(*                                                                         *)
(* The byte of the file at offset i is i, so that a byte tells where it    *)
(* comes from.                                                             *)
(***************************************************************************)
EXTENDS Integers, Sequences

CONSTANT BlockSize       \* STREAM_BUFFER_SIZE

ASSUME BlockAssumption == BlockSize \in Nat \ {0}

VARIABLES
  file_len, linear,      \* the file; a pipe, which lseek refuses
  pos, seof,             \* s->pos and s->eof
  buf_pos, buf_len,
  fd, base,              \* the descriptor's offset; where buffer[0] is from
  job, left,             \* the call in progress, and what it has left to do
  goal,                  \* the offset that a seek is to reach, else -1
  got, ok                \* the bytes read so far; the value returned

filevars   == <<file_len, linear>>
streamvars == <<pos, seof, buf_pos, buf_len, fd, base>>
jobvars    == <<job, left, goal, got, ok>>

StreamInit ==
  /\ pos = 0 /\ seof = FALSE /\ buf_pos = 0 /\ buf_len = 0 /\ fd = 0 /\ base = 0
  /\ job = "none" /\ left = 0 /\ goal = 0 /\ got = <<>> /\ ok = TRUE

Tell == pos + buf_pos - buf_len                            \* stream_tell
Free == job \in {"none", "done"}
Done(v) == job' = "done" /\ ok' = v /\ left' = 0
MinOf(a, b) == IF a < b THEN a ELSE b
-----------------------------------------------------------------------------
(* A file gives whole blocks up to its end, a pipe whatever has arrived    *)
Lengths ==
  LET most == MinOf(BlockSize, file_len - fd)
  IN  IF most <= 0 THEN {} ELSE IF linear THEN 1 .. most ELSE {most}

PullWhole(n) ==           \* mutant: a short read counts as a whole block
  /\ base' = fd /\ fd' = fd + n /\ pos' = pos + BlockSize
  /\ buf_pos' = 0 /\ buf_len' = n

Pull(n) ==
  /\ base' = fd /\ fd' = fd + n /\ pos' = pos + n
  /\ buf_pos' = 0 /\ buf_len' = n

(* stream_fill_buffer: at the end of the file the buffer stays as it was   *)
Fill(n)  == Pull(n) /\ seof' = FALSE
FillEnds == fd >= file_len /\ seof' = TRUE /\ UNCHANGED <<pos, buf_pos, buf_len, fd, base>>

(* stream_read and stream_skip                                             *)
Start(what, n) ==
  /\ Free /\ job' = what /\ left' = n /\ goal' = -1
  /\ UNCHANGED <<streamvars, got, ok>>
StartRead(n) == Start("read", n)

TransferStep ==
  /\ job \in {"read", "skip"} /\ UNCHANGED goal
  /\ LET x == MinOf(buf_len - buf_pos, left)
     IN  \/ left = 0 /\ Done(TRUE) /\ UNCHANGED <<streamvars, got>>
         \/ /\ x > 0
            /\ buf_pos' = buf_pos + x /\ left' = left - x
            /\ got' = IF job = "read" THEN got \o [i \in 1 .. x |-> base + buf_pos + i - 1] ELSE got
            /\ UNCHANGED <<job, ok, pos, seof, buf_len, fd, base>>
         \/ /\ left > 0 /\ buf_len = buf_pos /\ UNCHANGED got
            /\ \/ \E n \in Lengths : Fill(n) /\ UNCHANGED <<job, left, ok>>
               \/ FillEnds /\ Done(FALSE)
-----------------------------------------------------------------------------
(* stream_seek within the buffer                                           *)
SeekInside(t) ==
  /\ t < pos /\ t >= pos - buf_len
  /\ buf_pos' = t - (pos - buf_len)
  /\ Done(TRUE) /\ UNCHANGED <<pos, buf_len, fd, base>>

SeekBlockUnaligned(t) ==  \* mutant: the file is not put at the block's start
  LET block == (t \div BlockSize) * BlockSize
  IN  /\ ~(t < pos /\ t >= pos - buf_len)
      /\ buf_pos' = 0 /\ buf_len' = 0 /\ UNCHANGED <<base, ok>>
      /\ job' = "seek" /\ left' = t - block /\ pos' = t /\ fd' = t

(* stream_seek_long drops the buffer and seeks to the block, unless it is  *)
(* the next one; seek_forward goes on from where the pipe is               *)
SeekBlock(t) ==
  LET block == (t \div BlockSize) * BlockSize
  IN  /\ ~(t < pos /\ t >= pos - buf_len)
      /\ buf_pos' = 0 /\ buf_len' = 0 /\ UNCHANGED base
      /\ IF block # 0 /\ block = pos
         THEN job' = "seek" /\ left' = t - block /\ UNCHANGED <<pos, fd, ok>>
         ELSE IF ~linear
         THEN job' = "seek" /\ left' = t - block /\ pos' = block /\ fd' = block /\ UNCHANGED ok
         ELSE IF block < pos THEN Done(FALSE) /\ UNCHANGED <<pos, fd>>
         ELSE job' = "forward" /\ left' = t - block /\ UNCHANGED <<pos, fd, ok>>

SeekTo(t)    == Free /\ goal' = t /\ got' = <<>> /\ (SeekInside(t) \/ SeekBlock(t))
StartSeek(t) == SeekTo(t) /\ UNCHANGED seof

(* seek_forward                                                            *)
ForwardStep ==
  /\ job = "forward" /\ UNCHANGED <<left, goal, got, ok>>
  /\ \/ pos >= goal - left /\ job' = "seek" /\ UNCHANGED streamvars
     \/ /\ pos < goal - left
        /\ \/ \E n \in Lengths : Pull(n) /\ UNCHANGED <<job, seof>>
           \/ /\ fd >= file_len /\ job' = "seek" /\ seof' = TRUE
              /\ buf_pos' = 0 /\ buf_len' = 0 /\ UNCHANGED <<pos, fd, base>>

(* the loop that fills the buffer until it holds the place                 *)
SeekStep ==
  /\ job = "seek" /\ UNCHANGED <<goal, got>>
  /\ \/ \E n \in Lengths :
          IF left <= n
          THEN /\ buf_pos' = left /\ buf_len' = n /\ base' = fd /\ fd' = fd + n /\ pos' = pos + n
               /\ seof' = FALSE /\ Done(TRUE)
          ELSE Fill(n) /\ left' = left - n /\ UNCHANGED <<job, ok>>
     \/ FillEnds /\ Done(FALSE)

(* A big skip is a seek (what a film skips over in a chunk is not)         *)
StartSkip(n) ==
  IF n > 2 * BlockSize THEN StartSeek(Tell + n)
  ELSE Start("skip", n)

StreamStep == (TransferStep \/ ForwardStep \/ SeekStep) /\ UNCHANGED filevars

(* A demuxer starts from the beginning; stream_reset goes there at the end *)
(* of the file, but does not move the descriptor                           *)
StartNew == SeekTo(0) /\ seof' = FALSE
StartAgain ==
  IF ~seof THEN StartNew
  ELSE /\ Free /\ goal' = 0 /\ got' = <<>> /\ seof' = FALSE
       /\ pos' = 0 /\ buf_pos' = 0 /\ buf_len' = 0 /\ job' = "seek" /\ left' = 0
       /\ fd' = (IF linear THEN fd ELSE 0) /\ UNCHANGED <<base, ok>>
-----------------------------------------------------------------------------
(* The buffer holds what the position says: a byte read is the byte of the *)
(* file at stream_tell, after any calls, short reads and failed seeks.     *)
TellIsTruth == buf_pos \in 0 .. buf_len /\ (buf_len > 0 => base = pos - buf_len)

(* A seek in a file that reports success is where it was asked to be, and  *)
(* no seek to a place inside the file fails.  (On a pipe neither is so.)   *)
SeekLands ==
  job = "done" /\ goal >= 0 /\ ~linear => IF ok THEN Tell = goal ELSE goal >= file_len
=============================================================================
