----------------------------- MODULE FileStream -----------------------------
(***************************************************************************)
(* What the demuxers rely on when they call cache_stream_fill_buffer and   *)
(* cache_stream_seek_long: a plain file read sector by sector.  No ring,   *)
(* no second process, no waiting visible but that a call takes time.       *)
(***************************************************************************)
EXTENDS Integers, Sequences

CONSTANTS
  Sector, FileLen, SeekTargets,
  EarlyEof    \* may the stream report an end of file too early?

VARIABLES
  busy,     \* "opening", "idle", "reset", "filling" or "closed"
  pos,      \* stream->pos, the position after the sector in hand
  sbuf,     \* stream->buffer, the sector in hand
  seof      \* stream->eof

vars == <<busy, pos, sbuf, seof>>

Init == busy = "opening" /\ pos = 0 /\ sbuf = <<>> /\ seof = FALSE

(* stream_enable_cache returns                                             *)
Opened == busy = "opening" /\ busy' = "idle" /\ UNCHANGED <<pos, sbuf, seof>>

Close ==
  /\ busy \in {"opening", "idle"}
  /\ busy' = "closed" /\ UNCHANGED <<pos, sbuf, seof>>

StartFill == busy = "idle" /\ busy' = "filling" /\ UNCHANGED <<pos, sbuf, seof>>

Reset ==
  /\ busy = "idle" /\ seof
  /\ busy' = "reset" /\ pos' = 0 /\ sbuf' = <<>> /\ seof' = FALSE

Seek(t) ==
  /\ busy \in {"idle", "reset"}
  /\ busy' = "filling" /\ pos' = (t \div Sector) * Sector
  /\ UNCHANGED <<sbuf, seof>>

(* The next sector of the file, or what is left of it.                     *)
SectorLen == IF FileLen - pos < Sector THEN FileLen - pos ELSE Sector

Fill(n) ==
  /\ busy = "filling" /\ pos < FileLen
  /\ n = SectorLen \/ (EarlyEof /\ n < SectorLen)
  /\ busy' = "idle"
  /\ sbuf' = [i \in 1 .. n |-> pos + i - 1] /\ pos' = pos + n /\ seof' = FALSE

EndOfFile ==
  /\ busy = "filling" /\ (pos >= FileLen \/ EarlyEof)
  /\ busy' = "idle"
  /\ sbuf' = <<>> /\ seof' = TRUE /\ UNCHANGED pos

Return == EndOfFile \/ \E n \in 1 .. Sector : Fill(n)

Next ==
  \/ Opened \/ Close \/ StartFill \/ Reset \/ Return
  \/ \E t \in SeekTargets : Seek(t)

(* Opening and every call come to an end.                                  *)
Spec == /\ Init /\ [][Next]_vars
        /\ WF_vars(busy = "opening" /\ (Opened \/ Close)) /\ WF_vars(Return)
=============================================================================
