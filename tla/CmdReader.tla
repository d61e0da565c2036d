------------------------------ MODULE CmdReader ------------------------------
(***************************************************************************)
(* Slave commands read from a file descriptor (mp_input_read_cmd): a read  *)
(* brings some more of the text into a buffer of fixed size, and each call *)
(* takes one line from it.  A line that does not fit is dropped up to its  *)
(* end, over as many calls as that takes.                                  *)
(*                                                                         *)
(* The text is a sequence of characters, "\n" the end of a line (a "\r" is *)
(* made one).  The buffer is the stretch of it from lo to hi.              *)
(***************************************************************************)
EXTENDS Integers, Sequences, FiniteSetsExt

CONSTANTS
  Texts,         \* what may be written to the descriptor
  BufferSize     \* MP_CMD_MAX_SIZE

ASSUME BufferAssumption == BufferSize \in Nat /\ BufferSize > 1
ASSUME TextsAssumption == \A t \in Texts : t \in Seq(STRING)

VARIABLES
  text,          \* what is written, in the end
  lo, hi,        \* the buffer holds text[lo + 1 .. hi]; pos is hi - lo
  got_cmd, drop, eof,
  open,          \* the descriptor is registered
  lines          \* history: the lines returned, as where they begin

readervars == <<text, lo, hi, got_cmd, drop, eof, open, lines>>

ReaderInit ==
  /\ text \in Texts /\ lo = 0 /\ hi = 0
  /\ got_cmd = FALSE /\ drop = FALSE /\ eof = FALSE /\ open = TRUE /\ lines = <<>>

Ends(from, to) == {i \in from + 1 .. to : text[i] = "\n"}
NextEnd(from)  == Min(Ends(from, Len(text)))

(* A read brings at least one character (a call with nothing to read yet   *)
(* changes nothing); at the end of the text it returns 0                   *)
Refill ==
  IF got_cmd \/ eof \/ hi - lo >= BufferSize - 1 THEN UNCHANGED <<hi, eof>>
  ELSE IF hi = Len(text) THEN eof' = TRUE /\ UNCHANGED hi
  ELSE \E n \in 1 .. BufferSize - 1 - (hi - lo) : hi + n <= Len(text) /\ hi' = hi + n /\ UNCHANGED eof

DropForgotten(from) ==  \* mutant: what follows the dropped part is a line
  Ends(from, hi') # {} /\ lo' = Min(Ends(from, hi')) /\ lines' = Append(lines, from)
  /\ drop' = FALSE /\ got_cmd' = (Ends(Min(Ends(from, hi')), hi') # {})

(* The first line in the buffer that is not the rest of a dropped one      *)
TakeLine(from) ==
  LET ends  == Ends(from, hi')
      start == IF drop THEN Min(ends) ELSE from
      rest  == Ends(start, hi')
  IN  /\ ends # {} /\ rest # {}
      /\ lo' = Min(rest) /\ lines' = Append(lines, start)
      /\ drop' = FALSE /\ got_cmd' = (Ends(Min(rest), hi') # {})

(* No whole line: a full buffer is thrown away                             *)
NoLine(from) ==
  LET ends  == Ends(from, hi')
      start == IF drop /\ ends # {} THEN Min(ends) ELSE from
      still == drop /\ ends = {}
      full  == hi' - start >= BufferSize - 1
  IN  /\ Ends(start, hi') = {}
      /\ lo' = IF full THEN hi' ELSE start
      /\ drop' = (full \/ still) /\ got_cmd' = FALSE
      /\ UNCHANGED lines

(* mp_input_read_cmd                                                       *)
ReadLine   == open /\ Refill /\ TakeLine(lo) /\ UNCHANGED <<text, open>>
ReadNoLine == open /\ Refill /\ NoLine(lo) /\ UNCHANGED <<text, open>>

(* read_events removes a descriptor that is at its end                     *)
Close == eof /\ open /\ open' = FALSE /\ UNCHANGED <<text, lo, hi, got_cmd, drop, eof, lines>>

(* The lines that a reader of the whole text would find, by where they     *)
(* begin: those that fit into the buffer with their end.                   *)
Starts == {0} \cup Ends(0, Len(text))
Whole(s) == Ends(s, Len(text)) # {} /\ NextEnd(s) - s <= BufferSize - 1

(* Outside a call, a line is waiting in the buffer exactly if got_cmd says *)
(* so: select is not asked again for what was read already.                *)
WaitingLineIsKnown == drop \/ got_cmd = (Ends(lo, hi) # {})

(* Every line that fits is returned once, whole and in order, whatever     *)
(* pieces the reads bring; a line that does not fit is never returned, nor *)
(* any part of it; nothing is left behind when the descriptor is removed,  *)
(* and that a line is in the buffer already is known.                      *)
LinesReturned ==
  /\ WaitingLineIsKnown
  /\ \A i \in DOMAIN lines : lines[i] \in Starts /\ Whole(lines[i])
  /\ \A i, j \in DOMAIN lines : i < j => lines[i] < lines[j]
  /\ \A s \in Starts : Whole(s) /\ (s < lo \/ ~open) => \E i \in DOMAIN lines : lines[i] = s
=============================================================================
