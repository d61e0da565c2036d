------------------------------- MODULE KeyFifo -------------------------------
(***************************************************************************)
(* The key FIFO (mp_fifo.c): the window or terminal driver puts presses    *)
(* and releases of keys, the input layer takes them out.  Two presses of a *)
(* mouse button in a short time also put a double click.  Time is left     *)
(* out: of the last two presses, young say how many are recent enough.     *)
(***************************************************************************)
EXTENDS Integers, Sequences

CONSTANTS
  Keys,         \* keys and mouse buttons that the user presses
  Buttons,      \* the mouse buttons among them
  FifoSize,     \* key_fifo_size
  MaxPresses    \* bound: how often keys are pressed

ASSUME FifoAssumption ==
  /\ Buttons \subseteq Keys /\ FifoSize \in Nat \ {0} /\ MaxPresses \in Nat

VARIABLES
  fifo,      \* key_fifo_data, from key_fifo_read to key_fifo_write
  last_key,  \* the last two keys pressed, the latest first
  young,     \* how many of the two were pressed within doubleclick_time
  held,      \* the keys that the user holds down
  presses,   \* presses so far
  lost       \* history: held down as far as the player can know: a press
             \* went into the FIFO, and the release after it did not

fifovars == <<fifo, last_key, young, held, presses, lost>>

Event(k, e) == [key |-> k, is |-> e]        \* e is "down", "up" or "double"

FifoInit ==
  /\ fifo = <<>> /\ last_key = <<"none", "none">> /\ young = 0
  /\ held = {} /\ presses = 0 /\ lost = {}

(* The places that presses may use                                         *)
Unreserved == FifoSize - FifoSize \div 2

(* mplayer_put_key_internal: a full FIFO takes nothing, and a press needs  *)
(* half of it free, so that releases still fit                             *)
Put(q, e) ==
  LET free == FifoSize - 1 - Len(q)
  IN  IF free = 0 \/ (e.is = "down" /\ free < FifoSize \div 2) THEN q ELSE Append(q, e)

PutDouble(q, k, recent) ==
  IF k \in Buttons /\ recent THEN Put(q, Event(k, "double")) ELSE q

(* mplayer_put_key for a press, also the repeats that a keyboard sends     *)
Press(k) ==
  /\ presses < MaxPresses /\ presses' = presses + 1
  /\ last_key' = <<k, last_key[1]>>
  /\ young' = IF young = 0 THEN 1 ELSE 2
  /\ fifo' = PutDouble(Put(fifo, Event(k, "down")), k, last_key[1] = k /\ young' = 2)
  /\ held' = held \cup {k}
  /\ lost' = IF Put(fifo, Event(k, "down")) = fifo THEN lost ELSE lost \ {k}

(* and for a release; what counts is the time of the press before the last *)
Release(k) ==
  /\ k \in held
  /\ fifo' = PutDouble(Put(fifo, Event(k, "up")), k, last_key = <<k, k>> /\ young = 2)
  /\ held' = held \ {k}
  /\ lost' = IF Put(fifo, Event(k, "up")) = fifo THEN lost \cup {k} ELSE lost \ {k}
  /\ UNCHANGED <<last_key, young, presses>>

TimePasses == young > 0 /\ young' = young - 1
              /\ UNCHANGED <<fifo, last_key, held, presses, lost>>

Driver == TimePasses \/ \E k \in Keys : Press(k) \/ Release(k)

(* mplayer_get_key                                                         *)
Get(e) == fifo # <<>> /\ e = Head(fifo) /\ fifo' = Tail(fifo)
          /\ UNCHANGED <<last_key, young, held, presses, lost>>

(* However presses and releases follow each other, the reserve is never    *)
(* taken by presses: a release that finds the FIFO full is refused for the *)
(* sake of other releases and of double clicks.                            *)
ReserveKept == \A i \in DOMAIN fifo : fifo[i].is = "down" => i <= Unreserved

(* "reserve some space for key release events to avoid stuck keys": the    *)
(* release of a key whose press was taken finds room.  The code fails      *)
(* this: a double click takes the place that was kept for a release.       *)
NoStuckKey == lost = {}
=============================================================================
