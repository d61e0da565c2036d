------------------------------- MODULE UdpSync -------------------------------
(***************************************************************************)
(* Playback synchronised over a network (udp_sync.c): the master sends its *)
(* position before each frame and "bye" when it exits, a slave plays a     *)
(* frame only when the master has, and seeks when it is too far off.       *)
(* Slaves know nothing of each other, so there is one.                     *)
(*                                                                         *)
(* Positions are frames, which are further apart than the tolerance.  A    *)
(* seek leads to the key frame at or before its target.  The network may   *)
(* lose datagrams and change their order, within bounds, and the master    *)
(* may seek, pause, exit or crash.  Left out: the user at the slave.       *)
(***************************************************************************)
EXTENDS Integers, Sequences, SequencesExt

CONSTANTS
  Frames,        \* of the two files
  KeyEvery,      \* every so many frames is a key frame
  Threshold,     \* udp_seek_threshold
  Second,        \* a slave that heard nothing takes the master to be at -1.0
  Late,          \* bound: how many frames a datagram may be late
  InAir,         \* bound: datagrams in flight, and waiting at the socket
  MaxSeeks       \* bound: how often the master seeks

ASSUME SyncAssumption ==
  /\ {Frames, KeyEvery, Second, Late, InAir} \subseteq Nat \ {0}
  /\ {Threshold, MaxSeeks} \subseteq Nat

VARIABLES
  mnext, mat,    \* the master's next frame; it is "playing" or "gone"
  seeks,         \* how often it sought
  air, inbox,    \* datagrams in flight and waiting at the slave's socket
  listens,       \* the slave's socket is open
  sat,           \* where the slave is
  frame, next,   \* the frame it has decoded, and the next one
  heard,         \* udp_master_position
  off            \* a seek is due (abs_seek_pos)

netvars   == <<air, inbox, listens>>
slavevars == <<sat, frame, next, heard, off>>
vars == <<mnext, mat, seeks, netvars, slavevars>>

Bye     == Frames                       \* where no frame is
KeyAt(f) == (f \div KeyEvery) * KeyEvery

Init ==
  /\ mnext = 0 /\ mat = "playing" /\ seeks = 0
  /\ air = <<>> /\ inbox = <<>> /\ listens = FALSE
  /\ sat = "decode" /\ frame = 0 /\ next = 0 /\ heard = 0 - Second /\ off = FALSE
-----------------------------------------------------------------------------
(* The master: sleep_until_update before each frame, seek, exit_player     *)

Send(d) == air' = Append(air, d) /\ UNCHANGED <<inbox, listens>>
Quick   == Len(air) < InAir /\ \A i \in DOMAIN air : mnext - air[i] < Late

Play ==
  /\ mat = "playing" /\ mnext < Frames /\ Quick
  /\ Send(mnext) /\ mnext' = mnext + 1
  /\ UNCHANGED <<mat, seeks, slavevars>>

MasterSeeks ==
  /\ mat = "playing" /\ seeks < MaxSeeks /\ seeks' = seeks + 1
  /\ \E f \in 0 .. Frames - 1 : mnext' = KeyAt(f)
  /\ UNCHANGED <<mat, netvars, slavevars>>

Exit == mat = "playing" /\ mat' = "gone" /\ Send(Bye) /\ UNCHANGED <<mnext, seeks, slavevars>>
Crash == mat = "playing" /\ mat' = "gone" /\ UNCHANGED <<mnext, seeks, netvars, slavevars>>

Master == Play \/ MasterSeeks \/ Exit \/ Crash
-----------------------------------------------------------------------------
(* The network, to a socket that is open and has room                      *)

Arrive ==
  /\ \E i \in DOMAIN air :
       /\ air' = RemoveAt(air, i)
       /\ inbox' = IF listens /\ Len(inbox) < InAir THEN Append(inbox, air[i]) ELSE inbox
  /\ UNCHANGED <<mnext, mat, seeks, listens, slavevars>>

Lose ==
  /\ \E i \in DOMAIN air : air' = RemoveAt(air, i)
  /\ UNCHANGED <<mnext, mat, seeks, inbox, listens, slavevars>>
-----------------------------------------------------------------------------
(* The slave                                                               *)

Away == UNCHANGED <<mnext, mat, seeks, air>>
Goto(w) == sat' = w

(* update_video: the end of the slave's own file ends it                   *)
Decode ==
  /\ sat = "decode"
  /\ IF next < Frames THEN frame' = next /\ next' = next + 1 /\ Goto("poll")
     ELSE Goto("gone") /\ UNCHANGED <<frame, next>>
  /\ Away /\ UNCHANGED <<inbox, listens, heard, off>>

DeafTo(d) ==               \* mutant: "bye" is not heard
  heard' = (IF d = Bye THEN heard ELSE d) /\ Goto("poll")

(* a datagram in get_udp                                                   *)
Take(d) == IF d = Bye THEN Goto("gone") /\ UNCHANGED heard
           ELSE heard' = d /\ Goto("poll")

(* get_udp: after the first datagram, or from the start if it need not     *)
(* block, all that wait are taken ...                                      *)
Poll ==
  /\ sat = "poll" /\ listens' = TRUE
  /\ IF inbox = <<>> THEN Goto("compare") /\ UNCHANGED <<inbox, heard>>
     ELSE Take(Head(inbox)) /\ inbox' = Tail(inbox)
  /\ Away /\ UNCHANGED <<frame, next, off>>

(* ... and if there must be one it waits, for 30 seconds and then again    *)
Wait ==
  /\ sat = "wait"
  /\ IF inbox = <<>> THEN Goto("compare") /\ UNCHANGED <<inbox, heard>>
     ELSE Take(Head(inbox)) /\ inbox' = Tail(inbox)
  /\ Away /\ UNCHANGED <<listens, frame, next, off>>

TooFar == heard - frame > Threshold \/ frame - heard > Threshold

CompareFlat ==              \* mutant: any lead is too far
  /\ sat = "compare" /\ off' = (TooFar \/ frame - heard > 0)
  /\ Goto(IF TooFar \/ frame - heard > 0 \/ heard >= frame THEN "show" ELSE "wait")
  /\ Away /\ UNCHANGED <<inbox, listens, frame, next, heard>>

CompareLoose ==             \* mutant: the frame after the master's may be shown
  /\ sat = "compare" /\ off' = TooFar
  /\ Goto(IF TooFar \/ heard + 1 >= frame THEN "show" ELSE "wait")
  /\ Away /\ UNCHANGED <<inbox, listens, frame, next, heard>>

(* udp_slave_sync                                                          *)
Compare ==
  /\ sat = "compare" /\ off' = TooFar
  /\ Goto(IF TooFar \/ heard >= frame THEN "show" ELSE "wait")
  /\ Away /\ UNCHANGED <<inbox, listens, frame, next, heard>>

ShowStays ==                \* mutant: the seek goes to the slave's own position
  /\ sat = "show" /\ Goto("decode") /\ off' = FALSE
  /\ next' = IF off THEN KeyAt(frame) ELSE next
  /\ Away /\ UNCHANGED <<inbox, listens, frame, heard>>

(* The frame is shown, also the one after which a seek is due              *)
Show ==
  /\ sat = "show" /\ Goto("decode") /\ off' = FALSE
  /\ next' = IF ~off THEN next ELSE IF heard < 0 THEN 0 ELSE KeyAt(heard)
  /\ Away /\ UNCHANGED <<inbox, listens, frame, heard>>

Slave == Decode \/ Poll \/ Wait \/ Compare \/ Show

Over == sat = "gone" /\ UNCHANGED vars

Next == Master \/ Arrive \/ Lose \/ Slave \/ Over

(* The slave runs; the master may pause for ever; what is not lost arrives *)
Spec == Init /\ [][Next]_vars /\ WF_vars(Slave) /\ WF_vars(Arrive)
-----------------------------------------------------------------------------
(* Types.                                                                  *)
TypeOK ==
  /\ mnext \in 0 .. Frames /\ seeks \in 0 .. MaxSeeks /\ mat \in {"playing", "gone"}
  /\ air \in Seq(0 .. Bye) /\ inbox \in Seq(0 .. Bye) /\ listens \in BOOLEAN
  /\ sat \in {"decode", "poll", "compare", "wait", "show", "gone"}
  /\ frame \in 0 .. Frames - 1 /\ next \in 0 .. Frames
  /\ heard \in -Second .. Frames - 1 /\ off \in BOOLEAN

(* "we're slightly ahead of the master ... block": a slave never shows a   *)
(* frame before the master, whatever the network does, unless the master   *)
(* sought (or it shows it just before a seek).                             *)
NeverAhead == seeks = 0 /\ sat = "show" /\ ~off => frame < mnext

(* It seeks only if it is too far behind, or if the master sought: that    *)
(* datagrams are late or out of order does not make it jump back.          *)
SeeksWhenBehind == seeks = 0 /\ sat = "show" /\ off => frame + Threshold < mnext

(* A slave comes to where the master is, however far it was behind, unless *)
(* the master moves on.                                                    *)
CatchesUp ==
  \A p \in 0 .. Frames - 1 : heard = p ~> heard # p \/ frame >= p \/ sat = "gone"

(* "bye" ends the slave, whatever it waits for, once it is at its socket.  *)
ByeEnds == Bye \in Range(inbox) ~> sat = "gone"
=============================================================================
