----------------------------- MODULE RtpReorder -----------------------------
(***************************************************************************)
(* How an RTP stream is put in order (stream/rtp.c).  The packets that     *)
(* arrive too early wait in a ring of slots, the first of which is for the *)
(* packet expected next.  The network may lose, delay and repeat packets,  *)
(* and deliver datagrams that are none.                                    *)
(*                                                                         *)
(* Packets are numbered from 1 as they are sent; seq numbers are those 16  *)
(* bits wide that the packet has.  The contents of a packet is its number. *)
(***************************************************************************)
EXTENDS Integers

CONSTANTS
  Ring,         \* MAXRTPPACKETSIN
  SeqMod,       \* 2^16
  Packets,      \* bound: packets sent
  InAir,        \* bound: a packet overtakes or is late by fewer than this
  MaxNoise,     \* bound: repeated and useless datagrams
  MaxLost       \* bound: packets that never arrive

ASSUME RtpAssumption == Ring \in Nat /\ Ring > 3 /\ SeqMod \in Nat /\ SeqMod > 5 * Ring

VARIABLES
  seq, len, data, first,   \* rtpbuf; a packet's length is 1
  is_first,
  at, tries,               \* where read_rtp_from_server is; i of its loop
  calm, base,              \* the network: does it keep order; the first seq
  sent, air, noise, lost,
  past,                    \* history: the last packet delivered or given up
  early,                   \* history: those received that come after it
  clash                    \* history: one was a whole ring ahead, and kept

ringvars == <<seq, len, data, first, is_first>>
netvars  == <<calm, base, sent, air, noise, lost>>
vars == <<ringvars, at, tries, netvars, past, early, clash>>

Slots == 0 .. Ring - 1
Plus(i, n) == (i + n) % Ring
Next16(s) == (s + 1) % SeqMod
SeqOf(n) == (base + n) % SeqMod

(* The numbers may wrap only if order is kept                              *)
Init ==
  /\ seq = [i \in Slots |-> 0] /\ len = [i \in Slots |-> 0] /\ data = [i \in Slots |-> 0]
  /\ first = 0 /\ is_first = TRUE /\ at = "idle" /\ tries = 0
  /\ calm \in BOOLEAN /\ base \in IF calm THEN {0, SeqMod - 4} ELSE {0}
  /\ sent = 0 /\ air = {} /\ noise = 0 /\ lost = 0 /\ past = 0 /\ early = {} /\ clash = FALSE
-----------------------------------------------------------------------------
(* The network                                                             *)

Send == /\ sent <= Packets /\ \A k \in air : k > sent + 1 - InAir
        /\ sent' = sent + 1 /\ air' = air \cup {sent'}
        /\ UNCHANGED <<ringvars, at, tries, calm, base, noise, lost, past, early, clash>>

Lose == /\ lost < MaxLost /\ lost' = lost + 1
        /\ \E n \in air : air' = air \ {n}
        /\ UNCHANGED <<ringvars, at, tries, calm, base, sent, noise, past, early, clash>>

(* many at once, more than the ring could wait for                         *)
LoseMany == /\ lost < MaxLost /\ lost' = lost + 1 /\ sent' = sent + Ring + 2
            /\ UNCHANGED <<ringvars, at, tries, calm, base, air, noise, past, early, clash>>

(* A packet is received, and perhaps will be once more                     *)
Arrives(n) ==
  /\ n \in air /\ UNCHANGED <<calm, base, sent, lost>>
  /\ calm => \A k \in air : n <= k
  /\ \/ air' = air \ {n} /\ UNCHANGED noise
     \/ ~calm /\ noise < MaxNoise /\ noise' = noise + 1 /\ UNCHANGED air
-----------------------------------------------------------------------------
(* rtp_cache                                                               *)

Distance(s) == s - seq[first]

(* What waits may be lost where the ring cannot hold the jump, and where   *)
(* the numbers wrap                                                        *)
Jump(n) == n > past + Ring \/ (past > 0 /\ SeqOf(n) < SeqOf(past))

Delivered(n) == /\ at' = "idle" /\ tries' = 0 /\ past' = n
                /\ UNCHANGED clash
                /\ early' = IF Jump(n) THEN {} ELSE early \ {n}

(* The packet expected, or the very first: on to the next slot             *)
Advance(n) ==
  /\ first' = Plus(first, 1)
  /\ seq' = [seq EXCEPT ![Plus(first, 1)] = Next16(SeqOf(n))]
  /\ is_first' = FALSE /\ UNCHANGED <<len, data>> /\ Delivered(n)

(* rtp_cache_reset, and the packet is delivered                            *)
Reset(n) ==
  /\ first' = 0 /\ seq' = [seq EXCEPT ![0] = Next16(SeqOf(n))]
  /\ len' = [i \in Slots |-> 0] /\ UNCHANGED <<data, is_first>> /\ Delivered(n)

Ignore == tries' = tries + 1 /\ UNCHANGED <<ringvars, at, past, clash>>

SlotUnmoved(n) == Distance(SeqOf(n)) % Ring   \* mutant: counted from the ring's start
Slot(n) == Plus(first, Distance(SeqOf(n)))

Keep(n) ==
  /\ data' = [data EXCEPT ![Slot(n)] = n] /\ len' = [len EXCEPT ![Slot(n)] = 1]
  /\ seq' = [seq EXCEPT ![Slot(n)] = SeqOf(n)]
  /\ clash' = (clash \/ Distance(SeqOf(n)) = Ring)
  /\ tries' = tries + 1 /\ UNCHANGED <<first, is_first, at, past>>

OverrunEarly(d) == d > 1     \* mutant: a packet that fits is taken for a jump
Overrun(d) == d > Ring
Stray(n)   == \E i \in Slots : seq[i] = SeqOf(n)

Sort(n) ==
  LET d == Distance(SeqOf(n))
  IN  \/ (is_first \/ d = 0) /\ Advance(n)
      \/ ~is_first /\ Overrun(d) /\ Reset(n)
      \/ ~is_first /\ d < 0 /\ (Stray(n) \/ d > -(3 * Ring)) /\ Ignore
      \/ ~is_first /\ d < 0 /\ ~Stray(n) /\ d <= -(3 * Ring) /\ Reset(n)
      \/ ~is_first /\ d > 0 /\ ~Overrun(d) /\ Keep(n)

(* the loop of rtp_get_next, which gives up after Ring - 3 datagrams       *)
Looking == at = "reading" /\ len[first] = 0 /\ tries < Ring - 3

Receive ==
  /\ Looking
  /\ \E n \in air :
       /\ Arrives(n) /\ Sort(n)
       /\ (at' = "reading" => early' = IF n > past /\ SeqOf(n) # 0 THEN early \cup {n} ELSE early)

(* a datagram of less than 12 bytes, or of a header only, or an error.     *)
(* (The headers are whole: one that announces more contributing sources    *)
(* than the datagram has bytes for is no packet that a server sends.)      *)
Junk == /\ Looking /\ ~calm /\ noise < MaxNoise /\ noise' = noise + 1
        /\ Ignore /\ UNCHANGED <<calm, base, sent, air, lost, early>>

TakeTwice(i) ==          \* mutant: the slot is not emptied
  /\ first' = Plus(i, 1)
  /\ seq' = [seq EXCEPT ![Plus(i, 1)] = Next16(seq[i])]
  /\ UNCHANGED <<len, data, is_first>>

Take(i) ==
  /\ first' = Plus(i, 1) /\ len' = [len EXCEPT ![i] = 0]
  /\ seq' = [seq EXCEPT ![Plus(i, 1)] = Next16(seq[i])]
  /\ UNCHANGED <<data, is_first>>

(* The first packet in the ring; those before it are taken for lost        *)
FromRing ==
  /\ at = "reading" /\ ~Looking /\ UNCHANGED netvars
  /\ \E d \in Slots :
       /\ len[Plus(first, d)] # 0 /\ \A e \in 0 .. d - 1 : len[Plus(first, e)] = 0
       /\ Take(Plus(first, d)) /\ Delivered(data[Plus(first, d)])

(* None at all: an empty packet, and the one expected is given up          *)
Empty ==
  /\ at = "reading" /\ ~Looking /\ \A i \in Slots : len[i] = 0
  /\ Take(first) /\ tries' = 0 /\ UNCHANGED <<at, netvars, early, clash>>
  /\ past' = IF is_first THEN past ELSE past + 1

(* read_rtp_from_server, which asks again for an empty packet              *)
Read == at = "idle" /\ at' = "reading" /\ UNCHANGED <<ringvars, tries, netvars, past, early, clash>>

Next == Send \/ Lose \/ LoseMany \/ Receive \/ Junk \/ FromRing \/ Empty \/ Read

Spec == Init /\ [][Next]_vars
-----------------------------------------------------------------------------
(* Types: slots and numbers wrap.                                          *)
TypeOK ==
  /\ first \in Slots /\ tries \in 0 .. Ring - 3 /\ past \in Nat
  /\ \A i \in Slots : seq[i] \in 0 .. SeqMod - 1 /\ len[i] \in 0 .. 1

(* A packet waits in the slot that is as far from the first as its number  *)
(* is from the one expected, also where slots and numbers wrap, until one  *)
(* comes that is as many ahead as there are slots.                         *)
SlotsAgree ==
  /\ TypeOK
  /\ ~clash => \A d \in Slots : LET i == Plus(first, d) IN
       len[i] # 0 => seq[i] = (seq[first] + d) % SeqMod /\ SeqOf(data[i]) = seq[i]

(* "get rtp packets reordered": no packet is delivered twice, or after one *)
(* that was sent later, or after it was given up.                          *)
Sorted == past' # past => past' > past
GetsReordered == [][Sorted]_vars

(* It is so until one comes that is as many ahead as there are slots.      *)
InOrder == [][Sorted \/ clash]_vars

(* A packet that came before it was passed over is waiting in the ring,    *)
(* unless a jump in the numbers emptied it.  (Not the packet numbered 0:   *)
(* the slots begin with that number, so it may be taken for a repeat.)     *)
NothingDropped == ~clash => \A n \in early : \E i \in Slots : len[i] # 0 /\ data[i] = n
=============================================================================
