---------------------------- MODULE UdpSyncProofs ----------------------------
(***************************************************************************)
(* Proofs about the synchronised playback, for files of any length, any    *)
(* threshold and any number of seeks of the master.                        *)
(***************************************************************************)
EXTENDS UdpSync, SequenceTheorems, TLAPS

Datagrams == 0 .. Frames

LEMMA Sizes ==
  /\ Frames \in Nat \ {0} /\ KeyEvery \in Nat \ {0} /\ Second \in Nat \ {0}
  /\ Late \in Nat \ {0} /\ InAir \in Nat \ {0}
  /\ Threshold \in Nat /\ MaxSeeks \in Nat /\ Bye = Frames
  BY SyncAssumption DEF SyncAssumption, Bye

(* A seek goes back to a key frame, to the first one at the worst.         *)
LEMMA KeyAtBefore ==
  ASSUME NEW f \in Nat
  PROVE  KeyAt(f) \in 0 .. f
<1>1. f \div KeyEvery \in Nat /\ f % KeyEvery \in Nat
  BY Sizes
<1>2. f = KeyEvery * (f \div KeyEvery) + (f % KeyEvery)
  BY Sizes
<1>3. KeyEvery * (f \div KeyEvery) \in Nat
  BY <1>1, Sizes
<1>4. (f \div KeyEvery) * KeyEvery = KeyEvery * (f \div KeyEvery)
  BY <1>1, Sizes
<1>5. QED BY <1>1, <1>2, <1>3, <1>4 DEF KeyAt

(* What is left of a sequence was in it, in the same order.                *)
LEMMA RemoveAtType ==
  ASSUME NEW S, NEW s \in Seq(S), NEW i \in 1 .. Len(s)
  PROVE  /\ RemoveAt(s, i) \in Seq(S) /\ Len(RemoveAt(s, i)) = Len(s) - 1
         /\ \A j \in 1 .. Len(s) - 1 :
              RemoveAt(s, i)[j] = IF j < i THEN s[j] ELSE s[j + 1]
<1> DEFINE front == SubSeq(s, 1, i - 1)
           back  == SubSeq(s, i + 1, Len(s))
<1>1. front \in Seq(S) /\ Len(front) = i - 1 /\ \A j \in 1 .. i - 1 : front[j] = s[j]
  OBVIOUS
<1>2. /\ back \in Seq(S) /\ Len(back) = Len(s) - i
      /\ \A j \in 1 .. Len(s) - i : back[j] = s[i + j]
  <2>1. /\ back \in Seq(S)
        /\ Len(back) = IF i + 1 <= Len(s) THEN Len(s) - (i + 1) + 1 ELSE 0
        /\ \A j \in 1 .. Len(s) - (i + 1) + 1 : back[j] = s[(i + 1) + j - 1]
    BY SubSeqProperties DEF back
  <2>2. QED BY <2>1
<1> HIDE DEF front, back
<1>3. /\ front \o back \in Seq(S) /\ Len(front \o back) = Len(s) - 1
      /\ \A j \in 1 .. Len(s) - 1 :
           (front \o back)[j] = IF j < i THEN front[j] ELSE back[j - (i - 1)]
  <2>1. /\ front \o back \in Seq(S) /\ Len(front \o back) = Len(front) + Len(back)
        /\ \A j \in 1 .. Len(front) + Len(back) :
             (front \o back)[j] = IF j <= Len(front) THEN front[j] ELSE back[j - Len(front)]
    BY <1>1, <1>2, ConcatProperties
  <2>2. Len(front) + Len(back) = Len(s) - 1 /\ Len(s) \in Nat
    BY <1>1, <1>2
  <2>3. QED BY <1>1, <2>1, <2>2
<1>4. ASSUME NEW j \in 1 .. Len(s) - 1
      PROVE  (front \o back)[j] = IF j < i THEN s[j] ELSE s[j + 1]
  <2>1. CASE j < i
    BY <1>1, <1>3, <2>1
  <2>2. CASE ~(j < i)
    <3>1. j - (i - 1) \in 1 .. Len(s) - i /\ i + (j - (i - 1)) = j + 1
      BY <2>2
    <3>2. QED BY <1>2, <1>3, <2>2, <3>1
  <2>3. QED BY <2>1, <2>2
<1>5. RemoveAt(s, i) = front \o back
  BY DEF RemoveAt, front, back
<1>6. QED BY <1>3, <1>4, <1>5
-----------------------------------------------------------------------------
(* While the master has not sought, all positions that are on their way    *)
(* are behind it, and the slave shows what it has heard of.                *)
Behind(s) == \A i \in 1 .. Len(s) : s[i] # Bye => s[i] < mnext

HeardInv ==
  /\ Behind(air) /\ Behind(inbox) /\ heard < mnext
  /\ sat = "show" /\ ~off => frame <= heard

(* And if datagrams are not later than the threshold, what a slave hears   *)
(* is never much older than the frame it has come to: a position waiting   *)
(* at the socket is that of a master the slave had not passed when it      *)
(* arrived, and the slave takes it before it moves on by more than one.    *)
NotOld(p) ==
  /\ frame <= p + Late /\ heard < p + Late
  /\ sat = "decode" => next <= p + Late

Fresh   == \A i \in 1 .. Len(air) : air[i] # Bye => mnext <= air[i] + Late
Waiting == \A i \in 1 .. Len(inbox) : inbox[i] # Bye => NotOld(inbox[i])
Orderly == \A i, j \in 1 .. Len(inbox) :
  i < j /\ inbox[i] # Bye /\ inbox[j] # Bye => inbox[i] < inbox[j] + Late

Place ==
  /\ frame <= mnext
  /\ sat = "decode" => next <= mnext /\ next <= heard + Threshold
  /\ sat \in {"poll", "compare", "wait", "show"} => next = frame + 1
  /\ sat \in {"poll", "compare", "wait"} => frame <= heard + Threshold
  /\ sat = "show" /\ off => frame + Threshold < heard

AgeInv == Fresh /\ Waiting /\ Orderly /\ Place
Prompt == Late <= Threshold /\ Second <= Threshold

Unsought == HeardInv /\ (Prompt => AgeInv)
Inv == TypeOK /\ (seeks = 0 => Unsought)

LEMMA InitInv == Init => Inv
<1>1. SUFFICES ASSUME Init PROVE Inv
  OBVIOUS
<1>2. /\ mnext = 0 /\ seeks = 0 /\ mat = "playing" /\ listens = FALSE /\ sat = "decode"
      /\ frame = 0 /\ next = 0 /\ heard = 0 - Second /\ off = FALSE
  BY <1>1 DEF Init
<1>3. /\ air \in Seq(0 .. Bye) /\ Len(air) = 0 /\ inbox \in Seq(0 .. Bye) /\ Len(inbox) = 0
  BY <1>1, EmptySeq DEF Init
<1>4. heard \in -Second .. Frames - 1 /\ heard < 0 /\ Second \in Nat
  BY <1>2, Sizes
<1>5. TypeOK
  <2>1. /\ mnext \in 0 .. Frames /\ seeks \in 0 .. MaxSeeks
        /\ frame \in 0 .. Frames - 1 /\ next \in 0 .. Frames
    BY <1>2, <1>3, Sizes
  <2>2. QED BY <1>2, <1>3, <1>4, <2>1 DEF TypeOK
<1>6. HeardInv
  BY <1>2, <1>3, <1>4 DEF HeardInv, Behind
<1>7. ASSUME Prompt PROVE AgeInv
  <2>1. Fresh /\ Waiting /\ Orderly
    BY <1>3 DEF Fresh, Waiting, Orderly
  <2>2. Place
    BY <1>2, <1>7, Sizes DEF Place, Prompt
  <2>3. QED BY <2>1, <2>2 DEF AgeInv
<1>8. QED BY <1>5, <1>6, <1>7 DEF Inv, Unsought

LEMMA PlayInv == ASSUME Inv, Play PROVE Inv'
<1>1. /\ mnext' = mnext + 1 /\ mnext \in 0 .. Frames - 1 /\ Len(air) < InAir
      /\ air \in Seq(0 .. Bye) /\ inbox \in Seq(0 .. Bye) /\ heard \in Int
      /\ air' = Append(air, mnext) /\ UNCHANGED <<inbox, listens, mat, seeks>>
      /\ UNCHANGED <<sat, frame, next, heard, off>>
  BY Sizes DEF Inv, TypeOK, Play, Quick, Send, slavevars
<1>2. /\ air' \in Seq(0 .. Bye) /\ Len(air') = Len(air) + 1
      /\ \A i \in 1 .. Len(air) : air'[i] = air[i] /\ air[i] \in 0 .. Bye
      /\ air'[Len(air) + 1] = mnext
  BY <1>1, Sizes
<1>3. TypeOK'
  BY <1>1, <1>2, Sizes DEF Inv, TypeOK
<1>4. ASSUME seeks' = 0 PROVE HeardInv'
  <2>1. HeardInv
    BY <1>1, <1>4 DEF Inv, Unsought
  <2>2. Behind(air)'
    <3>1. SUFFICES ASSUME NEW i \in 1 .. Len(air'), air'[i] # Bye
                   PROVE  air'[i] < mnext'
      BY DEF Behind, Bye
    <3>2. CASE i \in 1 .. Len(air)
      BY <1>1, <1>2, <2>1, <3>1, <3>2, Sizes DEF HeardInv, Behind
    <3>3. CASE i = Len(air) + 1
      BY <1>1, <1>2, <3>3
    <3>4. QED BY <1>1, <1>2, <3>2, <3>3
  <2>3. Behind(inbox)'
    BY <1>1, <2>1, Sizes DEF HeardInv, Behind, Bye
  <2>4. QED BY <1>1, <2>1, <2>2, <2>3 DEF HeardInv
<1>5. ASSUME seeks' = 0, Prompt PROVE AgeInv'
  <2>1. AgeInv
    BY <1>1, <1>5 DEF Inv, Unsought
  <2>2. Fresh'
    <3>1. SUFFICES ASSUME NEW i \in 1 .. Len(air'), air'[i] # Bye
                   PROVE  mnext' <= air'[i] + Late
      BY DEF Fresh, Bye
    <3>2. CASE i \in 1 .. Len(air)
      <4>1. mnext - air[i] < Late
        BY <1>1, <3>2 DEF Play, Quick
      <4>2. QED BY <1>1, <1>2, <3>2, <4>1, Sizes
    <3>3. CASE i = Len(air) + 1
      BY <1>1, <1>2, <3>3, Sizes
    <3>4. QED BY <1>1, <1>2, <3>2, <3>3
  <2>3. Waiting' /\ Orderly'
    BY <1>1, <2>1 DEF AgeInv, Waiting, Orderly, NotOld, Bye
  <2>4. Place'
    BY <1>1, <2>1, Sizes DEF AgeInv, Place, Inv, TypeOK
  <2>5. QED BY <2>2, <2>3, <2>4 DEF AgeInv
<1>6. QED BY <1>3, <1>4, <1>5 DEF Inv, Unsought, Prompt

LEMMA MasterSeeksInv == ASSUME Inv, MasterSeeks PROVE Inv'
<1>1. seeks' \in 1 .. MaxSeeks /\ mnext' \in 0 .. Frames
  BY KeyAtBefore, Sizes DEF Inv, TypeOK, MasterSeeks
<1>2. QED BY <1>1 DEF Inv, TypeOK, MasterSeeks, netvars, slavevars

LEMMA MasterEndsInv == ASSUME Inv, Exit \/ Crash PROVE Inv'
<1>1. /\ mat' = "gone" /\ UNCHANGED <<mnext, seeks, inbox, listens>>
      /\ UNCHANGED <<sat, frame, next, heard, off>>
      /\ air' = air \/ air' = Append(air, Bye)
      /\ air \in Seq(0 .. Bye)
  BY DEF Exit, Crash, Send, netvars, slavevars, Inv, TypeOK
<1>2. /\ air' \in Seq(0 .. Bye)
      /\ \A i \in 1 .. Len(air') : air'[i] # Bye => i \in 1 .. Len(air) /\ air'[i] = air[i]
  BY <1>1, Sizes
<1>3. TypeOK'
  BY <1>1, <1>2 DEF Inv, TypeOK, Bye
<1>4. ASSUME seeks' = 0 PROVE HeardInv'
  <2>1. HeardInv
    BY <1>1, <1>4 DEF Inv, Unsought
  <2>2. QED BY <1>1, <1>2, <2>1 DEF HeardInv, Behind, Bye
<1>5. ASSUME seeks' = 0, Prompt PROVE AgeInv'
  <2>1. AgeInv
    BY <1>1, <1>5 DEF Inv, Unsought
  <2>2. QED BY <1>1, <1>2, <2>1 DEF AgeInv, Fresh, Waiting, Orderly, Place, NotOld, Bye
<1>6. QED BY <1>3, <1>4, <1>5 DEF Inv, Unsought, Prompt

(* A datagram on its way arrives at the end of those that wait, or is lost. *)
LEMMA NetworkInv == ASSUME Inv, Arrive \/ Lose PROVE Inv'
<1>1. PICK k \in 1 .. Len(air) :
        /\ air' = RemoveAt(air, k)
        /\ inbox' = inbox \/ inbox' = Append(inbox, air[k])
  BY DEF Arrive, Lose, Inv, TypeOK
<1>2. /\ UNCHANGED <<mnext, mat, seeks, listens, sat, frame, next, heard, off>>
      /\ air \in Seq(0 .. Bye) /\ inbox \in Seq(0 .. Bye) /\ mnext \in Nat /\ heard \in Int
      /\ frame \in Nat /\ next \in Nat
  BY Sizes DEF Arrive, Lose, slavevars, Inv, TypeOK
<1>3. /\ air' \in Seq(0 .. Bye) /\ Len(air') = Len(air) - 1
      /\ \A i \in 1 .. Len(air') : \E j \in 1 .. Len(air) : air'[i] = air[j]
  <2>1. /\ air' \in Seq(0 .. Bye) /\ Len(air') = Len(air) - 1
        /\ \A i \in 1 .. Len(air) - 1 : air'[i] = IF i < k THEN air[i] ELSE air[i + 1]
    BY <1>1, <1>2, RemoveAtType
  <2>2. ASSUME NEW i \in 1 .. Len(air')
        PROVE  \E j \in 1 .. Len(air) : air'[i] = air[j]
    <3>1. i \in 1 .. Len(air) /\ i + 1 \in 1 .. Len(air) /\ i \in 1 .. Len(air) - 1
      BY <1>2, <2>1
    <3>2. QED BY <2>1, <3>1
  <2>3. QED BY <2>1, <2>2
<1>4. air[k] \in 0 .. Bye
  <2>1. k \in 1 .. Len(air)
    BY <1>1
  <2>2. QED BY <1>2, <2>1, ElementOfSeq
<1>5. /\ inbox' \in Seq(0 .. Bye)
      /\ \A i \in 1 .. Len(inbox') :
           \/ i \in 1 .. Len(inbox) /\ inbox'[i] = inbox[i]
           \/ i = Len(inbox) + 1 /\ inbox'[i] = air[k]
  <2>1. CASE inbox' = inbox
    BY <1>2, <2>1
  <2>2. CASE inbox' = Append(inbox, air[k])
    <3>1. /\ Append(inbox, air[k]) \in Seq(0 .. Bye)
          /\ Len(Append(inbox, air[k])) = Len(inbox) + 1
          /\ \A i \in 1 .. Len(inbox) : Append(inbox, air[k])[i] = inbox[i]
          /\ Append(inbox, air[k])[Len(inbox) + 1] = air[k]
      BY <1>2, <1>4, AppendProperties
    <3>2. Len(inbox) \in Nat
      BY <1>2
    <3>3. QED BY <2>2, <3>1, <3>2
  <2>3. QED BY <1>1, <2>1, <2>2
<1>6. TypeOK'
  <2>1. TypeOK
    BY DEF Inv
  <2>2. air' \in Seq(0 .. Frames) /\ inbox' \in Seq(0 .. Frames)
    BY <1>3, <1>5, Sizes
  <2>3. QED BY <1>2, <2>1, <2>2 DEF TypeOK, Bye
<1>7. ASSUME seeks' = 0 PROVE HeardInv'
  <2>1. HeardInv
    BY <1>2, <1>7 DEF Inv, Unsought
  <2>2. Behind(air)'
    BY <1>2, <1>3, <2>1 DEF HeardInv, Behind, Bye
  <2>3. Behind(inbox)'
    BY <1>1, <1>2, <1>5, <2>1 DEF HeardInv, Behind, Bye
  <2>4. QED BY <1>2, <2>1, <2>2, <2>3 DEF HeardInv
<1>8. ASSUME seeks' = 0, Prompt PROVE AgeInv'
  <2>1. AgeInv /\ HeardInv
    BY <1>2, <1>8 DEF Inv, Unsought
  <2>2. Fresh'
    BY <1>2, <1>3, <2>1 DEF AgeInv, Fresh, Bye
  <2>3. air[k] # Bye => NotOld(air[k])
    <3>1. SUFFICES ASSUME air[k] # Bye PROVE NotOld(air[k])
      OBVIOUS
    <3>2. mnext <= air[k] + Late /\ air[k] \in Nat
      BY <1>1, <1>4, <2>1, <3>1, Sizes DEF AgeInv, Fresh
    <3>3. QED BY <1>2, <2>1, <3>2, Sizes DEF AgeInv, HeardInv, Place, NotOld
  <2>4. Waiting'
    BY <1>2, <1>5, <2>1, <2>3 DEF AgeInv, Waiting, NotOld, Bye
  <2>5. Orderly'
    <3>1. SUFFICES ASSUME NEW i \in 1 .. Len(inbox'), NEW j \in 1 .. Len(inbox'),
                          i < j, inbox'[i] # Bye, inbox'[j] # Bye
                   PROVE  inbox'[i] < inbox'[j] + Late
      BY DEF Orderly, Bye
    <3>2. i \in 1 .. Len(inbox) /\ inbox'[i] = inbox[i] /\ inbox[i] \in Nat
      <4>1. Len(inbox) \in Nat
        BY <1>2
      <4>2. i # Len(inbox) + 1
        BY <1>5, <3>1, <4>1
      <4>3. i \in 1 .. Len(inbox) /\ inbox'[i] = inbox[i]
        BY <1>5, <4>2
      <4>4. QED BY <1>2, <4>3, Sizes
    <3>3. CASE j \in 1 .. Len(inbox) /\ inbox'[j] = inbox[j]
      BY <2>1, <3>1, <3>2, <3>3 DEF AgeInv, Orderly
    <3>4. CASE inbox'[j] = air[k]
      <4>1. inbox[i] < mnext
        BY <2>1, <3>1, <3>2 DEF HeardInv, Behind
      <4>2. mnext <= air[k] + Late /\ air[k] \in Nat
        BY <1>1, <1>4, <2>1, <3>1, <3>4, Sizes DEF AgeInv, Fresh
      <4>3. QED BY <1>2, <3>2, <3>4, <4>1, <4>2, Sizes
    <3>5. QED BY <1>5, <3>3, <3>4
  <2>6. Place'
    BY <1>2, <2>1 DEF AgeInv, Place
  <2>7. QED BY <2>2, <2>4, <2>5, <2>6 DEF AgeInv
<1>9. QED BY <1>6, <1>7, <1>8 DEF Inv, Unsought, Prompt
-----------------------------------------------------------------------------
(* The slave: what it does not touch.                                      *)
LEMMA AwayKeeps ==
  ASSUME Away
  PROVE  /\ Fresh => Fresh'
         /\ Behind(air) => Behind(air)'
         /\ Behind(inbox) /\ inbox' = inbox => Behind(inbox)'
         /\ Orderly /\ inbox' = inbox => Orderly'
  BY DEF Away, Fresh, Behind, Orderly, Bye

LEMMA Slaves ==
  ASSUME TypeOK
  PROVE  /\ frame \in Nat /\ next \in Nat /\ heard \in Int /\ mnext \in Nat
         /\ \A i \in 1 .. Len(inbox) : inbox[i] # Bye => inbox[i] \in 0 .. Frames - 1
<1>1. ASSUME NEW i \in 1 .. Len(inbox), inbox[i] # Bye
      PROVE  inbox[i] \in 0 .. Frames - 1
  <2>1. inbox[i] \in 0 .. Frames
    BY ElementOfSeq, Sizes DEF TypeOK
  <2>2. QED BY <1>1, <2>1, Sizes
<1>2. QED BY <1>1, Sizes DEF TypeOK

LEMMA DecodeInv == ASSUME Inv, Decode PROVE Inv'
<1>1. UNCHANGED <<mnext, mat, seeks, air, inbox, listens, heard, off>> /\ Away /\ sat = "decode"
  BY DEF Decode, Away
<1>2. CASE next < Frames
  <2>1. frame' = next /\ next' = next + 1 /\ sat' = "poll"
    BY <1>2 DEF Decode, Goto
  <2>2. TypeOK'
    <3>1. frame' \in 0 .. Frames - 1 /\ next' \in 0 .. Frames
      BY <1>2, <2>1, Sizes DEF Inv, TypeOK
    <3>2. QED BY <1>1, <2>1, <3>1 DEF Inv, TypeOK, Bye
  <2>3. ASSUME seeks' = 0 PROVE HeardInv'
    BY <1>1, <2>1, <2>3, AwayKeeps DEF Inv, Unsought, HeardInv
  <2>4. ASSUME seeks' = 0, Prompt PROVE AgeInv'
    <3>1. AgeInv
      BY <1>1, <2>4 DEF Inv, Unsought
    <3>2. Waiting'
      BY <1>1, <2>1, <3>1 DEF AgeInv, Waiting, NotOld, Bye
    <3>3. Place'
      BY <1>1, <2>1, <3>1 DEF AgeInv, Place
    <3>4. QED BY <1>1, <3>1, <3>2, <3>3, AwayKeeps DEF AgeInv
  <2>5. QED BY <2>2, <2>3, <2>4 DEF Inv, Unsought, Prompt
<1>3. CASE ~(next < Frames)
  <2>1. sat' = "gone" /\ UNCHANGED <<frame, next>>
    BY <1>3 DEF Decode, Goto
  <2>2. TypeOK'
    BY <1>1, <2>1 DEF Inv, TypeOK, Bye
  <2>3. ASSUME seeks' = 0 PROVE HeardInv'
    BY <1>1, <2>1, <2>3, AwayKeeps DEF Inv, Unsought, HeardInv
  <2>4. ASSUME seeks' = 0, Prompt PROVE AgeInv'
    <3>1. AgeInv
      BY <1>1, <2>4 DEF Inv, Unsought
    <3>2. Waiting' /\ Place'
      BY <1>1, <2>1, <3>1 DEF AgeInv, Waiting, NotOld, Bye, Place
    <3>3. QED BY <1>1, <3>1, <3>2, AwayKeeps DEF AgeInv
  <2>5. QED BY <2>2, <2>3, <2>4 DEF Inv, Unsought, Prompt
<1>4. QED BY <1>2, <1>3

(* Taking the datagram at the head: those behind it keep their order and   *)
(* are not much older than it.                                             *)
LEMMA ListenInv == ASSUME Inv, Poll \/ Wait PROVE Inv'
<1>1. /\ UNCHANGED <<mnext, mat, seeks, air, frame, next, off>> /\ Away
      /\ sat \in {"poll", "wait"} /\ listens' \in BOOLEAN
  BY DEF Poll, Wait, Away, Inv, TypeOK
<1>2. CASE inbox = <<>>
  <2>1. sat' = "compare" /\ UNCHANGED <<inbox, heard>>
    BY <1>2 DEF Poll, Wait, Goto
  <2>2. TypeOK'
    BY <1>1, <2>1 DEF Inv, TypeOK, Bye
  <2>3. ASSUME seeks' = 0 PROVE HeardInv'
    BY <1>1, <2>1, <2>3, AwayKeeps DEF Inv, Unsought, HeardInv
  <2>4. ASSUME seeks' = 0, Prompt PROVE AgeInv'
    <3>1. AgeInv
      BY <1>1, <2>4 DEF Inv, Unsought
    <3>2. Waiting' /\ Place'
      BY <1>1, <2>1, <3>1 DEF AgeInv, Waiting, NotOld, Bye, Place
    <3>3. QED BY <1>1, <2>1, <3>1, <3>2, AwayKeeps DEF AgeInv
  <2>5. QED BY <2>2, <2>3, <2>4 DEF Inv, Unsought, Prompt
<1>3. CASE inbox # <<>>
  <2> DEFINE d == inbox[1]
  <2>1. /\ Take(Head(inbox)) /\ inbox' = Tail(inbox) /\ inbox \in Seq(0 .. Bye)
    BY <1>3 DEF Poll, Wait, Inv, TypeOK
  <2>2. /\ Len(inbox) \in Nat \ {0} /\ inbox' \in Seq(0 .. Bye) /\ Len(inbox') = Len(inbox) - 1
        /\ \A i \in 1 .. Len(inbox') : i + 1 \in 2 .. Len(inbox) /\ inbox'[i] = inbox[i + 1]
        /\ Head(inbox) = d /\ 1 \in 1 .. Len(inbox)
    BY <1>3, <2>1, HeadTailProperties, EmptySeq
  <2>3. /\ IF d = Bye THEN sat' = "gone" /\ heard' = heard ELSE sat' = "poll" /\ heard' = d
    BY <2>1, <2>2 DEF Take, Goto
  <2>4. TypeOK /\ frame \in Nat /\ next \in Nat /\ heard \in Int /\ mnext \in Nat
        /\ (d # Bye => d \in 0 .. Frames - 1)
    BY <2>2, Slaves DEF Inv
  <2> HIDE DEF d
  <2>5. TypeOK'
    <3>1. heard' \in -Second .. Frames - 1 /\ sat' \in {"gone", "poll"}
      BY <2>3, <2>4, Sizes DEF TypeOK
    <3>2. QED BY <1>1, <2>2, <2>4, <3>1 DEF TypeOK, Bye
  <2>6. ASSUME seeks' = 0 PROVE HeardInv'
    <3>1. HeardInv
      BY <1>1, <2>6 DEF Inv, Unsought
    <3>2. Behind(inbox)'
      BY <1>1, <2>2, <3>1 DEF HeardInv, Behind, Bye
    <3>3. heard' < mnext'
      BY <1>1, <2>2, <2>3, <3>1 DEF HeardInv, Behind, d
    <3>4. QED BY <1>1, <2>3, <3>1, <3>2, <3>3, AwayKeeps DEF HeardInv
  <2>7. ASSUME seeks' = 0, Prompt PROVE AgeInv'
    <3>1. AgeInv
      BY <1>1, <2>7 DEF Inv, Unsought
    <3>2. Orderly'
      BY <1>1, <2>2, <3>1 DEF AgeInv, Orderly, Bye
    <3>3. ASSUME NEW i \in 1 .. Len(inbox'), inbox'[i] # Bye
          PROVE  frame' <= inbox'[i] + Late /\ heard' < inbox'[i] + Late /\ sat' # "decode"
      <4>1. i + 1 \in 1 .. Len(inbox) /\ 1 < i + 1 /\ inbox'[i] = inbox[i + 1]
        BY <2>2
      <4>2. frame <= inbox[i + 1] + Late /\ heard < inbox[i + 1] + Late
        BY <3>1, <3>3, <4>1 DEF AgeInv, Waiting, NotOld
      <4>3. d # Bye => d < inbox[i + 1] + Late
        BY <2>2, <3>1, <3>3, <4>1 DEF AgeInv, Orderly, d
      <4>4. QED BY <1>1, <2>3, <4>1, <4>2, <4>3
    <3>4. Waiting'
      BY <3>3 DEF Waiting, NotOld, Bye
    <3>5. d # Bye => frame <= d + Threshold
      <4>1. d # Bye => frame <= d + Late
        BY <2>2, <3>1 DEF AgeInv, Waiting, NotOld, d
      <4>2. QED BY <2>4, <2>7, <4>1, Sizes DEF Prompt
    <3>6. Place'
      BY <1>1, <2>3, <3>1, <3>5 DEF AgeInv, Place
    <3>7. QED BY <1>1, <3>1, <3>2, <3>4, <3>6, AwayKeeps DEF AgeInv
  <2>8. QED BY <2>5, <2>6, <2>7 DEF Inv, Unsought, Prompt
<1>4. QED BY <1>2, <1>3

LEMMA CompareInv == ASSUME Inv, Compare PROVE Inv'
<1>1. /\ UNCHANGED <<mnext, mat, seeks, air, inbox, listens, frame, next, heard>> /\ Away
      /\ sat = "compare" /\ off' = TooFar
      /\ sat' = IF TooFar \/ heard >= frame THEN "show" ELSE "wait"
  BY DEF Compare, Away, Goto
<1>2. TypeOK'
  BY <1>1 DEF Inv, TypeOK, Bye, TooFar
<1>3. frame \in Nat /\ heard \in Int
  BY Slaves DEF Inv
<1>4. ASSUME seeks' = 0 PROVE HeardInv'
  <2>1. HeardInv
    BY <1>1, <1>4 DEF Inv, Unsought
  <2>2. sat' = "show" /\ ~off' => frame' <= heard'
    BY <1>1, <1>3
  <2>3. QED BY <1>1, <2>1, <2>2, AwayKeeps DEF HeardInv
<1>5. ASSUME seeks' = 0, Prompt PROVE AgeInv'
  <2>1. AgeInv
    BY <1>1, <1>5 DEF Inv, Unsought
  <2>2. Waiting'
    BY <1>1, <2>1 DEF AgeInv, Waiting, NotOld, Bye
  <2>3. frame <= heard + Threshold
    BY <1>1, <2>1 DEF AgeInv, Place
  <2>4. TooFar => frame + Threshold < heard
    BY <1>3, <2>3, Sizes DEF TooFar
  <2>5. Place'
    BY <1>1, <2>1, <2>4 DEF AgeInv, Place
  <2>6. QED BY <1>1, <2>1, <2>2, <2>5, AwayKeeps DEF AgeInv
<1>6. QED BY <1>2, <1>4, <1>5 DEF Inv, Unsought, Prompt

LEMMA ShowInv == ASSUME Inv, Show PROVE Inv'
<1>1. /\ UNCHANGED <<mnext, mat, seeks, air, inbox, listens, frame, heard>> /\ Away
      /\ sat = "show" /\ sat' = "decode" /\ off' = FALSE
      /\ next' = IF ~off THEN next ELSE IF heard < 0 THEN 0 ELSE KeyAt(heard)
  BY DEF Show, Away, Goto
<1>2. frame \in Nat /\ next \in Nat /\ heard \in Int /\ mnext \in Nat /\ TypeOK
  BY Slaves DEF Inv
<1>3. heard >= 0 => KeyAt(heard) \in Nat /\ KeyAt(heard) <= heard
  BY <1>2, KeyAtBefore
<1>4. next' \in 0 .. Frames
  BY <1>1, <1>2, <1>3, Sizes DEF TypeOK
<1>5. TypeOK'
  BY <1>1, <1>2, <1>4 DEF TypeOK, Bye
<1>6. ASSUME seeks' = 0 PROVE HeardInv'
  BY <1>1, <1>6, AwayKeeps DEF Inv, Unsought, HeardInv
<1>7. ASSUME seeks' = 0, Prompt PROVE AgeInv'
  <2>1. AgeInv /\ HeardInv
    BY <1>1, <1>7 DEF Inv, Unsought
  <2>2. next' <= heard + 1 /\ next' <= mnext
    <3>1. CASE ~off
      BY <1>1, <1>2, <2>1, <3>1 DEF AgeInv, HeardInv, Place
    <3>2. CASE off
      <4>1. heard >= 0
        BY <1>1, <1>2, <2>1, <3>2, Sizes DEF AgeInv, Place
      <4>2. QED BY <1>1, <1>2, <1>3, <2>1, <3>2, <4>1 DEF HeardInv
    <3>3. QED BY <3>1, <3>2
  <2>3. next' <= heard + Threshold
    BY <1>2, <1>4, <1>7, <2>2, Sizes DEF Prompt
  <2>4. Place'
    BY <1>1, <2>1, <2>2, <2>3 DEF AgeInv, Place
  <2>5. Waiting'
    <3>1. SUFFICES ASSUME NEW i \in 1 .. Len(inbox), inbox[i] # Bye
                   PROVE  frame <= inbox[i] + Late /\ heard < inbox[i] + Late /\ next' <= inbox[i] + Late
      BY <1>1 DEF Waiting, NotOld, Bye
    <3>2. inbox[i] \in 0 .. Frames - 1
      BY <1>2, <3>1, Slaves
    <3>3. frame <= inbox[i] + Late /\ heard < inbox[i] + Late
      BY <2>1, <3>1 DEF AgeInv, Waiting, NotOld
    <3>4. QED BY <1>2, <1>4, <2>2, <3>2, <3>3, Sizes
  <2>6. QED BY <1>1, <2>1, <2>4, <2>5, AwayKeeps DEF AgeInv
<1>8. QED BY <1>5, <1>6, <1>7 DEF Inv, Unsought, Prompt

LEMMA StutterInv == ASSUME Inv, UNCHANGED vars PROVE Inv'
  BY DEF Inv, TypeOK, Unsought, HeardInv, AgeInv, Behind, Fresh, Waiting, Orderly, Place, NotOld,
         Prompt, Bye, vars, netvars, slavevars

LEMMA NextInv == ASSUME Inv, [Next]_vars PROVE Inv'
  BY PlayInv, MasterSeeksInv, MasterEndsInv, NetworkInv, DecodeInv, ListenInv, CompareInv, ShowInv,
     StutterInv DEF Next, Master, Slave, Over
-----------------------------------------------------------------------------
(* The values the variables take.                                          *)
THEOREM TypeCorrect == Spec => []TypeOK
<1>1. Inv => TypeOK
  BY DEF Inv
<1>2. QED BY <1>1, InitInv, NextInv, PTL DEF Spec

(* A slave never shows a frame before the master, whatever the network     *)
(* loses, delays or turns round, as long as the master does not seek.      *)
THEOREM NeverAheadCorrect == Spec => []NeverAhead
<1>1. Inv => NeverAhead
  BY Slaves DEF Inv, Unsought, HeardInv, NeverAhead
<1>2. QED BY <1>1, InitInv, NextInv, PTL DEF Spec

(* It seeks only when it really is too far behind, provided that datagrams *)
(* are not later than the threshold and so is a slave that starts.         *)
THEOREM SeeksWhenBehindCorrect ==
  ASSUME Late <= Threshold, Second <= Threshold
  PROVE  Spec => []SeeksWhenBehind
<1>1. Prompt
  BY DEF Prompt
<1>2. Inv => SeeksWhenBehind
  BY <1>1, Slaves, Sizes DEF Inv, Unsought, HeardInv, AgeInv, Place, SeeksWhenBehind
<1>3. QED BY <1>2, InitInv, NextInv, PTL DEF Spec
=============================================================================
