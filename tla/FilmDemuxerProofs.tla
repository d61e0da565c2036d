------------------------- MODULE FilmDemuxerProofs -------------------------
(***************************************************************************)
(* Proofs about a file on its way to the decoders, for all films, sizes    *)
(* and limits, and whatever the player asks for in whatever order: the     *)
(* buffer of the stream is where it says it is, seeks land, no packet is   *)
(* lost or given twice, no time stamp announced turns out wrong, no list   *)
(* grows past its limit, a packet holds the bytes of its chunk, and a      *)
(* stream is ended only where the film ends.                               *)
(***************************************************************************)
EXTENDS FilmDemuxer, SequenceTheorems, WellFoundedInduction, TLAPS

(* The block that a place lies in begins at or before it.                  *)
LEMMA BlockOf ==
  ASSUME NEW t \in Nat, NEW n \in Nat \ {0}
  PROVE  (t \div n) * n \in Nat /\ (t \div n) * n <= t
<1>1. t \div n \in Nat /\ t = n * (t \div n) + (t % n) /\ t % n \in Nat
  OBVIOUS
<1>2. QED BY <1>1

LEMMA Joined == ASSUME NEW S, NEW a \in Seq(S), NEW b \in Seq(S) PROVE a \o b \in Seq(S)
  OBVIOUS

(* What the variables of the stream hold.                                  *)
StreamTypes ==
  /\ file_len \in Nat /\ linear \in BOOLEAN /\ seof \in BOOLEAN
  /\ pos \in Nat /\ fd \in Nat /\ buf_pos \in Nat /\ buf_len \in Nat /\ base \in Int
  /\ left \in Int /\ goal \in Int /\ got \in Seq(Int)
  /\ job \in {"none", "done", "read", "skip", "seek", "forward"}

(* The buffer holds the bytes before the place of the stream.              *)
BufferInv == /\ buf_pos <= buf_len /\ buf_len <= pos
             /\ buf_len > 0 => base = pos - buf_len

(* The stream counts what the descriptor has read; after the end of a pipe *)
(* it may count more, when it was reset and the pipe did not go back.      *)
PlaceInv == /\ pos = fd \/ (linear /\ fd >= file_len)
            /\ linear /\ seof => fd >= file_len

(* A seek in a file knows what is left of its way at every read.           *)
SeekInv ==
  /\ job = "forward" => linear
  /\ job \in {"seek", "forward"} => left \in Nat
  /\ job \in {"read", "skip"} => goal = -1
  /\ ~linear /\ job = "seek" => goal \in Nat /\ pos + left = goal
  /\ SeekLands

StreamInv == StreamTypes /\ BufferInv /\ PlaceInv /\ SeekInv

(* A read of the descriptor is of at least one byte, and within the file.  *)
LEMMA PullStep ==
  ASSUME StreamInv, NEW n \in Lengths
  PROVE  /\ n \in Nat \ {0} /\ pos = fd /\ fd < file_len /\ fd + n <= file_len
<1>1. file_len \in Nat /\ fd \in Nat /\ BlockSize \in Nat \ {0}
  BY BlockAssumption DEF BlockAssumption, StreamInv, StreamTypes
<1>2. n \in Nat \ {0} /\ n <= file_len - fd
  BY <1>1 DEF Lengths, MinOf
<1>3. QED BY <1>1, <1>2 DEF StreamInv, PlaceInv

(* The buffer is filled, whoever fills it.                                 *)
LEMMA FilledInv ==
  ASSUME StreamInv, NEW n \in Lengths, Pull(n), seof' \in BOOLEAN, seof' => seof,
         UNCHANGED <<filevars, job, goal, got, ok>>, left' \in Int,
         \/ job \in {"read", "skip", "forward"} /\ UNCHANGED left
         \/ job = "seek" /\ left' = left - n /\ left > n
  PROVE  StreamInv'
<1>1. n \in Nat \ {0} /\ pos = fd /\ fd < file_len
  BY PullStep
<1>2. base' = fd /\ fd' = fd + n /\ pos' = pos + n /\ buf_pos' = 0 /\ buf_len' = n /\ UNCHANGED <<file_len, linear>>
  BY DEF Pull, filevars
<1>3. StreamTypes'
  BY <1>1, <1>2 DEF StreamInv, StreamTypes
<1>4. BufferInv'
  BY <1>1, <1>2 DEF StreamInv, BufferInv, StreamTypes
<1>5. PlaceInv'
  BY <1>1, <1>2 DEF StreamInv, PlaceInv, StreamTypes
<1>6. SeekInv'
  <2>1. job' = job /\ goal' = goal /\ job # "done"
    OBVIOUS
  <2>2. job = "forward" => linear
    BY DEF StreamInv, SeekInv
  <2>3. job \in {"read", "skip"} => goal = -1
    BY DEF StreamInv, SeekInv
  <2>4. job \in {"seek", "forward"} => left' \in Nat
    BY <1>1 DEF StreamInv, SeekInv
  <2>5. ~linear /\ job = "seek" => goal \in Nat /\ pos' + left' = goal
    BY <1>1, <1>2 DEF StreamInv, StreamTypes, SeekInv
  <2>6. QED BY <1>2, <2>1, <2>2, <2>3, <2>4, <2>5 DEF SeekInv, SeekLands
<1>7. QED BY <1>3, <1>4, <1>5, <1>6 DEF StreamInv

(* A call ends at the end of the file.                                     *)
LEMMA EndInv ==
  ASSUME StreamInv, FillEnds, Done(FALSE), UNCHANGED <<filevars, goal, got>>, job \in {"read", "skip", "seek"}
  PROVE  StreamInv'
<1>1. /\ fd >= file_len /\ seof' = TRUE /\ UNCHANGED <<pos, buf_pos, buf_len, fd, base, file_len, linear, goal, got>>
      /\ job' = "done" /\ ok' = FALSE /\ left' = 0
  BY DEF FillEnds, Done, filevars
<1>2. StreamTypes' /\ BufferInv' /\ PlaceInv'
  BY <1>1 DEF StreamInv, StreamTypes, BufferInv, PlaceInv
<1>3. job = "seek" /\ ~linear => goal >= file_len
  BY <1>1 DEF StreamInv, StreamTypes, PlaceInv, SeekInv
<1>4. job # "seek" => goal = -1
  BY DEF StreamInv, SeekInv
<1>5. SeekInv'
  BY <1>1, <1>3, <1>4 DEF SeekInv, SeekLands
<1>6. QED BY <1>2, <1>5 DEF StreamInv

(* The steps of the calls: reading or skipping, going on in a pipe, and    *)
(* the reads of a seek.                                                    *)
LEMMA TransferInv == ASSUME StreamInv, TransferStep, UNCHANGED filevars PROVE StreamInv'
<1> DEFINE x == MinOf(buf_len - buf_pos, left)
<1>1. job \in {"read", "skip"} /\ UNCHANGED goal /\ goal = -1
  BY DEF TransferStep, StreamInv, SeekInv
<1>2. CASE left = 0 /\ Done(TRUE) /\ UNCHANGED <<streamvars, got>>
  BY <1>1, <1>2 DEF StreamInv, StreamTypes, BufferInv, PlaceInv, SeekInv, SeekLands, Done, streamvars, filevars
<1>3. CASE /\ x > 0 /\ buf_pos' = buf_pos + x /\ left' = left - x
           /\ got' = IF job = "read" THEN got \o [i \in 1 .. x |-> base + buf_pos + i - 1] ELSE got
           /\ UNCHANGED <<job, ok, pos, seof, buf_len, fd, base>>
  <2>1. x \in Nat /\ x <= buf_len - buf_pos
    BY <1>3 DEF StreamInv, StreamTypes, MinOf
  <2> HIDE DEF x
  <2>2. [i \in 1 .. x |-> base + buf_pos + i - 1] \in Seq(Int)
    BY <2>1 DEF StreamInv, StreamTypes
  <2>3. got' \in Seq(Int)
    <3>1. got \in Seq(Int)
      BY DEF StreamInv, StreamTypes
    <3>2. got \o [i \in 1 .. x |-> base + buf_pos + i - 1] \in Seq(Int)
      BY <2>2, <3>1, Joined
    <3>3. CASE job = "read"
      BY <1>3, <3>2, <3>3
    <3>4. CASE job # "read"
      BY <1>3, <3>1, <3>4
    <3>5. QED BY <3>3, <3>4
  <2>4. StreamTypes'
    BY <1>1, <1>3, <2>1, <2>3 DEF StreamInv, StreamTypes, filevars
  <2>5. BufferInv' /\ PlaceInv'
    BY <1>3, <2>1 DEF StreamInv, StreamTypes, BufferInv, PlaceInv, filevars
  <2>6. SeekInv'
    BY <1>1, <1>3 DEF StreamInv, SeekInv, SeekLands, filevars
  <2>7. QED BY <2>4, <2>5, <2>6 DEF StreamInv
<1>4. CASE UNCHANGED got /\ \E n \in Lengths : Fill(n) /\ UNCHANGED <<job, left, ok>>
  <2>1. PICK n \in Lengths : Pull(n) /\ seof' = FALSE /\ UNCHANGED <<job, left, ok>>
    BY <1>4 DEF Fill
  <2>2. left' \in Int /\ seof' \in BOOLEAN
    BY <2>1 DEF StreamInv, StreamTypes
  <2>3. QED BY <1>1, <1>4, <2>1, <2>2, FilledInv
<1>5. CASE UNCHANGED got /\ FillEnds /\ Done(FALSE)
  BY <1>1, <1>5, EndInv
<1>6. QED BY <1>2, <1>3, <1>4, <1>5 DEF TransferStep

LEMMA ForwardInv == ASSUME StreamInv, ForwardStep, UNCHANGED filevars PROVE StreamInv'
<1>1. job = "forward" /\ linear /\ UNCHANGED <<left, goal, got, ok>>
  BY DEF ForwardStep, StreamInv, SeekInv
<1>2. CASE job' = "seek" /\ UNCHANGED streamvars
  BY <1>1, <1>2 DEF StreamInv, StreamTypes, BufferInv, PlaceInv, SeekInv, SeekLands, streamvars, filevars
<1>3. CASE \E n \in Lengths : Pull(n) /\ UNCHANGED <<job, seof>>
  <2>1. PICK n \in Lengths : Pull(n) /\ UNCHANGED <<job, seof>>
    BY <1>3
  <2>2. left' \in Int /\ seof' \in BOOLEAN /\ (seof' => seof)
    BY <1>1, <2>1 DEF StreamInv, StreamTypes
  <2>3. QED BY <1>1, <2>1, <2>2, FilledInv
<1>4. CASE /\ fd >= file_len /\ job' = "seek" /\ seof' = TRUE
           /\ buf_pos' = 0 /\ buf_len' = 0 /\ UNCHANGED <<pos, fd, base>>
  BY <1>1, <1>4 DEF StreamInv, StreamTypes, BufferInv, PlaceInv, SeekInv, SeekLands, filevars
<1>5. QED BY <1>2, <1>3, <1>4 DEF ForwardStep

LEMMA SeekStepInv == ASSUME StreamInv, SeekStep, UNCHANGED filevars PROVE StreamInv'
<1>1. job = "seek" /\ UNCHANGED <<goal, got>> /\ left \in Nat
  BY DEF SeekStep, StreamInv, SeekInv
<1>2. ASSUME NEW n \in Lengths, left <= n, buf_pos' = left /\ buf_len' = n /\ base' = fd,
             fd' = fd + n /\ pos' = pos + n, seof' = FALSE /\ Done(TRUE)
      PROVE  StreamInv'
  <2>1. n \in Nat \ {0} /\ pos = fd
    BY PullStep
  <2>2. left' = 0 /\ job' = "done" /\ UNCHANGED <<file_len, linear, goal, got>>
    BY <1>1, <1>2 DEF Done, filevars
  <2>3. pos \in Nat /\ fd \in Nat /\ n \in Nat /\ goal \in Int /\ got \in Seq(Int) /\ file_len \in Nat /\ linear \in BOOLEAN
    BY <2>1 DEF StreamInv, StreamTypes
  <2>4. seof' \in BOOLEAN
    BY <1>2
  <2>5. base' \in Int /\ fd' \in Nat /\ pos' \in Nat /\ buf_pos' \in Nat /\ buf_len' \in Nat
    BY <1>1, <1>2, <2>3
  <2>6. StreamTypes'
    BY <2>2, <2>3, <2>4, <2>5 DEF StreamTypes
  <2>7. BufferInv'
    BY <1>1, <1>2, <2>1 DEF StreamInv, StreamTypes, BufferInv
  <2>8. PlaceInv'
    BY <1>1, <1>2, <2>1 DEF StreamInv, StreamTypes, PlaceInv, filevars
  <2>9. ~linear => Tell' = goal
    BY <1>1, <1>2, <2>1 DEF StreamInv, StreamTypes, SeekInv, Tell
  <2>10. SeekInv'
    BY <1>1, <1>2, <2>9 DEF SeekInv, SeekLands, Done, filevars
  <2>11. QED BY <2>6, <2>10, <2>7, <2>8 DEF StreamInv
<1>3. ASSUME NEW n \in Lengths, ~(left <= n), Fill(n), left' = left - n, UNCHANGED <<job, ok>>
      PROVE  StreamInv'
  <2>1. n \in Nat \ {0} /\ left > n /\ left' \in Int
    BY <1>1, <1>3, PullStep
  <2>2. QED BY <1>1, <1>3, <2>1, FilledInv DEF Fill
<1>4. CASE FillEnds /\ Done(FALSE)
  BY <1>1, <1>4, EndInv
<1>5. QED BY <1>2, <1>3, <1>4 DEF SeekStep

(* A seek within the buffer, and one that leaves it.                       *)
LEMMA InsideInv ==
  ASSUME StreamInv, NEW t \in Nat, SeekInside(t), goal' = t, UNCHANGED filevars, seof' \in BOOLEAN, seof' => seof,
         got' \in Seq(Int)
  PROVE  StreamInv'
<1>1. /\ t < pos /\ t >= pos - buf_len /\ buf_pos' = t - (pos - buf_len) /\ UNCHANGED <<pos, buf_len, fd, base>>
      /\ job' = "done" /\ ok' = TRUE /\ left' = 0 /\ UNCHANGED <<file_len, linear>>
  BY DEF SeekInside, Done, filevars
<1>2. StreamTypes'
  BY <1>1 DEF StreamInv, StreamTypes
<1>3. BufferInv'
  BY <1>1 DEF StreamInv, StreamTypes, BufferInv
<1>4. PlaceInv'
  BY <1>1 DEF StreamInv, PlaceInv
<1>5. Tell' = t
  BY <1>1 DEF StreamInv, StreamTypes, Tell
<1>6. SeekInv'
  BY <1>1, <1>5 DEF SeekInv, SeekLands
<1>7. QED BY <1>2, <1>3, <1>4, <1>6 DEF StreamInv

LEMMA BlockInv ==
  ASSUME StreamInv, NEW t \in Nat, SeekBlock(t), goal' = t, UNCHANGED filevars, seof' \in BOOLEAN, seof' => seof,
         got' \in Seq(Int)
  PROVE  StreamInv'
<1> DEFINE block == (t \div BlockSize) * BlockSize
<1>1. block \in Nat /\ block <= t
  BY BlockOf, BlockAssumption DEF BlockAssumption
<1>2. /\ buf_pos' = 0 /\ buf_len' = 0 /\ UNCHANGED <<base, file_len, linear>>
      /\ \/ block = pos /\ job' = "seek" /\ left' = t - block /\ UNCHANGED <<pos, fd>>
         \/ ~linear /\ job' = "seek" /\ left' = t - block /\ pos' = block /\ fd' = block
         \/ linear /\ job' = "done" /\ left' = 0 /\ UNCHANGED <<pos, fd>>
         \/ linear /\ job' = "forward" /\ left' = t - block /\ UNCHANGED <<pos, fd>>
  BY DEF SeekBlock, filevars, Done
<1> HIDE DEF block
<1>3. StreamTypes'
  BY <1>1, <1>2 DEF StreamInv, StreamTypes
<1>4. BufferInv'
  BY <1>1, <1>2 DEF StreamInv, StreamTypes, BufferInv
<1>5. PlaceInv'
  BY <1>1, <1>2 DEF StreamInv, StreamTypes, PlaceInv
<1>6. SeekInv'
  <2>1. t - block \in Nat /\ block + (t - block) = t
    BY <1>1
  <2>2. job' = "done" => linear'
    BY <1>2
  <2>3. job' = "forward" => linear'
    BY <1>2
  <2>4. ~linear' /\ job' = "seek" => pos' + left' = goal'
    BY <1>2, <2>1
  <2>5. job' \in {"seek", "forward", "done"} /\ (job' # "done" => left' \in Nat)
    BY <1>2, <2>1
  <2>6. QED BY <2>2, <2>3, <2>4, <2>5 DEF SeekInv, SeekLands
<1>7. QED BY <1>3, <1>4, <1>5, <1>6 DEF StreamInv

LEMMA EmptyIsSeq == <<>> \in Seq(Int)
  OBVIOUS

(* The calls are started.                                                  *)
LEMMA SeekToInv ==
  ASSUME StreamInv, NEW t \in Nat, SeekTo(t), UNCHANGED filevars, seof' \in BOOLEAN, seof' => seof
  PROVE  StreamInv'
  BY InsideInv, BlockInv, EmptyIsSeq DEF SeekTo

LEMMA StartSeekInv == ASSUME StreamInv, NEW t \in Nat, StartSeek(t), UNCHANGED filevars PROVE StreamInv'
  BY SeekToInv DEF StartSeek, StreamInv, StreamTypes

LEMMA StartInv ==
  ASSUME StreamInv, NEW what \in {"read", "skip"}, NEW n \in Int, Start(what, n), UNCHANGED filevars
  PROVE  StreamInv'
<1>1. job' = what /\ left' = n /\ goal' = -1 /\ UNCHANGED <<pos, seof, buf_pos, buf_len, fd, base, got, ok, file_len, linear>>
  BY DEF Start, streamvars, filevars
<1>2. StreamTypes' /\ BufferInv' /\ PlaceInv'
  BY <1>1 DEF StreamInv, StreamTypes, BufferInv, PlaceInv
<1>3. SeekInv'
  BY <1>1 DEF SeekInv, SeekLands
<1>4. QED BY <1>2, <1>3 DEF StreamInv

LEMMA SkipInv == ASSUME StreamInv, NEW n \in Nat, StartSkip(n), UNCHANGED filevars PROVE StreamInv'
<1>1. Tell + n \in Nat
  BY DEF Tell, StreamInv, StreamTypes, BufferInv
<1>2. QED BY <1>1, StartSeekInv, StartInv DEF StartSkip

LEMMA AgainInv == ASSUME StreamInv, StartAgain, UNCHANGED filevars PROVE StreamInv'
<1>1. CASE StartNew
  BY <1>1, SeekToInv DEF StartNew
<1>2. CASE /\ seof /\ goal' = 0 /\ got' = <<>> /\ seof' = FALSE
           /\ pos' = 0 /\ buf_pos' = 0 /\ buf_len' = 0 /\ job' = "seek" /\ left' = 0
           /\ fd' = (IF linear THEN fd ELSE 0) /\ UNCHANGED <<base, ok>>
  <2>1. StreamTypes'
    <3>1. got' \in Seq(Int) /\ UNCHANGED <<file_len, linear, base>> /\ fd' \in {0, fd}
      BY <1>2, EmptyIsSeq DEF filevars
    <3>2. file_len \in Nat /\ linear \in BOOLEAN /\ base \in Int /\ fd \in Nat
      BY DEF StreamInv, StreamTypes
    <3>3. fd' \in Nat
      BY <3>1, <3>2
    <3>4. seof' \in BOOLEAN
      BY <1>2
    <3>5. pos' = 0 /\ buf_pos' = 0 /\ buf_len' = 0 /\ job' = "seek" /\ left' = 0 /\ goal' = 0
      BY <1>2
    <3>6. QED BY <3>1, <3>2, <3>3, <3>4, <3>5 DEF StreamTypes
  <2>2. BufferInv' /\ PlaceInv'
    BY <1>2 DEF StreamInv, StreamTypes, BufferInv, PlaceInv, filevars
  <2>3. SeekInv'
    BY <1>2 DEF SeekInv, SeekLands, filevars
  <2>4. QED BY <2>1, <2>2, <2>3 DEF StreamInv
<1>3. QED BY <1>1, <1>2 DEF StartAgain

(* A step that leaves the stream alone, but perhaps for its flag.          *)
LEMMA StreamKept ==
  ASSUME StreamInv, UNCHANGED <<filevars, pos, buf_pos, buf_len, fd, base, jobvars>>, seof' = seof \/ seof' = FALSE
  PROVE  StreamInv'
<1>1. seof \in BOOLEAN
  BY DEF StreamInv, StreamTypes
<1>2. seof' \in BOOLEAN /\ (seof' => seof)
  <2>1. CASE seof' = seof
    BY <1>1, <2>1
  <2>2. CASE seof' = FALSE
    BY <2>2
  <2>3. QED BY <2>1, <2>2
<1>3. UNCHANGED <<file_len, linear, job, left, goal, got, ok>> /\ seof' \in BOOLEAN /\ (seof' => seof)
  BY <1>2 DEF filevars, jobvars
<1>4. StreamTypes' /\ BufferInv' /\ PlaceInv'
  BY <1>3 DEF StreamInv, StreamTypes, BufferInv, PlaceInv
<1>5. SeekInv'
  BY <1>3 DEF StreamInv, SeekInv, SeekLands, Tell
<1>6. QED BY <1>4, <1>5 DEF StreamInv
-----------------------------------------------------------------------------
(* What is in a list: a packet, or the none of a stream that reads none.   *)
AnyPacket == [no : Nat, data : Seq(Int)]

(* A packet in hand of which nothing was given out yet.                    *)
Fresh(cur, bp, bs) == cur # None /\ bp = 0 /\ bs > 0

(* Between la, the last chunk given out, and to, the next in the file,     *)
(* what is in hand and in the list is all that there is of C, once and in  *)
(* order.                                                                  *)
Held(C, q, cur, bp, bs, la, to) ==
  /\ la < to
  /\ \A i \in 1 .. Len(q) : la < q[i].no /\ q[i].no < to /\ q[i].no \in C
  /\ \A i, j \in 1 .. Len(q) : i < j => q[i].no < q[j].no
  /\ Fresh(cur, bp, bs) =>
       la < cur.no /\ cur.no < to /\ cur.no \in C /\ \A i \in 1 .. Len(q) : cur.no < q[i].no
  /\ \A c \in C : la < c /\ c < to =>
       (Fresh(cur, bp, bs) /\ cur.no = c) \/ \E i \in 1 .. Len(q) : q[i].no = c

(* A time stamp pr that was announced is that of the next packet.          *)
Kept(q, cur, bp, bs, pr) ==
  pr # 0 => IF Fresh(cur, bp, bs) THEN cur.no = pr ELSE q # <<>> /\ q[1].no = pr

(* How far a packet in hand was given out; none is in hand while a call    *)
(* looks for the next one.                                                 *)
Hand(cur, bp, bs, la, asking) ==
  /\ 0 <= bp /\ bp <= bs
  /\ cur # None => bs = Size(cur) /\ (bp > 0 => la = cur.no)
  /\ cur = None /\ ~asking => bp = bs
  /\ asking => cur = None

LEMMA SizeIsNat == ASSUME NEW p \in AnyPacket PROVE Size(p) \in Nat /\ p.no \in Nat
  BY LenProperties DEF AnyPacket, Size

LEMMA NoneIsOne == None \in AnyPacket
  BY DEF None, AnyPacket

(* What a list holds after a packet was added.                             *)
LEMMA AppendIs ==
  ASSUME NEW S, NEW q \in Seq(S), NEW p \in S
  PROVE  /\ Append(q, p) \in Seq(S) /\ Len(Append(q, p)) = Len(q) + 1 /\ Len(q) \in Nat
         /\ \A i \in 1 .. Len(q) : Append(q, p)[i] = q[i]
         /\ Append(q, p)[Len(q) + 1] = p
  OBVIOUS

(* ... and after its first was taken.                                      *)
LEMMA TailIs ==
  ASSUME NEW S, NEW q \in Seq(S), q # <<>>
  PROVE  /\ Tail(q) \in Seq(S) /\ Len(Tail(q)) = Len(q) - 1 /\ Len(q) \in Nat /\ Len(q) > 0
         /\ \A i \in 1 .. Len(q) - 1 : Tail(q)[i] = q[i + 1]
         /\ Head(q) = q[1] /\ Head(q) \in S
<1>1. Len(q) \in Nat /\ Len(q) # 0
  BY LenProperties, EmptySeq
<1>2. QED BY <1>1, HeadTailProperties

(* The chunk at the place of the demuxer becomes a packet of the list, or  *)
(* is none of the stream's.                                                *)
LEMMA HeldAdd ==
  ASSUME NEW C \in SUBSET Nat, NEW q \in Seq(AnyPacket), NEW cur \in AnyPacket, NEW bp \in Int, NEW bs \in Int,
         NEW la \in Nat, NEW to \in Nat, Held(C, q, cur, bp, bs, la, to), NEW p \in AnyPacket, p.no = to, to \in C
  PROVE  Held(C, Append(q, p), cur, bp, bs, la, to + 1)
<1> DEFINE r == Append(q, p)
<1>1. /\ Len(r) = Len(q) + 1 /\ Len(q) \in Nat /\ \A i \in 1 .. Len(q) : r[i] = q[i]
      /\ r[Len(q) + 1] = p
  BY AppendIs
<1> HIDE DEF r
<1>2. \A i \in 1 .. Len(q) : q[i].no \in Nat
  BY ElementOfSeq, SizeIsNat
<1>3. \A i \in 1 .. Len(r) : i \in 1 .. Len(q) \/ i = Len(q) + 1
  BY <1>1
<1>4. la < to + 1 /\ cur.no \in Nat
  BY SizeIsNat DEF Held
<1>5. \A i \in 1 .. Len(r) : la < r[i].no /\ r[i].no < to + 1 /\ r[i].no \in C
  BY <1>1, <1>2, <1>3 DEF Held
<1>6. \A i, j \in 1 .. Len(r) : i < j => r[i].no < r[j].no
  BY <1>1, <1>2, <1>3 DEF Held
<1>7. Fresh(cur, bp, bs) => la < cur.no /\ cur.no < to + 1 /\ cur.no \in C /\ \A i \in 1 .. Len(r) : cur.no < r[i].no
  BY <1>1, <1>2, <1>3, <1>4 DEF Held
<1>8. ASSUME NEW c \in C, la < c /\ c < to + 1
      PROVE  (Fresh(cur, bp, bs) /\ cur.no = c) \/ \E i \in 1 .. Len(r) : r[i].no = c
  <2>1. c \in Nat /\ (c = to \/ c < to)
    BY <1>8
  <2>2. CASE c = to
    BY <1>1, <2>2
  <2>3. CASE c < to
    <3>1. CASE Fresh(cur, bp, bs) /\ cur.no = c
      BY <3>1
    <3>2. CASE \E i \in 1 .. Len(q) : q[i].no = c
      <4>1. PICK i \in 1 .. Len(q) : q[i].no = c
        BY <3>2
      <4>2. i \in 1 .. Len(r) /\ r[i] = q[i]
        BY <1>1
      <4>3. QED BY <4>1, <4>2
    <3>3. \A d \in C : la < d /\ d < to => (Fresh(cur, bp, bs) /\ cur.no = d) \/ \E i \in 1 .. Len(q) : q[i].no = d
      BY Zenon DEF Held
    <3>4. (Fresh(cur, bp, bs) /\ cur.no = c) \/ \E i \in 1 .. Len(q) : q[i].no = c
      BY <1>8, <2>3, <3>3, Zenon
    <3>5. QED BY <3>1, <3>2, <3>4, Zenon
  <2>4. QED BY <2>1, <2>2, <2>3
<1>9. QED BY <1>4, <1>5, <1>6, <1>7, <1>8 DEF Held, r

LEMMA HeldPass ==
  ASSUME NEW C \in SUBSET Nat, NEW q \in Seq(AnyPacket), NEW cur \in AnyPacket, NEW bp \in Int, NEW bs \in Int,
         NEW la \in Nat, NEW to \in Nat, Held(C, q, cur, bp, bs, la, to), to \notin C
  PROVE  Held(C, q, cur, bp, bs, la, to + 1)
<1>1. \A i \in 1 .. Len(q) : q[i].no \in Nat
  BY ElementOfSeq, SizeIsNat
<1>2. cur.no \in Nat
  BY SizeIsNat
<1>3. \A c \in C : c < to + 1 => c < to
  OBVIOUS
<1>4. QED BY <1>1, <1>2, <1>3 DEF Held

(* The packet in hand changes, and was and is not fresh.                   *)
LEMMA HeldSame ==
  ASSUME NEW C, NEW q, NEW cur, NEW bp, NEW bs, NEW la, NEW to, Held(C, q, cur, bp, bs, la, to),
         NEW cur2, NEW bp2, NEW bs2, ~Fresh(cur, bp, bs), ~Fresh(cur2, bp2, bs2)
  PROVE  Held(C, q, cur2, bp2, bs2, la, to)
  BY DEF Held

(* The first bytes of a fresh packet, or all of it, are given out.         *)
LEMMA HeldOut ==
  ASSUME NEW C \in SUBSET Nat, NEW q \in Seq(AnyPacket), NEW cur \in AnyPacket, NEW bp, NEW bs,
         NEW la \in Nat, NEW to \in Nat, Held(C, q, cur, bp, bs, la, to),
         NEW cur2, NEW bp2, NEW bs2, Fresh(cur, bp, bs), ~Fresh(cur2, bp2, bs2)
  PROVE  Held(C, q, cur2, bp2, bs2, cur.no, to)
<1>1. \A i \in 1 .. Len(q) : q[i].no \in Nat
  BY ElementOfSeq, SizeIsNat
<1>2. cur.no \in Nat
  BY SizeIsNat
<1>3. \A c \in C : cur.no < c => la < c /\ c # cur.no
  BY <1>2 DEF Held
<1>4. QED BY <1>1, <1>2, <1>3 DEF Held

(* The first of the list is taken in hand; with no data it is passed over. *)
LEMMA HeldTake ==
  ASSUME NEW C \in SUBSET Nat, NEW q \in Seq(AnyPacket), NEW bp, NEW bs,
         NEW la \in Nat, NEW to \in Nat, Held(C, q, None, bp, bs, la, to), q # <<>>
  PROVE  LET p == Head(q)
         IN  /\ p \in AnyPacket /\ p # None
             /\ Held(C, Tail(q), p, 0, Size(p), IF Size(p) = 0 THEN p.no ELSE la, to)
<1> DEFINE p == Head(q)
           r == Tail(q)
<1>1. /\ Len(r) = Len(q) - 1 /\ Len(q) \in Nat /\ Len(q) > 0 /\ \A i \in 1 .. Len(q) - 1 : r[i] = q[i + 1]
      /\ p = q[1] /\ p \in AnyPacket
  BY TailIs
<1> HIDE DEF p, r
<1>2. \A i \in 1 .. Len(q) : q[i].no \in Nat
  BY ElementOfSeq, SizeIsNat
<1>3. Size(p) \in Nat /\ p.no \in Nat
  BY <1>1, SizeIsNat
<1>4. ~Fresh(None, bp, bs)
  BY DEF Fresh
<1>5. la < p.no /\ p.no < to /\ p.no \in C /\ \A i \in 1 .. Len(q) : i # 1 => p.no < q[i].no
  BY <1>1 DEF Held
<1>6. p # None
  BY <1>3, <1>5 DEF None
<1>7. \A i \in 1 .. Len(r) : i + 1 \in 1 .. Len(q) /\ i + 1 # 1 /\ r[i] = q[i + 1]
  BY <1>1
<1>8. \A i \in 1 .. Len(r) : p.no < r[i].no /\ la < r[i].no /\ r[i].no < to /\ r[i].no \in C
  BY <1>5, <1>7 DEF Held
<1>9. \A i, j \in 1 .. Len(r) : i < j => r[i].no < r[j].no
  <2> SUFFICES ASSUME NEW i \in 1 .. Len(r), NEW j \in 1 .. Len(r), i < j PROVE r[i].no < r[j].no
    OBVIOUS
  <2>1. i + 1 < j + 1
    OBVIOUS
  <2>2. QED BY <1>7, <2>1 DEF Held
<1>10. ASSUME NEW c \in C, la < c, c < to, c # p.no PROVE \E i \in 1 .. Len(r) : r[i].no = c
  <2>1. PICK i \in 1 .. Len(q) : q[i].no = c
    BY <1>4, <1>10 DEF Held
  <2>2. i # 1
    BY <1>1, <1>10, <2>1
  <2>3. i - 1 \in 1 .. Len(r) /\ i - 1 + 1 = i
    BY <1>1, <2>2
  <2>4. r[i - 1] = q[i]
    BY <1>7, <2>3
  <2>5. QED BY <2>1, <2>3, <2>4
<1>11. CASE Size(p) = 0
  <2>1. ~Fresh(p, 0, Size(p))
    BY <1>11 DEF Fresh
  <2>2. \A c \in C : p.no < c => la < c /\ c # p.no
    BY <1>3, <1>5
  <2>3. Held(C, r, p, 0, Size(p), p.no, to)
    BY <1>5, <1>8, <1>9, <1>10, <2>1, <2>2 DEF Held
  <2>4. QED BY <1>1, <1>6, <1>11, <2>3 DEF p, r
<1>12. CASE Size(p) # 0
  <2>1. Fresh(p, 0, Size(p))
    BY <1>3, <1>6, <1>12 DEF Fresh
  <2>2. Held(C, r, p, 0, Size(p), la, to)
    BY <1>5, <1>8, <1>9, <1>10, <2>1 DEF Held
  <2>3. QED BY <1>1, <1>6, <1>12, <2>2 DEF p, r
<1>13. QED BY <1>11, <1>12

(* After a seek nothing is held.                                           *)
LEMMA HeldNew ==
  ASSUME NEW C \in SUBSET Nat, NEW to \in Nat \ {0}, NEW bp, NEW bs
  PROVE  Held(C, <<>>, None, bp, bs, to - 1, to)
<1>1. ~Fresh(None, bp, bs)
  BY DEF Fresh
<1>2. \A c \in C : ~(to - 1 < c /\ c < to)
  OBVIOUS
<1>3. QED BY <1>1, <1>2 DEF Held

(* The time stamp announced stays when a packet is added behind it.        *)
LEMMA KeptAdd ==
  ASSUME NEW q \in Seq(AnyPacket), NEW cur, NEW bp, NEW bs, NEW pr, Kept(q, cur, bp, bs, pr), NEW p \in AnyPacket
  PROVE  Kept(Append(q, p), cur, bp, bs, pr)
<1>1. CASE pr = 0 \/ Fresh(cur, bp, bs)
  BY <1>1 DEF Kept
<1>2. CASE pr # 0 /\ ~Fresh(cur, bp, bs)
  <2>1. q # <<>> /\ q[1].no = pr
    BY <1>2 DEF Kept
  <2>2. Append(q, p)[1] = q[1] /\ Append(q, p) # <<>>
    <3>1. Len(q) \in Nat /\ Len(q) # 0
      BY <2>1, LenProperties, EmptySeq
    <3>2. Len(Append(q, p)) = Len(q) + 1 /\ \A i \in 1 .. Len(q) : Append(q, p)[i] = q[i]
      BY AppendIs
    <3>3. 1 \in 1 .. Len(q) /\ Len(q) + 1 # 0
      BY <3>1
    <3>4. Len(<<>>) = 0
      BY EmptySeq
    <3>5. QED BY <3>2, <3>3, <3>4
  <2>3. QED BY <2>1, <2>2, <1>2 DEF Kept
<1>3. QED BY <1>1, <1>2

LEMMA KeptSame ==
  ASSUME NEW q, NEW cur, NEW bp, NEW bs, NEW pr, Kept(q, cur, bp, bs, pr),
         NEW cur2, NEW bp2, NEW bs2, ~Fresh(cur, bp, bs), ~Fresh(cur2, bp2, bs2)
  PROVE  Kept(q, cur2, bp2, bs2, pr)
  BY DEF Kept

(* A list of n packets and b bytes is short enough: without its last       *)
(* packet it is under both limits.                                         *)
Bounded(q, n, b) ==
  /\ n = Len(q) /\ n <= MaxPacks
  /\ n > 1 => b - Size(q[n]) < MaxBytes

(* A packet is only added under both limits, ...                           *)
LEMMA BoundedAdd ==
  ASSUME NEW q \in Seq(AnyPacket), NEW n \in Int, NEW b \in Int, Bounded(q, n, b), n < MaxPacks, b < MaxBytes,
         NEW p \in AnyPacket
  PROVE  Bounded(Append(q, p), n + 1, b + Size(p))
<1>1. MaxPacks \in Nat /\ MaxBytes \in Nat /\ Size(p) \in Nat
  BY QueueAssumption, SizeIsNat DEF QueueAssumption
<1> DEFINE r == Append(q, p)
<1>2. Len(r) = Len(q) + 1 /\ r[Len(q) + 1] = p
  BY AppendIs
<1> HIDE DEF r
<1>3. n = Len(q)
  BY DEF Bounded
<1>4. r[n + 1] = p /\ Len(r) = n + 1
  BY <1>2, <1>3
<1>5. (b + Size(p)) - Size(p) < MaxBytes /\ n + 1 <= MaxPacks
  BY <1>1
<1>6. (b + Size(p)) - Size(r[n + 1]) < MaxBytes
  BY <1>4, <1>5
<1>7. Bounded(r, n + 1, b + Size(p))
  BY <1>4, <1>5, <1>6 DEF Bounded
<1>8. QED BY <1>7 DEF r

(* ... and taking one leaves the last one where it is.                     *)
LEMMA BoundedTake ==
  ASSUME NEW q \in Seq(AnyPacket), NEW n \in Int, NEW b \in Int, Bounded(q, n, b), n > 0
  PROVE  q # <<>> /\ Bounded(Tail(q), n - 1, b - Size(Head(q)))
<1>1. MaxPacks \in Nat /\ MaxBytes \in Nat /\ n = Len(q) /\ n <= MaxPacks
  BY QueueAssumption DEF QueueAssumption, Bounded
<1>2. q # <<>>
  BY <1>1, EmptySeq
<1>3. /\ Len(Tail(q)) = n - 1 /\ \A i \in 1 .. n - 1 : Tail(q)[i] = q[i + 1]
      /\ Head(q) \in AnyPacket
  BY <1>1, <1>2, TailIs
<1>4. Size(Head(q)) \in Nat
  BY <1>3, SizeIsNat
<1>5. ASSUME n - 1 > 1 PROVE b - Size(Head(q)) - Size(Tail(q)[n - 1]) < MaxBytes
  <2>1. Tail(q)[n - 1] = q[n]
    <3>1. n - 1 \in 1 .. n - 1 /\ n - 1 + 1 = n
      BY <1>5
    <3>2. QED BY <1>3, <3>1
  <2>2. b - Size(q[n]) < MaxBytes
    BY <1>5 DEF Bounded
  <2>3. Size(q[n]) \in Nat
    <3>1. n \in 1 .. Len(q)
      BY <1>1
    <3>2. q[n] \in AnyPacket
      BY <3>1, ElementOfSeq
    <3>3. QED BY <3>2, SizeIsNat
  <2>4. b - Size(Head(q)) - Size(q[n]) < MaxBytes
    BY <1>1, <1>4, <2>2, <2>3
  <2>5. QED BY <2>1, <2>4
<1>6. QED BY <1>1, <1>2, <1>3, <1>5 DEF Bounded

LEMMA BoundedNew == Bounded(<<>>, 0, 0)
  BY QueueAssumption, EmptySeq DEF QueueAssumption, Bounded
-----------------------------------------------------------------------------
(* What a call asks for.                                                   *)
Calls == [is : {"none", "bytes", "packet", "next", "skip"}, ds : Streams, left : Int]

(* What the variables of the demuxer hold.                                 *)
DemuxTypes ==
  /\ film \in Films /\ audio_on \in BOOLEAN
  /\ chunk \in Nat \ {0} /\ chunk <= Total + 1
  /\ queue \in [Streams -> Seq(AnyPacket)] /\ current \in [Streams -> AnyPacket]
  /\ packs \in [Streams -> Int] /\ bytes \in [Streams -> Int]
  /\ bpos \in [Streams -> Int] /\ bsize \in [Streams -> Int]
  /\ last \in [Streams -> Nat] /\ promised \in [Streams -> Nat]
  /\ call \in Calls

(* Where demux_film_fill_buffer is.                                        *)
Reading == {"film", "fetch", "head", "tail", "whole"}

(* Where a call may be, what it asks for there, and that the demuxer only  *)
(* reads when the lists have room.                                         *)
CallInv ==
  /\ at = "next" => call.is = "next"
  /\ at \in {"read", "loop", "eof"} => call.is # "next"
  /\ at \in Reading \ {"film"} => chunk <= Total
  /\ at \in Reading => ~Full

(* A call looks for the next packet of this stream.                        *)
Asking(ds) == at \in Reading \cup {"loop", "eof"} /\ call.is # "next" /\ call.ds = ds
(* The chunks of a stream.                                                 *)
Mine(ds) == {c \in 1 .. Total : film.chunks[c].of = ds}

(* For each stream: what is in hand, what waits, the time stamp announced, *)
(* and the room in its list.                                               *)
HandInv(ds)    == Hand(current[ds], bpos[ds], bsize[ds], last[ds], Asking(ds))
OrderInv(ds)   == (ds = "audio" => audio_on) =>
                    Held(Mine(ds), queue[ds], current[ds], bpos[ds], bsize[ds], last[ds], chunk)
PromiseInv(ds) == Kept(queue[ds], current[ds], bpos[ds], bsize[ds], promised[ds])
RoomInv(ds)    == Bounded(queue[ds], packs[ds], bytes[ds])
QueueInv(ds)   == HandInv(ds) /\ OrderInv(ds) /\ PromiseInv(ds) /\ RoomInv(ds)

DemuxInv == DemuxTypes /\ CallInv /\ \A ds \in Streams : QueueInv(ds)

(* What a step leaves a stream of which it changes nothing.                *)
LEMMA SameQueue ==
  ASSUME NEW ds \in Streams, QueueInv(ds), UNCHANGED <<film, audio_on, chunk>>, Asking(ds)' <=> Asking(ds),
         queue'[ds] = queue[ds], current'[ds] = current[ds], bpos'[ds] = bpos[ds], bsize'[ds] = bsize[ds],
         packs'[ds] = packs[ds], bytes'[ds] = bytes[ds], last'[ds] = last[ds], promised'[ds] = promised[ds]
  PROVE  QueueInv(ds)'
<1>1. HandInv(ds)'
  BY DEF QueueInv, HandInv, Hand
<1>2. OrderInv(ds)'
  BY DEF QueueInv, OrderInv, Mine, Total
<1>3. PromiseInv(ds)' /\ RoomInv(ds)'
  BY DEF QueueInv, PromiseInv, RoomInv
<1>4. QED BY <1>1, <1>2, <1>3 DEF QueueInv

(* A step that changes nothing of the demuxer but where the call is.       *)
LEMMA SameDemux ==
  ASSUME DemuxInv, UNCHANGED <<film, audio_on, chunk, dsvars, last, promised>>,
         call' \in Calls, CallInv', \A ds \in Streams : Asking(ds)' <=> Asking(ds)
  PROVE  DemuxInv'
<1>1. DemuxTypes'
  BY DEF DemuxInv, DemuxTypes, Total, dsvars
<1>2. ASSUME NEW ds \in Streams PROVE QueueInv(ds)'
  BY <1>2, SameQueue DEF DemuxInv, dsvars
<1>3. QED BY <1>1, <1>2 DEF DemuxInv

(* The table of chunks is not empty, and each chunk is one.                *)
LEMMA ChunkFacts ==
  ASSUME DemuxTypes
  PROVE  /\ Total \in Nat \ {0} /\ \A c \in 1 .. Total : film.chunks[c] \in Chunks
         /\ \A ds \in Streams : Mine(ds) \in SUBSET Nat
<1>1. film.chunks \in Seq(Chunks) /\ film.chunks # <<>>
  BY FilmAssumption DEF FilmAssumption, DemuxTypes
<1>2. Total \in Nat \ {0}
  BY <1>1, LenProperties, EmptySeq DEF Total
<1>3. \A c \in 1 .. Total : film.chunks[c] \in Chunks
  BY <1>1, ElementOfSeq DEF Total
<1>4. \A ds \in Streams : Mine(ds) \in SUBSET Nat
  BY <1>2 DEF Mine
<1>5. QED BY <1>2, <1>3, <1>4

(* The end of a read: a call goes on, unless it only looked.               *)
LEMMA ReturnsCall ==
  ASSUME CallInv, NEW found \in BOOLEAN, Returns(found), UNCHANGED call, at \in Reading
  PROVE  CallInv' /\ (\A ds \in Streams : Asking(ds)' <=> Asking(ds)) /\ at' \notin Reading
<1>1. CASE call.is = "next"
  <2>1. at' \in {"next", "idle"}
    BY <1>1 DEF Returns
  <2>2. QED BY <1>1, <2>1 DEF CallInv, Asking, Reading
<1>2. CASE call.is # "next"
  <2>1. at' \in {"loop", "eof"}
    BY <1>2 DEF Returns
  <2>2. QED BY <1>2, <2>1 DEF CallInv, Asking, Reading
<1>3. QED BY <1>1, <1>2

LEMMA SameRoom == ASSUME UNCHANGED dsvars PROVE Full' <=> Full
  BY DEF Full, dsvars

(* The steps of the model, one by one.                                     *)
LEMMA OpeningQueues == ASSUME DemuxInv, Opening PROVE DemuxInv'
<1>1. at \in {"probe", "magic"} /\ at' \in {"probe", "magic", "idle"}
  BY DEF Opening, ProbeNew, ProbeMore, Open, ReadMagic, Opened, Goto
<1>2. UNCHANGED <<film, audio_on, chunk, dsvars, last, promised, call>>
  BY DEF Opening, Keep, playvars
<1>3. CallInv' /\ \A ds \in Streams : Asking(ds)' <=> Asking(ds)
  BY <1>1 DEF CallInv, Asking, Reading
<1>4. call' \in Calls
  BY <1>2 DEF DemuxInv, DemuxTypes
<1>5. QED BY <1>2, <1>3, <1>4, SameDemux

LEMMA StreamQueues ==
  ASSUME DemuxInv, UNCHANGED <<film, audio_on, chunk, dsvars, last, promised, call, at>> PROVE DemuxInv'
<1>1. CallInv' /\ \A ds \in Streams : Asking(ds)' <=> Asking(ds)
  BY SameRoom DEF DemuxInv, CallInv, Asking, Total
<1>2. call' \in Calls
  BY DEF DemuxInv, DemuxTypes
<1>3. QED BY <1>1, <1>2, SameDemux

LEMMA ReadingQueues ==
  ASSUME DemuxInv, FilmEnd \/ Position \/ Fetch \/ FetchFails,
         UNCHANGED <<film, audio_on, call, last, promised>>
  PROVE  DemuxInv'
<1>1. UNCHANGED <<chunk, dsvars>> /\ call' \in Calls /\ at \in Reading
  BY DEF FilmEnd, Position, Fetch, FetchFails, DemuxInv, DemuxTypes, Reading
<1>2. CASE FilmEnd \/ FetchFails
  <2>1. Returns(FALSE)
    BY <1>2 DEF FilmEnd, FetchFails
  <2>2. QED BY <1>1, <2>1, ReturnsCall, SameDemux DEF DemuxInv
<1>3. CASE Position \/ Fetch
  <2>1. at' \in Reading \ {"film"} /\ chunk <= Total
    BY <1>3 DEF Position, Fetch, Goto, Reading, DemuxInv, CallInv
  <2>2. ~Full'
    BY <1>1, SameRoom DEF DemuxInv, CallInv
  <2>3. CallInv' /\ \A ds \in Streams : Asking(ds)' <=> Asking(ds)
    BY <1>1, <2>1, <2>2 DEF CallInv, Asking, Reading, Total
  <2>4. QED BY <1>1, <2>3, SameDemux
<1>4. QED BY <1>2, <1>3

(* The demuxer passes over a chunk of a stream that it does not read.      *)
LEMMA PassedOver ==
  ASSUME DemuxTypes, NEW ds \in Streams, QueueInv(ds), chunk <= Total,
         (ds = "audio" => audio_on) => film.chunks[chunk].of # ds,
         UNCHANGED <<film, audio_on>>, chunk' = chunk + 1, Asking(ds)' <=> Asking(ds),
         queue'[ds] = queue[ds], current'[ds] = current[ds], bpos'[ds] = bpos[ds], bsize'[ds] = bsize[ds],
         packs'[ds] = packs[ds], bytes'[ds] = bytes[ds], last'[ds] = last[ds], promised'[ds] = promised[ds]
  PROVE  QueueInv(ds)'
<1>1. HandInv(ds)'
  BY DEF QueueInv, HandInv, Hand
<1>2. OrderInv(ds)'
  <2>1. CASE ds = "audio" /\ ~audio_on
    BY <2>1 DEF OrderInv
  <2>2. CASE ~(ds = "audio" /\ ~audio_on)
    <3>1. chunk \notin Mine(ds)
      BY <2>2 DEF Mine
    <3>2. /\ Mine(ds) \in SUBSET Nat /\ queue[ds] \in Seq(AnyPacket) /\ current[ds] \in AnyPacket
          /\ bpos[ds] \in Int /\ bsize[ds] \in Int /\ last[ds] \in Nat /\ chunk \in Nat
      BY ChunkFacts DEF DemuxTypes
    <3>3. Held(Mine(ds), queue[ds], current[ds], bpos[ds], bsize[ds], last[ds], chunk)
      BY <2>2 DEF QueueInv, OrderInv
    <3>4. Held(Mine(ds), queue[ds], current[ds], bpos[ds], bsize[ds], last[ds], chunk + 1)
      BY <3>1, <3>2, <3>3, HeldPass
    <3>5. Mine(ds)' = Mine(ds)
      BY DEF Mine, Total
    <3>6. QED BY <3>4, <3>5 DEF OrderInv
  <2>3. QED BY <2>1, <2>2
<1>3. PromiseInv(ds)' /\ RoomInv(ds)'
  BY DEF QueueInv, PromiseInv, RoomInv
<1>4. QED BY <1>1, <1>2, <1>3 DEF QueueInv

LEMMA SkipQueues ==
  ASSUME DemuxInv, SkipAudio, UNCHANGED <<film, audio_on, call, last, promised>>
  PROVE  DemuxInv'
<1>1. /\ at = "fetch" /\ at \in Reading /\ chunk <= Total /\ chunk' = chunk + 1 /\ Returns(TRUE)
      /\ UNCHANGED dsvars /\ Here.of = "audio" /\ ~audio_on
  BY DEF SkipAudio, Reading, DemuxInv, CallInv
<1>2. CallInv' /\ (\A ds \in Streams : Asking(ds)' <=> Asking(ds))
  BY <1>1, ReturnsCall DEF DemuxInv
<1>3. DemuxTypes'
  BY <1>1, ChunkFacts DEF DemuxInv, DemuxTypes, dsvars, Total
<1>4. ASSUME NEW ds \in Streams PROVE QueueInv(ds)'
  BY <1>1, <1>2, <1>4, PassedOver DEF DemuxInv, dsvars, Here
<1>5. QED BY <1>2, <1>3, <1>4 DEF DemuxInv

(* The chunk was read: it is added to the list of its stream.              *)
LEMMA FetchedQueues ==
  ASSUME DemuxInv, Fetched, got \in Seq(Int), UNCHANGED <<film, audio_on, call, last, promised>>
  PROVE  DemuxInv'
<1>1. PICK d \in Streams : d = Here.of
  <2>1. chunk \in 1 .. Total
    BY DEF Fetched, DemuxInv, DemuxTypes, CallInv, Reading
  <2>2. Here \in Chunks
    BY <2>1, ChunkFacts DEF DemuxInv, Here
  <2>3. QED BY <2>2 DEF Chunks
<1> DEFINE p == [no |-> chunk, data |-> got]
<1>2. /\ at \in Reading /\ chunk <= Total /\ chunk' = chunk + 1 /\ Returns(TRUE) /\ Add(d, p) /\ ~Full
  BY <1>1 DEF Fetched, Reading, DemuxInv, CallInv
<1>3. CallInv' /\ (\A ds \in Streams : Asking(ds)' <=> Asking(ds))
  BY <1>2, ReturnsCall DEF DemuxInv
<1>4. p \in AnyPacket /\ p.no = chunk
  BY DEF AnyPacket, DemuxInv, DemuxTypes
<1>5. chunk \in 1 .. Total /\ Total \in Nat
  BY <1>2, ChunkFacts DEF DemuxInv, DemuxTypes
<1> HIDE DEF p
<1>6. Size(p) \in Nat
  BY <1>4, SizeIsNat
<1>7. /\ queue' = [queue EXCEPT ![d] = Append(@, p)] /\ packs' = [packs EXCEPT ![d] = @ + 1]
      /\ bytes' = [bytes EXCEPT ![d] = @ + Size(p)] /\ UNCHANGED <<current, bpos, bsize>>
  BY <1>2 DEF Add
<1>8. Append(queue[d], p) \in Seq(AnyPacket)
  BY <1>4, <1>5, AppendIs DEF DemuxInv, DemuxTypes
<1>9. DemuxTypes'
  <2>1. queue' \in [Streams -> Seq(AnyPacket)]
    BY <1>7, <1>8 DEF DemuxInv, DemuxTypes
  <2>2. packs' \in [Streams -> Int] /\ bytes' \in [Streams -> Int]
    BY <1>2, <1>6, <1>7 DEF DemuxInv, DemuxTypes
  <2>3. chunk' \in Nat \ {0} /\ chunk' <= Total' + 1
    BY <1>2, <1>5 DEF DemuxInv, DemuxTypes, Total
  <2>4. QED BY <1>7, <2>1, <2>2, <2>3 DEF DemuxInv, DemuxTypes
<1>10. ASSUME NEW ds \in Streams, ds # d PROVE QueueInv(ds)'
  <2>1. queue'[ds] = queue[ds] /\ packs'[ds] = packs[ds] /\ bytes'[ds] = bytes[ds]
    BY <1>7, <1>10 DEF DemuxInv, DemuxTypes
  <2>2. film.chunks[chunk].of # ds
    BY <1>1, <1>10 DEF Here
  <2>3. QED BY <1>2, <1>3, <1>7, <1>10, <2>1, <2>2, PassedOver DEF DemuxInv
<1>11. QueueInv(d)'
  <2>1. /\ queue'[d] = Append(queue[d], p) /\ packs'[d] = packs[d] + 1 /\ bytes'[d] = bytes[d] + Size(p)
        /\ queue[d] \in Seq(AnyPacket) /\ packs[d] \in Int /\ bytes[d] \in Int
    BY <1>5, <1>7 DEF DemuxInv, DemuxTypes
  <2>2. QueueInv(d)
    BY <1>5 DEF DemuxInv
  <2>3. HandInv(d)'
    BY <1>3, <1>5, <1>7, <2>2 DEF QueueInv, HandInv, Hand
  <2>4. OrderInv(d)'
    <3>1. CASE d = "audio" /\ ~audio_on
      BY <3>1 DEF OrderInv
    <3>2. CASE ~(d = "audio" /\ ~audio_on)
      <4>1. chunk \in Mine(d)
        BY <1>1, <1>5 DEF Mine, Here
      <4>2. /\ Mine(d) \in SUBSET Nat /\ current[d] \in AnyPacket
            /\ bpos[d] \in Int /\ bsize[d] \in Int /\ last[d] \in Nat /\ chunk \in Nat
        BY <1>5, ChunkFacts DEF DemuxInv, DemuxTypes
      <4>3. Held(Mine(d), queue[d], current[d], bpos[d], bsize[d], last[d], chunk)
        BY <2>2, <3>2 DEF QueueInv, OrderInv
      <4>4. Held(Mine(d), Append(queue[d], p), current[d], bpos[d], bsize[d], last[d], chunk + 1)
        BY <1>4, <2>1, <4>1, <4>2, <4>3, HeldAdd
      <4>5. Mine(d)' = Mine(d)
        BY DEF Mine, Total
      <4>6. QED BY <1>2, <1>7, <2>1, <4>4, <4>5 DEF OrderInv
    <3>3. QED BY <3>1, <3>2
  <2>5. PromiseInv(d)'
    <3>1. Kept(Append(queue[d], p), current[d], bpos[d], bsize[d], promised[d])
      BY <1>4, <2>1, <2>2, KeptAdd DEF QueueInv, PromiseInv
    <3>2. QED BY <1>7, <2>1, <3>1 DEF PromiseInv
  <2>6. RoomInv(d)'
    <3>1. packs[d] < MaxPacks /\ bytes[d] < MaxBytes
      BY <1>2, <1>5, <2>1, QueueAssumption DEF Full, QueueAssumption
    <3>2. Bounded(Append(queue[d], p), packs[d] + 1, bytes[d] + Size(p))
      BY <1>4, <2>1, <2>2, <3>1, BoundedAdd DEF QueueInv, RoomInv
    <3>3. QED BY <2>1, <3>2 DEF RoomInv
  <2>7. QED BY <2>3, <2>4, <2>5, <2>6 DEF QueueInv
<1>12. QED BY <1>3, <1>9, <1>10, <1>11 DEF DemuxInv

(* A step of the call for one stream leaves the others as they are.        *)
LEMMA OtherQueues ==
  ASSUME DemuxInv, NEW d \in Streams, UNCHANGED <<film, audio_on, chunk>>,
         call.ds = d \/ at = "idle", call'.ds = d \/ at' = "idle", DemuxTypes', CallInv', QueueInv(d)',
         \A ds \in Streams \ {d} :
           /\ queue'[ds] = queue[ds] /\ current'[ds] = current[ds] /\ bpos'[ds] = bpos[ds] /\ bsize'[ds] = bsize[ds]
           /\ packs'[ds] = packs[ds] /\ bytes'[ds] = bytes[ds] /\ last'[ds] = last[ds] /\ promised'[ds] = promised[ds]
  PROVE  DemuxInv'
<1>1. ASSUME NEW ds \in Streams, ds # d PROVE QueueInv(ds)'
  <2>1. Asking(ds)' <=> Asking(ds)
    BY <1>1 DEF Asking, Reading
  <2>2. QED BY <1>1, <2>1, SameQueue DEF DemuxInv
<1>2. QED BY <1>1 DEF DemuxInv

(* ds_fill_buffer: it reads on, takes the first of the list, or gives up.  *)
LEMMA LoopQueues == ASSUME DemuxInv, FillLoop, UNCHANGED <<film, audio_on, chunk, call>> PROVE DemuxInv'
<1>1. UNCHANGED <<film, audio_on, chunk, dsvars, last, promised>> /\ call' \in Calls /\ at = "loop"
  BY DEF FillLoop, playvars, DemuxInv, DemuxTypes
<1>2. at' \in {"eof", "film"} /\ (at' = "film" => ~Full)
  BY DEF FillLoop, Loop
<1>3. CallInv' /\ \A ds \in Streams : Asking(ds)' <=> Asking(ds)
  BY <1>1, <1>2, SameRoom DEF DemuxInv, CallInv, Asking, Reading
<1>4. QED BY <1>1, <1>3, SameDemux

LEMMA TakeQueues == ASSUME DemuxInv, FillTake, UNCHANGED <<film, audio_on, chunk, call>> PROVE DemuxInv'
<1> DEFINE p == Head(queue[call.ds])
<1>1. PICK d \in Streams : d = call.ds
  BY DEF DemuxInv, DemuxTypes, Calls
<1>2. /\ queue[d] \in Seq(AnyPacket) /\ packs[d] \in Int /\ bytes[d] \in Int /\ last[d] \in Nat /\ chunk \in Nat
      /\ Mine(d) \in SUBSET Nat /\ bpos[d] \in Int /\ bsize[d] \in Int
  BY ChunkFacts DEF DemuxInv, DemuxTypes
<1>3. QueueInv(d) /\ at = "loop" /\ call.is # "next" /\ at' \in {"idle", "read"} /\ UNCHANGED call
  BY DEF DemuxInv, FillTake, Goto, CallInv
<1>4. current[d] = None
  BY <1>1, <1>3 DEF QueueInv, HandInv, Hand, Asking
<1>5. /\ packs[d] > 0 /\ p = Head(queue[d])
      /\ bpos' = [bpos EXCEPT ![d] = 0] /\ bsize' = [bsize EXCEPT ![d] = Size(p)]
      /\ bytes' = [bytes EXCEPT ![d] = @ - Size(p)]
      /\ current' = [current EXCEPT ![d] = p] /\ queue' = [queue EXCEPT ![d] = Tail(@)]
      /\ packs' = [packs EXCEPT ![d] = @ - 1] /\ promised' = [promised EXCEPT ![d] = 0]
  BY <1>1 DEF FillTake, Take
<1>6. last' = [last EXCEPT ![d] = IF Size(current'[d]) = 0 THEN current'[d].no ELSE @]
  BY <1>1 DEF FillTake
<1>7. queue[d] # <<>> /\ Bounded(Tail(queue[d]), packs[d] - 1, bytes[d] - Size(p))
  BY <1>2, <1>3, <1>5, BoundedTake DEF QueueInv, RoomInv
<1>8. Tail(queue[d]) \in Seq(AnyPacket) /\ p \in AnyPacket
  BY <1>2, <1>5, <1>7, TailIs
<1>9. Size(p) \in Nat /\ p.no \in Nat
  BY <1>8, SizeIsNat
<1> HIDE DEF p
<1>10. /\ queue'[d] = Tail(queue[d]) /\ current'[d] = p /\ bpos'[d] = 0 /\ bsize'[d] = Size(p)
      /\ packs'[d] = packs[d] - 1 /\ bytes'[d] = bytes[d] - Size(p) /\ promised'[d] = 0
      /\ last'[d] = IF Size(p) = 0 THEN p.no ELSE last[d]
  BY <1>5, <1>6 DEF DemuxInv, DemuxTypes
<1>11. DemuxTypes'
  <2>1. last' \in [Streams -> Nat]
    BY <1>6, <1>9, <1>10 DEF DemuxInv, DemuxTypes
  <2>2. queue' \in [Streams -> Seq(AnyPacket)] /\ current' \in [Streams -> AnyPacket]
    BY <1>5, <1>8 DEF DemuxInv, DemuxTypes
  <2>3. packs' \in [Streams -> Int] /\ bytes' \in [Streams -> Int]
    BY <1>2, <1>5, <1>9 DEF DemuxInv, DemuxTypes
  <2>4. bpos' \in [Streams -> Int] /\ bsize' \in [Streams -> Int] /\ promised' \in [Streams -> Nat]
    BY <1>5, <1>9 DEF DemuxInv, DemuxTypes
  <2>5. QED BY <2>1, <2>2, <2>3, <2>4 DEF DemuxInv, DemuxTypes, Total
<1>12. QueueInv(d)'
  <2>1. HandInv(d)'
    <3>1. Hand(p, 0, Size(p), last'[d], FALSE)
      <4>1. p = None => Size(p) = 0
        BY EmptySeq DEF None, Size
      <4>2. QED BY <1>9, <4>1 DEF Hand
    <3>2. ~Asking(d)'
      BY <1>3 DEF Asking, Reading
    <3>3. QED BY <1>10, <3>1, <3>2 DEF HandInv, Hand
  <2>2. OrderInv(d)'
    <3>1. CASE d = "audio" /\ ~audio_on
      BY <3>1 DEF OrderInv
    <3>2. CASE ~(d = "audio" /\ ~audio_on)
      <4>1. Held(Mine(d), queue[d], None, bpos[d], bsize[d], last[d], chunk)
        BY <1>3, <1>4, <3>2 DEF QueueInv, OrderInv
      <4>2. Held(Mine(d), Tail(queue[d]), p, 0, Size(p), IF Size(p) = 0 THEN p.no ELSE last[d], chunk)
        BY <1>2, <1>5, <1>7, <4>1, HeldTake
      <4>3. Mine(d)' = Mine(d) /\ UNCHANGED chunk
        BY DEF Mine, Total
      <4>4. QED BY <1>10, <4>2, <4>3 DEF OrderInv
    <3>3. QED BY <3>1, <3>2
  <2>3. PromiseInv(d)'
    BY <1>10 DEF PromiseInv, Kept
  <2>4. RoomInv(d)'
    BY <1>7, <1>10 DEF RoomInv
  <2>5. QED BY <2>1, <2>2, <2>3, <2>4 DEF QueueInv
<1>13. CallInv'
  BY <1>3 DEF CallInv, Reading
<1>14. QED BY <1>1, <1>3, <1>5, <1>6, <1>11, <1>12, <1>13, OtherQueues DEF DemuxInv, DemuxTypes

LEMMA EofQueues == ASSUME DemuxInv, FillEof, UNCHANGED <<film, audio_on, chunk, call>> PROVE DemuxInv'
<1>1. PICK d \in Streams : d = call.ds
  BY DEF DemuxInv, DemuxTypes, Calls
<1>2. /\ at = "eof" /\ at' = "idle" /\ call.is # "next" /\ QueueInv(d)
      /\ bpos' = [bpos EXCEPT ![d] = 0] /\ bsize' = [bsize EXCEPT ![d] = 0]
      /\ UNCHANGED <<queue, packs, bytes, current, last, promised>>
  BY <1>1 DEF FillEof, EndStream, Goto, playvars, DemuxInv, CallInv
<1>3. current[d] = None
  BY <1>1, <1>2 DEF QueueInv, HandInv, Hand, Asking
<1>4. DemuxTypes'
  BY <1>2 DEF DemuxInv, DemuxTypes, Total
<1>5. bpos'[d] = 0 /\ bsize'[d] = 0
  BY <1>2 DEF DemuxInv, DemuxTypes
<1>6. ~Fresh(None, bpos[d], bsize[d]) /\ ~Fresh(None, 0, 0)
  BY DEF Fresh
<1>7. HandInv(d)'
  <2>1. ~Asking(d)'
    BY <1>2 DEF Asking, Reading
  <2>2. QED BY <1>2, <1>3, <1>5, <2>1 DEF HandInv, Hand
<1>8. OrderInv(d)'
  <2>1. CASE d = "audio" /\ ~audio_on
    BY <2>1 DEF OrderInv
  <2>2. CASE ~(d = "audio" /\ ~audio_on)
    <3>1. Held(Mine(d), queue[d], None, bpos[d], bsize[d], last[d], chunk)
      BY <1>2, <1>3, <2>2 DEF QueueInv, OrderInv
    <3>2. Held(Mine(d), queue[d], None, 0, 0, last[d], chunk)
      BY <1>6, <3>1, HeldSame
    <3>3. Mine(d)' = Mine(d)
      BY DEF Mine, Total
    <3>4. QED BY <1>2, <1>3, <1>5, <3>2, <3>3 DEF OrderInv
  <2>3. QED BY <2>1, <2>2
<1>9. PromiseInv(d)' /\ RoomInv(d)'
  <2>1. Kept(queue[d], None, 0, 0, promised[d])
    BY <1>2, <1>3, <1>6, KeptSame DEF QueueInv, PromiseInv
  <2>2. QED BY <1>2, <1>3, <1>5, <2>1 DEF QueueInv, PromiseInv, RoomInv
<1>10. CallInv'
  BY <1>2 DEF CallInv, Reading
<1>11. QED BY <1>1, <1>2, <1>4, <1>7, <1>8, <1>9, <1>10, OtherQueues DEF QueueInv, DemuxInv, DemuxTypes

(* What a stream has when the packet in hand is dropped after it was given *)
(* out, or when it holds no data.                                          *)
LEMMA Dropped ==
  ASSUME DemuxInv, NEW d \in Streams, UNCHANGED <<film, audio_on, chunk>>, current'[d] = None,
         bpos'[d] = bpos[d], bsize'[d] = bsize[d], queue'[d] = queue[d], packs'[d] = packs[d], bytes'[d] = bytes[d],
         \/ ~Fresh(current[d], bpos[d], bsize[d]) /\ last'[d] = last[d] /\ promised'[d] = promised[d]
         \/ Fresh(current[d], bpos[d], bsize[d]) /\ last'[d] = current[d].no /\ promised'[d] = 0,
         Asking(d)' \/ bpos[d] = bsize[d]
  PROVE  QueueInv(d)'
<1>1. ~Fresh(None, bpos[d], bsize[d]) /\ QueueInv(d)
  BY DEF Fresh, DemuxInv
<1>2. HandInv(d)'
  BY <1>1 DEF QueueInv, HandInv, Hand
<1>3. OrderInv(d)'
  <2>1. CASE d = "audio" /\ ~audio_on
    BY <2>1 DEF OrderInv
  <2>2. CASE ~(d = "audio" /\ ~audio_on)
    <3>1. Held(Mine(d), queue[d], current[d], bpos[d], bsize[d], last[d], chunk)
      BY <1>1, <2>2 DEF QueueInv, OrderInv
    <3>2. /\ Mine(d) \in SUBSET Nat /\ queue[d] \in Seq(AnyPacket) /\ current[d] \in AnyPacket
          /\ last[d] \in Nat /\ chunk \in Nat
      BY ChunkFacts DEF DemuxInv, DemuxTypes
    <3>3. Held(Mine(d), queue[d], None, bpos[d], bsize[d], last'[d], chunk)
      <4>1. CASE ~Fresh(current[d], bpos[d], bsize[d]) /\ last'[d] = last[d]
        BY <1>1, <3>1, <4>1, HeldSame
      <4>2. CASE Fresh(current[d], bpos[d], bsize[d]) /\ last'[d] = current[d].no
        BY <1>1, <3>1, <3>2, <4>2, HeldOut
      <4>3. QED BY <4>1, <4>2
    <3>4. Mine(d)' = Mine(d)
      BY DEF Mine, Total
    <3>5. QED BY <3>3, <3>4 DEF OrderInv
  <2>3. QED BY <2>1, <2>2
<1>4. PromiseInv(d)'
  <2>1. Kept(queue[d], None, bpos[d], bsize[d], promised'[d])
    <3>1. CASE ~Fresh(current[d], bpos[d], bsize[d]) /\ promised'[d] = promised[d]
      BY <1>1, <3>1, KeptSame DEF QueueInv, PromiseInv
    <3>2. CASE promised'[d] = 0
      BY <3>2 DEF Kept
    <3>3. QED BY <3>1, <3>2
  <2>2. QED BY <2>1 DEF PromiseInv
<1>5. RoomInv(d)'
  BY <1>1 DEF QueueInv, RoomInv
<1>6. QED BY <1>2, <1>3, <1>4, <1>5 DEF QueueInv

(* Bytes of the packet in hand are given out.                              *)
LEMMA HandOutQueues ==
  ASSUME DemuxInv, at = "read", NEW n \in Int, n > 0, n <= bsize[call.ds] - bpos[call.ds], HandOut(n),
         UNCHANGED <<film, audio_on, chunk>>, call' \in Calls, call'.ds = call.ds, call'.is = call.is, at' \in {"read", "idle"}
  PROVE  DemuxInv'
<1>1. PICK d \in Streams : d = call.ds
  BY DEF DemuxInv, DemuxTypes, Calls
<1>2. /\ queue[d] \in Seq(AnyPacket) /\ current[d] \in AnyPacket /\ last[d] \in Nat /\ chunk \in Nat
      /\ Mine(d) \in SUBSET Nat /\ bpos[d] \in Int /\ bsize[d] \in Int
  BY ChunkFacts DEF DemuxInv, DemuxTypes
<1>3. QueueInv(d) /\ call.is # "next" /\ ~Asking(d) /\ n <= bsize[d] - bpos[d]
  BY <1>1 DEF DemuxInv, CallInv, Asking, Reading
<1>4. current[d] # None /\ bpos[d] \in Nat /\ bsize[d] > 0
  BY <1>2, <1>3 DEF QueueInv, HandInv, Hand
<1>5. /\ bpos' = [bpos EXCEPT ![d] = @ + n] /\ UNCHANGED <<queue, packs, bytes, current, bsize>>
      /\ last' = [last EXCEPT ![d] = current[d].no]
      /\ promised' = [promised EXCEPT ![d] = IF bpos[d] = 0 THEN 0 ELSE @]
  BY <1>1 DEF HandOut, Read
<1>6. /\ bpos'[d] = bpos[d] + n /\ last'[d] = current[d].no
      /\ promised'[d] = IF bpos[d] = 0 THEN 0 ELSE promised[d]
  BY <1>5 DEF DemuxInv, DemuxTypes
<1>7. DemuxTypes'
  <2>1. current[d].no \in Nat
    BY <1>2, SizeIsNat
  <2>2. bpos' \in [Streams -> Int] /\ last' \in [Streams -> Nat] /\ promised' \in [Streams -> Nat]
    BY <1>2, <1>5, <2>1 DEF DemuxInv, DemuxTypes
  <2>3. QED BY <1>5, <2>2 DEF DemuxInv, DemuxTypes, Total
<1>8. ~Fresh(current[d], bpos'[d], bsize[d]) /\ bpos'[d] > 0 /\ bpos'[d] <= bsize[d]
  BY <1>2, <1>3, <1>4, <1>6 DEF Fresh
<1>9. Fresh(current[d], bpos[d], bsize[d]) <=> bpos[d] = 0
  BY <1>4 DEF Fresh
<1>10. HandInv(d)'
  <2>1. ~Asking(d)'
    BY DEF Asking, Reading
  <2>2. bsize[d] = Size(current[d])
    BY <1>3, <1>4 DEF QueueInv, HandInv, Hand
  <2>3. QED BY <1>2, <1>4, <1>5, <1>6, <1>8, <2>1, <2>2 DEF HandInv, Hand
<1>11. OrderInv(d)'
  <2>1. CASE d = "audio" /\ ~audio_on
    BY <2>1 DEF OrderInv
  <2>2. CASE ~(d = "audio" /\ ~audio_on)
    <3>1. Held(Mine(d), queue[d], current[d], bpos[d], bsize[d], last[d], chunk)
      BY <1>3, <2>2 DEF QueueInv, OrderInv
    <3>2. Held(Mine(d), queue[d], current[d], bpos'[d], bsize[d], last'[d], chunk)
      <4>1. CASE bpos[d] = 0
        <5>1. Held(Mine(d), queue[d], current[d], bpos'[d], bsize[d], current[d].no, chunk)
          BY <1>2, <1>8, <1>9, <3>1, <4>1, HeldOut
        <5>2. QED BY <1>6, <5>1
      <4>2. CASE bpos[d] # 0
        <5>1. last[d] = current[d].no
          BY <1>3, <1>4, <4>2 DEF QueueInv, HandInv, Hand
        <5>2. Held(Mine(d), queue[d], current[d], bpos'[d], bsize[d], last[d], chunk)
          BY <1>8, <1>9, <3>1, <4>2, HeldSame
        <5>3. QED BY <1>6, <5>1, <5>2
      <4>3. QED BY <4>1, <4>2
    <3>3. Mine(d)' = Mine(d)
      BY DEF Mine, Total
    <3>4. QED BY <1>5, <3>2, <3>3 DEF OrderInv
  <2>3. QED BY <2>1, <2>2
<1>12. PromiseInv(d)'
  <2>1. Kept(queue[d], current[d], bpos'[d], bsize[d], promised'[d])
    <3>1. CASE bpos[d] = 0
      BY <1>6, <3>1 DEF Kept
    <3>2. CASE bpos[d] # 0
      <4>1. Kept(queue[d], current[d], bpos[d], bsize[d], promised[d])
        BY <1>3 DEF QueueInv, PromiseInv
      <4>2. Kept(queue[d], current[d], bpos'[d], bsize[d], promised[d])
        BY <1>8, <1>9, <3>2, <4>1, KeptSame
      <4>3. QED BY <1>6, <3>2, <4>2
    <3>3. QED BY <3>1, <3>2
  <2>2. QED BY <1>5, <2>1 DEF PromiseInv
<1>13. RoomInv(d)'
  BY <1>3, <1>5 DEF QueueInv, RoomInv
<1>14. CallInv'
  BY <1>3 DEF CallInv, Reading
<1>15. QueueInv(d)'
  BY <1>10, <1>11, <1>12, <1>13 DEF QueueInv
<1>16. QED BY <1>1, <1>5, <1>7, <1>14, <1>15, OtherQueues DEF DemuxInv, DemuxTypes

(* The packet in hand is freed, read or not.                               *)
LEMMA ReleaseQueues ==
  ASSUME DemuxInv, NEW d \in Streams, Release(d), UNCHANGED <<film, audio_on, chunk>>,
         at' = "loop", call' \in Calls, call'.ds = d, call'.is # "next", call.ds = d \/ at = "idle",
         last' \in [Streams -> Nat], promised' \in [Streams -> Nat],
         \A ds \in Streams \ {d} : last'[ds] = last[ds] /\ promised'[ds] = promised[ds],
         \/ ~Fresh(current[d], bpos[d], bsize[d]) /\ last'[d] = last[d] /\ promised'[d] = promised[d]
         \/ Fresh(current[d], bpos[d], bsize[d]) /\ last'[d] = current[d].no /\ promised'[d] = 0
  PROVE  DemuxInv'
<1>1. current' = [current EXCEPT ![d] = None] /\ UNCHANGED <<queue, packs, bytes, bpos, bsize>>
  BY DEF Release
<1>2. current'[d] = None /\ current' \in [Streams -> AnyPacket]
  BY <1>1, NoneIsOne DEF DemuxInv, DemuxTypes
<1>3. Asking(d)'
  BY DEF Asking, Reading
<1>4. DemuxTypes' /\ CallInv'
  BY <1>1, <1>2 DEF DemuxInv, DemuxTypes, CallInv, Total, Reading
<1>5. QueueInv(d)'
  BY <1>1, <1>2, <1>3, Dropped
<1>6. \A ds \in Streams \ {d} : current'[ds] = current[ds]
  BY <1>1 DEF DemuxInv, DemuxTypes
<1>7. QED BY <1>1, <1>4, <1>5, <1>6, OtherQueues

(* The calls of the player.                                                *)
LEMMA ReadQueues == ASSUME DemuxInv, ReadStep, UNCHANGED <<film, audio_on, chunk>> PROVE DemuxInv'
<1>1. PICK d \in Streams : d = call.ds
  BY DEF DemuxInv, DemuxTypes, Calls
<1> DEFINE x == bsize[call.ds] - bpos[call.ds]
<1>2. /\ call \in Calls /\ x \in Int /\ x = bsize[d] - bpos[d] /\ at = "read" /\ call.is # "next"
      /\ bsize[d] \in Int /\ bpos[d] \in Int /\ call.left \in Int
  BY <1>1 DEF DemuxInv, DemuxTypes, CallInv, Calls, ReadStep
<1>3. CASE Goto("idle") /\ UNCHANGED <<dsvars, playvars, call>>
  <2>1. CallInv' /\ \A ds \in Streams : Asking(ds)' <=> Asking(ds)
    BY <1>2, <1>3 DEF Goto, CallInv, Asking, Reading
  <2>2. QED BY <1>2, <1>3, <2>1, SameDemux DEF playvars
<1>4. CASE /\ call.is = "bytes" /\ call.left > 0 /\ x > 0
           /\ LET n == MinOf(x, call.left) IN HandOut(n) /\ call' = [call EXCEPT !.left = @ - n]
           /\ Goto("read")
  <2> DEFINE n == MinOf(x, call.left)
  <2>1. n \in Int /\ n > 0 /\ n <= x
    BY <1>2, <1>4 DEF MinOf
  <2>2. HandOut(n) /\ call' = [call EXCEPT !.left = @ - n] /\ at' = "read"
    BY <1>4 DEF Goto
  <2> HIDE DEF n
  <2>3. call' \in Calls /\ call'.ds = call.ds /\ call'.is = call.is
    BY <1>2, <2>1, <2>2 DEF Calls
  <2>4. QED BY <1>2, <2>1, <2>2, <2>3, HandOutQueues
<1>5. CASE /\ x = 0 /\ Release(call.ds) /\ Goto("loop")
           /\ call' = [call EXCEPT !.left = IF call.is = "packet" THEN 0 ELSE @] /\ UNCHANGED playvars
  <2>1. call' \in Calls /\ call'.ds = d /\ call'.is # "next"
    BY <1>1, <1>2, <1>5 DEF Calls
  <2>2. ~Fresh(current[d], bpos[d], bsize[d])
    BY <1>2, <1>5 DEF Fresh
  <2>3. Release(d) /\ at' = "loop" /\ UNCHANGED <<last, promised>>
    BY <1>1, <1>5 DEF Goto, playvars
  <2>4. last' \in [Streams -> Nat] /\ promised' \in [Streams -> Nat]
    BY <2>3 DEF DemuxInv, DemuxTypes
  <2>5. QED BY <1>1, <2>1, <2>2, <2>3, <2>4, ReleaseQueues
<1>6. CASE x > 0 /\ HandOut(x) /\ Goto("idle") /\ UNCHANGED call
  <2>1. at' = "idle"
    BY <1>6 DEF Goto
  <2> HIDE DEF x
  <2>2. x <= bsize[call.ds] - bpos[call.ds]
    BY <1>1, <1>2
  <2>3. QED BY <1>2, <1>6, <2>1, <2>2, HandOutQueues
<1>7. QED BY <1>3, <1>4, <1>5, <1>6 DEF ReadStep

LEMMA NextQueues == ASSUME DemuxInv, NextStep, UNCHANGED <<film, audio_on, chunk, call>> PROVE DemuxInv'
<1>1. PICK d \in Streams : d = call.ds
  BY DEF DemuxInv, DemuxTypes, Calls
<1> DEFINE inHand == current[d] # None /\ bpos[d] = 0
           p == IF inHand THEN current[d] ELSE Head(queue[d])
<1>2. at = "next" /\ call.is = "next" /\ UNCHANGED <<dsvars, last>> /\ call' \in Calls
  BY DEF NextStep, DemuxInv, CallInv, DemuxTypes
<1>3. CASE Look /\ UNCHANGED promised
  <2>1. at' \in {"idle", "film"} /\ (at' = "film" => ~Full)
    BY <1>3 DEF Look
  <2>2. CallInv' /\ \A ds \in Streams : Asking(ds)' <=> Asking(ds)
    BY <1>2, <2>1, SameRoom DEF CallInv, Asking, Reading
  <2>3. QED BY <1>2, <1>3, <2>2, SameDemux
<1>4. CASE ~(queue[d] = <<>> /\ ~inHand) /\ Goto("idle") /\ Announce(d, p)
  <2>1. /\ queue[d] \in Seq(AnyPacket) /\ current[d] \in AnyPacket /\ QueueInv(d) /\ at' = "idle"
        /\ bpos[d] \in Int /\ bsize[d] \in Int
    BY <1>4 DEF DemuxInv, DemuxTypes, Goto
  <2>2. p \in AnyPacket
    BY <1>4, <2>1, TailIs
  <2>3. Size(p) \in Nat /\ p.no \in Nat
    BY <2>2, SizeIsNat
  <2>4. Kept(queue[d], current[d], bpos[d], bsize[d], IF Size(p) = 0 THEN 0 ELSE p.no)
    <3>1. CASE inHand
      <4>1. bsize[d] = Size(p)
        BY <2>1, <3>1 DEF QueueInv, HandInv, Hand
      <4>2. Size(p) # 0 => Fresh(current[d], bpos[d], bsize[d])
        BY <2>3, <3>1, <4>1 DEF Fresh
      <4>3. QED BY <3>1, <4>2 DEF Kept
    <3>2. CASE ~inHand
      <4>1. queue[d] # <<>> /\ p = queue[d][1]
        BY <1>4, <2>1, <3>2, TailIs
      <4>2. ~Fresh(current[d], bpos[d], bsize[d])
        BY <3>2 DEF Fresh
      <4>3. QED BY <4>1, <4>2 DEF Kept
    <3>3. QED BY <3>1, <3>2
  <2> HIDE DEF p
  <2>5. promised' = [promised EXCEPT ![d] = IF Size(p) = 0 THEN 0 ELSE p.no]
    BY <1>4 DEF Announce
  <2>6. promised'[d] = (IF Size(p) = 0 THEN 0 ELSE p.no) /\ promised' \in [Streams -> Nat]
    BY <2>3, <2>5 DEF DemuxInv, DemuxTypes
  <2>7. DemuxTypes' /\ CallInv'
    BY <1>2, <2>1, <2>6 DEF DemuxInv, DemuxTypes, CallInv, Total, Reading, dsvars
  <2>8. QueueInv(d)'
    <3>1. ~Asking(d) /\ ~Asking(d)'
      BY <1>2, <2>1 DEF Asking, Reading
    <3>2. HandInv(d)'
      BY <1>2, <2>1, <3>1 DEF QueueInv, HandInv, Hand, dsvars
    <3>3. OrderInv(d)'
      BY <1>2, <2>1 DEF QueueInv, OrderInv, Mine, Total, dsvars
    <3>4. PromiseInv(d)'
      BY <1>2, <2>4, <2>6 DEF PromiseInv, dsvars
    <3>5. RoomInv(d)'
      BY <1>2, <2>1 DEF QueueInv, RoomInv, dsvars
    <3>6. QED BY <3>2, <3>3, <3>4, <3>5 DEF QueueInv
  <2>9. \A ds \in Streams \ {d} : promised'[ds] = promised[ds]
    BY <2>5 DEF DemuxInv, DemuxTypes
  <2>10. QED BY <1>1, <1>2, <2>1, <2>7, <2>8, <2>9, OtherQueues DEF dsvars
<1>5. QED BY <1>1, <1>3, <1>4 DEF NextStep

LEMMA AskQueues == ASSUME DemuxInv, Ask PROVE DemuxInv'
<1>1. at = "idle" /\ UNCHANGED <<film, audio_on, chunk>>
  BY DEF Ask, Keep
<1>2. PICK d \in Streams :
        \/ \E n \in Amounts : call' = [is |-> "bytes", ds |-> d, left |-> n] /\ Goto("read")
                              /\ UNCHANGED <<dsvars, playvars>>
        \/ call' = [is |-> "packet", ds |-> d, left |-> 1] /\ Goto("read")
           /\ UNCHANGED <<dsvars, playvars>>
        \/ call' = [is |-> "next", ds |-> d, left |-> 0] /\ Goto("next")
           /\ UNCHANGED <<dsvars, playvars>>
        \/ /\ call' = [is |-> "skip", ds |-> d, left |-> 0] /\ Goto("loop")
           /\ Release(d)
           /\ promised' = [promised EXCEPT ![d] = IF Unread(d) THEN 0 ELSE @]
           /\ last' = [last EXCEPT ![d] = IF Unread(d) THEN current[d].no ELSE @]
  BY DEF Ask
<1>3. CASE UNCHANGED <<dsvars, playvars>> /\ call' \in Calls /\ at' \in {"read", "next"}
           /\ (at' = "next" <=> call'.is = "next")
  <2>1. CallInv' /\ \A ds \in Streams : Asking(ds)' <=> Asking(ds)
    BY <1>1, <1>3 DEF CallInv, Asking, Reading
  <2>2. QED BY <1>1, <1>3, <2>1, SameDemux DEF playvars
<1>4. CASE /\ call' = [is |-> "skip", ds |-> d, left |-> 0] /\ Goto("loop") /\ Release(d)
           /\ promised' = [promised EXCEPT ![d] = IF Unread(d) THEN 0 ELSE @]
           /\ last' = [last EXCEPT ![d] = IF Unread(d) THEN current[d].no ELSE @]
  <2>1. Unread(d) <=> Fresh(current[d], bpos[d], bsize[d])
    BY DEF Unread, Fresh
  <2>2. current[d].no \in Nat
    BY SizeIsNat DEF DemuxInv, DemuxTypes
  <2>3. last' \in [Streams -> Nat] /\ promised' \in [Streams -> Nat]
    BY <1>4, <2>2 DEF DemuxInv, DemuxTypes
  <2>4. \A ds \in Streams \ {d} : last'[ds] = last[ds] /\ promised'[ds] = promised[ds]
    BY <1>4 DEF DemuxInv, DemuxTypes
  <2>5. /\ last'[d] = IF Unread(d) THEN current[d].no ELSE last[d]
        /\ promised'[d] = IF Unread(d) THEN 0 ELSE promised[d]
    BY <1>4 DEF DemuxInv, DemuxTypes
  <2>6. call' \in Calls /\ call'.ds = d /\ call'.is # "next" /\ at' = "loop"
    BY <1>4 DEF Calls, Goto
  <2>7. \/ ~Fresh(current[d], bpos[d], bsize[d]) /\ last'[d] = last[d] /\ promised'[d] = promised[d]
        \/ Fresh(current[d], bpos[d], bsize[d]) /\ last'[d] = current[d].no /\ promised'[d] = 0
    BY <2>1, <2>5
  <2>8. QED BY <1>1, <1>4, <2>3, <2>4, <2>6, <2>7, ReleaseQueues
<1>5. ASSUME NEW n \in Amounts, call' = [is |-> "bytes", ds |-> d, left |-> n], Goto("read"), UNCHANGED <<dsvars, playvars>>
      PROVE DemuxInv'
  <2>1. n \in Int
    BY FilmAssumption DEF FilmAssumption
  <2>2. QED BY <1>3, <1>5, <2>1 DEF Calls, Goto
<1>6. CASE call' = [is |-> "packet", ds |-> d, left |-> 1] /\ Goto("read") /\ UNCHANGED <<dsvars, playvars>>
  BY <1>3, <1>6 DEF Calls, Goto
<1>7. CASE call' = [is |-> "next", ds |-> d, left |-> 0] /\ Goto("next") /\ UNCHANGED <<dsvars, playvars>>
  BY <1>3, <1>7 DEF Calls, Goto
<1>8. QED BY <1>2, <1>4, <1>5, <1>6, <1>7

(* The search for a key frame ends, at the latest at the first chunk.      *)
LEMMA KeyAtIs ==
  ASSUME NEW c \in Nat \ {0}
  PROVE  KeyAt(c) \in 1 .. c
<1> DEFINE B == {d \in 0 .. c - 1 : c - d = 1 \/ IsKey(c - d)}
<1>1. c - 1 \in B
  OBVIOUS
<1>2. PICK d \in B : \A e \in B : ~(e < d)
  <2>1. B \subseteq Nat
    OBVIOUS
  <2>2. B \subseteq Nat /\ B # {}
    BY <1>1, <2>1, Zenon
  <2>3. IsWellFoundedOn(OpToRel(<, Nat), Nat)
    BY NatLessThanWellFounded
  <2> HIDE DEF B
  <2>4. PICK x \in B : \A y \in B : ~(<<y, x>> \in OpToRel(<, Nat))
    BY <2>2, <2>3, WFMin
  <2>5. \A y \in B : ~(y < x)
    BY <2>2, <2>4 DEF OpToRel
  <2>6. QED BY <2>4, <2>5
<1>3. c - d \in 1 .. c /\ (c - d = 1 \/ IsKey(c - d))
  BY <1>2
<1>4. ASSUME NEW i \in (c - d) + 1 .. c, IsKey(i) PROVE FALSE
  <2>1. c - i \in 0 .. c - 1 /\ c - (c - i) = i /\ c - i < d
    BY <1>2, <1>3, <1>4
  <2>2. c - i \in B
    BY <1>4, <2>1
  <2>3. QED BY <1>2, <2>1, <2>2
<1> HIDE DEF B
<1>5. \E k \in 1 .. c : (k = 1 \/ IsKey(k)) /\ \A i \in k + 1 .. c : ~IsKey(i)
  BY <1>3, <1>4
<1>6. QED BY <1>5 DEF KeyAt

(* A seek leads to a chunk, or behind the last one.                        *)
LEMMA SeekPlaceIs ==
  ASSUME DemuxTypes, NEW t \in Int, NEW c \in SeekPlace(t)
  PROVE  c \in 1 .. Total + 1
<1> DEFINE e == IF t < 1 THEN 1 ELSE IF t > Total + 1 THEN Total ELSE t
<1>1. Total \in Nat \ {0}
  BY ChunkFacts
<1>2. e \in 1 .. Total + 1
  BY <1>1
<1>3. c \in IF e <= Total THEN {KeyAt(e)} ELSE {e, KeyAt(Total)}
  BY DEF SeekPlace
<1> HIDE DEF e
<1>4. KeyAt(e) \in 1 .. e /\ KeyAt(Total) \in 1 .. Total
  BY <1>1, <1>2, KeyAtIs
<1>5. QED BY <1>1, <1>2, <1>3, <1>4

LEMMA OneLess == ASSUME NEW c \in Nat \ {0} PROVE c - 1 \in Nat
  OBVIOUS

LEMMA SeekQueues == ASSUME DemuxInv, Seek PROVE DemuxInv'
<1>1. PICK t \in 0 .. Total + 2 : chunk' \in SeekPlace(t)
  BY DEF Seek
<1>2. Total \in Nat \ {0} /\ t \in Int
  BY ChunkFacts DEF DemuxInv
<1>3. chunk' \in Nat \ {0} /\ chunk' <= Total + 1
  BY <1>1, <1>2, SeekPlaceIs DEF DemuxInv
<1>4. /\ at = "idle" /\ at' = "idle" /\ call' = NoCall /\ UNCHANGED <<film, audio_on>>
      /\ queue' = [ds \in Streams |-> <<>>] /\ current' = [ds \in Streams |-> None]
      /\ packs' = [ds \in Streams |-> 0] /\ bytes' = [ds \in Streams |-> 0]
      /\ bpos' = bsize /\ UNCHANGED bsize
      /\ last' = [ds \in Streams |-> chunk' - 1] /\ promised' = [ds \in Streams |-> 0]
  BY DEF Seek, Flush, Keep
<1>5. DemuxTypes'
  <2>1. <<>> \in Seq(AnyPacket) /\ NoCall \in Calls
    BY FilmAssumption DEF FilmAssumption, NoCall, Calls
  <2>2. chunk' - 1 \in Nat
    BY <1>3, OneLess
  <2>3. last' \in [Streams -> Nat] /\ promised' \in [Streams -> Nat]
    BY <1>4, <2>2
  <2>4. queue' \in [Streams -> Seq(AnyPacket)] /\ current' \in [Streams -> AnyPacket]
    BY <1>4, <2>1, NoneIsOne
  <2>5. packs' \in [Streams -> Int] /\ bytes' \in [Streams -> Int] /\ call' \in Calls
    BY <1>4, <2>1
  <2>6. QED BY <1>3, <1>4, <2>3, <2>4, <2>5 DEF DemuxInv, DemuxTypes, Total
<1>6. CallInv'
  BY <1>4 DEF CallInv, Reading
<1>7. ASSUME NEW ds \in Streams PROVE QueueInv(ds)'
  <2>1. /\ queue'[ds] = <<>> /\ current'[ds] = None /\ packs'[ds] = 0 /\ bytes'[ds] = 0
        /\ bpos'[ds] = bsize[ds] /\ last'[ds] = chunk' - 1 /\ promised'[ds] = 0 /\ ~Asking(ds)'
    BY <1>4 DEF Asking, Reading
  <2>2. HandInv(ds)'
    <3>1. 0 <= bsize[ds] /\ bsize[ds] \in Int
      <4>1. bpos[ds] \in Int /\ bsize[ds] \in Int /\ 0 <= bpos[ds] /\ bpos[ds] <= bsize[ds]
        BY DEF DemuxInv, DemuxTypes, QueueInv, HandInv, Hand
      <4>2. QED BY <4>1
    <3>2. QED BY <1>4, <2>1, <3>1 DEF HandInv, Hand
  <2>3. OrderInv(ds)'
    <3>1. Mine(ds)' = Mine(ds) /\ Mine(ds) \in SUBSET Nat
      BY <1>4, ChunkFacts DEF Mine, Total, DemuxInv
    <3>2. Held(Mine(ds), <<>>, None, bsize[ds], bsize[ds], chunk' - 1, chunk')
      BY <1>3, <3>1, HeldNew
    <3>3. QED BY <1>4, <2>1, <3>1, <3>2 DEF OrderInv
  <2>4. PromiseInv(ds)' /\ RoomInv(ds)'
    BY <2>1, BoundedNew DEF PromiseInv, RoomInv, Kept
  <2>5. QED BY <2>2, <2>3, <2>4 DEF QueueInv
<1>8. QED BY <1>5, <1>6, <1>7 DEF DemuxInv
-----------------------------------------------------------------------------
(* The stream and the demuxer together: the inductive invariant.           *)
FilmInv == StreamInv /\ DemuxInv

LEMMA FilmStarts == Init => FilmInv
<1> SUFFICES ASSUME Init PROVE FilmInv
  OBVIOUS
<1>1. film.len \in Nat /\ film \in Films
  BY FilmAssumption DEF FilmAssumption, Init
<1>2. StreamInv
  <2>1. /\ pos = 0 /\ seof = FALSE /\ buf_pos = 0 /\ buf_len = 0 /\ fd = 0 /\ base = 0
        /\ job = "none" /\ left = 0 /\ goal = 0 /\ got = <<>> /\ file_len \in Nat /\ linear \in BOOLEAN
    BY <1>1 DEF Init, StreamInit
  <2>2. StreamTypes /\ BufferInv /\ PlaceInv
    <3>1. StreamTypes
      <4>1. got \in Seq(Int) /\ seof \in BOOLEAN
        BY <2>1, EmptyIsSeq
      <4>2. QED BY <2>1, <4>1 DEF StreamTypes
    <3>2. BufferInv /\ PlaceInv
      BY <2>1 DEF BufferInv, PlaceInv
    <3>3. QED BY <3>1, <3>2
  <2>3. SeekInv
    BY DEF Init, StreamInit, SeekInv, SeekLands
  <2>4. QED BY <2>2, <2>3 DEF StreamInv
<1>3. /\ queue = [ds \in Streams |-> <<>>] /\ current = [ds \in Streams |-> None]
      /\ packs = [ds \in Streams |-> 0] /\ bytes = [ds \in Streams |-> 0]
      /\ bpos = [ds \in Streams |-> 0] /\ bsize = [ds \in Streams |-> 0]
      /\ last = [ds \in Streams |-> 0] /\ promised = [ds \in Streams |-> 0]
      /\ chunk = 1 /\ at = "probe" /\ call = NoCall /\ audio_on \in BOOLEAN
  BY DEF Init, QueueInit
<1>4. DemuxTypes
  <2>1. NoCall \in Calls /\ <<>> \in Seq(AnyPacket)
    BY FilmAssumption DEF FilmAssumption, NoCall, Calls
  <2>2. Total \in Nat
    BY <1>1, FilmAssumption, LenProperties DEF FilmAssumption, Total
  <2>3. queue \in [Streams -> Seq(AnyPacket)] /\ current \in [Streams -> AnyPacket]
    BY <1>3, <2>1, NoneIsOne
  <2>4. chunk \in Nat \ {0} /\ chunk <= Total + 1
    BY <1>3, <2>2
  <2>5. packs \in [Streams -> Int] /\ bytes \in [Streams -> Int] /\ bpos \in [Streams -> Int] /\ bsize \in [Streams -> Int]
    BY <1>3
  <2>6. last \in [Streams -> Nat] /\ promised \in [Streams -> Nat]
    BY <1>3
  <2>7. QED BY <1>1, <1>3, <2>1, <2>3, <2>4, <2>5, <2>6 DEF DemuxTypes
<1>5. CallInv
  BY <1>3 DEF CallInv, Reading
<1>6. ASSUME NEW ds \in Streams PROVE QueueInv(ds)
  <2>1. /\ queue[ds] = <<>> /\ current[ds] = None /\ packs[ds] = 0 /\ bytes[ds] = 0
        /\ bpos[ds] = 0 /\ bsize[ds] = 0 /\ last[ds] = 0 /\ promised[ds] = 0 /\ ~Asking(ds)
    BY <1>3 DEF Asking, Reading
  <2>2. HandInv(ds)
    BY <2>1 DEF HandInv, Hand
  <2>3. OrderInv(ds)
    <3>1. Mine(ds) \in SUBSET Nat /\ 1 \in Nat \ {0}
      BY <1>4, ChunkFacts
    <3>2. Held(Mine(ds), <<>>, None, 0, 0, 1 - 1, 1)
      BY <3>1, HeldNew
    <3>3. Held(Mine(ds), <<>>, None, 0, 0, 0, 1)
      BY <3>2
    <3>4. QED BY <1>3, <2>1, <3>3 DEF OrderInv
  <2>4. PromiseInv(ds) /\ RoomInv(ds)
    BY <2>1, BoundedNew DEF PromiseInv, RoomInv, Kept
  <2>5. QED BY <2>2, <2>3, <2>4 DEF QueueInv
<1>7. QED BY <1>2, <1>4, <1>5, <1>6 DEF FilmInv, DemuxInv

(* Where the demuxer touches the stream.                                   *)
LEMMA StreamUnmoved == ASSUME StreamInv, UNCHANGED <<filevars, streamvars, jobvars>> PROVE StreamInv'
  BY StreamKept DEF streamvars

LEMMA OpeningStream == ASSUME StreamInv, Opening PROVE StreamInv'
<1>1. UNCHANGED filevars
  BY DEF Opening, Keep
<1>2. CASE ProbeNew
  BY <1>1, <1>2, SeekToInv DEF ProbeNew, StartNew
<1>3. CASE ProbeMore
  <2>1. PICK n \in {BlockSize, 2 * BlockSize + 1} : StartRead(n) \/ StartSkip(n)
    BY <1>3 DEF ProbeMore
  <2>2. n \in Nat
    BY BlockAssumption DEF BlockAssumption
  <2>3. QED BY <1>1, <2>1, <2>2, StartInv, SkipInv DEF StartRead
<1>4. CASE Open
  BY <1>1, <1>4, AgainInv DEF Open
<1>5. CASE ReadMagic
  BY <1>1, <1>5, StartInv DEF ReadMagic, StartRead
<1>6. CASE Opened
  BY <1>1, <1>6, StreamUnmoved DEF Opened
<1>7. QED BY <1>2, <1>3, <1>4, <1>5, <1>6 DEF Opening

LEMMA FillStream == ASSUME FilmInv, FilmFill PROVE StreamInv'
<1>1. UNCHANGED filevars /\ StreamInv
  BY DEF FilmFill, Keep, FilmInv
<1>2. CASE FilmEnd \/ SkipAudio \/ FetchFails \/ Fetched
  <2>1. UNCHANGED <<streamvars, jobvars>>
    BY <1>2 DEF FilmEnd, SkipAudio, FetchFails, Fetched
  <2>2. QED BY <1>1, <2>1, StreamUnmoved
<1>3. CASE Position \/ Fetch
  <2>1. chunk \in 1 .. Total
    BY <1>3 DEF FilmInv, DemuxInv, DemuxTypes, CallInv, Reading, Position, Fetch, Goto
  <2>2. Here \in Chunks
    BY <2>1, ChunkFacts DEF FilmInv, DemuxInv, Here
  <2>3. Here.at \in Nat /\ Here.size \in Nat /\ HeadBytes \in Nat /\ FixBytes \in Nat
    BY <2>2, FilmAssumption DEF FilmAssumption, Chunks
  <2>4. Here.size - HeadBytes - FixBytes \in Int
    BY <2>3
  <2>5. CASE Position
    BY <1>1, <2>3, <2>5, StartSeekInv DEF Position
  <2>6. CASE Fetch
    <3>1. \/ StartRead(Here.size) \/ StartRead(HeadBytes) \/ StartSkip(FixBytes)
          \/ StartRead(Here.size - HeadBytes - FixBytes)
      BY <2>6 DEF Fetch
    <3>2. QED BY <1>1, <2>3, <2>4, <3>1, StartInv, SkipInv DEF StartRead
  <2>7. QED BY <1>3, <2>5, <2>6
<1>4. QED BY <1>2, <1>3 DEF FilmFill

LEMMA FilmSteps == FilmInv /\ [Next]_vars => FilmInv'
<1> SUFFICES ASSUME FilmInv, [Next]_vars PROVE FilmInv'
  OBVIOUS
<1>1. StreamInv /\ DemuxInv
  BY DEF FilmInv
<1>2. CASE Opening
  BY <1>1, <1>2, OpeningStream, OpeningQueues DEF FilmInv
<1>3. CASE FilmFill
  <2>1. UNCHANGED <<film, audio_on, call, last, promised>> /\ got \in Seq(Int)
    BY <1>1, <1>3 DEF FilmFill, Keep, playvars, StreamInv, StreamTypes
  <2>2. DemuxInv'
    BY <1>1, <1>3, <2>1, ReadingQueues, SkipQueues, FetchedQueues DEF FilmFill
  <2>3. QED BY <1>3, <2>2, FillStream DEF FilmInv
<1>4. CASE Demux
  <2>1. UNCHANGED <<film, audio_on, chunk>> /\ UNCHANGED <<filevars, streamvars, jobvars>>
    BY <1>4 DEF Demux, Keep
  <2>2. StreamInv'
    BY <1>1, <2>1, StreamUnmoved
  <2>3. DemuxInv'
    <3>1. CASE ReadStep
      BY <1>1, <2>1, <3>1, ReadQueues
    <3>2. CASE Packets
      BY <1>1, <2>1, <3>2, LoopQueues, TakeQueues, EofQueues, NextQueues DEF Packets
    <3>3. QED BY <1>4, <3>1, <3>2 DEF Demux
  <2>4. QED BY <2>2, <2>3 DEF FilmInv
<1>5. CASE StreamStep /\ UNCHANGED <<dsvars, film, audio_on, chunk, at, call, playvars>>
  <2>1. StreamInv'
    BY <1>1, <1>5, TransferInv, ForwardInv, SeekStepInv DEF StreamStep
  <2>2. DemuxInv'
    BY <1>1, <1>5, StreamQueues DEF playvars
  <2>3. QED BY <2>1, <2>2 DEF FilmInv
<1>6. CASE Ask
  <2>1. UNCHANGED <<filevars, streamvars, jobvars>>
    BY <1>6 DEF Ask, Keep
  <2>2. QED BY <1>1, <1>6, <2>1, StreamUnmoved, AskQueues DEF FilmInv
<1>7. CASE Seek
  <2>1. UNCHANGED <<filevars, pos, buf_pos, buf_len, fd, base, jobvars>> /\ seof' = FALSE
    BY <1>7 DEF Seek, Keep
  <2>2. QED BY <1>1, <1>7, <2>1, StreamKept, SeekQueues DEF FilmInv
<1>8. CASE UNCHANGED vars
  <2>1. UNCHANGED <<filevars, streamvars, jobvars>>
    BY <1>8 DEF vars
  <2>2. UNCHANGED <<film, audio_on, chunk, dsvars, last, promised, call, at>>
    BY <1>8 DEF vars, playvars
  <2>3. QED BY <1>1, <2>1, <2>2, StreamUnmoved, StreamQueues DEF FilmInv
<1>9. QED BY <1>2, <1>3, <1>4, <1>5, <1>6, <1>7, <1>8 DEF Next, Work

(* The invariant holds, whatever is asked for, in whatever order, of       *)
(* whatever film, from a file or a pipe.                                   *)
THEOREM FilmInvariant == Spec => []FilmInv
<1>1. QED BY FilmStarts, FilmSteps, PTL DEF Spec

(* The buffer holds what the position says, after any calls, short reads   *)
(* and failed seeks (stream.c, stream.h).                                  *)
THEOREM TellIsTruthCorrect == Spec => []TellIsTruth
<1>1. FilmInv => TellIsTruth
  BY DEF FilmInv, StreamInv, StreamTypes, BufferInv, TellIsTruth
<1>2. QED BY <1>1, FilmInvariant, PTL

(* A seek in a file that reports success is where it was asked to be, and  *)
(* no seek to a place inside the file fails.                               *)
THEOREM SeeksLandCorrect == Spec => []SeekLands
<1>1. FilmInv => SeekLands
  BY DEF FilmInv, StreamInv, SeekInv
<1>2. QED BY <1>1, FilmInvariant, PTL

(* No list grows past the limits by more than the packet that reached one. *)
THEOREM QueuesAreBoundedCorrect == Spec => []QueuesAreBounded
<1>1. FilmInv => QueuesAreBounded
  <2> SUFFICES ASSUME FilmInv, NEW ds \in Streams
               PROVE  packs[ds] <= MaxPacks /\ (packs[ds] > 1 => bytes[ds] - Size(queue[ds][packs[ds]]) < MaxBytes)
    BY DEF QueuesAreBounded
  <2>1. Bounded(queue[ds], packs[ds], bytes[ds])
    BY DEF FilmInv, DemuxInv, QueueInv, RoomInv
  <2>2. QED BY <2>1 DEF Bounded
<1>2. QED BY <1>1, FilmInvariant, PTL

(* The sequence that waits for a decoder: the packet in hand if it is      *)
(* fresh, and the list.                                                    *)
LEMMA FirstThen ==
  ASSUME NEW S, NEW p \in S, NEW q \in Seq(S)
  PROVE  /\ Len(<<p>> \o q) = Len(q) + 1 /\ (<<p>> \o q)[1] = p /\ Len(q) \in Nat
         /\ \A i \in 1 .. Len(q) : (<<p>> \o q)[i + 1] = q[i]
         /\ <<p>> \o q \in Seq(S)
  OBVIOUS

LEMMA NothingThen == ASSUME NEW S, NEW q \in Seq(S) PROVE <<>> \o q = q
  OBVIOUS

(* What waits, in terms of the packet in hand and the list.                *)
WaitsAs(w, q, cur, bp, bs) ==
  IF Fresh(cur, bp, bs)
  THEN Len(w) = Len(q) + 1 /\ w[1] = cur /\ \A i \in 1 .. Len(q) : w[i + 1] = q[i]
  ELSE w = q

LEMMA WaitingIs ==
  ASSUME DemuxTypes, NEW ds \in Streams
  PROVE  /\ queue[ds] \in Seq(AnyPacket) /\ current[ds] \in AnyPacket /\ Waiting(ds) \in Seq(AnyPacket)
         /\ WaitsAs(Waiting(ds), queue[ds], current[ds], bpos[ds], bsize[ds])
<1>1. queue[ds] \in Seq(AnyPacket) /\ current[ds] \in AnyPacket
  BY DEF DemuxTypes
<1>2. CASE Fresh(current[ds], bpos[ds], bsize[ds])
  <2>1. Waiting(ds) = <<current[ds]>> \o queue[ds]
    BY <1>2 DEF Waiting, Unread, Fresh
  <2>2. QED BY <1>1, <1>2, <2>1, FirstThen DEF WaitsAs
<1>3. CASE ~Fresh(current[ds], bpos[ds], bsize[ds])
  <2>1. Waiting(ds) = <<>> \o queue[ds]
    BY <1>3 DEF Waiting, Unread, Fresh
  <2>2. QED BY <1>1, <1>3, <2>1, NothingThen DEF WaitsAs
<1>4. QED BY <1>2, <1>3

(* What waits is in order, and all of C between la and to.                 *)
AllBetween(C, w, la, to) ==
  /\ \A i, j \in 1 .. Len(w) : i < j => w[i].no < w[j].no
  /\ \A i \in 1 .. Len(w) : la < w[i].no /\ w[i].no < to /\ w[i].no \in C
  /\ \A c \in C : la < c /\ c < to => \E i \in 1 .. Len(w) : w[i].no = c

LEMMA WaitsInOrder ==
  ASSUME NEW C \in SUBSET Nat, NEW q \in Seq(AnyPacket), NEW p \in AnyPacket, NEW bp, NEW bs, NEW la \in Nat, NEW to \in Nat,
         Held(C, q, p, bp, bs, la, to), NEW w \in Seq(AnyPacket), WaitsAs(w, q, p, bp, bs)
  PROVE  AllBetween(C, w, la, to)
<1>1. Len(q) \in Nat
  BY LenProperties
<1>2. CASE ~Fresh(p, bp, bs)
  BY <1>2 DEF Held, WaitsAs, AllBetween
<1>3. CASE Fresh(p, bp, bs)
  <2>1. Len(w) = Len(q) + 1 /\ w[1] = p /\ \A i \in 1 .. Len(q) : w[i + 1] = q[i]
    BY <1>3 DEF WaitsAs
  <2>2. \A i \in 1 .. Len(w) : i # 1 => i - 1 \in 1 .. Len(q) /\ w[i] = q[i - 1]
    <3> SUFFICES ASSUME NEW i \in 1 .. Len(w), i # 1 PROVE i - 1 \in 1 .. Len(q) /\ w[i] = q[i - 1]
      OBVIOUS
    <3>1. i - 1 \in 1 .. Len(q) /\ i - 1 + 1 = i
      BY <1>1, <2>1
    <3>2. QED BY <2>1, <3>1
  <2>3. /\ la < p.no /\ p.no < to /\ p.no \in C
        /\ \A i \in 1 .. Len(q) : p.no < q[i].no /\ la < q[i].no /\ q[i].no < to /\ q[i].no \in C
        /\ \A i, j \in 1 .. Len(q) : i < j => q[i].no < q[j].no
    BY <1>3 DEF Held
  <2>4. ASSUME NEW i \in 1 .. Len(w), NEW j \in 1 .. Len(w), i < j PROVE w[i].no < w[j].no
    <3>1. j # 1
      BY <2>4
    <3>2. CASE i = 1
      BY <2>1, <2>2, <2>3, <3>1, <3>2
    <3>3. CASE i # 1
      <4>1. i - 1 < j - 1
        BY <2>4
      <4>2. QED BY <2>2, <2>3, <3>1, <3>3, <4>1
    <3>4. QED BY <3>2, <3>3
  <2>5. ASSUME NEW i \in 1 .. Len(w) PROVE la < w[i].no /\ w[i].no < to /\ w[i].no \in C
    BY <2>1, <2>2, <2>3
  <2>6. ASSUME NEW c \in C, la < c, c < to PROVE \E i \in 1 .. Len(w) : w[i].no = c
    <3>1. CASE p.no = c
      <4>1. 1 \in 1 .. Len(w)
        BY <1>1, <2>1
      <4>2. QED BY <2>1, <3>1, <4>1
    <3>2. CASE p.no # c
      <4>1. PICK i \in 1 .. Len(q) : q[i].no = c
        BY <2>6, <3>2 DEF Held
      <4>2. i + 1 \in 1 .. Len(w)
        BY <1>1, <2>1
      <4>3. QED BY <2>1, <4>1, <4>2
    <3>3. QED BY <3>1, <3>2
  <2>7. QED BY <2>4, <2>5, <2>6 DEF AllBetween
<1>4. QED BY <1>2, <1>3

(* No packet is lost, given twice, given to the wrong stream or out of     *)
(* order, none from before a seek is left, and no time stamp was announced *)
(* that is not the next one's.                                             *)
THEOREM NothingLostCorrect == Spec => []NothingLost
<1>1. ASSUME FilmInv PROVE NothingLost
  <2>1. DemuxTypes /\ \A ds \in Streams : QueueInv(ds)
    BY <1>1 DEF FilmInv, DemuxInv
  <2>2. ASSUME NEW ds \in Streams, promised[ds] # 0
        PROVE  Waiting(ds) # <<>> /\ Waiting(ds)[1].no = promised[ds]
    <3>1. Kept(queue[ds], current[ds], bpos[ds], bsize[ds], promised[ds])
      BY <2>1 DEF QueueInv, PromiseInv
    <3>2. CASE Fresh(current[ds], bpos[ds], bsize[ds])
      <4>1. current[ds].no = promised[ds]
        BY <2>2, <3>1, <3>2 DEF Kept
      <4>2. Len(Waiting(ds)) = Len(queue[ds]) + 1 /\ Waiting(ds)[1] = current[ds] /\ queue[ds] \in Seq(AnyPacket)
        BY <2>1, <3>2, WaitingIs DEF WaitsAs
      <4>3. Len(Waiting(ds)) # 0
        BY <4>2, LenProperties
      <4>4. QED BY <4>1, <4>2, <4>3, EmptySeq
    <3>3. CASE ~Fresh(current[ds], bpos[ds], bsize[ds])
      BY <2>1, <2>2, <3>1, <3>3, WaitingIs DEF Kept, WaitsAs
    <3>4. QED BY <3>2, <3>3
  <2>3. ASSUME NEW ds \in Streams, ds = "audio" => audio_on
        PROVE  /\ \A i, j \in DOMAIN Waiting(ds) : i < j => Waiting(ds)[i].no < Waiting(ds)[j].no
               /\ {Waiting(ds)[i].no : i \in DOMAIN Waiting(ds)} = ChunksOf(ds, last[ds] + 1, chunk - 1)
    <3> DEFINE w == Waiting(ds)
    <3>1. w \in Seq(AnyPacket) /\ AllBetween(Mine(ds), w, last[ds], chunk)
      <4>1. Held(Mine(ds), queue[ds], current[ds], bpos[ds], bsize[ds], last[ds], chunk)
        BY <2>1, <2>3 DEF QueueInv, OrderInv
      <4>2. Mine(ds) \in SUBSET Nat /\ last[ds] \in Nat /\ chunk \in Nat
        BY <2>1, ChunkFacts DEF DemuxTypes
      <4>3. /\ queue[ds] \in Seq(AnyPacket) /\ current[ds] \in AnyPacket /\ w \in Seq(AnyPacket)
            /\ WaitsAs(w, queue[ds], current[ds], bpos[ds], bsize[ds])
        BY <2>1, WaitingIs
      <4> HIDE DEF w
      <4>4. QED BY <4>1, <4>2, <4>3, WaitsInOrder
    <3>2. DOMAIN w = 1 .. Len(w)
      BY <3>1, LenProperties
    <3> HIDE DEF w
    <3>3. last[ds] \in Nat /\ chunk \in Nat /\ Total \in Nat /\ chunk <= Total + 1
      BY <2>1, ChunkFacts DEF DemuxTypes
    <3>4. ASSUME NEW c PROVE c \in ChunksOf(ds, last[ds] + 1, chunk - 1) <=> c \in Mine(ds) /\ last[ds] < c /\ c < chunk
      BY <3>3 DEF ChunksOf, Mine
    <3>5. {w[i].no : i \in DOMAIN w} = ChunksOf(ds, last[ds] + 1, chunk - 1)
      BY <3>1, <3>2, <3>4 DEF AllBetween
    <3>6. QED BY <3>1, <3>2, <3>5 DEF w, AllBetween
  <2>4. PromiseKept
    BY <2>2 DEF PromiseKept
  <2>5. QED BY <2>3, <2>4 DEF NothingLost
<1>2. QED BY <1>1, FilmInvariant, PTL
-----------------------------------------------------------------------------
(* A film in which a cvid header fits in its chunk; and what is cut from   *)
(* it (two bytes or six) is no more than what stream_skip reads over.      *)
Headed ==
  /\ FixBytes <= 2 * BlockSize
  /\ \A f \in Films : f.cvid => \A c \in 1 .. Len(f.chunks) :
       f.chunks[c].of = "video" => f.chunks[c].size >= HeadBytes + FixBytes

(* Where the part of the chunk ends that is being read.                    *)
PartEnd == IF at = "head" THEN HeadBytes ELSE IF at = "tail" THEN HeadBytes + FixBytes ELSE Here.size

(* A chunk that is all in the file is being read from its place, or all of *)
(* the part was read; if it has no bytes, its place is of no matter.       *)
OnWay ==
  \/ job \in {"read", "skip"} /\ Tell + left = Here.at + PartEnd
  \/ job = "done" /\ ok /\ Tell = Here.at + PartEnd
  \/ Here.size = 0 /\ left = 0 /\ (job \in {"read", "skip"} \/ (job = "done" /\ ok))

WayInv ==
  /\ at = "fetch" => goal = Here.at /\ job # "none"
  /\ at \in {"head", "tail"} => Cvid
  /\ at \in {"head", "tail", "whole"} /\ Readable(chunk) => OnWay
  /\ at = "eof" => Full \/ chunk > Total \/ ~Readable(chunk)

EndingInv == file_len = film.len /\ (~linear => WayInv)

(* The chunk at the place of the demuxer.                                  *)
LEMMA HereIs ==
  ASSUME DemuxTypes, chunk <= Total
  PROVE  /\ chunk \in 1 .. Total /\ Here \in Chunks /\ Here = film.chunks[chunk]
         /\ Here.at \in Nat /\ Here.size \in Nat /\ film \in Films
         /\ film.len \in Nat /\ HeadBytes \in Nat /\ FixBytes \in Nat
<1>1. chunk \in 1 .. Total /\ Here \in Chunks
  BY ChunkFacts DEF DemuxTypes, Here
<1>2. Here = film.chunks[chunk] /\ Here.at \in Nat /\ Here.size \in Nat
  BY <1>1 DEF Chunks, Here
<1>3. film \in Films /\ film.len \in Nat /\ HeadBytes \in Nat /\ FixBytes \in Nat
  BY FilmAssumption DEF FilmAssumption, DemuxTypes
<1>4. QED BY <1>1, <1>2, <1>3

(* No part of a chunk ends behind the chunk.                               *)
LEMMA PartFits ==
  ASSUME Headed, DemuxTypes, chunk <= Total, at \in {"head", "tail"} => Cvid
  PROVE  /\ PartEnd \in Nat /\ PartEnd <= Here.size
         /\ Cvid => HeadBytes + FixBytes <= Here.size
<1>1. /\ chunk \in 1 .. Len(film.chunks) /\ Here = film.chunks[chunk] /\ film \in Films
      /\ Here.size \in Nat /\ HeadBytes \in Nat /\ FixBytes \in Nat
  BY HereIs DEF Total
<1>2. Cvid => HeadBytes + FixBytes <= Here.size
  BY <1>1 DEF Headed, Cvid
<1>3. QED BY <1>1, <1>2 DEF PartEnd

(* A step of a read or of a skip, of a chunk that is all in the file.      *)
LEMMA WayOn ==
  ASSUME StreamInv, Headed, DemuxTypes, chunk <= Total, file_len = film.len, ~linear, at \in {"head", "tail"} => Cvid,
         Readable(chunk), OnWay, TransferStep, UNCHANGED <<film, chunk, at, filevars>>
  PROVE  OnWay'
<1>1. /\ PartEnd \in Nat /\ PartEnd <= Here.size /\ Here.at \in Nat /\ Here.size \in Nat
      /\ Here.at + Here.size <= file_len
  BY HereIs, PartFits DEF Readable
<1>2. /\ pos \in Nat /\ fd \in Nat /\ buf_pos \in Nat /\ buf_len \in Nat /\ left \in Int /\ file_len \in Nat /\ pos = fd
      /\ job \in {"read", "skip"}
  BY DEF StreamInv, StreamTypes, PlaceInv, TransferStep
<1>3. Here' = Here /\ PartEnd' = PartEnd
  BY DEF Here, PartEnd
<1>11. PICK e \in Nat : e = Here.at + PartEnd
  BY <1>1
<1>4. e <= file_len /\ Here'.at + PartEnd' = e
  BY <1>1, <1>2, <1>3, <1>11
<1>5. Tell + left = e \/ (Here.size = 0 /\ left = 0)
  BY <1>2, <1>11 DEF OnWay
<1> DEFINE x == MinOf(buf_len - buf_pos, left)
<1>6. CASE left = 0 /\ Done(TRUE) /\ UNCHANGED <<streamvars, got>>
  <2>1. job' = "done" /\ ok' /\ left' = 0 /\ Tell' = Tell
    BY <1>6 DEF Done, Tell, streamvars
  <2>2. Tell = e \/ Here.size = 0
    BY <1>2, <1>6, <1>11 DEF OnWay, Tell
  <2>3. QED BY <1>3, <1>4, <2>1, <2>2 DEF OnWay
<1>7. CASE x > 0 /\ buf_pos' = buf_pos + x /\ left' = left - x /\ UNCHANGED <<job, ok, pos, seof, buf_len, fd, base>>
  <2>1. x \in Int /\ left # 0
    BY <1>2, <1>7 DEF MinOf
  <2> HIDE DEF x
  <2>2. Tell' + left' = e
    BY <1>2, <1>5, <1>7, <2>1 DEF Tell
  <2>3. QED BY <1>2, <1>4, <1>7, <2>2 DEF OnWay
<1>8. CASE left > 0 /\ buf_len = buf_pos /\ \E n \in Lengths : Fill(n) /\ UNCHANGED <<job, left, ok>>
  <2>1. PICK n \in Lengths : Fill(n) /\ UNCHANGED <<job, left, ok>>
    BY <1>8
  <2>2. n \in Nat
    BY PullStep
  <2>3. Tell' + left' = e
    BY <1>2, <1>5, <1>8, <2>1, <2>2 DEF Tell, Fill, Pull
  <2>4. QED BY <1>2, <1>4, <2>1, <2>3 DEF OnWay
<1>9. CASE left > 0 /\ buf_len = buf_pos /\ FillEnds
  BY <1>2, <1>4, <1>5, <1>9 DEF Tell, FillEnds
<1>10. QED BY <1>6, <1>7, <1>8, <1>9 DEF TransferStep

(* The steps of the stream.                                                *)
LEMMA StreamWay ==
  ASSUME FilmInv, Headed, EndingInv, StreamStep, UNCHANGED <<dsvars, film, audio_on, chunk, at, call, playvars>>
  PROVE  EndingInv'
<1>1. UNCHANGED filevars /\ file_len' = film'.len
  BY DEF EndingInv, StreamStep, filevars
<1>2. ASSUME ~linear PROVE WayInv'
  <2>1. WayInv
    BY <1>2 DEF EndingInv
  <2>2. StreamInv /\ DemuxTypes /\ CallInv /\ (job = "forward" => linear)
    BY DEF FilmInv, DemuxInv, StreamInv, SeekInv
  <2>3. Cvid' = Cvid /\ Here' = Here /\ (Readable(chunk)' <=> Readable(chunk)) /\ (Full' <=> Full) /\ Total' = Total
    BY SameRoom DEF Cvid, Here, Readable, Total
  <2>4. at' = "fetch" => goal' = Here'.at /\ job' # "none"
    BY <2>1, <2>3 DEF WayInv, StreamStep, TransferStep, ForwardStep, SeekStep, Done
  <2>5. ASSUME at \in {"head", "tail", "whole"}, Readable(chunk) PROVE OnWay'
    <3>1. OnWay /\ chunk <= Total
      BY <2>1, <2>2, <2>5 DEF WayInv, CallInv, Reading
    <3>2. TransferStep
      BY <1>2, <2>2, <3>1 DEF StreamStep, ForwardStep, SeekStep, OnWay
    <3>3. QED BY <1>1, <1>2, <2>1, <2>2, <2>5, <3>1, <3>2, WayOn DEF EndingInv, WayInv
  <2>6. QED BY <2>1, <2>3, <2>4, <2>5 DEF WayInv
<1>3. linear' = linear
  BY <1>1 DEF filevars
<1>4. QED BY <1>1, <1>2, <1>3 DEF EndingInv

(* Where a read ends.                                                      *)
LEMMA ReturnsTo ==
  ASSUME NEW found \in BOOLEAN, Returns(found)
  PROVE  at' \in {"next", "idle", "loop", "eof"} /\ (at' = "eof" => ~found)
<1>1. CASE call.is = "next"
  BY <1>1 DEF Returns
<1>2. CASE call.is # "next"
  BY <1>2 DEF Returns
<1>3. QED BY <1>1, <1>2

(* The reads and the skip of a chunk begin where the last one ended.       *)
LEMMA FetchWay ==
  ASSUME FilmInv, Headed, EndingInv, ~linear, Fetch, UNCHANGED film
  PROVE  WayInv'
<1>1. chunk <= Total /\ WayInv /\ job = "done" /\ file_len = film.len /\ UNCHANGED chunk
  BY DEF FilmInv, DemuxInv, CallInv, Reading, Fetch, Goto, EndingInv
<1>2. /\ Here.at \in Nat /\ Here.size \in Nat /\ HeadBytes \in Nat /\ FixBytes \in Nat /\ film.len \in Nat
      /\ Cvid => HeadBytes + FixBytes <= Here.size
  BY <1>1, HereIs, PartFits DEF FilmInv, DemuxInv, WayInv
<1>3. /\ Here' = Here /\ (Cvid' <=> Cvid) /\ (Readable(chunk)' <=> Readable(chunk))
      /\ Readable(chunk) <=> Here.at + Here.size <= file_len
  BY <1>1 DEF Here, Cvid, Readable
<1>4. pos \in Nat /\ buf_pos \in Nat /\ buf_len \in Nat /\ Tell \in Int
  BY DEF FilmInv, StreamInv, StreamTypes, Tell
<1>5. ASSUME at = "fetch", Readable(chunk) PROVE Tell = Here.at \/ Here.size = 0
  <2>1. goal = Here.at /\ (IF ok THEN Tell = goal ELSE goal >= file_len)
    BY <1>1, <1>2, <1>5 DEF WayInv, FilmInv, StreamInv, SeekInv, SeekLands
  <2>2. QED BY <1>1, <1>2, <1>3, <1>5, <2>1
<1>6. CASE at = "fetch" /\ Plain /\ StartRead(Here.size) /\ Goto("whole")
  <2>1. /\ at' = "whole" /\ job' = "read" /\ left' = Here.size /\ Tell' = Tell
    BY <1>6 DEF StartRead, Start, Goto, streamvars, Tell
  <2>2. Readable(chunk) => OnWay'
    BY <1>2, <1>3, <1>5, <1>6, <2>1 DEF OnWay, PartEnd
  <2>3. QED BY <1>1, <1>3, <2>1, <2>2 DEF WayInv
<1>7. CASE at = "fetch" /\ Cvid /\ StartRead(HeadBytes) /\ Goto("head")
  <2>1. /\ at' = "head" /\ job' = "read" /\ left' = HeadBytes /\ Tell' = Tell
    BY <1>7 DEF StartRead, Start, Goto, streamvars, Tell
  <2>2. Readable(chunk) => OnWay'
    BY <1>2, <1>3, <1>5, <1>7, <2>1 DEF OnWay, PartEnd
  <2>3. QED BY <1>1, <1>3, <1>7, <2>1, <2>2 DEF WayInv
<1>8. CASE at = "head" /\ ok /\ StartSkip(FixBytes) /\ Goto("tail")
  <2>1. /\ at' = "tail" /\ job' = "skip" /\ left' = FixBytes /\ Tell' = Tell
    <3>1. ~(FixBytes > 2 * BlockSize)
      BY <1>2, BlockAssumption DEF BlockAssumption, Headed
    <3>2. QED BY <1>8, <3>1 DEF StartSkip, Start, Goto, streamvars, Tell
  <2>2. Cvid
    BY <1>1, <1>8 DEF WayInv
  <2>3. ASSUME Readable(chunk) PROVE OnWay'
    <3>1. Tell = Here.at + HeadBytes \/ Here.size = 0
      BY <1>1, <1>8, <2>3 DEF WayInv, OnWay, PartEnd
    <3>2. QED BY <1>2, <1>3, <1>4, <2>1, <2>2, <3>1 DEF OnWay, PartEnd
  <2>4. QED BY <1>1, <1>3, <2>1, <2>2, <2>3 DEF WayInv
<1>9. CASE at = "tail" /\ StartRead(Here.size - HeadBytes - FixBytes) /\ Goto("whole")
  <2>1. /\ at' = "whole" /\ job' = "read" /\ left' = Here.size - HeadBytes - FixBytes /\ Tell' = Tell
    BY <1>9 DEF StartRead, Start, Goto, streamvars, Tell
  <2>2. Cvid
    BY <1>1, <1>9 DEF WayInv
  <2>3. ASSUME Readable(chunk) PROVE OnWay'
    <3>1. Tell = Here.at + (HeadBytes + FixBytes) \/ Here.size = 0
      BY <1>1, <1>9, <2>3 DEF WayInv, OnWay, PartEnd
    <3>2. QED BY <1>2, <1>3, <1>4, <2>1, <2>2, <3>1 DEF OnWay, PartEnd
  <2>4. QED BY <1>1, <1>3, <2>1, <2>3 DEF WayInv
<1>10. QED BY <1>6, <1>7, <1>8, <1>9 DEF Fetch

(* The steps of demux_film_fill_buffer.                                    *)
LEMMA FillWay == ASSUME FilmInv, Headed, EndingInv, FilmFill PROVE EndingInv'
<1>1. UNCHANGED <<file_len, linear, film>>
  BY DEF FilmFill, Keep, filevars
<1>2. ASSUME ~linear PROVE WayInv'
  <2>1. WayInv
    BY <1>2 DEF EndingInv
  <2>2. CASE FilmEnd
    <3>1. at' \in {"next", "idle", "loop", "eof"} /\ chunk' > Total'
      BY <1>1, <2>2, ReturnsTo DEF FilmEnd, Total
    <3>2. QED BY <3>1 DEF WayInv
  <2>3. CASE Position
    <3>1. at' = "fetch" /\ goal' = Here.at /\ Here' = Here /\ job' # "none"
      BY <1>1, <2>3 DEF Position, Goto, StartSeek, SeekTo, SeekInside, SeekBlock, Done, Here
    <3>2. QED BY <3>1 DEF WayInv
  <2>4. CASE SkipAudio \/ Fetched
    <3>1. at' \in {"next", "idle", "loop"}
      BY <2>4, ReturnsTo DEF SkipAudio, Fetched
    <3>2. QED BY <3>1 DEF WayInv
  <2>5. CASE Fetch
    BY <1>1, <1>2, <2>5, FetchWay
  <2>6. CASE FetchFails
    <3>1. at' \in {"next", "idle", "loop", "eof"} /\ UNCHANGED chunk
      BY <2>6, ReturnsTo DEF FetchFails
    <3>2. ~Readable(chunk)
      BY <2>1, <2>6 DEF FetchFails, WayInv, OnWay
    <3>3. ~Readable(chunk)'
      BY <1>1, <3>1, <3>2 DEF Readable
    <3>4. QED BY <3>1, <3>3 DEF WayInv
  <2>7. QED BY <2>2, <2>3, <2>4, <2>5, <2>6 DEF FilmFill
<1>3. QED BY <1>1, <1>2 DEF EndingInv

(* Nothing of a chunk is read while a call is elsewhere.                   *)
LEMMA Elsewhere ==
  ASSUME EndingInv, UNCHANGED <<filevars, film>>, at' \notin {"fetch", "head", "tail", "whole"}, at' = "eof" => Full'
  PROVE  EndingInv'
  BY DEF EndingInv, WayInv, filevars

(* Every step of the model.                                                *)
LEMMA WaySteps == ASSUME Headed PROVE FilmInv /\ EndingInv /\ [Next]_vars => EndingInv'
<1> SUFFICES ASSUME FilmInv, EndingInv, [Next]_vars PROVE EndingInv'
  OBVIOUS
<1>1. CASE Opening
  <2>1. at' \in {"probe", "magic", "idle"} /\ UNCHANGED <<filevars, film>>
    BY <1>1 DEF Opening, ProbeNew, ProbeMore, Open, ReadMagic, Opened, Goto, Keep
  <2>2. QED BY <2>1, Elsewhere
<1>2. CASE FilmFill
  BY <1>2, FillWay
<1>3. CASE Demux
  <2>1. UNCHANGED <<filevars, film>>
    BY <1>3 DEF Demux, Keep
  <2>2. CASE FillLoop
    <3>1. at' \in {"eof", "film"} /\ (at' = "eof" => Full) /\ UNCHANGED dsvars
      BY <2>2 DEF FillLoop, Loop
    <3>2. QED BY <2>1, <3>1, SameRoom, Elsewhere
  <2>3. CASE FillTake \/ FillEof \/ NextStep \/ ReadStep
    <3>1. at' \in {"idle", "read", "film", "loop"}
      BY <2>3 DEF FillTake, FillEof, NextStep, ReadStep, Look, Goto
    <3>2. QED BY <2>1, <3>1, Elsewhere
  <2>4. QED BY <1>3, <2>2, <2>3 DEF Demux, Packets
<1>4. CASE StreamStep /\ UNCHANGED <<dsvars, film, audio_on, chunk, at, call, playvars>>
  BY <1>4, StreamWay
<1>5. CASE Ask \/ Seek
  <2>1. at' \in {"idle", "read", "next", "loop"} /\ UNCHANGED <<filevars, film>>
    BY <1>5 DEF Ask, Seek, Keep, Goto
  <2>2. QED BY <2>1, Elsewhere
<1>6. CASE UNCHANGED vars
  <2>1. UNCHANGED <<film, chunk, at, job, left, goal, ok, pos, buf_pos, buf_len, dsvars, file_len, linear>>
    BY <1>6 DEF vars, filevars, streamvars, jobvars
  <2>2. Here' = Here /\ (Cvid' <=> Cvid) /\ (Readable(chunk)' <=> Readable(chunk)) /\ Total' = Total
        /\ (Full' <=> Full) /\ Tell' = Tell
    BY <2>1, SameRoom DEF Here, Cvid, Readable, Total, Tell
  <2>3. PartEnd' = PartEnd
    BY <2>1, <2>2 DEF PartEnd
  <2>4. OnWay' <=> OnWay
    BY <2>1, <2>2, <2>3 DEF OnWay
  <2>5. QED BY <2>1, <2>2, <2>4 DEF EndingInv, WayInv
<1>7. QED BY <1>1, <1>2, <1>3, <1>4, <1>5, <1>6 DEF Next, Work

(* A stream is ended only if the file has no more of it that can be read,  *)
(* or if there was no room (ds_fill_buffer, demux_film_fill_buffer), in    *)
(* every film whose cvid headers fit in their chunks.                      *)
THEOREM StreamEndIsHonestCorrect == ASSUME Headed PROVE Spec => StreamEndIsHonest
<1>1. Init => EndingInv
  BY DEF Init, EndingInv, WayInv
<1>2. FilmInv /\ EndingInv /\ [Next]_vars =>
        [\A ds \in Streams : eof'[ds] /\ ~eof[ds] /\ ~linear =>
           Full \/ \A c \in chunk .. Total : film.chunks[c].of = ds => \E b \in chunk .. c : ~Readable(b)]_vars
  <2> SUFFICES ASSUME FilmInv, EndingInv, Next, NEW ds \in Streams, eof'[ds], ~eof[ds], ~linear, ~Full,
                      NEW c \in chunk .. Total
               PROVE  \E b \in chunk .. c : ~Readable(b)
    OBVIOUS
  <2>1. at = "eof"
    <3>1. eof' # eof
      OBVIOUS
    <3>2. CASE Opening \/ (StreamStep /\ UNCHANGED <<dsvars, film, audio_on, chunk, at, call, playvars>>)
      BY <3>1, <3>2 DEF Opening, dsvars
    <3>3. CASE FilmFill
      BY <3>1, <3>3 DEF FilmFill, FilmEnd, Position, SkipAudio, Fetch, FetchFails, Fetched, Add, dsvars
    <3>4. CASE Demux
      BY <3>1, <3>4 DEF Demux, Packets, ReadStep, FillLoop, FillTake, FillEof, NextStep, HandOut, Read, Release, Take, dsvars
    <3>5. CASE Ask
      BY <3>1, <3>5 DEF Ask, Release, dsvars
    <3>6. CASE Seek
      <4>1. eof' = [d \in Streams |-> FALSE]
        BY <3>6 DEF Seek, Flush
      <4>2. QED BY <4>1
    <3>7. QED BY <3>2, <3>3, <3>4, <3>5, <3>6 DEF Next, Work
  <2>2. chunk \in Nat /\ Total \in Nat
    BY ChunkFacts DEF FilmInv, DemuxInv, DemuxTypes
  <2>3. ~Readable(chunk)
    BY <2>1, <2>2 DEF EndingInv, WayInv
  <2>4. chunk \in chunk .. c
    BY <2>2
  <2>5. QED BY <2>3, <2>4
<1>3. FilmInv /\ EndingInv /\ [Next]_vars => EndingInv'
  BY WaySteps
<1>4. QED BY <1>1, <1>2, <1>3, FilmInvariant, PTL DEF Spec, StreamEndIsHonest
-----------------------------------------------------------------------------
(* No chunk begins behind the end of the file but in its last block: the   *)
(* buffer would keep that block when the seek has failed.                  *)
Clear ==
  \A f \in Films : \A c \in 1 .. Len(f.chunks) :
    f.chunks[c].at <= f.len \/ (f.chunks[c].at \div BlockSize) * BlockSize >= f.len

(* The byte of the file that the i-th of a packet of chunk c is, and how   *)
(* many such a packet has room for.                                        *)
IsCvid(f, c) == f.cvid /\ f.chunks[c].of = "video"
ByteOf(f, c, i) == f.chunks[c].at + (i - 1) + (IF IsCvid(f, c) /\ i > HeadBytes THEN FixBytes ELSE 0)
Room(f, c) == f.chunks[c].size - (IF IsCvid(f, c) THEN FixBytes ELSE 0)

(* The first bytes of the packet of chunk c, as many as s has.             *)
FirstBytes(f, c, s) == Len(s) <= Room(f, c) /\ \A i \in 1 .. Len(s) : s[i] = ByteOf(f, c, i)

(* The stream is at the end, and has given all that it had.                *)
Stuck == fd >= file_len /\ buf_len = buf_pos

(* What is cut from the chunk before the part, and how many bytes of the   *)
(* packet there are after it.                                              *)
Cut    == IF at = "whole" /\ Cvid THEN FixBytes ELSE 0
Wanted == IF at = "whole" THEN Room(film, chunk) ELSE HeadBytes

(* The bytes read are those of the chunk, from the first; the stream is at *)
(* the next one, and what is left are those up to the end of the part.     *)
Placed ==
  IF at = "tail"
  THEN /\ Len(got) = HeadBytes
       /\ \/ job = "skip" /\ Tell + left = Here.at + HeadBytes + FixBytes
          \/ job = "done" /\ Tell = Here.at + HeadBytes + FixBytes
  ELSE /\ Tell = Here.at + Cut + Len(got)
       /\ at = "whole" /\ Cvid => Len(got) >= HeadBytes
       /\ \/ job = "read" /\ left + Len(got) = Wanted
          \/ job = "done" /\ Len(got) = Wanted

FetchInv ==
  /\ got = <<>>
  /\ job = "seek" => buf_len = 0 /\ buf_pos = 0 /\ pos = (goal \div BlockSize) * BlockSize
  /\ job = "done" => ok \/ Stuck

PartInv ==
  /\ job \in {"read", "skip", "done"}
  /\ Len(got) <= Wanted /\ FirstBytes(film, chunk, got)
  /\ Stuck \/ Placed

DataInv == ~linear => (at = "fetch" => FetchInv) /\ (at \in {"head", "tail", "whole"} => PartInv)

(* Every packet in a list or in hand has the first bytes of its chunk.     *)
Of(f, p) == p.no \in 1 .. Len(f.chunks) /\ FirstBytes(f, p.no, p.data)
ListInv ==
  ~linear => \A ds \in Streams : /\ \A i \in 1 .. Len(queue[ds]) : Of(film, queue[ds][i])
                                 /\ current[ds] # None => Of(film, current[ds])

(* A place lies less than a block behind the start of its block.           *)
LEMMA InBlock ==
  ASSUME NEW t \in Nat, NEW n \in Nat \ {0}
  PROVE  t - (t \div n) * n \in Nat /\ t - (t \div n) * n < n
<1>1. t \div n \in Nat /\ t = n * (t \div n) + (t % n) /\ t % n \in 0 .. n - 1
  OBVIOUS
<1>2. QED BY <1>1

(* What a step leaves of the chunk that is being read.                     *)
LEMMA SameChunk ==
  ASSUME UNCHANGED <<film, chunk, at>>
  PROVE  /\ Here' = Here /\ (Cvid' <=> Cvid) /\ Cut' = Cut /\ Wanted' = Wanted
         /\ \A s : FirstBytes(film, chunk, s)' <=> FirstBytes(film, chunk, s)
  BY DEF Here, Cvid, Cut, Wanted, FirstBytes, Room, ByteOf, IsCvid

(* How many bytes there are in the chunk at the place of the demuxer.      *)
LEMMA RoomIs ==
  ASSUME Headed, DemuxTypes, chunk <= Total, at \in {"head", "tail"} => Cvid
  PROVE  /\ Room(film, chunk) \in Nat
         /\ at \in {"head", "tail", "whole"} => Wanted \in Nat /\ Wanted <= Room(film, chunk) /\ Cut \in Nat
         /\ Room(film, chunk) = Here.size - (IF Cvid THEN FixBytes ELSE 0)
         /\ Cvid => HeadBytes <= Room(film, chunk)
         /\ \A i \in Nat \ {0} :
              ByteOf(film, chunk, i) = Here.at + (i - 1) + (IF Cvid /\ i > HeadBytes THEN FixBytes ELSE 0)
<1>1. /\ Here.at \in Nat /\ Here.size \in Nat /\ HeadBytes \in Nat /\ FixBytes \in Nat /\ Here = film.chunks[chunk]
      /\ Cvid => HeadBytes + FixBytes <= Here.size
  BY HereIs, PartFits
<1>2. Cvid <=> IsCvid(film, chunk)
  BY <1>1 DEF Cvid, IsCvid
<1>3. Room(film, chunk) = Here.size - (IF Cvid THEN FixBytes ELSE 0)
  BY <1>1, <1>2 DEF Room
<1>4. Room(film, chunk) \in Nat /\ (Cvid => HeadBytes <= Room(film, chunk))
  BY <1>1, <1>3
<1>5. ASSUME at \in {"head", "tail", "whole"} PROVE Wanted \in Nat /\ Wanted <= Room(film, chunk) /\ Cut \in Nat
  <2>1. CASE at = "whole"
    BY <1>1, <1>4, <2>1 DEF Wanted, Cut
  <2>2. CASE at # "whole" /\ Cvid
    BY <1>1, <1>4, <2>2 DEF Wanted, Cut
  <2>3. QED BY <1>5, <2>1, <2>2
<1>6. QED BY <1>1, <1>2, <1>3, <1>4, <1>5 DEF ByteOf

(* A read goes on with the bytes of the chunk that follow those it has.    *)
LEMMA BytesGoOn ==
  ASSUME StreamInv, DataInv, ~linear, Headed, DemuxTypes, chunk <= Total, at \in {"head", "tail"} => Cvid,
         at \in {"head", "whole"}, job = "read", Placed,
         NEW x \in Nat, x > 0, x <= buf_len - buf_pos, x <= left,
         NEW s, s = got \o [i \in 1 .. x |-> base + buf_pos + i - 1]
  PROVE  Len(s) = Len(got) + x /\ Len(s) <= Wanted /\ FirstBytes(film, chunk, s)
<1>1. /\ pos \in Nat /\ buf_pos \in Nat /\ buf_len \in Nat /\ left \in Int /\ base \in Int
      /\ got \in Seq(Int) /\ base = pos - buf_len
  BY DEF StreamInv, StreamTypes, BufferInv
<1>2. /\ Tell = Here.at + Cut + Len(got) /\ left + Len(got) = Wanted
      /\ at = "whole" /\ Cvid => Len(got) >= HeadBytes
  BY DEF Placed
<1>3. /\ Room(film, chunk) \in Nat /\ Wanted \in Nat /\ Wanted <= Room(film, chunk) /\ Cut \in Nat
      /\ \A i \in Nat \ {0} :
              ByteOf(film, chunk, i) = Here.at + (i - 1) + (IF Cvid /\ i > HeadBytes THEN FixBytes ELSE 0)
  BY RoomIs
<1>4. Here.at \in Nat /\ HeadBytes \in Nat /\ FixBytes \in Nat /\ Len(got) \in Nat
  BY <1>1, HereIs, LenProperties
<1> DEFINE r == [i \in 1 .. x |-> base + buf_pos + i - 1]
<1>5. r \in Seq(Int) /\ Len(r) = x /\ \A i \in 1 .. x : r[i] = Tell + (i - 1)
  BY <1>1 DEF Tell
<1> HIDE DEF r
<1>6. /\ Len(s) = Len(got) + x
      /\ \A i \in 1 .. Len(got) + x : s[i] = IF i <= Len(got) THEN got[i] ELSE r[i - Len(got)]
  BY <1>1, <1>5, ConcatProperties DEF r
<1>10. PICK g \in Nat, w \in Nat, c \in Nat, a \in Nat, y \in Nat, l \in Nat :
         g = Len(got) /\ w = Wanted /\ c = Cut /\ a = Here.at /\ y = x /\ l = Len(s)
  <2>1. Len(s) \in Nat
    BY <1>4, <1>6
  <2>2. \E l \in Nat : l = Len(s)
    BY <2>1
  <2>3. QED BY <1>3, <1>4, <2>2
<1>11. l = g + y /\ left + g = w /\ y <= left /\ Tell = a + c + g
  BY <1>2, <1>6, <1>10
<1>7. l <= w
  BY <1>1, <1>10, <1>11
<1>8. ASSUME NEW i \in 1 .. l PROVE s[i] = ByteOf(film, chunk, i)
  <2>1. i \in Nat \ {0} /\ i <= w /\ i <= g + y
    BY <1>7, <1>10, <1>11
  <2>2. CASE i <= g
    <3>1. i \in 1 .. g
      BY <2>1, <2>2
    <3>2. s[i] = got[i]
      BY <1>6, <1>10, <2>1, <2>2
    <3>3. QED BY <1>10, <3>1, <3>2 DEF DataInv, PartInv, FirstBytes
  <2>3. CASE i > g
    <3>1. i - g \in 1 .. y /\ ~(i <= g) /\ i \in 1 .. g + y
      BY <2>1, <2>3
    <3>2. s[i] = r[i - g]
      BY <1>6, <1>10, <3>1
    <3>3. s[i] = a + c + g + (i - g - 1)
      BY <1>5, <1>10, <1>11, <3>1, <3>2
    <3>7. a + c + g + (i - g - 1) = a + (i - 1) + c
      BY <2>1
    <3>4. s[i] = a + (i - 1) + c
      BY <3>3, <3>7
    <3>5. c = IF Cvid /\ i > HeadBytes THEN FixBytes ELSE 0
      BY <1>2, <1>4, <1>10, <2>1, <2>3 DEF Cut, Wanted
    <3>6. QED BY <1>3, <1>10, <2>1, <3>4, <3>5
  <2>4. i <= g \/ i > g
    BY <2>1
  <2>5. QED BY <2>2, <2>3, <2>4
<1>12. l <= Room(film, chunk)
  BY <1>3, <1>7, <1>10
<1>9. QED BY <1>6, <1>7, <1>8, <1>10, <1>12 DEF FirstBytes

(* A step of a read or of a skip leaves the bytes read those of the chunk. *)
LEMMA PartOn ==
  ASSUME StreamInv, DataInv, ~linear, Headed, DemuxTypes, chunk <= Total, at \in {"head", "tail"} => Cvid,
         at \in {"head", "tail", "whole"}, TransferStep, UNCHANGED <<film, chunk, at, filevars>>
  PROVE  PartInv'
<1>1. PartInv /\ UNCHANGED file_len
  BY DEF DataInv, filevars
<1>2. /\ Here' = Here /\ (Cvid' <=> Cvid) /\ Cut' = Cut /\ Wanted' = Wanted /\ at' = at
      /\ \A s : FirstBytes(film, chunk, s)' <=> FirstBytes(film, chunk, s)
  BY SameChunk
<1>3. /\ pos \in Nat /\ fd \in Nat /\ buf_pos \in Nat /\ buf_len \in Nat /\ left \in Int /\ file_len \in Nat /\ pos = fd
      /\ got \in Seq(Int) /\ Len(got) \in Nat /\ Tell \in Int
  BY LenProperties DEF StreamInv, StreamTypes, PlaceInv, Tell
<1>4. Wanted \in Nat /\ Cut \in Nat /\ Here.at \in Nat /\ HeadBytes \in Nat /\ FixBytes \in Nat
  BY RoomIs, HereIs
<1>5. UNCHANGED got => Len(got') <= Wanted' /\ FirstBytes(film, chunk, got)'
  <2>1. ASSUME UNCHANGED got PROVE FirstBytes(film, chunk, got)' <=> FirstBytes(film, chunk, got)
    BY <2>1 DEF FirstBytes, Room, ByteOf, IsCvid
  <2>2. QED BY <1>1, <1>2, <2>1 DEF PartInv
<1> DEFINE x == MinOf(buf_len - buf_pos, left)
<1>6. CASE left = 0 /\ Done(TRUE) /\ UNCHANGED <<streamvars, got>>
  <2>1. /\ job' = "done" /\ left' = 0 /\ Tell' = Tell /\ UNCHANGED <<got, fd, buf_len, buf_pos>>
    BY <1>6 DEF Done, Tell, streamvars
  <2>2. Stuck => Stuck'
    BY <1>1, <2>1 DEF Stuck
  <2>3. Placed => Placed'
    BY <1>2, <1>3, <1>4, <1>6, <2>1 DEF Placed
  <2>4. QED BY <1>1, <1>5, <2>1, <2>2, <2>3 DEF PartInv
<1>7. CASE /\ x > 0 /\ buf_pos' = buf_pos + x /\ left' = left - x
           /\ got' = IF job = "read" THEN got \o [i \in 1 .. x |-> base + buf_pos + i - 1] ELSE got
           /\ UNCHANGED <<job, ok, pos, seof, buf_len, fd, base>>
  <2>1. x \in Nat /\ x <= buf_len - buf_pos /\ x <= left
    BY <1>3, <1>7 DEF MinOf
  <2> HIDE DEF x
  <2>2. Placed /\ job \in {"read", "skip"}
    BY <1>1, <1>3, <1>7, <2>1 DEF Stuck, PartInv, TransferStep
  <2>3. Tell' = Tell + x
    BY <1>3, <1>7, <2>1 DEF Tell
  <2>4. CASE at = "tail"
    <3>1. job = "skip" /\ got' = got
      BY <1>7, <2>2, <2>4 DEF Placed
    <3>2. Tell' + left' = Tell + left
      BY <1>3, <1>7, <2>1, <2>3
    <3>3. Placed'
      BY <1>2, <1>3, <1>4, <1>7, <2>2, <2>4, <3>1, <3>2 DEF Placed
    <3>4. QED BY <1>1, <1>5, <1>7, <3>1, <3>3 DEF PartInv
  <2>5. CASE at # "tail"
    <3>1. job = "read" /\ got' = got \o [i \in 1 .. x |-> base + buf_pos + i - 1]
      BY <1>7, <2>2, <2>5 DEF Placed
    <3>2. PICK s : s = got \o [i \in 1 .. x |-> base + buf_pos + i - 1]
      OBVIOUS
    <3>3. Len(s) = Len(got) + x /\ Len(s) <= Wanted /\ FirstBytes(film, chunk, s)
      BY <1>7, <2>1, <2>2, <2>5, <3>1, <3>2, BytesGoOn
    <3>4. got' = s /\ FirstBytes(film, chunk, s)'
      BY <1>2, <3>1, <3>2, <3>3
    <3>5. FirstBytes(film, chunk, got)'
      BY <3>4 DEF FirstBytes
    <3>6. Len(got') = Len(got) + x /\ left' + Len(got') = left + Len(got)
      BY <1>3, <1>7, <2>1, <3>3, <3>4
    <3>7. Placed'
      <4>1. /\ Tell = Here.at + Cut + Len(got) /\ (at = "whole" /\ Cvid => Len(got) >= HeadBytes)
            /\ left + Len(got) = Wanted
        BY <2>2, <2>5, <3>1 DEF Placed
      <4>2. Tell' = Here.at + Cut + Len(got')
        BY <1>3, <1>4, <2>1, <2>3, <3>6, <4>1
      <4>3. at = "whole" /\ Cvid => Len(got') >= HeadBytes
        BY <1>3, <1>4, <2>1, <3>6, <4>1
      <4>4. QED BY <1>2, <1>7, <2>5, <3>1, <3>6, <4>1, <4>2, <4>3 DEF Placed
    <3>8. QED BY <1>2, <1>7, <3>1, <3>3, <3>4, <3>5, <3>7 DEF PartInv
  <2>6. QED BY <2>4, <2>5
<1>8. CASE left > 0 /\ buf_len = buf_pos /\ UNCHANGED got /\ \E n \in Lengths : Fill(n) /\ UNCHANGED <<job, left, ok>>
  <2>1. PICK n \in Lengths : Fill(n) /\ UNCHANGED <<job, left, ok>>
    BY <1>8
  <2>2. n \in Nat /\ fd < file_len
    BY PullStep
  <2>3. Tell' = Tell
    BY <1>3, <1>8, <2>1, <2>2 DEF Tell, Fill, Pull
  <2>4. Placed
    BY <1>1, <1>3, <2>2 DEF Stuck, PartInv
  <2>5. Placed'
    BY <1>2, <1>8, <2>1, <2>3, <2>4 DEF Placed
  <2>6. QED BY <1>1, <1>5, <1>8, <2>1, <2>5 DEF PartInv
<1>9. CASE left > 0 /\ buf_len = buf_pos /\ UNCHANGED got /\ FillEnds /\ Done(FALSE)
  <2>1. Stuck' /\ job' = "done"
    BY <1>1, <1>9 DEF Stuck, FillEnds, Done
  <2>2. QED BY <1>5, <1>9, <2>1 DEF PartInv
<1>10. QED BY <1>6, <1>7, <1>8, <1>9 DEF TransferStep

(* A seek of a film that is Clear ends at its place or gives nothing.      *)
LEMMA FetchOn ==
  ASSUME StreamInv, DataInv, ~linear, Clear, DemuxTypes, chunk <= Total, file_len = film.len,
         at = "fetch", goal = Here.at, SeekStep, UNCHANGED <<film, chunk, at, filevars>>
  PROVE  FetchInv'
<1>1. /\ job = "seek" /\ got' = <<>> /\ UNCHANGED <<goal, file_len>>
      /\ buf_len = 0 /\ buf_pos = 0 /\ pos = (goal \div BlockSize) * BlockSize
  BY DEF SeekStep, DataInv, FetchInv, filevars
<1>2. /\ pos \in Nat /\ fd \in Nat /\ left \in Nat /\ goal \in Nat /\ pos + left = goal /\ pos = fd
      /\ file_len \in Nat /\ BlockSize \in Nat \ {0}
  BY <1>1, BlockAssumption DEF BlockAssumption, StreamInv, StreamTypes, PlaceInv, SeekInv
<1>3. left < BlockSize
  <2>1. goal - (goal \div BlockSize) * BlockSize < BlockSize
    BY <1>2, InBlock
  <2>2. QED BY <1>1, <1>2, <2>1
<1>4. goal <= file_len \/ pos >= file_len
  <2>1. chunk \in 1 .. Len(film.chunks) /\ Here = film.chunks[chunk] /\ film \in Films
    BY HereIs DEF Total
  <2>2. QED BY <1>1, <2>1 DEF Clear
<1>5. ASSUME NEW n \in Lengths PROVE left <= n
  <2>1. fd < file_len
    BY PullStep
  <2>2. n = MinOf(BlockSize, file_len - fd)
    BY <1>2 DEF Lengths, MinOf
  <2>3. QED BY <1>2, <1>3, <1>4, <2>1, <2>2 DEF MinOf
<1>6. CASE \E n \in Lengths : left <= n /\ Done(TRUE)
  BY <1>1, <1>6 DEF FetchInv, Done
<1>7. CASE FillEnds /\ Done(FALSE)
  BY <1>1, <1>7 DEF FetchInv, Done, FillEnds, Stuck
<1>8. QED BY <1>5, <1>6, <1>7 DEF SeekStep

(* Every part begins where the last one ended.                             *)
LEMMA PartBegins ==
  ASSUME FilmInv, Headed, EndingInv, DataInv, ~linear, Fetch, UNCHANGED <<film, file_len>>
  PROVE  PartInv' /\ at' \in {"head", "tail", "whole"}
<1>1. /\ chunk <= Total /\ WayInv /\ job = "done" /\ UNCHANGED chunk
      /\ DemuxTypes /\ StreamInv /\ (at \in {"head", "tail"} => Cvid)
  BY DEF FilmInv, DemuxInv, CallInv, Reading, Fetch, Goto, EndingInv, WayInv
<1>2. /\ Here.at \in Nat /\ Here.size \in Nat /\ HeadBytes \in Nat /\ FixBytes \in Nat
      /\ Room(film, chunk) \in Nat /\ (Cvid => HeadBytes <= Room(film, chunk))
      /\ Room(film, chunk) = Here.size - (IF Cvid THEN FixBytes ELSE 0)
  BY <1>1, HereIs, RoomIs
<1>3. /\ Here' = Here /\ (Cvid' <=> Cvid)
      /\ Wanted' = (IF at' = "whole" THEN Room(film, chunk) ELSE HeadBytes)
      /\ Cut' = (IF at' = "whole" /\ Cvid THEN FixBytes ELSE 0)
  BY <1>1 DEF Here, Cvid, Wanted, Cut, Room, IsCvid
<1>4. Tell \in Int /\ got \in Seq(Int) /\ Len(got) \in Nat
  BY <1>1, LenProperties DEF StreamInv, StreamTypes, Tell
<1>5. ASSUME NEW what, NEW n, Start(what, n)
      PROVE  /\ got' = got /\ Tell' = Tell /\ job' = what /\ left' = n /\ (Stuck => Stuck')
             /\ FirstBytes(film, chunk, got)' <=> FirstBytes(film, chunk, got)
  BY <1>1, <1>5 DEF Start, streamvars, Tell, Stuck, FirstBytes, Room, ByteOf, IsCvid
<1>6. ASSUME at = "fetch" PROVE got = <<>> /\ Len(got) = 0 /\ FirstBytes(film, chunk, got) /\ (Stuck \/ Tell = Here.at)
  <2>1. got = <<>> /\ (ok \/ Stuck) /\ goal = Here.at
    BY <1>1, <1>6 DEF DataInv, FetchInv, WayInv
  <2>2. Len(got) = 0
    BY <2>1, EmptySeq
  <2>3. ok => Tell = goal
    BY <1>1, <1>2, <2>1 DEF StreamInv, SeekInv, SeekLands
  <2>4. QED BY <1>2, <2>1, <2>2, <2>3 DEF FirstBytes
<1>7. CASE at = "fetch" /\ Plain /\ StartRead(Here.size) /\ Goto("whole")
  <2>1. at' = "whole" /\ ~Cvid
    BY <1>7 DEF Goto, Plain
  <2>2. /\ got' = got /\ Tell' = Tell /\ job' = "read" /\ left' = Here.size /\ (Stuck => Stuck')
        /\ FirstBytes(film, chunk, got)' <=> FirstBytes(film, chunk, got)
    BY <1>5, <1>7 DEF StartRead
  <2>3. Tell = Here.at => Placed'
    BY <1>2, <1>3, <1>6, <1>7, <2>1, <2>2 DEF Placed
  <2>4. QED BY <1>2, <1>3, <1>6, <1>7, <2>1, <2>2, <2>3 DEF PartInv
<1>8. CASE at = "fetch" /\ Cvid /\ StartRead(HeadBytes) /\ Goto("head")
  <2>1. at' = "head"
    BY <1>8 DEF Goto
  <2>2. /\ got' = got /\ Tell' = Tell /\ job' = "read" /\ left' = HeadBytes /\ (Stuck => Stuck')
        /\ FirstBytes(film, chunk, got)' <=> FirstBytes(film, chunk, got)
    BY <1>5, <1>8 DEF StartRead
  <2>3. Tell = Here.at => Placed'
    BY <1>2, <1>3, <1>6, <1>8, <2>1, <2>2 DEF Placed
  <2>4. QED BY <1>2, <1>3, <1>6, <1>8, <2>1, <2>2, <2>3 DEF PartInv
<1>9. CASE at = "head" /\ ok /\ StartSkip(FixBytes) /\ Goto("tail")
  <2>1. at' = "tail" /\ Start("skip", FixBytes)
    <3>1. ~(FixBytes > 2 * BlockSize)
      BY <1>2, BlockAssumption DEF BlockAssumption, Headed
    <3>2. QED BY <1>9, <3>1 DEF StartSkip, Goto
  <2>2. /\ got' = got /\ Tell' = Tell /\ job' = "skip" /\ left' = FixBytes /\ (Stuck => Stuck')
        /\ FirstBytes(film, chunk, got)' <=> FirstBytes(film, chunk, got)
    BY <1>5, <2>1
  <2>3. PartInv /\ Wanted = HeadBytes /\ Cut = 0
    BY <1>9 DEF DataInv, Wanted, Cut
  <2>4. Placed => Placed'
    <3>1. ASSUME Placed PROVE Len(got) = HeadBytes /\ Tell = Here.at + HeadBytes
      BY <1>1, <1>2, <1>4, <1>9, <2>3, <3>1 DEF Placed
    <3>2. QED BY <1>2, <1>3, <1>4, <2>1, <2>2, <3>1 DEF Placed
  <2>5. QED BY <1>3, <2>1, <2>2, <2>3, <2>4 DEF PartInv
<1>10. CASE at = "tail" /\ StartRead(Here.size - HeadBytes - FixBytes) /\ Goto("whole")
  <2>1. at' = "whole" /\ Cvid
    BY <1>1, <1>10 DEF Goto
  <2>2. /\ got' = got /\ Tell' = Tell /\ job' = "read" /\ left' = Here.size - HeadBytes - FixBytes /\ (Stuck => Stuck')
        /\ FirstBytes(film, chunk, got)' <=> FirstBytes(film, chunk, got)
    BY <1>5, <1>10 DEF StartRead
  <2>3. PartInv /\ Wanted = HeadBytes /\ Wanted' = Room(film, chunk) /\ Cut' = FixBytes
    BY <1>3, <1>10, <2>1 DEF DataInv, Wanted
  <2>4. Placed => Placed'
    <3>1. ASSUME Placed PROVE Len(got) = HeadBytes /\ Tell = Here.at + HeadBytes + FixBytes
      BY <1>1, <1>10, <3>1 DEF Placed
    <3>2. QED BY <1>2, <1>3, <1>4, <2>1, <2>2, <2>3, <3>1 DEF Placed
  <2>5. Len(got) <= Wanted'
    BY <1>2, <1>4, <2>1, <2>3 DEF PartInv
  <2>6. QED BY <1>3, <2>1, <2>2, <2>3, <2>4, <2>5 DEF PartInv
<1>11. QED BY <1>7, <1>8, <1>9, <1>10 DEF Fetch, Goto

(* The seek to a chunk begins with an empty buffer, or ends at once.       *)
LEMMA SeekBegins ==
  ASSUME StreamInv, ~linear, NEW t \in Nat, StartSeek(t) PROVE FetchInv'
<1> DEFINE block == (t \div BlockSize) * BlockSize
<1>1. got' = <<>> /\ goal' = t
  BY DEF StartSeek, SeekTo
<1>2. CASE SeekInside(t)
  BY <1>1, <1>2 DEF SeekInside, FetchInv, Done
<1>3. CASE SeekBlock(t)
  <2>1. buf_len' = 0 /\ buf_pos' = 0 /\ job' = "seek" /\ pos' = block
    BY <1>3 DEF SeekBlock
  <2>2. QED BY <1>1, <2>1 DEF FetchInv
<1>4. QED BY <1>2, <1>3 DEF StartSeek, SeekTo

(* A step that changes nothing of what is read.                            *)
LEMMA SameData ==
  ASSUME DataInv, UNCHANGED <<film, chunk, at, filevars, streamvars, jobvars>> PROVE DataInv'
<1>1. /\ Here' = Here /\ (Cvid' <=> Cvid) /\ Cut' = Cut /\ Wanted' = Wanted /\ Tell' = Tell /\ (Stuck' <=> Stuck)
      /\ UNCHANGED <<got, job, ok, left, goal, pos, buf_pos, buf_len, linear, at>>
  BY SameChunk DEF filevars, streamvars, jobvars, Tell, Stuck
<1>2. FirstBytes(film, chunk, got)' <=> FirstBytes(film, chunk, got)
  BY <1>1 DEF FirstBytes, Room, ByteOf, IsCvid
<1>3. Placed' <=> Placed
  BY <1>1 DEF Placed
<1>4. FetchInv' <=> FetchInv
  BY <1>1 DEF FetchInv
<1>5. QED BY <1>1, <1>2, <1>3, <1>4 DEF DataInv, PartInv

(* Every step of the model, for the bytes that are read, ...               *)
LEMMA DataSteps == ASSUME Headed, Clear PROVE FilmInv /\ EndingInv /\ DataInv /\ [Next]_vars => DataInv'
<1> SUFFICES ASSUME FilmInv, EndingInv, DataInv, [Next]_vars, ~linear' PROVE DataInv'
  BY DEF DataInv
<1>1. UNCHANGED filevars /\ ~linear /\ UNCHANGED <<file_len, film>>
  <2>1. UNCHANGED filevars /\ UNCHANGED film
    BY DEF Next, Work, Opening, FilmFill, Demux, Ask, Seek, StreamStep, Keep, vars
  <2>2. QED BY <2>1 DEF filevars
<1>2. /\ StreamInv /\ DemuxTypes /\ CallInv /\ WayInv /\ file_len = film.len
      /\ job = "forward" => linear
  BY <1>1 DEF FilmInv, DemuxInv, EndingInv, StreamInv, SeekInv
<1>3. CASE at' \notin {"fetch", "head", "tail", "whole"}
  BY <1>3 DEF DataInv
<1>4. CASE Opening
  <2>1. at' \in {"probe", "magic", "idle"}
    BY <1>4 DEF Opening, ProbeNew, ProbeMore, Open, ReadMagic, Opened, Goto
  <2>2. QED BY <1>3, <2>1
<1>5. CASE FilmFill
  <2>1. CASE FilmEnd \/ SkipAudio \/ FetchFails \/ Fetched
    <3>1. at' \in {"next", "idle", "loop", "eof"}
      BY <2>1, ReturnsTo DEF FilmEnd, SkipAudio, FetchFails, Fetched
    <3>2. QED BY <1>3, <3>1
  <2>2. CASE Position
    <3>1. chunk <= Total /\ StartSeek(Here.at) /\ at' = "fetch"
      BY <2>2 DEF Position, Goto
    <3>2. Here.at \in Nat
      BY <1>2, <3>1, HereIs
    <3>3. FetchInv'
      BY <1>1, <1>2, <3>1, <3>2, SeekBegins
    <3>4. QED BY <3>1, <3>3 DEF DataInv
  <2>3. CASE Fetch
    BY <1>1, <2>3, PartBegins DEF DataInv
  <2>4. QED BY <1>5, <2>1, <2>2, <2>3 DEF FilmFill
<1>6. CASE Demux
  <2>1. at' \in {"idle", "read", "film", "loop", "eof"}
    BY <1>6 DEF Demux, Packets, FillLoop, Loop, FillTake, FillEof, NextStep, ReadStep, Look, Goto
  <2>2. QED BY <1>3, <2>1
<1>7. CASE StreamStep /\ UNCHANGED <<dsvars, film, audio_on, chunk, at, call, playvars>>
  <2>1. CASE at = "fetch"
    <3>1. goal = Here.at /\ chunk <= Total /\ at' = "fetch"
      BY <1>2, <1>7, <2>1 DEF WayInv, CallInv, Reading
    <3>2. goal \in Nat /\ job \notin {"read", "skip"}
      <4>1. Here.at \in Nat
        BY <1>2, <3>1, HereIs
      <4>2. QED BY <1>2, <3>1, <4>1 DEF StreamInv, SeekInv
    <3>3. SeekStep
      BY <1>1, <1>2, <1>7, <3>2 DEF StreamStep, TransferStep, ForwardStep
    <3>4. FetchInv'
      BY <1>1, <1>2, <1>7, <2>1, <3>1, <3>3, FetchOn
    <3>5. QED BY <3>1, <3>4 DEF DataInv
  <2>2. CASE at \in {"head", "tail", "whole"}
    <3>1. PartInv /\ chunk <= Total /\ (at \in {"head", "tail"} => Cvid) /\ at' = at
      BY <1>1, <1>2, <1>7, <2>2 DEF DataInv, CallInv, Reading, WayInv
    <3>2. TransferStep
      BY <1>7, <3>1 DEF PartInv, StreamStep, ForwardStep, SeekStep
    <3>3. PartInv'
      BY <1>1, <1>2, <1>7, <2>2, <3>1, <3>2, PartOn
    <3>4. QED BY <2>2, <3>1, <3>3 DEF DataInv
  <2>3. CASE at \notin {"fetch", "head", "tail", "whole"}
    BY <1>3, <1>7, <2>3
  <2>4. QED BY <2>1, <2>2, <2>3
<1>8. CASE Ask \/ Seek
  <2>1. at' \in {"idle", "read", "next", "loop"}
    BY <1>8 DEF Ask, Seek, Goto
  <2>2. QED BY <1>3, <2>1
<1>9. CASE UNCHANGED vars
  BY <1>9, SameData DEF vars
<1>10. QED BY <1>4, <1>5, <1>6, <1>7, <1>8, <1>9 DEF Next, Work

(* What is done to the lists.                                              *)
LEMMA ListsAre ==
  ASSUME UNCHANGED <<film, filevars>>,
         ~linear => \A ds \in Streams : /\ \A i \in 1 .. Len(queue'[ds]) : Of(film, queue'[ds][i])
                                        /\ current'[ds] # None => Of(film, current'[ds])
  PROVE  ListInv'
<1>1. UNCHANGED film /\ linear' = linear
  BY DEF filevars
<1>2. QED BY <1>1 DEF ListInv

LEMMA SameLists == ASSUME ListInv, UNCHANGED <<film, filevars, queue, current>> PROVE ListInv'
  BY ListsAre DEF ListInv

(* A packet is let go, or taken from a list, or added.                     *)
LEMMA ReleaseLists ==
  ASSUME ListInv, DemuxTypes, NEW d \in Streams, Release(d), UNCHANGED <<film, filevars>> PROVE ListInv'
<1> SUFFICES ASSUME ~linear, NEW ds \in Streams
             PROVE  /\ \A i \in 1 .. Len(queue'[ds]) : Of(film, queue'[ds][i])
                    /\ current'[ds] # None => Of(film, current'[ds])
  BY ListsAre
<1>1. queue' = queue /\ (current'[ds] = None \/ current'[ds] = current[ds])
  BY DEF Release, DemuxTypes
<1>2. QED BY <1>1 DEF ListInv

LEMMA TakeLists ==
  ASSUME ListInv, DemuxInv, NEW d \in Streams, Take(d), UNCHANGED <<film, filevars>> PROVE ListInv'
<1>1. DemuxTypes /\ Bounded(queue[d], packs[d], bytes[d])
  BY DEF DemuxInv, QueueInv, RoomInv
<1>2. /\ queue[d] \in Seq(AnyPacket) /\ packs[d] \in Int /\ bytes[d] \in Int /\ packs[d] > 0
      /\ current' = [current EXCEPT ![d] = Head(queue[d])] /\ queue' = [queue EXCEPT ![d] = Tail(queue[d])]
  BY <1>1 DEF DemuxTypes, Take
<1>3. queue[d] # <<>>
  BY <1>1, <1>2, BoundedTake
<1> DEFINE t == Tail(queue[d])
<1>4. /\ Len(t) = Len(queue[d]) - 1 /\ Len(queue[d]) \in Nat /\ Len(queue[d]) > 0
      /\ \A i \in 1 .. Len(queue[d]) - 1 : t[i] = queue[d][i + 1]
      /\ Head(queue[d]) = queue[d][1]
  BY <1>2, <1>3, TailIs
<1>5. current'[d] = queue[d][1] /\ queue'[d] = t
  BY <1>1, <1>2, <1>4 DEF DemuxTypes
<1>6. \A ds \in Streams : ds # d => current'[ds] = current[ds] /\ queue'[ds] = queue[ds]
  BY <1>1, <1>2 DEF DemuxTypes
<1> HIDE DEF t
<1> SUFFICES ASSUME ~linear, NEW ds \in Streams
             PROVE  /\ \A i \in 1 .. Len(queue'[ds]) : Of(film, queue'[ds][i])
                    /\ current'[ds] # None => Of(film, current'[ds])
  BY ListsAre
<1>7. CASE ds # d
  BY <1>6, <1>7 DEF ListInv
<1>8. CASE ds = d
  <2>1. \A i \in 1 .. Len(queue[d]) : Of(film, queue[d][i])
    BY DEF ListInv
  <2>2. Of(film, queue[d][1])
    BY <1>4, <2>1
  <2>3. ASSUME NEW i \in 1 .. Len(t) PROVE Of(film, t[i])
    <3>1. i + 1 \in 1 .. Len(queue[d]) /\ t[i] = queue[d][i + 1]
      BY <1>4
    <3>2. QED BY <2>1, <3>1
  <2>4. QED BY <1>5, <1>8, <2>2, <2>3
<1>9. QED BY <1>7, <1>8

LEMMA FetchedLists ==
  ASSUME ListInv, DataInv, FilmInv, Headed, EndingInv, Fetched, UNCHANGED <<film, filevars>> PROVE ListInv'
<1>1. /\ at = "whole" /\ chunk <= Total /\ DemuxTypes /\ got \in Seq(Int)
  BY DEF Fetched, FilmInv, DemuxInv, CallInv, Reading, StreamInv, StreamTypes
<1>2. chunk \in 1 .. Len(film.chunks) /\ Here \in Chunks /\ chunk \in Nat
  BY <1>1, HereIs DEF Total, DemuxTypes
<1>3. PICK d \in Streams : d = Here.of
  BY <1>2 DEF Chunks
<1>4. PICK p \in AnyPacket : p = [no |-> chunk, data |-> got]
  BY <1>1, <1>2 DEF AnyPacket
<1>5. queue' = [queue EXCEPT ![d] = Append(queue[d], p)] /\ current' = current
  BY <1>3, <1>4 DEF Fetched, Add
<1>6. queue[d] \in Seq(AnyPacket)
  BY <1>1 DEF DemuxTypes
<1> DEFINE q == Append(queue[d], p)
<1>7. /\ Len(q) = Len(queue[d]) + 1 /\ Len(queue[d]) \in Nat
      /\ \A i \in 1 .. Len(queue[d]) : q[i] = queue[d][i]
      /\ q[Len(queue[d]) + 1] = p
  BY <1>6, AppendIs
<1>8. queue'[d] = q /\ \A ds \in Streams : ds # d => queue'[ds] = queue[ds]
  BY <1>1, <1>5 DEF DemuxTypes
<1> HIDE DEF q
<1> SUFFICES ASSUME ~linear, NEW ds \in Streams
             PROVE  /\ \A i \in 1 .. Len(queue'[ds]) : Of(film, queue'[ds][i])
                    /\ current'[ds] # None => Of(film, current'[ds])
  BY ListsAre
<1>9. Of(film, p)
  BY <1>1, <1>2, <1>4 DEF DataInv, PartInv, Of
<1>10. CASE ds # d
  BY <1>5, <1>8, <1>10 DEF ListInv
<1>11. CASE ds = d
  <2>1. ASSUME NEW i \in 1 .. Len(q) PROVE Of(film, q[i])
    <3>1. i \in 1 .. Len(queue[d]) \/ i = Len(queue[d]) + 1
      BY <1>7
    <3>2. CASE i = Len(queue[d]) + 1
      BY <1>7, <1>9, <3>2
    <3>3. CASE i \in 1 .. Len(queue[d])
      BY <1>7, <3>3 DEF ListInv
    <3>4. QED BY <3>1, <3>2, <3>3
  <2>2. QED BY <1>5, <1>8, <1>11, <2>1 DEF ListInv
<1>12. QED BY <1>10, <1>11

(* ... and for the packets that were made of them.                         *)
LEMMA ListSteps == ASSUME Headed PROVE FilmInv /\ EndingInv /\ DataInv /\ ListInv /\ [Next]_vars => ListInv'
<1> SUFFICES ASSUME FilmInv, EndingInv, DataInv, ListInv, [Next]_vars PROVE ListInv'
  OBVIOUS
<1>1. UNCHANGED filevars /\ UNCHANGED film
  BY DEF Next, Work, Opening, FilmFill, Demux, Ask, Seek, StreamStep, Keep, vars
<1>2. DemuxInv /\ DemuxTypes /\ call.ds \in Streams
  BY DEF FilmInv, DemuxInv, DemuxTypes, Calls
<1>3. CASE UNCHANGED <<queue, current>>
  BY <1>1, <1>3, SameLists
<1>4. CASE Opening \/ UNCHANGED vars \/ UNCHANGED dsvars
  BY <1>3, <1>4 DEF Opening, dsvars, vars
<1>5. CASE FilmFill
  <2>1. CASE Fetched
    BY <1>1, <2>1, FetchedLists
  <2>2. CASE FilmEnd \/ Position \/ SkipAudio \/ Fetch \/ FetchFails
    BY <1>4, <2>2 DEF FilmEnd, Position, SkipAudio, Fetch, FetchFails
  <2>3. QED BY <1>5, <2>1, <2>2 DEF FilmFill
<1>6. CASE Demux
  <2>1. CASE FillTake
    BY <1>1, <1>2, <2>1, TakeLists DEF FillTake
  <2>2. CASE ReadStep
    <3>1. UNCHANGED <<queue, current>> \/ Release(call.ds)
      BY <2>2 DEF ReadStep, HandOut, Read, dsvars
    <3>2. QED BY <1>1, <1>2, <1>3, <3>1, ReleaseLists
  <2>3. CASE FillLoop \/ FillEof \/ NextStep
    BY <1>3, <2>3 DEF FillLoop, FillEof, NextStep, EndStream, dsvars
  <2>4. QED BY <1>6, <2>1, <2>2, <2>3 DEF Demux, Packets
<1>7. CASE StreamStep /\ UNCHANGED <<dsvars, film, audio_on, chunk, at, call, playvars>>
  BY <1>4, <1>7
<1>8. CASE Ask
  <2>1. UNCHANGED dsvars \/ \E ds \in Streams : Release(ds)
    BY <1>8 DEF Ask
  <2>2. QED BY <1>1, <1>2, <1>4, <2>1, ReleaseLists
<1>9. CASE Seek
  <2>1. queue' = [ds \in Streams |-> <<>>] /\ current' = [ds \in Streams |-> None]
    BY <1>9 DEF Seek, Flush
  <2>2. \A ds \in Streams : queue'[ds] = <<>> /\ current'[ds] = None
    BY <2>1
  <2>3. \A ds \in Streams : ~(\E i \in 1 .. Len(queue'[ds]) : TRUE)
    BY <2>2, EmptySeq
  <2>4. QED BY <2>2, <2>3 DEF ListInv
<1>10. QED BY <1>4, <1>5, <1>6, <1>7, <1>8, <1>9 DEF Next, Work

(* What a packet has is what there is to have of its chunk.                *)
LEMMA OfIs ==
  ASSUME Headed, DemuxTypes, NEW p \in AnyPacket, Of(film, p) PROVE IsOfChunk(p)
<1> DEFINE c == p.no
           r == film.chunks[c]
           all == [i \in 1 .. r.size |-> r.at + i - 1]
           k == Len(p.data)
<1>1. /\ c \in 1 .. Len(film.chunks) /\ k <= Room(film, c) /\ p.data \in Seq(Int) /\ k \in Nat
      /\ \A i \in 1 .. k : p.data[i] = ByteOf(film, c, i)
  BY LenProperties DEF Of, FirstBytes, AnyPacket
<1>2. r \in Chunks /\ film \in Films /\ HeadBytes \in Nat /\ FixBytes \in Nat
  BY <1>1, ChunkFacts, FilmAssumption DEF FilmAssumption, Total, DemuxTypes
<1>3. r.at \in Nat /\ r.size \in Nat
  BY <1>2 DEF Chunks
<1>4. all \in Seq(Int) /\ Len(all) = r.size /\ \A i \in 1 .. r.size : all[i] = r.at + (i - 1)
  BY <1>3
<1>5. ChunkBytes(c) = IF r.of = "video" /\ film.cvid
                      THEN SubSeq(all, 1, HeadBytes) \o SubSeq(all, HeadBytes + FixBytes + 1, r.size) ELSE all
  BY DEF ChunkBytes
<1>6. /\ Room(film, c) = r.size - (IF IsCvid(film, c) THEN FixBytes ELSE 0)
      /\ \A i \in 1 .. k : p.data[i] = r.at + (i - 1) + (IF IsCvid(film, c) /\ i > HeadBytes THEN FixBytes ELSE 0)
      /\ IsCvid(film, c) <=> r.of = "video" /\ film.cvid
  BY <1>1 DEF Room, ByteOf, IsCvid
<1>7. IsCvid(film, c) => r.size >= HeadBytes + FixBytes
  BY <1>1, <1>2, <1>6 DEF Headed
<1>8. /\ ChunkBytes(c) \in Seq(Int) /\ k <= Len(ChunkBytes(c))
      /\ \A i \in 1 .. k : p.data[i] = ChunkBytes(c)[i]
  <2> HIDE DEF all, k, r, c
  <2>1. CASE ~IsCvid(film, c)
    <3>1. ChunkBytes(c) = all /\ k <= r.size
      BY <1>1, <1>5, <1>6, <2>1, <1>3
    <3>2. QED BY <1>1, <1>3, <1>4, <1>6, <2>1, <3>1
  <2>2. CASE IsCvid(film, c)
    <3> DEFINE a == SubSeq(all, 1, HeadBytes)
               b == SubSeq(all, HeadBytes + FixBytes + 1, r.size)
    <3>1. r.size >= HeadBytes + FixBytes
      BY <1>7, <2>2
    <3>2. a \in Seq(Int) /\ Len(a) = HeadBytes /\ \A i \in 1 .. HeadBytes : a[i] = r.at + (i - 1)
      <4>1. \A i \in 1 .. HeadBytes : i \in 1 .. r.size /\ all[i] \in Int
        BY <1>2, <1>3, <1>4, <3>1
      <4>2. 1 \in Int /\ HeadBytes \in Int
        BY <1>2
      <4>3. /\ SubSeq(all, 1, HeadBytes) \in Seq(Int)
            /\ Len(SubSeq(all, 1, HeadBytes)) = IF 1 <= HeadBytes THEN HeadBytes - 1 + 1 ELSE 0
            /\ \A i \in 1 .. HeadBytes - 1 + 1 : SubSeq(all, 1, HeadBytes)[i] = all[1 + i - 1]
        BY <4>1, <4>2, SubSeqProperties
      <4>4. ASSUME NEW i \in 1 .. HeadBytes PROVE a[i] = r.at + (i - 1)
        <5>1. i \in 1 .. HeadBytes - 1 + 1 /\ 1 + i - 1 = i
          BY <1>2
        <5>2. a[i] = all[i]
          BY <4>3, <5>1
        <5>3. QED BY <1>4, <4>1, <5>2
      <4>5. QED BY <1>2, <4>3, <4>4
    <3>3. /\ b \in Seq(Int) /\ Len(b) = r.size - HeadBytes - FixBytes
          /\ \A i \in 1 .. r.size - HeadBytes - FixBytes : b[i] = r.at + HeadBytes + FixBytes + (i - 1)
      <4>6. PICK s \in Nat : s = r.size
        BY <1>3
      <4>7. PICK m \in Nat : m = HeadBytes + FixBytes + 1
        BY <1>2
      <4>1. m = HeadBytes + FixBytes + 1 /\ s = r.size
        BY <4>6, <4>7
      <4>2. \A i \in m .. s : i \in 1 .. r.size /\ all[i] \in Int
        BY <1>2, <1>3, <1>4, <4>1
      <4>3. /\ SubSeq(all, m, s) \in Seq(Int)
            /\ Len(SubSeq(all, m, s)) = IF m <= s THEN s - m + 1 ELSE 0
            /\ \A i \in 1 .. s - m + 1 : SubSeq(all, m, s)[i] = all[m + i - 1]
        BY <4>2, SubSeqProperties
      <4>4. ASSUME NEW i \in 1 .. r.size - HeadBytes - FixBytes PROVE b[i] = r.at + HeadBytes + FixBytes + (i - 1)
        <5>1. i \in 1 .. s - m + 1 /\ m + i - 1 \in 1 .. r.size /\ m + i - 1 = HeadBytes + FixBytes + i
          BY <1>2, <1>3, <4>1
        <5>2. b[i] = all[m + i - 1]
          BY <4>1, <4>3, <5>1
        <5>3. b[i] = r.at + ((m + i - 1) - 1)
          BY <1>4, <5>1, <5>2
        <5>4. QED BY <1>2, <1>3, <5>1, <5>3
      <4>5. Len(b) = r.size - HeadBytes - FixBytes
        BY <1>2, <1>3, <3>1, <4>1, <4>3
      <4>8. QED BY <4>1, <4>3, <4>4, <4>5
    <3> HIDE DEF a, b
    <3>4. ChunkBytes(c) = a \o b
      BY <1>5, <1>6, <2>2 DEF a, b
    <3>5. /\ a \o b \in Seq(Int) /\ Len(a \o b) = Len(a) + Len(b)
          /\ \A i \in 1 .. Len(a) + Len(b) : (a \o b)[i] = IF i <= Len(a) THEN a[i] ELSE b[i - Len(a)]
      BY <3>2, <3>3, ConcatProperties
    <3>6. Len(a) + Len(b) = r.size - FixBytes /\ k <= r.size - FixBytes
      BY <1>1, <1>2, <1>3, <1>6, <2>2, <3>2, <3>3
    <3>7. ASSUME NEW i \in 1 .. k PROVE p.data[i] = (a \o b)[i]
      <4>1. i \in Nat /\ i \in 1 .. Len(a) + Len(b)
        BY <1>1, <1>2, <1>3, <3>6
      <4>2. CASE i <= HeadBytes
        <5>1. (a \o b)[i] = a[i] /\ i \in 1 .. HeadBytes
          BY <1>2, <3>2, <3>5, <4>1, <4>2
        <5>2. p.data[i] = r.at + (i - 1) + 0
          BY <1>2, <1>6, <4>1, <4>2
        <5>3. QED BY <1>3, <3>2, <4>1, <5>1, <5>2
      <4>3. CASE i > HeadBytes
        <5>1. (a \o b)[i] = b[i - HeadBytes] /\ i - HeadBytes \in 1 .. r.size - HeadBytes - FixBytes
          <6>1. i - HeadBytes \in 1 .. r.size - HeadBytes - FixBytes
            BY <1>2, <1>3, <3>6, <4>1, <4>3
          <6>2. ~(i <= Len(a)) /\ Len(a) = HeadBytes
            BY <1>2, <3>2, <4>1, <4>3
          <6>3. QED BY <3>5, <4>1, <6>1, <6>2
        <5>2. p.data[i] = r.at + (i - 1) + FixBytes
          BY <1>6, <2>2, <4>3
        <5>3. b[i - HeadBytes] = r.at + HeadBytes + FixBytes + ((i - HeadBytes) - 1)
          BY <3>3, <5>1
        <5>4. QED BY <1>2, <1>3, <4>1, <5>1, <5>2, <5>3
      <4>4. i <= HeadBytes \/ i > HeadBytes
        BY <1>2, <4>1
      <4>5. QED BY <4>2, <4>3, <4>4
    <3>8. QED BY <1>1, <3>4, <3>5, <3>6, <3>7
  <2>3. QED BY <2>1, <2>2
<1> HIDE DEF all, k, r, c
<1>9. PICK w \in Seq(Int) : w = ChunkBytes(c)
  BY <1>8
<1>10. Len(w) \in Nat /\ \A i \in 1 .. k : w[i] \in Int
  <2>1. Len(w) \in Nat
    BY LenProperties
  <2>2. \A i \in 1 .. k : i \in 1 .. Len(w)
    BY <1>1, <1>8, <1>9, <2>1
  <2>3. QED BY <2>1, <2>2, ElementOfSeq
<1>11. /\ SubSeq(w, 1, k) \in Seq(Int) /\ Len(SubSeq(w, 1, k)) = IF 1 <= k THEN k - 1 + 1 ELSE 0
       /\ \A i \in 1 .. k - 1 + 1 : SubSeq(w, 1, k)[i] = w[1 + i - 1]
  <2>1. 1 \in Int /\ k \in Int
    BY <1>1
  <2>2. QED BY <1>10, <2>1, SubSeqProperties
<1>12. Len(SubSeq(w, 1, k)) = k
  BY <1>1, <1>11
<1>13. ASSUME NEW i \in 1 .. k PROVE p.data[i] = SubSeq(w, 1, k)[i]
  <2>1. i \in 1 .. k - 1 + 1 /\ 1 + i - 1 = i
    BY <1>1
  <2>2. QED BY <1>8, <1>9, <1>11, <2>1
<1>14. p.data = SubSeq(w, 1, k)
  <2>1. Len(p.data) = k
    BY DEF k
  <2>2. QED BY <1>1, <1>11, <1>12, <1>13, <2>1, SeqEqual
<1>15. QED BY <1>9, <1>14 DEF IsOfChunk, Size, k, c

(* Every seek finds its chunk, and the bytes of a packet are those of its  *)
(* chunk (demux_film_fill_buffer), in every film whose cvid headers fit    *)
(* and which has no chunk that begins behind the end of the file, but in   *)
(* its last block.                                                         *)
THEOREM PacketsAreOfChunksCorrect == ASSUME Headed, Clear PROVE Spec => []PacketsAreOfChunks
<1>1. Init => EndingInv /\ DataInv /\ ListInv
  <2> SUFFICES ASSUME Init PROVE EndingInv /\ DataInv /\ ListInv
    OBVIOUS
  <2>1. EndingInv /\ DataInv
    BY DEF Init, EndingInv, WayInv, DataInv
  <2>2. \A ds \in Streams : queue[ds] = <<>> /\ current[ds] = None
    BY DEF Init, QueueInit
  <2>3. \A ds \in Streams : ~(\E i \in 1 .. Len(queue[ds]) : TRUE)
    BY <2>2, EmptySeq
  <2>4. QED BY <2>1, <2>2, <2>3 DEF ListInv
<1>2. FilmInv /\ EndingInv /\ DataInv /\ ListInv /\ [Next]_vars => EndingInv' /\ DataInv' /\ ListInv'
  BY WaySteps, DataSteps, ListSteps
<1>3. ASSUME FilmInv, ListInv PROVE PacketsAreOfChunks
  <2> SUFFICES ASSUME ~linear, NEW ds \in Streams, NEW i \in DOMAIN Waiting(ds) PROVE IsOfChunk(Waiting(ds)[i])
    BY <1>3 DEF PacketsAreOfChunks, FilmInv, StreamInv, SeekInv
  <2>1. DemuxTypes
    BY <1>3 DEF FilmInv, DemuxInv
  <2>2. /\ queue[ds] \in Seq(AnyPacket) /\ current[ds] \in AnyPacket /\ Waiting(ds) \in Seq(AnyPacket)
        /\ WaitsAs(Waiting(ds), queue[ds], current[ds], bpos[ds], bsize[ds])
    BY <2>1, WaitingIs
  <2>3. i \in 1 .. Len(Waiting(ds)) /\ Len(queue[ds]) \in Nat
    BY <2>2, LenProperties
  <2>4. PICK w \in Seq(AnyPacket) : w = Waiting(ds)
    BY <2>2
  <2>5. w[i] \in AnyPacket
    BY <2>3, <2>4, ElementOfSeq
  <2>6. Of(film, w[i])
    <3>1. CASE Fresh(current[ds], bpos[ds], bsize[ds])
      <4>1. Len(w) = Len(queue[ds]) + 1 /\ w[1] = current[ds] /\ \A j \in 1 .. Len(queue[ds]) : w[j + 1] = queue[ds][j]
        BY <2>2, <2>4, <3>1 DEF WaitsAs
      <4>2. CASE i = 1
        BY <1>3, <3>1, <4>1, <4>2 DEF ListInv, Fresh
      <4>3. CASE i # 1
        <5>1. i - 1 \in 1 .. Len(queue[ds]) /\ (i - 1) + 1 = i
          BY <2>3, <2>4, <4>1, <4>3
        <5>2. w[i] = queue[ds][i - 1]
          BY <4>1, <5>1
        <5>3. QED BY <1>3, <5>1, <5>2 DEF ListInv
      <4>4. QED BY <4>2, <4>3
    <3>2. CASE ~Fresh(current[ds], bpos[ds], bsize[ds])
      <4>1. w = queue[ds]
        BY <2>2, <2>4, <3>2 DEF WaitsAs
      <4>2. QED BY <1>3, <2>3, <2>4, <4>1 DEF ListInv
    <3>3. QED BY <3>1, <3>2
  <2>7. QED BY <2>1, <2>4, <2>5, <2>6, OfIs
<1>4. QED BY <1>1, <1>2, <1>3, FilmInvariant, PTL DEF Spec
=============================================================================
