---------------------------- MODULE FilmDemuxer ----------------------------
(***************************************************************************)
(* A file from the disk to the decoders: the packet interface of demuxer.c *)
(* above the FILM demuxer (demux_film.c) above the buffered stream.        *)
(*                                                                         *)
(* Each decoder asks for bytes, packets or time stamps of its stream when  *)
(* it likes, and a call reads on in the file, queueing what it finds for   *)
(* the other stream, until it has what it was asked for.  Chunks are       *)
(* numbered from 1, chunk is film_data->current_chunk + 1, and the number  *)
(* of a packet stands for its time stamp.  Left out: what is done to the   *)
(* bytes of an audio chunk, and to a cvid header.                          *)
(***************************************************************************)
EXTENDS BufferedStream, DemuxQueue

CONSTANTS
  Films,          \* what may be in the file: [len, cvid, chunks]
  Amounts,        \* bound: the numbers of bytes asked for
  HeadBytes, FixBytes   \* the 10 bytes of a cvid header, and length_fix_bytes

Chunks == [of : Streams, at : Nat, size : Nat, key : BOOLEAN]

(* The table has at least one chunk: demux_seek_film looks for one.        *)
ASSUME FilmAssumption ==
  /\ HeadBytes \in Nat /\ FixBytes \in Nat /\ Amounts \subseteq Nat /\ Streams = {"audio", "video"}
  /\ \A f \in Films : f.len \in Nat /\ f.chunks \in Seq(Chunks) /\ f.chunks # <<>>

VARIABLES
  film, audio_on, \* audio_on: demuxer->audio->id >= -1
  chunk,
  at,             \* where the call is
  call,           \* [is, ds, left]
  start, last,    \* history: the first chunk since the last seek; for each
                  \* stream the last chunk whose data was handed out
  promised        \* history: for each stream the time stamp announced, or 0

playvars == <<start, last, promised>>
vars == <<filevars, streamvars, jobvars, dsvars, film, audio_on, chunk, at, call, playvars>>

Total == Len(film.chunks)
NoCall == [is |-> "none", ds |-> "video", left |-> 0]

Init ==
  /\ StreamInit /\ QueueInit
  /\ film \in Films /\ audio_on \in BOOLEAN
  /\ file_len = film.len /\ linear \in BOOLEAN
  /\ chunk = 1 /\ at = "probe" /\ call = NoCall
  /\ start = 1 /\ last = [ds \in Streams |-> 0] /\ promised = [ds \in Streams |-> 0]

Goto(w) == at' = w
Keep == UNCHANGED <<filevars, film, audio_on>>
-----------------------------------------------------------------------------
(* Other demuxers look at the file first, each from its start              *)

ProbeNew  == at = "probe" /\ StartNew /\ Goto("probe")             \* new_demuxer
ProbeMore == at = "probe" /\ job = "done" /\ got = <<>> /\ Tell < file_len   \* a bound
             /\ \E n \in {BlockSize, 2 * BlockSize + 1} : (StartRead(n) \/ StartSkip(n))
             /\ Goto("probe")
Open      == at = "probe" /\ StartAgain /\ Goto("magic")
ReadMagic == at = "magic" /\ job = "done" /\ goal = 0 /\ StartRead(1) /\ Goto("magic")
Opened    == at = "magic" /\ job = "done" /\ goal # 0
             /\ Goto(IF got = <<0>> THEN "idle" ELSE "probe")
             /\ UNCHANGED <<streamvars, jobvars>>

Opening == (ProbeNew \/ ProbeMore \/ Open \/ ReadMagic \/ Opened)
           /\ Keep /\ UNCHANGED <<dsvars, chunk, call, playvars>>
-----------------------------------------------------------------------------
(* demux_film_fill_buffer, called at "film": afterwards the caller goes on *)

Returns(found) == at' = IF call.is = "next" THEN IF found THEN "next" ELSE "idle"
                        ELSE IF found THEN "loop" ELSE "eof"
Here == film.chunks[chunk]

FilmEndEarly ==         \* mutant: the last chunk is not read
  at = "film" /\ chunk >= Total /\ Returns(FALSE) /\ UNCHANGED <<streamvars, jobvars, dsvars, chunk>>

FilmEnd == at = "film" /\ chunk > Total /\ Returns(FALSE)
           /\ UNCHANGED <<streamvars, jobvars, dsvars, chunk>>

Position == at = "film" /\ chunk <= Total /\ StartSeek(Here.at) /\ Goto("fetch")
            /\ UNCHANGED <<dsvars, chunk>>

SkipAudioStays ==       \* mutant: a chunk that is skipped is not passed over
  /\ at = "fetch" /\ job = "done" /\ Here.of = "audio" /\ ~audio_on
  /\ Returns(TRUE) /\ UNCHANGED chunk
  /\ UNCHANGED <<streamvars, jobvars, dsvars>>

SkipAudio ==
  /\ at = "fetch" /\ job = "done" /\ Here.of = "audio" /\ ~audio_on
  /\ chunk' = chunk + 1 /\ Returns(TRUE)
  /\ UNCHANGED <<streamvars, jobvars, dsvars>>

Cvid == Here.of = "video" /\ film.cvid
Plain == ~Cvid /\ (Here.of = "audio" => audio_on)

Fetch ==
  /\ job = "done" /\ UNCHANGED <<dsvars, chunk>>
  /\ \/ at = "fetch" /\ Plain /\ StartRead(Here.size) /\ Goto("whole")
     \/ at = "fetch" /\ Cvid /\ StartRead(HeadBytes) /\ Goto("head")
     \/ at = "head" /\ ok /\ StartSkip(FixBytes) /\ Goto("tail")
     \/ at = "tail" /\ StartRead(Here.size - HeadBytes - FixBytes) /\ Goto("whole")

(* A short read ends the film, but for a plain video chunk                 *)
FetchFails ==
  /\ job = "done" /\ ~ok
  /\ at = "head" \/ (at = "whole" /\ (Cvid \/ Here.of = "audio"))
  /\ Returns(FALSE) /\ UNCHANGED <<streamvars, jobvars, dsvars, chunk>>

Fetched ==
  /\ at = "whole" /\ job = "done" /\ (ok \/ (Here.of = "video" /\ ~Cvid))
  /\ Add(Here.of, [no |-> chunk, data |-> got])
  /\ chunk' = chunk + 1 /\ Returns(TRUE)
  /\ UNCHANGED <<streamvars, jobvars>>

FilmFill == (FilmEnd \/ Position \/ SkipAudio \/ Fetch \/ FetchFails \/ Fetched)
            /\ Keep /\ UNCHANGED <<call, playvars>>
-----------------------------------------------------------------------------
(* ds_fill_buffer                                                          *)

Loop == at' = IF Full THEN "eof" ELSE "film"

LookUnlimited == at' = "film"     \* mutant: reading ahead knows no limit
Look == at' = IF Full THEN "idle" ELSE "film"

FillLoop ==
  /\ at = "loop" /\ packs[call.ds] = 0 /\ Loop
  /\ UNCHANGED <<dsvars, playvars>>

(* A packet with no data is passed over by the next call                   *)
FillTake ==
  /\ at = "loop" /\ Take(call.ds)
  /\ Goto(IF call.is = "skip" THEN "idle" ELSE "read")
  /\ promised' = [promised EXCEPT ![call.ds] = 0]
  /\ last' = [last EXCEPT ![call.ds] = IF Size(current'[call.ds]) = 0 THEN current'[call.ds].no ELSE @]
  /\ UNCHANGED start

FillEof == at = "eof" /\ EndStream(call.ds) /\ Goto("idle") /\ UNCHANGED playvars
-----------------------------------------------------------------------------
(* demux_read_data and ds_get_packet, which reads the rest of a packet     *)

HandOut(n) ==
  /\ Read(call.ds, n)
  /\ last' = [last EXCEPT ![call.ds] = current[call.ds].no]
  /\ promised' = [promised EXCEPT ![call.ds] = IF bpos[call.ds] = 0 THEN 0 ELSE @]
  /\ UNCHANGED start

ReadStep ==
  LET ds == call.ds  x == bsize[ds] - bpos[ds]
  IN  /\ at = "read"
      /\ \/ call.is = "bytes" /\ call.left = 0 /\ Goto("idle") /\ UNCHANGED <<dsvars, playvars, call>>
         \/ /\ call.is = "bytes" /\ call.left > 0 /\ x > 0
            /\ LET n == MinOf(x, call.left) IN HandOut(n) /\ call' = [call EXCEPT !.left = @ - n]
            /\ Goto("read")
         \/ /\ x = 0 /\ (call.is = "bytes" => call.left > 0) /\ (call.is = "packet" => call.left = 1)
            /\ Release(ds) /\ Goto("loop") /\ call' = [call EXCEPT !.left = IF call.is = "packet" THEN 0 ELSE @]
            /\ UNCHANGED playvars
         \/ /\ call.is = "packet" /\ (x > 0 \/ call.left = 0)
            /\ (IF x > 0 THEN HandOut(x) ELSE UNCHANGED <<dsvars, playvars>>)
            /\ Goto("idle") /\ UNCHANGED call

Announce(ds, p) == promised' = [promised EXCEPT ![ds] = IF Size(p) = 0 THEN 0 ELSE p.no]

(* ds_get_next_pts                                                         *)
NextStep ==
  LET ds == call.ds
      inHand == current[ds] # None /\ bpos[ds] = 0
  IN  /\ at = "next" /\ UNCHANGED <<dsvars, start, last>>
      /\ IF queue[ds] = <<>> /\ ~inHand THEN Look /\ UNCHANGED promised
         ELSE Goto("idle") /\ Announce(ds, IF inHand THEN current[ds] ELSE Head(queue[ds]))

Packets == (FillLoop \/ FillTake \/ FillEof \/ NextStep)
           /\ UNCHANGED call
Demux == (Packets \/ ReadStep) /\ Keep /\ UNCHANGED <<streamvars, jobvars, chunk>>
-----------------------------------------------------------------------------
(* The player                                                              *)

Ask ==
  /\ at = "idle"
  /\ \E ds \in Streams :
       /\ ds = "audio" => audio_on
       /\ \/ \E n \in Amounts : call' = [is |-> "bytes", ds |-> ds, left |-> n] /\ Goto("read")
                                /\ UNCHANGED <<dsvars, playvars>>
          \/ call' = [is |-> "packet", ds |-> ds, left |-> 1] /\ Goto("read")
             /\ UNCHANGED <<dsvars, playvars>>
          \/ call' = [is |-> "next", ds |-> ds, left |-> 0] /\ Goto("next")
             /\ UNCHANGED <<dsvars, playvars>>
          \/ /\ call' = [is |-> "skip", ds |-> ds, left |-> 0] /\ Goto("loop")
             /\ Release(ds) /\ UNCHANGED start               \* skip_audio_frame
             /\ promised' = [promised EXCEPT ![ds] = IF Unread(ds) THEN 0 ELSE @]
             /\ last' = [last EXCEPT ![ds] = IF Unread(ds) THEN current[ds].no ELSE @]
  /\ Keep /\ UNCHANGED <<streamvars, jobvars, chunk>>

(* demux_seek_film goes back to a video chunk that is not marked; past the *)
(* last chunk it looks at what lies behind the table                       *)
IsKey(c) == film.chunks[c].of = "video" /\ film.chunks[c].key
KeyAt(c) == CHOOSE k \in 1 .. c : (k = 1 \/ IsKey(k)) /\ \A i \in k + 1 .. c : ~IsKey(i)
SeekPlace(t) ==
  LET c == IF t < 1 THEN 1 ELSE IF t > Total + 1 THEN Total ELSE t
  IN  IF c <= Total THEN {KeyAt(c)} ELSE {c, KeyAt(Total)}

(* demux_seek                                                              *)
Seek ==
  /\ at = "idle"
  /\ \E t \in 0 .. Total + 2 : chunk' \in SeekPlace(t)
  /\ Flush /\ seof' = FALSE
  /\ start' = chunk' /\ last' = [ds \in Streams |-> chunk' - 1]
  /\ promised' = [ds \in Streams |-> 0] /\ call' = NoCall
  /\ Keep /\ UNCHANGED <<pos, buf_pos, buf_len, fd, base, jobvars, at>>

Work == \/ Opening \/ FilmFill \/ Demux
        \/ StreamStep /\ UNCHANGED <<dsvars, film, audio_on, chunk, at, call, playvars>>

Next == Work \/ Ask \/ Seek

Spec == Init /\ [][Next]_vars /\ WF_vars(Work)
-----------------------------------------------------------------------------
(* Types; and the packets and bytes counted are those in the lists.        *)
TypeOK ==
  /\ CountsAreTrue
  /\ pos \in Nat /\ fd \in Nat /\ left \in Nat /\ Len(got) <= file_len
  /\ chunk \in 1 .. Total + 1
  /\ \A ds \in Streams : bpos[ds] \in 0 .. bsize[ds] /\ last[ds] \in 0 .. Total

ChunksOf(ds, from, to) == {c \in from .. to : film.chunks[c].of = ds}

(* A time stamp that was announced is that of the packet that comes next,  *)
(* whatever the other stream does in between.                              *)
PromiseKept ==
  at = "idle" => \A ds \in Streams :
    promised[ds] # 0 => Waiting(ds) # <<>> /\ Waiting(ds)[1].no = promised[ds]

(* No packet is lost, given twice, given to the wrong stream or out of     *)
(* order, and none from before a seek is left: what waits for a decoder is *)
(* what the file has between what it was given last and where the demuxer  *)
(* has come to; and no time stamp was announced that is not its first.     *)
NothingLost ==
  /\ PromiseKept
  /\ \A ds \in Streams : (ds = "audio" => audio_on) =>
       /\ \A i, j \in DOMAIN Waiting(ds) : i < j => Waiting(ds)[i].no < Waiting(ds)[j].no
       /\ {Waiting(ds)[i].no : i \in DOMAIN Waiting(ds)} = ChunksOf(ds, last[ds] + 1, chunk - 1)

(* Every seek finds its chunk, and the bytes of a packet are those of its  *)
(* chunk (the first of them, where the file ends within), less what is cut *)
(* from a cvid header.                                                     *)
ChunkBytes(c) ==
  LET r == film.chunks[c]
      all == [i \in 1 .. r.size |-> r.at + i - 1]
  IN  IF r.of = "video" /\ film.cvid
      THEN SubSeq(all, 1, HeadBytes) \o SubSeq(all, HeadBytes + FixBytes + 1, r.size) ELSE all
IsOfChunk(p) == p.data = SubSeq(ChunkBytes(p.no), 1, Size(p))
PacketsAreOfChunks ==
  /\ SeekLands
  /\ ~linear => \A ds \in Streams : \A i \in DOMAIN Waiting(ds) : IsOfChunk(Waiting(ds)[i])

(* A stream is ended only if the file has no more of it that can be read,  *)
(* or if there was no room.                                                *)
Readable(c) == film.chunks[c].at + film.chunks[c].size <= film.len
StreamEndIsHonest ==
  [][\A ds \in Streams : eof'[ds] /\ ~eof[ds] /\ ~linear =>
       Full \/ \A c \in chunk .. Total : film.chunks[c].of = ds => \E b \in chunk .. c : ~Readable(b)]_vars

(* "check if the new chunk number is valid": a seek leads to a chunk.      *)
SeekIsValid == start <= Total

(* A call that reads from the demuxer comes back.                          *)
CallsEnd == at \in {"read", "next", "loop"} ~> at = "idle"
=============================================================================
