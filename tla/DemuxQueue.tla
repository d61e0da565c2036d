----------------------------- MODULE DemuxQueue -----------------------------
(***************************************************************************)
(* The demuxer's streams (demuxer.c): for each a list of packets not read  *)
(* yet, with counters of its own, and the packet being read.               *)
(***************************************************************************)
EXTENDS Integers, Sequences, SequencesExt

CONSTANTS
  Streams,              \* d_audio and d_video
  MaxPacks, MaxBytes    \* MAX_PACKS and MAX_PACK_BYTES

ASSUME QueueAssumption == MaxPacks \in Nat \ {0} /\ MaxBytes \in Nat \ {0}

VARIABLES
  queue,                \* ds->first .. ds->last
  packs, bytes,
  current,              \* ds->current
  bpos, bsize,          \* ds->buffer_pos and ds->buffer_size
  eof                   \* ds->eof

dsvars == <<queue, packs, bytes, current, bpos, bsize, eof>>

None == [no |-> 0, data |-> <<>>]        \* no packet
Size(p) == Len(p.data)

QueueInit ==
  /\ queue = [ds \in Streams |-> <<>>] /\ current = [ds \in Streams |-> None]
  /\ packs = [ds \in Streams |-> 0] /\ bytes = [ds \in Streams |-> 0]
  /\ bpos = [ds \in Streams |-> 0] /\ bsize = [ds \in Streams |-> 0]
  /\ eof = [ds \in Streams |-> FALSE]

(* ds_add_packet                                                           *)
Add(ds, p) ==
  /\ packs' = [packs EXCEPT ![ds] = @ + 1]
  /\ bytes' = [bytes EXCEPT ![ds] = @ + Size(p)]
  /\ queue' = [queue EXCEPT ![ds] = Append(@, p)]
  /\ UNCHANGED <<current, bpos, bsize, eof>>

TakeUncounted(ds) ==   \* mutant: the bytes of the packet are still counted
  LET p == Head(queue[ds])
  IN  /\ packs[ds] > 0
      /\ bpos' = [bpos EXCEPT ![ds] = 0] /\ bsize' = [bsize EXCEPT ![ds] = Size(p)]
      /\ current' = [current EXCEPT ![ds] = p] /\ queue' = [queue EXCEPT ![ds] = Tail(@)]
      /\ packs' = [packs EXCEPT ![ds] = @ - 1] /\ UNCHANGED <<bytes, eof>>

(* ds_fill_buffer frees the packet that was read ...                       *)
Release(ds) == current' = [current EXCEPT ![ds] = None]
               /\ UNCHANGED <<queue, packs, bytes, bpos, bsize, eof>>

(* ... and takes the first of the list, or ends the stream                 *)
Take(ds) ==
  LET p == Head(queue[ds])
  IN  /\ packs[ds] > 0
      /\ bpos' = [bpos EXCEPT ![ds] = 0] /\ bsize' = [bsize EXCEPT ![ds] = Size(p)]
      /\ bytes' = [bytes EXCEPT ![ds] = @ - Size(p)]
      /\ current' = [current EXCEPT ![ds] = p] /\ queue' = [queue EXCEPT ![ds] = Tail(@)]
      /\ packs' = [packs EXCEPT ![ds] = @ - 1] /\ UNCHANGED eof

EndStream(ds) ==
  /\ bpos' = [bpos EXCEPT ![ds] = 0] /\ bsize' = [bsize EXCEPT ![ds] = 0]
  /\ eof' = [eof EXCEPT ![ds] = TRUE] /\ UNCHANGED <<queue, packs, bytes, current>>

Full == \E ds \in Streams : packs[ds] >= MaxPacks \/ bytes[ds] >= MaxBytes

Read(ds, n) == bpos' = [bpos EXCEPT ![ds] = @ + n]
               /\ UNCHANGED <<queue, packs, bytes, current, bsize, eof>>

FlushAudioStays ==     \* mutant: one stream is left out
  LET some == Streams \ {"audio"} IN
  /\ queue' = [ds \in Streams |-> IF ds \in some THEN <<>> ELSE queue[ds]]
  /\ current' = [ds \in Streams |-> IF ds \in some THEN None ELSE current[ds]]
  /\ packs' = [ds \in Streams |-> IF ds \in some THEN 0 ELSE packs[ds]]
  /\ bytes' = [ds \in Streams |-> IF ds \in some THEN 0 ELSE bytes[ds]]
  /\ bpos' = bsize /\ UNCHANGED bsize
  /\ eof' = [ds \in Streams |-> FALSE]

(* demux_flush and ds_free_packs, and what demux_seek resets               *)
Flush ==
  /\ queue' = [ds \in Streams |-> <<>>] /\ current' = [ds \in Streams |-> None]
  /\ packs' = [ds \in Streams |-> 0] /\ bytes' = [ds \in Streams |-> 0]
  /\ bpos' = bsize /\ UNCHANGED bsize
  /\ eof' = [ds \in Streams |-> FALSE]
-----------------------------------------------------------------------------
Unread(ds) == current[ds] # None /\ bpos[ds] = 0 /\ bsize[ds] > 0
Waiting(ds) == (IF Unread(ds) THEN <<current[ds]>> ELSE <<>>) \o queue[ds]

(* The counters, which decide when a stream ends, are those of the list.   *)
CountsAreTrue ==
  \A ds \in Streams :
    /\ packs[ds] = Len(queue[ds])
    /\ bytes[ds] = FoldLeft(LAMBDA n, p : n + Size(p), 0, queue[ds])

(* Whoever reads ahead, for whichever stream, no list grows past the limit *)
(* by more than the packet that reached it.                                *)
QueuesAreBounded ==
  \A ds \in Streams :
    packs[ds] <= MaxPacks /\ (packs[ds] > 1 => bytes[ds] - Size(queue[ds][packs[ds]]) < MaxBytes)
=============================================================================
