# TLA+ models of mplayer-android

This directory holds models of the concurrent and stateful parts of MPlayer as
built by this repository, the TLC configurations that check them on small
instances, and theorems about them that TLAPS checks for every size. All paths
below are relative to `src/jni/`.

## 1. Inventory

### What runs

A playback is one process, the *player*: a main loop (`mplayer.c`) that reads
input commands, decodes audio and video packets the *demuxer* has queued, hands
the results to the audio and video outputs and sleeps. Beside it run

* the **cache filler**, a child process forked by `stream_enable_cache`
  (`stream/cache2.c`; `config.h` leaves `PTHREAD_CACHE` undefined, so
  `FORKED_CACHE` is 1). It shares one `cache_vars_t` and a ring buffer with the
  player, and takes no lock;
* the **slice threads** of the decoders (`libavcodec/pthread.c`);
* signal handlers, and the network peers of `stream/rtp.c` and `udp_sync.c`.

### Components

| component | state | operations | what makes it correct |
|---|---|---|---|
| stream cache, data path (`stream/cache2.c`) | ring, `min_filepos`, `max_filepos`, `offset`, `eof`, `read_filepos`; the filler's stream; the player's `stream_t` | `cache_fill`, `cache_read`, `cache_stream_fill_buffer`, `cache_stream_seek_long`, `stream_enable_cache`, `cache_uninit` | the player sees the file in order, every call returns, nothing is copied while it is rewritten |
| stream cache, control mailbox (same file) | `control`, its argument and result fields | `cache_execute_control`, `cache_do_control` | one answer per command, the right one; a seek by command leaves ring and position consistent |
| stream layer (`stream/stream.c`, `stream/stream.h`) | `pos`, `buf_pos`, `buf_len`, `eof` | read, skip, seek, reset, fill | the bytes read are those of the file at `stream_tell` |
| key FIFO (`mp_fifo.c`) | ring of 7 codes, the last two presses | put, get | no release is lost to presses, double clicks are found |
| input (`input/input.c`) | keys held down, autorepeat state, command queue of 100, file descriptors | `interpret_key`, `check_autorepeat`, `read_events`, `mp_input_get_cmd`, `mp_input_queue_cmd` | one command per combination, in order; nothing past the ends of the arrays |
| packet queues (`libmpdemux/demuxer.c`) | per stream: list, counters, current packet, read position, `eof` | append, fill, read, free, `ds_get_next_pts`, `demux_seek` | packets come out once and in order, counters agree with lists |
| playlist tree (`playtree.c`), option stack (`m_config.c`) | tree, position, loop counters, pushed configurations | step, up, down, random step | every entry is visited as the loop counts say; pushes and pops balance |
| FILM demuxer (`libmpdemux/demux_film.c`) | table of chunks, the current one | fill, seek | each packet holds the bytes of its chunk |
| RTP reordering (`stream/rtp.c`) | ring of 32 packets by sequence number | `rtp_cache`, `rtp_get_next` | packets come out at most once and in order |
| slice threads (`libavcodec/pthread.c`) | job counters, two condition variables | execute, worker, free | each job runs once; `execute` returns after the last |
| UDP synchronisation (`udp_sync.c`) | the master's last position | send, slave sync | a slave is never ahead, seeks only when behind, and follows |
| Android audio (`libao2/ao_android.c`) | byte counters against the driver's | play, space, delay, reset | delay and space match what the driver holds |
| audio decode buffer (`libmpcodecs/dec_audio.c`) | `a_buffer`, `a_out_buffer` | `mp_decode_audio`, resync | no decoded byte is lost or played twice |
| main loop (`mplayer.c`) | pause, seek and end-of-file flags | the loop | commands are taken and files follow each other as the playlist says |

`PROJECT.json` also lists what is not going to be modelled, with the reason:
parsers of containers and codecs, device drivers, tables of commands and
options, vendored libraries, and front ends that are not built.

### How they interact

```
source --read--> filler's stream --cache_fill--> ring --cache_read--> player's
  stream_t --stream_read--> demuxer --ds_add_packet--> queues --ds_fill_buffer-->
  decoders --> audio/video output
keys --> mp_fifo --> input --> command queue --> main loop --> demux_seek
  --> stream_seek --> cache_stream_seek_long --> read_filepos --> cache_fill
```

### What is hard

* Two processes on shared memory without a lock: every field of `cache_vars_t`
  is read and written in some order nobody tests. Most of the hazards in
  `PROJECT.json` are here, and so the models start here.
* The filler works for a whole block with a snapshot of the read position.
* Waiting on each other: the filler waits for free room, the player for data.
* An interrupt (`stream_check_interrupt`) may end any wait of the player, and
  leaves flags and commands behind.
* Rings and counters at their limits: RTP, key FIFO, command queue, packet
  queues, 32 bit byte counters.
* Explicit pushes and pops of option sets along every path through a tree.

## 2. Plan

1. `CacheRing` with `FileStream`, `CacheRingProofs`: the cache's data path, its
   abstract specification, its proofs. **Done.**
2. `CacheControl`, `CacheControlProofs`: the control mailbox on top of
   `CacheRing`. **Done.**
3. `JobPool`, `SliceThreads`, `SliceThreadsProofs`: the worker pool of the
   decoders. **Done.**
4. `PlayTree` with `ConfigStack`, `PlayTreeProofs`: the playlist, its iterator, the
   options it pushes and pops, and the player that walks it. **Done.**
5. `KeyFifo`, `CmdReader`, `InputQueue`, `InputQueueProofs`: from key presses
   and lines to commands in the hands of the player. **Done.**
6. `BufferedStream`, `DemuxQueue`, `FilmDemuxer`, `FilmDemuxerProofs`: from the
   file to the decoders. **Done.**
7. `RtpReorder`, `RtpReorderProofs`: reordering with sequence numbers that wrap.
   **Done.**
8. `UdpSync`, `UdpSyncProofs`: master and slave. **Done.**
9. What is not proved and cannot be is in section 11.
10. To be modelled, if at all: `AudioDecode` and `AndroidAudio` (section 12),
    and the pause and seek decisions of the main loop over `FilmDemuxer`.

| run | module | composes | states |
|---|---|---|---|
| `forward`, `interrupts`, `backward_data` | `MCCacheRing` | `CacheRing`, `FileStream` | 22,715; 404,333 |
| `mailbox` | `CacheControl` | `CacheRing` | 707,239 |
| `pool` | `SliceThreads` | `JobPool` | 25,271 |
| `playlist`, `emptied`, `loop_kept` | `MCPlayTree` | `PlayTree`, `ConfigStack` | 426,988 |
| `input` | `MCInput` | `InputQueue`, `KeyFifo`, `CmdReader` | 251,517 |
| `demux` | `MCFilm` | `FilmDemuxer`, `DemuxQueue`, `BufferedStream` | 546,252 |
| `rtp` | `RtpReorder` | | 1,504,319 |
| `udp` | `UdpSync` | | 374,702 |

In `backward_data`, `emptied` and `loop_kept` TLC finds a violation of what the
code's own comments promise; all others pass. Each property of a passing
run is accompanied in `PROJECT.json` by a change to the model that a plausible
slip in the code would make, and that TLC refutes with that property. The
operators for these changes stand before the definition they replace and are
marked "mutant".

## 3. The stream cache

### Modules

| module | contents |
|---|---|
| `CacheRing` | the filler and the player as two processes on shared variables; properties |
| `FileStream` | what demuxers rely on: a file read sector by sector, each call atomic |
| `MCCacheRing` | the refinement mapping to `FileStream` |
| `CacheRingProofs` | inductive invariant of the filler, all modes, with three properties; then that of the player with forward seeks, with three properties and the refinement |

### Correspondence to the code

Variables have the names of the C fields. `buffer`, `eof`, `min_filepos`,
`max_filepos`, `offset` and `read_filepos` are `cache_vars_t`. `read`, `space`
and `len` are locals of `cache_fill`, `upos` is the position of the filler's
copy of the stream. `pos` and `seof` are `stream->pos` and `stream->eof` of the
player; `sbuf` is `stream->buffer[0 .. buf_len-1]`; `got`, `newb` and `slot`
are what `cache_read` copied so far, its `newb` and its local `pos`. `fpc` and
`ppc` say where each process is; `todo` holds the stores of a group that are
still to be made.

An action reaches from one access to a field that the other process may change
to the next, so every interleaving the machine can produce at that grain is a
behaviour:

| code | actions |
|---|---|
| `cache_fill`, lines 178-195 | `FillTop` (snapshot and test), `FillDrop` (one per store), `FillSeek` |
| lines 197-231 | `FillFull` (no room), `FillTrim` |
| lines 241-250 | `FillRead` (slots being overwritten), `FillCopied`, `FillPublish` (one per store) |
| `cache_mainloop` | `FillLoop` |
| `cache_read`, lines 125-141 | `CheckMax`, `CheckMin`, `CheckEof`, `Wait`, `Interrupted` |
| lines 144-168 | `NewB`, `Locate`, `Copy` (unit by unit), `Advance` |
| `cache_stream_fill_buffer` | `StartFill`, `Return` |
| `cache_stream_seek_long` | `SeekLong`, `ClearEof`, then as above |
| `stream_enable_cache` | `Init`, `PrefillCheck`, `PrefillWait` |
| `cache_uninit` | `Uninit` |
| `stream_reset` of the player | `ResetStream` |

The data is abstracted to what tells positions apart: the file is the sequence
0, 1, .., so that a unit read from a wrong place is visible, and a slot that is
being written holds `Junk`. Sectors have one or two units instead of 2048 bytes.

Memory model. Target and build are a single-core ARM and an optimising
compiler; the fields of the data path are not volatile. Loads and stores happen
in program order except: stores of a group that neighbour each other in the
source may be swapped when `Reorder` is TRUE; line 144 may use the value of
`max_filepos` that line 125 loaded or load it again (`NewB`). The waits reload,
because a function is called in every loop. Positions are 32 bit `off_t` in
bionic and do not tear.

Left out: log output and statistics; the lengths of sleeps (the wake-up signal
only shortens one); a failing `fork` or allocation; sources that cannot seek;
an `s->pos` that is not 0 when the cache is enabled; the clearing of
`stream->eof` by `demux_seek`, which no later step of the cache reads.

### Constants and modes

`Sector`, `CacheSize`, `MinFill`, `SeekLimitArg` are the arguments of
`stream_enable_cache`; the ring is at least 16 sectors, as in `cache_init`, so
all instances use the smallest ring (16 sectors) and files of 18 to 39 units
(shorter ones for commands, section 4):
longer than the ring, so that it wraps, old bytes are trimmed and the file ends
behind the wrap. `SeekTargets` has one target near the start, one inside the
window, one beyond `seek_limit` and one at or after the end of the file.

`Backward` lets the demuxer seek behind its read position, `Interrupts` lets
`stream_check_interrupt` return true, `ShortReads` lets the source return less
than it has (also nothing), `Reorder` swaps stores.

### Properties

* `WindowHolds`: unless a drop is half done, each position of the published
  window is in its slot, at most one ring's length is published, and this holds
  between the two stores of a wrap in either order.
* `CopyInsideWindow`: what the player is copying is published and stays so.
* `DeliveredIsFile`: a delivered sector is the piece of the file at its place.
* `EofAfterLast`: an end of file is reported only when all of the file was read.
* `BackKept`: bytes are given up only while `back_size` remain behind `read`.
* `ReadReturns`: neither side waits for the other for ever, neither in the
  prefill nor in a call.
* `ImplementsFile`: the whole cache is `FileStream` with forward seeks, where
  the end of file may be reported early (`EarlyEof`); calls return.

### Runs

| run | instance | shows |
|---|---|---|
| `forward` | 32-unit ring of 2-unit sectors, 39-unit file, forward seeks, swapped stores; 22,715 states | `TypeOK`, `WindowHolds`, `CopyInsideWindow`, `EofAfterLast`, `ReadReturns`, `ImplementsFile`, at the clips of sector, ring and block ends |
| `interrupts` | interrupts and short reads, 20-unit file; 404,333 states | `DeliveredIsFile`, `BackKept` |
| `backward_data` | backward seeks | violation of `DeliveredIsFile` |

`interrupts` does not check the properties that the mode makes false: with
interrupts a read ends early by design. With backward seeks the delivered data may be
wrong (below); that `BackKept` holds there too, as `WindowHolds` does, is
proved (section 11). Forward seeks need no bound on their number: positions only
grow.

Fairness: weak fairness of the filler and of the player inside a call
(`Working`). Both are processes of a preemptive scheduler that wait by sleeping
and polling, so neither is starved. Nothing is assumed about the demuxer's
calls, and the filler is assumed to live until `cache_uninit`.

### What the runs found

* `EofIsHonest` (in `CacheRing`, checked by no run; as an invariant of `forward`
  TLC refutes it): `cache_read` tests `max_filepos`, is preempted, the filler
  publishes the last block and, on its next call, `eof`; the player then finds
  `eof` set and reports the end of file although the last block is in the ring.
  The next read gets it, so a player that does not stop at the first end of
  file recovers.
* `backward_data`: the filler may be in the middle of
  `cache_fill` with a read position from before a backward seek. It trims or
  drops the window under the player's new position after the player tested it.
  Line 157 announces that state as a bug to report ("Ehh. s->read_filepos<...").

## 4. The control mailbox

`CacheControl` EXTENDS `CacheRing`. It replaces the loop of the filler at
`fpc = "control"` by `cache_execute_control` (`ExecuteControl`) and adds the
player's `cache_do_control` (`Ask` .. `AnswerAndReturn`, `DoControl`); all
other actions are those of the ring with the mailbox unchanged.

| code | actions |
|---|---|
| `cache_execute_control`, line 272 | `NoCommand`, `SomeCommand` |
| lines 273-290 | `Switch` (the second load of the volatile field), `Serve` |
| lines 291, 292 | `NewPos`, `Clear` |
| `cache_do_control`, lines 557-586 | `Ask` (argument), `Store` (command) |
| lines 587, 590-593 | `Served`, `GiveUp` |
| lines 595-615 | `Result`, `Apply`, `AnswerAndReturn` |

A command is its kind (`"seek"` for those whose reply moves the player,
`"query"` for the others, `"reset"` for the 0 of the zeroed mailbox) and its
number, by which replies are told apart; `MaxCommands` bounds the numbers. In
this build `stream_ffmpeg.c` alone knows a command of the mailbox,
`STREAM_CTRL_SEEK_TO_TIME`. The demuxer of such a stream also seeks by position
(`new_demuxer`, `demuxer.c:254`, and the fallback of `demux_seek`, lines
1325-1333), hence the `SeekTargets`. The driver moves the
source and the stream's position counts on: `cut` remembers the position of the
first unit after the move. `served` is the history of what the driver was given,
`ahead` says whether a command was given by a player that a seek by position had
left beyond the window.

Properties: `RepliesMatch` (a reply belongs to its command), `OwnArgument` and
`SeekLandsAtCut` (the player goes on with the first unit after the move and never
reads across a move it did not ask for) hold until the player gives a command up
on an interrupt (`gaveup`); `ServedOnce` (at most once, in order) and
`CommandReturns` hold at all times. `SeekLandsAtCut` has two more limits. It is
about demuxers that seek forward. And it excepts commands given `ahead`: a
player whose seek was told of the end of the file is idle beyond the window; the filler
answers its seek by command, and then drops the ring to go to the old
`read_filepos`, before the player has stored the new one. Without that exception
the run fails. It is a weakness of the code that this
property describes and no property catches.

| run | instance | shows |
|---|---|---|
| `mailbox` | 2 commands, interrupts, file of 9 units so that the ring fills and the filler sleeps, seeks by position to 6, inside the window, and to 12, for which the ring is dropped; 707,239 states | the properties |

Two commands are enough for one to be overwritten, or answered, in place of the
other. Two definitions that no run checks fail as invariants of this instance.
`LaterAnswerIsOwn`: a command given up on an interrupt is still served, and when
it is, line 292 wipes the command stored after it, which then takes the old
result. `SeekEndsEof`: a seek by command leaves the `eof` flag of the old place
set, which `cache_stream_seek_long` clears at line 539; `SeekLandsAtCut` is about the
position and not about that flag. The exception in
`RepliesMatch` is no invention: `cache_init` zeroes the mailbox, 0 is
`STREAM_CTRL_RESET`, and the filler answers it over the player's first command
if that is stored early enough. In `mailbox` it is not, as `MinFill` is more than
one block; with `MinFill = 1` (2,740,557 states) the exception is met and the invariants
hold, and section 11 has the proof for all sizes.

Fairness is that of the ring; the player inside `cache_do_control` polls. Nobody
counts on an interrupt: `GiveUp` is not part of the fair actions.

Left out: `STREAM_CTRL_GET_TIME_LENGTH`, answered from a number the filler
refreshes; streams without a `control` function, for which `stream_control`
does not reach the cache; the quit command -2 of caches that are threads; the
bytes the filler's own `stream_t` holds back when a read was short (they are
published before the first byte after the move, and `control_new_pos` counts
them); and what the player's `stream_t` still holds after a seek by command:
neither the cache nor the driver empties it.

## 5. The slice threads

`SliceThreads` models `libavcodec/pthread.c`: MAIN, the thread that decodes, and
`ThreadCount` workers. Everything shared is used under `current_job_lock`, so an
action is a critical section: from taking the mutex to giving it up, in
`pthread_mutex_unlock` or in `pthread_cond_wait`. Only `avcodec_thread_init`
holds it across several steps (`Held`).

| code | actions |
|---|---|
| `worker`, lines 51-58 | `Begin` (reads `job_count` without the mutex), `Enter` |
| lines 60-69 | `Loop` (the head of the loop), `Wake` |
| lines 71-77 | `Run`, `NextJob` |
| `avcodec_thread_init` | `Init`, `Create`, `CreateFails`, then `ParkWorkers` |
| `avcodec_thread_park_workers` | the end of `ParkWorkers` and `Execute`; `Return` |
| `avcodec_thread_execute`, `execute2` | `Execute` |
| `avcodec_thread_free` | `Free`, `Join` |

`quit` is the field `done`. `wpc` is where a worker is: `"new"` and `"begun"`
before its first critical section, `"parked"` in `pthread_cond_wait`, `"woken"`
when it was signalled and waits for the mutex, `"running"` and `"ran"` around
the job. `runs` counts how often each job of the call was performed.
`CreateMayFail`, `MainSpurious` and `WorkerSpurious` switch on what POSIX allows:
a failing `pthread_create`, and waits that return without a signal.

`JobPool` is what `avcodec.h` promises: a call hands over jobs, each is
performed once, and the call returns when none is left. `Phase` and `Undone` map
the threads to it.

| run | instance | shows |
|---|---|---|
| `pool` | 3 workers, each creation may fail, calls of 1 to 5 jobs, any number of calls; 25,271 states | `ReturnsWhenDone`, `OneWorkerPerJob`, `CallsComeBack`, `ImplementsPool` |

Three workers and up to five jobs have calls with idle workers, with one job
each and with a second round; a worker may be late by a whole call. Nothing
bounds the number of calls, because `current_job` starts anew with each.

Fairness: each thread that is not in a wait goes on (`WF` of each worker and of
MAIN); a wait that nobody signals may last for ever, so nothing depends on a
spurious wake-up. `pool` does not check for deadlock: after a failed
creation a worker that had not reached its first wait misses the broadcast of
`avcodec_thread_free`, `pthread_join` waits for it, and everything stops. That
is the code (line 177), and the last part of `CallsComeBack` says when it does
not happen. With `MainSpurious` or `WorkerSpurious` TRUE, `ReturnsWhenDone` fails:
neither wait of the pool is in a loop that tests its condition, as POSIX asks.

Left out: the values in `rets`; the copy of `avctx->thread_count` a worker makes
before it has the mutex, which differs only after a failed creation, when nobody
waits for the last job; failing allocations.

## 6. The playlist

`PlayTree` EXTENDS `ConfigStack`. A playlist is a tree of groups and entries;
the player walks it with an iterator that pushes the options of each group and
entry it goes into and pops them when it leaves. Both modules keep the state of
the C structures: `tree` (`play_tree_t`, as the children, loops, parameters and
flags of each node), `iter` (`play_tree_iter_t`), and the level, slots and
values of the options (`m_config_t`).

| code | definitions |
|---|---|
| `m_config_push`, `m_config_pop`, and `m_config_set_option` for what is pushed (`m_config.c`) | `Push`, `Pop` |
| `m_config_add_option`, lines 234-242 | `Aliased`, `Written` |
| a variable set by a slave command | `Assign` |
| `play_tree_iter_step` | `StepAtRoot`, `Leave`, `Move` (`ToGroup`, `ToNothing`, `ToEntry`), `ShuffleAgain`, `LoopAround`, `ListDone` |
| `play_tree_iter_up_step`, `_down_step` | `Up`, `UpAtTop`, `Down` |
| `play_tree_iter_get_file` | `Source`, `HasFile` |
| `play_tree_iter_new_copy`, `_free` | `Original`, and `saved` |
| `main`, from one file to the next | `Opened`, `PlayFile`, `EndOfFile`, `OpenFails`, `NoFile`, `Moved` |
| `playtree_add_playlist` | `FoundList`, `Drop`, `DropUp` |
| `run_command`: `pt_step`, `pt_up_step`, `alt_src_step`, `loadfile`, `stop`, properties | `Peek`, `Peeked`, `Forced`, `AltSource`, `AppendFile`, `Rewind`, `Rewound`, `AtHead`, `IdleLoad`, `SetProperty` |

The three functions of the iterator call each other as the last thing they do,
so the call in progress is one variable, `call`, and an action is the piece
between two calls. `job` is what the player made the call for. `log` records
the files played for as long as the user has given no command, `asked` from
where and how far the last move was to go.

Playlists are well formed (`Proper`, with its parts in front of it): a tree whose
groups all hold something, as `play_tree_cleanup` leaves it, and keep something when
the playlist files that cannot be parsed are taken out; playlist files hold trees of
their own, and are neither shuffled nor loaded by a command. `MCPlayTree` has
TLC confirm that its playlists are, but for that of `emptied`.

### Instance

`-noloop` and `-loop` are two options with one variable (`cfg-mplayer.h:313-314`), so
the second is an alias: it has no slots but a pointer to the slot `-noloop` had when
it was registered, that of level 1. A `-loop` in a playlist is written there,
and pushes and pops pass over it. In the model both are the one option `"loop"`, a
member of `Aliased`; `Written` says which slot a parameter goes to, and the history
variable `base` what the options were when the playlist was entered.

`MCPlayTree` has six playlists of up to eight nodes: groups in front of and
behind an entry, looping groups in a looping root, files that loop, an entry
with two sources, a playlist file that is replaced by its contents, one that
cannot be parsed among others, one that is all of a looping root, and a shuffled
list. Options are one with a value per group, one global, and `loop`. The user gives
`MaxCommands` = 2 commands at any time, which is enough for a step after a change, a
step after a step, and a load while something plays; steps are by 1, -1 and 2.

### Properties and what they show

* `PushesMatchPops`: what is pushed while a file plays is exactly what belongs to
  its place in the tree; no removed node is played; in the end every option that no
  alias sets is the default again.
* `OptionsOfEntry`: a file starts with the options given for it or else for the
  innermost group that has one, or else as around the playlist (`Outer`), whatever was
  played or changed before. Around the playlist are the defaults; for an option that
  an alias sets it is what the playlist was entered with.
* `PlaysAll`: left alone, the player plays the order that `Heard` defines from
  the tree alone, or, shuffled, laps in which each file is played once.
* `StepsLandNext`: a step by one reaches the neighbour in document order, or goes
  round a group that loops, and finds nothing only at the ends; and a step that a
  copy of the iterator found possible is possible.
* `PlaylistEnds`: the playlist ends, under weak fairness of what the player
  does by itself (`Iterate`, `Advance`, `EndOfFile`: one sequential process, and
  files are finite). No command is assumed to come.
* `emptied`: a group that has lost its last entry (`playtree_add_playlist` removes
  a playlist it cannot parse) makes `play_tree_iter_step` call itself without
  an end, at line 634, because the iterator is not moved before the call that is
  to "go to next one". `CallReturns` is violated.
* `loop_kept`: one file has `-loop 2`. The value is written to the slot of level 1, the
  last pop restores from that slot, and the player stops with `loop_times` not as it was
  before the playlist, against `m_config.h:129` ("restoring the previous context
  state"): a file loaded next starts with it. `AllRestored` is violated.

What else the model showed, and the properties allow for:

* `pt_step` onto a file that loops does not leave the file: with `Shapes <-
  MCLooping`, `StepIsMade` fails. The end of a file and a step forward are the
  same value `PT_NEXT_ENTRY`, and line 4070 of `mplayer.c` counts both as a lap;
  `DOCS/tech/slave.txt` promises that the step goes to the next entry.
* The direction is lost on the way down: `play_tree_iter_down_step` ends in a
  step by 0, so a step by 2 counts siblings rather than files, and a step back
  onto a nested group goes on forward where its last child is empty.
* A step back over the first entry of a looping group allows one lap more.
* A shuffled group below the root that is exhausted ends the whole playlist with
  its options still pushed, and a shuffled root plays `loop` + 1 laps; hence the
  part of the properties about pushes is stated without shuffling (`InOrder`).
* A copy of the iterator shares the tree, also the laps counted there.
* When the player is started with no valid entry, the iterator is freed and asked
  for its file; `TypeOK` includes that this does not happen to the instances.

`OpenFails` has both ways in which a file does not come to play: an unknown format, after
which the next source is tried, and a failing `open_stream`, after which the player
steps on without a look at the loop (`mplayer.c:3353-3356`).

Left out: profiles; `pt_step` in a playlist file; the destroyed entries of
nested looping lists with one broken entry (`mplayer.c:1075-1079`).

## 7. Input

`InputQueue` EXTENDS `KeyFifo` and `CmdReader`, the two sources of commands.

| code | definitions |
|---|---|
| `mplayer_put_key`, `mplayer_put_key_internal`, `put_double` (`mp_fifo.c`) | `Press`, `Release`, `Put`, `PutDouble`, `TimePasses` |
| `mplayer_get_key` | `Get` |
| `mp_input_read_cmd` (`input/input.c`) | `Refill`, `TakeLine`, `NoLine` |
| `interpret_key` | `InterpretPress`, `InterpretRelease` |
| `check_autorepeat` | `Repeat`, `NoRepeat` |
| `read_events` | `StartRead`, `CloseLines`, `ReadKey`, `LineRead`, in its order |
| `mp_input_get_cmd`, `mp_input_queue_cmd`, `mp_input_get_queued_cmd` | `Call`, `Back` |
| `mp_input_check_interrupt` | `CheckInterrupt`, `CheckSees`, `Dropped` |
| `main`, `pause_loop`, `libmpdemux_was_interrupted` | `MainLoop`, `PauseSees`, `Unpause`, `OpenFailed`, `Run` |

`at` is where a call of `mp_input_get_cmd` is, `caller` who made it. A command
has a number, in the order of `made`, and a kind: one that stops the file, pause,
or other. The buffer of a descriptor is a stretch of the text, `lo` to `hi`.
Time is left out: `young` says how many of the last two presses are recent, and
whether a key repeats yet is a free choice.

Instance: two keys, one a mouse button, each bound, together and as a double
click; a FIFO of 4, an array for one key down; a text of three lines the first of
which does not fit the buffer of 5. These are the sizes at which each limit is
met by few steps. `MaxPresses` = 2 allows a combination and a double click, and
`MaxRepeats` = 3 a key that repeats while others come.

* `KeysAgree`: a key that is down for the player is held, or its release is in the
  FIFO, or was refused by a full one; presses never take the places that are reserved
  for releases (`ReserveKept`); what repeats is the command of the keys that are down;
  `key_down` is overrun by one key at most (`OverrunByOne`).
* `LinesReturned`: each line that fits is returned once, whole and in order,
  however the reads are cut; no part of a line that does not fit is.
* `CommandsInOrder`: nothing is lost, doubled or overtaken, whoever peeks; a
  command that stops the file survives being peeked at by whoever was
  interrupted by it.
* `CommandsTaken`: the queue is emptied again and again. Fairness: `WF` of the
  player's steps; `SF` of its main loop, because operations that can be interrupted
  end and the loop comes round in between.

`KeysAgree` describes two faults and does not exclude them. What would is
in two definitions that no run checks, because TLC refutes them:

* `KeyDownFits`, with the instance of `input`: with as many keys down as `key_down` has
  room for, one more is stored behind its end. The tests at lines 1107 and 1133 of
  `input.c` are `>`, the stores are at 1119 and 1137, and the array is declared at 555.
* `NoStuckKey`, with the FIFO of 7 of the code and `MaxPresses` = 3: a double click is
  not a press for the test of the reserve that `mp_fifo.c:37` announces "to avoid stuck
  keys", and takes the room that was kept for the release of a key that is held.

Left out: filters (none is installed in this build), the commands of the pause
loop itself (pausing 4), joystick and lirc, the parsing of commands, binding files.

## 8. From the file to the decoders

`FilmDemuxer` EXTENDS `BufferedStream` and `DemuxQueue`. FILM is the demuxer
modelled because its index is all the state it has, and it uses what others use: seek,
skip, read, packets of two streams and short reads.

| code | definitions |
|---|---|
| `stream_fill_buffer` (`stream/stream.c`) | `Fill`, `FillEnds` |
| `stream_seek`, `stream_seek_long` | `SeekInside`, `SeekBlock`, `SeekStep` |
| `seek_forward` (`stream/stream_file.c`) | `ForwardStep` |
| `stream_read`, `stream_skip`, `stream_tell`, `stream_reset` | `TransferStep`, `StartSkip`, `Tell`, `StartAgain` |
| `ds_add_packet`, `ds_fill_buffer`, `ds_free_packs` (`libmpdemux/demuxer.c`) | `Add`, `FillLoop`, `FillTake`, `FillEof`, `Take`, `Release`, `Flush` |
| `demux_read_data`, `ds_get_packet`, `skip_audio_frame` | `Ask`, `ReadStep`, `HandOut` |
| `ds_get_next_pts` | `NextStep`, `Look`, `Announce` |
| `demux_open_stream`, `new_demuxer` | `ProbeNew`, `ProbeMore`, `Open`, `ReadMagic`, `Opened` |
| `demux_film_fill_buffer` (`libmpdemux/demux_film.c`) | `FilmEnd`, `Position`, `SkipAudio`, `Fetch`, `FetchFails`, `Fetched` |
| `demux_seek`, `demux_seek_film` | `Seek`, `SeekPlace` |

Byte i of the file is the number i, so bytes from a wrong place are visible. A
stream is a file, which gives whole blocks, or a pipe, which gives what it has
and cannot seek back. `last` remembers for each decoder what it was given,
`promised` the time stamp it was told.

Instance: five films of four or five chunks, with and without cvid headers, whole and
cut within a video and within an audio chunk; blocks of 2, so that chunks begin and
end within, at and beyond blocks; limits of 2 packets and 4 bytes, so that the
queue of the stream nobody reads fills; the user seeks at any time and to any chunk.

* `TellIsTruth`: after any calls, short reads and failed seeks the buffer is what
  `stream_tell` says.
* `PacketsAreOfChunks`: seeks in a file land, and packets hold the bytes of their chunk.
* `NothingLost`: what waits for a decoder is exactly what the file has between
  what it was given last and the demuxer's place; announced time stamps are kept.
* `TypeOK` with `CountsAreTrue`, `QueuesAreBounded`: counters are those of the lists,
  and no list grows past a limit by more than one packet.
* `StreamEndIsHonest`: a stream ends where the file has no more of it, or for want of room.
* `CallsEnd`: each call comes back, under weak fairness of the demuxer's own steps (`Work`).

What else the model showed:

* On a pipe a seek may overshoot (what `seek_forward` read is not kept) or fail,
  so the properties about places are stated for files; and line 358 of `stream.c`
  passes the position reduced to the rest within its sector.
* `demux_film.c:120` ignores whether its seek succeeded. With `BlockSize = 4` and
  `Films <- MCTruncated` a film that is cut off before a chunk gives a packet with
  the bytes of an earlier place: `PacketsAreOfChunks` fails.
* `SeekIsValid` fails: the test "check if the new chunk number is valid"
  (`demux_film.c:82`) lets the number of chunks itself pass, one behind the table.
* `eof` of the stream stays set until the next seek.

Left out: subtitle streams, parsers, `demux_rawdata`, the headers of the film,
the conversion of audio. How many probes there are is bounded.

## 9. RTP reordering

`RtpReorder` models `stream/rtp.c` and, as external, a network that loses, delays
and repeats.

| code | definitions |
|---|---|
| `rtp_cache` | `Sort`: `Advance`, `Reset`, `Ignore`, `Keep` |
| `rtp_cache_reset` | `Reset` |
| `rtp_get_next` | `Looking`, `Receive`, `Junk`, `FromRing`, `Empty` |
| `read_rtp_from_server` | `Read` |

Instance: a ring of 6 for 32, numbers modulo 40 for 2^16, 10 packets, 3 of them
in flight, up to 3 repeated or useless datagrams, 2 lost. The ring must be larger
than the 3 of its margin and the modulus larger than the 5 rings within which the
heuristic tells repeats from restarts. `LoseMany` loses more than the ring holds,
so jumps occur; the numbers wrap only when `calm`, as the difference of two numbers
is taken in `int` (line 103) and a wrap out of order looks like an underrun.
Deadlock is not checked: `recv` blocks when nothing is sent.

* `SlotsAgree`: each packet that waits is in the slot its number asks for.
* `InOrder`: none is delivered twice, after a later one, or after it was given up.
* `NothingDropped`: one that came before it was passed over waits, unless a jump emptied the ring.

All three stop where a packet comes that is exactly `MAXRTPPACKETSIN` ahead
(`clash`): line 115 tests `>`, the packet lands in the slot of the one expected
and is taken for it. Without that exception `GetsReordered` fails. The packet
numbered 0 is excepted from `NothingDropped`: the slots begin with that number, so
it may be found as a "stray packet". `Empty`, an empty ring after the loop has
given up, also gives up the packet expected. Not among the useless datagrams are those
whose header counts more sources than the datagram has bytes for: lines 247-249
check the size before these are subtracted, so that the length becomes negative.

## 10. UDP synchronisation

`UdpSync` has one master and one slave, since slaves know nothing of each other.

| code | definitions |
|---|---|
| `send_udp`, and where `mplayer.c` calls it | `Play`, `Exit` |
| `get_udp` | `Poll`, `Wait`, `Take` |
| `udp_slave_sync` | `Compare`, `TooFar` |
| `main` of the slave: next frame, display, the seek | `Decode`, `Show` |
| `main` of the master: a seek | `MasterSeeks` |
| network, a killed master (external) | `Arrive`, `Lose`, `Crash`, `Quick` |

Positions are frames, further apart than `UDP_TIMING_TOLERANCE`. Instance: six
frames, every second a key frame, `Threshold` = 2, `Second` = 2 (a slave that has
heard nothing takes the master to be at -1.0 s), two datagrams in flight and at
most `Late` = 2 frames late, one seek of the master. The bounds of the network are
those of the "ethernet-like low-latency network" that
`DOCS/xml/en/usage.xml:719` asks for; order and loss are free within them.

* `NeverAhead`: no frame is shown before the master has shown it, until the master seeks.
* `SeeksWhenBehind`: a slave seeks only if it really is further behind than the
  threshold; late and reordered datagrams do not throw it about.
* `CatchesUp`: it comes to where the master is, or the master goes on.
* `ByeEnds`: a "bye" that has arrived ends the slave, whatever it waits for.

Fairness: `WF` of the slave, which runs by itself, and of `Arrive`; none of the
master, which may pause for ever, and nothing keeps `Lose` from taking a datagram.

What the properties leave open, because the code does: a lost "bye" or a crash of
the master leaves a slave that is ahead waiting for ever; the frame before a seek
is still shown, however far off it is; a key-frame distance larger than the
threshold makes a slave seek again and again (`CatchesUp` needs `KeyEvery` at most
`Threshold`); a slave whose first frame is later than the threshold seeks to
the start before it has heard anything; and an error of the socket is taken for the
master's exit.

## 11. Proofs

### The stream cache

Assumed: `SizesAssumption` (a positive sector size, natural sizes and targets)
and `ModesAssumption` (the modes are Booleans); nothing about their values.

`CacheRingProofs`, in all four modes. `WindowHolds` is not inductive: between
the stores of `FillPublish` the window and the base of the ring disagree. The
invariant `IInv` is stated in terms of `NextMax` and `NextOffset`, the values
`max_filepos` and `offset` have when the stores still in `todo` are made:

* `RingInv`: the ring holds all positions from `min_filepos` to `NextMax`, its
  base `NextOffset` is within a lap of `NextMax`, and the filler's stream
  stands at `NextMax`;
* `DropInv`: the stores already made during a drop hold the snapshot;
* `SizeInv`: when a block is sized the snapshot is not behind the window and
  at most `seek_limit` ahead of it. This is where the clamp of lines 419-421
  enters: with it a trimmed window is never empty of room and never inverted;
* `RoomInv`: between trimming and publishing the block fits, both in front of
  the wrap and beside the window.

Each action has its lemma; `TrimArithmetic` and `BlockSlots` carry the
arithmetic, `SlotLap` and `SlotsApart` the ring. `WindowSlot` translates back
from `NextOffset` to `offset`, hence `WindowCorrect`, `TypeCorrect` and
`BackKeptCorrect`.

Its second part, for `~Backward` (interrupts, short reads and swapped stores
allowed). `ReaderInv` adds: the filler's snapshot and `min_filepos` never pass
`read_filepos`; the ring is dropped only while the player is at or beyond the
end of the window and has found nothing (`BehindInv`); what the player saw
published is still published (`SeenInv`); its slots are those of its positions
(`SlotInv`); what it copied is the file (`GotInv`). `FillerSteps` shows that no
step of the filler moves the slot of a published position. Hence `CopyCorrect`
and `DeliveryCorrect`: with forward seeks the cache needs no lock. The run
`backward_data` shows that the assumption `~Backward` cannot be dropped.

The end of the file (`EndInv`, `WithinFile`): the ring never holds a position
behind the last unit. The filler may go there, for a seek behind the end, but
then it reads nothing, and an empty block publishes nothing. `EofInv`: a flag
that is set, and a block of no units on its way, say that the window reaches the
end. Hence `EofCorrect`, for sources that return less than was asked for only at
the end (`~ShortReads`) and no interrupts: with either of them a read does end
early, by design (section 3).

`FileRefines` is the safety part of `ImplementsFile`: under `MCCacheRing`'s
mapping each step of filler and player is a step of `FileStream` or a stutter.
Only the return of a call is a step, so what there is to show is that it returns
what `FileStream` would: a sector at the player's position, none of it from
beyond the file, or an end of file.

Only model-checked: the liveness of `ImplementsFile` and `ReadReturns` (liveness
under fairness is out of the prover's reach).

### The control mailbox

The first three theorems of `CacheControlProofs` need nothing of the ring: its
actions leave the mailbox alone (`Elsewhere`). `ServedOnceCorrect` holds in all modes: `ServedInv` says
that a command waiting in the mailbox, or already loaded by the filler, is newer
than all that were served. `RepliesMatchCorrect` and `OwnArgumentCorrect`: until a
command is given up `TurnInv` holds, that is, while the player waits the mailbox
holds its command or nothing, and it is empty before the next one is stored, the
zeroed mailbox excepted; section 4 says what happens afterwards.

`SeekLandsCorrect` is about ring and mailbox together, for any `SeekTargets`; assumed
is only `~Backward`. `LandInv` adds to the invariants of the ring that the last move
of the source is behind the player, or is the one whose answer the player is about to
apply (`Pending`), and that the player's position is not beyond the window while a
command is under way, so that the filler does not drop the ring in between. The last is
what `ahead` excepts (section 4).

`CommandReturns` stays with TLC.

### The slice threads

`SliceThreadsProofs`, for every `ThreadCount` of at least 2 and every `MaxJobs`,
assuming no spurious wake-up (section 5 says why);
threads may fail to be created. `IInv`: `StartInv` (workers before their first
wait exist only while the pool is opened), `CountInv` (during a call
`current_job` is `thread_count` plus the jobs that were performed by a worker
which has come back for its next number, so the last one to come back, and no
other, finds it at `thread_count + job_count`) and
`JobInv` (a job was performed at most once, two workers never hold the same one,
and a number above `thread_count` is held only by the worker it was given to).
Hence `ReturnsWhenDoneCorrect`,
`OneWorkerPerJobCorrect` and `PoolRefines`, the safety part of `ImplementsPool`.
`CallsComeBack` and the fairness of `JobPool` stay
with TLC.

### Input

`InputQueueProofs`, for all keys, bindings, texts and sizes; assumed are
`InputAssumption`, `TextsAssumption` and `KindsAssumption` (a text is a sequence
of characters; keys are bound to kinds of commands). One module, three
invariants, because the three properties are about three parts of the state.

`CommandsInOrderCorrect`. `CommandsInOrder` speaks of a
queue; the invariant `Inv` says that the queue never holds more than one command,
because a call that finds it occupied reads nothing. `PlaceInv` says where the one
command is: in the queue, in hand on the way back, in hand of a caller that has taken it,
or in hand and in the queue of one that peeks. `CallerInv` says which callers peek, and
what those that come back to remove a command (`"drop"`, `"unpause"`) saw.
`LookingInv` covers all drivers and readers at once; then there is one lemma for each
thing a caller does.

`LinesReturnedCorrect`. The buffer of a descriptor is a stretch of the text that
fits (`BufInv`); without `drop` it begins with a line, with `drop` it begins inside
one and holds no end of it (`FlagInv`); the lines returned are lines that fit, in
order, and every one that begins before the buffer is among them (`LineInv`).
`LinesReturned` itself is not inductive: it does not say what has been read
of the line that is not complete.

`KeysAgreeCorrect`. `FifoInv`: a press in the FIFO is of a key that stays held until
the release behind it; `DownInv`: a key is stored once, and is held or its
release is waiting or was refused; `RepeatInv`: what repeats is the command of
the keys down. `Places` is the reserve. That a release may be refused and the array overrun
by one key is part of what is proved, and not excluded (section 7). These meet in `KeysInv`, with the reader of lines, because
`read_events` goes from one to the other.

`CommandsTaken` is liveness and stays with TLC.

### From the file to the decoders

`FilmDemuxerProofs`, for every film (a table of at least one chunk, with any places
and sizes: `FilmAssumption`; in an empty table `demux_seek_film` finds none), for files and pipes, whole or cut short, all blocks and
limits, and any calls of the player. `FilmInv` is inductive; `StreamInv` is its half
about the stream, `DemuxInv` the one about the queues.

* `TellIsTruthCorrect`. `BufferInv` is the property; `PlaceInv` is what makes it
  inductive: the position counted is where the descriptor is, but for a pipe at
  its end, whose position may have been reset.
* `SeeksLandCorrect`: `SeekInv` knows, at each read of a seek, what is left of its
  way. `SeekLands` is the part of `PacketsAreOfChunks` about seeks.
* `QueuesAreBoundedCorrect`: `RoomInv` says that a list without its last packet is
  under both limits; it is kept because the demuxer reads only when both
  lists have room (`CallInv`), and taking a packet leaves the last one where it is.
* `NothingLostCorrect`. The property is about what waits, the packet in hand and the
  list taken together, and changes its shape when a packet passes from one to
  the other or is given out in parts. `HandInv` and `OrderInv` (`Held`) say for each
  stream that what is in hand and in the list is all of the chunks between the one
  given out last and the next one to be read, once and in order; `PromiseInv` (`Kept`) that a time
  stamp announced is that of the next packet. There is one lemma for each way in which
  the list can change (`HeldAdd`, `HeldTake`, `HeldOut`, `HeldNew`, `HeldSame`).

* `StreamEndIsHonestCorrect`, the action property, assumes `Headed`: a cvid header fits
  in its chunk (the code subtracts 10 and 2 or 6 from the size of the chunk without
  looking), and the bytes cut from it are no more than what `stream_skip` reads over,
  2 or 6 against twice 2048. `EndingInv` adds the place of the demuxer to `FilmInv`: while a chunk is
  read that is all in the file, the place of the stream and what is left to read add up
  to the end of the part being read (`OnWay`), so that no read of it can meet the end
  of the file. A chunk of no bytes is the exception: its seek may fail, and nothing is lost.
* `PacketsAreOfChunksCorrect` assumes `Headed` and `Clear`: no chunk begins behind the
  end of the file but in its last block. Without `Clear` the property is false
  (`MCTruncated`, section 8): the seek to such a chunk fails with the last block in
  the buffer, and the packet is made of that. All other films that are cut short
  are within the theorem. `DataInv`: the bytes read so far are the first of the chunk's
  (`FirstBytes`), and the stream is at the next of them (`Placed`) or has none left to
  give (`Stuck`). The second is what a failed seek leaves, and needs that a seek
  has dropped the buffer and is at the start of its block (`FetchInv`). `ListInv` carries the
  bytes on to the lists; `OfIs` shows that they are what `ChunkBytes` says.
  The films of run `demux` are `Headed` and `Clear`.

Only model-checked: `CallsEnd` (liveness) and `CountsAreTrue` in `TypeOK`, which sums
a list with a fold: what a fold computes for every list needs induction over data.

### RTP reordering

`RtpReorderProofs`, for every size of the ring and range of the numbers with
`RtpAssumption` (section 9 gives the reasons for its limits).

* `SlotsAgreeCorrect` assumes nothing else: any stream, any loss, delay and
  repetition. `RingInv` is `SlotsAgree`, with types, and with nothing waiting before
  the first packet. `MoveOn` is the step that all ways of going on have in common: the
  first k slots are empty and given up, and the distances of the rest are counted anew.
* `NothingDroppedCorrect` assumes `Fits`: the stream has at most `SeqMod - 3 * Ring`
  packets, 65,440 with the sizes of the code, so that a number is that of one packet
  only. Some such bound is needed: in a longer stream a jump over the wrap can bring
  a packet whose number is less than 3 rings behind the one expected, and it is
  taken for a repetition (TLC finds it with a ring of 4, numbers modulo 21 and 14
  packets). `DropInv` adds to `RingInv`: the slot at the front is numbered for the
  packet after the last one passed over (`NumInv`); those that came early wait
  (`EarlyInv`); and, where order is kept, all that was seen, including the numbers
  left behind in slots, is behind what is still to come (`CalmInv`), so that no packet
  can be found as a "stray packet" in place of one that was there before.
* `InOrderCorrect`, the action property, assumes `Fits` and `Near`. By `Fits` the numbers
  wrap only where the network keeps its order (`calm`, `base`): packets reordered
  across the wrap (line 103) are outside of the theorem, as is everything after a
  packet that is exactly a ring ahead (`clash`, line 115). By `Near` packets are late by
  fewer than two rings, less the `Ahead` packets that the ring can give up too soon.
  A packet that is 3 rings late is taken for the beginning of another stream and would
  be delivered; nothing in `rtp_cache` can tell. Giving up is the difficulty: each
  time the loop of `rtp_get_next` ends with an empty ring the packet expected is
  passed over, perhaps before it was sent. `Newest` is the account: each packet
  given up was paid for with `Ring - 3` datagrams, each either noise or a packet that was
  under way and no longer is; so the ring is never further than `Ahead` beyond the
  last packet the network has seen.

### UDP synchronisation

`UdpSyncProofs`, for every number of frames and datagrams: `TypeCorrect`,
`NeverAheadCorrect` and, if `Late` and `Second` are at most `Threshold`,
`SeeksWhenBehindCorrect`. `HeardInv`: before the master's first seek everything
in flight, received or heard is a frame it has played. `AgeInv` is about time: what
is in flight is at most `Late` frames old (`Fresh`); what waits is not older than
the slave needs (`Waiting`, with `NotOld`), and what the slave took last is within
`Late` of everything that follows it in the socket (`Orderly`), so a slave that
reads on does not find itself far ahead (`Place`). The assumption is what the
network bounds are for; without it a datagram that is late by more than the threshold
does make a slave seek back. `CatchesUp` and `ByeEnds` stay with TLC.

### The playlist

`PlayTreeProofs`, for every playlist that is `Proper` (section 6), of any size and depth,
with any loops, options, sources and playlist files, any number of commands and steps of
any length. Assumed of the constants: `OptsAssumption`, `TreeAssumption` and
`ValuesAssumption` (a loop counted down is a value of a loop again).
`PushesMatchPopsHolds` and `OptionsOfEntryHolds` both come from `IInv`. The
property `PushesMatchPops` speaks of the times when a file plays or the player has
stopped; what is pushed in between, inside of the iterator, is most of the invariant:

* `Well` and `Free`: the tree stays well formed while playlist files are replaced by what
  they hold. What a file holds is outside of the tree until then (`ListPutIn`), and
  removing the file leaves its group another child (`RemovedWell`).
* `Places`: the iterator, and the player's own while a copy is tried, are at nodes of the
  tree, with a lap on the stack for each group around.
* `Calls`, `Jobs`: the types, and where a call in progress can be; this is what excludes
  a crash in `Up`, `Down` and `play_tree_iter_get_file`.
* `Pushed`: when the options of the place itself are pushed, besides those around it.
* `Levels`: the level of the config is the depth of the place, plus one if `Pushed`.
* `Slotted`: each saved option has a slot for each level, numbered by it, so a pop takes
  away exactly what the last push added (`PopIs`).
* `Contents`: the slots hold, group by group, the options of the path to the place
  (`OptAt`), and the variables those of the place itself until a file plays. Hence
  `OptionsOfEntry`, whatever a file or the user changed in between. The options in
  `Aliased` are different (`Kept`): what is known of their slots leaves out the
  one of level 1, which any parameter may have written. That is why
  `PushesMatchPopsHolds` excepts them in the end, and why `OptionsOfEntryHolds` has
  `Outer` instead of the default.
* `Dropping`, `DroppingUp`: the step away from a playlist file that was read never comes
  to rest on that file, or on a group that the removal would leave empty, before the file
  is removed; alone in the root, a file that cannot be parsed ends the playlist.
* `Opening`: the player finds an entry when it starts or goes back to the head, so the
  iterator is not freed then.

`Levels`, `Contents` and what they need of the stack are stated for playlists without
shuffling (`InOrder`), as the properties are; the rest, with the types and the absence of
crashes, holds for all.

`Path` is a recursive function over the tree. No proof by induction is made about
it: `Founded` says that every set of nodes has a top-most one, so the set of nodes
without a path, or with two, is empty (`WayExists`, `WayUnique`), and from then on
a path is a sequence in which each node is a child of the one before it. A change of the
tree keeps the paths of the nodes it does not touch, because these are still paths.

There is a lemma for each action of the iterator that says what it does field by field
(`..Does`), one that it keeps each part of the invariant, and one for each action of
the player (`..Inv`).

Only model-checked: `PlaysAll` and `StepsLandNext`, which compare with the order that
the recursive functions `Heard` and `Leaves` compute from the whole tree (this needs
induction over data), and `PlaylistEnds` (liveness).

## 12. Not modelled

* **Android audio output** (`libao2/ao_android.c`). Its counters are compared
  with a driver whose behaviour when its buffer is full is not in the source. Read, not checked:
  `play` counts all it was given even if the device took less; `get_space` reports
  the whole capacity when nothing is free; the branch at line 388 cannot be reached.
* **Audio decode buffer** (`libmpcodecs/dec_audio.c`). Two byte buffers between a
  decoder and a filter chain whose answers are free; what was decoded before a change
  of format, as far as it does not fit, is dropped (line 394).
* **Main loop**: decoding, display, synchronisation of audio and video. What it does
  about files and commands is in sections 6 and 7.
* **A filler process that dies** (`cache2.c:128`): the player polls until the user
  interrupts it. The fairness of section 3 assumes a filler that lives.
* Video filters share image buffers by conventions that are spread over all of them.
* Container parsers other than FILM and codecs (data conversions), drivers, network
  protocol parsers (their contract is the stream layer's), option and command
  tables, the encoder and the graphical front ends (not built for Android), and
  vendored libraries. `PROJECT.json` lists each with its reason.
