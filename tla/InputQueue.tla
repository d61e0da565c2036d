----------------------------- MODULE InputQueue -----------------------------
(***************************************************************************)
(* The input layer (input/input.c): one call of mp_input_get_cmd gives the *)
(* player the next command: from the queue, or else of a key (or several   *)
(* held together), of a key that repeats, or of a line of slave input.     *)
(* The player looks for commands in four places: the main loop, the pause  *)
(* loop, wherever something long can be interrupted, and after a file that *)
(* did not open.  Some only peek, and a command peeked at stays queued.    *)
(*                                                                         *)
(* Commands have a number, in the order they came up.  Of their kind, only *)
(* what the four places tell apart is kept.  Left out: filters (this build *)
(* has none), commands for the pause loop itself (pausing 4), a key        *)
(* descriptor or callback other than the FIFO.                             *)
(***************************************************************************)
EXTENDS KeyFifo, CmdReader, SequencesExt

CONSTANTS
  Binds,           \* sequence of keys -> the kind of its command
  KindOf(_),       \* the kind of a line of slave input, by its first character
  MaxKeyDown,      \* MP_MAX_KEY_DOWN
  QueueSize,       \* CMD_QUEUE_SIZE
  MaxRepeats       \* bound: no key repeats after this many commands

Kinds == {"step", "pause", "other"}       \* step: those that stop a file

ASSUME InputAssumption == MaxKeyDown \in Nat /\ QueueSize \in Nat \ {0} /\ MaxRepeats \in Nat
ASSUME KindsAssumption ==
  /\ \A keys \in DOMAIN Binds : Binds[keys] \in Kinds
  /\ \A t \in Texts : \A i \in DOMAIN t : KindOf(t[i]) \in Kinds

VARIABLES
  key_down,        \* the keys down, each with whether it is a double click
  last_key_down,   \* not 0: the last event was a press
  ar_state, ar_cmd,
  queue,           \* cmd_queue
  ret,             \* the command that read_events found
  at,              \* where the call of mp_input_get_cmd is
  caller, peek,    \* who made it, and whether it only peeks
  paused,          \* the player is in the pause loop
  intr,            \* the command for which an interrupt was reported
  made, taken      \* history: commands made so far; the last one taken

keyvars   == <<key_down, last_key_down, ar_state, ar_cmd>>
callvars  == <<queue, ret, at, caller, peek>>
playvars  == <<paused, intr, made, taken>>
inputvars == <<fifovars, readervars, keyvars, callvars, playvars>>

Cmd(k)  == [no |-> made + 1, kind |-> k]
NoCmd   == [no |-> 0, kind |-> "other"]

Init ==
  /\ FifoInit /\ ReaderInit
  /\ key_down = <<>> /\ last_key_down = FALSE /\ ar_state = -1 /\ ar_cmd = "none"
  /\ queue = <<>> /\ ret = NoCmd /\ at = "idle" /\ caller = "main" /\ peek = FALSE
  /\ paused = FALSE /\ intr = 0 /\ made = 0 /\ taken = 0
-----------------------------------------------------------------------------
(* interpret_key                                                           *)

Bound(keys) == keys \in DOMAIN Binds
Found(k)    == ret' = Cmd(k) /\ made' = made + 1 /\ at' = "back"
Nothing(w)  == UNCHANGED <<ret, made>> /\ at' = w

Code(e) == <<e.key, e.is = "double">>

PressKeepsRepeat(e) ==     \* mutant: a press leaves the repeating key alone
  LET code == Code(e)
  IN  /\ e.is = "down"
      /\ IF Len(key_down) > MaxKeyDown \/ \E i \in DOMAIN key_down : key_down[i] = code
         THEN UNCHANGED keyvars
         ELSE /\ key_down' = Append(key_down, code) /\ last_key_down' = TRUE
              /\ ar_state' = (IF ar_state = 1 THEN 1 ELSE 0) /\ UNCHANGED ar_cmd
      /\ Nothing("repeat")

(* A press; the repeats of the keyboard are not presses                    *)
InterpretPress(e) ==
  LET code == Code(e)
  IN  /\ e.is = "down"
      /\ IF Len(key_down) > MaxKeyDown \/ \E i \in DOMAIN key_down : key_down[i] = code
         THEN UNCHANGED keyvars
         ELSE /\ key_down' = Append(key_down, code) /\ last_key_down' = TRUE
              /\ ar_state' = 0 /\ UNCHANGED ar_cmd
      /\ Nothing("repeat")

Without(code) == RemoveFirst(key_down, code)

(* A release, or the event of a driver that knows no presses: the command  *)
(* of all keys down, if a press came last                                  *)
InterpretRelease(e) ==
  LET code == Code(e)
      new  == \A i \in DOMAIN key_down : key_down[i] # code
      keys == IF new THEN Append(key_down, code) ELSE key_down
  IN  /\ e.is # "down"
      /\ IF new /\ Len(key_down) > MaxKeyDown
         THEN UNCHANGED keyvars /\ Nothing("repeat")
         ELSE /\ key_down' = Without(code) /\ last_key_down' = FALSE
              /\ ar_state' = -1 /\ ar_cmd' = "none"
              /\ IF (new \/ last_key_down) /\ Bound(keys)
                 THEN Found(Binds[keys]) ELSE Nothing("repeat")

(* read_events, from one source to the next until there is a command       *)
ReadKey ==
  /\ at = "keys"
  /\ \/ fifo = <<>> /\ UNCHANGED <<fifovars, keyvars>> /\ Nothing("repeat")
     \/ /\ fifo # <<>> /\ Get(Head(fifo))
        /\ InterpretPress(Head(fifo)) \/ InterpretRelease(Head(fifo))
  /\ UNCHANGED <<readervars, queue, caller, peek, paused, intr, taken>>

MayRepeat == ar_state >= 0 /\ key_down # <<>> /\ Last(key_down)[1] \notin Buttons

(* check_autorepeat, after the delay and then at its rate                  *)
Repeat ==
  /\ at = "repeat" /\ MayRepeat /\ made < MaxRepeats
  /\ IF ar_state = 1 THEN Found(ar_cmd) /\ UNCHANGED <<ar_state, ar_cmd>>
     ELSE IF Bound(key_down)
     THEN Found(Binds[key_down]) /\ ar_state' = 1 /\ ar_cmd' = Binds[key_down]
     ELSE Nothing("lines") /\ ar_state' = -1 /\ ar_cmd' = "none"
  /\ UNCHANGED <<fifovars, readervars, key_down, last_key_down, queue, caller, peek, paused, intr, taken>>

NoRepeat ==
  /\ at = "repeat" /\ Nothing("lines")
  /\ UNCHANGED <<fifovars, readervars, keyvars, queue, caller, peek, paused, intr, taken>>

(* Whatever the line is, it becomes a command (unknown ones are left out)  *)
LineRead ==
  /\ at = "lines"
  /\ \/ ReadLine /\ Found(KindOf(text[Last(lines') + 1]))
     \/ (ReadNoLine \/ (~open /\ UNCHANGED readervars)) /\ Nothing("back")
  /\ UNCHANGED <<fifovars, keyvars, queue, caller, peek, paused, intr, taken>>

(* The dead descriptors are removed first                                  *)
CloseLines ==
  /\ at = "start" /\ Close /\ at' = "keys"
  /\ UNCHANGED <<fifovars, keyvars, queue, ret, caller, peek, playvars>>

StartRead ==
  /\ at = "start" /\ ~(eof /\ open) /\ at' = "keys"
  /\ UNCHANGED <<fifovars, readervars, keyvars, queue, ret, caller, peek, playvars>>

ReadEvents == ReadKey \/ Repeat \/ NoRepeat \/ LineRead \/ CloseLines \/ StartRead
-----------------------------------------------------------------------------
(* mp_input_get_cmd                                                        *)

CallKeepsHead(who, p) ==   \* mutant: a queued command is never removed
  /\ caller' = who /\ peek' = p
  /\ UNCHANGED queue
  /\ IF queue = <<>> THEN at' = "start" /\ UNCHANGED ret ELSE at' = "got" /\ ret' = Head(queue)

Call(who, p) ==
  /\ caller' = who /\ peek' = p
  /\ IF queue = <<>> THEN at' = "start" /\ UNCHANGED <<queue, ret>>
     ELSE /\ at' = "got" /\ ret' = Head(queue)
          /\ queue' = IF p THEN queue ELSE Tail(queue)

PeekUnqueued ==            \* mutant: a command that was only peeked at is gone
  /\ at = "back" /\ at' = "got"
  /\ UNCHANGED <<fifovars, readervars, keyvars, queue, ret, caller, peek, playvars>>

(* A new command that is only peeked at goes to the queue                  *)
Back ==
  /\ at = "back" /\ at' = "got"
  /\ queue' = IF ret # NoCmd /\ peek /\ Len(queue) < QueueSize THEN Append(queue, ret) ELSE queue
  /\ UNCHANGED <<fifovars, readervars, keyvars, ret, caller, peek, playvars>>

Answer == at' = "idle" /\ ret' = NoCmd
Answered(who) == at = "got" /\ caller = who
-----------------------------------------------------------------------------
(* The player                                                              *)

(* The main loop takes commands and runs them; while paused it only peeks; *)
(* a check for an interruption peeks, and so it may be in the pause loop   *)
MainLoop ==
  /\ at = "idle" /\ Call(IF paused THEN "pause" ELSE "main", paused)
  /\ UNCHANGED <<fifovars, readervars, keyvars, playvars>>

(* After a file that could not be opened: libmpdemux_was_interrupted       *)
OpenFailed ==
  /\ at = "idle" /\ ~paused /\ Call("failed", FALSE)
  /\ UNCHANGED <<fifovars, readervars, keyvars, playvars>>

CheckInterrupt ==
  /\ at = "idle" /\ ~paused /\ Call("check", TRUE)
  /\ UNCHANGED <<fifovars, readervars, keyvars, playvars>>

Unchecked == UNCHANGED <<fifovars, readervars, keyvars, caller, peek, made>>
Taken     == taken' = IF ret = NoCmd THEN taken ELSE ret.no

(* run_command; a step command is seen in the main loop or there           *)
Run ==
  /\ Answered("main") \/ Answered("failed")
  /\ Answer /\ Taken /\ intr' = 0 /\ UNCHANGED queue
  /\ paused' = (caller = "main" /\ ret.kind = "pause")
  /\ Unchecked

(* pause_loop: any command ends it, and pause itself is taken              *)
PauseSees ==
  /\ Answered("pause")
  /\ IF ret # NoCmd /\ ret.kind = "pause"
     THEN Call("unpause", FALSE) /\ UNCHANGED <<paused, taken>>
     ELSE Answer /\ paused' = (ret = NoCmd) /\ UNCHANGED <<queue, caller, peek, taken>>
  /\ UNCHANGED <<fifovars, readervars, keyvars, intr, made>>

Unpause ==
  /\ Answered("unpause")
  /\ Answer /\ Taken /\ paused' = FALSE
  /\ UNCHANGED <<queue, intr>> /\ Unchecked

(* mp_input_check_interrupt: a command that stops the file stays in the    *)
(* queue, any other is removed                                             *)
CheckSees ==
  /\ Answered("check")
  /\ IF ret = NoCmd THEN Answer /\ UNCHANGED <<queue, caller, peek, intr>>
     ELSE IF ret.kind = "step" THEN Answer /\ intr' = ret.no /\ UNCHANGED <<queue, caller, peek>>
     ELSE Call("drop", FALSE) /\ UNCHANGED intr
  /\ UNCHANGED <<fifovars, readervars, keyvars, paused, made, taken>>

Dropped ==
  /\ Answered("drop")
  /\ Answer /\ Taken /\ UNCHANGED <<queue, paused, intr>> /\ Unchecked

(* The drivers look for keys between two calls, or just before one is read *)
UserActs == at = "idle" /\ Driver /\ UNCHANGED <<readervars, keyvars, callvars, playvars>>

Player == \/ ReadEvents \/ Back \/ MainLoop \/ Run \/ PauseSees \/ Unpause \/ CheckSees \/ Dropped

Next == \/ Player \/ OpenFailed \/ CheckInterrupt
        \/ UserActs

(* What can be interrupted ends, so the player comes back to its main loop *)
(* again and again, and every call returns                                 *)
Spec == Init /\ [][Next]_inputvars /\ WF_inputvars(Player) /\ SF_inputvars(MainLoop)
-----------------------------------------------------------------------------
(* Every variable has its type, and the FIFO and the buffer of a line keep *)
(* one entry free.                                                         *)
TypeOK ==
  /\ Len(fifo) < FifoSize /\ young \in 0 .. 2 /\ held \subseteq Keys
  /\ lo \in 0 .. hi /\ hi \in 0 .. Len(text) /\ hi - lo < BufferSize
  /\ ar_state \in -1 .. 1 /\ ar_cmd \in Kinds \cup {"none"}
  /\ Len(queue) <= QueueSize
  /\ \A i \in DOMAIN queue : queue[i] \in [no : Nat, kind : Kinds]

(* The command that repeats is that of the keys that are down, and a       *)
(* mouse button never repeats.                                             *)
RepeatIsCurrent == ar_state = 1 => Bound(key_down) /\ ar_cmd = Binds[key_down]

(* key_down has room for MaxKeyDown keys, and is not overrun ("Too many    *)
(* key down events").  The code fails this: num_key_down is tested with >. *)
KeyDownFits == Len(key_down) <= MaxKeyDown

(* It is overrun by one key at most.                                       *)
OverrunByOne == Len(key_down) <= MaxKeyDown + 1

(* A key that is down for the player is held down by the user, or its      *)
(* release is in the FIFO, or was refused by a full FIFO.  The last should *)
(* not be, by a comment there, but happens: see NoStuckKey, and, for what  *)
(* a full FIFO holds, ReserveKept.                                         *)
DownIsHeld ==
  \A i \in DOMAIN key_down : LET k == key_down[i][1] IN
    k \in held \/ k \in lost \/ Event(k, "up") \in Range(fifo)

(* The keys: what repeats is the command of what is down, and what is down *)
(* is held by the user but for the releases that were refused, and never   *)
(* because presses took the reserve; key_down is overrun by one key at     *)
(* most.  That it is overrun, and that releases are refused, are faults    *)
(* that this allows: see KeyDownFits and NoStuckKey.                       *)
KeysAgree == TypeOK /\ OverrunByOne /\ ReserveKept /\ DownIsHeld /\ RepeatIsCurrent

Waiting == IF at \in {"back", "got"} /\ ret # NoCmd
              /\ ~(queue # <<>> /\ Head(queue) = ret) THEN <<ret>> \o queue ELSE queue
(* A command that interrupted something is still there when the player is  *)
(* back in the main loop, first in the queue.                              *)
InterruptIsKept == intr # 0 /\ at = "idle" => queue # <<>> /\ Head(queue).no = intr

(* What a check for an interruption throws away is what it looked at, and  *)
(* never a command that stops the file.                                    *)
StepNotDropped == caller = "drop" /\ at = "got" => ret # NoCmd /\ ret.kind # "step"

(* No command is lost, doubled or overtaken, whoever peeks at it or takes  *)
(* it: those in the queue follow the last one taken; and a command that    *)
(* stops the file is neither thrown away nor gone once it was announced.   *)
CommandsInOrder ==
  /\ made = taken + Len(Waiting)
  /\ \A i \in DOMAIN Waiting : Waiting[i].no = taken + i
  /\ InterruptIsKept /\ StepNotDropped

(* Every command is taken in the end.                                      *)
CommandsTaken == queue # <<>> ~> queue = <<>>
=============================================================================
