---------------------------- MODULE CacheControl ----------------------------
(***************************************************************************)
(* The stream cache with its control mailbox (stream/cache2.c): the player *)
(* leaves a command in s->control (cache_do_control) and polls until the   *)
(* filler, which looks there between two calls of cache_fill, has replaced *)
(* it by -1 (cache_execute_control).  Without a lock, like the ring.       *)
(*                                                                         *)
(* The one driver of the build that knows a command is stream_ffmpeg.c,    *)
(* for STREAM_CTRL_SEEK_TO_TIME: the source goes on from another time, and *)
(* the stream's position counts on as if nothing had happened.             *)
(***************************************************************************)
EXTENDS CacheRing

CONSTANT MaxCommands     \* bound: how many commands the player issues

ASSUME CommandsAssumption == MaxCommands \in Nat

VARIABLES
  \* cache_vars_t: the mailbox.  A command is its kind and its number.
  control, control_arg, control_res, control_new_pos,
  \* the filler inside cache_execute_control: its pc and the command it serves
  xpc, xcmd,
  \* the player inside cache_do_control: its pc, its command
  cpc, cmd,
  \* history: the commands served and what each seek was given, the position
  \* of the first unit after the last move of the source, whether a command
  \* was given up, and whether one was given by a player beyond the window
  served, cut, gaveup, ahead

mailbox == <<control, control_arg, control_res, control_new_pos>>
ctl     == <<mailbox, xpc, xcmd, cpc, cmd, served, cut, gaveup, ahead>>
allvars == <<vars, ctl>>

Command(k, n) == [kind |-> k, no |-> n]
Empty         == Command("none", 0)          \* -1
Zeroed        == Command("reset", 0)         \* 0 is STREAM_CTRL_RESET
Reply(ok, c)  == [ok |-> ok, to |-> c.no]

(* memset of cache_vars_t: the mailbox holds a command nobody gave.        *)
CInit ==
  /\ Init
  /\ control = Zeroed /\ control_arg = 0 /\ control_res = Reply(TRUE, Zeroed)
  /\ control_new_pos = 0
  /\ xpc = "test" /\ xcmd = Empty /\ cpc = "none" /\ cmd = Empty
  /\ served = <<>> /\ cut = 0 /\ gaveup = FALSE /\ ahead = FALSE
-----------------------------------------------------------------------------
(* cache_execute_control, between two calls of cache_fill.                 *)

(* Nothing to do: the next round of cache_mainloop                         *)
NoCommand ==
  /\ fpc = "control" /\ xpc = "test" /\ control = Empty
  /\ FillLoop /\ UNCHANGED ctl

SomeCommand ==
  /\ fpc = "control" /\ xpc = "test" /\ control # Empty
  /\ xpc' = "switch"
  /\ UNCHANGED <<vars, mailbox, xcmd, cpc, cmd, served, cut, gaveup, ahead>>

ClearBeforeServed ==              \* mutant: the mailbox is emptied first
  /\ xpc = "switch"
  /\ xcmd' = control /\ control' = Empty /\ xpc' = "serve"
  /\ UNCHANGED <<vars, control_arg, control_res, control_new_pos, cpc, cmd, served, cut, gaveup,
                 ahead>>

(* switch (s->control): the field is volatile, and loaded again            *)
Switch ==
  /\ xpc = "switch"
  /\ xcmd' = control /\ xpc' = "serve"
  /\ UNCHANGED <<vars, mailbox, cpc, cmd, served, cut, gaveup, ahead>>

(* The call of the driver, with the argument as it is now                  *)
Serve ==
  /\ xpc = "serve"
  /\ \E ok \in BOOLEAN :
       /\ ok => xcmd.kind = "seek"
       /\ control_res' = Reply(ok, xcmd)
       /\ served' = IF xcmd.no = 0 THEN served
                    ELSE Append(served, [to |-> xcmd.no, ok |-> ok, arg |-> control_arg])
       /\ cut' = IF ok THEN upos ELSE cut
  /\ xpc' = "newpos"
  /\ UNCHANGED <<vars, control, control_arg, control_new_pos, xcmd, cpc, cmd, gaveup, ahead>>

NewPos ==
  /\ xpc = "newpos"
  /\ control_new_pos' = upos /\ xpc' = "clear"
  /\ UNCHANGED <<vars, control, control_arg, control_res, xcmd, cpc, cmd, served, cut, gaveup,
                 ahead>>

ClearForgotten ==                 \* mutant: the command stays in the mailbox
  /\ xpc = "clear"
  /\ xpc' = "test" /\ xcmd' = Empty
  /\ FillLoop
  /\ UNCHANGED <<mailbox, cpc, cmd, served, cut, gaveup, ahead>>

(* The mailbox is empty again; the next round of cache_mainloop            *)
Clear ==
  /\ xpc = "clear"
  /\ control' = Empty
  /\ xpc' = "test" /\ xcmd' = Empty
  /\ FillLoop
  /\ UNCHANGED <<control_arg, control_res, control_new_pos, cpc, cmd, served, cut, gaveup,
                 ahead>>

ExecuteControl ==
  fpc # "dead" /\ (NoCommand \/ SomeCommand \/ Switch \/ Serve \/ NewPos \/ Clear)
-----------------------------------------------------------------------------
(* cache_do_control, called by the demuxers and the main loop.             *)

AskUnstored(k) ==                 \* mutant: the argument is not stored
  /\ ppc = "idle" /\ cpc = "none" /\ cmd.no < MaxCommands
  /\ cmd' = Command(k, cmd.no + 1)
  /\ cpc' = "store" /\ ahead' = (ahead \/ read_filepos > max_filepos)
  /\ UNCHANGED <<vars, mailbox, xpc, xcmd, served, cut, gaveup>>

(* The argument of a seek is stored first                                  *)
Ask(k) ==
  /\ ppc = "idle" /\ cpc = "none" /\ cmd.no < MaxCommands
  /\ cmd' = Command(k, cmd.no + 1)
  /\ control_arg' = IF k = "seek" THEN cmd.no + 1 ELSE control_arg
  /\ cpc' = "store" /\ ahead' = (ahead \/ read_filepos > max_filepos)
  /\ UNCHANGED <<vars, control, control_res, control_new_pos, xpc, xcmd, served, cut, gaveup>>

Store ==
  /\ cpc = "store"
  /\ control' = cmd /\ cpc' = "wait"
  /\ UNCHANGED <<vars, control_arg, control_res, control_new_pos, xpc, xcmd, cmd, served,
                 cut, gaveup, ahead>>

(* while (s->control != -1): served                                        *)
Served ==
  /\ cpc = "wait" /\ control = Empty
  /\ cpc' = "result"
  /\ UNCHANGED <<vars, mailbox, xpc, xcmd, cmd, served, cut, gaveup, ahead>>

(* stream_check_interrupt: the player gives up, the command stays          *)
GiveUp ==
  /\ cpc = "wait" /\ control # Empty /\ Interrupts
  /\ eof' = TRUE
  /\ cpc' = "none" /\ gaveup' = TRUE
  /\ UNCHANGED <<buffer, min_filepos, max_filepos, offset, read_filepos, filler, player,
                 mailbox, xpc, xcmd, cmd, served, cut, ahead>>

Result ==
  /\ cpc = "result"
  /\ cpc' = IF cmd.kind = "seek" /\ control_res.ok THEN "apply" ELSE "return"
  /\ UNCHANGED <<vars, mailbox, xpc, xcmd, cmd, served, cut, gaveup, ahead>>

ApplyPosOnly ==                   \* mutant: read_filepos is not moved with pos
  /\ cpc = "apply"
  /\ pos' = control_new_pos
  /\ cpc' = "return"
  /\ UNCHANGED <<shared, filler, ppc, sbuf, seof, got, seenmax,
                 newb, slot, done, mailbox, xpc, xcmd, cmd, served, cut, gaveup, ahead>>

(* stream->pos = s->read_filepos = s->control_new_pos                      *)
Apply ==
  /\ cpc = "apply"
  /\ pos' = control_new_pos /\ read_filepos' = control_new_pos
  /\ cpc' = "return"
  /\ UNCHANGED <<buffer, eof, min_filepos, max_filepos, offset, filler, ppc, sbuf, seof, got,
                 seenmax, newb, slot, done, mailbox, xpc, xcmd, cmd, served, cut, gaveup, ahead>>

AnswerAndReturn ==
  /\ cpc = "return"
  /\ cpc' = "none"
  /\ UNCHANGED <<vars, mailbox, xpc, xcmd, cmd, served, cut, gaveup, ahead>>

(* What the player does without the user's interrupt                       *)
DoControl == Store \/ Served \/ Result \/ Apply \/ AnswerAndReturn
-----------------------------------------------------------------------------
CacheFill == fpc \notin {"control", "dead"} /\ Filler /\ UNCHANGED ctl

(* One call of the player at a time.                                       *)
CacheCall == cpc = "none" /\ Working /\ UNCHANGED ctl

CNext ==
  \/ CacheFill \/ ExecuteControl
  \/ CacheCall \/ (cpc = "none" /\ Calls /\ UNCHANGED ctl)
  \/ DoControl \/ GiveUp \/ \E k \in {"seek", "query"} : Ask(k)
  \/ (Ended /\ UNCHANGED ctl)

CSpec ==
  /\ CInit /\ [][CNext]_allvars
  /\ WF_allvars(CacheFill \/ ExecuteControl) /\ WF_allvars(CacheCall \/ DoControl)
-----------------------------------------------------------------------------
(* Properties.                                                             *)

(* Unless a command was given up before, no command gets the reply to      *)
(* another: the one reply that is not its own is the one to the zeroed     *)
(* mailbox, which the first command may get.                               *)
RepliesMatch ==
  cpc = "return" /\ ~gaveup => control_res.to = cmd.no \/ (control_res.to = 0 /\ cmd.no = 1)

(* A command is served at most once, and in order, also when the player    *)
(* gave it up and left it or another one behind in the mailbox.            *)
ServedOnce == \A i, j \in DOMAIN served : i < j => served[i].to < served[j].to

(* A seek is given its own argument, unless the player gave a command up   *)
(* and stored the next argument over its own.                              *)
OwnArgument ==
  ~gaveup => \A i \in DOMAIN served : served[i].ok => served[i].arg = served[i].to

(* The player does not read over a place where the source was moved unless *)
(* it asked for the move, and did not give up waiting for it.              *)
NoSilentJump ==
  cpc = "none" /\ ~gaveup /\ ~ahead => ~(read_filepos < cut /\ cut < max_filepos)

(* After a seek that succeeded the player reads on with the first unit the *)
(* source delivered after its move, and that unit is not dropped; at no    *)
(* other place does it read across a move.  Nothing is said once a command *)
(* was given up, or given by a player that a seek by position had left     *)
(* beyond the window: the filler then drops the ring for that seek between *)
(* its answer and the player's use of it.                                  *)
SeekLandsAtCut ==
  /\ NoSilentJump
  /\ cpc = "return" /\ cmd.kind = "seek" /\ control_res.ok /\ ~gaveup /\ ~ahead =>
       read_filepos = cut /\ pos = cut /\ min_filepos <= cut

(* A command is answered, without an interrupt having to come.             *)
CommandReturns == (cpc = "wait") ~> (cpc = "none")

(* "It does fork(), then emulates stream driver in the parent process":    *)
(* what the driver answered to a command is what the caller gets, also for *)
(* a command after one that was given up.                                  *)
LaterAnswerIsOwn == cpc = "return" /\ cmd.no > 1 => control_res.to = cmd.no

(* A stream that was moved is not at its end before it was read again.     *)
SeekEndsEof == cpc = "return" /\ cmd.kind = "seek" /\ control_res.ok => ~eof
=============================================================================
