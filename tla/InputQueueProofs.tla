-------------------------- MODULE InputQueueProofs --------------------------
(***************************************************************************)
(* Proofs about the input layer, for all keys, bindings, lines and sizes:  *)
(* whoever looks for commands, and whether or not it takes what it sees,   *)
(* no command is lost, doubled or overtaken; every line that fits into the *)
(* buffer becomes a command; and no key is stuck down, unless the FIFO had *)
(* no room for its release.                                                *)
(***************************************************************************)
EXTENDS InputQueue, SequenceTheorems, WellFoundedInduction, TLAPS

(* A sequence of one element, as the only one the queue ever holds is.     *)
LEMMA OneElement ==
  ASSUME NEW c
  PROVE  /\ Append(<<>>, c) = <<c>> /\ <<c>> # <<>> /\ Len(<<c>>) = 1 /\ DOMAIN <<c>> = {1}
         /\ <<c>>[1] = c /\ Head(<<c>>) = c /\ Tail(<<c>>) = <<>>
         /\ <<c>> \o <<>> = <<c>>
  OBVIOUS
-----------------------------------------------------------------------------
(* At most one command waits: the queue is only added to when it is empty. *)
NoneWaits == queue = <<>> /\ ret = NoCmd /\ made = taken /\ intr = 0

Waits(c) == /\ c.no = made /\ made = taken + 1
            /\ intr # 0 => intr = c.no /\ c.kind = "step"

(* It is in the queue, or was just found, or its caller has it, who has    *)
(* taken it from the queue or, if he only peeks, has not.                  *)
PlaceInv ==
  \/ NoneWaits
  \/ at = "idle" /\ ret = NoCmd /\ queue = <<queue[1]>> /\ Waits(queue[1])
  \/ at = "back" /\ queue = <<>> /\ Waits(ret)
  \/ at = "got" /\ peek /\ queue = <<ret>> /\ Waits(ret)
  \/ at = "got" /\ ~peek /\ queue = <<>> /\ Waits(ret)

Readers == {"main", "failed", "check", "pause"}

CallerInv ==
  /\ at \in {"idle", "start", "keys", "repeat", "lines", "back", "got"}
  /\ caller \in Readers \cup {"unpause", "drop"}
  /\ peek = (caller \in {"check", "pause"})
  /\ at \notin {"idle", "got"} => caller \in Readers
  /\ at = "got" /\ caller = "drop" => ret # NoCmd /\ ret.kind # "step"
  /\ at = "got" /\ caller = "unpause" => ret # NoCmd /\ ret.kind = "pause"

Inv == /\ made \in Nat /\ taken \in Nat /\ intr \in Nat /\ paused \in BOOLEAN
       /\ PlaceInv /\ CallerInv

LEMMA InitInv == ASSUME Init PROVE Inv
<1>1. NoneWaits /\ intr \in Nat /\ made \in Nat /\ taken \in Nat /\ paused \in BOOLEAN
  BY DEF Init, NoneWaits
<1>2. at = "idle" /\ caller = "main" /\ peek = FALSE
  BY DEF Init
<1>3. ("main" \in {"check", "pause"}) = FALSE
  OBVIOUS
<1>4. peek = (caller \in {"check", "pause"})
  BY <1>2, <1>3, Zenon
<1>5. CallerInv
  BY <1>2, <1>4 DEF CallerInv, Readers
<1>6. QED BY <1>1, <1>5 DEF Inv, PlaceInv

LEMMA WaitsIsCmd == ASSUME Inv, NEW c, Waits(c) PROVE c # NoCmd
  BY DEF Inv, Waits, NoCmd

(* The drivers and the readers of keys and lines, as far as they find      *)
(* nothing.                                                                *)
LEMMA LookingInv ==
  ASSUME Inv, at \notin {"back", "got"}, UNCHANGED <<queue, caller, peek, paused, intr, taken>>,
         \/ UNCHANGED <<at, ret, made>>
         \/ at # "idle" /\ at' \in {"keys", "repeat", "lines", "back"} /\ UNCHANGED <<ret, made>>
         \/ at # "idle" /\ at' = "back" /\ (\E k : ret' = Cmd(k)) /\ made' = made + 1
  PROVE  Inv'
<1>1. CASE UNCHANGED <<at, ret, made>>
  BY <1>1 DEF Inv, PlaceInv, CallerInv, NoneWaits, Waits, Readers, NoCmd
<1>2. CASE at # "idle" /\ at' \in {"keys", "repeat", "lines", "back"} /\ UNCHANGED <<ret, made>>
  BY <1>2 DEF Inv, PlaceInv, CallerInv, NoneWaits, Readers, NoCmd
<1>3. CASE at # "idle" /\ at' = "back" /\ (\E k : ret' = Cmd(k)) /\ made' = made + 1
  <2>1. PICK k : ret' = Cmd(k)
    BY <1>3
  <2>2. NoneWaits
    BY <1>3 DEF Inv, PlaceInv
  <2>3. made' = made + 1 /\ made' \in Nat /\ ret'.no = made + 1
    BY <1>3, <2>1 DEF Cmd, Inv
  <2>4. queue' = <<>> /\ Waits(ret)'
    BY <1>3, <2>2, <2>3 DEF NoneWaits, Waits
  <2>5. PlaceInv'
    BY <1>3, <2>4 DEF PlaceInv
  <2>6. CallerInv'
    BY <1>3 DEF Inv, CallerInv, Readers
  <2>7. QED BY <2>3, <2>5, <2>6 DEF Inv
<1>4. QED BY <1>1, <1>2, <1>3

LEMMA ReadInv == ASSUME Inv, ReadEvents \/ UserActs PROVE Inv'
<1>1. CASE UserActs
  BY <1>1, LookingInv DEF UserActs, callvars, playvars
<1>2. CASE ReadKey
  BY <1>2, LookingInv DEF ReadKey, InterpretPress, InterpretRelease, Nothing, Found
<1>3. CASE Repeat
  BY <1>3, LookingInv DEF Repeat, Nothing, Found
<1>4. CASE NoRepeat
  BY <1>4, LookingInv DEF NoRepeat, Nothing
<1>5. CASE LineRead
  BY <1>5, LookingInv DEF LineRead, Nothing, Found
<1>6. CASE CloseLines \/ StartRead
  BY <1>6, LookingInv DEF CloseLines, StartRead, playvars
<1>7. QED BY <1>1, <1>2, <1>3, <1>4, <1>5, <1>6 DEF ReadEvents
-----------------------------------------------------------------------------
(* A call that finds the queue empty starts to read; otherwise it has the  *)
(* command that waits.                                                     *)
LEMMA CallInv ==
  ASSUME Inv, NEW who \in Readers, at = "idle", Call(who, who \in {"check", "pause"}),
         UNCHANGED <<made, taken, paused, intr>>
  PROVE  Inv'
<1>1. caller' = who /\ peek' = (who \in {"check", "pause"})
  BY DEF Call
<1>2. CASE NoneWaits
  BY <1>1, <1>2 DEF Call, NoneWaits, Inv, PlaceInv, CallerInv, Readers, NoCmd
<1>3. CASE queue = <<queue[1]>> /\ Waits(queue[1])
  <2>1. /\ queue # <<>> /\ Head(queue) = queue[1] /\ Tail(queue) = <<>>
    BY <1>3, OneElement
  <2>2. at' = "got" /\ ret' = queue[1] /\ queue' = IF peek' THEN queue ELSE <<>>
    BY <1>1, <2>1 DEF Call
  <2>3. Waits(ret)'
    BY <1>3, <2>2 DEF Waits
  <2>4. QED BY <1>1, <1>3, <2>2, <2>3 DEF Inv, PlaceInv, CallerInv, Readers
<1>4. QED BY <1>2, <1>3 DEF Inv, PlaceInv

LEMMA LookInv == ASSUME Inv, MainLoop \/ OpenFailed \/ CheckInterrupt PROVE Inv'
<1>1. CASE MainLoop
  <2>1. /\ ("main" \in {"check", "pause"}) = FALSE /\ ("pause" \in {"check", "pause"}) = TRUE
        /\ "main" \in Readers /\ "pause" \in Readers
    BY DEF Readers
  <2>2. at = "idle" /\ UNCHANGED <<made, taken, paused, intr>>
    BY <1>1 DEF MainLoop, playvars
  <2>3. Call("pause", TRUE) \/ Call("main", FALSE)
    BY <1>1 DEF MainLoop, Inv
  <2>4. \/ Call("pause", "pause" \in {"check", "pause"})
        \/ Call("main", "main" \in {"check", "pause"})
    BY <2>1, <2>3, Zenon
  <2>5. QED BY <2>1, <2>2, <2>4, CallInv
<1>2. CASE OpenFailed
  <2>1. ("failed" \in {"check", "pause"}) = FALSE /\ "failed" \in Readers
    BY DEF Readers
  <2>2. at = "idle" /\ Call("failed", FALSE) /\ UNCHANGED <<made, taken, paused, intr>>
    BY <1>2 DEF OpenFailed, playvars
  <2>3. Call("failed", "failed" \in {"check", "pause"})
    BY <2>1, <2>2, Zenon
  <2>4. QED BY <2>1, <2>2, <2>3, CallInv
<1>3. CASE CheckInterrupt
  <2>1. ("check" \in {"check", "pause"}) = TRUE /\ "check" \in Readers
    BY DEF Readers
  <2>2. at = "idle" /\ Call("check", TRUE) /\ UNCHANGED <<made, taken, paused, intr>>
    BY <1>3 DEF CheckInterrupt, playvars
  <2>3. Call("check", "check" \in {"check", "pause"})
    BY <2>1, <2>2, Zenon
  <2>4. QED BY <2>1, <2>2, <2>3, CallInv
<1>4. QED BY <1>1, <1>2, <1>3

LEMMA BackInv == ASSUME Inv, Back PROVE Inv'
<1>1. /\ at = "back" /\ at' = "got" /\ UNCHANGED <<ret, caller, peek, made, taken, paused, intr>>
      /\ queue' = IF ret # NoCmd /\ peek /\ Len(queue) < QueueSize THEN Append(queue, ret) ELSE queue
  BY DEF Back, playvars
<1>2. queue = <<>>
  BY <1>1 DEF Inv, PlaceInv, NoneWaits
<1>3. Len(queue) < QueueSize
  BY <1>2, InputAssumption DEF InputAssumption
<1>4. CASE NoneWaits
  BY <1>1, <1>4 DEF NoneWaits, Inv, PlaceInv, CallerInv, Readers, NoCmd
<1>5. CASE Waits(ret)
  <2>1. ret # NoCmd
    BY <1>5, WaitsIsCmd
  <2>2. queue' = IF peek THEN <<ret>> ELSE <<>>
    BY <1>1, <1>2, <1>3, <2>1, OneElement
  <2>3. QED BY <1>1, <1>5, <2>1, <2>2 DEF Inv, PlaceInv, CallerInv, Readers, Waits, NoCmd
<1>6. QED BY <1>1, <1>4, <1>5 DEF Inv, PlaceInv
-----------------------------------------------------------------------------
(* What the callers do with what they got.                                 *)

LEMMA TakenInv ==
  ASSUME Inv, at = "got", ~peek, Answer, Taken, UNCHANGED <<queue, caller, peek, made>>,
         intr' = 0, paused' \in BOOLEAN
  PROVE  Inv'
<1>1. at' = "idle" /\ ret' = NoCmd
  BY DEF Answer
<1>2. CASE NoneWaits
  BY <1>1, <1>2 DEF Taken, NoneWaits, Inv, PlaceInv, CallerInv, Readers, NoCmd
<1>3. CASE queue = <<>> /\ Waits(ret)
  <2>1. taken' = made
    BY <1>3, WaitsIsCmd DEF Taken, Waits
  <2>2. QED BY <1>1, <1>3, <2>1 DEF NoneWaits, Inv, PlaceInv, CallerInv, Readers, NoCmd
<1>4. QED BY <1>2, <1>3 DEF Inv, PlaceInv

LEMMA RunInv == ASSUME Inv, Run PROVE Inv'
  BY TakenInv DEF Run, Answered, Unchecked, Inv, CallerInv

LEMMA LeftInv ==
  ASSUME Inv, at = "got", ~peek, Answer, Taken, UNCHANGED <<queue, caller, peek, made, intr>>,
         paused' \in BOOLEAN, ret # NoCmd /\ ret.kind # "step"
  PROVE  Inv'
<1>1. intr = 0
  BY DEF Inv, PlaceInv, NoneWaits, Waits
<1>2. QED BY <1>1, TakenInv

LEMMA UnpauseInv == ASSUME Inv, Unpause \/ Dropped PROVE Inv'
  BY LeftInv DEF Unpause, Dropped, Answered, Unchecked, Inv, CallerInv

(* Who only peeked leaves the command where it is, or calls again for it.  *)
LEMMA LeaveInv ==
  ASSUME Inv, at = "got", peek, Answer, UNCHANGED <<queue, caller, peek, made, taken>>, paused' \in BOOLEAN,
         intr' = intr \/ (ret # NoCmd /\ ret.kind = "step" /\ intr' = ret.no)
  PROVE  Inv'
<1>1. at' = "idle" /\ ret' = NoCmd
  BY DEF Answer
<1>2. CASE NoneWaits
  BY <1>1, <1>2 DEF NoneWaits, Inv, PlaceInv, CallerInv, Readers, NoCmd
<1>3. CASE queue = <<ret>> /\ Waits(ret)
  <2>1. queue' = <<queue'[1]>> /\ queue'[1] = ret
    BY <1>3, OneElement
  <2>2. Waits(queue[1])' /\ intr' \in Nat
    BY <1>3, <2>1 DEF Waits, Inv
  <2>3. QED BY <1>1, <2>1, <2>2 DEF Inv, PlaceInv, CallerInv, Readers
<1>4. QED BY <1>2, <1>3 DEF Inv, PlaceInv

LEMMA AgainInv ==
  ASSUME Inv, at = "got", peek, ret # NoCmd, UNCHANGED <<made, taken, paused, intr>>,
         \/ Call("drop", FALSE) /\ ret.kind # "step"
         \/ Call("unpause", FALSE) /\ ret.kind = "pause"
  PROVE  Inv'
<1>1. queue = <<ret>> /\ Waits(ret)
  BY DEF Inv, PlaceInv, NoneWaits
<1>2. queue # <<>> /\ Head(queue) = ret /\ Tail(queue) = <<>>
  BY <1>1, OneElement
<1>3. at' = "got" /\ ret' = ret /\ queue' = <<>> /\ peek' = FALSE
  BY <1>2 DEF Call
<1>4. Waits(ret)'
  BY <1>1, <1>3 DEF Waits
<1>5. CASE Call("drop", FALSE) /\ ret.kind # "step"
  <2>1. caller' = "drop" /\ ("drop" \in {"check", "pause"}) = FALSE
    BY <1>5 DEF Call
  <2>2. peek' = (caller' \in {"check", "pause"})
    BY <1>3, <2>1, Zenon
  <2>3. CallerInv'
    BY <1>3, <1>5, <2>1, <2>2 DEF CallerInv, Readers, NoCmd
  <2>4. QED BY <1>3, <1>4, <2>3 DEF Inv, PlaceInv
<1>6. CASE Call("unpause", FALSE) /\ ret.kind = "pause"
  <2>1. caller' = "unpause" /\ ("unpause" \in {"check", "pause"}) = FALSE
    BY <1>6 DEF Call
  <2>2. peek' = (caller' \in {"check", "pause"})
    BY <1>3, <2>1, Zenon
  <2>3. CallerInv'
    BY <1>3, <1>6, <2>1, <2>2 DEF CallerInv, Readers, NoCmd
  <2>4. QED BY <1>3, <1>4, <2>3 DEF Inv, PlaceInv
<1>7. QED BY <1>5, <1>6

LEMMA PauseInv == ASSUME Inv, PauseSees PROVE Inv'
  BY LeaveInv, AgainInv DEF PauseSees, Answered, Inv, CallerInv

LEMMA CheckInv == ASSUME Inv, CheckSees PROVE Inv'
  BY LeaveInv, AgainInv DEF CheckSees, Answered, Inv, CallerInv

LEMMA StutterInv == ASSUME Inv, UNCHANGED inputvars PROVE Inv'
  BY DEF Inv, PlaceInv, CallerInv, NoneWaits, Waits, Readers, NoCmd, inputvars, callvars, playvars

LEMMA NextInv == ASSUME Inv, [Next]_inputvars PROVE Inv'
  BY ReadInv, LookInv, BackInv, RunInv, UnpauseInv, PauseInv, CheckInv, StutterInv
  DEF Next, Player

LEMMA InvOrders == Inv => CommandsInOrder
<1> SUFFICES ASSUME Inv PROVE CommandsInOrder
  OBVIOUS
<1>1. InterruptIsKept
  BY OneElement DEF Inv, PlaceInv, NoneWaits, Waits, InterruptIsKept
<1>2. StepNotDropped
  BY DEF Inv, CallerInv, StepNotDropped
<1>3. CASE NoneWaits
  BY <1>1, <1>2, <1>3 DEF NoneWaits, CommandsInOrder, Waiting, Inv
<1>4. ASSUME NEW c, Waits(c), Waiting = <<c>> PROVE CommandsInOrder
  BY <1>1, <1>2, <1>4, OneElement DEF Waits, CommandsInOrder, Inv
<1>5. CASE at = "idle" /\ queue = <<queue[1]>> /\ Waits(queue[1])
  BY <1>4, <1>5 DEF Waiting
<1>6. CASE at \in {"back", "got"} /\ queue = <<>> /\ Waits(ret)
  BY <1>4, <1>6, OneElement, WaitsIsCmd DEF Waiting
<1>7. CASE at = "got" /\ queue = <<ret>> /\ Waits(ret)
  BY <1>4, <1>7, OneElement DEF Waiting
<1>8. QED BY <1>3, <1>5, <1>6, <1>7 DEF Inv, PlaceInv

(* No command is lost, doubled or overtaken, and a command that stops the  *)
(* file is neither thrown away nor gone once it was announced, whatever    *)
(* keys are pressed, lines written and checks made in between.             *)
THEOREM CommandsInOrderCorrect == Spec => []CommandsInOrder
  BY InvOrders, InitInv, NextInv, PTL DEF Spec
-----------------------------------------------------------------------------
(* The order of the natural numbers, and the least of a set of them: MIN   *)
(* is a CHOOSE, and that what it chooses exists is well-foundedness.       *)
Below == {ss \in Nat \X Nat : ss[1] < ss[2]}
LEMMA BelowIsWellFounded == IsWellFoundedOn(Below, Nat)
<1> SUFFICES ASSUME NEW f \in [Nat -> Nat], \A n \in Nat : <<f[n + 1], f[n]>> \in Below PROVE FALSE
  BY DEF IsWellFoundedOn
<1>1. \A n \in Nat : f[n+1] < f[n]
  BY DEF Below
<1>2. QED BY NatLessThanWellFounded, <1>1 DEF IsWellFoundedOn, OpToRel

LEMMA MinIsLeast ==
  ASSUME NEW S \in SUBSET Nat, S # {}
  PROVE  Min(S) \in S /\ \A y \in S : Min(S) <= y
<1>1. PICK x \in S : \A y \in S : ~(<<y, x>> \in Below)
  BY WFMin, BelowIsWellFounded
<1>2. ASSUME NEW y \in S, ~(x <= y) PROVE FALSE
  <2>1. <<y, x>> \in Nat \X Nat /\ y < x
    BY <1>2
  <2>2. QED BY <1>1, <2>1 DEF Below
<1>3. QED BY <1>2 DEF Min

(* Of three places in order, two are no farther apart than all three.      *)
LEMMA Apart ==
  ASSUME NEW a \in Nat, NEW b \in Nat, NEW c \in Nat, NEW d \in Nat, NEW k \in Nat,
         a <= b, b <= c, c <= d, d - a <= k - 1
  PROVE  c - b <= k - 1 /\ d - c <= k - 1 /\ d - b <= k - 1
  OBVIOUS

LEMMA Beyond ==
  ASSUME NEW a \in Nat, NEW b \in Nat, NEW c \in Nat, NEW k \in Nat, b < c, b - a >= k - 1
  PROVE  ~(c - a <= k - 1)
  OBVIOUS

(* The reader of lines: the buffer is a stretch of the text that fits.     *)
BufInv ==
  /\ Len(text) \in Nat /\ lo \in Nat /\ hi \in Nat /\ lo <= hi /\ hi <= Len(text)
  /\ hi - lo <= BufferSize - 1
  /\ got_cmd \in BOOLEAN /\ drop \in BOOLEAN /\ eof \in BOOLEAN /\ open \in BOOLEAN
  /\ lines \in Seq(Nat)

(* What the flags mean.  Without drop the buffer begins with a line; with  *)
(* drop it begins inside one and holds no end of it.  At the end of the    *)
(* text everything was read and no line is left.                           *)
FlagInv ==
  /\ got_cmd => Ends(lo, hi) # {}
  /\ Ends(lo, hi) # {} => got_cmd
  /\ ~drop => lo \in Starts
  /\ drop => lo \notin Starts /\ Ends(lo, hi) = {}
  /\ eof => hi = Len(text) /\ Ends(lo, hi) = {}
  /\ ~open => eof

(* Where the lines that fit begin.                                         *)
WholeLines == {s \in Starts : Whole(s)}

(* The lines returned are lines that fit, in order, and every one of those *)
(* that begins before the buffer is among them.                            *)
LineInv ==
  /\ \A i \in 1 .. Len(lines) : lines[i] \in WholeLines /\ lines[i] < lo
  /\ \A i, j \in 1 .. Len(lines) : i < j => lines[i] < lines[j]
  /\ \A s \in WholeLines : s < lo => \E i \in 1 .. Len(lines) : lines[i] = s

ReaderInv == BufInv /\ FlagInv /\ LineInv

(* The first end of a line in a stretch of the text.                       *)
LEMMA LeastEnd ==
  ASSUME NEW from \in Nat, NEW to \in Nat, Ends(from, to) # {}
  PROVE  LET e == Min(Ends(from, to))
         IN  e \in Ends(from, to) /\ \A y \in Ends(from, to) : e <= y
<1>1. Ends(from, to) \in SUBSET Nat
  BY DEF Ends
<1>2. QED BY <1>1, MinIsLeast

(* It is the end of the line also in all of the text.                      *)
LEMMA NextEndIs ==
  ASSUME NEW from \in Nat, NEW to \in Nat, Len(text) \in Nat, to <= Len(text), Ends(from, to) # {}
  PROVE  Ends(from, Len(text)) # {} /\ NextEnd(from) = Min(Ends(from, to))
<1>1. Ends(from, to) \subseteq Ends(from, Len(text))
  BY DEF Ends
<1>2. /\ Min(Ends(from, Len(text))) \in Ends(from, Len(text))
      /\ \A y \in Ends(from, Len(text)) : Min(Ends(from, Len(text))) <= y
  BY <1>1, LeastEnd
<1>3. Min(Ends(from, to)) \in Ends(from, to) /\ \A y \in Ends(from, to) : Min(Ends(from, to)) <= y
  BY LeastEnd
<1>4. Min(Ends(from, Len(text))) \in Ends(from, to)
  BY <1>1, <1>2, <1>3 DEF Ends
<1>5. Min(Ends(from, Len(text))) \in Nat /\ Min(Ends(from, to)) \in Nat
  BY <1>2, <1>3 DEF Ends
<1>6. QED BY <1>1, <1>2, <1>3, <1>4, <1>5 DEF NextEnd

LEMMA WholeAreNat == Len(text) \in Nat => Starts \subseteq Nat /\ WholeLines \subseteq Nat
  BY DEF Starts, Ends, WholeLines

LEMMA TextKept == UNCHANGED text => UNCHANGED <<Starts, WholeLines>>
  BY DEF WholeLines, Starts, Whole, Ends, NextEnd

(* The buffer moves on, past no line that fits.                            *)
LEMMA LinesKept ==
  ASSUME BufInv, LineInv, lo' \in Nat, lo <= lo', UNCHANGED <<text, lines>>,
         \A s \in WholeLines : ~(lo <= s /\ s < lo')
  PROVE  LineInv'
<1>1. WholeLines' = WholeLines
  BY TextKept
<1>2. WholeLines \subseteq Nat /\ lo \in Nat
  BY WholeAreNat DEF BufInv
<1>3. \A s \in WholeLines : s < lo' => s < lo
  BY <1>2
<1>4. \A s \in WholeLines : s < lo => s < lo'
  BY <1>2
<1>5. QED BY <1>1, <1>3, <1>4 DEF LineInv

(* The buffer moves on past one line that fits, which is returned.         *)
LEMMA LineAdded ==
  ASSUME BufInv, LineInv, lo' \in Nat, UNCHANGED text,
         NEW start \in WholeLines, lo <= start, start < lo', lines' = Append(lines, start),
         \A s \in WholeLines : lo <= s /\ s < lo' => s = start
  PROVE  LineInv'
<1>1. WholeLines' = WholeLines
  BY TextKept
<1>2. WholeLines \subseteq Nat /\ lo \in Nat
  BY WholeAreNat DEF BufInv
<1>3. /\ Len(lines) \in Nat /\ Len(lines') = Len(lines) + 1
      /\ lines'[Len(lines) + 1] = start /\ \A i \in 1 .. Len(lines) : lines'[i] = lines[i]
  BY <1>2 DEF BufInv
<1>4. ASSUME NEW i \in 1 .. Len(lines) PROVE lines[i] \in WholeLines /\ lines[i] < start
  <2>1. lines[i] \in WholeLines /\ lines[i] < lo
    BY DEF LineInv
  <2>2. lines[i] \in Nat /\ start \in Nat
    BY <1>2, <2>1
  <2>3. QED BY <1>2, <2>1, <2>2
<1>5. \A i \in 1 .. Len(lines') : lines'[i] \in WholeLines /\ lines'[i] < lo'
  <2> SUFFICES ASSUME NEW i \in 1 .. Len(lines') PROVE lines'[i] \in WholeLines /\ lines'[i] < lo'
    OBVIOUS
  <2>1. CASE i \in 1 .. Len(lines)
    <3>1. lines'[i] \in WholeLines /\ lines'[i] < start
      BY <1>3, <1>4, <2>1
    <3>2. lines'[i] \in Nat /\ start \in Nat
      BY <1>2, <3>1
    <3>3. QED BY <3>1, <3>2
  <2>2. CASE i = Len(lines) + 1
    BY <1>3, <2>2
  <2>3. QED BY <1>3, <2>1, <2>2
<1>6. \A i, j \in 1 .. Len(lines') : i < j => lines'[i] < lines'[j]
  BY <1>3, <1>4 DEF LineInv
<1>7. \A s \in WholeLines : s < lo' => \E i \in 1 .. Len(lines') : lines'[i] = s
  BY <1>2, <1>3 DEF LineInv
<1>8. QED BY <1>1, <1>5, <1>6, <1>7 DEF LineInv

LEMMA ReaderStart == ASSUME Init, Len(text) \in Nat PROVE ReaderInv
<1>1. lo = 0 /\ hi = 0 /\ got_cmd = FALSE /\ drop = FALSE /\ eof = FALSE /\ open = TRUE /\ lines = <<>>
  BY DEF Init, ReaderInit
<1>2. Ends(lo, hi) = {} /\ lo \in Starts
  BY <1>1 DEF Ends, Starts
<1>3. lines \in Seq(Nat) /\ BufferSize - 1 >= 0
  BY <1>1, BufferAssumption DEF BufferAssumption
<1>6. BufInv
  <2>1. lo <= hi /\ hi <= Len(text) /\ hi - lo = 0
    BY <1>1
  <2>2. hi - lo <= BufferSize - 1
    BY <1>3, <2>1, BufferAssumption DEF BufferAssumption
  <2>3. lo \in Nat /\ hi \in Nat
    BY <1>1
  <2>4. got_cmd \in BOOLEAN /\ drop \in BOOLEAN /\ eof \in BOOLEAN /\ open \in BOOLEAN
    BY <1>1
  <2>5. QED BY <1>3, <2>1, <2>2, <2>3, <2>4 DEF BufInv
<1>4. LineInv
  BY <1>1, WholeAreNat DEF LineInv
<1>5. QED BY <1>1, <1>2, <1>6, <1>4 DEF ReaderInv, FlagInv

LEMMA RefillStep ==
  ASSUME ReaderInv, Refill
  PROVE  /\ hi' \in Nat /\ hi <= hi' /\ hi' <= Len(text) /\ hi' - lo <= BufferSize - 1 /\ eof' \in BOOLEAN
         /\ eof' => hi' = Len(text) /\ Ends(lo, hi') = {}
         /\ eof => eof'
<1>1. /\ lo \in Nat /\ hi \in Nat /\ Len(text) \in Nat /\ BufferSize \in Nat /\ hi <= Len(text)
      /\ hi - lo <= BufferSize - 1 /\ eof \in BOOLEAN
      /\ eof => hi = Len(text) /\ Ends(lo, hi) = {}
      /\ ~got_cmd => Ends(lo, hi) = {}
  BY BufferAssumption DEF BufferAssumption, ReaderInv, BufInv, FlagInv
<1>2. CASE UNCHANGED <<hi, eof>>
  BY <1>1, <1>2
<1>3. CASE ~got_cmd /\ hi = Len(text) /\ eof' = TRUE /\ UNCHANGED hi
  BY <1>1, <1>3
<1>4. CASE ~eof /\ UNCHANGED eof /\ \E n \in 1 .. BufferSize - 1 - (hi - lo) : hi + n <= Len(text) /\ hi' = hi + n
  <2>1. PICK n \in 1 .. BufferSize - 1 - (hi - lo) : hi + n <= Len(text) /\ hi' = hi + n
    BY <1>4
  <2>2. n \in Nat /\ n <= BufferSize - 1 - (hi - lo)
    BY <1>1
  <2>3. ~eof' /\ eof' \in BOOLEAN
    BY <1>1, <1>4
  <2>4. QED BY <1>1, <2>1, <2>2, <2>3, <1>4
<1>5. QED BY <1>2, <1>3, <1>4 DEF Refill

(* A call that returns a line, and one that finds none.                    *)
LEMMA LineStep == ASSUME ReaderInv, ReadLine PROVE ReaderInv'
<1> DEFINE ends  == Ends(lo, hi')
           start == IF drop THEN Min(ends) ELSE lo
           rest  == Ends(start, hi')
           e     == Min(rest)
<1> USE DEF ReadLine
<1>1. /\ ends # {} /\ rest # {} /\ lo' = e /\ lines' = Append(lines, start)
      /\ drop' = FALSE /\ got_cmd' = (Ends(e, hi') # {}) /\ UNCHANGED <<text, open>> /\ open
  BY DEF TakeLine
<1>2. /\ hi' \in Nat /\ hi <= hi' /\ hi' <= Len(text) /\ hi' - lo <= BufferSize - 1 /\ eof' \in BOOLEAN
      /\ ~eof'
  BY <1>1, RefillStep
<1>3. lo \in Nat /\ Len(text) \in Nat /\ BufferSize \in Nat /\ hi \in Nat
  BY BufferAssumption DEF ReaderInv, BufInv, BufferAssumption
<1>4. Min(ends) \in ends /\ \A y \in ends : Min(ends) <= y
  BY <1>1, <1>2, <1>3, LeastEnd
<1>5. start \in Nat /\ lo <= start /\ start \in Starts
  <2>1. CASE drop
    BY <2>1, <1>2, <1>3, <1>4 DEF Ends, Starts
  <2>2. CASE ~drop
    BY <2>2, <1>3 DEF ReaderInv, FlagInv
  <2>3. QED BY <2>1, <2>2
<1>6. e \in rest /\ \A y \in rest : e <= y
  BY <1>1, <1>2, <1>5, LeastEnd
<1>7. e \in Nat /\ start < e /\ e <= hi' /\ text[e] = "\n"
  BY <1>2, <1>5, <1>6 DEF Ends
<1> HIDE DEF start, e
<1>17. Ends(start, Len(text)) # {} /\ NextEnd(start) = e
  BY <1>1, <1>2, <1>3, <1>5, NextEndIs DEF e
<1>19. e - start <= BufferSize - 1 /\ hi' - e <= BufferSize - 1
  <2>1. start <= e
    BY <1>5, <1>7
  <2>2. QED BY <1>2, <1>3, <1>5, <1>7, <2>1, Apart
<1>8. start \in WholeLines
  BY <1>5, <1>17, <1>19 DEF WholeLines, Whole
<1>9. ASSUME NEW s \in WholeLines, lo <= s, s < lo' PROVE s = start
  <2>1. s \in Nat /\ s \in Starts
    BY <1>3, WholeAreNat DEF WholeLines
  <2>2. CASE s = lo
    BY <2>1, <2>2 DEF ReaderInv, FlagInv, start
  <2>3. CASE s > lo
    <3>1. s \in Ends(lo, hi')
      BY <1>1, <1>2, <1>3, <1>7, <1>9, <2>1, <2>3 DEF Ends, Starts
    <3>2. start <= s
      <4>1. drop => start = Min(ends) /\ Min(ends) <= s
        BY <1>4, <3>1 DEF start
      <4>2. ~drop => start = lo
        BY DEF start
      <4>3. QED BY <4>1, <4>2, <1>9
    <3>3. s > start => s \in rest
      BY <1>3, <1>5, <2>1, <3>1 DEF Ends
    <3>4. QED BY <1>1, <1>5, <1>6, <1>7, <1>9, <2>1, <3>2, <3>3
  <2>4. QED BY <1>3, <1>9, <2>1, <2>2, <2>3
<1>10. LineInv'
  BY <1>1, <1>5, <1>7, <1>8, <1>9, LineAdded DEF ReaderInv
<1>11. lines' \in Seq(Nat)
  BY <1>1, <1>5 DEF ReaderInv, BufInv
<1>12. BufInv'
  <2>1. hi' - e <= BufferSize - 1 /\ e \in Nat /\ e <= hi'
    BY <1>7, <1>19
  <2>2. got_cmd' \in BOOLEAN /\ open \in BOOLEAN
    BY <1>1 DEF ReaderInv, BufInv
  <2>3. QED BY <1>1, <1>2, <1>3, <1>11, <2>1, <2>2 DEF BufInv
<1>13. Starts' = Starts /\ Ends(lo, hi)' = Ends(e, hi')
  BY <1>1, TextKept DEF Ends
<1>14. lo' \in Starts
  BY <1>1, <1>2, <1>3, <1>7 DEF Starts, Ends
<1>15. FlagInv'
  <2>1. /\ got_cmd' => Ends(lo, hi)' # {}
        /\ Ends(lo, hi)' # {} => got_cmd'
    BY <1>1, <1>13
  <2>2. ~drop' /\ lo' \in Starts' /\ ~eof' /\ open'
    BY <1>1, <1>2, <1>13, <1>14
  <2>3. QED BY <2>1, <2>2 DEF FlagInv
<1>16. QED BY <1>10, <1>12, <1>15 DEF ReaderInv

LEMMA NoLineStep == ASSUME ReaderInv, ReadNoLine PROVE ReaderInv'
<1> DEFINE ends  == Ends(lo, hi')
           start == IF drop /\ ends # {} THEN Min(ends) ELSE lo
           still == drop /\ ends = {}
           full  == hi' - start >= BufferSize - 1
<1>1. /\ Ends(start, hi') = {} /\ lo' = (IF full THEN hi' ELSE start) /\ UNCHANGED <<lines, text, open>> /\ open
      /\ (full \/ still => drop') /\ (drop' => full \/ still) /\ drop' \in BOOLEAN /\ got_cmd' = FALSE
  BY DEF ReadNoLine, NoLine
<1>2. /\ hi' \in Nat /\ hi <= hi' /\ hi' <= Len(text) /\ hi' - lo <= BufferSize - 1 /\ eof' \in BOOLEAN
      /\ eof' => hi' = Len(text) /\ Ends(lo, hi') = {}
  BY RefillStep DEF ReadNoLine
<1>3. lo \in Nat /\ Len(text) \in Nat /\ BufferSize \in Nat /\ hi \in Nat /\ BufferSize > 1 /\ lo <= hi
  BY BufferAssumption DEF ReaderInv, BufInv, BufferAssumption
<1>4. ends # {} => Min(ends) \in ends /\ \A y \in ends : Min(ends) <= y
  BY <1>2, <1>3, LeastEnd
<1>5. start \in Nat /\ lo <= start /\ start <= hi'
  BY <1>2, <1>3, <1>4 DEF Ends
<1>6. lo' \in Nat /\ start <= lo' /\ lo' <= hi'
  BY <1>1, <1>2, <1>5
<1>7. ~still => start \in Starts
  BY <1>2, <1>3, <1>4 DEF ReaderInv, FlagInv, Ends, Starts
<1>18. full => start < hi'
  BY <1>2, <1>3, <1>5
<1> HIDE DEF start, full
<1>8. full => hi' \notin Starts
  BY <1>1, <1>2, <1>3, <1>5, <1>18 DEF Ends, Starts
<1>9. Ends(lo', hi') = {}
  <2>1. Ends(lo', hi') \subseteq Ends(start, hi')
    BY <1>2, <1>5, <1>6 DEF Ends
  <2>2. QED BY <1>1, <2>1
<1>10. ASSUME NEW s \in WholeLines, lo <= s, s < lo' PROVE FALSE
  <2>1. s \in Nat /\ s \in Starts /\ Whole(s)
    BY <1>3, WholeAreNat DEF WholeLines
  <2>2. CASE s < start
    <3>1. drop /\ ends # {} /\ start = Min(ends)
      BY <1>10, <2>1, <2>2, <1>3 DEF start
    <3>2. s # lo
      BY <2>1, <3>1 DEF ReaderInv, FlagInv
    <3>3. s \in ends
      BY <1>2, <1>3, <1>5, <1>10, <2>1, <2>2, <3>2 DEF Ends, Starts
    <3>4. QED BY <1>4, <1>5, <2>1, <2>2, <3>1, <3>3
  <2>3. CASE s = start
    <3>1. full
      BY <1>1, <1>5, <1>10, <2>3
    <3>2. Ends(s, Len(text)) # {} /\ NextEnd(s) - s <= BufferSize - 1
      BY <2>1 DEF Whole
    <3>3. NextEnd(s) \in Ends(s, Len(text))
      BY <1>3, <2>1, <3>2, LeastEnd DEF NextEnd
    <3>4. NextEnd(s) \in Nat /\ NextEnd(s) > s /\ NextEnd(s) > hi'
      <4>1. NextEnd(s) \in Nat /\ NextEnd(s) > s /\ text[NextEnd(s)] = "\n"
        BY <1>3, <2>1, <3>3 DEF Ends
      <4>2. NextEnd(s) \notin Ends(s, hi')
        BY <1>1, <2>3
      <4>3. QED BY <1>2, <2>1, <4>1, <4>2 DEF Ends
    <3>5. hi' - s >= BufferSize - 1
      BY <2>3, <3>1 DEF full
    <3>6. hi' < NextEnd(s)
      BY <1>2, <3>4
    <3>7. QED BY <1>2, <1>3, <2>1, <3>2, <3>4, <3>5, <3>6, Beyond
  <2>4. CASE s > start
    <3>1. s \in Ends(start, hi')
      BY <1>2, <1>3, <1>5, <1>6, <1>10, <2>1, <2>4 DEF Ends, Starts
    <3>2. QED BY <1>1, <3>1
  <2>5. QED BY <1>5, <2>1, <2>2, <2>3, <2>4
<1>11. LineInv'
  BY <1>1, <1>3, <1>5, <1>6, <1>10, LinesKept DEF ReaderInv
<1>12. BufInv'
  <2>1. hi' - lo' <= BufferSize - 1
    <3>1. lo <= lo' /\ hi' <= hi'
      BY <1>2, <1>3, <1>5, <1>6
    <3>2. QED BY <1>2, <1>3, <1>6, <3>1, Apart
  <2>2. lines' \in Seq(Nat) /\ open \in BOOLEAN
    BY <1>1 DEF ReaderInv, BufInv
  <2>3. QED BY <1>1, <1>2, <1>3, <1>6, <2>1, <2>2 DEF BufInv
<1>13. Starts' = Starts /\ Ends(lo, hi)' = Ends(lo', hi')
  BY <1>1, TextKept DEF Ends
<1>14. ~drop' => lo' \in Starts
  BY <1>1, <1>7
<1>15. drop' => lo' \notin Starts
  <2>1. still => start = lo /\ lo \notin Starts
    BY DEF start, ReaderInv, FlagInv
  <2>2. QED BY <1>1, <1>8, <2>1
<1>16. FlagInv'
  BY <1>1, <1>2, <1>9, <1>13, <1>14, <1>15 DEF FlagInv
<1>17. QED BY <1>11, <1>12, <1>16 DEF ReaderInv
LEMMA CloseStep == ASSUME ReaderInv, Close PROVE ReaderInv'
<1>1. open' = FALSE /\ eof /\ UNCHANGED <<text, lo, hi, got_cmd, drop, eof, lines>>
  BY DEF Close
<1>2. Starts' = Starts /\ WholeLines' = WholeLines /\ Ends(lo, hi)' = Ends(lo, hi)
  BY <1>1, TextKept DEF Ends
<1>3. QED BY <1>1, <1>2 DEF ReaderInv, BufInv, FlagInv, LineInv

LEMMA ReaderStutter == ASSUME ReaderInv, UNCHANGED readervars PROVE ReaderInv'
<1>1. UNCHANGED <<text, lo, hi, got_cmd, drop, eof, open, lines>>
  BY DEF readervars
<1>2. Starts' = Starts /\ WholeLines' = WholeLines /\ Ends(lo, hi)' = Ends(lo, hi)
  BY <1>1, TextKept DEF Ends
<1>3. QED BY <1>1, <1>2 DEF ReaderInv, BufInv, FlagInv, LineInv

(* Who reads lines, and who removes the descriptor.                        *)
LEMMA ReaderSteps ==
  [Next]_inputvars => ReadLine \/ ReadNoLine \/ Close \/ UNCHANGED readervars
<1> SUFFICES ASSUME [Next]_inputvars PROVE ReadLine \/ ReadNoLine \/ Close \/ UNCHANGED readervars
  OBVIOUS
<1>1. CASE ReadEvents
  BY <1>1 DEF ReadEvents, ReadKey, Repeat, NoRepeat, LineRead, CloseLines, StartRead
<1>2. CASE Back \/ MainLoop \/ Run \/ PauseSees \/ Unpause \/ CheckSees \/ Dropped
  BY <1>2 DEF Back, MainLoop, Run, PauseSees, Unpause, CheckSees, Dropped, Unchecked
<1>3. CASE OpenFailed \/ CheckInterrupt \/ UserActs \/ UNCHANGED inputvars
  BY <1>3 DEF OpenFailed, CheckInterrupt, UserActs, inputvars
<1>4. QED BY <1>1, <1>2, <1>3 DEF Next, Player

LEMMA ReaderNext == ASSUME ReaderInv, [Next]_inputvars PROVE ReaderInv'
  BY ReaderSteps, LineStep, NoLineStep, CloseStep, ReaderStutter

LEMMA ReaderInitially == Init => ReaderInv
<1> SUFFICES ASSUME Init PROVE ReaderInv
  OBVIOUS
<1>1. text \in Texts
  BY DEF Init, ReaderInit
<1>2. Len(text) \in Nat
  BY <1>1, TextsAssumption, LenProperties
<1>3. QED BY <1>2, ReaderStart

LEMMA ReaderReturns == ReaderInv => LinesReturned
<1> SUFFICES ASSUME ReaderInv PROVE LinesReturned
  OBVIOUS
<1>1. WaitingLineIsKnown
  BY DEF ReaderInv, BufInv, FlagInv, WaitingLineIsKnown
<1>2. lines \in Seq(Nat) /\ DOMAIN lines = 1 .. Len(lines) /\ lo \in Nat /\ Len(text) \in Nat
  BY DEF ReaderInv, BufInv
<1>3. \A i \in DOMAIN lines : lines[i] \in Starts /\ Whole(lines[i])
  BY <1>2 DEF ReaderInv, LineInv, WholeLines
<1>4. \A i, j \in DOMAIN lines : i < j => lines[i] < lines[j]
  BY <1>2 DEF ReaderInv, LineInv
<1>5. ASSUME NEW s \in Starts, Whole(s), s < lo \/ ~open
      PROVE  \E i \in DOMAIN lines : lines[i] = s
  <2>1. s \in Nat /\ s \in WholeLines
    BY <1>2, <1>5, WholeAreNat DEF WholeLines
  <2>2. CASE s < lo
    BY <1>2, <2>1, <2>2 DEF ReaderInv, LineInv
  <2>3. CASE ~open /\ lo <= s
    <3>1. Ends(lo, Len(text)) = {}
      BY <2>3 DEF ReaderInv, FlagInv
    <3>2. Ends(s, Len(text)) \subseteq Ends(lo, Len(text))
      BY <1>2, <2>1, <2>3 DEF Ends
    <3>3. QED BY <1>5, <3>1, <3>2 DEF Whole
  <2>4. QED BY <1>2, <1>5, <2>1, <2>2, <2>3
<1>6. QED BY <1>1, <1>3, <1>4, <1>5 DEF LinesReturned

(* Every line that fits into the buffer is returned once, whole and in     *)
(* order, whatever pieces the reads bring, and nothing of any other line.  *)
THEOREM LinesReturnedCorrect == Spec => []LinesReturned
  BY ReaderInitially, ReaderNext, ReaderReturns, PTL DEF Spec
-----------------------------------------------------------------------------
(* A sequence without the first element equal to c.                        *)
LEMMA RemoveIsSome ==
  ASSUME NEW S, NEW s \in Seq(S), NEW c
  PROVE  /\ (\A i \in 1 .. Len(s) : s[i] # c) => RemoveFirst(s, c) = s
         /\ (\E i \in 1 .. Len(s) : s[i] = c) =>
               \E m \in 1 .. Len(s) : s[m] = c /\ RemoveFirst(s, c) = SubSeq(s, 1, m - 1) \o SubSeq(s, m + 1, Len(s))
<1>1. CASE \A i \in 1 .. Len(s) : s[i] # c
  BY <1>1 DEF RemoveFirst
<1>2. CASE \E i \in 1 .. Len(s) : s[i] = c
  <2> DEFINE I == {i \in 1 .. Len(s) : s[i] = c}
  <2>1. I \in SUBSET Nat /\ I # {}
    BY <1>2
  <2>2. Min(I) \in I
    BY <2>1, MinIsLeast
  <2>3. SelectInSeq(s, LAMBDA v : v = c) = Min(I)
    BY <2>1 DEF SelectInSeq
  <2>4. RemoveFirst(s, c) = RemoveAt(s, Min(I))
    BY <1>2, <2>3 DEF RemoveFirst
  <2>5. QED BY <1>2, <2>2, <2>4 DEF RemoveAt
<1>3. QED BY <1>1, <1>2

(* Without an element that was there at most once.                         *)
LEMMA Removed ==
  ASSUME NEW S, NEW s \in Seq(S), NEW c,
         \A i, j \in 1 .. Len(s) : s[i] = s[j] => i = j
  PROVE  LET r == RemoveFirst(s, c)
         IN  /\ r \in Seq(S) /\ Len(r) <= Len(s)
             /\ \A i \in 1 .. Len(r) : r[i] # c /\ \E j \in 1 .. Len(s) : r[i] = s[j]
             /\ \A i, j \in 1 .. Len(r) : r[i] = r[j] => i = j
<1>1. CASE \A i \in 1 .. Len(s) : s[i] # c
  <2>1. RemoveFirst(s, c) = s /\ Len(s) \in Nat
    BY <1>1, RemoveIsSome, LenProperties
  <2>2. QED BY <1>1, <2>1
<1>2. CASE \E i \in 1 .. Len(s) : s[i] = c
  <2>1. PICK m \in 1 .. Len(s) :
          s[m] = c /\ RemoveFirst(s, c) = SubSeq(s, 1, m - 1) \o SubSeq(s, m + 1, Len(s))
    BY <1>2, RemoveIsSome
  <2> DEFINE a == SubSeq(s, 1, m - 1)
             b == SubSeq(s, m + 1, Len(s))
             r == RemoveFirst(s, c)
             from(i) == IF i < m THEN i ELSE i + 1
  <2>2. m \in Nat /\ Len(s) \in Nat /\ 1 <= m /\ m <= Len(s)
    BY <2>1, LenProperties
  <2>3. \A i \in 1 .. Len(s) : s[i] \in S
    BY ElementOfSeq
  <2>4. a \in Seq(S) /\ Len(a) = m - 1 /\ \A i \in 1 .. m - 1 : a[i] = s[i]
    <3>1. m - 1 \in Int /\ 1 \in Int /\ \A i \in 1 .. m - 1 : s[i] \in S
      BY <2>2, <2>3
    <3>2. /\ a \in Seq(S) /\ Len(a) = (IF 1 <= m - 1 THEN m - 1 - 1 + 1 ELSE 0)
          /\ \A i \in 1 .. m - 1 - 1 + 1 : a[i] = s[1 + i - 1]
      BY <3>1, SubSeqProperties
    <3>3. QED BY <2>2, <3>2
  <2>5. b \in Seq(S) /\ Len(b) = Len(s) - m /\ \A i \in 1 .. Len(s) - m : b[i] = s[m + i]
    <3>1. m + 1 \in Int /\ Len(s) \in Int /\ \A i \in m + 1 .. Len(s) : s[i] \in S
      BY <2>2, <2>3
    <3>2. /\ b \in Seq(S) /\ Len(b) = (IF m + 1 <= Len(s) THEN Len(s) - (m + 1) + 1 ELSE 0)
          /\ \A i \in 1 .. Len(s) - (m + 1) + 1 : b[i] = s[m + 1 + i - 1]
      BY <3>1, SubSeqProperties
    <3>3. QED BY <2>2, <3>2
  <2>6. /\ r \in Seq(S) /\ Len(r) = Len(s) - 1
        /\ \A i \in 1 .. Len(s) - 1 : r[i] = s[from(i)]
    <3> HIDE DEF a, b
    <3>1. /\ r \in Seq(S) /\ Len(r) = Len(a) + Len(b)
          /\ \A i \in 1 .. Len(a) + Len(b) : r[i] = IF i <= Len(a) THEN a[i] ELSE b[i - Len(a)]
      <4>1. r = a \o b
        BY <2>1 DEF a, b
      <4> HIDE DEF r
      <4>2. a \in Seq(S) /\ b \in Seq(S)
        BY <2>4, <2>5
      <4>3. /\ a \o b \in Seq(S) /\ Len(a \o b) = Len(a) + Len(b)
            /\ \A i \in 1 .. Len(a) + Len(b) : (a \o b)[i] = IF i <= Len(a) THEN a[i] ELSE b[i - Len(a)]
        BY <4>2
      <4>4. QED BY <4>1, <4>3, Zenon
    <3>2. Len(a) + Len(b) = Len(s) - 1
      BY <2>2, <2>4, <2>5
    <3>3. ASSUME NEW i \in 1 .. Len(s) - 1 PROVE r[i] = s[from(i)]
      <4>1. CASE i < m
        <5>1. i <= Len(a) /\ i \in 1 .. m - 1
          BY <2>2, <2>4, <4>1
        <5>2. QED BY <2>4, <3>1, <3>2, <4>1, <5>1
      <4>2. CASE ~(i < m)
        <5>1. ~(i <= Len(a)) /\ i - Len(a) = i - m + 1 /\ i - m + 1 \in 1 .. Len(s) - m
          BY <2>2, <2>4, <4>2
        <5>2. b[i - m + 1] = s[m + (i - m + 1)] /\ m + (i - m + 1) = i + 1
          BY <2>2, <2>5, <5>1
        <5>3. QED BY <3>1, <3>2, <4>2, <5>1, <5>2
      <4>3. QED BY <4>1, <4>2
    <3>4. QED BY <3>1, <3>2, <3>3
  <2>7. \A i \in 1 .. Len(s) - 1 : from(i) \in 1 .. Len(s) /\ from(i) # m
    BY <2>2
  <2>8. \A i, j \in 1 .. Len(s) - 1 : from(i) = from(j) => i = j
    BY <2>2
  <2> HIDE DEF from, a, b, r
  <2>9. \A i \in 1 .. Len(r) : r[i] # c /\ \E j \in 1 .. Len(s) : r[i] = s[j]
    BY <2>1, <2>6, <2>7
  <2>10. \A i, j \in 1 .. Len(r) : r[i] = r[j] => i = j
    BY <2>6, <2>7, <2>8
  <2>11. Len(r) <= Len(s)
    BY <2>2, <2>6
  <2>12. QED BY <2>6, <2>9, <2>10, <2>11 DEF r
<1>3. QED BY <1>1, <1>2

(* The codes of the keys that are down: none is that of a double click, as *)
(* only presses are remembered.                                            *)
Codes == Keys \X {FALSE}

LEMMA PairParts ==
  ASSUME NEW A, NEW B, NEW p \in A \X B
  PROVE  p = <<p[1], p[2]>> /\ p[1] \in A /\ p[2] \in B
  OBVIOUS

LEMMA CodeParts == ASSUME NEW p \in Codes PROVE p[1] \in Keys /\ <<p[1], FALSE>> = p
<1>1. p = <<p[1], p[2]>> /\ p[1] \in Keys /\ p[2] \in {FALSE}
  BY PairParts, Zenon DEF Codes
<1>2. p[2] = FALSE
  BY <1>1, Zenon
<1>3. QED BY <1>1, <1>2, Zenon

Events == [key : Keys, is : {"down", "up", "double"}]

(* An event that is the release of a key lies behind the first i in q.     *)
Released(q, i, k) == \E j \in i + 1 .. Len(q) : q[j] = Event(k, "up")

(* The keys that are held, or whose release was lost or is still to come   *)
(* behind the first i events.                                              *)
StillDown(i) == held \cup lost \cup {k \in Keys : Released(fifo, i, k)}

(* No press is in the reserve.                                             *)
Places(q) == \A i \in 1 .. Len(q) : q[i].is = "down" => i <= Unreserved

(* The FIFO: what it holds fits, every press in it is of a key that stays  *)
(* down until the release behind it, and is not in the reserve.            *)
FifoInv ==
  /\ fifo \in Seq(Events) /\ Len(fifo) < FifoSize
  /\ young \in 0 .. 2 /\ held \subseteq Keys
  /\ \A i \in 1 .. Len(fifo) : fifo[i].is = "down" => fifo[i].key \in StillDown(i)
  /\ Places(fifo)

(* The keys down: each once, and each is held or its release is to come.   *)
DownInv ==
  /\ key_down \in Seq(Codes) /\ Len(key_down) <= MaxKeyDown + 1
  /\ \A i, j \in 1 .. Len(key_down) : key_down[i] = key_down[j] => i = j
  /\ \A i \in 1 .. Len(key_down) : key_down[i][1] \in StillDown(0)

RepeatInv == ar_state \in -1 .. 1 /\ ar_cmd \in Kinds \cup {"none"} /\ RepeatIsCurrent

(* The FIFO only grows when something is put into it.                      *)
Grows(q, r) == Len(q) <= Len(r) /\ \A i \in 1 .. Len(q) : r[i] = q[i]

LEMMA PutGrows ==
  ASSUME NEW q \in Seq(Events), NEW e \in Events, Len(q) < FifoSize
  PROVE  LET r == Put(q, e)
         IN  /\ r \in Seq(Events) /\ Len(r) < FifoSize /\ Grows(q, r)
             /\ \A i \in Len(q) + 1 .. Len(r) : r[i] = e
             /\ r # q => Len(r) = Len(q) + 1 /\ r[Len(q) + 1] = e
             /\ e.is = "down" => \A i \in Len(q) + 1 .. Len(r) : i <= Unreserved
<1>1. Len(q) \in Nat /\ FifoSize \in Nat
  BY FifoAssumption, LenProperties DEF FifoAssumption
<1>2. CASE Put(q, e) = q
  BY <1>1, <1>2 DEF Grows
<1>3. CASE /\ Put(q, e) = Append(q, e) /\ FifoSize - 1 - Len(q) # 0
           /\ e.is = "down" => FifoSize - 1 - Len(q) >= FifoSize \div 2
  <2>1. /\ Append(q, e) \in Seq(Events) /\ Len(Append(q, e)) = Len(q) + 1
        /\ \A i \in 1 .. Len(q) : Append(q, e)[i] = q[i]
        /\ Append(q, e)[Len(q) + 1] = e
    BY <1>1
  <2>2. Len(q) + 1 < FifoSize
    BY <1>1, <1>3
  <2>3. \A i \in Len(q) + 1 .. Len(q) + 1 : i = Len(q) + 1
    BY <1>1
  <2>4. FifoSize \div 2 \in Nat
    BY <1>1
  <2>5. e.is = "down" => Len(q) + 1 <= Unreserved
    BY <1>1, <1>3, <2>4 DEF Unreserved
  <2>6. QED BY <1>1, <1>3, <2>1, <2>2, <2>3, <2>5 DEF Grows
<1>4. CASE ~(FifoSize - 1 - Len(q) = 0 \/ (e.is = "down" /\ FifoSize - 1 - Len(q) < FifoSize \div 2))
  <2>1. Put(q, e) = Append(q, e)
    BY <1>4 DEF Put
  <2>2. FifoSize \div 2 \in Nat
    BY <1>1
  <2>3. QED BY <1>1, <1>3, <1>4, <2>1, <2>2
<1>5. QED BY <1>2, <1>4 DEF Put

LEMMA PutDoubleGrows ==
  ASSUME NEW q \in Seq(Events), NEW k \in Keys, NEW recent, Len(q) < FifoSize
  PROVE  LET r == PutDouble(q, k, recent)
         IN  /\ r \in Seq(Events) /\ Len(r) < FifoSize /\ Grows(q, r)
             /\ \A i \in Len(q) + 1 .. Len(r) : r[i] = Event(k, "double")
<1>1. Event(k, "double") \in Events
  BY DEF Event, Events
<1>2. CASE PutDouble(q, k, recent) = q
  <2>1. Len(q) \in Nat
    BY LenProperties
  <2>2. QED BY <1>2, <2>1 DEF Grows
<1>3. CASE PutDouble(q, k, recent) = Put(q, Event(k, "double"))
  <2> DEFINE p == Put(q, Event(k, "double"))
  <2>1. /\ p \in Seq(Events) /\ Len(p) < FifoSize /\ Grows(q, p)
        /\ \A i \in Len(q) + 1 .. Len(p) : p[i] = Event(k, "double")
    BY <1>1, PutGrows
  <2> HIDE DEF p
  <2>2. PutDouble(q, k, recent) = p
    BY <1>3 DEF p
  <2>3. QED BY <2>1, <2>2
<1>4. QED BY <1>2, <1>3 DEF PutDouble

(* What a press or a release puts.                                         *)
LEMMA BothGrow ==
  ASSUME NEW q \in Seq(Events), NEW k \in Keys, NEW recent, Len(q) < FifoSize, NEW is \in {"down", "up"}
  PROVE  LET p == Put(q, Event(k, is))
             r == PutDouble(p, k, recent)
         IN  /\ r \in Seq(Events) /\ Len(r) < FifoSize /\ Grows(q, r)
             /\ \A i \in Len(q) + 1 .. Len(r) : r[i] \in {Event(k, is), Event(k, "double")}
             /\ p # q => Len(q) + 1 <= Len(r) /\ r[Len(q) + 1] = Event(k, is)
             /\ \A i \in Len(q) + 1 .. Len(r) : r[i].is = "down" => i <= Unreserved
<1> DEFINE p == Put(q, Event(k, is))
           r == PutDouble(p, k, recent)
<1>1. Event(k, is) \in Events
  BY DEF Event, Events
<1>2. /\ p \in Seq(Events) /\ Len(p) < FifoSize /\ Grows(q, p)
      /\ \A i \in Len(q) + 1 .. Len(p) : p[i] = Event(k, is)
      /\ p # q => Len(p) = Len(q) + 1 /\ p[Len(q) + 1] = Event(k, is)
      /\ is = "down" => \A i \in Len(q) + 1 .. Len(p) : i <= Unreserved
  BY <1>1, PutGrows DEF Event
<1> HIDE DEF p
<1>3. /\ r \in Seq(Events) /\ Len(r) < FifoSize /\ Grows(p, r)
      /\ \A i \in Len(p) + 1 .. Len(r) : r[i] = Event(k, "double")
  BY <1>2, PutDoubleGrows
<1> HIDE DEF r
<1>4. Len(q) \in Nat /\ Len(p) \in Nat /\ Len(r) \in Nat
  BY <1>2, <1>3, LenProperties
<1>5. Grows(q, r)
  BY <1>2, <1>3, <1>4 DEF Grows
<1>6. ASSUME NEW i \in Len(q) + 1 .. Len(r) PROVE r[i] \in {Event(k, is), Event(k, "double")}
  <2>1. CASE i <= Len(p)
    <3>1. i \in Len(q) + 1 .. Len(p) /\ i \in 1 .. Len(p)
      BY <1>4, <2>1
    <3>2. QED BY <1>2, <1>3, <3>1 DEF Grows
  <2>2. CASE i > Len(p)
    BY <1>3, <1>4, <2>2
  <2>3. QED BY <1>4, <2>1, <2>2
<1>7. p # q => Len(q) + 1 <= Len(r) /\ r[Len(q) + 1] = Event(k, is)
  <2> SUFFICES ASSUME p # q PROVE Len(q) + 1 <= Len(r) /\ r[Len(q) + 1] = Event(k, is)
    OBVIOUS
  <2>1. Len(q) + 1 \in 1 .. Len(p) /\ p[Len(q) + 1] = Event(k, is)
    BY <1>2, <1>4
  <2>2. QED BY <1>2, <1>3, <1>4, <2>1 DEF Grows
<1>8. ASSUME NEW i \in Len(q) + 1 .. Len(r), r[i].is = "down" PROVE i <= Unreserved
  <2>1. i <= Len(p)
    BY <1>3, <1>4, <1>8 DEF Event
  <2>2. i \in Len(q) + 1 .. Len(p) /\ i \in 1 .. Len(p)
    BY <1>4, <2>1
  <2>3. r[i] = Event(k, is)
    BY <1>2, <1>3, <2>2 DEF Grows
  <2>4. is = "down"
    BY <1>8, <2>3 DEF Event
  <2>5. QED BY <1>2, <2>2, <2>4
<1>9. QED BY <1>3, <1>5, <1>6, <1>7, <1>8 DEF p, r

LEMMA ReleasedStays ==
  ASSUME NEW q \in Seq(Events), NEW r \in Seq(Events), Grows(q, r), NEW i \in Nat, NEW k, Released(q, i, k)
  PROVE  Released(r, i, k)
<1>1. PICK j \in i + 1 .. Len(q) : q[j] = Event(k, "up")
  BY DEF Released
<1>2. Len(q) \in Nat /\ Len(r) \in Nat /\ Len(q) <= Len(r)
  BY LenProperties DEF Grows
<1>3. j \in 1 .. Len(q) /\ j \in i + 1 .. Len(r)
  BY <1>2
<1>4. r[j] = q[j]
  BY <1>3 DEF Grows
<1>5. QED BY <1>1, <1>3, <1>4 DEF Released

LEMMA PlacesKept ==
  ASSUME NEW q \in Seq(Events), NEW r \in Seq(Events), Grows(q, r), Places(q),
         \A i \in Len(q) + 1 .. Len(r) : r[i].is = "down" => i <= Unreserved
  PROVE  Places(r)
<1>1. Len(q) \in Nat /\ Len(r) \in Nat
  BY LenProperties
<1>2. QED BY <1>1 DEF Grows, Places

LEMMA PressStep ==
  ASSUME FifoInv, DownInv, NEW k \in Keys, Press(k), UNCHANGED key_down
  PROVE  FifoInv' /\ DownInv'
<1>1. held' = held \cup {k} /\ lost \ {k} \subseteq lost'
  BY DEF Press
<1>2. /\ fifo' \in Seq(Events) /\ Len(fifo') < FifoSize /\ Grows(fifo, fifo')
      /\ \A i \in Len(fifo) + 1 .. Len(fifo') : fifo'[i] \in {Event(k, "down"), Event(k, "double")}
      /\ \A i \in Len(fifo) + 1 .. Len(fifo') : fifo'[i].is = "down" => i <= Unreserved
  BY BothGrow DEF FifoInv, Press
<1>3. young' \in 0 .. 2
  BY DEF Press, FifoInv
<1>4. ASSUME NEW i \in Nat, NEW c \in StillDown(i) PROVE c \in StillDown(i)'
  <2>1. Released(fifo, i, c) => Released(fifo', i, c)
    BY <1>2, ReleasedStays DEF FifoInv
  <2>2. QED BY <1>1, <1>4, <2>1 DEF StillDown
<1>5. Len(fifo) \in Nat /\ Len(fifo') \in Nat
  BY <1>2, LenProperties DEF FifoInv
<1>6. ASSUME NEW i \in 1 .. Len(fifo'), fifo'[i].is = "down" PROVE fifo'[i].key \in StillDown(i)'
  <2>1. CASE i \in 1 .. Len(fifo)
    <3>1. fifo'[i] = fifo[i]
      BY <1>2, <2>1 DEF Grows
    <3>2. fifo[i].key \in StillDown(i)
      BY <1>6, <2>1, <3>1 DEF FifoInv
    <3>3. fifo'[i].key \in StillDown(i)
      BY <3>1, <3>2
    <3>4. QED BY <1>4, <1>5, <3>3 DEF StillDown
  <2>2. CASE i \in Len(fifo) + 1 .. Len(fifo')
    BY <1>1, <1>2, <2>2 DEF Event, StillDown
  <2>3. QED BY <1>5, <2>1, <2>2
<1>7. Places(fifo')
  BY <1>2, PlacesKept DEF FifoInv
<1>8. FifoInv'
  BY <1>1, <1>2, <1>3, <1>6, <1>7 DEF FifoInv, Places
<1>9. \A i \in 1 .. Len(key_down) : key_down'[i][1] \in StillDown(0)'
  BY <1>4 DEF DownInv
<1>10. QED BY <1>8, <1>9 DEF DownInv

LEMMA ReleaseStep ==
  ASSUME FifoInv, DownInv, NEW k \in Keys, Release(k), UNCHANGED key_down
  PROVE  FifoInv' /\ DownInv'
<1> DEFINE put == Put(fifo, Event(k, "up")) # fifo
<1>1. /\ held' = held \ {k} /\ lost \ {k} \subseteq lost'
      /\ ~put => k \in lost'
      /\ young' = young
  BY DEF Release
<1>2. /\ fifo' \in Seq(Events) /\ Len(fifo') < FifoSize /\ Grows(fifo, fifo')
      /\ \A i \in Len(fifo) + 1 .. Len(fifo') : fifo'[i] \in {Event(k, "up"), Event(k, "double")}
      /\ put => Len(fifo) + 1 <= Len(fifo') /\ fifo'[Len(fifo) + 1] = Event(k, "up")
      /\ \A i \in Len(fifo) + 1 .. Len(fifo') : fifo'[i].is = "down" => i <= Unreserved
  BY BothGrow DEF FifoInv, Release
<1> HIDE DEF put
<1>3. Len(fifo) \in Nat /\ Len(fifo') \in Nat
  BY <1>2, LenProperties DEF FifoInv
<1>4. ASSUME NEW i \in 0 .. Len(fifo), NEW c \in StillDown(i) PROVE c \in StillDown(i)'
  <2>1. Released(fifo, i, c) => Released(fifo', i, c)
    BY <1>2, <1>3, ReleasedStays DEF FifoInv
  <2>2. put => Released(fifo', i, k)
    <3>1. put => Len(fifo) + 1 \in i + 1 .. Len(fifo')
      BY <1>2, <1>3
    <3>2. QED BY <1>2, <3>1 DEF Released
  <2>3. QED BY <1>1, <1>4, <2>1, <2>2 DEF StillDown
<1>5. ASSUME NEW i \in 1 .. Len(fifo'), fifo'[i].is = "down" PROVE fifo'[i].key \in StillDown(i)'
  <2>1. CASE i \in 1 .. Len(fifo)
    <3>1. fifo'[i] = fifo[i]
      BY <1>2, <2>1 DEF Grows
    <3>2. fifo[i].key \in StillDown(i)
      BY <1>5, <2>1, <3>1 DEF FifoInv
    <3>3. fifo'[i].key \in StillDown(i)
      BY <3>1, <3>2
    <3>4. i \in 0 .. Len(fifo)
      BY <1>3, <2>1
    <3>5. QED BY <1>4, <3>3, <3>4 DEF StillDown
  <2>2. CASE i \in Len(fifo) + 1 .. Len(fifo')
    BY <1>2, <1>5, <2>2 DEF Event
  <2>3. QED BY <1>3, <2>1, <2>2
<1>6. Places(fifo')
  BY <1>2, PlacesKept DEF FifoInv
<1>7. FifoInv'
  BY <1>1, <1>2, <1>5, <1>6 DEF FifoInv, Places
<1>8. 0 \in 0 .. Len(fifo)
  BY <1>3
<1>9. \A i \in 1 .. Len(key_down) : key_down'[i][1] \in StillDown(0)'
  BY <1>4, <1>8 DEF DownInv
<1>10. QED BY <1>7, <1>9 DEF DownInv

LEMMA TimeStep ==
  ASSUME FifoInv, DownInv, TimePasses, UNCHANGED key_down
  PROVE  FifoInv' /\ DownInv'
<1>1. young' \in 0 .. 2 /\ UNCHANGED <<fifo, held, lost>>
  BY DEF TimePasses, FifoInv
<1>2. QED BY <1>1 DEF FifoInv, Places, DownInv, StillDown

LEMMA KeysKept ==
  ASSUME FifoInv, DownInv, UNCHANGED <<fifo, young, held, lost, key_down>>
  PROVE  FifoInv' /\ DownInv'
  BY DEF FifoInv, Places, DownInv, StillDown

(* The event at the head is taken; what stays down waits for no release,   *)
(* or for one further back.                                                *)
LEMMA TailKeeps ==
  ASSUME FifoInv, fifo # <<>>, fifo' = Tail(fifo), UNCHANGED <<held, lost>>, NEW i \in Nat,
         NEW c \in StillDown(i), i > 0 \/ Head(fifo) # Event(c, "up")
  PROVE  \A j \in Nat : j = i - 1 \/ (i = 0 /\ j = 0) => c \in StillDown(j)'
<1> SUFFICES ASSUME NEW j \in Nat, j = i - 1 \/ (i = 0 /\ j = 0), Released(fifo, i, c)
             PROVE  Released(fifo', j, c)
  BY DEF StillDown
<1>1. /\ Len(fifo) \in Nat /\ Len(fifo') = Len(fifo) - 1 /\ \A m \in 1 .. Len(fifo') : fifo'[m] = fifo[m + 1]
      /\ Head(fifo) = fifo[1] /\ Len(fifo) # 0
  BY LenProperties, HeadTailProperties, EmptySeq DEF FifoInv
<1>2. PICK m \in i + 1 .. Len(fifo) : fifo[m] = Event(c, "up")
  BY DEF Released
<1>3. m # 1
  BY <1>1, <1>2
<1>4. m - 1 \in j + 1 .. Len(fifo') /\ m - 1 \in 1 .. Len(fifo') /\ m - 1 + 1 = m
  BY <1>1, <1>2, <1>3
<1>5. fifo'[m - 1] = Event(c, "up")
  BY <1>1, <1>2, <1>4
<1>6. QED BY <1>4, <1>5 DEF Released
-----------------------------------------------------------------------------
(* Commands have a number and a kind.                                      *)
Commands == [no : Nat, kind : Kinds]

CmdInv == made \in Nat /\ ret \in Commands /\ queue \in Seq(Commands)

KeysInv == FifoInv /\ DownInv /\ RepeatInv /\ CmdInv /\ ReaderInv /\ text \in Texts

LEMMA PlacesShift ==
  ASSUME Places(fifo), Len(fifo) \in Nat, Len(fifo') = Len(fifo) - 1,
         \A m \in 1 .. Len(fifo') : fifo'[m] = fifo[m + 1]
  PROVE  Places(fifo)'
<1>1. Unreserved \in Int
  BY FifoAssumption DEF FifoAssumption, Unreserved
<1>2. ASSUME NEW m \in 1 .. Len(fifo'), fifo'[m].is = "down" PROVE m <= Unreserved
  <2>1. m + 1 \in 1 .. Len(fifo) /\ fifo[m + 1].is = "down"
    BY <1>2
  <2>2. m + 1 <= Unreserved
    BY <2>1 DEF Places
  <2>3. QED BY <1>1, <2>2
<1>3. QED BY <1>2 DEF Places

(* The event at the head is taken.                                         *)
LEMMA HeadTaken ==
  ASSUME FifoInv, fifo # <<>>, Get(Head(fifo))
  PROVE  /\ Head(fifo) \in Events /\ FifoInv'
         /\ \A c \in StillDown(0) : Head(fifo) # Event(c, "up") => c \in StillDown(0)'
         /\ Head(fifo).is = "down" => Head(fifo).key \in StillDown(0)'
<1>1. fifo' = Tail(fifo) /\ UNCHANGED <<young, held, lost>>
  BY DEF Get
<1>2. /\ Len(fifo) \in Nat /\ Len(fifo') = Len(fifo) - 1 /\ \A m \in 1 .. Len(fifo') : fifo'[m] = fifo[m + 1]
      /\ Head(fifo) = fifo[1] /\ Len(fifo) # 0 /\ fifo' \in Seq(Events) /\ Head(fifo) \in Events
  BY <1>1, LenProperties, HeadTailProperties, EmptySeq DEF FifoInv
<1>3. \A c \in StillDown(0) : Head(fifo) # Event(c, "up") => c \in StillDown(0)'
  BY <1>1, TailKeeps
<1>4. ASSUME NEW m \in Nat, m + 1 <= Len(fifo), fifo[m + 1].is = "down"
      PROVE  fifo[m + 1].key \in StillDown(m)'
  <2>1. m + 1 \in 1 .. Len(fifo) /\ m + 1 \in Nat /\ m + 1 > 0 /\ m = m + 1 - 1
    BY <1>2, <1>4
  <2>2. fifo[m + 1].key \in StillDown(m + 1)
    BY <1>4, <2>1 DEF FifoInv
  <2>3. QED BY <1>1, <2>1, <2>2, TailKeeps
<1>5. Head(fifo).is = "down" => Head(fifo).key \in StillDown(0)'
  <2>1. 0 + 1 = 1 /\ 0 \in Nat /\ 0 + 1 <= Len(fifo)
    BY <1>2
  <2>2. QED BY <1>2, <1>4, <2>1
<1>6. \A m \in 1 .. Len(fifo') : fifo'[m].is = "down" => fifo'[m].key \in StillDown(m)'
  BY <1>2, <1>4
<1>7. FifoInv'
  <2>1. Len(fifo') < FifoSize
    BY <1>2, FifoAssumption DEF FifoInv, FifoAssumption
  <2>2. Places(fifo)'
    BY <1>2, PlacesShift DEF FifoInv
  <2>3. QED BY <1>1, <1>2, <1>6, <2>1, <2>2 DEF FifoInv
<1>8. QED BY <1>2, <1>3, <1>5, <1>7

LEMMA Appended ==
  ASSUME NEW S, NEW s \in Seq(S), NEW x \in S
  PROVE  /\ Append(s, x) \in Seq(S) /\ Len(Append(s, x)) = Len(s) + 1
         /\ \A i \in 1 .. Len(s) : Append(s, x)[i] = s[i]
         /\ Append(s, x)[Len(s) + 1] = x
  OBVIOUS

(* The input layer takes a press, and a release or a double click.         *)
LEMMA PressRead ==
  ASSUME KeysInv, fifo # <<>>, Get(Head(fifo)), InterpretPress(Head(fifo))
  PROVE  FifoInv' /\ DownInv' /\ RepeatInv' /\ UNCHANGED <<ret, made>>
<1> DEFINE e == Head(fifo)
           code == Code(e)
<1>1. /\ e \in Events /\ FifoInv' /\ e.is = "down"
      /\ \A c \in StillDown(0) : e # Event(c, "up") => c \in StillDown(0)'
      /\ Head(fifo).key \in StillDown(0)'
  BY HeadTaken DEF KeysInv, InterpretPress
<1>2. code = <<e.key, FALSE>> /\ code \in Codes /\ \A c : e # Event(c, "up")
  <2>1. e.is = "down" /\ ("down" = "double") = FALSE /\ e.key \in Keys
    BY <1>1 DEF Events
  <2>2. (e.is = "double") = FALSE
    BY <2>1, Zenon
  <2>3. code = <<e.key, FALSE>>
    BY <2>2, Zenon DEF Code
  <2>4. <<e.key, FALSE>> \in Codes
    BY <2>1 DEF Codes
  <2>5. \A c : e # Event(c, "up")
    BY <2>1 DEF Event
  <2>6. QED BY <2>3, <2>4, <2>5
<1>3. \A i \in 1 .. Len(key_down) : key_down[i][1] \in StillDown(0)'
  BY <1>1, <1>2 DEF KeysInv, DownInv
<1>4. UNCHANGED <<ret, made>>
  BY DEF InterpretPress, Nothing
<1>5. CASE UNCHANGED keyvars
  BY <1>1, <1>3, <1>4, <1>5 DEF keyvars, KeysInv, DownInv, RepeatInv, RepeatIsCurrent, StillDown
<1>6. CASE /\ ~(Len(key_down) > MaxKeyDown) /\ ~(\E i \in DOMAIN key_down : key_down[i] = code)
           /\ key_down' = Append(key_down, code) /\ ar_state' = 0 /\ UNCHANGED ar_cmd
  <2>1. key_down \in Seq(Codes) /\ Len(key_down) \in Nat /\ DOMAIN key_down = 1 .. Len(key_down)
    BY LenProperties DEF KeysInv, DownInv
  <2>2. /\ key_down' \in Seq(Codes) /\ Len(key_down') = Len(key_down) + 1
        /\ \A i \in 1 .. Len(key_down) : key_down'[i] = key_down[i]
        /\ key_down'[Len(key_down) + 1] = code
    <3> HIDE DEF code
    <3>1. code \in Codes
      BY <1>2
    <3>2. key_down' = Append(key_down, code)
      BY <1>6
    <3>3. /\ Append(key_down, code) \in Seq(Codes) /\ Len(Append(key_down, code)) = Len(key_down) + 1
          /\ \A i \in 1 .. Len(key_down) : Append(key_down, code)[i] = key_down[i]
          /\ Append(key_down, code)[Len(key_down) + 1] = code
      BY <2>1, <3>1, Appended
    <3>4. QED BY <3>2, <3>3, Zenon
  <2>3. Len(key_down') <= MaxKeyDown + 1
    BY <1>6, <2>1, <2>2, InputAssumption DEF InputAssumption
  <2>4. \A i, j \in 1 .. Len(key_down') : key_down'[i] = key_down'[j] => i = j
    BY <1>6, <2>1, <2>2 DEF KeysInv, DownInv
  <2>5. \A i \in 1 .. Len(key_down') : key_down'[i][1] \in StillDown(0)'
    <3> SUFFICES ASSUME NEW i \in 1 .. Len(key_down') PROVE key_down'[i][1] \in StillDown(0)'
      OBVIOUS
    <3>1. CASE i \in 1 .. Len(key_down)
      BY <1>3, <2>2, <3>1 DEF StillDown
    <3>2. CASE i = Len(key_down) + 1
      <4>1. key_down'[i][1] = Head(fifo).key
        BY <1>2, <2>2, <3>2
      <4>2. QED BY <1>1, <4>1
    <3>3. QED BY <2>1, <2>2, <3>1, <3>2
  <2>6. RepeatInv'
    BY <1>6 DEF KeysInv, RepeatInv, RepeatIsCurrent
  <2>7. QED BY <1>1, <1>4, <2>2, <2>3, <2>4, <2>5, <2>6 DEF DownInv
<1>7. QED BY <1>5, <1>6 DEF InterpretPress

LEMMA ReleaseRead ==
  ASSUME KeysInv, fifo # <<>>, Get(Head(fifo)), InterpretRelease(Head(fifo))
  PROVE  /\ FifoInv' /\ DownInv' /\ RepeatInv'
         /\ UNCHANGED <<ret, made>> \/ (ret' \in Commands /\ made' \in Nat)
<1> DEFINE e == Head(fifo)
           code == Code(e)
           new  == \A i \in DOMAIN key_down : key_down[i] # code
           keys == IF new THEN Append(key_down, code) ELSE key_down
<1>1. /\ e \in Events /\ FifoInv'
      /\ \A c \in StillDown(0) : e # Event(c, "up") => c \in StillDown(0)'
  BY HeadTaken DEF KeysInv
<1>2. key_down \in Seq(Codes) /\ Len(key_down) \in Nat /\ DOMAIN key_down = 1 .. Len(key_down)
  BY LenProperties DEF KeysInv, DownInv
<1>3. UNCHANGED <<ret, made>> \/ (ret' \in Commands /\ made' \in Nat)
  <2>1. CASE UNCHANGED <<ret, made>>
    BY <2>1
  <2>2. CASE Bound(keys) /\ Found(Binds[keys])
    <3> HIDE DEF keys
    <3>1. Binds[keys] \in Kinds
      BY <2>2, KindsAssumption DEF Bound, KindsAssumption
    <3>2. QED BY <2>2, <3>1 DEF Found, Cmd, Commands, KeysInv, CmdInv
  <2>3. QED BY <2>1, <2>2 DEF InterpretRelease, Nothing
<1>4. \/ new /\ UNCHANGED keyvars
      \/ key_down' = RemoveFirst(key_down, code) /\ ar_state' = -1 /\ ar_cmd' = "none"
  BY DEF InterpretRelease, Without
<1>5. ASSUME NEW c \in Keys, c \in StillDown(0), <<c, FALSE>> # code PROVE c \in StillDown(0)'
  <2>1. e # Event(c, "up")
    <3> SUFFICES ASSUME e = Event(c, "up") PROVE FALSE
      OBVIOUS
    <3>1. e.key = c /\ e.is = "up" /\ ("up" = "double") = FALSE
      BY DEF Event
    <3>2. (e.is = "double") = FALSE
      BY <3>1, Zenon
    <3>3. code = <<c, FALSE>>
      BY <3>1, <3>2, Zenon DEF Code
    <3>4. QED BY <1>5, <3>3
  <2>2. QED BY <1>1, <1>5, <2>1
<1> HIDE DEF code
<1>6. CASE new /\ UNCHANGED keyvars
  <2>1. \A i \in 1 .. Len(key_down) : key_down[i][1] \in StillDown(0)'
    <3> SUFFICES ASSUME NEW i \in 1 .. Len(key_down) PROVE key_down[i][1] \in StillDown(0)'
      OBVIOUS
    <3>1. key_down[i] \in Codes /\ key_down[i] # code
      BY <1>2, <1>6, ElementOfSeq
    <3>2. key_down[i][1] \in Keys /\ <<key_down[i][1], FALSE>> = key_down[i]
      BY <3>1, CodeParts
    <3>3. key_down[i][1] \in StillDown(0)
      BY DEF KeysInv, DownInv
    <3>4. QED BY <1>5, <3>1, <3>2, <3>3
  <2>2. UNCHANGED <<key_down, ar_state, ar_cmd>>
    BY <1>6 DEF keyvars
  <2>3. DownInv'
    BY <2>1, <2>2 DEF KeysInv, DownInv
  <2>4. RepeatInv'
    BY <2>2 DEF KeysInv, RepeatInv, RepeatIsCurrent
  <2>5. QED BY <1>1, <1>3, <2>3, <2>4
<1>7. CASE key_down' = RemoveFirst(key_down, code) /\ ar_state' = -1 /\ ar_cmd' = "none"
  <2> DEFINE r == RemoveFirst(key_down, code)
  <2>1. /\ r \in Seq(Codes) /\ Len(r) <= Len(key_down)
        /\ \A i \in 1 .. Len(r) : r[i] # code /\ \E j \in 1 .. Len(key_down) : r[i] = key_down[j]
        /\ \A i, j \in 1 .. Len(r) : r[i] = r[j] => i = j
    BY <1>2, Removed DEF KeysInv, DownInv
  <2> HIDE DEF r
  <2>2. key_down' = r
    BY <1>7 DEF r
  <2>3. \A i \in 1 .. Len(r) : r[i][1] \in StillDown(0)'
    <3> SUFFICES ASSUME NEW i \in 1 .. Len(r) PROVE r[i][1] \in StillDown(0)'
      OBVIOUS
    <3>1. PICK j \in 1 .. Len(key_down) : r[i] = key_down[j]
      BY <2>1
    <3>2. r[i] \in Codes /\ r[i] # code
      BY <2>1, ElementOfSeq
    <3>3. r[i][1] \in Keys /\ <<r[i][1], FALSE>> = r[i]
      BY <3>2, CodeParts
    <3>4. r[i][1] \in StillDown(0)
      BY <3>1 DEF KeysInv, DownInv
    <3>5. QED BY <1>5, <3>2, <3>3, <3>4
  <2>4. Len(r) <= MaxKeyDown + 1
    <3>1. Len(r) \in Nat /\ Len(key_down) <= MaxKeyDown + 1 /\ MaxKeyDown \in Nat
      BY <2>1, LenProperties, InputAssumption DEF InputAssumption, KeysInv, DownInv
    <3>2. QED BY <1>2, <2>1, <3>1
  <2>5. DownInv'
    BY <2>1, <2>2, <2>3, <2>4 DEF DownInv
  <2>6. RepeatInv'
    BY <1>7 DEF RepeatInv, RepeatIsCurrent
  <2>7. QED BY <1>1, <1>3, <2>5, <2>6
<1>8. QED BY <1>4, <1>6, <1>7

(* The commands made of keys that repeat and of lines are of a kind.       *)
LEMMA RepeatStep ==
  ASSUME KeysInv, Repeat
  PROVE  RepeatInv' /\ (UNCHANGED <<ret, made>> \/ (ret' \in Commands /\ made' \in Nat))
<1>1. UNCHANGED key_down /\ made \in Nat /\ RepeatInv
  BY DEF Repeat, KeysInv, CmdInv
<1>2. Bound(key_down) => Binds[key_down] \in Kinds
  BY KindsAssumption DEF KindsAssumption, Bound
<1>3. CASE ar_state = 1 /\ Found(ar_cmd) /\ UNCHANGED <<ar_state, ar_cmd>>
  <2>1. ar_cmd \in Kinds
    BY <1>1, <1>2, <1>3 DEF RepeatInv, RepeatIsCurrent
  <2>2. ret' \in Commands /\ made' \in Nat
    BY <1>1, <1>3, <2>1 DEF Found, Cmd, Commands
  <2>3. QED BY <1>1, <1>3, <2>2 DEF RepeatInv, RepeatIsCurrent
<1>4. CASE Bound(key_down) /\ Found(Binds[key_down]) /\ ar_state' = 1 /\ ar_cmd' = Binds[key_down]
  <2>1. ret' \in Commands /\ made' \in Nat
    BY <1>1, <1>2, <1>4 DEF Found, Cmd, Commands
  <2>2. RepeatInv'
    BY <1>1, <1>2, <1>4 DEF RepeatInv, RepeatIsCurrent, Bound
  <2>3. QED BY <2>1, <2>2
<1>5. CASE UNCHANGED <<ret, made>> /\ ar_state' = -1 /\ ar_cmd' = "none"
  BY <1>5 DEF RepeatInv, RepeatIsCurrent
<1>6. QED BY <1>3, <1>4, <1>5 DEF Repeat, Nothing

LEMMA RepeatKept == ASSUME RepeatInv, UNCHANGED keyvars PROVE RepeatInv'
  BY DEF keyvars, RepeatInv, RepeatIsCurrent

LEMMA LineReadStep ==
  ASSUME KeysInv, LineRead
  PROVE  UNCHANGED <<ret, made>> \/ (ret' \in Commands /\ made' \in Nat)
<1>1. CASE ReadLine /\ Found(KindOf(text[Last(lines') + 1]))
  <2>1. ReaderInv' /\ text' = text /\ text \in Texts /\ made \in Nat
    BY <1>1, LineStep DEF KeysInv, CmdInv, ReadLine
  <2>2. PICK s \in Nat : lines' = Append(lines, s)
    <3>1. \E s : lines' = Append(lines, s)
      BY <1>1 DEF ReadLine, TakeLine
    <3>2. PICK s : lines' = Append(lines, s)
      BY <3>1
    <3>3. lines' \in Seq(Nat) /\ lines \in Seq(Nat)
      BY <2>1 DEF KeysInv, ReaderInv, BufInv
    <3>4. Len(lines) \in Nat /\ Len(lines') = Len(lines) + 1 /\ lines'[Len(lines) + 1] = s
      BY <3>2, <3>3
    <3>5. s \in Nat
      BY <3>3, <3>4
    <3>6. QED BY <3>2, <3>5
  <2>3. lines \in Seq(Nat) /\ lines' \in Seq(Nat) /\ Len(lines) \in Nat
    BY <2>1, LenProperties DEF KeysInv, ReaderInv, BufInv
  <2>4. Len(lines') = Len(lines) + 1 /\ lines'[Len(lines')] = s /\ Last(lines') = s
    BY <2>2, <2>3 DEF Last
  <2>5. s < lo' /\ lo' <= hi' /\ hi' <= Len(text) /\ lo' \in Nat /\ hi' \in Nat /\ Len(text) \in Nat
    <3>1. Len(lines') \in 1 .. Len(lines')
      BY <2>3, <2>4
    <3>2. s < lo'
      BY <2>1, <2>4, <3>1 DEF ReaderInv, LineInv
    <3>3. lo' <= hi' /\ hi' <= Len(text') /\ lo' \in Nat /\ hi' \in Nat /\ Len(text') \in Nat
      BY <2>1 DEF ReaderInv, BufInv
    <3>4. QED BY <2>1, <3>2, <3>3
  <2>6. s + 1 \in 1 .. Len(text)
    BY <2>2, <2>5
  <2>7. s + 1 \in DOMAIN text
    BY <2>1, <2>6, TextsAssumption, LenProperties
  <2>8. KindOf(text[s + 1]) \in Kinds
    BY <2>1, <2>7, KindsAssumption DEF KindsAssumption
  <2>9. QED BY <1>1, <2>1, <2>4, <2>8 DEF Found, Cmd, Commands
<1>2. CASE UNCHANGED <<ret, made>>
  BY <1>2
<1>3. QED BY <1>1, <1>2 DEF LineRead, Nothing

LEMMA NoCmdIsOne == NoCmd \in Commands
  BY DEF NoCmd, Commands, Kinds

LEMMA QueueStep ==
  ASSUME CmdInv, UNCHANGED made,
         \/ UNCHANGED <<ret, queue>>
         \/ Answer /\ UNCHANGED queue
         \/ \E who, p : Call(who, p)
         \/ ret' = ret /\ (queue' = queue \/ queue' = Append(queue, ret))
  PROVE  CmdInv'
<1>1. CASE UNCHANGED <<ret, queue>>
  BY <1>1 DEF CmdInv
<1>2. CASE Answer /\ UNCHANGED queue
  BY <1>2, NoCmdIsOne DEF CmdInv, Answer
<1>3. ASSUME NEW who, NEW p, Call(who, p) PROVE CmdInv'
  <2>1. CASE queue = <<>>
    BY <1>3, <2>1 DEF Call, CmdInv
  <2>2. CASE queue # <<>>
    <3>1. Head(queue) \in Commands /\ Tail(queue) \in Seq(Commands)
      BY <2>2, HeadTailProperties DEF CmdInv
    <3>2. QED BY <1>3, <2>2, <3>1 DEF Call, CmdInv
  <2>3. QED BY <2>1, <2>2
<1>4. CASE ret' = ret /\ queue' = Append(queue, ret)
  BY <1>4, AppendProperties DEF CmdInv
<1>5. QED BY <1>1, <1>2, <1>3, <1>4

LEMMA KeysStart == Init => KeysInv
<1> SUFFICES ASSUME Init PROVE KeysInv
  OBVIOUS
<1>1. fifo = <<>> /\ young = 0 /\ held = {} /\ key_down = <<>> /\ ar_state = -1 /\ ar_cmd = "none"
  BY DEF Init, FifoInit
<1>2. FifoInv
  BY <1>1, FifoAssumption DEF FifoInv, Places, FifoAssumption
<1>3. DownInv
  BY <1>1, InputAssumption DEF DownInv, InputAssumption
<1>4. RepeatInv
  BY <1>1 DEF RepeatInv, RepeatIsCurrent
<1>5. CmdInv
  BY NoCmdIsOne DEF Init, CmdInv
<1>6. text \in Texts
  BY DEF Init, ReaderInit
<1>7. QED BY <1>2, <1>3, <1>4, <1>5, <1>6, ReaderInitially DEF KeysInv

LEMMA TextNeverChanges == [Next]_inputvars => UNCHANGED text
  BY ReaderSteps DEF ReadLine, ReadNoLine, Close, readervars

LEMMA FoundKept == ASSUME CmdInv, UNCHANGED queue, UNCHANGED <<ret, made>> \/ (ret' \in Commands /\ made' \in Nat)
                   PROVE  CmdInv'
  BY DEF CmdInv

LEMMA DriverStep ==
  ASSUME FifoInv, DownInv, Driver, UNCHANGED key_down PROVE FifoInv' /\ DownInv'
  BY TimeStep, PressStep, ReleaseStep DEF Driver

LEMMA KeysStep ==
  ASSUME KeysInv, [Next]_inputvars PROVE FifoInv' /\ DownInv' /\ RepeatInv' /\ CmdInv'
<1>0. FifoInv /\ DownInv /\ RepeatInv /\ CmdInv
  BY DEF KeysInv
<1>1. CASE UserActs
  <2>1. Driver /\ UNCHANGED keyvars /\ UNCHANGED <<ret, queue, made>>
    BY <1>1 DEF UserActs, callvars, playvars
  <2>2. QED BY <1>0, <2>1, DriverStep, RepeatKept, QueueStep DEF keyvars
<1>2. CASE ReadKey
  <2>1. UNCHANGED queue
    BY <1>2 DEF ReadKey
  <2>2. CASE UNCHANGED <<fifovars, keyvars>> /\ Nothing("repeat")
    BY <1>0, <2>1, <2>2, KeysKept, RepeatKept, FoundKept DEF fifovars, keyvars, Nothing
  <2>3. CASE fifo # <<>> /\ Get(Head(fifo)) /\ InterpretPress(Head(fifo))
    BY <1>0, <2>1, <2>3, PressRead, FoundKept
  <2>4. CASE fifo # <<>> /\ Get(Head(fifo)) /\ InterpretRelease(Head(fifo))
    BY <1>0, <2>1, <2>4, ReleaseRead, FoundKept
  <2>5. QED BY <1>2, <2>2, <2>3, <2>4 DEF ReadKey
<1>3. CASE Repeat
  <2>1. UNCHANGED <<fifo, young, held, lost, key_down, queue>>
    BY <1>3 DEF Repeat, fifovars
  <2>2. QED BY <1>0, <1>3, <2>1, KeysKept, RepeatStep, FoundKept
<1>4. ASSUME UNCHANGED <<fifovars, keyvars, queue>>, UNCHANGED <<ret, made>> \/ (ret' \in Commands /\ made' \in Nat)
      PROVE  FifoInv' /\ DownInv' /\ RepeatInv' /\ CmdInv'
  BY <1>0, <1>4, KeysKept, RepeatKept, FoundKept DEF fifovars, keyvars
<1>5. CASE LineRead
  <2>1. UNCHANGED <<fifovars, keyvars, queue>>
    BY <1>5 DEF LineRead
  <2>2. QED BY <1>4, <1>5, <2>1, LineReadStep
<1>6. CASE NoRepeat \/ CloseLines \/ StartRead \/ UNCHANGED inputvars
  BY <1>4, <1>6 DEF NoRepeat, CloseLines, StartRead, Nothing, inputvars, callvars, playvars
<1>7. CASE Back \/ MainLoop \/ Run \/ PauseSees \/ Unpause \/ CheckSees \/ Dropped \/ OpenFailed \/ CheckInterrupt
  <2>1. UNCHANGED <<fifo, young, held, lost, key_down>> /\ UNCHANGED keyvars /\ UNCHANGED made
    BY <1>7 DEF Back, MainLoop, Run, PauseSees, Unpause, CheckSees, Dropped, OpenFailed, CheckInterrupt,
                Unchecked, fifovars, keyvars, playvars
  <2>2. \/ UNCHANGED <<ret, queue>>
        \/ Answer /\ UNCHANGED queue
        \/ \E who, p : Call(who, p)
        \/ ret' = ret /\ (queue' = queue \/ queue' = Append(queue, ret))
    BY <1>7 DEF Back, MainLoop, Run, PauseSees, Unpause, CheckSees, Dropped, OpenFailed, CheckInterrupt
  <2>3. CmdInv'
    BY <1>0, <2>1, <2>2, QueueStep
  <2>4. QED BY <1>0, <2>1, <2>3, KeysKept, RepeatKept
<1>8. QED BY <1>1, <1>2, <1>3, <1>5, <1>6, <1>7 DEF Next, Player, ReadEvents

LEMMA KeysNext == ASSUME KeysInv, [Next]_inputvars PROVE KeysInv'
<1>1. ReaderInv' /\ text' \in Texts
  BY ReaderNext, TextNeverChanges DEF KeysInv
<1>2. QED BY <1>1, KeysStep DEF KeysInv

LEMMA QueueIsShort == Inv /\ CmdInv => Len(queue) <= QueueSize /\ \A i \in DOMAIN queue : queue[i] \in Commands
<1> SUFFICES ASSUME Inv, CmdInv PROVE Len(queue) <= QueueSize /\ \A i \in DOMAIN queue : queue[i] \in Commands
  OBVIOUS
<1>1. queue = <<>> \/ queue = <<queue[1]>> \/ queue = <<ret>>
  BY DEF Inv, PlaceInv, NoneWaits
<1>2. Len(queue) <= 1
  BY <1>1, OneElement
<1>3. Len(queue) \in Nat /\ \A i \in DOMAIN queue : queue[i] \in Commands
  BY LenProperties, ElementOfSeq DEF CmdInv
<1>4. QED BY <1>2, <1>3, InputAssumption DEF InputAssumption

LEMMA KeysInvAgrees == Inv /\ KeysInv => KeysAgree
<1> SUFFICES ASSUME Inv, KeysInv PROVE KeysAgree
  OBVIOUS
<1>1. RepeatIsCurrent /\ ar_state \in -1 .. 1 /\ ar_cmd \in Kinds \cup {"none"}
  BY DEF KeysInv, RepeatInv
<1>2. Len(fifo) < FifoSize /\ young \in 0 .. 2 /\ held \subseteq Keys
  BY DEF KeysInv, FifoInv
<1>3. lo \in 0 .. hi /\ hi \in 0 .. Len(text) /\ hi - lo < BufferSize
  BY BufferAssumption DEF KeysInv, ReaderInv, BufInv, BufferAssumption
<1>4. OverrunByOne
  BY DEF KeysInv, DownInv, OverrunByOne
<1>5. Len(queue) <= QueueSize /\ \A i \in DOMAIN queue : queue[i] \in [no : Nat, kind : Kinds]
  BY QueueIsShort DEF KeysInv, Commands
<1>6. TypeOK
  BY <1>1, <1>2, <1>3, <1>5 DEF TypeOK
<1>7. ASSUME NEW i \in DOMAIN key_down
      PROVE  \/ key_down[i][1] \in held \/ key_down[i][1] \in lost
             \/ Event(key_down[i][1], "up") \in Range(fifo)
  <2>1. key_down[i][1] \in StillDown(0)
    BY LenProperties DEF KeysInv, DownInv
  <2>2. CASE Released(fifo, 0, key_down[i][1])
    <3>1. PICK j \in 0 + 1 .. Len(fifo) : fifo[j] = Event(key_down[i][1], "up")
      BY <2>2 DEF Released
    <3>2. j \in DOMAIN fifo
      BY <3>1, LenProperties DEF KeysInv, FifoInv
    <3>3. QED BY <3>1, <3>2 DEF Range
  <2>3. QED BY <2>1, <2>2 DEF StillDown
<1>8. ReserveKept
  BY LenProperties DEF KeysInv, FifoInv, Places, ReserveKept
<1>9. QED BY <1>1, <1>4, <1>6, <1>7, <1>8 DEF KeysAgree, DownIsHeld

(* What repeats is the command of the keys that are down (interpret_key    *)
(* and check_autorepeat).  A key that is down for the player is held, or   *)
(* its release is in the FIFO, or a full FIFO refused it, though never     *)
(* because presses took the reserve (mplayer_put_key_internal); and        *)
(* key_down may hold one key more than it has room for, not two.  Refused  *)
(* releases and the key too many are what the code does, not what it       *)
(* should: see NoStuckKey, KeyDownFits.                                    *)
THEOREM KeysAgreeCorrect == Spec => []KeysAgree
<1>1. Init => Inv /\ KeysInv
  BY InitInv, KeysStart
<1>2. Inv /\ KeysInv /\ [Next]_inputvars => Inv' /\ KeysInv'
  BY NextInv, KeysNext
<1>3. QED BY <1>1, <1>2, KeysInvAgrees, PTL DEF Spec
=============================================================================
