------------------------ MODULE CacheControlProofs ------------------------
(***************************************************************************)
(* Proofs about the control mailbox of the stream cache, for every size,   *)
(* mode and number of commands.  What is said about the commands needs     *)
(* nothing of the ring; where a seek lands needs all that is known of it.  *)
(***************************************************************************)
EXTENDS CacheControl, CacheRingProofs

Commands == [kind : {"none", "reset", "seek", "query"}, no : Nat]

Entries  == [to : Nat, ok : BOOLEAN, arg : Nat]     \* of the history served

(* The types of the mailbox                                                *)
MailboxTypes ==
  /\ control \in Commands /\ xcmd \in Commands /\ cmd \in Commands
  /\ control_arg \in Nat /\ control_res \in [ok : BOOLEAN, to : Nat]
  /\ xpc \in {"test", "switch", "serve", "newpos", "clear"}
  /\ cpc \in {"none", "store", "wait", "result", "apply", "return"}
  /\ served \in Seq(Entries)

(* All commands served so far are older than number n.                     *)
Unserved(n) == \A i \in DOMAIN served : served[i].to < n

(* Each place a command can be in holds one that was not served before it  *)
(* comes to the driver.                                                    *)
OrderInv ==
  /\ Unserved(cmd.no + 1) /\ control.no <= cmd.no /\ xcmd.no <= cmd.no
  /\ cpc = "store" => Unserved(cmd.no) /\ control.no < cmd.no /\ xcmd.no < cmd.no
  /\ xpc \in {"test", "switch"} => control.no = 0 \/ Unserved(control.no)
  /\ xpc = "serve" => xcmd.no = 0 \/ Unserved(xcmd.no)

ServedInv == MailboxTypes /\ OrderInv /\ ServedOnce

(* Until a command is given up the two sides take turns: while the player  *)
(* waits the mailbox holds its command, or nothing.                        *)
TurnInv ==
  /\ control = Empty => xpc = "test"
  /\ cpc = "none" => control = Empty \/ (control = Zeroed /\ cmd.no = 0)
  /\ cpc = "store" => control = Empty \/ (control = Zeroed /\ cmd.no = 1)
  /\ cpc = "wait" => control = Empty \/ control = cmd
  /\ cpc \in {"result", "apply", "return"} => control = Empty
  /\ cpc # "none" => cmd.no > 0 /\ cmd.kind \in {"seek", "query"}

(* The filler is at the player's command, or still at the zeroed mailbox.  *)
Mine == cpc # "none" /\ xcmd = cmd
Null == xcmd = Zeroed /\ cmd.no = (IF cpc = "none" THEN 0 ELSE 1)

ReplyIsMine == control_res.to = cmd.no \/ (control_res.to = 0 /\ cmd.no = 1)

ReplyInv ==
  /\ xpc \in {"serve", "newpos", "clear"} => Mine \/ Null
  /\ xpc \in {"newpos", "clear"} => control_res.to = xcmd.no
  /\ cpc \in {"wait", "result", "apply", "return"} /\ control = Empty => ReplyIsMine

(* The argument stays as it was stored until the command was served.       *)
ArgInv == cpc \in {"store", "wait"} /\ cmd.kind = "seek" => control_arg = cmd.no

TurnsInv ==
  MailboxTypes /\ gaveup \in BOOLEAN /\ (~gaveup => TurnInv /\ ReplyInv /\ ArgInv /\ OwnArgument)
-----------------------------------------------------------------------------
(* What is needed of sequences                                             *)
LEMMA Elements ==
  ASSUME NEW S, NEW s \in Seq(S)
  PROVE  /\ Len(s) \in Nat /\ DOMAIN s = 1 .. Len(s)
         /\ \A i \in DOMAIN s : s[i] \in S
  OBVIOUS

LEMMA Numbers ==
  ASSUME NEW s \in Seq(Entries)
  PROVE  /\ Len(s) \in Nat /\ DOMAIN s = 1 .. Len(s)
         /\ \A i \in DOMAIN s : s[i].to \in Nat
<1>1. \A i \in DOMAIN s : s[i] \in Entries
  BY Elements
<1>2. \A e \in Entries : e.to \in Nat
  BY DEF Entries
<1> QED
  BY <1>1, <1>2, Elements

LEMMA Appended ==
  ASSUME NEW S, NEW s \in Seq(S), NEW e \in S
  PROVE  /\ Append(s, e) \in Seq(S)
         /\ DOMAIN Append(s, e) = 1 .. Len(s) + 1
         /\ Append(s, e)[Len(s) + 1] = e
         /\ \A i \in 1 .. Len(s) : Append(s, e)[i] = s[i]
  OBVIOUS
-----------------------------------------------------------------------------
(* The mailbox keeps its types.                                            *)
LEMMA TypesInit == CInit => MailboxTypes
  BY DEF CInit, MailboxTypes, Commands, Zeroed, Empty, Command, Reply

(* What the ring does, and what happens in it, leaves the mailbox alone    *)
LEMMA Elsewhere ==
  ASSUME CacheFill \/ CacheCall \/ (cpc = "none" /\ Calls /\ UNCHANGED ctl)
         \/ (Ended /\ UNCHANGED ctl) \/ UNCHANGED allvars
  PROVE  UNCHANGED <<control, control_arg, control_res, xpc, xcmd, cpc, cmd, served,
                     gaveup>>
  BY DEF CacheFill, CacheCall, ctl, mailbox, allvars

LEMMA TypesStep == MailboxTypes /\ [CNext]_allvars => MailboxTypes'
<1> SUFFICES ASSUME MailboxTypes, [CNext]_allvars PROVE MailboxTypes'
  OBVIOUS
<1> USE DEF MailboxTypes, Commands
<1>1. CASE CacheFill \/ CacheCall \/ (cpc = "none" /\ Calls /\ UNCHANGED ctl)
           \/ (Ended /\ UNCHANGED ctl) \/ UNCHANGED allvars
  BY <1>1, Elsewhere
<1>2. CASE NoCommand
  BY <1>2 DEF NoCommand, ctl, mailbox
<1>3. CASE SomeCommand
  BY <1>3 DEF SomeCommand, mailbox
<1>4. CASE Switch
  BY <1>4 DEF Switch, mailbox
<1>5. CASE Serve
  <2>1. PICK ok \in BOOLEAN :
          /\ control_res' = Reply(ok, xcmd)
          /\ served' = IF xcmd.no = 0 THEN served
                       ELSE Append(served, [to |-> xcmd.no, ok |-> ok, arg |-> control_arg])
    BY <1>5 DEF Serve
  <2>2. served' \in Seq(Entries)
    <3>1. [to |-> xcmd.no, ok |-> ok, arg |-> control_arg] \in Entries
      BY DEF Entries
    <3> QED
      BY <2>1, <3>1, Appended
  <2>3. control_res' \in [ok : BOOLEAN, to : Nat]
    BY <2>1 DEF Reply
  <2> QED
    BY <1>5, <2>2, <2>3 DEF Serve
<1>6. CASE NewPos
  BY <1>6 DEF NewPos
<1>7. CASE Clear
  BY <1>7 DEF Clear, Empty, Command
<1>8. ASSUME NEW k \in {"seek", "query"}, Ask(k) PROVE MailboxTypes'
  BY <1>8 DEF Ask, Command
<1>9. CASE Store
  BY <1>9 DEF Store
<1>10. CASE Served \/ GiveUp \/ Result \/ Apply \/ AnswerAndReturn
  BY <1>10 DEF Served, GiveUp, Result, Apply, AnswerAndReturn, mailbox
<1> QED
  BY <1>1, <1>2, <1>3, <1>4, <1>5, <1>6, <1>7, <1>8, <1>9, <1>10
     DEF CNext, ExecuteControl, DoControl
-----------------------------------------------------------------------------
(* Commands are served in order, and once.                                 *)
LEMMA ServedInit == CInit => ServedInv
<1> SUFFICES ASSUME CInit PROVE ServedInv
  OBVIOUS
<1>1. MailboxTypes
  BY TypesInit
<1>2. DOMAIN served = {} /\ control.no = 0 /\ xcmd.no = 0 /\ cmd.no = 0
  BY DEF CInit, Zeroed, Empty, Command
<1>3. xpc = "test" /\ cpc = "none"
  BY DEF CInit
<1> QED
  BY <1>1, <1>2, <1>3 DEF ServedInv, OrderInv, ServedOnce, Unserved

LEMMA ServedStep == ServedInv /\ [CNext]_allvars => ServedInv'
<1> SUFFICES ASSUME ServedInv, [CNext]_allvars PROVE OrderInv' /\ ServedOnce'
  BY TypesStep DEF ServedInv
<1> USE DEF ServedInv, MailboxTypes, Commands
<1>1. CASE CacheFill \/ CacheCall \/ (cpc = "none" /\ Calls /\ UNCHANGED ctl)
           \/ (Ended /\ UNCHANGED ctl) \/ UNCHANGED allvars
  BY <1>1, Elsewhere DEF OrderInv, ServedOnce, Unserved
<1>2. CASE NoCommand
  BY <1>2 DEF NoCommand, ctl, mailbox, OrderInv, ServedOnce, Unserved
<1>3. CASE SomeCommand
  BY <1>3 DEF SomeCommand, mailbox, OrderInv, ServedOnce, Unserved
<1>4. CASE Switch
  BY <1>4 DEF Switch, mailbox, OrderInv, ServedOnce, Unserved
<1>5. CASE Serve
  <2>0. /\ xpc = "serve" /\ xpc' = "newpos"
        /\ UNCHANGED <<control, xcmd, cpc, cmd>>
    BY <1>5 DEF Serve
  <2>1. CASE xcmd.no = 0
    <3>1. served' = served
      BY <1>5, <2>1 DEF Serve
    <3> QED
      BY <2>0, <3>1 DEF OrderInv, ServedOnce, Unserved
  <2>2. CASE xcmd.no # 0
    <3>1. PICK ok \in BOOLEAN :
            served' = Append(served, [to |-> xcmd.no, ok |-> ok, arg |-> control_arg])
      BY <1>5, <2>2 DEF Serve
    <3>2. [to |-> xcmd.no, ok |-> ok, arg |-> control_arg] \in Entries
      BY DEF Entries
    <3>3. /\ DOMAIN served' = 1 .. Len(served) + 1
          /\ \A i \in 1 .. Len(served) : served'[i] = served[i]
      BY <3>1, <3>2, Appended
    <3>4. served'[Len(served) + 1].to = xcmd.no
      BY <3>1, <3>2, Appended
    <3>5. Unserved(xcmd.no) /\ Unserved(cmd.no + 1) /\ xcmd.no <= cmd.no
      BY <2>0, <2>2 DEF OrderInv
    <3>6. /\ DOMAIN served = 1 .. Len(served) /\ Len(served) \in Nat
          /\ \A i \in DOMAIN served : served[i].to \in Nat
      BY Numbers
    <3>7. \A i \in DOMAIN served' :
            served'[i].to <= xcmd.no /\ (i <= Len(served) => served'[i].to < xcmd.no)
      <4> SUFFICES ASSUME NEW i \in DOMAIN served'
                   PROVE served'[i].to <= xcmd.no
                         /\ (i <= Len(served) => served'[i].to < xcmd.no)
        OBVIOUS
      <4>1. CASE i = Len(served) + 1
        BY <4>1, <3>4, <3>6
      <4>2. CASE i \in 1 .. Len(served)
        BY <4>2, <3>3, <3>5, <3>6 DEF Unserved
      <4> QED
        BY <4>1, <4>2, <3>3, <3>6
    <3>8. ServedOnce'
      <4> SUFFICES ASSUME NEW i \in DOMAIN served', NEW j \in DOMAIN served', i < j
                   PROVE served'[i].to < served'[j].to
        BY DEF ServedOnce
      <4>1. CASE j = Len(served) + 1
        BY <4>1, <3>3, <3>4, <3>6, <3>7
      <4>2. CASE j \in 1 .. Len(served)
        BY <4>2, <3>3, <3>6 DEF ServedOnce
      <4> QED
        BY <4>1, <4>2, <3>3, <3>6
    <3>9. \A i \in DOMAIN served' : served'[i].to \in Nat
      <4>1. served' \in Seq(Entries)
        BY <3>1, <3>2, Appended
      <4> QED
        BY <4>1, Numbers
    <3>10. Unserved(cmd.no + 1)'
      BY <2>0, <3>5, <3>7, <3>9 DEF Unserved
    <3>11. cpc = "store" => Unserved(cmd.no)'
      BY <2>0, <3>7, <3>9 DEF Unserved, OrderInv
    <3> QED
      BY <2>0, <3>8, <3>10, <3>11 DEF OrderInv
  <2> QED
    BY <2>1, <2>2
<1>6. CASE NewPos
  BY <1>6 DEF NewPos, OrderInv, ServedOnce, Unserved
<1>7. CASE Clear
  BY <1>7 DEF Clear, OrderInv, ServedOnce, Unserved, Empty, Command
<1>8. ASSUME NEW k \in {"seek", "query"}, Ask(k) PROVE OrderInv' /\ ServedOnce'
  <2>1. cmd'.no = cmd.no + 1 /\ UNCHANGED <<control, xpc, xcmd, served>> /\ cpc' = "store"
    BY <1>8 DEF Ask, Command
  <2>2. \A i \in DOMAIN served : served[i].to \in Nat
    BY Numbers
  <2> QED
    BY <2>1, <2>2 DEF OrderInv, ServedOnce, Unserved
<1>9. CASE Store
  BY <1>9 DEF Store, OrderInv, ServedOnce, Unserved
<1>10. CASE Served \/ GiveUp \/ Result \/ Apply \/ AnswerAndReturn
  <2>1. cpc' # "store" /\ UNCHANGED <<control, xpc, xcmd, cmd, served>>
    BY <1>10 DEF Served, GiveUp, Result, Apply, AnswerAndReturn, mailbox
  <2> QED
    BY <2>1 DEF OrderInv, ServedOnce, Unserved
<1> QED
  BY <1>1, <1>2, <1>3, <1>4, <1>5, <1>6, <1>7, <1>8, <1>9, <1>10
     DEF CNext, ExecuteControl, DoControl

(* A command is served at most once and in the order in which commands     *)
(* were given, interrupts or not.                                          *)
THEOREM ServedOnceCorrect == CSpec => []ServedOnce
<1>1. ServedInv => ServedOnce
  BY DEF ServedInv
<1> QED
  BY <1>1, ServedInit, ServedStep, PTL DEF CSpec
-----------------------------------------------------------------------------
(* Until one is given up a command gets its own reply and argument.        *)
LEMMA TurnsInit == CInit => TurnsInv
<1> SUFFICES ASSUME CInit PROVE TurnsInv
  OBVIOUS
<1>1. MailboxTypes
  BY TypesInit
<1>2. /\ control = Zeroed /\ cmd = Empty /\ served = <<>> /\ gaveup = FALSE
      /\ xpc = "test" /\ cpc = "none"
  BY DEF CInit
<1>3. TurnInv /\ ReplyInv /\ ArgInv
  BY <1>2 DEF TurnInv, ReplyInv, ArgInv, Zeroed, Empty, Command
<1>4. OwnArgument
  BY <1>2 DEF OwnArgument
<1> QED
  BY <1>1, <1>2, <1>3, <1>4 DEF TurnsInv

LEMMA GaveUpStays ==
  ASSUME [CNext]_allvars
  PROVE  (UNCHANGED gaveup) \/ gaveup' = TRUE
  BY Elsewhere DEF CNext, ExecuteControl, NoCommand, SomeCommand, Switch, Serve, NewPos, Clear,
       Ask, DoControl, Store, Served, GiveUp, Result, Apply, AnswerAndReturn, ctl, mailbox

LEMMA TurnsStep == TurnsInv /\ [CNext]_allvars => TurnsInv'
<1> SUFFICES ASSUME TurnsInv, [CNext]_allvars, ~gaveup'
             PROVE TurnInv' /\ ReplyInv' /\ ArgInv' /\ OwnArgument'
  BY TypesStep, GaveUpStays DEF TurnsInv
<1> ~gaveup
  BY GaveUpStays
<1> USE DEF TurnsInv, MailboxTypes, Commands
<1> DEFINE Goal == TurnInv' /\ ReplyInv' /\ ArgInv' /\ OwnArgument'
<1>1. CASE CacheFill \/ CacheCall \/ (cpc = "none" /\ Calls /\ UNCHANGED ctl)
           \/ (Ended /\ UNCHANGED ctl) \/ UNCHANGED allvars
  BY <1>1, Elsewhere DEF TurnInv, ReplyInv, ArgInv, OwnArgument, Mine, Null, ReplyIsMine
<1>2. CASE NoCommand
  BY <1>2 DEF NoCommand, ctl, mailbox, TurnInv, ReplyInv, ArgInv, OwnArgument, Mine, Null,
              ReplyIsMine
<1>3. CASE SomeCommand
  BY <1>3 DEF SomeCommand, mailbox, TurnInv, ReplyInv, ArgInv, OwnArgument, Mine, Null,
              ReplyIsMine
<1>4. CASE Switch
  <2>1. control # Empty
    BY <1>4 DEF Switch, TurnInv
  <2>2. Mine' \/ Null'
    BY <1>4, <2>1 DEF Switch, mailbox, TurnInv, Mine, Null
  <2> QED
    BY <1>4, <2>1, <2>2 DEF Switch, mailbox, TurnInv, ReplyInv, ArgInv, OwnArgument,
                            ReplyIsMine
<1>5. CASE Serve
  <2>0. /\ xpc = "serve" /\ xpc' = "newpos"
        /\ UNCHANGED <<control, control_arg, xcmd, cpc, cmd>>
    BY <1>5 DEF Serve
  <2>1. PICK ok \in BOOLEAN :
          /\ ok => xcmd.kind = "seek"
          /\ control_res' = Reply(ok, xcmd)
          /\ served' = IF xcmd.no = 0 THEN served
                       ELSE Append(served, [to |-> xcmd.no, ok |-> ok, arg |-> control_arg])
    BY <1>5 DEF Serve
  <2>2. control # Empty
    BY <2>0 DEF TurnInv
  <2>3. TurnInv'
    BY <2>0 DEF TurnInv
  <2>4. ReplyInv'
    BY <2>0, <2>1, <2>2 DEF ReplyInv, Mine, Null, Reply
  <2>5. ArgInv'
    BY <2>0 DEF ArgInv
  <2>6. ok => control_arg = xcmd.no
    BY <2>0, <2>1, <2>2 DEF ReplyInv, TurnInv, ArgInv, Mine, Null, Zeroed, Command
  <2>7. OwnArgument'
    <3>1. CASE xcmd.no = 0
      BY <2>1, <3>1 DEF OwnArgument
    <3>2. CASE xcmd.no # 0
      <4> DEFINE e == [to |-> xcmd.no, ok |-> ok, arg |-> control_arg]
      <4>e. e \in Entries
        BY DEF Entries
      <4>s. /\ DOMAIN served' = 1 .. Len(served) + 1 /\ served'[Len(served) + 1] = e
            /\ \A i \in 1 .. Len(served) : served'[i] = served[i]
        <5> HIDE DEF e
        <5> QED
          BY <2>1, <3>2, <4>e, Appended DEF e
      <4>d. DOMAIN served = 1 .. Len(served) /\ Len(served) \in Nat
        BY Elements
      <4> SUFFICES ASSUME NEW i \in DOMAIN served', served'[i].ok
                   PROVE served'[i].arg = served'[i].to
        BY DEF OwnArgument
      <4>1. CASE i = Len(served) + 1
        BY <2>6, <4>s, <4>1
      <4>2. CASE i \in 1 .. Len(served)
        BY <4>s, <4>d, <4>2 DEF OwnArgument
      <4> QED
        BY <4>s, <4>d, <4>1, <4>2
    <3> QED
      BY <3>1, <3>2
  <2> QED
    BY <2>3, <2>4, <2>5, <2>7
<1>6. CASE NewPos
  BY <1>6 DEF NewPos, TurnInv, ReplyInv, ArgInv, OwnArgument, Mine, Null, ReplyIsMine
<1>7. CASE Clear
  <2>0. /\ xpc = "clear" /\ xpc' = "test" /\ control' = Empty
        /\ UNCHANGED <<control_arg, control_res, cpc, cmd, served>>
    BY <1>7 DEF Clear
  <2>1. cpc = "wait" => ReplyIsMine
    BY <2>0 DEF ReplyInv, ReplyIsMine, Mine, Null, Zeroed, Command
  <2>2. control # Empty
    BY <2>0 DEF TurnInv
  <2> QED
    BY <2>0, <2>1, <2>2 DEF TurnInv, ReplyInv, ArgInv, OwnArgument, ReplyIsMine
<1>8. ASSUME NEW k \in {"seek", "query"}, Ask(k) PROVE Goal
  <2>1. /\ cpc = "none" /\ cpc' = "store" /\ cmd' = Command(k, cmd.no + 1)
        /\ control_arg' = IF k = "seek" THEN cmd.no + 1 ELSE control_arg
        /\ UNCHANGED <<control, control_res, xpc, xcmd, served>>
    BY <1>8 DEF Ask
  <2>2. TurnInv'
    BY <2>1 DEF TurnInv, Command
  <2>3. ReplyInv'
    BY <2>1 DEF ReplyInv, Mine, Null, Command
  <2> QED
    BY <2>1, <2>2, <2>3 DEF ArgInv, OwnArgument, Command
<1>9. CASE Store
  <2>1. /\ cpc = "store" /\ cpc' = "wait" /\ control' = cmd
        /\ UNCHANGED <<control_arg, control_res, xpc, xcmd, cmd, served>>
    BY <1>9 DEF Store
  <2>2. cmd # Empty
    BY <2>1 DEF TurnInv, Empty, Command
  <2> QED
    BY <2>1, <2>2 DEF TurnInv, ReplyInv, ArgInv, OwnArgument, Mine, Null
<1>10. CASE Served
  BY <1>10 DEF Served, mailbox, TurnInv, ReplyInv, ArgInv, OwnArgument, Mine, Null, ReplyIsMine
<1>11. CASE GiveUp
  BY <1>11 DEF GiveUp
<1>12. CASE Result \/ Apply \/ AnswerAndReturn
  <2>1. /\ cpc \in {"result", "apply", "return"} /\ cpc' \in {"apply", "return", "none"}
        /\ UNCHANGED <<control, control_arg, control_res, xpc, xcmd, cmd, served>>
    BY <1>12 DEF Result, Apply, AnswerAndReturn, mailbox
  <2>2. control = Empty /\ xpc = "test"
    BY <2>1 DEF TurnInv
  <2> QED
    BY <2>1, <2>2 DEF TurnInv, ReplyInv, ArgInv, OwnArgument, ReplyIsMine
<1> QED
  BY <1>1, <1>2, <1>3, <1>4, <1>5, <1>6, <1>7, <1>8, <1>9, <1>10, <1>11, <1>12
     DEF CNext, ExecuteControl, DoControl, Goal

LEMMA TurnsCorrect == CSpec => []TurnsInv
  BY TurnsInit, TurnsStep, PTL DEF CSpec

(* Until a command is given up each command gets its own reply, or the     *)
(* first one gets the reply to the zeroed mailbox.                         *)
THEOREM RepliesMatchCorrect == CSpec => []RepliesMatch
<1>1. TurnsInv => RepliesMatch
  BY DEF TurnsInv, TurnInv, ReplyInv, ReplyIsMine, RepliesMatch
<1> QED
  BY <1>1, TurnsCorrect, PTL

(* Until a command is given up the driver is given the argument of the     *)
(* seek it serves.                                                         *)
THEOREM OwnArgumentCorrect == CSpec => []OwnArgument
<1>1. TurnsInv => OwnArgument
  BY DEF TurnsInv, OwnArgument
<1> QED
  BY <1>1, TurnsCorrect, PTL
-----------------------------------------------------------------------------
(* Where a seek lands.  Until a command is given up, or given by a player  *)
(* beyond the window, the player is inside the window whenever a command   *)
(* is under way: the filler does not drop the ring under it, and the last  *)
(* move of the source is behind the player, or the player is about to go   *)
(* there.  The demuxer may seek forward by position, as far as it likes.   *)
Pending ==
  /\ cpc \in {"wait", "result", "apply"} /\ cmd.kind = "seek"
  /\ control_res.ok /\ control_res.to = cmd.no
  /\ xpc \in {"newpos", "clear"} \/ control = Empty

CutInv ==
  /\ cut \in Nat
  /\ xpc # "test" => fpc \in {"control", "dead"}
  /\ cpc # "none" => ppc = "idle" /\ read_filepos <= max_filepos
  /\ control_res.to = 0 /\ (xpc \in {"newpos", "clear"} \/ control = Empty) => ~control_res.ok
  /\ Pending => /\ read_filepos <= cut /\ cut <= max_filepos
                /\ xpc # "newpos" => control_new_pos = cut
                /\ xpc \in {"newpos", "clear"} => cut = upos
  /\ ~Pending => cut <= read_filepos
  /\ cpc = "apply" => cmd.kind = "seek" /\ control_res.ok
  /\ cpc = "return" /\ cmd.kind = "seek" /\ control_res.ok => read_filepos = cut /\ pos = cut

LandInv == ~gaveup /\ ~ahead => IInv /\ ReaderInv /\ CutInv

LEMMA AheadStays ==
  ASSUME [CNext]_allvars
  PROVE  ahead => ahead'
<1>1. CASE CacheFill \/ CacheCall \/ (cpc = "none" /\ Calls /\ UNCHANGED ctl)
           \/ (Ended /\ UNCHANGED ctl) \/ UNCHANGED allvars
  BY <1>1 DEF CacheFill, CacheCall, ctl, allvars
<1>2. CASE ExecuteControl \/ DoControl \/ GiveUp \/ \E k \in {"seek", "query"} : Ask(k)
  BY <1>2 DEF ExecuteControl, NoCommand, SomeCommand, Switch, Serve, NewPos, Clear, Ask,
       DoControl, Store, Served, GiveUp, Result, Apply, AnswerAndReturn, ctl
<1>3. QED BY <1>1, <1>2 DEF CNext

LEMMA LandInit == CInit => LandInv
<1> SUFFICES ASSUME CInit PROVE IInv /\ ReaderInv /\ CutInv
  BY DEF LandInv
<1>1. IInv /\ ReaderInv
  BY InitIInv, InitReaderInv DEF CInit
<1>2. CutInv
  BY DEF CInit, Init, CutInv, Pending, Zeroed, Empty, Command, Reply
<1>3. QED BY <1>1, <1>2

(* The filler works on, and takes nothing from the end of the window.       *)
LEMMA LandFill ==
  ASSUME IInv, ReaderInv, CutInv, CacheFill
  PROVE  IInv' /\ ReaderInv' /\ CutInv'
<1>1. IInv' /\ ReaderInv'
  BY FillerIInv, FillerReaderInv DEF CacheFill
<1>2. /\ UNCHANGED <<read_filepos, pos, ppc>>
      /\ max_filepos \in Nat /\ max_filepos' \in Nat /\ max_filepos <= max_filepos'
      /\ read_filepos \in Nat
  BY <1>1, FillerSteps DEF CacheFill, ReaderInv, FillerOK, player, IInv, TypeOK
<1>3. xpc = "test" /\ UNCHANGED ctl
  BY DEF CacheFill, CutInv
<1>4. CutInv'
  BY <1>2, <1>3 DEF CutInv, Pending, ctl, mailbox
<1>5. QED BY <1>1, <1>4

(* The player reads, or seeks forward.                                     *)
LEMMA LandPlay ==
  ASSUME IInv, ReaderInv, CutInv, ~Backward,
         cpc = "none", Player \/ Ended, UNCHANGED ctl
  PROVE  IInv' /\ ReaderInv' /\ CutInv'
<1>1. IInv'
  BY PlayerIInv
<1>2. ReaderInv'
  BY PlayerReaderInv, StutterReaderInv DEF Ended
<1>3. fpc' \in {fpc, "dead"}
  BY PlayerKeepsRing
<1>4. read_filepos <= read_filepos'
  <2>1. read_filepos \in Nat /\ newb \in Int
    BY DEF IInv, TypeOK
  <2>2. CASE Advance
    BY <2>1, <2>2 DEF Advance, ReaderInv, SeenInv
  <2>3. ASSUME NEW t \in SeekTargets, SeekLong(t) PROVE read_filepos <= read_filepos'
    BY <2>3 DEF SeekLong
  <2>4. CASE UNCHANGED read_filepos
    BY <2>1, <2>4
  <2>5. QED BY <2>2, <2>3, <2>4 DEF Player, Working, Calls, Ended, PrefillCheck, PrefillWait,
            ClearEof, CheckMax, CheckMin, CheckEof, Wait, Interrupted, NewB, Locate, Copy,
            StartFill, ResetStream, Uninit, shared, vars
<1>5. read_filepos \in Nat /\ read_filepos' \in Nat
  BY <1>1 DEF IInv, TypeOK
<1>6. ~Pending /\ ~Pending' /\ cpc' = "none"
  BY DEF Pending, ctl
<1>7. CutInv'
  BY <1>3, <1>4, <1>5, <1>6 DEF CutInv, ctl, mailbox
<1>8. QED BY <1>1, <1>2, <1>7

(* The filler serves a command: the source moves at the end of the window. *)
LEMMA LandServe ==
  ASSUME ServedInv, TurnInv, ReplyInv, MailboxTypes, IInv, ReaderInv, CutInv,
         fpc # "dead", Serve
  PROVE  IInv' /\ ReaderInv' /\ CutInv'
<1>1. /\ xpc = "serve" /\ xpc' = "newpos"
      /\ UNCHANGED <<vars, control, control_new_pos, xcmd, cpc, cmd>>
  BY DEF Serve
<1>2. PICK ok \in BOOLEAN :
        /\ ok => xcmd.kind = "seek"
        /\ control_res' = [ok |-> ok, to |-> xcmd.no]
        /\ cut' = IF ok THEN upos ELSE cut
  BY DEF Serve, Reply
<1>3. IInv' /\ ReaderInv'
  BY <1>1, StutterIInv, StutterReaderInv
<1>4. fpc = "control" /\ upos = max_filepos /\ max_filepos \in Nat
  BY <1>1 DEF CutInv, IInv, TypeOK, TodoInv, RingInv, Filling, NextMax
<1>5. control # Empty /\ ~Pending /\ cpc \in {"none", "store", "wait"}
  BY <1>1 DEF TurnInv, Pending, MailboxTypes
<1>6. CASE ok
  <2>1. Mine
    BY <1>1, <1>2, <1>6 DEF ReplyInv, Null, Zeroed, Command
  <2>2. cpc = "wait" /\ xcmd = cmd /\ cmd.no > 0 /\ cmd.kind = "seek"
    <3>1. cpc # "store"
      BY <2>1 DEF Mine, ServedInv, OrderInv, MailboxTypes, Commands
    <3>2. QED BY <1>2, <1>5, <1>6, <2>1, <3>1 DEF Mine, TurnInv
  <2>3. cmd.no \in Nat /\ cmd.no # 0
    BY <2>2 DEF MailboxTypes, Commands
  <2>4. Pending'
    BY <1>1, <1>2, <1>6, <2>2 DEF Pending
  <2>5. UNCHANGED <<read_filepos, max_filepos, upos, fpc, ppc, pos>>
    BY <1>1 DEF vars, shared, filler, player
  <2>6. QED BY <1>1, <1>2, <1>3, <1>4, <1>6, <2>2, <2>3, <2>4, <2>5 DEF CutInv
<1>7. CASE ~ok
  <2>1. ~control_res'.ok /\ cut' = cut
    BY <1>2, <1>7
  <2>2. ~Pending'
    BY <2>1 DEF Pending
  <2>3. UNCHANGED <<read_filepos, max_filepos, upos, fpc, ppc, pos>>
    BY <1>1 DEF vars, shared, filler, player
  <2>4. QED BY <1>1, <1>3, <1>4, <1>5, <2>1, <2>2, <2>3 DEF CutInv
<1>8. QED BY <1>6, <1>7

(* The rest of what the filler does with a command.                        *)
LEMMA LandExecute ==
  ASSUME ServedInv, TurnInv, ReplyInv, MailboxTypes, IInv, ReaderInv, CutInv, ExecuteControl
  PROVE  IInv' /\ ReaderInv' /\ CutInv'
<1>0. fpc # "dead"
  BY DEF ExecuteControl
<1>1. CASE NoCommand \/ Clear
  <2>1. FillLoop
    BY <1>1 DEF NoCommand, Clear
  <2>2. IInv' /\ ReaderInv'
    BY <1>0, <2>1, FillerIInv, FillerReaderInv DEF Filler
  <2>3. UNCHANGED <<read_filepos, max_filepos, upos, ppc, pos>> /\ fpc' = "top"
    BY <2>1 DEF FillLoop, shared, player
  <2>4. CASE NoCommand
    BY <2>2, <2>3, <2>4 DEF NoCommand, CutInv, Pending, ctl, mailbox
  <2>5. CASE Clear
    <3>1. /\ xpc = "clear" /\ xpc' = "test" /\ control' = Empty
          /\ UNCHANGED <<control_res, control_new_pos, cpc, cmd, cut>>
      BY <2>5 DEF Clear
    <3>2. control # Empty
      BY <3>1 DEF TurnInv
    <3>3. Pending' = Pending
      BY <3>1 DEF Pending
    <3>4. QED BY <2>2, <2>3, <3>1, <3>3 DEF CutInv
  <2>6. QED BY <1>1, <2>4, <2>5
<1>2. CASE SomeCommand \/ Switch
  <2>1. /\ UNCHANGED <<vars, mailbox, cpc, cmd, cut>>
        /\ xpc \in {"test", "switch"} /\ xpc' \in {"switch", "serve"}
        /\ control # Empty /\ fpc = "control"
    BY <1>0, <1>2 DEF SomeCommand, Switch, TurnInv, CutInv
  <2>2. IInv' /\ ReaderInv'
    BY <2>1, StutterIInv, StutterReaderInv
  <2>3. UNCHANGED <<read_filepos, max_filepos, upos, fpc, ppc, pos>>
    BY <2>1 DEF vars, shared, filler, player
  <2>4. ~Pending /\ ~Pending'
    BY <2>1 DEF Pending, mailbox
  <2>5. QED BY <2>1, <2>2, <2>3, <2>4 DEF CutInv, mailbox
<1>3. CASE Serve
  BY <1>0, <1>3, LandServe
<1>4. CASE NewPos
  <2>1. /\ xpc = "newpos" /\ xpc' = "clear" /\ control_new_pos' = upos
        /\ UNCHANGED <<vars, control, control_res, cpc, cmd, cut>>
    BY <1>4 DEF NewPos
  <2>2. IInv' /\ ReaderInv'
    BY <2>1, StutterIInv, StutterReaderInv
  <2>3. UNCHANGED <<read_filepos, max_filepos, upos, fpc, ppc, pos>>
    BY <2>1 DEF vars, shared, filler, player
  <2>4. Pending' = Pending
    BY <2>1 DEF Pending
  <2>5. QED BY <2>1, <2>2, <2>3, <2>4 DEF CutInv
<1>5. QED BY <1>1, <1>2, <1>3, <1>4 DEF ExecuteControl

(* The player goes where the source was moved.                             *)
LEMMA LandApply ==
  ASSUME TurnInv, ReplyInv, MailboxTypes, IInv, ReaderInv, CutInv, Apply
  PROVE  IInv' /\ ReaderInv' /\ CutInv'
<1>1. /\ cpc = "apply" /\ cpc' = "return"
      /\ pos' = control_new_pos /\ read_filepos' = control_new_pos
      /\ UNCHANGED <<buffer, eof, min_filepos, max_filepos, offset, filler, ppc, sbuf, seof,
                     got, seenmax, newb, slot, done, mailbox, xpc, cmd, cut>>
  BY DEF Apply
<1>2. /\ control = Empty /\ xpc = "test" /\ ppc = "idle"
      /\ cmd.kind = "seek" /\ control_res.ok
  BY <1>1 DEF TurnInv, CutInv
<1>3. control_res.to = cmd.no
  BY <1>1, <1>2 DEF ReplyInv, ReplyIsMine, CutInv
<1>4. Pending /\ ~Pending'
  BY <1>1, <1>2, <1>3 DEF Pending
<1>5. /\ pos' = cut /\ read_filepos' = cut /\ read_filepos <= cut /\ cut \in Nat
      /\ cut <= max_filepos
  BY <1>1, <1>2, <1>4 DEF CutInv
<1>6. IInv'
  <2>1. TypeOK' /\ CopyInv'
    BY <1>1, <1>5 DEF IInv, TypeOK, CopyInv, filler
  <2>2. NextMax' = NextMax /\ NextOffset' = NextOffset /\ Filling' = Filling
    BY <1>1 DEF NextMax, NextOffset, Filling, filler
  <2>3. RingInv'
    BY <1>1, <2>2 DEF IInv, RingInv, Holds, SlotOf, filler
  <2>4. (TodoInv /\ DropInv /\ SizeInv /\ RoomInv)'
    BY <1>1, <2>2 DEF IInv, TodoInv, DropInv, SizeInv, RoomInv, filler
  <2>5. QED BY <2>1, <2>3, <2>4 DEF IInv
<1>7. ReaderInv'
  <2>1. /\ read \in Nat /\ min_filepos \in Nat /\ read_filepos \in Nat
        /\ read <= cut /\ min_filepos <= cut
    BY <1>5 DEF IInv, TypeOK, ReaderInv, BehindInv
  <2>2. BehindInv'
    BY <1>1, <1>2, <1>5, <2>1 DEF CutInv, ReaderInv, BehindInv, Past, filler
  <2>3. SeenInv' /\ SlotInv'
    BY <1>1, <1>2 DEF SeenInv, SlotInv
  <2>4. got = <<>> /\ done = 0 /\ Len(got) = 0
    BY <1>2 DEF ReaderInv, GotInv, IInv, CopyInv
  <2>5. GotInv'
    BY <1>1, <1>2, <1>5, <2>4, Sizes DEF GotInv
  <2>6. QED BY <2>2, <2>3, <2>5 DEF ReaderInv
<1>8. CutInv'
  BY <1>1, <1>2, <1>4, <1>5 DEF CutInv, filler, mailbox
<1>9. QED BY <1>6, <1>7, <1>8

(* The other steps of cache_do_control change the mailbox alone.           *)
LEMMA LandControl ==
  ASSUME ServedInv, TurnInv, ReplyInv, MailboxTypes, IInv, ReaderInv, CutInv,
         DoControl \/ \E k \in {"seek", "query"} : Ask(k), ~ahead'
  PROVE  IInv' /\ ReaderInv' /\ CutInv'
<1>1. CASE Apply
  BY <1>1, LandApply
<1>2. CASE ~Apply
  <2>1. UNCHANGED <<vars, xpc, cut, control_res, control_new_pos>>
    BY <1>2 DEF DoControl, Store, Served, Result, AnswerAndReturn, Ask, mailbox
  <2>2. IInv' /\ ReaderInv'
    BY <2>1, StutterIInv, StutterReaderInv
  <2>3. UNCHANGED <<read_filepos, max_filepos, upos, fpc, ppc, pos>>
    BY <2>1 DEF vars, shared, filler, player
  <2>4. ASSUME NEW k \in {"seek", "query"}, Ask(k) PROVE CutInv'
    <3>1. ppc = "idle" /\ cpc = "none" /\ cpc' = "store" /\ UNCHANGED control
      BY <2>4 DEF Ask
    <3>2. ~Pending /\ ~Pending'
      BY <3>1 DEF Pending
    <3>3. read_filepos <= max_filepos
      <4>1. ~(read_filepos > max_filepos)
        BY <2>4, ZenonT(30) DEF Ask
      <4>2. QED BY <4>1 DEF IInv, TypeOK
    <3>4. QED BY <2>1, <2>3, <3>1, <3>2, <3>3 DEF CutInv
  <2>5. CASE Store
    <3>1. cpc = "store" /\ cpc' = "wait" /\ control' = cmd /\ UNCHANGED cmd
      BY <2>5 DEF Store
    <3>2. control' # Empty
      BY <3>1 DEF TurnInv, Empty, Command
    <3>3. xpc \in {"newpos", "clear"} => control_res.to # cmd.no
      BY <3>1 DEF ReplyInv, ServedInv, OrderInv, MailboxTypes, Commands
    <3>4. ~Pending /\ ~Pending'
      BY <2>1, <3>1, <3>2, <3>3 DEF Pending
    <3>5. QED BY <2>1, <2>2, <2>3, <3>1, <3>2, <3>4 DEF CutInv
  <2>6. CASE Served
    <3>1. cpc = "wait" /\ cpc' = "result" /\ UNCHANGED <<control, cmd>>
      BY <2>6 DEF Served, mailbox
    <3>2. Pending' = Pending
      BY <2>1, <3>1 DEF Pending
    <3>3. QED BY <2>1, <2>2, <2>3, <3>1, <3>2 DEF CutInv
  <2>7. CASE Result
    <3>1. /\ cpc = "result" /\ UNCHANGED <<control, cmd>> /\ control = Empty
          /\ cpc' = IF cmd.kind = "seek" /\ control_res.ok THEN "apply" ELSE "return"
      BY <2>7 DEF Result, mailbox, TurnInv
    <3>2. cmd.kind = "seek" /\ control_res.ok => control_res.to = cmd.no
      BY <3>1 DEF ReplyInv, ReplyIsMine, CutInv
    <3>3. Pending' = Pending
      BY <2>1, <3>1, <3>2 DEF Pending
    <3>4. QED BY <2>1, <2>2, <2>3, <3>1, <3>3 DEF CutInv
  <2>8. CASE AnswerAndReturn
    <3>1. cpc = "return" /\ cpc' = "none" /\ UNCHANGED <<control, cmd>>
      BY <2>8 DEF AnswerAndReturn, mailbox
    <3>2. ~Pending /\ ~Pending'
      BY <3>1 DEF Pending
    <3>3. QED BY <2>1, <2>2, <2>3, <3>1, <3>2 DEF CutInv
  <2>9. QED BY <1>2, <2>2, <2>4, <2>5, <2>6, <2>7, <2>8 DEF DoControl
<1>3. QED BY <1>1, <1>2

(* A seek by time lands at the first unit after the move, which is still   *)
(* in the ring, and the player reads across no move it did not ask for,    *)
(* whatever the demuxer seeks to by position in between, as long as it     *)
(* does not seek back (~Backward: a player that goes back reads on across  *)
(* the earlier move) and neither gave a command up nor gave one from       *)
(* beyond the window (gaveup and ahead in the property).                   *)
THEOREM SeekLandsCorrect ==
  ASSUME ~Backward
  PROVE  CSpec => []SeekLandsAtCut
<1>1. ServedInv /\ TurnsInv /\ LandInv /\ [CNext]_allvars => LandInv'
  <2> SUFFICES ASSUME ServedInv, TurnsInv, LandInv, [CNext]_allvars, ~gaveup', ~ahead'
               PROVE  IInv' /\ ReaderInv' /\ CutInv'
    BY DEF LandInv
  <2>1. ~gaveup /\ ~ahead
    <3>1. ~gaveup
      BY GaveUpStays
    <3>2. ~ahead
      BY AheadStays
    <3>3. QED BY <3>1, <3>2
  <2>2. TurnInv /\ ReplyInv /\ MailboxTypes /\ IInv /\ ReaderInv /\ CutInv
    BY <2>1 DEF TurnsInv, LandInv
  <2>3. CASE CacheFill
    BY <2>2, <2>3, LandFill
  <2>4. CASE ExecuteControl
    BY <2>2, <2>4, LandExecute
  <2>5. CASE CacheCall \/ (cpc = "none" /\ Calls /\ UNCHANGED ctl)
    BY <2>2, <2>5, LandPlay DEF CacheCall, Player
  <2>6. CASE DoControl \/ \E k \in {"seek", "query"} : Ask(k)
    BY <2>2, <2>6, LandControl
  <2>7. CASE GiveUp
    BY <2>7 DEF GiveUp
  <2>8. CASE (Ended /\ UNCHANGED ctl) \/ UNCHANGED allvars
    <3>1. UNCHANGED <<vars, ctl>>
      BY <2>8 DEF Ended, allvars
    <3>2. CutInv'
      BY <2>2, <3>1 DEF CutInv, Pending, vars, shared, filler, player, ctl, mailbox
    <3>3. QED BY <2>2, <3>1, <3>2, StutterIInv, StutterReaderInv
  <2>9. QED BY <2>3, <2>4, <2>5, <2>6, <2>7, <2>8 DEF CNext
<1>2. LandInv => SeekLandsAtCut
  <2> SUFFICES ASSUME LandInv, ~gaveup, ~ahead PROVE SeekLandsAtCut
    BY DEF SeekLandsAtCut, NoSilentJump
  <2>1. cpc = "none" => cut <= read_filepos
    BY DEF LandInv, CutInv, Pending
  <2>2. cut \in Nat /\ read_filepos \in Nat /\ min_filepos <= read_filepos
    BY DEF LandInv, CutInv, IInv, TypeOK, ReaderInv, BehindInv
  <2>3. NoSilentJump
    BY <2>1, <2>2 DEF NoSilentJump
  <2>4. QED BY <2>2, <2>3 DEF SeekLandsAtCut, LandInv, CutInv
<1>3. CSpec => []ServedInv
  BY ServedInit, ServedStep, PTL DEF CSpec
<1>4. QED BY <1>1, <1>2, <1>3, TurnsCorrect, LandInit, PTL DEF CSpec
=============================================================================
