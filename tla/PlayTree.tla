------------------------------ MODULE PlayTree ------------------------------
(***************************************************************************)
(* The playlist: a tree of groups and entries (playtree.c), the iterator   *)
(* the player walks it with, and those parts of the player that move the   *)
(* iterator: the way from one file to the next (mplayer.c), the slave      *)
(* commands (command.c) and playlists found while playing.                 *)
(*                                                                         *)
(* play_tree_iter_step, _up_step and _down_step call each other, and the   *)
(* call is the last thing they do: the call in progress is the variable    *)
(* call, and each call is one or two actions.  Going into a group or to an *)
(* entry pushes the options of the config, and leaving it pops them.       *)
(***************************************************************************)
EXTENDS ConfigStack

CONSTANTS
  Nodes, NONE, Root,
  Sources,       \* entry -> number of its files (alternative sources)
  Shapes,        \* the playlists to start from
  NewFiles,      \* entries that can be loaded while playing
  Loop,          \* the option -loop of one file, loop_times
  Steps,         \* bound: the steps that the user asks for
  MaxCommands    \* bound: the commands that the user gives

Entries == DOMAIN Sources

(* A playlist is a record: kids, the children of each group; loop; rnd,    *)
(* the groups that are shuffled; params; lists, what a playlist file is    *)
(* found to hold, NONE when it cannot be parsed; played, the flags of the  *)
(* shuffling.  The other fields of a play_tree_t follow from these.        *)
ASSUME TreeAssumption ==
  /\ Root \in Nodes \ Entries /\ NONE \notin Nodes /\ Entries \subseteq Nodes
  /\ Sources \in [Entries -> Nat \ {0}] /\ NewFiles \subseteq Entries
  /\ Loop \in Opts \ GlobalOpts /\ MaxCommands \in Nat /\ Steps \subseteq Int \ {0}

VARIABLES
  tree,    \* play_tree_t
  iter,    \* play_tree_iter_t
  saved,   \* the player's iterator while a copy of it is tried
  call,    \* the call of the iterator: where it is, or its result
  job,     \* what the player called it for
  step,    \* mpctx->play_tree_step
  cmds,    \* commands given so far
  log,     \* history: the files played while no command was given
  asked    \* history: the entry and the step of the last move

vars == <<tree, iter, saved, call, job, step, cmds, log, asked, config>>
-----------------------------------------------------------------------------
(* The playlists a player can be given. The parser builds a tree, and      *)
(* play_tree_cleanup takes out what holds no entry; what a playlist file   *)
(* holds is parsed when it is met, into a tree of its own.                 *)

(* A node is inside a group as its child, or as what a child, a playlist   *)
(* file, is found to hold.                                                 *)
Inside(t, n, g) ==
  \E c \in Range(t.kids[g]) : n = c \/ (c \in DOMAIN t.lists /\ n = t.lists[c])

(* A playlist file that cannot be parsed, and a group that keeps a child   *)
(* when these are removed                                                  *)
Unparsed(t, n) == n \in DOMAIN t.lists /\ t.lists[n] = NONE
Lasting(t, g)  == \E c \in Range(t.kids[g]) : ~Unparsed(t, c)

Typed(t) ==
  /\ t \in [kids : [Nodes -> Seq(Nodes)], loop : [Nodes -> Int], rnd : SUBSET Nodes,
            params : {t.params}, lists : {t.lists}, played : SUBSET Nodes]
  /\ t.params \in [Nodes -> Range(t.params)]
  /\ \A n \in Nodes : \A o \in DOMAIN t.params[n] : o \in Opts /\ t.params[n][o] \in Vals

(* A node is in one place, an entry has no children, the root is on top.   *)
IsForest(k) ==
  /\ \A g, h \in Nodes : \A i \in DOMAIN k[g], j \in DOMAIN k[h] :
       k[g][i] = k[h][j] => g = h /\ i = j
  /\ \A e \in Entries : k[e] = <<>>
  /\ \A g \in Nodes : Root \notin Range(k[g])

(* No node is inside itself, at any depth: every set of nodes has one      *)
(* inside of no other, and one with no other inside.                       *)
Founded(t) == \A S \in (SUBSET Nodes) \ {{}} :
  /\ \E n \in S : \A m \in S : ~Inside(t, n, m)
  /\ \E n \in S : \A m \in S : ~Inside(t, m, n)

(* No group is empty, or becomes empty while the playlist is played.       *)
Filled(t) ==
  /\ t.kids[Root] # <<>>
  /\ \A g \in Nodes : \A n \in Range(t.kids[g]) : n \in Entries \/ Lasting(t, n)

(* Playlist files are not shuffled, nor loaded by the user, and each holds *)
(* a group of its own.                                                     *)
Listed(t) ==
  /\ DOMAIN t.lists \subseteq Entries \ NewFiles
  /\ t.rnd = {} \/ DOMAIN t.lists = {}
  /\ \A e \in DOMAIN t.lists : t.lists[e] # NONE =>
       /\ t.lists[e] \in Nodes \ (Entries \cup {Root}) /\ Lasting(t, t.lists[e])
       /\ \A f \in DOMAIN t.lists : t.lists[f] = t.lists[e] => f = e

Well(t) == Typed(t) /\ IsForest(t.kids) /\ Founded(t) /\ Filled(t) /\ Listed(t)

(* None was played yet, and no playlist file was read.                     *)
Proper(t) ==
  /\ Well(t) /\ t.played = {}
  /\ \A e \in DOMAIN t.lists : \A g \in Nodes : t.lists[e] \notin Range(t.kids[g])
-----------------------------------------------------------------------------
(* The tree as it is                                                      *)
Parent(n) == IF \E g \in Nodes : n \in Range(tree.kids[g])
             THEN CHOOSE g \in Nodes : n \in Range(tree.kids[g]) ELSE NONE
Path[n \in Nodes] == IF Parent(n) = NONE THEN <<n>> ELSE Append(Path[Parent(n)], n)
Siblings(n) == IF Parent(n) = NONE THEN <<n>> ELSE tree.kids[Parent(n)]
Index(n)    == CHOOSE i \in DOMAIN Siblings(n) : Siblings(n)[i] = n

(* play_tree_is_valid                                                      *)
Valid(n) == \E e \in Entries : n \in Range(Path[e])

InMode(n) == Parent(n) \in tree.rnd

Fresh == [tree |-> NONE, loop |-> 0, stack |-> <<>>, pushed |-> FALSE, rnd |-> FALSE,
          file |-> 0, copy |-> FALSE]

Call(op, d, nodes) == [op |-> op, d |-> d, nodes |-> nodes]
Job(at, d)         == [at |-> at, d |-> d]

Nowhere            == [from |-> NONE, d |-> 0]

Init ==
  /\ ConfigInit /\ tree \in Shapes /\ iter = Fresh /\ saved = Fresh
  /\ call = Call("step", 0, FALSE) /\ job = Job("open", 1)
  /\ step = 1 /\ cmds = 0 /\ log = <<>> /\ asked = Nowhere
-----------------------------------------------------------------------------
(* play_tree_iter_step                                                     *)

player == <<saved, job, step, cmds, log, asked>>

Go(op, d)   == call' = [call EXCEPT !.op = op, !.d = d]
Answer(r)   == call' = [call EXCEPT !.op = r]
PopOne      == IF iter.copy THEN UNCHANGED config ELSE Pop
PushFor(n)  == IF iter.copy THEN UNCHANGED config ELSE Push(tree.params[n])

StepAtRoot ==
  /\ call.op = "step" /\ iter.tree = NONE
  /\ iter' = [iter EXCEPT !.tree = Root] /\ Go("step", 0)
  /\ UNCHANGED <<tree, config, player>>

(* The entry it was at is left                                             *)
Leave ==
  /\ call.op = "step" /\ iter.tree # NONE
  /\ IF iter.pushed THEN PopOne ELSE UNCHANGED config
  /\ iter' = [iter EXCEPT !.pushed = iter.pushed /\ iter.copy, !.rnd = InMode(iter.tree), !.file = -1]
  /\ Go("move", call.d)
  /\ UNCHANGED <<tree, player>>

Wanted    == Index(iter.tree) + call.d
Unplayed  == Range(Siblings(iter.tree)) \ tree.played
Targets   == IF iter.rnd THEN Unplayed
             ELSE IF Wanted \in DOMAIN Siblings(iter.tree) THEN {Siblings(iter.tree)[Wanted]} ELSE {}

(* what is left of the step at the end of the list, and at least one       *)
Rest ==
  LET over == IF call.d > 0 THEN Wanted - Len(Siblings(iter.tree)) - 1 ELSE -Wanted
  IN  IF iter.rnd \/ call.d = 0 THEN call.d
      ELSE (IF call.d > 0 THEN 1 ELSE -1) * (IF over > 0 THEN over ELSE 1)

Enters(n) == tree.kids[n] # <<>> /\ Valid(Head(tree.kids[n]))

ToGroup(n) ==
  /\ Enters(n)
  /\ iter' = [iter EXCEPT !.tree = n]
  /\ IF call.nodes THEN Answer("NODE") ELSE Go("down", Rest)
  /\ UNCHANGED <<tree, config, player>>

(* No entry below: on to the next one, from where it was                   *)
ToNothing(n) ==
  /\ ~Enters(n) /\ ~Valid(n)
  /\ IF Rest = 0 THEN Answer("ERROR") ELSE Go("step", Rest)
  /\ UNCHANGED <<tree, iter, config, player>>

(* A group whose first child is empty comes here too, and has no files     *)
ToEntry(n) ==
  /\ ~Enters(n) /\ Valid(n)
  /\ iter' = [iter EXCEPT !.tree = n, !.pushed = @ \/ ~iter.copy]
  /\ PushFor(n)
  /\ tree' = IF iter.rnd /\ ~iter.copy THEN [tree EXCEPT !.played = @ \cup {n}] ELSE tree
  /\ IF n \in Entries THEN Answer("ENTRY") ELSE Answer("CRASH")
  /\ UNCHANGED player

Move == call.op = "move" /\ \E n \in Targets : ToGroup(n) \/ ToNothing(n) \/ ToEntry(n)

(* All of a shuffled list was played: once more, or the end                *)
ShuffleAgain ==
  /\ call.op = "move" /\ iter.rnd /\ Targets = {}
  /\ IF tree.loop[Root] = 0 THEN Answer("END") /\ UNCHANGED tree
     ELSE /\ Go("step", 0)
          /\ tree' = [tree EXCEPT !.played = {}, !.loop[Root] = IF @ > 0 THEN @ - 1 ELSE @]
  /\ UNCHANGED <<iter, config, player>>

MayLoop ==
  LET l == IF Parent(iter.tree) = NONE THEN 0 ELSE tree.loop[Parent(iter.tree)]
  IN  l # 0 /\ (IF call.d > 0 THEN iter.loop # 0 ELSE iter.loop < 0 \/ iter.loop < l)

LoopUncounted ==           \* mutant: the laps of a group are not counted
  /\ call.op = "move" /\ ~iter.rnd /\ Targets = {} /\ MayLoop
  /\ iter' = [iter EXCEPT !.tree = IF call.d > 0 THEN Head(Siblings(@)) ELSE Last(Siblings(@))]
  /\ Go("step", 0)
  /\ UNCHANGED <<tree, config, player>>

(* To the first of the list again, backward to the last                    *)
LoopAround ==
  /\ call.op = "move" /\ ~iter.rnd /\ Targets = {} /\ MayLoop
  /\ iter' = [iter EXCEPT
       !.tree = IF call.d > 0 THEN Head(Siblings(@)) ELSE Last(Siblings(@)),
       !.loop = IF @ < 0 THEN @ ELSE IF call.d > 0 THEN @ - 1 ELSE @ + 1]
  /\ Go("step", 0)
  /\ UNCHANGED <<tree, config, player>>

ListDone ==
  /\ call.op = "move" /\ ~iter.rnd /\ Targets = {} /\ ~MayLoop
  /\ Go("up", Rest)
  /\ UNCHANGED <<tree, iter, config, player>>

UpKeepsOptions ==          \* mutant: the options of the group stay pushed
  /\ call.op = "up" /\ Parent(iter.tree) # NONE
  /\ iter' = [iter EXCEPT !.file = -1, !.loop = Last(iter.stack), !.stack = Front(@), !.tree = Parent(@)]
  /\ UNCHANGED config
  /\ tree' = IF iter.rnd /\ ~iter.copy THEN [tree EXCEPT !.played = @ \cup {Parent(iter.tree)}] ELSE tree
  /\ Go("step", call.d)
  /\ UNCHANGED player

(* play_tree_iter_up_step                                                  *)
Up ==
  /\ call.op = "up" /\ Parent(iter.tree) # NONE
  /\ iter' = [iter EXCEPT !.file = -1, !.loop = Last(iter.stack), !.stack = Front(@), !.tree = Parent(@)]
  /\ PopOne
  /\ tree' = IF iter.rnd /\ ~iter.copy THEN [tree EXCEPT !.played = @ \cup {Parent(iter.tree)}] ELSE tree
  /\ Go("step", call.d)
  /\ UNCHANGED player

UpAtTop ==
  /\ call.op = "up" /\ Parent(iter.tree) = NONE
  /\ iter' = [iter EXCEPT !.file = -1] /\ Answer("END")
  /\ UNCHANGED <<tree, config, player>>

DownForgetsWay ==          \* mutant: to the first child, whatever the direction
  /\ call.op = "down"
  /\ iter' = [iter EXCEPT !.file = -1, !.stack = Append(@, iter.loop), !.loop = tree.loop[iter.tree] - 1,
       !.tree = Head(tree.kids[@])]
  /\ PushFor(iter.tree)
  /\ Go("step", 0)
  /\ UNCHANGED <<tree, player>>

(* play_tree_iter_down_step                                                *)
Down ==
  /\ call.op = "down"
  /\ iter' = [iter EXCEPT !.file = -1, !.stack = Append(@, iter.loop), !.loop = tree.loop[iter.tree] - 1,
       !.tree = IF call.d >= 0 THEN Head(tree.kids[@]) ELSE Last(tree.kids[@])]
  /\ PushFor(iter.tree)
  /\ Go("step", 0)
  /\ UNCHANGED <<tree, player>>

Iterate == \/ StepAtRoot \/ Leave \/ Move \/ ShuffleAgain \/ LoopAround \/ ListDone
           \/ Up \/ UpAtTop \/ Down
-----------------------------------------------------------------------------
(* The player.  A call is made with Begin, and its result is looked at in  *)
(* the action of the job it was made for.                                  *)

Here == IF iter.copy THEN saved.tree ELSE iter.tree

Begin(at, op, d) ==
  /\ job' = Job(at, d)
  /\ call' = Call(op, d, FALSE)
  /\ asked' = [from |-> Here, d |-> IF op = "step" THEN d ELSE 0]

NoCall    == Call("none", 0, FALSE)
Done(at)  == job.at = at /\ call.op \in {"ENTRY", "NODE", "END", "ERROR"}
Found     == call.op = "ENTRY"
ToFile(d) == job' = Job("file", d) /\ call' = NoCall
Stopped   == job' = Job("stopped", 0) /\ call' = NoCall /\ iter' = Fresh

(* mplayer.c, where the player starts: without an entry the iterator is    *)
(* freed and then asked for its file                                       *)
Opened ==
  /\ Done("open")
  /\ IF Found THEN ToFile(1) ELSE job' = Job("crash", 0) /\ call' = NoCall
  /\ UNCHANGED <<tree, iter, saved, config, step, cmds, log, asked>>

(* goto_next_file, after the step: the end of the playlist frees the       *)
(* iterator                                                                *)
Moved ==
  /\ Done("entry") \/ Done("sure") \/ Done("next")
  /\ IF Found THEN ToFile(IF job.at = "next" THEN job.d ELSE 1) /\ UNCHANGED iter ELSE Stopped
  /\ UNCHANGED <<tree, saved, config, step, cmds, log, asked>>

(* play_tree_iter_get_file                                                 *)
Source ==
  LET last == Sources[iter.tree] - 1
  IN  IF job.d > 0 THEN iter.file + 1 ELSE IF iter.file <= 0 THEN last ELSE iter.file - 1

HasFile == iter.tree \in Entries /\ iter.file < Sources[iter.tree] - 1

NoFile ==
  /\ job.at = "file" /\ ~HasFile
  /\ Begin("next", "step", job.d)
  /\ UNCHANGED <<tree, iter, saved, config, step, cmds, log>>

Count(l) == IF l > 1 THEN l - 1 ELSE IF l = 1 THEN -1 ELSE l

(* What is left of a loop_times is a loop_times.                           *)
ASSUME ValuesAssumption == Vals \subseteq Int /\ \A v \in Vals : Count(v) \in Vals

Played(e) == IF cmds' > 0 THEN <<>> ELSE IF e \in DOMAIN tree.lists THEN log ELSE Append(log, e)

(* The file is opened and played: its loop_times are counted from here     *)
PlayFile ==
  /\ job.at = "file" /\ HasFile
  /\ iter' = [iter EXCEPT !.file = Source]
  /\ UNCHANGED cmds
  /\ Assign(Loop, Count(value[Loop]))
  /\ log' = Played(iter.tree)
  /\ job' = Job("play", 0) /\ asked' = Nowhere
  /\ UNCHANGED <<tree, saved, call, step>>

Playing == job.at = "play"
IsList  == iter.tree \in DOMAIN tree.lists

(* PT_NEXT_ENTRY and PT_PREV_ENTRY.  PT_NEXT_ENTRY is also what the end of *)
(* a file is, and a file that loops is played again instead.               *)
NextEntry(at, n) ==
  IF n > 0 /\ value[Loop] >= 0
  THEN /\ Assign(Loop, Count(value[Loop])) /\ log' = Played(Here)
       /\ job' = Job("play", 0) /\ call' = NoCall /\ step' = n
       /\ UNCHANGED asked
  ELSE /\ Begin(at, "step", n) /\ step' = 1 /\ UNCHANGED <<log, config>>

EndOfFile ==
  /\ Playing /\ ~IsList
  /\ UNCHANGED cmds /\ NextEntry("entry", step)
  /\ UNCHANGED <<tree, iter, saved>>

(* The file has no known format: another source.  Or it cannot be opened   *)
(* at all: PT_NEXT_ENTRY, and neither its laps nor its sources are tried.  *)
OpenFails ==
  /\ job.at = "file" /\ HasFile /\ cmds < MaxCommands /\ cmds' = cmds + 1
  /\ iter' = [iter EXCEPT !.file = Source]
  /\ \/ ToFile(1) /\ UNCHANGED <<step, asked>>
     \/ Begin("entry", "step", step) /\ step' = 1
  /\ UNCHANGED <<tree, saved, config, log>>
-----------------------------------------------------------------------------
(* playtree_add_playlist: the file turns out to be a playlist, and is      *)
(* replaced by what it holds                                               *)

InsertAfter(n, new) ==     \* play_tree_insert_entry
  [tree.kids EXCEPT ![Parent(n)] = InsertAt(@, Index(n) + 1, new)]

Without(n) ==              \* play_tree_remove
  [tree EXCEPT !.kids[Parent(n)] = RemoveAt(@, Index(n)), !.played = @ \ {n}]

(* play_tree_set_params_from: the options of p, and those of q it has not  *)
Over(p, q) == [o \in DOMAIN p \cup DOMAIN q |-> IF o \in DOMAIN p THEN p[o] ELSE q[o]]

FoundList ==
  /\ Playing /\ IsList
  /\ LET new == tree.lists[iter.tree]
     IN  tree' = IF new = NONE THEN tree
                 ELSE [tree EXCEPT !.kids = InsertAfter(iter.tree, new),
                                   !.params[new] = Over(tree.params[iter.tree], @)]
  /\ Begin("drop", "step", 1)
  /\ UNCHANGED <<iter, saved, config, step, cmds, log>>

(* The step came back to the list itself: it was all of a looping group    *)
Drop ==
  /\ Done("drop")
  /\ IF ~Found THEN Begin("entry", "step", step) /\ step' = 1 /\ UNCHANGED tree
     ELSE IF iter.tree = asked.from /\ tree.lists[asked.from] = NONE
     THEN /\ job' = Job("dropup", 1) /\ call' = Call("up", 1, FALSE)
          /\ UNCHANGED <<tree, step, asked>>
     ELSE ToFile(1) /\ tree' = Without(asked.from) /\ UNCHANGED <<step, asked>>
  /\ UNCHANGED <<iter, saved, config, cmds, log>>

DropUp ==
  /\ Done("dropup")
  /\ IF Found THEN ToFile(1) /\ tree' = Without(asked.from) /\ UNCHANGED <<step, asked>>
     ELSE Begin("entry", "step", step) /\ step' = 1 /\ UNCHANGED tree
  /\ UNCHANGED <<iter, saved, config, cmds, log>>
-----------------------------------------------------------------------------
(* The slave commands                                                      *)

Command == Playing /\ ~IsList /\ cmds < MaxCommands /\ cmds' = cmds + 1

Peek ==
  /\ Command
  /\ \/ \E n \in Steps : Begin("peekstep", "step", n)
     \/ \E d \in {1, -1} : Begin("peekup", "up", d)
  /\ saved' = iter /\ iter' = [iter EXCEPT !.copy = TRUE]
  /\ UNCHANGED <<tree, config, step, log>>

Original == saved

Peeked ==
  /\ Done("peekstep") \/ Done("peekup")
  /\ iter' = Original /\ saved' = Fresh
  /\ UNCHANGED cmds
  /\ IF ~Found THEN /\ job' = Job("play", 0) /\ call' = NoCall
                    /\ asked' = Nowhere /\ UNCHANGED <<step, log, config>>
     ELSE IF job.at = "peekstep" THEN NextEntry("sure", job.d)
     ELSE Begin("sure", "up", job.d) /\ UNCHANGED <<step, log, config>>
  /\ UNCHANGED tree

Forced ==
  /\ Command
  /\ \/ \E n \in Steps : NextEntry("entry", n)
     \/ \E d \in {1, -1} : Begin("entry", "up", d) /\ UNCHANGED <<step, log, config>>
  /\ UNCHANGED <<tree, iter, saved>>

(* alt_src_step                                                            *)
AltSource ==
  /\ Command /\ Sources[iter.tree] > 1
  /\ ToFile(1) \/ (iter.file > 1 /\ ToFile(-1))
  /\ UNCHANGED <<tree, iter, saved, config, step, log, asked>>

(* A property of the player is set, an option changed                      *)
SetProperty ==
  /\ Command
  /\ \E o \in Opts \ {Loop}, v \in Vals : Assign(o, v)
  /\ UNCHANGED <<tree, iter, saved, call, job, step, log, asked>>

AppendFile ==
  /\ Command
  /\ \E f \in NewFiles :
       /\ Parent(f) = NONE
       /\ tree' = [tree EXCEPT !.kids[Root] = Append(@, f), !.played = @ \ {f}]
  /\ UNCHANGED <<iter, saved, config, call, job, step, log, asked>>

(* stop and loadfile go up to the root, one group at a time.  The number   *)
(* of the job is the file to load                                          *)
Rewind ==
  /\ Command
  /\ job' \in {Job("stop", NONE)} \cup {Job("load", f) : f \in {f \in NewFiles : Parent(f) = NONE}}
  /\ call' = Call("up", 0, TRUE) /\ asked' = [asked EXCEPT !.d = 0]
  /\ UNCHANGED <<tree, iter, saved, config, step, log>>

OnlyFile(f) == [tree EXCEPT !.kids[Root] = <<f>>, !.played = @ \ {f}]

Rewound ==
  /\ Done("stop") \/ Done("load")
  /\ IF call.op # "END"
     THEN call' = Call("up", 0, TRUE) /\ UNCHANGED <<tree, iter, job>>
     ELSE IF job.at = "stop" THEN Stopped /\ UNCHANGED tree
     ELSE /\ tree' = OnlyFile(job.d)
          /\ iter' = [iter EXCEPT !.tree = Root]        \* pt_iter_goto_head
          /\ job' = Job("head", 0) /\ call' = Call("step", 0, FALSE)
  /\ UNCHANGED <<saved, config, step, cmds, log, asked>>

AtHead ==
  /\ Done("head")
  /\ ToFile(1)
  /\ UNCHANGED <<tree, iter, saved, config, step, cmds, log, asked>>

(* Idle, the player waits for a file to load                               *)
IdleLoad ==
  /\ job.at = "stopped" /\ cmds < MaxCommands /\ cmds' = cmds + 1
  /\ \E f \in NewFiles : Parent(f) = NONE /\ tree' = OnlyFile(f)
  /\ job' = Job("open", 0) /\ call' = Call("step", 0, FALSE)
  /\ UNCHANGED <<iter, saved, config, step, log, asked>>

(* Waiting for a command, or dead                                          *)
Idle == (job.at \in {"stopped", "crash"} \/ call.op = "CRASH") /\ UNCHANGED vars

Advance == Opened \/ Moved \/ NoFile \/ PlayFile \/ FoundList \/ Drop \/ DropUp
           \/ Peeked \/ Rewound \/ AtHead
User    == \/ OpenFails \/ Peek \/ Forced \/ AltSource \/ SetProperty \/ AppendFile
           \/ Rewind \/ IdleLoad

Next == Iterate \/ Advance \/ EndOfFile \/ User \/ Idle

(* The player goes on by itself, and every file ends                       *)
Spec == Init /\ [][Next]_vars /\ WF_vars(Iterate \/ Advance \/ EndOfFile)
-----------------------------------------------------------------------------
(* What is said of lists in order is said of trees without shuffling       *)
InOrder == tree.rnd = {}

Results == {"none", "step", "move", "up", "down", "ENTRY", "NODE", "END", "ERROR"}

(* Every variable has its type; and no call ended in a crash: a group is   *)
(* never taken for a file, and the player never starts without an entry.   *)
TypeOK ==
  /\ tree.kids \in [Nodes -> Seq(Nodes)] /\ tree.loop \in [Nodes -> Int]
  /\ tree.rnd \subseteq Nodes /\ tree.played \subseteq Nodes
  /\ iter \in [tree : Nodes \cup {NONE}, loop : Int, stack : Seq(Int), pushed : BOOLEAN,
       rnd : BOOLEAN, file : Int, copy : BOOLEAN]
  /\ call.op \in Results /\ job.at # "crash"
  /\ lvl \in Nat /\ value \in [Opts -> Vals] /\ step \in Int /\ cmds \in 0 .. MaxCommands

(* While a file plays, the iterator is at an entry that is in the tree (no *)
(* removed node), its stack has the laps of each group it is in, and the   *)
(* options of each and of the entry are pushed, once.                      *)
StackMatches ==
  job.at = "play" =>
    /\ iter.tree \in Entries /\ Head(Path[iter.tree]) = Root /\ ~iter.copy
    /\ InOrder => Len(iter.stack) = Len(Path[iter.tree]) - 1 /\ lvl = Len(iter.stack) + 2

Given(n, o)  == {i \in DOMAIN Path[n] : o \in DOMAIN tree.params[Path[n][i]]}

(* The options around the playlist: the defaults, but for an option that   *)
(* is set by an alias they are what the playlist was entered with.         *)
Outer(o)     == IF o \in Aliased THEN base[o] ELSE Default
Option(n, o) == IF Given(n, o) = {} THEN Outer(o) ELSE tree.params[Path[n][Max(Given(n, o))]][o]

(* A file starts with the options given for it, or else for the innermost  *)
(* group around it that has one, or else with those around the playlist:   *)
(* whatever was played before, and whatever the user changed while it      *)
(* played.  For -loop, which is an alias, those around the playlist are    *)
(* not the defaults again (see AllRestored), and the first file that is    *)
(* loaded next may start with them.                                        *)
OptionsOfEntry ==
  [][job.at = "file" /\ job'.at = "play" /\ iter.file = -1 /\ InOrder =>
       \A o \in Saved : value'[o] = IF o = Loop THEN Count(Option(iter.tree, o))
                                    ELSE Option(iter.tree, o)]_vars

(* When the player stops, every option that no alias sets is what it was   *)
(* before the playlist.                                                    *)
OptionsRestored ==
  job.at = "stopped" /\ InOrder => lvl = 1 /\ \A o \in Saved \ Aliased : value[o] = Default

(* Every push of options has its pop, on every way through the tree: what  *)
(* was pushed is always what belongs to the place in the tree, no call     *)
(* crashes, and in the end nothing is left but what an alias set.          *)
PushesMatchPops == TypeOK /\ StackMatches /\ OptionsRestored

Repeat(s, n) == FlattenSeq([i \in 1 .. (IF n > 1 THEN n ELSE 1) |-> s])

(* The files below a node in the order of the playlist: with laps, what a  *)
(* listener expects to hear; without, the document order.                  *)
Heard[n \in Nodes] ==
  IF n \in DOMAIN tree.lists
  THEN IF tree.lists[n] = NONE THEN <<>> ELSE Heard[tree.lists[n]]
  ELSE IF n \in Entries THEN Repeat(<<n>>, Option(n, Loop))
  ELSE Repeat(FlattenSeq([i \in DOMAIN tree.kids[n] |-> Heard[tree.kids[n][i]]]), tree.loop[n])

Leaves[n \in Nodes] ==
  IF n \in Entries THEN <<n>>
  ELSE FlattenSeq([i \in DOMAIN tree.kids[n] |-> Leaves[tree.kids[n][i]]])

(* Each group and each file is played as often as its loop says, playlists *)
(* found on the way in their place, and nothing is left out at the end.    *)
PlaysInOrder ==
  InOrder /\ cmds = 0 =>
    /\ IsPrefix(log, Heard[Root])
    /\ job.at = "stopped" => log = Heard[Root]

(* A shuffled playlist is played in laps, each file once in each lap.      *)
ShufflesInLaps ==
  LET n == Len(tree.kids[Root])
  IN  tree.rnd = {Root} /\ DOMAIN tree.lists = {} /\ cmds = 0 =>
        \A i, j \in DOMAIN log : i < j /\ (i - 1) \div n = (j - 1) \div n => log[i] # log[j]

(* Left alone, the player plays the playlist as it says, in order or       *)
(* shuffled.                                                               *)
PlaysAll == PlaysInOrder /\ ShufflesInLaps

Place(e, seq) == CHOOSE i \in DOMAIN seq : seq[i] = e

(* A step that a copy of the iterator found possible is possible.          *)
PeekTellsTruth == job.at = "sure" /\ InOrder => call.op \notin {"END", "ERROR"}

(* One step goes to the next or the previous file of the playlist, or from *)
(* the last file of a group that loops to its first and back; and it finds *)
(* none only at the end or the beginning of the whole playlist, and never  *)
(* when it was found possible before.                                      *)
StepsLandNext ==
  PeekTellsTruth /\
  LET e   == asked.from
      seq == Leaves[Root]
      ends(s) == IF asked.d = 1 THEN Last(s) ELSE Head(s)
      wraps(s) == IF asked.d = 1 THEN Head(s) ELSE Last(s)
  IN  InOrder /\ asked.d \in {1, -1} /\ e \in Range(seq) =>
        /\ call.op = "ENTRY" =>
             \/ Place(iter.tree, seq) = Place(e, seq) + asked.d
             \/ \E g \in Range(Path[e]) \ {e} :
                  tree.loop[g] # 0 /\ e = ends(Leaves[g]) /\ iter.tree = wraps(Leaves[g])
        /\ call.op = "END" => e = ends(seq)

(* The playlist comes to its end, whatever the user does in between.       *)
PlaylistEnds == []<>(job.at = "stopped")

(* A step comes to a result: an entry or none.                             *)
CallReturns == call.op \in {"step", "move", "up", "down"} ~> call.op \notin {"step", "move", "up", "down"}

(* "Pop the current context restoring the previous context state"          *)
(* (m_config_pop): when the player stops, every option is what it was      *)
(* before the playlist, whatever the files set for themselves.             *)
AllRestored == job.at = "stopped" /\ InOrder => \A o \in Saved : value[o] = Default

(* Slave command pt_step: a step that is possible is made, and the user    *)
(* hears another file.                                                     *)
StepIsMade == [][job.at = "peekstep" /\ Found => job'.at # "play"]_vars
=============================================================================
