------------------------------ MODULE JobPool ------------------------------
(***************************************************************************)
(* What avcodec.h promises of AVCodecContext.execute and execute2: "It     *)
(* will return only after finishing all tasks."  A call hands over jobs    *)
(* 0 .. k-1, each is performed once, in any order, and the call returns    *)
(* when none is left.                                                      *)
(***************************************************************************)
EXTENDS Integers

CONSTANT MaxJobs        \* the largest count a codec passes

VARIABLES
  phase,      \* "opening", "idle", "busy" or "closed"
  undone      \* the jobs of the call not finished yet

vars == <<phase, undone>>

Init == phase = "opening" /\ undone = {}

(* avcodec_thread_init returned                                            *)
Opened == phase = "opening" /\ phase' = "idle" /\ UNCHANGED undone

Call(k) ==
  /\ phase = "idle" /\ phase' = "busy" /\ undone' = 0 .. k - 1

Perform(j) ==
  /\ phase = "busy" /\ j \in undone
  /\ undone' = undone \ {j} /\ UNCHANGED phase

Return == phase = "busy" /\ undone = {} /\ phase' = "idle" /\ UNCHANGED undone

Close ==
  /\ phase \in {"opening", "idle"} /\ phase' = "closed" /\ UNCHANGED undone

Next ==
  \/ Opened \/ Return \/ Close
  \/ \E k \in 1 .. MaxJobs : Call(k)
  \/ \E j \in undone : Perform(j)

(* A call that was made is served.                                         *)
Spec ==
  /\ Init /\ [][Next]_vars
  /\ WF_vars(Return) /\ WF_vars(\E j \in undone : Perform(j))
=============================================================================
