----------------------------- MODULE MCPlayTree -----------------------------
(* Small playlists: flat ones, one level of groups that loop, a playlist   *)
(* that is found on the way, two that cannot be parsed (one is all there   *)
(* is), a shuffled one.                                                    *)
EXTENDS PlayTree

\* bounds: the nodes are numbers, 1 is the root
MCNodes   == 1 .. 8
MCSources == (3 :> 1) @@ (4 :> 2) @@ (5 :> 1) @@ (7 :> 1) @@ (8 :> 1)
MCVals    == {-1, 1, 2}
MCDefault == -1
MCSteps   == {1, -1, 2}

Shape(kids, loop, params, lists, rnd) ==
  [kids |-> [n \in MCNodes |-> IF n \in DOMAIN kids THEN kids[n] ELSE <<>>],
   loop |-> [n \in MCNodes |-> IF n \in DOMAIN loop THEN loop[n] ELSE 0],
   rnd |-> rnd,
   params |-> [n \in MCNodes |-> IF n \in DOMAIN params THEN params[n] ELSE <<>>],
   lists |-> lists, played |-> {}]

Grouped   == (1 :> <<2, 5>>) @@ (2 :> <<3, 4>>) @@ (6 :> <<7>>)
GroupLast == (1 :> <<5, 2>>) @@ (2 :> <<3, 4>>) @@ (6 :> <<7>>)
Flat      == 1 :> <<3, 4, 5>>
Alone     == (1 :> <<2, 5>>) @@ (2 :> <<3>>)
Lone      == 1 :> <<3>>

MCShapes ==
  {Shape(Grouped, (1 :> 2) @@ (2 :> 2), (2 :> ("o" :> 1)) @@ (5 :> ("g" :> 1)), <<>>, {}),
   Shape(GroupLast, 2 :> 2, (2 :> ("o" :> 1)) @@ (3 :> ("o" :> 2)), <<>>, {}),
   Shape(Grouped, 1 :> 1, (5 :> ("loop" :> 2)) @@ (3 :> ("o" :> 1)), 4 :> 6, {}),
   Shape(Flat, 1 :> 2, 5 :> ("o" :> 1), 3 :> NONE, {}),
   Shape(Lone, 1 :> 2, 3 :> ("o" :> 1), 3 :> NONE, {}),
   Shape(Flat, 1 :> 2, 4 :> ("o" :> 1), <<>>, {1})}

MCLooping == {Shape(Flat, <<>>, 3 :> ("loop" :> 2), <<>>, {})}

(* The theorems are about such playlists: these are, and the one below,    *)
(* where a group can be left empty, is not.                                *)
ASSUME ShapesProper == \A s \in MCShapes \cup MCLooping : Proper(s)

MCEmptied == {Shape(Alone, <<>>, <<>>, 3 :> NONE, {})}
=============================================================================
