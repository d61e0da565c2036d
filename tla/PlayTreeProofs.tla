--------------------------- MODULE PlayTreeProofs ---------------------------
(***************************************************************************)
(* Proofs about the playlist, for every playlist that is Proper: of any    *)
(* depth, with any loops, options, sources and playlist files in it.       *)
(*                                                                         *)
(* Whatever the player and the user do, the options that are pushed are    *)
(* those of the groups around the place in the tree, no call crashes, and  *)
(* a file starts with the options of the groups it is in.                  *)
(*                                                                         *)
(* Path is recursive, and grows when playlist files are read.  Here it is  *)
(* Way, the path in the children of a playlist: the one sequence from the  *)
(* top to the node in which each node is a child of the one before it.     *)
(***************************************************************************)
EXTENDS PlayTree, TLAPS, SequenceTheorems, WellFoundedInduction

(* Parent, Path, Siblings and Index of the playlist with children k        *)
Par(k, n) == IF \E g \in Nodes : n \in Range(k[g])
             THEN CHOOSE g \in Nodes : n \in Range(k[g]) ELSE NONE

Way(k) == LET w[n \in Nodes] == IF Par(k, n) = NONE THEN <<n>> ELSE Append(w[Par(k, n)], n)
             IN  w

Sibs(k, n) == IF Par(k, n) = NONE THEN <<n>> ELSE k[Par(k, n)]
Idx(k, n)  == CHOOSE i \in DOMAIN Sibs(k, n) : Sibs(k, n)[i] = n

(* The node is in the tree: it was not removed, and is not in a playlist   *)
(* file that was not read yet.                                             *)
InTree(k, n) == n \in Nodes /\ Head(Way(k)[n]) = Root

Iters == [tree : Nodes \cup {NONE}, loop : Int, stack : Seq(Int), pushed : BOOLEAN,
       rnd : BOOLEAN, file : Int, copy : BOOLEAN]
B(b) == IF b THEN 1 ELSE 0

(* An iterator is at no place yet, or at a node of the tree with a lap on  *)
(* its stack for each group around it; shuffling leaves more.              *)
AtPlace(k, ord, it) ==
  /\ it \in Iters /\ it.file >= -1 /\ (ord => ~it.rnd)
  /\ IF it.tree = NONE THEN it.stack = <<>> /\ ~it.pushed
     ELSE /\ InTree(k, it.tree) /\ Len(it.stack) >= Len(Way(k)[it.tree]) - 1
          /\ ord => Len(it.stack) = Len(Way(k)[it.tree]) - 1

Peeks == {"peekstep", "peekup"}

(* The iterator whose options are pushed                                   *)
Own == IF iter.copy THEN saved ELSE iter

(* The iterator and the one kept while a copy of it is tried are at a      *)
(* place.                                                                  *)
Places ==
  /\ AtPlace(tree.kids, InOrder, iter) /\ AtPlace(tree.kids, InOrder, saved)
  /\ iter.copy <=> job.at \in Peeks
  /\ iter.copy => /\ saved.tree \in Entries /\ ~saved.copy /\ saved.file >= 0
                  /\ InOrder => saved.pushed
  /\ iter.copy => iter.tree # NONE
  /\ ~iter.copy => saved = Fresh

(* A call that goes on is at a node it can go on from.                     *)
Calls ==
  /\ call.op \in {"none", "step", "move", "up", "down", "ENTRY", "NODE", "END"}
  /\ call \in [op : {call.op}, d : Int, nodes : BOOLEAN]
  /\ call.op = "none" <=> job.at \in {"file", "play", "stopped"}
  /\ call.nodes => job.at \in {"stop", "load"}
  /\ call.op = "NODE" => call.nodes
  /\ call.op = "ENTRY" => iter.tree \in Entries
  /\ call.op \in {"NODE", "down"} => iter.tree \in Nodes /\ tree.kids[iter.tree] # <<>>
  /\ call.op = "move" => iter.rnd = (Par(tree.kids, iter.tree) \in tree.rnd)
  /\ iter.tree = NONE => call.op \in {"none", "step"}

(* The types of the rest, and where the iterator is in each job: while a   *)
(* file plays it is at an entry.                                           *)
Jobs ==
  /\ job.at \in {"open", "file", "entry", "sure", "next", "play", "drop", "dropup",
                "peekstep", "peekup", "stop", "load", "head", "stopped"}
  /\ job \in [at : {job.at}, d : {job.d}]
  /\ job.at \notin {"stop", "load"} => job.d \in Int
  /\ job.at = "load" => job.d \in NewFiles /\ Par(tree.kids, job.d) = NONE
  /\ job.at = "stopped" => iter.tree = NONE
  /\ job.at = "play" => iter.tree \in Entries /\ iter.file >= 0
  /\ iter.tree = NONE => job.at \in {"open", "stopped"}
  /\ job.at \in {"file", "play"} /\ InOrder => iter.pushed /\ iter.tree \in Entries
  /\ step \in Int /\ cmds \in 0 .. MaxCommands

(* The options of the place itself are pushed at the start of a step and   *)
(* at an entry that was found, and are not in between; a call ends without *)
(* an entry at the root only.                                              *)
Pushed ==
  ~iter.copy =>
    /\ call.op \in {"move", "down", "NODE", "END"} => ~iter.pushed
    /\ call.op = "ENTRY" => iter.pushed
    /\ iter.pushed /\ iter.tree = Root => call.op = "step"
    /\ call.op = "END" /\ InOrder => iter.tree = Root

(* The first entry is still ahead: the player does not find the playlist   *)
(* empty when it starts, or goes back to the head.                         *)
Opening ==
  job.at = "open" \/ (job.at = "head" /\ InOrder) =>
    /\ call.d = 0 /\ call.op \in {"step", "move", "down", "ENTRY"}
    /\ job.at = "open" /\ call.op # "ENTRY" =>
         \/ tree.played = {}
         \/ \E f \in Entries \ tree.played :
              tree.kids[Root] = <<f>> /\ iter.tree \in {NONE, Root, f}

(* What a playlist file holds is in the tree only if the file is not, but  *)
(* for the step from one to the other.                                     *)
Free ==
  \A e \in DOMAIN tree.lists :
    tree.lists[e] # NONE /\ Par(tree.kids, e) # NONE /\ ~(job.at = "drop" /\ e = asked.from)
      => Par(tree.kids, tree.lists[e]) = NONE

(* The file that was read is left and removed. The step from it does not   *)
(* come back to it, unless it is all there is, nor above it, where it      *)
(* would come to it again; or it is still on its way up from the end of    *)
(* the list.                                                               *)
Multi(k, e) == Len(Sibs(k, e)) > 1
Calm(op, d) == (op = "down" /\ d >= 0) \/ (op \in {"step", "move"} /\ d = 0) \/ op = "ENTRY"

InDrop(k, e, op, d, tr) ==
  /\ Multi(k, e) \/ (Par(k, e) = Root /\ tr \in {Root, e})
  /\ \/ op \in {"step", "move"} /\ d = 1 /\ tr = e
     \/ /\ op \in {"step", "move", "up"} /\ d = 1 /\ e = Last(Sibs(k, e))
        /\ tr \in Range(Way(k)[e]) /\ (tr = e => op = "up")
     \/ /\ Calm(op, d)
        /\ Multi(k, e) => tr # e /\ (e = Head(Sibs(k, e)) => tr \notin Range(Way(k)[e]))
     \/ op = "END" /\ e = Last(Sibs(k, e))

Dropping ==
  LET e == asked.from IN
  job.at = "drop" =>
    /\ e \in DOMAIN tree.lists /\ InTree(tree.kids, e)
    /\ tree.lists[e] # NONE =>
         /\ Idx(tree.kids, e) + 1 \in DOMAIN Sibs(tree.kids, e)
         /\ Sibs(tree.kids, e)[Idx(tree.kids, e) + 1] = tree.lists[e]
    /\ InDrop(tree.kids, e, call.op, call.d, iter.tree)

(* Alone in the root, a file that cannot be parsed is gone up from.        *)
DroppingUp ==
  LET e == asked.from IN
  job.at = "dropup" =>
    /\ e \in DOMAIN tree.lists /\ tree.lists[e] = NONE /\ tree.kids[Root] = <<e>>
    /\ \/ call.op = "up" /\ call.d = 1 /\ iter.tree \in {e, Root}
       \/ call.op \in {"step", "move"} /\ call.d = 1 /\ iter.tree = Root
       \/ call.op = "END"

(* The level of the config is the depth of the place.                      *)
Levels ==
  /\ lvl >= 1 + Len(Own.stack) + B(Own.pushed)
  /\ InOrder => lvl = 1 + Len(Own.stack) + B(Own.pushed)

(* A saved option has a slot for each level, the others have two.          *)
Slotted ==
  /\ lvl \in Nat \ {0} /\ value \in [Opts -> Vals]
  /\ slots \in [Opts -> Seq([lvl : Nat, val : Vals])]
  /\ \A o \in Opts : Len(slots[o]) = IF o \in Saved THEN lvl + 1 ELSE 2
  /\ \A o \in Saved : \A i \in 1 .. lvl + 1 : slots[o][i].lvl = i - 1

(* The value of an option in the i outermost groups of a path, d outside   *)
OptAt(d, t, p, i, o) ==
  LET g == {j \in 1 .. i : o \in DOMAIN t.params[p[j]]}
  IN  IF g = {} THEN d ELSE t.params[p[Max(g)]][o]

Around == IF Own.tree = NONE THEN <<>> ELSE Way(tree.kids)[Own.tree]

(* An alias writes the slot of level 1; those of the groups are kept.      *)
Kept(o, i) == i > 0 \/ o \notin Aliased

(* What the slots save is, group by group, what the groups around the      *)
(* place give, and until a file plays the value is that of the place.      *)
Contents ==
  InOrder => \A o \in Saved :
    /\ \A i \in 0 .. lvl - 2 :
         Kept(o, i) => slots[o][i + 2].val = OptAt(Outer(o), tree, Around, i, o)
    /\ (~Own.pushed \/ Own.file = -1) /\ Kept(o, lvl - 1)
         => value[o] = OptAt(Outer(o), tree, Around, lvl - 1, o)

(* The inductive invariant                                                 *)
IInv == /\ Well(tree) /\ Places /\ Calls /\ Jobs /\ Pushed /\ Opening /\ Free
        /\ Dropping /\ DroppingUp /\ Levels /\ Slotted /\ Contents

-----------------------------------------------------------------------------
Kids == [Nodes -> Seq(Nodes)]

TopFirst(k) == \A S \in (SUBSET Nodes) \ {{}} : \E n \in S : \A m \in S : n \notin Range(k[m])

IsWay(k, p, n) ==
  /\ p \in Seq(Nodes) /\ Len(p) > 0 /\ p[Len(p)] = n /\ Par(k, p[1]) = NONE
  /\ \A i \in 1 .. Len(p) - 1 : Par(k, p[i + 1]) = p[i]

(* Par is the group a node is a child of, if there is one.                 *)
LEMMA ParIs ==
  ASSUME NEW k \in Kids, IsForest(k)
  PROVE  /\ \A n : Par(k, n) \in Nodes \cup {NONE}
         /\ \A n : Par(k, n) # NONE => n \in Range(k[Par(k, n)])
         /\ \A n : Par(k, n) = NONE <=> \A g \in Nodes : n \notin Range(k[g])
         /\ \A g \in Nodes : \A i \in DOMAIN k[g] : Par(k, k[g][i]) = g
<1>0. NONE \notin Nodes
  BY TreeAssumption
<1>1. \A n : Par(k, n) \in Nodes \cup {NONE} /\ (Par(k, n) # NONE => n \in Range(k[Par(k, n)]))
  BY <1>0 DEF Par
<1>2. \A n : Par(k, n) = NONE <=> \A g \in Nodes : n \notin Range(k[g])
  BY <1>0, <1>1 DEF Par
<1>3. ASSUME NEW g \in Nodes, NEW i \in DOMAIN k[g] PROVE Par(k, k[g][i]) = g
  <2>1. k[g][i] \in Range(k[g])
    BY DEF Range
  <2>2. Par(k, k[g][i]) \in Nodes /\ k[g][i] \in Range(k[Par(k, k[g][i])])
    BY <1>1, <1>2, <2>1
  <2>3. PICK j \in DOMAIN k[Par(k, k[g][i])] : k[Par(k, k[g][i])][j] = k[g][i]
    BY <2>2 DEF Range
  <2>4. QED BY <2>2, <2>3 DEF IsForest
<1>4. QED BY <1>1, <1>2, <1>3

(* The path of a node goes through the group it is in.                     *)
LEMMA WayUp ==
  ASSUME NEW k \in Kids, IsForest(k), NEW n \in Nodes, NEW p, IsWay(k, p, n)
  PROVE  /\ Len(p) \in Nat \ {0} /\ \A i \in 1 .. Len(p) : p[i] \in Nodes
         /\ Par(k, n) = NONE => p = <<n>>
         /\ Par(k, n) # NONE => Len(p) > 1 /\ IsWay(k, Front(p), Par(k, n))
            /\ p = Append(Front(p), n)
<1>0. NONE \notin Nodes
  BY TreeAssumption
<1>1. Len(p) \in Nat \ {0} /\ p \in Seq(Nodes) /\ \A i \in 1 .. Len(p) : p[i] \in Nodes
  BY DEF IsWay
<1>2. CASE Len(p) = 1
  <2>1. p[1] = n /\ Par(k, n) = NONE
    BY <1>2 DEF IsWay
  <2>2. p = <<n>>
    BY <1>1, <1>2, <2>1
  <2>3. QED BY <1>1, <2>1, <2>2
<1>3. CASE Len(p) # 1
  <2>0. Len(p) - 1 \in 1 .. Len(p) - 1 /\ Len(p) - 1 \in 1 .. Len(p) /\ (Len(p) - 1) + 1 = Len(p)
    <3>1. \A l \in Nat \ {0} : l # 1 => l - 1 \in 1 .. l - 1 /\ l - 1 \in 1 .. l /\ (l - 1) + 1 = l
      OBVIOUS
    <3>2. QED BY <1>1, <1>3, <3>1
  <2>1. Par(k, n) = p[Len(p) - 1] /\ p[Len(p) - 1] \in Nodes
    BY <1>1, <2>0 DEF IsWay
  <2>2. Front(p) \in Seq(Nodes) /\ Len(Front(p)) = Len(p) - 1
        /\ \A i \in 1 .. Len(p) - 1 : Front(p)[i] = p[i]
    BY <1>1, <2>0 DEF Front
  <2>3. IsWay(k, Front(p), Par(k, n))
    <3>1. Front(p)[Len(Front(p))] = Par(k, n) /\ Par(k, Front(p)[1]) = NONE
      BY <2>0, <2>1, <2>2 DEF IsWay
    <3>2. \A i \in 1 .. Len(Front(p)) - 1 : Par(k, Front(p)[i + 1]) = Front(p)[i]
      BY <1>1, <2>2 DEF IsWay
    <3>3. QED BY <1>1, <2>0, <2>2, <3>1, <3>2 DEF IsWay
  <2>4. p = Append(Front(p), n)
    <3>1. Append(Front(p), n) \in Seq(Nodes) /\ Len(Append(Front(p), n)) = Len(p)
      BY <1>1, <2>2
    <3>2. \A i \in 1 .. Len(p) : p[i] = Append(Front(p), n)[i]
      BY <1>1, <2>2 DEF IsWay
    <3>3. QED BY <1>1, <3>1, <3>2, SeqEqual
  <2>5. QED BY <1>0, <1>1, <1>3, <2>1, <2>3, <2>4
<1>4. QED BY <1>2, <1>3

(* A node has one path, as no node is inside itself.                       *)
LEMMA WayUnique ==
  ASSUME NEW k \in Kids, IsForest(k), TopFirst(k)
  PROVE  \A n \in Nodes : \A p, q : IsWay(k, p, n) /\ IsWay(k, q, n) => p = q
<1> DEFINE S == {n \in Nodes : \E p, q : IsWay(k, p, n) /\ IsWay(k, q, n) /\ p # q}
<1>1. SUFFICES ASSUME S # {} PROVE FALSE
  BY Zenon
<1>2. PICK n \in S : \A m \in S : n \notin Range(k[m])
  BY <1>1 DEF TopFirst
<1>3. PICK p : \E q : IsWay(k, p, n) /\ IsWay(k, q, n) /\ p # q
  BY <1>2
<1>4. PICK q : IsWay(k, p, n) /\ IsWay(k, q, n) /\ p # q
  BY <1>3
<1>5. Par(k, n) # NONE
  BY <1>2, <1>4, WayUp
<1>6. Par(k, n) \in Nodes /\ n \in Range(k[Par(k, n)])
  BY <1>5, ParIs
<1>7. Par(k, n) \notin S
  BY <1>2, <1>6
<1>8. /\ IsWay(k, Front(p), Par(k, n)) /\ p = Append(Front(p), n)
      /\ IsWay(k, Front(q), Par(k, n)) /\ q = Append(Front(q), n)
  BY <1>2, <1>4, <1>5, WayUp
<1>9. Front(p) = Front(q)
  BY <1>6, <1>7, <1>8
<1>10. QED BY <1>4, <1>8, <1>9

(* The path of the group and the node make a path of the node.             *)
LEMMA WayStep ==
  ASSUME NEW k \in Kids, NEW n \in Nodes, Par(k, n) \in Nodes, NEW p, IsWay(k, p, Par(k, n))
  PROVE  IsWay(k, Append(p, n), n)
<1>1. p \in Seq(Nodes) /\ Len(p) \in Nat \ {0} /\ p[Len(p)] = Par(k, n) /\ Par(k, p[1]) = NONE
  BY DEF IsWay
<1>2. /\ Append(p, n) \in Seq(Nodes) /\ Len(Append(p, n)) = Len(p) + 1
      /\ \A i \in 1 .. Len(p) : Append(p, n)[i] = p[i]
      /\ Append(p, n)[Len(p) + 1] = n
  BY <1>1
<1>3. ASSUME NEW i \in 1 .. Len(p) PROVE Par(k, Append(p, n)[i + 1]) = Append(p, n)[i]
  <2>1. CASE i = Len(p)
    BY <1>1, <1>2, <2>1
  <2>2. CASE i # Len(p)
    <3>1. i \in 1 .. Len(p) - 1 /\ i + 1 \in 1 .. Len(p)
      BY <1>1, <2>2
    <3>2. QED BY <1>2, <3>1 DEF IsWay
  <2>3. QED BY <2>1, <2>2
<1>4. QED BY <1>1, <1>2, <1>3 DEF IsWay

(* Every node has a path.                                                  *)
LEMMA WayExists ==
  ASSUME NEW k \in Kids, IsForest(k), TopFirst(k)
  PROVE  \A n \in Nodes : \E p : IsWay(k, p, n)
<1> DEFINE S == {n \in Nodes : ~\E p : IsWay(k, p, n)}
<1>1. SUFFICES ASSUME S # {} PROVE FALSE
  BY Zenon
<1>2. PICK n \in S : \A m \in S : n \notin Range(k[m])
  BY <1>1 DEF TopFirst
<1>3. CASE Par(k, n) = NONE
  <2>1. IsWay(k, <<n>>, n)
    BY <1>2, <1>3 DEF IsWay
  <2>2. QED BY <1>2, <2>1
<1>4. CASE Par(k, n) # NONE
  <2>1. Par(k, n) \in Nodes /\ n \in Range(k[Par(k, n)])
    BY <1>4, ParIs
  <2>2. PICK p : IsWay(k, p, Par(k, n))
    BY <1>2, <2>1
  <2>3. IsWay(k, Append(p, n), n)
    BY <1>2, <2>1, <2>2, WayStep
  <2>4. QED BY <1>2, <2>3
<1>5. QED BY <1>3, <1>4

Step(k, f, n) == IF Par(k, n) = NONE THEN <<n>> ELSE Append(f[Par(k, n)], n)

(* Way is the path, and is built from the path of the group.               *)
LEMMA WayIs ==
  ASSUME NEW k \in Kids, IsForest(k), TopFirst(k), NEW n \in Nodes
  PROVE  IsWay(k, Way(k)[n], n) /\ Way(k)[n] = Step(k, Way(k), n)
<1> DEFINE F == [x \in Nodes |-> CHOOSE p : IsWay(k, p, x)]
<1>1. \A x \in Nodes : IsWay(k, F[x], x)
  BY WayExists
<1>2. \A x \in Nodes : F[x] = Step(k, F, x)
  <2>1. SUFFICES ASSUME NEW x \in Nodes PROVE F[x] = Step(k, F, x)
    OBVIOUS
  <2>2. CASE Par(k, x) = NONE
    <3>1. F[x] = <<x>>
      BY <1>1, <2>2, WayUp
    <3>2. QED BY <2>2, <3>1 DEF Step
  <2>3. CASE Par(k, x) # NONE
    <3>1. Par(k, x) \in Nodes
      BY <2>3, ParIs
    <3>2. IsWay(k, Append(F[Par(k, x)], x), x)
      BY <1>1, <3>1, WayStep
    <3>3. F[x] = Append(F[Par(k, x)], x)
      BY <1>1, <3>2, WayUnique
    <3>4. QED BY <2>3, <3>3 DEF Step
  <2>4. QED BY <2>2, <2>3
<1>3. F = [x \in Nodes |-> Step(k, F, x)]
  <2> DEFINE G == [x \in Nodes |-> Step(k, F, x)]
  <2>1. DOMAIN F = Nodes /\ DOMAIN G = Nodes /\ \A x \in Nodes : F[x] = G[x]
    BY <1>2
  <2>2. F = [x \in Nodes |-> F[x]] /\ G = [x \in Nodes |-> G[x]]
    OBVIOUS
  <2> HIDE DEF F, G
  <2>3. F = G
    BY <2>1, <2>2
  <2>4. QED BY <2>3 DEF G
<1> HIDE DEF F
<1>4. Way(k) = [x \in Nodes |-> Step(k, Way(k), x)]
  <2>1. \E f : f = [x \in Nodes |-> Step(k, f, x)]
    BY <1>3
  <2>2. Way(k) = CHOOSE f : f = [x \in Nodes |-> Step(k, f, x)]
    BY DEF Way, Step
  <2>3. QED BY <2>1, <2>2
<1>5. \A x \in Nodes : Way(k)[x] = Step(k, Way(k), x)
  BY <1>4
<1> DEFINE S == {x \in Nodes : ~IsWay(k, Way(k)[x], x)}
<1>6. S = {}
  <2>1. SUFFICES ASSUME S # {} PROVE FALSE
    OBVIOUS
  <2>2. PICK x \in S : \A m \in S : x \notin Range(k[m])
    BY <2>1 DEF TopFirst
  <2>3. CASE Par(k, x) = NONE
    <3>1. Way(k)[x] = <<x>>
      BY <1>5, <2>3 DEF Step
    <3>2. IsWay(k, <<x>>, x)
      BY <2>3 DEF IsWay
    <3>3. QED BY <3>1, <3>2
  <2>4. CASE Par(k, x) # NONE
    <3>1. Par(k, x) \in Nodes /\ x \in Range(k[Par(k, x)])
      BY <2>4, ParIs
    <3>2. IsWay(k, Way(k)[Par(k, x)], Par(k, x))
      BY <2>2, <3>1
    <3>3. IsWay(k, Append(Way(k)[Par(k, x)], x), x)
      BY <3>1, <3>2, WayStep
    <3>4. QED BY <1>5, <2>4, <3>3 DEF Step
  <2>5. QED BY <2>3, <2>4
<1>7. QED BY <1>5, <1>6

(* The nodes on a path have the beginnings of it as their paths.           *)
LEMMA WayPrefix ==
  ASSUME NEW k \in Kids, IsForest(k), TopFirst(k), NEW n \in Nodes, NEW i \in 1 .. Len(Way(k)[n])
  PROVE  /\ Way(k)[n][i] \in Nodes
         /\ Way(k)[Way(k)[n][i]] = SubSeq(Way(k)[n], 1, i)
<1> DEFINE p == Way(k)[n]
<1>1. IsWay(k, p, n)
  BY WayIs
<1> HIDE DEF p
<1>2. p \in Seq(Nodes) /\ p[i] \in Nodes /\ Len(p) \in Nat
  BY <1>1 DEF IsWay, p
<1>3. SubSeq(p, 1, i) \in Seq(Nodes) /\ Len(SubSeq(p, 1, i)) = i
      /\ \A j \in 1 .. i : SubSeq(p, 1, i)[j] = p[j]
  BY <1>2 DEF p
<1>4. IsWay(k, SubSeq(p, 1, i), p[i])
  BY <1>1, <1>2, <1>3 DEF IsWay, p
<1>5. IsWay(k, Way(k)[p[i]], p[i])
  BY <1>2, WayIs
<1>6. SubSeq(p, 1, i) = Way(k)[p[i]]
  BY <1>2, <1>4, <1>5, WayUnique
<1>7. QED BY <1>2, <1>6 DEF p

(* A path depends on the groups of the nodes on it only.                   *)
LEMMA WaySame ==
  ASSUME NEW k \in Kids, IsForest(k), TopFirst(k), NEW h \in Kids, IsForest(h), TopFirst(h),
         NEW n \in Nodes, \A i \in 1 .. Len(Way(k)[n]) : Par(h, Way(k)[n][i]) = Par(k, Way(k)[n][i])
  PROVE  Way(h)[n] = Way(k)[n]
<1> DEFINE p == Way(k)[n]
<1>1. IsWay(k, p, n)
  BY WayIs
<1> HIDE DEF p
<1>2. p \in Seq(Nodes) /\ Len(p) \in Nat \ {0}
  BY <1>1 DEF IsWay
<1>3. IsWay(h, p, n)
  BY <1>1, <1>2 DEF IsWay, p
<1>4. IsWay(h, Way(h)[n], n)
  BY WayIs
<1>5. QED BY <1>3, <1>4, WayUnique DEF p

(* What the lemmas about paths need is part of Well.                       *)
LEMMA WellTree ==
  ASSUME NEW t, Well(t)
  PROVE  t.kids \in Kids /\ IsForest(t.kids) /\ TopFirst(t.kids)
<1>1. t.kids \in Kids /\ IsForest(t.kids)
  BY DEF Well, Typed, Kids
<1>2. \A n, g : n \in Range(t.kids[g]) => Inside(t, n, g)
  BY DEF Inside
<1>3. TopFirst(t.kids)
  BY <1>2 DEF Well, Founded, TopFirst
<1>4. QED BY <1>1, <1>3

(* A path begins at the top and ends at its node.                          *)
LEMMA WayParts ==
  ASSUME NEW k \in Kids, IsForest(k), TopFirst(k), NEW n \in Nodes
  PROVE  /\ Way(k)[n] \in Seq(Nodes) /\ Len(Way(k)[n]) \in Nat \ {0}
         /\ Way(k)[n][Len(Way(k)[n])] = n /\ Head(Way(k)[n]) = Way(k)[n][1]
         /\ n \in Range(Way(k)[n])
<1>1. IsWay(k, Way(k)[n], n)
  BY WayIs
<1>2. Way(k)[n] \in Seq(Nodes) /\ Len(Way(k)[n]) \in Nat \ {0} /\ Way(k)[n][Len(Way(k)[n])] = n
  BY <1>1 DEF IsWay
<1>3. QED BY <1>2 DEF Range

(* A node in a group: its group has it as a child, and its path is the     *)
(* path of the group and the node.                                         *)
LEMMA Grouped ==
  ASSUME NEW k \in Kids, IsForest(k), TopFirst(k), NEW n \in Nodes, Par(k, n) # NONE
  PROVE  /\ Par(k, n) \in Nodes \ Entries /\ n \in Range(k[Par(k, n)]) /\ n # Root
         /\ Way(k)[n] = Append(Way(k)[Par(k, n)], n)
         /\ Len(Way(k)[n]) = Len(Way(k)[Par(k, n)]) + 1 /\ Len(Way(k)[n]) > 1
         /\ Front(Way(k)[n]) = Way(k)[Par(k, n)]
         /\ InTree(k, n) <=> InTree(k, Par(k, n))
         /\ Range(Way(k)[n]) = Range(Way(k)[Par(k, n)]) \cup {n}
<1> DEFINE g == Par(k, n)
           p == Way(k)[g]
<1>1. g \in Nodes /\ n \in Range(k[g])
  BY ParIs
<1>2. g \notin Entries /\ n # Root
  <2>1. DOMAIN k[g] # {}
    BY <1>1 DEF Range
  <2>2. QED BY <1>1, <2>1 DEF IsForest
<1>3. Way(k)[n] = Append(p, n)
  BY WayIs DEF Step
<1>4. p \in Seq(Nodes) /\ Len(p) \in Nat \ {0} /\ Head(p) = p[1]
  BY <1>1, WayParts
<1> HIDE DEF p, g
<1>5. /\ Append(p, n) \in Seq(Nodes) /\ Len(Append(p, n)) = Len(p) + 1
      /\ \A i \in 1 .. Len(p) : Append(p, n)[i] = p[i]
      /\ Append(p, n)[Len(p) + 1] = n
  BY <1>4
<1>6. Front(Append(p, n)) = p
  BY <1>4, <1>5 DEF Front
<1>7. Head(Append(p, n)) = Head(p)
  BY <1>4, <1>5
<1>8. Range(Append(p, n)) = Range(p) \cup {n}
  <2>1. DOMAIN Append(p, n) = 1 .. Len(p) + 1 /\ DOMAIN p = 1 .. Len(p)
    BY <1>4, <1>5
  <2>2. 1 .. Len(p) + 1 = (1 .. Len(p)) \cup {Len(p) + 1}
    BY <1>4
  <2>3. \A x : x \in Range(Append(p, n)) <=> x \in Range(p) \/ x = n
    BY <1>5, <2>1, <2>2 DEF Range
  <2>4. QED BY <2>3
<1>9. InTree(k, n) <=> InTree(k, g)
  BY <1>1, <1>3, <1>7 DEF InTree, p
<1>10. QED BY <1>1, <1>2, <1>3, <1>4, <1>5, <1>6, <1>8, <1>9 DEF p, g

(* A node outside of every group is all of its path.                       *)
LEMMA Ungrouped ==
  ASSUME NEW k \in Kids, IsForest(k), TopFirst(k), NEW n \in Nodes, Par(k, n) = NONE
  PROVE  /\ Way(k)[n] = <<n>> /\ Len(Way(k)[n]) = 1 /\ Range(Way(k)[n]) = {n}
         /\ InTree(k, n) <=> n = Root
<1>1. Way(k)[n] = <<n>>
  BY WayIs DEF Step
<1>2. QED BY <1>1 DEF InTree, Range

(* The root is the only node of the playlist that has no group.            *)
LEMMA TheRoot ==
  ASSUME NEW k \in Kids, IsForest(k), TopFirst(k)
  PROVE  /\ Root \in Nodes \ Entries /\ Par(k, Root) = NONE /\ Way(k)[Root] = <<Root>>
            /\ InTree(k, Root)
         /\ \A e \in Entries : InTree(k, e) => Par(k, e) # NONE
         /\ \A n \in Nodes : InTree(k, n) /\ n # Root => Par(k, n) # NONE
<1>1. Root \in Nodes \ Entries /\ Entries \subseteq Nodes
  BY TreeAssumption
<1>2. Par(k, Root) = NONE
  BY ParIs DEF IsForest
<1>3. QED BY <1>1, <1>2, Ungrouped

(* A child has its group as a parent, and its place there.                 *)
LEMMA Sibling ==
  ASSUME NEW k \in Kids, IsForest(k), TopFirst(k), NEW n \in Nodes
  PROVE  /\ Sibs(k, n) \in Seq(Nodes) /\ Len(Sibs(k, n)) \in Nat \ {0}
         /\ DOMAIN Sibs(k, n) = 1 .. Len(Sibs(k, n))
         /\ Idx(k, n) \in 1 .. Len(Sibs(k, n)) /\ Sibs(k, n)[Idx(k, n)] = n
         /\ \A i \in 1 .. Len(Sibs(k, n)) :
              /\ Sibs(k, n)[i] \in Nodes /\ Par(k, Sibs(k, n)[i]) = Par(k, n)
              /\ Sibs(k, n)[i] = n => i = Idx(k, n)
              /\ Len(Way(k)[Sibs(k, n)[i]]) = Len(Way(k)[n])
              /\ InTree(k, Sibs(k, n)[i]) <=> InTree(k, n)
         /\ \A x \in Range(Sibs(k, n)) : x \in Nodes /\ Par(k, x) = Par(k, n)
         /\ Head(Sibs(k, n)) = Sibs(k, n)[1] /\ Last(Sibs(k, n)) = Sibs(k, n)[Len(Sibs(k, n))]
<1> DEFINE s == Sibs(k, n)
<1>1. CASE Par(k, n) = NONE
  <2>1. s = <<n>>
    BY <1>1 DEF Sibs
  <2>2. s \in Seq(Nodes) /\ Len(s) = 1 /\ DOMAIN s = 1 .. 1 /\ s[1] = n /\ Head(s) = n
        /\ Last(s) = n
    BY <2>1 DEF Last
  <2>3. Idx(k, n) = 1
    BY <2>2 DEF Idx
  <2>4. \A i \in 1 .. 1 : i = 1
    OBVIOUS
  <2> HIDE DEF s
  <2>5. Range(s) = {n}
    BY <2>2, <2>4 DEF Range
  <2>6. QED BY <1>1, <2>2, <2>3, <2>4, <2>5 DEF s
<1>2. CASE Par(k, n) # NONE
  <2>1. s = k[Par(k, n)] /\ Par(k, n) \in Nodes /\ n \in Range(s)
    BY <1>2, ParIs DEF Sibs
  <2>2. s \in Seq(Nodes) /\ DOMAIN s = 1 .. Len(s) /\ Len(s) \in Nat
    BY <2>1 DEF Kids
  <2>3. \E i \in DOMAIN s : s[i] = n
    BY <2>1 DEF Range
  <2>4. Idx(k, n) \in DOMAIN s /\ s[Idx(k, n)] = n
    BY <2>3 DEF Idx
  <2>5. \A i \in DOMAIN s : Par(k, s[i]) = Par(k, n) /\ s[i] \in Nodes
    BY <2>1, <2>2, ParIs
  <2>6. \A i \in DOMAIN s : s[i] = n => i = Idx(k, n)
    BY <2>1, <2>4 DEF IsForest
  <2>7. \A i \in DOMAIN s : Len(Way(k)[s[i]]) = Len(Way(k)[n]) /\ (InTree(k, s[i]) <=> InTree(k, n))
    BY <1>2, <2>5, Grouped
  <2>8. \A x \in Range(s) : x \in Nodes /\ Par(k, x) = Par(k, n)
    BY <2>5 DEF Range
  <2> HIDE DEF s
  <2>9. s # <<>>
    BY <2>2, <2>3
  <2>10. Head(s) = s[1] /\ Last(s) = s[Len(s)] /\ Len(s) \in Nat \ {0}
    BY <2>2, <2>9 DEF Last
  <2>11. QED BY <2>2, <2>4, <2>5, <2>6, <2>7, <2>8, <2>10 DEF s
<1>3. QED BY <1>1, <1>2

(* With a node its group is on a path.                                     *)
LEMMA ParentOnWay ==
  ASSUME NEW k, NEW p, NEW e, IsWay(k, p, e), NEW c \in Range(p), Par(k, c) \in Nodes
  PROVE  Par(k, c) \in Range(p)
<1>1. p \in Seq(Nodes) /\ DOMAIN p = 1 .. Len(p) /\ Len(p) \in Nat \ {0}
  BY DEF IsWay
<1>2. PICK i \in 1 .. Len(p) : p[i] = c
  BY <1>1 DEF Range
<1>3. i # 1
  BY <1>2, TreeAssumption DEF IsWay
<1>4. i - 1 \in 1 .. Len(p) - 1 /\ i - 1 \in 1 .. Len(p) /\ (i - 1) + 1 = i
  BY <1>1, <1>3
<1>5. Par(k, p[(i - 1) + 1]) = p[i - 1]
  BY <1>4 DEF IsWay
<1>6. QED BY <1>1, <1>2, <1>4, <1>5 DEF Range

(* Every group that is filled leads to an entry.                           *)
LEMMA FilledIsValid ==
  ASSUME NEW t, Well(t)
  PROVE  /\ \A n \in Nodes : n \in Entries \/ t.kids[n] # <<>>
              => \E e \in Entries : n \in Range(Way(t.kids)[e])
         /\ \A g \in Nodes : \A n \in Range(t.kids[g]) : n \in Entries \/ t.kids[n] # <<>>
<1> DEFINE k == t.kids
           S == {n \in Nodes : (n \in Entries \/ k[n] # <<>>) /\ ~\E e \in Entries : n \in Range(Way(k)[e])}
<1>0. k \in Kids /\ IsForest(k) /\ TopFirst(k)
  BY WellTree
<1>1. \A g \in Nodes : \A n \in Range(k[g]) : n \in Nodes /\ (n \in Entries \/ k[n] # <<>>)
  <2>1. SUFFICES ASSUME NEW g \in Nodes, NEW n \in Range(k[g]), n \notin Entries
                 PROVE n \in Nodes /\ k[n] # <<>>
    BY TreeAssumption
  <2>2. n \in Nodes
    BY <1>0 DEF Range, Kids
  <2>3. \E c : c \in Range(k[n])
    BY <2>1 DEF Well, Filled, Lasting
  <2>4. QED BY <2>2, <2>3 DEF Range
<1>2. S = {}
  <2>1. SUFFICES ASSUME S # {} PROVE FALSE
    OBVIOUS
  <2>2. S \in (SUBSET Nodes) \ {{}}
    BY <2>1
  <2>3. PICK n \in S : \A m \in S : ~Inside(t, m, n)
    BY <2>2 DEF Well, Founded
  <2>4. n \notin Entries
    <3>1. SUFFICES ASSUME n \in Entries PROVE FALSE
      OBVIOUS
    <3>2. n \in Range(Way(k)[n])
      BY <1>0, <2>3, WayParts
    <3>3. QED BY <2>3, <3>1, <3>2
  <2>5. k[n] \in Seq(Nodes) /\ k[n] # <<>> /\ n \in Nodes
    BY <1>0, <2>3, <2>4 DEF Kids
  <2>6. 1 \in DOMAIN k[n] /\ k[n][1] \in Range(k[n]) /\ k[n][1] \in Nodes
    BY <2>5 DEF Range
  <2>7. Inside(t, k[n][1], n)
    BY <2>6 DEF Inside
  <2>8. k[n][1] \notin S
    BY <2>3, <2>7
  <2>9. PICK e \in Entries : k[n][1] \in Range(Way(k)[e])
    BY <1>1, <2>5, <2>6, <2>8
  <2>10. Par(k, k[n][1]) = n
    BY <1>0, <2>5, <2>6, ParIs
  <2>11. e \in Nodes
    BY TreeAssumption
  <2>12. IsWay(k, Way(k)[e], e)
    BY <1>0, <2>11, WayIs
  <2>13. n \in Range(Way(k)[e])
    BY <2>5, <2>9, <2>10, <2>12, ParentOnWay
  <2>14. QED BY <2>3, <2>13
<1>3. QED BY <1>1, <1>2

(* The places in a concatenation                                           *)
LEMMA ConcatIs ==
  ASSUME NEW S, NEW a \in Seq(S), NEW b \in Seq(S)
  PROVE  /\ a \o b \in Seq(S) /\ Len(a \o b) = Len(a) + Len(b)
         /\ \A j \in 1 .. Len(a) : (a \o b)[j] = a[j]
         /\ \A j \in 1 .. Len(b) : (a \o b)[Len(a) + j] = b[j]
<1> DEFINE r == a \o b
<1>1. /\ r \in Seq(S) /\ Len(r) = Len(a) + Len(b)
      /\ \A j \in 1 .. Len(a) + Len(b) : r[j] = IF j <= Len(a) THEN a[j] ELSE b[j - Len(a)]
  BY ConcatProperties
<1> HIDE DEF r
<1>2. \A m, l \in Nat : /\ \A j \in 1 .. m : j \in 1 .. m + l /\ j <= m
                        /\ \A j \in 1 .. l : m + j \in 1 .. m + l /\ ~(m + j <= m)
                           /\ (m + j) - m = j
  OBVIOUS
<1>3. Len(a) \in Nat /\ Len(b) \in Nat
  OBVIOUS
<1>4. \A j \in 1 .. Len(a) : r[j] = a[j]
  BY <1>1, <1>2, <1>3
<1>5. \A j \in 1 .. Len(b) : r[Len(a) + j] = b[j]
  BY <1>1, <1>2, <1>3
<1>6. QED BY <1>1, <1>4, <1>5 DEF r

(* The part of a sequence before a place, and the part behind one.         *)
LEMMA PartsAre ==
  ASSUME NEW S, NEW s \in Seq(S), NEW i \in 0 .. Len(s)
  PROVE  /\ SubSeq(s, 1, i) \in Seq(S) /\ Len(SubSeq(s, 1, i)) = i
         /\ \A j \in 1 .. i : SubSeq(s, 1, i)[j] = s[j]
         /\ SubSeq(s, i + 1, Len(s)) \in Seq(S) /\ Len(SubSeq(s, i + 1, Len(s))) = Len(s) - i
         /\ \A j \in 1 .. Len(s) - i : SubSeq(s, i + 1, Len(s))[j] = s[j + i]
OBVIOUS

Inserted(s, at, x, r) ==
  /\ r \in Seq(Nodes) /\ Len(r) = Len(s) + 1 /\ r[at] = x
  /\ \A j \in 1 .. at - 1 : r[j] = s[j]
  /\ \A j \in at + 1 .. Len(s) + 1 : r[j] = s[j - 1]

(* InsertAt, as play_tree_insert_entry uses it                             *)
LEMMA InsertIs ==
  ASSUME NEW s \in Seq(Nodes), NEW i \in 1 .. Len(s), NEW x \in Nodes, NEW at, at = i + 1
  PROVE  Inserted(s, at, x, InsertAt(s, at, x))
<1> DEFINE S == Nodes
<1>0. Len(s) \in Nat
  OBVIOUS
<1> DEFINE n == Len(s)
<1>00. n \in Nat /\ Len(s) = n /\ i \in 1 .. n
  BY <1>0
<1> DEFINE a == SubSeq(s, 1, i)
           b == SubSeq(s, i + 1, n)
           c == a \o <<x>>
           r == c \o b
<1> HIDE DEF n
<1> USE <1>00
<1>1. InsertAt(s, at, x) = r
  <2>1. at - 1 = i
    OBVIOUS
  <2>2. InsertAt(s, at, x) = (SubSeq(s, 1, at - 1) \o <<x>>) \o SubSeq(s, at, Len(s))
    BY Zenon DEF InsertAt
  <2>3. QED BY <2>1, <2>2, Zenon DEF a, b, c, r
<1>2. /\ a \in Seq(S) /\ Len(a) = i /\ \A j \in 1 .. i : a[j] = s[j]
      /\ b \in Seq(S) /\ Len(b) = n - i /\ \A j \in 1 .. n - i : b[j] = s[j + i]
  <2>1. i \in 0 .. Len(s)
    OBVIOUS
  <2>2. QED BY <2>1, PartsAre DEF n
<1>3. <<x>> \in Seq(S) /\ Len(<<x>>) = 1 /\ <<x>>[1] = x /\ i \in Nat /\ n - i \in Nat
      /\ i + 1 \in Nat /\ (i + 1) - i = 1
  OBVIOUS
<1> HIDE DEF a, b
<1>4. c \in Seq(S) /\ Len(c) = i + 1 /\ c[i + 1] = x /\ \A j \in 1 .. i : c[j] = a[j]
  BY <1>2, <1>3, ConcatIs
<1> HIDE DEF c
<1>5. /\ r \in Seq(S) /\ Len(r) = Len(c) + Len(b)
      /\ \A j \in 1 .. Len(c) : r[j] = c[j]
      /\ \A j \in 1 .. Len(b) : r[Len(c) + j] = b[j]
  <2>1. c \in Seq(S) /\ b \in Seq(S)
    BY <1>2, <1>4
  <2>2. QED BY <2>1, ConcatIs
<1> HIDE DEF r
<1>6. (\A j \in 1 .. i + 1 : r[j] = c[j]) /\ \A j \in 1 .. n - i : r[(i + 1) + j] = b[j]
  BY <1>2, <1>4, <1>5
<1>7. /\ (i + 1) + (n - i) = n + 1 /\ i + 1 \in 1 .. i + 1
      /\ \A j \in 1 .. i : j \in 1 .. i + 1
      /\ \A j \in i + 2 .. n + 1 : /\ j - (i + 1) \in 1 .. n - i /\ (j - (i + 1)) + i = j - 1
                                  /\ (i + 1) + (j - (i + 1)) = j
  OBVIOUS
<1>8. ASSUME NEW j \in i + 2 .. n + 1 PROVE r[j] = s[j - 1]
  <2>1. PICK l \in 1 .. n - i : l = j - (i + 1)
    BY <1>7
  <2>2. (i + 1) + l = j /\ l + i = j - 1
    BY <2>1
  <2>3. r[(i + 1) + l] = b[l] /\ b[l] = s[l + i]
    BY <1>2, <1>6
  <2>4. QED BY <2>2, <2>3
<1>9. Len(r) = n + 1
  BY <1>2, <1>4, <1>5, <1>7
<1>10. at - 1 = i /\ at + 1 = i + 2
  OBVIOUS
<1>11. /\ r \in Seq(S) /\ Len(r) = Len(s) + 1 /\ r[at] = x
       /\ \A j \in 1 .. at - 1 : r[j] = s[j]
       /\ \A j \in at + 1 .. Len(s) + 1 : r[j] = s[j - 1]
  BY <1>2, <1>4, <1>5, <1>6, <1>7, <1>8, <1>9, <1>10
<1>12. QED BY <1>1, <1>11, Zenon DEF Inserted, S

(* RemoveAt, as play_tree_remove uses it                                   *)
LEMMA RemoveIs ==
  ASSUME NEW S, NEW s \in Seq(S), NEW i \in 1 .. Len(s)
  PROVE  /\ RemoveAt(s, i) \in Seq(S) /\ Len(RemoveAt(s, i)) = Len(s) - 1
         /\ \A j \in 1 .. i - 1 : RemoveAt(s, i)[j] = s[j]
         /\ \A j \in i .. Len(s) - 1 : RemoveAt(s, i)[j] = s[j + 1]
<1>0. Len(s) \in Nat
  OBVIOUS
<1> DEFINE n == Len(s)
<1>00. n \in Nat /\ Len(s) = n /\ i \in 1 .. n
  BY <1>0
<1> DEFINE a == SubSeq(s, 1, i - 1)
           b == SubSeq(s, i + 1, n)
           r == a \o b
<1> HIDE DEF n
<1> USE <1>00
<1>1. RemoveAt(s, i) = r
  BY Zenon DEF RemoveAt
<1>2. i - 1 \in 0 .. n /\ i \in 0 .. n /\ i - 1 \in Nat /\ n - i \in Nat
  OBVIOUS
<1>3. /\ a \in Seq(S) /\ Len(a) = i - 1 /\ \A j \in 1 .. i - 1 : a[j] = s[j]
      /\ b \in Seq(S) /\ Len(b) = n - i /\ \A j \in 1 .. n - i : b[j] = s[j + i]
  <2>1. i - 1 \in 0 .. Len(s) /\ i \in 0 .. Len(s)
    BY <1>2
  <2>2. a \in Seq(S) /\ Len(a) = i - 1 /\ \A j \in 1 .. i - 1 : a[j] = s[j]
    BY <2>1, PartsAre
  <2>3. b \in Seq(S) /\ Len(b) = n - i /\ \A j \in 1 .. n - i : b[j] = s[j + i]
    BY <2>1, PartsAre DEF n
  <2>4. QED BY <2>2, <2>3
<1> HIDE DEF a, b
<1>4. /\ r \in Seq(S) /\ Len(r) = Len(a) + Len(b)
      /\ \A j \in 1 .. Len(a) : r[j] = a[j]
      /\ \A j \in 1 .. Len(b) : r[Len(a) + j] = b[j]
  <2>1. a \in Seq(S) /\ b \in Seq(S)
    BY <1>3
  <2>2. QED BY <2>1, ConcatIs
<1> HIDE DEF r
<1>5. (\A j \in 1 .. i - 1 : r[j] = a[j]) /\ \A j \in 1 .. n - i : r[(i - 1) + j] = b[j]
  BY <1>3, <1>4
<1>6. /\ (i - 1) + (n - i) = n - 1
      /\ \A j \in i .. n - 1 : /\ j - (i - 1) \in 1 .. n - i /\ (j - (i - 1)) + i = j + 1
                               /\ (i - 1) + (j - (i - 1)) = j
  OBVIOUS
<1>7. ASSUME NEW j \in i .. n - 1 PROVE r[j] = s[j + 1]
  <2>1. PICK l \in 1 .. n - i : l = j - (i - 1)
    BY <1>6
  <2>2. (i - 1) + l = j /\ l + i = j + 1
    BY <2>1
  <2>3. r[(i - 1) + l] = b[l] /\ b[l] = s[l + i]
    BY <1>3, <1>5
  <2>4. QED BY <2>2, <2>3
<1>8. Len(r) = n - 1
  BY <1>3, <1>4, <1>6
<1>9. QED BY <1>1, <1>3, <1>4, <1>5, <1>7, <1>8 DEF n

(* How the group of a node is found                                        *)
LEMMA ParFrom ==
  ASSUME NEW k \in Kids, IsForest(k), NEW n
  PROVE  /\ \A g \in Nodes : n \in Range(k[g]) => Par(k, n) = g
         /\ (\A g \in Nodes : n \notin Range(k[g])) => Par(k, n) = NONE
<1>1. ASSUME NEW g \in Nodes, n \in Range(k[g]) PROVE Par(k, n) = g
  <2>1. PICK i \in DOMAIN k[g] : k[g][i] = n
    BY <1>1 DEF Range
  <2>2. QED BY <2>1, ParIs
<1>2. QED BY <1>1, ParIs

Regroup(k, g, r) == [k EXCEPT ![g] = r]

(* A node is put behind another, or behind all the others.                 *)
LEMMA PutIn ==
  ASSUME NEW k \in Kids, IsForest(k), NEW g \in Nodes \ Entries, NEW x \in Nodes \ {Root},
         Par(k, x) = NONE,
         NEW r, NEW at \in 1 .. Len(k[g]) + 1, Inserted(k[g], at, x, r), NEW h, h = Regroup(k, g, r)
  PROVE  /\ h \in Kids /\ IsForest(h)
         /\ Par(h, x) = g /\ \A n : n # x => Par(h, n) = Par(k, n)
         /\ Range(h[g]) = Range(k[g]) \cup {x} /\ \A m \in Nodes \ {g} : h[m] = k[m]
<1> DEFINE old(j) == IF j < at THEN j ELSE j - 1
<1>0. r \in Seq(Nodes) /\ Len(r) = Len(k[g]) + 1 /\ r[at] = x
  BY DEF Inserted
<1>r. /\ \A j \in 1 .. at - 1 : r[j] = k[g][j]
      /\ \A j \in at + 1 .. Len(k[g]) + 1 : r[j] = k[g][j - 1]
  BY DEF Inserted
<1>1. h \in Kids /\ h[g] = r /\ \A m \in Nodes \ {g} : h[m] = k[m]
  BY <1>0 DEF Kids, Regroup
<1>2. k[g] \in Seq(Nodes) /\ Len(k[g]) \in Nat /\ DOMAIN k[g] = 1 .. Len(k[g])
      /\ DOMAIN r = 1 .. Len(k[g]) + 1 /\ at \in Nat
  BY <1>0 DEF Kids
<1>3. \A j \in DOMAIN r : j # at => old(j) \in DOMAIN k[g] /\ r[j] = k[g][old(j)]
  BY <1>0, <1>r, <1>2
<1>4. \A i, j \in DOMAIN r : i # at /\ j # at /\ old(i) = old(j) => i = j
  BY <1>2
<1>5. \A m \in Nodes : \A i \in DOMAIN k[m] : k[m][i] # x
  BY ParIs DEF Range
<1> HIDE DEF old
<1>6. IsForest(h)
  <2>1. ASSUME NEW m \in Nodes, NEW l \in Nodes, NEW i \in DOMAIN h[m], NEW j \in DOMAIN h[l],
               h[m][i] = h[l][j]
        PROVE  m = l /\ i = j
    <3>1. CASE m = g /\ l = g
      <4>1. CASE i # at /\ j # at
        <5>1. i \in DOMAIN r /\ j \in DOMAIN r /\ k[g][old(i)] = k[g][old(j)]
          BY <1>1, <1>3, <2>1, <3>1, <4>1
        <5>2. old(i) = old(j)
          BY <1>3, <4>1, <5>1 DEF IsForest
        <5>3. QED BY <1>4, <3>1, <4>1, <5>1, <5>2
      <4>2. CASE i = at
        BY <1>0, <1>1, <1>2, <1>3, <1>5, <2>1, <3>1, <4>2
      <4>3. CASE j = at
        BY <1>0, <1>1, <1>2, <1>3, <1>5, <2>1, <3>1, <4>3
      <4>4. QED BY <4>1, <4>2, <4>3
    <3>2. CASE m = g /\ l # g
      BY <1>0, <1>1, <1>3, <1>5, <2>1, <3>2 DEF IsForest
    <3>3. CASE m # g /\ l = g
      BY <1>0, <1>1, <1>3, <1>5, <2>1, <3>3 DEF IsForest
    <3>4. CASE m # g /\ l # g
      BY <1>1, <2>1, <3>4 DEF IsForest
    <3>5. QED BY <3>1, <3>2, <3>3, <3>4
  <2>2. \A e \in Entries : h[e] = <<>>
    BY <1>1, TreeAssumption DEF IsForest
  <2>3. ASSUME NEW m \in Nodes, NEW i \in DOMAIN h[m] PROVE h[m][i] # Root
    <3>1. \A q \in Nodes : \A j \in DOMAIN k[q] : k[q][j] # Root
      BY DEF IsForest, Range
    <3>2. QED BY <1>0, <1>1, <1>3, <3>1
  <2>4. QED BY <2>1, <2>2, <2>3 DEF IsForest, Range
<1>7. Range(h[g]) = Range(k[g]) \cup {x}
  <2>1. ASSUME NEW n, n \in Range(r) PROVE n \in Range(k[g]) \cup {x}
    BY <1>0, <1>3, <2>1 DEF Range
  <2>2. ASSUME NEW n, n \in Range(k[g]) PROVE n \in Range(r)
    <3>1. PICK i \in DOMAIN k[g] : k[g][i] = n
      BY <2>2 DEF Range
    <3>2. CASE i < at
      <4>1. i \in 1 .. at - 1 /\ i \in DOMAIN r
        BY <1>2, <3>2
      <4>2. QED BY <1>0, <1>r, <3>1, <4>1 DEF Range
    <3>3. CASE i >= at
      <4>1. i + 1 \in at + 1 .. Len(k[g]) + 1 /\ i + 1 \in DOMAIN r /\ (i + 1) - 1 = i
        BY <1>2, <3>3
      <4>2. QED BY <1>0, <1>r, <3>1, <4>1 DEF Range
    <3>4. QED BY <1>2, <3>2, <3>3
  <2>3. x \in Range(r)
    BY <1>0, <1>2 DEF Range
  <2>4. QED BY <1>1, <2>1, <2>2, <2>3
<1>8. Par(h, x) = g
  BY <1>1, <1>6, <1>7, ParFrom
<1>9. ASSUME NEW n, n # x PROVE Par(h, n) = Par(k, n)
  <2>1. \A m \in Nodes : n \in Range(h[m]) <=> n \in Range(k[m])
    BY <1>1, <1>7, <1>9
  <2>2. CASE \E m \in Nodes : n \in Range(k[m])
    <3>1. PICK m \in Nodes : n \in Range(k[m])
      BY <2>2
    <3>2. n \in Range(h[m])
      BY <2>1, <3>1
    <3>3. Par(h, n) = m /\ Par(k, n) = m
      BY <1>1, <1>6, <3>1, <3>2, ParFrom
    <3>4. QED BY <3>3
  <2>3. CASE \A m \in Nodes : n \notin Range(k[m])
    <3>1. \A m \in Nodes : n \notin Range(h[m])
      BY <2>1, <2>3
    <3>2. Par(h, n) = NONE
      BY <1>1, <1>6, <3>1, ParIs
    <3>3. Par(k, n) = NONE
      BY <2>3, ParIs
    <3>4. QED BY <3>2, <3>3
  <2>4. QED BY <2>2, <2>3
<1>10. QED BY <1>1, <1>6, <1>7, <1>8, <1>9

Cut(k, x) == Regroup(k, Par(k, x), RemoveAt(k[Par(k, x)], Idx(k, x)))

IsCut(k, x, h) ==
  /\ h \in Kids /\ IsForest(h)
  /\ Par(h, x) = NONE /\ \A n : n # x => Par(h, n) = Par(k, n)
  /\ Range(h[Par(k, x)]) = Range(k[Par(k, x)]) \ {x} /\ \A m \in Nodes \ {Par(k, x)} : h[m] = k[m]

(* A node is taken out of its group.                                       *)
LEMMA TakeOut ==
  ASSUME NEW k \in Kids, IsForest(k), TopFirst(k), NEW x \in Nodes, Par(k, x) # NONE,
         NEW h, h = Cut(k, x)
  PROVE  IsCut(k, x, h)
<1> DEFINE g == Par(k, x)
           at == Idx(k, x)
           r == RemoveAt(k[g], at)
           old(j) == IF j < at THEN j ELSE j + 1
<1>1. g \in Nodes \ Entries /\ x \in Range(k[g])
  BY Grouped
<1>2. k[g] \in Seq(Nodes) /\ Len(k[g]) \in Nat /\ DOMAIN k[g] = 1 .. Len(k[g])
      /\ at \in 1 .. Len(k[g]) /\ k[g][at] = x
  BY <1>1, Sibling DEF Kids, Sibs
<1>3. /\ r \in Seq(Nodes) /\ Len(r) = Len(k[g]) - 1 /\ \A j \in 1 .. at - 1 : r[j] = k[g][j]
      /\ \A j \in at .. Len(k[g]) - 1 : r[j] = k[g][j + 1]
  <2> HIDE DEF g, at
  <2>1. QED BY <1>2, RemoveIs
<1> HIDE DEF r
<1>4. h \in Kids /\ h[g] = r /\ \A m \in Nodes \ {g} : h[m] = k[m]
  BY <1>1, <1>3 DEF Kids, Cut, Regroup, r
<1> HIDE DEF g, at
<1>5. DOMAIN r = 1 .. Len(k[g]) - 1
  BY <1>2, <1>3
<1>6. \A j \in DOMAIN r : old(j) \in DOMAIN k[g] /\ r[j] = k[g][old(j)] /\ old(j) # at
  BY <1>2, <1>3, <1>5
<1>7. \A i, j \in DOMAIN r : old(i) = old(j) => i = j
  BY <1>2, <1>5
<1> HIDE DEF old
<1>8. \A m \in Nodes : \A i \in DOMAIN k[m] : k[m][i] = x => m = g /\ i = at
  BY <1>1, <1>2 DEF IsForest
<1>9. IsForest(h)
  <2>1. ASSUME NEW m \in Nodes, NEW l \in Nodes, NEW i \in DOMAIN h[m], NEW j \in DOMAIN h[l],
               h[m][i] = h[l][j]
        PROVE  m = l /\ i = j
    <3>1. CASE m = g /\ l = g
      BY <1>4, <1>6, <1>7, <1>1, <2>1, <3>1 DEF IsForest
    <3>2. CASE m = g /\ l # g
      BY <1>1, <1>4, <1>6, <2>1, <3>2 DEF IsForest
    <3>3. CASE m # g /\ l = g
      BY <1>1, <1>4, <1>6, <2>1, <3>3 DEF IsForest
    <3>4. CASE m # g /\ l # g
      BY <1>4, <2>1, <3>4 DEF IsForest
    <3>5. QED BY <3>1, <3>2, <3>3, <3>4
  <2>2. \A e \in Entries : h[e] = <<>>
    BY <1>1, <1>4, TreeAssumption DEF IsForest
  <2>3. ASSUME NEW m \in Nodes, NEW i \in DOMAIN h[m] PROVE h[m][i] # Root
    <3>1. \A q \in Nodes : \A j \in DOMAIN k[q] : k[q][j] # Root
      BY DEF IsForest, Range
    <3>2. QED BY <1>1, <1>4, <1>6, <3>1
  <2>4. QED BY <2>1, <2>2, <2>3 DEF IsForest, Range
<1>10. Range(h[g]) = Range(k[g]) \ {x}
  <2>1. ASSUME NEW n, n \in Range(r) PROVE n \in Range(k[g]) \ {x}
    BY <1>1, <1>6, <1>8, <2>1 DEF Range
  <2>2. ASSUME NEW n, n \in Range(k[g]), n # x PROVE n \in Range(r)
    <3>1. PICK i \in DOMAIN k[g] : k[g][i] = n
      BY <2>2 DEF Range
    <3>2. CASE i < at
      <4>1. i \in 1 .. at - 1 /\ i \in DOMAIN r
        BY <1>2, <1>5, <3>2
      <4>2. QED BY <1>3, <3>1, <4>1 DEF Range
    <3>3. CASE i > at
      <4>1. i - 1 \in at .. Len(k[g]) - 1 /\ i - 1 \in DOMAIN r /\ (i - 1) + 1 = i
        BY <1>2, <1>5, <3>3
      <4>2. QED BY <1>3, <3>1, <4>1 DEF Range
    <3>4. i # at
      BY <1>2, <2>2, <3>1
    <3>5. QED BY <1>2, <3>2, <3>3, <3>4
  <2>3. QED BY <1>4, <1>1, <2>1, <2>2
<1>11. Par(h, x) = NONE
  <2>1. \A m \in Nodes : x \notin Range(h[m])
    BY <1>4, <1>8, <1>10 DEF Range
  <2>2. QED BY <1>4, <1>9, <2>1, ParFrom
<1>12. ASSUME NEW n, n # x PROVE Par(h, n) = Par(k, n)
  <2>1. \A m \in Nodes : n \in Range(h[m]) <=> n \in Range(k[m])
    BY <1>4, <1>10, <1>12
  <2>2. CASE \E m \in Nodes : n \in Range(k[m])
    <3>1. PICK m \in Nodes : n \in Range(k[m])
      BY <2>2
    <3>2. n \in Range(h[m])
      BY <2>1, <3>1
    <3>3. Par(h, n) = m /\ Par(k, n) = m
      BY <1>4, <1>9, <3>1, <3>2, ParFrom
    <3>4. QED BY <3>3
  <2>3. CASE \A m \in Nodes : n \notin Range(k[m])
    <3>1. \A m \in Nodes : n \notin Range(h[m])
      BY <2>1, <2>3
    <3>2. Par(h, n) = NONE
      BY <1>4, <1>9, <3>1, ParIs
    <3>3. Par(k, n) = NONE
      BY <2>3, ParIs
    <3>4. QED BY <3>2, <3>3
  <2>4. QED BY <2>2, <2>3
<1>13. QED BY <1>4, <1>9, <1>10, <1>11, <1>12 DEF g, IsCut

(* The root gets another list, of one entry.                               *)
LEMMA PutAlone ==
  ASSUME NEW k \in Kids, IsForest(k), NEW x \in Nodes \ {Root}, Par(k, x) = NONE,
         NEW h, h = Regroup(k, Root, <<x>>)
  PROVE  /\ h \in Kids /\ IsForest(h) /\ h[Root] = <<x>>
         /\ Par(h, x) = Root /\ \A n : n # x
              => Par(h, n) = IF Par(k, n) = Root THEN NONE ELSE Par(k, n)
         /\ \A m \in Nodes \ {Root} : h[m] = k[m]
<1>0. Root \in Nodes \ Entries /\ Root # NONE
  BY TreeAssumption
<1>1. h \in Kids /\ h[Root] = <<x>> /\ \A m \in Nodes \ {Root} : h[m] = k[m]
  BY <1>0 DEF Kids, Regroup
<1>2. DOMAIN <<x>> = {1} /\ <<x>>[1] = x /\ Range(<<x>>) = {x}
  BY DEF Range
<1>3. \A m \in Nodes : \A i \in DOMAIN k[m] : k[m][i] # x
  BY ParIs DEF Range
<1>4. IsForest(h)
  <2>1. ASSUME NEW m \in Nodes, NEW l \in Nodes, NEW i \in DOMAIN h[m], NEW j \in DOMAIN h[l],
               h[m][i] = h[l][j]
        PROVE  m = l /\ i = j
    <3>1. CASE m = Root /\ l = Root
      BY <1>1, <1>2, <2>1, <3>1
    <3>2. CASE m = Root /\ l # Root
      BY <1>1, <1>2, <1>3, <2>1, <3>2
    <3>3. CASE m # Root /\ l = Root
      BY <1>1, <1>2, <1>3, <2>1, <3>3
    <3>4. CASE m # Root /\ l # Root
      BY <1>1, <2>1, <3>4 DEF IsForest
    <3>5. QED BY <3>1, <3>2, <3>3, <3>4
  <2>2. \A e \in Entries : h[e] = <<>>
    BY <1>0, <1>1, TreeAssumption DEF IsForest
  <2>3. \A m \in Nodes : Root \notin Range(h[m])
    BY <1>1, <1>2 DEF IsForest
  <2>4. QED BY <2>1, <2>2, <2>3 DEF IsForest
<1>5. Par(h, x) = Root
  <2>1. x \in Range(h[Root])
    BY <1>1, <1>2
  <2>2. QED BY <1>0, <1>1, <1>4, <2>1, ParFrom
<1>6. ASSUME NEW n, n # x PROVE Par(h, n) = IF Par(k, n) = Root THEN NONE ELSE Par(k, n)
  <2>1. n \notin Range(h[Root]) /\ \A m \in Nodes \ {Root} : n \in Range(h[m]) <=> n \in Range(k[m])
    BY <1>1, <1>2, <1>6
  <2>2. CASE \E m \in Nodes \ {Root} : n \in Range(k[m])
    <3>1. PICK m \in Nodes \ {Root} : n \in Range(k[m])
      BY <2>2
    <3>2. n \in Range(h[m])
      BY <2>1, <3>1
    <3>3. Par(h, n) = m /\ Par(k, n) = m
      BY <1>1, <1>4, <3>1, <3>2, ParFrom
    <3>4. QED BY <3>1, <3>3
  <2>3. CASE \A m \in Nodes \ {Root} : n \notin Range(k[m])
    <3>1. \A m \in Nodes : n \notin Range(h[m])
      BY <2>1, <2>3
    <3>2. Par(h, n) = NONE
      BY <1>1, <1>4, <3>1, ParIs
    <3>3. Par(k, n) \in {NONE, Root}
      BY <1>0, <2>3, ParIs
    <3>4. QED BY <3>2, <3>3
  <2>4. QED BY <2>2, <2>3
<1>7. QED BY <1>1, <1>4, <1>5, <1>6

(* A playlist has its six fields.                                          *)
LEMMA TypedIs ==
  ASSUME NEW t, Typed(t)
  PROVE  /\ t = [kids |-> t.kids, loop |-> t.loop, rnd |-> t.rnd, params |-> t.params,
                 lists |-> t.lists, played |-> t.played]
         /\ t.kids \in Kids /\ t.loop \in [Nodes -> Int] /\ t.rnd \subseteq Nodes
            /\ t.played \subseteq Nodes
         /\ t.params \in [Nodes -> Range(t.params)]
BY DEF Typed, Kids

(* A playlist with less in its groups has no node inside itself.           *)
LEMMA FoundedLess ==
  ASSUME NEW t, Founded(t), NEW u, \A m \in Nodes : \A n : Inside(u, n, m) => Inside(t, n, m)
  PROVE  Founded(u)
<1>1. SUFFICES ASSUME NEW S \in (SUBSET Nodes) \ {{}}
      PROVE  (\E n \in S : \A m \in S : ~Inside(u, n, m))
             /\ (\E n \in S : \A m \in S : ~Inside(u, m, n))
  BY Zenon DEF Founded
<1>2. (\E n \in S : \A m \in S : ~Inside(t, n, m)) /\ (\E n \in S : \A m \in S : ~Inside(t, m, n))
  BY Zenon DEF Founded
<1>3. \A m \in S : m \in Nodes
  OBVIOUS
<1>4. QED BY <1>2, <1>3

TreeOf(h, l, r, q, s, p) ==
  [kids |-> h, loop |-> l, rnd |-> r, params |-> q, lists |-> s, played |-> p]

OptionsFor(q) ==
  /\ DOMAIN q = Nodes /\ q = [n \in Nodes |-> q[n]]
  /\ \A n \in Nodes : \A o \in DOMAIN q[n] : o \in Opts /\ q[n][o] \in Vals

(* A tree with other children and options.                                 *)
LEMMA TypedFields ==
  ASSUME NEW t, Typed(t), NEW h \in Kids, NEW q, OptionsFor(q),
         NEW l \in [Nodes -> Int], NEW pl \in SUBSET Nodes, NEW u,
         u = TreeOf(h, l, t.rnd, q, t.lists, pl)
  PROVE  /\ Typed(u) /\ u.kids = h /\ u.loop = l /\ u.rnd = t.rnd /\ u.params = q
         /\ u.lists = t.lists /\ u.played = pl
<1>1. u.kids = h /\ u.loop = l /\ u.rnd = t.rnd /\ u.params = q /\ u.lists = t.lists
      /\ u.played = pl
  BY DEF TreeOf
<1>2. q \in [Nodes -> Range(q)] /\ \A n \in Nodes : \A o \in DOMAIN q[n] : o \in Opts
      /\ q[n][o] \in Vals
  BY DEF OptionsFor, Range
<1>3. t.rnd \in SUBSET Nodes
  BY TypedIs
<1>4. u \in [kids : Kids, loop : [Nodes -> Int], rnd : SUBSET Nodes, params : {q}, lists : {t.lists}, played : SUBSET Nodes]
  BY <1>3 DEF TreeOf
<1>5. QED BY <1>1, <1>2, <1>4 DEF Typed, Kids

Inherit(q, x, e) == [q EXCEPT ![x] = Over(q[e], q[x])]

(* A node that was read from a playlist file gets the options of the file. *)
LEMMA ListFields ==
  ASSUME NEW t, Typed(t), NEW e, NEW x, NEW h
  PROVE  [t EXCEPT !.kids = h, !.params[x] = Over(t.params[e], @)]
           = TreeOf(h, t.loop, t.rnd, Inherit(t.params, x, e), t.lists, t.played)
<1>1. t = [kids |-> t.kids, loop |-> t.loop, rnd |-> t.rnd, params |-> t.params, lists |-> t.lists, played |-> t.played]
  BY TypedIs
<1>2. PICK u : u = [t EXCEPT !.kids = h, !.params[x] = Over(t.params[e], @)]
  OBVIOUS
<1>0. PICK q : q = Inherit(t.params, x, e)
  OBVIOUS
<1>3. u = [t EXCEPT !.kids = h, !.params = q]
  BY <1>2, <1>0 DEF Inherit
<1>4. u = TreeOf(h, t.loop, t.rnd, q, t.lists, t.played)
  BY <1>1, <1>3 DEF TreeOf
<1>5. QED BY <1>0, <1>2, <1>4, Zenon

(* Only the options of the node that was read change.                      *)
LEMMA InheritIs ==
  ASSUME NEW q, OptionsFor(q), NEW e \in Nodes, NEW x \in Nodes
  PROVE  OptionsFor(Inherit(q, x, e)) /\ \A n \in Nodes \ {x} : Inherit(q, x, e)[n] = q[n]
<1> DEFINE r == Inherit(q, x, e)
<1>1. DOMAIN q = Nodes /\ \A n \in Nodes : \A o \in DOMAIN q[n] : o \in Opts /\ q[n][o] \in Vals
  BY DEF OptionsFor
<1>2. /\ DOMAIN r = Nodes /\ r = [n \in Nodes |-> r[n]] /\ \A n \in Nodes \ {x} : r[n] = q[n]
      /\ r[x] = Over(q[e], q[x])
  BY <1>1 DEF Inherit
<1> HIDE DEF r
<1>3. \A o \in DOMAIN r[x] : o \in Opts /\ r[x][o] \in Vals
  BY <1>1, <1>2 DEF Over
<1>4. QED BY <1>1, <1>2, <1>3 DEF OptionsFor, r

(* What was read from a playlist file keeps the fields in their types.     *)
LEMMA ListTyped ==
  ASSUME NEW t, Typed(t), NEW e \in Nodes, NEW x \in Nodes, NEW h \in Kids,
         NEW u, u = TreeOf(h, t.loop, t.rnd, Inherit(t.params, x, e), t.lists, t.played)
  PROVE  /\ Typed(u) /\ u.kids = h /\ u.lists = t.lists /\ u.rnd = t.rnd /\ u.loop = t.loop
            /\ u.played = t.played
         /\ \A n \in Nodes \ {x} : u.params[n] = t.params[n]
<1>1. OptionsFor(t.params)
  BY DEF Typed, OptionsFor
<1>2. OptionsFor(Inherit(t.params, x, e))
      /\ \A n \in Nodes \ {x} : Inherit(t.params, x, e)[n] = t.params[n]
  BY <1>1, InheritIs
<1>3. t.loop \in [Nodes -> Int] /\ t.played \in SUBSET Nodes
  BY TypedIs
<1>4. QED BY <1>2, <1>3, TypedFields

(* A tree with other children, or other flags of the shuffling.            *)
Altered(t, h, l, p) == TreeOf(h, l, t.rnd, t.params, t.lists, p)

IsAltered(t, h, l, p, u) ==
  /\ Typed(u) /\ u.kids = h /\ u.loop = l /\ u.rnd = t.rnd /\ u.params = t.params
  /\ u.lists = t.lists /\ u.played = p

(* Changed children, laps and flags keep the fields in their types.        *)
LEMMA TreeTyped ==
  ASSUME NEW t, Typed(t), NEW h \in Kids, NEW l \in [Nodes -> Int], NEW pl \in SUBSET Nodes, NEW u,
         u = Altered(t, h, l, pl)
  PROVE  IsAltered(t, h, l, pl, u)
<1>1. OptionsFor(t.params)
  BY DEF Typed, OptionsFor
<1>2. QED BY <1>1, TypedFields DEF Altered, IsAltered

(* The updates of the actions, as such a tree                              *)
LEMMA TreeFields ==
  ASSUME NEW t, Typed(t), NEW h, NEW l, NEW pl
  PROVE  /\ [t EXCEPT !.kids = h, !.played = pl] = Altered(t, h, t.loop, pl)
         /\ [t EXCEPT !.played = pl] = Altered(t, t.kids, t.loop, pl)
         /\ [t EXCEPT !.played = pl, !.loop = l] = Altered(t, t.kids, l, pl)
<1>1. t = [kids |-> t.kids, loop |-> t.loop, rnd |-> t.rnd, params |-> t.params, lists |-> t.lists, played |-> t.played]
  BY TypedIs
<1>2. PICK u : u = [t EXCEPT !.kids = h, !.played = pl]
  OBVIOUS
<1>3. u = TreeOf(h, t.loop, t.rnd, t.params, t.lists, pl)
  BY <1>1, <1>2 DEF TreeOf
<1>4. PICK v : v = [t EXCEPT !.played = pl]
  OBVIOUS
<1>5. v = TreeOf(t.kids, t.loop, t.rnd, t.params, t.lists, pl)
  BY <1>1, <1>4 DEF TreeOf
<1>6. PICK w : w = [t EXCEPT !.played = pl, !.loop = l]
  OBVIOUS
<1>7. w = TreeOf(t.kids, l, t.rnd, t.params, t.lists, pl)
  BY <1>1, <1>6 DEF TreeOf
<1>8. QED BY <1>2, <1>3, <1>4, <1>5, <1>6, <1>7, Zenon DEF Altered

Joining(t, k, e, g, x, i, at, r, h, u) ==
  /\ Well(t) /\ k = t.kids /\ e \in DOMAIN t.lists /\ g = Par(k, e) /\ g # NONE
  /\ x = t.lists[e] /\ x # NONE /\ Par(k, x) = NONE /\ i = Idx(k, e) /\ at = i + 1
  /\ r = InsertAt(k[g], at, x) /\ h = Regroup(k, g, r)
  /\ Typed(u) /\ u.lists = t.lists /\ u.rnd = t.rnd /\ u.kids = h

(* What a playlist file holds comes right after the file, and the playlist *)
(* is well.                                                                *)
LEMMA ListPutIn ==
  ASSUME NEW t, NEW k, NEW e, NEW g, NEW x, NEW i, NEW at, NEW r, NEW h, NEW u,
         Joining(t, k, e, g, x, i, at, r, h, u)
  PROVE  /\ Well(u) /\ x \in Nodes \ (Entries \cup {Root})
         /\ Par(h, x) = g /\ \A n : n # x => Par(h, n) = Par(k, n)
         /\ h[g] = r /\ Len(r) = Len(k[g]) + 1 /\ at \in DOMAIN r /\ r[at] = x /\ r[i] = e
            /\ Idx(h, e) = i
<1>0. /\ Well(t) /\ k = t.kids /\ e \in DOMAIN t.lists /\ g = Par(k, e) /\ g # NONE
      /\ x = t.lists[e] /\ x # NONE /\ Par(k, x) = NONE /\ i = Idx(k, e) /\ at = i + 1
      /\ r = InsertAt(k[g], at, x) /\ h = Regroup(k, g, r)
      /\ Typed(u) /\ u.lists = t.lists /\ u.rnd = t.rnd /\ u.kids = h
  BY DEF Joining
<1> USE <1>0
<1>1. k \in Kids /\ IsForest(k) /\ TopFirst(k) /\ e \in Entries /\ e \in Nodes
  BY WellTree, TreeAssumption DEF Well, Listed
<1>2. x \in Nodes \ (Entries \cup {Root}) /\ Lasting(t, x)
  BY DEF Well, Listed
<1>3. g \in Nodes \ Entries
  BY <1>1, Grouped
<1>4. k[g] \in Seq(Nodes) /\ i \in 1 .. Len(k[g]) /\ k[g][i] = e /\ Len(k[g]) \in Nat
  BY <1>1, <1>3, Sibling DEF Sibs, Kids
<1>6. /\ at \in 2 .. Len(k[g]) + 1 /\ at \in 1 .. Len(k[g]) + 1 /\ i \in 1 .. at - 1
  BY <1>4
<1>5. Inserted(k[g], at, x, r)
  <2>1. r = InsertAt(k[g], at, x) /\ x \in Nodes
    BY <1>2
  <2>2. k[g] \in Seq(Nodes) /\ i \in 1 .. Len(k[g]) /\ at = i + 1
    BY <1>4
  <2>3. QED BY <2>1, <2>2, InsertIs
<1>e. /\ r \in Seq(Nodes) /\ Len(r) = Len(k[g]) + 1 /\ r[at] = x /\ DOMAIN r = 1 .. Len(k[g]) + 1
      /\ \A j \in 1 .. at - 1 : r[j] = k[g][j]
  BY <1>4, <1>5 DEF Inserted
<1>7. /\ h \in Kids /\ IsForest(h) /\ Par(h, x) = g /\ \A n : n # x => Par(h, n) = Par(k, n)
      /\ Range(h[g]) = Range(k[g]) \cup {x} /\ \A m \in Nodes \ {g} : h[m] = k[m]
  <2>1. x \in Nodes \ {Root}
    BY <1>2
  <2>2. QED BY <1>1, <1>3, <1>5, <1>6, <2>1, PutIn
<1>8. h[g] = r
  BY <1>1, <1>3 DEF Kids, Regroup
<1>12. \A m \in Nodes : Range(k[m]) \subseteq Range(h[m])
  BY <1>7
<1>13. \A m \in Nodes : Lasting(t, m) => Lasting(u, m)
  BY <1>12 DEF Lasting, Unparsed
<1>14. Filled(u)
  <2>1. ASSUME NEW m \in Nodes, NEW n \in Range(h[m]) PROVE n \in Entries \/ Lasting(u, n)
    <3>1. CASE n \in Range(k[m])
      <4>1. n \in Nodes
        BY <1>1, <3>1 DEF Range, Kids
      <4>2. QED BY <1>13, <3>1, <4>1 DEF Well, Filled
    <3>2. CASE n \notin Range(k[m])
      BY <1>2, <1>7, <1>13, <3>2
    <3>3. QED BY <3>1, <3>2
  <2>2. h[Root] # <<>>
    <3>1. k[Root] # <<>> /\ Root \in Nodes
      BY TreeAssumption DEF Well, Filled
    <3>2. r # <<>>
      BY <1>4, <1>e
    <3>3. QED BY <1>7, <1>8, <3>1, <3>2
  <2>3. QED BY <2>1, <2>2 DEF Filled
<1>15. Listed(u)
  BY <1>13 DEF Well, Listed
<1>16. Founded(u)
  <2>1. ASSUME NEW m \in Nodes, NEW n, Inside(u, n, m) PROVE Inside(t, n, m)
    <3>1. PICK c \in Range(h[m]) : n = c \/ (c \in DOMAIN t.lists /\ n = t.lists[c])
      BY <2>1 DEF Inside
    <3>2. CASE c \in Range(k[m])
      BY <3>1, <3>2 DEF Inside
    <3>3. CASE c \notin Range(k[m])
      <4>1. m = g /\ c = x
        BY <1>7, <3>1, <3>3
      <4>2. c \notin DOMAIN t.lists
        BY <1>2, <4>1 DEF Well, Listed
      <4>3. e \in Range(k[g])
        BY <1>1, <1>3, ParIs, TreeAssumption
      <4>4. QED BY <3>1, <4>1, <4>2, <4>3 DEF Inside
    <3>4. QED BY <3>2, <3>3
  <2>2. QED BY <2>1, FoundedLess DEF Well
<1>17. Well(u)
  BY <1>7, <1>14, <1>15, <1>16 DEF Well
<1>18. Idx(h, e) = i
  <2>1. Par(h, e) = g /\ g # NONE /\ h[g][i] = e /\ i \in DOMAIN h[g] /\ Sibs(h, e) = h[g]
    BY <1>1, <1>2, <1>4, <1>6, <1>7, <1>8, <1>e DEF Sibs
  <2>2. \A j \in DOMAIN h[g] : h[g][j] = e => j = i
    BY <2>1, <1>3, <1>7 DEF IsForest
  <2>3. QED BY <2>1, <2>2 DEF Idx
<1>19. QED BY <1>2, <1>4, <1>6, <1>7, <1>8, <1>17, <1>18, <1>e

(* What is known of the playlist files does not depend on the places.      *)
LEMMA ListedLess ==
  ASSUME NEW t, Listed(t), NEW u, u.lists = t.lists, u.rnd = t.rnd,
         \A f \in DOMAIN t.lists : t.lists[f] # NONE => Lasting(u, t.lists[f])
  PROVE  Listed(u)
BY DEF Listed

(* Only the flags of the shuffling and the laps of the root change.        *)
LEMMA SameWell ==
  ASSUME NEW t, Well(t), NEW l \in [Nodes -> Int], NEW pl \in SUBSET Nodes, NEW u,
         u = Altered(t, t.kids, l, pl)
  PROVE  Well(u) /\ IsAltered(t, t.kids, l, pl, u)
<1>1. t.kids \in Kids /\ Typed(t)
  BY WellTree DEF Well
<1>0. IsAltered(t, t.kids, l, pl, u)
  BY <1>1, TreeTyped
<1>2. /\ Typed(u) /\ u.kids = t.kids /\ u.loop = l /\ u.rnd = t.rnd /\ u.params = t.params
      /\ u.lists = t.lists /\ u.played = pl
  BY <1>0 DEF IsAltered
<1>3. \A n, m : Inside(u, n, m) <=> Inside(t, n, m)
  BY <1>2 DEF Inside
<1>4. \A m : Lasting(u, m) <=> Lasting(t, m)
  BY <1>2 DEF Lasting, Unparsed
<1>5. Founded(u)
  BY <1>3, FoundedLess DEF Well
<1>6. Filled(u) /\ Listed(u) /\ IsForest(u.kids)
  BY <1>2, <1>4 DEF Well, Filled, Listed
<1>7. QED BY <1>0, <1>2, <1>5, <1>6 DEF Well

(* A playlist file leaves its group, and what it held is there already.    *)
Removal(t, k, e, g, i, h, p, u) ==
  /\ Well(t) /\ k = t.kids /\ e \in DOMAIN t.lists /\ g = Par(k, e) /\ i = Idx(k, e)
  /\ h = Cut(k, e) /\ p = t.played \ {e} /\ u = Altered(t, h, t.loop, p)
  /\ g # NONE /\ (g = Root \/ Par(k, g) # NONE) /\ Len(k[g]) > 1
  /\ t.lists[e] # NONE => i + 1 \in DOMAIN k[g] /\ k[g][i + 1] = t.lists[e]

(* Without the file the playlist is well: another child stays in its       *)
(* group.                                                                  *)
LEMMA RemovedWell ==
  ASSUME NEW t, NEW k, NEW e, NEW g, NEW i, NEW h, NEW p, NEW u, Removal(t, k, e, g, i, h, p, u)
  PROVE  /\ Well(u) /\ IsAltered(t, h, t.loop, p, u)
         /\ Par(h, e) = NONE /\ \A n : n # e => Par(h, n) = Par(k, n)
<1>0. /\ Well(t) /\ k = t.kids /\ e \in DOMAIN t.lists /\ g = Par(k, e) /\ i = Idx(k, e)
      /\ h = Cut(k, e) /\ p = t.played \ {e} /\ u = Altered(t, h, t.loop, p)
      /\ g # NONE /\ (g = Root \/ Par(k, g) # NONE) /\ Len(k[g]) > 1
      /\ t.lists[e] # NONE => i + 1 \in DOMAIN k[g] /\ k[g][i + 1] = t.lists[e]
  BY DEF Removal
<1> USE <1>0
<1>1. k \in Kids /\ IsForest(k) /\ TopFirst(k) /\ e \in Entries /\ e \in Nodes /\ Typed(t)
  BY WellTree, TreeAssumption DEF Well, Listed
<1>2. /\ h \in Kids /\ IsForest(h) /\ Par(h, e) = NONE /\ \A n : n # e => Par(h, n) = Par(k, n)
      /\ Range(h[g]) = Range(k[g]) \ {e} /\ \A m \in Nodes \ {g} : h[m] = k[m]
  <2>1. IsCut(k, e, h)
    BY <1>1, TakeOut
  <2>2. QED BY <2>1 DEF IsCut
<1>3. t.loop \in [Nodes -> Int] /\ p \in SUBSET Nodes
  BY <1>1, TypedIs
<1>a. IsAltered(t, h, t.loop, p, u)
  BY <1>1, <1>2, <1>3, TreeTyped
<1>4. /\ Typed(u) /\ u.kids = h /\ u.loop = t.loop /\ u.rnd = t.rnd /\ u.params = t.params
      /\ u.lists = t.lists /\ u.played = p
  BY <1>a DEF IsAltered
<1>g. g \in Nodes \ Entries
  BY <1>1, Grouped
<1>5. g \in Nodes \ Entries /\ k[g] \in Seq(Nodes) /\ DOMAIN k[g] = 1 .. Len(k[g])
      /\ Len(k[g]) \in Nat
  BY <1>1, <1>g DEF Kids
<1>6. \A m \in Nodes : Range(h[m]) \subseteq Range(k[m])
  BY <1>2, <1>5
<1>7. Founded(u)
  <2>1. ASSUME NEW m \in Nodes, NEW n, Inside(u, n, m) PROVE Inside(t, n, m)
    BY <1>4, <1>6, <2>1 DEF Inside
  <2>2. QED BY <2>1, FoundedLess DEF Well
<1>8. g # Root => Lasting(u, g)
  <2>1. SUFFICES ASSUME g # Root PROVE \E c \in Range(h[g]) : ~Unparsed(t, c)
    BY <1>4 DEF Lasting, Unparsed
  <2>2. Lasting(t, g)
    <3>1. g \in Range(k[Par(k, g)]) /\ Par(k, g) \in Nodes
      BY <1>1, <2>1, ParIs
    <3>2. QED BY <1>5, <3>1 DEF Well, Filled
  <2>3. CASE t.lists[e] = NONE
    BY <1>2, <2>2, <2>3 DEF Lasting, Unparsed
  <2>4. CASE t.lists[e] # NONE
    <3>1. t.lists[e] \in Range(k[g]) /\ t.lists[e] \notin Entries
      BY <2>4 DEF Well, Listed, Range
    <3>2. t.lists[e] \in Range(h[g])
      BY <1>1, <1>2, <3>1
    <3>3. t.lists[e] \notin DOMAIN t.lists
      BY <3>1 DEF Well, Listed
    <3>4. QED BY <3>2, <3>3 DEF Unparsed
  <2>5. QED BY <2>3, <2>4
<1>9. \A m \in Nodes \ {Root} : Lasting(t, m) => Lasting(u, m)
  <2>1. ASSUME NEW m \in Nodes \ {Root}, m # g, Lasting(t, m) PROVE Lasting(u, m)
    <3>1. u.kids[m] = t.kids[m] /\ u.lists = t.lists
      BY <1>2, <1>4, <2>1
    <3>2. QED BY <2>1, <3>1 DEF Lasting, Unparsed
  <2>2. QED BY <1>8, <2>1
<1>10. Filled(u)
  <2>1. \A m \in Nodes : \A n \in Range(h[m]) : n \in Nodes \ {Root}
        /\ (n \in Entries \/ Lasting(t, n))
    <3>1. ASSUME NEW m \in Nodes, NEW n \in Range(k[m])
          PROVE n \in Nodes \ {Root} /\ (n \in Entries \/ Lasting(t, n))
      <4>1. n \in Entries \/ Lasting(t, n)
        BY DEF Well, Filled
      <4>2. n \in Nodes
        BY <1>1 DEF Kids, Range
      <4>3. QED BY <1>1, <4>1, <4>2 DEF IsForest
    <3>2. QED BY <1>6, <3>1
  <2>2. h[Root] # <<>>
    <3>1. CASE g = Root
      <4>1. k[g][1] # k[g][2] /\ k[g][1] \in Range(k[g]) /\ k[g][2] \in Range(k[g])
        BY <1>1, <1>5 DEF IsForest, Range
      <4>2. \E n : n \in Range(h[g])
        BY <1>2, <4>1
      <4>3. QED BY <3>1, <4>2 DEF Range
    <3>2. CASE g # Root
      BY <1>2, <3>2, TreeAssumption DEF Well, Filled
    <3>3. QED BY <3>1, <3>2
  <2>3. QED BY <1>4, <1>9, <2>1, <2>2 DEF Filled
<1>11. Listed(u)
  <2>1. ASSUME NEW f \in DOMAIN t.lists, t.lists[f] # NONE PROVE Lasting(u, t.lists[f])
    <3>1. t.lists[f] \in Nodes \ {Root} /\ Lasting(t, t.lists[f])
      BY <2>1 DEF Well, Listed
    <3>2. QED BY <1>9, <3>1
  <2>2. Listed(t) /\ u.lists = t.lists /\ u.rnd = t.rnd
    BY <1>4 DEF Well
  <2>3. QED BY <2>1, <2>2, ListedLess
<1>12. QED BY <1>2, <1>a, <1>4, <1>7, <1>10, <1>11 DEF Well

(* An entry without files below it is added to the root.                   *)
LEMMA FoundedMore ==
  ASSUME NEW t, Well(t), NEW f \in Entries, NEW u,
         \A m \in Nodes : \A n : Inside(u, n, m) => Inside(t, n, m) \/ (m = Root /\ n = f),
         \A n : ~Inside(u, n, f)
  PROVE  Founded(u)
<1>0. Founded(t)
  BY DEF Well
<1>1. \A m \in Nodes : ~Inside(u, Root, m)
  <2>1. f # Root
    BY TreeAssumption
  <2>2. \A m \in Nodes : ~Inside(t, Root, m)
    <3>1. ASSUME NEW m \in Nodes, NEW c \in Range(t.kids[m])
          PROVE c # Root /\ (c \in DOMAIN t.lists => t.lists[c] # Root)
      <4>1. c # Root
        BY DEF Well, IsForest
      <4>2. Root # NONE
        BY TreeAssumption
      <4>3. QED BY <4>1, <4>2 DEF Well, Listed
    <3>2. QED BY <3>1 DEF Inside
  <2>3. QED BY <2>1, <2>2
<1>2. SUFFICES ASSUME NEW S \in (SUBSET Nodes) \ {{}}
      PROVE  (\E n \in S : \A m \in S : ~Inside(u, n, m))
             /\ (\E n \in S : \A m \in S : ~Inside(u, m, n))
  BY Zenon DEF Founded
<1>3. (\E n \in S : \A m \in S : ~Inside(t, n, m)) /\ (\E n \in S : \A m \in S : ~Inside(t, m, n))
  BY <1>0, Zenon DEF Founded
<1>4. \A m \in S : m \in Nodes
  OBVIOUS
<1>5. \E n \in S : \A m \in S : ~Inside(u, n, m)
  <2>1. CASE Root \in S
    BY <1>1, <1>4, <2>1
  <2>2. CASE Root \notin S
    BY <1>3, <1>4, <2>2
  <2>3. QED BY <2>1, <2>2
<1>6. \E n \in S : \A m \in S : ~Inside(u, m, n)
  <2>1. CASE f \in S
    BY <2>1
  <2>2. CASE f \notin S
    BY <1>3, <1>4, <2>2
  <2>3. QED BY <2>1, <2>2
<1>7. QED BY <1>5, <1>6

IsAdded(k, f, h) ==
  /\ h \in Kids /\ IsForest(h) /\ h[Root] # <<>> /\ f \in Range(h[Root]) /\ Par(h, f) = Root
  /\ Range(h[Root]) \subseteq Range(k[Root]) \cup {f} /\ \A m \in Nodes \ {Root} : h[m] = k[m]

(* With one more entry in the root the playlist is well.                   *)
LEMMA AddedWell ==
  ASSUME NEW t, Well(t), NEW f \in NewFiles, NEW h, IsAdded(t.kids, f, h), NEW p \in SUBSET Nodes,
         NEW u, u = Altered(t, h, t.loop, p)
  PROVE  Well(u) /\ IsAltered(t, h, t.loop, p, u)
<1> DEFINE k == t.kids
<1>1. k \in Kids /\ IsForest(k) /\ f \in Entries /\ f \in Nodes \ {Root} /\ Typed(t) /\ k[f] = <<>>
  BY WellTree, TreeAssumption DEF Well, IsForest
<1>2. /\ h \in Kids /\ IsForest(h) /\ h[Root] # <<>>
      /\ Range(h[Root]) \subseteq Range(k[Root]) \cup {f} /\ \A m \in Nodes \ {Root} : h[m] = k[m]
  BY DEF IsAdded
<1>3. t.loop \in [Nodes -> Int]
  BY <1>1, TypedIs
<1>a. IsAltered(t, h, t.loop, p, u)
  BY <1>1, <1>2, <1>3, TreeTyped
<1>4. Typed(u) /\ u.kids = h /\ u.lists = t.lists /\ u.rnd = t.rnd
  BY <1>a DEF IsAltered
<1>5. f \notin DOMAIN t.lists
  BY DEF Well, Listed
<1>6. Founded(u)
  <2>1. ASSUME NEW m \in Nodes, NEW n, Inside(u, n, m) PROVE Inside(t, n, m) \/ (m = Root /\ n = f)
    <3>1. PICK c \in Range(h[m]) : n = c \/ (c \in DOMAIN t.lists /\ n = t.lists[c])
      BY <1>4, <2>1 DEF Inside
    <3>2. c \in Range(k[m]) \/ (m = Root /\ c = f)
      BY <1>2, <3>1
    <3>3. QED BY <1>5, <3>1, <3>2 DEF Inside
  <2>2. ASSUME NEW n PROVE ~Inside(u, n, f)
    <3>1. h[f] = <<>>
      BY <1>1, <1>2
    <3>2. QED BY <1>4, <3>1 DEF Inside, Range
  <2>3. QED BY <1>1, <2>1, <2>2, FoundedMore
<1>7. \A m \in Nodes \ {Root} : Lasting(t, m) => Lasting(u, m)
  <2>1. ASSUME NEW m \in Nodes \ {Root}, Lasting(t, m) PROVE Lasting(u, m)
    <3>1. u.kids[m] = t.kids[m] /\ u.lists = t.lists
      BY <1>2, <1>4, <2>1
    <3>2. QED BY <2>1, <3>1 DEF Lasting, Unparsed
  <2>2. QED BY <2>1
<1>8. Filled(u)
  <2>1. ASSUME NEW m \in Nodes, NEW n \in Range(k[m])
        PROVE n \in Nodes \ {Root} /\ (n \in Entries \/ Lasting(t, n))
    <3>1. n \in Entries \/ Lasting(t, n)
      BY DEF Well, Filled
    <3>2. n \in Nodes
      BY <1>1 DEF Kids, Range
    <3>3. QED BY <1>1, <3>1, <3>2 DEF IsForest
  <2>2. ASSUME NEW m \in Nodes, NEW n \in Range(h[m]) PROVE n \in Entries \/ Lasting(u, n)
    <3>1. n \in Range(k[m]) \/ n = f
      BY <1>2
    <3>2. QED BY <1>1, <1>7, <2>1, <3>1
  <2>3. QED BY <1>2, <1>4, <2>2 DEF Filled
<1>9. Listed(u)
  <2>1. ASSUME NEW e \in DOMAIN t.lists, t.lists[e] # NONE PROVE Lasting(u, t.lists[e])
    <3>1. t.lists[e] \in Nodes \ {Root} /\ Lasting(t, t.lists[e])
      BY <2>1 DEF Well, Listed
    <3>2. QED BY <1>7, <3>1
  <2>2. Listed(t) /\ u.lists = t.lists /\ u.rnd = t.rnd
    BY <1>4 DEF Well
  <2>3. QED BY <2>1, <2>2, ListedLess
<1>10. QED BY <1>2, <1>4, <1>6, <1>8, <1>9, <1>a DEF Well

(* loadfile: the file is all of the playlist.                              *)
LEMMA AloneAdds ==
  ASSUME NEW t, Well(t), NEW f \in NewFiles, Par(t.kids, f) = NONE, NEW h,
         h = Regroup(t.kids, Root, <<f>>)
  PROVE  /\ IsAdded(t.kids, f, h) /\ h[Root] = <<f>>
         /\ \A n : n # f => Par(h, n) = IF Par(t.kids, n) = Root THEN NONE ELSE Par(t.kids, n)
<1>1. t.kids \in Kids /\ IsForest(t.kids) /\ f \in Nodes \ {Root}
  BY WellTree, TreeAssumption
<1>2. /\ h \in Kids /\ IsForest(h) /\ h[Root] = <<f>>
      /\ Par(h, f) = Root /\ \A n : n # f
           => Par(h, n) = IF Par(t.kids, n) = Root THEN NONE ELSE Par(t.kids, n)
      /\ \A m \in Nodes \ {Root} : h[m] = t.kids[m]
  BY <1>1, PutAlone
<1>3. Range(h[Root]) = {f} /\ h[Root] # <<>>
  <2>1. DOMAIN <<f>> = {1} /\ <<f>>[1] = f /\ <<f>> # <<>>
    OBVIOUS
  <2>2. QED BY <1>2, <2>1 DEF Range
<1>4. QED BY <1>2, <1>3 DEF IsAdded

(* loadfile with append                                                    *)
LEMMA AppendAdds ==
  ASSUME NEW t, Well(t), NEW f \in NewFiles, Par(t.kids, f) = NONE,
         NEW h, h = Regroup(t.kids, Root, Append(t.kids[Root], f))
  PROVE  /\ IsAdded(t.kids, f, h) /\ \A n : n # f => Par(h, n) = Par(t.kids, n)
         /\ Range(t.kids[Root]) \subseteq Range(h[Root])
<1> DEFINE k == t.kids
           s == k[Root]
           r == Append(s, f)
<1>1. k \in Kids /\ IsForest(k) /\ f \in Nodes \ {Root} /\ Root \in Nodes \ Entries
  BY WellTree, TreeAssumption
<1>2. s \in Seq(Nodes) /\ Len(s) \in Nat
  BY <1>1 DEF Kids
<1> HIDE DEF s
<1>3. PICK at : at = Len(s) + 1
  OBVIOUS
<1>4. /\ r \in Seq(Nodes) /\ Len(r) = Len(s) + 1 /\ r[at] = f /\ at \in 1 .. Len(s) + 1
         /\ DOMAIN r = 1 .. Len(s) + 1
      /\ \A j \in 1 .. at - 1 : r[j] = s[j]
      /\ \A j \in at + 1 .. Len(s) + 1 : r[j] = s[j - 1]
  BY <1>1, <1>2, <1>3
<1>5. Inserted(k[Root], at, f, r) /\ at \in 1 .. Len(k[Root]) + 1
  BY <1>4 DEF Inserted, s
<1>6. h = Regroup(k, Root, r)
  BY DEF s
<1> HIDE DEF r, k
<1>7. /\ h \in Kids /\ IsForest(h)
      /\ Par(h, f) = Root /\ \A n : n # f => Par(h, n) = Par(k, n)
      /\ Range(h[Root]) = Range(k[Root]) \cup {f} /\ \A m \in Nodes \ {Root} : h[m] = k[m]
  <2>1. Par(k, f) = NONE
    BY DEF k
  <2>2. QED BY <1>1, <1>5, <1>6, <2>1, PutIn
<1>8. f \in Range(h[Root]) /\ h[Root] # <<>>
  BY <1>7 DEF Range
<1>9. QED BY <1>7, <1>8 DEF IsAdded, k

-----------------------------------------------------------------------------

(* The operators of the model are those of the children.                   *)
LEMMA Names ==
  /\ \A n : Parent(n) = Par(tree.kids, n)
  /\ Path = Way(tree.kids)
  /\ \A n : Siblings(n) = Sibs(tree.kids, n) /\ Index(n) = Idx(tree.kids, n)
<1>1. \A n : Parent(n) = Par(tree.kids, n)
  BY Zenon DEF Parent, Par
<1>2. Path = Way(tree.kids)
  BY <1>1, Zenon DEF Path, Way
<1>3. \A n : Siblings(n) = Sibs(tree.kids, n)
  BY <1>1, Zenon DEF Siblings, Sibs
<1>4. \A n : Index(n) = Idx(tree.kids, n)
  BY <1>3, Zenon DEF Index, Idx
<1>5. QED BY <1>1, <1>2, <1>3, <1>4

(* The option stack: a push puts the values on top, a pop takes them back. *)
OptionSet(p) == \A o \in DOMAIN p : o \in Opts /\ p[o] \in Vals

(* A slot is set to a value.                                               *)
ASlot        == [lvl : Nat, val : Vals]
Put(s, k, v) == [s EXCEPT ![k].val = v]

LEMMA PutIs ==
  ASSUME NEW s \in Seq(ASlot), NEW k \in 1 .. Len(s), NEW v \in Vals
  PROVE  /\ Put(s, k, v) \in Seq(ASlot) /\ Len(Put(s, k, v)) = Len(s) /\ Put(s, k, v)[k].val = v
         /\ \A i \in 1 .. Len(s) :
              Put(s, k, v)[i].lvl = s[i].lvl /\ (i # k => Put(s, k, v)[i] = s[i])
<1>1. Len(s) \in Nat /\ s[k] \in ASlot
  BY ElementOfSeq
<1>2. PICK y : y = [s[k] EXCEPT !.val = v]
  OBVIOUS
<1>3. y \in ASlot /\ y.val = v /\ y.lvl = s[k].lvl
  BY <1>1, <1>2 DEF ASlot
<1>4. PICK q : q = [s EXCEPT ![k] = y]
  OBVIOUS
<1>5. Put(s, k, v) = q
  BY <1>2, <1>4 DEF Put
<1>6. q \in Seq(ASlot) /\ Len(q) = Len(s) /\ q[k] = y /\ \A i \in 1 .. Len(s) : i # k => q[i] = s[i]
  BY <1>3, <1>4, ExceptSeq
<1>7. \A i \in 1 .. Len(s) : q[i].lvl = s[i].lvl
  BY <1>3, <1>6
<1>8. QED BY <1>3, <1>5, <1>6, <1>7

(* m_config_push keeps what is below and saves the values; an alias then   *)
(* writes over the slot of level 1.                                        *)
LEMMA PushIs ==
  ASSUME Slotted, NEW p, OptionSet(p), Push(p)
  PROVE  /\ Slotted' /\ lvl' = lvl + 1 /\ base' = IF lvl = 1 THEN value ELSE base
         /\ \A o \in Saved :
              /\ value'[o] = IF o \in DOMAIN p THEN p[o] ELSE value[o]
              /\ Kept(o, lvl - 1) => slots'[o][lvl + 1].val = value[o]
              /\ \A i \in 1 .. lvl : Kept(o, i - 2) => slots'[o][i] = slots[o][i]
<1> DEFINE new(o) == IF o \in DOMAIN p THEN p[o] ELSE value[o]
<1>1. lvl \in Nat \ {0} /\ \A o \in Opts : value[o] \in Vals /\ new(o) \in Vals
  BY DEF Slotted, OptionSet
<1>2. /\ lvl' = lvl + 1 /\ value' = [o \in Opts |-> new(o)] /\ base' = IF lvl = 1 THEN value ELSE base
      /\ slots' = [o \in Opts |->
           IF o \in DOMAIN p
           THEN Put(IF o \in Saved THEN OnTop(o) ELSE slots[o], Written(o), p[o])
           ELSE IF o \in Saved THEN OnTop(o) ELSE slots[o]]
  BY Zenon DEF Push, Put
<1>3. \A o \in Opts : slots[o] \in Seq(ASlot) /\ Len(slots[o]) = (IF o \in Saved THEN lvl + 1 ELSE 2)
  BY DEF Slotted, ASlot
<1>4. ASSUME NEW o \in Saved, NEW t, t = OnTop(o)
      PROVE  /\ t \in Seq(ASlot) /\ Len(t) = (lvl + 1) + 1
             /\ t[lvl + 1].val = value[o]
             /\ \A i \in 1 .. lvl : t[i] = slots[o][i]
             /\ \A i \in 1 .. (lvl + 1) + 1 : t[i].lvl = i - 1
  <2>1. /\ o \in Opts /\ slots[o] \in Seq(ASlot) /\ Len(slots[o]) = lvl + 1 /\ value[o] \in Vals
        /\ \A i \in 1 .. lvl + 1 : slots[o][i].lvl = i - 1
    BY <1>1, <1>3 DEF Saved, Slotted
  <2>2. PICK s, k, v : s = slots[o] /\ k = Len(s) /\ v = value[o]
    OBVIOUS
  <2>3. PICK q : q = Put(s, k, v)
    OBVIOUS
  <2>4. /\ q \in Seq(ASlot) /\ Len(q) = Len(s) /\ q[k].val = v
        /\ \A i \in 1 .. Len(s) : q[i].lvl = s[i].lvl /\ (i # k => q[i] = s[i])
    <3>1. s \in Seq(ASlot) /\ k \in 1 .. Len(s) /\ v \in Vals
      BY <1>1, <2>1, <2>2
    <3>2. QED BY <2>3, <3>1, PutIs
  <2>5. PICK y : y = Slot(lvl + 1, v)
    OBVIOUS
  <2>6. y \in ASlot /\ y.lvl = lvl + 1
    BY <1>1, <2>1, <2>2, <2>5 DEF Slot, ASlot
  <2>7. t = Append(q, y)
    BY <1>4, <2>2, <2>3, <2>5 DEF OnTop, Top, Put
  <2>8. /\ t \in Seq(ASlot) /\ Len(t) = (lvl + 1) + 1 /\ t[(lvl + 1) + 1] = y
        /\ \A i \in 1 .. lvl + 1 : t[i] = q[i]
    BY <1>1, <2>1, <2>2, <2>4, <2>6, <2>7
  <2>9. /\ lvl + 1 \in 1 .. lvl + 1 /\ ((lvl + 1) + 1) - 1 = lvl + 1
        /\ \A i \in 1 .. lvl : i \in 1 .. lvl + 1 /\ i # lvl + 1
        /\ \A i \in 1 .. (lvl + 1) + 1 : i \in 1 .. lvl + 1 \/ i = (lvl + 1) + 1
    BY <1>1
  <2>10. QED BY <2>1, <2>2, <2>4, <2>6, <2>8, <2>9
<1>5. ASSUME NEW o \in Saved
      PROVE  /\ slots'[o] \in Seq(ASlot) /\ Len(slots'[o]) = (lvl + 1) + 1
             /\ Kept(o, lvl - 1) => slots'[o][lvl + 1].val = value[o]
             /\ \A i \in 1 .. lvl : Kept(o, i - 2) => slots'[o][i] = slots[o][i]
             /\ \A i \in 1 .. (lvl + 1) + 1 : slots'[o][i].lvl = i - 1
  <2>1. PICK t : t = OnTop(o)
    OBVIOUS
  <2>2. /\ t \in Seq(ASlot) /\ Len(t) = (lvl + 1) + 1
        /\ t[lvl + 1].val = value[o]
        /\ \A i \in 1 .. lvl : t[i] = slots[o][i]
        /\ \A i \in 1 .. (lvl + 1) + 1 : t[i].lvl = i - 1
    BY <1>4, <2>1
  <2>3. o \in Opts
    BY DEF Saved
  <2>4. CASE o \notin DOMAIN p
    <3>1. slots'[o] = t
      BY <1>2, <2>1, <2>3, <2>4
    <3>2. QED BY <2>2, <3>1
  <2>5. CASE o \in DOMAIN p
    <3>1. PICK q, k, v : k = Written(o) /\ v = p[o] /\ q = Put(t, k, v)
      OBVIOUS
    <3>2. slots'[o] = q
      BY <1>2, <2>1, <2>3, <2>5, <3>1
    <3>3. k \in 1 .. Len(t) /\ v \in Vals /\ k = IF o \in Aliased THEN 2 ELSE lvl + 2
      BY <1>1, <2>2, <2>5, <3>1 DEF Written, OptionSet
    <3>4. /\ q \in Seq(ASlot) /\ Len(q) = Len(t)
          /\ \A i \in 1 .. Len(t) : q[i].lvl = t[i].lvl /\ (i # k => q[i] = t[i])
      BY <2>2, <3>1, <3>3, PutIs
    <3>5. /\ lvl + 1 \in 1 .. Len(t) /\ \A i \in 1 .. lvl : i \in 1 .. Len(t)
          /\ Kept(o, lvl - 1) => lvl + 1 # k
          /\ \A i \in 1 .. lvl : Kept(o, i - 2) => i # k
      BY <1>1, <2>2, <3>3 DEF Kept
    <3>6. QED BY <2>2, <3>2, <3>4, <3>5
  <2>6. QED BY <2>4, <2>5
<1>6. ASSUME NEW o \in Opts \ Saved PROVE slots'[o] \in Seq(ASlot) /\ Len(slots'[o]) = 2
  <2>1. slots[o] \in Seq(ASlot) /\ Len(slots[o]) = 2
    BY <1>3
  <2>2. CASE o \in DOMAIN p
    <3>1. PICK s, q, k, v : s = slots[o] /\ k = Written(o) /\ v = p[o] /\ q = Put(s, k, v)
      OBVIOUS
    <3>2. slots'[o] = q
      BY <1>2, <2>2, <3>1
    <3>3. s \in Seq(ASlot) /\ k \in 1 .. Len(s) /\ v \in Vals
      <4>1. o \notin Saved /\ v \in Vals
        BY <1>6, <2>2, <3>1 DEF OptionSet
      <4>2. k = 2
        BY <3>1, <4>1 DEF Written
      <4>3. s \in Seq(ASlot) /\ 1 .. Len(s) = 1 .. 2
        BY <2>1, <3>1
      <4>4. 2 \in 1 .. 2
        OBVIOUS
      <4>5. QED BY <4>1, <4>2, <4>3, <4>4
    <3>4. q \in Seq(ASlot) /\ Len(q) = Len(s)
      BY <3>1, <3>3, PutIs
    <3>5. QED BY <2>1, <3>1, <3>2, <3>4
  <2>3. CASE o \notin DOMAIN p
    BY <1>2, <2>1, <2>3
  <2>4. QED BY <2>2, <2>3
<1>7. Slotted'
  <2>1. lvl' \in Nat \ {0} /\ value' \in [Opts -> Vals]
    BY <1>1, <1>2
  <2>2. Saved \subseteq Opts
    BY DEF Saved
  <2>3. DOMAIN slots' = Opts /\ slots' = [o \in Opts |-> slots'[o]]
    BY <1>2
  <2>4. slots' \in [Opts -> Seq(ASlot)]
    BY <1>5, <1>6, <2>3
  <2>5. QED BY <1>2, <1>5, <1>6, <2>1, <2>2, <2>4 DEF Slotted, ASlot
<1>8. \A o \in Saved : value'[o] = new(o)
  BY <1>2 DEF Saved
<1>9. QED BY <1>2, <1>5, <1>7, <1>8

(* m_config_pop takes back what was saved by the last push.                *)
LEMMA PopIs ==
  ASSUME Slotted, lvl >= 2, Pop
  PROVE  /\ Slotted' /\ lvl' = lvl - 1 /\ base' = base
         /\ \A o \in Saved : value'[o] = slots[o][lvl].val
            /\ \A i \in 1 .. lvl : slots'[o][i] = slots[o][i]
<1> DEFINE R == [lvl : Nat, val : Vals]
<1>1. lvl \in Nat \ {0} /\ \A o \in Opts : value[o] \in Vals
  BY DEF Slotted
<1> HIDE DEF R
<1>2. /\ lvl' = lvl - 1 /\ base' = base
      /\ slots' = [o \in Opts |-> IF o \in Saved THEN Below(o) ELSE slots[o]]
      /\ value' = [o \in Opts |-> IF o \in Saved /\ Below(o) # slots[o] THEN Last(Below(o)).val ELSE value[o]]
  BY Zenon DEF Pop
<1>3. \A o \in Opts : slots[o] \in Seq(R) /\ Len(slots[o]) = (IF o \in Saved THEN lvl + 1 ELSE 2)
  BY DEF Slotted, R
<1>4. ASSUME NEW o \in Saved
      PROVE  /\ Below(o) \in Seq(R) /\ Len(Below(o)) = lvl
                /\ \A i \in 1 .. lvl : Below(o)[i] = slots[o][i]
             /\ Below(o) # slots[o] /\ Last(Below(o)) = slots[o][lvl] /\ slots[o][lvl] \in R
             /\ \A i \in 1 .. lvl : Below(o)[i].lvl = i - 1
  <2>1. /\ o \in Opts /\ slots[o] \in Seq(R) /\ Len(slots[o]) = lvl + 1
           /\ DOMAIN slots[o] = 1 .. lvl + 1
        /\ \A i \in 1 .. lvl + 1 : slots[o][i].lvl = i - 1
    <3>1. o \in Opts
      BY DEF Saved
    <3>2. slots[o] \in Seq(R) /\ Len(slots[o]) = lvl + 1
      BY <1>3, <3>1
    <3>3. \A i \in 1 .. lvl + 1 : slots[o][i].lvl = i - 1
      BY DEF Slotted
    <3>4. QED BY <3>1, <3>2, <3>3
  <2>2. \A i \in 1 .. lvl + 1 : Freed(o, i) <=> i = lvl + 1
    BY <1>1, <2>1 DEF Freed
  <2>3. lvl \in DOMAIN slots[o] /\ ~Freed(o, lvl) /\ \A j \in DOMAIN slots[o] : j > lvl
          => Freed(o, j)
    BY <1>1, <2>1, <2>2
  <2>4. ASSUME NEW i \in DOMAIN slots[o], ~Freed(o, i), \A j \in DOMAIN slots[o] : j > i
                 => Freed(o, j)
        PROVE  i = lvl
    <3>1. lvl > i => Freed(o, lvl)
      BY <2>3, <2>4
    <3>2. i \in 1 .. lvl + 1 /\ i # lvl + 1 /\ ~(lvl > i)
      BY <2>1, <2>2, <2>3, <2>4, <3>1
    <3>3. QED BY <1>1, <3>2
  <2>5. Below(o) = SubSeq(slots[o], 1, lvl)
    BY <2>3, <2>4 DEF Below
  <2>6. PICK s : s = slots[o]
    OBVIOUS
  <2>7. PICK q : q = SubSeq(s, 1, lvl)
    OBVIOUS
  <2>8. q \in Seq(R) /\ Len(q) = lvl /\ (\A i \in 1 .. lvl : q[i] = s[i]) /\ s[lvl] \in R
    <3>1. s \in Seq(R) /\ Len(s) = lvl + 1 /\ lvl \in 0 .. Len(s) /\ lvl \in 1 .. Len(s)
      BY <1>1, <2>1, <2>6
    <3>2. q \in Seq(R) /\ Len(q) = lvl /\ \A i \in 1 .. lvl : q[i] = s[i]
      BY <3>1, <2>7, PartsAre
    <3>3. s[lvl] \in R
      BY <3>1, ElementOfSeq
    <3>4. QED BY <3>2, <3>3
  <2>9. Last(q) = s[lvl] /\ q # s
    BY <1>1, <2>1, <2>6, <2>8 DEF Last
  <2>10. \A i \in 1 .. lvl : i \in 1 .. lvl + 1
    BY <1>1
  <2>11. QED BY <2>1, <2>5, <2>6, <2>7, <2>8, <2>9, <2>10
<1>5. Saved \subseteq Opts
  BY DEF Saved
<1>6. ASSUME NEW o \in Saved
      PROVE slots'[o] = Below(o) /\ value'[o] = slots[o][lvl].val /\ value'[o] \in Vals
  <2>1. slots'[o] = Below(o) /\ value'[o] = Last(Below(o)).val
    BY <1>2, <1>4, <1>5
  <2>2. slots[o][lvl].val \in Vals
    BY <1>4 DEF R
  <2>3. QED BY <1>4, <2>1, <2>2
<1>7. \A o \in Opts \ Saved : slots'[o] = slots[o] /\ value'[o] = value[o]
  BY <1>2
<1>8. Slotted'
  <2>1. lvl' \in Nat \ {0} /\ (lvl - 1) + 1 = lvl
    BY <1>1, <1>2
  <2>2. DOMAIN slots' = Opts /\ slots' = [o \in Opts |-> slots'[o]] /\ DOMAIN value' = Opts
        /\ value' = [o \in Opts |-> value'[o]]
    BY <1>2
  <2>3. \A o \in Opts : slots'[o] \in Seq(R) /\ Len(slots'[o]) = (IF o \in Saved THEN lvl ELSE 2)
        /\ value'[o] \in Vals
    <3>1. ASSUME NEW o \in Saved
          PROVE slots'[o] \in Seq(R) /\ Len(slots'[o]) = lvl /\ value'[o] \in Vals
      BY <1>4, <1>6
    <3>2. ASSUME NEW o \in Opts \ Saved
          PROVE slots'[o] \in Seq(R) /\ Len(slots'[o]) = 2 /\ value'[o] \in Vals
      BY <1>1, <1>3, <1>7
    <3>3. QED BY <3>1, <3>2
  <2>4. slots' \in [Opts -> Seq(R)] /\ value' \in [Opts -> Vals]
    BY <2>2, <2>3
  <2>5. \A o \in Saved : \A i \in 1 .. lvl : slots'[o][i].lvl = i - 1
    BY <1>4, <1>6
  <2>6. QED BY <1>2, <2>1, <2>3, <2>4, <2>5 DEF Slotted, R
<1>9. QED BY <1>2, <1>4, <1>6, <1>8

(* Setting an option changes no slot.                                      *)
LEMMA AssignIs ==
  ASSUME Slotted, NEW o \in Opts, NEW v \in Vals, Assign(o, v)
  PROVE  Slotted' /\ UNCHANGED <<lvl, slots, base>> /\ value' = [value EXCEPT ![o] = v]
<1>1. value' = [value EXCEPT ![o] = v] /\ lvl' = lvl /\ slots' = slots /\ base' = base
  BY DEF Assign
<1>2. value' \in [Opts -> Vals]
  BY <1>1 DEF Slotted
<1>3. QED BY <1>1, <1>2 DEF Slotted

(* A set of numbers has a least one,                                       *)
LEMMA Least == ASSUME NEW S \in (SUBSET Nat) \ {{}} PROVE \E x \in S : \A y \in S : x <= y
<1>1. PICK R : R = OpToRel(<, Nat)
  OBVIOUS
<1>2. IsWellFoundedOn(R, Nat)
  BY <1>1, NatLessThanWellFounded
<1>3. PICK x \in S : \A y \in S : ~(<<y, x>> \in R)
  BY <1>2, WFMin
<1>4. \A i, j \in Nat : j < i => <<j, i>> \in R
  BY <1>1 DEF OpToRel
<1>5. ASSUME NEW y \in S PROVE x <= y
  <2>1. ~(y < x) /\ x \in Nat /\ y \in Nat
    BY <1>3, <1>4
  <2>2. QED BY <2>1
<1>6. QED BY <1>3, <1>5

(* and a bounded one has a greatest.                                       *)
LEMMA Greatest ==
  ASSUME NEW n \in Nat, NEW S \in (SUBSET (1 .. n)) \ {{}}
  PROVE  Max(S) \in S /\ \A y \in S : y <= Max(S)
<1> DEFINE T == {n - x : x \in S}
<1>1. T \in (SUBSET Nat) \ {{}}
  OBVIOUS
<1>2. PICK l \in T : \A y \in T : l <= y
  BY <1>1, Least
<1>3. PICK m \in S : l = n - m
  OBVIOUS
<1>4. \A y \in S : m >= y
  <2>1. ASSUME NEW y \in S PROVE m >= y
    <3>1. n - y \in T
      OBVIOUS
    <3>2. n - m <= n - y
      BY <1>2, <1>3, <3>1
    <3>3. QED BY <3>2
  <2>2. QED BY <2>1
<1>5. QED BY <1>4 DEF Max

(* The options of a place: those of the node, and else of the group.       *)
Alike(t, p, u, q, i) == \A j \in 1 .. i : t.params[p[j]] = u.params[q[j]]

(* The options of a place depend on the nodes of its path only.            *)
LEMMA OptSame ==
  ASSUME NEW d, NEW t, NEW u, NEW p, NEW q, NEW i \in Nat, NEW o, Alike(t, p, u, q, i)
  PROVE  OptAt(d, t, p, i, o) = OptAt(d, u, q, i, o)
<1> DEFINE g == {j \in 1 .. i : o \in DOMAIN t.params[p[j]]}
           h == {j \in 1 .. i : o \in DOMAIN u.params[q[j]]}
<1>1. g = h
  BY DEF Alike
<1>2. CASE g = {}
  BY <1>1, <1>2, Zenon DEF OptAt
<1>3. CASE g # {}
  <2>1. g \in (SUBSET (1 .. i)) \ {{}}
    BY <1>3
  <2>2. Max(g) \in 1 .. i
    <3> HIDE DEF g
    <3>1. QED BY <2>1, Greatest
  <2>3. t.params[p[Max(g)]] = u.params[q[Max(g)]]
    <3> HIDE DEF g
    <3>1. QED BY <2>2 DEF Alike
  <2>4. OptAt(d, t, p, i, o) = t.params[p[Max(g)]][o]
    BY <1>3, Zenon DEF OptAt
  <2>5. OptAt(d, u, q, i, o) = u.params[q[Max(h)]][o]
    BY <1>1, <1>3, Zenon DEF OptAt
  <2> HIDE DEF g, h
  <2>6. QED BY <1>1, <2>3, <2>4, <2>5
<1>4. QED BY <1>2, <1>3

(* One node further down its options come before those above.              *)
LEMMA OptNext ==
  ASSUME NEW d, NEW t, NEW p, NEW i \in Nat, NEW o
  PROVE  OptAt(d, t, p, i + 1, o) = IF o \in DOMAIN t.params[p[i + 1]] THEN t.params[p[i + 1]][o] ELSE OptAt(d, t, p, i, o)
<1> DEFINE g == {j \in 1 .. i : o \in DOMAIN t.params[p[j]]}
           h == {j \in 1 .. i + 1 : o \in DOMAIN t.params[p[j]]}
<1>1. CASE o \in DOMAIN t.params[p[i + 1]]
  <2>1. i + 1 \in h /\ h \in (SUBSET (1 .. i + 1)) \ {{}} /\ i + 1 \in Nat
    BY <1>1
  <2>2. Max(h) \in 1 .. i + 1 /\ i + 1 <= Max(h)
    <3> HIDE DEF h
    <3>1. QED BY <2>1, Greatest
  <2>3. Max(h) = i + 1
    <3> HIDE DEF h
    <3>1. PICK m : m = Max(h)
      OBVIOUS
    <3>2. m \in 1 .. i + 1 /\ i + 1 <= m
      BY <2>2, <3>1
    <3>3. m = i + 1
      BY <3>2
    <3>4. QED BY <3>1, <3>3
  <2>4. h # {}
    BY <2>1
  <2>5. OptAt(d, t, p, i + 1, o) = t.params[p[Max(h)]][o]
    BY <2>4, Zenon DEF OptAt
  <2> HIDE DEF h
  <2>6. QED BY <1>1, <2>3, <2>5
<1>2. CASE o \notin DOMAIN t.params[p[i + 1]]
  <2>1. g = h
    <3>1. \A j \in 1 .. i + 1 : j \in 1 .. i \/ j = i + 1
      OBVIOUS
    <3>2. \A j \in 1 .. i : j \in 1 .. i + 1
      OBVIOUS
    <3>3. QED BY <1>2, <3>1, <3>2
  <2>2. OptAt(d, t, p, i, o) = IF g = {} THEN d ELSE t.params[p[Max(g)]][o]
    BY Zenon DEF OptAt
  <2>3. OptAt(d, t, p, i + 1, o) = IF h = {} THEN d ELSE t.params[p[Max(h)]][o]
    BY Zenon DEF OptAt
  <2> HIDE DEF g, h
  <2>4. QED BY <1>2, <2>1, <2>2, <2>3
<1>3. QED BY <1>1, <1>2

(* Above the root there is what is outside.                                *)
LEMMA OptNone ==
  ASSUME NEW d, NEW t, NEW p, NEW o
  PROVE  OptAt(d, t, p, 0, o) = d
BY DEF OptAt

-----------------------------------------------------------------------------
(* What the actions see of a tree that is well.                            *)
LEMMA TreeFacts ==
  ASSUME Well(tree)
  PROVE  /\ tree.kids \in Kids /\ IsForest(tree.kids) /\ TopFirst(tree.kids) /\ Typed(tree)
         /\ tree.loop \in [Nodes -> Int] /\ tree.rnd \subseteq Nodes /\ tree.played \subseteq Nodes
         /\ \A n \in Nodes : OptionSet(tree.params[n])
         /\ \A g \in Nodes : tree.kids[g] \in Seq(Nodes)
            /\ (tree.kids[g] # <<>> => g \notin Entries)
<1>1. tree.kids \in Kids /\ IsForest(tree.kids) /\ TopFirst(tree.kids) /\ Typed(tree)
  BY WellTree DEF Well
<1>2. \A n \in Nodes : OptionSet(tree.params[n])
  BY <1>1 DEF Typed, OptionSet
<1>3. \A g \in Nodes : tree.kids[g] \in Seq(Nodes) /\ (tree.kids[g] # <<>> => g \notin Entries)
  BY <1>1 DEF Kids, IsForest
<1>4. QED BY <1>1, <1>2, <1>3, TypedIs

(* A node with files below is valid, and it is entered unless it is an     *)
(* entry.                                                                  *)
LEMMA Enterable ==
  ASSUME Well(tree), NEW n \in Nodes, n \in Entries \/ tree.kids[n] # <<>>
  PROVE  Valid(n) /\ (Enters(n) <=> n \notin Entries) /\ (n \notin Entries <=> tree.kids[n] # <<>>)
<1>1. \A m \in Nodes : m \in Entries \/ tree.kids[m] # <<>> => Valid(m)
  BY FilledIsValid, Names DEF Valid
<1>2. tree.kids[n] # <<>> => Head(tree.kids[n]) \in Nodes
      /\ (Head(tree.kids[n]) \in Entries \/ tree.kids[Head(tree.kids[n])] # <<>>)
  <2>1. SUFFICES ASSUME tree.kids[n] # <<>>
        PROVE  Head(tree.kids[n]) \in Nodes
               /\ (Head(tree.kids[n]) \in Entries \/ tree.kids[Head(tree.kids[n])] # <<>>)
    OBVIOUS
  <2>2. tree.kids[n] \in Seq(Nodes)
    BY TreeFacts
  <2>3. Head(tree.kids[n]) \in Range(tree.kids[n]) /\ Head(tree.kids[n]) \in Nodes
    BY <2>1, <2>2 DEF Range
  <2>4. QED BY <2>3, FilledIsValid
<1>3. n \notin Entries <=> tree.kids[n] # <<>>
  BY TreeFacts
<1>4. QED BY <1>1, <1>2, <1>3 DEF Enters

(* Nodes beside each other are equally deep.                               *)
LEMMA Beside ==
  ASSUME NEW k \in Kids, IsForest(k), TopFirst(k), NEW m \in Nodes, NEW n \in Range(Sibs(k, m))
  PROVE  /\ n \in Nodes /\ (InTree(k, n) <=> InTree(k, m)) /\ Par(k, n) = Par(k, m)
         /\ Len(Way(k)[n]) = Len(Way(k)[m])
<1>1. CASE Par(k, m) = NONE
  <2>1. Sibs(k, m) = <<m>>
    BY <1>1 DEF Sibs
  <2>2. DOMAIN <<m>> = {1} /\ <<m>>[1] = m
    OBVIOUS
  <2>3. n = m
    BY <2>1, <2>2 DEF Range
  <2>4. QED BY <2>3
<1>2. CASE Par(k, m) # NONE
  <2>1. Par(k, m) \in Nodes /\ n \in Range(k[Par(k, m)])
    BY <1>2, ParIs DEF Sibs
  <2>2. Par(k, n) = Par(k, m)
    BY <2>1, ParFrom
  <2>3. n \in Nodes
    BY <2>1 DEF Kids, Range
  <2>4. Len(Way(k)[n]) = Len(Way(k)[Par(k, m)]) + 1 /\ (InTree(k, n) <=> InTree(k, Par(k, m)))
    BY <1>2, <2>2, <2>3, Grouped
  <2>5. Len(Way(k)[m]) = Len(Way(k)[Par(k, m)]) + 1 /\ (InTree(k, m) <=> InTree(k, Par(k, m)))
    BY <1>2, Grouped
  <2>6. QED BY <2>2, <2>3, <2>4, <2>5
<1>3. QED BY <1>1, <1>2

(* Where a call is: in the tree, and so at an entry or a group with        *)
(* children; and so are the nodes beside it.                               *)
LEMMA BesideIs ==
  ASSUME Well(tree), NEW m \in Nodes, InTree(tree.kids, m), NEW n \in Range(Sibs(tree.kids, m))
  PROVE  /\ n \in Nodes /\ InTree(tree.kids, n) /\ Par(tree.kids, n) = Par(tree.kids, m)
         /\ Len(Way(tree.kids)[n]) = Len(Way(tree.kids)[m])
         /\ Valid(n) /\ (Enters(n) <=> n \notin Entries)
            /\ (n \notin Entries <=> tree.kids[n] # <<>>)
<1>1. tree.kids \in Kids /\ IsForest(tree.kids) /\ TopFirst(tree.kids)
  BY TreeFacts
<1>4. /\ n \in Nodes /\ InTree(tree.kids, n) /\ Par(tree.kids, n) = Par(tree.kids, m)
      /\ Len(Way(tree.kids)[n]) = Len(Way(tree.kids)[m])
  BY <1>1, Beside
<1>5. n \in Entries \/ tree.kids[n] # <<>>
  <2>1. CASE Par(tree.kids, n) = NONE
    <3>1. n = Root
      BY <1>1, <1>4, <2>1, Ungrouped
    <3>2. QED BY <3>1 DEF Well, Filled
  <2>2. CASE Par(tree.kids, n) # NONE
    <3>1. Par(tree.kids, n) \in Nodes /\ n \in Range(tree.kids[Par(tree.kids, n)])
      BY <1>1, <2>2, ParIs
    <3>2. QED BY <3>1, FilledIsValid
  <2>3. QED BY <2>1, <2>2
<1>6. QED BY <1>4, <1>5, Enterable

(* The call in progress is at a node, or the iterator at none.             *)
Running == call.op \in {"step", "move", "up", "down"}

(* The type of the iterator and of the call                                *)
LEMMA IterIs ==
  ASSUME Well(tree), Places, Calls
  PROVE  /\ iter \in Iters /\ saved \in Iters /\ call.d \in Int /\ call.nodes \in BOOLEAN
         /\ call \in [op : {call.op}, d : Int, nodes : BOOLEAN]
         /\ iter.tree # NONE => /\ iter.tree \in Nodes /\ InTree(tree.kids, iter.tree)
                                /\ Len(iter.stack) >= Len(Way(tree.kids)[iter.tree]) - 1
                                /\ InOrder => Len(iter.stack) = Len(Way(tree.kids)[iter.tree]) - 1
         /\ iter.tree = NONE => iter.stack = <<>> /\ ~iter.pushed
         /\ InOrder => ~iter.rnd
         /\ iter.copy \in BOOLEAN /\ iter.pushed \in BOOLEAN /\ iter.stack \in Seq(Int)
            /\ iter.loop \in Int
         /\ iter.rnd \in BOOLEAN /\ iter.file \in Int /\ iter.file >= -1
            /\ iter.tree \in Nodes \cup {NONE}
<1>1. AtPlace(tree.kids, InOrder, iter) /\ saved \in Iters
  BY DEF Places, AtPlace
<1>2. iter \in Iters
  BY <1>1 DEF AtPlace
<1>3. /\ iter.copy \in BOOLEAN /\ iter.pushed \in BOOLEAN /\ iter.stack \in Seq(Int)
         /\ iter.loop \in Int
      /\ iter.rnd \in BOOLEAN /\ iter.file \in Int /\ iter.tree \in Nodes \cup {NONE}
  BY <1>2 DEF Iters
<1>4. call \in [op : {call.op}, d : Int, nodes : BOOLEAN] /\ call.d \in Int
      /\ call.nodes \in BOOLEAN
  BY DEF Calls
<1>5. QED BY <1>1, <1>2, <1>3, <1>4 DEF AtPlace, InTree

(* The counting of a step along the list                                   *)
LEMMA RestIs ==
  ASSUME Well(tree), Places, Calls, iter.tree # NONE
  PROVE  /\ Rest \in Int /\ (call.d = 0 => Rest = 0) /\ (call.d = 1 => Rest = 1)
         /\ Wanted = Idx(tree.kids, iter.tree) + call.d
         /\ Idx(tree.kids, iter.tree) \in 1 .. Len(Sibs(tree.kids, iter.tree))
         /\ DOMAIN Sibs(tree.kids, iter.tree) = 1 .. Len(Sibs(tree.kids, iter.tree))
         /\ Sibs(tree.kids, iter.tree)[Idx(tree.kids, iter.tree)] = iter.tree
<1> DEFINE i == Idx(tree.kids, iter.tree)
           s == Sibs(tree.kids, iter.tree)
<1>1. call.d \in Int /\ iter.tree \in Nodes
  BY IterIs
<1>2. i \in 1 .. Len(s) /\ Len(s) \in Nat /\ DOMAIN s = 1 .. Len(s) /\ s[i] = iter.tree
  BY <1>1, TreeFacts, Sibling
<1>3. Wanted = i + call.d /\ Len(Siblings(iter.tree)) = Len(s)
  BY Names DEF Wanted
<1> HIDE DEF i, s
<1>4. PICK w : w = Wanted
  OBVIOUS
<1>5. w \in Int /\ w = i + call.d
  BY <1>1, <1>2, <1>3, <1>4
<1>6. PICK l : l = Len(s)
  OBVIOUS
<1>7. PICK over : over = IF call.d > 0 THEN w - l - 1 ELSE -w
  OBVIOUS
<1>8. over \in Int /\ (call.d = 1 => ~(over > 0))
  BY <1>1, <1>2, <1>5, <1>6, <1>7
<1>9. Rest = IF iter.rnd \/ call.d = 0 THEN call.d
             ELSE (IF call.d > 0 THEN 1 ELSE -1) * (IF over > 0 THEN over ELSE 1)
  BY <1>3, <1>4, <1>6, <1>7, Zenon DEF Rest
<1>10. Rest \in Int /\ (call.d = 0 => Rest = 0) /\ (call.d = 1 => Rest = 1)
  <2>1. CASE iter.rnd \/ call.d = 0
    BY <1>1, <1>9, <2>1
  <2>2. CASE ~(iter.rnd \/ call.d = 0)
    <3>1. PICK a : a = IF over > 0 THEN over ELSE 1
      OBVIOUS
    <3>2. a \in Int /\ (call.d = 1 => a = 1)
      BY <1>8, <3>1
    <3>3. Rest = IF call.d > 0 THEN 1 * a ELSE (-1) * a
      BY <1>9, <2>2, <3>1, Zenon
    <3>4. 1 * a = a /\ (-1) * a = -a
      BY <3>2
    <3>5. QED BY <1>1, <2>2, <3>2, <3>3, <3>4
  <2>3. QED BY <2>1, <2>2
<1>11. QED BY <1>2, <1>3, <1>10 DEF i, s

-----------------------------------------------------------------------------
(* What each step of a call does.                                          *)
IterTo(tr, st, pu, fi, rn) ==
  /\ iter' \in Iters /\ iter'.tree = tr /\ iter'.stack = st /\ iter'.pushed = pu
  /\ iter'.file = fi /\ iter'.rnd = rn /\ iter'.copy = iter.copy
CallTo(op, d) ==
  call' \in [op : {op}, d : Int, nodes : BOOLEAN] /\ call'.op = op /\ call'.d = d
  /\ call'.nodes = call.nodes
SameTree ==
  tree'.kids = tree.kids /\ tree'.rnd = tree.rnd /\ tree'.params = tree.params
  /\ tree'.lists = tree.lists

IterKept == IterTo(iter.tree, iter.stack, iter.pushed, iter.file, iter.rnd)

(* How the call goes on                                                    *)
LEMMA GoDoes ==
  ASSUME call \in [op : {call.op}, d : Int, nodes : BOOLEAN], NEW op
  PROVE  /\ \A d \in Int : Go(op, d) => CallTo(op, d)
         /\ Answer(op) => CallTo(op, call.d)
<1>1. PICK o, e, b : o = call.op /\ e = call.d /\ b = call.nodes /\ e \in Int /\ b \in BOOLEAN
  OBVIOUS
<1>2. call = [op |-> o, d |-> e, nodes |-> b]
  BY <1>1
<1>3. ASSUME NEW d \in Int, Go(op, d) PROVE CallTo(op, d)
  <2>1. call' = [op |-> op, d |-> d, nodes |-> b]
    BY <1>2, <1>3 DEF Go
  <2>2. QED BY <1>1, <2>1 DEF CallTo
<1>4. ASSUME Answer(op) PROVE CallTo(op, call.d)
  <2>1. call' = [op |-> op, d |-> e, nodes |-> b]
    BY <1>2, <1>4 DEF Answer
  <2>2. QED BY <1>1, <2>1 DEF CallTo
<1>5. QED BY <1>3, <1>4

Becomes(tr, lp, st, pu, fi, rn) ==
  iter' = [tree |-> tr, loop |-> lp, stack |-> st, pushed |-> pu, rnd |-> rn, file |-> fi, copy |-> iter.copy]

(* The iterator with other fields,                                         *)
LEMMA IterSet ==
  ASSUME iter \in Iters, NEW tr \in Nodes \cup {NONE}, NEW lp \in Int, NEW st \in Seq(Int),
         NEW pu \in BOOLEAN,
         NEW fi \in Int, NEW rn \in BOOLEAN, Becomes(tr, lp, st, pu, fi, rn)
  PROVE  IterTo(tr, st, pu, fi, rn)
<1>1. PICK g \in BOOLEAN : g = iter.copy
  BY DEF Iters
<1>2. iter' = [tree |-> tr, loop |-> lp, stack |-> st, pushed |-> pu, rnd |-> rn, file |-> fi, copy |-> g]
  BY <1>1 DEF Becomes
<1>3. iter' \in Iters
  BY <1>1, <1>2 DEF Iters
<1>4. QED BY <1>1, <1>2, <1>3 DEF IterTo

(* and with all of its own                                                 *)
LEMMA IterParts ==
  ASSUME iter \in Iters
  PROVE  iter = [tree |-> iter.tree, loop |-> iter.loop, stack |-> iter.stack, pushed |-> iter.pushed,
                 rnd |-> iter.rnd, file |-> iter.file, copy |-> iter.copy]
BY DEF Iters

Frame == Well(tree) /\ Places /\ Calls /\ Jobs

(* StepAtRoot, field by field                                              *)
LEMMA StepAtRootDoes ==
  ASSUME Frame, StepAtRoot
  PROVE  /\ call.op = "step" /\ iter.tree = NONE
         /\ IterTo(Root, iter.stack, iter.pushed, iter.file, iter.rnd) /\ CallTo("step", 0)
         /\ UNCHANGED <<tree, config, player>>
<1>1. iter \in Iters /\ call \in [op : {call.op}, d : Int, nodes : BOOLEAN] /\ Root \in Nodes
  BY IterIs, TreeAssumption DEF Frame
<1>2. call.op = "step" /\ iter.tree = NONE /\ iter' = [iter EXCEPT !.tree = Root] /\ Go("step", 0)
      /\ UNCHANGED <<tree, config, player>>
  BY DEF StepAtRoot
<1>3. CallTo("step", 0)
  BY <1>1, <1>2, GoDoes
<1>4. IterTo(Root, iter.stack, iter.pushed, iter.file, iter.rnd)
  BY <1>1, <1>2 DEF IterTo, Iters
<1>5. QED BY <1>2, <1>3, <1>4

(* Leave, field by field                                                   *)
LEMMA LeaveDoes ==
  ASSUME Frame, Leave
  PROVE  /\ call.op = "step" /\ iter.tree # NONE
         /\ IterTo(iter.tree, iter.stack, iter.pushed /\ iter.copy, -1, Par(tree.kids, iter.tree) \in tree.rnd)
         /\ CallTo("move", call.d) /\ UNCHANGED <<tree, player>>
         /\ IF iter.pushed /\ ~iter.copy THEN Pop ELSE UNCHANGED config
<1>1. iter \in Iters /\ call \in [op : {call.op}, d : Int, nodes : BOOLEAN]
      /\ iter.pushed \in BOOLEAN /\ iter.copy \in BOOLEAN
  BY IterIs DEF Frame
<1>2. call.op = "step" /\ iter.tree # NONE /\ Go("move", call.d) /\ UNCHANGED <<tree, player>>
      /\ iter' = [iter EXCEPT !.pushed = iter.pushed /\ iter.copy, !.rnd = InMode(iter.tree), !.file = -1]
      /\ IF iter.pushed THEN PopOne ELSE UNCHANGED config
  BY DEF Leave
<1>3. CallTo("move", call.d)
  BY <1>1, <1>2, GoDoes
<1>4. InMode(iter.tree) = (Par(tree.kids, iter.tree) \in tree.rnd)
  BY Names, Zenon DEF InMode
<1>5. PICK b : b = (Par(tree.kids, iter.tree) \in tree.rnd)
  OBVIOUS
<1>a. PICK c : c = (iter.pushed /\ iter.copy)
  OBVIOUS
<1>b. b \in BOOLEAN
  BY <1>5
<1>c. c \in BOOLEAN
  BY <1>a
<1>d. iter' = [iter EXCEPT !.pushed = c, !.rnd = InMode(iter.tree), !.file = -1]
  BY <1>2, <1>a, Zenon
<1>6. iter' = [iter EXCEPT !.pushed = c, !.rnd = b, !.file = -1]
  BY <1>d, <1>4, <1>5, Zenon
<1>e. Becomes(iter.tree, iter.loop, iter.stack, c, -1, b)
  BY <1>1, <1>6, IterParts DEF Becomes
<1>f. iter.tree \in Nodes \cup {NONE} /\ iter.loop \in Int /\ iter.stack \in Seq(Int) /\ -1 \in Int
  BY <1>1 DEF Iters
<1>7. IterTo(iter.tree, iter.stack, c, -1, b)
  <2>1. iter \in Iters
    BY <1>1
  <2>2. QED BY <1>b, <1>c, <1>e, <1>f, <2>1, IterSet, Zenon
<1>8. IF iter.pushed /\ ~iter.copy THEN Pop ELSE UNCHANGED config
  BY <1>1, <1>2 DEF PopOne
<1>g. IterTo(iter.tree, iter.stack, iter.pushed /\ iter.copy, -1, Par(tree.kids, iter.tree) \in tree.rnd)
  BY <1>5, <1>a, <1>7, Zenon
<1>9. QED BY <1>2, <1>3, <1>8, <1>g, Zenon

(* The nodes a step may go to                                              *)
LEMMA TargetIs ==
  ASSUME Frame, iter.tree # NONE, NEW n \in Targets
  PROVE  /\ n \in Range(Sibs(tree.kids, iter.tree))
         /\ n \in Nodes /\ InTree(tree.kids, n) /\ Par(tree.kids, n) = Par(tree.kids, iter.tree)
         /\ Len(Way(tree.kids)[n]) = Len(Way(tree.kids)[iter.tree])
         /\ Valid(n) /\ (Enters(n) <=> n \notin Entries)
            /\ (n \notin Entries <=> tree.kids[n] # <<>>)
         /\ ~iter.rnd => Wanted \in DOMAIN Sibs(tree.kids, iter.tree)
            /\ n = Sibs(tree.kids, iter.tree)[Wanted]
<1>1. iter.tree \in Nodes /\ InTree(tree.kids, iter.tree)
  BY IterIs DEF Frame
<1>2. /\ n \in Range(Sibs(tree.kids, iter.tree))
      /\ ~iter.rnd => Wanted \in DOMAIN Sibs(tree.kids, iter.tree)
         /\ n = Sibs(tree.kids, iter.tree)[Wanted]
  BY Names DEF Targets, Unplayed, Range
<1>3. QED BY <1>1, <1>2, BesideIs DEF Frame

(* Without a target the list is at its end.                                *)
LEMMA NoTarget ==
  ASSUME Frame, iter.tree # NONE, Targets = {}
  PROVE  IF iter.rnd THEN Range(Sibs(tree.kids, iter.tree)) \subseteq tree.played
                     ELSE Wanted \notin DOMAIN Sibs(tree.kids, iter.tree)
BY Names DEF Targets, Unplayed

(* Move, field by field: to a group or to an entry; every node leads to    *)
(* one.                                                                    *)
LEMMA MoveDoes ==
  ASSUME Frame, Move
  PROVE  /\ call.op = "move" /\ iter.tree # NONE
         /\ \E n \in Targets :
              \/ /\ n \notin Entries /\ tree.kids[n] # <<>>
                    /\ IterTo(n, iter.stack, iter.pushed, iter.file, iter.rnd)
                 /\ IF call.nodes THEN CallTo("NODE", call.d) ELSE CallTo("down", Rest)
                 /\ UNCHANGED <<tree, config, player>>
              \/ /\ n \in Entries
                    /\ IterTo(n, iter.stack, iter.pushed \/ ~iter.copy, iter.file, iter.rnd)
                 /\ CallTo("ENTRY", call.d) /\ UNCHANGED player
                 /\ PushFor(n)
                 /\ tree' = IF iter.rnd /\ ~iter.copy THEN [tree EXCEPT !.played = @ \cup {n}] ELSE tree
<1>1. iter \in Iters /\ call \in [op : {call.op}, d : Int, nodes : BOOLEAN]
      /\ iter.pushed \in BOOLEAN /\ iter.copy \in BOOLEAN
  BY IterIs DEF Frame
<1>2. call.op = "move" /\ iter.tree # NONE
  BY DEF Move, Frame, Calls
<1>3. PICK n \in Targets : ToGroup(n) \/ ToNothing(n) \/ ToEntry(n)
  BY DEF Move
<1>4. n \in Nodes /\ Valid(n) /\ (Enters(n) <=> n \notin Entries)
      /\ (n \notin Entries <=> tree.kids[n] # <<>>)
  BY <1>2, TargetIs
<1>5. CASE ToGroup(n)
  <2>1. /\ n \notin Entries /\ tree.kids[n] # <<>> /\ iter' = [iter EXCEPT !.tree = n]
        /\ IF call.nodes THEN Answer("NODE") ELSE Go("down", Rest)
        /\ UNCHANGED <<tree, config, player>>
    BY <1>4, <1>5 DEF ToGroup
  <2>2. IterTo(n, iter.stack, iter.pushed, iter.file, iter.rnd)
    BY <1>1, <1>4, <2>1 DEF IterTo, Iters
  <2>3. Rest \in Int
    BY <1>2, RestIs DEF Frame
  <2>4. IF call.nodes THEN CallTo("NODE", call.d) ELSE CallTo("down", Rest)
    BY <1>1, <2>1, <2>3, GoDoes
  <2>5. QED BY <1>2, <2>1, <2>2, <2>4
<1>6. CASE ToNothing(n)
  BY <1>4, <1>6 DEF ToNothing
<1>7. CASE ToEntry(n)
  <2>1. /\ n \in Entries /\ iter' = [iter EXCEPT !.tree = n, !.pushed = @ \/ ~iter.copy]
           /\ PushFor(n)
        /\ tree' = IF iter.rnd /\ ~iter.copy THEN [tree EXCEPT !.played = @ \cup {n}] ELSE tree
        /\ Answer("ENTRY") /\ UNCHANGED player
    BY <1>4, <1>7 DEF ToEntry
  <2>2. PICK b \in BOOLEAN : b = (iter.pushed \/ ~iter.copy)
    BY <1>1
  <2>3. iter' = [iter EXCEPT !.tree = n, !.pushed = b]
    BY <2>1, <2>2
  <2>4. IterTo(n, iter.stack, b, iter.file, iter.rnd)
    BY <1>1, <1>4, <2>3 DEF IterTo, Iters
  <2>5. CallTo("ENTRY", call.d)
    BY <1>1, <2>1, GoDoes
  <2>6. QED BY <1>2, <2>1, <2>2, <2>4, <2>5
<1>8. QED BY <1>3, <1>5, <1>6, <1>7

(* ShuffleAgain, field by field                                            *)
LEMMA ShuffleAgainDoes ==
  ASSUME Frame, ShuffleAgain
  PROVE  /\ call.op = "move" /\ iter.tree # NONE /\ iter.rnd /\ Targets = {} /\ IterKept
            /\ UNCHANGED <<config, player>>
         /\ \/ CallTo("END", call.d) /\ tree' = tree
            \/ /\ CallTo("step", 0)
               /\ \E l \in [Nodes -> Int] : tree' = [tree EXCEPT !.played = {}, !.loop = l]
<1>1. iter \in Iters /\ call \in [op : {call.op}, d : Int, nodes : BOOLEAN]
  BY IterIs DEF Frame
<1>2. call.op = "move" /\ iter.tree # NONE /\ iter.rnd /\ Targets = {}
      /\ UNCHANGED <<iter, config, player>>
  BY DEF ShuffleAgain, Frame, Calls
<1>3. IterKept
  BY <1>1, <1>2 DEF IterKept, IterTo
<1>4. \/ Answer("END") /\ tree' = tree
      \/ /\ Go("step", 0)
         /\ tree' = [tree EXCEPT !.played = {}, !.loop[Root] = IF @ > 0 THEN @ - 1 ELSE @]
  BY DEF ShuffleAgain
<1>5. CASE Answer("END") /\ tree' = tree
  BY <1>1, <1>2, <1>3, <1>5, GoDoes
<1>6. CASE /\ Go("step", 0)
           /\ tree' = [tree EXCEPT !.played = {}, !.loop[Root] = IF @ > 0 THEN @ - 1 ELSE @]
  <2>1. tree.loop \in [Nodes -> Int] /\ Root \in Nodes
    BY TreeFacts, TreeAssumption DEF Frame
  <2>2. PICK l : l = [tree.loop EXCEPT ![Root] = IF @ > 0 THEN @ - 1 ELSE @]
    OBVIOUS
  <2>3. l \in [Nodes -> Int]
    BY <2>1, <2>2
  <2>4. tree' = [tree EXCEPT !.played = {}, !.loop = l]
    BY <1>6, <2>2
  <2>5. CallTo("step", 0)
    <3>1. 0 \in Int /\ Go("step", 0)
      BY <1>6
    <3>2. QED BY <1>1, <3>1, GoDoes
  <2>6. QED BY <1>2, <1>3, <2>3, <2>4, <2>5
<1>7. QED BY <1>4, <1>5, <1>6

(* LoopAround, field by field                                              *)
LEMMA LoopAroundDoes ==
  ASSUME Frame, LoopAround
  PROVE  /\ call.op = "move" /\ iter.tree # NONE /\ ~iter.rnd /\ Targets = {} /\ CallTo("step", 0)
            /\ UNCHANGED <<tree, config, player>>
         /\ Par(tree.kids, iter.tree) # NONE
         /\ \E n \in Range(Sibs(tree.kids, iter.tree)) :
              IterTo(n, iter.stack, iter.pushed, iter.file, iter.rnd)
              /\ n = IF call.d > 0 THEN Head(Sibs(tree.kids, iter.tree)) ELSE Last(Sibs(tree.kids, iter.tree))
<1>1. iter \in Iters /\ call \in [op : {call.op}, d : Int, nodes : BOOLEAN] /\ iter.loop \in Int
  BY IterIs DEF Frame
<1>2. call.op = "move" /\ iter.tree # NONE /\ ~iter.rnd /\ Targets = {} /\ Go("step", 0)
      /\ UNCHANGED <<tree, config, player>>
      /\ MayLoop
  BY DEF LoopAround, Frame, Calls
<1>3. CallTo("step", 0)
  BY <1>1, <1>2, GoDoes
<1>4. iter' = [iter EXCEPT
       !.tree = IF call.d > 0 THEN Head(Siblings(@)) ELSE Last(Siblings(@)),
       !.loop = IF @ < 0 THEN @ ELSE IF call.d > 0 THEN @ - 1 ELSE @ + 1]
  BY DEF LoopAround
<1>5. PICK n : n = IF call.d > 0 THEN Head(Sibs(tree.kids, iter.tree)) ELSE Last(Sibs(tree.kids, iter.tree))
  OBVIOUS
<1>6. PICK l : l = IF iter.loop < 0 THEN iter.loop ELSE IF call.d > 0 THEN iter.loop - 1 ELSE iter.loop + 1
  OBVIOUS
<1>7. l \in Int
  BY <1>1, <1>6
<1>8. iter' = [iter EXCEPT !.tree = n, !.loop = l]
  BY <1>4, <1>5, <1>6, Names
<1>9. iter.tree \in Nodes /\ InTree(tree.kids, iter.tree)
  BY <1>2, IterIs DEF Frame
<1>10. /\ Sibs(tree.kids, iter.tree) \in Seq(Nodes) /\ Len(Sibs(tree.kids, iter.tree)) \in Nat \ {0}
       /\ Head(Sibs(tree.kids, iter.tree)) = Sibs(tree.kids, iter.tree)[1]
       /\ Last(Sibs(tree.kids, iter.tree)) = Sibs(tree.kids, iter.tree)[Len(Sibs(tree.kids, iter.tree))]
  BY <1>9, TreeFacts, Sibling DEF Frame
<1>11. n \in Range(Sibs(tree.kids, iter.tree)) /\ n \in Nodes
  BY <1>5, <1>10 DEF Range
<1>12. IterTo(n, iter.stack, iter.pushed, iter.file, iter.rnd)
  BY <1>1, <1>7, <1>8, <1>11 DEF IterTo, Iters
<1>13. Par(tree.kids, iter.tree) # NONE
  BY <1>2, Names DEF MayLoop
<1>14. QED BY <1>2, <1>3, <1>5, <1>11, <1>12, <1>13

(* ListDone, field by field                                                *)
LEMMA ListDoneDoes ==
  ASSUME Frame, ListDone
  PROVE  /\ call.op = "move" /\ iter.tree # NONE /\ ~iter.rnd /\ Targets = {} /\ CallTo("up", Rest)
         /\ IterKept /\ UNCHANGED <<tree, config, player>>
<1>1. iter \in Iters /\ call \in [op : {call.op}, d : Int, nodes : BOOLEAN]
  BY IterIs DEF Frame
<1>2. call.op = "move" /\ iter.tree # NONE /\ ~iter.rnd /\ Targets = {} /\ Go("up", Rest)
      /\ UNCHANGED <<tree, iter, config, player>>
  BY DEF ListDone, Frame, Calls
<1>3. Rest \in Int
  BY <1>2, RestIs DEF Frame
<1>4. QED BY <1>1, <1>2, <1>3, GoDoes DEF IterKept, IterTo

(* Up, field by field: the stack has a lap to take back.                   *)
LEMMA UpDoes ==
  ASSUME Frame, Up
  PROVE  /\ call.op = "up" /\ iter.tree \in Nodes /\ Par(tree.kids, iter.tree) # NONE
            /\ Len(iter.stack) \in Nat \ {0}
         /\ IterTo(Par(tree.kids, iter.tree), Front(iter.stack), iter.pushed, -1, iter.rnd)
         /\ Front(iter.stack) \in Seq(Int) /\ Len(Front(iter.stack)) = Len(iter.stack) - 1
         /\ CallTo("step", call.d) /\ UNCHANGED player /\ PopOne
         /\ tree' = IF iter.rnd /\ ~iter.copy THEN [tree EXCEPT !.played = @ \cup {Par(tree.kids, iter.tree)}] ELSE tree
<1>1. iter \in Iters /\ call \in [op : {call.op}, d : Int, nodes : BOOLEAN] /\ call.d \in Int
      /\ iter.stack \in Seq(Int)
  BY IterIs DEF Frame
<1>2. call.op = "up" /\ Par(tree.kids, iter.tree) # NONE /\ Go("step", call.d) /\ UNCHANGED player
      /\ PopOne
      /\ tree' = IF iter.rnd /\ ~iter.copy THEN [tree EXCEPT !.played = @ \cup {Par(tree.kids, iter.tree)}] ELSE tree
  BY Names DEF Up
<1>3. iter.tree # NONE
  BY <1>2 DEF Frame, Calls
<1>4. iter.tree \in Nodes /\ Len(iter.stack) >= Len(Way(tree.kids)[iter.tree]) - 1
  BY <1>3, IterIs DEF Frame
<1>5. Par(tree.kids, iter.tree) \in Nodes /\ Len(Way(tree.kids)[iter.tree]) > 1
      /\ Len(Way(tree.kids)[iter.tree]) \in Nat
  BY <1>2, <1>4, TreeFacts, Grouped, WayParts DEF Frame
<1>6. Len(iter.stack) \in Nat \ {0}
  BY <1>1, <1>4, <1>5
<1>7. Front(iter.stack) \in Seq(Int) /\ Len(Front(iter.stack)) = Len(iter.stack) - 1
      /\ Last(iter.stack) \in Int
  BY <1>1, <1>6 DEF Front, Last
<1>8. IterTo(Par(tree.kids, iter.tree), Front(iter.stack), iter.pushed, -1, iter.rnd)
  <2>1. PICK l, st, g : l = Last(iter.stack) /\ st = Front(iter.stack)
        /\ g = Par(tree.kids, iter.tree)
    OBVIOUS
  <2>2. l \in Int /\ st \in Seq(Int) /\ g \in Nodes
    BY <1>5, <1>7, <2>1
  <2>3. g = Parent(iter.tree)
    BY <2>1, Names
  <2>4. iter' = [iter EXCEPT !.file = -1, !.loop = Last(iter.stack), !.stack = Front(iter.stack), !.tree = g]
    BY <1>1, <2>3 DEF Up, Iters
  <2>5. iter' = [iter EXCEPT !.file = -1, !.loop = l, !.stack = st, !.tree = g]
    BY <2>1, <2>4, Zenon
  <2>6. Becomes(g, l, st, iter.pushed, -1, iter.rnd)
    BY <1>1, <2>5, IterParts DEF Becomes
  <2>7. iter.pushed \in BOOLEAN /\ iter.rnd \in BOOLEAN /\ -1 \in Int
    BY <1>1 DEF Iters
  <2>8. IterTo(g, st, iter.pushed, -1, iter.rnd)
    BY <1>1, <2>2, <2>6, <2>7, IterSet
  <2>9. QED BY <2>1, <2>8, Zenon
<1>9. CallTo("step", call.d)
  BY <1>1, <1>2, GoDoes
<1>10. QED BY <1>2, <1>4, <1>6, <1>7, <1>8, <1>9, Zenon

(* UpAtTop, field by field: only the root has no group.                    *)
LEMMA UpAtTopDoes ==
  ASSUME Frame, UpAtTop
  PROVE  /\ call.op = "up" /\ iter.tree = Root /\ CallTo("END", call.d)
            /\ UNCHANGED <<tree, config, player>>
         /\ IterTo(iter.tree, iter.stack, iter.pushed, -1, iter.rnd)
<1>1. iter \in Iters /\ call \in [op : {call.op}, d : Int, nodes : BOOLEAN]
  BY IterIs DEF Frame
<1>2. call.op = "up" /\ Par(tree.kids, iter.tree) = NONE /\ iter' = [iter EXCEPT !.file = -1]
      /\ Answer("END")
      /\ UNCHANGED <<tree, config, player>>
  BY Names DEF UpAtTop
<1>3. iter.tree # NONE
  BY <1>2 DEF Frame, Calls
<1>4. iter.tree \in Nodes /\ InTree(tree.kids, iter.tree)
  BY <1>3, IterIs DEF Frame
<1>5. iter.tree = Root
  BY <1>2, <1>4, TreeFacts, Ungrouped DEF Frame
<1>6. IterTo(iter.tree, iter.stack, iter.pushed, -1, iter.rnd)
  BY <1>1, <1>2 DEF IterTo, Iters
<1>7. QED BY <1>1, <1>2, <1>5, <1>6, GoDoes

(* Down, field by field                                                    *)
LEMMA DownDoes ==
  ASSUME Frame, Down
  PROVE  /\ call.op = "down" /\ iter.tree \in Nodes /\ CallTo("step", 0)
            /\ UNCHANGED <<tree, player>>
         /\ PushFor(iter.tree)
         /\ \E n \in Range(tree.kids[iter.tree]), l \in Int :
              /\ n \in Nodes /\ Par(tree.kids, n) = iter.tree
                 /\ (call.d >= 0 => n = Head(tree.kids[iter.tree]))
              /\ IterTo(n, Append(iter.stack, l), iter.pushed, -1, iter.rnd)
              /\ Append(iter.stack, l) \in Seq(Int)
                 /\ Len(Append(iter.stack, l)) = Len(iter.stack) + 1
<1>1. iter \in Iters /\ call \in [op : {call.op}, d : Int, nodes : BOOLEAN] /\ call.d \in Int
      /\ iter.stack \in Seq(Int) /\ iter.loop \in Int
  BY IterIs DEF Frame
<1>2. call.op = "down" /\ Go("step", 0) /\ UNCHANGED <<tree, player>> /\ PushFor(iter.tree)
      /\ iter' = [iter EXCEPT !.file = -1, !.stack = Append(@, iter.loop), !.loop = tree.loop[iter.tree] - 1,
                    !.tree = IF call.d >= 0 THEN Head(tree.kids[@]) ELSE Last(tree.kids[@])]
  BY DEF Down
<1>3. iter.tree \in Nodes /\ tree.kids[iter.tree] # <<>>
  BY <1>2 DEF Frame, Calls
<1>4. tree.kids[iter.tree] \in Seq(Nodes) /\ tree.loop[iter.tree] - 1 \in Int
  BY <1>3, TreeFacts DEF Frame
<1>5. PICK n, l, st : n = (IF call.d >= 0 THEN Head(tree.kids[iter.tree]) ELSE Last(tree.kids[iter.tree]))
                      /\ l = tree.loop[iter.tree] - 1 /\ st = Append(iter.stack, iter.loop)
  OBVIOUS
<1>6. /\ n \in Range(tree.kids[iter.tree]) /\ n \in Nodes
      /\ \E i \in DOMAIN tree.kids[iter.tree] : tree.kids[iter.tree][i] = n
  <2>1. PICK s : s = tree.kids[iter.tree]
    OBVIOUS
  <2>2. s \in Seq(Nodes) /\ s # <<>>
    BY <1>3, <1>4, <2>1
  <2>3. Len(s) \in DOMAIN s /\ 1 \in DOMAIN s /\ Head(s) = s[1] /\ Last(s) = s[Len(s)]
    BY <2>2 DEF Last
  <2>4. \E i \in DOMAIN s : n = s[i]
    BY <1>5, <2>1, <2>3
  <2>5. QED BY <2>1, <2>2, <2>4 DEF Range
<1>7. Par(tree.kids, n) = iter.tree
  BY <1>3, <1>6, TreeFacts, ParFrom DEF Frame
<1>8. l \in Int /\ st \in Seq(Int) /\ Len(st) = Len(iter.stack) + 1
  BY <1>1, <1>4, <1>5
<1>9. iter' = [iter EXCEPT !.file = -1, !.stack = st, !.loop = l, !.tree = n]
  BY <1>2, <1>5
<1>a. Becomes(n, l, st, iter.pushed, -1, iter.rnd)
  BY <1>1, <1>9, IterParts DEF Becomes
<1>b. iter.pushed \in BOOLEAN /\ iter.rnd \in BOOLEAN /\ -1 \in Int
  BY <1>1 DEF Iters
<1>10. IterTo(n, st, iter.pushed, -1, iter.rnd)
  <2>1. iter \in Iters /\ n \in Nodes \cup {NONE} /\ l \in Int /\ st \in Seq(Int)
    BY <1>1, <1>6, <1>8
  <2>2. QED BY <1>a, <1>b, <2>1, IterSet, Zenon
<1>c. 0 \in Int /\ Go("step", 0)
  BY <1>2
<1>11. CallTo("step", 0)
  BY <1>1, <1>c, GoDoes
<1>12. QED BY <1>1, <1>2, <1>3, <1>5, <1>6, <1>7, <1>8, <1>10, <1>11

-----------------------------------------------------------------------------
(* What every step of a call keeps: where it is, what it goes on with, and *)
(* what is pushed.                                                         *)
Stays(tr, st, pu, fi, rn, op, d) ==
  /\ Running /\ IterTo(tr, st, pu, fi, rn) /\ CallTo(op, d) /\ d \in Int
  /\ SameTree /\ Well(tree') /\ UNCHANGED player
  /\ tr \in Nodes /\ InTree(tree.kids, tr) /\ Len(st) >= Len(Way(tree.kids)[tr]) - 1 /\ fi >= -1
  /\ InOrder => Len(st) = Len(Way(tree.kids)[tr]) - 1 /\ ~rn
  /\ op \in {"step", "move", "up", "down", "ENTRY", "NODE", "END"}
  /\ op = "NODE" => call.nodes
  /\ op = "ENTRY" => tr \in Entries
  /\ op \in {"NODE", "down"} => tree.kids[tr] # <<>>
  /\ op = "move" => rn = (Par(tree.kids, tr) \in tree.rnd)
  /\ ~iter.copy => /\ op \in {"move", "down", "NODE", "END"} => ~pu
                   /\ op = "ENTRY" => pu
                   /\ pu /\ tr = Root => op = "step"
                   /\ op = "END" /\ InOrder => tr = Root

(* A step of a call keeps the types, the places and what belongs to the    *)
(* call.                                                                   *)
LEMMA StaysFrame ==
  ASSUME Frame, NEW tr, NEW st, NEW pu, NEW fi, NEW rn, NEW op, NEW d,
         Stays(tr, st, pu, fi, rn, op, d)
  PROVE  Frame' /\ Pushed' /\ (Free => Free') /\ iter'.tree # NONE /\ InOrder' = InOrder
<1>1. tree'.kids = tree.kids /\ tree'.rnd = tree.rnd /\ tree'.lists = tree.lists
  BY DEF Stays, SameTree
<1>2. InOrder' = InOrder
  BY <1>1 DEF InOrder
<1>3. saved' = saved /\ job' = job /\ step' = step /\ cmds' = cmds /\ log' = log /\ asked' = asked
  BY DEF Stays, player
<1>4. /\ iter' \in Iters /\ iter'.tree = tr /\ iter'.stack = st /\ iter'.pushed = pu
      /\ iter'.file = fi /\ iter'.rnd = rn /\ iter'.copy = iter.copy
  BY DEF Stays, IterTo
<1>5. call' \in [op : {op}, d : Int, nodes : BOOLEAN] /\ call'.op = op /\ call'.d = d
      /\ call'.nodes = call.nodes
  BY DEF Stays, CallTo
<1>6. tr \in Nodes /\ tr # NONE
  BY TreeAssumption DEF Stays
<1>7. Places'
  <2>1. AtPlace(tree'.kids, InOrder', iter')
    BY <1>1, <1>2, <1>4, <1>6 DEF AtPlace, Stays
  <2>2. AtPlace(tree'.kids, InOrder', saved')
    BY <1>1, <1>2, <1>3 DEF Frame, Places
  <2>3. QED BY <1>2, <1>3, <1>4, <1>6, <2>1, <2>2 DEF Places, Frame
<1>8. call.op # "none" /\ job.at \notin {"file", "play", "stopped"}
  BY DEF Stays, Running, Frame, Calls
<1>9. Calls'
  <2>1. job'.at \notin {"file", "play", "stopped"} /\ op # "none"
    BY <1>3, <1>8 DEF Stays
  <2>2. call'.nodes => job'.at \in {"stop", "load"}
    BY <1>3, <1>5 DEF Frame, Calls
  <2>3. QED BY <1>1, <1>4, <1>5, <1>6, <2>1, <2>2 DEF Calls, Stays
<1>10. Jobs'
  BY <1>1, <1>3, <1>4, <1>6, <1>8 DEF Jobs, Frame
<1>11. Pushed'
  BY <1>2, <1>4, <1>5 DEF Pushed, Stays
<1>12. Free => Free'
  BY <1>1, <1>3 DEF Free
<1>13. Well(tree)'
  BY DEF Stays
<1>14. QED BY <1>2, <1>4, <1>6, <1>7, <1>9, <1>10, <1>11, <1>12, <1>13 DEF Frame

(* The options that are pushed, and those of the way to the place          *)
Along(tr, l) == \A j \in 1 .. l : Way(tree.kids)[tr][j] = Around[j]
Stack        == Levels /\ Slotted /\ Contents

Even(tr, st, pu) ==
  /\ UNCHANGED config
  /\ \/ iter.copy
     \/ ~iter.pushed /\ ~pu /\ Len(st) = Len(iter.stack) /\ (InOrder => Along(tr, lvl - 1))

Popped(tr, st, pu) ==
  /\ ~iter.copy /\ Pop /\ (Len(st) + B(pu)) + 1 = Len(iter.stack) + B(iter.pushed)
  /\ InOrder => Along(tr, lvl - 2)

PushedOn(tr, st, pu, n) ==
  /\ ~iter.copy /\ ~iter.pushed /\ n \in Nodes /\ Push(tree.params[n])
  /\ Len(st) + B(pu) = Len(iter.stack) + 1
  /\ InOrder => Along(tr, lvl - 1) /\ Way(tree.kids)[tr][lvl] = n

(* What the step means for the iterator that the options belong to         *)
LEMMA OwnNext ==
  ASSUME Frame, NEW tr, NEW st, NEW pu, NEW fi, NEW rn, NEW op, NEW d,
         Stays(tr, st, pu, fi, rn, op, d)
  PROVE  /\ iter.copy => Own' = Own /\ Around' = Around
         /\ ~iter.copy => /\ Own = iter /\ Own'.stack = st /\ Own'.pushed = pu /\ Own'.file = fi
                          /\ Around' = Way(tree.kids)[tr]
         /\ tree'.params = tree.params /\ InOrder' = InOrder
         /\ Len(st) \in Nat /\ Len(iter.stack) \in Nat /\ Len(Own.stack) \in Nat
<1>1. tree'.kids = tree.kids /\ tree'.params = tree.params /\ InOrder' = InOrder
  BY DEF Stays, SameTree, InOrder
<1>2. saved' = saved
  BY DEF Stays, player
<1>3. iter' \in Iters /\ iter'.tree = tr /\ iter'.stack = st /\ iter'.pushed = pu
      /\ iter'.file = fi /\ iter'.copy = iter.copy
  BY DEF Stays, IterTo
<1>4. tr \in Nodes /\ tr # NONE
  BY TreeAssumption DEF Stays
<1>5. iter.copy => Own' = Own /\ Around' = Around
  BY <1>1, <1>2, <1>3 DEF Own, Around
<1>6. ASSUME ~iter.copy
      PROVE  Own = iter /\ Own' = iter' /\ Around' = Way(tree.kids)[tr]
  BY <1>1, <1>3, <1>4, <1>6 DEF Own, Around
<1>7. st \in Seq(Int) /\ iter.stack \in Seq(Int) /\ saved.stack \in Seq(Int)
  <2>1. iter' \in Iters /\ iter \in Iters /\ saved \in Iters
    BY <1>3, IterIs DEF Frame
  <2>2. QED BY <1>3, <2>1 DEF Iters
<1>8. Len(st) \in Nat /\ Len(iter.stack) \in Nat /\ Len(Own.stack) \in Nat
  BY <1>7 DEF Own
<1>9. QED BY <1>1, <1>3, <1>5, <1>6, <1>8

(* A step that pushes and pops nothing,                                    *)
LEMMA EvenStack ==
  ASSUME Frame, Stack, NEW tr, NEW st, NEW pu, NEW fi, NEW rn, NEW op, NEW d,
         Stays(tr, st, pu, fi, rn, op, d),
         Even(tr, st, pu)
  PROVE  Stack'
<1>1. lvl' = lvl /\ slots' = slots /\ value' = value /\ base' = base
  BY DEF Even, config
<1>2. Slotted'
  BY <1>1 DEF Stack, Slotted
<1>3. tree'.params = tree.params /\ InOrder' = InOrder
  BY OwnNext
<1>4. lvl \in Nat \ {0}
  BY DEF Stack, Slotted
<1>5. CASE iter.copy
  <2>1. Own' = Own /\ Around' = Around
    BY <1>5, OwnNext
  <2>2. Levels'
    BY <1>1, <1>3, <2>1 DEF Levels, Stack
  <2>3. \A i, o : OptAt(Outer(o)', tree', Around', i, o) = OptAt(Outer(o), tree, Around, i, o)
    BY <1>1, <1>3, <2>1, Zenon DEF OptAt, Outer
  <2>4. Contents'
    BY <1>1, <1>3, <2>1, <2>3 DEF Contents, Stack
  <2>5. QED BY <1>2, <2>2, <2>4 DEF Stack
<1>6. CASE ~iter.copy
  <2>1. Own = iter /\ Own'.stack = st /\ Own'.pushed = pu /\ Around' = Way(tree.kids)[tr]
    BY <1>6, OwnNext
  <2>2. ~iter.pushed /\ ~pu /\ Len(st) = Len(iter.stack) /\ (InOrder => Along(tr, lvl - 1))
    BY <1>6 DEF Even
  <2>3. Levels'
    BY <1>1, <1>3, <2>1, <2>2 DEF Levels, Stack, B
  <2>4. ASSUME InOrder, NEW i \in 0 .. lvl - 1, NEW o
        PROVE  OptAt(Outer(o)', tree', Around', i, o) = OptAt(Outer(o), tree, Around, i, o)
    <3>1. \A j \in 1 .. i : j \in 1 .. lvl - 1
      BY <1>4
    <3>2. \A j \in 1 .. i : Around'[j] = Around[j]
      BY <2>1, <2>2, <2>4, <3>1 DEF Along
    <3>3. \A j \in 1 .. i : tree'.params[Around'[j]] = tree.params[Around[j]]
      BY <1>3, <3>2
    <3>4. PICK x, t, u, p, q : /\ x = Outer(o) /\ t = tree' /\ u = tree /\ p = Around' /\ q = Around
      OBVIOUS
    <3>a. Outer(o)' = x
      BY <1>1, <3>4 DEF Outer
    <3>5. i \in Nat /\ Alike(t, p, u, q, i)
      BY <3>3, <3>4 DEF Alike
    <3>6. OptAt(x, t, p, i, o) = OptAt(x, u, q, i, o)
      BY <3>5, OptSame
    <3>7. QED BY <3>4, <3>a, <3>6, Zenon
  <2>5. (\A i \in 0 .. lvl - 2 : i \in 0 .. lvl - 1) /\ lvl - 1 \in 0 .. lvl - 1
    BY <1>4
  <2>6. ASSUME InOrder, NEW o \in Saved
        PROVE  /\ \A i \in 0 .. lvl - 2 : Kept(o, i) => slots[o][i + 2].val = OptAt(Outer(o)', tree', Around', i, o)
               /\ Kept(o, lvl - 1) => value[o] = OptAt(Outer(o)', tree', Around', lvl - 1, o)
    <3>1. /\ \A i \in 0 .. lvl - 2 : Kept(o, i) => slots[o][i + 2].val = OptAt(Outer(o), tree, Around, i, o)
          /\ Kept(o, lvl - 1) => value[o] = OptAt(Outer(o), tree, Around, lvl - 1, o)
      BY <2>1, <2>2, <2>6 DEF Contents, Stack
    <3>2. QED BY <2>4, <2>5, <2>6, <3>1
  <2>7. Contents'
    BY <1>1, <1>3, <2>6 DEF Contents
  <2>8. QED BY <1>2, <2>3, <2>7 DEF Stack
<1>7. QED BY <1>5, <1>6

(* one that pops,                                                          *)
LEMMA PoppedStack ==
  ASSUME Frame, Stack, NEW tr, NEW st, NEW pu, NEW fi, NEW rn, NEW op, NEW d,
         Stays(tr, st, pu, fi, rn, op, d),
         Popped(tr, st, pu)
  PROVE  Stack'
<1>1. ~iter.copy /\ Pop /\ (Len(st) + B(pu)) + 1 = Len(iter.stack) + B(iter.pushed)
  BY DEF Popped
<1>2. /\ Own = iter /\ Own'.stack = st /\ Own'.pushed = pu /\ Around' = Way(tree.kids)[tr]
      /\ tree'.params = tree.params /\ InOrder' = InOrder /\ Len(st) \in Nat
         /\ Len(iter.stack) \in Nat
  BY <1>1, OwnNext
<1>3. lvl \in Nat \ {0} /\ lvl >= 1 + Len(iter.stack) + B(iter.pushed)
      /\ (InOrder => lvl = 1 + Len(iter.stack) + B(iter.pushed))
  BY <1>2 DEF Stack, Slotted, Levels
<1>4. B(pu) \in {0, 1} /\ B(iter.pushed) \in {0, 1}
  BY DEF B
<1>5. lvl >= 2 /\ lvl - 1 >= 1 + Len(st) + B(pu) /\ (InOrder => lvl - 1 = 1 + Len(st) + B(pu))
  <2>1. PICK a, b, e : a = B(pu) /\ b = B(iter.pushed) /\ e = Len(iter.stack)
    OBVIOUS
  <2>2. QED BY <1>1, <1>2, <1>3, <1>4, <2>1
<1>6. /\ Slotted' /\ lvl' = lvl - 1 /\ base' = base
      /\ \A o \in Saved : value'[o] = slots[o][lvl].val
         /\ \A i \in 1 .. lvl : slots'[o][i] = slots[o][i]
  BY <1>1, <1>5, PopIs DEF Stack
<1>7. Levels'
  BY <1>2, <1>5, <1>6 DEF Levels
<1>8. ASSUME InOrder, NEW i \in 0 .. lvl - 2, NEW o
      PROVE  OptAt(Outer(o)', tree', Around', i, o) = OptAt(Outer(o), tree, Around, i, o)
  <2>1. \A j \in 1 .. i : j \in 1 .. lvl - 2
    BY <1>3
  <2>2. \A j \in 1 .. i : Around'[j] = Around[j]
    BY <1>2, <1>8, <2>1 DEF Along, Popped
  <2>3. \A j \in 1 .. i : tree'.params[Around'[j]] = tree.params[Around[j]]
    BY <1>2, <2>2
  <2>4. PICK x, t, u, q, r : /\ x = Outer(o) /\ t = tree' /\ u = tree /\ q = Around' /\ r = Around
    OBVIOUS
  <2>a. Outer(o)' = x
    BY <1>6, <2>4 DEF Outer
  <2>5. i \in Nat /\ Alike(t, q, u, r, i)
    BY <2>3, <2>4 DEF Alike
  <2>6. OptAt(x, t, q, i, o) = OptAt(x, u, r, i, o)
    BY <2>5, OptSame
  <2>7. QED BY <2>4, <2>a, <2>6, Zenon
<1>9. /\ lvl' - 1 = lvl - 2 /\ lvl - 2 \in 0 .. lvl - 2 /\ (lvl - 2) + 2 = lvl
      /\ \A i \in 0 .. lvl' - 2 : i \in 0 .. lvl - 2 /\ i + 2 \in 1 .. lvl
  BY <1>3, <1>5, <1>6
<1>10. ASSUME InOrder, NEW o \in Saved
       PROVE  /\ \A i \in 0 .. lvl' - 2 : Kept(o, i) => slots'[o][i + 2].val = OptAt(Outer(o)', tree', Around', i, o)
              /\ Kept(o, lvl' - 1) => value'[o] = OptAt(Outer(o)', tree', Around', lvl' - 1, o)
  <2>1. \A i \in 0 .. lvl - 2 : Kept(o, i) => slots[o][i + 2].val = OptAt(Outer(o), tree, Around, i, o)
    BY <1>10 DEF Contents, Stack
  <2>2. \A i \in 0 .. lvl - 2 : Kept(o, i) => slots[o][i + 2].val = OptAt(Outer(o)', tree', Around', i, o)
    BY <1>8, <1>10, <2>1
  <2>3. QED BY <1>6, <1>9, <2>2
<1>11. Contents'
  BY <1>2, <1>10 DEF Contents
<1>12. QED BY <1>6, <1>7, <1>11 DEF Stack

(* and one that pushes: the options are those of the new place.            *)
LEMMA PushedStack ==
  ASSUME Frame, Stack, NEW tr, NEW st, NEW pu, NEW fi, NEW rn, NEW op, NEW d,
         Stays(tr, st, pu, fi, rn, op, d),
         NEW n, PushedOn(tr, st, pu, n)
  PROVE  Stack'
<1>1. ~iter.copy /\ ~iter.pushed /\ n \in Nodes /\ Push(tree.params[n])
      /\ Len(st) + B(pu) = Len(iter.stack) + 1
  BY DEF PushedOn
<1>2. /\ Own = iter /\ Own'.stack = st /\ Own'.pushed = pu /\ Around' = Way(tree.kids)[tr]
      /\ tree'.params = tree.params /\ InOrder' = InOrder /\ Len(st) \in Nat
         /\ Len(iter.stack) \in Nat
  BY <1>1, OwnNext
<1>3. lvl \in Nat \ {0} /\ lvl >= 1 + Len(iter.stack) /\ (InOrder => lvl = 1 + Len(iter.stack))
  BY <1>1, <1>2 DEF Stack, Slotted, Levels, B
<1>4. OptionSet(tree.params[n])
  BY <1>1, TreeFacts DEF Frame
<1>5. PICK p : p = tree.params[n]
  OBVIOUS
<1>6. /\ Slotted' /\ lvl' = lvl + 1 /\ base' = IF lvl = 1 THEN value ELSE base
      /\ \A o \in Saved :
           /\ value'[o] = IF o \in DOMAIN p THEN p[o] ELSE value[o]
           /\ Kept(o, lvl - 1) => slots'[o][lvl + 1].val = value[o]
           /\ \A i \in 1 .. lvl : Kept(o, i - 2) => slots'[o][i] = slots[o][i]
  <2>1. OptionSet(p) /\ Push(p) /\ Slotted
    BY <1>1, <1>4, <1>5 DEF Stack
  <2>2. QED BY <2>1, PushIs
<1>7. Levels'
  <2>1. B(pu) \in {0, 1}
    BY DEF B
  <2>2. PICK a : a = B(pu)
    OBVIOUS
  <2>3. lvl + 1 >= 1 + Len(st) + a /\ (InOrder => lvl + 1 = 1 + Len(st) + a)
    BY <1>1, <1>2, <1>3, <2>1, <2>2
  <2>4. QED BY <1>2, <1>6, <2>2, <2>3 DEF Levels
<1>8. ASSUME InOrder, NEW i \in 0 .. lvl - 1, NEW o, Kept(o, lvl - 1)
      PROVE  OptAt(Outer(o)', tree', Around', i, o) = OptAt(Outer(o), tree, Around, i, o)
  <2>1. \A j \in 1 .. i : j \in 1 .. lvl - 1
    BY <1>3
  <2>2. \A j \in 1 .. i : Around'[j] = Around[j]
    BY <1>2, <1>8, <2>1 DEF Along, PushedOn
  <2>3. \A j \in 1 .. i : tree'.params[Around'[j]] = tree.params[Around[j]]
    BY <1>2, <2>2
  <2>4. PICK x, t, u, q, r : /\ x = Outer(o) /\ t = tree' /\ u = tree /\ q = Around' /\ r = Around
    OBVIOUS
  <2>5. i \in Nat /\ Alike(t, q, u, r, i)
    BY <2>3, <2>4 DEF Alike
  <2>6. OptAt(x, t, q, i, o) = OptAt(x, u, r, i, o)
    BY <2>5, OptSame
  <2>7. Outer(o)' = x
    BY <1>3, <1>6, <1>8, <2>4 DEF Outer, Kept
  <2>8. QED BY <2>4, <2>6, <2>7, Zenon
<1>9. /\ lvl' - 1 = lvl /\ lvl - 1 \in 0 .. lvl - 1 /\ (lvl - 1) + 1 = lvl /\ lvl - 1 \in Nat
         /\ (lvl - 1) + 2 = lvl + 1
      /\ \A i \in 0 .. lvl' - 2 : i = lvl - 1
         \/ (/\ i \in 0 .. lvl - 2 /\ i \in 0 .. lvl - 1 /\ i + 2 \in 1 .. lvl /\ (i + 2) - 2 = i
             /\ lvl - 1 > 0)
  BY <1>3, <1>6
<1>10. ASSUME InOrder, NEW o \in Saved
       PROVE  /\ \A i \in 0 .. lvl' - 2 :
                   Kept(o, i) => slots'[o][i + 2].val = OptAt(Outer(o)', tree', Around', i, o)
              /\ value'[o] = OptAt(Outer(o)', tree', Around', lvl' - 1, o)
  <2>1. /\ \A i \in 0 .. lvl - 2 :
             Kept(o, i) => slots[o][i + 2].val = OptAt(Outer(o), tree, Around, i, o)
        /\ Kept(o, lvl - 1) => value[o] = OptAt(Outer(o), tree, Around, lvl - 1, o)
    BY <1>1, <1>2, <1>10 DEF Contents, Stack
  <2>2. \A i \in 0 .. lvl' - 2 : Kept(o, i) => slots'[o][i + 2].val = OptAt(Outer(o)', tree', Around', i, o)
    <3>1. ASSUME NEW i \in 0 .. lvl - 2, i \in 0 .. lvl - 1, i + 2 \in 1 .. lvl, (i + 2) - 2 = i,
                 lvl - 1 > 0, Kept(o, i)
          PROVE  slots'[o][i + 2].val = OptAt(Outer(o)', tree', Around', i, o)
      <4>1. Kept(o, lvl - 1) /\ slots'[o][i + 2] = slots[o][i + 2]
        BY <1>6, <1>10, <3>1 DEF Kept
      <4>2. QED BY <1>8, <1>10, <2>1, <3>1, <4>1
    <3>2. Kept(o, lvl - 1) =>
            slots'[o][(lvl - 1) + 2].val = OptAt(Outer(o)', tree', Around', lvl - 1, o)
      BY <1>6, <1>8, <1>9, <1>10, <2>1
    <3>3. QED BY <1>9, <3>1, <3>2
  <2>3. Around'[lvl] = n
    BY <1>2, <1>10 DEF PushedOn
  <2>4. tree'.params[Around'[(lvl - 1) + 1]] = p
    BY <1>2, <1>5, <1>9, <2>3
  <2>5. OptAt(Outer(o)', tree', Around', (lvl - 1) + 1, o)
          = IF o \in DOMAIN p THEN p[o] ELSE OptAt(Outer(o)', tree', Around', lvl - 1, o)
    <3>1. PICK x, t, q, m : x = Outer(o)' /\ t = tree' /\ q = Around' /\ m = lvl - 1
      OBVIOUS
    <3>2. m \in Nat /\ t.params[q[m + 1]] = p
      BY <1>9, <2>4, <3>1
    <3>3. OptAt(x, t, q, m + 1, o)
            = IF o \in DOMAIN t.params[q[m + 1]] THEN t.params[q[m + 1]][o] ELSE OptAt(x, t, q, m, o)
      BY <3>2, OptNext
    <3>4. OptAt(x, t, q, m + 1, o) = IF o \in DOMAIN p THEN p[o] ELSE OptAt(x, t, q, m, o)
      BY <3>2, <3>3
    <3>5. QED BY <3>1, <3>4, Zenon
  <2>6. OptAt(Outer(o)', tree', Around', lvl - 1, o) = value[o]
    <3>1. CASE Kept(o, lvl - 1)
      BY <1>8, <1>9, <1>10, <2>1, <3>1
    <3>2. CASE ~Kept(o, lvl - 1)
      <4>1. o \in Aliased /\ lvl = 1 /\ lvl - 1 = 0
        BY <1>3, <3>2 DEF Kept
      <4>2. PICK x, t, q : x = Outer(o)' /\ t = tree' /\ q = Around'
        OBVIOUS
      <4>3. x = value[o]
        BY <1>6, <4>1, <4>2 DEF Outer
      <4>4. OptAt(x, t, q, 0, o) = x
        BY OptNone
      <4>5. QED BY <4>1, <4>2, <4>3, <4>4, Zenon
    <3>3. QED BY <3>1, <3>2
  <2>7. value'[o] = OptAt(Outer(o)', tree', Around', lvl, o)
    BY <1>6, <1>9, <2>5, <2>6
  <2>8. QED BY <1>9, <2>2, <2>7
<1>11. Contents'
  BY <1>2, <1>10 DEF Contents
<1>12. QED BY <1>6, <1>7, <1>11 DEF Stack

-----------------------------------------------------------------------------
(* A step of a call only marks nodes as played and counts laps.            *)
Marked == \E l \in [Nodes -> Int], pl \in SUBSET Nodes : tree' = Altered(tree, tree.kids, l, pl)

(* With other flags and laps it is the same tree.                          *)
LEMMA TreeKept ==
  ASSUME Well(tree), tree' = tree \/ Marked
  PROVE  SameTree /\ Well(tree')
<1>1. CASE tree' = tree
  BY <1>1 DEF SameTree
<1>2. CASE Marked
  <2>1. PICK l \in [Nodes -> Int], pl \in SUBSET Nodes : tree' = Altered(tree, tree.kids, l, pl)
    BY <1>2 DEF Marked
  <2>2. PICK t, u : t = tree /\ u = tree'
    OBVIOUS
  <2>3. Well(t) /\ u = Altered(t, t.kids, l, pl)
    BY <2>1, <2>2
  <2>4. Well(u) /\ IsAltered(t, t.kids, l, pl, u)
    BY <2>3, SameWell
  <2>5. QED BY <2>2, <2>4 DEF SameTree, IsAltered
<1>3. QED BY <1>1, <1>2

(* Marking a node as played is such a change.                              *)
LEMMA PlayedMark ==
  ASSUME Frame, NEW n \in Nodes,
         tree' = IF iter.rnd /\ ~iter.copy THEN [tree EXCEPT !.played = @ \cup {n}] ELSE tree
  PROVE  (tree' = tree \/ Marked) /\ (InOrder => tree' = tree)
<1>1. InOrder => ~iter.rnd
  BY IterIs DEF Frame
<1>2. Typed(tree) /\ tree.loop \in [Nodes -> Int] /\ tree.played \subseteq Nodes
  BY TreeFacts DEF Frame
<1>3. PICK p : p = tree.played \cup {n}
  OBVIOUS
<1>4. p \in SUBSET Nodes
  BY <1>2, <1>3
<1>5. [tree EXCEPT !.played = tree.played \cup {n}] = [tree EXCEPT !.played = p]
  BY <1>3
<1>6. [tree EXCEPT !.played = p] = Altered(tree, tree.kids, tree.loop, p)
  BY <1>2, TreeFields
<1>7. CASE iter.rnd /\ ~iter.copy
  <2>1. tree' = [tree EXCEPT !.played = tree.played \cup {n}]
    BY <1>7, <1>2 DEF Typed
  <2>2. tree' = Altered(tree, tree.kids, tree.loop, p)
    BY <1>5, <1>6, <2>1
  <2>3. Marked
    BY <1>2, <1>4, <2>2 DEF Marked
  <2>4. QED BY <1>1, <1>7, <2>3
<1>8. CASE ~(iter.rnd /\ ~iter.copy)
  BY <1>8
<1>9. QED BY <1>7, <1>8

(* Ways that go through the same groups                                    *)
Agree(p, q, l) == \A j \in 1 .. l : p[j] = q[j]

(* The path of a child goes along the path of its group.                   *)
LEMMA ChildWay ==
  ASSUME NEW k \in Kids, IsForest(k), TopFirst(k), NEW n \in Nodes, NEW g, g = Par(k, n), g # NONE
  PROVE  /\ g \in Nodes /\ Agree(Way(k)[n], Way(k)[g], Len(Way(k)[g]))
            /\ Way(k)[n][Len(Way(k)[g]) + 1] = n
         /\ Len(Way(k)[n]) = Len(Way(k)[g]) + 1 /\ Len(Way(k)[g]) \in Nat \ {0}
         /\ InTree(k, n) <=> InTree(k, g)
<1>1. g \in Nodes /\ Way(k)[n] = Append(Way(k)[g], n) /\ Len(Way(k)[n]) = Len(Way(k)[g]) + 1
      /\ (InTree(k, n) <=> InTree(k, g))
  BY Grouped
<1>2. Way(k)[g] \in Seq(Nodes) /\ Len(Way(k)[g]) \in Nat \ {0}
  BY <1>1, WayParts
<1>3. PICK p : p = Way(k)[g]
  OBVIOUS
<1>4. Agree(Append(p, n), p, Len(p)) /\ Append(p, n)[Len(p) + 1] = n
  BY <1>2, <1>3 DEF Agree
<1>5. QED BY <1>1, <1>2, <1>3, <1>4

(* Paths of nodes beside each other differ in their ends only.             *)
LEMMA BesideWay ==
  ASSUME NEW k \in Kids, IsForest(k), TopFirst(k), NEW n \in Nodes, NEW m \in Nodes,
         Par(k, n) = Par(k, m)
  PROVE  Agree(Way(k)[n], Way(k)[m], Len(Way(k)[m]) - 1)
<1>1. CASE Par(k, m) = NONE
  <2>1. Len(Way(k)[m]) = 1
    BY <1>1, Ungrouped
  <2>2. QED BY <2>1 DEF Agree
<1>2. CASE Par(k, m) # NONE
  <2>1. PICK g : g = Par(k, m)
    OBVIOUS
  <2>2. /\ Agree(Way(k)[n], Way(k)[g], Len(Way(k)[g]))
           /\ Agree(Way(k)[m], Way(k)[g], Len(Way(k)[g]))
        /\ Len(Way(k)[m]) = Len(Way(k)[g]) + 1 /\ Len(Way(k)[g]) \in Nat
    BY <1>2, <2>1, ChildWay
  <2>3. Len(Way(k)[m]) - 1 = Len(Way(k)[g])
    BY <2>2
  <2>4. QED BY <2>2, <2>3 DEF Agree
<1>3. QED BY <1>1, <1>2

(* In order, the level of the options is the depth of the place.           *)
LEMMA LevelIs ==
  ASSUME Frame, Stack, ~iter.copy, iter.tree # NONE, InOrder
  PROVE  /\ lvl = Len(Way(tree.kids)[iter.tree]) + B(iter.pushed)
            /\ Around = Way(tree.kids)[iter.tree]
         /\ Len(Way(tree.kids)[iter.tree]) \in Nat \ {0} /\ Own = iter
<1>1. Own = iter
  BY DEF Own
<1>2. lvl = 1 + Len(iter.stack) + B(iter.pushed)
  BY <1>1 DEF Stack, Levels
<1>3. Len(iter.stack) = Len(Way(tree.kids)[iter.tree]) - 1 /\ iter.tree \in Nodes
  BY IterIs DEF Frame
<1>4. Len(Way(tree.kids)[iter.tree]) \in Nat \ {0}
  BY <1>3, TreeFacts, WayParts DEF Frame
<1>5. B(iter.pushed) \in {0, 1}
  BY DEF B
<1>6. PICK a, b : a = B(iter.pushed) /\ b = Len(Way(tree.kids)[iter.tree])
  OBVIOUS
<1>7. lvl = b + a
  BY <1>2, <1>3, <1>4, <1>5, <1>6
<1>8. QED BY <1>1, <1>4, <1>6, <1>7 DEF Around

Core   == Frame /\ Pushed /\ Free /\ Stack
Steady == SameTree /\ UNCHANGED player

(* A step that keeps the options keeps all of the core.                    *)
LEMMA CoreNext ==
  ASSUME Core, NEW tr, NEW st, NEW pu, NEW fi, NEW rn, NEW op, NEW d,
         Stays(tr, st, pu, fi, rn, op, d),
         Even(tr, st, pu) \/ Popped(tr, st, pu) \/ \E n : PushedOn(tr, st, pu, n)
  PROVE  Core' /\ Steady
<1>1. Frame /\ Stack /\ Free
  BY DEF Core
<1>2. Frame' /\ Pushed' /\ Free'
  BY <1>1, StaysFrame
<1>3. ASSUME Even(tr, st, pu) PROVE Core'
  BY <1>1, <1>2, <1>3, EvenStack DEF Core
<1>4. ASSUME Popped(tr, st, pu) PROVE Core'
  BY <1>1, <1>2, <1>4, PoppedStack DEF Core
<1>5. ASSUME NEW n, PushedOn(tr, st, pu, n) PROVE Core'
  BY <1>1, <1>2, <1>5, PushedStack DEF Core
<1>6. Steady
  BY DEF Stays, Steady
<1>7. QED BY <1>3, <1>4, <1>5, <1>6

-----------------------------------------------------------------------------

(* What is known when a step of a call is taken                            *)
LEMMA Here0 ==
  ASSUME Core
  PROVE  /\ Frame /\ Stack /\ Pushed /\ iter \in Iters /\ iter.stack \in Seq(Int)
            /\ Len(iter.stack) \in Nat
         /\ iter.pushed \in BOOLEAN /\ iter.copy \in BOOLEAN /\ iter.file >= -1 /\ call.d \in Int
         /\ (InOrder => ~iter.rnd) /\ lvl \in Nat \ {0}
         /\ tree.kids \in Kids /\ IsForest(tree.kids) /\ TopFirst(tree.kids) /\ Well(tree)
<1>1. Frame /\ Stack /\ Pushed /\ Well(tree)
  BY DEF Core, Frame
<1>2. iter.stack \in Seq(Int)
  BY <1>1, IterIs DEF Frame
<1>3. /\ iter \in Iters /\ iter.pushed \in BOOLEAN /\ iter.copy \in BOOLEAN /\ iter.file >= -1
         /\ call.d \in Int
      /\ (InOrder => ~iter.rnd)
  BY <1>1, IterIs DEF Frame
<1>4. tree.kids \in Kids /\ IsForest(tree.kids) /\ TopFirst(tree.kids)
  BY <1>1, TreeFacts
<1>5. lvl \in Nat \ {0}
  BY <1>1 DEF Stack, Slotted
<1>6. Len(iter.stack) \in Nat
  BY <1>2
<1>7. QED BY <1>1, <1>2, <1>3, <1>4, <1>5, <1>6

(* StepAtRoot keeps the core: nothing is pushed above the root.            *)
LEMMA StepAtRootKeeps ==
  ASSUME Core, StepAtRoot
  PROVE  Core' /\ Steady
<1>1. /\ call.op = "step" /\ iter.tree = NONE
      /\ IterTo(Root, iter.stack, iter.pushed, iter.file, iter.rnd) /\ CallTo("step", 0)
      /\ UNCHANGED <<tree, config, player>>
  BY StepAtRootDoes DEF Core
<1>2. iter.stack = <<>> /\ ~iter.pushed /\ (InOrder => ~iter.rnd) /\ iter.file >= -1
  BY <1>1, IterIs DEF Core, Frame
<1>3. Root \in Nodes /\ InTree(tree.kids, Root) /\ Len(Way(tree.kids)[Root]) = 1
  <2>1. Root \in Nodes /\ InTree(tree.kids, Root) /\ Way(tree.kids)[Root] = <<Root>>
    BY Here0, TheRoot
  <2>2. Len(<<Root>>) = 1
    OBVIOUS
  <2>3. QED BY <2>1, <2>2
<1>4. SameTree /\ Well(tree')
  BY <1>1, Here0, TreeKept
<1>5. Stays(Root, iter.stack, iter.pushed, iter.file, iter.rnd, "step", 0)
  BY <1>1, <1>2, <1>3, <1>4 DEF Stays, Running
<1>6. ~iter.copy
  BY <1>1 DEF Core, Frame, Places
<1>7. InOrder => lvl = 1
  <2>1. Own = iter
    BY <1>6 DEF Own
  <2>2. QED BY <1>2, <2>1 DEF Core, Stack, Levels, B
<1>8. Even(Root, iter.stack, iter.pushed)
  BY <1>1, <1>2, <1>7 DEF Even, Along
<1>9. QED BY <1>5, <1>8, CoreNext

(* Leave keeps the core: the options of the entry are popped.              *)
LEMMA LeaveKeeps ==
  ASSUME Core, Leave
  PROVE  Core' /\ Steady
<1>1. /\ call.op = "step" /\ iter.tree # NONE
      /\ IterTo(iter.tree, iter.stack, iter.pushed /\ iter.copy, -1, Par(tree.kids, iter.tree) \in tree.rnd)
      /\ CallTo("move", call.d) /\ UNCHANGED <<tree, player>>
      /\ IF iter.pushed /\ ~iter.copy THEN Pop ELSE UNCHANGED config
  BY LeaveDoes DEF Core
<1>2. /\ iter.tree \in Nodes /\ InTree(tree.kids, iter.tree)
      /\ Len(iter.stack) >= Len(Way(tree.kids)[iter.tree]) - 1
      /\ InOrder => Len(iter.stack) = Len(Way(tree.kids)[iter.tree]) - 1
      /\ call.d \in Int
  BY <1>1, IterIs DEF Core, Frame
<1>3. SameTree /\ Well(tree')
  BY <1>1, Here0, TreeKept
<1>4. PICK pu, rn : pu = (iter.pushed /\ iter.copy) /\ rn = (Par(tree.kids, iter.tree) \in tree.rnd)
  OBVIOUS
<1>5. InOrder => ~rn
  BY <1>4 DEF InOrder
<1>6. IterTo(iter.tree, iter.stack, pu, -1, rn)
  BY <1>1, <1>4, Zenon
<1>7. Stays(iter.tree, iter.stack, pu, -1, rn, "move", call.d)
  <2>1. Running
    BY <1>1 DEF Running
  <2>2. UNCHANGED player /\ CallTo("move", call.d)
    BY <1>1
  <2>3. rn = (Par(tree.kids, iter.tree) \in tree.rnd)
    BY <1>4
  <2>4. ~iter.copy => ~pu
    BY <1>4
  <2>5. -1 >= -1
    OBVIOUS
  <2> HIDE <1>1, <1>4
  <2>6. QED BY <1>2, <1>3, <1>5, <1>6, <2>1, <2>2, <2>3, <2>4, <2>5 DEF Stays
<1>8. CASE iter.copy \/ ~iter.pushed
  <2>1. UNCHANGED config /\ ~iter.copy => ~iter.pushed /\ ~pu
    BY <1>1, <1>4, <1>8
  <2>2. ASSUME ~iter.copy, InOrder PROVE Along(iter.tree, lvl - 1)
    BY <1>1, <2>2, Here0, LevelIs DEF Along
  <2>3. UNCHANGED config
    BY <1>1, <1>8
  <2>4. Even(iter.tree, iter.stack, pu)
    BY <1>4, <1>8, <2>2, <2>3 DEF Even
  <2>5. QED BY <1>7, <2>4, CoreNext
<1>9. CASE ~iter.copy /\ iter.pushed
  <2>1. ASSUME InOrder PROVE Along(iter.tree, lvl - 2)
    BY <1>1, <1>9, <2>1, Here0, LevelIs DEF Along
  <2>2. Pop
    BY <1>1, <1>9
  <2>3. (Len(iter.stack) + B(pu)) + 1 = Len(iter.stack) + B(iter.pushed)
    <3>1. B(pu) = 0
      BY <1>4, <1>9 DEF B
    <3>2. B(iter.pushed) = 1
      BY <1>9 DEF B
    <3>3. QED BY <3>1, <3>2, Here0
  <2>4. Popped(iter.tree, iter.stack, pu)
    BY <1>9, <2>1, <2>2, <2>3 DEF Popped
  <2>5. QED BY <1>7, <2>4, CoreNext
<1>10. QED BY <1>8, <1>9

(* Move keeps the core: at an entry its options are pushed.                *)
LEMMA MoveKeeps ==
  ASSUME Core, Move
  PROVE  Core' /\ Steady
<1>1. call.op = "move" /\ iter.tree # NONE
  BY MoveDoes DEF Core
<1>2. PICK n \in Targets :
              \/ /\ n \notin Entries /\ tree.kids[n] # <<>>
                    /\ IterTo(n, iter.stack, iter.pushed, iter.file, iter.rnd)
                 /\ IF call.nodes THEN CallTo("NODE", call.d) ELSE CallTo("down", Rest)
                 /\ UNCHANGED <<tree, config, player>>
              \/ /\ n \in Entries
                    /\ IterTo(n, iter.stack, iter.pushed \/ ~iter.copy, iter.file, iter.rnd)
                 /\ CallTo("ENTRY", call.d) /\ UNCHANGED player
                 /\ PushFor(n)
                 /\ tree' = IF iter.rnd /\ ~iter.copy THEN [tree EXCEPT !.played = @ \cup {n}] ELSE tree
  BY MoveDoes DEF Core
<1>3. /\ n \in Nodes /\ InTree(tree.kids, n) /\ Par(tree.kids, n) = Par(tree.kids, iter.tree)
      /\ Len(Way(tree.kids)[n]) = Len(Way(tree.kids)[iter.tree])
  BY <1>1, Here0, TargetIs
<1>4. /\ iter.tree \in Nodes
      /\ Len(iter.stack) >= Len(Way(tree.kids)[n]) - 1
      /\ InOrder => Len(iter.stack) = Len(Way(tree.kids)[n]) - 1
      /\ call.d \in Int
  BY <1>1, <1>3, IterIs DEF Core, Frame
<1>5. Rest \in Int
  BY <1>1, RestIs DEF Core, Frame
<1>6. ~iter.copy => ~iter.pushed
  BY <1>1 DEF Core, Pushed
<1>7. Agree(Way(tree.kids)[n], Way(tree.kids)[iter.tree], Len(Way(tree.kids)[n]) - 1)
  BY <1>3, <1>4, Here0, BesideWay
<1>8. ASSUME ~iter.copy, InOrder
      PROVE  Along(n, lvl - 1) /\ lvl = Len(Way(tree.kids)[n])
  <2>1. lvl = Len(Way(tree.kids)[iter.tree]) + B(iter.pushed) /\ Around = Way(tree.kids)[iter.tree]
        /\ Len(Way(tree.kids)[iter.tree]) \in Nat
    BY <1>1, <1>8, Here0, LevelIs
  <2>2. B(iter.pushed) = 0
    BY <1>6, <1>8 DEF B
  <2>3. lvl = Len(Way(tree.kids)[n])
    BY <1>3, <2>1, <2>2
  <2>4. QED BY <1>7, <2>1, <2>3 DEF Along, Agree
<1>9. ASSUME n \notin Entries, tree.kids[n] # <<>>,
             IterTo(n, iter.stack, iter.pushed, iter.file, iter.rnd),
             IF call.nodes THEN CallTo("NODE", call.d) ELSE CallTo("down", Rest),
             UNCHANGED <<tree, config, player>>
      PROVE  Core' /\ Steady
  <2>1. SameTree /\ Well(tree')
    BY <1>9, Here0, TreeKept
  <2>2. Even(n, iter.stack, iter.pushed)
    BY <1>6, <1>8, <1>9 DEF Even
  <2>3. PICK op, d : op = (IF call.nodes THEN "NODE" ELSE "down")
        /\ d = (IF call.nodes THEN call.d ELSE Rest)
    OBVIOUS
  <2>4. CallTo(op, d) /\ d \in Int /\ op \in {"NODE", "down"} /\ (op = "NODE" => call.nodes)
    BY <1>4, <1>5, <1>9, <2>3
  <2>5. ~iter.copy => /\ op \in {"move", "down", "NODE", "END"} => ~iter.pushed
                      /\ op = "ENTRY" => iter.pushed
                      /\ iter.pushed /\ n = Root => op = "step"
                      /\ op = "END" /\ InOrder => n = Root
    BY <1>6, <2>4
  <2>6. Stays(n, iter.stack, iter.pushed, iter.file, iter.rnd, op, d)
    BY <1>1, <1>3, <1>4, <1>9, <2>1, <2>4, <2>5, Here0 DEF Stays, Running
  <2>7. QED BY <2>2, <2>6, CoreNext
<1>10. ASSUME n \in Entries, IterTo(n, iter.stack, iter.pushed \/ ~iter.copy, iter.file, iter.rnd),
              CallTo("ENTRY", call.d), UNCHANGED player, PushFor(n),
              tree' = IF iter.rnd /\ ~iter.copy THEN [tree EXCEPT !.played = @ \cup {n}] ELSE tree
       PROVE  Core' /\ Steady
  <2>1. SameTree /\ Well(tree')
    <3>1. tree' = tree \/ Marked
      BY <1>3, <1>10, Here0, PlayedMark
    <3>2. QED BY <3>1, Here0, TreeKept
  <2>2. PICK pu : pu = (iter.pushed \/ ~iter.copy)
    OBVIOUS
  <2>3. IterTo(n, iter.stack, pu, iter.file, iter.rnd)
    BY <1>10, <2>2, Zenon
  <2>4. n # Root
    BY <1>10, TreeAssumption
  <2>5. ~iter.copy => pu
    BY <2>2
  <2>6. Stays(n, iter.stack, pu, iter.file, iter.rnd, "ENTRY", call.d)
    BY <1>1, <1>3, <1>4, <1>10, <2>1, <2>3, <2>4, <2>5, Here0 DEF Stays, Running
  <2>7. CASE iter.copy
    <3>1. Even(n, iter.stack, pu)
      BY <1>10, <2>7 DEF Even, PushFor
    <3>2. QED BY <2>6, <3>1, CoreNext
  <2>8. CASE ~iter.copy
    <3>1. Push(tree.params[n]) /\ ~iter.pushed /\ Len(iter.stack) + B(pu) = Len(iter.stack) + 1
      BY <1>6, <1>10, <2>5, <2>8 DEF PushFor, B
    <3>2. ASSUME InOrder PROVE Way(tree.kids)[n][lvl] = n
      BY <1>3, <1>8, <2>8, <3>2, Here0, WayParts
    <3>3. PushedOn(n, iter.stack, pu, n)
      BY <1>3, <1>8, <2>8, <3>1, <3>2 DEF PushedOn
    <3>4. QED BY <2>6, <3>3, CoreNext
  <2>9. QED BY <2>7, <2>8
<1>11. QED BY <1>2, <1>9, <1>10

(* ShuffleAgain keeps the core.                                            *)
LEMMA ShuffleAgainKeeps ==
  ASSUME Core, ShuffleAgain
  PROVE  Core' /\ Steady
<1>1. call.op = "move" /\ iter.tree # NONE /\ iter.rnd /\ IterKept /\ UNCHANGED <<config, player>>
  BY ShuffleAgainDoes DEF Core
<1>2. \/ CallTo("END", call.d) /\ tree' = tree
      \/ /\ CallTo("step", 0)
         /\ \E l \in [Nodes -> Int] : tree' = [tree EXCEPT !.played = {}, !.loop = l]
  BY ShuffleAgainDoes DEF Core
<1>3. tree' = tree \/ Marked
  <2>1. ASSUME NEW l \in [Nodes -> Int], tree' = [tree EXCEPT !.played = {}, !.loop = l]
        PROVE Marked
    <3>1. PICK p : p = {}
      OBVIOUS
    <3>2. Typed(tree)
      BY Here0, TreeFacts
    <3>a. PICK t, h : t = tree /\ h = tree.kids
      OBVIOUS
    <3>b. Typed(t)
      BY <3>2, <3>a
    <3>c. [t EXCEPT !.played = p, !.loop = l] = Altered(t, t.kids, l, p)
      <4>1. t = [kids |-> t.kids, loop |-> t.loop, rnd |-> t.rnd, params |-> t.params, lists |-> t.lists, played |-> t.played]
        BY <3>b, TypedIs
      <4>2. PICK u : u = [t EXCEPT !.played = p, !.loop = l]
        OBVIOUS
      <4>3. u = TreeOf(t.kids, l, t.rnd, t.params, t.lists, p)
        BY <4>1, <4>2 DEF TreeOf
      <4>4. QED BY <4>2, <4>3 DEF Altered
    <3>3. [tree EXCEPT !.played = p, !.loop = l] = Altered(tree, tree.kids, l, p)
      BY <3>a, <3>c
    <3>4. tree' = Altered(tree, tree.kids, l, p) /\ p \in SUBSET Nodes
      BY <2>1, <3>1, <3>3
    <3>5. QED BY <3>4 DEF Marked
  <2>2. QED BY <1>2, <2>1
<1>4. SameTree /\ Well(tree')
  BY <1>3, Here0, TreeKept
<1>5. PICK op, d : CallTo(op, d) /\ op \in {"END", "step"} /\ d \in Int
  <2>1. 0 \in Int /\ call.d \in Int
    BY Here0
  <2>2. QED BY <1>2, <2>1
<1>6. /\ iter.tree \in Nodes /\ InTree(tree.kids, iter.tree)
      /\ Len(iter.stack) >= Len(Way(tree.kids)[iter.tree]) - 1
      /\ InOrder => Len(iter.stack) = Len(Way(tree.kids)[iter.tree]) - 1
  BY <1>1, IterIs DEF Core, Frame
<1>7. ~InOrder /\ (~iter.copy => ~iter.pushed)
  BY <1>1, Here0 DEF Pushed
<1>8. Stays(iter.tree, iter.stack, iter.pushed, iter.file, iter.rnd, op, d)
  BY <1>1, <1>4, <1>5, <1>6, <1>7, Here0 DEF Stays, Running, IterKept
<1>9. Even(iter.tree, iter.stack, iter.pushed)
  BY <1>1, <1>7 DEF Even
<1>10. QED BY <1>8, <1>9, CoreNext

(* LoopAround keeps the core: it stays in its group.                       *)
LEMMA LoopAroundKeeps ==
  ASSUME Core, LoopAround
  PROVE  Core' /\ Steady
<1>1. call.op = "move" /\ iter.tree # NONE /\ ~iter.rnd /\ CallTo("step", 0)
      /\ UNCHANGED <<tree, config, player>>
  BY LoopAroundDoes DEF Core
<1>2. PICK n \in Range(Sibs(tree.kids, iter.tree)) : IterTo(n, iter.stack, iter.pushed, iter.file, iter.rnd)
  BY LoopAroundDoes DEF Core
<1>3. /\ iter.tree \in Nodes /\ InTree(tree.kids, iter.tree)
      /\ Len(iter.stack) >= Len(Way(tree.kids)[iter.tree]) - 1
      /\ InOrder => Len(iter.stack) = Len(Way(tree.kids)[iter.tree]) - 1
  BY <1>1, IterIs DEF Core, Frame
<1>4. /\ n \in Nodes /\ InTree(tree.kids, n) /\ Par(tree.kids, n) = Par(tree.kids, iter.tree)
      /\ Len(Way(tree.kids)[n]) = Len(Way(tree.kids)[iter.tree])
  BY <1>3, Here0, BesideIs
<1>5. SameTree /\ Well(tree')
  BY <1>1, Here0, TreeKept
<1>6. ~iter.copy => ~iter.pushed
  BY <1>1, Here0 DEF Pushed
<1>7. Stays(n, iter.stack, iter.pushed, iter.file, iter.rnd, "step", 0)
  BY <1>1, <1>2, <1>3, <1>4, <1>5, <1>6, Here0 DEF Stays, Running
<1>8. ASSUME ~iter.copy, InOrder PROVE Along(n, lvl - 1)
  <2>1. lvl = Len(Way(tree.kids)[iter.tree]) + B(iter.pushed) /\ Around = Way(tree.kids)[iter.tree]
        /\ Len(Way(tree.kids)[iter.tree]) \in Nat
    BY <1>1, <1>8, Here0, LevelIs
  <2>2. B(iter.pushed) = 0
    BY <1>6, <1>8 DEF B
  <2>3. lvl = Len(Way(tree.kids)[iter.tree])
    BY <2>1, <2>2
  <2>4. Agree(Way(tree.kids)[n], Way(tree.kids)[iter.tree], Len(Way(tree.kids)[iter.tree]) - 1)
    BY <1>3, <1>4, Here0, BesideWay
  <2>5. QED BY <2>1, <2>3, <2>4 DEF Along, Agree
<1>9. Even(n, iter.stack, iter.pushed)
  BY <1>1, <1>6, <1>8 DEF Even
<1>10. QED BY <1>7, <1>9, CoreNext

(* ListDone keeps the core.                                                *)
LEMMA ListDoneKeeps ==
  ASSUME Core, ListDone
  PROVE  Core' /\ Steady
<1>1. call.op = "move" /\ iter.tree # NONE /\ CallTo("up", Rest) /\ IterKept
      /\ UNCHANGED <<tree, config, player>>
  BY ListDoneDoes DEF Core
<1>2. Rest \in Int
  BY <1>1, RestIs DEF Core, Frame
<1>3. /\ iter.tree \in Nodes /\ InTree(tree.kids, iter.tree)
      /\ Len(iter.stack) >= Len(Way(tree.kids)[iter.tree]) - 1
      /\ InOrder => Len(iter.stack) = Len(Way(tree.kids)[iter.tree]) - 1
  BY <1>1, IterIs DEF Core, Frame
<1>4. SameTree /\ Well(tree')
  BY <1>1, Here0, TreeKept
<1>5. ~iter.copy => ~iter.pushed
  BY <1>1, Here0 DEF Pushed
<1>6. Stays(iter.tree, iter.stack, iter.pushed, iter.file, iter.rnd, "up", Rest)
  BY <1>1, <1>2, <1>3, <1>4, <1>5, Here0 DEF Stays, Running, IterKept
<1>7. ASSUME ~iter.copy, InOrder PROVE Along(iter.tree, lvl - 1)
  BY <1>1, <1>7, Here0, LevelIs DEF Along
<1>8. Even(iter.tree, iter.stack, iter.pushed)
  BY <1>1, <1>5, <1>7 DEF Even
<1>9. QED BY <1>6, <1>8, CoreNext

(* Up keeps the core: the options of the group are popped.                 *)
LEMMA UpKeeps ==
  ASSUME Core, Up
  PROVE  Core' /\ Steady
<1> DEFINE g == Par(tree.kids, iter.tree)
<1>1. /\ call.op = "up" /\ iter.tree \in Nodes /\ g # NONE /\ Len(iter.stack) \in Nat \ {0}
      /\ IterTo(g, Front(iter.stack), iter.pushed, -1, iter.rnd)
      /\ Front(iter.stack) \in Seq(Int) /\ Len(Front(iter.stack)) = Len(iter.stack) - 1
      /\ CallTo("step", call.d) /\ UNCHANGED player /\ PopOne
      /\ tree' = IF iter.rnd /\ ~iter.copy THEN [tree EXCEPT !.played = @ \cup {g}] ELSE tree
  BY UpDoes DEF Core
<1>2. iter.tree # NONE
  BY <1>1, TreeAssumption
<1>3. /\ InTree(tree.kids, iter.tree)
      /\ Len(iter.stack) >= Len(Way(tree.kids)[iter.tree]) - 1
      /\ InOrder => Len(iter.stack) = Len(Way(tree.kids)[iter.tree]) - 1
  BY <1>2, IterIs DEF Core, Frame
<1>4. /\ g \in Nodes /\ Agree(Way(tree.kids)[iter.tree], Way(tree.kids)[g], Len(Way(tree.kids)[g]))
      /\ Len(Way(tree.kids)[iter.tree]) = Len(Way(tree.kids)[g]) + 1
         /\ Len(Way(tree.kids)[g]) \in Nat \ {0}
      /\ InTree(tree.kids, g)
  BY <1>1, <1>3, Here0, ChildWay
<1> HIDE DEF g
<1>5. SameTree /\ Well(tree')
  <2>1. tree' = tree \/ Marked
    BY <1>1, <1>4, Here0, PlayedMark
  <2>2. QED BY <2>1, Here0, TreeKept
<1>6. /\ Len(Front(iter.stack)) >= Len(Way(tree.kids)[g]) - 1
      /\ InOrder => Len(Front(iter.stack)) = Len(Way(tree.kids)[g]) - 1
  BY <1>1, <1>3, <1>4
<1>7. Stays(g, Front(iter.stack), iter.pushed, -1, iter.rnd, "step", call.d)
  BY <1>1, <1>4, <1>5, <1>6, Here0 DEF Stays, Running
<1>8. CASE iter.copy
  <2>1. Even(g, Front(iter.stack), iter.pushed)
    BY <1>1, <1>8 DEF Even, PopOne
  <2>2. QED BY <1>7, <2>1, CoreNext
<1>9. CASE ~iter.copy
  <2>1. Pop
    BY <1>1, <1>9 DEF PopOne
  <2>2. B(iter.pushed) \in {0, 1}
    BY DEF B
  <2>3. PICK a : a = B(iter.pushed)
    OBVIOUS
  <2>4. (Len(Front(iter.stack)) + a) + 1 = Len(iter.stack) + a
    BY <1>1, <2>2, <2>3
  <2>5. ASSUME InOrder PROVE Along(g, lvl - 2)
    <3>1. lvl = Len(Way(tree.kids)[iter.tree]) + a /\ Around = Way(tree.kids)[iter.tree]
      BY <1>2, <1>9, <2>3, <2>5, Here0, LevelIs
    <3>2. PICK l : l = Len(Way(tree.kids)[g])
      OBVIOUS
    <3>3. lvl = (l + 1) + a /\ l \in Nat
      BY <1>4, <3>1, <3>2
    <3>4. \A j \in 1 .. lvl - 2 : j \in 1 .. l
      BY <2>2, <2>3, <3>3
    <3>5. QED BY <1>4, <3>1, <3>2, <3>4 DEF Along, Agree
  <2>6. Popped(g, Front(iter.stack), iter.pushed)
    BY <1>9, <2>1, <2>3, <2>4, <2>5 DEF Popped
  <2>7. QED BY <1>7, <2>6, CoreNext
<1>10. QED BY <1>8, <1>9

(* UpAtTop keeps the core: at the top nothing is pushed.                   *)
LEMMA UpAtTopKeeps ==
  ASSUME Core, UpAtTop
  PROVE  Core' /\ Steady
<1>1. /\ call.op = "up" /\ iter.tree = Root /\ CallTo("END", call.d)
         /\ UNCHANGED <<tree, config, player>>
      /\ IterTo(iter.tree, iter.stack, iter.pushed, -1, iter.rnd)
  BY UpAtTopDoes DEF Core
<1>2. iter.tree # NONE
  BY <1>1, TreeAssumption
<1>3. /\ iter.tree \in Nodes /\ InTree(tree.kids, iter.tree)
      /\ Len(iter.stack) >= Len(Way(tree.kids)[iter.tree]) - 1
      /\ InOrder => Len(iter.stack) = Len(Way(tree.kids)[iter.tree]) - 1
  BY <1>2, IterIs DEF Core, Frame
<1>4. SameTree /\ Well(tree')
  BY <1>1, Here0, TreeKept
<1>5. ~iter.copy => ~iter.pushed
  BY <1>1, Here0 DEF Pushed
<1>6. Stays(iter.tree, iter.stack, iter.pushed, -1, iter.rnd, "END", call.d)
  BY <1>1, <1>3, <1>4, <1>5, Here0 DEF Stays, Running
<1>7. ASSUME ~iter.copy, InOrder PROVE Along(iter.tree, lvl - 1)
  BY <1>2, <1>7, Here0, LevelIs DEF Along
<1>8. Even(iter.tree, iter.stack, iter.pushed)
  BY <1>1, <1>5, <1>7 DEF Even
<1>9. QED BY <1>6, <1>8, CoreNext

(* Down keeps the core: the options of the group are pushed.               *)
LEMMA DownKeeps ==
  ASSUME Core, Down
  PROVE  Core' /\ Steady
<1> DEFINE g == iter.tree
<1>1. call.op = "down" /\ g \in Nodes /\ CallTo("step", 0) /\ UNCHANGED <<tree, player>>
      /\ PushFor(g)
  BY DownDoes DEF Core
<1>2. PICK n \in Range(tree.kids[g]), l \in Int :
              /\ n \in Nodes /\ Par(tree.kids, n) = g
                 /\ (call.d >= 0 => n = Head(tree.kids[iter.tree]))
              /\ IterTo(n, Append(iter.stack, l), iter.pushed, -1, iter.rnd)
              /\ Append(iter.stack, l) \in Seq(Int)
                 /\ Len(Append(iter.stack, l)) = Len(iter.stack) + 1
  BY DownDoes DEF Core
<1>3. g # NONE
  BY <1>1, TreeAssumption
<1>4. /\ InTree(tree.kids, g)
      /\ Len(iter.stack) >= Len(Way(tree.kids)[g]) - 1
      /\ InOrder => Len(iter.stack) = Len(Way(tree.kids)[g]) - 1
  BY <1>3, IterIs DEF Core, Frame
<1>5. /\ Agree(Way(tree.kids)[n], Way(tree.kids)[g], Len(Way(tree.kids)[g]))
         /\ Way(tree.kids)[n][Len(Way(tree.kids)[g]) + 1] = n
      /\ Len(Way(tree.kids)[n]) = Len(Way(tree.kids)[g]) + 1 /\ Len(Way(tree.kids)[g]) \in Nat \ {0}
      /\ InTree(tree.kids, n)
  BY <1>2, <1>3, <1>4, Here0, ChildWay
<1>6. SameTree /\ Well(tree')
  BY <1>1, Here0, TreeKept
<1>7. PICK st : st = Append(iter.stack, l)
  OBVIOUS
<1>8. /\ IterTo(n, st, iter.pushed, -1, iter.rnd) /\ Len(st) = Len(iter.stack) + 1
      /\ Len(st) >= Len(Way(tree.kids)[n]) - 1
      /\ InOrder => Len(st) = Len(Way(tree.kids)[n]) - 1
  BY <1>2, <1>4, <1>5, <1>7, Here0
<1>9. ~iter.copy => ~iter.pushed
  BY <1>1, Here0 DEF Pushed
<1>10. Stays(n, st, iter.pushed, -1, iter.rnd, "step", 0)
  BY <1>1, <1>2, <1>5, <1>6, <1>8, <1>9, Here0 DEF Stays, Running
<1>11. CASE iter.copy
  <2>1. Even(n, st, iter.pushed)
    BY <1>1, <1>11 DEF Even, PushFor
  <2>2. QED BY <1>10, <2>1, CoreNext
<1>12. CASE ~iter.copy
  <2>1. Push(tree.params[g]) /\ ~iter.pushed /\ Len(st) + B(iter.pushed) = Len(iter.stack) + 1
    <3>1. Push(tree.params[g]) /\ ~iter.pushed
      BY <1>1, <1>9, <1>12 DEF PushFor
    <3>2. B(iter.pushed) = 0
      BY <3>1 DEF B
    <3>3. QED BY <1>8, <3>1, <3>2, Here0
  <2>2. ASSUME InOrder PROVE Along(n, lvl - 1) /\ Way(tree.kids)[n][lvl] = g
    <3>1. lvl = Len(Way(tree.kids)[g]) + B(iter.pushed) /\ Around = Way(tree.kids)[g]
      BY <1>3, <1>12, <2>2, Here0, LevelIs
    <3>2. B(iter.pushed) = 0
      BY <2>1 DEF B
    <3>3. PICK m : m = Len(Way(tree.kids)[g])
      OBVIOUS
    <3>4. lvl = m /\ m \in Nat \ {0}
      BY <1>5, <3>1, <3>2, <3>3
    <3>5. (\A j \in 1 .. lvl - 1 : j \in 1 .. m) /\ lvl \in 1 .. m
      BY <3>4
    <3>6. \A j \in 1 .. m : Way(tree.kids)[n][j] = Way(tree.kids)[g][j]
      BY <1>5, <3>3 DEF Agree
    <3>7. Way(tree.kids)[g][m] = g
      BY <1>1, <3>3, Here0, WayParts
    <3>8. QED BY <3>1, <3>4, <3>5, <3>6, <3>7 DEF Along
  <2>3. PushedOn(n, st, iter.pushed, g)
    BY <1>1, <1>12, <2>1, <2>2 DEF PushedOn
  <2>4. QED BY <1>10, <2>3, CoreNext
<1>13. QED BY <1>11, <1>12

(* Every step of a call keeps the core, and nothing else changes.          *)
LEMMA IterateKeeps == ASSUME Core, Iterate PROVE Core' /\ Steady
BY StepAtRootKeeps, LeaveKeeps, MoveKeeps, ShuffleAgainKeeps, LoopAroundKeeps, ListDoneKeeps,
   UpKeeps, UpAtTopKeeps, DownKeeps DEF Iterate

-----------------------------------------------------------------------------
(* The step away from a playlist file that is dropped.                     *)
LEMMA OnWay ==
  ASSUME NEW k \in Kids, IsForest(k), TopFirst(k), NEW e \in Nodes, NEW n \in Range(Way(k)[e])
  PROVE  /\ n \in Nodes /\ Len(Way(k)[n]) <= Len(Way(k)[e]) /\ Len(Way(k)[n]) \in Nat
            /\ Len(Way(k)[e]) \in Nat
         /\ n # e => Len(Way(k)[n]) < Len(Way(k)[e])
         /\ Par(k, n) # NONE => Par(k, n) \in Range(Way(k)[e])
<1>1. Way(k)[e] \in Seq(Nodes) /\ Len(Way(k)[e]) \in Nat \ {0} /\ Way(k)[e][Len(Way(k)[e])] = e
  BY WayParts
<1>2. PICK i \in 1 .. Len(Way(k)[e]) : n = Way(k)[e][i]
  BY <1>1 DEF Range
<1>3. n \in Nodes /\ Way(k)[n] = SubSeq(Way(k)[e], 1, i)
  BY <1>2, WayPrefix
<1>4. Len(Way(k)[n]) = i
  <2>1. PICK w : w = Way(k)[e]
    OBVIOUS
  <2>2. i \in 0 .. Len(w) /\ w \in Seq(Nodes)
    BY <1>1, <2>1
  <2>3. Len(SubSeq(w, 1, i)) = i
    BY <2>2, PartsAre
  <2>4. QED BY <1>3, <2>1, <2>3
<1>5. Par(k, n) # NONE => Par(k, n) \in Range(Way(k)[e])
  <2>1. IsWay(k, Way(k)[e], e)
    BY WayIs
  <2>2. Par(k, n) # NONE => Par(k, n) \in Nodes
    BY ParIs
  <2>3. PICK p : p = Way(k)[e]
    OBVIOUS
  <2>4. IsWay(k, p, e) /\ n \in Range(p)
    BY <2>1, <2>3
  <2>5. Par(k, n) \in Nodes => Par(k, n) \in Range(p)
    BY <2>4, ParentOnWay
  <2>6. QED BY <2>2, <2>3, <2>5
<1>6. QED BY <1>1, <1>2, <1>3, <1>4, <1>5

(* A node has one place in its list.                                       *)
LEMMA OnePlace ==
  ASSUME NEW k \in Kids, IsForest(k), TopFirst(k), NEW e \in Nodes, NEW j \in 1 .. Len(Sibs(k, e)),
         Sibs(k, e)[j] = e
  PROVE  j = Idx(k, e)
<1>1. Idx(k, e) \in 1 .. Len(Sibs(k, e)) /\ Sibs(k, e)[Idx(k, e)] = e
      /\ DOMAIN Sibs(k, e) = 1 .. Len(Sibs(k, e))
  BY Sibling
<1>2. CASE Par(k, e) = NONE
  <2>1. Len(Sibs(k, e)) = 1
    BY <1>2 DEF Sibs
  <2>2. QED BY <1>1, <2>1
<1>3. CASE Par(k, e) # NONE
  <2>1. Par(k, e) \in Nodes /\ Sibs(k, e) = k[Par(k, e)]
    BY <1>3, ParIs DEF Sibs
  <2>2. QED BY <1>1, <2>1 DEF IsForest
<1>4. QED BY <1>2, <1>3

(* The first and the last of a list                                        *)
LEMMA Ends ==
  ASSUME NEW k \in Kids, IsForest(k), TopFirst(k), NEW e \in Nodes
  PROVE  /\ Sibs(k, e)[Idx(k, e)] = e
         /\ e = Last(Sibs(k, e)) <=> Idx(k, e) = Len(Sibs(k, e))
         /\ e = Head(Sibs(k, e)) <=> Idx(k, e) = 1
         /\ Multi(k, e) /\ e = Last(Sibs(k, e)) => e # Head(Sibs(k, e))
         /\ ~Multi(k, e) => e = Last(Sibs(k, e)) /\ Range(Sibs(k, e)) = {e}
         /\ e \in Range(Sibs(k, e)) /\ Head(Sibs(k, e)) \in Range(Sibs(k, e))
            /\ Last(Sibs(k, e)) \in Range(Sibs(k, e))
<1>0. \A j \in 1 .. Len(Sibs(k, e)) : Sibs(k, e)[j] = e => j = Idx(k, e)
  BY OnePlace
<1> DEFINE s == Sibs(k, e)
           i == Idx(k, e)
<1>1. /\ s \in Seq(Nodes) /\ Len(s) \in Nat \ {0} /\ DOMAIN s = 1 .. Len(s) /\ i \in 1 .. Len(s)
         /\ s[i] = e
      /\ \A j \in 1 .. Len(s) : s[j] = e => j = i
      /\ Head(s) = s[1] /\ Last(s) = s[Len(s)]
  <2>1. /\ s \in Seq(Nodes) /\ Len(s) \in Nat \ {0} /\ DOMAIN s = 1 .. Len(s) /\ i \in 1 .. Len(s)
           /\ s[i] = e
        /\ Head(s) = s[1] /\ Last(s) = s[Len(s)]
    BY Sibling
  <2>2. ASSUME NEW j \in 1 .. Len(s), s[j] = e PROVE j = i
    BY <1>0, <2>2
  <2>3. QED BY <2>1, <2>2
<1> HIDE DEF s, i
<1>2. 1 \in 1 .. Len(s) /\ Len(s) \in 1 .. Len(s)
  BY <1>1
<1>3. e = Last(s) <=> i = Len(s)
  BY <1>1, <1>2
<1>4. e = Head(s) <=> i = 1
  BY <1>1, <1>2
<1>5. e \in Range(s) /\ Head(s) \in Range(s) /\ Last(s) \in Range(s)
  BY <1>1, <1>2 DEF Range
<1>6. ~Multi(k, e) => Len(s) = 1
  BY <1>1 DEF Multi, s
<1>7. ~Multi(k, e) => e = Last(s) /\ Range(s) = {e}
  <2>1. ASSUME Len(s) = 1 PROVE i = 1 /\ Range(s) = {e}
    <3>1. i = 1 /\ DOMAIN s = {1}
      BY <1>1, <2>1
    <3>2. QED BY <1>1, <3>1 DEF Range
  <2>2. QED BY <1>3, <1>6, <2>1
<1>8. Multi(k, e) /\ e = Last(s) => e # Head(s)
  <2>1. Multi(k, e) => Len(s) > 1
    BY DEF Multi, s
  <2>2. QED BY <1>1, <1>3, <1>4, <2>1
<1>9. QED BY <1>1, <1>3, <1>4, <1>5, <1>7, <1>8 DEF s, i

(* Away from a playlist file along its list                                *)
LEMMA DropBeside ==
  ASSUME NEW k \in Kids, IsForest(k), TopFirst(k), NEW e \in Nodes, NEW tr \in Nodes, NEW d,
         InDrop(k, e, "move", d, tr),
         NEW n \in Range(Sibs(k, tr)), d = 0 => n = tr, tr = e /\ d = 1 /\ Multi(k, e) => n # e,
         NEW op, NEW c, Calm(op, c)
  PROVE  InDrop(k, e, op, c, n)
<1>1. n \in Nodes /\ Par(k, n) = Par(k, tr) /\ Len(Way(k)[n]) = Len(Way(k)[tr])
  BY Beside
<1>2. CASE ~Multi(k, e)
  <2>1. Par(k, e) = Root /\ tr \in {Root, e}
    BY <1>2 DEF InDrop
  <2>2. tr = e => n = e
    BY <1>2, Ends
  <2>3. tr = Root => n = Root
    <3>1. Par(k, Root) = NONE
      BY TheRoot
    <3>2. Sibs(k, Root) = <<Root>>
      BY <3>1 DEF Sibs
    <3>3. Range(<<Root>>) = {Root}
      BY DEF Range
    <3>4. QED BY <3>2, <3>3
  <2>4. QED BY <1>2, <2>1, <2>2, <2>3 DEF InDrop
<1>3. CASE Multi(k, e)
  <2>1. CASE d = 1 /\ tr = e
    <3>1. n # e
      BY <1>3, <2>1
    <3>2. n \notin Range(Way(k)[e])
      <4>1. n \in Range(Way(k)[e]) => Len(Way(k)[n]) < Len(Way(k)[e]) /\ Len(Way(k)[e]) \in Nat
        BY <3>1, OnWay
      <4>2. QED BY <1>1, <2>1, <4>1
    <3>3. QED BY <1>3, <3>1, <3>2 DEF InDrop
  <2>2. CASE d = 1 /\ e = Last(Sibs(k, e)) /\ tr \in Range(Way(k)[e]) /\ tr # e
    <3>1. Len(Way(k)[tr]) < Len(Way(k)[e]) /\ Len(Way(k)[e]) \in Nat
      BY <2>2, OnWay
    <3>2. n # e
      BY <1>1, <3>1
    <3>3. e # Head(Sibs(k, e))
      BY <1>3, <2>2, Ends
    <3>4. QED BY <1>3, <3>2, <3>3 DEF InDrop
  <2>3. CASE d = 0
    <3>1. n = tr
      BY <2>3
    <3>2. tr # e /\ (e = Head(Sibs(k, e)) => tr \notin Range(Way(k)[e]))
      BY <1>3, <2>3 DEF InDrop
    <3>3. QED BY <1>3, <3>1, <3>2 DEF InDrop
  <2>4. (d = 1 /\ tr = e) \/ (d = 1 /\ e = Last(Sibs(k, e)) /\ tr \in Range(Way(k)[e]) /\ tr # e)
        \/ d = 0
    BY DEF InDrop, Calm
  <2>5. QED BY <2>1, <2>2, <2>3, <2>4
<1>4. QED BY <1>2, <1>3

(* At the end of a list: up from there.                                    *)
LEMMA DropDone ==
  ASSUME NEW k \in Kids, IsForest(k), TopFirst(k), NEW e \in Nodes, NEW tr \in Nodes, NEW d,
         InDrop(k, e, "move", d, tr),
         d # 0, tr = e => e = Last(Sibs(k, e)), NEW c, c = 1
  PROVE  InDrop(k, e, "up", c, tr)
<1>1. tr = e \/ (e = Last(Sibs(k, e)) /\ tr \in Range(Way(k)[e]))
  BY DEF InDrop, Calm
<1>2. e \in Range(Way(k)[e])
  BY WayParts
<1>3. e = Last(Sibs(k, e)) /\ tr \in Range(Way(k)[e])
  BY <1>1, <1>2
<1>4. Multi(k, e) \/ (Par(k, e) = Root /\ tr \in {Root, e})
  BY DEF InDrop
<1>5. QED BY <1>3, <1>4 DEF InDrop

(* Up from the list of the file                                            *)
LEMMA DropUpward ==
  ASSUME NEW k \in Kids, IsForest(k), TopFirst(k), NEW e \in Nodes, NEW tr \in Nodes, NEW d,
         InDrop(k, e, "up", d, tr)
  PROVE  /\ e = Last(Sibs(k, e)) /\ d = 1
         /\ Par(k, tr) # NONE => InDrop(k, e, "step", d, Par(k, tr))
         /\ InDrop(k, e, "END", d, tr)
<1>1. d = 1 /\ e = Last(Sibs(k, e)) /\ tr \in Range(Way(k)[e])
  BY DEF InDrop, Calm
<1>2. Multi(k, e) \/ (Par(k, e) = Root /\ tr \in {Root, e})
  BY DEF InDrop
<1>3. ASSUME Par(k, tr) # NONE PROVE InDrop(k, e, "step", d, Par(k, tr))
  <2>1. PICK g : g = Par(k, tr)
    OBVIOUS
  <2>2. g \in Range(Way(k)[e]) /\ Len(Way(k)[tr]) <= Len(Way(k)[e]) /\ Len(Way(k)[e]) \in Nat
    BY <1>1, <1>3, <2>1, OnWay
  <2>3. Len(Way(k)[tr]) = Len(Way(k)[g]) + 1 /\ Len(Way(k)[g]) \in Nat
    BY <1>3, <2>1, ChildWay
  <2>4. g # e
    BY <2>2, <2>3
  <2>5. Par(k, Root) = NONE
    BY TheRoot
  <2>6. Multi(k, e) \/ (Par(k, e) = Root /\ g \in {Root, e})
    BY <1>2, <1>3, <2>1, <2>5
  <2>7. QED BY <1>1, <2>1, <2>2, <2>4, <2>6 DEF InDrop
<1>4. InDrop(k, e, "END", d, tr)
  BY <1>1, <1>2 DEF InDrop
<1>5. QED BY <1>1, <1>3, <1>4

(* Down into a group: at its first child                                   *)
LEMMA DropDownward ==
  ASSUME NEW k \in Kids, IsForest(k), TopFirst(k), NEW e \in Nodes, NEW tr \in Nodes, NEW d,
         InDrop(k, e, "down", d, tr),
         Par(k, e) # NONE, k[e] = <<>>, k[tr] # <<>>, NEW n \in Nodes, Par(k, n) = tr, n = Head(k[tr])
  PROVE  InDrop(k, e, "step", 0, n)
<1>1. Multi(k, e) \/ (Par(k, e) = Root /\ tr \in {Root, e})
  BY DEF InDrop
<1>2. Multi(k, e) => tr # e /\ (e = Head(Sibs(k, e)) => tr \notin Range(Way(k)[e]))
  BY DEF InDrop, Calm
<1>3. tr # NONE
  BY TreeAssumption
<1>4. n \in Range(Way(k)[e]) => tr \in Range(Way(k)[e])
  BY <1>3, OnWay
<1>5. n = e => e = Head(Sibs(k, e)) /\ n \in Range(Way(k)[e])
  BY <1>3, WayParts DEF Sibs
<1>6. CASE Multi(k, e)
  BY <1>2, <1>4, <1>5, <1>6 DEF InDrop, Calm
<1>7. CASE ~Multi(k, e)
  <2>1. Par(k, e) = Root /\ tr = Root
    BY <1>1, <1>7
  <2>2. Sibs(k, e) = k[Root] /\ Range(Sibs(k, e)) = {e} /\ Head(Sibs(k, e)) \in Range(Sibs(k, e))
    BY <1>7, <2>1, Ends DEF Sibs
  <2>3. n = e
    BY <2>1, <2>2
  <2>4. QED BY <1>7, <2>1, <2>3 DEF InDrop, Calm
<1>8. QED BY <1>6, <1>7

-----------------------------------------------------------------------------

(* Without a target the step goes over an end.                             *)
LEMMA NoneToFollow ==
  ASSUME Core, iter.tree # NONE, ~iter.rnd, Targets = {}
  PROVE  /\ call.d # 0
         /\ call.d = 1 => Idx(tree.kids, iter.tree) = Len(Sibs(tree.kids, iter.tree))
<1>1. /\ Wanted = Idx(tree.kids, iter.tree) + call.d
      /\ Idx(tree.kids, iter.tree) \in 1 .. Len(Sibs(tree.kids, iter.tree))
      /\ DOMAIN Sibs(tree.kids, iter.tree) = 1 .. Len(Sibs(tree.kids, iter.tree))
  BY RestIs DEF Core, Frame
<1>2. Wanted \notin DOMAIN Sibs(tree.kids, iter.tree) /\ call.d \in Int
  BY Here0, NoTarget
<1>3. PICK i, l, w : i = Idx(tree.kids, iter.tree) /\ l = Len(Sibs(tree.kids, iter.tree))
      /\ w = Wanted
  OBVIOUS
<1>4. w = i + call.d /\ i \in 1 .. l /\ w \notin 1 .. l /\ call.d \in Int
  BY <1>1, <1>2, <1>3
<1>5. l \in Nat
  <2>1. iter.tree \in Nodes
    BY IterIs DEF Core, Frame
  <2>2. QED BY <1>3, <2>1, Here0, Sibling
<1>6. QED BY <1>3, <1>4, <1>5

(* What is known while a step leads away from a playlist file              *)
LEMMA DropIs ==
  ASSUME Core, Dropping, job.at = "drop"
  PROVE  /\ asked.from \in Entries /\ asked.from \in Nodes /\ asked.from \in DOMAIN tree.lists
         /\ InTree(tree.kids, asked.from) /\ tree.kids[asked.from] = <<>>
         /\ Par(tree.kids, asked.from) # NONE /\ iter.tree \in Nodes /\ iter.tree # NONE
            /\ ~iter.copy /\ ~iter.rnd /\ InOrder
         /\ ~call.nodes /\ InDrop(tree.kids, asked.from, call.op, call.d, iter.tree)
<1>1. asked.from \in DOMAIN tree.lists /\ InTree(tree.kids, asked.from)
      /\ InDrop(tree.kids, asked.from, call.op, call.d, iter.tree)
  BY DEF Dropping
<1>2. asked.from \in Entries /\ asked.from \in Nodes /\ tree.rnd = {}
  BY <1>1, Here0, TreeAssumption DEF Well, Listed
<1>3. tree.kids[asked.from] = <<>> /\ Par(tree.kids, asked.from) # NONE
  BY <1>1, <1>2, Here0, TheRoot DEF IsForest
<1>4. ~iter.copy /\ iter.tree # NONE /\ ~call.nodes
  BY DEF Core, Frame, Places, Peeks, Jobs, Calls
<1>5. iter.tree \in Nodes
  BY <1>4, IterIs DEF Core, Frame
<1>6. InOrder /\ ~iter.rnd
  BY <1>2, Here0 DEF InOrder
<1>7. QED BY <1>1, <1>2, <1>3, <1>4, <1>5, <1>6

Dropped == InDrop(tree.kids, asked.from, call'.op, call'.d, iter'.tree)

(* Leave keeps what is known of it.                                        *)
LEMMA LeaveDrops ==
  ASSUME Core, Dropping, job.at = "drop", Leave
  PROVE  Dropped
<1>1. call.op = "step" /\ iter'.tree = iter.tree /\ call'.op = "move" /\ call'.d = call.d
  BY LeaveDoes DEF Core, IterTo, CallTo
<1>2. InDrop(tree.kids, asked.from, "step", call.d, iter.tree)
  BY <1>1, DropIs
<1>3. PICK k, e, d, tr : k = tree.kids /\ e = asked.from /\ d = call.d /\ tr = iter.tree
  OBVIOUS
<1>4. InDrop(k, e, "step", d, tr) => InDrop(k, e, "move", d, tr)
  BY DEF InDrop, Calm
<1>5. QED BY <1>1, <1>2, <1>3, <1>4 DEF Dropped

(* So does Move: forward by one, to what was found, or on.                 *)
LEMMA MoveDrops ==
  ASSUME Core, Dropping, job.at = "drop", Move
  PROVE  Dropped
<1>1. call.op = "move" /\ iter.tree # NONE
  BY MoveDoes DEF Core
<1>2. PICK n \in Targets :
              \/ /\ n \notin Entries /\ tree.kids[n] # <<>>
                    /\ IterTo(n, iter.stack, iter.pushed, iter.file, iter.rnd)
                 /\ IF call.nodes THEN CallTo("NODE", call.d) ELSE CallTo("down", Rest)
                 /\ UNCHANGED <<tree, config, player>>
              \/ /\ n \in Entries
                    /\ IterTo(n, iter.stack, iter.pushed \/ ~iter.copy, iter.file, iter.rnd)
                 /\ CallTo("ENTRY", call.d) /\ UNCHANGED player
                 /\ PushFor(n)
                 /\ tree' = IF iter.rnd /\ ~iter.copy THEN [tree EXCEPT !.played = @ \cup {n}] ELSE tree
  BY MoveDoes DEF Core
<1>3. InDrop(tree.kids, asked.from, "move", call.d, iter.tree) /\ ~call.nodes /\ ~iter.rnd
      /\ iter.tree \in Nodes /\ asked.from \in Nodes
  BY <1>1, DropIs
<1>4. /\ n \in Range(Sibs(tree.kids, iter.tree)) /\ n = Sibs(tree.kids, iter.tree)[Wanted]
      /\ Wanted \in DOMAIN Sibs(tree.kids, iter.tree)
  BY <1>1, <1>3, Here0, TargetIs
<1>5. /\ Rest \in Int /\ (call.d = 0 => Rest = 0) /\ (call.d = 1 => Rest = 1)
      /\ Wanted = Idx(tree.kids, iter.tree) + call.d
      /\ Idx(tree.kids, iter.tree) \in 1 .. Len(Sibs(tree.kids, iter.tree))
      /\ DOMAIN Sibs(tree.kids, iter.tree) = 1 .. Len(Sibs(tree.kids, iter.tree))
      /\ Sibs(tree.kids, iter.tree)[Idx(tree.kids, iter.tree)] = iter.tree
  BY <1>1, RestIs DEF Core, Frame
<1>6. call.d \in {0, 1}
  BY <1>3 DEF InDrop, Calm
<1>7. iter'.tree = n /\ Calm(call'.op, call'.d)
  BY <1>2, <1>3, <1>5, <1>6 DEF IterTo, CallTo, Calm
<1>8. call.d = 0 => n = iter.tree
  BY <1>4, <1>5
<1>9. call.d = 1 => n # iter.tree
  <2>1. ASSUME call.d = 1, n = iter.tree PROVE FALSE
    <3>1. PICK w : w = Wanted
      OBVIOUS
    <3>2. w \in 1 .. Len(Sibs(tree.kids, iter.tree)) /\ Sibs(tree.kids, iter.tree)[w] = iter.tree
      BY <1>4, <1>5, <2>1, <3>1
    <3>3. w = Idx(tree.kids, iter.tree)
      BY <1>3, <3>2, Here0, OnePlace
    <3>4. w = Idx(tree.kids, iter.tree) + 1
      BY <1>5, <2>1, <3>1
    <3>5. QED BY <1>5, <3>3, <3>4
  <2>2. QED BY <2>1
<1>10. PICK k, e, d, tr, op, c : k = tree.kids /\ e = asked.from /\ d = call.d /\ tr = iter.tree
       /\ op = call'.op /\ c = call'.d
  OBVIOUS
<1>11. /\ k \in Kids /\ IsForest(k) /\ TopFirst(k) /\ e \in Nodes /\ tr \in Nodes
          /\ InDrop(k, e, "move", d, tr)
       /\ n \in Range(Sibs(k, tr)) /\ (d = 0 => n = tr)
          /\ (tr = e /\ d = 1 /\ Multi(k, e) => n # e) /\ Calm(op, c)
  BY <1>3, <1>4, <1>7, <1>8, <1>9, <1>10, Here0
<1>12. InDrop(k, e, op, c, n)
  BY <1>11, DropBeside
<1>13. QED BY <1>7, <1>10, <1>12 DEF Dropped

(* So does LoopAround: back to the first, which is the file if it is       *)
(* alone.                                                                  *)
LEMMA LoopAroundDrops ==
  ASSUME Core, Dropping, job.at = "drop", LoopAround
  PROVE  Dropped
<1>1. call.op = "move" /\ iter.tree # NONE /\ ~iter.rnd /\ Targets = {} /\ call'.op = "step"
      /\ call'.d = 0
  BY LoopAroundDoes DEF Core, CallTo
<1>2. PICK n \in Range(Sibs(tree.kids, iter.tree)) :
              IterTo(n, iter.stack, iter.pushed, iter.file, iter.rnd)
              /\ n = IF call.d > 0 THEN Head(Sibs(tree.kids, iter.tree)) ELSE Last(Sibs(tree.kids, iter.tree))
  BY LoopAroundDoes DEF Core
<1>3. InDrop(tree.kids, asked.from, "move", call.d, iter.tree) /\ iter.tree \in Nodes
      /\ asked.from \in Nodes
  BY <1>1, DropIs
<1>4. call.d = 1
  <2>1. call.d \in {0, 1}
    BY <1>3 DEF InDrop, Calm
  <2>2. QED BY <1>1, <2>1, NoneToFollow
<1>5. Idx(tree.kids, iter.tree) = Len(Sibs(tree.kids, iter.tree))
  BY <1>1, <1>4, NoneToFollow
<1>6. iter.tree = Last(Sibs(tree.kids, iter.tree))
  BY <1>3, <1>5, Here0, Ends
<1>7. iter.tree = asked.from /\ Multi(tree.kids, asked.from) => n # asked.from
  <2>1. n = Head(Sibs(tree.kids, iter.tree))
    BY <1>2, <1>4
  <2>2. QED BY <1>3, <1>6, <2>1, Here0, Ends
<1>8. PICK k, e, d, tr, op, c : k = tree.kids /\ e = asked.from /\ d = call.d /\ tr = iter.tree
      /\ op = call'.op /\ c = call'.d
  OBVIOUS
<1>9. /\ k \in Kids /\ IsForest(k) /\ TopFirst(k) /\ e \in Nodes /\ tr \in Nodes
         /\ InDrop(k, e, "move", d, tr)
      /\ n \in Range(Sibs(k, tr)) /\ (d = 0 => n = tr)
         /\ (tr = e /\ d = 1 /\ Multi(k, e) => n # e) /\ Calm(op, c)
  BY <1>1, <1>3, <1>4, <1>7, <1>8, Here0 DEF Calm
<1>10. InDrop(k, e, op, c, n)
  BY <1>9, DropBeside
<1>11. QED BY <1>2, <1>8, <1>10 DEF Dropped, IterTo

(* So does ListDone: the file was the last.                                *)
LEMMA ListDoneDrops ==
  ASSUME Core, Dropping, job.at = "drop", ListDone
  PROVE  Dropped
<1>1. call.op = "move" /\ iter.tree # NONE /\ ~iter.rnd /\ Targets = {} /\ iter'.tree = iter.tree
      /\ call'.op = "up" /\ call'.d = Rest
  BY ListDoneDoes DEF Core, CallTo, IterKept, IterTo
<1>2. InDrop(tree.kids, asked.from, "move", call.d, iter.tree) /\ iter.tree \in Nodes
      /\ asked.from \in Nodes
  BY <1>1, DropIs
<1>3. call.d = 1
  <2>1. call.d \in {0, 1}
    BY <1>2 DEF InDrop, Calm
  <2>2. QED BY <1>1, <2>1, NoneToFollow
<1>4. Rest = 1
  BY <1>1, <1>3, RestIs DEF Core, Frame
<1>5. Idx(tree.kids, iter.tree) = Len(Sibs(tree.kids, iter.tree))
  BY <1>1, <1>3, NoneToFollow
<1>6. iter.tree = Last(Sibs(tree.kids, iter.tree))
  BY <1>2, <1>5, Here0, Ends
<1>7. PICK k, e, d, tr, c : k = tree.kids /\ e = asked.from /\ d = call.d /\ tr = iter.tree
      /\ c = Rest
  OBVIOUS
<1>8. /\ k \in Kids /\ IsForest(k) /\ TopFirst(k) /\ e \in Nodes /\ tr \in Nodes
         /\ InDrop(k, e, "move", d, tr)
      /\ d # 0 /\ (tr = e => e = Last(Sibs(k, e))) /\ c = 1
  BY <1>2, <1>3, <1>4, <1>6, <1>7, Here0
<1>9. InDrop(k, e, "up", c, tr)
  BY <1>8, DropDone
<1>10. QED BY <1>1, <1>7, <1>9 DEF Dropped

(* So does Up: the file is the last in the group that is left.             *)
LEMMA UpDrops ==
  ASSUME Core, Dropping, job.at = "drop", Up
  PROVE  Dropped
<1>1. /\ call.op = "up" /\ Par(tree.kids, iter.tree) # NONE
      /\ iter'.tree = Par(tree.kids, iter.tree) /\ call'.op = "step" /\ call'.d = call.d
  BY UpDoes DEF Core, CallTo, IterTo
<1>2. InDrop(tree.kids, asked.from, "up", call.d, iter.tree) /\ iter.tree \in Nodes
      /\ asked.from \in Nodes
  BY <1>1, DropIs
<1>3. InDrop(tree.kids, asked.from, "step", call.d, Par(tree.kids, iter.tree))
  BY <1>1, <1>2, Here0, DropUpward
<1>4. QED BY <1>1, <1>3 DEF Dropped

(* So does UpAtTop.                                                        *)
LEMMA UpAtTopDrops ==
  ASSUME Core, Dropping, job.at = "drop", UpAtTop
  PROVE  Dropped
<1>1. call.op = "up" /\ iter'.tree = iter.tree /\ call'.op = "END" /\ call'.d = call.d
  BY UpAtTopDoes DEF Core, CallTo, IterTo
<1>2. InDrop(tree.kids, asked.from, "up", call.d, iter.tree) /\ iter.tree \in Nodes
      /\ asked.from \in Nodes
  BY <1>1, DropIs
<1>3. InDrop(tree.kids, asked.from, "END", call.d, iter.tree)
  BY <1>2, Here0, DropUpward
<1>4. QED BY <1>1, <1>3 DEF Dropped

(* So does Down: no group holds the file and comes after it.               *)
LEMMA DownDrops ==
  ASSUME Core, Dropping, job.at = "drop", Down
  PROVE  Dropped
<1>1. call.op = "down" /\ call'.op = "step" /\ call'.d = 0
  BY DownDoes DEF Core, CallTo
<1>2. InDrop(tree.kids, asked.from, "down", call.d, iter.tree) /\ iter.tree \in Nodes
      /\ asked.from \in Nodes
      /\ Par(tree.kids, asked.from) # NONE /\ tree.kids[asked.from] = <<>>
  BY <1>1, DropIs
<1>3. call.d >= 0 /\ tree.kids[iter.tree] # <<>>
  BY <1>1, <1>2 DEF InDrop, Calm, Core, Frame, Calls
<1>4. PICK n \in Nodes : Par(tree.kids, n) = iter.tree /\ n = Head(tree.kids[iter.tree])
      /\ iter'.tree = n
  BY <1>3, DownDoes DEF Core, IterTo
<1>5. PICK k, e, d, tr : k = tree.kids /\ e = asked.from /\ d = call.d /\ tr = iter.tree
  OBVIOUS
<1>6. /\ k \in Kids /\ IsForest(k) /\ TopFirst(k) /\ e \in Nodes /\ tr \in Nodes
         /\ InDrop(k, e, "down", d, tr)
      /\ Par(k, e) # NONE /\ k[e] = <<>> /\ k[tr] # <<>> /\ Par(k, n) = tr /\ n = Head(k[tr])
  BY <1>2, <1>3, <1>4, <1>5, Here0
<1>7. InDrop(k, e, "step", 0, n)
  BY <1>6, DropDownward
<1>8. QED BY <1>1, <1>4, <1>5, <1>7 DEF Dropped

(* No step of a call comes back to a file that is taken out after it.      *)
LEMMA IterateDrops ==
  ASSUME Core, Dropping, Iterate
  PROVE  Dropping'
<1>1. tree'.kids = tree.kids /\ tree'.lists = tree.lists /\ job' = job /\ asked' = asked
  BY IterateKeeps DEF Steady, SameTree, player
<1>2. CASE job.at = "drop"
  <2>1. iter.tree # NONE /\ ~iter.rnd
    BY <1>2, DropIs
  <2>2. ~StepAtRoot /\ ~ShuffleAgain
    BY <2>1 DEF StepAtRoot, ShuffleAgain
  <2>3. Dropped
    BY <1>2, <2>2, LeaveDrops, MoveDrops, LoopAroundDrops, ListDoneDrops, UpDrops, UpAtTopDrops,
       DownDrops DEF Iterate
  <2>4. QED BY <1>1, <1>2, <2>3 DEF Dropping, Dropped
<1>3. CASE job.at # "drop"
  BY <1>1, <1>3 DEF Dropping
<1>4. QED BY <1>2, <1>3

-----------------------------------------------------------------------------
(* A playlist file that could not be parsed and is alone                   *)
UpFrom(op, d, tr, e) ==
  \/ op = "up" /\ d = 1 /\ tr \in {e, Root}
  \/ op \in {"step", "move"} /\ d = 1 /\ tr = Root
  \/ op = "END"

(* Up from a file that was alone there is only the end.                    *)
LEMMA IterateDropsUp ==
  ASSUME Core, DroppingUp, Iterate
  PROVE  DroppingUp'
<1> DEFINE e == asked.from
<1>1. tree'.kids = tree.kids /\ tree'.lists = tree.lists /\ job' = job /\ asked' = asked
  BY IterateKeeps DEF Steady, SameTree, player
<1>2. CASE job.at = "dropup"
  <2>1. e \in DOMAIN tree.lists /\ tree.lists[e] = NONE /\ tree.kids[Root] = <<e>>
        /\ UpFrom(call.op, call.d, iter.tree, e)
    BY <1>2 DEF DroppingUp, UpFrom
  <2>2. tree.rnd = {} /\ ~iter.rnd
    BY <2>1, Here0 DEF Well, Listed, InOrder
  <2>3. iter.tree # NONE
    BY <1>2 DEF Core, Frame, Jobs
  <2>4. Par(tree.kids, Root) = NONE /\ Sibs(tree.kids, Root) = <<Root>> /\ Len(<<Root>>) = 1
        /\ DOMAIN <<Root>> = {1}
    <3>1. Par(tree.kids, Root) = NONE
      BY Here0, TheRoot
    <3>2. QED BY <3>1 DEF Sibs
  <2>5. Par(tree.kids, e) = Root
    <3>1. Root \in Nodes /\ DOMAIN <<e>> = {1} /\ <<e>>[1] = e
      BY TreeAssumption
    <3>2. e \in Range(tree.kids[Root])
      BY <2>1, <3>1 DEF Range
    <3>3. QED BY <3>1, <3>2, Here0, ParFrom
  <2>6. iter.tree = Root /\ call.d = 1 => Targets = {}
    <3>1. SUFFICES ASSUME iter.tree = Root, call.d = 1, NEW n \in Targets PROVE FALSE
      OBVIOUS
    <3>2. Wanted \in DOMAIN Sibs(tree.kids, Root) /\ Wanted = Idx(tree.kids, Root) + 1
          /\ Idx(tree.kids, Root) \in 1 .. Len(Sibs(tree.kids, Root))
      BY <2>2, <2>3, <3>1, TargetIs, RestIs DEF Core, Frame
    <3>3. QED BY <2>4, <3>2
  <2>7. ASSUME Leave PROVE UpFrom(call'.op, call'.d, iter'.tree, e)
    BY <2>1, <2>7, LeaveDoes DEF UpFrom, Core, IterTo, CallTo
  <2>8. ~Move /\ ~Down /\ ~StepAtRoot /\ ~ShuffleAgain
    BY <2>1, <2>2, <2>3, <2>6 DEF UpFrom, Move, Down, StepAtRoot, ShuffleAgain
  <2>9. ~LoopAround
    <3>1. ASSUME LoopAround PROVE FALSE
      <4>1. call.op = "move" /\ Par(tree.kids, iter.tree) # NONE
        BY <3>1, LoopAroundDoes DEF Core
      <4>2. QED BY <2>1, <2>4, <4>1 DEF UpFrom
    <3>2. QED BY <3>1
  <2>10. ASSUME ListDone PROVE UpFrom(call'.op, call'.d, iter'.tree, e)
    <3>1. call.op = "move" /\ call'.op = "up" /\ call'.d = Rest /\ iter'.tree = iter.tree
      BY <2>10, ListDoneDoes DEF Core, IterKept, IterTo, CallTo
    <3>2. call.d = 1 /\ iter.tree = Root
      BY <2>1, <3>1 DEF UpFrom
    <3>3. Rest = 1
      BY <2>3, <3>2, RestIs DEF Core, Frame
    <3>4. QED BY <3>1, <3>2, <3>3 DEF UpFrom
  <2>11. ASSUME Up PROVE UpFrom(call'.op, call'.d, iter'.tree, e)
    <3>1. call.op = "up" /\ call'.op = "step" /\ call'.d = call.d
          /\ iter'.tree = Par(tree.kids, iter.tree) /\ Par(tree.kids, iter.tree) # NONE
      BY <2>11, UpDoes DEF Core, IterTo, CallTo
    <3>2. call.d = 1 /\ iter.tree = e
      BY <2>1, <2>4, <3>1 DEF UpFrom
    <3>3. QED BY <2>5, <3>1, <3>2 DEF UpFrom
  <2>12. ASSUME UpAtTop PROVE UpFrom(call'.op, call'.d, iter'.tree, e)
    BY <2>12, UpAtTopDoes DEF UpFrom, Core, CallTo
  <2>13. UpFrom(call'.op, call'.d, iter'.tree, e)
    BY <2>7, <2>8, <2>9, <2>10, <2>11, <2>12 DEF Iterate
  <2>14. QED BY <1>1, <1>2, <2>1, <2>13 DEF DroppingUp, UpFrom
<1>3. CASE job.at # "dropup"
  BY <1>1, <1>3 DEF DroppingUp
<1>4. QED BY <1>2, <1>3

(* The start: it goes down to the first entry, and never up again          *)
OpensAt(op, d) == d = 0 /\ op \in {"step", "move", "down", "ENTRY"}
Unheard(tr)    == tree.played = {} \/ \E f \in Entries \ tree.played : tree.kids[Root] = <<f>>
/\ tr \in {NONE, Root, f}

(* The first entry is found, whatever the playlist.                        *)
LEMMA IterateOpens ==
  ASSUME Core, Opening, Iterate
  PROVE  Opening'
<1>1. tree'.kids = tree.kids /\ tree'.rnd = tree.rnd /\ job' = job /\ InOrder' = InOrder
  BY IterateKeeps DEF Steady, SameTree, player, InOrder
<1>2. SUFFICES ASSUME job.at = "open" \/ (job.at = "head" /\ InOrder)
               PROVE  /\ OpensAt(call'.op, call'.d)
                      /\ job.at = "open" /\ call'.op # "ENTRY" => tree'.played = tree.played
                         /\ Unheard(iter'.tree)
  <2>1. Unheard(iter'.tree) /\ tree'.played = tree.played =>
         \/ tree'.played = {}
         \/ \E f \in Entries \ tree'.played : tree'.kids[Root] = <<f>>
            /\ iter'.tree \in {NONE, Root, f}
    BY <1>1 DEF Unheard
  <2>2. QED BY <1>1, <1>2, <2>1 DEF Opening, OpensAt
<1>3. OpensAt(call.op, call.d) /\ (job.at = "open" /\ call.op # "ENTRY" => Unheard(iter.tree))
  BY <1>2 DEF Opening, OpensAt, Unheard
<1>4. ~call.nodes /\ call.d = 0
  BY <1>2, <1>3 DEF Core, Frame, Calls, OpensAt
<1>5. ~Up /\ ~UpAtTop
  BY <1>3 DEF Up, UpAtTop, OpensAt
<1>6. ASSUME iter.tree # NONE, Unheard(iter.tree), tree.played # {},
             NEW n \in Range(Sibs(tree.kids, iter.tree))
      PROVE  (n = iter.tree /\ n \notin tree.played) \/ n = Root
  <2>1. PICK f \in Entries \ tree.played : tree.kids[Root] = <<f>> /\ iter.tree \in {Root, f}
    BY <1>6 DEF Unheard
  <2>2. Root \in Nodes /\ Par(tree.kids, Root) = NONE
    BY Here0, TheRoot
  <2>3. f \in Range(tree.kids[Root])
    <3>1. DOMAIN <<f>> = {1} /\ <<f>>[1] = f
      OBVIOUS
    <3>2. QED BY <2>1, <3>1 DEF Range
  <2>4. Par(tree.kids, f) = Root /\ Root # NONE
    BY <2>2, <2>3, Here0, ParFrom, TreeAssumption
  <2>5. Sibs(tree.kids, Root) = <<Root>> /\ Sibs(tree.kids, f) = <<f>>
    BY <2>1, <2>2, <2>4 DEF Sibs
  <2>6. Range(<<Root>>) = {Root} /\ Range(<<f>>) = {f}
    BY DEF Range
  <2>7. QED BY <1>6, <2>1, <2>5, <2>6
<1>7. ASSUME StepAtRoot
      PROVE  OpensAt(call'.op, call'.d)
             /\ (call.op # "ENTRY" /\ Unheard(iter.tree) => tree'.played = tree.played /\ Unheard(iter'.tree))
  <2>1. iter.tree = NONE /\ iter'.tree = Root /\ call'.op = "step" /\ call'.d = 0 /\ tree' = tree
    BY <1>7, StepAtRootDoes DEF Core, IterTo, CallTo
  <2>2. \A f \in Entries : Root \in {NONE, Root, f}
    OBVIOUS
  <2>3. QED BY <2>1, <2>2 DEF OpensAt, Unheard
<1>8. ASSUME Leave
      PROVE  OpensAt(call'.op, call'.d)
             /\ (call.op # "ENTRY" /\ Unheard(iter.tree) => tree'.played = tree.played /\ Unheard(iter'.tree))
  <2>1. iter'.tree = iter.tree /\ call'.op = "move" /\ call'.d = 0 /\ tree' = tree
    BY <1>4, <1>8, LeaveDoes DEF Core, IterTo, CallTo
  <2>2. QED BY <2>1 DEF OpensAt
<1>9. ASSUME Move
      PROVE  OpensAt(call'.op, call'.d)
             /\ (call'.op # "ENTRY" /\ Unheard(iter.tree) => tree'.played = tree.played /\ Unheard(iter'.tree))
  <2>1. call.op = "move" /\ iter.tree # NONE
    BY <1>9, MoveDoes DEF Core
  <2>2. PICK n \in Targets :
              \/ /\ n \notin Entries /\ tree.kids[n] # <<>>
                    /\ IterTo(n, iter.stack, iter.pushed, iter.file, iter.rnd)
                 /\ IF call.nodes THEN CallTo("NODE", call.d) ELSE CallTo("down", Rest)
                 /\ UNCHANGED <<tree, config, player>>
              \/ /\ n \in Entries
                    /\ IterTo(n, iter.stack, iter.pushed \/ ~iter.copy, iter.file, iter.rnd)
                 /\ CallTo("ENTRY", call.d) /\ UNCHANGED player
                 /\ PushFor(n)
                 /\ tree' = IF iter.rnd /\ ~iter.copy THEN [tree EXCEPT !.played = @ \cup {n}] ELSE tree
    BY <1>9, MoveDoes DEF Core
  <2>3. Rest = 0
    BY <1>4, <2>1, RestIs DEF Core, Frame
  <2>4. OpensAt(call'.op, call'.d) /\ iter'.tree = n
        /\ (call'.op # "ENTRY" => tree' = tree /\ n \notin Entries)
    BY <1>4, <2>2, <2>3 DEF OpensAt, CallTo, IterTo
  <2>5. n \in Range(Sibs(tree.kids, iter.tree))
    BY <2>1, Here0, TargetIs
  <2>6. Unheard(iter.tree) => Unheard(n)
    <3>1. CASE tree.played = {}
      BY <3>1 DEF Unheard
    <3>2. CASE tree.played # {}
      BY <1>6, <2>1, <2>5, <3>2 DEF Unheard
    <3>3. QED BY <3>1, <3>2
  <2>7. QED BY <2>4, <2>6
<1>10. ~LoopAround /\ ~ListDone
  <2>1. ASSUME iter.tree # NONE, ~iter.rnd, Targets = {} PROVE FALSE
    BY <1>4, <2>1, NoneToFollow
  <2>2. QED BY <2>1, LoopAroundDoes, ListDoneDoes DEF Core
<1>11. ~ShuffleAgain
  <2>1. SUFFICES ASSUME ShuffleAgain PROVE FALSE
    OBVIOUS
  <2>2. call.op = "move" /\ iter.tree # NONE /\ iter.rnd /\ Targets = {}
    BY <2>1, ShuffleAgainDoes DEF Core
  <2>3. job.at = "open" /\ Unheard(iter.tree)
    BY <1>2, <1>3, <2>2, Here0
  <2>4. iter.tree \in Nodes
    BY <2>2, IterIs DEF Core, Frame
  <2>5. iter.tree \in Range(Sibs(tree.kids, iter.tree))
    BY <2>4, Here0, Ends
  <2>6. Range(Sibs(tree.kids, iter.tree)) \subseteq tree.played
    BY <2>2, Here0, NoTarget
  <2>7. iter.tree = Root
    BY <1>6, <2>2, <2>3, <2>5, <2>6
  <2>8. Par(tree.kids, iter.tree) = NONE /\ NONE \notin tree.rnd
    BY <2>7, Here0, TheRoot, TreeFacts, TreeAssumption
  <2>9. QED BY <2>2, <2>8 DEF Core, Frame, Calls
<1>12. ASSUME Down
       PROVE  OpensAt(call'.op, call'.d)
              /\ (call.op # "ENTRY" /\ Unheard(iter.tree) => tree'.played = tree.played /\ Unheard(iter'.tree))
  <2>1. call.op = "down" /\ iter.tree \in Nodes /\ call'.op = "step" /\ call'.d = 0 /\ tree' = tree
    BY <1>12, DownDoes DEF Core, CallTo
  <2>2. PICK n \in Range(tree.kids[iter.tree]) : iter'.tree = n
    BY <1>12, DownDoes DEF Core, IterTo
  <2>3. Unheard(iter.tree) => Unheard(n)
    <3>1. CASE tree.played = {}
      BY <3>1 DEF Unheard
    <3>2. ASSUME NEW f \in Entries \ tree.played, tree.kids[Root] = <<f>>,
                 iter.tree \in {NONE, Root, f} PROVE Unheard(n)
      <4>1. tree.kids[f] = <<>> /\ DOMAIN <<>> = {} /\ iter.tree # NONE /\ f \in Nodes
        BY <2>1, Here0, TreeAssumption DEF IsForest
      <4>2. iter.tree # f
        BY <2>2, <4>1 DEF Range
      <4>3. iter.tree = Root
        BY <3>2, <4>1, <4>2
      <4>4. Range(<<f>>) = {f}
        BY DEF Range
      <4>5. n = f
        BY <2>2, <3>2, <4>3, <4>4
      <4>6. QED BY <3>2, <4>5 DEF Unheard
    <3>3. QED BY <3>1, <3>2 DEF Unheard
  <2>4. QED BY <2>1, <2>2, <2>3 DEF OpensAt
<1>13. OpensAt(call'.op, call'.d)
  BY <1>5, <1>7, <1>8, <1>9, <1>10, <1>11, <1>12 DEF Iterate
<1>14. call.op # "ENTRY"
  BY DEF Iterate, StepAtRoot, Leave, Move, ShuffleAgain, LoopAround, ListDone, Up, UpAtTop, Down
<1>15. ASSUME job.at = "open", call'.op # "ENTRY"
       PROVE tree'.played = tree.played /\ Unheard(iter'.tree)
  BY <1>3, <1>5, <1>7, <1>8, <1>9, <1>10, <1>11, <1>12, <1>14, <1>15 DEF Iterate
<1>16. QED BY <1>13, <1>15

(* Every step of a call keeps the invariant.                               *)
LEMMA IterateInv == ASSUME IInv, Iterate PROVE IInv'
<1>1. Core
  BY DEF IInv, Core, Frame, Stack
<1>2. Core' /\ Opening' /\ Dropping' /\ DroppingUp'
  BY <1>1, IterateKeeps, IterateOpens, IterateDrops, IterateDropsUp DEF IInv
<1>3. QED BY <1>2 DEF IInv, Core, Frame, Stack

-----------------------------------------------------------------------------
(* The player takes the next job: what it has to fit.                      *)
Takes(at, jd, op, d, nd) ==
  /\ job' = Job(at, jd) /\ call' = Call(op, d, nd) /\ step' \in Int /\ cmds' \in 0 .. MaxCommands
  /\ d \in Int /\ nd \in BOOLEAN /\ (nd => at \in {"stop", "load"}) /\ op \in {"none", "step", "up"}
  /\ op = "none" <=> at \in {"file", "play", "stopped"}
  /\ at \in {"open", "file", "entry", "sure", "next", "play", "drop", "dropup", "peekstep",
             "peekup", "stop", "load", "head", "stopped"}
  /\ at \notin {"stop", "load"} => jd \in Int
  /\ at = "load" => jd \in NewFiles

Fits(at, jd, op) ==
  /\ Well(tree') /\ AtPlace(tree'.kids, InOrder', iter') /\ AtPlace(tree'.kids, InOrder', saved')
  /\ iter'.copy <=> at \in Peeks
  /\ iter'.copy => /\ saved'.tree \in Entries /\ ~saved'.copy /\ saved'.file >= 0 /\ (InOrder' => saved'.pushed)
                   /\ iter'.tree # NONE
  /\ ~iter'.copy => saved' = Fresh
  /\ at = "load" => Par(tree'.kids, jd) = NONE
  /\ at = "stopped" => iter'.tree = NONE
  /\ at = "play" => iter'.tree \in Entries /\ iter'.file >= 0
  /\ iter'.tree = NONE => op \in {"none", "step"} /\ at \in {"open", "stopped"}
  /\ at \in {"file", "play"} /\ InOrder' => iter'.pushed /\ iter'.tree \in Entries
  /\ ~iter'.copy /\ iter'.pushed /\ iter'.tree = Root => op = "step"

(* The next job keeps the types, the places and what belongs to the call.  *)
LEMMA TakesFrame ==
  ASSUME NEW at, NEW jd, NEW op, NEW d, NEW nd, Takes(at, jd, op, d, nd), Fits(at, jd, op)
  PROVE  Frame' /\ Pushed' /\ job'.at = at /\ job'.d = jd /\ call'.op = op /\ call'.d = d
<1>1. job' = [at |-> at, d |-> jd] /\ call' = [op |-> op, d |-> d, nodes |-> nd]
  BY DEF Takes, Job, Call
<1>2. job'.at = at /\ job'.d = jd /\ call'.op = op /\ call'.d = d /\ call'.nodes = nd
  BY <1>1
<1>3. Places'
  BY <1>2 DEF Places, Fits
<1>4. Calls'
  <2>1. op \notin {"NODE", "ENTRY", "down", "move"} /\ op \in {"none", "step", "up"}
    BY DEF Takes
  <2>2. call' \in [op : {call'.op}, d : Int, nodes : BOOLEAN]
    BY <1>1, <1>2 DEF Takes
  <2>3. (op = "none" <=> at \in {"file", "play", "stopped"}) /\ (nd => at \in {"stop", "load"})
    BY DEF Takes
  <2>4. iter'.tree = NONE => op \in {"none", "step"}
    BY DEF Fits
  <2>5. QED BY <1>2, <2>1, <2>2, <2>3, <2>4 DEF Calls
<1>5. Jobs'
  <2>1. job' \in [at : {job'.at}, d : {job'.d}]
    BY <1>1, <1>2
  <2>2. QED BY <1>2, <2>1 DEF Jobs, Takes, Fits
<1>6. Pushed'
  <2>1. op \notin {"NODE", "ENTRY", "down", "move", "END"}
    BY DEF Takes
  <2>2. QED BY <1>2, <2>1 DEF Pushed, Fits
<1>7. Well(tree)'
  BY DEF Fits
<1>8. QED BY <1>2, <1>3, <1>4, <1>5, <1>6, <1>7 DEF Frame

Plain == {"file", "entry", "sure", "next", "play", "peekstep", "peekup", "stop", "load", "stopped"}
NoneOpen(t) ==
  \A e \in DOMAIN t.lists : t.lists[e] # NONE /\ Par(t.kids, e) # NONE
    => Par(t.kids, t.lists[e]) = NONE

(* For most jobs that is all there is to show.                             *)
LEMMA PlainInv ==
  ASSUME NEW at \in Plain, NEW jd, NEW op, NEW d, NEW nd, Takes(at, jd, op, d, nd),
         Fits(at, jd, op),
         NoneOpen(tree'), Stack'
  PROVE  IInv'
<1>1. Frame' /\ Pushed' /\ job'.at = at
  BY TakesFrame
<1>2. Opening' /\ Dropping' /\ DroppingUp'
  BY <1>1 DEF Opening, Dropping, DroppingUp, Plain
<1>3. Free'
  BY DEF Free, NoneOpen
<1>4. QED BY <1>1, <1>2, <1>3 DEF IInv, Frame, Stack

(* Unless a file was just read, what it holds is in no group.              *)
LEMMA FreeIs ==
  ASSUME Free, job.at # "drop" \/ ~(asked.from \in DOMAIN tree.lists)
         \/ tree.lists[asked.from] = NONE
  PROVE  NoneOpen(tree)
BY DEF Free, NoneOpen

(* The options stay pushed as they are.                                    *)
LEMMA SameStack ==
  ASSUME Stack, UNCHANGED config, tree' = tree, Own' = Own
  PROVE  Stack'
<1>1. lvl' = lvl /\ slots' = slots /\ value' = value /\ base' = base
  BY DEF config
<1>2. Around' = Around /\ InOrder' = InOrder
  BY DEF Around, InOrder
<1>3. \A i, o : OptAt(Outer(o)', tree', Around', i, o) = OptAt(Outer(o), tree, Around, i, o)
  BY <1>1, <1>2, Zenon DEF OptAt, Outer
<1>4. Slotted'
  BY <1>1 DEF Stack, Slotted
<1>5. Levels'
  BY <1>1, <1>2 DEF Stack, Levels
<1>6. Contents'
  BY <1>1, <1>2, <1>3 DEF Stack, Contents
<1>7. QED BY <1>4, <1>5, <1>6 DEF Stack

(* While a file plays its options may change; they are not saved yet.      *)
LEMMA AssignStack ==
  ASSUME Stack, tree' = tree, Own'.tree = Own.tree, Own'.stack = Own.stack,
         Own'.pushed = Own.pushed,
         NEW o \in Opts, NEW v \in Vals, Assign(o, v), InOrder => Own.pushed /\ Own'.file # -1
  PROVE  Stack'
<1>1. Slotted' /\ lvl' = lvl /\ slots' = slots /\ base' = base
  BY AssignIs DEF Stack
<1>2. Around' = Around /\ InOrder' = InOrder
  BY DEF Around, InOrder
<1>3. \A i, p : OptAt(Outer(p)', tree', Around', i, p) = OptAt(Outer(p), tree, Around, i, p)
  BY <1>1, <1>2, Zenon DEF OptAt, Outer
<1>4. Levels'
  BY <1>1, <1>2 DEF Stack, Levels
<1>5. Contents'
  BY <1>1, <1>2, <1>3 DEF Stack, Contents
<1>6. QED BY <1>1, <1>4, <1>5 DEF Stack

(* The tree changes away from the place of the iterator.                   *)
LEMMA ElsewhereStack ==
  ASSUME Frame, Stack, UNCHANGED config, Own' = Own, Own.tree \in Nodes, tree'.rnd = tree.rnd,
         NEW x, \A n \in Nodes \ {x} : tree'.params[n] = tree.params[n],
         x \notin Range(Way(tree.kids)[Own.tree]),
         Way(tree'.kids)[Own.tree] = Way(tree.kids)[Own.tree]
  PROVE  Stack'
<1>1. lvl' = lvl /\ slots' = slots /\ value' = value /\ base' = base
  BY DEF config
<1>2. Own.tree # NONE
  BY TreeAssumption
<1>3. Around' = Around /\ InOrder' = InOrder /\ Around = Way(tree.kids)[Own.tree]
  BY <1>2 DEF Around, InOrder
<1>4. /\ AtPlace(tree.kids, InOrder, Own) /\ Way(tree.kids)[Own.tree] \in Seq(Nodes)
         /\ Len(Way(tree.kids)[Own.tree]) \in Nat \ {0}
      /\ lvl \in Nat \ {0}
  <2>1. AtPlace(tree.kids, InOrder, Own)
    BY DEF Frame, Places, Own
  <2>2. QED BY <2>1, TreeFacts, WayParts DEF Frame, Stack, Slotted
<1>5. InOrder => Len(Own.stack) = Len(Around) - 1
  BY <1>2, <1>3, <1>4 DEF AtPlace
<1>6. InOrder => lvl - 1 <= Len(Around) /\ Len(Around) \in Nat
  <2>1. B(Own.pushed) \in {0, 1}
    BY DEF B
  <2>2. PICK a, l : a = B(Own.pushed) /\ l = Len(Around)
    OBVIOUS
  <2>3. InOrder => lvl = 1 + (l - 1) + a
    BY <1>5, <2>2 DEF Stack, Levels
  <2>4. QED BY <1>3, <1>4, <2>1, <2>2, <2>3
<1>7. \A j \in 1 .. Len(Around) : Around[j] \in Nodes \ {x}
  <2>1. PICK p : p = Around
    OBVIOUS
  <2>2. p \in Seq(Nodes) /\ x \notin Range(p)
    BY <1>3, <1>4, <2>1
  <2>3. \A j \in 1 .. Len(p) : p[j] \in Nodes /\ p[j] # x
    BY <2>2 DEF Range
  <2>4. QED BY <2>1, <2>3
<1>8. ASSUME InOrder, NEW i \in 0 .. lvl - 1, NEW o
      PROVE  OptAt(Outer(o)', tree', Around', i, o) = OptAt(Outer(o), tree, Around, i, o)
  <2>1. i \in Nat /\ \A j \in 1 .. i : j \in 1 .. Len(Around)
    BY <1>4, <1>6, <1>8
  <2>2. \A j \in 1 .. i : tree'.params[Around'[j]] = tree.params[Around[j]]
    BY <1>3, <1>7, <2>1
  <2>3. PICK d, t, u, p, q : d = Outer(o) /\ t = tree' /\ u = tree /\ p = Around' /\ q = Around
    OBVIOUS
  <2>a. Outer(o)' = d
    BY <1>1, <2>3 DEF Outer
  <2>4. Alike(t, p, u, q, i)
    BY <2>2, <2>3 DEF Alike
  <2>5. OptAt(d, t, p, i, o) = OptAt(d, u, q, i, o)
    BY <2>1, <2>4, OptSame
  <2>6. QED BY <2>3, <2>a, <2>5, Zenon
<1>9. (\A i \in 0 .. lvl - 2 : i \in 0 .. lvl - 1) /\ lvl - 1 \in 0 .. lvl - 1
  BY <1>4
<1>10. Slotted'
  BY <1>1 DEF Stack, Slotted
<1>11. Levels'
  BY <1>1, <1>3 DEF Stack, Levels
<1>12. ASSUME InOrder, NEW o \in Saved
       PROVE  /\ \A i \in 0 .. lvl - 2 : Kept(o, i) => slots[o][i + 2].val = OptAt(Outer(o)', tree', Around', i, o)
              /\ (~Own.pushed \/ Own.file = -1) /\ Kept(o, lvl - 1) => value[o] = OptAt(Outer(o)', tree', Around', lvl - 1, o)
  <2>1. /\ \A i \in 0 .. lvl - 2 : Kept(o, i) => slots[o][i + 2].val = OptAt(Outer(o), tree, Around, i, o)
        /\ (~Own.pushed \/ Own.file = -1) /\ Kept(o, lvl - 1) => value[o] = OptAt(Outer(o), tree, Around, lvl - 1, o)
    BY <1>12 DEF Contents, Stack
  <2>2. QED BY <1>8, <1>9, <1>12, <2>1
<1>13. Contents'
  BY <1>1, <1>3, <1>12 DEF Contents
<1>14. QED BY <1>10, <1>11, <1>13 DEF Stack

(* At the root nothing is pushed.                                          *)
LEMMA BareStack ==
  ASSUME Frame, Stack, UNCHANGED config, tree'.rnd = tree.rnd, ~Own.pushed, InOrder
           => Len(Own.stack) = 0,
         Own'.stack \in {<<>>, Own.stack}, Len(Own.stack) \in Nat, ~Own'.pushed
  PROVE  Stack'
<1>1. lvl' = lvl /\ slots' = slots /\ value' = value /\ base' = base
      /\ InOrder' = InOrder
  BY DEF config, InOrder
<1>2. Slotted' /\ lvl \in Nat
  BY <1>1 DEF Stack, Slotted
<1>3. B(Own.pushed) = 0 /\ B(Own'.pushed) = 0
  BY DEF B
<1>4. lvl >= 1 + Len(Own.stack) /\ (InOrder => lvl = 1)
  <2>1. lvl >= 1 + Len(Own.stack) + 0 /\ (InOrder => lvl = 1 + Len(Own.stack) + 0)
    BY <1>3 DEF Stack, Levels
  <2>2. QED BY <1>2, <2>1
<1>5. Len(Own'.stack) \in {0, Len(Own.stack)}
  BY DEF Own
<1>6. lvl >= 1 + Len(Own'.stack) + 0 /\ (InOrder => lvl = 1 + Len(Own'.stack) + 0)
  BY <1>2, <1>4, <1>5
<1>7. Levels'
  BY <1>1, <1>3, <1>6 DEF Levels
<1>8. ASSUME InOrder, NEW o \in Saved, o \notin Aliased
      PROVE  value[o] = Default
  <2>1. value[o] = OptAt(Outer(o), tree, Around, lvl - 1, o) /\ lvl - 1 = 0
    BY <1>2, <1>4, <1>8 DEF Stack, Contents, Kept
  <2>2. OptAt(Outer(o), tree, Around, 0, o) = Outer(o)
    BY OptNone
  <2>3. QED BY <1>8, <2>1, <2>2 DEF Outer
<1>9. ASSUME InOrder, NEW o \in Saved
      PROVE  /\ \A i \in 0 .. lvl - 2 :
                  Kept(o, i) => slots[o][i + 2].val = OptAt(Outer(o)', tree', Around', i, o)
             /\ Kept(o, lvl - 1) => value[o] = OptAt(Outer(o)', tree', Around', lvl - 1, o)
  <2>1. lvl - 1 = 0 /\ 0 .. lvl - 2 = {} /\ (Kept(o, lvl - 1) => o \notin Aliased)
    BY <1>4, <1>9 DEF Kept
  <2>2. PICK x, t, p : x = Outer(o)' /\ t = tree' /\ p = Around'
    OBVIOUS
  <2>3. OptAt(x, t, p, 0, o) = x
    BY OptNone
  <2>4. o \notin Aliased => x = Default
    BY <2>2 DEF Outer
  <2>5. QED BY <1>8, <1>9, <2>1, <2>2, <2>3, <2>4
<1>10. Contents'
  BY <1>1, <1>9 DEF Contents
<1>11. QED BY <1>2, <1>7, <1>10 DEF Stack

-----------------------------------------------------------------------------
(* What is known before each step of the player.                           *)
LEMMA FreshPlace ==
  ASSUME NEW k, NEW ord
  PROVE  AtPlace(k, ord, Fresh) /\ ~Fresh.copy /\ Fresh.tree = NONE /\ ~Fresh.pushed
         /\ Fresh.stack = <<>>
<1>1. Fresh \in Iters
  BY DEF Fresh, Iters
<1>2. QED BY <1>1 DEF AtPlace, Fresh

(* The parts of the invariant                                              *)
LEMMA Present ==
  ASSUME IInv
  PROVE  /\ Core /\ Frame /\ Stack /\ Pushed /\ Free /\ Well(tree) /\ Places /\ Calls /\ Jobs
         /\ iter \in Iters /\ step \in Int /\ cmds \in 0 .. MaxCommands /\ call.d \in Int
         /\ AtPlace(tree.kids, InOrder, iter)
         /\ job.at \notin Peeks => ~iter.copy /\ saved = Fresh /\ Own = iter
         /\ job.at # "drop" => NoneOpen(tree)
         /\ iter.tree \in Entries => iter.tree # NONE /\ iter.tree # Root /\ iter.tree \in Nodes
         /\ iter.tree = NONE => job.at \in {"open", "stopped"}
<1>1. Frame /\ Stack /\ Pushed /\ Free /\ Well(tree) /\ Places /\ Calls /\ Jobs
  BY DEF IInv, Frame, Stack
<1>2. iter \in Iters /\ call.d \in Int
  BY <1>1, IterIs
<1>3. step \in Int /\ cmds \in 0 .. MaxCommands
      /\ (iter.tree = NONE => job.at \in {"open", "stopped"})
  BY <1>1 DEF Jobs
<1>4. AtPlace(tree.kids, InOrder, iter) /\ (job.at \notin Peeks => ~iter.copy /\ saved = Fresh)
  BY <1>1 DEF Places
<1>5. ~iter.copy => Own = iter
  BY DEF Own
<1>6. job.at # "drop" => NoneOpen(tree)
  BY <1>1, FreeIs
<1>7. iter.tree \in Entries => iter.tree # NONE /\ iter.tree # Root /\ iter.tree \in Nodes
  BY TreeAssumption
<1>8. QED BY <1>1, <1>2, <1>3, <1>4, <1>5, <1>6, <1>7 DEF Core

(* The iterator is at an entry, and the player goes to open it.            *)
LEMMA FileInv ==
  ASSUME IInv, job.at \notin Peeks, iter.tree \in Entries, InOrder
           => iter.pushed, UNCHANGED <<iter, saved, step>>,
         cmds' \in 0 .. MaxCommands, Well(tree'), InOrder' = InOrder,
         AtPlace(tree'.kids, InOrder, iter),
         NoneOpen(tree'), Stack', NEW d \in Int, ToFile(d)
  PROVE  IInv'
<1>1. /\ ~iter.copy /\ saved = Fresh /\ step \in Int /\ iter.tree # NONE /\ iter.tree # Root
  BY Present
<1>2. Takes("file", d, "none", 0, FALSE)
  BY <1>1 DEF Takes, ToFile, NoCall
<1>3. AtPlace(tree'.kids, InOrder', saved')
  BY <1>1, FreshPlace
<1>4. Fits("file", d, "none")
  BY <1>1, <1>3 DEF Fits, Peeks
<1>5. "file" \in Plain
  BY DEF Plain
<1>6. QED BY <1>2, <1>4, <1>5, PlainInv

(* The same, when the playlist stays as it is                              *)
LEMMA SameFileInv ==
  ASSUME IInv, job.at \notin Peeks, job.at # "drop", iter.tree \in Entries, InOrder => iter.pushed,
         UNCHANGED <<tree, iter, saved, config, step>>, cmds' \in 0 .. MaxCommands, NEW d \in Int,
         ToFile(d)
  PROVE  IInv'
<1>1. Well(tree) /\ Stack /\ Own = iter /\ AtPlace(tree.kids, InOrder, iter) /\ NoneOpen(tree)
      /\ ~iter.copy
  BY Present
<1>2. Own' = Own /\ InOrder' = InOrder
  BY <1>1 DEF Own, InOrder
<1>3. Stack'
  BY <1>1, <1>2, SameStack
<1>4. QED BY <1>1, <1>2, <1>3, FileInv

(* A step was found, and the player goes to open the file.                 *)
LEMMA FoundEntry ==
  ASSUME IInv, Found, job.at \notin Peeks
  PROVE  iter.tree \in Entries /\ iter.pushed
<1>1. Calls /\ Pushed /\ ~iter.copy
  BY Present
<1>2. QED BY <1>1 DEF Found, Calls, Pushed

(* The player asks for a step.                                             *)
LEMMA BeginInv ==
  ASSUME IInv, job.at \notin Peeks, job.at # "drop", iter.tree # NONE,
         UNCHANGED <<tree, iter, saved, config>>,
         step' \in Int, cmds' \in 0 .. MaxCommands, NEW at \in {"entry", "sure", "next"},
         NEW op \in {"step", "up"},
         op = "up" => ~(iter.pushed /\ iter.tree = Root), NEW d \in Int, Begin(at, op, d)
  PROVE  IInv'
<1>1. /\ Well(tree) /\ Stack /\ Own = iter /\ AtPlace(tree.kids, InOrder, iter) /\ NoneOpen(tree)
      /\ ~iter.copy /\ saved = Fresh
  BY Present
<1>2. Own' = Own /\ InOrder' = InOrder
  BY <1>1 DEF Own, InOrder
<1>3. Stack'
  BY <1>1, <1>2, SameStack
<1>4. Takes(at, d, op, d, FALSE)
  BY DEF Takes, Begin
<1>5. AtPlace(tree'.kids, InOrder', saved')
  BY <1>1, FreshPlace
<1>6. Fits(at, d, op)
  BY <1>1, <1>2, <1>5 DEF Fits, Peeks
<1>7. at \in Plain
  BY DEF Plain
<1>8. QED BY <1>1, <1>3, <1>4, <1>6, <1>7, PlainInv

(* The laps of a file that are left are a value of the option.             *)
LEMMA LoopCounts ==
  ASSUME Slotted
  PROVE  Loop \in Opts /\ Count(value[Loop]) \in Vals
<1>1. Loop \in Opts /\ value[Loop] \in Vals
  BY TreeAssumption DEF Slotted
<1>2. QED BY <1>1, ValuesAssumption

(* The file plays, once more or for the first time: its laps are counted.  *)
LEMMA PlayInv ==
  ASSUME IInv, iter'.tree = Own.tree, iter'.stack = Own.stack, iter'.pushed = Own.pushed,
         ~iter'.copy,
         AtPlace(tree.kids, InOrder, iter'), iter'.tree \in Entries, iter'.file >= 0, InOrder
           => iter'.pushed,
         tree' = tree, saved' = Fresh, step' \in Int, cmds' \in 0 .. MaxCommands, NoneOpen(tree),
         NEW d \in Int, job' = Job("play", 0), call' = Call("none", d, FALSE),
         Assign(Loop, Count(value[Loop]))
  PROVE  IInv'
<1>1. Well(tree) /\ Stack /\ iter'.file # -1
  <2>1. iter'.file \in Int
    BY DEF AtPlace, Iters
  <2>2. QED BY <2>1, Present
<1>2. Own' = iter'
  BY DEF Own
<1>3. Loop \in Opts /\ Count(value[Loop]) \in Vals
  BY <1>1, LoopCounts DEF Stack
<1>4. PICK v \in Vals : v = Count(value[Loop])
  BY <1>3
<1>5. Assign(Loop, v)
  BY <1>4
<1>6. Stack'
  BY <1>1, <1>2, <1>3, <1>5, AssignStack
<1>7. Takes("play", 0, "none", d, FALSE)
  BY DEF Takes
<1>8. iter'.tree # NONE /\ iter'.tree # Root
  BY TreeAssumption
<1>9. AtPlace(tree'.kids, InOrder', saved') /\ InOrder' = InOrder
  BY FreshPlace DEF InOrder
<1>10. Fits("play", 0, "none")
  BY <1>1, <1>8, <1>9 DEF Fits, Peeks
<1>11. "play" \in Plain
  BY DEF Plain
<1>12. QED BY <1>6, <1>7, <1>10, <1>11, PlainInv

(* A call that finds no entry says that the end is reached, at the root.   *)
LEMMA EndIs ==
  ASSUME IInv, NEW at, Done(at), job.at \notin {"stop", "load"}, ~Found
  PROVE  call.op = "END"
<1>1. Calls
  BY Present
<1>2. QED BY <1>1 DEF Calls, Done, Found

(* At the end of a call nothing is pushed; in order, the stack is empty.   *)
LEMMA AtEnd ==
  ASSUME IInv, job.at \notin Peeks, call.op \in {"END", "NODE"}
  PROVE  /\ ~Own.pushed /\ Len(Own.stack) \in Nat /\ iter.tree # NONE
         /\ call.op = "END" /\ InOrder => Len(Own.stack) = 0
<1>1. Well(tree) /\ Calls /\ Pushed /\ Places /\ ~iter.copy /\ Own = iter
  BY Present
<1>2. ~iter.pushed /\ (call.op = "END" /\ InOrder => iter.tree = Root) /\ iter.tree # NONE
  BY <1>1 DEF Pushed, Calls
<1>3. Len(iter.stack) \in Nat /\ (InOrder => Len(iter.stack) = Len(Way(tree.kids)[iter.tree]) - 1)
  BY <1>1, <1>2, IterIs
<1>4. Len(Way(tree.kids)[Root]) = 1
  <2>1. Way(tree.kids)[Root] = <<Root>>
    BY <1>1, TreeFacts, TheRoot
  <2>2. QED BY <2>1
<1>5. PICK l, w : l = Len(iter.stack) /\ w = Len(Way(tree.kids)[iter.tree])
  OBVIOUS
<1>6. call.op = "END" /\ InOrder => l = 0
  <2>1. call.op = "END" /\ InOrder => w = 1 /\ l = w - 1
    BY <1>2, <1>3, <1>4, <1>5
  <2>2. QED BY <2>1
<1>7. QED BY <1>1, <1>2, <1>3, <1>5, <1>6

(* The player stops at the end of the playlist.                            *)
LEMMA StopInv ==
  ASSUME IInv, job.at \notin Peeks, job.at # "drop", call.op = "END",
         UNCHANGED <<tree, saved, config, step, cmds>>, Stopped
  PROVE  IInv'
<1>1. Well(tree) /\ Stack /\ Frame /\ saved = Fresh /\ NoneOpen(tree) /\ step \in Int
      /\ cmds \in 0 .. MaxCommands
  BY Present
<1>2. ~Own.pushed /\ Len(Own.stack) \in Nat /\ (InOrder => Len(Own.stack) = 0)
  BY AtEnd
<1>3. iter' = Fresh /\ Own' = Fresh
  BY FreshPlace DEF Stopped, Own
<1>4. Stack'
  <2>1. Own'.stack \in {<<>>, Own.stack} /\ ~Own'.pushed /\ tree'.rnd = tree.rnd
    BY <1>3, FreshPlace
  <2>2. QED BY <1>1, <1>2, <2>1, BareStack
<1>5. Takes("stopped", 0, "none", 0, FALSE)
  BY <1>1 DEF Takes, Stopped, NoCall
<1>6. AtPlace(tree'.kids, InOrder', iter') /\ AtPlace(tree'.kids, InOrder', saved')
  BY <1>1, <1>3, FreshPlace
<1>7. Fits("stopped", 0, "none")
  BY <1>1, <1>3, <1>6, FreshPlace DEF Fits, Peeks
<1>8. "stopped" \in Plain
  BY DEF Plain
<1>9. QED BY <1>1, <1>4, <1>5, <1>7, <1>8, PlainInv

(* Opened: an entry was found, so the player does not crash.               *)
LEMMA OpenedInv == ASSUME IInv, Opened PROVE IInv'
<1>1. job.at = "open" /\ call.op \in {"ENTRY", "NODE", "END", "ERROR"}
  BY DEF Opened, Done
<1>2. Found
  BY <1>1 DEF IInv, Opening, Found
<1>3. iter.tree \in Entries /\ iter.pushed
  BY <1>1, <1>2, FoundEntry DEF Peeks
<1>4. ToFile(1) /\ UNCHANGED <<tree, iter, saved, config, step, cmds>>
  BY <1>2 DEF Opened
<1>5. cmds \in 0 .. MaxCommands
  BY Present
<1>6. QED BY <1>1, <1>3, <1>4, <1>5, SameFileInv DEF Peeks

(* Moved keeps the invariant.                                              *)
LEMMA MovedInv == ASSUME IInv, Moved PROVE IInv'
<1>1. job.at \in {"entry", "sure", "next"} /\ job.at \notin Peeks
      /\ UNCHANGED <<tree, saved, config, step, cmds>>
  BY DEF Moved, Done, Peeks
<1>2. CASE Found
  <2>1. iter.tree \in Entries /\ iter.pushed
    BY <1>1, <1>2, FoundEntry
  <2>2. PICK d : d = IF job.at = "next" THEN job.d ELSE 1
    OBVIOUS
  <2>3. d \in Int /\ cmds \in 0 .. MaxCommands
    BY <1>1, <2>2, Present DEF Jobs
  <2>4. ToFile(d) /\ iter' = iter
    BY <1>2, <2>2 DEF Moved
  <2>5. QED BY <1>1, <2>1, <2>3, <2>4, SameFileInv
<1>3. CASE ~Found
  <2>1. call.op = "END"
    BY <1>1, <1>3, EndIs DEF Moved
  <2>2. Stopped
    BY <1>3 DEF Moved
  <2>3. QED BY <1>1, <2>1, <2>2, StopInv
<1>4. QED BY <1>2, <1>3

(* AtHead: pt_iter_goto_head may find a shuffled list played.              *)
LEMMA AtHeadInv == ASSUME IInv, AtHead PROVE IInv'
<1>1. /\ job.at = "head" /\ job.at \notin Peeks /\ call.op \in {"ENTRY", "NODE", "END", "ERROR"}
         /\ ToFile(1)
      /\ UNCHANGED <<tree, iter, saved, config, step, cmds>>
  BY DEF AtHead, Done, Peeks
<1>2. CASE Found
  <2>1. iter.tree \in Entries /\ iter.pushed /\ cmds \in 0 .. MaxCommands
    BY <1>1, <1>2, FoundEntry, Present
  <2>2. QED BY <1>1, <2>1, SameFileInv
<1>3. CASE ~Found
  <2>1. call.op = "END"
    BY <1>1, <1>3, EndIs DEF AtHead
  <2>2. ~InOrder
    BY <1>1, <2>1 DEF IInv, Opening
  <2>3. /\ Well(tree) /\ Stack /\ Own = iter /\ AtPlace(tree.kids, InOrder, iter) /\ NoneOpen(tree)
        /\ ~iter.copy /\ saved = Fresh /\ step \in Int /\ cmds \in 0 .. MaxCommands
           /\ iter.tree # NONE
    BY <1>1, Present
  <2>4. ~iter.pushed
    BY <2>1, <2>3, <1>1, AtEnd
  <2>5. Own' = Own /\ InOrder' = InOrder
    BY <1>1, <2>3 DEF Own, InOrder
  <2>6. Stack'
    BY <1>1, <2>3, <2>5, SameStack
  <2>7. Takes("file", 1, "none", 0, FALSE)
    BY <1>1, <2>3 DEF Takes, ToFile, NoCall
  <2>8. AtPlace(tree'.kids, InOrder', saved')
    BY <1>1, <2>3, FreshPlace
  <2>9. Fits("file", 1, "none")
    BY <1>1, <2>2, <2>3, <2>4, <2>5, <2>8 DEF Fits, Peeks
  <2>10. "file" \in Plain
    BY DEF Plain
  <2>11. QED BY <1>1, <2>3, <2>6, <2>7, <2>9, <2>10, PlainInv
<1>4. QED BY <1>2, <1>3

(* NoFile keeps the invariant.                                             *)
LEMMA NoFileInv == ASSUME IInv, NoFile PROVE IInv'
<1>1. /\ job.at = "file" /\ job.at \notin Peeks /\ Begin("next", "step", job.d)
      /\ UNCHANGED <<tree, iter, saved, config, step, cmds>>
  BY DEF NoFile, Peeks
<1>2. job.d \in Int /\ step \in Int /\ cmds \in 0 .. MaxCommands /\ iter.tree # NONE
  BY <1>1, Present DEF Jobs
<1>3. PICK d \in Int : d = job.d
  BY <1>2
<1>4. Begin("next", "step", d)
  BY <1>1, <1>3
<1>5. QED BY <1>1, <1>2, <1>4, BeginInv

(* The sources of a file are counted from 0.                               *)
LEMMA SourceIs ==
  ASSUME IInv, job.at = "file", HasFile
  PROVE  Source \in Int /\ Source >= 0 /\ iter.tree \in Entries
<1>1. iter.tree \in Entries /\ Sources[iter.tree] \in Nat \ {0} /\ iter.file \in Int
      /\ iter.file >= -1 /\ job.d \in Int
  BY Present, TreeAssumption DEF HasFile, Jobs, AtPlace, Iters
<1>2. PICK s \in Nat \ {0}, f \in Int, d \in Int : s = Sources[iter.tree] /\ f = iter.file
      /\ d = job.d
  BY <1>1
<1>3. Source = IF d > 0 THEN f + 1 ELSE IF f <= 0 THEN s - 1 ELSE f - 1
  BY <1>2 DEF Source
<1>4. f >= -1
  BY <1>1, <1>2
<1>5. QED BY <1>1, <1>2, <1>3, <1>4

(* The iterator with another file of its entry                             *)
LEMMA FileAt ==
  ASSUME iter \in Iters, NEW f \in Int, iter' = [iter EXCEPT !.file = f]
  PROVE  /\ iter' \in Iters /\ iter'.tree = iter.tree /\ iter'.stack = iter.stack
            /\ iter'.pushed = iter.pushed
         /\ iter'.copy = iter.copy /\ iter'.file = f /\ iter'.rnd = iter.rnd
BY DEF Iters

(* PlayFile: from now on the options may differ from those of the place.   *)
LEMMA PlayFileInv == ASSUME IInv, PlayFile PROVE IInv'
<1>1. /\ job.at = "file" /\ job.at \notin Peeks /\ HasFile
         /\ UNCHANGED <<cmds, tree, saved, call, step>>
      /\ Assign(Loop, Count(value[Loop])) /\ job' = Job("play", 0)
  BY DEF PlayFile, Peeks
<1>2. /\ iter \in Iters /\ Own = iter /\ ~iter.copy /\ AtPlace(tree.kids, InOrder, iter) /\ Calls
         /\ Jobs
      /\ NoneOpen(tree) /\ step \in Int /\ cmds \in 0 .. MaxCommands /\ saved = Fresh
  BY <1>1, Present
<1>3. PICK f : f = Source
  OBVIOUS
<1>4. f \in Int /\ f >= 0 /\ iter.tree \in Entries
  BY <1>1, <1>3, SourceIs
<1>5. iter' = [iter EXCEPT !.file = f]
  BY <1>3 DEF PlayFile
<1>6. /\ iter' \in Iters /\ iter'.tree = iter.tree /\ iter'.stack = iter.stack
         /\ iter'.pushed = iter.pushed
      /\ iter'.copy = iter.copy /\ iter'.file = f /\ iter'.rnd = iter.rnd
  BY <1>2, <1>4, <1>5, FileAt
<1>7. AtPlace(tree.kids, InOrder, iter') /\ iter'.file >= 0
  BY <1>2, <1>4, <1>6 DEF AtPlace
<1>8. InOrder => iter'.pushed
  BY <1>1, <1>2, <1>6 DEF Jobs
<1>9. PICK d \in Int : d = call.d
  BY Present
<1>10. call' = Call("none", d, FALSE)
  <2>1. call.op = "none" /\ call \in [op : {call.op}, d : Int, nodes : BOOLEAN] /\ ~call.nodes
    BY <1>1, <1>2 DEF Calls
  <2>2. QED BY <1>1, <1>9, <2>1 DEF Call
<1>11. iter'.tree = Own.tree /\ iter'.stack = Own.stack /\ iter'.pushed = Own.pushed /\ ~iter'.copy
       /\ iter'.tree \in Entries
  BY <1>2, <1>4, <1>6
<1>12. saved' = Fresh /\ step' \in Int /\ cmds' \in 0 .. MaxCommands /\ tree' = tree
  BY <1>1, <1>2
<1>13. QED BY <1>1, <1>2, <1>7, <1>8, <1>10, <1>11, <1>12, PlayInv

(* A file is playing: the iterator is at it.                               *)
LEMMA AtFile ==
  ASSUME IInv, Playing
  PROVE  /\ job.at = "play" /\ job.at \notin Peeks /\ job.at # "drop" /\ iter.tree \in Entries
            /\ iter.file >= 0
         /\ InOrder => iter.pushed
         /\ Own = iter /\ ~iter.copy /\ iter.tree # NONE /\ iter.tree # Root /\ saved = Fresh
            /\ iter \in Iters
         /\ call.op = "none" /\ call.d \in Int /\ call = Call("none", call.d, FALSE)
<1>1. job.at = "play" /\ job.at \notin Peeks /\ job.at # "drop"
  BY DEF Playing, Peeks
<1>2. Jobs /\ Calls /\ Own = iter /\ ~iter.copy /\ saved = Fresh /\ call.d \in Int /\ iter \in Iters
  BY <1>1, Present
<1>3. iter.tree \in Entries /\ iter.file >= 0 /\ (InOrder => iter.pushed)
  BY <1>1, <1>2 DEF Jobs
<1>4. call.op = "none" /\ call \in [op : {call.op}, d : Int, nodes : BOOLEAN] /\ ~call.nodes
  BY <1>1, <1>2 DEF Calls
<1>5. call = Call("none", call.d, FALSE)
  BY <1>4 DEF Call
<1>6. iter.tree # NONE /\ iter.tree # Root
  BY <1>3, TreeAssumption
<1>7. QED BY <1>1, <1>2, <1>3, <1>4, <1>5, <1>6

(* PT_NEXT_ENTRY: once more, or a step                                     *)
LEMMA NextEntryInv ==
  ASSUME IInv, Playing, UNCHANGED <<tree, iter, saved>>, cmds' \in 0 .. MaxCommands, NEW n \in Int,
         NextEntry("entry", n)
  PROVE  IInv'
<1>1. /\ job.at \notin Peeks /\ job.at # "drop" /\ iter.tree \in Entries /\ iter.file >= 0
         /\ (InOrder => iter.pushed)
      /\ Own = iter /\ ~iter.copy /\ iter.tree # NONE /\ saved = Fresh
  BY AtFile
<1>2. CASE n > 0 /\ value[Loop] >= 0
  <2>1. Assign(Loop, Count(value[Loop])) /\ job' = Job("play", 0)
        /\ call' = Call("none", 0, FALSE) /\ step' = n
    BY <1>2 DEF NextEntry, NoCall
  <2>2. /\ iter'.tree = Own.tree /\ iter'.stack = Own.stack /\ iter'.pushed = Own.pushed
           /\ ~iter'.copy
        /\ iter'.tree \in Entries /\ iter'.file >= 0 /\ (InOrder => iter'.pushed)
        /\ saved' = Fresh /\ tree' = tree
    BY <1>1
  <2>3. AtPlace(tree.kids, InOrder, iter') /\ NoneOpen(tree)
    BY <1>1, Present
  <2>4. 0 \in Int /\ step' \in Int
    BY <2>1
  <2>5. QED BY <2>1, <2>2, <2>3, <2>4, PlayInv
<1>3. CASE ~(n > 0 /\ value[Loop] >= 0)
  <2>1. Begin("entry", "step", n) /\ step' = 1 /\ UNCHANGED config
    BY <1>3 DEF NextEntry
  <2>2. QED BY <1>1, <2>1, BeginInv
<1>4. QED BY <1>2, <1>3

(* EndOfFile keeps the invariant.                                          *)
LEMMA EndOfFileInv == ASSUME IInv, EndOfFile PROVE IInv'
<1>1. Playing /\ UNCHANGED <<tree, iter, saved, cmds>> /\ NextEntry("entry", step)
  BY DEF EndOfFile
<1>2. step \in Int /\ cmds \in 0 .. MaxCommands
  BY Present
<1>3. PICK n \in Int : n = step
  BY <1>2
<1>4. NextEntry("entry", n)
  BY <1>1, <1>3
<1>5. QED BY <1>1, <1>2, <1>4, NextEntryInv

(* Commands are counted up to the bound.                                   *)
LEMMA Counted ==
  ASSUME IInv, cmds < MaxCommands, cmds' = cmds + 1
  PROVE  cmds' \in 0 .. MaxCommands
<1>1. cmds \in 0 .. MaxCommands /\ MaxCommands \in Nat
  BY Present, TreeAssumption
<1>2. QED BY <1>1

(* Forced: an entry is never the root, so up starts below it.              *)
LEMMA ForcedInv == ASSUME IInv, Forced PROVE IInv'
<1>1. Playing /\ cmds' \in 0 .. MaxCommands /\ UNCHANGED <<tree, iter, saved>>
      /\ Steps \subseteq Int
  BY Counted, TreeAssumption DEF Forced, Command
<1>2. ASSUME NEW n \in Steps, NextEntry("entry", n) PROVE IInv'
  <2>1. n \in Int
    BY <1>1
  <2>2. QED BY <1>1, <1>2, <2>1, NextEntryInv
<1>3. ASSUME NEW d \in {1, -1}, Begin("entry", "up", d), UNCHANGED <<step, log, config>> PROVE IInv'
  <2>1. d \in Int /\ step' \in Int
    BY <1>3, Present
  <2>2. job.at \notin Peeks /\ job.at # "drop" /\ iter.tree # NONE /\ iter.tree # Root
    BY <1>1, AtFile
  <2>3. QED BY <1>1, <1>3, <2>1, <2>2, BeginInv
<1>4. QED BY <1>2, <1>3 DEF Forced

(* OpenFails keeps the invariant.                                          *)
LEMMA OpenFailsInv == ASSUME IInv, OpenFails PROVE IInv'
<1>1. /\ job.at = "file" /\ job.at \notin Peeks /\ HasFile /\ cmds' \in 0 .. MaxCommands
      /\ UNCHANGED <<tree, saved, config>>
  BY Counted DEF OpenFails, Peeks
<1>2. /\ iter \in Iters /\ Own = iter /\ ~iter.copy /\ AtPlace(tree.kids, InOrder, iter)
      /\ Jobs /\ NoneOpen(tree) /\ step \in Int /\ saved = Fresh /\ Well(tree) /\ Stack
  BY <1>1, Present
<1>3. PICK f : f = Source
  OBVIOUS
<1>4. f \in Int /\ f >= 0 /\ iter.tree \in Entries
  BY <1>1, <1>3, SourceIs
<1>5. iter' = [iter EXCEPT !.file = f]
  BY <1>3 DEF OpenFails
<1>6. /\ iter' \in Iters /\ iter'.tree = iter.tree /\ iter'.stack = iter.stack
         /\ iter'.pushed = iter.pushed
      /\ iter'.copy = iter.copy /\ iter'.file = f /\ iter'.rnd = iter.rnd
  BY <1>2, <1>4, <1>5, FileAt
<1>7. AtPlace(tree.kids, InOrder, iter')
  BY <1>2, <1>4, <1>6 DEF AtPlace
<1>8. InOrder => iter'.pushed
  BY <1>1, <1>2, <1>6 DEF Jobs
<1>9. iter'.tree # NONE /\ iter'.tree # Root /\ iter'.tree \in Entries
  BY <1>4, <1>6, TreeAssumption
<1>10. Stack'
  <2>1. /\ Own' = iter' /\ Own'.tree = Own.tree /\ Own'.stack = Own.stack /\ Own'.pushed = Own.pushed
        /\ Own'.file # -1
    BY <1>2, <1>4, <1>6 DEF Own
  <2>2. lvl' = lvl /\ slots' = slots /\ value' = value /\ base' = base
    BY <1>1 DEF config
  <2>3. Around' = Around /\ InOrder' = InOrder /\ (InOrder => Own'.pushed)
    BY <1>1, <1>8, <2>1 DEF Around, InOrder
  <2>4. \A i, o : OptAt(Outer(o)', tree', Around', i, o) = OptAt(Outer(o), tree, Around, i, o)
    BY <1>1, <2>2, <2>3, Zenon DEF OptAt, Outer
  <2>5. Slotted'
    BY <1>2, <2>2 DEF Stack, Slotted
  <2>6. Levels'
    BY <1>2, <2>1, <2>2, <2>3 DEF Stack, Levels
  <2>7. Contents'
    BY <1>2, <2>1, <2>2, <2>3, <2>4 DEF Stack, Contents
  <2>8. QED BY <2>5, <2>6, <2>7 DEF Stack
<1>11. /\ AtPlace(tree'.kids, InOrder', iter') /\ AtPlace(tree'.kids, InOrder', saved')
       /\ saved' = Fresh /\ Well(tree') /\ NoneOpen(tree') /\ InOrder' = InOrder
  BY <1>1, <1>2, <1>7, FreshPlace DEF InOrder
<1>12. CASE ToFile(1) /\ step' = step
  <2>1. Takes("file", 1, "none", 0, FALSE)
    BY <1>1, <1>2, <1>12 DEF Takes, ToFile, NoCall
  <2>2. Fits("file", 1, "none")
    BY <1>2, <1>6, <1>8, <1>9, <1>11 DEF Fits, Peeks
  <2>3. "file" \in Plain
    BY DEF Plain
  <2>4. QED BY <1>10, <1>11, <2>1, <2>2, <2>3, PlainInv
<1>13. CASE Begin("entry", "step", step) /\ step' = 1
  <2>1. PICK d \in Int : d = step
    BY <1>2
  <2>2. Takes("entry", d, "step", d, FALSE)
    BY <1>1, <1>13, <2>1 DEF Takes, Begin
  <2>3. Fits("entry", d, "step")
    BY <1>2, <1>6, <1>9, <1>11 DEF Fits, Peeks
  <2>4. "entry" \in Plain
    BY DEF Plain
  <2>5. QED BY <1>10, <1>11, <2>2, <2>3, <2>4, PlainInv
<1>14. QED BY <1>12, <1>13 DEF OpenFails

(* AltSource keeps the invariant.                                          *)
LEMMA AltSourceInv == ASSUME IInv, AltSource PROVE IInv'
<1>1. Playing /\ cmds' \in 0 .. MaxCommands /\ UNCHANGED <<tree, iter, saved, config, step>>
  BY Counted DEF AltSource, Command
<1>2. \E d \in Int : ToFile(d)
  BY DEF AltSource
<1>3. job.at \notin Peeks /\ job.at # "drop" /\ iter.tree \in Entries /\ (InOrder => iter.pushed)
  BY <1>1, AtFile
<1>4. QED BY <1>1, <1>2, <1>3, SameFileInv

(* SetProperty: the options of a file that plays may be anything.          *)
LEMMA SetPropertyInv == ASSUME IInv, SetProperty PROVE IInv'
<1>1. Playing /\ cmds' \in 0 .. MaxCommands /\ UNCHANGED <<tree, iter, saved, call, job, step>>
  BY Counted DEF SetProperty, Command
<1>2. PICK o \in Opts, v \in Vals : Assign(o, v)
  BY DEF SetProperty
<1>3. /\ job.at = "play" /\ iter.tree \in Entries /\ iter.file >= 0 /\ (InOrder => iter.pushed)
      /\ Own = iter /\ ~iter.copy /\ saved = Fresh /\ iter \in Iters /\ iter.tree # Root
         /\ iter.tree # NONE
      /\ call.d \in Int /\ call = Call("none", call.d, FALSE)
  BY <1>1, AtFile
<1>4. Well(tree) /\ Stack /\ NoneOpen(tree) /\ AtPlace(tree.kids, InOrder, iter) /\ step \in Int
      /\ Jobs
  BY <1>3, Present
<1>5. Own' = iter /\ InOrder' = InOrder
  BY <1>1, <1>3 DEF Own, InOrder
<1>6. iter.file # -1
  BY <1>3 DEF Iters
<1>7. Stack'
  BY <1>1, <1>2, <1>3, <1>4, <1>5, <1>6, AssignStack
<1>8. PICK d \in Int, j \in Int : d = call.d /\ j = job.d
  BY <1>3, <1>4 DEF Jobs
<1>9. call' = Call("none", d, FALSE) /\ job' = Job("play", j)
  BY <1>1, <1>3, <1>4, <1>8 DEF Jobs, Job
<1>10. Takes("play", j, "none", d, FALSE)
  BY <1>1, <1>4, <1>9 DEF Takes
<1>11. AtPlace(tree'.kids, InOrder', saved')
  BY <1>1, <1>3, FreshPlace
<1>12. Fits("play", j, "none")
  BY <1>1, <1>3, <1>4, <1>5, <1>11 DEF Fits, Peeks
<1>13. "play" \in Plain
  BY DEF Plain
<1>14. QED BY <1>1, <1>4, <1>7, <1>10, <1>12, <1>13, PlainInv

(* A copy of the iterator                                                  *)
LEMMA CopyIs ==
  ASSUME iter \in Iters, iter' = [iter EXCEPT !.copy = TRUE]
  PROVE  /\ iter' \in Iters /\ iter'.tree = iter.tree /\ iter'.stack = iter.stack
            /\ iter'.pushed = iter.pushed
         /\ iter'.copy /\ iter'.file = iter.file /\ iter'.rnd = iter.rnd
BY DEF Iters

(* A copy of the iterator is moved; the player's own is kept.              *)
LEMMA CopyInv ==
  ASSUME IInv, Playing, cmds' \in 0 .. MaxCommands, UNCHANGED <<tree, config, step>>, saved' = iter,
         iter' = [iter EXCEPT !.copy = TRUE], NEW at \in Peeks, NEW op \in {"step", "up"},
         NEW d \in Int,
         job' = Job(at, d), call' = Call(op, d, FALSE)
  PROVE  IInv'
<1>1. /\ job.at # "drop" /\ iter.tree \in Entries /\ iter.file >= 0 /\ (InOrder => iter.pushed)
      /\ Own = iter /\ ~iter.copy /\ iter.tree # NONE /\ iter.tree # Root /\ iter \in Iters
  BY AtFile
<1>2. Well(tree) /\ Stack /\ NoneOpen(tree) /\ AtPlace(tree.kids, InOrder, iter) /\ step \in Int
  BY <1>1, Present
<1>3. /\ iter' \in Iters /\ iter'.tree = iter.tree /\ iter'.stack = iter.stack
         /\ iter'.pushed = iter.pushed
      /\ iter'.copy /\ iter'.file = iter.file /\ iter'.rnd = iter.rnd
  BY <1>1, CopyIs
<1>4. AtPlace(tree.kids, InOrder, iter')
  BY <1>2, <1>3 DEF AtPlace
<1>5. Own' = Own /\ InOrder' = InOrder
  BY <1>1, <1>3 DEF Own, InOrder
<1>6. Stack'
  BY <1>2, <1>5, SameStack
<1>7. at \in {"peekstep", "peekup"}
  BY DEF Peeks
<1>8. Takes(at, d, op, d, FALSE)
  BY <1>2, <1>7 DEF Takes
<1>9. Fits(at, d, op)
  BY <1>1, <1>2, <1>3, <1>4, <1>5, <1>7 DEF Fits
<1>10. at \in Plain
  BY <1>7 DEF Plain
<1>11. QED BY <1>2, <1>6, <1>8, <1>9, <1>10, PlainInv

(* Peek keeps the invariant.                                               *)
LEMMA PeekInv == ASSUME IInv, Peek PROVE IInv'
<1>1. /\ Playing /\ cmds' \in 0 .. MaxCommands /\ UNCHANGED <<tree, config, step>> /\ saved' = iter
      /\ iter' = [iter EXCEPT !.copy = TRUE] /\ Steps \subseteq Int
  BY Counted, TreeAssumption DEF Peek, Command
<1>2. PICK at \in Peeks, op \in {"step", "up"}, d \in Int : job' = Job(at, d)
      /\ call' = Call(op, d, FALSE)
  <2>1. CASE \E n \in Steps : Begin("peekstep", "step", n)
    BY <1>1, <2>1 DEF Begin, Peeks
  <2>2. CASE \E d \in {1, -1} : Begin("peekup", "up", d)
    <3>1. PICK d \in {1, -1} : Begin("peekup", "up", d)
      BY <2>2
    <3>2. d \in Int
      OBVIOUS
    <3>3. job' = Job("peekup", d) /\ call' = Call("up", d, FALSE)
      BY <3>1 DEF Begin
    <3>4. QED BY <3>2, <3>3, Zenon DEF Peeks
  <2>3. QED BY <2>1, <2>2 DEF Peek
<1>3. QED BY <1>1, <1>2, CopyInv

(* The copy is thrown away, and the player's iterator is where it was.     *)
LEMMA CopyEnds ==
  ASSUME IInv, job.at \in Peeks
  PROVE  /\ Own = saved /\ saved \in Iters /\ saved.tree \in Entries /\ ~saved.copy
            /\ saved.file >= 0
         /\ (InOrder => saved.pushed) /\ saved.tree # NONE /\ saved.tree # Root
            /\ saved.tree \in Nodes
         /\ AtPlace(tree.kids, InOrder, saved) /\ NoneOpen(tree) /\ Well(tree) /\ Stack
            /\ job.d \in Int
         /\ job.at # "drop" /\ step \in Int /\ cmds \in 0 .. MaxCommands
<1>1. Places /\ Jobs /\ Well(tree) /\ Stack /\ job.at # "drop" /\ step \in Int
      /\ cmds \in 0 .. MaxCommands
  BY Present DEF Peeks
<1>2. iter.copy
  BY <1>1 DEF Places
<1>3. saved.tree \in Entries /\ ~saved.copy /\ saved.file >= 0 /\ (InOrder => saved.pushed)
      /\ AtPlace(tree.kids, InOrder, saved)
  BY <1>1, <1>2 DEF Places
<1>4. saved.tree # NONE /\ saved.tree # Root /\ saved.tree \in Nodes
  BY <1>3, TreeAssumption
<1>5. saved \in Iters /\ Own = saved
  BY <1>2, <1>3 DEF AtPlace, Own
<1>6. job.d \in Int
  BY <1>1 DEF Jobs, Peeks
<1>7. NoneOpen(tree)
  BY <1>1, Present
<1>8. QED BY <1>1, <1>3, <1>4, <1>5, <1>6, <1>7

(* The player's own iterator is back, with all that is pushed.             *)
LEMMA BackInv ==
  ASSUME IInv, job.at \in Peeks, iter' = saved, saved' = Fresh, UNCHANGED <<tree, config, cmds>>,
         step' \in Int,
         NEW at \in {"play", "sure"}, NEW op \in {"none", "step", "up"}, op = "none"
           <=> at = "play",
         NEW j \in Int, NEW d \in Int, job' = Job(at, j), call' = Call(op, d, FALSE)
  PROVE  IInv'
<1>1. /\ Own = saved /\ saved \in Iters /\ saved.tree \in Entries /\ ~saved.copy /\ saved.file >= 0
      /\ (InOrder => saved.pushed) /\ saved.tree # NONE /\ saved.tree # Root
      /\ AtPlace(tree.kids, InOrder, saved) /\ NoneOpen(tree) /\ Well(tree) /\ Stack
         /\ cmds \in 0 .. MaxCommands
  BY CopyEnds
<1>2. Own' = Own /\ InOrder' = InOrder
  BY <1>1 DEF Own, InOrder
<1>3. Stack'
  BY <1>1, <1>2, SameStack
<1>4. Takes(at, j, op, d, FALSE)
  BY <1>1 DEF Takes
<1>5. AtPlace(tree'.kids, InOrder', saved')
  BY FreshPlace
<1>6. Fits(at, j, op)
  BY <1>1, <1>2, <1>5 DEF Fits, Peeks
<1>7. at \in Plain
  BY DEF Plain
<1>8. QED BY <1>1, <1>3, <1>4, <1>6, <1>7, PlainInv

(* Peeked keeps the invariant.                                             *)
LEMMA PeekedInv == ASSUME IInv, Peeked PROVE IInv'
<1>1. job.at \in Peeks /\ iter' = saved /\ saved' = Fresh /\ UNCHANGED <<tree, cmds>>
  BY DEF Peeked, Done, Peeks, Original
<1>2. /\ Own = saved /\ saved.tree \in Entries /\ ~saved.copy /\ saved.file >= 0
      /\ (InOrder => saved.pushed) /\ AtPlace(tree.kids, InOrder, saved) /\ NoneOpen(tree)
      /\ job.d \in Int /\ step \in Int /\ cmds \in 0 .. MaxCommands
  BY <1>1, CopyEnds
<1>3. PICK n \in Int : n = job.d
  BY <1>2
<1>4. CASE ~Found
  <2>1. job' = Job("play", 0) /\ call' = Call("none", 0, FALSE) /\ UNCHANGED <<step, config>>
    BY <1>4 DEF Peeked, NoCall
  <2>2. 0 \in Int /\ step' \in Int
    BY <1>2, <2>1
  <2>3. QED BY <1>1, <2>1, <2>2, BackInv
<1>5. CASE Found /\ job.at = "peekstep" /\ n > 0 /\ value[Loop] >= 0
  <2>1. /\ Assign(Loop, Count(value[Loop])) /\ job' = Job("play", 0)
           /\ call' = Call("none", 0, FALSE)
        /\ step' = n
    BY <1>3, <1>5 DEF Peeked, NextEntry, NoCall
  <2>2. /\ iter'.tree = Own.tree /\ iter'.stack = Own.stack /\ iter'.pushed = Own.pushed
           /\ ~iter'.copy
        /\ AtPlace(tree.kids, InOrder, iter') /\ iter'.tree \in Entries /\ iter'.file >= 0
           /\ (InOrder => iter'.pushed)
    BY <1>1, <1>2
  <2>3. 0 \in Int /\ step' \in Int /\ cmds' \in 0 .. MaxCommands /\ tree' = tree
    BY <1>1, <1>2, <2>1
  <2>4. QED BY <1>1, <1>2, <2>1, <2>2, <2>3, PlayInv
<1>6. CASE Found /\ job.at = "peekstep" /\ ~(n > 0 /\ value[Loop] >= 0)
  <2>1. job' = Job("sure", n) /\ call' = Call("step", n, FALSE) /\ step' = 1 /\ UNCHANGED config
    BY <1>3, <1>6 DEF Peeked, NextEntry, Begin
  <2>2. step' \in Int
    BY <2>1
  <2>3. QED BY <1>1, <2>1, <2>2, BackInv
<1>7. CASE Found /\ job.at # "peekstep"
  <2>1. job' = Job("sure", n) /\ call' = Call("up", n, FALSE) /\ UNCHANGED <<step, config>>
    BY <1>3, <1>7 DEF Peeked, Begin
  <2>2. step' \in Int
    BY <1>2, <2>1
  <2>3. QED BY <1>1, <2>1, <2>2, BackInv
<1>8. QED BY <1>4, <1>5, <1>6, <1>7

-----------------------------------------------------------------------------
(* A playlist file is taken out of the tree.                               *)
LEMMA EntryOnWay ==
  ASSUME NEW k \in Kids, IsForest(k), TopFirst(k), NEW n \in Nodes, NEW e \in Entries,
         e \in Range(Way(k)[n])
  PROVE  e = n
<1>1. PICK p : p = Way(k)[n]
  OBVIOUS
<1>2. IsWay(k, p, n)
  BY <1>1, WayIs
<1>3. PICK i \in 1 .. Len(p) : p[i] = e
  BY <1>1, <1>2 DEF IsWay, Range
<1>4. Len(p) \in Nat
  BY <1>2 DEF IsWay
<1>5. CASE i = Len(p)
  BY <1>2, <1>3, <1>5 DEF IsWay
<1>6. CASE i # Len(p)
  <2>1. i \in 1 .. Len(p) - 1 /\ i + 1 \in 1 .. Len(p)
    BY <1>4, <1>6
  <2>2. Par(k, p[i + 1]) = e /\ p[i + 1] \in Nodes
    BY <1>2, <1>3, <2>1 DEF IsWay
  <2>3. e # NONE
    BY TreeAssumption
  <2>4. e \in Nodes \ Entries
    BY <2>2, <2>3, Grouped
  <2>5. QED BY <2>4
<1>7. QED BY <1>5, <1>6

(* A place stays one in another playlist where its path is the same.       *)
LEMMA SamePlace ==
  ASSUME NEW k, NEW h, NEW ord, NEW it, AtPlace(k, ord, it), it.tree # NONE,
         Way(h)[it.tree] = Way(k)[it.tree]
  PROVE  AtPlace(h, ord, it)
BY DEF AtPlace, InTree

(* play_tree_remove, as a change of the children                           *)
LEMMA RemovedIs ==
  ASSUME Well(tree), NEW e \in Nodes, NEW t, t = Without(e)
  PROVE  t = Altered(tree, Cut(tree.kids, e), tree.loop, tree.played \ {e})
<1>1. PICK g, i : g = Par(tree.kids, e) /\ i = Idx(tree.kids, e)
  OBVIOUS
<1>2. Parent(e) = g /\ Index(e) = i
  BY <1>1, Names
<1>3. t = [tree EXCEPT !.kids[g] = RemoveAt(@, i), !.played = @ \ {e}]
  BY <1>2, Zenon DEF Without
<1>4. PICK r, p : r = RemoveAt(tree.kids[g], i) /\ p = tree.played \ {e}
  OBVIOUS
<1>5. Typed(tree) /\ tree.kids \in Kids
  BY TreeFacts
<1>6. PICK h : h = [tree.kids EXCEPT ![g] = r]
  OBVIOUS
<1>7. h = Cut(tree.kids, e)
  BY <1>1, <1>4, <1>6, Zenon DEF Cut, Regroup
<1>8. t = [tree EXCEPT !.kids = h, !.played = p]
  <2>1. tree = [kids |-> tree.kids, loop |-> tree.loop, rnd |-> tree.rnd, params |-> tree.params,
                lists |-> tree.lists, played |-> tree.played]
    BY <1>5, TypedIs
  <2>2. t = [tree EXCEPT !.kids[g] = r, !.played = p]
    BY <1>3, <1>4
  <2>3. QED BY <1>6, <2>1, <2>2
<1>9. t = Altered(tree, h, tree.loop, p)
  <2>1. tree = [kids |-> tree.kids, loop |-> tree.loop, rnd |-> tree.rnd, params |-> tree.params,
                lists |-> tree.lists, played |-> tree.played]
    BY <1>5, TypedIs
  <2>2. t = TreeOf(h, tree.loop, tree.rnd, tree.params, tree.lists, p)
    BY <1>8, <2>1 DEF TreeOf
  <2>3. QED BY <2>2, Zenon DEF Altered
<1>10. QED BY <1>4, <1>7, <1>9

(* The playlist file leaves the tree, and the iterator is elsewhere in it. *)
LEMMA LeavesTree ==
  ASSUME IInv, NEW e \in DOMAIN tree.lists, Par(tree.kids, e) # NONE, Multi(tree.kids, e),
         InTree(tree.kids, e),
         tree.lists[e] # NONE => /\ Idx(tree.kids, e) + 1 \in DOMAIN Sibs(tree.kids, e)
                                 /\ Sibs(tree.kids, e)[Idx(tree.kids, e) + 1] = tree.lists[e],
         tree' = Without(e)
  PROVE  /\ Well(tree') /\ tree'.rnd = tree.rnd /\ tree'.params = tree.params
            /\ tree'.lists = tree.lists
         /\ Par(tree'.kids, e) = NONE /\ \A n : n # e => Par(tree'.kids, n) = Par(tree.kids, n)
<1>1. Well(tree) /\ tree.kids \in Kids /\ IsForest(tree.kids) /\ TopFirst(tree.kids)
  BY Present, TreeFacts
<1>2. e \in Entries /\ e \in Nodes
  BY <1>1, TreeAssumption DEF Well, Listed
<1>3. PICK t, k, g, i, h, p, u : /\ t = tree /\ k = t.kids /\ g = Par(k, e) /\ i = Idx(k, e)
                                 /\ h = Cut(k, e) /\ p = t.played \ {e} /\ u = tree'
  OBVIOUS
<1>4. u = Altered(t, h, t.loop, p)
  BY <1>1, <1>2, <1>3, RemovedIs
<1>5. g # NONE /\ (g = Root \/ Par(k, g) # NONE)
  <2>1. g # NONE /\ g \in Nodes /\ InTree(k, g)
    BY <1>1, <1>2, <1>3, Grouped
  <2>2. QED BY <1>1, <1>3, <2>1, TheRoot
<1>6. Sibs(k, e) = k[g]
  BY <1>3, <1>5 DEF Sibs
<1>7. Len(k[g]) > 1
  BY <1>3, <1>6 DEF Multi
<1>8. t.lists[e] # NONE => i + 1 \in DOMAIN k[g] /\ k[g][i + 1] = t.lists[e]
  BY <1>3, <1>6
<1>9. Well(t) /\ k = t.kids /\ g = Par(k, e) /\ i = Idx(k, e) /\ h = Cut(k, e) /\ p = t.played \ {e}
      /\ e \in DOMAIN t.lists
  BY <1>1, <1>3
<1>10. /\ Well(u) /\ IsAltered(t, h, t.loop, p, u)
       /\ Par(h, e) = NONE /\ \A n : n # e => Par(h, n) = Par(k, n)
  <2>1. Removal(t, k, e, g, i, h, p, u)
    BY <1>4, <1>5, <1>7, <1>8, <1>9 DEF Removal
  <2>2. QED BY <2>1, RemovedWell
<1>11. QED BY <1>3, <1>10 DEF IsAltered

(* The file is taken out, and the player goes to open the entry it is at.  *)
LEMMA RemovedInv ==
  ASSUME IInv, Found, job.at \notin Peeks, NEW e, e = asked.from, e \in DOMAIN tree.lists,
         Par(tree.kids, e) # NONE,
         Multi(tree.kids, e), InTree(tree.kids, e),
         tree.lists[e] # NONE => /\ Idx(tree.kids, e) + 1 \in DOMAIN Sibs(tree.kids, e)
                                 /\ Sibs(tree.kids, e)[Idx(tree.kids, e) + 1] = tree.lists[e],
         iter.tree # e, tree' = Without(e), ToFile(1), UNCHANGED <<iter, saved, config, step, cmds>>
  PROVE  IInv'
<1>1. /\ Well(tree') /\ tree'.rnd = tree.rnd /\ tree'.params = tree.params
         /\ tree'.lists = tree.lists
      /\ Par(tree'.kids, e) = NONE /\ \A n : n # e => Par(tree'.kids, n) = Par(tree.kids, n)
  BY LeavesTree
<1>2. iter.tree \in Entries /\ iter.pushed
  BY FoundEntry
<1>3. /\ Well(tree) /\ Frame /\ Stack /\ Own = iter /\ iter.tree \in Nodes /\ iter.tree # NONE
         /\ ~iter.copy
      /\ AtPlace(tree.kids, InOrder, iter) /\ cmds \in 0 .. MaxCommands /\ Free
  BY <1>2, Present
<1>4. e \in Entries
  BY <1>3 DEF Well, Listed
<1>5. tree.kids \in Kids /\ IsForest(tree.kids) /\ TopFirst(tree.kids)
  BY <1>3, TreeFacts
<1>6. tree'.kids \in Kids /\ IsForest(tree'.kids) /\ TopFirst(tree'.kids)
  <2>1. PICK u : u = tree'
    OBVIOUS
  <2>2. u.kids \in Kids /\ IsForest(u.kids) /\ TopFirst(u.kids)
    BY <1>1, <2>1, WellTree
  <2>3. QED BY <2>1, <2>2
<1>7. PICK k, h, n, p : k = tree.kids /\ h = tree'.kids /\ n = iter.tree /\ p = Way(k)[n]
  OBVIOUS
<1>8. e \notin Range(p)
  BY <1>2, <1>3, <1>4, <1>5, <1>7, EntryOnWay
<1>9. Way(h)[n] = p
  <2>1. p \in Seq(Nodes)
    BY <1>3, <1>5, <1>7, WayParts
  <2>2. \A i \in 1 .. Len(p) : Par(h, p[i]) = Par(k, p[i])
    BY <1>1, <1>7, <1>8, <2>1 DEF Range
  <2>3. \A i \in 1 .. Len(Way(k)[n]) : Par(h, Way(k)[n][i]) = Par(k, Way(k)[n][i])
    BY <1>7, <2>2
  <2>4. h \in Kids /\ k \in Kids /\ n \in Nodes /\ IsForest(k) /\ TopFirst(k) /\ IsForest(h)
        /\ TopFirst(h)
    BY <1>3, <1>5, <1>6, <1>7
  <2>5. Way(h)[n] = Way(k)[n]
    BY <2>3, <2>4, WaySame
  <2>6. QED BY <1>7, <2>5
<1>10. AtPlace(tree'.kids, InOrder, iter)
  <2>1. PICK o, it : o = InOrder /\ it = iter
    OBVIOUS
  <2>2. AtPlace(k, o, it) /\ it.tree # NONE /\ Way(h)[it.tree] = Way(k)[it.tree]
    BY <1>3, <1>7, <1>9, <2>1
  <2>3. AtPlace(h, o, it)
    BY <2>2, SamePlace
  <2>4. QED BY <1>7, <2>1, <2>3
<1>11. Own' = Own /\ InOrder' = InOrder
  BY <1>1, <1>3 DEF Own, InOrder
<1>12. Stack'
  <2>1. \A m \in Nodes \ {e} : tree'.params[m] = tree.params[m]
    BY <1>1
  <2>2. e \notin Range(Way(tree.kids)[Own.tree])
        /\ Way(tree'.kids)[Own.tree] = Way(tree.kids)[Own.tree] /\ Own.tree \in Nodes
    BY <1>3, <1>7, <1>8, <1>9
  <2>3. QED BY <1>1, <1>3, <1>11, <2>1, <2>2, ElsewhereStack
<1>13. NoneOpen(tree')
  <2>1. ASSUME NEW f \in DOMAIN tree.lists, tree.lists[f] # NONE, Par(h, f) # NONE
        PROVE  Par(h, tree.lists[f]) = NONE
    <3>1. f # e /\ Par(k, f) # NONE
      BY <1>1, <1>7, <2>1
    <3>2. Par(k, tree.lists[f]) = NONE
      BY <1>3, <1>7, <2>1, <3>1 DEF Free
    <3>3. QED BY <1>1, <1>7, <3>2
  <2>2. QED BY <1>1, <1>7, <2>1 DEF NoneOpen
<1>14. QED BY <1>1, <1>2, <1>3, <1>10, <1>11, <1>12, <1>13, FileInv

(* Nothing was found after the playlist file: on with the next entry.      *)
LEMMA OnwardInv ==
  ASSUME IInv, job.at \notin Peeks, NoneOpen(tree), iter.tree # NONE,
         UNCHANGED <<tree, iter, saved, config, cmds>>, step' = 1,
         Begin("entry", "step", step)
  PROVE  IInv'
<1>1. /\ Well(tree) /\ Stack /\ Own = iter /\ AtPlace(tree.kids, InOrder, iter)
      /\ ~iter.copy /\ saved = Fresh /\ cmds \in 0 .. MaxCommands /\ step \in Int
  BY Present
<1>2. Own' = Own /\ InOrder' = InOrder
  BY <1>1 DEF Own, InOrder
<1>3. Stack'
  BY <1>1, <1>2, SameStack
<1>4. PICK d \in Int : d = step
  BY <1>1
<1>5. Takes("entry", d, "step", d, FALSE)
  BY <1>1, <1>4 DEF Takes, Begin
<1>6. AtPlace(tree'.kids, InOrder', saved')
  BY <1>1, FreshPlace
<1>7. Fits("entry", d, "step")
  BY <1>1, <1>2, <1>6 DEF Fits, Peeks
<1>8. "entry" \in Plain
  BY DEF Plain
<1>9. QED BY <1>1, <1>3, <1>5, <1>7, <1>8, PlainInv

(* Drop: the iterator is never at the file that is taken out.              *)
LEMMA DropInv == ASSUME IInv, Drop PROVE IInv'
<1>1. /\ job.at = "drop" /\ job.at \notin Peeks /\ call.op \in {"ENTRY", "NODE", "END", "ERROR"}
      /\ UNCHANGED <<iter, saved, config, cmds>>
  BY DEF Drop, Done, Peeks
<1>2. PICK k, e, tr : k = tree.kids /\ e = asked.from /\ tr = iter.tree
  OBVIOUS
<1>3. /\ e \in Entries /\ e \in Nodes /\ e \in DOMAIN tree.lists /\ InTree(k, e) /\ Par(k, e) # NONE
      /\ tr \in Nodes /\ tr # NONE /\ InDrop(k, e, call.op, call.d, tr) /\ Dropping /\ Free
         /\ Well(tree)
      /\ AtPlace(tree.kids, InOrder, iter) /\ ~iter.copy /\ saved = Fresh /\ step \in Int
         /\ cmds \in 0 .. MaxCommands
      /\ Stack /\ Own = iter
  <2>1. Core /\ Dropping
    BY Present DEF IInv
  <2>2. QED BY <1>1, <1>2, <2>1, DropIs, Present
<1>4. k \in Kids /\ IsForest(k) /\ TopFirst(k)
  BY <1>2, <1>3, TreeFacts
<1>5. /\ Sibs(k, e) \in Seq(Nodes) /\ Len(Sibs(k, e)) \in Nat \ {0}
         /\ DOMAIN Sibs(k, e) = 1 .. Len(Sibs(k, e))
      /\ Idx(k, e) \in 1 .. Len(Sibs(k, e)) /\ Sibs(k, e)[Idx(k, e)] = e
  BY <1>3, <1>4, Sibling
<1>6. e = Last(Sibs(k, e)) <=> Idx(k, e) = Len(Sibs(k, e))
  BY <1>3, <1>4, Ends
<1>7. tree.lists[e] # NONE => Idx(k, e) + 1 \in DOMAIN Sibs(k, e)
      /\ Sibs(k, e)[Idx(k, e) + 1] = tree.lists[e]
  BY <1>1, <1>2, <1>3 DEF Dropping
<1>8. tree.lists[e] # NONE => Multi(k, e) /\ e # Last(Sibs(k, e))
  BY <1>5, <1>6, <1>7 DEF Multi
<1>9. CASE ~Found
  <2>1. call.op = "END"
    BY <1>1, <1>9, EndIs DEF Drop
  <2>2. e = Last(Sibs(k, e))
    BY <1>3, <2>1 DEF InDrop, Calm
  <2>3. NoneOpen(tree)
    BY <1>2, <1>3, <1>8, <2>2, FreeIs
  <2>4. Begin("entry", "step", step) /\ step' = 1 /\ tree' = tree
    BY <1>9 DEF Drop
  <2>5. QED BY <1>1, <1>2, <1>3, <2>3, <2>4, OnwardInv
<1>10. CASE Found
  <2>1. call.op = "ENTRY" /\ iter.tree \in Entries /\ iter.pushed /\ iter.tree # Root
    BY <1>1, <1>10, FoundEntry, Present DEF Found
  <2>2. Multi(k, e) => tr # e
    BY <1>3, <2>1 DEF InDrop, Calm
  <2>3. ~Multi(k, e) => Par(k, e) = Root /\ tr = e
    BY <1>2, <1>3, <2>1 DEF InDrop
  <2>4. CASE tr = e /\ tree.lists[e] = NONE
    <3>1. job' = Job("dropup", 1) /\ call' = Call("up", 1, FALSE) /\ UNCHANGED <<tree, step, asked>>
      BY <1>2, <1>10, <2>4 DEF Drop
    <3>2. Par(k, e) = Root /\ Len(Sibs(k, e)) = 1
      BY <1>5, <2>2, <2>3, <2>4 DEF Multi
    <3>3. k[Root] = <<e>>
      <4>1. Sibs(k, e) = k[Root]
        BY <1>3, <3>2 DEF Sibs
      <4>2. PICK s, i : s = Sibs(k, e) /\ i = Idx(k, e)
        OBVIOUS
      <4>3. s \in Seq(Nodes) /\ Len(s) = 1 /\ s[1] = e
        BY <1>5, <3>2, <4>2
      <4>4. s = <<e>>
        BY <4>3
      <4>5. QED BY <4>1, <4>2, <4>4
    <3>4. NoneOpen(tree)
      BY <1>2, <1>3, <2>4, FreeIs
    <3>5. Takes("dropup", 1, "up", 1, FALSE)
      BY <1>1, <1>3, <3>1 DEF Takes
    <3>6. AtPlace(tree'.kids, InOrder', saved') /\ InOrder' = InOrder
      BY <1>1, <1>3, <3>1, FreshPlace DEF InOrder
    <3>7. Fits("dropup", 1, "up")
      BY <1>1, <1>2, <1>3, <2>1, <3>1, <3>6 DEF Fits, Peeks
    <3>8. Frame' /\ Pushed' /\ job'.at = "dropup" /\ call'.op = "up" /\ call'.d = 1
      BY <3>5, <3>7, TakesFrame
    <3>9. Own' = Own
      BY <1>1, <1>3 DEF Own
    <3>10. Stack'
      BY <1>1, <1>3, <3>1, <3>9, SameStack
    <3>11. Free'
      BY <3>1, <3>4 DEF Free, NoneOpen
    <3>12. Opening' /\ Dropping'
      BY <3>8 DEF Opening, Dropping
    <3>13. DroppingUp'
      BY <1>1, <1>2, <1>3, <2>4, <3>1, <3>3, <3>8 DEF DroppingUp
    <3>14. QED BY <3>8, <3>10, <3>11, <3>12, <3>13 DEF IInv, Frame, Stack
  <2>5. CASE ~(tr = e /\ tree.lists[e] = NONE)
    <3>1. tr # e /\ Multi(k, e)
      BY <1>8, <2>2, <2>3, <2>5
    <3>2. tree' = Without(asked.from) /\ ToFile(1) /\ UNCHANGED step
      BY <1>2, <1>10, <2>5 DEF Drop
    <3>3. /\ e = asked.from /\ Par(tree.kids, e) # NONE /\ Multi(tree.kids, e)
             /\ InTree(tree.kids, e) /\ iter.tree # e
          /\ tree' = Without(e)
      BY <1>2, <1>3, <3>1, <3>2
    <3>4. tree.lists[e] # NONE => /\ Idx(tree.kids, e) + 1 \in DOMAIN Sibs(tree.kids, e)
                                  /\ Sibs(tree.kids, e)[Idx(tree.kids, e) + 1] = tree.lists[e]
      BY <1>2, <1>7
    <3>5. QED BY <1>1, <1>3, <1>10, <3>2, <3>3, <3>4, RemovedInv
  <2>6. QED BY <2>4, <2>5
<1>11. QED BY <1>9, <1>10

(* DropUp: there is nothing above, and the file stays.                     *)
LEMMA DropUpInv == ASSUME IInv, DropUp PROVE IInv'
<1>1. /\ job.at = "dropup" /\ job.at \notin Peeks /\ call.op \in {"ENTRY", "NODE", "END", "ERROR"}
      /\ UNCHANGED <<iter, saved, config, cmds>>
  BY DEF DropUp, Done, Peeks
<1>2. ~Found
  BY <1>1 DEF IInv, DroppingUp, Found
<1>3. NoneOpen(tree) /\ iter.tree # NONE
  BY <1>1, Present
<1>4. Begin("entry", "step", step) /\ step' = 1 /\ tree' = tree
  BY <1>2 DEF DropUp
<1>5. QED BY <1>1, <1>3, <1>4, OnwardInv

(* What a playlist file holds comes after it in its group.                 *)
LEMMA OnWayInTree ==
  ASSUME NEW k \in Kids, IsForest(k), TopFirst(k), NEW n \in Nodes, InTree(k, n),
         NEW m \in Range(Way(k)[n])
  PROVE  InTree(k, m) /\ (m = Root \/ Par(k, m) # NONE)
<1>1. PICK p : p = Way(k)[n]
  OBVIOUS
<1>2. p \in Seq(Nodes) /\ Len(p) \in Nat \ {0} /\ Head(p) = p[1]
  BY <1>1, WayParts
<1>3. PICK i \in 1 .. Len(p) : p[i] = m
  BY <1>1, <1>2 DEF Range
<1>4. m \in Nodes /\ Way(k)[m] = SubSeq(p, 1, i)
  BY <1>1, <1>3, WayPrefix
<1>5. Head(SubSeq(p, 1, i)) = p[1]
  BY <1>2, <1>3
<1>6. InTree(k, m)
  BY <1>1, <1>2, <1>4, <1>5 DEF InTree
<1>7. QED BY <1>4, <1>6, TheRoot

(* Only in the root may a file that was not parsed be alone.               *)
LEMMA AloneAtRoot ==
  ASSUME NEW t, Well(t), NEW k, k = t.kids, NEW e \in DOMAIN t.lists, t.lists[e] = NONE,
         InTree(k, e), ~Multi(k, e)
  PROVE  Par(k, e) = Root
<1>1. k \in Kids /\ IsForest(k) /\ TopFirst(k) /\ e \in Entries /\ e \in Nodes
  BY WellTree, TreeAssumption DEF Well, Listed
<1>2. PICK g : g = Par(k, e)
  OBVIOUS
<1>3. g # NONE /\ g \in Nodes \ Entries /\ InTree(k, g)
  BY <1>1, <1>2, TheRoot, Grouped
<1>4. Range(k[g]) = {e}
  <2>1. Range(Sibs(k, e)) = {e}
    BY <1>1, Ends
  <2>2. QED BY <1>2, <1>3, <2>1 DEF Sibs
<1>5. ~Lasting(t, g)
  BY <1>4 DEF Lasting, Unparsed
<1>6. ASSUME g # Root PROVE FALSE
  <2>1. Par(k, g) \in Nodes /\ g \in Range(k[Par(k, g)])
    BY <1>1, <1>3, <1>6, TheRoot, Grouped
  <2>2. QED BY <1>3, <1>5, <2>1 DEF Well, Filled
<1>7. QED BY <1>2, <1>6

JoinedTo(e, x, u) ==
  u = [tree EXCEPT !.kids = InsertAfter(e, x), !.params[x] = Over(tree.params[e], @)]

(* playtree_add_playlist, as a change of children and options              *)
LEMMA JoinedIs ==
  ASSUME Well(tree), NEW e \in Nodes, NEW x \in Nodes, NEW u, JoinedTo(e, x, u),
         NEW g, g = Par(tree.kids, e), NEW at, at = Idx(tree.kids, e) + 1,
         NEW h, h = Regroup(tree.kids, g, InsertAt(tree.kids[g], at, x))
  PROVE  u = TreeOf(h, tree.loop, tree.rnd, Inherit(tree.params, x, e), tree.lists, tree.played)
<1>1. Parent(e) = g /\ Index(e) + 1 = at
  BY Names
<1>2. Typed(tree)
  BY TreeFacts
<1>3. InsertAfter(e, x) = [tree.kids EXCEPT ![g] = InsertAt(@, at, x)]
  BY <1>1, Zenon DEF InsertAfter
<1>4. InsertAfter(e, x) = h
  <2>1. PICK k : k = tree.kids
    OBVIOUS
  <2>2. [k EXCEPT ![g] = InsertAt(@, at, x)] = [k EXCEPT ![g] = InsertAt(k[g], at, x)]
    BY Zenon
  <2>3. QED BY <1>3, <2>1, <2>2, Zenon DEF Regroup
<1>5. PICK j : j = InsertAfter(e, x)
  OBVIOUS
<1>6. u = [tree EXCEPT !.kids = j, !.params[x] = Over(tree.params[e], @)]
  BY <1>5, Zenon DEF JoinedTo
<1>7. [tree EXCEPT !.kids = j, !.params[x] = Over(tree.params[e], @)]
        = TreeOf(j, tree.loop, tree.rnd, Inherit(tree.params, x, e), tree.lists, tree.played)
  BY <1>2, ListFields
<1>8. QED BY <1>4, <1>5, <1>6, <1>7, Zenon

(* The step away from a playlist file begins, its contents in place.       *)
LEMMA DroppingInv ==
  ASSUME IInv, Playing, NEW e, e = iter.tree, Begin("drop", "step", 1),
         UNCHANGED <<iter, saved, config, step, cmds>>,
         Well(tree'), InOrder' = InOrder, AtPlace(tree'.kids, InOrder, iter), Stack',
         e \in DOMAIN tree'.lists,
         Multi(tree'.kids, e) \/ Par(tree'.kids, e) = Root,
         tree'.lists[e] # NONE => /\ Idx(tree'.kids, e) + 1 \in DOMAIN Sibs(tree'.kids, e)
                                  /\ Sibs(tree'.kids, e)[Idx(tree'.kids, e) + 1] = tree'.lists[e],
         \A f \in DOMAIN tree'.lists : tree'.lists[f] # NONE /\ Par(tree'.kids, f) # NONE /\ f # e
                                         => Par(tree'.kids, tree'.lists[f]) = NONE
  PROVE  IInv'
<1>1. /\ Own = iter /\ ~iter.copy /\ iter.tree # NONE /\ iter.tree # Root /\ saved = Fresh
         /\ iter.tree \in Entries
  BY AtFile
<1>2. step \in Int /\ cmds \in 0 .. MaxCommands
  BY Present
<1>3. asked'.from = e
  BY <1>1 DEF Begin, Here
<1>4. Takes("drop", 1, "step", 1, FALSE)
  BY <1>2 DEF Takes, Begin
<1>5. AtPlace(tree'.kids, InOrder', saved')
  BY <1>1, FreshPlace
<1>6. Fits("drop", 1, "step")
  BY <1>1, <1>5 DEF Fits, Peeks
<1>7. Frame' /\ Pushed' /\ job'.at = "drop" /\ call'.op = "step" /\ call'.d = 1
  BY <1>4, <1>6, TakesFrame
<1>8. Opening' /\ DroppingUp'
  BY <1>7 DEF Opening, DroppingUp
<1>9. Free'
  BY <1>3, <1>7 DEF Free
<1>10. InTree(tree'.kids, e) /\ iter'.tree = e
  BY <1>1 DEF AtPlace
<1>11. InDrop(tree'.kids, asked'.from, call'.op, call'.d, iter'.tree)
  BY <1>3, <1>7, <1>10 DEF InDrop
<1>12. Dropping'
  BY <1>3, <1>7, <1>10, <1>11 DEF Dropping
<1>13. QED BY <1>7, <1>8, <1>9, <1>12 DEF IInv, Frame, Stack

(* FoundList: what was found is nowhere else, and off the iterator's path. *)
LEMMA FoundListInv == ASSUME IInv, FoundList PROVE IInv'
<1>1. /\ Playing /\ IsList /\ Begin("drop", "step", 1)
         /\ UNCHANGED <<iter, saved, config, step, cmds>>
  BY DEF FoundList
<1>2. PICK k, e, x : k = tree.kids /\ e = iter.tree /\ x = tree.lists[e]
  OBVIOUS
<1>3. /\ e \in Entries /\ e \in Nodes /\ e \in DOMAIN tree.lists /\ Own = iter /\ ~iter.copy
         /\ e # NONE
      /\ job.at # "drop"
  BY <1>1, <1>2, AtFile, TreeAssumption DEF IsList
<1>4. Well(tree) /\ Frame /\ Stack /\ NoneOpen(tree) /\ AtPlace(tree.kids, InOrder, iter)
  BY <1>3, Present
<1>5. k \in Kids /\ IsForest(k) /\ TopFirst(k) /\ InTree(k, e) /\ Typed(tree)
  BY <1>2, <1>3, <1>4, TreeFacts DEF AtPlace
<1>6. Par(k, e) # NONE
  BY <1>3, <1>5, TheRoot
<1>7. CASE x = NONE
  <2>1. tree' = tree
    BY <1>2, <1>7 DEF FoundList
  <2>2. Own' = Own /\ InOrder' = InOrder
    BY <1>1, <1>3, <2>1 DEF Own, InOrder
  <2>3. Stack'
    BY <1>1, <1>4, <2>1, <2>2, SameStack
  <2>4. Multi(k, e) \/ Par(k, e) = Root
    <3>1. PICK t : t = tree
      OBVIOUS
    <3>2. Well(t) /\ k = t.kids /\ e \in DOMAIN t.lists /\ t.lists[e] = NONE
      BY <1>2, <1>3, <1>4, <1>7, <3>1
    <3>3. QED BY <1>5, <3>2, AloneAtRoot
  <2>5. \A f \in DOMAIN tree'.lists : tree'.lists[f] # NONE /\ Par(tree'.kids, f) # NONE /\ f # e
                                        => Par(tree'.kids, tree'.lists[f]) = NONE
    BY <1>4, <2>1 DEF NoneOpen
  <2>6. QED BY <1>1, <1>2, <1>3, <1>4, <1>7, <2>1, <2>2, <2>3, <2>4, <2>5, DroppingInv
<1>8. CASE x # NONE
  <2>1. x \in Nodes \ (Entries \cup {Root}) /\ Par(k, x) = NONE
        /\ \A f \in DOMAIN tree.lists : tree.lists[f] = x => f = e
    BY <1>2, <1>3, <1>4, <1>6, <1>8 DEF Well, Listed, NoneOpen
  <2>2. PICK t, g, i, at, r, h, u : /\ t = tree /\ g = Par(k, e) /\ i = Idx(k, e) /\ at = i + 1
                                    /\ r = InsertAt(k[g], at, x) /\ h = Regroup(k, g, r)
                                       /\ u = tree'
    OBVIOUS
  <2>3. JoinedTo(e, x, u)
    <3>1. tree' = [tree EXCEPT !.kids = InsertAfter(iter.tree, tree.lists[iter.tree]),
                               !.params[tree.lists[iter.tree]] = Over(tree.params[iter.tree], @)]
      BY <1>2, <1>8, Zenon DEF FoundList
    <3>2. QED BY <1>2, <2>2, <3>1, Zenon DEF JoinedTo
  <2>4. u = TreeOf(h, t.loop, t.rnd, Inherit(t.params, x, e), t.lists, t.played)
    <3>1. g = Par(tree.kids, e) /\ at = Idx(tree.kids, e) + 1
          /\ h = Regroup(tree.kids, g, InsertAt(tree.kids[g], at, x))
      BY <1>2, <2>2
    <3>2. u = TreeOf(h, tree.loop, tree.rnd, Inherit(tree.params, x, e), tree.lists, tree.played)
      BY <1>3, <1>4, <2>1, <2>3, <3>1, JoinedIs
    <3>3. QED BY <2>2, <3>2
  <2>5. h \in Kids
    <3>1. k[g] \in Seq(Nodes) /\ i \in 1 .. Len(k[g])
      <4>1. Sibs(k, e) = k[g]
        BY <1>6, <2>2 DEF Sibs
      <4>2. QED BY <1>3, <1>5, <2>2, <4>1, Sibling
    <3>2. x \in Nodes
      BY <2>1
    <3>3. Inserted(k[g], at, x, r)
      BY <2>2, <3>1, <3>2, InsertIs
    <3>4. r \in Seq(Nodes)
      BY <3>3 DEF Inserted
    <3>5. QED BY <1>5, <2>2, <3>4 DEF Regroup, Kids
  <2>6. /\ Typed(u) /\ u.kids = h /\ u.lists = t.lists /\ u.rnd = t.rnd
        /\ \A n \in Nodes \ {x} : u.params[n] = t.params[n]
    <3>1. Typed(t) /\ x \in Nodes
      BY <1>5, <2>1, <2>2
    <3>2. QED BY <1>3, <2>4, <2>5, <3>1, ListTyped
  <2>7. /\ Well(u) /\ Par(h, x) = g /\ (\A n : n # x => Par(h, n) = Par(k, n))
        /\ h[g] = r /\ Len(r) = Len(k[g]) + 1 /\ at \in DOMAIN r /\ r[at] = x /\ Idx(h, e) = i
    <3>1. Joining(t, k, e, g, x, i, at, r, h, u)
      BY <1>2, <1>3, <1>4, <1>6, <1>8, <2>1, <2>2, <2>6 DEF Joining
    <3>2. QED BY <3>1, ListPutIn
  <2>8. h \in Kids /\ IsForest(h) /\ TopFirst(h)
    BY <2>6, <2>7, WellTree
  <2>9. PICK p : p = Way(k)[e]
    OBVIOUS
  <2>10. x \notin Range(p)
    <3>1. ASSUME x \in Range(p) PROVE FALSE
      <4>1. x = Root \/ Par(k, x) # NONE
        BY <1>3, <1>5, <2>9, <3>1, OnWayInTree
      <4>2. QED BY <2>1, <4>1
    <3>2. QED BY <3>1
  <2>11. Way(h)[e] = Way(k)[e]
    <3>1. p \in Seq(Nodes)
      BY <1>3, <1>5, <2>9, WayParts
    <3>2. \A j \in 1 .. Len(p) : Par(h, p[j]) = Par(k, p[j])
      BY <2>7, <2>10, <3>1 DEF Range
    <3>3. \A j \in 1 .. Len(Way(k)[e]) : Par(h, Way(k)[e][j]) = Par(k, Way(k)[e][j])
      BY <2>9, <3>2
    <3>4. QED BY <1>3, <1>5, <2>8, <3>3, WaySame
  <2>12. AtPlace(tree'.kids, InOrder, iter)
    <3>1. PICK o, it : o = InOrder /\ it = iter
      OBVIOUS
    <3>2. AtPlace(k, o, it) /\ it.tree # NONE /\ Way(h)[it.tree] = Way(k)[it.tree]
      BY <1>2, <1>3, <1>4, <2>11, <3>1
    <3>3. AtPlace(h, o, it)
      BY <3>2, SamePlace
    <3>4. QED BY <2>2, <2>6, <3>1, <3>3
  <2>13. tree'.rnd = tree.rnd /\ tree'.lists = tree.lists /\ tree'.kids = h /\ Well(tree')
    BY <2>2, <2>6, <2>7
  <2>14. Own' = Own /\ InOrder' = InOrder
    BY <1>1, <1>3, <2>13 DEF Own, InOrder
  <2>15. Stack'
    <3>1. \A m \in Nodes \ {x} : tree'.params[m] = tree.params[m]
      BY <2>2, <2>6
    <3>2. Own.tree = e /\ x \notin Range(Way(tree.kids)[Own.tree])
          /\ Way(tree'.kids)[Own.tree] = Way(tree.kids)[Own.tree]
      BY <1>2, <1>3, <2>9, <2>10, <2>11, <2>13
    <3>3. Own.tree \in Nodes
      BY <1>3, <3>2
    <3>4. QED BY <1>1, <1>4, <2>13, <2>14, <3>1, <3>2, <3>3, ElsewhereStack
  <2>16. Par(h, e) = g /\ Sibs(h, e) = r
    <3>1. e # x
      BY <1>3, <2>1
    <3>2. Par(h, e) = g
      BY <2>2, <2>7, <3>1
    <3>3. QED BY <1>6, <2>2, <2>7, <3>2 DEF Sibs
  <2>17. Multi(h, e) /\ Idx(h, e) + 1 \in DOMAIN Sibs(h, e) /\ Sibs(h, e)[Idx(h, e) + 1] = x
    <3>1. Idx(h, e) + 1 = at
      BY <2>2, <2>7
    <3>2. at \in DOMAIN r /\ r[at] = x
      BY <2>7
    <3>3. Len(r) > 1
      <4>1. Len(Sibs(k, e)) \in Nat \ {0} /\ Sibs(k, e) = k[g]
        BY <1>3, <1>5, <1>6, <2>2, Sibling DEF Sibs
      <4>2. QED BY <2>7, <4>1
    <3>4. QED BY <2>16, <3>1, <3>2, <3>3 DEF Multi
  <2>18. \A f \in DOMAIN tree.lists : tree.lists[f] # NONE /\ Par(h, f) # NONE /\ f # e
           => Par(h, tree.lists[f]) = NONE
    <3>1. ASSUME NEW f \in DOMAIN tree.lists, tree.lists[f] # NONE, Par(h, f) # NONE, f # e
          PROVE  Par(h, tree.lists[f]) = NONE
      <4>1. f # x
        BY <1>4, <2>1 DEF Well, Listed
      <4>2. Par(k, f) # NONE
        BY <2>7, <3>1, <4>1
      <4>3. Par(k, tree.lists[f]) = NONE
        BY <1>2, <1>4, <3>1, <4>2 DEF NoneOpen
      <4>4. tree.lists[f] # x
        BY <2>1, <3>1
      <4>5. QED BY <2>7, <4>3, <4>4
    <3>2. QED BY <3>1
  <2>19. QED BY <1>1, <1>2, <1>3, <2>12, <2>13, <2>14, <2>15, <2>17, <2>18, DroppingInv
<1>9. QED BY <1>7, <1>8

-----------------------------------------------------------------------------
(* Files are loaded: one more in the root, or the only one.                *)
RootedIs(s, f, u) == u = [tree EXCEPT !.kids[Root] = s, !.played = @ \ {f}]

(* The update of the root, as such a tree                                  *)
LEMMA RootedTree ==
  ASSUME Well(tree), NEW s, NEW f, NEW u, RootedIs(s, f, u)
  PROVE  u = Altered(tree, Regroup(tree.kids, Root, s), tree.loop, tree.played \ {f})
<1>1. Typed(tree)
  BY TreeFacts
<1>2. tree = [kids |-> tree.kids, loop |-> tree.loop, rnd |-> tree.rnd, params |-> tree.params,
              lists |-> tree.lists, played |-> tree.played]
  BY <1>1, TypedIs
<1>3. PICK p, h : p = tree.played \ {f} /\ h = [tree.kids EXCEPT ![Root] = s]
  OBVIOUS
<1>4. u = [tree EXCEPT !.kids[Root] = s, !.played = p]
  BY <1>3 DEF RootedIs
<1>5. u = [tree EXCEPT !.kids = h, !.played = p]
  BY <1>2, <1>3, <1>4
<1>6. u = TreeOf(h, tree.loop, tree.rnd, tree.params, tree.lists, p)
  BY <1>2, <1>5 DEF TreeOf
<1>7. QED BY <1>3, <1>6, Zenon DEF Altered, Regroup

Rooted(f, s, h) ==
  /\ Well(tree') /\ tree'.kids = h /\ tree'.rnd = tree.rnd /\ tree'.params = tree.params
  /\ tree'.lists = tree.lists /\ tree'.played = tree.played \ {f}

(* The playlist is well with it.                                           *)
LEMMA RootedDone ==
  ASSUME Well(tree), NEW f \in NewFiles, NEW s, NEW h, h = Regroup(tree.kids, Root, s),
         IsAdded(tree.kids, f, h),
         RootedIs(s, f, tree')
  PROVE  Rooted(f, s, h)
<1>1. PICK t, u, p : t = tree /\ u = tree' /\ p = tree.played \ {f}
  OBVIOUS
<1>2. u = Altered(tree, Regroup(tree.kids, Root, s), tree.loop, tree.played \ {f})
  <2>1. RootedIs(s, f, u)
    BY <1>1
  <2>2. QED BY <2>1, RootedTree
<1>3. u = Altered(t, h, t.loop, p) /\ Well(t) /\ IsAdded(t.kids, f, h)
  BY <1>1, <1>2
<1>4. p \in SUBSET Nodes
  BY <1>1, TreeFacts
<1>5. Well(u) /\ IsAltered(t, h, t.loop, p, u)
  BY <1>3, <1>4, AddedWell
<1>6. QED BY <1>1, <1>5 DEF Rooted, IsAltered

(* A file is added at the end.                                             *)
LEMMA AppendRooted ==
  ASSUME Well(tree), NEW f \in NewFiles, Par(tree.kids, f) = NONE,
         tree' = [tree EXCEPT !.kids[Root] = Append(@, f), !.played = @ \ {f}]
  PROVE  /\ Well(tree') /\ tree'.rnd = tree.rnd /\ tree'.params = tree.params
            /\ tree'.lists = tree.lists
         /\ \A n : n # f => Par(tree'.kids, n) = Par(tree.kids, n)
<1>1. PICK t, s, h : t = tree /\ s = Append(tree.kids[Root], f) /\ h = Regroup(tree.kids, Root, s)
  OBVIOUS
<1>2. Well(t) /\ Par(t.kids, f) = NONE /\ h = Regroup(t.kids, Root, Append(t.kids[Root], f))
  BY <1>1
<1>3. IsAdded(t.kids, f, h) /\ \A n : n # f => Par(h, n) = Par(t.kids, n)
  BY <1>2, AppendAdds
<1>4. Typed(tree)
  BY TreeFacts
<1>5. RootedIs(s, f, tree')
  BY <1>1, <1>4 DEF RootedIs, Typed
<1>6. Rooted(f, s, h)
  BY <1>1, <1>3, <1>5, RootedDone
<1>7. QED BY <1>1, <1>3, <1>6 DEF Rooted

(* A file replaces all the others.                                         *)
LEMMA AloneRooted ==
  ASSUME Well(tree), NEW f \in NewFiles, Par(tree.kids, f) = NONE, tree' = OnlyFile(f)
  PROVE  /\ Well(tree') /\ tree'.rnd = tree.rnd /\ tree'.params = tree.params
            /\ tree'.lists = tree.lists
         /\ tree'.kids[Root] = <<f>> /\ f \notin tree'.played
         /\ \A n : n # f
              => Par(tree'.kids, n) = IF Par(tree.kids, n) = Root THEN NONE ELSE Par(tree.kids, n)
<1>1. PICK t, s, h : t = tree /\ s = <<f>> /\ h = Regroup(tree.kids, Root, s)
  OBVIOUS
<1>2. Well(t) /\ Par(t.kids, f) = NONE /\ h = Regroup(t.kids, Root, <<f>>)
  BY <1>1
<1>3. IsAdded(t.kids, f, h) /\ h[Root] = <<f>>
      /\ \A n : n # f => Par(h, n) = IF Par(t.kids, n) = Root THEN NONE ELSE Par(t.kids, n)
  BY <1>2, AloneAdds
<1>4. RootedIs(s, f, tree')
  BY <1>1 DEF RootedIs, OnlyFile
<1>5. Rooted(f, s, h)
  BY <1>1, <1>3, <1>4, RootedDone
<1>6. QED BY <1>1, <1>3, <1>5 DEF Rooted

(* No playlist file is put in place by it.                                 *)
LEMMA AloneOpen ==
  ASSUME Well(tree), NEW f \in NewFiles, NoneOpen(tree), tree'.lists = tree.lists,
         \A n : n # f => Par(tree'.kids, n) = NONE \/ Par(tree'.kids, n) = Par(tree.kids, n)
  PROVE  NoneOpen(tree')
<1>1. f \in Entries /\ f \notin DOMAIN tree.lists
  BY TreeAssumption DEF Well, Listed
<1>2. ASSUME NEW g \in DOMAIN tree.lists, tree.lists[g] # NONE, Par(tree'.kids, g) # NONE
      PROVE  Par(tree'.kids, tree.lists[g]) = NONE
  <2>1. g # f /\ tree.lists[g] # f
    BY <1>1, <1>2 DEF Well, Listed
  <2>2. Par(tree.kids, g) # NONE
    BY <1>2, <2>1
  <2>3. Par(tree.kids, tree.lists[g]) = NONE
    BY <1>2, <2>2 DEF NoneOpen
  <2>4. QED BY <2>1, <2>3
<1>3. QED BY <1>2 DEF NoneOpen

(* AppendFile: the new file is not on the iterator's path.                 *)
LEMMA AppendFileInv == ASSUME IInv, AppendFile PROVE IInv'
<1>1. Playing /\ cmds' \in 0 .. MaxCommands /\ UNCHANGED <<iter, saved, config, call, job, step>>
  BY Counted DEF AppendFile, Command
<1>2. PICK f \in NewFiles : /\ Par(tree.kids, f) = NONE
                            /\ tree' = [tree EXCEPT !.kids[Root] = Append(@, f), !.played = @ \ {f}]
  BY Names DEF AppendFile
<1>3. /\ job.at = "play" /\ iter.tree \in Entries /\ iter.file >= 0 /\ (InOrder => iter.pushed)
      /\ Own = iter /\ ~iter.copy /\ saved = Fresh /\ iter.tree # Root /\ iter.tree # NONE
      /\ call.d \in Int /\ call = Call("none", call.d, FALSE)
  BY <1>1, AtFile
<1>4. /\ Well(tree) /\ Frame /\ Stack /\ NoneOpen(tree) /\ AtPlace(tree.kids, InOrder, iter)
         /\ step \in Int /\ Jobs
      /\ iter.tree \in Nodes
  BY <1>3, Present
<1>5. /\ Well(tree') /\ tree'.rnd = tree.rnd /\ tree'.params = tree.params
         /\ tree'.lists = tree.lists
      /\ \A n : n # f => Par(tree'.kids, n) = Par(tree.kids, n)
  BY <1>2, <1>4, AppendRooted
<1>6. tree.kids \in Kids /\ IsForest(tree.kids) /\ TopFirst(tree.kids)
  BY <1>4, TreeFacts
<1>7. tree'.kids \in Kids /\ IsForest(tree'.kids) /\ TopFirst(tree'.kids)
  <2>1. PICK u : u = tree'
    OBVIOUS
  <2>2. u.kids \in Kids /\ IsForest(u.kids) /\ TopFirst(u.kids)
    BY <1>5, <2>1, WellTree
  <2>3. QED BY <2>1, <2>2
<1>8. PICK k, h, n, p : k = tree.kids /\ h = tree'.kids /\ n = iter.tree /\ p = Way(k)[n]
  OBVIOUS
<1>9. f \notin Range(p)
  <2>1. Par(k, n) # NONE
    BY <1>3, <1>4, <1>6, <1>8, TheRoot DEF AtPlace
  <2>2. f \in Entries /\ n # f
    BY <1>2, <1>8, <2>1, TreeAssumption
  <2>3. QED BY <1>4, <1>6, <1>8, <2>2, EntryOnWay
<1>10. Way(h)[n] = Way(k)[n]
  <2>1. p \in Seq(Nodes)
    BY <1>4, <1>6, <1>8, WayParts
  <2>2. \A j \in 1 .. Len(p) : Par(h, p[j]) = Par(k, p[j])
    BY <1>5, <1>8, <1>9, <2>1 DEF Range
  <2>3. \A j \in 1 .. Len(Way(k)[n]) : Par(h, Way(k)[n][j]) = Par(k, Way(k)[n][j])
    BY <1>8, <2>2
  <2>4. h \in Kids /\ k \in Kids /\ n \in Nodes /\ IsForest(k) /\ TopFirst(k) /\ IsForest(h)
        /\ TopFirst(h)
    BY <1>4, <1>6, <1>7, <1>8
  <2>5. QED BY <2>3, <2>4, WaySame
<1>11. AtPlace(tree'.kids, InOrder, iter)
  <2>1. PICK o, it : o = InOrder /\ it = iter
    OBVIOUS
  <2>2. AtPlace(k, o, it) /\ it.tree # NONE /\ Way(h)[it.tree] = Way(k)[it.tree]
    BY <1>3, <1>4, <1>8, <1>10, <2>1
  <2>3. AtPlace(h, o, it)
    BY <2>2, SamePlace
  <2>4. QED BY <1>8, <2>1, <2>3
<1>12. Own' = Own /\ InOrder' = InOrder
  BY <1>1, <1>3, <1>5 DEF Own, InOrder
<1>13. Stack'
  <2>1. \A m \in Nodes \ {f} : tree'.params[m] = tree.params[m]
    BY <1>5
  <2>2. f \notin Range(Way(tree.kids)[Own.tree])
        /\ Way(tree'.kids)[Own.tree] = Way(tree.kids)[Own.tree] /\ Own.tree \in Nodes
    BY <1>3, <1>4, <1>8, <1>9, <1>10
  <2>3. QED BY <1>1, <1>4, <1>5, <1>12, <2>1, <2>2, ElsewhereStack
<1>14. NoneOpen(tree')
  <2>1. f \in Entries /\ f \notin DOMAIN tree.lists
    BY <1>4, TreeAssumption DEF Well, Listed
  <2>2. ASSUME NEW g \in DOMAIN tree.lists, tree.lists[g] # NONE, Par(tree'.kids, g) # NONE
        PROVE  Par(tree'.kids, tree.lists[g]) = NONE
    <3>1. g # f /\ tree.lists[g] # f
      BY <1>4, <2>1, <2>2 DEF Well, Listed
    <3>2. Par(tree.kids, tree.lists[g]) = NONE
      BY <1>4, <1>5, <2>2, <3>1 DEF NoneOpen
    <3>3. QED BY <1>5, <3>1, <3>2
  <2>3. QED BY <1>5, <2>2 DEF NoneOpen
<1>15. PICK d \in Int, j \in Int : d = call.d /\ j = job.d
  BY <1>3, <1>4 DEF Jobs
<1>16. call' = Call("none", d, FALSE) /\ job' = Job("play", j)
  BY <1>1, <1>3, <1>4, <1>15 DEF Jobs, Job
<1>17. Takes("play", j, "none", d, FALSE)
  BY <1>1, <1>4, <1>16 DEF Takes
<1>18. AtPlace(tree'.kids, InOrder', saved')
  BY <1>1, <1>3, FreshPlace
<1>19. Fits("play", j, "none")
  BY <1>1, <1>3, <1>5, <1>11, <1>12, <1>18 DEF Fits, Peeks
<1>20. "play" \in Plain
  BY DEF Plain
<1>21. QED BY <1>13, <1>14, <1>17, <1>19, <1>20, PlainInv

(* The player goes up to the root to stop or to load a file.               *)
LEMMA ClimbInv ==
  ASSUME IInv, job.at \notin Peeks, job.at # "drop", iter.tree # NONE,
         ~(iter.pushed /\ iter.tree = Root),
         UNCHANGED <<tree, iter, saved, config, step>>, cmds' \in 0 .. MaxCommands,
         NEW at \in {"stop", "load"}, NEW j,
         at = "load" => j \in NewFiles
         /\ Par(tree.kids, j) = NONE, job' = Job(at, j), call' = Call("up", 0, TRUE)
  PROVE  IInv'
<1>1. /\ Well(tree) /\ Stack /\ Own = iter /\ AtPlace(tree.kids, InOrder, iter) /\ NoneOpen(tree)
      /\ ~iter.copy /\ saved = Fresh /\ step \in Int
  BY Present
<1>2. Own' = Own /\ InOrder' = InOrder
  BY <1>1 DEF Own, InOrder
<1>3. Stack'
  BY <1>1, <1>2, SameStack
<1>4. Takes(at, j, "up", 0, TRUE)
  BY <1>1 DEF Takes
<1>5. AtPlace(tree'.kids, InOrder', saved')
  BY <1>1, FreshPlace
<1>6. Fits(at, j, "up")
  BY <1>1, <1>2, <1>5 DEF Fits, Peeks
<1>7. at \in Plain
  BY DEF Plain
<1>8. QED BY <1>1, <1>3, <1>4, <1>6, <1>7, PlainInv

(* Rewind keeps the invariant.                                             *)
LEMMA RewindInv == ASSUME IInv, Rewind PROVE IInv'
<1>1. /\ Playing /\ cmds' \in 0 .. MaxCommands /\ UNCHANGED <<tree, iter, saved, config, step>>
         /\ call' = Call("up", 0, TRUE)
  BY Counted DEF Rewind, Command
<1>2. job.at \notin Peeks /\ job.at # "drop" /\ iter.tree # NONE /\ iter.tree # Root
  BY <1>1, AtFile
<1>3. PICK at, j : /\ at \in {"stop", "load"}
                   /\ at = "load" => j \in NewFiles /\ Par(tree.kids, j) = NONE
                   /\ job' = Job(at, j)
  <2>1. CASE job' = Job("stop", NONE)
    BY <2>1
  <2>2. CASE \E f \in NewFiles : Parent(f) = NONE /\ job' = Job("load", f)
    BY <2>2, Names
  <2>3. QED BY <2>1, <2>2 DEF Rewind
<1>4. QED BY <1>1, <1>2, <1>3, ClimbInv

(* Rewound: at the root nothing is pushed, and the new list may be         *)
(* entered.                                                                *)
LEMMA RewoundInv == ASSUME IInv, Rewound PROVE IInv'
<1>1. /\ job.at \in {"stop", "load"} /\ job.at \notin Peeks /\ job.at # "drop"
         /\ call.op \in {"ENTRY", "NODE", "END", "ERROR"}
      /\ UNCHANGED <<saved, config, step, cmds>>
  BY DEF Rewound, Done, Peeks
<1>2. /\ Well(tree) /\ Frame /\ Stack /\ Own = iter /\ AtPlace(tree.kids, InOrder, iter)
         /\ NoneOpen(tree) /\ iter \in Iters
      /\ ~iter.copy /\ saved = Fresh /\ step \in Int /\ cmds \in 0 .. MaxCommands /\ Calls /\ Jobs
         /\ Pushed
  BY <1>1, Present
<1>3. call.op \in {"ENTRY", "NODE", "END"}
  BY <1>1, <1>2 DEF Calls
<1>4. CASE call.op # "END"
  <2>1. call' = Call("up", 0, TRUE) /\ UNCHANGED <<tree, iter, job>>
    BY <1>4 DEF Rewound
  <2>2. iter.tree # NONE /\ ~(iter.pushed /\ iter.tree = Root)
    BY <1>2, <1>3, <1>4, Present DEF Calls, Pushed
  <2>3. PICK at, j : at \in {"stop", "load"} /\ at = job.at /\ j = job.d
    BY <1>1
  <2>4. job' = Job(at, j) /\ (at = "load" => j \in NewFiles /\ Par(tree.kids, j) = NONE)
    BY <1>2, <2>1, <2>3 DEF Jobs, Job
  <2>5. QED BY <1>1, <1>2, <2>1, <2>2, <2>3, <2>4, ClimbInv
<1>5. CASE call.op = "END" /\ job.at = "stop"
  <2>1. Stopped /\ tree' = tree
    BY <1>5 DEF Rewound
  <2>2. QED BY <1>1, <1>5, <2>1, StopInv
<1>6. CASE call.op = "END" /\ job.at # "stop"
  <2>1. PICK f : f = job.d
    OBVIOUS
  <2>2. f \in NewFiles /\ Par(tree.kids, f) = NONE
    BY <1>1, <1>2, <1>6, <2>1 DEF Jobs
  <2>3. tree' = OnlyFile(f) /\ iter' = [iter EXCEPT !.tree = Root] /\ job' = Job("head", 0)
        /\ call' = Call("step", 0, FALSE)
    BY <1>6, <2>1 DEF Rewound
  <2>4. /\ Well(tree') /\ tree'.rnd = tree.rnd /\ tree'.params = tree.params
           /\ tree'.lists = tree.lists
        /\ \A n : n # f
             => Par(tree'.kids, n) = IF Par(tree.kids, n) = Root THEN NONE ELSE Par(tree.kids, n)
    BY <1>2, <2>2, <2>3, AloneRooted
  <2>5. NoneOpen(tree')
    <3>1. \A n : n # f => Par(tree'.kids, n) = NONE \/ Par(tree'.kids, n) = Par(tree.kids, n)
      BY <2>4
    <3>2. QED BY <1>2, <2>2, <2>4, <3>1, AloneOpen
  <2>6. /\ iter' \in Iters /\ iter'.tree = Root /\ iter'.stack = iter.stack
           /\ iter'.pushed = iter.pushed
        /\ iter'.copy = iter.copy /\ iter'.file = iter.file /\ iter'.rnd = iter.rnd
    BY <1>2, <2>3, TreeAssumption DEF Iters
  <2>7. ~iter.pushed /\ Len(iter.stack) \in Nat /\ (InOrder => Len(iter.stack) = 0)
    BY <1>1, <1>2, <1>6, AtEnd
  <2>8. Own' = iter' /\ InOrder' = InOrder
    BY <1>2, <2>4, <2>6 DEF Own, InOrder
  <2>9. Stack'
    <3>1. Own'.stack = Own.stack /\ ~Own'.pushed /\ ~Own.pushed /\ Len(Own.stack) \in Nat
          /\ (InOrder => Len(Own.stack) = 0)
      BY <1>2, <2>6, <2>7, <2>8
    <3>2. QED BY <1>1, <1>2, <2>4, <3>1, BareStack
  <2>10. AtPlace(tree'.kids, InOrder, iter')
    <3>1. Way(tree'.kids)[Root] = <<Root>> /\ InTree(tree'.kids, Root)
      <4>1. PICK u : u = tree'
        OBVIOUS
      <4>2. u.kids \in Kids /\ IsForest(u.kids) /\ TopFirst(u.kids)
        BY <2>4, <4>1, WellTree
      <4>3. QED BY <4>1, <4>2, TheRoot
    <3>2. Len(Way(tree'.kids)[Root]) - 1 = 0
      BY <3>1
    <3>3. Root # NONE /\ iter.file >= -1 /\ (InOrder => ~iter.rnd)
      BY <1>2, TreeAssumption DEF AtPlace
    <3>4. PICK w, l : w = Len(Way(tree'.kids)[Root]) - 1 /\ l = Len(iter.stack)
      OBVIOUS
    <3>5. l >= w /\ (InOrder => l = w)
      <4>1. w = 0 /\ l \in Nat
        BY <2>7, <3>2, <3>4
      <4>2. InOrder => l = 0
        BY <2>7, <3>4
      <4>3. QED BY <4>1, <4>2
    <3>6. QED BY <2>6, <3>1, <3>3, <3>4, <3>5 DEF AtPlace
  <2>11. Takes("head", 0, "step", 0, FALSE)
    BY <1>1, <1>2, <2>3 DEF Takes
  <2>12. AtPlace(tree'.kids, InOrder', saved')
    BY <1>1, <1>2, FreshPlace
  <2>13. Fits("head", 0, "step")
    BY <1>1, <1>2, <2>4, <2>6, <2>8, <2>10, <2>12, TreeAssumption DEF Fits, Peeks
  <2>14. Frame' /\ Pushed' /\ job'.at = "head" /\ call'.op = "step" /\ call'.d = 0
    BY <2>11, <2>13, TakesFrame
  <2>15. Opening' /\ Dropping' /\ DroppingUp'
    BY <2>14 DEF Opening, Dropping, DroppingUp
  <2>16. Free'
    BY <2>5 DEF Free, NoneOpen
  <2>17. QED BY <2>9, <2>14, <2>15, <2>16 DEF IInv, Frame, Stack
<1>7. QED BY <1>4, <1>5, <1>6

(* IdleLoad keeps the invariant.                                           *)
LEMMA IdleLoadInv == ASSUME IInv, IdleLoad PROVE IInv'
<1>1. /\ job.at = "stopped" /\ job.at \notin Peeks /\ cmds' \in 0 .. MaxCommands
         /\ UNCHANGED <<iter, saved, config, step>>
      /\ job' = Job("open", 0) /\ call' = Call("step", 0, FALSE)
  BY Counted DEF IdleLoad, Peeks
<1>2. PICK f \in NewFiles : Par(tree.kids, f) = NONE /\ tree' = OnlyFile(f)
  BY Names DEF IdleLoad
<1>3. /\ Well(tree) /\ Frame /\ Stack /\ Own = iter /\ AtPlace(tree.kids, InOrder, iter)
         /\ NoneOpen(tree)
      /\ ~iter.copy /\ saved = Fresh /\ step \in Int /\ Jobs
  BY <1>1, Present DEF Peeks
<1>4. iter.tree = NONE /\ iter.stack = <<>> /\ ~iter.pushed
  BY <1>1, <1>3 DEF Jobs, AtPlace
<1>5. /\ Well(tree') /\ tree'.rnd = tree.rnd /\ tree'.params = tree.params
         /\ tree'.lists = tree.lists
      /\ tree'.kids[Root] = <<f>> /\ f \notin tree'.played
      /\ \A n : n # f
           => Par(tree'.kids, n) = IF Par(tree.kids, n) = Root THEN NONE ELSE Par(tree.kids, n)
  BY <1>2, <1>3, AloneRooted
<1>6. NoneOpen(tree')
  <2>1. \A n : n # f => Par(tree'.kids, n) = NONE \/ Par(tree'.kids, n) = Par(tree.kids, n)
    BY <1>5
  <2>2. QED BY <1>2, <1>3, <1>5, <2>1, AloneOpen
<1>7. Own' = Own /\ InOrder' = InOrder
  BY <1>1, <1>3, <1>5 DEF Own, InOrder
<1>8. Stack'
  <2>1. Own'.stack = Own.stack /\ ~Own'.pushed /\ ~Own.pushed /\ Len(Own.stack) = 0
    BY <1>3, <1>4, <1>7
  <2>2. QED BY <1>1, <1>3, <1>5, <2>1, BareStack
<1>9. AtPlace(tree'.kids, InOrder, iter)
  BY <1>3, <1>4 DEF AtPlace
<1>10. Takes("open", 0, "step", 0, FALSE)
  BY <1>1, <1>3 DEF Takes
<1>11. AtPlace(tree'.kids, InOrder', saved')
  BY <1>1, <1>3, FreshPlace
<1>12. Fits("open", 0, "step")
  BY <1>1, <1>3, <1>4, <1>5, <1>7, <1>9, <1>11 DEF Fits, Peeks
<1>13. Frame' /\ Pushed' /\ job'.at = "open" /\ call'.op = "step" /\ call'.d = 0
  BY <1>10, <1>12, TakesFrame
<1>14. Opening'
  <2>1. f \in Entries \ tree'.played
    BY <1>2, <1>5, TreeAssumption
  <2>2. QED BY <1>1, <1>4, <1>5, <1>13, <2>1 DEF Opening
<1>15. Dropping' /\ DroppingUp'
  BY <1>13 DEF Dropping, DroppingUp
<1>16. Free'
  BY <1>6 DEF Free, NoneOpen
<1>17. QED BY <1>8, <1>13, <1>14, <1>15, <1>16 DEF IInv, Frame, Stack

-----------------------------------------------------------------------------

(* Nothing happens.                                                        *)
LEMMA SameInv == ASSUME IInv, UNCHANGED vars PROVE IInv'
<1>1. /\ tree' = tree /\ iter' = iter /\ saved' = saved /\ call' = call /\ job' = job
         /\ step' = step /\ cmds' = cmds
      /\ asked' = asked /\ lvl' = lvl /\ slots' = slots /\ value' = value /\ base' = base
  BY DEF vars, config
<1>2. InOrder' = InOrder /\ Own' = Own /\ Around' = Around /\ \A o : Outer(o)' = Outer(o)
  BY <1>1 DEF InOrder, Own, Around, Outer
<1>3. Well(tree)' /\ Places' /\ Calls' /\ Jobs' /\ Pushed'
  BY <1>1, <1>2 DEF IInv, Places, Calls, Jobs, Pushed
<1>4. Opening' /\ Free' /\ Dropping' /\ DroppingUp'
  BY <1>1, <1>2 DEF IInv, Opening, Free, Dropping, DroppingUp
<1>5. Levels' /\ Slotted' /\ Contents'
  BY <1>1, <1>2 DEF IInv, Levels, Slotted, Contents
<1>6. QED BY <1>3, <1>4, <1>5 DEF IInv

(* The invariant holds at the start, for every proper playlist.            *)
LEMMA InitInv ==
  ASSUME Init, \A s \in Shapes : Proper(s)
  PROVE  IInv
<1>1. /\ iter = Fresh /\ saved = Fresh /\ call = [op |-> "step", d |-> 0, nodes |-> FALSE]
      /\ job = [at |-> "open", d |-> 1] /\ step = 1 /\ cmds = 0 /\ asked = Nowhere
  BY DEF Init, Call, Job
<1>2. Proper(tree)
  BY DEF Init
<1>3. Well(tree) /\ tree.played = {}
      /\ \A e \in DOMAIN tree.lists : \A g \in Nodes : tree.lists[e] \notin Range(tree.kids[g])
  BY <1>2 DEF Proper
<1>4. /\ \A k, o : AtPlace(k, o, Fresh)
      /\ ~Fresh.copy /\ Fresh.tree = NONE /\ ~Fresh.pushed /\ Fresh.stack = <<>>
  BY FreshPlace
<1>5. Places
  BY <1>1, <1>4 DEF Places, Peeks
<1>6. Calls /\ Pushed
  BY <1>1, <1>4, TreeAssumption DEF Calls, Pushed
<1>7. Jobs
  BY <1>1, <1>4, TreeAssumption DEF Jobs
<1>8. Opening /\ Dropping /\ DroppingUp
  BY <1>1, <1>3 DEF Opening, Dropping, DroppingUp
<1>9. Free
  <2>1. \A e \in DOMAIN tree.lists : Par(tree.kids, tree.lists[e]) = NONE
    BY <1>3 DEF Par
  <2>2. QED BY <2>1 DEF Free
<1>10. /\ lvl = 1
          /\ slots = [o \in Opts |-> <<[lvl |-> 0, val |-> Default], [lvl |-> 1, val |-> Default]>>]
       /\ value = [o \in Opts |-> Default] /\ Default \in Vals
  BY OptsAssumption DEF Init, ConfigInit, Slot
<1>11. Slotted
  <2>1. PICK a, b : a = [lvl |-> 0, val |-> Default] /\ b = [lvl |-> 1, val |-> Default]
    OBVIOUS
  <2>2. a \in [lvl : Nat, val : Vals] /\ b \in [lvl : Nat, val : Vals] /\ a.lvl = 0 /\ b.lvl = 1
    BY <1>10, <2>1
  <2>3. slots = [o \in Opts |-> <<a, b>>]
    BY <1>10, <2>1
  <2>4. slots \in [Opts -> Seq([lvl : Nat, val : Vals])]
    BY <2>2, <2>3
  <2>5. \A o \in Opts : Len(slots[o]) = 2 /\ slots[o][1] = a /\ slots[o][2] = b
    BY <2>3
  <2>6. \A o \in Saved : \A i \in 1 .. 2 : slots[o][i].lvl = i - 1
    <3>1. ASSUME NEW o \in Saved, NEW i \in 1 .. 2 PROVE slots[o][i].lvl = i - 1
      <4>1. o \in Opts /\ (i = 1 \/ i = 2)
        BY <3>1 DEF Saved
      <4>2. QED BY <2>2, <2>5, <4>1
    <3>2. QED BY <3>1
  <2>7. QED BY <1>10, <2>4, <2>5, <2>6 DEF Slotted
<1>12. Own = Fresh
  BY <1>1, <1>4 DEF Own
<1>13. Levels
  <2>1. Len(Own.stack) = 0 /\ B(Own.pushed) = 0
    BY <1>4, <1>12 DEF B
  <2>2. QED BY <1>10, <2>1 DEF Levels
<1>14. Contents
  <2>1. lvl - 1 = 0 /\ 0 .. lvl - 2 = {}
    BY <1>10
  <2>2. ASSUME NEW o \in Saved, Kept(o, lvl - 1)
        PROVE  value[o] = OptAt(Outer(o), tree, Around, lvl - 1, o)
    <3>1. PICK x, t, p : x = Outer(o) /\ t = tree /\ p = Around
      OBVIOUS
    <3>2. OptAt(x, t, p, 0, o) = x
      BY OptNone
    <3>3. x = Default /\ value[o] = Default
      BY <1>10, <2>1, <2>2, <3>1 DEF Saved, Outer, Kept
    <3>4. QED BY <2>1, <3>1, <3>2, <3>3
  <2>3. QED BY <2>1, <2>2 DEF Contents
<1>15. QED BY <1>3, <1>5, <1>6, <1>7, <1>8, <1>9, <1>11, <1>13, <1>14 DEF IInv

(* Every step keeps the invariant.                                         *)
LEMMA NextInv == ASSUME IInv, Next PROVE IInv'
<1>1. CASE Iterate
  BY <1>1, IterateInv
<1>2. CASE Advance
  BY <1>2, OpenedInv, MovedInv, NoFileInv, PlayFileInv, FoundListInv, DropInv, DropUpInv,
     PeekedInv, RewoundInv,
     AtHeadInv DEF Advance
<1>3. CASE EndOfFile
  BY <1>3, EndOfFileInv
<1>4. CASE User
  BY <1>4, OpenFailsInv, PeekInv, ForcedInv, AltSourceInv, SetPropertyInv, AppendFileInv,
     RewindInv, IdleLoadInv DEF User
<1>5. CASE Idle
  BY <1>5, SameInv DEF Idle
<1>6. QED BY <1>1, <1>2, <1>3, <1>4, <1>5 DEF Next

(* The invariant says what is promised.                                    *)
LEMMA InvOK == ASSUME IInv PROVE PushesMatchPops
<1>1. /\ Core /\ Frame /\ Stack /\ Pushed /\ Free /\ Well(tree) /\ Places /\ Calls /\ Jobs
      /\ iter \in Iters /\ step \in Int /\ cmds \in 0 .. MaxCommands
      /\ AtPlace(tree.kids, InOrder, iter) /\ (job.at \notin Peeks => ~iter.copy /\ Own = iter)
  BY Present
<1>2. TypeOK
  <2>1. /\ tree.kids \in [Nodes -> Seq(Nodes)] /\ tree.loop \in [Nodes -> Int]
        /\ tree.rnd \subseteq Nodes /\ tree.played \subseteq Nodes
    BY <1>1, TreeFacts DEF Kids
  <2>2. call.op \in Results /\ job.at # "crash"
    BY <1>1 DEF Calls, Jobs, Results
  <2>3. lvl \in Nat /\ value \in [Opts -> Vals]
    BY <1>1 DEF Stack, Slotted
  <2>4. QED BY <1>1, <2>1, <2>2, <2>3 DEF TypeOK, Iters
<1>3. StackMatches
  <2>1. SUFFICES ASSUME job.at = "play"
        PROVE  /\ iter.tree \in Entries /\ Head(Path[iter.tree]) = Root /\ ~iter.copy
               /\ InOrder => Len(iter.stack) = Len(Path[iter.tree]) - 1 /\ lvl = Len(iter.stack) + 2
    BY DEF StackMatches
  <2>2. /\ iter.tree \in Entries /\ ~iter.copy /\ iter.tree # NONE /\ (InOrder => iter.pushed)
           /\ Own = iter
    BY <2>1, AtFile DEF Playing
  <2>3. Path = Way(tree.kids)
    BY Names
  <2>4. InTree(tree.kids, iter.tree)
        /\ (InOrder => Len(iter.stack) = Len(Way(tree.kids)[iter.tree]) - 1)
        /\ iter.stack \in Seq(Int)
    BY <1>1, <2>2 DEF AtPlace, Iters
  <2>5. InOrder => lvl = Len(iter.stack) + 2
    <3>1. PICK a, l : a = B(iter.pushed) /\ l = Len(iter.stack)
      OBVIOUS
    <3>2. InOrder => a = 1 /\ lvl = 1 + l + a
      BY <1>1, <2>2, <3>1 DEF Stack, Levels, B
    <3>3. l \in Nat
      BY <2>4, <3>1
    <3>4. QED BY <3>1, <3>2, <3>3
  <2>6. QED BY <2>2, <2>3, <2>4, <2>5 DEF InTree
<1>4. OptionsRestored
  <2>1. SUFFICES ASSUME job.at = "stopped", InOrder
                 PROVE lvl = 1 /\ \A o \in Saved \ Aliased : value[o] = Default
    BY DEF OptionsRestored
  <2>2. Own = iter /\ iter.tree = NONE /\ iter.stack = <<>> /\ ~iter.pushed
    BY <1>1, <2>1 DEF Peeks, Jobs, AtPlace
  <2>3. lvl = 1
    <3>1. Len(Own.stack) = 0 /\ B(Own.pushed) = 0
      BY <2>2 DEF B
    <3>2. QED BY <1>1, <2>1, <3>1 DEF Stack, Levels
  <2>4. ASSUME NEW o \in Saved, o \notin Aliased PROVE value[o] = Default
    <3>1. value[o] = OptAt(Outer(o), tree, Around, lvl - 1, o) /\ lvl - 1 = 0
      BY <1>1, <2>1, <2>2, <2>3, <2>4 DEF Stack, Contents, Kept
    <3>2. PICK x, t, p : x = Outer(o) /\ t = tree /\ p = Around
      OBVIOUS
    <3>3. OptAt(x, t, p, 0, o) = x /\ x = Default
      BY <2>4, <3>2, OptNone DEF Outer
    <3>4. QED BY <3>1, <3>2, <3>3
  <2>5. QED BY <2>3, <2>4
<1>5. QED BY <1>2, <1>3, <1>4 DEF PushesMatchPops

-----------------------------------------------------------------------------
(* The options that are in effect at an entry                              *)
LEMMA OptionIs ==
  ASSUME NEW n, NEW o, NEW p, p = Path[n], NEW l \in Nat, l = Len(p), DOMAIN p = 1 .. l
  PROVE  Option(n, o) = OptAt(Outer(o), tree, p, l, o)
<1>1. Given(n, o) = {j \in 1 .. l : o \in DOMAIN tree.params[p[j]]}
  BY DEF Given
<1>2. PICK g : g = {j \in 1 .. l : o \in DOMAIN tree.params[p[j]]}
  OBVIOUS
<1>3. Given(n, o) = g
  BY <1>1, <1>2
<1>4. Option(n, o) = IF g = {} THEN Outer(o) ELSE tree.params[p[Max(g)]][o]
  BY <1>3, Zenon DEF Option
<1>5. OptAt(Outer(o), tree, p, l, o) = IF g = {} THEN Outer(o) ELSE tree.params[p[Max(g)]][o]
  BY <1>2, Zenon DEF OptAt
<1>6. QED BY <1>4, <1>5

OptionsStep ==
  job.at = "file" /\ job'.at = "play" /\ iter.file = -1 /\ InOrder =>
    \A o \in Saved : value'[o] = IF o = Loop THEN Count(Option(iter.tree, o)) ELSE Option(iter.tree, o)

(* A file starts to play in PlayFile only.                                 *)
LEMMA OnlyPlayFile ==
  ASSUME IInv, Next \/ UNCHANGED vars, job.at = "file", job'.at = "play"
  PROVE  PlayFile
<1>1. ~Iterate
  <2>1. SUFFICES ASSUME Iterate PROVE FALSE
    OBVIOUS
  <2>2. Steady
    BY <2>1, Present, IterateKeeps
  <2>3. job' = job
    BY <2>2 DEF Steady, player
  <2>4. QED BY <2>3
<1>2. /\ ~Opened /\ ~Moved /\ ~FoundList /\ ~Drop /\ ~DropUp /\ ~Peeked /\ ~Rewound /\ ~AtHead
  BY DEF Opened, Moved, FoundList, Drop, DropUp, Peeked, Rewound, AtHead, Done, Playing
<1>3. ~NoFile
  <2>1. SUFFICES ASSUME NoFile PROVE FALSE
    OBVIOUS
  <2>2. PICK d : d = job.d
    OBVIOUS
  <2>3. job' = [at |-> "next", d |-> d]
    BY <2>1, <2>2 DEF NoFile, Begin, Job
  <2>4. job'.at = "next"
    BY <2>3
  <2>5. QED BY <2>4
<1>4. ~EndOfFile /\ ~OpenFails
  <2>1. PICK d : d = step
    OBVIOUS
  <2>2. OpenFails => job'.at \in {"file", "entry"}
    <3>1. OpenFails => job' = [at |-> "file", d |-> 1] \/ job' = [at |-> "entry", d |-> d]
      BY <2>1 DEF OpenFails, ToFile, Begin, Job
    <3>2. QED BY <3>1
  <2>3. QED BY <2>2 DEF EndOfFile, Playing
<1>5. ~User
  BY <1>4 DEF User, Peek, Forced, AltSource, SetProperty, AppendFile, Rewind,
     IdleLoad, Command, Playing
<1>6. ~UNCHANGED vars
  BY DEF vars
<1>7. QED BY <1>1, <1>2, <1>3, <1>4, <1>5, <1>6 DEF Next, Advance, Idle

(* It then has the options of its place.                                   *)
LEMMA OptionsStepHolds ==
  ASSUME IInv, Next \/ UNCHANGED vars
  PROVE  OptionsStep
<1>1. SUFFICES ASSUME job.at = "file", job'.at = "play", iter.file = -1, InOrder, NEW o \in Saved
               PROVE  value'[o] = IF o = Loop THEN Count(Option(iter.tree, o)) ELSE Option(iter.tree, o)
  BY DEF OptionsStep
<1>2. PlayFile
  BY <1>1, OnlyPlayFile
<1>3. Assign(Loop, Count(value[Loop])) /\ iter.tree \in Entries
  BY <1>2 DEF PlayFile, HasFile
<1>4. /\ Frame /\ Stack /\ ~iter.copy /\ iter.tree # NONE /\ iter.tree \in Nodes /\ Well(tree)
         /\ Jobs
  BY <1>1, <1>3, Present DEF Peeks
<1>5. iter.pushed
  BY <1>1, <1>4 DEF Jobs
<1>6. /\ lvl = Len(Way(tree.kids)[iter.tree]) + B(iter.pushed) /\ Around = Way(tree.kids)[iter.tree]
      /\ Len(Way(tree.kids)[iter.tree]) \in Nat \ {0} /\ Own = iter
  BY <1>1, <1>4, LevelIs
<1>7. PICK p, l : p = Path[iter.tree] /\ l = Len(p)
  OBVIOUS
<1>8. p = Around /\ l \in Nat /\ DOMAIN p = 1 .. l /\ lvl - 1 = l
  <2>1. p = Way(tree.kids)[iter.tree]
    BY <1>7, Names
  <2>2. p \in Seq(Nodes)
    BY <1>4, <2>1, TreeFacts, WayParts
  <2>3. B(iter.pushed) = 1
    BY <1>5 DEF B
  <2>4. QED BY <1>6, <1>7, <2>1, <2>2, <2>3
<1>9. value[o] = OptAt(Outer(o), tree, Around, lvl - 1, o)
  <2>1. Kept(o, lvl - 1)
    BY <1>6, <1>7, <1>8 DEF Kept
  <2>2. QED BY <1>1, <1>4, <1>6, <2>1 DEF Stack, Contents
<1>10. Option(iter.tree, o) = OptAt(Outer(o), tree, p, l, o)
  <2>1. PICK n : n = iter.tree
    OBVIOUS
  <2>2. p = Path[n]
    BY <1>7, <2>1
  <2>3. Option(n, o) = OptAt(Outer(o), tree, p, l, o)
    BY <1>7, <1>8, <2>2, OptionIs
  <2>4. QED BY <2>1, <2>3
<1>11. value[o] = Option(iter.tree, o)
  BY <1>8, <1>9, <1>10
<1>12. value \in [Opts -> Vals] /\ o \in Opts
  BY <1>4 DEF Stack, Slotted, Saved
<1>13. PICK c : c = Count(value[Loop])
  OBVIOUS
<1>14. value' = [value EXCEPT ![Loop] = c]
  BY <1>3, <1>13 DEF Assign
<1>15. CASE o = Loop
  <2>1. value'[o] = c
    BY <1>12, <1>14, <1>15
  <2>2. c = Count(Option(iter.tree, o))
    BY <1>11, <1>13, <1>15
  <2>3. QED BY <1>15, <2>1, <2>2
<1>16. CASE o # Loop
  BY <1>11, <1>12, <1>14, <1>16
<1>17. QED BY <1>15, <1>16

(* Every push of options has its pop, for playlists of any size and shape, *)
(* any number of laps, commands and playlists found on the way             *)
(* (m_config_push and m_config_pop as called by play_tree_iter_push_params,*)
(* _step, _up_step and _down_step).  When the player stops, every option   *)
(* is what it was before but those that an alias sets, as -loop is: these  *)
(* keep what a file had (see AllRestored in PlayTree).                     *)
THEOREM PushesMatchPopsHolds ==
  ASSUME \A s \in Shapes : Proper(s)
  PROVE  Spec => []PushesMatchPops
<1>1. Init => IInv
  BY InitInv
<1>2. IInv /\ [Next]_vars => IInv'
  BY NextInv, SameInv
<1>3. IInv => PushesMatchPops
  BY InvOK
<1>4. QED BY <1>1, <1>2, <1>3, PTL DEF Spec

(* A file starts with the options given for it, or for the innermost group *)
(* around it, or else with those around the playlist: the default, but for *)
(* an option set by an alias what the playlist was entered with, which may *)
(* be what a file of an earlier one had (Outer in PlayTree).               *)
THEOREM OptionsOfEntryHolds ==
  ASSUME \A s \in Shapes : Proper(s)
  PROVE  Spec => OptionsOfEntry
<1>1. Init => IInv
  BY InitInv
<1>2. IInv /\ [Next]_vars => IInv'
  BY NextInv, SameInv
<1>3. IInv /\ [Next]_vars => OptionsStep
  BY OptionsStepHolds
<1>4. Spec => [][OptionsStep]_vars
  BY <1>1, <1>2, <1>3, PTL DEF Spec
<1>5. QED BY <1>4 DEF OptionsOfEntry, OptionsStep
=============================================================================
