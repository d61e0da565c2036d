------------------------- MODULE RtpReorderProofs -------------------------
(***************************************************************************)
(* Proofs about the order of an RTP stream, for every size of the ring and *)
(* every range of the numbers: packets wait in the slots of their numbers, *)
(* none is dropped that came in time, and none is delivered twice or late. *)
(***************************************************************************)
EXTENDS RtpReorder, FiniteSetTheorems, TLAPS

(* Division has one result.                                                *)
LEMMA OneQuotient ==
  ASSUME NEW m \in Nat \ {0}, NEW q \in Int, NEW r \in 0 .. m - 1, NEW b \in Int, NEW s \in 0 .. m - 1,
         m * q + r = m * b + s
  PROVE  q = b /\ r = s
<1>1. m * (q - b) = s - r
  OBVIOUS
<1>2. s - r < m /\ s - r > 0 - m
  OBVIOUS
<1>3. q - b \in Int
  OBVIOUS
<1>4. ASSUME q - b >= 1 PROVE FALSE
  <2>1. m * (q - b) >= m
    BY <1>4
  <2>2. QED BY <1>1, <1>2, <2>1
<1>5. ASSUME q - b <= 0 - 1 PROVE FALSE
  <2>1. m * (q - b) <= 0 - m
    BY <1>5
  <2>2. QED BY <1>1, <1>2, <2>1
<1>6. q = b
  BY <1>3, <1>4, <1>5
<1>7. QED BY <1>6

(* What division leaves, and how far it is from what was divided.          *)
LEMMA ModFacts ==
  ASSUME NEW m \in Nat \ {0}, NEW x \in Int
  PROVE  x % m \in 0 .. m - 1 /\ x \div m \in Int /\ x = m * (x \div m) + (x % m)
  OBVIOUS

LEMMA ModIs ==
  ASSUME NEW m \in Nat \ {0}, NEW q \in Int, NEW r \in 0 .. m - 1
  PROVE  (m * q + r) % m = r
<1> DEFINE x == m * q + r
<1>1. x \in Int
  OBVIOUS
<1>2. x % m \in 0 .. m - 1 /\ x \div m \in Int /\ x = m * (x \div m) + (x % m)
  BY <1>1, ModFacts
<1>3. m * (x \div m) + (x % m) = m * q + r
  BY <1>2
<1> HIDE DEF x
<1>4. x % m = r
  BY <1>2, <1>3, OneQuotient
<1>5. QED BY <1>4 DEF x

(* Around once.                                                            *)
LEMMA ModOnce ==
  ASSUME NEW m \in Nat \ {0}, NEW x \in Nat, x < 2 * m
  PROVE  x % m = IF x < m THEN x ELSE x - m
<1>1. CASE x < m
  <2>1. m * 0 + x = x /\ x \in 0 .. m - 1
    BY <1>1
  <2>2. (m * 0 + x) % m = x
    BY <2>1, ModIs
  <2>3. QED BY <1>1, <2>1, <2>2
<1>2. CASE x >= m
  <2>1. m * 1 + (x - m) = x /\ x - m \in 0 .. m - 1
    BY <1>2
  <2>2. (m * 1 + (x - m)) % m = x - m
    BY <2>1, ModIs
  <2>3. QED BY <1>2, <2>1, <2>2
<1>3. QED BY <1>1, <1>2

(* The numbers a packet can have.                                          *)
Nums == 0 .. SeqMod - 1

LEMMA Sizes == /\ Ring \in Nat /\ Ring > 3 /\ Ring \in Nat \ {0}
               /\ SeqMod \in Nat /\ SeqMod > 5 * Ring /\ SeqMod > Ring /\ SeqMod \in Nat \ {0}
  BY RtpAssumption DEF RtpAssumption

(* A number that is further on, and one further on from that.              *)
LEMMA SeqAdd ==
  ASSUME NEW s \in Nums, NEW a \in Nat, NEW b \in Nat, a + b < SeqMod
  PROVE  /\ (s + a) % SeqMod \in Nums
         /\ (((s + a) % SeqMod) + b) % SeqMod = (s + (a + b)) % SeqMod
<1>1. SeqMod \in Nat \ {0} /\ s \in Nat /\ s < SeqMod
  BY Sizes DEF Nums
<1>2. PICK x \in Nat : x = s + a
  BY <1>1
<1>3. PICK y \in Nat : y = s + (a + b)
  BY <1>1
<1>4. x < 2 * SeqMod /\ y < 2 * SeqMod
  BY <1>1, <1>2, <1>3
<1>5. x % SeqMod = IF x < SeqMod THEN x ELSE x - SeqMod
  BY <1>1, <1>4, ModOnce
<1>6. y % SeqMod = IF y < SeqMod THEN y ELSE y - SeqMod
  BY <1>1, <1>4, ModOnce
<1>7. PICK z \in Nums : z = x % SeqMod
  BY <1>1, <1>2, <1>5 DEF Nums
<1>8. (z + b) % SeqMod = y % SeqMod
  <2>1. CASE x < SeqMod
    BY <1>1, <1>2, <1>3, <1>5, <1>7, <2>1
  <2>2. CASE x >= SeqMod
    <3>1. PICK w \in Nat : w = z + b
      BY <1>1, <1>7 DEF Nums
    <3>2. w = y - SeqMod /\ w < SeqMod /\ y >= SeqMod
      BY <1>1, <1>2, <1>3, <1>5, <1>7, <2>2, <3>1
    <3>3. w < 2 * SeqMod
      BY <1>1, <3>2
    <3>4. w % SeqMod = w
      BY <1>1, <3>2, <3>3, ModOnce
    <3>5. QED BY <1>1, <1>3, <1>6, <3>1, <3>2, <3>4
  <2>3. QED BY <1>1, <1>2, <2>1, <2>2
<1>9. QED BY <1>2, <1>3, <1>7, <1>8

(* A slot that is further on, where the ring wraps too; ...                *)
LEMMA PlusIs ==
  ASSUME NEW i \in Slots, NEW n \in 0 .. Ring
  PROVE  /\ Plus(i, n) \in Slots
         /\ Plus(i, n) = IF i + n < Ring THEN i + n ELSE i + n - Ring
<1>1. PICK x \in Nat : x = i + n
  BY Sizes DEF Slots
<1>2. Ring \in Nat \ {0} /\ x < 2 * Ring
  BY <1>1, Sizes DEF Slots
<1>3. x % Ring = IF x < Ring THEN x ELSE x - Ring
  BY <1>2, ModOnce
<1>4. Plus(i, n) = x % Ring
  BY <1>1 DEF Plus
<1>5. QED BY <1>1, <1>2, <1>3, <1>4 DEF Slots

(* ... and one further on from that.                                       *)
LEMMA PlusPlus ==
  ASSUME NEW f \in Slots, NEW k \in 0 .. Ring, NEW d \in Slots
  PROVE  Plus(Plus(f, k), d) = IF k + d < Ring THEN Plus(f, k + d) ELSE Plus(f, k + d - Ring)
<1>1. Ring \in Nat /\ f \in Nat /\ f < Ring /\ d \in Nat /\ d < Ring /\ d \in 0 .. Ring
  BY Sizes DEF Slots
<1>2. Plus(f, k) \in Slots /\ Plus(f, k) = IF f + k < Ring THEN f + k ELSE f + k - Ring
  BY <1>1, PlusIs
<1>3. Plus(Plus(f, k), d) = IF Plus(f, k) + d < Ring THEN Plus(f, k) + d ELSE Plus(f, k) + d - Ring
  BY <1>1, <1>2, PlusIs
<1>4. CASE k + d < Ring
  <2>1. Plus(f, k + d) = IF f + (k + d) < Ring THEN f + (k + d) ELSE f + (k + d) - Ring
    BY <1>1, <1>4, PlusIs
  <2>2. QED BY <1>1, <1>2, <1>3, <1>4, <2>1
<1>5. CASE k + d >= Ring
  <2>1. Plus(f, k + d - Ring) = IF f + (k + d - Ring) < Ring THEN f + (k + d - Ring) ELSE f + (k + d - Ring) - Ring
    BY <1>1, <1>5, PlusIs
  <2>2. QED BY <1>1, <1>2, <1>3, <1>5, <2>1
<1>6. QED BY <1>1, <1>4, <1>5

LEMMA PlusIn == ASSUME NEW f \in Slots, NEW d \in Slots PROVE Plus(f, d) \in Slots
<1>1. d \in 0 .. Ring
  BY Sizes DEF Slots
<1>2. QED BY <1>1, PlusIs

LEMMA PlusNone == ASSUME NEW f \in Slots PROVE Plus(f, 0) = f
  BY Sizes, PlusIs DEF Slots

(* Slots as far from the first are the same.                               *)
LEMMA PlusOnce ==
  ASSUME NEW f \in Slots, NEW a \in Slots, NEW b \in Slots, Plus(f, a) = Plus(f, b)
  PROVE  a = b
<1>1. a \in 0 .. Ring /\ b \in 0 .. Ring /\ Ring \in Nat
  BY Sizes DEF Slots
<1>2. /\ Plus(f, a) = IF f + a < Ring THEN f + a ELSE f + a - Ring
      /\ Plus(f, b) = IF f + b < Ring THEN f + b ELSE f + b - Ring
  BY <1>1, PlusIs
<1>3. f \in Nat /\ a \in Nat /\ b \in Nat /\ a < Ring /\ b < Ring /\ Ring \in Nat
  BY <1>1 DEF Slots
<1>4. (IF f + a < Ring THEN f + a ELSE f + a - Ring) = (IF f + b < Ring THEN f + b ELSE f + b - Ring)
  BY <1>2, Zenon
<1>5. QED BY ONLY <1>3, <1>4

(* Each slot is some number of slots from the first.                       *)
LEMMA EverySlot == ASSUME NEW f \in Slots, NEW i \in Slots PROVE \E d \in Slots : Plus(f, d) = i
<1>1. Ring \in Nat
  BY Sizes
<1>2. CASE i >= f
  <2>1. i - f \in Slots /\ i - f \in 0 .. Ring
    BY <1>1, <1>2 DEF Slots
  <2>2. Plus(f, i - f) = i
    BY <1>1, <2>1, PlusIs DEF Slots
  <2>3. QED BY <2>1, <2>2
<1>3. CASE i < f
  <2>1. i - f + Ring \in Slots /\ i - f + Ring \in 0 .. Ring
    BY <1>1, <1>3 DEF Slots
  <2>2. Plus(f, i - f + Ring) = i
    BY <1>1, <1>3, <2>1, PlusIs DEF Slots
  <2>3. QED BY <2>1, <2>2
<1>4. QED BY <1>1, <1>2, <1>3 DEF Slots

(* In a ring whose first slot is f, each packet waits as far from it as    *)
(* its number is from the number expected.                                 *)
Agree(f, s, l, da) ==
  \A d \in Slots : l[Plus(f, d)] # 0 =>
    s[Plus(f, d)] = (s[f] + d) % SeqMod /\ SeqOf(da[Plus(f, d)]) = s[Plus(f, d)]

(* It stays so when the first k slots are empty and given up.              *)
LEMMA MoveOn ==
  ASSUME NEW f \in Slots, NEW s \in [Slots -> Nums], NEW l, NEW da, Agree(f, s, l, da),
         NEW k \in 1 .. Ring, NEW l2, \A i \in Slots : l2[i] # 0 => l[i] # 0,
         \A e \in 0 .. k - 1 : l2[Plus(f, e)] = 0,
         NEW s2, s2 = [s EXCEPT ![Plus(f, k)] = (s[f] + k) % SeqMod]
  PROVE  Agree(Plus(f, k), s2, l2, da)
<1> DEFINE g == Plus(f, k)
<1>1. k \in 0 .. Ring /\ Ring \in Nat /\ SeqMod \in Nat /\ SeqMod > Ring /\ g \in Slots /\ s[f] \in Nums
  BY Sizes, PlusIs
<1>2. s2[g] = (s[f] + k) % SeqMod
  BY <1>1
<1>3. SUFFICES ASSUME NEW d \in Slots, l2[Plus(g, d)] # 0
               PROVE  s2[Plus(g, d)] = (s2[g] + d) % SeqMod /\ SeqOf(da[Plus(g, d)]) = s2[Plus(g, d)]
  BY DEF Agree
<1> DEFINE i == Plus(g, d)
<1>4. d \in 0 .. Ring /\ d \in Nat /\ d < Ring
  BY <1>1 DEF Slots
<1>5. k + d < Ring
  <2>1. CASE k + d >= Ring
    <3>1. i = Plus(f, k + d - Ring) /\ k + d - Ring \in 0 .. k - 1
      BY <1>1, <1>4, <2>1, PlusPlus
    <3>2. QED BY <1>3, <3>1
  <2>2. QED BY <1>1, <1>4, <2>1
<1>6. i = Plus(f, k + d) /\ k + d \in Slots /\ i \in Slots
  <2>1. k + d \in Slots /\ k + d \in 0 .. Ring
    BY <1>1, <1>4, <1>5 DEF Slots
  <2>2. Plus(f, k + d) \in Slots
    BY <2>1, PlusIs
  <2>3. i = Plus(f, k + d)
    BY <1>1, <1>4, <1>5, PlusPlus
  <2>4. QED BY <2>1, <2>2, <2>3
<1>7. s[i] = (s[f] + (k + d)) % SeqMod /\ SeqOf(da[i]) = s[i]
  <2>1. l[i] # 0
    BY <1>3, <1>6
  <2>2. QED BY <1>6, <2>1 DEF Agree
<1>8. (((s[f] + k) % SeqMod) + d) % SeqMod = (s[f] + (k + d)) % SeqMod
  BY <1>1, <1>4, <1>5, SeqAdd
<1>9. s2[i] = s[i]
  <2>1. CASE i = g
    <3>1. Plus(f, k) = Plus(f, k + d) /\ k \in Slots
      BY <1>1, <1>4, <1>5, <1>6, <2>1 DEF Slots
    <3>2. k = k + d
      BY <1>6, <3>1, PlusOnce
    <3>3. QED BY <1>2, <1>7, <2>1, <3>2
  <2>2. CASE i # g
    BY <1>6, <2>2
  <2>3. QED BY <2>1, <2>2
<1>10. QED BY <1>2, <1>7, <1>8, <1>9
-----------------------------------------------------------------------------
(* What the variables hold.                                                *)
RingTypes ==
  /\ first \in Slots /\ tries \in 0 .. Ring - 3 /\ past \in Nat /\ base \in Nat /\ sent \in Nat /\ air \subseteq Nat
  /\ seq \in [Slots -> Nums] /\ len \in [Slots -> {0, 1}] /\ data \in [Slots -> Nat]
  /\ is_first \in BOOLEAN /\ clash \in BOOLEAN

(* While nothing was received nothing waits; and what waits is in its      *)
(* slot.                                                                   *)
RingInv ==
  /\ RingTypes
  /\ is_first => \A i \in Slots : len[i] = 0
  /\ ~clash => Agree(first, seq, len, data)

(* The number of a packet, and of the one after it.                        *)
LEMMA SeqOfIs ==
  ASSUME base \in Nat, NEW n \in Nat
  PROVE  SeqOf(n) \in Nums /\ Next16(SeqOf(n)) = (SeqOf(n) + 1) % SeqMod /\ Next16(SeqOf(n)) \in Nums
<1>1. PICK x \in Int : x = base + n
  OBVIOUS
<1>2. x % SeqMod \in Nums
  BY Sizes, ModFacts DEF Nums
<1>3. SeqOf(n) \in Nums
  BY <1>1, <1>2 DEF SeqOf
<1>4. PICK y \in Int : y = SeqOf(n) + 1
  BY <1>3, Sizes DEF Nums
<1>5. y % SeqMod \in Nums
  BY Sizes, ModFacts DEF Nums
<1>6. QED BY <1>3, <1>4, <1>5 DEF Next16

LEMMA NextNum == ASSUME NEW s \in Nums PROVE Next16(s) \in Nums
<1>1. PICK y \in Int : y = s + 1
  BY Sizes DEF Nums
<1>2. QED BY <1>1, Sizes, ModFacts DEF Nums, Next16

(* A ring in which nothing waits agrees with any number.                   *)
LEMMA NoneAgree == ASSUME NEW f \in Slots, NEW s, NEW l, NEW da, \A i \in Slots : l[i] = 0 PROVE Agree(f, s, l, da)
<1>1. \A d \in Slots : Plus(f, d) \in Slots
  BY PlusIs, Sizes DEF Slots
<1>2. QED BY <1>1 DEF Agree

LEMMA InitRing == Init => RingInv
<1> SUFFICES ASSUME Init PROVE RingInv
  OBVIOUS
<1>1. 0 \in Slots /\ 0 \in Nums /\ 0 \in 0 .. Ring - 3 /\ SeqMod - 4 \in Nat
  BY Sizes DEF Slots, Nums
<1>2. base \in Nat
  BY <1>1 DEF Init
<1>3. RingTypes
  BY <1>1, <1>2 DEF Init, RingTypes
<1>4. \A i \in Slots : len[i] = 0
  BY DEF Init
<1>5. QED BY <1>3, <1>4, NoneAgree DEF RingInv, RingTypes

(* A step that leaves the ring alone.                                      *)
LEMMA SameRing ==
  ASSUME RingInv, UNCHANGED <<ringvars, base, clash>>,
         tries' \in 0 .. Ring - 3, past' \in Nat, sent' \in Nat, air' \subseteq Nat
  PROVE  RingInv'
<1>1. UNCHANGED <<seq, len, data, first, is_first>>
  BY DEF ringvars
<1>2. RingTypes'
  BY <1>1 DEF RingInv, RingTypes
<1>3. ~clash' => Agree(first, seq, len, data)'
  BY <1>1 DEF RingInv, Agree, SeqOf
<1>4. QED BY <1>1, <1>2, <1>3 DEF RingInv

(* The steps of rtp_cache.                                                 *)
LEMMA AdvanceRing ==
  ASSUME RingInv, Looking, NEW n \in Nat, Advance(n), is_first \/ Distance(SeqOf(n)) = 0,
         UNCHANGED <<base>>, sent' \in Nat, air' \subseteq Nat
  PROVE  RingInv'
<1>1. /\ first \in Slots /\ base \in Nat /\ seq \in [Slots -> Nums] /\ len \in [Slots -> {0, 1}] /\ data \in [Slots -> Nat]
      /\ 1 \in 0 .. Ring /\ 1 \in 1 .. Ring /\ 0 \in 0 .. Ring - 3
  BY Sizes DEF RingInv, RingTypes
<1>2. Plus(first, 1) \in Slots /\ Plus(first, 0) = first
  BY <1>1, PlusIs, PlusNone
<1>3. SeqOf(n) \in Nums /\ Next16(SeqOf(n)) = (SeqOf(n) + 1) % SeqMod /\ Next16(SeqOf(n)) \in Nums
  BY <1>1, SeqOfIs
<1>4. /\ first' = Plus(first, 1) /\ seq' = [seq EXCEPT ![Plus(first, 1)] = Next16(SeqOf(n))]
      /\ is_first' = FALSE /\ UNCHANGED <<len, data, clash>> /\ tries' = 0 /\ past' = n
  BY DEF Advance, Delivered
<1>5. RingTypes'
  BY <1>1, <1>2, <1>3, <1>4 DEF RingInv, RingTypes
<1>6. ASSUME ~clash PROVE Agree(first', seq', len', data')
  <2>1. CASE is_first
    <3>1. \A i \in Slots : len'[i] = 0
      BY <1>4, <2>1 DEF RingInv
    <3>2. QED BY <1>2, <1>4, <3>1, NoneAgree
  <2>2. CASE ~is_first
    <3>1. SeqOf(n) = seq[first]
      <4>1. seq[first] \in Nums
        BY <1>1
      <4>2. QED BY <1>3, <2>2, <4>1, Sizes DEF Distance, Nums
    <3>2. seq' = [seq EXCEPT ![Plus(first, 1)] = (seq[first] + 1) % SeqMod]
      BY <1>3, <1>4, <3>1
    <3>3. \A e \in 0 .. 1 - 1 : len[Plus(first, e)] = 0
      BY <1>2 DEF Looking
    <3>4. Agree(first, seq, len, data)
      BY <1>6 DEF RingInv
    <3>5. Agree(Plus(first, 1), seq', len, data)
      BY <1>1, <3>2, <3>3, <3>4, MoveOn
    <3>6. QED BY <1>4, <3>5
  <2>3. QED BY <2>1, <2>2
<1>7. Agree(first', seq', len', data') <=> Agree(first, seq, len, data)'
  BY DEF Agree, SeqOf
<1>8. QED BY <1>4, <1>5, <1>6, <1>7 DEF RingInv

LEMMA ResetRing ==
  ASSUME RingInv, NEW n \in Nat, Reset(n), UNCHANGED base, sent' \in Nat, air' \subseteq Nat
  PROVE  RingInv'
<1>1. /\ seq \in [Slots -> Nums] /\ data \in [Slots -> Nat] /\ base \in Nat
      /\ 0 \in Slots /\ 0 \in 0 .. Ring - 3
  BY Sizes DEF RingInv, RingTypes, Slots
<1>2. Next16(SeqOf(n)) \in Nums
  BY <1>1, SeqOfIs
<1>3. /\ first' = 0 /\ seq' = [seq EXCEPT ![0] = Next16(SeqOf(n))]
      /\ len' = [i \in Slots |-> 0] /\ UNCHANGED <<data, is_first, clash>> /\ tries' = 0 /\ past' = n
  BY DEF Reset, Delivered
<1>4. RingTypes'
  BY <1>1, <1>2, <1>3 DEF RingInv, RingTypes
<1>5. \A i \in Slots : len'[i] = 0
  BY <1>3
<1>6. Agree(first, seq, len, data)'
  <2>1. first' \in Slots
    BY <1>1, <1>3
  <2>2. Agree(first', seq', len', data')
    BY <1>5, <2>1, NoneAgree
  <2>3. QED BY <2>2 DEF Agree, SeqOf
<1>7. QED BY <1>4, <1>5, <1>6 DEF RingInv

LEMMA KeepRing ==
  ASSUME RingInv, Looking, NEW n \in Nat, Keep(n), ~is_first, Distance(SeqOf(n)) > 0, ~Overrun(Distance(SeqOf(n))),
         UNCHANGED base, sent' \in Nat, air' \subseteq Nat
  PROVE  RingInv'
<1> DEFINE d == Distance(SeqOf(n))
           j == Slot(n)
<1>1. /\ first \in Slots /\ base \in Nat /\ seq \in [Slots -> Nums] /\ len \in [Slots -> {0, 1}] /\ data \in [Slots -> Nat]
      /\ tries \in 0 .. Ring - 3
  BY DEF RingInv, RingTypes
<1>2. SeqOf(n) \in Nums /\ seq[first] \in Nums
  BY <1>1, SeqOfIs
<1>3. d \in 1 .. Ring /\ d = SeqOf(n) - seq[first] /\ Ring \in Nat /\ SeqMod \in Nat
  BY <1>2, Sizes DEF Distance, Overrun, Nums
<1>4. j = Plus(first, d) /\ j \in Slots
  BY <1>1, <1>3, PlusIs DEF Slot
<1>5. /\ data' = [data EXCEPT ![j] = n] /\ len' = [len EXCEPT ![j] = 1]
      /\ seq' = [seq EXCEPT ![j] = SeqOf(n)] /\ (clash' <=> clash \/ d = Ring)
      /\ tries' = tries + 1 /\ UNCHANGED <<first, is_first, past>>
  BY DEF Keep
<1> HIDE DEF d, j
<1>6. RingTypes'
  <2>1. tries' \in 0 .. Ring - 3
    BY <1>1, <1>3, <1>5 DEF Looking
  <2>2. clash' \in BOOLEAN
    BY DEF Keep, RingInv, RingTypes
  <2>3. QED BY <1>1, <1>2, <1>4, <1>5, <2>1, <2>2 DEF RingInv, RingTypes
<1>7. ASSUME ~clash' PROVE Agree(first', seq', len', data')
  <2>1. d \in Slots /\ d # 0 /\ Agree(first, seq, len, data)
    BY <1>3, <1>5, <1>7 DEF Slots, RingInv
  <2>2. j # first
    <3>1. 0 \in Slots /\ Plus(first, 0) = first
      BY <1>1, <1>3, PlusNone DEF Slots
    <3>2. QED BY <1>1, <1>4, <2>1, <3>1, PlusOnce
  <2>3. seq'[first] = seq[first]
    BY <1>1, <1>5, <2>2
  <2>4. SUFFICES ASSUME NEW e \in Slots, len'[Plus(first, e)] # 0
                 PROVE  /\ seq'[Plus(first, e)] = (seq[first] + e) % SeqMod
                        /\ SeqOf(data'[Plus(first, e)]) = seq'[Plus(first, e)]
    BY <1>5, <2>3 DEF Agree
  <2>5. Plus(first, e) \in Slots
    BY <1>1, PlusIn
  <2>6. CASE e = d
    <3>1. PICK s \in Nums : s = SeqOf(n)
      BY <1>2
    <3>2. s = seq[first] + d /\ s \in Nat /\ s < SeqMod
      BY <1>2, <1>3, <3>1 DEF Nums
    <3>3. s % SeqMod = s
      <4>1. s < 2 * SeqMod
        BY <1>3, <3>2
      <4>2. QED BY <3>2, <4>1, Sizes, ModOnce
    <3>4. QED BY <1>1, <1>4, <1>5, <2>6, <3>1, <3>2, <3>3
  <2>7. CASE e # d
    <3>1. Plus(first, e) # j
      BY <1>1, <1>4, <2>1, <2>7, PlusOnce
    <3>2. QED BY <1>1, <1>5, <2>1, <2>4, <2>5, <3>1 DEF Agree
  <2>8. QED BY <2>6, <2>7
<1>8. Agree(first', seq', len', data') <=> Agree(first, seq, len, data)'
  BY DEF Agree, SeqOf
<1>9. QED BY <1>5, <1>6, <1>7, <1>8 DEF RingInv

(* The first of the ring is taken, and those before it are given up.       *)
LEMMA TakeRing ==
  ASSUME RingInv, NEW d \in Slots, \A e \in 0 .. d - 1 : len[Plus(first, e)] = 0,
         len[Plus(first, d)] # 0 \/ (d = 0 /\ \A i \in Slots : len[i] = 0),
         Take(Plus(first, d)), UNCHANGED <<base, sent, air, clash>>, tries' = 0, past' \in Nat
  PROVE  RingInv'
<1> DEFINE i == Plus(first, d)
           g == Plus(first, d + 1)
<1>1. /\ first \in Slots /\ base \in Nat /\ seq \in [Slots -> Nums] /\ len \in [Slots -> {0, 1}] /\ data \in [Slots -> Nat]
      /\ d + 1 \in 1 .. Ring /\ d + 1 \in 0 .. Ring /\ d \in Nat /\ Ring \in Nat /\ 1 \in 0 .. Ring /\ 0 \in 0 .. Ring - 3
  BY Sizes DEF RingInv, RingTypes, Slots
<1>2. i \in Slots /\ g \in Slots
  BY <1>1, PlusIn, PlusIs
<1>3. Plus(i, 1) = g
  <2>1. /\ Plus(first, d) = IF first + d < Ring THEN first + d ELSE first + d - Ring
        /\ Plus(first, d + 1) = IF first + (d + 1) < Ring THEN first + (d + 1) ELSE first + (d + 1) - Ring
    <3>1. d \in 0 .. Ring
      BY <1>1 DEF Slots
    <3>2. Plus(first, d) = IF first + d < Ring THEN first + d ELSE first + d - Ring
      BY <1>1, <3>1, PlusIs
    <3>3. Plus(first, d + 1) = IF first + (d + 1) < Ring THEN first + (d + 1) ELSE first + (d + 1) - Ring
      BY <1>1, PlusIs
    <3>4. QED BY <3>2, <3>3
  <2>2. Plus(i, 1) = IF i + 1 < Ring THEN i + 1 ELSE i + 1 - Ring
    BY <1>1, <1>2, PlusIs
  <2>3. first \in Nat /\ first < Ring /\ d < Ring
    BY <1>1 DEF Slots
  <2>4. QED BY <1>1, <2>1, <2>2, <2>3
<1> HIDE DEF i, g
<1>4. /\ first' = g /\ len' = [len EXCEPT ![i] = 0] /\ seq' = [seq EXCEPT ![g] = Next16(seq[i])]
      /\ UNCHANGED <<data, is_first>>
  BY <1>3 DEF Take, i
<1>5. seq[i] \in Nums /\ Next16(seq[i]) \in Nums
  BY <1>1, <1>2, NextNum
<1>6. RingTypes'
  BY <1>1, <1>2, <1>4, <1>5 DEF RingInv, RingTypes
<1>7. \A k \in Slots : len'[k] # 0 => len[k] # 0
  BY <1>1, <1>4
<1>8. is_first' => \A k \in Slots : len'[k] = 0
  BY <1>1, <1>4, <1>7 DEF RingInv
<1>9. ASSUME ~clash PROVE Agree(first', seq', len', data')
  <2>1. CASE \A k \in Slots : len[k] = 0
    <3>1. \A k \in Slots : len'[k] = 0
      BY <1>7, <2>1
    <3>2. QED BY <1>2, <1>4, <3>1, NoneAgree
  <2>2. CASE len[i] # 0
    <3>1. Agree(first, seq, len, data)
      BY <1>9 DEF RingInv
    <3>2. seq[i] = (seq[first] + d) % SeqMod
      BY <2>2, <3>1 DEF Agree, i
    <3>3. (((seq[first] + d) % SeqMod) + 1) % SeqMod = (seq[first] + (d + 1)) % SeqMod
      <4>1. seq[first] \in Nums /\ d + 1 < SeqMod
        BY <1>1, Sizes
      <4>2. QED BY <1>1, <4>1, SeqAdd
    <3>4. seq' = [seq EXCEPT ![Plus(first, d + 1)] = (seq[first] + (d + 1)) % SeqMod]
      BY <1>4, <3>2, <3>3 DEF Next16, g
    <3>5. \A e \in 0 .. (d + 1) - 1 : len'[Plus(first, e)] = 0
      <4>1. \A e \in 0 .. (d + 1) - 1 : e \in Slots /\ (e = d \/ e \in 0 .. d - 1)
        BY <1>1 DEF Slots
      <4>2. \A e \in 0 .. (d + 1) - 1 : Plus(first, e) \in Slots
        BY <1>1, <4>1, PlusIn
      <4>3. QED BY <1>1, <1>4, <4>1, <4>2 DEF i
    <3>6. Agree(Plus(first, d + 1), seq', len', data)
      <4> DEFINE k == d + 1
      <4>1. k \in 1 .. Ring /\ seq' = [seq EXCEPT ![Plus(first, k)] = (seq[first] + k) % SeqMod]
            /\ \A e \in 0 .. k - 1 : len'[Plus(first, e)] = 0
        BY <1>1, <3>4, <3>5
      <4> HIDE DEF k
      <4>2. Agree(Plus(first, k), seq', len', data)
        BY <1>1, <1>7, <3>1, <4>1, MoveOn
      <4>3. QED BY <4>2 DEF k
    <3>7. QED BY <1>4, <3>6 DEF g
  <2>3. QED BY <2>1, <2>2 DEF i
<1>10. Agree(first', seq', len', data') <=> Agree(first, seq, len, data)'
  BY DEF Agree, SeqOf
<1>11. QED BY <1>6, <1>8, <1>9, <1>10 DEF RingInv

(* All the steps.                                                          *)
LEMMA RingSteps == RingInv /\ [Next]_vars => RingInv'
<1> SUFFICES ASSUME RingInv, [Next]_vars PROVE RingInv'
  OBVIOUS
<1>1. RingTypes
  BY DEF RingInv
<1>2. CASE Send \/ Lose \/ LoseMany
  <2>1. UNCHANGED <<ringvars, base, clash, tries, past>>
    BY <1>2 DEF Send, Lose, LoseMany
  <2>2. sent' \in Nat /\ air' \subseteq Nat
    <3>1. sent \in Nat /\ air \subseteq Nat /\ Ring \in Nat
      BY <1>1, Sizes DEF RingTypes
    <3>2. CASE Send
      BY <3>1, <3>2 DEF Send
    <3>3. CASE Lose
      BY <3>1, <3>3 DEF Lose
    <3>4. CASE LoseMany
      BY <3>1, <3>4 DEF LoseMany
    <3>5. QED BY <1>2, <3>2, <3>3, <3>4
  <2>3. QED BY <1>1, <2>1, <2>2, SameRing DEF RingTypes
<1>3. CASE Receive
  <2>1. PICK n \in air : Arrives(n) /\ Sort(n)
    BY <1>3 DEF Receive
  <2>2. n \in Nat /\ UNCHANGED <<base, sent>> /\ sent' \in Nat /\ air' \subseteq Nat /\ Looking
    BY <1>1, <1>3, <2>1 DEF RingTypes, Arrives, Receive
  <2>3. CASE (is_first \/ Distance(SeqOf(n)) = 0) /\ Advance(n)
    BY <2>2, <2>3, AdvanceRing
  <2>4. CASE Reset(n)
    BY <2>2, <2>4, ResetRing
  <2>5. CASE Ignore
    <3>1. tries' \in 0 .. Ring - 3 /\ UNCHANGED <<ringvars, past, clash>>
      BY <1>1, <2>2, <2>5, Sizes DEF Ignore, Looking, RingTypes
    <3>2. QED BY <1>1, <2>2, <3>1, SameRing DEF RingTypes
  <2>6. CASE ~is_first /\ Distance(SeqOf(n)) > 0 /\ ~Overrun(Distance(SeqOf(n))) /\ Keep(n)
    BY <2>2, <2>6, KeepRing
  <2>7. QED BY <2>1, <2>3, <2>4, <2>5, <2>6 DEF Sort
<1>4. CASE Junk
  <2>1. tries' \in 0 .. Ring - 3 /\ UNCHANGED <<ringvars, past, clash, base, sent, air>>
    BY <1>1, <1>4, Sizes DEF Junk, Ignore, Looking, RingTypes
  <2>2. QED BY <1>1, <2>1, SameRing DEF RingTypes
<1>5. CASE FromRing
  <2>1. PICK d \in Slots : /\ len[Plus(first, d)] # 0 /\ \A e \in 0 .. d - 1 : len[Plus(first, e)] = 0
                          /\ Take(Plus(first, d)) /\ Delivered(data[Plus(first, d)])
    BY <1>5 DEF FromRing
  <2>2. UNCHANGED <<base, sent, air, clash>> /\ tries' = 0 /\ past' = data[Plus(first, d)]
    BY <1>5, <2>1 DEF FromRing, netvars, Delivered
  <2>3. past' \in Nat
    BY <1>1, <2>2, PlusIn DEF RingTypes
  <2>4. QED BY <2>1, <2>2, <2>3, TakeRing
<1>6. CASE Empty
  <2>1. 0 \in Slots /\ Plus(first, 0) = first
    BY <1>1, PlusNone, Sizes DEF RingTypes, Slots
  <2>2. Take(first) /\ UNCHANGED <<base, sent, air, clash>> /\ tries' = 0 /\ \A i \in Slots : len[i] = 0
    BY <1>6 DEF Empty, netvars
  <2>3. past' \in Nat
    BY <1>1, <1>6 DEF Empty, RingTypes
  <2>4. \A e \in 0 .. 0 - 1 : len[Plus(first, e)] = 0
    OBVIOUS
  <2>5. QED BY <2>1, <2>2, <2>3, <2>4, TakeRing
<1>7. CASE Read \/ UNCHANGED vars
  <2>1. UNCHANGED <<ringvars, tries, past, clash, base, sent, air>>
    BY <1>7 DEF Read, vars, netvars
  <2>2. QED BY <1>1, <2>1, SameRing DEF RingTypes
<1>8. QED BY <1>2, <1>3, <1>4, <1>5, <1>6, <1>7 DEF Next

(* The ring holds what it should, whatever the network does.               *)
THEOREM RingInvariant == Spec => []RingInv
<1>1. QED BY InitRing, RingSteps, PTL DEF Spec

(* A packet waits in the slot that is as far from the first as its number  *)
(* is from the one expected, whatever is lost, late or repeated and        *)
(* however often slots and numbers wrap (rtp_cache, rtp_get_next), until   *)
(* one comes that is as many ahead as there are slots.                     *)
THEOREM SlotsAgreeCorrect == Spec => []SlotsAgree
<1>1. RingInv => SlotsAgree
  <2> SUFFICES ASSUME RingInv PROVE SlotsAgree
    OBVIOUS
  <2>1. TypeOK
    <3>1. \A i \in Slots : seq[i] \in 0 .. SeqMod - 1 /\ len[i] \in {0, 1}
      BY DEF RingInv, RingTypes, Nums
    <3>2. QED BY <3>1 DEF RingInv, RingTypes, TypeOK
  <2>2. QED BY <2>1 DEF RingInv, Agree, SlotsAgree
<1>2. QED BY <1>1, RingInvariant, PTL
-----------------------------------------------------------------------------
(* The stream is short enough for a number to be one packet's, and for a   *)
(* packet of the next round not to be taken for one that is late.          *)
LastNo == Packets + 1
Fits == Packets \in Nat /\ LastNo <= SeqMod - 3 * Ring

(* What lies on a number sent later or sooner.                             *)
LEMMA SeqAt ==
  ASSUME base \in Nat, NEW n \in Nat, NEW k \in Nat
  PROVE  (SeqOf(n) + k) % SeqMod = SeqOf(n + k)
<1>1. PICK x \in Int : x = base + n
  OBVIOUS
<1>2. PICK q \in Int : x = SeqMod * q + (x % SeqMod) /\ x % SeqMod \in Nums
  BY Sizes, ModFacts DEF Nums
<1>3. PICK y \in Int : y = (x % SeqMod) + k
  BY <1>2, Sizes DEF Nums
<1>4. PICK p \in Int : y = SeqMod * p + (y % SeqMod) /\ y % SeqMod \in Nums
  BY Sizes, ModFacts DEF Nums
<1>5. PICK r \in Nums : r = y % SeqMod
  BY <1>4
<1>6. x + k = SeqMod * (q + p) + r
  <2>1. SeqMod \in Nat /\ r \in Int
    BY Sizes, <1>5 DEF Nums
  <2>2. SeqMod * (q + p) = SeqMod * q + SeqMod * p
    BY <2>1
  <2>3. x + k = SeqMod * q + y
    BY <1>2, <1>3, <2>1, Sizes DEF Nums
  <2>4. x + k = SeqMod * q + (SeqMod * p + r)
    BY <1>4, <1>5, <2>3
  <2>5. SeqMod * q \in Int /\ SeqMod * p \in Int
    BY <2>1
  <2>6. QED BY <2>1, <2>2, <2>4, <2>5
<1>7. (SeqMod * (q + p) + r) % SeqMod = r
  <2>1. q + p \in Int
    OBVIOUS
  <2>2. QED BY <2>1, Sizes, ModIs DEF Nums
<1>8. (x + k) % SeqMod = y % SeqMod
  BY <1>5, <1>6, <1>7
<1>9. x + k = base + (n + k)
  BY <1>1
<1>10. QED BY <1>1, <1>3, <1>8, <1>9 DEF SeqOf

(* The numbers of packets less than SeqMod apart.                          *)
LEMMA SeqGap ==
  ASSUME base \in Nat, NEW a \in Nat, NEW b \in Nat, a <= b, b - a < SeqMod
  PROVE  /\ SeqOf(a) \in Nums /\ SeqOf(b) \in Nums
         /\ SeqOf(b) = SeqOf(a) + (b - a) \/ SeqOf(b) = (SeqOf(a) + (b - a)) - SeqMod
<1>1. SeqOf(a) \in Nums /\ SeqOf(b) \in Nums
  BY SeqOfIs
<1>2. PICK s \in Nums : s = SeqOf(a)
  BY <1>1
<1>3. PICK k \in Nat : k = b - a
  OBVIOUS
<1>4. a + k = b
  BY <1>3
<1>5. (s + k) % SeqMod = SeqOf(b)
  BY <1>2, <1>4, SeqAt
<1>6. PICK x \in Nat : x = s + k
  BY Sizes DEF Nums
<1>7. x < 2 * SeqMod
  BY <1>3, <1>6, Sizes DEF Nums
<1>8. x % SeqMod = IF x < SeqMod THEN x ELSE x - SeqMod
  BY <1>7, Sizes, ModOnce
<1>9. PICK t \in Nums : t = SeqOf(b)
  BY <1>1
<1>10. t = IF x < SeqMod THEN x ELSE x - SeqMod
  BY <1>5, <1>6, <1>8, <1>9
<1>11. t = s + k \/ t = (s + k) - SeqMod
  BY <1>6, <1>10
<1>12. QED BY <1>1, <1>2, <1>3, <1>9, <1>11

(* Numbers are the same for the same packet only, in one round.            *)
LEMMA SeqOnce ==
  ASSUME base \in Nat, NEW a \in Nat, NEW b \in Nat, a - b < SeqMod, b - a < SeqMod, SeqOf(a) = SeqOf(b)
  PROVE  a = b
<1>1. ASSUME NEW x \in Nat, NEW y \in Nat, x <= y, y - x < SeqMod, SeqOf(x) = SeqOf(y) PROVE x = y
  <2>1. PICK s \in Nums : s = SeqOf(x)
    BY <1>1, SeqGap
  <2>2. s = s + (y - x) \/ s = (s + (y - x)) - SeqMod
    BY <1>1, <2>1, SeqGap
  <2>3. QED BY <1>1, <2>2, Sizes DEF Nums
<1>2. QED BY <1>1

(* In the first round a packet has its own number.                         *)
LEMMA SeqPlain == ASSUME base = 0, NEW n \in Nat, n < SeqMod PROVE SeqOf(n) = n
<1>1. n < 2 * SeqMod /\ 0 + n = n
  BY Sizes
<1>2. n % SeqMod = n
  BY <1>1, Sizes, ModOnce
<1>3. QED BY <1>1, <1>2 DEF SeqOf

(* The packet m waits in the ring.                                         *)
InRing(m) == \E i \in Slots : len[i] # 0 /\ data[i] = m

(* The slot at the front is numbered for the packet after the last one     *)
(* passed over.                                                            *)
NumInv ==
  /\ is_first => past = 0 /\ early = {}
  /\ ~is_first => past > 0
  /\ ~is_first /\ ~clash => seq[first] = SeqOf(past + 1)

(* What is under way, or waits, was sent.                                  *)
AirInv ==
  /\ calm \in BOOLEAN /\ air \subseteq 1 .. LastNo /\ \A k \in air : k <= sent
  /\ ~calm => base = 0
  /\ \A i \in Slots : len[i] # 0 => data[i] \in 1 .. LastNo

(* Those that came before their turn wait for it.                          *)
EarlyInv == ~clash => \A m \in early : m > past /\ InRing(m)

(* A number that was sent, and is behind those still to come.              *)
Gone(m) == m <= sent /\ \A k \in air : m < k

(* Where order is kept, all that was seen is behind what is still to come: *)
(* the packets passed over and those that wait, and each number left in a  *)
(* slot, so that no packet to come can be taken for one that was there     *)
(* before. A call that read datagrams in vain has read one beyond the      *)
(* packet it expects.                                                      *)
CalmInv == calm /\ ~clash =>
  /\ past <= LastNo /\ Gone(past)
  /\ \A i \in Slots : len[i] # 0 => Gone(data[i])
  /\ \A i \in Slots : seq[i] = 0 \/ \E m \in 1 .. LastNo + 1 : seq[i] = SeqOf(m) /\ (m <= past + 1 \/ Gone(m))
  /\ is_first => tries = 0
  /\ tries > 0 /\ (\A i \in Slots : len[i] = 0) => \E m \in 1 .. LastNo : past + 1 < m /\ Gone(m)

(* What is proved to be inductive.                                         *)
DropInv == RingInv /\ NumInv /\ AirInv /\ EarlyInv /\ CalmInv

(* While it matters, the packet that waits d slots on is the d-th behind   *)
(* the one expected.                                                       *)
LEMMA WaitsAt ==
  ASSUME Fits, DropInv, ~clash, past <= LastNo, NEW d \in Slots, len[Plus(first, d)] # 0
  PROVE  /\ ~is_first /\ data[Plus(first, d)] = past + 1 + d /\ past + 1 + d <= LastNo
<1>1. /\ first \in Slots /\ base \in Nat /\ past \in Nat /\ d \in Nat /\ d < Ring /\ Plus(first, d) \in Slots
      /\ Packets \in Nat /\ LastNo \in Nat /\ LastNo <= SeqMod - 3 * Ring
  BY PlusIn, Sizes DEF DropInv, RingInv, RingTypes, Slots, Fits, LastNo
<1>2. ~is_first
  BY <1>1 DEF DropInv, RingInv
<1>3. PICK n \in 1 .. LastNo : n = data[Plus(first, d)]
  BY <1>1 DEF DropInv, AirInv
<1>4. SeqOf(n) = (seq[first] + d) % SeqMod /\ seq[first] = SeqOf(past + 1)
  BY <1>2, <1>3 DEF DropInv, RingInv, Agree, NumInv
<1>5. PICK m \in Nat : m = past + 1 + d
  BY <1>1
<1>6. SeqOf(n) = SeqOf(m)
  <2>1. past + 1 \in Nat /\ (past + 1) + d = m
    BY <1>1, <1>5
  <2>2. (SeqOf(past + 1) + d) % SeqMod = SeqOf((past + 1) + d)
    BY <1>1, <2>1, SeqAt
  <2>3. QED BY <1>4, <2>1, <2>2
<1>7. n \in Nat /\ n - m < SeqMod /\ m - n < SeqMod
  BY <1>1, <1>3, <1>5, Sizes
<1>8. n = m
  BY <1>1, <1>6, <1>7, SeqOnce
<1>9. QED BY <1>2, <1>3, <1>5, <1>8

(* Who is early is so.                                                     *)
LEMMA EarlyIs ==
  ASSUME Fits, DropInv, ~clash, NEW m \in early
  PROVE  /\ m \in Nat /\ past < m /\ m <= LastNo /\ ~is_first
         /\ \E d \in Slots : len[Plus(first, d)] # 0 /\ data[Plus(first, d)] = m /\ m = past + 1 + d
<1>1. m > past /\ past \in Nat /\ first \in Slots
  BY DEF DropInv, EarlyInv, RingInv, RingTypes
<1>2. PICK d \in Slots : len[Plus(first, d)] # 0 /\ data[Plus(first, d)] = m
  <2>1. PICK i \in Slots : len[i] # 0 /\ data[i] = m
    BY DEF DropInv, EarlyInv, InRing
  <2>2. \E d \in Slots : Plus(first, d) = i
    BY <1>1, EverySlot
  <2>3. QED BY <2>1, <2>2
<1>3. m \in 1 .. LastNo
  BY <1>2, <1>1, PlusIn DEF DropInv, AirInv
<1>4. LastNo \in Nat
  BY DEF Fits, LastNo
<1>5. past <= LastNo
  BY <1>1, <1>3, <1>4
<1>6. QED BY <1>2, <1>1, <1>3, <1>4, <1>5, WaitsAt

(* What is in them all, to cite in one word.                               *)
LEMMA DropTypes ==
  ASSUME Fits, DropInv
  PROVE  /\ first \in Slots /\ base \in Nat /\ past \in Nat /\ sent \in Nat /\ air \subseteq 1 .. LastNo /\ tries \in Nat
         /\ seq \in [Slots -> Nums] /\ len \in [Slots -> {0, 1}] /\ data \in [Slots -> Nat]
         /\ is_first \in BOOLEAN /\ clash \in BOOLEAN /\ calm \in BOOLEAN
         /\ LastNo \in Nat /\ LastNo <= SeqMod - 3 * Ring /\ LastNo < SeqMod /\ Packets \in Nat
         /\ SeqMod \in Nat /\ Ring \in Nat
<1>1. LastNo \in Nat /\ LastNo <= SeqMod - 3 * Ring /\ Packets \in Nat
  BY DEF Fits, LastNo
<1>2. LastNo < SeqMod
  BY <1>1, Sizes
<1>3. QED BY <1>1, <1>2, Sizes DEF DropInv, RingInv, RingTypes, AirInv

(* The invariant holds at the start.                                       *)
LEMMA InitDrop == Fits /\ Init => DropInv
<1> SUFFICES ASSUME Fits, Init PROVE DropInv
  OBVIOUS
<1>1. RingInv
  BY InitRing
<1>2. NumInv
  BY DEF Init, NumInv
<1>3. AirInv
  BY DEF Init, AirInv
<1>4. EarlyInv
  BY DEF Init, EarlyInv
<1>5. CalmInv
  <2>1. LastNo \in Nat
    BY DEF Fits, LastNo
  <2>2. Gone(0)
    BY DEF Init, Gone
  <2>3. QED BY <2>1, <2>2 DEF Init, CalmInv
<1>6. QED BY <1>1, <1>2, <1>3, <1>4, <1>5 DEF DropInv

(* What was sent stays so, and is behind what is sent now.                 *)
LEMMA GoneStays ==
  ASSUME Fits, DropInv, NEW m \in Nat, Gone(m),
         \/ sent' = sent + 1 /\ air' = air \cup {sent'}
         \/ sent' \in Nat /\ sent' >= sent /\ air' \subseteq air
  PROVE  Gone(m)'
<1>1. sent \in Nat /\ air \subseteq Nat
  BY DropTypes
<1>2. CASE sent' = sent + 1 /\ air' = air \cup {sent'}
  BY <1>1, <1>2 DEF Gone
<1>3. CASE sent' \in Nat /\ sent' >= sent /\ air' \subseteq air
  BY <1>1, <1>3 DEF Gone
<1>4. QED BY <1>2, <1>3

(* The network's steps, and those that read nothing.                       *)
LEMMA SameDrop ==
  ASSUME Fits, DropInv, RingInv', UNCHANGED <<ringvars, calm, base, past, early, clash>>,
         tries' = tries \/ ~calm,
         \/ sent \in 0 .. Packets /\ sent' = sent + 1 /\ air' = air \cup {sent'}
         \/ sent' \in Nat /\ sent' >= sent /\ air' \subseteq air
  PROVE  DropInv'
<1>1. UNCHANGED <<seq, len, data, first, is_first>>
  BY DEF ringvars
<1>2. NumInv'
  BY <1>1 DEF DropInv, NumInv, SeqOf
<1>3. AirInv'
  <2>1. /\ air \subseteq 1 .. LastNo /\ sent \in Nat /\ Packets \in Nat /\ LastNo = Packets + 1
        /\ \A k \in air : k <= sent
    BY DropTypes DEF DropInv, AirInv, LastNo
  <2>2. air' \subseteq 1 .. LastNo /\ \A k \in air' : k <= sent'
    <3>1. CASE sent \in 0 .. Packets /\ sent' = sent + 1 /\ air' = air \cup {sent'}
      BY <2>1, <3>1
    <3>2. CASE sent' \in Nat /\ sent' >= sent /\ air' \subseteq air
      BY <2>1, <3>2
    <3>3. QED BY <3>1, <3>2
  <2>3. LastNo' = LastNo
    BY DEF LastNo
  <2>4. QED BY <1>1, <2>2, <2>3 DEF DropInv, AirInv
<1>4. EarlyInv'
  BY <1>1 DEF DropInv, EarlyInv, InRing
<1>5. CalmInv'
  <2> SUFFICES ASSUME calm, ~clash PROVE CalmInv'
    BY DEF CalmInv
  <2>1. \A m \in Nat : Gone(m) => Gone(m)'
    BY GoneStays
  <2>2. past \in Nat /\ data \in [Slots -> Nat] /\ LastNo \in Nat /\ tries' = tries
    BY DropTypes
  <2>3. past <= LastNo /\ Gone(past)'
    BY <2>1, <2>2 DEF DropInv, CalmInv
  <2>4. \A i \in Slots : len[i] # 0 => Gone(data[i])'
    BY <1>1, <2>1, <2>2 DEF DropInv, CalmInv
  <2>5. \A i \in Slots : seq[i] = 0 \/ \E m \in 1 .. LastNo + 1 : seq[i] = SeqOf(m) /\ (m <= past + 1 \/ Gone(m)')
    <3>1. \A m \in 1 .. LastNo + 1 : m \in Nat
      BY <2>2
    <3>2. QED BY <2>1, <3>1 DEF DropInv, CalmInv
  <2>6. tries > 0 /\ (\A i \in Slots : len[i] = 0) => \E m \in 1 .. LastNo : past + 1 < m /\ Gone(m)'
    <3>1. \A m \in 1 .. LastNo : m \in Nat
      BY <2>2
    <3>2. QED BY <2>1, <3>1 DEF DropInv, CalmInv
  <2>7. is_first => tries = 0
    BY DEF DropInv, CalmInv
  <2>8. Gone(past)' <=> (past <= sent' /\ \A k \in air' : past < k)
    BY DEF Gone
  <2>9. QED BY <1>1, <2>2, <2>3, <2>4, <2>5, <2>6, <2>7 DEF CalmInv, Gone, LastNo, SeqOf
<1>6. QED BY <1>2, <1>3, <1>4, <1>5 DEF DropInv

(* A packet that is received, where order is kept: all before it is gone.  *)
LEMMA Received ==
  ASSUME Fits, DropInv, NEW n \in air, Arrives(n)
  PROVE  /\ n \in 1 .. LastNo /\ n \in Nat /\ n <= sent
         /\ UNCHANGED <<calm, base, sent>> /\ air' \subseteq air
         /\ \A m \in Nat : Gone(m) => Gone(m)' /\ m < n
         /\ calm => Gone(n)'
<1>1. n \in 1 .. LastNo /\ sent \in Nat /\ air \subseteq Nat /\ LastNo \in Nat /\ n <= sent
  BY DropTypes DEF DropInv, AirInv
<1>2. UNCHANGED <<calm, base, sent>> /\ air' \subseteq air
  BY DEF Arrives
<1>3. \A m \in Nat : Gone(m) => Gone(m)' /\ m < n
  BY <1>1, <1>2 DEF Gone
<1>4. ASSUME calm PROVE Gone(n)'
  <2>1. air' = air \ {n} /\ \A k \in air : n <= k
    BY <1>4 DEF Arrives
  <2>2. QED BY <1>1, <1>2, <2>1 DEF Gone
<1>5. QED BY <1>1, <1>2, <1>3, <1>4

(* Where one was delivered: the ring expects the next.                     *)
LEMMA DeliveredNum ==
  ASSUME Fits, DropInv, NEW n \in 1 .. LastNo, past' = n, UNCHANGED base, ~is_first',
         seq'[first'] = Next16(SeqOf(n))
  PROVE  NumInv' /\ seq'[first'] = SeqOf(n + 1)
<1>1. n \in Nat /\ base \in Nat /\ 1 \in Nat
  BY DropTypes
<1>2. Next16(SeqOf(n)) = SeqOf(n + 1)
  BY <1>1, SeqAt DEF Next16
<1>3. SeqOf(past + 1)' = SeqOf(n + 1)
  BY DEF SeqOf
<1>4. QED BY <1>1, <1>2, <1>3 DEF NumInv

(* What the deliveries have in common, for each part of the invariant.     *)
LEMMA DeliveredAir ==
  ASSUME Fits, DropInv, air' \subseteq air, UNCHANGED <<calm, base, sent, data>>,
         \A i \in Slots : len'[i] # 0 => len[i] # 0
  PROVE  AirInv'
<1>1. LastNo' = LastNo
  BY DEF LastNo
<1>2. QED BY <1>1 DEF DropInv, AirInv

(* Where order is kept, what is delivered is behind what is to come.       *)
LEMMA DeliveredCalm ==
  ASSUME Fits, DropInv, NEW n \in 1 .. LastNo, past' = n, tries' = 0, UNCHANGED <<calm, base, data>>,
         ~is_first', clash' = clash, calm => Gone(n)', calm /\ ~clash => past <= n,
         \A m \in Nat : Gone(m) => Gone(m)', first' \in Slots,
         \A i \in Slots : len'[i] # 0 => len[i] # 0,
         \A i \in Slots : seq'[i] = seq[i] \/ seq'[i] = SeqOf(n + 1)
  PROVE  CalmInv'
<1> SUFFICES ASSUME calm, ~clash PROVE CalmInv'
  BY DEF CalmInv
<1>1. n \in Nat /\ LastNo \in Nat /\ past \in Nat /\ data \in [Slots -> Nat] /\ n <= LastNo
  BY DropTypes
<1>2. \A i \in Slots : len'[i] # 0 => Gone(data[i])'
  BY <1>1 DEF DropInv, CalmInv
<1>3. \A i \in Slots : seq'[i] = 0 \/ \E m \in 1 .. LastNo + 1 : seq'[i] = SeqOf(m) /\ (m <= n + 1 \/ Gone(m)')
  <2> SUFFICES ASSUME NEW i \in Slots, seq'[i] # 0
               PROVE  \E m \in 1 .. LastNo + 1 : seq'[i] = SeqOf(m) /\ (m <= n + 1 \/ Gone(m)')
    OBVIOUS
  <2>1. CASE seq'[i] = SeqOf(n + 1)
    <3>1. n + 1 \in 1 .. LastNo + 1 /\ n + 1 <= n + 1
      BY <1>1
    <3>2. QED BY <2>1, <3>1
  <2>2. CASE seq'[i] = seq[i]
    <3>1. PICK m \in 1 .. LastNo + 1 : seq[i] = SeqOf(m) /\ (m <= past + 1 \/ Gone(m))
      BY <2>2 DEF DropInv, CalmInv
    <3>2. m \in Nat
      BY <1>1
    <3>3. m <= n + 1 \/ Gone(m)'
      <4>1. CASE m <= past + 1
        BY <1>1, <3>2, <4>1
      <4>2. CASE Gone(m)
        BY <3>2, <4>2
      <4>3. QED BY <3>1, <4>1, <4>2
    <3>4. QED BY <2>2, <3>1, <3>3
  <2>3. QED BY <2>1, <2>2
<1>4. QED BY <1>1, <1>2, <1>3 DEF CalmInv, Gone, LastNo, SeqOf

(* The number of the packet expected.                                      *)
LEMMA Expected ==
  ASSUME Fits, DropInv, ~is_first, ~clash, NEW n \in 1 .. LastNo, past < n
  PROVE  /\ past \in Nat /\ past > 0 /\ seq[first] = SeqOf(past + 1)
         /\ \/ Distance(SeqOf(n)) = n - (past + 1)
            \/ /\ Distance(SeqOf(n)) = (n - (past + 1)) - SeqMod /\ Distance(SeqOf(n)) <= -(3 * Ring)
               /\ calm
<1>1. /\ past \in Nat /\ base \in Nat /\ n \in Nat /\ past > 0 /\ seq[first] = SeqOf(past + 1)
      /\ LastNo \in Nat /\ LastNo <= SeqMod - 3 * Ring /\ LastNo < SeqMod /\ calm \in BOOLEAN /\ SeqMod \in Nat /\ Ring \in Nat
  BY DropTypes DEF DropInv, NumInv
<1>2. PICK e \in Nat : e = past + 1
  BY <1>1
<1>3. e <= n /\ n - e < SeqMod /\ e > 1 /\ e <= LastNo
  BY <1>1, <1>2
<1>4. PICK s \in Nums, t \in Nums :
        s = SeqOf(e) /\ t = SeqOf(n) /\ (t = s + (n - e) \/ t = (s + (n - e)) - SeqMod)
  BY <1>1, <1>3, SeqGap
<1>5. Distance(SeqOf(n)) = t - s
  BY <1>1, <1>2, <1>4 DEF Distance
<1>6. s \in Nat /\ t \in Nat /\ SeqMod \in Nat /\ Ring \in Nat
  BY Sizes, <1>4 DEF Nums
<1>7. CASE t = s + (n - e)
  BY <1>1, <1>2, <1>5, <1>6, <1>7
<1>8. CASE t = (s + (n - e)) - SeqMod
  <2>1. t - s = (n - (past + 1)) - SeqMod /\ t - s <= -(3 * Ring)
    BY <1>1, <1>2, <1>3, <1>6, <1>8
  <2>2. calm
    <3>1. SUFFICES ASSUME ~calm PROVE FALSE
      OBVIOUS
    <3>2. base = 0 /\ e < SeqMod /\ n < SeqMod
      BY <1>1, <1>3, <3>1 DEF DropInv, AirInv
    <3>3. s = e /\ t = n
      BY <1>1, <1>4, <3>2, SeqPlain
    <3>4. QED BY <1>3, <1>6, <2>1, <1>2, <3>3, Sizes
  <2>3. QED BY <1>1, <1>5, <2>1, <2>2
<1>9. QED BY <1>4, <1>7, <1>8

(* The packet expected is delivered: those that wait come after it.        *)
LEMMA AdvanceDrop ==
  ASSUME Fits, DropInv, RingInv', Looking, NEW n \in air, Arrives(n), Advance(n),
         is_first \/ Distance(SeqOf(n)) = 0
  PROVE  DropInv'
<1>1. /\ first \in Slots /\ base \in Nat /\ past \in Nat /\ seq \in [Slots -> Nums] /\ LastNo \in Nat
      /\ LastNo <= SeqMod - 3 * Ring /\ LastNo < SeqMod /\ SeqMod \in Nat /\ Ring \in Nat
  BY DropTypes
<1>2. /\ n \in 1 .. LastNo /\ n \in Nat /\ UNCHANGED <<calm, base, sent>> /\ air' \subseteq air
      /\ \A m \in Nat : Gone(m) => Gone(m)' /\ m < n
      /\ calm => Gone(n)'
  BY Received
<1>3. /\ first' = Plus(first, 1) /\ seq' = [seq EXCEPT ![Plus(first, 1)] = Next16(SeqOf(n))]
      /\ ~is_first' /\ UNCHANGED <<len, data, clash>> /\ tries' = 0 /\ past' = n
      /\ early' = IF Jump(n) THEN {} ELSE early \ {n}
  BY DEF Advance, Delivered
<1>4. Plus(first, 1) \in Slots /\ first' \in Slots
  BY <1>1, <1>3, PlusIs, Sizes
<1>5. NumInv' /\ seq'[first'] = SeqOf(n + 1)
  BY <1>1, <1>2, <1>3, <1>4, DeliveredNum
<1>6. AirInv'
  BY <1>2, <1>3, DeliveredAir
<1>7. CalmInv'
  <2>1. calm /\ ~clash => past <= n
    BY <1>1, <1>2 DEF DropInv, CalmInv
  <2>2. \A i \in Slots : seq'[i] = seq[i] \/ seq'[i] = SeqOf(n + 1)
    BY <1>1, <1>3, <1>4, <1>5
  <2>3. QED BY <1>2, <1>3, <1>4, <2>1, <2>2, DeliveredCalm
<1>8. EarlyInv'
  <2> SUFFICES ASSUME ~clash, NEW m \in early, m # n PROVE m > n /\ InRing(m)'
    BY <1>3 DEF EarlyInv
  <2>1. m \in Nat /\ past < m /\ m <= LastNo /\ ~is_first
    BY EarlyIs
  <2>2. n = past + 1
    <3>1. seq[first] = SeqOf(past + 1) /\ Distance(SeqOf(n)) = 0
      BY <2>1 DEF DropInv, NumInv
    <3>2. SeqOf(n) \in Nums /\ seq[first] \in Nums
      BY <1>1, <1>2, SeqOfIs
    <3>3. SeqOf(n) = SeqOf(past + 1)
      BY <3>1, <3>2, Sizes DEF Distance, Nums
    <3>4. PICK e \in Nat : e = past + 1
      BY <1>1
    <3>5. n - e < SeqMod /\ e - n < SeqMod
      BY <1>1, <1>2, <2>1, <3>4
    <3>6. QED BY <1>1, <1>2, <3>3, <3>4, <3>5, SeqOnce
  <2>3. InRing(m)
    BY DEF DropInv, EarlyInv
  <2>4. QED BY <1>1, <1>2, <1>3, <2>1, <2>2, <2>3 DEF InRing
<1>9. QED BY <1>5, <1>6, <1>7, <1>8 DEF DropInv

(* The ring is emptied only for a jump in the numbers.                     *)
LEMMA ResetDrop ==
  ASSUME Fits, DropInv, RingInv', NEW n \in air, Arrives(n), Reset(n), ~is_first,
         \/ Overrun(Distance(SeqOf(n)))
         \/ Distance(SeqOf(n)) <= -(3 * Ring)
  PROVE  DropInv'
<1>1. /\ first \in Slots /\ base \in Nat /\ past \in Nat /\ seq \in [Slots -> Nums] /\ LastNo \in Nat
      /\ LastNo <= SeqMod - 3 * Ring /\ LastNo < SeqMod /\ calm \in BOOLEAN /\ SeqMod \in Nat /\ Ring \in Nat
  BY DropTypes
<1>2. /\ n \in 1 .. LastNo /\ n \in Nat /\ UNCHANGED <<calm, base, sent>> /\ air' \subseteq air
      /\ \A m \in Nat : Gone(m) => Gone(m)' /\ m < n
      /\ calm => Gone(n)'
  BY Received
<1>3. /\ first' = 0 /\ seq' = [seq EXCEPT ![0] = Next16(SeqOf(n))]
      /\ len' = [i \in Slots |-> 0] /\ UNCHANGED <<data, is_first, clash>> /\ tries' = 0 /\ past' = n
      /\ early' = IF Jump(n) THEN {} ELSE early \ {n}
  BY DEF Reset, Delivered
<1>4. 0 \in Slots /\ first' \in Slots
  BY <1>3, Sizes DEF Slots
<1>5. NumInv' /\ seq'[first'] = SeqOf(n + 1)
  BY <1>1, <1>2, <1>3, <1>4, DeliveredNum
<1>6. AirInv'
  BY <1>2, <1>3, DeliveredAir
<1>7. CalmInv'
  <2>1. calm /\ ~clash => past <= n
    BY <1>1, <1>2 DEF DropInv, CalmInv
  <2>2. \A i \in Slots : seq'[i] = seq[i] \/ seq'[i] = SeqOf(n + 1)
    BY <1>1, <1>3, <1>4, <1>5
  <2>3. QED BY <1>2, <1>3, <1>4, <2>1, <2>2, DeliveredCalm
<1>8. EarlyInv'
  <2> SUFFICES ASSUME ~clash, NEW m \in early PROVE Jump(n)
    BY <1>3 DEF EarlyInv
  <2>1. m \in Nat /\ past < m /\ m <= LastNo
    BY EarlyIs
  <2>2. past > 0 /\ seq[first] = SeqOf(past + 1) /\ Ring \in Nat /\ Ring > 3 /\ SeqMod \in Nat
    BY <1>1, Sizes DEF DropInv, NumInv
  <2>3. CASE past < n
    <3>1. \/ Distance(SeqOf(n)) = n - (past + 1)
          \/ Distance(SeqOf(n)) = (n - (past + 1)) - SeqMod /\ Distance(SeqOf(n)) <= -(3 * Ring)
      BY <1>2, <2>3, Expected
    <3>2. CASE Distance(SeqOf(n)) = n - (past + 1)
      BY <1>1, <1>2, <2>2, <2>3, <3>2 DEF Overrun, Jump
    <3>3. CASE Distance(SeqOf(n)) = (n - (past + 1)) - SeqMod /\ Distance(SeqOf(n)) <= -(3 * Ring)
      <4>1. PICK s \in Nums, t \in Nums :
              s = SeqOf(past) /\ t = SeqOf(past + 1) /\ (t = s + 1 \/ t = (s + 1) - SeqMod)
        <5>1. past + 1 \in Nat /\ (past + 1) - past = 1 /\ past <= past + 1 /\ 1 < SeqMod
          BY <1>1, <2>2, Sizes
        <5>2. QED BY <1>1, <5>1, SeqGap
      <4>2. PICK u \in Nums : u = SeqOf(n)
        BY <1>1, <1>2, SeqOfIs
      <4>3. u - t <= -(3 * Ring)
        BY <2>2, <3>3, <4>1, <4>2 DEF Distance
      <4>4. u < s
        BY <2>2, <4>1, <4>2, <4>3 DEF Nums
      <4>5. QED BY <2>2, <4>1, <4>2, <4>4 DEF Jump
    <3>4. QED BY <3>1, <3>2, <3>3
  <2>4. CASE n <= past
    <3>1. ~calm
      BY <1>1, <1>2, <2>4 DEF DropInv, CalmInv
    <3>2. base = 0 /\ n < SeqMod /\ past < SeqMod /\ past + 1 < SeqMod /\ past + 1 \in Nat
      BY <1>1, <1>2, <2>1, <2>4, <3>1 DEF DropInv, AirInv
    <3>3. SeqOf(n) = n /\ SeqOf(past) = past /\ SeqOf(past + 1) = past + 1
      BY <1>1, <1>2, <3>2, SeqPlain
    <3>4. n - (past + 1) > Ring \/ n - (past + 1) <= -(3 * Ring)
      BY <2>2, <3>3 DEF Distance, Overrun
    <3>5. n < past
      BY <1>1, <1>2, <2>2, <2>4, <3>4
    <3>6. QED BY <2>2, <3>3, <3>5 DEF Jump
  <2>5. QED BY <1>1, <1>2, <2>3, <2>4
<1>9. QED BY <1>5, <1>6, <1>7, <1>8 DEF DropInv

(* A packet is put into a slot that is empty, or was its own.              *)
LEMMA KeepDrop ==
  ASSUME Fits, DropInv, RingInv', NEW n \in air, Arrives(n), Keep(n), ~is_first,
         Distance(SeqOf(n)) > 0, ~Overrun(Distance(SeqOf(n))),
         early' = IF n > past /\ SeqOf(n) # 0 THEN early \cup {n} ELSE early
  PROVE  DropInv'
<1> DEFINE d == Distance(SeqOf(n))
           j == Slot(n)
<1>1. /\ first \in Slots /\ base \in Nat /\ past \in Nat /\ seq \in [Slots -> Nums] /\ len \in [Slots -> {0, 1}]
      /\ data \in [Slots -> Nat] /\ tries \in Nat
      /\ LastNo \in Nat /\ LastNo <= SeqMod - 3 * Ring /\ LastNo < SeqMod /\ SeqMod \in Nat /\ Ring \in Nat
  BY DropTypes
<1>2. /\ n \in 1 .. LastNo /\ n \in Nat /\ UNCHANGED <<calm, base, sent>> /\ air' \subseteq air
      /\ \A m \in Nat : Gone(m) => Gone(m)' /\ m < n
      /\ calm => Gone(n)'
  BY Received
<1>3. SeqOf(n) \in Nums /\ seq[first] \in Nums
  BY <1>1, <1>2, SeqOfIs
<1>4. d \in 1 .. Ring /\ SeqOf(n) = seq[first] + d
  BY <1>1, <1>3 DEF Distance, Overrun, Nums
<1>5. j = Plus(first, d) /\ j \in Slots
  BY <1>1, <1>4, PlusIs DEF Slot
<1>6. /\ data' = [data EXCEPT ![j] = n] /\ len' = [len EXCEPT ![j] = 1]
      /\ seq' = [seq EXCEPT ![j] = SeqOf(n)] /\ (clash' <=> clash \/ d = Ring)
      /\ tries' = tries + 1 /\ UNCHANGED <<first, is_first, past>>
  BY DEF Keep
<1> HIDE DEF d, j
<1>7. NumInv'
  <2>1. past > 0
    BY DEF DropInv, NumInv
  <2>2. ASSUME ~clash' PROVE seq'[first] = SeqOf(past + 1)
    <3>1. d \in Slots /\ d # 0
      BY <1>1, <1>4, <1>6, <2>2 DEF Slots
    <3>2. j # first
      <4>1. 0 \in Slots /\ Plus(first, 0) = first
        BY <1>1, PlusNone, Sizes DEF Slots
      <4>2. QED BY <1>1, <1>5, <3>1, <4>1, PlusOnce
    <3>3. QED BY <1>1, <1>6, <2>2, <3>2 DEF DropInv, NumInv
  <2>3. SeqOf(past + 1)' = SeqOf(past + 1)
    BY <1>2, <1>6 DEF SeqOf
  <2>4. QED BY <1>6, <2>1, <2>2, <2>3 DEF NumInv
<1>8. AirInv'
  <2>1. LastNo' = LastNo
    BY DEF LastNo
  <2>2. \A i \in Slots : len'[i] # 0 => data'[i] \in 1 .. LastNo
    BY <1>1, <1>2, <1>6 DEF DropInv, AirInv
  <2>3. QED BY <1>2, <2>1, <2>2 DEF DropInv, AirInv
<1>9. EarlyInv'
  <2> SUFFICES ASSUME ~clash', NEW m \in early' PROVE m > past /\ InRing(m)'
    BY <1>6 DEF EarlyInv
  <2>1. j \in Slots /\ len'[j] # 0 /\ data'[j] = n
    BY <1>1, <1>5, <1>6
  <2>2. CASE m \in early
    <3>1. ~clash
      BY <1>6
    <3>2. m \in Nat /\ past < m /\ m <= LastNo /\ InRing(m)
      BY <2>2, <3>1, EarlyIs DEF DropInv, EarlyInv
    <3>3. PICK i \in Slots : len[i] # 0 /\ data[i] = m
      BY <3>2 DEF InRing
    <3>4. CASE i = j
      <4>1. d \in Slots /\ ~clash
        BY <1>1, <1>4, <1>6 DEF Slots
      <4>2. SeqOf(m) = (seq[first] + d) % SeqMod
        BY <1>5, <3>3, <3>4, <4>1 DEF DropInv, RingInv, Agree
      <4>3. PICK t \in Nat : t = SeqOf(n) /\ t < SeqMod
        BY <1>1, <1>3 DEF Nums
      <4>4. t % SeqMod = t
        <5>1. t < 2 * SeqMod
          BY <1>1, <4>3
        <5>2. QED BY <4>3, <5>1, Sizes, ModOnce
      <4>5. SeqOf(m) = SeqOf(n)
        BY <1>4, <4>2, <4>3, <4>4
      <4>6. m - n < SeqMod /\ n - m < SeqMod
        BY <1>1, <1>2, <3>2
      <4>7. m = n
        BY <1>1, <1>2, <3>2, <4>5, <4>6, SeqOnce
      <4>8. QED BY <2>1, <3>2, <4>7 DEF InRing
    <3>5. CASE i # j
      <4>1. len'[i] # 0 /\ data'[i] = m
        BY <1>1, <1>6, <3>3, <3>5
      <4>2. QED BY <3>2, <4>1 DEF InRing
    <3>6. QED BY <3>4, <3>5
  <2>3. CASE m = n /\ n > past
    BY <2>1, <2>3 DEF InRing
  <2>4. QED BY <2>2, <2>3
<1>10. CalmInv'
  <2> SUFFICES ASSUME calm, ~clash PROVE CalmInv'
    BY <1>2, <1>6 DEF CalmInv
  <2>1. past <= LastNo /\ Gone(past)' /\ Gone(n)'
    BY <1>1, <1>2, <1>6 DEF DropInv, CalmInv
  <2>2. \A i \in Slots : len'[i] # 0 => Gone(data[i])'
    <3> SUFFICES ASSUME NEW i \in Slots, len'[i] # 0 PROVE Gone(data[i])'
      OBVIOUS
    <3>1. PICK m \in Nat : m = data'[i] /\ (m = n \/ (len[i] # 0 /\ data[i] = m))
      BY <1>1, <1>2, <1>6
    <3>2. Gone(m)'
      BY <1>2, <2>1, <3>1 DEF DropInv, CalmInv
    <3>3. QED BY <3>1, <3>2
  <2>3. \A i \in Slots : seq'[i] = 0 \/ \E m \in 1 .. LastNo + 1 : seq'[i] = SeqOf(m) /\ (m <= past + 1 \/ Gone(m)')
    <3> SUFFICES ASSUME NEW i \in Slots, seq'[i] # 0
                 PROVE  \E m \in 1 .. LastNo + 1 : seq'[i] = SeqOf(m) /\ (m <= past + 1 \/ Gone(m)')
      OBVIOUS
    <3>1. CASE i = j
      <4>1. seq'[i] = SeqOf(n) /\ n \in 1 .. LastNo + 1
        BY <1>1, <1>2, <1>6, <3>1
      <4>2. QED BY <2>1, <4>1
    <3>2. CASE i # j
      <4>1. seq'[i] = seq[i]
        BY <1>1, <1>6, <3>2
      <4>2. PICK m \in 1 .. LastNo + 1 : seq[i] = SeqOf(m) /\ (m <= past + 1 \/ Gone(m))
        BY <4>1 DEF DropInv, CalmInv
      <4>3. m \in Nat
        BY <1>1
      <4>4. QED BY <1>2, <4>1, <4>2, <4>3
    <3>3. QED BY <3>1, <3>2
  <2>4. \E i \in Slots : len'[i] # 0
    BY <1>1, <1>5, <1>6
  <2>5. QED BY <1>1, <1>2, <1>6, <2>1, <2>2, <2>3, <2>4 DEF CalmInv, Gone, LastNo, SeqOf
<1>11. QED BY <1>7, <1>8, <1>9, <1>10 DEF DropInv

(* A packet that is ignored had its turn.                                  *)
LEMMA IgnoreDrop ==
  ASSUME Fits, DropInv, RingInv', NEW n \in air, Arrives(n), Ignore, ~is_first,
         Distance(SeqOf(n)) < 0, Stray(n) \/ Distance(SeqOf(n)) > -(3 * Ring),
         early' = IF n > past /\ SeqOf(n) # 0 THEN early \cup {n} ELSE early
  PROVE  DropInv'
<1>1. /\ first \in Slots /\ base \in Nat /\ past \in Nat /\ seq \in [Slots -> Nums] /\ data \in [Slots -> Nat] /\ tries \in Nat
      /\ LastNo \in Nat /\ LastNo <= SeqMod - 3 * Ring /\ LastNo < SeqMod /\ SeqMod \in Nat /\ Ring \in Nat
      /\ air \subseteq 1 .. LastNo
  BY DropTypes
<1>2. /\ n \in 1 .. LastNo /\ n \in Nat /\ UNCHANGED <<calm, base, sent>> /\ air' \subseteq air
      /\ \A m \in Nat : Gone(m) => Gone(m)' /\ m < n
      /\ calm => Gone(n)'
  BY Received
<1>3. UNCHANGED <<seq, len, data, first, is_first, past, clash>> /\ tries' = tries + 1
  BY DEF Ignore, ringvars
<1>4. ~clash /\ past < n => n # past + 1 /\ calm
  <2> SUFFICES ASSUME ~clash, past < n PROVE n # past + 1 /\ calm
    OBVIOUS
  <2>1. \/ Distance(SeqOf(n)) = n - (past + 1)
        \/ Distance(SeqOf(n)) = (n - (past + 1)) - SeqMod /\ calm
    BY <1>2, Expected
  <2>2. seq[first] = SeqOf(past + 1) /\ SeqOf(n) \in Nums
    BY <1>1, <1>2, SeqOfIs DEF DropInv, NumInv
  <2>3. n = past + 1 => Distance(SeqOf(n)) = 0
    BY <2>2, Sizes DEF Distance, Nums
  <2>4. QED BY <1>1, <1>2, <2>1, <2>3
<1>5. ASSUME ~clash, past < n, SeqOf(n) # 0 PROVE FALSE
  <2>1. calm /\ n # past + 1
    BY <1>4, <1>5
  <2>2. Distance(SeqOf(n)) <= -(3 * Ring)
    BY <1>1, <1>2, <1>5, Expected
  <2>3. PICK i \in Slots : seq[i] = SeqOf(n)
    <3>1. SeqOf(n) \in Nums /\ seq[first] \in Nums
      BY <1>1, <1>2, SeqOfIs
    <3>2. Stray(n)
      BY <1>1, <2>2, <3>1 DEF Distance, Nums
    <3>3. QED BY <3>2 DEF Stray
  <2>4. PICK m \in 1 .. LastNo + 1 : seq[i] = SeqOf(m) /\ (m <= past + 1 \/ Gone(m))
    BY <1>5, <2>1, <2>3 DEF DropInv, CalmInv
  <2>5. m \in Nat /\ m - n < SeqMod /\ n - m < SeqMod
    BY <1>1, <1>2, Sizes
  <2>6. m = n
    BY <1>1, <1>2, <2>3, <2>4, <2>5, SeqOnce
  <2>7. QED BY <1>1, <1>2, <1>5, <2>1, <2>4, <2>5, <2>6
<1>6. NumInv'
  BY <1>2, <1>3 DEF DropInv, NumInv, SeqOf
<1>7. AirInv'
  <2>1. LastNo' = LastNo
    BY DEF LastNo
  <2>2. QED BY <1>2, <1>3, <2>1 DEF DropInv, AirInv
<1>8. EarlyInv'
  <2>1. ~clash => early' = early
    BY <1>1, <1>2, <1>5
  <2>2. QED BY <1>3, <2>1 DEF DropInv, EarlyInv, InRing
<1>9. CalmInv'
  <2> SUFFICES ASSUME calm, ~clash PROVE CalmInv'
    BY <1>2, <1>3 DEF CalmInv
  <2>1. past <= LastNo /\ Gone(past) /\ Gone(past)' /\ Gone(n)' /\ past < n
    BY <1>1, <1>2, <1>3 DEF DropInv, CalmInv
  <2>2. \A i \in Slots : len'[i] # 0 => Gone(data[i])'
    BY <1>1, <1>2, <1>3 DEF DropInv, CalmInv
  <2>3. \A i \in Slots : seq'[i] = 0 \/ \E m \in 1 .. LastNo + 1 : seq'[i] = SeqOf(m) /\ (m <= past + 1 \/ Gone(m)')
    <3>1. \A m \in 1 .. LastNo + 1 : m \in Nat
      BY <1>1
    <3>2. QED BY <1>2, <1>3, <3>1 DEF DropInv, CalmInv
  <2>4. past + 1 < n /\ n \in 1 .. LastNo
    BY <1>1, <1>2, <1>4, <2>1
  <2>5. QED BY <1>1, <1>2, <1>3, <2>1, <2>2, <2>3, <2>4 DEF CalmInv, Gone, LastNo, SeqOf
<1>10. QED BY <1>6, <1>7, <1>8, <1>9 DEF DropInv

(* The first that waits is delivered: the others come after it.            *)
LEMMA FromRingDrop == ASSUME Fits, DropInv, RingInv', FromRing PROVE DropInv'
<1>1. /\ first \in Slots /\ base \in Nat /\ past \in Nat /\ seq \in [Slots -> Nums] /\ len \in [Slots -> {0, 1}]
      /\ data \in [Slots -> Nat] /\ LastNo \in Nat /\ Ring \in Nat
  BY DropTypes
<1>2. PICK d \in Slots : /\ len[Plus(first, d)] # 0 /\ \A e \in 0 .. d - 1 : len[Plus(first, e)] = 0
                        /\ Take(Plus(first, d)) /\ Delivered(data[Plus(first, d)])
  BY DEF FromRing
<1>3. PICK i \in Slots : i = Plus(first, d)
  BY <1>1, PlusIn
<1>4. PICK n \in 1 .. LastNo : n = data[i]
  BY <1>2, <1>3 DEF DropInv, AirInv
<1>5. /\ first' = Plus(i, 1) /\ len' = [len EXCEPT ![i] = 0]
      /\ seq' = [seq EXCEPT ![Plus(i, 1)] = Next16(seq[i])]
      /\ UNCHANGED <<data, is_first, clash>> /\ tries' = 0 /\ past' = n
      /\ early' = IF Jump(n) THEN {} ELSE early \ {n}
  BY <1>2, <1>3, <1>4 DEF Take, Delivered
<1>6. UNCHANGED <<calm, base, sent, air>> /\ air' \subseteq air
  BY DEF FromRing, netvars
<1>7. ~is_first /\ first' \in Slots
  BY <1>1, <1>2, <1>3, <1>5, PlusIs, Sizes DEF DropInv, RingInv
<1>8. past > 0 /\ n \in Nat /\ n > 0
  BY <1>1, <1>4, <1>7 DEF DropInv, NumInv
<1>9. ASSUME ~clash PROVE NumInv' /\ seq'[first'] = SeqOf(n + 1)
  <2>1. seq[i] = SeqOf(n)
    BY <1>2, <1>3, <1>4, <1>9 DEF DropInv, RingInv, Agree
  <2>2. seq'[first'] = Next16(SeqOf(n))
    BY <1>1, <1>5, <1>7, <2>1
  <2>3. QED BY <1>5, <1>6, <1>7, <2>2, DeliveredNum
<1>10. NumInv'
  BY <1>5, <1>7, <1>8, <1>9 DEF NumInv
<1>11. \A k \in Slots : len'[k] # 0 => len[k] # 0
  BY <1>1, <1>5
<1>12. AirInv'
  BY <1>5, <1>6, <1>11, DeliveredAir
<1>13. ASSUME ~clash, past <= LastNo PROVE n = past + 1 + d
  BY <1>2, <1>3, <1>4, <1>13, WaitsAt
<1>14. EarlyInv'
  <2> SUFFICES ASSUME ~clash, NEW m \in early, m # n PROVE m > n /\ InRing(m)'
    BY <1>5 DEF EarlyInv
  <2>1. m \in Nat /\ past < m /\ m <= LastNo
    BY EarlyIs
  <2>2. PICK c \in Slots : len[Plus(first, c)] # 0 /\ data[Plus(first, c)] = m /\ m = past + 1 + c
    BY EarlyIs
  <2>3. n = past + 1 + d
    BY <1>1, <1>13, <2>1
  <2>4. c >= d /\ c # d
    <3>1. c \in Nat /\ d \in Nat
      BY Sizes DEF Slots
    <3>2. c < d => c \in 0 .. d - 1
      BY <3>1
    <3>3. QED BY <1>2, <2>2, <2>3, <3>1, <3>2
  <2>5. m > n
    BY <1>1, <2>2, <2>3, <2>4, Sizes DEF Slots
  <2>6. PICK k \in Slots : k = Plus(first, c)
    BY <1>1, PlusIn
  <2>7. k # i
    BY <1>3, <1>4, <2>2, <2>6
  <2>8. len'[k] # 0 /\ data'[k] = m
    BY <1>1, <1>5, <2>2, <2>6, <2>7
  <2>9. QED BY <2>5, <2>8 DEF InRing
<1>15. CalmInv'
  <2>1. CASE calm /\ ~clash
    <3>1. past <= LastNo /\ \A m \in Nat : Gone(m) => Gone(m)'
      BY <1>6, <2>1 DEF DropInv, CalmInv, Gone
    <3>2. Gone(n)
      BY <1>2, <1>3, <1>4, <2>1 DEF DropInv, CalmInv
    <3>3. past <= n
      BY <1>1, <1>13, <2>1, <3>1, Sizes DEF Slots
    <3>4. \A k \in Slots : seq'[k] = seq[k] \/ seq'[k] = SeqOf(n + 1)
      BY <1>1, <1>5, <1>7, <1>9, <2>1
    <3>5. ~is_first'
      BY <1>5, <1>7
    <3>6. Gone(n)'
      BY <1>8, <3>1, <3>2
    <3>7. QED BY <1>5, <1>6, <1>7, <1>11, <3>1, <3>3, <3>4, <3>5, <3>6, DeliveredCalm
  <2>2. CASE ~(calm /\ ~clash)
    BY <1>5, <1>6, <2>2 DEF CalmInv
  <2>3. QED BY <2>1, <2>2
<1>16. QED BY <1>10, <1>12, <1>14, <1>15 DEF DropInv

(* Nothing waits, and the packet expected is given up.                     *)
LEMMA EmptyDrop == ASSUME Fits, DropInv, RingInv', Empty PROVE DropInv'
<1>1. /\ first \in Slots /\ base \in Nat /\ past \in Nat /\ seq \in [Slots -> Nums] /\ len \in [Slots -> {0, 1}]
      /\ data \in [Slots -> Nat] /\ LastNo \in Nat /\ Ring \in Nat /\ Ring > 3 /\ tries \in Nat
  BY DropTypes, Sizes
<1>2. /\ first' = Plus(first, 1) /\ len' = [len EXCEPT ![first] = 0]
      /\ seq' = [seq EXCEPT ![Plus(first, 1)] = Next16(seq[first])]
      /\ UNCHANGED <<data, is_first, clash, early, calm, base, sent, air>> /\ tries' = 0
      /\ past' = (IF is_first THEN past ELSE past + 1) /\ \A i \in Slots : len[i] = 0
  BY DEF Empty, Take, netvars
<1>3. first' \in Slots /\ \A i \in Slots : len'[i] = 0
  BY <1>1, <1>2, PlusIs
<1>4. ASSUME ~clash, ~is_first PROVE seq'[first'] = SeqOf(past + 2)
  <2>1. seq[first] = SeqOf(past + 1) /\ past + 1 \in Nat /\ (past + 1) + 1 = past + 2
    BY <1>1, <1>4 DEF DropInv, NumInv
  <2>2. seq'[first'] = Next16(SeqOf(past + 1))
    BY <1>1, <1>2, <1>3, <2>1
  <2>3. QED BY <1>1, <2>1, <2>2, SeqAt DEF Next16
<1>5. NumInv'
  <2>1. CASE is_first
    BY <1>2, <2>1 DEF DropInv, NumInv
  <2>2. CASE ~is_first
    <3>1. past' = past + 1 /\ past' + 1 = past + 2
      BY <1>1, <1>2, <2>2
    <3>2. SeqOf(past + 1)' = SeqOf(past + 2)
      BY <1>2, <3>1 DEF SeqOf
    <3>3. QED BY <1>1, <1>2, <1>4, <2>2, <3>1, <3>2 DEF NumInv
  <2>3. QED BY <2>1, <2>2
<1>6. AirInv'
  BY <1>2, <1>3, DeliveredAir
<1>7. EarlyInv'
  BY <1>2 DEF DropInv, EarlyInv, InRing
<1>8. CalmInv'
  <2> SUFFICES ASSUME calm, ~clash PROVE CalmInv'
    BY <1>2 DEF CalmInv
  <2>1. tries > 0
    BY <1>1, <1>2 DEF Empty, Looking
  <2>2. ~is_first /\ past' = past + 1
    BY <1>1, <1>2, <2>1 DEF DropInv, CalmInv
  <2>3. PICK m \in 1 .. LastNo : past + 1 < m /\ Gone(m)
    BY <1>2, <2>1 DEF DropInv, CalmInv
  <2>4. past + 1 < LastNo /\ Gone(past + 1) /\ sent \in Nat /\ air \subseteq Nat
    <3>1. sent \in Nat /\ air \subseteq Nat
      BY DropTypes
    <3>2. m \in Nat /\ m <= LastNo
      BY <1>1
    <3>3. QED BY <1>1, <2>3, <3>1, <3>2 DEF Gone
  <2>5. \A i \in Slots : seq'[i] = 0 \/ \E k \in 1 .. LastNo + 1 : seq'[i] = SeqOf(k) /\ (k <= past + 2 \/ Gone(k))
    <3> SUFFICES ASSUME NEW i \in Slots, seq'[i] # 0
                 PROVE  \E k \in 1 .. LastNo + 1 : seq'[i] = SeqOf(k) /\ (k <= past + 2 \/ Gone(k))
      OBVIOUS
    <3>1. CASE i = first'
      <4>1. seq'[i] = SeqOf(past + 2) /\ past + 2 \in 1 .. LastNo + 1
        BY <1>1, <1>4, <2>2, <2>4, <3>1
      <4>2. past + 2 <= past + 2
        BY <1>1
      <4>3. QED BY <4>1, <4>2
    <3>2. CASE i # first'
      <4>1. seq'[i] = seq[i]
        BY <1>1, <1>2, <3>2
      <4>2. PICK k \in 1 .. LastNo + 1 : seq[i] = SeqOf(k) /\ (k <= past + 1 \/ Gone(k))
        BY <4>1 DEF DropInv, CalmInv
      <4>3. k \in Nat /\ (k <= past + 1 => k <= past + 2)
        BY <1>1
      <4>4. QED BY <4>1, <4>2, <4>3
    <3>3. QED BY <3>1, <3>2
  <2>6. past' + 1 = past + 2 /\ past' <= LastNo
    BY <1>1, <2>2, <2>4
  <2>7. QED BY <1>1, <1>2, <1>3, <2>2, <2>4, <2>5, <2>6 DEF CalmInv, Gone, LastNo, SeqOf
<1>9. QED BY <1>5, <1>6, <1>7, <1>8 DEF DropInv

(* The steps of the model keep the invariant.                              *)
LEMMA DropSteps == Fits /\ DropInv /\ [Next]_vars => DropInv'
<1> SUFFICES ASSUME Fits, DropInv, [Next]_vars PROVE DropInv'
  OBVIOUS
<1>1. RingInv' /\ sent \in Nat /\ air \subseteq Nat /\ Ring \in Nat
  BY RingSteps, DropTypes DEF DropInv
<1>2. CASE Send
  <2>1. /\ UNCHANGED <<ringvars, calm, base, past, early, clash, tries>>
        /\ sent \in 0 .. Packets /\ sent' = sent + 1 /\ air' = air \cup {sent'}
    BY <1>1, <1>2, DropTypes DEF Send
  <2>2. QED BY <1>1, <2>1, SameDrop
<1>3. CASE Lose \/ LoseMany
  <2>1. UNCHANGED <<ringvars, calm, base, past, early, clash, tries>>
    BY <1>3 DEF Lose, LoseMany
  <2>2. sent' \in Nat /\ sent' >= sent /\ air' \subseteq air
    <3>1. CASE Lose
      BY <1>1, <3>1 DEF Lose
    <3>2. CASE LoseMany
      BY <1>1, <3>2 DEF LoseMany
    <3>3. QED BY <1>3, <3>1, <3>2
  <2>3. QED BY <1>1, <2>1, <2>2, SameDrop
<1>4. CASE Receive
  <2>1. PICK n \in air :
          /\ Arrives(n) /\ Sort(n)
          /\ at' = "reading" => early' = IF n > past /\ SeqOf(n) # 0 THEN early \cup {n} ELSE early
    BY <1>4 DEF Receive
  <2>2. Looking /\ at = "reading"
    BY <1>4 DEF Receive, Looking
  <2>3. CASE (is_first \/ Distance(SeqOf(n)) = 0) /\ Advance(n)
    BY <1>1, <2>1, <2>2, <2>3, AdvanceDrop
  <2>4. CASE ~is_first /\ (Overrun(Distance(SeqOf(n))) \/ Distance(SeqOf(n)) <= -(3 * Ring)) /\ Reset(n)
    BY <1>1, <2>1, <2>4, ResetDrop
  <2>5. CASE /\ ~is_first /\ Distance(SeqOf(n)) < 0 /\ (Stray(n) \/ Distance(SeqOf(n)) > -(3 * Ring))
             /\ Ignore
    <3>1. early' = IF n > past /\ SeqOf(n) # 0 THEN early \cup {n} ELSE early
      BY <2>1, <2>2, <2>5 DEF Ignore
    <3>2. QED BY <1>1, <2>1, <2>5, <3>1, IgnoreDrop
  <2>6. CASE ~is_first /\ Distance(SeqOf(n)) > 0 /\ ~Overrun(Distance(SeqOf(n))) /\ Keep(n)
    <3>1. early' = IF n > past /\ SeqOf(n) # 0 THEN early \cup {n} ELSE early
      BY <2>1, <2>2, <2>6 DEF Keep
    <3>2. QED BY <1>1, <2>1, <2>6, <3>1, KeepDrop
  <2>7. QED BY <2>1, <2>3, <2>4, <2>5, <2>6 DEF Sort
<1>5. CASE Junk
  <2>1. UNCHANGED <<ringvars, calm, base, past, early, clash, sent, air>> /\ ~calm
    BY <1>5 DEF Junk, Ignore
  <2>2. sent' \in Nat /\ sent' >= sent /\ air' \subseteq air
    BY <1>1, <2>1
  <2>3. QED BY <1>1, <2>1, <2>2, SameDrop
<1>6. CASE FromRing
  BY <1>1, <1>6, FromRingDrop
<1>7. CASE Empty
  BY <1>1, <1>7, EmptyDrop
<1>8. CASE Read \/ UNCHANGED vars
  <2>1. UNCHANGED <<ringvars, calm, base, past, early, clash, sent, air, tries>>
    BY <1>8 DEF Read, vars, netvars
  <2>2. sent' \in Nat /\ sent' >= sent /\ air' \subseteq air
    BY <1>1, <2>1
  <2>3. QED BY <1>1, <2>1, <2>2, SameDrop
<1>9. QED BY <1>2, <1>3, <1>4, <1>5, <1>6, <1>7, <1>8 DEF Next

(* A packet that came before it was passed over waits in the ring until it *)
(* is delivered or a jump in the numbers empties the ring (rtp_cache,      *)
(* rtp_get_next): neither another packet, nor a repetition, nor the wrap   *)
(* of the numbers displaces it, and it is not taken for a repetition       *)
(* itself.  The stream is no longer than the numbers tell apart (Fits).    *)
THEOREM NothingDroppedCorrect == ASSUME Fits PROVE Spec => []NothingDropped
<1>1. Init => DropInv
  BY InitDrop
<1>2. DropInv /\ [Next]_vars => DropInv'
  BY DropSteps
<1>3. DropInv => NothingDropped
  BY DEF DropInv, EarlyInv, InRing, NothingDropped
<1>4. QED BY <1>1, <1>2, <1>3, PTL DEF Spec
-----------------------------------------------------------------------------
(* The datagrams for which rtp_get_next gives up a packet, and how many    *)
(* packets it can give up that were not yet sent.                          *)
Tries == Ring - 3
Ahead == (MaxNoise + InAir) \div Tries
(* A packet is late by fewer than two rings, less those given up too soon; *)
(* rtp_cache takes one that is three rings late for the beginning of       *)
(* another stream.                                                         *)
Near == MaxNoise \in Nat /\ InAir \in Nat \ {0} /\ Ahead + InAir < 2 * Ring

(* With h the last packet that the network has seen: those under way are   *)
(* near it, and each datagram in vain, and each packet given up for Tries  *)
(* of them, is paid for by noise or by a packet that was under way.        *)
Newest(h) ==
  /\ h <= sent /\ noise \in 0 .. MaxNoise
  /\ \A k \in air : k <= h /\ h < k + InAir
  /\ \A i \in Slots : len[i] # 0 => data[i] <= h
  /\ Tries * past + tries + Cardinality(air) <= Tries * h + noise + InAir

(* Such a packet there is.                                                 *)
NearInv == \E h \in 0 .. LastNo : Newest(h)

(* What is in them, to cite in one word.                                   *)
LEMMA Numbers ==
  ASSUME Fits, Near, DropInv
  PROVE  /\ Tries \in Nat \ {0} /\ Tries \in Nat /\ Tries > 0 /\ Tries = Ring - 3 /\ past \in Nat /\ tries \in 0 .. Tries /\ sent \in Nat
         /\ InAir \in Nat /\ InAir > 0 /\ MaxNoise \in Nat /\ LastNo \in Nat /\ air \subseteq 1 .. LastNo
         /\ data \in [Slots -> Nat] /\ LastNo = Packets + 1 /\ Packets \in Nat
  BY DropTypes, Sizes DEF Near, Tries, DropInv, RingInv, RingTypes, LastNo

(* Only so many packets can be under way.                                  *)
LEMMA AirCount ==
  ASSUME Fits, Near, DropInv, NEW h \in 0 .. LastNo, Newest(h)
  PROVE  /\ IsFiniteSet(air) /\ Cardinality(air) \in Nat /\ Cardinality(air) <= InAir
         /\ \A n \in air : Cardinality(air \ {n}) = Cardinality(air) - 1
         /\ \A n : n \notin air => Cardinality(air \cup {n}) = Cardinality(air) + 1
<1>1. InAir \in Nat /\ InAir > 0 /\ LastNo \in Nat /\ air \subseteq 1 .. LastNo
  BY Numbers
<1>2. PICK a \in Int : a = (h - InAir) + 1
  BY <1>1
<1>3. air \subseteq a .. h /\ h \in Int /\ a <= h /\ (h - a) + 1 = InAir
  BY <1>1, <1>2 DEF Newest
<1>4. IsFiniteSet(a .. h) /\ Cardinality(a .. h) = InAir
  BY <1>3, FS_Interval
<1>5. IsFiniteSet(air) /\ Cardinality(air) <= InAir
  BY <1>3, <1>4, FS_Subset
<1>6. Cardinality(air) \in Nat
  BY <1>5, FS_CardinalityType
<1>7. \A n \in air : Cardinality(air \ {n}) = Cardinality(air) - 1
  BY <1>5, FS_RemoveElement
<1>8. \A n : n \notin air => Cardinality(air \cup {n}) = Cardinality(air) + 1
  BY <1>5, FS_AddElement
<1>9. QED BY <1>5, <1>6, <1>7, <1>8

LEMMA InitNear == Fits /\ Near /\ Init => NearInv
<1> SUFFICES ASSUME Fits, Near, Init PROVE NearInv
  OBVIOUS
<1>1. Tries \in Nat /\ InAir \in Nat /\ MaxNoise \in Nat /\ LastNo \in Nat
  BY Sizes DEF Near, Tries, Fits, LastNo
<1>2. Cardinality(air) = 0
  BY FS_EmptySet DEF Init
<1>3. Tries * past = 0 /\ Tries * 0 = 0
  BY <1>1 DEF Init
<1>4. Newest(0)
  BY <1>1, <1>2, <1>3 DEF Init, Newest
<1>5. QED BY <1>1, <1>4 DEF NearInv

(* More of them are more.                                                  *)
LEMMA Factor == ASSUME NEW t \in Nat, NEW a \in Nat, NEW b \in Nat, a <= b PROVE t * a <= t * b
<1>1. b - a \in Nat /\ t * b = t * a + t * (b - a) /\ t * (b - a) \in Nat /\ t * a \in Nat
  OBVIOUS
<1>2. QED BY <1>1

(* One is received: it is in the air no more, or it is a repetition.       *)
LEMMA ReceivedNear ==
  ASSUME Fits, Near, DropInv, NEW h \in 0 .. LastNo, Newest(h), NEW n \in air, Arrives(n)
  PROVE  /\ noise' \in 0 .. MaxNoise /\ sent' = sent /\ air' \subseteq air /\ n \in Nat /\ n <= h
         /\ Cardinality(air') \in Nat /\ Cardinality(air') <= InAir
         /\ Cardinality(air') + 1 <= Cardinality(air) + (noise' - noise)
         /\ noise' >= noise
<1>1. /\ InAir \in Nat /\ MaxNoise \in Nat /\ noise \in 0 .. MaxNoise /\ n <= h /\ n \in Nat
  BY Numbers DEF Newest
<1>2. /\ Cardinality(air) \in Nat /\ Cardinality(air) <= InAir /\ IsFiniteSet(air)
      /\ Cardinality(air \ {n}) = Cardinality(air) - 1
  BY AirCount
<1>3. Cardinality(air \ {n}) \in Nat
  BY <1>2, FS_RemoveElement, FS_CardinalityType
<1>4. CASE air' = air \ {n} /\ UNCHANGED noise
  BY <1>1, <1>2, <1>3, <1>4 DEF Arrives
<1>5. CASE noise < MaxNoise /\ noise' = noise + 1 /\ UNCHANGED air
  BY <1>1, <1>2, <1>5 DEF Arrives
<1>6. QED BY <1>4, <1>5 DEF Arrives

(* What is delivered was sent, so nothing is too far from it.              *)
LEMMA DeliveredNear ==
  ASSUME Fits, Near, DropInv, NEW h \in 0 .. LastNo, Newest(h), NEW n \in Nat, n <= h, past' = n, tries' = 0,
         noise' \in 0 .. MaxNoise, sent' = sent, air' \subseteq air, Cardinality(air') \in Nat, Cardinality(air') <= InAir,
         UNCHANGED data, \A i \in Slots : len'[i] # 0 => len[i] # 0
  PROVE  NearInv'
<1>1. Tries \in Nat /\ InAir \in Nat /\ MaxNoise \in Nat /\ h \in Nat
  BY Numbers
<1>2. Tries * n <= Tries * h /\ Tries * n \in Nat /\ Tries * h \in Nat
  BY <1>1, Factor
<1>3. Tries * n + 0 + Cardinality(air') <= Tries * h + noise' + InAir
  BY <1>1, <1>2
<1>4. Newest(h)'
  BY <1>3 DEF Newest, Tries
<1>5. LastNo' = LastNo
  BY DEF LastNo
<1>6. QED BY <1>4, <1>5 DEF NearInv

(* The steps of the model keep it.                                         *)
LEMMA NearSteps == Fits /\ Near /\ DropInv /\ NearInv /\ [Next]_vars => NearInv'
<1> SUFFICES ASSUME Fits, Near, DropInv, NearInv, [Next]_vars PROVE NearInv'
  OBVIOUS
<1>1. PICK h \in 0 .. LastNo : Newest(h)
  BY DEF NearInv
<1>2. /\ Tries \in Nat /\ Tries > 0 /\ past \in Nat /\ tries \in 0 .. Tries /\ sent \in Nat /\ Tries = Ring - 3
      /\ InAir \in Nat /\ InAir > 0 /\ MaxNoise \in Nat /\ LastNo \in Nat /\ air \subseteq 1 .. LastNo
      /\ data \in [Slots -> Nat] /\ LastNo = Packets + 1 /\ Packets \in Nat /\ h \in Nat /\ noise \in 0 .. MaxNoise
  <2>1. h \in Nat
    BY Numbers
  <2>2. noise \in 0 .. MaxNoise
    BY <1>1 DEF Newest
  <2>3. QED BY <2>1, <2>2, Numbers
<1>3. Cardinality(air) \in Nat /\ Cardinality(air) <= InAir /\ LastNo' = LastNo
  BY <1>1, AirCount DEF LastNo
<1>4. Tries * past \in Nat /\ Tries * h \in Nat
  BY <1>2
<1>5. CASE Send
  <2>1. /\ sent' = sent + 1 /\ air' = air \cup {sent + 1} /\ sent + 1 <= LastNo /\ sent + 1 \notin air
        /\ \A k \in air : k > sent + 1 - InAir
        /\ UNCHANGED <<seq, len, data, first, is_first, tries, noise, past>>
    <3>1. \A k \in air : k <= sent
      BY DEF DropInv, AirInv
    <3>2. QED BY <1>2, <1>5, <3>1 DEF Send, ringvars
  <2>2. Cardinality(air') = Cardinality(air) + 1
    BY <1>1, <2>1, AirCount
  <2>3. Tries * (sent + 1) >= Tries * h + Tries /\ Tries * (sent + 1) \in Nat
    <3>1. h <= sent
      BY <1>1 DEF Newest
    <3>2. Tries * h <= Tries * sent /\ Tries * (sent + 1) = Tries * sent + Tries /\ Tries * sent \in Nat
      BY <1>2, <3>1, Factor
    <3>3. QED BY <1>2, <1>4, <3>2
  <2>4. Tries * past + tries + Cardinality(air') <= Tries * (sent + 1) + noise + InAir
    <3>1. Tries * past + tries + Cardinality(air) <= Tries * h + noise + InAir
      BY <1>1 DEF Newest
    <3>2. QED BY <1>2, <1>3, <1>4, <2>2, <2>3, <3>1
  <2>5. \A k \in air' : k <= sent + 1 /\ sent + 1 < k + InAir
    <3>1. \A k \in air : k <= sent
      BY DEF DropInv, AirInv
    <3>2. QED BY <1>2, <2>1, <3>1
  <2>6. \A i \in Slots : len[i] # 0 => data[i] <= sent + 1
    <3>1. \A i \in Slots : len[i] # 0 => data[i] <= h /\ h <= sent
      BY <1>1 DEF Newest
    <3>2. QED BY <1>2, <3>1
  <2>7. QED
    <3>1. PICK c \in 0 .. LastNo : c = sent + 1
      BY <1>2, <2>1
    <3>2. Newest(c)'
      BY <1>2, <2>1, <2>4, <2>5, <2>6, <3>1 DEF Newest, Tries
    <3>3. QED BY <1>3, <3>2 DEF NearInv
<1>6. CASE Lose
  <2>1. PICK n \in air : air' = air \ {n}
    BY <1>6 DEF Lose
  <2>2. UNCHANGED <<seq, len, data, first, is_first, tries, noise, past, sent>>
    BY <1>6 DEF Lose, ringvars
  <2>3. Cardinality(air') = Cardinality(air) - 1
    BY <1>1, <2>1, AirCount
  <2>4. Tries * past + tries + Cardinality(air') <= Tries * h + noise + InAir
    <3>1. Tries * past + tries + Cardinality(air) <= Tries * h + noise + InAir
      BY <1>1 DEF Newest
    <3>2. QED BY <1>2, <1>3, <1>4, <2>3, <3>1
  <2>5. Newest(h)'
    BY <1>1, <2>1, <2>2, <2>4 DEF Newest, Tries
  <2>6. QED BY <1>3, <2>5 DEF NearInv
<1>7. CASE LoseMany
  <2>1. UNCHANGED <<seq, len, data, first, is_first, tries, noise, past, air>> /\ sent' = sent + Ring + 2
    BY <1>7 DEF LoseMany, ringvars
  <2>2. h <= sent'
    BY <1>1, <1>2, <2>1, Sizes DEF Newest
  <2>3. Newest(h)'
    BY <1>1, <2>1, <2>2 DEF Newest, Tries
  <2>4. QED BY <1>3, <2>3 DEF NearInv
<1>8. CASE Receive
  <2>1. PICK n \in air : Arrives(n) /\ Sort(n)
    BY <1>8 DEF Receive
  <2>2. /\ noise' \in 0 .. MaxNoise /\ sent' = sent /\ air' \subseteq air /\ n \in Nat /\ n <= h
        /\ Cardinality(air') \in Nat /\ Cardinality(air') <= InAir
        /\ Cardinality(air') + 1 <= Cardinality(air) + (noise' - noise)
        /\ noise' >= noise
    BY <1>1, <2>1, ReceivedNear
  <2>3. CASE Advance(n) \/ Reset(n)
    <3>1. past' = n /\ tries' = 0 /\ UNCHANGED data
      BY <2>3 DEF Advance, Reset, Delivered
    <3>2. \A i \in Slots : len'[i] # 0 => len[i] # 0
      BY <2>3 DEF Advance, Reset
    <3>3. QED BY <1>1, <2>2, <3>1, <3>2, DeliveredNear
  <2>4. CASE Ignore \/ Keep(n)
    <3>1. past' = past /\ tries' = tries + 1
      BY <2>4 DEF Ignore, Keep
    <3>2. \A i \in Slots : len'[i] # 0 => data'[i] <= h
      <4>1. \A i \in Slots : len[i] # 0 => data[i] <= h
        BY <1>1 DEF Newest
      <4>2. CASE Ignore
        BY <4>1, <4>2 DEF Ignore, ringvars
      <4>3. CASE Keep(n)
        <5>1. len \in [Slots -> {0, 1}] /\ data' = [data EXCEPT ![Slot(n)] = n] /\ len' = [len EXCEPT ![Slot(n)] = 1]
          BY <4>3, DropTypes DEF Keep
        <5>2. QED BY <1>2, <2>2, <4>1, <5>1
      <4>4. QED BY <2>4, <4>2, <4>3
    <3>3. Tries * past + (tries + 1) + Cardinality(air') <= Tries * h + noise' + InAir
      <4>1. Tries * past + tries + Cardinality(air) <= Tries * h + noise + InAir
        BY <1>1 DEF Newest
      <4>2. QED BY <1>2, <1>3, <1>4, <2>2, <4>1
    <3>4. Newest(h)'
      BY <1>1, <2>2, <3>1, <3>2, <3>3 DEF Newest, Tries
    <3>5. QED BY <1>3, <3>4 DEF NearInv
  <2>5. QED BY <2>1, <2>3, <2>4 DEF Sort
<1>9. CASE Junk
  <2>1. UNCHANGED <<seq, len, data, first, is_first, past, air, sent>> /\ noise' = noise + 1 /\ tries' = tries + 1 /\ noise < MaxNoise
    BY <1>9 DEF Junk, Ignore, ringvars
  <2>2. Tries * past + (tries + 1) + Cardinality(air) <= Tries * h + (noise + 1) + InAir /\ noise + 1 \in 0 .. MaxNoise
    <3>1. Tries * past + tries + Cardinality(air) <= Tries * h + noise + InAir
      BY <1>1 DEF Newest
    <3>2. QED BY <1>2, <1>3, <1>4, <2>1, <3>1
  <2>3. Newest(h)'
    BY <1>1, <2>1, <2>2 DEF Newest, Tries
  <2>4. QED BY <1>3, <2>3 DEF NearInv
<1>10. CASE FromRing
  <2>1. PICK d \in Slots : len[Plus(first, d)] # 0 /\ Take(Plus(first, d)) /\ Delivered(data[Plus(first, d)])
    BY <1>10 DEF FromRing
  <2>2. PICK i \in Slots : i = Plus(first, d)
    BY PlusIn, DropTypes
  <2>3. /\ data[i] \in Nat /\ data[i] <= h /\ past' = data[i] /\ tries' = 0 /\ UNCHANGED <<data, noise, sent, air>>
        /\ len' = [len EXCEPT ![i] = 0]
    BY <1>1, <1>2, <1>10, <2>1, <2>2 DEF Newest, Delivered, Take, FromRing, netvars
  <2>4. \A k \in Slots : len'[k] # 0 => len[k] # 0
    BY <2>3, DropTypes
  <2>5. QED BY <1>1, <1>2, <1>3, <2>3, <2>4, DeliveredNear
<1>11. CASE Empty
  <2>1. /\ UNCHANGED <<data, noise, sent, air>> /\ tries' = 0 /\ \A i \in Slots : len[i] = 0
        /\ len' = [len EXCEPT ![first] = 0] /\ past' \in {past, past + 1}
    BY <1>11 DEF Empty, Take, netvars
  <2>2. tries = Tries
    <3>1. tries >= Ring - 3
      BY <1>2, <1>11, DropTypes DEF Empty, Looking
    <3>2. QED BY <1>2, <3>1
  <2>3. \A i \in Slots : len'[i] = 0
    BY <2>1, DropTypes
  <2>4. Tries * past' + 0 + Cardinality(air) <= Tries * h + noise + InAir
    <3>1. Tries * past + tries + Cardinality(air) <= Tries * h + noise + InAir
      BY <1>1 DEF Newest
    <3>2. Tries * (past + 1) = Tries * past + Tries
      BY <1>2
    <3>3. CASE past' = past
      BY <1>2, <1>3, <1>4, <3>1, <3>3
    <3>4. CASE past' = past + 1
      <4>1. Tries * past' = Tries * past + Tries
        BY <3>2, <3>4
      <4>2. QED BY <1>2, <1>3, <1>4, <2>2, <3>1, <4>1
    <3>5. QED BY <2>1, <3>3, <3>4
  <2>5. Newest(h)'
    BY <1>1, <2>1, <2>3, <2>4 DEF Newest, Tries
  <2>6. QED BY <1>3, <2>5 DEF NearInv
<1>12. CASE Read \/ UNCHANGED vars
  <2>1. UNCHANGED <<seq, len, data, first, is_first, tries, past, noise, sent, air>>
    BY <1>12 DEF Read, vars, ringvars, netvars
  <2>2. Newest(h)'
    BY <1>1, <2>1 DEF Newest, Tries
  <2>3. QED BY <1>3, <2>2 DEF NearInv
<1>13. QED BY <1>5, <1>6, <1>7, <1>8, <1>9, <1>10, <1>11, <1>12 DEF Next

(* How far the ring is ahead of what was sent.                             *)
LEMMA NotFar ==
  ASSUME Fits, Near, DropInv, NEW h \in 0 .. LastNo, Newest(h)
  PROVE  /\ past <= h + Ahead /\ Ahead \in Nat /\ InAir \in Nat /\ InAir > 0
         /\ Ahead + InAir < 2 * Ring /\ past + 1 + Ring <= SeqMod
<1>1. /\ Tries \in Nat \ {0} /\ Tries \in Nat /\ Tries > 0 /\ past \in Nat /\ tries \in 0 .. Tries
      /\ InAir \in Nat /\ InAir > 0 /\ MaxNoise \in Nat /\ LastNo \in Nat /\ h \in Nat
      /\ noise \in 0 .. MaxNoise /\ Cardinality(air) \in Nat /\ Ahead + InAir < 2 * Ring
  BY Numbers, AirCount DEF Near, Newest
<1>2. PICK m \in Nat : m = MaxNoise + InAir
  BY <1>1
<1>3. Ahead = m \div Tries
  BY <1>2 DEF Ahead
<1>4. m % Tries \in 0 .. Tries - 1 /\ m \div Tries \in Int /\ m = Tries * (m \div Tries) + (m % Tries)
  BY <1>1, ModFacts
<1>5. PICK q \in Int, r \in 0 .. Tries - 1 : q = Ahead /\ m = Tries * q + r
  BY <1>3, <1>4
<1>6. q >= 0
  <2>1. SUFFICES ASSUME q <= 0 - 1 PROVE FALSE
    OBVIOUS
  <2>2. Tries * q <= 0 - Tries
    <3>1. PICK p \in Nat : q = 0 - (p + 1)
      <4>1. (0 - q) - 1 \in Nat /\ q = 0 - (((0 - q) - 1) + 1)
        BY <2>1
      <4>2. QED BY <4>1
    <3>2. Tries * q = (0 - Tries) - Tries * p /\ Tries * p \in Nat
      BY <1>1, <3>1
    <3>3. QED BY <1>1, <3>2
  <2>3. QED BY <1>1, <1>2, <1>5, <2>2
<1>7. Tries * past <= Tries * h + m
  <2>1. Tries * past + tries + Cardinality(air) <= Tries * h + noise + InAir
    BY DEF Newest
  <2>2. Tries * past \in Nat /\ Tries * h \in Nat
    BY <1>1
  <2>3. QED BY <1>1, <1>2, <2>1, <2>2
<1>8. past <= h + q
  <2>1. SUFFICES ASSUME h + q + 1 <= past PROVE FALSE
    BY <1>1
  <2>2. Tries * (h + q + 1) <= Tries * past
    BY <1>1, <1>6, <2>1, Factor
  <2>3. Tries * (h + q + 1) = Tries * h + Tries * q + Tries
    BY <1>1
  <2>4. Tries * h \in Int /\ Tries * q \in Int /\ Tries * past \in Int
    BY <1>1
  <2>5. QED BY <1>1, <1>5, <1>7, <2>2, <2>3, <2>4
<1>9. past + 1 + Ring <= SeqMod
  BY <1>1, <1>5, <1>6, <1>8, DropTypes
<1>10. QED BY <1>1, <1>5, <1>6, <1>8, <1>9

(* A packet is delivered that comes after the last one, ...                *)
LEMMA SortedSteps == Fits /\ Near /\ DropInv /\ NearInv /\ [Next]_vars => [Sorted \/ clash]_vars
<1> SUFFICES ASSUME Fits, Near, DropInv, NearInv, Next, ~clash, past' # past PROVE past' > past
  BY DEF Sorted
<1>1. PICK h \in 0 .. LastNo : Newest(h)
  BY DEF NearInv
<1>2. /\ first \in Slots /\ base \in Nat /\ past \in Nat /\ seq \in [Slots -> Nums] /\ data \in [Slots -> Nat]
      /\ LastNo \in Nat /\ LastNo <= SeqMod - 3 * Ring /\ LastNo < SeqMod /\ calm \in BOOLEAN
      /\ SeqMod \in Nat /\ Ring \in Nat /\ Ring > 3 /\ air \subseteq 1 .. LastNo /\ h \in Nat
  BY DropTypes, Sizes
<1>3. /\ past <= h + Ahead /\ Ahead \in Nat /\ InAir \in Nat /\ InAir > 0
      /\ Ahead + InAir < 2 * Ring /\ past + 1 + Ring <= SeqMod
  BY <1>1, NotFar
<1>4. ~calm => SeqOf(past + 1) = past + 1
  <2>1. past + 1 \in Nat /\ past + 1 < SeqMod
    BY <1>2, <1>3
  <2>2. QED BY <2>1, SeqPlain DEF DropInv, AirInv
<1>5. ASSUME NEW n \in air, Arrives(n), ~is_first,
             Distance(SeqOf(n)) = 0 \/ Overrun(Distance(SeqOf(n))) \/ Distance(SeqOf(n)) <= -(3 * Ring)
      PROVE  n > past
  <2>1. SUFFICES ASSUME n <= past PROVE FALSE
    BY <1>2
  <2>2. n \in Nat /\ n <= LastNo /\ \A m \in Nat : Gone(m) => m < n
    BY <1>2, <1>5, Received
  <2>3. ~calm
    BY <1>2, <2>1, <2>2 DEF DropInv, CalmInv
  <2>4. SeqOf(n) = n
    BY <1>2, <2>2, <2>3, SeqPlain DEF DropInv, AirInv
  <2>5. Distance(SeqOf(n)) = n - (past + 1)
    BY <1>4, <1>5, <2>3, <2>4 DEF Distance, DropInv, NumInv
  <2>6. n - (past + 1) <= -(3 * Ring)
    BY <1>2, <1>5, <2>1, <2>2, <2>5 DEF Overrun
  <2>7. h < n + InAir
    BY <1>1, <1>5 DEF Newest
  <2>8. QED BY <1>2, <1>3, <2>2, <2>6, <2>7
<1>6. CASE Receive
  <2>1. PICK n \in air : Arrives(n) /\ Sort(n)
    BY <1>6 DEF Receive
  <2>2. CASE is_first /\ Advance(n)
    <3>1. past = 0 /\ past' = n
      BY <2>2 DEF DropInv, NumInv, Advance, Delivered
    <3>2. QED BY <1>2, <3>1
  <2>3. CASE ~is_first /\ Distance(SeqOf(n)) = 0 /\ Advance(n)
    <3>1. past' = n
      BY <2>3 DEF Advance, Delivered
    <3>2. QED BY <1>5, <2>1, <2>3, <3>1
  <2>4. CASE ~is_first /\ (Overrun(Distance(SeqOf(n))) \/ Distance(SeqOf(n)) <= -(3 * Ring)) /\ Reset(n)
    <3>1. past' = n
      BY <2>4 DEF Reset, Delivered
    <3>2. QED BY <1>5, <2>1, <2>4, <3>1
  <2>5. CASE Ignore \/ Keep(n)
    BY <2>5 DEF Ignore, Keep
  <2>6. QED BY <2>1, <2>2, <2>3, <2>4, <2>5 DEF Sort
<1>7. CASE FromRing
  <2>1. PICK d \in Slots : len[Plus(first, d)] # 0 /\ Delivered(data[Plus(first, d)])
    BY <1>7 DEF FromRing
  <2>2. PICK i \in Slots : i = Plus(first, d)
    BY <1>2, PlusIn
  <2>3. PICK n \in Nat : n = data[i] /\ n \in 1 .. LastNo
    BY <1>2, <2>1, <2>2 DEF DropInv, AirInv
  <2>4. past' = n
    BY <2>1, <2>2, <2>3 DEF Delivered
  <2>5. d \in Nat /\ d < Ring
    BY <1>2 DEF Slots
  <2>6. CASE calm
    <3>1. past <= LastNo
      BY <2>6 DEF DropInv, CalmInv
    <3>2. n = past + 1 + d
      BY <2>1, <2>2, <2>3, <3>1, WaitsAt
    <3>3. QED BY <1>2, <2>4, <2>5, <3>2
  <2>7. CASE ~calm
    <3>1. ~is_first
      BY <2>1, <2>2 DEF DropInv, RingInv
    <3>2. SeqOf(n) = (SeqOf(past + 1) + d) % SeqMod
      BY <2>1, <2>2, <2>3, <3>1 DEF DropInv, RingInv, Agree, NumInv
    <3>3. PICK m \in Nat : m = past + 1 + d
      BY <1>2, <2>5
    <3>4. m < 2 * SeqMod /\ m < SeqMod
      BY <1>2, <1>3, <2>5, <3>3
    <3>5. m % SeqMod = m
      BY <1>2, <3>4, Sizes, ModOnce
    <3>6. SeqOf(n) = n
      BY <1>2, <2>3, <2>7, SeqPlain DEF DropInv, AirInv
    <3>7. n = m
      BY <1>2, <1>4, <2>7, <3>2, <3>3, <3>5, <3>6
    <3>8. QED BY <1>2, <2>4, <2>5, <3>3, <3>7
  <2>8. QED BY <1>2, <2>6, <2>7
<1>8. CASE Empty
  BY <1>2, <1>8 DEF Empty
<1>9. CASE Send \/ Lose \/ LoseMany \/ Junk \/ Read
  BY <1>9 DEF Send, Lose, LoseMany, Junk, Ignore, Read
<1>10. QED BY <1>6, <1>7, <1>8, <1>9 DEF Next

(* ... so that none is delivered twice, or after one that was sent later,  *)
(* or after it was given up ("get rtp packets reordered", rtp.c).  This    *)
(* needs packets that are late by fewer than two rings (Near), and numbers *)
(* that wrap only where the network keeps its order (Fits, and base in     *)
(* Init): rtp_cache takes the difference of two numbers as an int, and     *)
(* nothing is said of packets that are reordered across the wrap.  Nor is  *)
(* anything said once one came that is as many ahead as there are slots    *)
(* (clash), which rtp_cache puts where the one expected belongs.           *)
THEOREM InOrderCorrect == ASSUME Fits, Near PROVE Spec => InOrder
<1>1. Init => DropInv /\ NearInv
  BY InitDrop, InitNear
<1>2. DropInv /\ NearInv /\ [Next]_vars => DropInv' /\ NearInv'
  BY DropSteps, NearSteps
<1>3. DropInv /\ NearInv /\ [Next]_vars => [Sorted \/ clash]_vars
  BY SortedSteps
<1>4. QED BY <1>1, <1>2, <1>3, PTL DEF Spec, InOrder
=============================================================================
