--------------------------- MODULE D64StepProofs ----------------------------
(***************************************************************************)
(* What the operators of D64Image that follow links and search the         *)
(* directory return, for any geometry and any image; then the inductive    *)
(* invariant of D64Image, stated of an image, the streams and a handler,   *)
(* and what each kind of step does to it.  The lemmas here are about       *)
(* images and streams, not about states of the specification.              *)
(***************************************************************************)
EXTENDS D64Image, FiniteSetTheorems, SequenceTheorems, WellFoundedInduction, TLAPS

-----------------------------------------------------------------------------
(* Induction over sets of naturals.                                        *)

LEMMA NatSetMin ==
    ASSUME NEW T, T \subseteq Nat, T # {}
    PROVE  \E x \in T : \A y \in T : x <= y
  <1>. DEFINE R == {ss \in Nat \X Nat : ss[1] < ss[2]}
  <1>1. IsWellFoundedOn(R, Nat)
    BY NatLessThanWellFounded DEF OpToRel
  <1>2. \A x, y \in Nat : y < x => <<y, x>> \in R
    OBVIOUS
  <1>. HIDE DEF R
  <1>3. PICK x \in T : \A y \in T : ~(<<y, x>> \in R)
    BY <1>1, WFMin
  <1>4. \A y \in T : ~(y < x)
    BY <1>2, <1>3
  <1>5. \A y \in T : x <= y
    BY <1>4
  <1>. QED
    BY <1>5

LEMMA SetInduction ==
    ASSUME NEW T, 0 \in T, \A n \in Nat : n \in T => n + 1 \in T
    PROVE  Nat \subseteq T
  <1>. SUFFICES ASSUME Nat \ T # {} PROVE FALSE
    OBVIOUS
  <1>1. PICK x \in Nat \ T : \A y \in Nat \ T : x <= y
    BY NatSetMin
  <1>2. x - 1 \in Nat /\ (x - 1) + 1 = x /\ ~(x <= x - 1)
    <2>1. x # 0
      OBVIOUS
    <2>. QED
      BY <2>1
  <1>. QED
    BY <1>1, <1>2

-----------------------------------------------------------------------------
(* Chains: what the recursive function of ChainFrom computes.              *)

Walks == Seq(Block) \ {<<>>}
Limit == Tracks * Sectors

Longer(img, met) == Len(met) <= Limit /\ img.next[met[Len(met)]] \in Block

\* The function walk of ChainFrom.
IsWalk(img, w) ==
    w = [met \in Walks |-> IF Longer(img, met)
                           THEN w[Append(met, img.next[met[Len(met)]])] ELSE met]

\* out goes on from met as far as the links lead.
Follows(img, met, out) ==
    /\ out \in Walks /\ Len(met) <= Len(out)
    /\ \A i \in 1..Len(met) : out[i] = met[i]
    /\ \A i \in Len(met)..(Len(out) - 1) :
          i <= Limit /\ img.next[out[i]] \in Block /\ out[i + 1] = img.next[out[i]]
    /\ ~Longer(img, out)

LEMMA LimitNat == Limit \in Nat /\ Limit > 0
  BY GeometryAssumption DEF Limit

LEMMA WalkLen == ASSUME NEW met \in Walks PROVE Len(met) \in Nat /\ Len(met) >= 1
  BY DEF Walks

LEMMA WalkAppend ==
    ASSUME NEW met \in Walks, NEW b \in Block
    PROVE  /\ Append(met, b) \in Walks /\ Len(Append(met, b)) = Len(met) + 1
           /\ \A i \in 1..Len(met) : Append(met, b)[i] = met[i]
           /\ Append(met, b)[Len(met) + 1] = b
  BY DEF Walks

\* A walk that can be continued goes on through its next block.
LEMMA FollowsStep ==
    ASSUME NEW img, NEW met \in Walks, Longer(img, met), NEW out
    PROVE  Follows(img, met, out) <=>
           Follows(img, Append(met, img.next[met[Len(met)]]), out)
  <1>. DEFINE b == img.next[met[Len(met)]]
              ext == Append(met, b)
  <1>1. b \in Block /\ Len(met) <= Limit
    BY DEF Longer
  <1>2. Len(met) \in Nat /\ Len(met) >= 1
    BY WalkLen
  <1>3. /\ ext \in Walks /\ Len(ext) = Len(met) + 1
        /\ \A i \in 1..Len(met) : ext[i] = met[i]
        /\ ext[Len(met) + 1] = b
    BY <1>1, WalkAppend
  <1>. HIDE DEF ext
  <1>4. ASSUME Follows(img, met, out) PROVE Follows(img, ext, out)
    <2>1. out \in Walks /\ Len(out) \in Nat /\ Len(out) >= Len(met)
      BY <1>4, WalkLen DEF Follows
    <2>2. Len(out) # Len(met)
      <3>. SUFFICES ASSUME Len(out) = Len(met) PROVE FALSE
        OBVIOUS
      <3>1. out[Len(met)] = met[Len(met)]
        BY <1>2, <1>4 DEF Follows
      <3>2. Longer(img, out)
        BY <3>1, <1>1 DEF Longer
      <3>. QED
        BY <3>2, <1>4 DEF Follows
    <2>3. out[Len(met)] = met[Len(met)]
      BY <1>2, <1>4 DEF Follows
    <2>4. out[Len(met) + 1] = b
      BY <1>2, <1>4, <2>1, <2>2, <2>3 DEF Follows
    <2>5. \A i \in 1..Len(ext) : out[i] = ext[i]
      BY <1>2, <1>3, <1>4, <2>4 DEF Follows
    <2>6. \A i \in Len(ext)..(Len(out) - 1) :
            i <= Limit /\ img.next[out[i]] \in Block /\ out[i + 1] = img.next[out[i]]
      BY <1>2, <1>3, <1>4, <2>1 DEF Follows
    <2>. QED
      BY <1>2, <1>3, <1>4, <2>1, <2>2, <2>5, <2>6 DEF Follows
  <1>5. ASSUME Follows(img, ext, out) PROVE Follows(img, met, out)
    <2>1. out \in Walks /\ Len(out) \in Nat /\ Len(out) >= Len(met) + 1
      BY <1>2, <1>3, <1>5, WalkLen DEF Follows
    <2>2. /\ \A i \in 1..Len(met) : out[i] = met[i]
          /\ out[Len(met) + 1] = b
      BY <1>2, <1>3, <1>5 DEF Follows
    <2>3. out[Len(met)] = met[Len(met)]
      BY <1>2, <2>2
    <2>4. ASSUME NEW i \in Len(met)..(Len(out) - 1)
          PROVE  i <= Limit /\ img.next[out[i]] \in Block /\ out[i + 1] = img.next[out[i]]
      <3>1. CASE i = Len(met)
        BY <3>1, <1>1, <2>2, <2>3
      <3>2. CASE i # Len(met)
        <4>1. i \in Len(ext)..(Len(out) - 1)
          BY <3>2, <1>2, <1>3, <2>1
        <4>. QED
          BY <4>1, <1>5 DEF Follows
      <3>. QED
        BY <3>1, <3>2
    <2>. QED
      BY <1>2, <1>5, <2>1, <2>2, <2>4 DEF Follows
  <1>. QED
    BY <1>4, <1>5 DEF ext

LEMMA FollowsStop ==
    ASSUME NEW img, NEW met \in Walks, ~Longer(img, met)
    PROVE  \A out : Follows(img, met, out) <=> out = met
  <1>. TAKE out
  <1>1. Len(met) \in Nat /\ Len(met) >= 1
    BY WalkLen
  <1>2. Follows(img, met, met)
    BY <1>1 DEF Follows
  <1>3. ASSUME Follows(img, met, out) PROVE out = met
    <2>1. out \in Walks /\ Len(out) \in Nat /\ Len(out) >= Len(met)
      BY <1>3, WalkLen DEF Follows
    <2>2. out[Len(met)] = met[Len(met)]
      BY <1>1, <1>3 DEF Follows
    <2>3. Len(out) = Len(met)
      <3>. SUFFICES ASSUME Len(out) # Len(met) PROVE FALSE
        OBVIOUS
      <3>1. Len(met) \in Len(met)..(Len(out) - 1)
        BY <1>1, <2>1
      <3>2. Len(met) <= Limit /\ img.next[out[Len(met)]] \in Block
        BY <3>1, <1>3 DEF Follows
      <3>. QED
        BY <3>2, <2>2 DEF Longer
    <2>4. \A i \in 1..Len(met) : out[i] = met[i]
      BY <1>3 DEF Follows
    <2>5. out \in Seq(Block) /\ met \in Seq(Block)
      BY <2>1 DEF Walks
    <2>. QED
      BY <2>3, <2>4, <2>5, SeqEqual
  <1>. QED
    BY <1>2, <1>3

\* The function the definition of ChainFrom chooses exists: it takes every walk
\* to what follows it.
LEMMA WalkExists == ASSUME NEW img PROVE \E w : IsWalk(img, w)
  <1>. DEFINE F(met) == CHOOSE out : Follows(img, met, out)
              w == [met \in Walks |-> F(met)]
              e(met) == Append(met, img.next[met[Len(met)]])
  <1>1. ASSUME NEW met \in Walks
        PROVE  F(met) = IF Longer(img, met) THEN w[e(met)] ELSE met
    <2>1. CASE Longer(img, met)
      <3>1. e(met) \in Walks
        BY <2>1, WalkAppend DEF Longer
      <3>2. \A out : Follows(img, met, out) <=> Follows(img, e(met), out)
        BY <2>1, FollowsStep
      <3>. HIDE DEF e
      <3>3. F(met) = F(e(met))
        BY <3>2, Zenon
      <3>. HIDE DEF F
      <3>4. w[e(met)] = F(e(met))
        BY <3>1
      <3>. QED
        BY <2>1, <3>3, <3>4
    <2>2. CASE ~Longer(img, met)
      <3>1. \A out : Follows(img, met, out) <=> out = met
        BY <2>2, FollowsStop
      <3>2. F(met) = met
        BY <3>1, Zenon
      <3>. QED
        BY <2>2, <3>2, Zenon
    <2>. QED
      BY <2>1, <2>2
  <1>2. w = [met \in Walks |-> IF Longer(img, met) THEN w[e(met)] ELSE met]
    <2>. HIDE DEF F, e
    <2>1. \A v : (\A met \in Walks : F(met) = v[met]) => w = [met \in Walks |-> v[met]]
      OBVIOUS
    <2>2. PICK v : v = [met \in Walks |-> IF Longer(img, met) THEN w[e(met)] ELSE met]
      OBVIOUS
    <2>3. \A met \in Walks : F(met) = v[met]
      BY <1>1, <2>2
    <2>4. v = [met \in Walks |-> v[met]]
      BY <2>2
    <2>. QED
      BY <2>1, <2>2, <2>3, <2>4
  <1>3. IsWalk(img, w)
    BY <1>2, Zenon DEF IsWalk
  <1>. QED
    BY <1>3

LEMMA WalkFollows ==
    ASSUME NEW img, NEW w, IsWalk(img, w)
    PROVE  \A met \in Walks : Follows(img, met, w[met])
  <1>. DEFINE T == {k \in Nat : \A met \in Walks :
                        Len(met) + k > Limit => Follows(img, met, w[met])}
  <1>1. ASSUME NEW met \in Walks
        PROVE  w[met] = IF Longer(img, met)
                        THEN w[Append(met, img.next[met[Len(met)]])] ELSE met
    BY Zenon DEF IsWalk
  <1>2. 0 \in T
    <2>. SUFFICES ASSUME NEW met \in Walks, Len(met) + 0 > Limit
                  PROVE  Follows(img, met, w[met])
      OBVIOUS
    <2>1. ~Longer(img, met)
      BY LimitNat, WalkLen DEF Longer
    <2>. QED
      BY <1>1, <2>1, FollowsStop
  <1>3. ASSUME NEW k \in Nat, k \in T PROVE k + 1 \in T
    <2>. SUFFICES ASSUME NEW met \in Walks, Len(met) + (k + 1) > Limit
                  PROVE  Follows(img, met, w[met])
      OBVIOUS
    <2>1. CASE Longer(img, met)
      <3>. DEFINE b == img.next[met[Len(met)]]
      <3>1. b \in Block
        BY <2>1 DEF Longer
      <3>2. PICK ext \in Walks : ext = Append(met, b) /\ Len(ext) = Len(met) + 1
        BY <3>1, WalkAppend
      <3>3. Len(ext) + k > Limit
        BY <3>2, WalkLen, LimitNat
      <3>4. Follows(img, ext, w[ext])
        BY <1>3, <3>3
      <3>5. w[met] = w[ext]
        BY <1>1, <2>1, <3>2
      <3>. QED
        BY <2>1, <3>2, <3>4, <3>5, FollowsStep
    <2>2. CASE ~Longer(img, met)
      BY <1>1, <2>2, FollowsStop
    <2>. QED
      BY <2>1, <2>2
  <1>4. Nat \subseteq T
    <2>. HIDE DEF T
    <2>. QED
      BY <1>2, <1>3, SetInduction
  <1>. SUFFICES ASSUME NEW met \in Walks PROVE Follows(img, met, w[met])
    OBVIOUS
  <1>5. Limit + 1 \in T /\ Len(met) + (Limit + 1) > Limit
    BY <1>4, LimitNat, WalkLen
  <1>. QED
    BY <1>5

\* A maximal path: the blocks met from the first one on.
Path(img, p) ==
    /\ p \in Walks /\ Len(p) <= Limit + 1
    /\ \A i \in 1..(Len(p) - 1) : p[i + 1] = img.next[p[i]]
    /\ ~Longer(img, p)

LEMMA ChainPath ==
    ASSUME NEW img, NEW b \in Block
    PROVE  Path(img, ChainFrom(img, b)) /\ ChainFrom(img, b)[1] = b
  <1>. DEFINE w == CHOOSE w : IsWalk(img, w)
              c == ChainFrom(img, b)
  <1>1. c = w[<<b>>]
    BY DEF ChainFrom, IsWalk, Longer, Walks, Limit
  <1>2. IsWalk(img, w)
    BY WalkExists, Zenon
  <1>3. <<b>> \in Walks /\ Len(<<b>>) = 1 /\ <<b>>[1] = b
    BY DEF Walks
  <1>. HIDE DEF w, c
  <1>4. Follows(img, <<b>>, c)
    BY <1>1, <1>2, <1>3, WalkFollows
  <1>5. c \in Walks /\ Len(c) \in Nat /\ Len(c) >= 1
    BY <1>4, WalkLen DEF Follows
  <1>6. c[1] = b
    BY <1>3, <1>4 DEF Follows
  <1>7. \A i \in 1..(Len(c) - 1) : i <= Limit /\ c[i + 1] = img.next[c[i]]
    BY <1>3, <1>4 DEF Follows
  <1>8. Len(c) <= Limit + 1
    <2>. SUFFICES ASSUME Len(c) > Limit + 1 PROVE FALSE
      BY <1>5, LimitNat
    <2>1. Len(c) - 1 \in 1..(Len(c) - 1) /\ Len(c) - 1 > Limit
      BY <1>5, LimitNat
    <2>. QED
      BY <1>7, <2>1, LimitNat
  <1>. QED
    BY <1>4, <1>5, <1>6, <1>7, <1>8 DEF Path, Follows, c

\* There is only one.
LEMMA PathUnique ==
    ASSUME NEW img, NEW p, NEW q, Path(img, p), Path(img, q), p[1] = q[1]
    PROVE  p = q
  <1>1. /\ p \in Walks /\ q \in Walks /\ Len(p) \in Nat /\ Len(q) \in Nat
        /\ Len(p) >= 1 /\ Len(q) >= 1
    BY WalkLen DEF Path
  <1>. DEFINE T == {k \in Nat : k + 1 <= Len(p) /\ k + 1 <= Len(q) => p[k + 1] = q[k + 1]}
  <1>2. 0 \in T
    OBVIOUS
  <1>3. ASSUME NEW k \in Nat, k \in T PROVE k + 1 \in T
    <2>. SUFFICES ASSUME (k + 1) + 1 <= Len(p), (k + 1) + 1 <= Len(q)
                  PROVE  p[(k + 1) + 1] = q[(k + 1) + 1]
      OBVIOUS
    <2>1. k + 1 \in 1..(Len(p) - 1) /\ k + 1 \in 1..(Len(q) - 1)
      BY <1>1
    <2>2. p[k + 1] = q[k + 1]
      BY <1>1, <1>3
    <2>. QED
      BY <2>1, <2>2 DEF Path
  <1>4. Nat \subseteq T
    <2>. HIDE DEF T
    <2>. QED
      BY <1>2, <1>3, SetInduction
  <1>5. \A i \in Nat : i >= 1 /\ i <= Len(p) /\ i <= Len(q) => p[i] = q[i]
    <2>. SUFFICES ASSUME NEW i \in Nat, i >= 1, i <= Len(p), i <= Len(q) PROVE p[i] = q[i]
      OBVIOUS
    <2>1. i - 1 \in T /\ (i - 1) + 1 = i
      BY <1>4
    <2>. QED
      BY <2>1
  <1>. HIDE DEF T
  <1>6. ASSUME NEW r, NEW s, Path(img, r), Path(img, s), Len(r) \in Nat, Len(s) \in Nat,
               Len(r) >= 1, r[Len(r)] = s[Len(r)], s \in Walks
        PROVE  ~(Len(r) < Len(s))
    <2>. SUFFICES ASSUME Len(r) < Len(s) PROVE FALSE
      OBVIOUS
    <2>1. Len(r) \in 1..(Len(s) - 1) /\ Len(r) + 1 \in 1..Len(s) /\ Len(r) <= Limit
      BY <1>6, LimitNat DEF Path
    <2>2. s[Len(r) + 1] = img.next[r[Len(r)]]
      BY <1>6, <2>1 DEF Path
    <2>3. s[Len(r) + 1] \in Block
      BY <1>6, <2>1 DEF Walks
    <2>. QED
      BY <1>6, <2>1, <2>2, <2>3 DEF Path, Longer
  <1>7. ~(Len(p) < Len(q))
    <2>. SUFFICES ASSUME Len(p) < Len(q) PROVE FALSE
      OBVIOUS
    <2>1. p[Len(p)] = q[Len(p)]
      BY <1>1, <1>5
    <2>. QED
      BY <1>1, <1>6, <2>1
  <1>8. ~(Len(q) < Len(p))
    <2>. SUFFICES ASSUME Len(q) < Len(p) PROVE FALSE
      OBVIOUS
    <2>1. q[Len(q)] = p[Len(q)]
      BY <1>1, <1>5
    <2>. QED
      BY <1>1, <1>6, <2>1
  <1>9. Len(p) = Len(q)
    BY <1>1, <1>7, <1>8
  <1>10. \A i \in 1..Len(p) : p[i] = q[i]
    BY <1>1, <1>5, <1>9
  <1>11. p \in Seq(Block) /\ q \in Seq(Block)
    BY <1>1 DEF Walks
  <1>. QED
    BY <1>9, <1>10, <1>11, SeqEqual

LEMMA ChainIs ==
    ASSUME NEW img, NEW p, Path(img, p)
    PROVE  p[1] \in Block /\ ChainFrom(img, p[1]) = p
  <1>1. p \in Walks /\ Len(p) \in Nat /\ Len(p) >= 1
    BY WalkLen DEF Path
  <1>2. p[1] \in Block
    BY <1>1 DEF Walks
  <1>3. Path(img, ChainFrom(img, p[1])) /\ ChainFrom(img, p[1])[1] = p[1]
    BY <1>2, ChainPath
  <1>. QED
    BY <1>2, <1>3, PathUnique

LEMMA RangeOfWalk ==
    ASSUME NEW p \in Walks
    PROVE  /\ Range(p) \subseteq Block /\ p[1] \in Range(p)
           /\ \A i \in 1..Len(p) : p[i] \in Range(p)
           /\ \A x \in Range(p) : \E i \in 1..Len(p) : x = p[i]
           /\ p[Len(p)] \in Range(p) /\ Last(p) = p[Len(p)]
  <1>1. p \in Seq(Block) /\ Len(p) \in Nat /\ Len(p) >= 1 /\ DOMAIN p = 1..Len(p)
    BY WalkLen DEF Walks
  <1>2. \A i \in 1..Len(p) : p[i] \in Block
    BY <1>1
  <1>. QED
    BY <1>1, <1>2 DEF Range, Last

LEMMA ChainBlocks ==
    ASSUME NEW img, NEW b \in Block
    PROVE  /\ ChainFrom(img, b) \in Walks
           /\ Range(ChainFrom(img, b)) \subseteq Block /\ b \in Range(ChainFrom(img, b))
  <1>1. Path(img, ChainFrom(img, b)) /\ ChainFrom(img, b)[1] = b
    BY ChainPath
  <1>2. ChainFrom(img, b) \in Walks
    BY <1>1 DEF Path
  <1>. QED
    BY <1>1, <1>2, RangeOfWalk

\* A chain depends on the links of its own blocks only.
LEMMA ChainSame ==
    ASSUME NEW img, NEW new, NEW b \in Block,
           \A x \in Range(ChainFrom(img, b)) : new.next[x] = img.next[x]
    PROVE  /\ ChainFrom(new, b) = ChainFrom(img, b)
           /\ Ends(new, ChainFrom(new, b)) <=> Ends(img, ChainFrom(img, b))
  <1>. DEFINE p == ChainFrom(img, b)
  <1>1. Path(img, p) /\ p[1] = b
    BY ChainPath
  <1>. HIDE DEF p
  <1>2. p \in Walks /\ Len(p) \in Nat /\ Len(p) >= 1
    BY <1>1, WalkLen DEF Path
  <1>3. \A i \in 1..Len(p) : new.next[p[i]] = img.next[p[i]]
    BY <1>2, RangeOfWalk DEF p
  <1>4. Path(new, p)
    <2>1. new.next[p[Len(p)]] = img.next[p[Len(p)]]
      BY <1>2, <1>3
    <2>2. \A i \in 1..(Len(p) - 1) : p[i + 1] = new.next[p[i]]
      BY <1>1, <1>2, <1>3 DEF Path
    <2>. QED
      BY <1>1, <2>1, <2>2 DEF Path, Longer
  <1>5. ChainFrom(new, b) = p
    BY <1>1, <1>4, ChainIs
  <1>6. new.next[Last(p)] = img.next[Last(p)]
    BY <1>2, <1>3, RangeOfWalk
  <1>. QED
    BY <1>5, <1>6 DEF p, Ends

\* A set the links do not leave holds the whole chain of each of its blocks.
LEMMA ChainIn ==
    ASSUME NEW img, NEW S, S \subseteq Block, NEW b \in S,
           \A x \in S : img.next[x] \in Block => img.next[x] \in S
    PROVE  Range(ChainFrom(img, b)) \subseteq S
  <1>. DEFINE p == ChainFrom(img, b)
  <1>1. Path(img, p) /\ p[1] = b
    BY ChainPath
  <1>. HIDE DEF p
  <1>2. p \in Walks /\ Len(p) \in Nat /\ Len(p) >= 1 /\ p \in Seq(Block)
    BY <1>1, WalkLen DEF Path, Walks
  <1>. DEFINE T == {k \in Nat : k + 1 <= Len(p) => p[k + 1] \in S}
  <1>3. 0 \in T
    BY <1>1
  <1>4. ASSUME NEW k \in Nat, k \in T PROVE k + 1 \in T
    <2>. SUFFICES ASSUME (k + 1) + 1 <= Len(p) PROVE p[(k + 1) + 1] \in S
      OBVIOUS
    <2>1. k + 1 \in 1..(Len(p) - 1) /\ (k + 1) + 1 \in 1..Len(p)
      BY <1>2
    <2>2. p[k + 1] \in S
      BY <1>2, <1>4
    <2>3. p[(k + 1) + 1] = img.next[p[k + 1]] /\ p[(k + 1) + 1] \in Block
      BY <1>1, <1>2, <2>1 DEF Path
    <2>. QED
      BY <2>2, <2>3
  <1>5. Nat \subseteq T
    <2>. HIDE DEF T
    <2>. QED
      BY <1>3, <1>4, SetInduction
  <1>6. ASSUME NEW i \in 1..Len(p) PROVE p[i] \in S
    <2>0. i - 1 \in Nat /\ (i - 1) + 1 = i /\ i <= Len(p)
      BY <1>2
    <2>1. i - 1 \in T
      BY <1>5, <2>0
    <2>. QED
      BY <2>0, <2>1
  <1>. QED
    BY <1>2, <1>6, RangeOfWalk DEF p

Injective(p) == \A i, j \in 1..Len(p) : p[i] = p[j] => i = j

LEMMA InjectiveShort ==
    ASSUME NEW p \in Seq(Block), Injective(p)
    PROVE  Len(p) <= Limit
  <1>1. /\ IsFiniteSet(1..Tracks) /\ Cardinality(1..Tracks) = Tracks
        /\ IsFiniteSet(0..(Sectors - 1)) /\ Cardinality(0..(Sectors - 1)) = Sectors
    <2>1. /\ 1 \in Int /\ Tracks \in Int /\ 0 \in Int /\ Sectors - 1 \in Int
          /\ Tracks >= 1 /\ Sectors >= 1 /\ Sectors \in Int
      BY GeometryAssumption
    <2>2. IsFiniteSet(1..Tracks) /\ Cardinality(1..Tracks) = Tracks
      BY <2>1, FS_Interval
    <2>3. IsFiniteSet(0..(Sectors - 1)) /\ Cardinality(0..(Sectors - 1)) = (Sectors - 1) - 0 + 1
      <3>1. PICK a \in Int, z \in Int : a = 0 /\ z = Sectors - 1 /\ ~(a > z)
        BY <2>1
      <3>2. IsFiniteSet(a..z) /\ Cardinality(a..z) = z - a + 1
        BY <3>1, FS_Interval
      <3>. QED
        BY <3>1, <3>2
    <2>. QED
      BY <2>1, <2>2, <2>3
  <1>2. IsFiniteSet(Block) /\ Cardinality(Block) = Limit
    BY <1>1, FS_Product DEF Block, Limit
  <1>3. Len(p) \in Nat /\ p \in [1..Len(p) -> Block]
    OBVIOUS
  <1>4. IsFiniteSet(1..Len(p)) /\ Cardinality(1..Len(p)) = Len(p)
    BY <1>3, FS_Interval
  <1>. SUFFICES ASSUME Limit < Len(p) PROVE FALSE
    BY <1>3, LimitNat
  <1>5. \E i, j \in 1..Len(p) : i # j /\ p[i] = p[j]
    BY <1>2, <1>3, <1>4, FS_PigeonHole
  <1>. QED
    BY <1>5 DEF Injective

LEMMA Ranges ==
    /\ End \notin Block /\ FileBlocks \subseteq Block /\ DirBlocks \subseteq Block
    /\ FileBlocks \cap DirBlocks = {} /\ Block \subseteq Links /\ End \in Links
    /\ Unformatted \in Links /\ System \in DirBlocks /\ FirstDir \in DirBlocks
    /\ System # FirstDir /\ FileBlocks \cup DirBlocks = Block
    /\ End # Unformatted
  BY GeometryAssumption
     DEF Block, End, FileBlocks, DirBlocks, Links, Unformatted, System, FirstDir

\* A chain that ends has no cycle: from two equal blocks on the chain would
\* repeat itself, and its last block would have a successor.
LEMMA EndsInjective ==
    ASSUME NEW img, NEW b \in Block, Ends(img, ChainFrom(img, b))
    PROVE  Injective(ChainFrom(img, b)) /\ Len(ChainFrom(img, b)) <= Limit
  <1>. DEFINE p == ChainFrom(img, b)
  <1>1. Path(img, p) /\ p[1] = b
    BY ChainPath
  <1>2. img.next[Last(p)] = End
    BY DEF Ends
  <1>. HIDE DEF p
  <1>3. p \in Walks /\ Len(p) \in Nat /\ Len(p) >= 1 /\ p \in Seq(Block)
    BY <1>1, WalkLen DEF Path, Walks
  <1>4. Last(p) = p[Len(p)]
    BY <1>3, RangeOfWalk
  <1>5. ASSUME NEW i \in 1..Len(p), NEW j \in 1..Len(p), i < j, p[i] = p[j] PROVE FALSE
    <2>. DEFINE T == {k \in Nat : j + k <= Len(p) => p[i + k] = p[j + k]}
    <2>1. 0 \in T
      BY <1>3, <1>5
    <2>2. ASSUME NEW k \in Nat, k \in T PROVE k + 1 \in T
      <3>. SUFFICES ASSUME j + (k + 1) <= Len(p) PROVE p[i + (k + 1)] = p[j + (k + 1)]
        OBVIOUS
      <3>1. i + k \in 1..(Len(p) - 1) /\ j + k \in 1..(Len(p) - 1)
        BY <1>3, <1>5
      <3>2. p[i + k] = p[j + k]
        BY <1>3, <2>2
      <3>3. p[(i + k) + 1] = p[(j + k) + 1]
        <4>1. /\ p[(i + k) + 1] = img.next[p[i + k]]
              /\ p[(j + k) + 1] = img.next[p[j + k]]
          BY <1>1, <3>1 DEF Path
        <4>. QED
          BY <3>2, <4>1
      <3>4. (i + k) + 1 = i + (k + 1) /\ (j + k) + 1 = j + (k + 1)
        OBVIOUS
      <3>. QED
        BY <3>3, <3>4
    <2>3. Nat \subseteq T
      <3>. HIDE DEF T
      <3>. QED
        BY <2>1, <2>2, SetInduction, ZenonT(30)
    <2>4. PICK k \in Nat : j + k = Len(p)
      <3>1. Len(p) - j \in Nat /\ j + (Len(p) - j) = Len(p)
        BY <1>3
      <3>. QED
        BY <3>1
    <2>5. p[i + k] = p[Len(p)]
      BY <1>3, <2>3, <2>4
    <2>6. i + k \in 1..(Len(p) - 1) /\ (i + k) + 1 \in 1..Len(p)
      BY <1>3, <1>5, <2>4
    <2>7. p[(i + k) + 1] = End /\ p[(i + k) + 1] \in Block
      BY <1>1, <1>2, <1>3, <1>4, <2>5, <2>6 DEF Path
    <2>. QED
      BY <2>7, Ranges
  <1>6. Injective(p)
    <2>. SUFFICES ASSUME NEW i \in 1..Len(p), NEW j \in 1..Len(p), p[i] = p[j], i # j PROVE FALSE
      BY DEF Injective
    <2>1. i < j \/ j < i
      BY <1>3
    <2>. QED
      BY <1>5, <2>1
  <1>. QED
    BY <1>3, <1>6, InjectiveShort DEF p

-----------------------------------------------------------------------------
(* The directory.                                                          *)

Dir(img) == Range(DirChain(img))
Places(img) == Dir(img) \X (1..SlotsPerSector)
Live(img) == {s \in Places(img) : EntryAt(img, s).live}

LEMMA DivMod ==
    ASSUME NEW m \in Nat, NEW d \in Nat \ {0}
    PROVE  /\ m \div d \in Nat /\ m % d \in 0..(d - 1)
           /\ m = (m \div d) * d + (m % d)
  OBVIOUS

LEMMA DivModUnique ==
    ASSUME NEW a \in Nat, NEW r \in Nat, NEW d \in Nat \ {0}, r < d
    PROVE  (a * d + r) \div d = a /\ (a * d + r) % d = r
  OBVIOUS

LEMMA BelowProduct ==
    ASSUME NEW a \in Nat, NEW r \in Nat, NEW n \in Nat, NEW d \in Nat \ {0}, r < d
    PROVE  a * d + r < n * d <=> a < n
  <1>1. a < n => a * d + r < n * d
    OBVIOUS
  <1>2. a >= n => a * d >= n * d
    OBVIOUS
  <1>. QED
    BY <1>1, <1>2

LEMMA DirWalk == ASSUME NEW img PROVE DirChain(img) \in Walks /\ Dir(img) \subseteq Block
                                      /\ FirstDir \in Dir(img)
  BY ChainBlocks, Ranges DEF DirChain, Dir

\* seekEntry() visits every slot of every directory sector.
LEMMA SlotOrderRange == ASSUME NEW img PROVE Range(SlotOrder(img)) = Places(img)
  <1>. DEFINE chain == DirChain(img)
              d == SlotsPerSector
              place(i) == <<chain[((i - 1) \div d) + 1], ((i - 1) % d) + 1>>
              n == Len(chain)
  <1>1. chain \in Walks /\ n \in Nat /\ n >= 1 /\ d \in Nat \ {0}
    BY DirWalk, WalkLen, GeometryAssumption
  <1>2. SlotOrder(img) = [i \in 1..(n * d) |-> place(i)]
    BY DEF SlotOrder
  <1>3. /\ \A i \in 1..n : chain[i] \in Range(chain)
        /\ \A x \in Range(chain) : \E i \in 1..n : x = chain[i]
    BY <1>1, RangeOfWalk
  <1>. HIDE DEF chain, n, d
  <1>4. ASSUME NEW i \in 1..(n * d) PROVE place(i) \in Range(chain) \X (1..d)
    <2>1. PICK m \in Nat : m = i - 1 /\ m < n * d
      <3>1. n * d \in Nat
        BY <1>1
      <3>. QED
        BY <3>1
    <2>2. PICK a \in Nat, r \in Nat : a = m \div d /\ r = m % d /\ r < d /\ m = a * d + r
      BY <1>1, DivMod
    <2>3. a < n
      BY <1>1, <2>1, <2>2, BelowProduct
    <2>4. place(i) = <<chain[a + 1], r + 1>>
      BY <2>1, <2>2
    <2>5. a + 1 \in 1..n /\ r + 1 \in 1..d
      BY <1>1, <2>2, <2>3
    <2>. QED
      BY <1>3, <2>4, <2>5
  <1>5. ASSUME NEW x \in Range(chain), NEW k \in 1..d
        PROVE  \E i \in 1..(n * d) : <<x, k>> = place(i)
    <2>1. PICK j \in 1..n : x = chain[j]
      BY <1>3
    <2>2. PICK a \in Nat, r \in Nat : j = a + 1 /\ k = r + 1 /\ a < n /\ r < d
      <3>1. j - 1 \in Nat /\ k - 1 \in Nat /\ j = (j - 1) + 1 /\ k = (k - 1) + 1
            /\ j - 1 < n /\ k - 1 < d
        BY <1>1
      <3>. QED
        BY <3>1
    <2>3. a * d + r < n * d
      BY <1>1, <2>2, BelowProduct
    <2>4. (a * d + r) \div d = a /\ (a * d + r) % d = r
      BY <1>1, <2>2, DivModUnique
    <2>5. PICK m \in Nat : m = a * d + r
      BY <1>1
    <2>6. m + 1 \in 1..(n * d) /\ (m + 1) - 1 = m
      <3>1. n * d \in Nat
        BY <1>1
      <3>. QED
        BY <2>3, <2>5, <3>1
    <2>7. place(m + 1) = <<chain[a + 1], r + 1>>
      BY <2>4, <2>5, <2>6
    <2>. QED
      BY <2>1, <2>2, <2>6, <2>7
  <1>. HIDE DEF place
  <1>6. Range(SlotOrder(img)) = {place(i) : i \in 1..(n * d)}
    BY <1>2 DEF Range
  <1>7. Places(img) = Range(chain) \X (1..d)
    BY DEF Places, Dir, chain, d
  <1>. QED
    BY <1>4, <1>5, <1>6, <1>7

LEMMA LiveSlotsAre == ASSUME NEW img PROVE LiveSlots(img) = Live(img)
  BY SlotOrderRange DEF LiveSlots, Live

LEMMA SlotOrderDomain ==
    ASSUME NEW img
    PROVE  /\ DOMAIN SlotOrder(img) \subseteq Nat
           /\ \A i \in DOMAIN SlotOrder(img) : SlotOrder(img)[i] \in Places(img)
           /\ \A s \in Places(img) : \E i \in DOMAIN SlotOrder(img) : s = SlotOrder(img)[i]
  <1>1. DOMAIN SlotOrder(img) \subseteq Nat
    BY DEF SlotOrder
  <1>. QED
    BY <1>1, SlotOrderRange DEF Range

LEMMA MinOfSet ==
    ASSUME NEW T, T \subseteq Nat, T # {}
    PROVE  Min(T) \in T
  <1>1. \E x \in T : \A y \in T : x =< y
    BY NatSetMin
  <1>. QED
    BY <1>1, Zenon DEF Min

LEMMA NoPlace == ASSUME NEW img PROVE NoSlot \notin Places(img)
  BY GeometryAssumption DEF NoSlot, Places

\* What the searches of the directory find.
LEMMA SeekEntryFinds ==
    ASSUME NEW img, NEW n
    PROVE  \/ SeekEntry(img, n) = NoSlot
           \/ /\ SeekEntry(img, n) \in Live(img)
              /\ EntryAt(img, SeekEntry(img, n)).name = n
  <1>. DEFINE order == SlotOrder(img)
              hits == {i \in DOMAIN order : EntryAt(img, order[i]).live
                                             /\ EntryAt(img, order[i]).name = n}
  <1>1. SeekEntry(img, n) = IF hits = {} THEN NoSlot ELSE order[Min(hits)]
    BY DEF SeekEntry, FirstSlot
  <1>2. hits # {} => Min(hits) \in hits
    BY SlotOrderDomain, MinOfSet
  <1>. QED
    BY <1>1, <1>2, SlotOrderDomain DEF Live

LEMMA SeekScratchedFinds ==
    ASSUME NEW img, NEW n
    PROVE  \/ SeekScratchedEntry(img, n) = NoSlot
           \/ /\ SeekScratchedEntry(img, n) \in Places(img) \ Live(img)
              /\ EntryAt(img, SeekScratchedEntry(img, n)).name = n
  <1>. DEFINE order == SlotOrder(img)
              hits == {i \in DOMAIN order : ~EntryAt(img, order[i]).live
                                             /\ EntryAt(img, order[i]).name = n}
  <1>1. SeekScratchedEntry(img, n) = IF hits = {} THEN NoSlot ELSE order[Min(hits)]
    BY DEF SeekScratchedEntry, FirstSlot
  <1>2. hits # {} => Min(hits) \in hits
    BY SlotOrderDomain, MinOfSet
  <1>. QED
    BY <1>1, <1>2, SlotOrderDomain DEF Live

LEMMA FreeSlotFinds ==
    ASSUME NEW img, NEW s, s = FirstSlot(img, LAMBDA e : ~e.live)
    PROVE  s = NoSlot \/ s \in Places(img) \ Live(img)
  <1>. DEFINE order == SlotOrder(img)
              hits == {i \in DOMAIN order : ~EntryAt(img, order[i]).live}
  <1>1. s = IF hits = {} THEN NoSlot ELSE order[Min(hits)]
    BY DEF FirstSlot
  <1>2. hits # {} => Min(hits) \in hits
    BY SlotOrderDomain, MinOfSet
  <1>. QED
    BY <1>1, <1>2, SlotOrderDomain DEF Live

-----------------------------------------------------------------------------
(* The inductive invariant, stated of an image img, the streams strm, the  *)
(* running handler tsk, the saves done and the number n of saves begun.    *)

Image == [free : SUBSET Block, data : [Block -> Contents],
          next : {f \in [Links -> Links] : \A x \in Links \ Block : f[x] = End}]

\* The blocks of the file that the entry in slot s names.
Blocks(img, s) == Range(FileChain(img, s))
Held(strm, c) == Range(strm[c].held)

DirOK(img) ==
    /\ Ends(img, DirChain(img))
    /\ Dir(img) \subseteq DirBlocks \ {System}
    /\ \A b \in Dir(img) : img.data[b].kind = "dir" /\ b \notin img.free
    /\ System \notin img.free

\* Links of file blocks stay among file blocks; a sector outside the directory
\* does not link to a directory sector.
LinksOK(img) ==
    /\ \A b \in FileBlocks : img.next[b] \in FileBlocks \cup {End, Unformatted}
    /\ \A b \in DirBlocks \ Dir(img) : img.next[b] \notin DirBlocks

EntryOK(e) == /\ e.live => e.name # Nobody
              /\ e.name # Nobody => e.start \in FileBlocks
EntriesOK(img) == \A s \in Places(img) : EntryOK(EntryAt(img, s))

FilesApart(img) ==
    \A s, t \in Live(img) : s # t => Blocks(img, s) \cap Blocks(img, t) = {}

\* Every file but the one being scratched ends and is allocated.
FileOK(img, s) == Ends(img, FileChain(img, s)) /\ Blocks(img, s) \cap img.free = {}
FilesOK(img, but) == \A s \in Live(img) \ {but} : FileOK(img, s)

\* The file in slot s is the save id, whole.
FileData(id, i) == [kind |-> "file", id |-> id, index |-> i]
Holds(img, s, id) ==
    /\ Len(FileChain(img, s)) = EntryAt(img, s).blocks
    /\ \A i \in 1..EntryAt(img, s).blocks :
          img.data[FileChain(img, s)[i]] = FileData(id, i)
Kept(img, but, done) ==
    \A id \in done : \E s \in Live(img) \ {but} : Holds(img, s, id)

Sound(img, but, done) ==
    /\ img \in Image /\ DirOK(img) /\ LinksOK(img) /\ EntriesOK(img)
    /\ FilesApart(img) /\ FilesOK(img, but) /\ Kept(img, but, done)

But(tsk) == IF tsk.pc \in {"free", "clear"} THEN tsk.slot ELSE NoSlot
Finishing == {"slot", "extend", "dirLink", "undoDir", "entry", "newEntry"}
Finalizing(tsk, c) == tsk.h = c /\ tsk.pc \in Finishing \cup {"last"}
RollingBack(tsk, c) == tsk.h = c /\ tsk.pc = "rollback"

\* What the running handler claims besides the blocks of its save.
Extra(img, tsk) ==
    IF tsk.pc = "link" THEN {tsk.new}
    ELSE IF tsk.pc \in {"reclaim", "restore"} THEN Blocks(img, tsk.slot)
    ELSE {}

Apart(img, strm, tsk) ==
    /\ \A s \in Live(img) : Blocks(img, s) \cap Extra(img, tsk) = {}
    /\ \A s \in Live(img), c \in Channels : Blocks(img, s) \cap Held(strm, c) = {}
    /\ \A c, d \in Channels : c # d => Held(strm, c) \cap Held(strm, d) = {}
    /\ \A c \in Channels : Held(strm, c) \cap Extra(img, tsk) = {}

Streams(n) == [open : BOOLEAN, creating : BOOLEAN, error : BOOLEAN,
               name : Names \cup {Nobody}, id : 0..n, held : Seq(FileBlocks)]

StreamOK(s, busy, n) ==
    /\ s \in Streams(n) /\ Len(s.held) <= MaxBlocks /\ Injective(s.held)
    /\ s.creating => s.open
    /\ s.held # <<>> <=> s.creating \/ busy
    /\ s.open => s.name \in Names /\ s.id \in 1..n
StreamsOK(strm, tsk, n) ==
    /\ n \in Nat /\ strm \in [Channels -> Streams(n)]
    /\ \A c \in Channels : StreamOK(strm[c], Finalizing(tsk, c) \/ RollingBack(tsk, c), n)

\* The blocks of a save are allocated, linked and written, the last one once
\* the save is being finished.
Linked(img, s) ==
    \A i \in 1..(Len(s.held) - 1) :
        img.next[s.held[i]] = s.held[i + 1] /\ img.data[s.held[i]] = FileData(s.id, i)
SaveOK(img, s) == Range(s.held) \cap img.free = {} /\ Linked(img, s)
Closed(img, s) ==
    /\ img.next[s.held[Len(s.held)]] = End
    /\ img.data[s.held[Len(s.held)]] = FileData(s.id, Len(s.held))
SavesOK(img, strm, tsk) ==
    \A c \in Channels :
        /\ ~RollingBack(tsk, c) => SaveOK(img, strm[c])
        /\ tsk.h = c /\ tsk.pc \in Finishing => Closed(img, strm[c])

Tasks == [pc : Points, h : Handles, todo : Seq(Block), slot : Slots \cup {NoSlot},
          new : Block \cup {End}, then : {"return", "close", "begin"}]

\* Who runs.
WhoOK(strm, tsk) ==
    /\ tsk \in Tasks
    /\ tsk.pc \notin {"idle", "free", "clear", "reclaim", "restore"} => tsk.h \in Channels
    /\ tsk.pc \in {"idle", "reclaim", "restore"} => tsk.h = Shell
    /\ tsk.pc \in {"free", "clear"} /\ tsk.then # "return" => tsk.h \in Channels
    /\ tsk.h \in Channels /\ tsk.pc # "idle" => strm[tsk.h].open
    /\ tsk.h \in Channels /\ strm[tsk.h].creating => tsk.pc \in {"idle", "next", "link"}
    /\ tsk.pc \in {"next", "link"} =>
          strm[tsk.h].creating /\ Len(strm[tsk.h].held) < MaxBlocks

\* What the running handler relies on.
StepOK(img, strm, tsk) ==
    /\ tsk.pc \in {"free", "clear"} => tsk.slot \in Live(img)
    /\ tsk.pc = "free" => tsk.todo # <<>> /\ Range(tsk.todo) \subseteq Blocks(img, tsk.slot)
    /\ tsk.pc = "link" => tsk.new \in FileBlocks \ img.free
    /\ tsk.pc \in {"dirLink", "undoDir", "newEntry"} =>
          tsk.new \in DirBlocks \ (Dir(img) \cup {System} \cup img.free)
    /\ tsk.pc = "entry" => tsk.slot \in Places(img) \ Live(img)
    /\ tsk.pc = "rollback" => tsk.todo # <<>> /\ Range(tsk.todo) \subseteq Held(strm, tsk.h)
    /\ tsk.pc \in {"reclaim", "restore"} =>
          /\ tsk.slot \in Places(img) \ Live(img) /\ EntryAt(img, tsk.slot).name # Nobody
          /\ Ends(img, FileChain(img, tsk.slot))
          /\ Blocks(img, tsk.slot) \cap img.free \subseteq Range(tsk.todo)
    /\ tsk.pc = "reclaim" =>
          /\ tsk.todo # <<>> /\ Injective(tsk.todo)
          /\ Range(tsk.todo) \subseteq Blocks(img, tsk.slot) \cap img.free
    /\ tsk.pc = "restore" => tsk.todo = <<>>

Good(img, strm, tsk, done, n) ==
    /\ Sound(img, But(tsk), done) /\ Apart(img, strm, tsk)
    /\ StreamsOK(strm, tsk, n) /\ SavesOK(img, strm, tsk)
    /\ WhoOK(strm, tsk) /\ StepOK(img, strm, tsk)

\* The handle that holds a write in its buffer, and the image with that write.
Holding == {h \in Handles : pend[h] # <<>>}
Now == IF Holding = {} THEN image ELSE Seen(CHOOSE h \in Holding : TRUE)

Busy(h) == \/ h \in Channels /\ stream[h].open
           \/ h = Shell /\ task.pc # "idle" /\ task.h = Shell

PendOK ==
    /\ pend \in [Handles -> {<<>>} \cup {<<w>> : w \in Writes}]
    /\ \A h \in Handles : pend[h] # <<>> => buffered /\ Busy(h)
    /\ buffered => \A g, h \in Handles : Busy(g) /\ Busy(h) => g = h
    /\ \A h \in Handles :
          pend[h] # <<>> /\ pend[h][1].at \in CutPoints => Sound(image, NoSlot, acked)

\* The last directory sector is linked to the new one, which is not written.
NewLinked == task.pc = "newEntry" =>
    Now = [Visible EXCEPT !.next[Last(DirChain(Visible))] = task.new]

CountsOK ==
    /\ buffered \in BufferedHandles
    /\ saves \in 0..MaxSaves /\ trouble \in 0..MaxTrouble
    /\ lost \subseteq Block /\ acked \subseteq 1..saves

D64Inv ==
    /\ Good(Visible, stream, task, acked, saves)
    /\ image \in Image /\ PendOK /\ NewLinked /\ CountsOK

-----------------------------------------------------------------------------
(* Images that differ in little.                                           *)

LEMMA ImageFields ==
    ASSUME NEW img \in Image
    PROVE  /\ img.free \subseteq Block /\ img.next \in [Links -> Links]
           /\ img.data \in [Block -> Contents]
  BY DEF Image

\* The blocks of a file are file blocks.
LEMMA BlocksOfFile ==
    ASSUME NEW img \in Image, LinksOK(img), NEW s, EntryAt(img, s).start \in FileBlocks
    PROVE  /\ Blocks(img, s) \subseteq FileBlocks
           /\ FileChain(img, s) \in Walks
           /\ \A i \in 1..Len(FileChain(img, s)) : FileChain(img, s)[i] \in Blocks(img, s)
  <1>1. \A x \in FileBlocks : img.next[x] \in Block => img.next[x] \in FileBlocks
    BY Ranges, GeometryAssumption DEF LinksOK, Unformatted, FileBlocks, Block
  <1>2. PICK b \in FileBlocks : b = EntryAt(img, s).start
    OBVIOUS
  <1>3. Range(ChainFrom(img, b)) \subseteq FileBlocks /\ ChainFrom(img, b) \in Walks
    BY <1>1, Ranges, ChainIn, ChainBlocks
  <1>4. FileChain(img, s) = ChainFrom(img, b)
    BY <1>2 DEF FileChain
  <1>. QED
    BY <1>3, <1>4, RangeOfWalk DEF Blocks

LEMMA LiveStart ==
    ASSUME NEW img, EntriesOK(img), NEW s \in Live(img)
    PROVE  EntryAt(img, s).start \in FileBlocks /\ s \in Places(img)
  BY DEF EntriesOK, EntryOK, Live

\* The entries and the files of two images that differ in block b only.
Changed(img, new, b) ==
    /\ img \in Image /\ new \in Image /\ b \in Block
    /\ \A x \in Links \ {b} : new.next[x] = img.next[x]
    /\ \A x \in Block \ {b} : new.data[x] = img.data[x]

SameFile(img, new, s) ==
    /\ EntryAt(new, s) = EntryAt(img, s) /\ FileChain(new, s) = FileChain(img, s)
    /\ Ends(new, FileChain(new, s)) <=> Ends(img, FileChain(img, s))
    /\ \A x \in Blocks(img, s) : new.data[x] = img.data[x]

LEMMA ChangedDir ==
    ASSUME NEW img, NEW new, NEW b, Changed(img, new, b), b \notin Dir(img)
    PROVE  /\ DirChain(new) = DirChain(img) /\ Dir(new) = Dir(img)
           /\ Ends(new, DirChain(new)) <=> Ends(img, DirChain(img))
           /\ Places(new) = Places(img) /\ Live(new) = Live(img)
           /\ \A s \in Places(img) : EntryAt(new, s) = EntryAt(img, s)
  <1>1. \A x \in Range(ChainFrom(img, FirstDir)) : new.next[x] = img.next[x]
    BY DirWalk, Ranges DEF Changed, Dir, DirChain
  <1>2. /\ DirChain(new) = DirChain(img)
        /\ Ends(new, DirChain(new)) <=> Ends(img, DirChain(img))
    BY <1>1, ChainSame, Ranges DEF DirChain
  <1>3. Dir(new) = Dir(img) /\ Places(new) = Places(img)
    BY <1>2 DEF Dir, Places
  <1>4. ASSUME NEW s \in Places(img) PROVE EntryAt(new, s) = EntryAt(img, s)
    <2>1. s[1] \in Block \ {b}
      BY DirWalk DEF Places
    <2>. QED
      BY <2>1 DEF EntryAt, Changed
  <1>. QED
    BY <1>2, <1>3, <1>4 DEF Live

LEMMA ChangedFile ==
    ASSUME NEW img, NEW new, NEW b, Changed(img, new, b), b \notin Dir(img), LinksOK(img),
           NEW s \in Places(img), EntryAt(img, s).start \in FileBlocks, b \notin Blocks(img, s)
    PROVE  SameFile(img, new, s)
  <1>1. EntryAt(new, s) = EntryAt(img, s)
    BY ChangedDir
  <1>2. PICK a \in Block : a = EntryAt(img, s).start /\ a = EntryAt(new, s).start
    BY <1>1, Ranges
  <1>3. FileChain(img, s) = ChainFrom(img, a) /\ FileChain(new, s) = ChainFrom(new, a)
    BY <1>2 DEF FileChain
  <1>4. Blocks(img, s) \subseteq FileBlocks
    BY BlocksOfFile DEF Changed
  <1>5. \A x \in Blocks(img, s) : new.next[x] = img.next[x] /\ new.data[x] = img.data[x]
    BY <1>4, Ranges DEF Changed
  <1>6. /\ FileChain(new, s) = FileChain(img, s)
        /\ Ends(new, FileChain(new, s)) <=> Ends(img, FileChain(img, s))
    BY <1>3, <1>5, ChainSame DEF Blocks
  <1>. QED
    BY <1>1, <1>5, <1>6 DEF SameFile

LEMMA SameFileKeeps ==
    ASSUME NEW img \in Image, NEW new, NEW s, LinksOK(img), SameFile(img, new, s),
           EntryAt(img, s).start \in FileBlocks
    PROVE  /\ Blocks(new, s) = Blocks(img, s)
           /\ \A id : Holds(img, s, id) => Holds(new, s, id)
           /\ FileOK(img, s) /\ Blocks(img, s) \cap new.free = {} => FileOK(new, s)
  <1>1. Blocks(new, s) = Blocks(img, s)
    BY DEF SameFile, Blocks
  <1>2. ASSUME NEW id, Holds(img, s, id) PROVE Holds(new, s, id)
    <2>. DEFINE p == FileChain(img, s)
    <2>1. p \in Walks /\ \A i \in 1..Len(p) : p[i] \in Blocks(img, s)
      BY BlocksOfFile
    <2>2. /\ FileChain(new, s) = p /\ EntryAt(new, s) = EntryAt(img, s)
          /\ \A i \in 1..Len(p) : new.data[p[i]] = img.data[p[i]]
      BY <2>1 DEF SameFile
    <2>. HIDE DEF p
    <2>3. Len(p) = EntryAt(img, s).blocks
      BY <1>2 DEF Holds, p
    <2>4. \A i \in 1..Len(p) : img.data[p[i]] = FileData(id, i)
      BY <1>2, <2>3 DEF Holds, p
    <2>5. \A i \in 1..Len(p) : new.data[p[i]] = FileData(id, i)
      BY <2>2, <2>4
    <2>. QED
      BY <2>2, <2>3, <2>5 DEF Holds
  <1>3. FileOK(img, s) /\ Blocks(img, s) \cap new.free = {} => FileOK(new, s)
    BY <1>1 DEF FileOK, SameFile
  <1>. QED
    BY <1>1, <1>2, <1>3

\* A change of a block outside every file and the directory, that frees no
\* block of them, keeps an image sound.
Spares(img, new, but) ==
    /\ System \notin new.free
    /\ \A x \in Dir(img) : x \notin new.free
    /\ \A s \in Live(img) \ {but} : Blocks(img, s) \cap new.free = {}

LEMMA ChangedFiles ==
    ASSUME NEW img, NEW new, NEW b, NEW but, NEW done, Changed(img, new, b),
           Sound(img, but, done), b \notin Dir(img), \A s \in Live(img) : b \notin Blocks(img, s)
    PROVE  \A s \in Live(img) : SameFile(img, new, s) /\ Blocks(new, s) = Blocks(img, s)
  <1>. SUFFICES ASSUME NEW s \in Live(img)
                PROVE  SameFile(img, new, s) /\ Blocks(new, s) = Blocks(img, s)
    OBVIOUS
  <1>1. LinksOK(img) /\ EntriesOK(img) /\ img \in Image
    BY DEF Sound
  <1>2. EntryAt(img, s).start \in FileBlocks /\ s \in Places(img)
    BY <1>1, LiveStart
  <1>3. SameFile(img, new, s)
    BY <1>1, <1>2, ChangedFile
  <1>. QED
    BY <1>1, <1>2, <1>3, SameFileKeeps

LEMMA ChangedSound ==
    ASSUME NEW img, NEW new, NEW b, NEW but, NEW done, Changed(img, new, b),
           Sound(img, but, done), b \notin Dir(img), \A s \in Live(img) : b \notin Blocks(img, s),
           Spares(img, new, but),
           b \in FileBlocks => new.next[b] \in FileBlocks \cup {End, Unformatted},
           b \in DirBlocks => new.next[b] = img.next[b]
    PROVE  Sound(new, but, done)
  <1>1. /\ LinksOK(img) /\ EntriesOK(img) /\ img \in Image /\ DirOK(img)
        /\ FilesApart(img) /\ FilesOK(img, but) /\ Kept(img, but, done)
    BY DEF Sound
  <1>2. /\ Dir(new) = Dir(img) /\ Places(new) = Places(img) /\ Live(new) = Live(img)
        /\ Ends(new, DirChain(new)) <=> Ends(img, DirChain(img))
        /\ \A s \in Places(img) : EntryAt(new, s) = EntryAt(img, s)
    BY ChangedDir
  <1>3. \A s \in Live(img) : SameFile(img, new, s) /\ Blocks(new, s) = Blocks(img, s)
    BY ChangedFiles
  <1>4. \A s \in Live(img) : EntryAt(img, s).start \in FileBlocks
    BY <1>1, LiveStart
  <1>5. new \in Image
    BY DEF Changed
  <1>6. DirOK(new)
    <2>1. \A x \in Dir(img) : new.data[x] = img.data[x]
      BY DirWalk DEF Changed
    <2>. QED
      BY <1>1, <1>2, <2>1 DEF DirOK, Spares
  <1>7. LinksOK(new)
    <2>1. \A x \in Block \ {b} : new.next[x] = img.next[x]
      BY Ranges DEF Changed
    <2>2. \A x \in FileBlocks : new.next[x] \in FileBlocks \cup {End, Unformatted}
      BY <1>1, <2>1, Ranges DEF LinksOK
    <2>3. \A x \in DirBlocks \ Dir(new) : new.next[x] \notin DirBlocks
      BY <1>1, <1>2, <2>1, Ranges DEF LinksOK
    <2>. QED
      BY <2>2, <2>3 DEF LinksOK
  <1>8. EntriesOK(new)
    BY <1>1, <1>2 DEF EntriesOK
  <1>9. FilesApart(new)
    BY <1>1, <1>2, <1>3 DEF FilesApart
  <1>10. FilesOK(new, but)
    BY <1>1, <1>2, <1>3, <1>4, SameFileKeeps DEF FilesOK, Spares
  <1>11. Kept(new, but, done)
    BY <1>1, <1>2, <1>3, <1>4, SameFileKeeps DEF Kept
  <1>. QED
    BY <1>5, <1>6, <1>7, <1>8, <1>9, <1>10, <1>11 DEF Sound

\* A change of the allocation map alone.
LEMMA FreeChanged ==
    ASSUME NEW img, NEW new \in Image, NEW but, NEW done, Sound(img, but, done),
           new.next = img.next, new.data = img.data
    PROVE  /\ Changed(img, new, System) /\ System \notin Dir(img)
           /\ \A s \in Live(img) : System \notin Blocks(img, s)
           /\ Spares(img, new, but) => Sound(new, but, done)
  <1>1. /\ LinksOK(img) /\ EntriesOK(img) /\ img \in Image /\ DirOK(img)
    BY DEF Sound
  <1>2. Changed(img, new, System)
    BY <1>1, Ranges DEF Changed
  <1>3. System \notin Dir(img)
    BY <1>1 DEF DirOK
  <1>4. \A s \in Live(img) : System \notin Blocks(img, s)
    BY <1>1, LiveStart, BlocksOfFile, Ranges
  <1>. QED
    BY <1>2, <1>3, <1>4, ChangedSound, Ranges

-----------------------------------------------------------------------------
(* The streams and the saves under way.                                    *)

LEMMA HeldSeq ==
    ASSUME NEW n, NEW s \in Streams(n)
    PROVE  /\ s.held \in Seq(FileBlocks) /\ s.held \in Seq(Block) /\ Len(s.held) \in Nat
           /\ Range(s.held) \subseteq FileBlocks
           /\ \A i \in 1..Len(s.held) : s.held[i] \in Range(s.held)
           /\ \A x \in Range(s.held) : \E i \in 1..Len(s.held) : x = s.held[i]
           /\ s.held # <<>> <=> Len(s.held) > 0
  <1>1. s.held \in Seq(FileBlocks)
    BY DEF Streams
  <1>. DEFINE q == s.held
  <1>2. q \in Seq(FileBlocks)
    BY <1>1
  <1>. HIDE DEF q
  <1>3. /\ q \in Seq(Block) /\ Len(q) \in Nat /\ DOMAIN q = 1..Len(q)
        /\ \A i \in 1..Len(q) : q[i] \in FileBlocks
    BY <1>2, Ranges
  <1>4. q # <<>> <=> Len(q) > 0
    BY <1>2
  <1>. QED
    BY <1>2, <1>3, <1>4 DEF Range, q

LEMMA SaveSame ==
    ASSUME NEW img, NEW new, NEW b, NEW n, NEW s \in Streams(n), Changed(img, new, b),
           b \notin Range(s.held), SaveOK(img, s), Range(s.held) \cap new.free = {}
    PROVE  SaveOK(new, s)
  <1>. DEFINE q == s.held
  <1>1. Len(q) \in Nat /\ \A i \in 1..Len(q) : q[i] \in Range(q) /\ q[i] \in Block
    BY HeldSeq, Ranges
  <1>2. \A i \in 1..Len(q) : new.next[q[i]] = img.next[q[i]] /\ new.data[q[i]] = img.data[q[i]]
    BY <1>1, Ranges DEF Changed
  <1>3. \A i \in 1..(Len(q) - 1) : i \in 1..Len(q)
    BY <1>1
  <1>. QED
    BY <1>2, <1>3 DEF SaveOK, Linked

LEMMA ClosedSame ==
    ASSUME NEW img, NEW new, NEW b, NEW n, NEW s \in Streams(n), Changed(img, new, b),
           b \notin Range(s.held), s.held # <<>>, Closed(img, s)
    PROVE  Closed(new, s)
  <1>1. s.held[Len(s.held)] \in Range(s.held) /\ s.held[Len(s.held)] \in Block
    BY HeldSeq, Ranges
  <1>. QED
    BY <1>1, Ranges DEF Changed, Closed

\* Channel c's handler runs: what holds of the other channels.
OthersSafe(img, new, strm, c) ==
    \E b : /\ Changed(img, new, b)
           /\ \A d \in Channels \ {c} :
                 b \notin Held(strm, d) /\ Held(strm, d) \cap new.free = {}

SaveState(img, s, tsk, c) ==
    /\ ~RollingBack(tsk, c) => SaveOK(img, s)
    /\ tsk.h = c /\ tsk.pc \in Finishing => Closed(img, s)

LEMMA OtherSaves ==
    ASSUME NEW img, NEW new, NEW strm, NEW tsk, NEW n, NEW c \in Channels, NEW s2, NEW tsk2,
           OthersSafe(img, new, strm, c), StreamsOK(strm, tsk, n), SavesOK(img, strm, tsk),
           tsk.h = c, tsk2.h \in {c, Shell}, SaveState(new, s2, tsk2, c)
    PROVE  SavesOK(new, [strm EXCEPT ![c] = s2], tsk2)
  <1>. DEFINE strm2 == [strm EXCEPT ![c] = s2]
  <1>0. PICK b : /\ Changed(img, new, b)
                 /\ \A d \in Channels \ {c} :
                       b \notin Held(strm, d) /\ Held(strm, d) \cap new.free = {}
    BY DEF OthersSafe
  <1>1. strm \in [Channels -> Streams(n)] /\ Shell \notin Channels
    BY HandleAssumption DEF StreamsOK
  <1>2. strm2[c] = s2 /\ \A d \in Channels \ {c} : strm2[d] = strm[d]
    BY <1>1
  <1>3. ASSUME NEW d \in Channels \ {c} PROVE SaveOK(new, strm[d])
    <2>1. SaveOK(img, strm[d])
      BY DEF SavesOK, RollingBack
    <2>2. strm[d] \in Streams(n) /\ b \notin Range(strm[d].held)
          /\ Range(strm[d].held) \cap new.free = {}
      BY <1>0, <1>1 DEF Held
    <2>. QED
      BY <1>0, <2>1, <2>2, SaveSame
  <1>. HIDE DEF strm2
  <1>4. SavesOK(new, strm2, tsk2)
    BY <1>1, <1>2, <1>3 DEF SavesOK, SaveState
  <1>. QED
    BY <1>4 DEF strm2

AllSafe(img, new, strm) ==
    \E b : /\ Changed(img, new, b)
           /\ \A d \in Channels : b \notin Held(strm, d) /\ Held(strm, d) \cap new.free = {}

LEMMA SameSaves ==
    ASSUME NEW img, NEW new, NEW strm, NEW n, AllSafe(img, new, strm),
           strm \in [Channels -> Streams(n)], \A d \in Channels : SaveOK(img, strm[d])
    PROVE  \A d \in Channels : SaveOK(new, strm[d])
  <1>0. PICK b : /\ Changed(img, new, b)
                 /\ \A d \in Channels : b \notin Held(strm, d) /\ Held(strm, d) \cap new.free = {}
    BY DEF AllSafe
  <1>1. ASSUME NEW d \in Channels PROVE SaveOK(new, strm[d])
    <2>1. strm[d] \in Streams(n) /\ b \notin Range(strm[d].held)
          /\ Range(strm[d].held) \cap new.free = {}
      BY <1>0 DEF Held
    <2>. QED
      BY <1>0, <2>1, SaveSame
  <1>. QED
    BY <1>1

Busied(tsk, c) == Finalizing(tsk, c) \/ RollingBack(tsk, c)

LEMMA OtherStreams ==
    ASSUME NEW strm, NEW tsk, NEW n, NEW c \in Channels, NEW s2, NEW tsk2,
           StreamsOK(strm, tsk, n), tsk.h \in {c, Shell}, tsk2.h \in {c, Shell},
           StreamOK(s2, Busied(tsk2, c), n)
    PROVE  StreamsOK([strm EXCEPT ![c] = s2], tsk2, n)
  <1>. DEFINE strm2 == [strm EXCEPT ![c] = s2]
  <1>1. strm \in [Channels -> Streams(n)] /\ Shell \notin Channels
    BY HandleAssumption DEF StreamsOK
  <1>2. strm2[c] = s2 /\ (\A d \in Channels \ {c} : strm2[d] = strm[d]) /\ s2 \in Streams(n)
    BY <1>1 DEF StreamOK
  <1>3. strm2 \in [Channels -> Streams(n)]
    BY <1>1, <1>2
  <1>4. ASSUME NEW d \in Channels \ {c} PROVE StreamOK(strm2[d], Busied(tsk2, d), n)
    <2>1. StreamOK(strm[d], Busied(tsk, d), n)
      BY DEF StreamsOK, Busied
    <2>2. ~Busied(tsk, d) /\ ~Busied(tsk2, d)
      BY <1>1 DEF Busied, Finalizing, RollingBack
    <2>. QED
      BY <1>2, <2>1, <2>2 DEF StreamOK
  <1>. HIDE DEF strm2
  <1>5. StreamsOK(strm2, tsk2, n)
    BY <1>2, <1>3, <1>4 DEF StreamsOK, Busied
  <1>. QED
    BY <1>5 DEF strm2

LEMMA SameStreams ==
    ASSUME NEW strm, NEW tsk, NEW n, StreamsOK(strm, tsk, n), NEW tsk2,
           \A c \in Channels : Busied(tsk, c) <=> Busied(tsk2, c)
    PROVE  StreamsOK(strm, tsk2, n)
  BY DEF StreamsOK, StreamOK, Busied

\* No handler runs.
LEMMA IdleOK ==
    ASSUME NEW img, NEW strm
    PROVE  /\ Idle \in Tasks /\ Idle.pc = "idle" /\ Idle.h = Shell /\ Idle.todo = <<>>
           /\ Idle.slot = NoSlot /\ Idle.new = End /\ Idle.then = "return"
           /\ But(Idle) = NoSlot /\ Extra(img, Idle) = {} /\ WhoOK(strm, Idle)
           /\ StepOK(img, strm, Idle) /\ \A c \in Channels : ~Busied(Idle, c)
  <1>1. /\ Idle \in Tasks /\ Idle.pc = "idle" /\ Idle.h = Shell /\ Idle.todo = <<>>
        /\ Idle.slot = NoSlot /\ Idle.new = End /\ Idle.then = "return"
    BY DEF Idle, Tasks, Points, Handles
  <1>. HIDE DEF Idle
  <1>. QED
    BY <1>1, HandleAssumption
       DEF But, Extra, WhoOK, StepOK, Busied, Finalizing, RollingBack, Finishing

-----------------------------------------------------------------------------
(* Claiming and freeing blocks.                                            *)

\* Directory and files are the same.
Alike(img, new) ==
    /\ DirChain(new) = DirChain(img) /\ Dir(new) = Dir(img)
    /\ Places(new) = Places(img) /\ Live(new) = Live(img)
    /\ \A s \in Places(img) : EntryAt(new, s) = EntryAt(img, s)
    /\ \A s \in Places(img) :
          EntryAt(img, s).start \in FileBlocks =>
             SameFile(img, new, s) /\ Blocks(new, s) = Blocks(img, s)

FreedOnly(img, new) == new \in Image /\ new.next = img.next /\ new.data = img.data

LEMMA FreeAlike ==
    ASSUME NEW img, NEW new, NEW but, NEW done, Sound(img, but, done), FreedOnly(img, new)
    PROVE  /\ Changed(img, new, System) /\ Alike(img, new)
           /\ Spares(img, new, but) => Sound(new, but, done)
  <1>1. LinksOK(img) /\ img \in Image
    BY DEF Sound
  <1>2. /\ Changed(img, new, System) /\ System \notin Dir(img)
        /\ Spares(img, new, but) => Sound(new, but, done)
    BY FreeChanged DEF FreedOnly
  <1>3. ASSUME NEW s \in Places(img), EntryAt(img, s).start \in FileBlocks
        PROVE  SameFile(img, new, s) /\ Blocks(new, s) = Blocks(img, s)
    <2>1. System \notin Blocks(img, s)
      BY <1>1, <1>3, BlocksOfFile, Ranges
    <2>2. SameFile(img, new, s)
      BY <1>1, <1>2, <1>3, <2>1, ChangedFile
    <2>. QED
      BY <1>1, <1>3, <2>2, SameFileKeeps
  <1>. QED
    BY <1>2, <1>3, ChangedDir DEF Alike

LEMMA LiveAlike ==
    ASSUME NEW img, NEW new, EntriesOK(img), Alike(img, new)
    PROVE  /\ Live(new) = Live(img)
           /\ \A s \in Live(img) : Blocks(new, s) = Blocks(img, s)
  BY LiveStart DEF Alike

LEMMA SparesLess ==
    ASSUME NEW img, NEW new, NEW but, NEW done, Sound(img, but, done),
           new.free \subseteq img.free
    PROVE  Spares(img, new, but)
  BY DEF Sound, DirOK, FilesOK, FileOK, Spares

\* A free block belongs to nothing.
LEMMA FreeBlockUnused ==
    ASSUME NEW img, NEW strm, NEW tsk, NEW done, NEW n, Good(img, strm, tsk, done, n),
           NEW b \in img.free
    PROVE  /\ b \in Block /\ b \notin Dir(img) /\ b # System
           /\ \A s \in Live(img) \ {But(tsk)} : b \notin Blocks(img, s)
           /\ \A c \in Channels : ~RollingBack(tsk, c) => b \notin Held(strm, c)
  <1>1. img \in Image /\ DirOK(img) /\ FilesOK(img, But(tsk)) /\ SavesOK(img, strm, tsk)
    BY DEF Good, Sound
  <1>. QED
    BY <1>1, ImageFields DEF DirOK, FilesOK, FileOK, SavesOK, SaveOK, Held

\* No slot is the pseudo slot NoSlot.
LEMMA NotNoSlot == ASSUME NEW img PROVE Live(img) \ {NoSlot} = Live(img)
  BY NoPlace DEF Live

\* The files are the same; X belongs to nobody.
SameBlocks(img, new) ==
    Live(new) = Live(img) /\ \A s \in Live(img) : Blocks(new, s) = Blocks(img, s)
Unclaimed(img, strm, X) ==
    /\ \A s \in Live(img) : Blocks(img, s) \cap X = {}
    /\ \A c \in Channels : Held(strm, c) \cap X = {}

\* What claiming blocks keeps.
LEMMA Claiming ==
    ASSUME NEW img, NEW new, NEW strm, NEW tsk, NEW done, NEW n, Good(img, strm, tsk, done, n),
           FreedOnly(img, new), new.free \subseteq img.free
    PROVE  /\ Sound(new, But(tsk), done) /\ Alike(img, new) /\ Changed(img, new, System)
           /\ SameBlocks(img, new) /\ \A c \in Channels : System \notin Held(strm, c)
           /\ \A c \in Channels : ~RollingBack(tsk, c) => Held(strm, c) \cap new.free = {}
  <1>1. Sound(img, But(tsk), done) /\ StreamsOK(strm, tsk, n) /\ SavesOK(img, strm, tsk)
    BY DEF Good
  <1>2. EntriesOK(img)
    BY <1>1 DEF Sound
  <1>3. /\ Sound(new, But(tsk), done) /\ Alike(img, new) /\ Changed(img, new, System)
    BY <1>1, FreeAlike, SparesLess
  <1>4. SameBlocks(img, new)
    BY <1>2, <1>3, LiveAlike DEF SameBlocks
  <1>5. \A c \in Channels : System \notin Held(strm, c)
    BY <1>1, HeldSeq, Ranges DEF StreamsOK, Held
  <1>6. \A c \in Channels : ~RollingBack(tsk, c) => Held(strm, c) \cap new.free = {}
    BY <1>1 DEF SavesOK, SaveOK, Held
  <1>. QED
    BY <1>3, <1>4, <1>5, <1>6

\* The save of channel c gets X.
Grown(strm, strm2, c, X) ==
    /\ \A d \in Channels \ {c} : Held(strm2, d) = Held(strm, d)
    /\ Held(strm2, c) \subseteq Held(strm, c) \cup X
Fewer(strm, strm2) == \A d \in Channels : Held(strm2, d) \subseteq Held(strm, d)

LEMMA ApartGrows ==
    ASSUME NEW img, NEW new, NEW strm, NEW tsk, NEW strm2, NEW tsk2, NEW X, NEW c \in Channels,
           Apart(img, strm, tsk), SameBlocks(img, new), Unclaimed(img, strm, X),
           Grown(strm, strm2, c, X), Extra(new, tsk2) = {}
    PROVE  Apart(new, strm2, tsk2)
  <1>. USE DEF Grown
  <1>1. ASSUME NEW s \in Live(new), NEW d \in Channels
        PROVE  Blocks(new, s) \cap Held(strm2, d) = {}
    <2>1. /\ Blocks(img, s) \cap Held(strm, d) = {} /\ Blocks(new, s) = Blocks(img, s)
          /\ Blocks(img, s) \cap X = {}
      BY DEF Apart, SameBlocks, Unclaimed
    <2>2. Held(strm2, d) \subseteq Held(strm, d) \cup X
      OBVIOUS
    <2>. QED
      BY <2>1, <2>2
  <1>2. ASSUME NEW d \in Channels, NEW e \in Channels, d # e
        PROVE  Held(strm2, d) \cap Held(strm2, e) = {}
    <2>1. Held(strm, d) \cap Held(strm, e) = {}
      BY <1>2 DEF Apart
    <2>2. Held(strm, d) \cap X = {} /\ Held(strm, e) \cap X = {}
      BY DEF Unclaimed
    <2>3. \/ Held(strm2, d) = Held(strm, d) /\ Held(strm2, e) \subseteq Held(strm, e) \cup X
          \/ Held(strm2, e) = Held(strm, e) /\ Held(strm2, d) \subseteq Held(strm, d) \cup X
      BY <1>2
    <2>. QED
      BY <2>1, <2>2, <2>3
  <1>. QED
    BY <1>1, <1>2 DEF Apart

\* The running handler claims X besides its save.
LEMMA ApartClaims ==
    ASSUME NEW img, NEW new, NEW strm, NEW tsk, NEW strm2, NEW tsk2, NEW X,
           Apart(img, strm, tsk), SameBlocks(img, new), Unclaimed(img, strm, X),
           Fewer(strm, strm2), Extra(new, tsk2) \subseteq X
    PROVE  Apart(new, strm2, tsk2)
  <1>. USE DEF Fewer
  <1>1. ASSUME NEW s \in Live(new)
        PROVE  /\ Blocks(new, s) \cap Extra(new, tsk2) = {}
               /\ \A d \in Channels : Blocks(new, s) \cap Held(strm2, d) = {}
    <2>1. /\ \A d \in Channels : Blocks(img, s) \cap Held(strm, d) = {}
          /\ Blocks(new, s) = Blocks(img, s) /\ Blocks(img, s) \cap X = {}
      BY DEF Apart, SameBlocks, Unclaimed
    <2>. QED
      BY <2>1
  <1>2. ASSUME NEW d \in Channels, NEW e \in Channels, d # e
        PROVE  Held(strm2, d) \cap Held(strm2, e) = {}
    <2>1. Held(strm, d) \cap Held(strm, e) = {}
      BY <1>2 DEF Apart
    <2>. QED
      BY <2>1
  <1>3. ASSUME NEW d \in Channels PROVE Held(strm2, d) \cap Extra(new, tsk2) = {}
    BY DEF Unclaimed
  <1>. QED
    BY <1>1, <1>2, <1>3 DEF Apart

\* beginFileWrite() claims the first block of a save.
LEMMA BeginGood ==
    ASSUME NEW img, NEW new, NEW strm, NEW tsk, NEW done, NEW n, Good(img, strm, tsk, done, n),
           tsk.pc = "begin", NEW b \in img.free \cap FileBlocks,
           FreedOnly(img, new), new.free = img.free \ {b},
           NEW strm2, strm2 = [strm EXCEPT ![tsk.h].creating = TRUE, ![tsk.h].held = <<b>>]
    PROVE  Good(new, strm2, Idle, done, n)
  <1>1. PICK c \in Channels : c = tsk.h
    BY DEF Good, WhoOK
  <1>2. /\ StreamsOK(strm, tsk, n) /\ SavesOK(img, strm, tsk) /\ Apart(img, strm, tsk)
        /\ WhoOK(strm, tsk) /\ But(tsk) = NoSlot
    BY DEF Good, But
  <1>3. strm \in [Channels -> Streams(n)] /\ strm[c].open
    BY <1>1, <1>2 DEF StreamsOK, WhoOK
  <1>4. \A d \in Channels : ~RollingBack(tsk, d)
    BY DEF RollingBack
  <1>. DEFINE s2 == [strm[c] EXCEPT !.creating = TRUE, !.held = <<b>>]
  <1>5. strm2 = [strm EXCEPT ![c] = s2]
    BY <1>1, <1>3
  <1>6. /\ s2 \in Streams(n) /\ s2.creating = TRUE /\ s2.held = <<b>> /\ s2.open = strm[c].open
        /\ s2.name = strm[c].name /\ s2.id = strm[c].id
    <2>1. <<b>> \in Seq(FileBlocks)
      OBVIOUS
    <2>. QED
      BY <1>3, <2>1 DEF Streams
  <1>. HIDE DEF s2
  <1>7. Len(<<b>>) = 1 /\ <<b>>[1] = b /\ Range(<<b>>) = {b} /\ Injective(<<b>>) /\ <<b>> # <<>>
    BY DEF Range, Injective
  <1>8. StreamOK(s2, Busied(Idle, c), n)
    <2>1. StreamOK(strm[c], Busied(tsk, c), n)
      BY <1>2 DEF StreamsOK, Busied
    <2>2. 1 <= MaxBlocks
      BY BoundAssumption
    <2>. QED
      BY <1>3, <1>6, <1>7, <2>1, <2>2 DEF StreamOK
  <1>9. /\ Sound(new, NoSlot, done) /\ Changed(img, new, System)
        /\ SameBlocks(img, new)
        /\ \A d \in Channels : System \notin Held(strm, d) /\ Held(strm, d) \cap new.free = {}
    BY <1>2, <1>4, Claiming
  <1>10. /\ \A s \in Live(img) : b \notin Blocks(img, s)
         /\ \A d \in Channels : b \notin Held(strm, d)
    BY <1>2, <1>4, FreeBlockUnused, NotNoSlot
  <1>11. SaveOK(new, s2)
    BY <1>6, <1>7 DEF SaveOK, Linked
  <1>12. Idle.h = Shell /\ Idle.pc = "idle" /\ Idle.pc \notin Finishing /\ Shell \notin Channels
    BY IdleOK, HandleAssumption DEF Finishing
  <1>13. SavesOK(new, strm2, Idle)
    <2>1. OthersSafe(img, new, strm, c) /\ SaveState(new, s2, Idle, c)
      BY <1>9, <1>11, <1>12 DEF OthersSafe, SaveState
    <2>2. tsk.h = c /\ Idle.h \in {c, Shell}
      BY <1>1, <1>12
    <2>3. SavesOK(new, [strm EXCEPT ![c] = s2], Idle)
      BY <1>2, <2>1, <2>2, OtherSaves
    <2>. QED
      BY <1>5, <2>3
  <1>14. StreamsOK(strm2, Idle, n)
    <2>1. tsk.h \in {c, Shell} /\ Idle.h \in {c, Shell}
      BY <1>1, <1>12
    <2>2. StreamsOK([strm EXCEPT ![c] = s2], Idle, n)
      BY <1>2, <1>8, <2>1, OtherStreams
    <2>. QED
      BY <1>5, <2>2
  <1>15. Apart(new, strm2, Idle)
    <2>1. Held(strm2, c) = {b} /\ \A d \in Channels \ {c} : Held(strm2, d) = Held(strm, d)
      BY <1>3, <1>5, <1>6, <1>7 DEF Held
    <2>2. Extra(new, Idle) = {}
      BY IdleOK
    <2>3. SameBlocks(img, new) /\ Unclaimed(img, strm, {b})
      BY <1>9, <1>10 DEF Unclaimed
    <2>4. Grown(strm, strm2, c, {b})
      BY <2>1 DEF Grown
    <2>. QED
      BY <1>2, <2>2, <2>3, <2>4, ApartGrows
  <1>. QED
    BY <1>9, <1>13, <1>14, <1>15, IdleOK DEF Good

LEMMA TaskFields ==
    ASSUME NEW t \in Tasks
    PROVE  /\ t.pc \in Points /\ t.h \in Handles /\ t.todo \in Seq(Block)
           /\ t.slot \in Slots \cup {NoSlot} /\ t.new \in Block \cup {End}
           /\ t.then \in {"return", "close", "begin"}
  BY DEF Tasks

\* The handler of channel c runs in the middle of a save.
LEMMA Running ==
    ASSUME NEW img, NEW strm, NEW tsk, NEW done, NEW n, Good(img, strm, tsk, done, n),
           tsk.pc \notin {"idle", "free", "clear", "reclaim", "restore", "rollback"}
    PROVE  /\ tsk.h \in Channels /\ tsk \in Tasks /\ strm[tsk.h].open
           /\ strm \in [Channels -> Streams(n)] /\ strm[tsk.h] \in Streams(n)
           /\ StreamsOK(strm, tsk, n) /\ SavesOK(img, strm, tsk) /\ Apart(img, strm, tsk)
           /\ WhoOK(strm, tsk) /\ StepOK(img, strm, tsk) /\ Sound(img, NoSlot, done)
           /\ But(tsk) = NoSlot /\ (\A d \in Channels : ~RollingBack(tsk, d))
           /\ StreamOK(strm[tsk.h], Busied(tsk, tsk.h), n)
           /\ (\A d \in Channels : SaveOK(img, strm[d]))
  <1>1. /\ StreamsOK(strm, tsk, n) /\ SavesOK(img, strm, tsk) /\ Apart(img, strm, tsk)
        /\ WhoOK(strm, tsk) /\ StepOK(img, strm, tsk) /\ But(tsk) = NoSlot
        /\ Sound(img, NoSlot, done)
    BY DEF Good, But
  <1>2. tsk.h \in Channels /\ tsk \in Tasks /\ strm[tsk.h].open
    BY <1>1 DEF WhoOK
  <1>3. \A d \in Channels : ~RollingBack(tsk, d)
    BY DEF RollingBack
  <1>4. strm \in [Channels -> Streams(n)] /\ strm[tsk.h] \in Streams(n)
        /\ StreamOK(strm[tsk.h], Busied(tsk, tsk.h), n)
    BY <1>1, <1>2 DEF StreamsOK, Busied
  <1>. QED
    BY <1>1, <1>2, <1>3, <1>4 DEF SavesOK

\* rollbackFileWrite() begins.  The map may have given back a sector claimed
\* for the directory.
LEMMA UndoGood ==
    ASSUME NEW img, NEW new, NEW strm, NEW tsk, NEW done, NEW n, Good(img, strm, tsk, done, n),
           tsk.pc \in {"next", "link", "last"} \cup Finishing, FreedOnly(img, new),
           new.free \subseteq img.free \cup (DirBlocks \ (Dir(img) \cup {System})),
           NEW tsk2, tsk2 = [tsk EXCEPT !.pc = "rollback", !.todo = strm[tsk.h].held],
           NEW strm2, strm2 = [strm EXCEPT ![tsk.h].error = TRUE, ![tsk.h].creating = FALSE]
    PROVE  Good(new, strm2, tsk2, done, n)
  <1>0. tsk.pc \notin {"idle", "free", "clear", "reclaim", "restore", "rollback"}
    BY DEF Finishing
  <1>1. PICK c \in Channels : c = tsk.h
    BY <1>0, Running
  <1>2. /\ tsk \in Tasks /\ strm[c].open
        /\ strm \in [Channels -> Streams(n)] /\ strm[c] \in Streams(n)
        /\ StreamsOK(strm, tsk, n) /\ SavesOK(img, strm, tsk) /\ Apart(img, strm, tsk)
        /\ WhoOK(strm, tsk) /\ StepOK(img, strm, tsk) /\ Sound(img, NoSlot, done)
        /\ (\A d \in Channels : SaveOK(img, strm[d]))
        /\ StreamOK(strm[c], Busied(tsk, c), n)
    BY <1>0, <1>1, Running
  <1>. DEFINE s2 == [strm[c] EXCEPT !.error = TRUE, !.creating = FALSE]
  <1>3. strm2 = [strm EXCEPT ![c] = s2]
    BY <1>1, <1>2
  <1>4. /\ s2 \in Streams(n) /\ s2.creating = FALSE /\ s2.held = strm[c].held
        /\ s2.open = strm[c].open /\ s2.name = strm[c].name /\ s2.id = strm[c].id
    BY <1>2 DEF Streams
  <1>. HIDE DEF s2
  <1>5. strm[c].held \in Seq(Block)
    BY <1>2, HeldSeq
  <1>6. /\ tsk2 \in Tasks /\ tsk2.pc = "rollback" /\ tsk2.todo = strm[c].held /\ tsk2.h = c
    <2>1. "rollback" \in Points
      BY DEF Points
    <2>. QED
      BY <1>1, <1>2, <1>5, <2>1 DEF Tasks
  <1>7. strm[c].held # <<>>
    <2>1. strm[c].creating \/ Busied(tsk, c)
      BY <1>1, <1>2 DEF WhoOK, Busied, Finalizing
    <2>. QED
      BY <1>2, <2>1 DEF StreamOK
  <1>8. StreamOK(s2, Busied(tsk2, c), n)
    <2>1. Busied(tsk2, c)
      BY <1>6 DEF Busied, RollingBack
    <2>. QED
      BY <1>2, <1>4, <1>7, <2>1 DEF StreamOK
  <1>9. StreamsOK(strm2, tsk2, n)
    <2>1. tsk.h \in {c, Shell} /\ tsk2.h \in {c, Shell}
      BY <1>1, <1>6
    <2>2. StreamsOK([strm EXCEPT ![c] = s2], tsk2, n)
      BY <1>2, <1>8, <2>1, OtherStreams
    <2>. QED
      BY <1>3, <2>2
  <1>10. /\ Spares(img, new, NoSlot)
         /\ \A d \in Channels : System \notin Held(strm, d) /\ Held(strm, d) \cap new.free = {}
    <2>1. \A d \in Channels : Held(strm, d) \subseteq FileBlocks /\ Held(strm, d) \cap img.free = {}
      BY <1>2, HeldSeq DEF SaveOK, Held
    <2>2. \A s \in Live(img) : Blocks(img, s) \subseteq FileBlocks
      BY <1>2, LiveStart, BlocksOfFile DEF Sound
    <2>3. \A s \in Live(img) \ {NoSlot} : Blocks(img, s) \cap img.free = {}
      BY <1>2 DEF Sound, FilesOK, FileOK
    <2>4. (\A x \in Dir(img) : x \notin img.free) /\ System \notin img.free
      BY <1>2 DEF Sound, DirOK
    <2>. QED
      BY <2>1, <2>2, <2>3, <2>4, Ranges DEF Spares
  <1>11. Sound(new, NoSlot, done) /\ Changed(img, new, System) /\ Alike(img, new)
    BY <1>2, <1>10, FreeAlike
  <1>12. SavesOK(new, strm2, tsk2)
    <2>1. OthersSafe(img, new, strm, c)
      BY <1>10, <1>11 DEF OthersSafe
    <2>2. SaveState(new, s2, tsk2, c)
      BY <1>6 DEF SaveState, RollingBack, Finishing
    <2>3. tsk.h = c /\ tsk2.h \in {c, Shell}
      BY <1>1, <1>6
    <2>4. SavesOK(new, [strm EXCEPT ![c] = s2], tsk2)
      BY <1>2, <2>1, <2>2, <2>3, OtherSaves
    <2>. QED
      BY <1>3, <2>4
  <1>13. \A d \in Channels : Held(strm2, d) = Held(strm, d)
    BY <1>2, <1>3, <1>4 DEF Held
  <1>14. Apart(new, strm2, tsk2)
    <2>1. Extra(new, tsk2) = {}
      BY <1>6 DEF Extra
    <2>2. SameBlocks(img, new)
      BY <1>2, <1>11, LiveAlike DEF Sound, SameBlocks
    <2>3. Fewer(strm, strm2) /\ Unclaimed(img, strm, {})
      BY <1>13 DEF Fewer, Unclaimed
    <2>4. Extra(new, tsk2) \subseteq {}
      BY <2>1
    <2>. QED
      BY <1>2, <2>2, <2>3, <2>4, ApartClaims
  <1>15. WhoOK(strm2, tsk2)
    <2>1. strm2[c] = s2
      BY <1>2, <1>3
    <2>. QED
      BY <1>2, <1>4, <1>6, <2>1 DEF WhoOK
  <1>16. StepOK(new, strm2, tsk2)
    <2>1. Range(tsk2.todo) \subseteq Held(strm2, c)
      BY <1>6, <1>13 DEF Held
    <2>. QED
      BY <1>6, <1>7, <2>1 DEF StepOK
  <1>17. But(tsk2) = NoSlot
    BY <1>6 DEF But
  <1>. QED
    BY <1>9, <1>11, <1>12, <1>14, <1>15, <1>16, <1>17 DEF Good

\* The handler of a channel goes on to pc tsk2, having claimed blocks.
GoesOn(tsk, tsk2) ==
    /\ tsk2 \in Tasks /\ tsk2.h = tsk.h
    /\ \/ tsk.pc = "next" /\ tsk2.pc = "link"
       \/ tsk.pc \in Finishing /\ tsk2.pc \in Finishing

LEMMA GoesOnGood ==
    ASSUME NEW img, NEW new, NEW strm, NEW tsk, NEW tsk2, NEW done, NEW n,
           Good(img, strm, tsk, done, n), GoesOn(tsk, tsk2), FreedOnly(img, new),
           new.free \subseteq img.free, StepOK(new, strm, tsk2),
           Unclaimed(img, strm, Extra(new, tsk2))
    PROVE  Good(new, strm, tsk2, done, n)
  <1>0. /\ tsk.pc \notin {"idle", "free", "clear", "reclaim", "restore", "rollback"}
        /\ tsk2.pc \notin {"idle", "free", "clear", "reclaim", "restore", "rollback"}
    BY DEF Finishing, GoesOn
  <1>1. PICK c \in Channels : c = tsk.h
    BY <1>0, Running
  <1>2. /\ tsk \in Tasks /\ strm[c].open
        /\ strm \in [Channels -> Streams(n)] /\ strm[c] \in Streams(n)
        /\ StreamsOK(strm, tsk, n) /\ SavesOK(img, strm, tsk) /\ Apart(img, strm, tsk)
        /\ WhoOK(strm, tsk) /\ Sound(img, NoSlot, done) /\ But(tsk) = NoSlot
        /\ (\A d \in Channels : SaveOK(img, strm[d])) /\ (\A d \in Channels : ~RollingBack(tsk, d))
        /\ StreamOK(strm[c], Busied(tsk, c), n)
    BY <1>0, <1>1, Running
  <1>3. /\ Sound(new, NoSlot, done) /\ Changed(img, new, System) /\ SameBlocks(img, new)
        /\ \A d \in Channels : System \notin Held(strm, d) /\ Held(strm, d) \cap new.free = {}
    BY <1>2, Claiming
  <1>4. tsk2.h = c /\ But(tsk2) = NoSlot
    BY <1>0, <1>1 DEF GoesOn, But
  <1>5. StreamsOK(strm, tsk2, n)
    <2>1. \A d \in Channels : Busied(tsk, d) <=> Busied(tsk2, d)
      BY <1>1, <1>4 DEF Busied, Finalizing, RollingBack, Finishing, GoesOn
    <2>. QED
      BY <1>2, <2>1, SameStreams
  <1>6. SavesOK(new, strm, tsk2)
    <2>1. OthersSafe(img, new, strm, c)
      BY <1>3 DEF OthersSafe
    <2>2. SaveOK(new, strm[c])
      <3>1. System \notin Range(strm[c].held) /\ Range(strm[c].held) \cap new.free = {}
        BY <1>3 DEF Held
      <3>. QED
        BY <1>2, <1>3, <3>1, SaveSame
    <2>3. tsk2.pc \in Finishing => Closed(new, strm[c])
      <3>. SUFFICES ASSUME tsk2.pc \in Finishing PROVE Closed(new, strm[c])
        OBVIOUS
      <3>1. tsk.pc \in Finishing
        BY DEF GoesOn, Finishing
      <3>2. Closed(img, strm[c]) /\ strm[c].held # <<>>
        BY <1>1, <1>2, <3>1 DEF SavesOK, StreamOK, Busied, Finalizing
      <3>3. System \notin Range(strm[c].held)
        BY <1>3 DEF Held
      <3>. QED
        BY <1>2, <1>3, <3>2, <3>3, ClosedSame
    <2>4. SaveState(new, strm[c], tsk2, c)
      BY <2>2, <2>3 DEF SaveState
    <2>5. tsk.h = c /\ tsk2.h \in {c, Shell}
      BY <1>1, <1>4
    <2>6. SavesOK(new, [strm EXCEPT ![c] = strm[c]], tsk2)
      BY <1>2, <2>1, <2>4, <2>5, OtherSaves
    <2>7. [strm EXCEPT ![c] = strm[c]] = strm
      BY <1>2
    <2>. QED
      BY <2>6, <2>7
  <1>7. Apart(new, strm, tsk2)
    <2>1. Fewer(strm, strm)
      BY DEF Fewer
    <2>2. Extra(new, tsk2) \subseteq Extra(new, tsk2)
      OBVIOUS
    <2>. QED
      BY <1>2, <1>3, <2>1, <2>2, ApartClaims
  <1>8. WhoOK(strm, tsk2)
    BY <1>0, <1>1, <1>2, <1>4 DEF WhoOK, GoesOn, Finishing
  <1>. QED
    BY <1>3, <1>4, <1>5, <1>6, <1>7, <1>8 DEF Good

LEMMA FreedSelf ==
    ASSUME NEW img, NEW strm, NEW tsk, NEW done, NEW n, Good(img, strm, tsk, done, n)
    PROVE  FreedOnly(img, img) /\ img \in Image
  BY DEF FreedOnly, Good, Sound

\* writeFileNew() claims the next block.
LEMMA NextGood ==
    ASSUME NEW img, NEW new, NEW strm, NEW tsk, NEW done, NEW n, Good(img, strm, tsk, done, n),
           tsk.pc = "next", NEW b \in img.free \cap FileBlocks,
           FreedOnly(img, new), new.free = img.free \ {b},
           NEW tsk2, tsk2 = [tsk EXCEPT !.pc = "link", !.new = b]
    PROVE  Good(new, strm, tsk2, done, n)
  <1>1. tsk \in Tasks /\ But(tsk) = NoSlot /\ \A d \in Channels : ~RollingBack(tsk, d)
    BY Running
  <1>2. tsk2 \in Tasks /\ tsk2.pc = "link" /\ tsk2.new = b /\ tsk2.h = tsk.h
    <2>1. "link" \in Points /\ b \in Block
      BY Ranges DEF Points
    <2>. QED
      BY <1>1, <2>1 DEF Tasks
  <1>3. GoesOn(tsk, tsk2)
    BY <1>2 DEF GoesOn
  <1>4. StepOK(new, strm, tsk2)
    BY <1>2 DEF StepOK
  <1>5. Extra(new, tsk2) = {b}
    BY <1>2 DEF Extra
  <1>6. Unclaimed(img, strm, {b})
    BY <1>1, FreeBlockUnused, NotNoSlot DEF Unclaimed
  <1>7. new.free \subseteq img.free
    OBVIOUS
  <1>. QED
    BY <1>3, <1>4, <1>5, <1>6, <1>7, GoesOnGood

\* finalizeFileWrite() claims a sector for the directory.
LEMMA ExtendGood ==
    ASSUME NEW img, NEW new, NEW strm, NEW tsk, NEW done, NEW n, Good(img, strm, tsk, done, n),
           tsk.pc = "extend", NEW b \in img.free \cap DirBlocks,
           FreedOnly(img, new), new.free = img.free \ {b},
           NEW tsk2, tsk2 = [tsk EXCEPT !.pc = "dirLink", !.new = b]
    PROVE  Good(new, strm, tsk2, done, n)
  <1>1. tsk \in Tasks /\ Sound(img, NoSlot, done)
    BY Running
  <1>2. tsk2 \in Tasks /\ tsk2.pc = "dirLink" /\ tsk2.new = b /\ tsk2.h = tsk.h
    <2>1. "dirLink" \in Points /\ b \in Block
      BY Ranges DEF Points
    <2>. QED
      BY <1>1, <2>1 DEF Tasks
  <1>3. GoesOn(tsk, tsk2)
    BY <1>2 DEF GoesOn, Finishing
  <1>4. StepOK(new, strm, tsk2)
    <2>1. b \notin Dir(img) /\ b # System
      BY FreeBlockUnused
    <2>2. Dir(new) = Dir(img)
      BY <1>1, FreeAlike DEF Alike
    <2>. QED
      BY <1>2, <2>1, <2>2 DEF StepOK
  <1>5. Extra(new, tsk2) = {}
    BY <1>2 DEF Extra
  <1>6. Unclaimed(img, strm, {})
    BY DEF Unclaimed
  <1>7. new.free \subseteq img.free
    OBVIOUS
  <1>. QED
    BY <1>3, <1>4, <1>5, <1>6, <1>7, GoesOnGood

\* finalizeFileWrite() looks for a slot, and links a new sector to the
\* directory: what others see does not change.
LEMMA SlotGood ==
    ASSUME NEW img, NEW strm, NEW tsk, NEW done, NEW n, Good(img, strm, tsk, done, n),
           tsk.pc = "slot", NEW slot, slot = NoSlot \/ slot \in Places(img) \ Live(img), NEW tsk2,
           tsk2 = [tsk EXCEPT !.slot = slot, !.pc = IF slot = NoSlot THEN "extend" ELSE "entry"]
    PROVE  Good(img, strm, tsk2, done, n)
  <1>1. tsk \in Tasks /\ Sound(img, NoSlot, done)
    BY Running
  <1>2. slot \in Slots \cup {NoSlot}
    <2>1. Dir(img) \subseteq DirBlocks
      BY <1>1 DEF Sound, DirOK
    <2>. QED
      BY <2>1 DEF Places, Slots
  <1>3. /\ tsk2 \in Tasks /\ tsk2.slot = slot /\ tsk2.h = tsk.h
        /\ tsk2.pc = IF slot = NoSlot THEN "extend" ELSE "entry"
    BY <1>1, <1>2 DEF Tasks, Points
  <1>4. GoesOn(tsk, tsk2)
    BY <1>3 DEF GoesOn, Finishing
  <1>5. StepOK(img, strm, tsk2)
    BY <1>3 DEF StepOK
  <1>6. Extra(img, tsk2) = {} /\ Unclaimed(img, strm, {})
    BY <1>3 DEF Extra, Unclaimed
  <1>. QED
    BY <1>4, <1>5, <1>6, FreedSelf, GoesOnGood

LEMMA LinkDirGood ==
    ASSUME NEW img, NEW strm, NEW tsk, NEW done, NEW n, Good(img, strm, tsk, done, n),
           tsk.pc = "dirLink", NEW pc \in {"newEntry", "undoDir"}, NEW tsk2,
           tsk2 = [tsk EXCEPT !.pc = pc]
    PROVE  Good(img, strm, tsk2, done, n)
  <1>1. tsk \in Tasks /\ StepOK(img, strm, tsk)
    BY Running
  <1>2. /\ tsk2 \in Tasks /\ tsk2.new = tsk.new /\ tsk2.h = tsk.h /\ tsk2.pc = pc
    BY <1>1 DEF Tasks, Points
  <1>3. GoesOn(tsk, tsk2)
    BY <1>2 DEF GoesOn, Finishing
  <1>4. StepOK(img, strm, tsk2)
    BY <1>1, <1>2 DEF StepOK
  <1>5. Extra(img, tsk2) = {} /\ Unclaimed(img, strm, {})
    BY <1>2 DEF Extra, Unclaimed
  <1>. QED
    BY <1>3, <1>4, <1>5, FreedSelf, GoesOnGood

-----------------------------------------------------------------------------
(* Writing the blocks of a save.                                           *)

Written(img, new, b, nx, d) ==
    /\ Changed(img, new, b) /\ new.free = img.free
    /\ new.next[b] = nx /\ new.data[b] = d

LEMMA FileWritten ==
    ASSUME NEW img, NEW new, NEW strm, NEW tsk, NEW done, NEW n, Good(img, strm, tsk, done, n),
           tsk.pc \in {"link", "last"}, NEW b \in Held(strm, tsk.h), NEW d,
           NEW nx \in FileBlocks \cup {End}, Written(img, new, b, nx, d)
    PROVE  /\ Sound(new, NoSlot, done) /\ SameBlocks(img, new)
           /\ OthersSafe(img, new, strm, tsk.h)
  <1>1. PICK c \in Channels : c = tsk.h
    BY Running
  <1>2. /\ strm \in [Channels -> Streams(n)] /\ Apart(img, strm, tsk) /\ Sound(img, NoSlot, done)
        /\ \A e \in Channels : SaveOK(img, strm[e])
    BY Running
  <1>3. b \in FileBlocks
    BY <1>1, <1>2, HeldSeq DEF Held
  <1>4. b \notin Dir(img)
    BY <1>2, <1>3, Ranges DEF Sound, DirOK
  <1>5. \A s \in Live(img) : b \notin Blocks(img, s)
    BY <1>1, <1>2 DEF Apart
  <1>6. Changed(img, new, b) /\ new.free = img.free /\ new.next[b] \in FileBlocks \cup {End, Unformatted}
    BY DEF Written
  <1>7. Spares(img, new, NoSlot)
    BY <1>2, <1>6, SparesLess
  <1>8. b \notin DirBlocks
    BY <1>3, Ranges
  <1>9. Sound(new, NoSlot, done)
    BY <1>2, <1>4, <1>5, <1>6, <1>7, <1>8, ChangedSound
  <1>10. SameBlocks(img, new)
    BY <1>2, <1>4, <1>5, <1>6, ChangedFiles, ChangedDir DEF SameBlocks
  <1>11. OthersSafe(img, new, strm, c)
    <2>1. \A e \in Channels \ {c} : b \notin Held(strm, e) /\ Held(strm, e) \cap new.free = {}
      BY <1>1, <1>2, <1>6 DEF Apart, SaveOK, Held
    <2>. QED
      BY <1>6, <2>1 DEF OthersSafe
  <1>. QED
    BY <1>1, <1>9, <1>10, <1>11

\* The blocks before the one that is written stay linked and written.
LEMMA EarlierBlocks ==
    ASSUME NEW img, NEW new, NEW n, NEW s \in Streams(n), Injective(s.held), s.held # <<>>,
           Linked(img, s), Changed(img, new, s.held[Len(s.held)])
    PROVE  Linked(new, s)
  <1>. DEFINE q == s.held
  <1>1. Len(q) \in Nat /\ Len(q) > 0 /\ \A i \in 1..Len(q) : q[i] \in Block
    BY HeldSeq, Ranges
  <1>. SUFFICES ASSUME NEW i \in 1..(Len(q) - 1)
                PROVE  new.next[q[i]] = q[i + 1] /\ new.data[q[i]] = FileData(s.id, i)
    BY DEF Linked
  <1>2. i \in 1..Len(q) /\ Len(q) \in 1..Len(q) /\ i # Len(q)
    BY <1>1
  <1>3. q[i] # q[Len(q)] /\ q[i] \in Block /\ q[i] \in Links
    BY <1>1, <1>2, Ranges DEF Injective
  <1>4. new.next[q[i]] = img.next[q[i]] /\ new.data[q[i]] = img.data[q[i]]
    BY <1>3 DEF Changed
  <1>. QED
    BY <1>4 DEF Linked

\* writeFileNew() writes the full block with its link.
LEMMA LinkGood ==
    ASSUME NEW img, NEW new, NEW strm, NEW tsk, NEW done, NEW n, Good(img, strm, tsk, done, n),
           tsk.pc = "link", NEW c, c = tsk.h, NEW q, q = strm[c].held,
           Written(img, new, q[Len(q)], tsk.new, FileData(strm[c].id, Len(q))),
           NEW strm2, strm2 = [strm EXCEPT ![c].held = Append(q, tsk.new)]
    PROVE  Good(new, strm2, Idle, done, n)
  <1>1. /\ c \in Channels /\ strm[c].open
        /\ strm \in [Channels -> Streams(n)] /\ strm[c] \in Streams(n)
        /\ StreamsOK(strm, tsk, n) /\ SavesOK(img, strm, tsk) /\ Apart(img, strm, tsk)
        /\ WhoOK(strm, tsk) /\ StepOK(img, strm, tsk) /\ SaveOK(img, strm[c])
        /\ StreamOK(strm[c], Busied(tsk, c), n)
    BY Running
  <1>2. PICK b \in FileBlocks : b = tsk.new /\ b \notin img.free
    BY <1>1 DEF StepOK
  <1>3. Extra(img, tsk) = {b}
    BY <1>2 DEF Extra
  <1>4. Unclaimed(img, strm, {b})
    BY <1>1, <1>3 DEF Apart, Unclaimed
  <1>5. b \notin Range(q)
    BY <1>1, <1>4 DEF Unclaimed, Held
  <1>6. strm[c].creating /\ Len(q) < MaxBlocks
    BY <1>1 DEF WhoOK
  <1>7. q # <<>> /\ Injective(q)
    BY <1>1, <1>6 DEF StreamOK
  <1>8. /\ q \in Seq(FileBlocks) /\ Len(q) \in Nat /\ Len(q) > 0
        /\ (\A i \in 1..Len(q) : q[i] \in Range(q))
        /\ (\A x \in Range(q) : \E i \in 1..Len(q) : x = q[i])
    BY <1>1, <1>7, HeldSeq
  <1>. DEFINE q2 == Append(q, b)
  <1>9. /\ q2 \in Seq(FileBlocks) /\ Len(q2) = Len(q) + 1 /\ q2[Len(q) + 1] = b /\ q2 # <<>>
        /\ \A i \in 1..Len(q) : q2[i] = q[i]
    BY <1>8
  <1>10. Range(q2) = Range(q) \cup {b}
    <2>1. DOMAIN q2 = 1..(Len(q) + 1) /\ DOMAIN q = 1..Len(q)
      BY <1>8, <1>9
    <2>2. 1..(Len(q) + 1) = 1..Len(q) \cup {Len(q) + 1}
      BY <1>8
    <2>. HIDE DEF q2
    <2>. QED
      BY <1>9, <2>1, <2>2, SMTT(30) DEF Range
  <1>. HIDE DEF q2
  <1>11. Injective(q2)
    <2>. SUFFICES ASSUME NEW i \in 1..Len(q2), NEW j \in 1..Len(q2), q2[i] = q2[j] PROVE i = j
      BY DEF Injective
    <2>1. (i \in 1..Len(q) \/ i = Len(q) + 1) /\ (j \in 1..Len(q) \/ j = Len(q) + 1)
      BY <1>8, <1>9
    <2>. QED
      BY <1>5, <1>7, <1>8, <1>9, <2>1, SMTT(30) DEF Injective
  <1>. DEFINE s2 == [strm[c] EXCEPT !.held = q2]
  <1>12. strm2 = [strm EXCEPT ![c] = s2]
    BY <1>1, <1>2 DEF q2
  <1>13. /\ s2 \in Streams(n) /\ s2.creating = strm[c].creating /\ s2.held = q2
         /\ s2.open = strm[c].open /\ s2.name = strm[c].name /\ s2.id = strm[c].id
    BY <1>1, <1>9 DEF Streams
  <1>. HIDE DEF s2
  <1>14. /\ Sound(new, NoSlot, done) /\ SameBlocks(img, new) /\ OthersSafe(img, new, strm, c)
    <2>1. q[Len(q)] \in Held(strm, c)
      BY <1>8 DEF Held
    <2>2. tsk.new \in FileBlocks \cup {End}
      BY <1>2
    <2>. QED
      BY <2>1, <2>2, FileWritten
  <1>15. StreamOK(s2, Busied(Idle, c), n)
    <2>1. Len(q2) <= MaxBlocks
      BY <1>6, <1>8, <1>9, BoundAssumption
    <2>. QED
      BY <1>1, <1>6, <1>9, <1>11, <1>13, <2>1 DEF StreamOK
  <1>16. SaveOK(new, s2)
    <2>1. Range(q2) \cap new.free = {}
      <3>1. Range(q) \cap img.free = {}
        BY <1>1 DEF SaveOK
      <3>2. new.free = img.free
        BY DEF Written
      <3>. QED
        BY <1>2, <1>10, <3>1, <3>2
    <2>2. ASSUME NEW i \in 1..(Len(q2) - 1)
          PROVE  new.next[q2[i]] = q2[i + 1] /\ new.data[q2[i]] = FileData(s2.id, i)
      <3>1. CASE i = Len(q)
        <4>1. q2[i] = q[i] /\ q2[i + 1] = b /\ i \in 1..Len(q)
          BY <1>8, <1>9, <3>1
        <4>2. new.next[q[i]] = tsk.new /\ new.data[q[i]] = FileData(strm[c].id, i)
          BY <3>1 DEF Written
        <4>. QED
          BY <1>2, <1>13, <4>1, <4>2
      <3>2. CASE i # Len(q)
        <4>1. i \in 1..(Len(q) - 1) /\ i \in 1..Len(q) /\ i + 1 \in 1..Len(q)
          BY <1>8, <1>9, <3>2
        <4>2. q2[i] = q[i] /\ q2[i + 1] = q[i + 1]
          BY <1>9, <4>1
        <4>3. Changed(img, new, strm[c].held[Len(strm[c].held)])
          BY DEF Written
        <4>4. PICK s \in Streams(n) : s = strm[c] /\ s.held = q /\ SaveOK(img, s)
          BY <1>1
        <4>5. Injective(s.held) /\ s.held # <<>> /\ Changed(img, new, s.held[Len(s.held)])
          BY <1>7, <4>3, <4>4
        <4>6. Linked(new, s)
          BY <4>4, <4>5, EarlierBlocks DEF SaveOK
        <4>7. new.next[q[i]] = q[i + 1] /\ new.data[q[i]] = FileData(strm[c].id, i)
          BY <4>1, <4>4, <4>6 DEF Linked
        <4>. QED
          BY <1>13, <4>2, <4>7
      <3>. QED
        BY <3>1, <3>2
    <2>. QED
      BY <1>13, <2>1, <2>2 DEF SaveOK, Linked
  <1>17. Idle.h = Shell /\ Idle.pc \notin Finishing /\ Idle.pc # "rollback" /\ Shell # c
    BY <1>1, IdleOK, HandleAssumption DEF Finishing
  <1>18. SavesOK(new, strm2, Idle)
    <2>1. SaveState(new, s2, Idle, c)
      BY <1>16, <1>17 DEF SaveState
    <2>2. tsk.h = c /\ Idle.h \in {c, Shell}
      BY <1>17
    <2>3. SavesOK(new, [strm EXCEPT ![c] = s2], Idle)
      BY <1>1, <1>14, <2>1, <2>2, OtherSaves
    <2>. QED
      BY <1>12, <2>3
  <1>19. StreamsOK(strm2, Idle, n)
    <2>1. tsk.h \in {c, Shell} /\ Idle.h \in {c, Shell}
      BY <1>17
    <2>2. StreamsOK([strm EXCEPT ![c] = s2], Idle, n)
      BY <1>1, <1>15, <2>1, OtherStreams
    <2>. QED
      BY <1>12, <2>2
  <1>20. Apart(new, strm2, Idle)
    <2>1. Grown(strm, strm2, c, {b})
      BY <1>1, <1>10, <1>12, <1>13 DEF Grown, Held
    <2>2. Extra(new, Idle) = {}
      BY IdleOK
    <2>. QED
      BY <1>1, <1>4, <1>14, <2>1, <2>2, ApartGrows
  <1>. QED
    BY <1>14, <1>18, <1>19, <1>20, IdleOK DEF Good

\* finalizeFileWrite() writes the last block.
LEMMA LastGood ==
    ASSUME NEW img, NEW new, NEW strm, NEW tsk, NEW done, NEW n, Good(img, strm, tsk, done, n),
           tsk.pc = "last", NEW c, c = tsk.h, NEW q, q = strm[c].held,
           Written(img, new, q[Len(q)], End, FileData(strm[c].id, Len(q))),
           NEW tsk2, tsk2 = [tsk EXCEPT !.pc = "slot"]
    PROVE  Good(new, strm, tsk2, done, n)
  <1>1. /\ c \in Channels /\ strm[c].open /\ tsk \in Tasks
        /\ strm \in [Channels -> Streams(n)] /\ strm[c] \in Streams(n)
        /\ StreamsOK(strm, tsk, n) /\ SavesOK(img, strm, tsk) /\ Apart(img, strm, tsk)
        /\ WhoOK(strm, tsk) /\ SaveOK(img, strm[c]) /\ StreamOK(strm[c], Busied(tsk, c), n)
    BY Running
  <1>2. tsk2 \in Tasks /\ tsk2.h = c /\ tsk2.pc = "slot"
    BY <1>1 DEF Tasks, Points
  <1>3. \A d \in Channels : Busied(tsk, d) <=> Busied(tsk2, d)
    BY <1>2 DEF Busied, Finalizing, RollingBack, Finishing
  <1>4. Busied(tsk, c)
    BY DEF Busied, Finalizing
  <1>5. q # <<>> /\ Injective(q)
    BY <1>1, <1>4 DEF StreamOK
  <1>6. Len(q) \in Nat /\ Len(q) > 0 /\ q[Len(q)] \in Range(q)
    BY <1>1, <1>5, HeldSeq
  <1>7. /\ Sound(new, NoSlot, done) /\ SameBlocks(img, new) /\ OthersSafe(img, new, strm, c)
    <2>1. q[Len(q)] \in Held(strm, c) /\ End \in FileBlocks \cup {End}
      BY <1>6 DEF Held
    <2>. QED
      BY <2>1, FileWritten
  <1>8. SaveOK(new, strm[c]) /\ Closed(new, strm[c])
    <2>1. PICK s \in Streams(n) : s = strm[c] /\ s.held = q /\ SaveOK(img, s)
      BY <1>1
    <2>2. Injective(s.held) /\ s.held # <<>> /\ Changed(img, new, s.held[Len(s.held)])
      BY <1>5, <2>1 DEF Written
    <2>3. Linked(new, s)
      BY <2>1, <2>2, EarlierBlocks DEF SaveOK
    <2>. QED
      BY <2>1, <2>3 DEF SaveOK, Closed, Written
  <1>9. SavesOK(new, strm, tsk2)
    <2>1. SaveState(new, strm[c], tsk2, c)
      BY <1>8 DEF SaveState
    <2>2. tsk.h = c /\ tsk2.h \in {c, Shell}
      BY <1>2
    <2>3. SavesOK(new, [strm EXCEPT ![c] = strm[c]], tsk2)
      BY <1>1, <1>7, <2>1, <2>2, OtherSaves
    <2>4. [strm EXCEPT ![c] = strm[c]] = strm
      BY <1>1
    <2>. QED
      BY <2>3, <2>4
  <1>10. StreamsOK(strm, tsk2, n)
    BY <1>1, <1>3, SameStreams
  <1>11. Apart(new, strm, tsk2)
    <2>1. Fewer(strm, strm) /\ Unclaimed(img, strm, {}) /\ Extra(new, tsk2) \subseteq {}
      BY <1>2 DEF Fewer, Unclaimed, Extra
    <2>. QED
      BY <1>1, <1>7, <2>1, ApartClaims
  <1>12. WhoOK(strm, tsk2) /\ StepOK(new, strm, tsk2) /\ But(tsk2) = NoSlot
    BY <1>1, <1>2 DEF WhoOK, StepOK, But
  <1>. QED
    BY <1>7, <1>9, <1>10, <1>11, <1>12 DEF Good

-----------------------------------------------------------------------------
(* Giving blocks back and reclaiming them, one after the other.            *)

LEMMA TailFacts ==
    ASSUME NEW q \in Seq(Block), q # <<>>
    PROVE  /\ Head(q) \in Block /\ Head(q) \in Range(q)
           /\ Tail(q) \in Seq(Block) /\ Range(Tail(q)) \subseteq Range(q)
           /\ Range(q) \subseteq Range(Tail(q)) \cup {Head(q)}
           /\ Len(q) = 1 <=> Tail(q) = <<>>
           /\ Injective(q) => Injective(Tail(q)) /\ Head(q) \notin Range(Tail(q))
  <1>1. Len(q) \in Nat /\ Len(q) > 0 /\ DOMAIN q = 1..Len(q) /\ \A i \in 1..Len(q) : q[i] \in Block
    OBVIOUS
  <1>. DEFINE r == Tail(q)
  <1>2. r \in Seq(Block) /\ Len(r) = Len(q) - 1 /\ \A i \in 1..Len(r) : r[i] = q[i + 1]
    BY <1>1
  <1>3. DOMAIN r = 1..Len(r) /\ (r = <<>> <=> Len(r) = 0)
    BY <1>2
  <1>. HIDE DEF r
  <1>4. Head(q) = q[1] /\ 1 \in 1..Len(q)
    BY <1>1
  <1>5. Range(r) \subseteq Range(q)
    <2>1. \A i \in 1..Len(r) : i + 1 \in 1..Len(q)
      BY <1>1, <1>2
    <2>. QED
      BY <1>1, <1>2, <1>3, <2>1 DEF Range
  <1>6. Range(q) \subseteq Range(r) \cup {Head(q)}
    <2>. SUFFICES ASSUME NEW i \in 1..Len(q) PROVE q[i] \in Range(r) \cup {q[1]}
      BY <1>1, <1>4 DEF Range
    <2>1. CASE i = 1
      BY <2>1
    <2>2. CASE i # 1
      <3>1. i - 1 \in 1..Len(r) /\ (i - 1) + 1 = i
        BY <1>1, <1>2, <2>2
      <3>. QED
        BY <1>2, <1>3, <3>1 DEF Range
    <2>. QED
      BY <2>1, <2>2
  <1>7. ASSUME Injective(q) PROVE Injective(r) /\ Head(q) \notin Range(r)
    <2>1. \A i \in 1..Len(r) : i + 1 \in 1..Len(q) /\ i + 1 # 1
      BY <1>1, <1>2
    <2>2. \A i, j \in 1..Len(r) : r[i] = r[j] => i + 1 = j + 1
      BY <1>2, <1>7, <2>1 DEF Injective
    <2>3. \A i, j \in 1..Len(r) : i + 1 = j + 1 => i = j
      BY <1>1, <1>2
    <2>4. \A i \in 1..Len(r) : r[i] # q[1]
      BY <1>2, <1>4, <1>7, <2>1 DEF Injective
    <2>. QED
      BY <1>3, <1>4, <2>2, <2>3, <2>4 DEF Injective, Range
  <1>8. Len(q) = 1 <=> r = <<>>
    BY <1>1, <1>2, <1>3
  <1>9. Head(q) \in Block /\ Head(q) \in Range(q)
    BY <1>1, <1>4 DEF Range
  <1>. QED
    BY <1>2, <1>5, <1>6, <1>7, <1>8, <1>9 DEF r

\* rollbackFileWrite() frees one block; the handler goes on, or ends and the
\* save of channel c is given up.
LEMMA RollbackGood ==
    ASSUME NEW img, NEW new, NEW strm, NEW tsk, NEW done, NEW n, Good(img, strm, tsk, done, n),
           tsk.pc = "rollback", NEW c, c = tsk.h, FreedOnly(img, new),
           new.free \subseteq img.free \cup {Head(tsk.todo)}, NEW tsk2, NEW s2,
           \/ Len(tsk.todo) = 1 /\ tsk2 = Idle /\ s2 \in {NoStream, [strm[c] EXCEPT !.held = <<>>]}
           \/ Len(tsk.todo) # 1 /\ tsk2 = [tsk EXCEPT !.todo = Tail(tsk.todo)] /\ s2 = strm[c]
    PROVE  Good(new, [strm EXCEPT ![c] = s2], tsk2, done, n)
  <1>1. /\ StreamsOK(strm, tsk, n) /\ SavesOK(img, strm, tsk) /\ Apart(img, strm, tsk)
        /\ WhoOK(strm, tsk) /\ StepOK(img, strm, tsk) /\ Sound(img, NoSlot, done)
    BY DEF Good, But
  <1>2. c \in Channels /\ tsk \in Tasks /\ strm[c].open /\ ~strm[c].creating
    BY <1>1 DEF WhoOK
  <1>3. /\ strm \in [Channels -> Streams(n)] /\ strm[c] \in Streams(n)
        /\ StreamOK(strm[c], Busied(tsk, c), n) /\ Busied(tsk, c)
    BY <1>1, <1>2 DEF StreamsOK, Busied, RollingBack
  <1>4. tsk.todo # <<>> /\ Range(tsk.todo) \subseteq Held(strm, c) /\ tsk.todo \in Seq(Block)
    BY <1>1, <1>2, TaskFields DEF StepOK
  <1>5. PICK b : b = Head(tsk.todo) /\ b \in Held(strm, c)
    BY <1>4, TailFacts
  <1>6. b \in FileBlocks
    BY <1>3, <1>5, HeldSeq DEF Held
  <1>7. /\ Spares(img, new, NoSlot)
        /\ \A d \in Channels \ {c} : System \notin Held(strm, d) /\ Held(strm, d) \cap new.free = {}
    <2>1. \A d \in Channels \ {c} : Held(strm, d) \cap img.free = {} /\ System \notin Held(strm, d)
      BY <1>1, <1>3, HeldSeq, Ranges DEF SavesOK, SaveOK, Held, RollingBack
    <2>2. \A d \in Channels \ {c} : b \notin Held(strm, d)
      BY <1>1, <1>2, <1>5 DEF Apart
    <2>3. \A s \in Live(img) : b \notin Blocks(img, s)
      BY <1>1, <1>2, <1>5 DEF Apart
    <2>4. b \notin Dir(img) /\ b # System
      BY <1>1, <1>6, Ranges DEF Sound, DirOK
    <2>5. Spares(img, img, NoSlot)
      BY <1>1, SparesLess
    <2>. QED
      BY <1>5, <2>1, <2>2, <2>3, <2>4, <2>5 DEF Spares
  <1>8. Sound(new, NoSlot, done) /\ Changed(img, new, System) /\ Alike(img, new)
    BY <1>1, <1>7, FreeAlike
  <1>9. SameBlocks(img, new) /\ OthersSafe(img, new, strm, c)
    <2>1. SameBlocks(img, new)
      BY <1>1, <1>8, LiveAlike DEF Sound, SameBlocks
    <2>. QED
      BY <1>7, <1>8, <2>1 DEF OthersSafe
  <1>10. /\ tsk2.h \in {c, Shell} /\ Extra(new, tsk2) = {} /\ But(tsk2) = NoSlot
         /\ StreamOK(s2, Busied(tsk2, c), n) /\ SaveState(new, s2, tsk2, c)
         /\ Range(s2.held) \subseteq Held(strm, c) /\ WhoOK([strm EXCEPT ![c] = s2], tsk2)
         /\ StepOK(new, [strm EXCEPT ![c] = s2], tsk2)
    <2>1. CASE Len(tsk.todo) = 1
      <3>1. tsk2 = Idle /\ s2 \in {NoStream, [strm[c] EXCEPT !.held = <<>>]}
        BY <2>1
      <3>2. s2.held = <<>> /\ ~s2.creating /\ s2 \in Streams(n)
            /\ (s2.open => s2.name = strm[c].name /\ s2.id = strm[c].id)
        <4>1. CASE s2 = NoStream
          <5>1. n \in Nat
            BY <1>1 DEF StreamsOK
          <5>. QED
            BY <4>1, <5>1 DEF NoStream, Streams
        <4>2. CASE s2 = [strm[c] EXCEPT !.held = <<>>]
          <5>1. <<>> \in Seq(FileBlocks)
            OBVIOUS
          <5>. QED
            BY <1>2, <1>3, <4>2, <5>1 DEF Streams
        <4>. QED
          BY <3>1, <4>1, <4>2
      <3>3. Range(<<>>) = {} /\ Len(<<>>) = 0 /\ Injective(<<>>) /\ 0 <= MaxBlocks
        BY BoundAssumption DEF Range, Injective
      <3>4. StreamOK(s2, FALSE, n)
        BY <1>2, <1>3, <3>2, <3>3 DEF StreamOK
      <3>5. SaveOK(new, s2)
        BY <3>2, <3>3 DEF SaveOK, Linked
      <3>6. Idle.h = Shell /\ Shell # c /\ ~Busied(Idle, c)
        BY <1>2, IdleOK, HandleAssumption
      <3>7. StreamOK(s2, Busied(tsk2, c), n)
        BY <3>1, <3>4, <3>6 DEF StreamOK
      <3>8. SaveState(new, s2, tsk2, c)
        BY <3>1, <3>5, <3>6 DEF SaveState
      <3>. QED
        BY <3>1, <3>2, <3>3, <3>6, <3>7, <3>8, IdleOK
    <2>2. CASE Len(tsk.todo) # 1
      <3>1. tsk2 = [tsk EXCEPT !.todo = Tail(tsk.todo)] /\ s2 = strm[c]
        BY <2>2
      <3>2. PICK r : /\ r = Tail(tsk.todo) /\ r \in Seq(Block) /\ r # <<>>
                     /\ Range(r) \subseteq Held(strm, c)
        BY <1>4, <2>2, TailFacts
      <3>3. tsk2 \in Tasks /\ tsk2.pc = "rollback" /\ tsk2.h = c /\ tsk2.todo = r
        BY <1>2, <3>1, <3>2 DEF Tasks
      <3>4. [strm EXCEPT ![c] = s2] = strm
        BY <1>3, <3>1
      <3>5. Busied(tsk2, c) /\ RollingBack(tsk2, c)
        BY <3>3 DEF Busied, RollingBack
      <3>6. StreamOK(s2, Busied(tsk2, c), n)
        BY <1>3, <3>1, <3>5 DEF StreamOK
      <3>7. SaveState(new, s2, tsk2, c)
        BY <3>3, <3>5 DEF SaveState, Finishing
      <3>8. WhoOK(strm, tsk2) /\ StepOK(new, strm, tsk2)
        BY <1>2, <3>2, <3>3 DEF WhoOK, StepOK
      <3>9. Extra(new, tsk2) = {} /\ But(tsk2) = NoSlot
        BY <3>3 DEF Extra, But
      <3>10. Range(s2.held) \subseteq Held(strm, c)
        BY <3>1 DEF Held
      <3>. QED
        BY <3>3, <3>4, <3>6, <3>7, <3>8, <3>9, <3>10
    <2>. QED
      BY <2>1, <2>2
  <1>. DEFINE strm2 == [strm EXCEPT ![c] = s2]
  <1>11. SavesOK(new, strm2, tsk2)
    BY <1>1, <1>2, <1>9, <1>10, OtherSaves
  <1>12. StreamsOK(strm2, tsk2, n)
    BY <1>1, <1>2, <1>10, OtherStreams
  <1>13. Apart(new, strm2, tsk2)
    <2>1. strm2[c] = s2 /\ \A d \in Channels \ {c} : strm2[d] = strm[d]
      BY <1>2, <1>3
    <2>. HIDE DEF strm2
    <2>2. Fewer(strm, strm2)
      BY <1>10, <2>1 DEF Fewer, Held
    <2>3. Unclaimed(img, strm, {}) /\ Extra(new, tsk2) \subseteq {}
      BY <1>10 DEF Unclaimed
    <2>. QED
      BY <1>1, <1>9, <2>2, <2>3, ApartClaims
  <1>. QED
    BY <1>8, <1>10, <1>11, <1>12, <1>13 DEF Good

\* A handler that has no save of its own.
LEMMA Aside ==
    ASSUME NEW img, NEW strm, NEW tsk, NEW done, NEW n, Good(img, strm, tsk, done, n),
           tsk.pc \in {"idle", "free", "clear", "reclaim", "restore"}
    PROVE  /\ tsk \in Tasks /\ strm \in [Channels -> Streams(n)]
           /\ StreamsOK(strm, tsk, n) /\ SavesOK(img, strm, tsk) /\ Apart(img, strm, tsk)
           /\ WhoOK(strm, tsk) /\ StepOK(img, strm, tsk) /\ Sound(img, But(tsk), done)
           /\ (\A d \in Channels : ~RollingBack(tsk, d) /\ ~Busied(tsk, d))
           /\ (\A d \in Channels : SaveOK(img, strm[d]))
           /\ (\A d \in Channels : Held(strm, d) \cap img.free = {} /\ System \notin Held(strm, d)
                                   /\ Held(strm, d) \subseteq FileBlocks)
  <1>1. /\ StreamsOK(strm, tsk, n) /\ SavesOK(img, strm, tsk) /\ Apart(img, strm, tsk)
        /\ WhoOK(strm, tsk) /\ StepOK(img, strm, tsk) /\ Sound(img, But(tsk), done)
    BY DEF Good
  <1>2. tsk \in Tasks /\ strm \in [Channels -> Streams(n)]
    BY <1>1 DEF WhoOK, StreamsOK
  <1>3. \A d \in Channels : ~RollingBack(tsk, d) /\ ~Busied(tsk, d)
    BY DEF RollingBack, Busied, Finalizing, Finishing
  <1>4. \A d \in Channels : SaveOK(img, strm[d])
    BY <1>1, <1>3 DEF SavesOK
  <1>5. \A d \in Channels : Held(strm, d) \cap img.free = {} /\ System \notin Held(strm, d)
                            /\ Held(strm, d) \subseteq FileBlocks
    BY <1>2, <1>4, HeldSeq, Ranges DEF SaveOK, Held
  <1>. QED
    BY <1>1, <1>2, <1>3, <1>4, <1>5

\* scratchEntry() frees one block.
LEMMA FreeGood ==
    ASSUME NEW img, NEW new, NEW strm, NEW tsk, NEW done, NEW n, Good(img, strm, tsk, done, n),
           tsk.pc = "free", FreedOnly(img, new),
           new.free \subseteq img.free \cup {Head(tsk.todo)}, NEW tsk2,
           tsk2 = [tsk EXCEPT !.todo = Tail(tsk.todo),
                              !.pc = IF Len(tsk.todo) = 1 THEN "clear" ELSE tsk.pc]
    PROVE  Good(new, strm, tsk2, done, n)
  <1>1. /\ tsk \in Tasks /\ strm \in [Channels -> Streams(n)]
        /\ StreamsOK(strm, tsk, n) /\ SavesOK(img, strm, tsk) /\ Apart(img, strm, tsk)
        /\ WhoOK(strm, tsk) /\ StepOK(img, strm, tsk) /\ Sound(img, tsk.slot, done)
        /\ (\A d \in Channels : ~Busied(tsk, d) /\ SaveOK(img, strm[d]))
        /\ (\A d \in Channels : Held(strm, d) \cap img.free = {} /\ System \notin Held(strm, d))
    BY Aside DEF But
  <1>2. /\ tsk.todo # <<>> /\ tsk.todo \in Seq(Block) /\ tsk.slot \in Live(img)
        /\ Range(tsk.todo) \subseteq Blocks(img, tsk.slot)
    BY <1>1, TaskFields DEF StepOK
  <1>3. PICK b : b = Head(tsk.todo) /\ b \in Blocks(img, tsk.slot)
    BY <1>2, TailFacts
  <1>4. PICK r : /\ r = Tail(tsk.todo) /\ r \in Seq(Block) /\ (Len(tsk.todo) = 1 <=> r = <<>>)
                 /\ Range(r) \subseteq Blocks(img, tsk.slot)
    BY <1>2, TailFacts
  <1>5. /\ tsk2 \in Tasks /\ tsk2.todo = r /\ tsk2.slot = tsk.slot /\ tsk2.h = tsk.h
        /\ tsk2.then = tsk.then /\ tsk2.pc = IF r = <<>> THEN "clear" ELSE "free"
    BY <1>1, <1>4 DEF Tasks, Points
  <1>6. Blocks(img, tsk.slot) \subseteq FileBlocks /\ EntriesOK(img)
    BY <1>1, <1>2, LiveStart, BlocksOfFile DEF Sound
  <1>7. /\ Spares(img, new, tsk.slot)
        /\ \A d \in Channels : Held(strm, d) \cap new.free = {}
    <2>1. \A s \in Live(img) \ {tsk.slot} : b \notin Blocks(img, s)
      BY <1>1, <1>2, <1>3 DEF Sound, FilesApart
    <2>2. \A d \in Channels : b \notin Held(strm, d)
      BY <1>1, <1>2, <1>3 DEF Apart
    <2>3. b \notin Dir(img) /\ b # System
      BY <1>1, <1>3, <1>6, Ranges DEF Sound, DirOK
    <2>4. Spares(img, img, tsk.slot)
      BY <1>1, SparesLess
    <2>. QED
      BY <1>1, <1>3, <2>1, <2>2, <2>3, <2>4 DEF Spares
  <1>8. Sound(new, tsk.slot, done) /\ Changed(img, new, System) /\ Alike(img, new)
    BY <1>1, <1>7, FreeAlike
  <1>9. SameBlocks(img, new)
    BY <1>6, <1>8, LiveAlike DEF SameBlocks
  <1>10. SavesOK(new, strm, tsk2)
    <2>1. tsk2.pc \notin Finishing
      BY <1>5 DEF Finishing
    <2>2. AllSafe(img, new, strm)
      BY <1>1, <1>7, <1>8 DEF AllSafe
    <2>3. \A d \in Channels : SaveOK(new, strm[d])
      BY <1>1, <2>2, SameSaves
    <2>. QED
      BY <2>1, <2>3 DEF SavesOK
  <1>11. StreamsOK(strm, tsk2, n)
    <2>1. \A d \in Channels : ~Busied(tsk2, d)
      BY <1>5 DEF Busied, Finalizing, RollingBack, Finishing
    <2>. QED
      BY <1>1, <2>1, SameStreams
  <1>12. Apart(new, strm, tsk2)
    <2>1. Fewer(strm, strm) /\ Unclaimed(img, strm, {}) /\ Extra(new, tsk2) \subseteq {}
      BY <1>5 DEF Fewer, Unclaimed, Extra
    <2>. QED
      BY <1>1, <1>9, <2>1, ApartClaims
  <1>13. WhoOK(strm, tsk2)
    BY <1>1, <1>5 DEF WhoOK
  <1>14. StepOK(new, strm, tsk2)
    BY <1>2, <1>4, <1>5, <1>9 DEF StepOK, SameBlocks
  <1>15. But(tsk2) = tsk.slot
    BY <1>5 DEF But
  <1>. QED
    BY <1>8, <1>10, <1>11, <1>12, <1>13, <1>14, <1>15 DEF Good

\* Pass 2 of unscratchEntry() claims one block.
LEMMA ReclaimGood ==
    ASSUME NEW img, NEW new, NEW strm, NEW tsk, NEW done, NEW n, Good(img, strm, tsk, done, n),
           tsk.pc = "reclaim", FreedOnly(img, new), new.free = img.free \ {Head(tsk.todo)}, NEW tsk2,
           tsk2 = [tsk EXCEPT !.todo = Tail(tsk.todo),
                              !.pc = IF Len(tsk.todo) = 1 THEN "restore" ELSE tsk.pc]
    PROVE  Good(new, strm, tsk2, done, n)
  <1>1. /\ tsk \in Tasks /\ strm \in [Channels -> Streams(n)]
        /\ StreamsOK(strm, tsk, n) /\ SavesOK(img, strm, tsk) /\ Apart(img, strm, tsk)
        /\ WhoOK(strm, tsk) /\ StepOK(img, strm, tsk) /\ Sound(img, NoSlot, done)
        /\ (\A d \in Channels : ~Busied(tsk, d) /\ SaveOK(img, strm[d])) /\ But(tsk) = NoSlot
        /\ (\A d \in Channels : Held(strm, d) \cap img.free = {} /\ System \notin Held(strm, d))
    BY Aside DEF But
  <1>2. /\ tsk.todo # <<>> /\ tsk.todo \in Seq(Block) /\ tsk.slot \in Places(img) \ Live(img)
        /\ Range(tsk.todo) \subseteq Blocks(img, tsk.slot) \cap img.free /\ Injective(tsk.todo)
        /\ EntryAt(img, tsk.slot).name # Nobody /\ Ends(img, FileChain(img, tsk.slot))
        /\ Blocks(img, tsk.slot) \cap img.free \subseteq Range(tsk.todo)
    BY <1>1, TaskFields DEF StepOK
  <1>3. PICK b : b = Head(tsk.todo)
    OBVIOUS
  <1>4. PICK r : /\ r = Tail(tsk.todo) /\ r \in Seq(Block) /\ (Len(tsk.todo) = 1 <=> r = <<>>)
                 /\ Range(r) \subseteq Range(tsk.todo) /\ Injective(r) /\ b \notin Range(r)
                 /\ Range(tsk.todo) \subseteq Range(r) \cup {b}
    BY <1>2, <1>3, TailFacts
  <1>5. /\ tsk2 \in Tasks /\ tsk2.todo = r /\ tsk2.slot = tsk.slot /\ tsk2.h = tsk.h
        /\ tsk2.then = tsk.then /\ tsk2.pc = IF r = <<>> THEN "restore" ELSE "reclaim"
    BY <1>1, <1>4 DEF Tasks, Points
  <1>6. new.free \subseteq img.free /\ EntriesOK(img)
    BY <1>1 DEF Sound
  <1>7. /\ Sound(new, NoSlot, done) /\ Changed(img, new, System) /\ Alike(img, new)
        /\ SameBlocks(img, new)
    BY <1>1, <1>6, Claiming
  <1>8. EntryAt(img, tsk.slot).start \in FileBlocks
    BY <1>2, <1>6 DEF EntriesOK, EntryOK
  <1>9. /\ Blocks(new, tsk.slot) = Blocks(img, tsk.slot) /\ Ends(new, FileChain(new, tsk.slot))
        /\ EntryAt(new, tsk.slot) = EntryAt(img, tsk.slot) /\ Places(new) = Places(img)
        /\ Live(new) = Live(img)
    BY <1>2, <1>7, <1>8 DEF Alike, SameFile
  <1>10. SavesOK(new, strm, tsk2)
    <2>1. tsk2.pc \notin Finishing
      BY <1>5 DEF Finishing
    <2>2. AllSafe(img, new, strm)
      <3>1. \A d \in Channels : System \notin Held(strm, d) /\ Held(strm, d) \cap new.free = {}
        BY <1>1
      <3>. QED
        BY <1>7, <3>1 DEF AllSafe
    <2>3. \A d \in Channels : SaveOK(new, strm[d])
      BY <1>1, <2>2, SameSaves
    <2>. QED
      BY <2>1, <2>3 DEF SavesOK
  <1>11. StreamsOK(strm, tsk2, n)
    <2>1. \A d \in Channels : ~Busied(tsk2, d)
      BY <1>5 DEF Busied, Finalizing, RollingBack, Finishing
    <2>. QED
      BY <1>1, <2>1, SameStreams
  <1>12. Apart(new, strm, tsk2)
    <2>1. Extra(img, tsk) = Blocks(img, tsk.slot) /\ Extra(new, tsk2) = Blocks(img, tsk.slot)
      BY <1>5, <1>9 DEF Extra
    <2>2. Fewer(strm, strm) /\ Unclaimed(img, strm, Blocks(img, tsk.slot))
      BY <1>1, <2>1 DEF Fewer, Unclaimed, Apart
    <2>3. Extra(new, tsk2) \subseteq Blocks(img, tsk.slot)
      BY <2>1
    <2>. QED
      BY <1>1, <1>7, <2>2, <2>3, ApartClaims
  <1>13. WhoOK(strm, tsk2)
    BY <1>1, <1>5 DEF WhoOK
  <1>14. StepOK(new, strm, tsk2)
    <2>1. Blocks(new, tsk.slot) \cap new.free \subseteq Range(r)
      BY <1>2, <1>3, <1>4, <1>9
    <2>2. Range(r) \subseteq Blocks(new, tsk.slot) \cap new.free
      BY <1>2, <1>3, <1>4, <1>9
    <2>. QED
      BY <1>2, <1>4, <1>5, <1>9, <2>1, <2>2 DEF StepOK
  <1>15. But(tsk2) = NoSlot
    BY <1>5 DEF But
  <1>. QED
    BY <1>7, <1>10, <1>11, <1>12, <1>13, <1>14, <1>15 DEF Good

\* A handler without a save ends and leaves the image as it is.
LEMMA AsideEnds ==
    ASSUME NEW img, NEW strm, NEW tsk, NEW done, NEW n, Good(img, strm, tsk, done, n),
           tsk.pc \in {"reclaim", "restore"}
    PROVE  Good(img, strm, Idle, done, n)
  <1>1. /\ StreamsOK(strm, tsk, n) /\ SavesOK(img, strm, tsk) /\ Apart(img, strm, tsk)
        /\ Sound(img, NoSlot, done) /\ (\A d \in Channels : ~Busied(tsk, d))
        /\ (\A d \in Channels : SaveOK(img, strm[d]))
    BY Aside DEF But
  <1>2. SavesOK(img, strm, Idle)
    BY <1>1, IdleOK, HandleAssumption DEF SavesOK
  <1>3. StreamsOK(strm, Idle, n)
    BY <1>1, IdleOK, SameStreams
  <1>4. Apart(img, strm, Idle)
    BY <1>1, IdleOK DEF Apart
  <1>. QED
    BY <1>1, <1>2, <1>3, <1>4, IdleOK DEF Good

-----------------------------------------------------------------------------
(* Writing entries.                                                        *)

\* The blocks of a finished save are a chain.
LEMMA HeldIsChain ==
    ASSUME NEW img, NEW n, NEW s \in Streams(n), Injective(s.held), s.held # <<>>,
           Linked(img, s), Closed(img, s)
    PROVE  ChainFrom(img, s.held[1]) = s.held /\ Ends(img, s.held)
  <1>. DEFINE q == s.held
  <1>1. q \in Seq(Block) /\ Len(q) \in Nat /\ Len(q) > 0
    BY HeldSeq
  <1>2. q \in Walks
    BY <1>1 DEF Walks
  <1>3. Len(q) <= Limit + 1
    BY <1>1, InjectiveShort, LimitNat
  <1>4. \A i \in 1..(Len(q) - 1) : q[i + 1] = img.next[q[i]]
    BY DEF Linked
  <1>5. img.next[q[Len(q)]] = End
    BY DEF Closed
  <1>6. ~Longer(img, q)
    BY <1>5, Ranges DEF Longer
  <1>7. Path(img, q)
    BY <1>2, <1>3, <1>4, <1>6 DEF Path
  <1>8. Last(q) = q[Len(q)]
    BY <1>2, RangeOfWalk
  <1>. QED
    BY <1>5, <1>7, <1>8, ChainIs DEF Ends

FilesSame(img, new) ==
    \A b \in FileBlocks : new.next[b] = img.next[b] /\ new.data[b] = img.data[b]

LEMMA SaveFilesSame ==
    ASSUME NEW img, NEW new, NEW n, NEW s \in Streams(n), FilesSame(img, new),
           SaveOK(img, s), new.free = img.free
    PROVE  SaveOK(new, s)
  <1>. DEFINE q == s.held
  <1>1. Len(q) \in Nat /\ \A i \in 1..Len(q) : q[i] \in FileBlocks
    BY HeldSeq
  <1>2. \A i \in 1..(Len(q) - 1) : i \in 1..Len(q)
    BY <1>1
  <1>. QED
    BY <1>1, <1>2 DEF SaveOK, Linked, FilesSame

LEMMA ChainFilesSame ==
    ASSUME NEW img \in Image, NEW new, LinksOK(img), FilesSame(img, new), NEW b \in FileBlocks
    PROVE  /\ ChainFrom(new, b) = ChainFrom(img, b)
           /\ Ends(new, ChainFrom(new, b)) <=> Ends(img, ChainFrom(img, b))
           /\ Range(ChainFrom(img, b)) \subseteq FileBlocks
  <1>1. \A x \in FileBlocks : img.next[x] \in Block => img.next[x] \in FileBlocks
    BY Ranges, GeometryAssumption DEF LinksOK, Unformatted, FileBlocks, Block
  <1>2. Range(ChainFrom(img, b)) \subseteq FileBlocks
    BY <1>1, Ranges, ChainIn
  <1>3. \A x \in Range(ChainFrom(img, b)) : new.next[x] = img.next[x]
    BY <1>2 DEF FilesSame
  <1>. QED
    BY <1>2, <1>3, ChainSame, Ranges

\* Entry e is now in slot s, in a directory that may have got a sector.
Entered(img, new, s, e) ==
    /\ img \in Image /\ new \in Image /\ new.free = img.free /\ FilesSame(img, new)
    /\ DirOK(new) /\ LinksOK(new)
    /\ s \in Places(new) /\ EntryAt(new, s) = e /\ Places(img) \subseteq Places(new)
    /\ \A t \in Places(new) \ {s} :
          IF t \in Places(img) THEN EntryAt(new, t) = EntryAt(img, t)
          ELSE EntryAt(new, t) = NeverUsed

LEMMA EnteredFiles ==
    ASSUME NEW img, NEW new, NEW s, NEW e, NEW but, NEW done,
           Sound(img, but, done), Entered(img, new, s, e)
    PROVE  /\ Live(new) \ {s} = Live(img) \ {s} /\ (s \in Live(new) <=> e.live)
           /\ \A t \in Live(img) \ {s} : SameFile(img, new, t) /\ Blocks(new, t) = Blocks(img, t)
  <1>1. LinksOK(img) /\ EntriesOK(img) /\ img \in Image
    BY DEF Sound
  <1>2. ~NeverUsed.live
    BY DEF NeverUsed
  <1>3. Live(new) \ {s} = Live(img) \ {s}
    BY <1>2 DEF Entered, Live
  <1>4. s \in Live(new) <=> e.live
    BY DEF Entered, Live
  <1>5. ASSUME NEW t \in Live(img) \ {s} PROVE SameFile(img, new, t)
    <2>1. EntryAt(img, t).start \in FileBlocks /\ t \in Places(img)
      BY <1>1, LiveStart
    <2>2. EntryAt(new, t) = EntryAt(img, t)
      BY <2>1 DEF Entered
    <2>3. PICK a \in FileBlocks : a = EntryAt(img, t).start
      BY <2>1
    <2>4. FileChain(img, t) = ChainFrom(img, a) /\ FileChain(new, t) = ChainFrom(new, a)
      BY <2>2, <2>3 DEF FileChain
    <2>5. FilesSame(img, new)
      BY DEF Entered
    <2>6. /\ ChainFrom(new, a) = ChainFrom(img, a)
          /\ Ends(new, ChainFrom(new, a)) <=> Ends(img, ChainFrom(img, a))
          /\ Range(ChainFrom(img, a)) \subseteq FileBlocks
      BY <1>1, <2>5, ChainFilesSame
    <2>7. \A x \in Blocks(img, t) : new.data[x] = img.data[x]
      BY <2>4, <2>5, <2>6 DEF FilesSame, Blocks
    <2>. QED
      BY <2>2, <2>4, <2>6, <2>7 DEF SameFile
  <1>6. \A t \in Live(img) \ {s} : Blocks(new, t) = Blocks(img, t)
    BY <1>5 DEF SameFile, Blocks
  <1>. QED
    BY <1>3, <1>4, <1>5, <1>6

LEMMA EnteredSound ==
    ASSUME NEW img, NEW new, NEW s, NEW e, NEW but, NEW done, NEW done2,
           Sound(img, but, done), Entered(img, new, s, e), EntryOK(e), but \in {s, NoSlot},
           s \in Live(img) => but = s /\ ~e.live,
           e.live => /\ FileOK(new, s)
                     /\ \A t \in Live(img) : Blocks(img, t) \cap Blocks(new, s) = {},
           \A id \in done2 : id \in done \/ (e.live /\ Holds(new, s, id))
    PROVE  Sound(new, NoSlot, done2)
  <1>1. /\ LinksOK(img) /\ EntriesOK(img) /\ img \in Image /\ DirOK(img)
        /\ FilesApart(img) /\ FilesOK(img, but) /\ Kept(img, but, done)
    BY DEF Sound
  <1>2. /\ Live(new) \ {s} = Live(img) \ {s} /\ (s \in Live(new) <=> e.live)
        /\ \A t \in Live(img) \ {s} : SameFile(img, new, t) /\ Blocks(new, t) = Blocks(img, t)
    BY EnteredFiles
  <1>3. \A t \in Live(img) : EntryAt(img, t).start \in FileBlocks
    BY <1>1, LiveStart
  <1>4. new.free = img.free /\ new \in Image /\ DirOK(new) /\ LinksOK(new)
    BY DEF Entered
  <1>5. EntriesOK(new)
    <2>1. EntryOK(NeverUsed)
      BY DEF EntryOK, NeverUsed
    <2>. QED
      BY <1>1, <2>1 DEF Entered, EntriesOK
  <1>6. FilesApart(new)
    <2>. SUFFICES ASSUME NEW t \in Live(new), NEW u \in Live(new), t # u
                  PROVE  Blocks(new, t) \cap Blocks(new, u) = {}
      BY DEF FilesApart
    <2>1. CASE t # s /\ u # s
      <3>1. t \in Live(img) \ {s} /\ u \in Live(img) \ {s}
        BY <1>2, <2>1
      <3>. QED
        BY <1>1, <1>2, <3>1 DEF FilesApart
    <2>2. CASE t = s
      <3>1. u \in Live(img) \ {s} /\ e.live
        BY <1>2, <2>2
      <3>. QED
        BY <1>2, <2>2, <3>1
    <2>3. CASE u = s
      <3>1. t \in Live(img) \ {s} /\ e.live
        BY <1>2, <2>3
      <3>. QED
        BY <1>2, <2>3, <3>1
    <2>. QED
      BY <2>1, <2>2, <2>3
  <1>7. FilesOK(new, NoSlot)
    <2>. SUFFICES ASSUME NEW t \in Live(new) PROVE FileOK(new, t)
      BY DEF FilesOK
    <2>1. CASE t = s
      BY <1>2, <2>1
    <2>2. CASE t # s
      <3>1. t \in Live(img) \ {s} /\ t # NoSlot
        BY <1>2, <2>2, NotNoSlot
      <3>2. FileOK(img, t)
        BY <1>1, <3>1 DEF FilesOK
      <3>3. Blocks(img, t) \cap new.free = {}
        BY <1>4, <3>2 DEF FileOK
      <3>. QED
        BY <1>1, <1>2, <1>3, <3>1, <3>2, <3>3, SameFileKeeps
    <2>. QED
      BY <2>1, <2>2
  <1>8. Kept(new, NoSlot, done2)
    <2>. SUFFICES ASSUME NEW id \in done2 PROVE \E t \in Live(new) : Holds(new, t, id)
      BY NotNoSlot DEF Kept
    <2>1. CASE e.live /\ Holds(new, s, id)
      BY <1>2, <2>1
    <2>2. CASE id \in done
      <3>1. PICK t \in Live(img) \ {but} : Holds(img, t, id)
        BY <1>1, <2>2 DEF Kept
      <3>2. t # s
        BY <3>1
      <3>3. t \in Live(img) \ {s} /\ t \in Live(new)
        BY <1>2, <3>1, <3>2
      <3>4. Holds(new, t, id)
        BY <1>1, <1>2, <1>3, <3>1, <3>3, SameFileKeeps
      <3>. QED
        BY <3>3, <3>4
    <2>. QED
      BY <2>1, <2>2
  <1>. QED
    BY <1>4, <1>5, <1>6, <1>7, <1>8 DEF Sound

\* A channel without a stream.
LEMMA NoStreamOK ==
    ASSUME NEW n \in Nat, NEW img
    PROVE  /\ StreamOK(NoStream, FALSE, n) /\ SaveOK(img, NoStream) /\ Range(NoStream.held) = {}
           /\ ~NoStream.open /\ ~NoStream.creating
  <1>1. /\ NoStream \in Streams(n) /\ NoStream.held = <<>> /\ ~NoStream.open /\ ~NoStream.creating
    BY DEF NoStream, Streams
  <1>2. Range(<<>>) = {} /\ Len(<<>>) = 0 /\ Injective(<<>>) /\ 0 <= MaxBlocks
    BY BoundAssumption DEF Range, Injective
  <1>. QED
    BY <1>1, <1>2 DEF StreamOK, SaveOK, Linked

\* The save of channel c as a file.
LEMMA SavedFile ==
    ASSUME NEW img, NEW new, NEW strm, NEW tsk, NEW done, NEW n, Good(img, strm, tsk, done, n),
           tsk.pc \in Finishing, NEW c, c = tsk.h, NEW q, q = strm[c].held, NEW s, NEW e,
           e = [live |-> TRUE, name |-> strm[c].name, start |-> Head(q), blocks |-> Len(q)],
           Entered(img, new, s, e)
    PROVE  /\ EntryOK(e) /\ e.live /\ FileOK(new, s) /\ Blocks(new, s) = Held(strm, c)
           /\ Holds(new, s, strm[c].id)
  <1>0. tsk.pc \notin {"idle", "free", "clear", "reclaim", "restore", "rollback"}
    BY DEF Finishing
  <1>1. /\ c \in Channels /\ strm[c].open /\ strm[c] \in Streams(n)
        /\ SavesOK(img, strm, tsk) /\ SaveOK(img, strm[c]) /\ Sound(img, NoSlot, done)
        /\ StreamOK(strm[c], Busied(tsk, c), n)
    BY <1>0, Running
  <1>2. Busied(tsk, c) /\ Closed(img, strm[c]) /\ Linked(img, strm[c])
    BY <1>1 DEF Busied, Finalizing, SavesOK, SaveOK
  <1>3. q # <<>> /\ Injective(q) /\ strm[c].name \in Names
    BY <1>1, <1>2 DEF StreamOK
  <1>4. q \in Seq(FileBlocks) /\ Len(q) \in Nat /\ Len(q) > 0
        /\ \A i \in 1..Len(q) : q[i] \in FileBlocks
    BY <1>1, <1>3, HeldSeq
  <1>5. Head(q) = q[1] /\ q[1] \in FileBlocks
    BY <1>4
  <1>6. /\ e.live /\ e.name = strm[c].name /\ e.start = q[1] /\ e.blocks = Len(q)
    BY <1>5
  <1>7. EntryOK(e)
    BY <1>3, <1>5, <1>6, HandleAssumption DEF EntryOK
  <1>8. ChainFrom(img, q[1]) = q /\ Ends(img, q)
    BY <1>1, <1>2, <1>3, HeldIsChain
  <1>9. FilesSame(img, new) /\ new.free = img.free /\ img \in Image /\ EntryAt(new, s) = e
    BY DEF Entered
  <1>10. ChainFrom(new, q[1]) = q /\ Ends(new, q)
    <2>1. LinksOK(img)
      BY <1>1 DEF Sound
    <2>2. PICK b \in FileBlocks : b = q[1]
      BY <1>5
    <2>3. /\ ChainFrom(new, b) = ChainFrom(img, b)
          /\ Ends(new, ChainFrom(new, b)) <=> Ends(img, ChainFrom(img, b))
      BY <1>9, <2>1, ChainFilesSame
    <2>. QED
      BY <1>8, <2>2, <2>3
  <1>11. FileChain(new, s) = q
    BY <1>6, <1>9, <1>10 DEF FileChain
  <1>12. Blocks(new, s) = Held(strm, c)
    BY <1>11 DEF Blocks, Held
  <1>13. FileOK(new, s)
    BY <1>1, <1>9, <1>10, <1>11 DEF FileOK, SaveOK, Blocks
  <1>14. Holds(new, s, strm[c].id)
    <2>1. ASSUME NEW i \in 1..Len(q) PROVE new.data[q[i]] = FileData(strm[c].id, i)
      <3>1. new.data[q[i]] = img.data[q[i]]
        BY <1>4, <1>9 DEF FilesSame
      <3>2. CASE i = Len(q)
        BY <1>2, <3>1, <3>2 DEF Closed
      <3>3. CASE i # Len(q)
        <4>1. i \in 1..(Len(q) - 1)
          BY <1>4, <3>3
        <4>. QED
          BY <1>2, <3>1, <4>1 DEF Linked
      <3>. QED
        BY <3>2, <3>3
    <2>. QED
      BY <1>6, <1>9, <1>11, <2>1 DEF Holds
  <1>. QED
    BY <1>6, <1>7, <1>12, <1>13, <1>14

\* finalizeFileWrite() writes the entry and the channel is closed.
LEMMA EntryGood ==
    ASSUME NEW img, NEW new, NEW strm, NEW tsk, NEW done, NEW n, Good(img, strm, tsk, done, n),
           tsk.pc \in Finishing, NEW c, c = tsk.h, NEW q, q = strm[c].held, NEW s, NEW e,
           e = [live |-> TRUE, name |-> strm[c].name, start |-> Head(q), blocks |-> Len(q)],
           Entered(img, new, s, e), s \notin Live(img), NEW strm2,
           strm2 = [strm EXCEPT ![c] = NoStream]
    PROVE  Good(new, strm2, Idle, done \cup {strm[c].id}, n)
  <1>0. tsk.pc \notin {"idle", "free", "clear", "reclaim", "restore", "rollback"}
    BY DEF Finishing
  <1>1. /\ c \in Channels /\ strm \in [Channels -> Streams(n)] /\ StreamsOK(strm, tsk, n)
        /\ Apart(img, strm, tsk) /\ Sound(img, NoSlot, done)
        /\ \A d \in Channels : SaveOK(img, strm[d])
    BY <1>0, Running
  <1>2. /\ EntryOK(e) /\ e.live /\ FileOK(new, s) /\ Blocks(new, s) = Held(strm, c)
        /\ Holds(new, s, strm[c].id)
    BY SavedFile
  <1>3. /\ Live(new) \ {s} = Live(img) \ {s} /\ (s \in Live(new) <=> e.live)
        /\ \A t \in Live(img) \ {s} : Blocks(new, t) = Blocks(img, t)
    BY <1>1, EnteredFiles
  <1>4. Sound(new, NoSlot, done \cup {strm[c].id})
    <2>1. \A t \in Live(img) : Blocks(img, t) \cap Blocks(new, s) = {}
      BY <1>1, <1>2 DEF Apart
    <2>2. \A id \in done \cup {strm[c].id} : id \in done \/ (e.live /\ Holds(new, s, id))
      BY <1>2
    <2>. QED
      BY <1>1, <1>2, <2>1, <2>2, EnteredSound
  <1>5. n \in Nat
    BY <1>1 DEF StreamsOK
  <1>6. strm2[c] = NoStream /\ \A d \in Channels \ {c} : strm2[d] = strm[d]
    BY <1>1
  <1>7. Idle.h = Shell /\ Idle.pc \notin Finishing /\ Shell \notin Channels /\ ~Busied(Idle, c)
    BY <1>1, IdleOK, HandleAssumption DEF Finishing
  <1>8. StreamsOK(strm2, Idle, n)
    <2>1. tsk.h \in {c, Shell} /\ Idle.h \in {c, Shell}
      BY <1>7
    <2>2. StreamOK(NoStream, Busied(Idle, c), n)
      BY <1>5, <1>7, NoStreamOK DEF StreamOK
    <2>. QED
      BY <1>1, <2>1, <2>2, OtherStreams
  <1>9. SavesOK(new, strm2, Idle)
    <2>1. FilesSame(img, new) /\ new.free = img.free
      BY DEF Entered
    <2>2. ASSUME NEW d \in Channels PROVE SaveOK(new, strm2[d])
      <3>1. CASE d = c
        BY <1>5, <1>6, <3>1, NoStreamOK
      <3>2. CASE d # c
        <4>1. strm2[d] \in Streams(n) /\ SaveOK(img, strm2[d])
          BY <1>1, <1>6, <3>2
        <4>. QED
          BY <2>1, <4>1, SaveFilesSame
      <3>. QED
        BY <3>1, <3>2
    <2>. QED
      BY <1>7, <2>2 DEF SavesOK
  <1>10. Apart(new, strm2, Idle)
    <2>1. Extra(new, Idle) = {}
      BY IdleOK
    <2>2. Held(strm2, c) = {} /\ \A d \in Channels \ {c} : Held(strm2, d) = Held(strm, d)
      BY <1>5, <1>6, NoStreamOK DEF Held
    <2>3. ASSUME NEW t \in Live(new), NEW d \in Channels
          PROVE  Blocks(new, t) \cap Held(strm2, d) = {}
      <3>1. CASE d = c
        BY <2>2, <3>1
      <3>2. CASE d # c /\ t = s
        <4>1. Held(strm, c) \cap Held(strm, d) = {}
          BY <1>1, <3>2 DEF Apart
        <4>. QED
          BY <1>2, <2>2, <3>2, <4>1
      <3>3. CASE d # c /\ t # s
        <4>1. t \in Live(img) \ {s}
          BY <1>3, <3>3
        <4>2. Blocks(img, t) \cap Held(strm, d) = {}
          BY <1>1, <4>1 DEF Apart
        <4>. QED
          BY <1>3, <2>2, <3>3, <4>1, <4>2
      <3>. QED
        BY <3>1, <3>2, <3>3
    <2>4. ASSUME NEW d \in Channels, NEW d2 \in Channels, d # d2
          PROVE  Held(strm2, d) \cap Held(strm2, d2) = {}
      <3>1. Held(strm, d) \cap Held(strm, d2) = {}
        BY <1>1, <2>4 DEF Apart
      <3>. QED
        BY <2>2, <3>1
    <2>. QED
      BY <2>1, <2>3, <2>4 DEF Apart
  <1>. QED
    BY <1>4, <1>8, <1>9, <1>10, IdleOK DEF Good

\* An entry is marked deleted or live; the streams are not touched.
LEMMA MarkApart ==
    ASSUME NEW img, NEW new, NEW strm, NEW tsk, NEW done, NEW n, NEW s, NEW e, NEW tsk2,
           Good(img, strm, tsk, done, n), tsk.pc \in {"clear", "restore"},
           Entered(img, new, s, e), Extra(new, tsk2) = {}, tsk2.pc \notin Finishing,
           \A d \in Channels : ~Busied(tsk2, d),
           e.live => \A d \in Channels : Blocks(new, s) \cap Held(strm, d) = {}
    PROVE  Apart(new, strm, tsk2) /\ SavesOK(new, strm, tsk2) /\ StreamsOK(strm, tsk2, n)
  <1>1. /\ strm \in [Channels -> Streams(n)] /\ StreamsOK(strm, tsk, n) /\ Apart(img, strm, tsk)
        /\ Sound(img, But(tsk), done) /\ (\A d \in Channels : ~Busied(tsk, d))
        /\ (\A d \in Channels : SaveOK(img, strm[d]))
    BY Aside
  <1>2. /\ Live(new) \ {s} = Live(img) \ {s} /\ (s \in Live(new) <=> e.live)
        /\ \A t \in Live(img) \ {s} : Blocks(new, t) = Blocks(img, t)
    BY <1>1, EnteredFiles
  <1>3. ASSUME NEW t \in Live(new), NEW d \in Channels PROVE Blocks(new, t) \cap Held(strm, d) = {}
    <2>1. CASE t = s
      BY <1>2, <2>1
    <2>2. CASE t # s
      <3>1. t \in Live(img) \ {s}
        BY <1>2, <2>2
      <3>2. Blocks(img, t) \cap Held(strm, d) = {}
        BY <1>1, <3>1 DEF Apart
      <3>. QED
        BY <1>2, <3>1, <3>2
    <2>. QED
      BY <2>1, <2>2
  <1>4. Apart(new, strm, tsk2)
    BY <1>1, <1>3 DEF Apart
  <1>5. SavesOK(new, strm, tsk2)
    <2>1. FilesSame(img, new) /\ new.free = img.free
      BY DEF Entered
    <2>2. \A d \in Channels : SaveOK(new, strm[d])
      BY <1>1, <2>1, SaveFilesSame
    <2>. QED
      BY <2>2 DEF SavesOK
  <1>6. StreamsOK(strm, tsk2, n)
    BY <1>1, SameStreams
  <1>. QED
    BY <1>4, <1>5, <1>6

\* scratchEntry() marks the entry deleted.
LEMMA ClearGood ==
    ASSUME NEW img, NEW new, NEW strm, NEW tsk, NEW done, NEW n, Good(img, strm, tsk, done, n),
           tsk.pc = "clear", NEW e, ~e.live, EntryOK(e), Entered(img, new, tsk.slot, e), NEW tsk2,
           tsk2 = IF tsk.then = "return" THEN Idle ELSE [Idle EXCEPT !.pc = "begin", !.h = tsk.h]
    PROVE  Good(new, strm, tsk2, done, n)
  <1>1. /\ tsk \in Tasks /\ WhoOK(strm, tsk) /\ StepOK(img, strm, tsk) /\ Sound(img, tsk.slot, done)
    BY Aside DEF But
  <1>2. /\ tsk2 \in Tasks /\ tsk2.pc \in {"idle", "begin"} /\ Extra(new, tsk2) = {}
        /\ But(tsk2) = NoSlot /\ (\A d \in Channels : ~Busied(tsk2, d)) /\ tsk2.pc \notin Finishing
        /\ (tsk2.pc = "begin" => tsk2.h = tsk.h /\ tsk.then # "return")
        /\ (tsk2.pc = "idle" => tsk2 = Idle)
    <2>1. CASE tsk.then = "return"
      BY <2>1, IdleOK DEF Finishing
    <2>2. CASE tsk.then # "return"
      <3>1. tsk2 = [Idle EXCEPT !.pc = "begin", !.h = tsk.h]
        BY <2>2
      <3>2. tsk.h \in Handles /\ "begin" \in Points /\ Idle \in Tasks
        BY <1>1, TaskFields, IdleOK DEF Points
      <3>. HIDE DEF Idle
      <3>3. tsk2 \in Tasks /\ tsk2.pc = "begin" /\ tsk2.h = tsk.h
        BY <3>1, <3>2 DEF Tasks
      <3>. QED
        BY <2>2, <3>3 DEF Extra, But, Busied, Finalizing, RollingBack, Finishing
    <2>. QED
      BY <2>1, <2>2
  <1>3. Sound(new, NoSlot, done)
    BY <1>1, EnteredSound
  <1>4. Apart(new, strm, tsk2) /\ SavesOK(new, strm, tsk2) /\ StreamsOK(strm, tsk2, n)
    BY <1>2, MarkApart
  <1>5. WhoOK(strm, tsk2) /\ StepOK(new, strm, tsk2)
    <2>1. CASE tsk2.pc = "idle"
      BY <1>2, <2>1, IdleOK
    <2>2. CASE tsk2.pc = "begin"
      <3>1. tsk.h \in Channels /\ strm[tsk.h].open /\ ~strm[tsk.h].creating
        BY <1>1, <1>2, <2>2 DEF WhoOK
      <3>. QED
        BY <1>2, <2>2, <3>1 DEF WhoOK, StepOK
    <2>. QED
      BY <1>2, <2>1, <2>2
  <1>. QED
    BY <1>2, <1>3, <1>4, <1>5 DEF Good

\* unscratchEntry() marks the entry live.
LEMMA RestoreGood ==
    ASSUME NEW img, NEW new, NEW strm, NEW tsk, NEW done, NEW n, Good(img, strm, tsk, done, n),
           tsk.pc = "restore", NEW e, e.live, e.name = EntryAt(img, tsk.slot).name,
           e.start = EntryAt(img, tsk.slot).start, Entered(img, new, tsk.slot, e)
    PROVE  Good(new, strm, Idle, done, n)
  <1>1. /\ StepOK(img, strm, tsk) /\ Sound(img, NoSlot, done) /\ Apart(img, strm, tsk)
    BY Aside DEF But
  <1>2. PICK s : s = tsk.slot
    OBVIOUS
  <1>3. /\ s \in Places(img) \ Live(img) /\ EntryAt(img, s).name # Nobody
        /\ Ends(img, FileChain(img, s)) /\ Blocks(img, s) \cap img.free \subseteq Range(<<>>)
    BY <1>1, <1>2 DEF StepOK
  <1>4. LinksOK(img) /\ EntriesOK(img) /\ img \in Image
    BY <1>1 DEF Sound
  <1>5. EntryAt(img, s).start \in FileBlocks
    BY <1>3, <1>4 DEF EntriesOK, EntryOK
  <1>6. PICK b \in FileBlocks : b = EntryAt(img, s).start
    BY <1>5
  <1>7. FilesSame(img, new) /\ new.free = img.free /\ EntryAt(new, s) = e
    BY <1>2 DEF Entered
  <1>8. FileChain(img, s) = ChainFrom(img, b) /\ FileChain(new, s) = ChainFrom(new, b)
    BY <1>2, <1>6, <1>7 DEF FileChain
  <1>9. /\ FileChain(new, s) = FileChain(img, s) /\ Ends(new, FileChain(new, s))
        /\ Blocks(new, s) = Blocks(img, s)
    BY <1>3, <1>4, <1>7, <1>8, ChainFilesSame DEF Blocks
  <1>10. Extra(img, tsk) = Blocks(img, s)
    BY <1>2 DEF Extra
  <1>11. FileOK(new, s)
    BY <1>3, <1>7, <1>9 DEF FileOK, Range
  <1>12. /\ \A t \in Live(img) : Blocks(img, t) \cap Blocks(new, s) = {}
         /\ \A d \in Channels : Blocks(new, s) \cap Held(strm, d) = {}
    BY <1>1, <1>9, <1>10 DEF Apart
  <1>13. EntryOK(e)
    BY <1>2, <1>3, <1>5 DEF EntryOK
  <1>14. Sound(new, NoSlot, done)
    BY <1>1, <1>2, <1>3, <1>11, <1>12, <1>13, EnteredSound
  <1>15. /\ Extra(new, Idle) = {} /\ Idle.pc \notin Finishing
         /\ \A d \in Channels : ~Busied(Idle, d)
    BY IdleOK DEF Finishing
  <1>16. Apart(new, strm, Idle) /\ SavesOK(new, strm, Idle) /\ StreamsOK(strm, Idle, n)
    BY <1>2, <1>12, <1>15, MarkApart
  <1>. QED
    BY <1>14, <1>16, IdleOK DEF Good

\* A directory sector is written back with entry e in one of its slots.
LEMMA SlotEntered ==
    ASSUME NEW img, NEW new, NEW but, NEW done, Sound(img, but, done), NEW s \in Places(img), NEW e,
           Changed(img, new, s[1]), new.free = img.free, new.next[s[1]] = img.next[s[1]],
           new.data[s[1]] = [img.data[s[1]] EXCEPT !.slots[s[2]] = e]
    PROVE  Entered(img, new, s, e)
  <1>1. /\ LinksOK(img) /\ EntriesOK(img) /\ img \in Image /\ DirOK(img)
    BY DEF Sound
  <1>2. PICK b \in Dir(img), k \in 1..SlotsPerSector : s = <<b, k>> /\ s[1] = b /\ s[2] = k
    BY DEF Places
  <1>3. b \in DirBlocks /\ b \in Block
    BY <1>1, <1>2, Ranges DEF DirOK
  <1>4. FilesSame(img, new)
    BY <1>2, <1>3, Ranges DEF FilesSame, Changed
  <1>5. \A x \in Block : new.next[x] = img.next[x]
    BY <1>2, <1>3, Ranges DEF Changed
  <1>6. /\ DirChain(new) = DirChain(img)
        /\ Ends(new, DirChain(new)) <=> Ends(img, DirChain(img))
    <2>1. \A x \in Range(ChainFrom(img, FirstDir)) : new.next[x] = img.next[x]
      BY <1>5, DirWalk DEF Dir, DirChain
    <2>. QED
      BY <2>1, ChainSame, Ranges DEF DirChain
  <1>7. Dir(new) = Dir(img) /\ Places(new) = Places(img)
    BY <1>6 DEF Dir, Places
  <1>8. img.data[b].kind = "dir" /\ img.data[b] \in Contents
    BY <1>1, <1>3, ImageFields DEF DirOK
  <1>9. /\ img.data[b] \in [kind : {"dir"}, slots : [1..SlotsPerSector -> Entries]]
    BY <1>8 DEF Contents
  <1>10. /\ new.data[b].kind = "dir"
         /\ new.data[b].slots = [img.data[b].slots EXCEPT ![k] = e]
    BY <1>2, <1>9
  <1>11. /\ new.data[b].slots[k] = e
         /\ \A j \in 1..SlotsPerSector : j # k => new.data[b].slots[j] = img.data[b].slots[j]
    BY <1>9, <1>10
  <1>12. DirOK(new)
    <2>1. \A x \in Dir(img) : new.data[x].kind = "dir"
      BY <1>1, <1>2, <1>10, DirWalk DEF DirOK, Changed
    <2>. QED
      BY <1>1, <1>6, <1>7, <2>1 DEF DirOK
  <1>13. LinksOK(new)
    BY <1>1, <1>5, <1>7, Ranges DEF LinksOK
  <1>14. EntryAt(new, s) = e
    BY <1>2, <1>11 DEF EntryAt
  <1>15. ASSUME NEW t \in Places(new) \ {s} PROVE EntryAt(new, t) = EntryAt(img, t)
    <2>1. PICK x \in Dir(img), j \in 1..SlotsPerSector : t = <<x, j>> /\ t[1] = x /\ t[2] = j
      BY <1>7 DEF Places
    <2>2. CASE x = b
      <3>1. j # k
        BY <1>2, <2>1, <2>2
      <3>. QED
        BY <1>11, <2>1, <2>2, <3>1 DEF EntryAt
    <2>3. CASE x # b
      <3>1. new.data[x] = img.data[x]
        BY <1>2, <2>3, DirWalk DEF Changed
      <3>. QED
        BY <2>1, <3>1 DEF EntryAt
    <2>. QED
      BY <2>2, <2>3
  <1>. QED
    BY <1>1, <1>4, <1>7, <1>12, <1>13, <1>14, <1>15 DEF Entered, Changed

\* A new sector ends the directory and has entry e in its first slot.
Extended(img, new, b, e) ==
    LET last == Last(DirChain(img))
    IN  /\ img \in Image /\ new \in Image /\ new.free = img.free
        /\ new.next[last] = b /\ new.next[b] = End
        /\ \A x \in Block \ {last, b} : new.next[x] = img.next[x]
        /\ new.data[b] = [EmptyDir EXCEPT !.slots[1] = e]
        /\ \A x \in Block \ {b} : new.data[x] = img.data[x]

LEMMA SectorEntered ==
    ASSUME NEW img, NEW new, NEW but, NEW done, Sound(img, but, done), NEW e,
           NEW b \in DirBlocks \ (Dir(img) \cup {System} \cup img.free), Extended(img, new, b, e)
    PROVE  Entered(img, new, <<b, 1>>, e) /\ <<b, 1>> \notin Live(img)
  <1>. DEFINE p == DirChain(img)
              last == Last(p)
  <1>1. /\ LinksOK(img) /\ EntriesOK(img) /\ img \in Image /\ DirOK(img)
    BY DEF Sound
  <1>2. p \in Walks /\ Path(img, p) /\ p[1] = FirstDir /\ Ends(img, p)
    <2>1. Path(img, p) /\ p[1] = FirstDir
      BY ChainPath, Ranges DEF DirChain
    <2>. QED
      BY <1>1, <2>1, DirWalk DEF DirOK
  <1>3. Injective(p)
    BY <1>2, EndsInjective, Ranges DEF DirChain
  <1>4. /\ new.next[last] = b /\ new.next[b] = End /\ new \in Image /\ new.free = img.free
        /\ \A x \in Block \ {last, b} : new.next[x] = img.next[x]
        /\ new.data[b] = [EmptyDir EXCEPT !.slots[1] = e]
        /\ \A x \in Block \ {b} : new.data[x] = img.data[x]
    BY DEF Extended
  <1>5. Dir(img) = Range(p)
    BY DEF Dir
  <1>. HIDE DEF p
  <1>6. /\ Len(p) \in Nat /\ Len(p) >= 1 /\ last = p[Len(p)] /\ last \in Dir(img)
        /\ (\A i \in 1..Len(p) : p[i] \in Dir(img))
        /\ (\A x \in Dir(img) : \E i \in 1..Len(p) : x = p[i])
    BY <1>2, <1>5, WalkLen, RangeOfWalk
  <1>7. b \in Block /\ Dir(img) \subseteq DirBlocks \ {System}
    BY <1>1, Ranges DEF DirOK
  <1>. HIDE DEF last
  <1>. DEFINE r == Append(p, b)
  <1>8. /\ r \in Walks /\ Len(r) = Len(p) + 1 /\ r[Len(p) + 1] = b
        /\ \A i \in 1..Len(p) : r[i] = p[i]
    BY <1>2, <1>7, WalkAppend
  <1>. HIDE DEF r
  <1>9. Range(r) = Dir(img) \cup {b}
    <2>1. (\A i \in 1..Len(r) : r[i] \in Range(r)) /\ (\A x \in Range(r) : \E i \in 1..Len(r) : x = r[i])
      BY <1>8, RangeOfWalk
    <2>2. 1..Len(r) = 1..Len(p) \cup {Len(p) + 1}
      BY <1>6, <1>8
    <2>. QED
      BY <1>6, <1>8, <2>1, <2>2, SMTT(30)
  <1>10. Injective(r)
    <2>. SUFFICES ASSUME NEW i \in 1..Len(r), NEW j \in 1..Len(r), r[i] = r[j] PROVE i = j
      BY DEF Injective
    <2>1. (i \in 1..Len(p) \/ i = Len(p) + 1) /\ (j \in 1..Len(p) \/ j = Len(p) + 1)
      BY <1>6, <1>8
    <2>. QED
      BY <1>3, <1>6, <1>8, <2>1 DEF Injective
  <1>11. Path(new, r)
    <2>1. Len(r) <= Limit + 1
      <3>1. r \in Seq(Block)
        BY <1>8 DEF Walks
      <3>2. Len(r) <= Limit
        BY <1>10, <3>1, InjectiveShort
      <3>. QED
        BY <1>6, <1>8, <3>2, LimitNat
    <2>2. ASSUME NEW i \in 1..(Len(r) - 1) PROVE r[i + 1] = new.next[r[i]]
      <3>1. CASE i = Len(p)
        <4>1. r[i] = last /\ r[i + 1] = b
          BY <1>6, <1>8, <3>1
        <4>. QED
          BY <1>4, <4>1
      <3>2. CASE i # Len(p)
        <4>1. i \in 1..(Len(p) - 1) /\ i \in 1..Len(p) /\ i + 1 \in 1..Len(p) /\ Len(p) \in 1..Len(p)
          BY <1>6, <1>8, <3>2
        <4>2. r[i] = p[i] /\ r[i + 1] = p[i + 1] /\ p[i + 1] = img.next[p[i]]
          BY <1>2, <1>8, <4>1 DEF Path
        <4>3. p[i] # last /\ p[i] # b /\ p[i] \in Block
          <5>1. p[i] # p[Len(p)]
            BY <1>3, <3>2, <4>1 DEF Injective
          <5>. QED
            BY <1>6, <4>1, <5>1, DirWalk
        <4>. QED
          BY <1>4, <4>2, <4>3
      <3>. QED
        BY <3>1, <3>2
    <2>3. r[Len(r)] = b
      BY <1>8
    <2>4. ~Longer(new, r)
      BY <1>4, <2>3, Ranges DEF Longer
    <2>. QED
      BY <1>8, <2>1, <2>2, <2>4 DEF Path
  <1>12. r[1] = FirstDir
    BY <1>2, <1>6, <1>8
  <1>13. DirChain(new) = r
    BY <1>11, <1>12, ChainIs DEF DirChain
  <1>14. Dir(new) = Dir(img) \cup {b}
    BY <1>9, <1>13 DEF Dir
  <1>15. Ends(new, DirChain(new))
    <2>1. Last(r) = r[Len(r)] /\ r # <<>>
      BY <1>8, RangeOfWalk DEF Walks
    <2>. QED
      BY <1>4, <1>8, <1>13, <2>1 DEF Ends
  <1>16. /\ new.data[b].kind = "dir" /\ new.data[b].slots[1] = e
         /\ \A j \in 1..SlotsPerSector : j # 1 => new.data[b].slots[j] = NeverUsed
    BY <1>4, GeometryAssumption DEF EmptyDir
  <1>17. DirOK(new)
    <2>1. \A x \in Dir(new) : new.data[x].kind = "dir" /\ x \notin new.free
      BY <1>1, <1>4, <1>14, <1>16, DirWalk DEF DirOK
    <2>. QED
      BY <1>1, <1>4, <1>7, <1>14, <1>15, <2>1 DEF DirOK
  <1>18. FilesSame(img, new)
    BY <1>4, <1>6, <1>7, Ranges DEF FilesSame
  <1>19. LinksOK(new)
    <2>1. \A x \in FileBlocks : new.next[x] \in FileBlocks \cup {End, Unformatted}
      BY <1>1, <1>18 DEF LinksOK, FilesSame
    <2>2. \A x \in DirBlocks \ Dir(new) : new.next[x] \notin DirBlocks
      BY <1>1, <1>4, <1>6, <1>14, Ranges DEF LinksOK
    <2>. QED
      BY <2>1, <2>2 DEF LinksOK
  <1>20. 1 \in 1..SlotsPerSector
    BY GeometryAssumption
  <1>21. <<b, 1>> \in Places(new) /\ EntryAt(new, <<b, 1>>) = e /\ Places(img) \subseteq Places(new)
    BY <1>14, <1>16, <1>20 DEF Places, EntryAt
  <1>22. <<b, 1>> \notin Live(img)
    BY DEF Live, Places
  <1>23. ASSUME NEW t \in Places(new) \ {<<b, 1>>}
         PROVE  IF t \in Places(img) THEN EntryAt(new, t) = EntryAt(img, t)
                ELSE EntryAt(new, t) = NeverUsed
    <2>1. PICK x \in Dir(new), j \in 1..SlotsPerSector : t = <<x, j>> /\ t[1] = x /\ t[2] = j
      BY DEF Places
    <2>2. CASE x = b
      <3>1. j # 1 /\ t \notin Places(img)
        BY <2>1, <2>2 DEF Places
      <3>. QED
        BY <1>16, <2>1, <2>2, <3>1 DEF EntryAt
    <2>3. CASE x # b
      <3>1. x \in Dir(img) /\ t \in Places(img)
        BY <1>14, <2>1, <2>3 DEF Places
      <3>2. new.data[x] = img.data[x]
        BY <1>4, <2>3, <3>1, DirWalk
      <3>. QED
        BY <2>1, <3>1, <3>2 DEF EntryAt
    <2>. QED
      BY <2>2, <2>3
  <1>. QED
    BY <1>1, <1>4, <1>17, <1>18, <1>19, <1>21, <1>22, <1>23 DEF Entered

-----------------------------------------------------------------------------
(* Opening a channel.                                                      *)

LEMMA MoreSaves ==
    ASSUME NEW strm, NEW tsk, NEW n, StreamsOK(strm, tsk, n)
    PROVE  StreamsOK(strm, tsk, n + 1)
  <1>1. n \in Nat /\ strm \in [Channels -> Streams(n)]
    BY DEF StreamsOK
  <1>2. 0..n \subseteq 0..(n + 1) /\ 1..n \subseteq 1..(n + 1) /\ n + 1 \in Nat
    BY <1>1
  <1>3. Streams(n) \subseteq Streams(n + 1)
    BY <1>2 DEF Streams
  <1>4. \A s, busy : StreamOK(s, busy, n) => StreamOK(s, busy, n + 1)
    BY <1>2, <1>3 DEF StreamOK
  <1>. QED
    BY <1>1, <1>2, <1>3, <1>4 DEF StreamsOK

\* A handler of channel c starts, with stream s.
Starting(img, strm, c, s, tsk, m) ==
    /\ tsk.h \in {c, Shell} /\ tsk.pc \notin Finishing /\ Extra(img, tsk) = {}
    /\ StreamOK(s, Busied(tsk, c), m) /\ SaveOK(img, s)
    /\ Range(s.held) \subseteq Held(strm, c)
Started(img, strm, tsk, m) ==
    StreamsOK(strm, tsk, m) /\ SavesOK(img, strm, tsk) /\ Apart(img, strm, tsk)

LEMMA Starts ==
    ASSUME NEW img, NEW strm, NEW tsk, NEW done, NEW n, Good(img, strm, tsk, done, n),
           tsk.pc = "idle", NEW c \in Channels, NEW m \in {n, n + 1}, NEW s2, NEW tsk2,
           Starting(img, strm, c, s2, tsk2, m)
    PROVE  Started(img, [strm EXCEPT ![c] = s2], tsk2, m)
  <1>. USE DEF Starting
  <1>. DEFINE strm2 == [strm EXCEPT ![c] = s2]
  <1>1. /\ strm \in [Channels -> Streams(n)] /\ StreamsOK(strm, tsk, n) /\ Apart(img, strm, tsk)
        /\ WhoOK(strm, tsk) /\ (\A d \in Channels : SaveOK(img, strm[d]))
    BY Aside
  <1>2. tsk.h \in {c, Shell}
    BY <1>1 DEF WhoOK
  <1>3. StreamsOK(strm, tsk, m)
    BY <1>1, MoreSaves
  <1>4. StreamsOK(strm2, tsk2, m)
    BY <1>2, <1>3, OtherStreams
  <1>5. strm2[c] = s2 /\ \A d \in Channels \ {c} : strm2[d] = strm[d]
    BY <1>1
  <1>. HIDE DEF strm2
  <1>6. \A d \in Channels : SaveOK(img, strm2[d])
    BY <1>1, <1>5
  <1>7. SavesOK(img, strm2, tsk2)
    BY <1>6 DEF SavesOK
  <1>8. Apart(img, strm2, tsk2)
    <2>1. Fewer(strm, strm2)
      BY <1>5 DEF Fewer, Held
    <2>2. Unclaimed(img, strm, {}) /\ Extra(img, tsk2) \subseteq {} /\ SameBlocks(img, img)
      BY DEF Unclaimed, SameBlocks
    <2>. QED
      BY <1>1, <2>1, <2>2, ApartClaims
  <1>. QED
    BY <1>4, <1>7, <1>8 DEF strm2, Started

LEMMA OpenedOK ==
    ASSUME NEW n \in Nat, NEW img, NEW name \in Names, NEW s,
           s = [NoStream EXCEPT !.open = TRUE, !.name = name, !.id = n + 1]
    PROVE  /\ StreamOK(s, FALSE, n + 1) /\ SaveOK(img, s) /\ Range(s.held) = {}
           /\ s.open /\ ~s.creating
  <1>1. /\ s \in Streams(n + 1) /\ s.held = <<>> /\ s.open /\ ~s.creating /\ s.name = name
        /\ s.id = n + 1 /\ n + 1 \in 1..(n + 1)
    <2>1. n + 1 \in 0..(n + 1) /\ n + 1 \in 1..(n + 1) /\ <<>> \in Seq(FileBlocks)
      OBVIOUS
    <2>. QED
      BY <2>1 DEF NoStream, Streams
  <1>2. Range(<<>>) = {} /\ Len(<<>>) = 0 /\ Injective(<<>>) /\ 0 <= MaxBlocks
    BY BoundAssumption DEF Range, Injective
  <1>. QED
    BY <1>1, <1>2 DEF StreamOK, SaveOK, Linked

\* seekPath() for a name that does not exist.
LEMMA OpenNewGood ==
    ASSUME NEW img, NEW strm, NEW tsk, NEW done, NEW n, Good(img, strm, tsk, done, n),
           tsk.pc = "idle", NEW c \in Channels, NEW name \in Names, NEW s2, NEW tsk2,
           s2 = [NoStream EXCEPT !.open = TRUE, !.name = name, !.id = n + 1],
           tsk2 = [Idle EXCEPT !.pc = "begin", !.h = c]
    PROVE  Good(img, [strm EXCEPT ![c] = s2], tsk2, done, n + 1)
  <1>1. /\ strm \in [Channels -> Streams(n)] /\ StreamsOK(strm, tsk, n) /\ Sound(img, NoSlot, done)
    BY Aside DEF But
  <1>2. n \in Nat
    BY <1>1 DEF StreamsOK
  <1>3. /\ StreamOK(s2, FALSE, n + 1) /\ SaveOK(img, s2) /\ Range(s2.held) = {}
        /\ s2.open /\ ~s2.creating
    BY <1>2, OpenedOK
  <1>4. tsk2 \in Tasks /\ tsk2.pc = "begin" /\ tsk2.h = c
    <2>1. Idle \in Tasks /\ c \in Handles /\ "begin" \in Points
      BY IdleOK DEF Handles, Points
    <2>. HIDE DEF Idle
    <2>. QED
      BY <2>1 DEF Tasks
  <1>5. /\ ~Busied(tsk2, c) /\ tsk2.pc \notin Finishing /\ Extra(img, tsk2) = {}
        /\ But(tsk2) = NoSlot
    BY <1>4 DEF Busied, Finalizing, RollingBack, Finishing, Extra, But
  <1>6. StreamOK(s2, Busied(tsk2, c), n + 1)
    BY <1>3, <1>5 DEF StreamOK
  <1>. DEFINE strm2 == [strm EXCEPT ![c] = s2]
  <1>7. StreamsOK(strm2, tsk2, n + 1) /\ SavesOK(img, strm2, tsk2) /\ Apart(img, strm2, tsk2)
    <2>1. Starting(img, strm, c, s2, tsk2, n + 1)
      BY <1>3, <1>5, <1>6, <1>4 DEF Starting
    <2>2. n + 1 \in {n, n + 1}
      OBVIOUS
    <2>3. Started(img, strm2, tsk2, n + 1)
      BY <2>1, <2>2, Starts
    <2>. QED
      BY <2>3 DEF Started
  <1>8. strm2[c] = s2
    BY <1>1
  <1>. HIDE DEF strm2
  <1>9. WhoOK(strm2, tsk2) /\ StepOK(img, strm2, tsk2)
    BY <1>3, <1>4, <1>8 DEF WhoOK, StepOK
  <1>10. Good(img, strm2, tsk2, done, n + 1)
    BY <1>1, <1>5, <1>7, <1>9 DEF Good
  <1>. QED
    BY <1>10 DEF strm2

\* Whoever scratches a file gives up what was saved in it.
LEMMA ScratchSound ==
    ASSUME NEW img, NEW done, NEW done2, NEW s \in Live(img), Sound(img, NoSlot, done),
           done2 = done \ {img.data[FileChain(img, s)[1]].id}
    PROVE  /\ Sound(img, s, done2) /\ FileChain(img, s) # <<>>
           /\ FileChain(img, s) \in Seq(Block) /\ s \in Slots
  <1>1. /\ LinksOK(img) /\ EntriesOK(img) /\ img \in Image /\ DirOK(img)
        /\ FilesOK(img, NoSlot) /\ Kept(img, NoSlot, done)
    BY DEF Sound
  <1>2. FilesOK(img, s)
    BY <1>1, NotNoSlot DEF FilesOK
  <1>3. FileChain(img, s) \in Walks /\ s \in Places(img)
    BY <1>1, LiveStart, BlocksOfFile
  <1>4. Len(FileChain(img, s)) \in Nat /\ Len(FileChain(img, s)) >= 1
    BY <1>3, WalkLen
  <1>5. \A id : Holds(img, s, id) => img.data[FileChain(img, s)[1]].id = id
    <2>. SUFFICES ASSUME NEW id, Holds(img, s, id)
                  PROVE  img.data[FileChain(img, s)[1]].id = id
      OBVIOUS
    <2>1. Len(FileChain(img, s)) = EntryAt(img, s).blocks
      BY DEF Holds
    <2>2. 1 \in 1..EntryAt(img, s).blocks
      BY <1>4, <2>1
    <2>3. img.data[FileChain(img, s)[1]] = FileData(id, 1)
      BY <2>2 DEF Holds
    <2>. QED
      BY <2>3 DEF FileData
  <1>6. Kept(img, s, done2)
    BY <1>1, <1>5 DEF Kept
  <1>7. s \in Slots
    BY <1>1, <1>3 DEF DirOK, Places, Slots
  <1>. QED
    BY <1>2, <1>3, <1>6, <1>7 DEF Sound, Walks

\* seekPath() of SAVE"@:file", and removeFile().
LEMMA OpenReplaceGood ==
    ASSUME NEW img, NEW strm, NEW tsk, NEW done, NEW n, Good(img, strm, tsk, done, n),
           tsk.pc = "idle", NEW c \in Channels, NEW name \in Names, NEW s2, NEW tsk2,
           s2 = [NoStream EXCEPT !.open = TRUE, !.name = name, !.id = n + 1],
           NEW s \in Live(img), NEW chain, chain = FileChain(img, s),
           tsk2 = [Idle EXCEPT !.pc = "free", !.h = c, !.slot = s, !.todo = chain, !.then = "begin"],
           NEW done2, done2 = done \ {img.data[chain[1]].id}
    PROVE  Good(img, [strm EXCEPT ![c] = s2], tsk2, done2, n + 1)
  <1>1. /\ strm \in [Channels -> Streams(n)] /\ StreamsOK(strm, tsk, n) /\ Sound(img, NoSlot, done)
    BY Aside DEF But
  <1>2. n \in Nat
    BY <1>1 DEF StreamsOK
  <1>3. /\ StreamOK(s2, FALSE, n + 1) /\ SaveOK(img, s2) /\ Range(s2.held) = {}
        /\ s2.open /\ ~s2.creating
    BY <1>2, OpenedOK
  <1>4. Sound(img, s, done2) /\ chain # <<>> /\ chain \in Seq(Block) /\ s \in Slots
    BY <1>1, ScratchSound
  <1>5. /\ tsk2 \in Tasks /\ tsk2.pc = "free" /\ tsk2.h = c /\ tsk2.slot = s /\ tsk2.todo = chain
    <2>1. Idle \in Tasks /\ c \in Handles /\ "free" \in Points
      BY IdleOK DEF Handles, Points
    <2>. HIDE DEF Idle
    <2>. QED
      BY <1>4, <2>1 DEF Tasks
  <1>6. /\ ~Busied(tsk2, c) /\ tsk2.pc \notin Finishing /\ Extra(img, tsk2) = {}
        /\ But(tsk2) = s
    BY <1>5 DEF Busied, Finalizing, RollingBack, Finishing, Extra, But
  <1>7. StreamOK(s2, Busied(tsk2, c), n + 1)
    BY <1>3, <1>6 DEF StreamOK
  <1>. DEFINE strm2 == [strm EXCEPT ![c] = s2]
  <1>8. StreamsOK(strm2, tsk2, n + 1) /\ SavesOK(img, strm2, tsk2) /\ Apart(img, strm2, tsk2)
    <2>1. Starting(img, strm, c, s2, tsk2, n + 1)
      BY <1>3, <1>6, <1>7, <1>5 DEF Starting
    <2>2. n + 1 \in {n, n + 1}
      OBVIOUS
    <2>3. Started(img, strm2, tsk2, n + 1)
      BY <2>1, <2>2, Starts
    <2>. QED
      BY <2>3 DEF Started
  <1>9. strm2[c] = s2
    BY <1>1
  <1>. HIDE DEF strm2
  <1>10. WhoOK(strm2, tsk2)
    BY <1>3, <1>5, <1>9 DEF WhoOK
  <1>11. StepOK(img, strm2, tsk2)
    BY <1>4, <1>5 DEF StepOK, Blocks
  <1>12. Good(img, strm2, tsk2, done2, n + 1)
    BY <1>4, <1>6, <1>8, <1>10, <1>11 DEF Good
  <1>. QED
    BY <1>12 DEF strm2
=============================================================================
