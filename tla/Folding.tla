------------------------------ MODULE Folding -------------------------------
(***************************************************************************)
(* What FoldLeft does, for any operator and any sequence: it runs through  *)
(* the sequence from its first element to its last.  The other proofs take *)
(* an instance of this module with their operator for Op.                  *)
(***************************************************************************)
EXTENDS Integers, Sequences, Folds, WellFoundedInduction, TLAPS

CONSTANT Op(_, _)

Greatest(s) == CHOOSE x \in s : \A y \in s : x >= y

(* FoldLeft(Op, base, q), for which SequencesExt would bring in much more.    *)
Fold(base, q) ==
    MapThenFoldSet(LAMBDA x, y : Op(y, x), base, LAMBDA i : q[i], LAMBDA s : Greatest(s), DOMAIN q)

-----------------------------------------------------------------------------
(* A set that has 0 and the successor of each of its elements has them all. *)
LEMMA Induction ==
    ASSUME NEW T, 0 \in T, \A n \in Nat : n \in T => n + 1 \in T
    PROVE  Nat \subseteq T
<1> DEFINE Left == Nat \ T
           Less == {p \in Nat \X Nat : p[1] < p[2]}
<1> SUFFICES ASSUME Left # {} PROVE FALSE
  OBVIOUS
<1>1. IsWellFoundedOn(Less, Nat)
  <2>1. Less = OpToRel(<, Nat)
    BY DEF OpToRel
  <2> QED BY <2>1, NatLessThanWellFounded
<1>2. Left \subseteq Nat
  OBVIOUS
<1> HIDE DEF Left, Less
<1>3. PICK n \in Left : \A m \in Left : <<m, n>> \notin Less
  BY <1>1, <1>2, WFMin
<1>4. n - 1 \in Nat /\ (n - 1) + 1 = n /\ <<n - 1, n>> \in Less
  BY DEF Left, Less
<1> QED BY <1>3, <1>4 DEF Left

(* The function FoldLeft chooses, for a sequence or a function on 1 .. n.    *)
Walk(g, base, q, n) ==
    g = [s \in SUBSET (1 .. n) |-> IF s = {} THEN base ELSE Op(g[s \ {Greatest(s)}], q[Greatest(s)])]

LEMMA FoldIsWalk ==
    ASSUME NEW S, NEW q \in Seq(S), NEW base
    PROVE  Fold(base, q) = (CHOOSE g : Walk(g, base, q, Len(q)))[1 .. Len(q)]
<1>1. DOMAIN q = 1 .. Len(q)
  OBVIOUS
<1> QED BY <1>1 DEF Fold, MapThenFoldSet, Walk

LEMMA GreatestOfInterval ==
    ASSUME NEW n \in Nat, NEW s \in SUBSET (1 .. n + 1), n + 1 \in s
    PROVE  Greatest(s) = n + 1
<1>1. \A y \in s : n + 1 >= y
  OBVIOUS
<1>2. \A x \in s : (\A y \in s : x >= y) => x = n + 1
  <2> SUFFICES ASSUME NEW x \in s, \A y \in s : x >= y PROVE x = n + 1
    OBVIOUS
  <2>1. x >= n + 1 /\ x \in 1 .. n + 1
    OBVIOUS
  <2> QED BY <2>1
<1> QED BY <1>1, <1>2 DEF Greatest

(* There is such a function: one for n is made into one for n + 1. *)
LEMMA WalkExists ==
    ASSUME NEW q, NEW base
    PROVE  \A n \in Nat : \E g : Walk(g, base, q, n)
<1> DEFINE T == {n \in Nat : \E g : Walk(g, base, q, n)}
<1>1. 0 \in T
  <2> DEFINE g == [s \in SUBSET (1 .. 0) |-> base]
  <2>1. Walk(g, base, q, 0)
    BY DEF Walk
  <2> QED BY <2>1
<1>2. ASSUME NEW n \in Nat, n \in T
      PROVE  n + 1 \in T
  <2>1. PICK g : Walk(g, base, q, n)
    BY <1>2
  <2> DEFINE h == [s \in SUBSET (1 .. n + 1) |->
                      IF n + 1 \in s THEN Op(g[s \ {n + 1}], q[n + 1]) ELSE g[s]]
  <2>2. ASSUME NEW s \in SUBSET (1 .. n + 1)
        PROVE  h[s] = IF s = {} THEN base ELSE Op(h[s \ {Greatest(s)}], q[Greatest(s)])
    <3>1. CASE n + 1 \in s
      <4>1. Greatest(s) = n + 1 /\ s \ {n + 1} \in SUBSET (1 .. n) /\ s \ {n + 1} \in SUBSET (1 .. n + 1)
        BY <3>1, GreatestOfInterval
      <4>2. h[s \ {n + 1}] = g[s \ {n + 1}]
        BY <4>1
      <4>3. h[s] = Op(g[s \ {n + 1}], q[n + 1])
        BY <3>1
      <4> QED BY <3>1, <4>1, <4>2, <4>3
    <3>2. CASE n + 1 \notin s
      <4>1. s \in SUBSET (1 .. n)
        BY <3>2
      <4>2. h[s] = g[s]
        BY <3>2
      <4>3. g[s] = IF s = {} THEN base ELSE Op(g[s \ {Greatest(s)}], q[Greatest(s)])
        BY <2>1, <4>1 DEF Walk
      <4>4. n + 1 \notin s \ {Greatest(s)} /\ s \ {Greatest(s)} \in SUBSET (1 .. n + 1)
        BY <3>2
      <4>5. h[s \ {Greatest(s)}] = g[s \ {Greatest(s)}]
        BY <4>4
      <4> QED BY <4>2, <4>3, <4>5
    <3> QED BY <3>1, <3>2
  <2>3. h = [s \in SUBSET (1 .. n + 1) |-> h[s]]
    OBVIOUS
  <2> HIDE DEF h
  <2>4. Walk(h, base, q, n + 1)
    BY <2>2, <2>3 DEF Walk
  <2> QED BY <2>4
<1> HIDE DEF T
<1>3. Nat \subseteq T
  BY <1>1, <1>2, Induction
<1> QED BY <1>3 DEF T

(* f is the run of a fold over q from base: f[k] is the result after k       *)
(* elements.                                                                 *)
Runs(f, base, q) ==
    f[0] = base /\ \A k \in 1 .. Len(q) : f[k] = Op(f[k - 1], q[k])

THEOREM FoldRuns ==
    ASSUME NEW S, NEW q \in Seq(S), NEW base
    PROVE  \E f : Runs(f, base, q) /\ Fold(base, q) = f[Len(q)]
<1> DEFINE n == Len(q)
           g == CHOOSE h : Walk(h, base, q, n)
           f == [k \in 0 .. n |-> g[1 .. k]]
<1>1. n \in Nat
  OBVIOUS
<1> HIDE DEF n
<1>2. Walk(g, base, q, n)
  BY <1>1, WalkExists
<1> HIDE DEF g
<1>3. f[0] = base
  <2>1. 1 .. 0 \in SUBSET (1 .. n) /\ 1 .. 0 = {}
    OBVIOUS
  <2>2. g[1 .. 0] = base
    BY <1>2, <2>1 DEF Walk
  <2> QED BY <1>1, <2>2
<1>4. ASSUME NEW k \in 1 .. n
      PROVE  f[k] = Op(f[k - 1], q[k])
  <2>1. 1 .. k \in SUBSET (1 .. n) /\ 1 .. k # {} /\ (1 .. k) \ {k} = 1 .. (k - 1)
    BY <1>1
  <2>2. Greatest(1 .. k) = k
    <3>1. k - 1 \in Nat /\ (k - 1) + 1 = k /\ k \in 1 .. k
      BY <1>1
    <3> QED BY <3>1, GreatestOfInterval
  <2>3. g[1 .. k] = Op(g[1 .. (k - 1)], q[k])
    BY <1>2, <2>1, <2>2 DEF Walk
  <2>4. k \in 0 .. n /\ k - 1 \in 0 .. n
    BY <1>1
  <2> QED BY <2>3, <2>4
<1>5. Fold(base, q) = f[n]
  <2>1. Fold(base, q) = g[1 .. n]
    BY FoldIsWalk DEF g, n
  <2> QED BY <1>1, <2>1
<1> HIDE DEF f
<1> QED BY <1>3, <1>4, <1>5 DEF n, Runs

LEMMA OneRun ==
    ASSUME NEW S, NEW q \in Seq(S), NEW base, NEW f, NEW h, Runs(f, base, q), Runs(h, base, q)
    PROVE  \A k \in 0 .. Len(q) : f[k] = h[k]
<1> DEFINE T == {k \in Nat : k <= Len(q) => f[k] = h[k]}
<1>1. 0 \in T
  BY DEF Runs
<1>2. ASSUME NEW k \in Nat, k \in T
      PROVE  k + 1 \in T
  <2> SUFFICES ASSUME k + 1 <= Len(q) PROVE f[k + 1] = h[k + 1]
    OBVIOUS
  <2>1. k + 1 \in 1 .. Len(q) /\ k <= Len(q) /\ (k + 1) - 1 = k
    OBVIOUS
  <2>2. f[k] = h[k]
    BY <1>2, <2>1
  <2> QED BY <2>1, <2>2 DEF Runs
<1> HIDE DEF T
<1>3. Nat \subseteq T
  BY <1>1, <1>2, Induction
<1>4. \A k \in 0 .. Len(q) : k \in Nat /\ k <= Len(q)
  OBVIOUS
<1> QED BY <1>3, <1>4 DEF T

(* The result is the end of any run. *)
THEOREM FoldIsEnd ==
    ASSUME NEW S, NEW q \in Seq(S), NEW base, NEW f, Runs(f, base, q)
    PROVE  Fold(base, q) = f[Len(q)]
<1>1. PICK h : Runs(h, base, q) /\ Fold(base, q) = h[Len(q)]
  BY FoldRuns
<1>2. Len(q) \in 0 .. Len(q)
  OBVIOUS
<1> QED BY <1>1, <1>2, OneRun

-----------------------------------------------------------------------------
(* What the other proofs use. *)

THEOREM FoldNone ==
    ASSUME NEW base
    PROVE  Fold(base, << >>) = base
<1>1. << >> \in Seq({}) /\ Len(<< >>) = 0
  OBVIOUS
<1>2. PICK f : Runs(f, base, << >>) /\ Fold(base, << >>) = f[Len(<< >>)]
  BY <1>1, FoldRuns
<1> QED BY <1>1, <1>2 DEF Runs

THEOREM FoldAppend ==
    ASSUME NEW S, NEW q \in Seq(S), NEW e \in S, NEW base
    PROVE  Fold(base, Append(q, e)) = Op(Fold(base, q), e)
<1> DEFINE r == Append(q, e)
<1>1. /\ r \in Seq(S) /\ Len(q) \in Nat /\ Len(r) = Len(q) + 1 /\ r[Len(q) + 1] = e
      /\ \A k \in 1 .. Len(q) : r[k] = q[k]
  OBVIOUS
<1> HIDE DEF r
<1>2. PICK f : Runs(f, base, r) /\ Fold(base, r) = f[Len(r)]
  BY <1>1, FoldRuns
<1>3. Runs(f, base, q)
  <2>1. \A k \in 1 .. Len(q) : k \in 1 .. Len(r)
    BY <1>1
  <2> QED BY <1>1, <1>2, <2>1 DEF Runs
<1>4. Fold(base, q) = f[Len(q)]
  BY <1>3, FoldIsEnd
<1>5. Len(r) \in 1 .. Len(r) /\ Len(r) - 1 = Len(q)
  BY <1>1
<1>6. f[Len(r)] = Op(f[Len(q)], r[Len(r)])
  BY <1>2, <1>5 DEF Runs
<1> QED BY <1>1, <1>2, <1>4, <1>6 DEF r

THEOREM FoldFirst ==
    ASSUME NEW S, NEW q \in Seq(S), q # << >>, NEW base
    PROVE  Fold(base, q) = Fold(Op(base, Head(q)), Tail(q))
<1> DEFINE r == Tail(q)
<1>1. /\ r \in Seq(S) /\ Len(r) \in Nat /\ Len(q) = Len(r) + 1 /\ q[1] = Head(q)
      /\ \A k \in 1 .. Len(r) : r[k] = q[k + 1]
  OBVIOUS
<1> HIDE DEF r
<1>2. PICK f : Runs(f, base, q) /\ Fold(base, q) = f[Len(q)]
  BY FoldRuns
<1> DEFINE h == [k \in 0 .. Len(r) |-> f[k + 1]]
<1>3. h[0] = Op(base, Head(q))
  <2>1. 1 \in 1 .. Len(q) /\ 0 \in 0 .. Len(r)
    BY <1>1
  <2>2. f[1] = Op(f[1 - 1], q[1]) /\ f[0] = base
    BY <1>2, <2>1 DEF Runs
  <2> QED BY <1>1, <2>1, <2>2
<1>4. ASSUME NEW k \in 1 .. Len(r)
      PROVE  h[k] = Op(h[k - 1], r[k])
  <2>1. k \in 0 .. Len(r) /\ k - 1 \in 0 .. Len(r) /\ k + 1 \in 1 .. Len(q) /\ (k - 1) + 1 = (k + 1) - 1
    BY <1>1
  <2>2. f[k + 1] = Op(f[(k + 1) - 1], q[k + 1])
    BY <1>2, <2>1 DEF Runs
  <2>3. h[k] = f[k + 1] /\ h[k - 1] = f[(k - 1) + 1]
    BY <2>1
  <2> QED BY <1>1, <2>1, <2>2, <2>3
<1>5. h[Len(r)] = f[Len(q)]
  BY <1>1
<1> HIDE DEF h
<1>6. Runs(h, Op(base, Head(q)), r)
  BY <1>3, <1>4 DEF Runs
<1>7. Fold(Op(base, Head(q)), r) = h[Len(r)]
  BY <1>1, <1>6, FoldIsEnd
<1> QED BY <1>2, <1>5, <1>7 DEF r

THEOREM FoldConcat ==
    ASSUME NEW S, NEW q \in Seq(S), NEW r \in Seq(S), NEW base
    PROVE  Fold(base, q \o r) = Fold(Fold(base, q), r)
<1> DEFINE w == q \o r
<1>1. /\ w \in Seq(S) /\ Len(q) \in Nat /\ Len(r) \in Nat /\ Len(w) = Len(q) + Len(r)
      /\ \A k \in 1 .. Len(q) : w[k] = q[k]
      /\ \A k \in 1 .. Len(r) : w[Len(q) + k] = r[k]
  OBVIOUS
<1> HIDE DEF w
<1>2. PICK f : Runs(f, base, w) /\ Fold(base, w) = f[Len(w)]
  BY <1>1, FoldRuns
<1>3. Runs(f, base, q)
  <2>1. \A k \in 1 .. Len(q) : k \in 1 .. Len(w)
    BY <1>1
  <2> QED BY <1>1, <1>2, <2>1 DEF Runs
<1>4. Fold(base, q) = f[Len(q)]
  BY <1>3, FoldIsEnd
<1> DEFINE h == [k \in 0 .. Len(r) |-> f[Len(q) + k]]
<1>5. h[0] = Fold(base, q)
  BY <1>1, <1>4
<1>6. ASSUME NEW k \in 1 .. Len(r)
      PROVE  h[k] = Op(h[k - 1], r[k])
  <2>1. /\ k \in 0 .. Len(r) /\ k - 1 \in 0 .. Len(r) /\ Len(q) + k \in 1 .. Len(w)
        /\ Len(q) + (k - 1) = (Len(q) + k) - 1
    BY <1>1
  <2>2. f[Len(q) + k] = Op(f[(Len(q) + k) - 1], w[Len(q) + k])
    BY <1>2, <2>1 DEF Runs
  <2>3. h[k] = f[Len(q) + k] /\ h[k - 1] = f[Len(q) + (k - 1)]
    BY <2>1
  <2> QED BY <1>1, <2>1, <2>2, <2>3
<1>7. h[Len(r)] = f[Len(w)]
  BY <1>1
<1> HIDE DEF h
<1>8. Runs(h, Fold(base, q), r)
  BY <1>5, <1>6 DEF Runs
<1>9. Fold(Fold(base, q), r) = h[Len(r)]
  BY <1>8, FoldIsEnd
<1> QED BY <1>2, <1>7, <1>9 DEF w

(* What holds at first and is kept by every element holds at the end; W[k]   *)
(* are the values that may be there after k elements.                        *)
THEOREM FoldKeeps ==
    ASSUME NEW S, NEW q \in Seq(S), NEW base, NEW W, base \in W[0],
           \A k \in 1 .. Len(q) : \A v \in W[k - 1] : Op(v, q[k]) \in W[k]
    PROVE  Fold(base, q) \in W[Len(q)]
<1>1. PICK f : Runs(f, base, q) /\ Fold(base, q) = f[Len(q)]
  BY FoldRuns
<1> DEFINE T == {k \in Nat : k <= Len(q) => f[k] \in W[k]}
<1>2. 0 \in T
  BY <1>1 DEF Runs
<1>3. ASSUME NEW k \in Nat, k \in T
      PROVE  k + 1 \in T
  <2> SUFFICES ASSUME k + 1 <= Len(q) PROVE f[k + 1] \in W[k + 1]
    OBVIOUS
  <2>1. k + 1 \in 1 .. Len(q) /\ k <= Len(q) /\ (k + 1) - 1 = k
    OBVIOUS
  <2>2. f[k] \in W[k]
    BY <1>3, <2>1
  <2>3. f[k + 1] = Op(f[k], q[k + 1])
    BY <1>1, <2>1 DEF Runs
  <2> QED BY <2>1, <2>2, <2>3
<1> HIDE DEF T
<1>4. Nat \subseteq T
  BY <1>2, <1>3, Induction
<1>5. Len(q) \in Nat
  OBVIOUS
<1>6. f[Len(q)] \in W[Len(q)]
  BY <1>4, <1>5 DEF T
<1> QED BY <1>1, <1>6
=============================================================================
