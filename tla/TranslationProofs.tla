-------------------------- MODULE TranslationProofs --------------------------
(***************************************************************************)
(* What holds of every file the translator writes, whatever the module:    *)
(* the type invariant of Translation; OutputWellFormed, that every offset  *)
(* put in afterwards is right; OnlyJumpsAreDead, that control comes to all *)
(* else that is written; and ControlKept, that a call enters at the first  *)
(* block and that each block goes on to those that follow it.              *)
(*                                                                         *)
(* A producer of instructions is shown to extend what is written: Extends, *)
(* and Continues for the code in the middle of a block, Ends for the code  *)
(* at its end; control is Led through both.  For unreachable nothing is    *)
(* written: such a block Falls, its code only Continues, and what follows  *)
(* it, if anything, is the code of another block.  Between two actions     *)
(*   Inv      the function being printed has a Body, in which nothing      *)
(*            comes to some of the jumps, D; if it ends in a block that    *)
(*            Falls, control may come to the place after it too.  If no    *)
(*            function does, the text before it is Finished;               *)
(*   Flowing  control comes to the rest before that function, and in it    *)
(*            from the beginning of each block to all its code; the calls  *)
(*            of printLoop nest, so that each block is printed once;       *)
(*   Laid     the functions printed are as their layouts say, each block   *)
(*            of the one being printed, unless it Falls, Encloses code of  *)
(*            its own.                                                     *)
(***************************************************************************)
EXTENDS Translation, SequenceTheorems, FiniteSetTheorems, WellFoundedInduction, TLAPS

-----------------------------------------------------------------------------
(* Induction over the natural numbers, and over the steps of a fold *)

LessThan == {ss \in Nat \X Nat : ss[1] < ss[2]}

\* A set of naturals with 0 and the successors of its elements is Nat: its
\* complement would have a least element.
LEMMA Induction ==
    ASSUME NEW T, T \subseteq Nat, 0 \in T, \A n \in T : n + 1 \in T
    PROVE  T = Nat
<1> SUFFICES ASSUME T # Nat PROVE FALSE
  OBVIOUS
<1>1. OpToRel(<, Nat) = LessThan
  BY DEF OpToRel, LessThan
<1>2. IsWellFoundedOn(LessThan, Nat)
  BY <1>1, NatLessThanWellFounded
<1>3. Nat \ T \subseteq Nat /\ Nat \ T # {}
  OBVIOUS
<1>4. PICK x \in Nat \ T : \A y \in Nat \ T : ~ (<<y, x>> \in LessThan)
  BY <1>2, <1>3, WFMin
<1>5. x - 1 \in Nat /\ <<x - 1, x>> \in LessThan
  BY DEF LessThan
<1>6. x - 1 \in T
  BY <1>4, <1>5
<1> QED
  BY <1>5, <1>6

LEMMA MaxOfPrefix ==
    \A k \in Nat : Max(1 .. k + 1) = k + 1 /\ (1 .. k + 1) \ {k + 1} = 1 .. k
<1> SUFFICES ASSUME NEW k \in Nat
             PROVE  Max(1 .. k + 1) = k + 1 /\ (1 .. k + 1) \ {k + 1} = 1 .. k
  OBVIOUS
<1>1. \A x \in 1 .. k + 1 : (\A y \in 1 .. k + 1 : x >= y) <=> x = k + 1
  OBVIOUS
<1> QED
  BY <1>1 DEF Max

\* The largest element of a set of indices.
LEMMA MaxExists ==
    \A n \in Nat : \A t \in (SUBSET (1 .. n)) \ {{}} :
        Max(t) \in t /\ \A y \in t : Max(t) >= y
<1> DEFINE T == {n \in Nat : \A t \in (SUBSET (1 .. n)) \ {{}} :
                                \E x \in t : \A y \in t : x >= y}
<1>1. 0 \in T
  OBVIOUS
<1>2. ASSUME NEW n \in T PROVE n + 1 \in T
  <2> SUFFICES ASSUME NEW t \in (SUBSET (1 .. n + 1)) \ {{}}
               PROVE  \E x \in t : \A y \in t : x >= y
    OBVIOUS
  <2>1. CASE n + 1 \in t
    <3>1. \A y \in t : n + 1 >= y
      OBVIOUS
    <3> QED
      BY <2>1, <3>1
  <2>2. CASE n + 1 \notin t
    <3>1. t \in (SUBSET (1 .. n)) \ {{}}
      BY <2>2
    <3> QED
      BY <3>1
  <2> QED
    BY <2>1, <2>2
<1>3. T = Nat
  <2>1. T \subseteq Nat
    OBVIOUS
  <2> HIDE DEF T
  <2> QED
    BY <1>1, <1>2, <2>1, Induction
<1> QED
  BY <1>3 DEF Max

\* it is what a fold computes for each set of indices up to k.
Computes(it, w, Step, k) ==
    \A t \in SUBSET (1 .. k) :
        it[t] = IF t = {} THEN w ELSE Step[<<it[t \ {Max(t)}], Max(t)>>]

\* What a fold computes on the way exists, for a step that stays within G.
LEMMA FoldComputes ==
    ASSUME NEW G, NEW w \in G, NEW n \in Nat, NEW Step \in [G \X (1 .. n) -> G]
    PROVE  \E it \in [SUBSET (1 .. n) -> G] : Computes(it, w, Step, n)
<1> DEFINE T == {k \in Nat : k <= n =>
                    \E it \in [SUBSET (1 .. k) -> G] : Computes(it, w, Step, k)}
<1>1. 0 \in T
  <2> DEFINE it == [t \in SUBSET (1 .. 0) |-> w]
  <2>1. SUBSET (1 .. 0) = {{}}
    OBVIOUS
  <2>2. it \in [SUBSET (1 .. 0) -> G]
    OBVIOUS
  <2>3. Computes(it, w, Step, 0)
    BY <2>1 DEF Computes
  <2> QED
    BY <2>2, <2>3
<1>2. ASSUME NEW k \in T PROVE k + 1 \in T
  <2>1. k \in Nat /\ k + 1 \in Nat
    OBVIOUS
  <2> SUFFICES ASSUME k + 1 <= n
               PROVE  \E it \in [SUBSET (1 .. k + 1) -> G] : Computes(it, w, Step, k + 1)
    BY <2>1, Zenon
  <2>2. PICK f \in [SUBSET (1 .. k) -> G] : Computes(f, w, Step, k)
    <3>1. k <= n
      BY <2>1
    <3> QED
      BY <3>1, Zenon
  <2> DEFINE it == [t \in SUBSET (1 .. k + 1) |->
                       IF k + 1 \in t THEN Step[<<f[t \ {k + 1}], k + 1>>] ELSE f[t]]
  <2>3. \A t \in SUBSET (1 .. k + 1) : k + 1 \in t => t \ {k + 1} \in SUBSET (1 .. k)
    BY <2>1
  <2>4. \A t \in SUBSET (1 .. k + 1) : k + 1 \notin t => t \in SUBSET (1 .. k)
    BY <2>1
  <2>5. k + 1 \in 1 .. n
    BY <2>1
  <2>6. it \in [SUBSET (1 .. k + 1) -> G]
    <3>1. ASSUME NEW t \in SUBSET (1 .. k + 1)
          PROVE  (IF k + 1 \in t THEN Step[<<f[t \ {k + 1}], k + 1>>] ELSE f[t]) \in G
      <4>1. CASE k + 1 \in t
        <5>1. f[t \ {k + 1}] \in G
          BY <2>3, <4>1
        <5>2. <<f[t \ {k + 1}], k + 1>> \in G \X (1 .. n)
          BY <2>5, <5>1
        <5> QED
          BY <4>1, <5>2
      <4>2. CASE k + 1 \notin t
        BY <2>4, <4>2
      <4> QED
        BY <4>1, <4>2
    <3> QED
      BY <3>1
  <2>7. ASSUME NEW t \in SUBSET (1 .. k + 1)
        PROVE  it[t] = IF t = {} THEN w ELSE Step[<<it[t \ {Max(t)}], Max(t)>>]
    <3>1. CASE k + 1 \in t
      <4>1. Max(t) = k + 1
        <5>1. t \in (SUBSET (1 .. k + 1)) \ {{}} /\ k + 1 \in Nat
          BY <2>1, <3>1
        <5>2. Max(t) \in t /\ Max(t) >= k + 1
          BY <3>1, <5>1, MaxExists
        <5>3. Max(t) \in 1 .. k + 1
          BY <5>2
        <5> QED
          BY <2>1, <5>2, <5>3
      <4>2. it[t \ {k + 1}] = f[t \ {k + 1}]
        <5>1. t \ {k + 1} \in SUBSET (1 .. k + 1) /\ k + 1 \notin t \ {k + 1}
          OBVIOUS
        <5> QED
          BY <5>1
      <4>3. it[t] = Step[<<f[t \ {k + 1}], k + 1>>] /\ t # {}
        BY <3>1
      <4> HIDE DEF it
      <4> QED
        BY <4>1, <4>2, <4>3
    <3>2. CASE k + 1 \notin t
      <4>1. t \in SUBSET (1 .. k) /\ it[t] = f[t]
        BY <2>4, <3>2
      <4>2. it[t \ {Max(t)}] = f[t \ {Max(t)}]
        <5>1. t \ {Max(t)} \in SUBSET (1 .. k + 1) /\ k + 1 \notin t \ {Max(t)}
          BY <3>2
        <5> QED
          BY <5>1
      <4>3. f[t] = IF t = {} THEN w ELSE Step[<<f[t \ {Max(t)}], Max(t)>>]
        BY <2>2, <4>1 DEF Computes
      <4> HIDE DEF it
      <4> QED
        BY <4>1, <4>2, <4>3
    <3> QED
      BY <3>1, <3>2
  <2> HIDE DEF it
  <2>8. Computes(it, w, Step, k + 1)
    BY <2>7 DEF Computes
  <2> QED
    BY <2>6, <2>8
<1>3. T = Nat
  <2>1. T \subseteq Nat
    OBVIOUS
  <2> HIDE DEF T
  <2> QED
    BY <1>1, <1>2, <2>1, Induction
<1>4. n <= n
  OBVIOUS
<1> QED
  BY <1>3, <1>4, Zenon

\* it is what a fold of n steps within G computes on the way.
Unfolds(it, G, w, n, Step) ==
    /\ it \in [SUBSET (1 .. n) -> G]
    /\ it[{}] = w
    /\ \A t \in SUBSET (1 .. n) :
          t # {} => /\ Max(t) \in 1 .. n
                    /\ it[t \ {Max(t)}] \in G
                    /\ it[t] = Step[<<it[t \ {Max(t)}], Max(t)>>]

LEMMA FoldExists ==
    ASSUME NEW G, NEW w \in G, NEW n \in Nat, NEW Step \in [G \X (1 .. n) -> G]
    PROVE  \E it : Unfolds(it, G, w, n, Step)
<1>1. PICK it \in [SUBSET (1 .. n) -> G] : Computes(it, w, Step, n)
  BY FoldComputes
<1>2. it[{}] = w
  BY <1>1 DEF Computes
<1>3. ASSUME NEW t \in SUBSET (1 .. n), t # {}
      PROVE  /\ Max(t) \in 1 .. n
             /\ it[t \ {Max(t)}] \in G
             /\ it[t] = Step[<<it[t \ {Max(t)}], Max(t)>>]
  <2>1. Max(t) \in 1 .. n
    BY <1>3, MaxExists
  <2>2. it[t \ {Max(t)}] \in G
    OBVIOUS
  <2> QED
    BY <1>1, <1>3, <2>1, <2>2 DEF Computes
<1> QED
  BY <1>2, <1>3 DEF Unfolds

\* What holds at the start of a fold and is kept by each step holds at its end.
LEMMA FoldEnds ==
    ASSUME NEW G, NEW n \in Nat, NEW fold,
           fold[{}] \in G[0],
           \A k \in 1 .. n : fold[1 .. k - 1] \in G[k - 1] => fold[1 .. k] \in G[k]
    PROVE  fold[1 .. n] \in G[n]
<1> DEFINE T == {k \in Nat : k <= n => fold[1 .. k] \in G[k]}
<1>1. 0 \in T
  <2>1. 1 .. 0 = {}
    OBVIOUS
  <2> QED
    BY <2>1
<1>2. ASSUME NEW k \in T PROVE k + 1 \in T
  <2>1. k \in Nat /\ (k + 1) - 1 = k
    OBVIOUS
  <2> QED
    BY <2>1
<1>3. T = Nat
  <2>1. T \subseteq Nat
    OBVIOUS
  <2> HIDE DEF T
  <2> QED
    BY <1>1, <1>2, <2>1, Induction
<1> QED
  BY <1>3

LEMMA PrefixIndices ==
    \A n \in Nat : \A k \in 1 .. n :
        /\ 1 .. k \in SUBSET (1 .. n) /\ 1 .. k # {}
        /\ Max(1 .. k) = k /\ (1 .. k) \ {k} = 1 .. k - 1
<1> SUFFICES ASSUME NEW n \in Nat, NEW k \in 1 .. n
             PROVE  /\ 1 .. k \in SUBSET (1 .. n) /\ 1 .. k # {}
                    /\ Max(1 .. k) = k /\ (1 .. k) \ {k} = 1 .. k - 1
  OBVIOUS
<1>1. k - 1 \in Nat /\ (k - 1) + 1 = k /\ k \in 1 .. k
  OBVIOUS
<1>2. 1 .. k \in SUBSET (1 .. n)
  OBVIOUS
<1> QED
  BY <1>1, <1>2, MaxOfPrefix

LEMMA FoldStays ==
    ASSUME NEW G, NEW n \in Nat, NEW fold,
           fold[{}] \in G,
           \A t \in SUBSET (1 .. n) :
               t # {} /\ Max(t) \in 1 .. n /\ fold[t \ {Max(t)}] \in G => fold[t] \in G
    PROVE  fold[1 .. n] \in G
<1> DEFINE Gs == [k \in 0 .. n |-> G]
<1>1. \A k \in 0 .. n : Gs[k] = G
  OBVIOUS
<1>2. 0 \in 0 .. n /\ n \in 0 .. n
  OBVIOUS
<1>3. ASSUME NEW k \in 1 .. n, fold[1 .. k - 1] \in Gs[k - 1]
      PROVE  fold[1 .. k] \in Gs[k]
  <2>1. k - 1 \in 0 .. n /\ k \in 0 .. n
    OBVIOUS
  <2>2. 1 .. k \in SUBSET (1 .. n) /\ 1 .. k # {} /\ Max(1 .. k) = k
        /\ (1 .. k) \ {k} = 1 .. k - 1
    BY PrefixIndices
  <2>3. fold[1 .. k - 1] \in G
    BY <1>1, <1>3, <2>1
  <2>4. fold[1 .. k] \in G
    BY <2>2, <2>3
  <2> QED
    BY <1>1, <2>1, <2>4
<1> HIDE DEF Gs
<1>4. fold[{}] \in Gs[0]
  BY <1>1, <1>2
<1>5. fold[1 .. n] \in Gs[n]
  BY <1>3, <1>4, FoldEnds
<1> QED
  BY <1>1, <1>2, <1>5

\* What LLVM identifies in a function.
Identifiers(f) ==
    ToSet(f.params)
        \cup UNION {{x.id : x \in ToSet(block.phis) \cup ToSet(block.body)} :
                        block \in ToSet(f.blocks)}

LEMMA SequenceOfOwn ==
    \A S : \A s \in Seq(S) : s \in Seq(ToSet(s)) /\ ToSet(s) \subseteq S
<1> SUFFICES ASSUME NEW S, NEW s \in Seq(S)
             PROVE  s \in Seq(ToSet(s)) /\ ToSet(s) \subseteq S
  OBVIOUS
<1>1. \A i \in 1 .. Len(s) : s[i] \in ToSet(s) /\ s[i] \in S
  BY DEF ToSet
<1>2. DOMAIN s = 1 .. Len(s) /\ Len(s) \in Nat
  OBVIOUS
<1>3. ToSet(s) \subseteq S
  BY <1>1, <1>2 DEF ToSet
<1> DEFINE T == ToSet(s)
<1>4. \A i \in 1 .. Len(s) : s[i] \in T
  BY <1>1
<1> HIDE DEF T
<1>5. s \in [1 .. Len(s) -> T]
  <2>1. s = [i \in 1 .. Len(s) |-> s[i]]
    BY <1>2
  <2> QED
    BY <1>4, <2>1
<1>6. s \in Seq(T)
  BY <1>2, <1>5
<1> QED
  BY <1>3, <1>6 DEF T

LEMMA AppendParts ==
    \A X, x : \A s \in Seq(X) :
        /\ Len(Append(s, x)) = Len(s) + 1 /\ Append(s, x)[Len(s) + 1] = x
        /\ \A m \in 1 .. Len(s) : Append(s, x)[m] = s[m]
<1> SUFFICES ASSUME NEW X, NEW x, NEW s \in Seq(X)
             PROVE  /\ Len(Append(s, x)) = Len(s) + 1 /\ Append(s, x)[Len(s) + 1] = x
                    /\ \A m \in 1 .. Len(s) : Append(s, x)[m] = s[m]
  OBVIOUS
<1>1. s \in Seq(X \cup {x}) /\ x \in X \cup {x}
  OBVIOUS
<1> QED
  BY <1>1

\* The sequences over S that begin with ids.
Longer(S, ids) ==
    {v \in Seq(S) : Len(ids) <= Len(v) /\ \A k \in 1 .. Len(ids) : v[k] = ids[k]}

LEMMA LongerSelf == \A S : \A ids \in Seq(S) : ids \in Longer(S, ids)
BY DEF Longer

LEMMA LongerStill ==
    \A S, x : \A ids \in Seq(S) : \A v \in Longer(S, ids) :
        x \in S => Append(v, x) \in Longer(S, ids)
<1> SUFFICES ASSUME NEW S, NEW x \in S, NEW ids \in Seq(S), NEW v \in Longer(S, ids)
             PROVE  Append(v, x) \in Longer(S, ids)
  OBVIOUS
<1>1. v \in Seq(S) /\ Len(ids) <= Len(v) /\ \A k \in 1 .. Len(ids) : v[k] = ids[k]
  BY DEF Longer
<1>2. Len(ids) \in Nat /\ Len(v) \in Nat
  BY <1>1
<1>3. /\ Append(v, x) \in Seq(S) /\ Len(Append(v, x)) = Len(v) + 1
      /\ \A k \in 1 .. Len(v) : Append(v, x)[k] = v[k]
  BY <1>1
<1>4. \A k \in 1 .. Len(ids) : k \in 1 .. Len(v)
  BY <1>1, <1>2
<1>5. Len(ids) <= Len(Append(v, x))
  BY <1>1, <1>2, <1>3
<1>6. \A k \in 1 .. Len(ids) : Append(v, x)[k] = ids[k]
  BY <1>1, <1>3, <1>4
<1> QED
  BY <1>3, <1>5, <1>6 DEF Longer

LEMMA LongerYet ==
    \A S : \A ids \in Seq(S) : \A v \in Longer(S, ids) : Longer(S, v) \subseteq Longer(S, ids)
<1> SUFFICES ASSUME NEW S, NEW ids \in Seq(S), NEW v \in Longer(S, ids), NEW u \in Longer(S, v)
             PROVE  u \in Longer(S, ids)
  OBVIOUS
<1>1. /\ v \in Seq(S) /\ Len(ids) <= Len(v) /\ \A k \in 1 .. Len(ids) : v[k] = ids[k]
      /\ u \in Seq(S) /\ Len(v) <= Len(u) /\ \A k \in 1 .. Len(v) : u[k] = v[k]
  BY DEF Longer
<1>2. Len(ids) \in Nat /\ Len(v) \in Nat /\ Len(u) \in Nat
  BY <1>1
<1>3. \A k \in 1 .. Len(ids) : k \in 1 .. Len(v)
  BY <1>1, <1>2
<1> QED
  BY <1>1, <1>2, <1>3 DEF Longer

\* The values of one block, after the identifiers ids.
LEMMA FoldSeen ==
    ASSUME NEW S, NEW ids \in Seq(S), NEW X, NEW s \in Seq(X), \A x \in X : x.id \in S
    PROVE  FoldLeft(LAMBDA v, x : IF x.id = NoId THEN v ELSE Append(v, x.id), ids, s)
               \in Longer(S, ids)
<1> DEFINE n == Len(s)
           G == Longer(S, ids)
           Op(v, x) == IF x.id = NoId THEN v ELSE Append(v, x.id)
           Step == [p \in G \X (1 .. n) |-> Op(p[1], s[p[2]])]
           Fold(it) == [t \in SUBSET DOMAIN s |->
                          IF t = {} THEN ids ELSE Op(it[t \ {Max(t)}], s[Max(t)])]
           fold == CHOOSE it : it = Fold(it)
<1>1. DOMAIN s = 1 .. n /\ n \in Nat /\ ids \in G /\ \A k \in 1 .. n : s[k] \in X
  BY LongerSelf
<1>2. \A v \in G, k \in 1 .. n : Op(v, s[k]) \in G
  BY <1>1, LongerStill
<1> HIDE DEF Op, n
<1>3. Step \in [G \X (1 .. n) -> G]
  BY <1>2
<1> HIDE DEF Step, G
<1>4. PICK it : Unfolds(it, G, ids, n, Step)
  BY <1>1, <1>3, FoldExists
<1>5. it = Fold(it)
  <2>1. ASSUME NEW t \in SUBSET (1 .. n), t # {}
        PROVE  it[t] = Op(it[t \ {Max(t)}], s[Max(t)])
    <3>1. Max(t) \in 1 .. n /\ it[t \ {Max(t)}] \in G
          /\ it[t] = Step[<<it[t \ {Max(t)}], Max(t)>>]
      BY <1>4, <2>1 DEF Unfolds
    <3> QED
      BY <3>1 DEF Step
  <2> QED
    BY <1>1, <1>4, <2>1 DEF Unfolds
<1>6. fold = Fold(fold)
  BY <1>5
<1> HIDE DEF fold
<1>7. fold[1 .. n] \in G
  <2>1. fold[{}] = ids
    BY <1>6
  <2>2. ASSUME NEW t \in SUBSET (1 .. n), t # {}, Max(t) \in 1 .. n,
               fold[t \ {Max(t)}] \in G
        PROVE  fold[t] \in G
    BY <1>1, <1>2, <1>6, <2>2
  <2>3. fold[{}] \in G /\ n \in Nat
    BY <1>1, <2>1
  <2> QED
    BY <2>2, <2>3, FoldStays
<1>8. FoldLeft(LAMBDA v, x : IF x.id = NoId THEN v ELSE Append(v, x.id), ids, s)
          = fold[DOMAIN s]
  BY DEF FoldLeft, MapThenFoldSet, fold, Op
<1> QED
  BY <1>1, <1>7, <1>8 DEF G

\* What has a register in a function is a sequence of identifiers, those of its
\* parameters first.
LEMMA ValuesType ==
    \A f : ValidFunction(f) =>
        Values(f) \in Seq(ToSet(Values(f))) /\ Values(f) \in Longer(Identifiers(f), f.params)
<1> SUFFICES ASSUME NEW f, ValidFunction(f)
             PROVE  /\ Values(f) \in Seq(ToSet(Values(f)))
                    /\ Values(f) \in Longer(Identifiers(f), f.params)
  OBVIOUS
<1> DEFINE S == Identifiers(f)
           s == f.blocks
           n == Len(s)
           Op(v, block) ==
               FoldLeft(LAMBDA u, x : IF x.id = NoId THEN u ELSE Append(u, x.id),
                        v, block.phis \o block.body)
           G == Longer(S, f.params)
           Step == [p \in G \X (1 .. n) |-> Op(p[1], s[p[2]])]
           Fold(it) == [t \in SUBSET DOMAIN s |->
                   IF t = {} THEN f.params ELSE Op(it[t \ {Max(t)}], s[Max(t)])]
           fold == CHOOSE it : it = Fold(it)
<1>1. DOMAIN s = 1 .. n /\ n \in Nat /\ f.params \in Seq(S) /\ f.params \in G
  <2>1. s \in Seq(ToSet(s)) /\ f.params \in Seq(ToSet(f.params))
    BY DEF ValidFunction
  <2>2. ToSet(f.params) \subseteq S
    BY DEF Identifiers
  <2>3. Seq(ToSet(f.params)) \subseteq Seq(S)
    BY <2>2
  <2>4. f.params \in Seq(S)
    BY <2>1, <2>3
  <2> HIDE DEF S
  <2> QED
    BY <2>1, <2>4, LongerSelf
<1>2. \A v \in G, k \in 1 .. n : Op(v, s[k]) \in G
  <2> SUFFICES ASSUME NEW v \in G, NEW k \in 1 .. n PROVE Op(v, s[k]) \in G
    OBVIOUS
  <2> DEFINE phis == s[k].phis
             body == s[k].body
             X == ToSet(phis) \cup ToSet(body)
  <2>1. phis \in Seq(ToSet(phis)) /\ body \in Seq(ToSet(body))
    BY <1>1 DEF ValidFunction, ValidBlock
  <2>2. phis \in Seq(X) /\ body \in Seq(X)
    BY <2>1
  <2>3. phis \o body \in Seq(X)
    BY <2>2
  <2>4. s[k] \in ToSet(f.blocks)
    BY <1>1 DEF ToSet
  <2>5. \A x \in X : x.id \in S
    BY <2>4 DEF Identifiers
  <2>6. v \in Seq(S)
    BY DEF Longer
  <2> HIDE DEF S, X
  <2>7. Op(v, s[k]) \in Longer(S, v)
    BY <2>3, <2>5, <2>6, FoldSeen
  <2> QED
    BY <1>1, <2>7, LongerYet
<1> HIDE DEF Op, n, Step, G
<1>3. Step \in [G \X (1 .. n) -> G]
  BY <1>2 DEF Step
<1>4. PICK it : Unfolds(it, G, f.params, n, Step)
  BY <1>1, <1>3, FoldExists
<1>5. it = Fold(it)
  <2>1. ASSUME NEW t \in SUBSET (1 .. n), t # {}
        PROVE  it[t] = Op(it[t \ {Max(t)}], s[Max(t)])
    <3>1. Max(t) \in 1 .. n /\ it[t \ {Max(t)}] \in G
          /\ it[t] = Step[<<it[t \ {Max(t)}], Max(t)>>]
      BY <1>4, <2>1 DEF Unfolds
    <3> QED
      BY <3>1 DEF Step
  <2> QED
    BY <1>1, <1>4, <2>1 DEF Unfolds
<1>6. fold = Fold(fold)
  BY <1>5
<1> HIDE DEF fold
<1>7. fold[1 .. n] \in G
  <2>1. fold[{}] = f.params
    BY <1>6
  <2>2. ASSUME NEW t \in SUBSET (1 .. n), t # {}, Max(t) \in 1 .. n,
               fold[t \ {Max(t)}] \in G
        PROVE  fold[t] \in G
    BY <1>1, <1>2, <1>6, <2>2
  <2>3. fold[{}] \in G /\ n \in Nat
    BY <1>1, <2>1
  <2> QED
    BY <2>2, <2>3, FoldStays
<1>8. Values(f) = fold[DOMAIN s]
  BY DEF Values, FoldLeft, MapThenFoldSet, fold, Op
<1>9. Values(f) \in Longer(S, f.params)
  BY <1>1, <1>7, <1>8 DEF G
<1>10. Values(f) \in Seq(S)
  BY <1>9 DEF Longer
<1> HIDE DEF S
<1> QED
  BY <1>9, <1>10, SequenceOfOwn DEF S

-----------------------------------------------------------------------------
(* What has been written *)

Bounds(w) == Sites(w) \cup {w.size}
Pending(w) == {p.pos : p \in ToSet(w.PostponedJumps)}

Codes == UNION {[D -> Instructions] : D \in SUBSET Nat}

\* The writers between the beginning and the end of a block.
Writers(positions, locals) ==
    [code : Codes, size : Nat,
     PostponedJumps : Seq([block : DOMAIN F.blocks, pos : Nat]),
     BlockPositions : {positions}, Locals : {locals}, NextReg : Nat, ResultReg : Nat]
Writers0(w) == Writers(w.BlockPositions, w.Locals)

\* Instruction after instruction; what is to be fixed is a jump, and only once.
Good(w) ==
    /\ w \in Writers0(w)
    /\ Sites(w) \subseteq 0 .. w.size - 1
    /\ Contiguous(w)
    /\ w.size # 0 => 0 \in Sites(w)
    /\ w.ResultReg <= w.NextReg
    /\ \A id \in DOMAIN w.Locals : w.Locals[id] \in 1 .. w.NextReg
    /\ \A j \in Sites(w) : Len(w.code[j].args) <= LastReg
    /\ \A j \in Pending(w) : j \in Sites(w) /\ w.code[j].op = "jmp"
    /\ \A p, q \in ToSet(w.PostponedJumps) : p.pos = q.pos => p = q

\* The blocks that follow the one begun last.
Ahead(w) ==
    UNION {Successor(F, b) : b \in {c \in DOMAIN w.BlockPositions :
        \A d \in DOMAIN w.BlockPositions : w.BlockPositions[d] <= w.BlockPositions[c]}}

LEMMA AheadSame ==
    \A w, v : v.BlockPositions = w.BlockPositions => Ahead(v) = Ahead(w)
BY DEF Ahead

\* v is w with some more code, of operations in R; the jumps in it stay in it,
\* or come to its end, except those still to be fixed, which are in a block and
\* go to one that follows it.
Extends(R, w, v) ==
    /\ Good(v) /\ v \in Writers0(w)
    /\ w.size <= v.size /\ w.NextReg <= v.NextReg
    /\ \A j \in Sites(w) : j \in Sites(v) /\ v.code[j] = w.code[j]
    /\ w.size \in Bounds(v)
    /\ Pending(w) \subseteq Pending(v)
    /\ ToSet(w.PostponedJumps) \subseteq ToSet(v.PostponedJumps)
    /\ \A p \in ToSet(v.PostponedJumps) : p \in ToSet(w.PostponedJumps) \/ p.block \in Ahead(w)
    /\ w.BlockPositions = <<>> => Pending(v) = Pending(w)
    /\ \A j \in Pending(v) \ Pending(w) : j >= w.size
    /\ \A j \in Sites(v) \ Sites(w) :
        /\ j >= w.size /\ v.code[j].op \in R
        /\ j \in Pending(v)
           \/ \A t \in Targets(v, j) : t \in Bounds(v) /\ t >= w.size

LEMMA CodesType ==
    \A c : c \in Codes <=> c \in [DOMAIN c -> Instructions] /\ DOMAIN c \subseteq Nat
<1> SUFFICES ASSUME NEW c
             PROVE  c \in Codes <=> c \in [DOMAIN c -> Instructions] /\ DOMAIN c \subseteq Nat
  OBVIOUS
<1>1. ASSUME c \in Codes PROVE c \in [DOMAIN c -> Instructions] /\ DOMAIN c \subseteq Nat
  BY <1>1 DEF Codes
<1>2. ASSUME c \in [DOMAIN c -> Instructions], DOMAIN c \subseteq Nat PROVE c \in Codes
  BY <1>2 DEF Codes
<1> QED
  BY <1>1, <1>2

LEMMA LengthPositive ==
    \A x \in Instructions : Length(x) \in Nat /\ Length(x) >= 1
<1> SUFFICES ASSUME NEW x \in Instructions PROVE Length(x) \in Nat /\ Length(x) >= 1
  OBVIOUS
<1>1. NameLen \in Nat
  BY BytecodeAssumption
<1>2. Len(x.args) \in Nat
  BY DEF Instructions
<1>3. x.op \in OpCodes
  BY DEF Instructions
<1>4. CASE x.op = "call"
  BY <1>1, <1>2, <1>4 DEF Length
<1>5. CASE x.op = "leave"
  BY <1>1, <1>5 DEF Length
<1>6. CASE x.op = "wrong"
  BY <1>1, <1>6 DEF Length
<1>7. CASE x.op = "ineg"
  BY <1>1, <1>7 DEF Length
<1>8. CASE x.op = "lea"
  BY <1>1, <1>8 DEF Length
<1>9. CASE x.op = "css_dyn"
  BY <1>1, <1>9 DEF Length
<1>10. CASE x.op = "gg"
  BY <1>1, <1>10 DEF Length
<1>11. CASE x.op = "sg"
  BY <1>1, <1>11 DEF Length
<1>12. CASE x.op = "css"
  BY <1>1, <1>12 DEF Length
<1>13. CASE x.op = "fd"
  BY <1>1, <1>13 DEF Length
<1>14. CASE x.op = "jmp"
  BY <1>1, <1>14 DEF Length
<1>15. CASE x.op = "jz"
  BY <1>1, <1>15 DEF Length
<1>16. CASE x.op = "jnz"
  BY <1>1, <1>16 DEF Length
<1>17. CASE x.op = "ret"
  BY <1>1, <1>17 DEF Length
<1>18. CASE x.op = "alu"
  BY <1>1, <1>18 DEF Length
<1>19. CASE x.op = "ld"
  BY <1>1, <1>19 DEF Length
<1>20. CASE x.op = "st"
  BY <1>1, <1>20 DEF Length
<1> QED
  BY <1>3, <1>4, <1>5, <1>6, <1>7, <1>8, <1>9, <1>10, <1>11, <1>12, <1>13, <1>14, <1>15, <1>16, <1>17, <1>18, <1>19, <1>20 DEF OpCodes

\* What Good says, for a reader of the parts.
LEMMA GoodParts ==
    \A w : Good(w) =>
        /\ w.code \in [Sites(w) -> Instructions]
        /\ Sites(w) \subseteq Nat /\ w.size \in Nat
        /\ w.NextReg \in Nat /\ w.ResultReg \in Nat /\ w.ResultReg <= w.NextReg
        /\ \A j \in Sites(w) : /\ w.code[j] \in Instructions
                               /\ j \in Nat /\ j < w.size
                               /\ After(w, j) \in Bounds(w) /\ After(w, j) > j
<1> SUFFICES ASSUME NEW w, Good(w)
             PROVE  /\ w.code \in [Sites(w) -> Instructions]
                    /\ Sites(w) \subseteq Nat /\ w.size \in Nat
                    /\ w.NextReg \in Nat /\ w.ResultReg \in Nat /\ w.ResultReg <= w.NextReg
                    /\ \A j \in Sites(w) : /\ w.code[j] \in Instructions
                                           /\ j \in Nat /\ j < w.size
                                           /\ After(w, j) \in Bounds(w) /\ After(w, j) > j
  OBVIOUS
<1>1. w \in Writers0(w)
  BY DEF Good
<1>2. w.code \in Codes /\ w.size \in Nat /\ w.NextReg \in Nat /\ w.ResultReg \in Nat
  BY <1>1 DEF Writers0, Writers
<1>3. w.code \in [Sites(w) -> Instructions] /\ Sites(w) \subseteq Nat
  BY <1>2, CodesType DEF Sites
<1>4. ASSUME NEW j \in Sites(w)
      PROVE  /\ w.code[j] \in Instructions
             /\ j \in Nat /\ j < w.size
             /\ After(w, j) \in Bounds(w) /\ After(w, j) > j
  <2>1. w.code[j] \in Instructions /\ j \in Nat
    BY <1>3
  <2>2. j < w.size
    BY <1>2, <2>1 DEF Good
  <2>3. After(w, j) \in Bounds(w)
    BY DEF Good, Contiguous, Bounds
  <2>4. After(w, j) > j
    BY <2>1, LengthPositive DEF After
  <2> QED
    BY <2>1, <2>2, <2>3, <2>4
<1> QED
  BY <1>2, <1>3, <1>4 DEF Good

LEMMA SameCode ==
    \A w, v, j : v.code[j] = w.code[j] =>
        After(v, j) = After(w, j) /\ Targets(v, j) = Targets(w, j) /\ Past(v, j) = Past(w, j)
BY DEF After, Targets, Past

LEMMA ExtendsReflexive ==
    \A R, w : Good(w) => Extends(R, w, w)
<1> SUFFICES ASSUME NEW R, NEW w, Good(w) PROVE Extends(R, w, w)
  OBVIOUS
<1>1. w.size \in Nat /\ w.NextReg \in Nat
  BY GoodParts
<1> QED
  BY <1>1 DEF Extends, Good, Bounds

LEMMA ExtendsMore ==
    \A Q, R, w, v : Q \subseteq R /\ Extends(Q, w, v) => Extends(R, w, v)
BY DEF Extends

LEMMA ExtendsTransitive ==
    \A R, w, u, v : Good(w) /\ Extends(R, w, u) /\ Extends(R, u, v) => Extends(R, w, v)
<1> SUFFICES ASSUME NEW R, NEW w, NEW u, NEW v,
                    Good(w), Extends(R, w, u), Extends(R, u, v)
             PROVE  Extends(R, w, v)
  OBVIOUS
<1>1. Good(u) /\ Good(v)
  BY DEF Extends
<1>2. /\ w.size \in Nat /\ u.size \in Nat /\ v.size \in Nat
      /\ w.NextReg \in Nat /\ u.NextReg \in Nat /\ v.NextReg \in Nat
      /\ Sites(v) \subseteq Nat
  BY <1>1, GoodParts
<1>3. w.size <= v.size /\ w.NextReg <= v.NextReg
  BY <1>2 DEF Extends
<1>4. v \in Writers0(w)
  <2>1. u \in Writers0(w) /\ v \in Writers0(u)
    BY DEF Extends
  <2> QED
    BY <2>1 DEF Writers0, Writers
<1>5. \A j \in Sites(w) : j \in Sites(v) /\ v.code[j] = w.code[j]
  BY DEF Extends
<1>6. w.size \in Bounds(v)
  BY DEF Extends, Bounds
<1>7. Pending(w) \subseteq Pending(v)
  BY DEF Extends
<1>8. ASSUME NEW j \in Pending(v) \ Pending(w) PROVE j >= w.size
  <2>1. j \in Nat
    BY <1>1, <1>2 DEF Good
  <2> QED
    BY <1>2, <1>3, <2>1 DEF Extends
<1>9. ASSUME NEW j \in Sites(v) \ Sites(w)
      PROVE  /\ j >= w.size /\ v.code[j].op \in R
             /\ j \in Pending(v)
                \/ \A t \in Targets(v, j) : t \in Bounds(v) /\ t >= w.size
  <2>1. CASE j \in Sites(u)
    <3>1. v.code[j] = u.code[j] /\ Targets(v, j) = Targets(u, j)
      BY <2>1, SameCode DEF Extends
    <3>2. Bounds(u) \subseteq Bounds(v)
      BY DEF Bounds, Extends
    <3> QED
      BY <2>1, <3>1, <3>2 DEF Extends
  <2>2. CASE j \notin Sites(u)
    <3>1. /\ j >= u.size /\ v.code[j].op \in R
          /\ j \in Pending(v)
             \/ \A t \in Targets(v, j) : t \in Bounds(v) /\ t >= u.size
      BY <2>2 DEF Extends
    <3>2. Bounds(v) \subseteq Nat /\ j \in Nat
      BY <1>2 DEF Bounds
    <3>3. w.size <= u.size
      BY DEF Extends
    <3> QED
      BY <1>2, <3>1, <3>2, <3>3
  <2> QED
    BY <2>1, <2>2
<1>10. w.BlockPositions = <<>> => Pending(v) = Pending(w)
  <2>1. u.BlockPositions = w.BlockPositions
    BY DEF Extends, Writers0, Writers
  <2> QED
    BY <2>1 DEF Extends
<1>11. ToSet(w.PostponedJumps) \subseteq ToSet(v.PostponedJumps)
  BY DEF Extends
<1>12. ASSUME NEW p \in ToSet(v.PostponedJumps), p \notin ToSet(w.PostponedJumps)
       PROVE  p.block \in Ahead(w)
  <2>1. Ahead(u) = Ahead(w)
    BY AheadSame DEF Extends, Writers0, Writers
  <2> QED
    BY <1>12, <2>1 DEF Extends
<1> QED
  BY <1>1, <1>3, <1>4, <1>5, <1>6, <1>7, <1>8, <1>9, <1>10, <1>11, <1>12 DEF Extends

\* The instruction that follows what is written.
LEMMA Written ==
    ASSUME NEW w, Good(w), NEW x \in Instructions, Len(x.args) <= LastReg,
           NEW v, v.code = With(w.code, w.size, x), v.size = w.size + Length(x)
    PROVE  /\ v.code \in Codes /\ v.size \in Nat /\ w.size < v.size
           /\ Sites(v) = Sites(w) \cup {w.size} /\ w.size \notin Sites(w)
           /\ v.code[w.size] = x /\ After(v, w.size) = v.size
           /\ \A j \in Sites(w) : v.code[j] = w.code[j]
           /\ Sites(v) \subseteq 0 .. v.size - 1
           /\ Contiguous(v)
           /\ 0 \in Sites(v)
           /\ \A j \in Sites(v) : Len(v.code[j].args) <= LastReg
<1>1. /\ w.code \in [Sites(w) -> Instructions] /\ Sites(w) \subseteq Nat /\ w.size \in Nat
      /\ \A j \in Sites(w) : j \in Nat /\ j < w.size
                             /\ After(w, j) \in Bounds(w) /\ After(w, j) > j
  BY GoodParts
<1>2. Length(x) \in Nat /\ Length(x) >= 1
  BY LengthPositive
<1>3. v.size \in Nat /\ w.size < v.size
  BY <1>1, <1>2
<1>4. Sites(v) = Sites(w) \cup {w.size} /\ w.size \notin Sites(w)
  BY <1>1 DEF With, Sites
<1>5. v.code[w.size] = x /\ \A j \in Sites(w) : v.code[j] = w.code[j]
  BY <1>1, <1>4 DEF With, Sites
<1>6. v.code \in Codes
  <2>1. v.code = [k \in Sites(v) |-> v.code[k]]
    BY <1>4 DEF With, Sites
  <2>2. \A k \in Sites(v) : v.code[k] \in Instructions
    BY <1>1, <1>4, <1>5
  <2>3. v.code \in [Sites(v) -> Instructions]
    BY <2>1, <2>2
  <2> QED
    BY <1>1, <1>4, <2>3, CodesType DEF Sites
<1>7. Sites(v) \subseteq 0 .. v.size - 1
  BY <1>1, <1>3, <1>4
<1>8. After(v, w.size) = v.size
  BY <1>5 DEF After
<1>9. \A j \in Sites(w) : After(v, j) = After(w, j)
  BY <1>5, SameCode
<1>10. Contiguous(v)
  <2>1. ASSUME NEW j \in Sites(v) PROVE After(v, j) \in Sites(v) \cup {v.size}
    BY <1>1, <1>4, <1>8, <1>9 DEF Bounds
  <2>2. ASSUME NEW j \in Sites(v), NEW k \in Sites(v) PROVE k <= j \/ k >= After(v, j)
    <3>1. CASE j \in Sites(w) /\ k \in Sites(w)
      BY <1>9, <3>1 DEF Good, Contiguous
    <3>2. CASE j \in Sites(w) /\ k = w.size
      <4>1. After(w, j) <= w.size
        BY <1>1, <3>2 DEF Bounds
      <4> QED
        BY <1>9, <1>1, <3>2, <4>1 DEF Bounds
    <3>3. CASE j = w.size
      BY <1>1, <1>4, <3>3
    <3> QED
      BY <1>4, <3>1, <3>2, <3>3
  <2> QED
    BY <2>1, <2>2 DEF Contiguous
<1>11. 0 \in Sites(v)
  BY <1>4 DEF Good
<1>12. \A j \in Sites(v) : Len(v.code[j].args) <= LastReg
  BY <1>4, <1>5 DEF Good
<1> QED
  BY <1>3, <1>4, <1>5, <1>6, <1>7, <1>8, <1>10, <1>11, <1>12

LEMMA ToSetOfAppend ==
    \A S : \A s \in Seq(S) : \A e : ToSet(Append(s, e)) = ToSet(s) \cup {e}
<1> SUFFICES ASSUME NEW S, NEW s \in Seq(S), NEW e
             PROVE  ToSet(Append(s, e)) = ToSet(s) \cup {e}
  OBVIOUS
<1>1. DOMAIN Append(s, e) = 1 .. Len(s) + 1 /\ DOMAIN s = 1 .. Len(s) /\ Len(s) \in Nat
  OBVIOUS
<1>2. \A i \in 1 .. Len(s) : Append(s, e)[i] = s[i]
  OBVIOUS
<1>3. Append(s, e)[Len(s) + 1] = e
  OBVIOUS
<1>4. 1 .. Len(s) + 1 = (1 .. Len(s)) \cup {Len(s) + 1}
  BY <1>1
<1> QED
  BY <1>1, <1>2, <1>3, <1>4 DEF ToSet

\* v is w with instruction x.
Adds(R, w, x, v) ==
    /\ Extends(R, w, v)
    /\ w.size < v.size
    /\ w.size \in Sites(v) /\ v.code[w.size] = x /\ After(v, w.size) = v.size
    /\ Sites(v) = Sites(w) \cup {w.size}
    /\ v.PostponedJumps = w.PostponedJumps

LEMMA EmitExtends ==
    ASSUME NEW R, NEW w, Good(w), NEW x \in Instructions,
           x.op \in R, x.op # "fd", Len(x.args) <= LastReg,
           x.op \in {"jmp", "jz", "jnz"} => x.off = 0
    PROVE  Adds(R, w, x, Emit(w, x))
<1> DEFINE v == Emit(w, x)
<1>1. w \in Writers0(w)
  BY DEF Good
<1>2. /\ v.code = With(w.code, w.size, x) /\ v.size = w.size + Length(x)
      /\ v.PostponedJumps = w.PostponedJumps /\ v.BlockPositions = w.BlockPositions
      /\ v.Locals = w.Locals /\ v.NextReg = w.NextReg /\ v.ResultReg = w.ResultReg
  BY <1>1 DEF Emit, Writers0, Writers
<1> HIDE DEF v
<1>4. /\ v.code \in Codes /\ v.size \in Nat /\ w.size < v.size
      /\ Sites(v) = Sites(w) \cup {w.size} /\ w.size \notin Sites(w)
      /\ v.code[w.size] = x /\ After(v, w.size) = v.size
      /\ \A j \in Sites(w) : v.code[j] = w.code[j]
      /\ Sites(v) \subseteq 0 .. v.size - 1
      /\ Contiguous(v)
      /\ 0 \in Sites(v)
      /\ \A j \in Sites(v) : Len(v.code[j].args) <= LastReg
  BY <1>2, Written
<1>5. v \in Writers0(w) /\ v \in Writers0(v)
  <2>1. With(w.code, w.size, x) \in Codes /\ w.size + Length(x) \in Nat
    BY <1>2, <1>4
  <2>2. v \in Writers0(w)
    BY <1>1, <2>1 DEF v, Emit, Writers0, Writers
  <2> QED
    BY <1>2, <2>2 DEF Writers0
<1>6. Pending(v) = Pending(w)
  BY <1>2 DEF Pending
<1>7. \A j \in Pending(v) : j \in Sites(v) /\ v.code[j].op = "jmp"
  BY <1>4, <1>6 DEF Good
<1>8. Good(v)
  BY <1>2, <1>4, <1>5, <1>7 DEF Good
<1>9. \A t \in Targets(v, w.size) : t \in {w.size, v.size}
  <2>1. w.size \in Nat
    BY GoodParts
  <2> QED
    BY <1>4, <2>1 DEF Targets
<1>10. w.size \in Nat /\ w.NextReg \in Nat
  BY GoodParts
<1>11. Extends(R, w, v)
  BY <1>2, <1>4, <1>5, <1>6, <1>8, <1>9, <1>10 DEF Extends, Bounds
<1> QED
  BY <1>2, <1>4, <1>11 DEF v, Adds

LEMMA PostponeExtends ==
    ASSUME NEW R, NEW w, Good(w), NEW b \in DOMAIN F.blocks, b \in Ahead(w),
           "jmp" \in R, w.BlockPositions # <<>>,
           JumpI("jmp", 0, -1) \in Instructions, Len(JumpI("jmp", 0, -1).args) <= LastReg
    PROVE  /\ Extends(R, w, PostponeJmp(w, b))
           /\ w.size < PostponeJmp(w, b).size
           /\ Sites(PostponeJmp(w, b)) = Sites(w) \cup {w.size}
           /\ w.size \in Pending(PostponeJmp(w, b))
           /\ [block |-> b, pos |-> w.size] \in ToSet(PostponeJmp(w, b).PostponedJumps)
<1> DEFINE v == PostponeJmp(w, b)
           x == JumpI("jmp", 0, -1)
           p == [block |-> b, pos |-> w.size]
<1>1. w \in Writers0(w)
  BY DEF Good
<1>2. /\ v.code = With(w.code, w.size, x) /\ v.size = w.size + Length(x)
      /\ v.PostponedJumps = Append(w.PostponedJumps, p)
      /\ v.BlockPositions = w.BlockPositions
      /\ v.Locals = w.Locals /\ v.NextReg = w.NextReg /\ v.ResultReg = w.ResultReg
  BY <1>1 DEF PostponeJmp, Emit, Writers0, Writers
<1> HIDE DEF v
<1>4. /\ v.code \in Codes /\ v.size \in Nat /\ w.size < v.size
      /\ Sites(v) = Sites(w) \cup {w.size} /\ w.size \notin Sites(w)
      /\ v.code[w.size] = x /\ After(v, w.size) = v.size
      /\ \A j \in Sites(w) : v.code[j] = w.code[j]
      /\ Sites(v) \subseteq 0 .. v.size - 1
      /\ Contiguous(v)
      /\ 0 \in Sites(v)
      /\ \A j \in Sites(v) : Len(v.code[j].args) <= LastReg
  BY <1>2, Written
<1>5. w.size \in Nat /\ w.NextReg \in Nat
  BY GoodParts
<1>6. w.PostponedJumps \in Seq([block : DOMAIN F.blocks, pos : Nat])
  BY <1>1 DEF Writers0, Writers
<1>7. v.PostponedJumps \in Seq([block : DOMAIN F.blocks, pos : Nat])
  BY <1>2, <1>5, <1>6
<1>8. v \in Writers0(w) /\ v \in Writers0(v)
  <2>1. /\ With(w.code, w.size, x) \in Codes /\ w.size + Length(x) \in Nat
        /\ Append(w.PostponedJumps, p) \in Seq([block : DOMAIN F.blocks, pos : Nat])
    BY <1>2, <1>4, <1>7
  <2>2. v \in Writers0(w)
    <3> HIDE DEF p, x
    <3> QED
      BY <1>1, <2>1 DEF v, p, x, PostponeJmp, Emit, Writers0, Writers
  <2> QED
    BY <1>2, <2>2 DEF Writers0
<1>14. ToSet(v.PostponedJumps) = ToSet(w.PostponedJumps) \cup {p}
  BY <1>2, <1>5, <1>6, ToSetOfAppend
<1>9. Pending(v) = Pending(w) \cup {w.size}
  <2>2. p.pos = w.size
    OBVIOUS
  <2> HIDE DEF p
  <2> QED
    BY <1>14, <2>2 DEF Pending
<1>10. x.op = "jmp"
  BY DEF JumpI, Blank
<1>11. \A j \in Pending(v) : j \in Sites(v) /\ v.code[j].op = "jmp"
  BY <1>4, <1>9, <1>10 DEF Good
<1>15. \A q \in ToSet(w.PostponedJumps) : q.pos # w.size
  <2> SUFFICES ASSUME NEW q \in ToSet(w.PostponedJumps) PROVE q.pos # w.size
    OBVIOUS
  <2>1. q.pos \in Sites(w)
    BY DEF Good, Pending
  <2> QED
    BY <1>4, <2>1
<1>16. \A q, r \in ToSet(v.PostponedJumps) : q.pos = r.pos => q = r
  <2>1. p.pos = w.size
    OBVIOUS
  <2> HIDE DEF p
  <2> QED
    BY <1>14, <1>15, <2>1 DEF Good
<1>12. Good(v)
  BY <1>2, <1>4, <1>8, <1>11, <1>16 DEF Good
<1>13. Extends(R, w, v)
  <2>1. p.block = b
    OBVIOUS
  <2> HIDE DEF p
  <2> QED
    BY <1>2, <1>4, <1>5, <1>8, <1>9, <1>10, <1>12, <1>14, <2>1 DEF Extends, Bounds
<1> QED
  BY <1>2, <1>4, <1>9, <1>13, <1>14 DEF v

LEMMA ByteType == \A r \in Nat : Byte(r) \in Reg
<1> SUFFICES ASSUME NEW r \in Nat PROVE Byte(r) \in Reg
  OBVIOUS
<1>1. LastReg \in Nat
  BY BytecodeAssumption
<1>2. \A k \in Nat : r % (k + 1) \in 0 .. k
  OBVIOUS
<1> QED
  BY <1>1, <1>2 DEF Byte, Reg

LEMMA BlankType ==
    Blank \in Instructions /\ Blank.args = <<>> /\ Blank.off = 0 /\ Len(Blank.args) = 0
<1>1. "mov" \in AluOps /\ Widths # {} /\ Names # {}
  BY FormatAssumption
<1>2. (CHOOSE w \in Widths : TRUE) \in Widths /\ (CHOOSE x \in Names : TRUE) \in Names
  BY <1>1
<1>3. 0 \in Reg /\ 0 \in Word
  BY BytecodeAssumption DEF Reg, Word
<1>4. "leave" \in OpCodes /\ <<>> \in Seq(Reg)
  BY DEF OpCodes
<1> QED
  BY <1>1, <1>2, <1>3, <1>4 DEF Blank, Instructions

\* The operations in the middle of a block, and those that control may pass.
Straight == OpCodes \ {"fd", "ret", "leave", "wrong"}
Falling == Straight \ {"jmp"}

LEMMA StraightOps ==
    /\ {"alu", "ineg", "gg", "sg", "css", "css_dyn", "ld", "st", "lea", "jmp", "jz",
         "jnz", "call"} \subseteq Straight \ {"fd"}
    /\ {"alu", "ineg", "gg", "sg", "css", "css_dyn", "ld", "st", "lea", "jz", "jnz",
         "call"} \subseteq Falling \ {"fd"}
    /\ Straight \subseteq OpCodes
BY DEF Straight, Falling, OpCodes

\* An instruction that can be written as it is.
Plain(R, x) ==
    /\ x \in Instructions /\ x.op \in R \ {"fd"} /\ Len(x.args) <= LastReg
    /\ x.op \in {"jmp", "jz", "jnz"} => x.off = 0

LEMMA ConstantsType ==
    /\ {0, 1} \subseteq Word /\ LastReg \in Nat /\ {-1, 0} \subseteq Int
    /\ {TRUE, FALSE} \subseteq BOOLEAN /\ 0 \in Reg
BY BytecodeAssumption DEF Word, Reg

LEMMA AluRPlain ==
    \A f \in AluOps : \A r, q \in Reg : Plain(Falling, AluR(f, r, q))
<1> SUFFICES ASSUME NEW f \in AluOps, NEW r \in Reg, NEW q \in Reg PROVE Plain(Falling, AluR(f, r, q))
  OBVIOUS
<1>1. AluR(f, r, q) \in Instructions /\ AluR(f, r, q).op = "alu" /\ AluR(f, r, q).args = Blank.args
  BY BlankType, StraightOps, ConstantsType DEF AluR, Instructions
<1> QED
  BY <1>1, BlankType, StraightOps, ConstantsType DEF Plain

LEMMA AluCPlain ==
    \A f \in AluOps : \A r \in Reg : \A c \in Word : Plain(Falling, AluC(f, r, c))
<1> SUFFICES ASSUME NEW f \in AluOps, NEW r \in Reg, NEW c \in Word PROVE Plain(Falling, AluC(f, r, c))
  OBVIOUS
<1>1. AluC(f, r, c) \in Instructions /\ AluC(f, r, c).op = "alu" /\ AluC(f, r, c).args = Blank.args
  BY BlankType, StraightOps, ConstantsType DEF AluC, Instructions
<1> QED
  BY <1>1, BlankType, StraightOps, ConstantsType DEF Plain

LEMMA GgPlain ==
    \A x \in Names : \A r \in Reg : Plain(Falling, GgI(x, r))
<1> SUFFICES ASSUME NEW x \in Names, NEW r \in Reg PROVE Plain(Falling, GgI(x, r))
  OBVIOUS
<1>1. GgI(x, r) \in Instructions /\ GgI(x, r).op = "gg" /\ GgI(x, r).args = Blank.args
  BY BlankType, StraightOps, ConstantsType DEF GgI, Instructions
<1> QED
  BY <1>1, BlankType, StraightOps, ConstantsType DEF Plain

LEMMA SgPlain ==
    \A x \in Names : \A r \in Reg : Plain(Falling, SgI(x, r))
<1> SUFFICES ASSUME NEW x \in Names, NEW r \in Reg PROVE Plain(Falling, SgI(x, r))
  OBVIOUS
<1>1. SgI(x, r) \in Instructions /\ SgI(x, r).op = "sg" /\ SgI(x, r).args = Blank.args
  BY BlankType, StraightOps, ConstantsType DEF SgI, Instructions
<1> QED
  BY <1>1, BlankType, StraightOps, ConstantsType DEF Plain

LEMMA CssPlain ==
    \A r \in Reg : Plain(Falling, CssI(r))
<1> SUFFICES ASSUME NEW r \in Reg PROVE Plain(Falling, CssI(r))
  OBVIOUS
<1>1. CssI(r) \in Instructions /\ CssI(r).op = "css" /\ CssI(r).args = Blank.args
  BY BlankType, StraightOps, ConstantsType DEF CssI, Instructions
<1> QED
  BY <1>1, BlankType, StraightOps, ConstantsType DEF Plain

LEMMA DynPlain ==
    \A r, q \in Reg : Plain(Falling, DynI(r, q))
<1> SUFFICES ASSUME NEW r \in Reg, NEW q \in Reg PROVE Plain(Falling, DynI(r, q))
  OBVIOUS
<1>1. DynI(r, q) \in Instructions /\ DynI(r, q).op = "css_dyn" /\ DynI(r, q).args = Blank.args
  BY BlankType, StraightOps, ConstantsType DEF DynI, Instructions
<1> QED
  BY <1>1, BlankType, StraightOps, ConstantsType DEF Plain

LEMMA LeaPlain ==
    \A r, q \in Reg : Plain(Falling, LeaI(r, q))
<1> SUFFICES ASSUME NEW r \in Reg, NEW q \in Reg PROVE Plain(Falling, LeaI(r, q))
  OBVIOUS
<1>1. LeaI(r, q) \in Instructions /\ LeaI(r, q).op = "lea" /\ LeaI(r, q).args = Blank.args
  BY BlankType, StraightOps, ConstantsType DEF LeaI, Instructions
<1> QED
  BY <1>1, BlankType, StraightOps, ConstantsType DEF Plain

LEMMA LdPlain ==
    \A w \in Widths : \A r, q \in Reg : Plain(Falling, LdI(w, r, q))
<1> SUFFICES ASSUME NEW w \in Widths, NEW r \in Reg, NEW q \in Reg PROVE Plain(Falling, LdI(w, r, q))
  OBVIOUS
<1>1. LdI(w, r, q) \in Instructions /\ LdI(w, r, q).op = "ld" /\ LdI(w, r, q).args = Blank.args
  BY BlankType, StraightOps, ConstantsType DEF LdI, Instructions
<1> QED
  BY <1>1, BlankType, StraightOps, ConstantsType DEF Plain

LEMMA StPlain ==
    \A w \in Widths : \A r, q \in Reg : Plain(Falling, StI(w, r, q))
<1> SUFFICES ASSUME NEW w \in Widths, NEW r \in Reg, NEW q \in Reg PROVE Plain(Falling, StI(w, r, q))
  OBVIOUS
<1>1. StI(w, r, q) \in Instructions /\ StI(w, r, q).op = "st" /\ StI(w, r, q).args = Blank.args
  BY BlankType, StraightOps, ConstantsType DEF StI, Instructions
<1> QED
  BY <1>1, BlankType, StraightOps, ConstantsType DEF Plain

LEMMA JumpPlain ==
    \A o \in {"jmp", "jz", "jnz"} : \A r \in Reg :
        Plain(Straight, JumpI(o, r, 0)) /\ JumpI(o, r, 0).op = o
<1> SUFFICES ASSUME NEW o \in {"jmp", "jz", "jnz"}, NEW r \in Reg
             PROVE  Plain(Straight, JumpI(o, r, 0)) /\ JumpI(o, r, 0).op = o
  OBVIOUS
<1>1. /\ JumpI(o, r, 0) \in Instructions /\ JumpI(o, r, 0).op = o
      /\ JumpI(o, r, 0).off = 0 /\ JumpI(o, r, 0).args = Blank.args
  BY BlankType, StraightOps, ConstantsType DEF JumpI, Instructions
<1> QED
  BY <1>1, BlankType, StraightOps, ConstantsType DEF Plain

LEMMA CallPlain ==
    \A r \in Reg : \A args \in Seq(Reg) :
        Len(args) <= LastReg => Plain(Falling, CallI(r, args))
<1> SUFFICES ASSUME NEW r \in Reg, NEW args \in Seq(Reg), Len(args) <= LastReg
             PROVE  Plain(Falling, CallI(r, args))
  OBVIOUS
<1>1. /\ CallI(r, args) \in Instructions /\ CallI(r, args).op = "call"
      /\ CallI(r, args).args = args
  BY BlankType, StraightOps, ConstantsType DEF CallI, Instructions
<1> QED
  BY <1>1, StraightOps DEF Plain

LEMMA ReturnPlain ==
    \A r \in Reg : Plain({"ret"}, RetI(r)) /\ RetI(r).op = "ret"
<1> SUFFICES ASSUME NEW r \in Reg PROVE Plain({"ret"}, RetI(r)) /\ RetI(r).op = "ret"
  OBVIOUS
<1>1. "ret" \in OpCodes
  BY DEF OpCodes
<1>2. RetI(r) \in Instructions /\ RetI(r).op = "ret" /\ RetI(r).args = Blank.args
  BY <1>1, BlankType DEF RetI, Instructions
<1> QED
  BY <1>2, BlankType, ConstantsType DEF Plain

LEMMA LeavePlain == Plain({"leave"}, OpI("leave")) /\ OpI("leave").op = "leave"
<1>1. "leave" \in OpCodes
  BY DEF OpCodes
<1>2. /\ OpI("leave") \in Instructions /\ OpI("leave").op = "leave"
      /\ OpI("leave").args = Blank.args
  BY <1>1, BlankType DEF OpI, Instructions
<1> QED
  BY <1>2, BlankType, ConstantsType DEF Plain

\* A jump still to be fixed, or back to the beginning of a loop.
LEMMA JumpType ==
    \A n \in Int : LET x == JumpI("jmp", 0, n)
                   IN  /\ x \in Instructions /\ Len(x.args) <= LastReg
                       /\ x.op = "jmp" /\ x.off = n
<1> SUFFICES ASSUME NEW n \in Int
             PROVE  LET x == JumpI("jmp", 0, n)
                    IN  /\ x \in Instructions /\ Len(x.args) <= LastReg
                        /\ x.op = "jmp" /\ x.off = n
  OBVIOUS
<1> DEFINE x == JumpI("jmp", 0, n)
<1>1. x \in Instructions /\ x.op = "jmp" /\ x.off = n /\ x.args = Blank.args
  BY BlankType, StraightOps, ConstantsType DEF JumpI, Instructions
<1> QED
  BY <1>1, BlankType, ConstantsType

LEMMA EmitPlain ==
    \A R, w, x : Good(w) /\ Plain(R, x) => Adds(R, w, x, Emit(w, x))
BY EmitExtends DEF Plain

LEMMA EmitAfter ==
    \A R, w, v, x : Good(w) /\ Extends(R, w, v) /\ Plain(R, x) => Extends(R, w, Emit(v, x))
<1> SUFFICES ASSUME NEW R, NEW w, NEW v, NEW x, Good(w), Extends(R, w, v), Plain(R, x)
             PROVE  Extends(R, w, Emit(v, x))
  OBVIOUS
<1>1. Good(v)
  BY DEF Extends
<1>2. Extends(R, v, Emit(v, x))
  BY <1>1, EmitPlain DEF Adds
<1> QED
  BY <1>2, ExtendsTransitive

\* A register more.
LEMMA FreshExtends ==
    \A R, w : Good(w) =>
        Extends(R, w, Fresh(w)) /\ NewReg(w) \in Nat /\ NewReg(w) <= Fresh(w).NextReg
<1> SUFFICES ASSUME NEW R, NEW w, Good(w)
             PROVE  /\ Extends(R, w, Fresh(w))
                    /\ NewReg(w) \in Nat /\ NewReg(w) <= Fresh(w).NextReg
  OBVIOUS
<1> DEFINE v == Fresh(w)
<1>1. w \in Writers0(w) /\ w.NextReg \in Nat /\ w.size \in Nat /\ w.ResultReg \in Nat
  BY GoodParts DEF Good
<1>2. /\ v.code = w.code /\ v.size = w.size
      /\ v.PostponedJumps = w.PostponedJumps /\ v.BlockPositions = w.BlockPositions
      /\ v.Locals = w.Locals /\ v.NextReg = w.NextReg + 1 /\ v.ResultReg = w.ResultReg
  BY <1>1 DEF Fresh, Writers0, Writers
<1>3. v \in Writers0(w) /\ v \in Writers0(v)
  BY <1>1 DEF Fresh, Writers0, Writers
<1> HIDE DEF v
<1>4. Sites(v) = Sites(w) /\ Pending(v) = Pending(w) /\ Bounds(v) = Bounds(w)
  BY <1>2 DEF Sites, Pending, Bounds
<1>5. Contiguous(v)
  BY <1>2, <1>4 DEF Good, Contiguous, After
<1>6. Good(v)
  BY <1>1, <1>2, <1>3, <1>4, <1>5 DEF Good
<1>7. Extends(R, w, v)
  BY <1>1, <1>2, <1>3, <1>4, <1>6 DEF Extends, Bounds
<1> QED
  BY <1>1, <1>2, <1>7 DEF v, NewReg

\* Another register for the result.
LEMMA ResultExtends ==
    \A R, w, v, r : Good(w) /\ Extends(R, w, v) /\ r \in Nat /\ r <= v.NextReg
                        => Extends(R, w, Result(v, r))
<1> SUFFICES ASSUME NEW R, NEW w, NEW u, NEW r, Good(w), Extends(R, w, u),
                    r \in Nat, r <= u.NextReg
             PROVE  Extends(R, w, Result(u, r))
  OBVIOUS
<1> DEFINE v == Result(u, r)
<1>0. Good(u)
  BY DEF Extends
<1>1. u \in Writers0(u) /\ u.NextReg \in Nat /\ u.size \in Nat
  BY <1>0, GoodParts DEF Good
<1>2. /\ v.code = u.code /\ v.size = u.size
      /\ v.PostponedJumps = u.PostponedJumps /\ v.BlockPositions = u.BlockPositions
      /\ v.Locals = u.Locals /\ v.NextReg = u.NextReg /\ v.ResultReg = r
  BY <1>1 DEF Result, Writers0, Writers
<1>3. v \in Writers0(u) /\ v \in Writers0(v)
  BY <1>1 DEF Result, Writers0, Writers
<1> HIDE DEF v
<1>4. Sites(v) = Sites(u) /\ Pending(v) = Pending(u) /\ Bounds(v) = Bounds(u)
  BY <1>2 DEF Sites, Pending, Bounds
<1>5. Contiguous(v)
  BY <1>0, <1>2, <1>4 DEF Good, Contiguous, After
<1>6. Good(v)
  BY <1>0, <1>1, <1>2, <1>3, <1>4, <1>5 DEF Good
<1>7. Extends(R, u, v)
  BY <1>1, <1>2, <1>3, <1>4, <1>6 DEF Extends, Bounds
<1>8. Extends(R, w, v)
  BY <1>7, ExtendsTransitive
<1> QED
  BY <1>8 DEF v

\* A result kept in the register taken before it was computed.
LEMMA KeptInNew ==
    \A R, w, v : Good(w) /\ Extends(R, Fresh(w), v) => Extends(R, w, Result(v, NewReg(w)))
<1> SUFFICES ASSUME NEW R, NEW w, NEW v, Good(w), Extends(R, Fresh(w), v)
             PROVE  Extends(R, w, Result(v, NewReg(w)))
  OBVIOUS
<1>1. Extends(R, w, Fresh(w)) /\ NewReg(w) \in Nat /\ NewReg(w) <= Fresh(w).NextReg
  BY FreshExtends
<1>2. Extends(R, w, v)
  BY <1>1, ExtendsTransitive
<1>3. NewReg(w) <= v.NextReg
  <2>1. Fresh(w).NextReg \in Nat /\ v.NextReg \in Nat /\ Fresh(w).NextReg <= v.NextReg
    BY <1>1, GoodParts DEF Extends
  <2> QED
    BY <1>1, <2>1
<1> QED
  BY <1>1, <1>2, <1>3, ResultExtends

-----------------------------------------------------------------------------
(* Offsets put in afterwards *)

\* x and y differ by an offset.
Alike(x, y) ==
    /\ x.op = y.op /\ x.f = y.f /\ x.k = y.k /\ x.args = y.args
    /\ x.name = y.name /\ x.nargs = y.nargs

LEMMA SameLength == \A x, y : Alike(x, y) => Length(x) = Length(y)
BY DEF Alike, Length

LEMMA OffsetChanged ==
    \A x \in Instructions : \A n \in Int :
        LET y == [x EXCEPT !.off = n]
        IN  y \in Instructions /\ Alike(y, x) /\ y.off = n
BY DEF Instructions, Alike

\* A text with other offsets.
Patched(w, v) ==
    /\ v.size = w.size /\ Sites(v) = Sites(w)
    /\ \A j \in Sites(w) : v.code[j] \in Instructions /\ Alike(v.code[j], w.code[j])

LEMMA PatchedText ==
    \A w, v : Good(w) /\ Patched(w, v) =>
        /\ Bounds(v) = Bounds(w)
        /\ \A j \in Sites(w) : After(v, j) = After(w, j)
        /\ Contiguous(v)
        /\ \A j \in Sites(v) : Len(v.code[j].args) <= LastReg
<1> SUFFICES ASSUME NEW w, NEW v, Good(w), Patched(w, v)
             PROVE  /\ Bounds(v) = Bounds(w)
                    /\ \A j \in Sites(w) : After(v, j) = After(w, j)
                    /\ Contiguous(v)
                    /\ \A j \in Sites(v) : Len(v.code[j].args) <= LastReg
  OBVIOUS
<1>1. Bounds(v) = Bounds(w)
  BY DEF Patched, Bounds
<1>2. \A j \in Sites(w) : After(v, j) = After(w, j)
  BY SameLength DEF Patched, After
<1>3. Contiguous(v)
  BY <1>2 DEF Patched, Good, Contiguous
<1>4. \A j \in Sites(v) : Len(v.code[j].args) <= LastReg
  BY DEF Patched, Alike, Good
<1> QED
  BY <1>1, <1>2, <1>3, <1>4

\* Another instruction at position h, which differs by its offset.
Patch(w, h, y) == [w EXCEPT !.code = [w.code EXCEPT ![h] = y]]

LEMMA PatchSite ==
    ASSUME NEW w, Good(w), NEW h \in Sites(w), NEW y \in Instructions, Alike(y, w.code[h]),
           NEW v, v = Patch(w, h, y)
    PROVE  /\ Good(v) /\ v \in Writers0(w) /\ Patched(w, v)
           /\ v.NextReg = w.NextReg /\ v.ResultReg = w.ResultReg
           /\ v.PostponedJumps = w.PostponedJumps
           /\ v.code[h] = y /\ \A j \in Sites(w) \ {h} : v.code[j] = w.code[j]
<1>1. w \in Writers0(w) /\ w.code \in [Sites(w) -> Instructions] /\ w.code[h] \in Instructions
  BY GoodParts DEF Good
<1>2. /\ v.code = [w.code EXCEPT ![h] = y] /\ v.size = w.size
      /\ v.PostponedJumps = w.PostponedJumps /\ v.BlockPositions = w.BlockPositions
      /\ v.Locals = w.Locals /\ v.NextReg = w.NextReg /\ v.ResultReg = w.ResultReg
  BY <1>1 DEF Patch, Writers0, Writers
<1>3. [w.code EXCEPT ![h] = y] \in Codes
  <2>1. [w.code EXCEPT ![h] = y] \in [Sites(w) -> Instructions]
    BY <1>1
  <2>2. Sites(w) \subseteq Nat
    BY GoodParts
  <2> QED
    BY <2>1, <2>2, CodesType DEF Sites
<1>4. v \in Writers0(w)
  BY <1>1, <1>3 DEF Patch, Writers0, Writers
<1>5. /\ Sites(v) = Sites(w) /\ v.code[h] = y
      /\ \A j \in Sites(w) \ {h} : v.code[j] = w.code[j]
  BY <1>1, <1>2 DEF Sites
<1>6. Patched(w, v)
  BY <1>1, <1>2, <1>5 DEF Patched, Alike
<1>7. Contiguous(v) /\ \A j \in Sites(v) : Len(v.code[j].args) <= LastReg
  BY <1>6, PatchedText
<1>8. v \in Writers0(v)
  BY <1>2, <1>4 DEF Writers0
<1>9. Pending(v) = Pending(w)
  BY <1>2 DEF Pending
<1>10. \A j \in Pending(v) : j \in Sites(v) /\ v.code[j].op = "jmp"
  BY <1>5, <1>6, <1>9 DEF Good, Patched, Alike
<1>11. Good(v)
  BY <1>2, <1>5, <1>7, <1>8, <1>10 DEF Good
<1> QED
  BY <1>2, <1>4, <1>5, <1>6, <1>11

LEMMA FixupLocalGood ==
    ASSUME NEW w, Good(w), NEW h \in Sites(w), w.code[h].op \in {"jmp", "jz", "jnz"}
    PROVE  LET v == FixupLocal(w, h)
           IN  /\ Good(v) /\ v \in Writers0(w) /\ Patched(w, v)
               /\ v.NextReg = w.NextReg /\ v.ResultReg = w.ResultReg
               /\ v.PostponedJumps = w.PostponedJumps
               /\ \A j \in Sites(w) \ {h} : v.code[j] = w.code[j]
               /\ \A t \in Targets(v, h) : t \in {w.size, After(w, h)}
               /\ w.code[h].op # "jmp" => Targets(v, h) = {w.size, After(w, h)}
<1> DEFINE v == FixupLocal(w, h)
           y == [w.code[h] EXCEPT !.off = w.size - h]
<1>1. w.size \in Nat /\ h \in Nat /\ w.code[h] \in Instructions
  BY GoodParts
<1>2. y \in Instructions /\ Alike(y, w.code[h]) /\ y.off = w.size - h
  <2>1. w.size - h \in Int
    BY <1>1
  <2> QED
    BY <1>1, <2>1, OffsetChanged
<1> HIDE DEF y
<1>3. v = Patch(w, h, y)
  BY DEF y, FixupLocal, Patch
<1> HIDE DEF v
<1>4. /\ Good(v) /\ v \in Writers0(w) /\ Patched(w, v)
      /\ v.NextReg = w.NextReg /\ v.ResultReg = w.ResultReg
      /\ v.PostponedJumps = w.PostponedJumps
      /\ v.code[h] = y /\ \A j \in Sites(w) \ {h} : v.code[j] = w.code[j]
  BY <1>2, <1>3, PatchSite
<1>5. /\ \A t \in Targets(v, h) : t \in {w.size, After(w, h)}
      /\ w.code[h].op # "jmp" => Targets(v, h) = {w.size, After(w, h)}
  <2>1. v.code[h].op \in {"jmp", "jz", "jnz"} /\ v.code[h].off = w.size - h
    BY <1>2, <1>4 DEF Alike
  <2>2. /\ Targets(v, h) \subseteq {h + v.code[h].off, After(v, h)}
        /\ v.code[h].op # "jmp" => Targets(v, h) = {h + v.code[h].off, After(v, h)}
    BY <2>1 DEF Targets
  <2>5. v.code[h].op = w.code[h].op
    BY <1>2, <1>4 DEF Alike
  <2>3. h + (w.size - h) = w.size
    BY <1>1
  <2>4. After(v, h) = After(w, h)
    BY <1>4, PatchedText
  <2> QED
    BY <2>1, <2>2, <2>3, <2>4, <2>5
<1> QED
  BY <1>4, <1>5 DEF v

LEMMA FixupLocalExtends ==
    ASSUME NEW R, NEW w, NEW u, Good(w), Extends(R, w, u),
           NEW h \in Sites(u), h >= w.size, u.code[h].op \in {"jmp", "jz", "jnz"}
    PROVE  LET v == FixupLocal(u, h)
           IN  /\ Extends(R, w, v) /\ v.size = u.size /\ Sites(v) = Sites(u)
               /\ v.NextReg = u.NextReg /\ v.ResultReg = u.ResultReg
               /\ v.PostponedJumps = u.PostponedJumps /\ Pending(v) = Pending(u)
               /\ \A j \in Sites(u) \ {h} : v.code[j] = u.code[j]
               /\ \A t \in Targets(v, h) : t \in {u.size, After(u, h)}
<1> DEFINE v == FixupLocal(u, h)
<1>1. Good(u) /\ u \in Writers0(w)
  BY DEF Extends
<1>2. /\ Good(v) /\ v \in Writers0(u) /\ Patched(u, v)
      /\ v.NextReg = u.NextReg /\ v.ResultReg = u.ResultReg
      /\ v.PostponedJumps = u.PostponedJumps
      /\ \A j \in Sites(u) \ {h} : v.code[j] = u.code[j]
      /\ \A t \in Targets(v, h) : t \in {u.size, After(u, h)}
  BY <1>1, FixupLocalGood
<1> HIDE DEF v
<1>3. v.size = u.size /\ Sites(v) = Sites(u) /\ Bounds(v) = Bounds(u) /\ Pending(v) = Pending(u)
  BY <1>1, <1>2, PatchedText DEF Patched, Pending
<1>4. v \in Writers0(w)
  BY <1>1, <1>2 DEF Writers0, Writers
<1>5. w.size \in Nat /\ u.size \in Nat /\ h \in Nat /\ Sites(w) \subseteq 0 .. w.size - 1
      /\ After(u, h) \in Bounds(u) /\ After(u, h) > h /\ Bounds(u) \subseteq Nat
  BY <1>1, GoodParts DEF Good, Bounds
<1>6. h \notin Sites(w)
  BY <1>5
<1>7. \A j \in Sites(w) : j \in Sites(v) /\ v.code[j] = w.code[j]
  BY <1>2, <1>3, <1>6 DEF Extends
<1>8. ASSUME NEW j \in Sites(v) \ Sites(w)
      PROVE  /\ j >= w.size /\ v.code[j].op \in R
             /\ j \in Pending(v)
                \/ \A t \in Targets(v, j) : t \in Bounds(v) /\ t >= w.size
  <2>1. /\ j >= w.size /\ u.code[j].op \in R
        /\ j \in Pending(u)
           \/ \A t \in Targets(u, j) : t \in Bounds(u) /\ t >= w.size
    BY <1>3 DEF Extends
  <2>2. CASE j = h
    <3>1. v.code[j].op = u.code[j].op
      BY <1>2, <2>2 DEF Patched, Alike
    <3>2. u.size >= w.size
      BY DEF Extends
    <3>3. \A t \in Targets(v, j) : t \in Bounds(v) /\ t >= w.size
      BY <1>2, <1>3, <1>5, <2>2, <3>2 DEF Bounds
    <3> QED
      BY <2>1, <3>1, <3>3
  <2>3. CASE j # h
    <3>1. v.code[j] = u.code[j]
      BY <1>2, <1>3, <2>3
    <3> QED
      BY <1>3, <2>1, <3>1, SameCode
  <2> QED
    BY <2>2, <2>3
<1>9. Extends(R, w, v)
  BY <1>2, <1>3, <1>4, <1>7, <1>8 DEF Extends
<1> QED
  BY <1>2, <1>3, <1>9 DEF v

-----------------------------------------------------------------------------
(* The code for operands *)

\* A site other than a jump leads from between a and t to t.
Led(v, a, t) ==
    \E i \in Sites(v) :
        a <= i /\ i < t /\ v.code[i].op # "jmp" /\ t \in Targets(v, i)

\* Control has to come to t: it is no jump, or it is a branch of the block.
Due(v, t) == v.code[t].op # "jmp" \/ t \in Pending(v)

\* Control comes from a to all that is due after it.
Leads(v, a) == \A t \in Sites(v) : t > a /\ Due(v, t) => Led(v, a, t)

\* v is w with code that control goes through; if v continues w it also comes
\* to the end of it.
Adjoins(w, v) == Good(w) /\ Extends(Straight, w, v) /\ Leads(v, w.size)
Continues(w, v) == Adjoins(w, v) /\ (w.size < v.size => Led(v, w.size, v.size))

LEMMA AdjoinsGood ==
    \A w, v : Adjoins(w, v) =>
        /\ Good(w) /\ Good(v) /\ v.ResultReg \in Nat /\ v.NextReg \in Nat
        /\ w.NextReg \in Nat /\ w.NextReg <= v.NextReg /\ v.Locals = w.Locals
<1> SUFFICES ASSUME NEW w, NEW v, Adjoins(w, v)
             PROVE  /\ Good(w) /\ Good(v) /\ v.ResultReg \in Nat /\ v.NextReg \in Nat
                    /\ w.NextReg \in Nat /\ w.NextReg <= v.NextReg /\ v.Locals = w.Locals
  OBVIOUS
<1>1. Good(w) /\ Good(v) /\ w.NextReg <= v.NextReg /\ v \in Writers0(w)
  BY DEF Adjoins, Extends
<1>2. v.Locals = w.Locals
  BY <1>1 DEF Writers0, Writers
<1> QED
  BY <1>1, <1>2, GoodParts

LEMMA ContinuesGood ==
    \A w, v : Continues(w, v) =>
        /\ Adjoins(w, v) /\ Extends(Straight, w, v)
        /\ Good(w) /\ Good(v) /\ v.ResultReg \in Nat /\ v.NextReg \in Nat
        /\ w.NextReg \in Nat /\ w.NextReg <= v.NextReg /\ v.Locals = w.Locals
BY AdjoinsGood DEF Continues, Adjoins

\* What is led to stays so when more is written, and from further back.
LEMMA LedStays ==
    \A R, u, v, a, t : Extends(R, u, v) /\ Led(u, a, t) => Led(v, a, t)
<1> SUFFICES ASSUME NEW R, NEW u, NEW v, NEW a, NEW t, Extends(R, u, v), Led(u, a, t)
             PROVE  Led(v, a, t)
  OBVIOUS
<1>1. PICK i \in Sites(u) : a <= i /\ i < t /\ u.code[i].op # "jmp" /\ t \in Targets(u, i)
  BY DEF Led
<1>2. i \in Sites(v) /\ v.code[i] = u.code[i] /\ Targets(v, i) = Targets(u, i)
  BY SameCode DEF Extends
<1> QED
  BY <1>1, <1>2 DEF Led

LEMMA LedFurther ==
    \A v, t : \A a, b \in Nat :
        Sites(v) \subseteq Nat /\ a <= b /\ Led(v, b, t) => Led(v, a, t)
<1> SUFFICES ASSUME NEW v, NEW t, NEW a \in Nat, NEW b \in Nat,
                    Sites(v) \subseteq Nat, a <= b, Led(v, b, t)
             PROVE  Led(v, a, t)
  OBVIOUS
<1>1. PICK i \in Sites(v) : b <= i /\ i < t /\ v.code[i].op # "jmp" /\ t \in Targets(v, i)
  BY DEF Led
<1>2. a <= i
  BY <1>1
<1> QED
  BY <1>1, <1>2 DEF Led

\* Everything due after a is led to, in v as in u and after the end of u.
LEMMA LeadsOn ==
    ASSUME NEW R, NEW u, NEW v, Good(u), Extends(R, u, v), NEW a \in Nat, a <= u.size,
           Leads(u, a), a < u.size => Led(u, a, u.size), Leads(v, u.size)
    PROVE  Leads(v, a)
<1>1. Sites(v) \subseteq Nat /\ u.size \in Nat
  BY GoodParts DEF Extends
<1> SUFFICES ASSUME NEW t \in Sites(v), t > a, Due(v, t) PROVE Led(v, a, t)
  BY DEF Leads
<1>2. CASE t \in Sites(u)
  <2>1. v.code[t] = u.code[t] /\ t < u.size
    BY <1>2, GoodParts DEF Extends
  <2>2. t \in Pending(v) => t \in Pending(u)
    BY <1>1, <2>1 DEF Extends
  <2>3. Led(u, a, t)
    BY <1>2, <2>1, <2>2 DEF Leads, Due
  <2> QED
    BY <2>3, LedStays
<1>3. CASE t \notin Sites(u)
  <2>1. t >= u.size
    BY <1>3 DEF Extends
  <2>2. CASE t = u.size
    BY <2>2, LedStays
  <2>3. CASE t > u.size
    <3>1. Led(v, u.size, t)
      BY <2>3 DEF Leads
    <3> QED
      BY <1>1, <3>1, LedFurther
  <2> QED
    BY <1>1, <2>1, <2>2, <2>3
<1> QED
  BY <1>2, <1>3

LEMMA Stay == \A w : Good(w) => Continues(w, w)
<1> SUFFICES ASSUME NEW w, Good(w) PROVE Continues(w, w)
  OBVIOUS
<1>1. Extends(Straight, w, w)
  BY ExtendsReflexive
<1>2. w.size \in Nat /\ \A j \in Sites(w) : j \in Nat /\ j < w.size
  BY GoodParts
<1>3. Leads(w, w.size)
  BY <1>2 DEF Leads
<1> QED
  BY <1>1, <1>2, <1>3 DEF Continues, Adjoins

LEMMA ThenAdjoins == \A w, u, v : Continues(w, u) /\ Adjoins(u, v) => Adjoins(w, v)
<1> SUFFICES ASSUME NEW w, NEW u, NEW v, Continues(w, u), Adjoins(u, v) PROVE Adjoins(w, v)
  OBVIOUS
<1>1. Good(w) /\ Good(u) /\ Extends(Straight, w, u) /\ Extends(Straight, u, v)
  BY ContinuesGood DEF Adjoins
<1>2. Extends(Straight, w, v)
  BY <1>1, ExtendsTransitive
<1>3. w.size \in Nat /\ w.size <= u.size
  BY <1>1, GoodParts DEF Extends
<1>4. Leads(v, w.size)
  BY <1>1, <1>3, LeadsOn DEF Continues, Adjoins
<1> QED
  BY <1>1, <1>2, <1>4 DEF Adjoins

LEMMA Onwards == \A w, u, v : Continues(w, u) /\ Continues(u, v) => Continues(w, v)
<1> SUFFICES ASSUME NEW w, NEW u, NEW v, Continues(w, u), Continues(u, v) PROVE Continues(w, v)
  OBVIOUS
<1>1. Adjoins(w, v)
  BY ThenAdjoins, ContinuesGood
<1>2. /\ Good(w) /\ Good(u) /\ Good(v)
      /\ Extends(Straight, w, u) /\ Extends(Straight, u, v)
  BY ContinuesGood
<1>3. /\ w.size \in Nat /\ u.size \in Nat /\ v.size \in Nat /\ Sites(v) \subseteq Nat
      /\ w.size <= u.size /\ u.size <= v.size
  BY <1>2, GoodParts DEF Extends
<1>4. ASSUME w.size < v.size PROVE Led(v, w.size, v.size)
  <2>1. CASE u.size < v.size
    <3>1. Led(v, u.size, v.size)
      BY <2>1 DEF Continues
    <3> QED
      BY <1>3, <3>1, LedFurther
  <2>2. CASE u.size = v.size
    <3>1. Led(u, w.size, v.size)
      BY <1>4, <2>2 DEF Continues
    <3> QED
      BY <1>2, <3>1, LedStays
  <2> QED
    BY <1>3, <2>1, <2>2
<1> QED
  BY <1>1, <1>4 DEF Continues

LEMMA ThenEmit ==
    \A w, v, x : Continues(w, v) /\ Plain(Falling, x) => Continues(w, Emit(v, x))
<1> SUFFICES ASSUME NEW w, NEW v, NEW x, Continues(w, v), Plain(Falling, x)
             PROVE  Continues(w, Emit(v, x))
  OBVIOUS
<1> DEFINE e == Emit(v, x)
<1>1. Good(v) /\ Plain(Straight, x)
  BY ContinuesGood DEF Plain, Falling
<1>2. /\ Extends(Straight, v, e) /\ v.size < e.size
      /\ v.size \in Sites(e) /\ e.code[v.size] = x /\ After(e, v.size) = e.size
      /\ Sites(e) = Sites(v) \cup {v.size}
  BY <1>1, EmitPlain DEF Adds
<1> HIDE DEF e
<1>3. v.size \in Nat /\ \A j \in Sites(v) : j \in Nat /\ j < v.size
  BY <1>1, GoodParts
<1>4. Leads(e, v.size)
  BY <1>2, <1>3 DEF Leads
<1>5. e.size \in Targets(e, v.size) /\ e.code[v.size].op # "jmp"
  BY <1>2 DEF Plain, Falling, Straight, OpCodes, Targets
<1>6. Led(e, v.size, e.size)
  BY <1>2, <1>3, <1>5 DEF Led
<1>7. Continues(v, e)
  BY <1>1, <1>2, <1>4, <1>6 DEF Continues, Adjoins
<1> QED
  BY <1>7, Onwards DEF e

LEMMA ThenRR ==
    \A w, v : \A f \in AluOps : \A r, q \in Nat :
        Continues(w, v) => Continues(w, EmitRR(v, f, r, q))
BY ThenEmit, AluRPlain, ByteType DEF EmitRR

LEMMA ThenRC ==
    \A w, v : \A f \in AluOps : \A r \in Nat : \A c \in Word :
        Continues(w, v) => Continues(w, EmitRC(v, f, r, c))
BY ThenEmit, AluCPlain, ByteType DEF EmitRC

LEMMA ThenJump ==
    \A w, v : \A o \in {"jz", "jnz"} : \A r \in Nat :
        Continues(w, v) => Continues(w, EmitJump(v, o, r))
<1>1. \A o \in {"jz", "jnz"} : \A r \in Reg : Plain(Falling, JumpI(o, r, 0))
  BY JumpPlain DEF Plain, Falling
<1> QED
  BY <1>1, ThenEmit, ByteType DEF EmitJump

LEMMA ThenSameText ==
    \A w, u, v :
        (/\ Continues(w, u) /\ Extends(Straight, w, v)
         /\ v.code = u.code /\ v.size = u.size /\ v.PostponedJumps = u.PostponedJumps)
            => Continues(w, v)
<1> SUFFICES ASSUME NEW w, NEW u, NEW v, Continues(w, u), Extends(Straight, w, v),
                    v.code = u.code, v.size = u.size, v.PostponedJumps = u.PostponedJumps
             PROVE  Continues(w, v)
  OBVIOUS
<1>1. /\ Sites(v) = Sites(u) /\ Pending(v) = Pending(u)
      /\ \A j : Targets(v, j) = Targets(u, j)
  BY SameCode DEF Sites, Pending
<1>2. /\ \A t : Due(v, t) <=> Due(u, t)
      /\ \A a, t : Led(v, a, t) <=> Led(u, a, t)
  BY <1>1 DEF Due, Led
<1> QED
  BY <1>1, <1>2 DEF Continues, Adjoins, Leads

LEMMA ResultText ==
    \A w, r : Good(w) =>
        /\ Fresh(w).code = w.code /\ Result(w, r).code = w.code
        /\ Fresh(w).size = w.size /\ Result(w, r).size = w.size
        /\ Fresh(w).PostponedJumps = w.PostponedJumps
        /\ Result(w, r).PostponedJumps = w.PostponedJumps
BY DEF Good, Result, Fresh, Writers0, Writers

LEMMA ThenFresh ==
    \A w : Good(w) => /\ Continues(w, Fresh(w)) /\ Good(Fresh(w))
                      /\ NewReg(w) \in Nat /\ NewReg(w) <= Fresh(w).NextReg
BY FreshExtends, ContinuesGood, Stay, ResultText, ThenSameText

LEMMA ThenResult ==
    \A w, v, r : Continues(w, v) /\ r \in Nat /\ r <= v.NextReg
                     => Continues(w, Result(v, r))
BY ResultExtends, ContinuesGood, ResultText, ThenSameText

LEMMA ThenKept ==
    \A w, v : Good(w) /\ Continues(Fresh(w), v) => Continues(w, Result(v, NewReg(w)))
<1> SUFFICES ASSUME NEW w, NEW v, Good(w), Continues(Fresh(w), v)
             PROVE  Continues(w, Result(v, NewReg(w)))
  OBVIOUS
<1>1. Continues(w, v) /\ Good(v)
  BY ThenFresh, Onwards, ContinuesGood
<1>2. Extends(Straight, w, Result(v, NewReg(w)))
  BY KeptInNew, ContinuesGood
<1> QED
  BY <1>1, <1>2, ResultText, ThenSameText

LEMMA ThenInto ==
    \A w, v : \A r \in Nat : Continues(w, v) => Continues(w, Into(v, r))
BY ThenRR, ContinuesGood, FormatAssumption DEF Into

LEMMA ThenCopied ==
    \A w : Good(w) => Continues(Fresh(w), Copied(w)) /\ Continues(w, Copied(w))
BY ThenFresh, ThenInto, Stay, Onwards DEF Copied

LEMMA ThenMasked ==
    \A w : \A mask \in Word : Good(w) => Continues(w, MaskedTo(w, mask))
<1> SUFFICES ASSUME NEW w, NEW mask \in Word, Good(w) PROVE Continues(w, MaskedTo(w, mask))
  OBVIOUS
<1>1. Continues(Fresh(w), EmitRC(Copied(w), "and", NewReg(w), mask))
  BY ThenCopied, ThenFresh, ThenRC, FormatAssumption
<1> QED
  BY <1>1, ThenKept DEF MaskedTo

LEMMA ThenCast ==
    \A w : \A mask \in Word :
        Good(w) => Continues(w, WriteCastTo(w, mask)) /\ Continues(w, CastTo(w, mask))
BY ThenMasked, Stay, ConstantsType DEF WriteCastTo, CastTo

LEMMA ThenMov ==
    \A w : \A n \in Word :
        Good(w) => Continues(w, Mov(w, n)) /\ NewReg(w) <= Mov(w, n).NextReg
<1> SUFFICES ASSUME NEW w, NEW n \in Word, Good(w)
             PROVE  Continues(w, Mov(w, n)) /\ NewReg(w) <= Mov(w, n).NextReg
  OBVIOUS
<1> DEFINE v == EmitRC(Fresh(w), "mov", NewReg(w), n)
<1>1. Continues(Fresh(w), v)
  BY ThenFresh, Stay, ThenRC, FormatAssumption
<1>2. NewReg(w) \in Nat /\ NewReg(w) <= v.NextReg
  BY <1>1, ThenFresh, ContinuesGood
<1>3. Continues(Fresh(w), Result(v, NewReg(w)))
  BY <1>1, <1>2, ThenResult
<1>4. NewReg(w) <= Result(v, NewReg(w)).NextReg
  BY <1>2, <1>3, ThenFresh, ContinuesGood
<1> QED
  BY <1>1, <1>4, ThenKept DEF Mov

LEMMA ThenInt ==
    \A w : \A n, mask \in Word :
        Good(w) => Continues(w, PrintInt(w, n, mask))
<1> SUFFICES ASSUME NEW w, NEW n \in Word, NEW mask \in Word, Good(w)
             PROVE  Continues(w, PrintInt(w, n, mask))
  OBVIOUS
<1>1. Continues(w, Mov(w, n)) /\ NewReg(w) <= Mov(w, n).NextReg /\ NewReg(w) \in Nat
  BY ThenMov, ThenFresh
<1>2. Continues(Mov(w, n), WriteCastTo(Mov(w, n), mask))
  BY <1>1, ThenCast, ContinuesGood
<1>3. Continues(w, WriteCastTo(Mov(w, n), mask))
  BY <1>1, <1>2, Onwards
<1>4. NewReg(w) <= WriteCastTo(Mov(w, n), mask).NextReg
  BY <1>1, <1>2, ContinuesGood
<1> QED
  BY <1>1, <1>3, <1>4, ThenResult DEF PrintInt

LEMMA ThenResultInto ==
    \A w, v : Good(w) /\ Continues(Fresh(w), v) => Continues(w, ResultInto(v, NewReg(w)))
BY ThenFresh, ThenInto, ThenKept DEF ResultInto

LEMMA ThenUndef ==
    \A w : \A mask \in Word : Good(w) => Continues(w, PrintUndef(w, mask))
BY ThenFresh, ThenInt, ThenResultInto, ConstantsType DEF PrintUndef

\* The instructions that put their result in a new register.
LEMMA ThenNew ==
    \A w, x : Good(w) /\ Plain(Falling, x) => Continues(w, Result(Emit(Fresh(w), x), NewReg(w)))
BY ThenFresh, Stay, ThenEmit, ThenKept

LEMMA ThenGlobal ==
    \A w, x : Good(w) /\ Mangle(x) \in Names => Continues(w, ReadGlobal(w, x))
BY ThenNew, ThenFresh, GgPlain, ByteType DEF ReadGlobal

LEMMA ThenLoad ==
    \A w, width : Good(w) => Continues(w, LoadFrom(w, width))
<1> SUFFICES ASSUME NEW w, NEW width, Good(w) PROVE Continues(w, LoadFrom(w, width))
  OBVIOUS
<1>1. CASE width \in Widths
  BY <1>1, ThenNew, ThenFresh, GoodParts, LdPlain, ByteType DEF LoadFrom
<1>2. CASE width \notin Widths
  BY <1>2, ThenFresh, Stay, ThenKept DEF LoadFrom
<1> QED
  BY <1>1, <1>2

LEMMA ThenAddress ==
    \A w : Good(w) => Continues(w, TakeAddress(w))
BY ThenNew, ThenFresh, GoodParts, LeaPlain, ByteType DEF TakeAddress

LEMMA ThenCell ==
    \A w : Good(w) => Continues(w, NewCell(w))
BY ThenNew, ThenFresh, GoodParts, DynPlain, ByteType DEF NewCell

LEMMA LocalType ==
    \A w, id : Good(w) /\ id \in DOMAIN w.Locals
                   => w.Locals[id] \in Nat /\ w.Locals[id] <= w.NextReg
BY GoodParts DEF Good

LEMMA ThenLeaf ==
    \A w, o : Good(w) /\ ValidLeaf(DOMAIN w.Locals, o)
                  => Continues(w, WriteLeaf(w, o)) /\ Continues(w, WriteValue(w, o))
<1> SUFFICES ASSUME NEW w, NEW o, Good(w), ValidLeaf(DOMAIN w.Locals, o)
             PROVE  Continues(w, WriteLeaf(w, o)) /\ Continues(w, WriteValue(w, o))
  OBVIOUS
<1>1. Continues(w, WriteLeaf(w, o))
  <2>1. CASE o.kind = "int" /\ {o.n, o.mask} \subseteq Word
    <3>1. WriteLeaf(w, o) = PrintInt(w, o.n, o.mask)
      BY <2>1 DEF WriteLeaf
    <3> QED
      BY <2>1, <3>1, ThenInt
  <2>2. CASE o.kind = "undef" /\ o.mask \in Word
    <3>1. WriteLeaf(w, o) = PrintUndef(w, o.mask)
      BY <2>2 DEF WriteLeaf
    <3> QED
      BY <2>2, <3>1, ThenUndef
  <2>3. CASE o.kind = "global" /\ {o.name, Mangle(o.name)} \subseteq Names
    <3>1. WriteLeaf(w, o) = ReadGlobal(w, o.name)
      BY <2>3 DEF WriteLeaf
    <3> QED
      BY <2>3, <3>1, ThenGlobal
  <2>4. CASE o.kind \in {"local", "alloca"} /\ o.id \in DOMAIN w.Locals
    <3>1. WriteLeaf(w, o) = Result(w, w.Locals[o.id])
      BY <2>4 DEF WriteLeaf
    <3> QED
      BY <2>4, <3>1, Stay, LocalType, ThenResult
  <2> QED
    BY <2>1, <2>2, <2>3, <2>4 DEF ValidLeaf
<1>2. Continues(w, TakeAddress(WriteLeaf(w, o)))
  BY <1>1, ThenAddress, ContinuesGood, Onwards
<1> QED
  BY <1>1, <1>2 DEF WriteValue

Continuations(w) == {v \in Writers0(w) : Continues(w, v)}

LEMMA ContinuationsType == \A w, v : v \in Continuations(w) <=> Continues(w, v)
BY DEF Continuations, Continues, Adjoins, Extends

LEMMA ThenIndex ==
    \A w, v, new, scale : Continues(w, v) /\ new \in Nat /\ scale \in Word
                              => Continues(w, AddIndex(v, new, scale))
<1> SUFFICES ASSUME NEW w, NEW v, NEW new, NEW scale,
                    Continues(w, v), new \in Nat, scale \in Word
             PROVE  Continues(w, AddIndex(v, new, scale))
  OBVIOUS
<1>1. {"iadd", "umul"} \subseteq AluOps /\ new + 1 \in Nat /\ v.ResultReg \in Nat
  BY FormatAssumption, ContinuesGood
<1>2. Continues(w, EmitRR(v, "iadd", new, v.ResultReg))
  BY <1>1, ThenRR
<1>3. Continues(w, Into(v, new + 1))
  BY <1>1, ThenInto
<1>4. Continues(w, EmitRC(Into(v, new + 1), "umul", new + 1, scale))
  BY <1>1, <1>3, ThenRC
<1>5. Continues(w, EmitRR(EmitRC(Into(v, new + 1), "umul", new + 1, scale),
                          "iadd", new, new + 1))
  BY <1>1, <1>4, ThenRR
<1> QED
  BY <1>2, <1>5 DEF AddIndex

LEMMA FoldIndices ==
    ASSUME NEW w, Good(w), NEW new \in Nat, NEW s,
           ValidIndices(DOMAIN w.Locals, s)
    PROVE  Continues(w, FoldLeft(LAMBDA v, x :
                              AddIndex(WriteValue(v, x.index), new, Scale(x.bits)), w, s))
<1> DEFINE n == Len(s)
           Op(v, x) == AddIndex(WriteValue(v, x.index), new, Scale(x.bits))
           G == Continuations(w)
           Step == [p \in G \X (1 .. n) |-> Op(p[1], s[p[2]])]
           Fold(it) == [t \in SUBSET DOMAIN s |->
                          IF t = {} THEN w ELSE Op(it[t \ {Max(t)}], s[Max(t)])]
           fold == CHOOSE it : it = Fold(it)
<1>1. DOMAIN s = 1 .. n /\ n \in Nat /\ w \in G
  <2>1. s \in Seq(ToSet(s))
    BY DEF ValidIndices
  <2>2. w \in G
    BY Stay, ContinuationsType
  <2> HIDE DEF G
  <2> QED
    BY <2>1, <2>2
<1>2. \A v \in G, k \in 1 .. n : Op(v, s[k]) \in G
  <2> SUFFICES ASSUME NEW v \in G, NEW k \in 1 .. n PROVE Op(v, s[k]) \in G
    OBVIOUS
  <2>1. s[k] \in ToSet(s)
    BY <1>1 DEF ToSet
  <2>2. Continues(w, v) /\ Good(v) /\ v.Locals = w.Locals
    BY ContinuationsType, ContinuesGood
  <2>3. ValidLeaf(DOMAIN v.Locals, s[k].index) /\ Scale(s[k].bits) \in Word
    BY <2>1, <2>2 DEF ValidIndices
  <2>4. Continues(w, WriteValue(v, s[k].index))
    BY <2>2, <2>3, ThenLeaf, Onwards
  <2>5. Continues(w, Op(v, s[k]))
    BY <2>3, <2>4, ThenIndex
  <2> QED
    BY <2>5, ContinuationsType
<1> HIDE DEF Op, n, Step, G
<1>3. Step \in [G \X (1 .. n) -> G]
  BY <1>2 DEF Step
<1>4. PICK it : Unfolds(it, G, w, n, Step)
  BY <1>1, <1>3, FoldExists
<1>5. it = Fold(it)
  <2>1. ASSUME NEW t \in SUBSET (1 .. n), t # {}
        PROVE  it[t] = Op(it[t \ {Max(t)}], s[Max(t)])
    <3>1. Max(t) \in 1 .. n /\ it[t \ {Max(t)}] \in G
          /\ it[t] = Step[<<it[t \ {Max(t)}], Max(t)>>]
      BY <1>4, <2>1 DEF Unfolds
    <3> QED
      BY <3>1 DEF Step
  <2> QED
    BY <1>1, <1>4, <2>1 DEF Unfolds
<1>6. fold = Fold(fold)
  BY <1>5
<1> HIDE DEF fold
<1>7. fold[1 .. n] \in G
  <2>1. fold[{}] \in G
    BY <1>1, <1>6
  <2>2. ASSUME NEW t \in SUBSET (1 .. n), t # {}, Max(t) \in 1 .. n,
               fold[t \ {Max(t)}] \in G
        PROVE  fold[t] \in G
    BY <1>1, <1>2, <1>6, <2>2
  <2> QED
    BY <1>1, <2>1, <2>2, FoldStays
<1>8. FoldLeft(LAMBDA v, x : AddIndex(WriteValue(v, x.index), new, Scale(x.bits)), w, s)
          = fold[DOMAIN s]
  BY DEF FoldLeft, MapThenFoldSet, fold, Op
<1>9. FoldLeft(LAMBDA v, x : AddIndex(WriteValue(v, x.index), new, Scale(x.bits)), w, s)
          \in Continuations(w)
  BY <1>1, <1>7, <1>8 DEF G
<1> QED
  BY <1>9, ContinuationsType

LEMMA ThenIndexed ==
    \A w, s : Good(w) /\ ValidIndices(DOMAIN w.Locals, s) => Continues(w, Indexed(w, s))
<1> SUFFICES ASSUME NEW w, NEW s, Good(w), ValidIndices(DOMAIN w.Locals, s)
             PROVE  Continues(w, Indexed(w, s))
  OBVIOUS
<1> DEFINE base == Fresh(Copied(w))
           v == FoldLeft(LAMBDA u, x :
                             AddIndex(WriteValue(u, x.index), NewReg(w), Scale(x.bits)),
                         base, s)
<1>1. Good(Fresh(w)) /\ Continues(w, Fresh(w)) /\ NewReg(w) \in Nat
  BY ThenFresh
<1>2. Continues(Fresh(w), Copied(w)) /\ Good(Copied(w))
  BY ThenCopied, ContinuesGood
<1>3. Continues(Fresh(w), base)
  BY <1>2, ThenFresh, Onwards
<1>4. Good(base) /\ base.Locals = w.Locals
  BY <1>1, <1>3, ContinuesGood
<1>5. Continues(base, v)
  <2> HIDE DEF base
  <2>1. ValidIndices(DOMAIN base.Locals, s)
    BY <1>4
  <2> QED
    BY <1>1, <1>4, <2>1, FoldIndices
<1> HIDE DEF v, base
<1>6. Continues(Fresh(w), v)
  BY <1>3, <1>5, Onwards
<1>7. Continues(w, Result(v, NewReg(w)))
  BY <1>6, ThenKept
<1> QED
  BY <1>7 DEF Indexed, v, base

LEMMA ThenGEP ==
    \A w, base, s :
        Good(w) /\ ValidLeaf(DOMAIN w.Locals, base) /\ ValidIndices(DOMAIN w.Locals, s)
            => Continues(w, WriteGEP(w, base, s))
<1> SUFFICES ASSUME NEW w, NEW base, NEW s, Good(w), ValidLeaf(DOMAIN w.Locals, base),
                    ValidIndices(DOMAIN w.Locals, s)
             PROVE  Continues(w, WriteGEP(w, base, s))
  OBVIOUS
<1>1. Continues(w, WriteValue(w, base))
  BY ThenLeaf
<1>2. Good(WriteValue(w, base)) /\ WriteValue(w, base).Locals = w.Locals
  BY <1>1, ContinuesGood
<1>3. Continues(WriteValue(w, base), WriteGEP(w, base, s))
  BY <1>2, ThenIndexed DEF WriteGEP
<1> QED
  BY <1>1, <1>3, Onwards

LEMMA ThenOperand ==
    \A w, o : Good(w) /\ ValidOperand(DOMAIN w.Locals, o) => Continues(w, WriteOperand(w, o))
<1> SUFFICES ASSUME NEW w, NEW o, Good(w), ValidOperand(DOMAIN w.Locals, o)
             PROVE  Continues(w, WriteOperand(w, o))
  OBVIOUS
<1>1. CASE ValidLeaf(DOMAIN w.Locals, o)
  <2>1. o.kind # "gep"
    BY <1>1 DEF ValidLeaf
  <2> QED
    BY <1>1, <2>1, ThenLeaf DEF WriteOperand
<1>2. CASE o.kind = "gep" /\ ValidLeaf(DOMAIN w.Locals, o.base)
           /\ ValidIndices(DOMAIN w.Locals, o.indices)
  <2>1. Continues(w, Fresh(w)) /\ Good(Fresh(w)) /\ Fresh(w).Locals = w.Locals
    BY ThenFresh, ContinuesGood
  <2>2. Continues(Fresh(w), WriteGEP(Fresh(w), o.base, o.indices))
    BY <1>2, <2>1, ThenGEP
  <2>3. Continues(w, ResultInto(WriteGEP(Fresh(w), o.base, o.indices), NewReg(w)))
    BY <2>2, ThenResultInto
  <2> QED
    BY <1>2, <2>3 DEF WriteOperand
<1> QED
  BY <1>1, <1>2 DEF ValidOperand

\* The same after other code.
LEMMA OperandAfter ==
    \A w, v, o : Continues(w, v) /\ ValidOperand(DOMAIN w.Locals, o)
                     => Continues(w, WriteOperand(v, o)) /\ Good(WriteOperand(v, o))
BY ThenOperand, ContinuesGood, Onwards

-----------------------------------------------------------------------------
(* Code that is skipped *)

LEMMA LocalJZ ==
    \A w : Good(w) =>
        LET v == localJZ(w)
        IN  /\ Continues(w, v) /\ Good(v) /\ w.size < v.size
            /\ Sites(v) = Sites(w) \cup {w.size}
            /\ v.code[w.size].op = "jz" /\ v.code[w.size].off = 0
            /\ After(v, w.size) = v.size
            /\ Pending(v) = Pending(w)
<1> SUFFICES ASSUME NEW w, Good(w)
             PROVE  LET v == localJZ(w)
                    IN  /\ Continues(w, v) /\ Good(v) /\ w.size < v.size
                        /\ Sites(v) = Sites(w) \cup {w.size}
                        /\ v.code[w.size].op = "jz" /\ v.code[w.size].off = 0
                        /\ After(v, w.size) = v.size
                        /\ Pending(v) = Pending(w)
  OBVIOUS
<1> DEFINE x == JumpI("jz", Byte(w.ResultReg), 0)
<1>1. Byte(w.ResultReg) \in Reg
  BY GoodParts, ByteType
<1>2. Plain(Straight, x) /\ Plain(Falling, x) /\ x.op = "jz" /\ x.off = 0
  BY <1>1, JumpPlain DEF Plain, Falling
<1> HIDE DEF x
<1>3. /\ Extends(Straight, w, Emit(w, x)) /\ w.size < Emit(w, x).size
      /\ w.size \in Sites(Emit(w, x)) /\ Emit(w, x).code[w.size] = x
      /\ After(Emit(w, x), w.size) = Emit(w, x).size
      /\ Sites(Emit(w, x)) = Sites(w) \cup {w.size}
      /\ Emit(w, x).PostponedJumps = w.PostponedJumps
  <2>1. Adds(Straight, w, x, Emit(w, x))
    BY <1>2, EmitPlain
  <2> QED
    BY <2>1 DEF Adds
<1>4. localJZ(w) = Emit(w, x)
  BY DEF localJZ, EmitJump, x
<1>5. Pending(localJZ(w)) = Pending(w)
  BY <1>3, <1>4 DEF Pending
<1>6. Continues(w, localJZ(w))
  BY <1>2, <1>4, Stay, ThenEmit
<1> QED
  BY <1>2, <1>3, <1>4, <1>5, <1>6, ContinuesGood

\* What is written between the jz and Otherwise stays, the jz leads past the
\* jump that ends it.
\* Of a jump that is fixed once what it led to is not lost.
LEMMA FixupLed ==
    ASSUME NEW w, NEW u, Adjoins(w, u), NEW h \in Sites(u), h >= w.size,
           u.code[h].op \in {"jmp", "jz", "jnz"}, u.code[h].op = "jmp" \/ u.code[h].off = 0
    PROVE  LET v == FixupLocal(u, h)
           IN  /\ Adjoins(w, v)
               /\ \A a, t : Led(u, a, t) => Led(v, a, t)
               /\ u.code[h].op # "jmp" => Led(v, h, u.size)
<1> DEFINE v == FixupLocal(u, h)
<1>1. Good(w) /\ Good(u) /\ Extends(Straight, w, u) /\ Leads(u, w.size)
  BY AdjoinsGood DEF Adjoins
<1>2. /\ Extends(Straight, w, v) /\ v.size = u.size /\ Sites(v) = Sites(u)
      /\ Pending(v) = Pending(u)
      /\ \A j \in Sites(u) \ {h} : v.code[j] = u.code[j]
  BY <1>1, FixupLocalExtends
<1>3. Patched(u, v) /\ (u.code[h].op # "jmp" => Targets(v, h) = {u.size, After(u, h)})
  BY <1>1, FixupLocalGood
<1> HIDE DEF v
<1>4. h \in Nat /\ h < u.size
  BY <1>1, GoodParts
<1>5. v.code[h].op = u.code[h].op
  BY <1>3 DEF Patched, Alike
<1>6. ASSUME NEW a, NEW t, Led(u, a, t) PROVE Led(v, a, t)
  <2>1. PICK i \in Sites(u) : a <= i /\ i < t /\ u.code[i].op # "jmp" /\ t \in Targets(u, i)
    BY <1>6 DEF Led
  <2>2. v.code[i].op # "jmp" /\ t \in Targets(v, i)
    <3>1. CASE i # h
      BY <1>2, <2>1, <3>1, SameCode
    <3>2. CASE i = h
      <4>1. Targets(u, h) = {h, After(u, h)}
        BY <1>4, <2>1, <3>2 DEF Targets
      <4> QED
        BY <1>3, <1>4, <1>5, <2>1, <3>2, <4>1
    <3> QED
      BY <3>1, <3>2
  <2> QED
    BY <1>2, <2>1, <2>2 DEF Led
<1>7. \A t \in Sites(v) : Due(v, t) => Due(u, t)
  BY <1>2, <1>5 DEF Due
<1>8. Leads(v, w.size)
  BY <1>1, <1>2, <1>6, <1>7 DEF Leads
<1>9. u.code[h].op # "jmp" => Led(v, h, u.size)
  BY <1>2, <1>3, <1>4, <1>5 DEF Led
<1> QED
  BY <1>1, <1>2, <1>6, <1>8, <1>9 DEF Adjoins, v

LEMMA FixupContinues ==
    ASSUME NEW w, NEW u, Continues(w, u), NEW h \in Sites(u), h >= w.size,
           u.code[h].op \in {"jmp", "jz", "jnz"}, u.code[h].op = "jmp" \/ u.code[h].off = 0
    PROVE  Continues(w, FixupLocal(u, h))
<1>1. Adjoins(w, u) /\ Good(w) /\ Extends(Straight, w, u)
  BY ContinuesGood
<1>2. Adjoins(w, FixupLocal(u, h)) /\ \A a, t : Led(u, a, t) => Led(FixupLocal(u, h), a, t)
  BY <1>1, FixupLed
<1>3. FixupLocal(u, h).size = u.size
  BY <1>1, FixupLocalExtends
<1> QED
  BY <1>2, <1>3 DEF Continues

\* A jump to come somewhere later, at the end of code or after a branch.
LEMMA ThenJmp ==
    ASSUME NEW w, NEW v, Adjoins(w, v), NEW x, Plain(Straight, x), x.op = "jmp"
    PROVE  Adjoins(w, Emit(v, x))
<1> DEFINE e == Emit(v, x)
<1>1. Good(w) /\ Good(v) /\ Extends(Straight, w, v) /\ Leads(v, w.size)
  BY AdjoinsGood DEF Adjoins
<1>2. /\ Extends(Straight, v, e) /\ e.code[v.size] = x
      /\ Sites(e) = Sites(v) \cup {v.size} /\ e.PostponedJumps = v.PostponedJumps
  <2>1. Adds(Straight, v, x, e)
    BY <1>1, EmitPlain
  <2> HIDE DEF e
  <2> QED
    BY <2>1 DEF Adds
<1> HIDE DEF e
<1>3. Extends(Straight, w, e)
  BY <1>1, <1>2, ExtendsTransitive
<1>4. ASSUME NEW t \in Sites(e), t > w.size, Due(e, t) PROVE Led(e, w.size, t)
  <2>1. Pending(e) = Pending(v) /\ v.size \notin Pending(v)
    <3>1. \A j \in Pending(v) : j \in Nat /\ j < v.size
      BY <1>1, GoodParts DEF Good
    <3>2. v.size \in Nat
      BY <1>1, GoodParts
    <3> QED
      BY <1>2, <3>1, <3>2 DEF Pending
  <2>2. t # v.size
    BY <1>2, <1>4, <2>1 DEF Due
  <2>3. t \in Sites(v) /\ e.code[t] = v.code[t]
    BY <1>2, <2>2 DEF Extends
  <2>4. Due(v, t)
    BY <1>4, <2>1, <2>3 DEF Due
  <2>5. Led(v, w.size, t)
    BY <1>1, <1>4, <2>3, <2>4 DEF Leads
  <2> QED
    BY <1>2, <2>5, LedStays
<1> QED
  BY <1>1, <1>3, <1>4 DEF e, Adjoins, Leads

LEMMA ThenOtherwise ==
    ASSUME NEW w, Good(w), NEW yes, Adjoins(localJZ(w), yes)
    PROVE  LET v == Otherwise(yes, w.size)
           IN  /\ Continues(w, v) /\ Adjoins(w, yes)
               /\ w.size < localJZ(w).size /\ localJZ(w).size <= yes.size /\ yes.size < v.size
               /\ Sites(v) = Sites(yes) \cup {yes.size}
               /\ v.code[yes.size].op = "jmp" /\ After(v, yes.size) = v.size
               /\ \A j \in Sites(yes) \ {w.size} : v.code[j] = yes.code[j]
               /\ \A t \in Targets(v, w.size) : t \in {v.size, localJZ(w).size}
               /\ Pending(v) = Pending(yes) /\ v.PostponedJumps = yes.PostponedJumps
               /\ yes.size \notin Sites(yes) /\ w.size \in Sites(yes)
<1> DEFINE a == localJZ(w)
           x == JumpI("jmp", Byte(0), 0)
           e == Emit(yes, x)
           v == Otherwise(yes, w.size)
<1>1. /\ Continues(w, a) /\ Good(a) /\ w.size < a.size
      /\ Sites(a) = Sites(w) \cup {w.size}
      /\ a.code[w.size].op = "jz" /\ a.code[w.size].off = 0 /\ After(a, w.size) = a.size
  BY LocalJZ
<1>2. Adjoins(w, yes) /\ Good(yes)
  BY <1>1, ThenAdjoins, AdjoinsGood
<1>3. Plain(Straight, x) /\ x.op = "jmp"
  BY ConstantsType, JumpPlain, ByteType
<1> HIDE DEF x
<1>4. /\ Extends(Straight, yes, e) /\ yes.size < e.size
      /\ yes.size \in Sites(e) /\ e.code[yes.size] = x
      /\ After(e, yes.size) = e.size
      /\ Sites(e) = Sites(yes) \cup {yes.size}
      /\ e.PostponedJumps = yes.PostponedJumps
  <2>1. Adds(Straight, yes, x, e)
    BY <1>2, <1>3, EmitPlain
  <2> HIDE DEF e
  <2> QED
    BY <2>1 DEF Adds
<1>5. v = FixupLocal(e, w.size)
  BY DEF v, e, x, Otherwise, EmitJump
<1>6. /\ w.size \in Sites(a) /\ w.size \in Sites(yes) /\ yes.code[w.size] = a.code[w.size]
      /\ \A j \in Sites(yes) : j \in Sites(e) /\ e.code[j] = yes.code[j]
      /\ a.size <= yes.size
  BY <1>1, <1>4 DEF Adjoins, Extends
<1>7. Extends(Straight, w, e)
  BY <1>2, <1>4, ExtendsTransitive DEF Adjoins
<1>8. /\ w.size \in Sites(e) /\ w.size >= w.size
      /\ e.code[w.size].op \in {"jmp", "jz", "jnz"} \ {"jmp"} /\ e.code[w.size].off = 0
  <2>1. w.size \in Nat
    BY GoodParts
  <2> QED
    BY <1>1, <1>6, <2>1
<1> HIDE DEF e, v, a
<1>9. /\ Extends(Straight, w, v) /\ v.size = e.size /\ Sites(v) = Sites(e)
      /\ Pending(v) = Pending(e) /\ v.PostponedJumps = e.PostponedJumps
      /\ \A j \in Sites(e) \ {w.size} : v.code[j] = e.code[j]
      /\ \A t \in Targets(v, w.size) : t \in {e.size, After(e, w.size)}
  BY <1>5, <1>7, <1>8, FixupLocalExtends
<1>10. After(e, w.size) = a.size
  BY <1>1, <1>6, SameCode
<1>11. yes.size \notin Sites(yes) /\ yes.size # w.size
  <2>1. w.size \in Nat /\ a.size \in Nat /\ yes.size \in Nat
        /\ \A j \in Sites(yes) : j < yes.size
    BY <1>1, <1>2, GoodParts
  <2> QED
    BY <1>1, <1>6, <2>1
<1>12. v.code[yes.size] = x /\ After(v, yes.size) = v.size
  <2>1. v.code[yes.size] = e.code[yes.size]
    BY <1>4, <1>9, <1>11
  <2> QED
    BY <1>4, <1>9, <2>1, SameCode
<1>13. Pending(v) = Pending(yes) /\ v.PostponedJumps = yes.PostponedJumps
  BY <1>4, <1>9 DEF Pending
<1>14. \A j \in Sites(yes) \ {w.size} : v.code[j] = yes.code[j]
  BY <1>6, <1>9
<1>16. Adjoins(w, e)
  BY <1>2, <1>3, ThenJmp DEF e
<1>17. Adjoins(w, v) /\ Led(v, w.size, e.size)
  BY <1>5, <1>8, <1>16, FixupLed
<1>15. Continues(w, v)
  BY <1>9, <1>17 DEF Continues
<1> QED
  BY <1>1, <1>2, <1>3, <1>4, <1>6, <1>9, <1>10, <1>11, <1>12, <1>13, <1>14, <1>15 DEF v, a

LEMMA ThenSkipped ==
    ASSUME NEW w, Good(w), NEW yes, Adjoins(localJZ(w), yes),
           NEW no, Continues(Otherwise(yes, w.size), no)
    PROVE  Continues(w, FixupLocal(no, yes.size))
<1> DEFINE v == Otherwise(yes, w.size)
<1>1. /\ Continues(w, v) /\ w.size < localJZ(w).size /\ localJZ(w).size <= yes.size
      /\ Sites(v) = Sites(yes) \cup {yes.size}
      /\ v.code[yes.size].op = "jmp"
  BY ThenOtherwise
<1> HIDE DEF v
<1>2. Continues(w, no) /\ Extends(Straight, v, no)
  BY <1>1, Onwards, ContinuesGood DEF v
<1>3. yes.size \in Sites(no) /\ no.code[yes.size].op = "jmp"
  BY <1>1, <1>2 DEF Extends
<1>4. yes.size >= w.size
  <2>1. w.size \in Nat /\ localJZ(w).size \in Nat /\ yes.size \in Nat
    BY LocalJZ, AdjoinsGood, GoodParts
  <2> QED
    BY <1>1, <2>1
<1> QED
  BY <1>2, <1>3, <1>4, FixupContinues

-----------------------------------------------------------------------------
(* The code for instructions *)

LEMMA ArgumentValid ==
    \A ids, os : ValidOperands(ids, os) =>
        Len(os) \in Nat /\ \A j \in 1 .. Len(os) : ValidOperand(ids, os[j])
<1> SUFFICES ASSUME NEW ids, NEW os, ValidOperands(ids, os)
             PROVE  Len(os) \in Nat /\ \A j \in 1 .. Len(os) : ValidOperand(ids, os[j])
  OBVIOUS
<1>1. os \in Seq(ToSet(os)) /\ \A o \in ToSet(os) : ValidOperand(ids, o)
  BY DEF ValidOperands
<1>2. Len(os) \in Nat /\ \A j \in 1 .. Len(os) : os[j] \in ToSet(os)
  BY <1>1
<1> QED
  BY <1>1, <1>2

LEMMA ThenOperate ==
    \A w, x : /\ Good(w) /\ x.f \in AluOps /\ ValidOperand(DOMAIN w.Locals, x.args[2])
              => Continues(w, Operate(w, x))
<1> SUFFICES ASSUME NEW w, NEW x, Good(w), x.f \in AluOps,
                    ValidOperand(DOMAIN w.Locals, x.args[2])
             PROVE  Continues(w, Operate(w, x))
  OBVIOUS
<1> DEFINE v == WriteOperand(Copied(w), x.args[2])
<1>1. Continues(Fresh(w), Copied(w)) /\ Good(Fresh(w)) /\ Fresh(w).Locals = w.Locals
      /\ NewReg(w) \in Nat
  BY ThenFresh, ThenCopied, ContinuesGood
<1>2. Continues(Fresh(w), v) /\ Good(v)
  BY <1>1, OperandAfter
<1> HIDE DEF v
<1>3. v.ResultReg \in Nat
  BY <1>2, GoodParts
<1>4. Continues(Fresh(w), EmitRR(v, x.f, NewReg(w), v.ResultReg))
  BY <1>1, <1>2, <1>3, ThenRR
<1>5. Continues(w, Result(EmitRR(v, x.f, NewReg(w), v.ResultReg), NewReg(w)))
  BY <1>4, ThenKept
<1> QED
  BY <1>5 DEF Operate, v

LEMMA ThenBinary ==
    \A w, x : /\ Good(w) /\ x.f \in AluOps
              /\ ValidOperand(DOMAIN w.Locals, x.args[1])
              /\ ValidOperand(DOMAIN w.Locals, x.args[2])
              => Continues(w, BinaryOrCompare(w, x))
<1> SUFFICES ASSUME NEW w, NEW x, Good(w), x.f \in AluOps,
                    ValidOperand(DOMAIN w.Locals, x.args[1]),
                    ValidOperand(DOMAIN w.Locals, x.args[2])
             PROVE  Continues(w, BinaryOrCompare(w, x))
  OBVIOUS
<1>1. Continues(w, WriteOperand(w, x.args[1]))
  BY ThenOperand
<1>2. Good(WriteOperand(w, x.args[1])) /\ WriteOperand(w, x.args[1]).Locals = w.Locals
  BY <1>1, ContinuesGood
<1>3. Continues(WriteOperand(w, x.args[1]), BinaryOrCompare(w, x))
  BY <1>2, ThenOperate DEF BinaryOrCompare
<1> QED
  BY <1>1, <1>3, Onwards

LEMMA CastAfter ==
    \A w, v : \A mask \in Word :
        Continues(w, v) => Continues(w, WriteCastTo(v, mask)) /\ Continues(w, CastTo(v, mask))
BY ThenCast, ContinuesGood, Onwards

LEMMA ThenSelect ==
    \A w, x : /\ Good(w) /\ x.mask \in Word
              /\ \A j \in 1 .. 3 : ValidOperand(DOMAIN w.Locals, x.args[j])
              => Continues(w, Select(w, x))
<1> SUFFICES ASSUME NEW w, NEW x, Good(w), x.mask \in Word,
                    \A j \in 1 .. 3 : ValidOperand(DOMAIN w.Locals, x.args[j])
             PROVE  Continues(w, Select(w, x))
  OBVIOUS
<1> DEFINE f == Fresh(w)
           cond == WriteOperand(f, x.args[1])
           yes == Into(WriteOperand(localJZ(cond), x.args[2]), NewReg(w))
           no == Into(WriteOperand(Otherwise(yes, cond.size), x.args[3]), NewReg(w))
           v == FixupLocal(no, yes.size)
<1>1. Good(f) /\ f.Locals = w.Locals /\ NewReg(w) \in Nat
  BY ThenFresh, ContinuesGood
<1> HIDE DEF f
<1>2. Continues(f, cond) /\ Good(cond) /\ cond.Locals = w.Locals
  BY <1>1, ThenOperand, ContinuesGood
<1> HIDE DEF cond
<1>3. Continues(cond, localJZ(cond)) /\ Good(localJZ(cond))
      /\ localJZ(cond).Locals = w.Locals
  BY <1>2, LocalJZ, ContinuesGood
<1>4. Continues(localJZ(cond), yes)
  BY <1>1, <1>3, ThenOperand, ThenInto
<1> HIDE DEF yes
<1>5. Continues(cond, Otherwise(yes, cond.size))
  BY <1>2, <1>4, ThenOtherwise, ContinuesGood
<1>6. Continues(Otherwise(yes, cond.size), no)
  BY <1>1, <1>2, <1>5, ContinuesGood, ThenOperand, ThenInto
<1> HIDE DEF no
<1>7. Continues(cond, v)
  BY <1>2, <1>4, <1>6, ThenSkipped, ContinuesGood
<1> HIDE DEF v
<1>8. Continues(w, Result(v, NewReg(w)))
  BY <1>2, <1>7, Onwards, ThenKept DEF f
<1>9. Continues(w, WriteCastTo(Result(v, NewReg(w)), x.mask))
  BY <1>8, CastAfter
<1> QED
  BY <1>9 DEF Select, v, no, yes, cond, f

LEMMA ThenLoaded ==
    \A w, x : Good(w) /\ ValidOperand(DOMAIN w.Locals, x.args[1])
                  => Continues(w, Load(w, x))
<1> SUFFICES ASSUME NEW w, NEW x, Good(w),
                    ValidOperand(DOMAIN w.Locals, x.args[1])
             PROVE  Continues(w, Load(w, x))
  OBVIOUS
<1>1. CASE x.args[1].kind = "alloca"
  <2>1. ValidLeaf(DOMAIN w.Locals, x.args[1])
    BY <1>1 DEF ValidOperand
  <2> QED
    BY <1>1, <2>1, ThenLeaf DEF Load
<1>2. CASE x.args[1].kind # "alloca"
  <2>1. Continues(w, WriteOperand(w, x.args[1])) /\ Good(WriteOperand(w, x.args[1]))
    BY ThenOperand, ContinuesGood
  <2>2. Continues(w, LoadFrom(WriteOperand(w, x.args[1]), x.w))
    BY <2>1, ThenLoad, Onwards
  <2> QED
    BY <1>2, <2>2 DEF Load
<1> QED
  BY <1>1, <1>2

LEMMA ThenAssigned ==
    \A w, v : \A x \in Names : Continues(w, v) => Continues(w, Assigned(v, x))
BY ThenEmit, SgPlain, ByteType, ContinuesGood DEF Assigned

LEMMA ThenStored ==
    \A w, o, width :
        Good(w) /\ ValidOperand(DOMAIN w.Locals, o) => Continues(w, StoreTo(w, o, width))
<1> SUFFICES ASSUME NEW w, NEW o, NEW width,
                    Good(w), ValidOperand(DOMAIN w.Locals, o)
             PROVE  Continues(w, StoreTo(w, o, width))
  OBVIOUS
<1>1. CASE o.kind = "global"
  <2>1. o.name \in Names
    BY <1>1 DEF ValidOperand, ValidLeaf
  <2>2. Continues(w, Assigned(NewCell(w), o.name))
    BY <2>1, ThenCell, ThenAssigned
  <2>3. w.ResultReg \in Nat /\ w.ResultReg <= Assigned(NewCell(w), o.name).NextReg
    BY <2>2, ContinuesGood, GoodParts
  <2>4. Continues(w, Result(Assigned(NewCell(w), o.name), w.ResultReg))
    BY <2>2, <2>3, ThenResult
  <2> QED
    BY <1>1, <2>4 DEF StoreTo
<1>2. CASE o.kind = "alloca"
  <2>1. o.id \in DOMAIN w.Locals
    BY <1>2 DEF ValidOperand, ValidLeaf
  <2>2. w.Locals[o.id] \in Nat /\ w.Locals[o.id] <= w.NextReg
    BY <2>1, LocalType
  <2>3. Continues(w, Into(w, w.Locals[o.id]))
    BY <2>2, Stay, ThenInto
  <2>4. w.Locals[o.id] <= Into(w, w.Locals[o.id]).NextReg
    BY <2>2, <2>3, ContinuesGood
  <2>5. Continues(w, Result(Into(w, w.Locals[o.id]), w.Locals[o.id]))
    BY <2>2, <2>3, <2>4, ThenResult
  <2> QED
    BY <1>2, <2>5 DEF StoreTo, ResultInto
<1>3. CASE o.kind \notin {"global", "alloca"}
  <2> DEFINE v == WriteOperand(w, o)
             x == StI(width, Byte(v.ResultReg), Byte(w.ResultReg))
  <2>1. Continues(w, v)
    BY ThenOperand
  <2>2. Byte(v.ResultReg) \in Reg /\ Byte(w.ResultReg) \in Reg
    BY <2>1, ContinuesGood, GoodParts, ByteType
  <2>3. width \in Widths => Plain(Falling, x)
    BY <2>2, StPlain
  <2>4. StoreTo(w, o, width) = IF width \in Widths THEN Emit(v, x) ELSE v
    BY <1>3 DEF StoreTo
  <2> HIDE DEF v, x
  <2>5. width \in Widths => Continues(w, Emit(v, x))
    BY <2>1, <2>3, ThenEmit
  <2> QED
    BY <2>1, <2>4, <2>5
<1> QED
  BY <1>1, <1>2, <1>3

LEMMA ThenStore ==
    \A w, x : /\ Good(w)
              /\ ValidOperand(DOMAIN w.Locals, x.args[1])
              /\ ValidOperand(DOMAIN w.Locals, x.args[2])
              => Continues(w, Store(w, x))
<1> SUFFICES ASSUME NEW w, NEW x, Good(w),
                    ValidOperand(DOMAIN w.Locals, x.args[1]),
                    ValidOperand(DOMAIN w.Locals, x.args[2])
             PROVE  Continues(w, Store(w, x))
  OBVIOUS
<1> DEFINE v == WriteOperand(w, x.args[1])
<1>1. Continues(w, v) /\ Good(v) /\ v.Locals = w.Locals
  BY ThenOperand, ContinuesGood
<1> HIDE DEF v
<1>2. Continues(v, StoreTo(v, x.args[2], x.w))
  BY <1>1, ThenStored
<1>3. Continues(w, StoreTo(v, x.args[2], x.w))
  BY <1>1, <1>2, Onwards
<1> QED
  BY <1>3 DEF Store, v

\* The arguments of a call, with the registers they are in.
Arguments(w, x, args) ==
    FoldLeftDomain(LAMBDA v, j :
                       IF j \in x.byval
                       THEN Passed(v, LoadFrom(WriteOperand(v.w, x.args[j + 1]), FullWidth))
                       ELSE Passed(v, WriteOperand(v.w, x.args[j + 1])),
                   [w |-> w, regs |-> <<>>], args)

LEMMA FoldArguments ==
    ASSUME NEW w, Good(w), NEW x, NEW args,
           args \in Seq(ToSet(args)),
           \A j \in 1 .. Len(args) : ValidOperand(DOMAIN w.Locals, x.args[j + 1])
    PROVE  /\ Continues(w, Arguments(w, x, args).w)
           /\ Arguments(w, x, args).regs \in Seq(Reg)
           /\ Len(Arguments(w, x, args).regs) = Len(args)
<1> DEFINE n == Len(args)
           base == [w |-> w, regs |-> <<>>]
           s == [i \in DOMAIN args |-> i]
           Op(v, j) ==
               IF j \in x.byval
               THEN Passed(v, LoadFrom(WriteOperand(v.w, x.args[j + 1]), FullWidth))
               ELSE Passed(v, WriteOperand(v.w, x.args[j + 1]))
           G == [w : Continuations(w), regs : Seq(Reg)]
           Gs == [k \in 0 .. n |-> {v \in G : Len(v.regs) = k}]
           Step == [p \in G \X (1 .. n) |-> Op(p[1], s[p[2]])]
           Fold(it) == [t \in SUBSET DOMAIN s |->
                          IF t = {} THEN base ELSE Op(it[t \ {Max(t)}], s[Max(t)])]
           fold == CHOOSE it : it = Fold(it)
<1>1. DOMAIN s = 1 .. n /\ n \in Nat /\ \A k \in 1 .. n : s[k] = k
  OBVIOUS
<1>2. base \in G /\ Len(base.regs) = 0
  BY Stay, ContinuationsType
<1>3. \A v \in G, k \in 1 .. n :
         Op(v, s[k]) \in G /\ Len(Op(v, s[k]).regs) = Len(v.regs) + 1
  <2> SUFFICES ASSUME NEW v \in G, NEW k \in 1 .. n
               PROVE  Op(v, k) \in G /\ Len(Op(v, k).regs) = Len(v.regs) + 1
    BY <1>1
  <2> DEFINE o == WriteOperand(v.w, x.args[k + 1])
  <2>1. Continues(w, v.w) /\ v.regs \in Seq(Reg)
    BY ContinuationsType
  <2>2. Continues(w, o) /\ Good(o)
    BY <2>1, OperandAfter
  <2> HIDE DEF o
  <2>3. Continues(w, LoadFrom(o, FullWidth))
    BY <2>2, ThenLoad, Onwards, FormatAssumption
  <2>4. ASSUME NEW u, Continues(w, u)
        PROVE  Passed(v, u) \in G /\ Len(Passed(v, u).regs) = Len(v.regs) + 1
    <3>1. Byte(u.ResultReg) \in Reg
      BY <2>4, ContinuesGood, ByteType
    <3>2. Append(v.regs, Byte(u.ResultReg)) \in Seq(Reg)
          /\ Len(Append(v.regs, Byte(u.ResultReg))) = Len(v.regs) + 1
      BY <2>1, <3>1
    <3>3. u \in Continuations(w)
      BY <2>4, ContinuationsType
    <3> QED
      BY <3>2, <3>3 DEF Passed
  <2>5. Op(v, k) = Passed(v, LoadFrom(o, FullWidth)) \/ Op(v, k) = Passed(v, o)
    BY DEF o
  <2> HIDE DEF Op, G
  <2> QED
    BY <2>2, <2>3, <2>4, <2>5
<1> HIDE DEF Op, n, Step, s, base
<1>4. Step \in [G \X (1 .. n) -> G]
  <2> HIDE DEF G
  <2> QED
    BY <1>3 DEF Step
<1>5. PICK it : Unfolds(it, G, base, n, Step)
  <2> HIDE DEF G
  <2> QED
    BY <1>1, <1>2, <1>4, FoldExists
<1>6. it = Fold(it)
  <2> HIDE DEF G
  <2>1. ASSUME NEW t \in SUBSET (1 .. n), t # {}
        PROVE  it[t] = Op(it[t \ {Max(t)}], s[Max(t)])
    <3>1. Max(t) \in 1 .. n /\ it[t \ {Max(t)}] \in G
          /\ it[t] = Step[<<it[t \ {Max(t)}], Max(t)>>]
      BY <1>5, <2>1 DEF Unfolds
    <3> QED
      BY <3>1 DEF Step
  <2> QED
    BY <1>1, <1>5, <2>1 DEF Unfolds
<1>7. fold = Fold(fold)
  BY <1>6
<1> HIDE DEF fold
<1>8. fold[1 .. n] \in Gs[n]
  <2>1. fold[{}] \in Gs[0]
    <3>1. fold[{}] = base
      BY <1>1, <1>7
    <3>2. 0 \in 0 .. n
      BY <1>1
    <3> HIDE DEF G
    <3> QED
      BY <1>2, <3>1, <3>2
  <2>2. ASSUME NEW k \in 1 .. n, fold[1 .. k - 1] \in Gs[k - 1]
        PROVE  fold[1 .. k] \in Gs[k]
    <3> HIDE DEF G
    <3>1. k - 1 \in 0 .. n /\ k \in 0 .. n /\ (k - 1) + 1 = k
      BY <1>1
    <3>2. /\ 1 .. k \in SUBSET (1 .. n) /\ 1 .. k # {} /\ Max(1 .. k) = k
          /\ (1 .. k) \ {k} = 1 .. k - 1
      BY <1>1, PrefixIndices
    <3>3. fold[1 .. k - 1] \in G /\ Len(fold[1 .. k - 1].regs) = k - 1
      BY <2>2, <3>1
    <3>4. fold[1 .. k] = Op(fold[1 .. k - 1], s[k])
      <4>1. \A t \in SUBSET (1 .. n) : t # {} => fold[t] = Op(fold[t \ {Max(t)}], s[Max(t)])
        BY <1>1, <1>7
      <4>2. fold[1 .. k] = Op(fold[(1 .. k) \ {Max(1 .. k)}], s[Max(1 .. k)])
        BY <3>2, <4>1
      <4> QED
        BY <3>2, <4>2
    <3>5. fold[1 .. k] \in G /\ Len(fold[1 .. k].regs) = k
      BY <1>3, <3>1, <3>3, <3>4
    <3> QED
      BY <3>1, <3>5
  <2> HIDE DEF Gs
  <2> QED
    BY <1>1, <2>1, <2>2, FoldEnds
<1>9. fold[1 .. n].w \in Continuations(w) /\ fold[1 .. n].regs \in Seq(Reg)
      /\ Len(fold[1 .. n].regs) = n
  <2>1. n \in 0 .. n
    BY <1>1
  <2> QED
    BY <1>8, <2>1
<1>10. Arguments(w, x, args) = fold[1 .. n]
  <2>1. fold[DOMAIN s] = fold[1 .. n]
    BY <1>1
  <2>2. Arguments(w, x, args) = fold[DOMAIN s]
    BY DEF Arguments, FoldLeftDomain, FoldLeft, MapThenFoldSet, fold, Op, s, base
  <2> QED
    BY <2>1, <2>2
<1> QED
  BY <1>9, <1>10, ContinuationsType DEF n

LEMMA ThenCalled ==
    \A w, x : /\ Good(w) /\ ValidOperands(DOMAIN w.Locals, x.args)
              /\ Len(x.args) \in 1 .. LastReg + 1
              => Continues(w, CallTo(w, x))
<1> SUFFICES ASSUME NEW w, NEW x, Good(w), ValidOperands(DOMAIN w.Locals, x.args),
                    Len(x.args) \in 1 .. LastReg + 1
             PROVE  Continues(w, CallTo(w, x))
  OBVIOUS
<1> DEFINE u == Copied(w)
           args == Tail(x.args)
           all == Arguments(u, x, args)
           y == CallI(Byte(NewReg(w)), all.regs)
<1>1. /\ Continues(Fresh(w), u) /\ Good(u) /\ Good(Fresh(w))
      /\ u.Locals = w.Locals /\ NewReg(w) \in Nat
  BY ThenFresh, ThenCopied, ContinuesGood
<1>2. /\ args \in Seq(ToSet(args)) /\ Len(args) <= LastReg
      /\ \A j \in 1 .. Len(args) : j + 1 \in 1 .. Len(x.args)
  <2>1. x.args \in Seq(ToSet(x.args)) /\ x.args # <<>>
    BY DEF ValidOperands
  <2>2. args \in Seq(ToSet(x.args)) /\ Len(args) = Len(x.args) - 1
    <3>1. \A S : \A s \in Seq(S) : s # <<>> => Tail(s) \in Seq(S) /\ Len(Tail(s)) = Len(s) - 1
      OBVIOUS
    <3> QED
      BY <2>1, <3>1
  <2>3. LastReg \in Nat /\ Len(x.args) \in Nat
    BY BytecodeAssumption, <2>1
  <2> HIDE DEF args
  <2> QED
    BY <2>2, <2>3, SequenceOfOwn
<1>3. \A j \in 1 .. Len(args) : ValidOperand(DOMAIN u.Locals, x.args[j + 1])
  BY <1>1, <1>2, ArgumentValid
<1> HIDE DEF u, args
<1>4. Continues(u, all.w) /\ all.regs \in Seq(Reg) /\ Len(all.regs) = Len(args)
  BY <1>1, <1>2, <1>3, FoldArguments
<1> HIDE DEF all
<1>5. Plain(Falling, y)
  BY <1>1, <1>2, <1>4, ByteType, CallPlain
<1>6. Continues(Fresh(w), Emit(all.w, y))
  BY <1>1, <1>4, <1>5, Onwards, ThenEmit
<1>7. Continues(w, Result(Emit(all.w, y), NewReg(w)))
  BY <1>6, ThenKept
<1> QED
  BY <1>7 DEF CallTo, Arguments, u, args, all

LEMMA ThenCall ==
    \A w, x : /\ Good(w) /\ ValidOperands(DOMAIN w.Locals, x.args)
              /\ Len(x.args) \in 1 .. LastReg + 1
              => Continues(w, Call(w, x))
<1> SUFFICES ASSUME NEW w, NEW x, Good(w), ValidOperands(DOMAIN w.Locals, x.args),
                    Len(x.args) \in 1 .. LastReg + 1
             PROVE  Continues(w, Call(w, x))
  OBVIOUS
<1> DEFINE v == WriteOperand(w, x.args[1])
<1>1. Continues(w, v) /\ Good(v) /\ v.Locals = w.Locals
  <2>1. 1 \in 1 .. Len(x.args)
    BY BytecodeAssumption
  <2> QED
    BY <2>1, ArgumentValid, ThenOperand, ContinuesGood
<1> HIDE DEF v
<1>2. Continues(v, CallTo(v, x))
  BY <1>1, ThenCalled
<1>3. Continues(w, CallTo(v, x))
  BY <1>1, <1>2, Onwards
<1> QED
  BY <1>3 DEF Call, v

LEMMA ThenVisit ==
    \A w, x : /\ Good(w) /\ ValidInst(DOMAIN w.Locals, x) /\ x.op # "alloca"
              => Continues(w, Visit(w, x))
<1> SUFFICES ASSUME NEW w, NEW x, Good(w), ValidInst(DOMAIN w.Locals, x), x.op # "alloca"
             PROVE  Continues(w, Visit(w, x))
  OBVIOUS
<1> DEFINE ids == DOMAIN w.Locals
<1>1. CASE x.op = "phi" /\ x.id \in ids
  <2>1. Continues(w, Result(w, w.Locals[x.id]))
    BY <1>1, Stay, LocalType, ThenResult
  <2> QED
    BY <1>1, <2>1 DEF Visit
<1>2. CASE /\ x.op \in {"binary", "icmp", "store", "cast", "load", "gep", "select", "call"}
           /\ x.id \in ids \cup {NoId}
           /\ x.op # "cast" => x.f \in AluOps
           /\ ValidOperands(ids, x.args) /\ Len(x.args) \in Arity(x.op)
           /\ x.op = "gep" => ValidLeaf(ids, x.args[1]) /\ ValidIndices(ids, x.indices)
  <2>0. /\ x.mask \in Word /\ Len(x.args) \in Nat
        /\ \A j \in 1 .. Len(x.args) : ValidOperand(ids, x.args[j])
    BY <1>2, ArgumentValid DEF ValidInst
  <2>1. CASE x.op \in {"binary", "icmp"}
    <3>1. Len(x.args) = 2
      BY <1>2, <2>1 DEF Arity
    <3>2. x.f \in AluOps
      BY <1>2, <2>1
    <3>4. Continues(w, BinaryOrCompare(w, x))
      BY <2>0, <3>1, <3>2, ThenBinary
    <3>3. Continues(w, Binary(w, x))
      BY <2>0, <3>4, CastAfter DEF Binary
    <3> QED
      BY <2>1, <3>4, <3>3 DEF Visit
  <2>2. CASE x.op = "cast"
    <3>1. Len(x.args) = 1
      BY <1>2, <2>2 DEF Arity
    <3>2. Continues(w, WriteOperand(w, x.args[1]))
      BY <2>0, <3>1, ThenOperand
    <3>3. Continues(w, Cast(w, x))
      BY <2>0, <3>2, CastAfter DEF Cast
    <3> QED
      BY <2>2, <3>3 DEF Visit
  <2>3. CASE x.op = "select"
    <3>1. Len(x.args) = 3
      BY <1>2, <2>3 DEF Arity
    <3>2. Continues(w, Select(w, x))
      BY <2>0, <3>1, ThenSelect
    <3> QED
      BY <2>3, <3>2 DEF Visit
  <2>4. CASE x.op = "load"
    <3>1. Len(x.args) = 1
      BY <1>2, <2>4 DEF Arity
    <3>2. Continues(w, Load(w, x))
      BY <1>2, <2>0, <3>1, ThenLoaded
    <3> QED
      BY <2>4, <3>2 DEF Visit
  <2>5. CASE x.op = "store"
    <3>1. Len(x.args) = 2
      BY <1>2, <2>5 DEF Arity
    <3>2. Continues(w, Store(w, x))
      BY <1>2, <2>0, <3>1, ThenStore
    <3> QED
      BY <2>5, <3>2 DEF Visit
  <2>6. CASE x.op = "call"
    <3>1. Len(x.args) \in 1 .. LastReg + 1
      BY <1>2, <2>6 DEF Arity
    <3>2. Continues(w, Call(w, x))
      BY <1>2, <3>1, ThenCall
    <3> QED
      BY <2>6, <3>2 DEF Visit
  <2>7. CASE x.op = "gep"
    <3>1. Continues(w, WriteGEP(w, x.args[1], x.indices))
      BY <1>2, <2>7, ThenGEP
    <3> QED
      BY <2>7, <3>1 DEF Visit
  <2> QED
    BY <1>2, <2>1, <2>2, <2>3, <2>4, <2>5, <2>6, <2>7
<1> QED
  BY <1>1, <1>2 DEF ValidInst

LEMMA ThenKeep ==
    \A w, v, id : Continues(w, v) /\ id \in DOMAIN w.Locals \cup {NoId}
                      => Continues(w, KeepResult(v, id))
<1> SUFFICES ASSUME NEW w, NEW v, NEW id, Continues(w, v),
                    id \in DOMAIN w.Locals \cup {NoId}
             PROVE  Continues(w, KeepResult(v, id))
  OBVIOUS
<1>1. CASE id = NoId
  BY <1>1 DEF KeepResult
<1>2. CASE id # NoId
  <2>1. id \in DOMAIN v.Locals /\ Good(v)
    BY <1>2, ContinuesGood
  <2>2. Continues(w, Into(v, v.Locals[id]))
    BY <2>1, LocalType, ThenInto
  <2> QED
    BY <1>2, <2>2 DEF KeepResult
<1> QED
  BY <1>1, <1>2

LEMMA ThenInst ==
    \A w, x : Good(w) /\ ValidInst(DOMAIN w.Locals, x) => Continues(w, PrintInst(w, x))
<1> SUFFICES ASSUME NEW w, NEW x, Good(w), ValidInst(DOMAIN w.Locals, x)
             PROVE  Continues(w, PrintInst(w, x))
  OBVIOUS
<1>1. CASE x.op = "alloca"
  BY <1>1, Stay DEF PrintInst
<1>2. CASE x.op # "alloca"
  <2>1. Continues(w, Visit(w, x))
    BY <1>2, ThenVisit
  <2>2. x.mask \in Word /\ x.id \in DOMAIN w.Locals \cup {NoId}
    BY DEF ValidInst
  <2>3. Continues(w, WriteCastTo(Visit(w, x), x.mask))
    BY <2>1, <2>2, CastAfter
  <2>4. Continues(w, KeepResult(WriteCastTo(Visit(w, x), x.mask), x.id))
    BY <2>2, <2>3, ThenKeep
  <2> QED
    BY <1>2, <2>4 DEF PrintInst
<1> QED
  BY <1>1, <1>2

-----------------------------------------------------------------------------
(* The code at the end of a block *)

\* w is in the function being printed.
Printing(w) ==
    Good(w) /\ ValidFunction(F) /\ DOMAIN w.Locals = ToSet(Values(F))

LEMMA PrintingOn == \A w, v : Printing(w) /\ Adjoins(w, v) => Printing(v)
BY AdjoinsGood DEF Printing

\* w is in block b of it.
InBlock(w, b) == Printing(w) /\ w.BlockPositions # <<>> /\ Ahead(w) = Successor(F, b)

LEMMA InBlockOn == \A w, v, b : InBlock(w, b) /\ Adjoins(w, v) => InBlock(v, b)
<1> SUFFICES ASSUME NEW w, NEW v, NEW b, InBlock(w, b), Adjoins(w, v) PROVE InBlock(v, b)
  OBVIOUS
<1>1. Printing(v)
  BY PrintingOn DEF InBlock
<1>2. v.BlockPositions = w.BlockPositions
  BY DEF Adjoins, Extends, Writers0, Writers
<1> QED
  BY <1>1, <1>2, AheadSame DEF InBlock

LEMMA PhisValid ==
    ASSUME NEW w, Printing(w), NEW b \in DOMAIN F.blocks, NEW s \in DOMAIN F.blocks,
           s \in Successor(F, b)
    PROVE  LET phis == F.blocks[s].phis
           IN  /\ phis \in Seq(ToSet(phis))
               /\ \A x \in ToSet(phis) : /\ ValidOperand(DOMAIN w.Locals, x.from[b])
                                         /\ x.id \in DOMAIN w.Locals \cup {NoId}
<1> DEFINE phis == F.blocks[s].phis
<1>1. ValidBlock(F, DOMAIN w.Locals, s)
  BY DEF Printing, ValidFunction
<1>2. phis \in Seq(ToSet(phis))
  BY <1>1 DEF ValidBlock
<1>3. ASSUME NEW x \in ToSet(phis)
      PROVE  ValidOperand(DOMAIN w.Locals, x.from[b]) /\ x.id \in DOMAIN w.Locals \cup {NoId}
  <2>1. ValidOperand(DOMAIN w.Locals, x.from[b])
    BY <1>1, <1>3 DEF ValidBlock
  <2>2. ValidInst(DOMAIN w.Locals, x)
    BY <1>1, <1>3 DEF ValidBlock
  <2> QED
    BY <2>1, <2>2 DEF ValidInst
<1> QED
  BY <1>2, <1>3

LEMMA FoldPhis ==
    ASSUME NEW w, Printing(w), NEW b \in DOMAIN F.blocks, NEW s0 \in DOMAIN F.blocks,
           s0 \in Successor(F, b)
    PROVE  Continues(w, PhiCopies(w, b, s0))
<1> DEFINE s == F.blocks[s0].phis
           n == Len(s)
           Op(v, x) == IF x.from[b].kind = "undef" THEN v
                       ELSE KeepResult(WriteOperand(v, x.from[b]), x.id)
           G == Continuations(w)
           Step == [p \in G \X (1 .. n) |-> Op(p[1], s[p[2]])]
           Fold(it) == [t \in SUBSET DOMAIN s |->
                          IF t = {} THEN w ELSE Op(it[t \ {Max(t)}], s[Max(t)])]
           fold == CHOOSE it : it = Fold(it)
<1>0. /\ s \in Seq(ToSet(s))
      /\ \A x \in ToSet(s) : /\ ValidOperand(DOMAIN w.Locals, x.from[b])
                             /\ x.id \in DOMAIN w.Locals \cup {NoId}
  BY PhisValid
<1>1. DOMAIN s = 1 .. n /\ n \in Nat /\ w \in G
  <2>1. w \in G
    BY Stay, ContinuationsType DEF Printing
  <2> HIDE DEF G, s
  <2> QED
    BY <1>0, <2>1
<1>2. \A v \in G, k \in 1 .. n : Op(v, s[k]) \in G
  <2> SUFFICES ASSUME NEW v \in G, NEW k \in 1 .. n PROVE Op(v, s[k]) \in G
    OBVIOUS
  <2> HIDE DEF s
  <2>1. s[k] \in ToSet(s)
    BY <1>1 DEF ToSet
  <2>2. Continues(w, v)
    BY ContinuationsType
  <2>3. Continues(w, WriteOperand(v, s[k].from[b]))
    BY <1>0, <2>1, <2>2, OperandAfter
  <2>4. Continues(w, KeepResult(WriteOperand(v, s[k].from[b]), s[k].id))
    BY <1>0, <2>1, <2>3, ThenKeep
  <2>5. Continues(w, Op(v, s[k]))
    BY <2>2, <2>4
  <2> QED
    BY <2>5, ContinuationsType
<1> HIDE DEF Op, n, Step, G, s
<1>3. Step \in [G \X (1 .. n) -> G]
  BY <1>2 DEF Step
<1>4. PICK it : Unfolds(it, G, w, n, Step)
  BY <1>1, <1>3, FoldExists
<1>5. it = Fold(it)
  <2>1. ASSUME NEW t \in SUBSET (1 .. n), t # {}
        PROVE  it[t] = Op(it[t \ {Max(t)}], s[Max(t)])
    <3>1. Max(t) \in 1 .. n /\ it[t \ {Max(t)}] \in G
          /\ it[t] = Step[<<it[t \ {Max(t)}], Max(t)>>]
      BY <1>4, <2>1 DEF Unfolds
    <3> QED
      BY <3>1 DEF Step
  <2> QED
    BY <1>1, <1>4, <2>1 DEF Unfolds
<1>6. fold = Fold(fold)
  BY <1>5
<1> HIDE DEF fold
<1>7. fold[1 .. n] \in G
  <2>1. fold[{}] \in G
    BY <1>1, <1>6
  <2>2. ASSUME NEW t \in SUBSET (1 .. n), t # {}, Max(t) \in 1 .. n,
               fold[t \ {Max(t)}] \in G
        PROVE  fold[t] \in G
    BY <1>1, <1>2, <1>6, <2>2
  <2> QED
    BY <1>1, <2>1, <2>2, FoldStays
<1>8. PhiCopies(w, b, s0) = fold[DOMAIN s]
  BY DEF PhiCopies, FoldLeft, MapThenFoldSet, fold, Op, s
<1>9. PhiCopies(w, b, s0) \in Continuations(w)
  BY <1>1, <1>7, <1>8 DEF G
<1> QED
  BY <1>9, ContinuationsType

Inside == OpCodes \ {"fd", "wrong"}

\* v is w and the code of a block from there to its end: without the jumps D,
\* which nothing comes to, no way leads out of it but those still to be fixed.
Ends(w, v, D) ==
    /\ Good(w) /\ Extends(Inside, w, v) /\ w.size < v.size
    /\ D \subseteq Sites(v) \ Sites(w) /\ w.size \notin D
    /\ \A j \in Sites(v) \ Sites(w) :
        j \notin D /\ j \notin Pending(v) => \A t \in Targets(v, j) : t \in Sites(v) \ D
    /\ Leads(v, w.size)

\* In the code from a on there is a branch to block s.
Offers(v, a, s) ==
    \E p \in ToSet(v.PostponedJumps) : p.block = s /\ p.pos \in Sites(v) /\ p.pos >= a

\* The same with a branch to each block that follows b.
EndsBlock(w, v, b) ==
    (\E D : Ends(w, v, D)) /\ \A s \in Successor(F, b) : Offers(v, w.size, s)

LEMMA ContinuesInside ==
    \A w, v : Adjoins(w, v) => Good(w) /\ Good(v) /\ Extends(Inside, w, v)
BY ExtendsMore, AdjoinsGood DEF Adjoins, Straight, Inside

LEMMA OffersFurther ==
    \A v, s : \A a, b \in Nat :
        Sites(v) \subseteq Nat /\ a <= b /\ Offers(v, b, s) => Offers(v, a, s)
<1> SUFFICES ASSUME NEW v, NEW s, NEW a \in Nat, NEW b \in Nat,
                    Sites(v) \subseteq Nat, a <= b, Offers(v, b, s)
             PROVE  Offers(v, a, s)
  OBVIOUS
<1>1. PICK p \in ToSet(v.PostponedJumps) : p.block = s /\ p.pos \in Sites(v) /\ p.pos >= b
  BY DEF Offers
<1>2. p.pos >= a
  BY <1>1
<1> QED
  BY <1>1, <1>2 DEF Offers

LEMMA OffersStays ==
    \A R, u, v, a, s : Extends(R, u, v) /\ Offers(u, a, s) => Offers(v, a, s)
BY DEF Offers, Extends

LEMMA EndsAfter ==
    \A w, u, v, D : Continues(w, u) /\ Ends(u, v, D) => Ends(w, v, D)
<1> SUFFICES ASSUME NEW w, NEW u, NEW v, NEW D, Continues(w, u), Ends(u, v, D)
             PROVE  Ends(w, v, D)
  OBVIOUS
<1>1. /\ Good(w) /\ Good(u) /\ Extends(Inside, w, u) /\ Extends(Inside, u, v)
      /\ u.size < v.size /\ D \subseteq Sites(v) \ Sites(u) /\ u.size \notin D
  BY ContinuesInside, ContinuesGood DEF Ends
<1>2. Good(v)
  BY <1>1 DEF Extends
<1>3. /\ w.size \in Nat /\ u.size \in Nat /\ v.size \in Nat /\ w.size <= u.size
      /\ \A j \in Sites(u) : j \in Nat /\ j < u.size
      /\ \A j \in Sites(v) : j \in Nat
  BY <1>1, <1>2, GoodParts DEF Extends
<1>4. Extends(Inside, w, v)
  BY <1>1, ExtendsTransitive
<1>5. D \subseteq Sites(v) \ Sites(w)
  BY <1>1 DEF Extends
<1>6. \A d \in D : d > u.size
  BY <1>1, <1>3 DEF Extends
<1>7. w.size \notin D
  BY <1>3, <1>6
<1>8. ASSUME NEW j \in Sites(v) \ Sites(w), j \notin D, j \notin Pending(v)
      PROVE  \A t \in Targets(v, j) : t \in Sites(v) \ D
  <2>1. CASE j \in Sites(u)
    <3>1. j \notin Pending(u) /\ Targets(v, j) = Targets(u, j)
      BY <1>1, <1>8, <2>1, SameCode DEF Extends
    <3>2. \A t \in Targets(u, j) : t \in Bounds(u)
      BY <1>1, <1>8, <2>1, <3>1 DEF Extends
    <3>3. u.size \in Sites(v) /\ Sites(u) \subseteq Sites(v)
      BY <1>1, <1>3 DEF Extends, Bounds
    <3>4. \A t \in Bounds(u) : t \in Sites(v) /\ t <= u.size
      BY <1>3, <3>3 DEF Bounds
    <3>5. \A t \in Bounds(u) : t \notin D
      BY <1>3, <1>6, <3>4
    <3> QED
      BY <3>1, <3>2, <3>4, <3>5
  <2>2. CASE j \notin Sites(u)
    BY <1>8, <2>2 DEF Ends
  <2> QED
    BY <2>1, <2>2
<1>9. Leads(v, w.size)
  BY <1>1, <1>3, LeadsOn DEF Continues, Adjoins, Ends
<1> QED
  BY <1>1, <1>3, <1>4, <1>5, <1>7, <1>8, <1>9 DEF Ends

LEMMA EndsBlockAfter ==
    \A w, u, v, b : Continues(w, u) /\ EndsBlock(u, v, b) => EndsBlock(w, v, b)
<1> SUFFICES ASSUME NEW w, NEW u, NEW v, NEW b, Continues(w, u), EndsBlock(u, v, b)
             PROVE  EndsBlock(w, v, b)
  OBVIOUS
<1>1. PICK D : Ends(u, v, D)
  BY DEF EndsBlock
<1>2. Good(v) /\ Good(w) /\ Good(u) /\ w.size <= u.size
  BY <1>1, ContinuesGood DEF Ends, Extends
<1>3. w.size \in Nat /\ u.size \in Nat /\ Sites(v) \subseteq Nat
  BY <1>2, GoodParts
<1>4. \A s \in Successor(F, b) : Offers(v, w.size, s)
  BY <1>2, <1>3, OffersFurther DEF EndsBlock
<1> QED
  BY <1>1, <1>4, EndsAfter DEF EndsBlock

LEMMA BranchEnds ==
    ASSUME NEW w, NEW b \in DOMAIN F.blocks, InBlock(w, b), NEW s \in DOMAIN F.blocks,
           s \in Successor(F, b)
    PROVE  LET v == BranchTo(w, b, s)
           IN  Adjoins(w, v) /\ Ends(w, v, {}) /\ Offers(v, w.size, s)
<1> DEFINE u == PhiCopies(w, b, s)
           v == PostponeJmp(u, s)
           p == [block |-> s, pos |-> u.size]
<1>1. /\ Continues(w, u) /\ Good(w) /\ Good(u) /\ u.BlockPositions # <<>> /\ s \in Ahead(u)
      /\ Extends(Straight, w, u)
  BY FoldPhis, ContinuesGood, InBlockOn DEF InBlock
<1> HIDE DEF u
<1>2. /\ -1 \in Int /\ JumpI("jmp", 0, -1) \in Instructions
      /\ Len(JumpI("jmp", 0, -1).args) <= LastReg
  BY JumpType
<1>3. "jmp" \in Straight /\ "jmp" \in Inside
  BY DEF Straight, Inside, OpCodes
<1>4. /\ Extends(Straight, u, v) /\ u.size < v.size
      /\ Sites(v) = Sites(u) \cup {u.size} /\ u.size \in Pending(v)
      /\ p \in ToSet(v.PostponedJumps)
  BY <1>1, <1>2, <1>3, PostponeExtends
<1> HIDE DEF v
<1>5. w.size \in Nat /\ u.size \in Nat /\ w.size <= u.size
      /\ \A j \in Sites(u) : j \in Nat /\ j < u.size
  BY <1>1, GoodParts DEF Extends
<1>6. Leads(v, u.size)
  BY <1>4, <1>5 DEF Leads
<1>7. Adjoins(u, v)
  BY <1>1, <1>4, <1>6 DEF Adjoins
<1>8. Ends(u, v, {})
  BY <1>1, <1>4, <1>6, <1>7, ContinuesInside DEF Ends
<1>9. Offers(v, w.size, s)
  <2>1. p.block = s /\ p.pos = u.size
    OBVIOUS
  <2> HIDE DEF p
  <2> QED
    BY <1>4, <1>5, <2>1 DEF Offers
<1> QED
  BY <1>1, <1>7, <1>8, <1>9, ThenAdjoins, EndsAfter DEF BranchTo, u, v

LEMMA CondEnds ==
    ASSUME NEW w, Good(w), NEW yes, NEW no,
           Adjoins(localJZ(w), yes), Ends(localJZ(w), yes, {}),
           Adjoins(Otherwise(yes, w.size), no), Ends(Otherwise(yes, w.size), no, {})
    PROVE  /\ Ends(w, FixupLocal(no, yes.size), {yes.size})
           /\ \A s : Offers(yes, localJZ(w).size, s)
                        => Offers(FixupLocal(no, yes.size), w.size, s)
           /\ \A s : Offers(no, Otherwise(yes, w.size).size, s)
                        => Offers(FixupLocal(no, yes.size), w.size, s)
<1> DEFINE a == localJZ(w)
           v == Otherwise(yes, w.size)
           z == FixupLocal(no, yes.size)
<1>1. /\ Continues(w, v) /\ Adjoins(w, yes)
      /\ w.size < a.size /\ a.size <= yes.size /\ yes.size < v.size
      /\ Sites(v) = Sites(yes) \cup {yes.size}
      /\ v.code[yes.size].op = "jmp"
      /\ \A j \in Sites(yes) \ {w.size} : v.code[j] = yes.code[j]
      /\ \A t \in Targets(v, w.size) : t \in {v.size, a.size}
      /\ Pending(v) = Pending(yes) /\ v.PostponedJumps = yes.PostponedJumps
      /\ yes.size \notin Sites(yes) /\ w.size \in Sites(yes)
  BY ThenOtherwise
<1>2. Sites(a) = Sites(w) \cup {w.size}
  BY LocalJZ
<1>3. /\ Extends(Inside, a, yes) /\ a.size < yes.size
      /\ \A j \in Sites(yes) \ Sites(a) :
            j \notin Pending(yes) => \A t \in Targets(yes, j) : t \in Sites(yes)
  BY DEF Ends
<1>4. /\ Extends(Inside, v, no) /\ v.size < no.size
      /\ \A j \in Sites(no) \ Sites(v) :
            j \notin Pending(no) => \A t \in Targets(no, j) : t \in Sites(no)
  BY DEF Ends
<1> HIDE DEF v, a
<1>5. Adjoins(w, no)
  BY <1>1, ThenAdjoins DEF v
<1>6. Extends(Straight, w, no) /\ Good(no) /\ Good(yes) /\ Good(v) /\ Good(a)
  BY <1>1, <1>5, LocalJZ, AdjoinsGood, ContinuesGood DEF Adjoins, a
<1>7. /\ w.size \in Nat /\ a.size \in Nat /\ yes.size \in Nat /\ v.size \in Nat
      /\ no.size \in Nat
      /\ \A j \in Sites(yes) : j \in Nat /\ j < yes.size
      /\ \A j \in Sites(no) : j \in Nat
      /\ \A j \in Sites(w) : j < w.size
  BY <1>6, GoodParts
<1>8. /\ \A j \in Sites(v) : j \in Sites(no) /\ no.code[j] = v.code[j]
      /\ Pending(v) \subseteq Pending(no)
  BY <1>4 DEF Extends
<1>9. yes.size \in Sites(no) /\ yes.size >= w.size
      /\ no.code[yes.size].op = "jmp" /\ no.code[yes.size].op \in {"jmp", "jz", "jnz"}
  BY <1>1, <1>7, <1>8
<1>10. /\ Extends(Straight, w, z) /\ z.size = no.size /\ Sites(z) = Sites(no)
       /\ Pending(z) = Pending(no) /\ z.PostponedJumps = no.PostponedJumps
       /\ \A j \in Sites(no) \ {yes.size} : z.code[j] = no.code[j]
  BY <1>6, <1>9, FixupLocalExtends
<1>16. Adjoins(w, z)
  BY <1>5, <1>9, FixupLed
<1> HIDE DEF z
<1>11. Extends(Inside, w, z)
  BY <1>16, ContinuesInside
<1>12. w.size < z.size /\ w.size # yes.size
  BY <1>1, <1>3, <1>4, <1>7, <1>10
<1>13. {yes.size} \subseteq Sites(z) \ Sites(w)
  BY <1>1, <1>7, <1>9, <1>10
<1>14. ASSUME NEW j \in Sites(z) \ Sites(w), j # yes.size, j \notin Pending(z)
       PROVE  \A t \in Targets(z, j) : t \in Sites(z) \ {yes.size}
  <2>1. CASE j = w.size
    <3>1. z.code[j] = v.code[j]
      BY <1>1, <1>8, <1>10, <1>12, <2>1
    <3>2. Targets(z, j) = Targets(v, w.size)
      BY <2>1, <3>1, SameCode
    <3>3. v.size \in Sites(no)
      BY <1>4, <1>7 DEF Extends, Bounds
    <3>4. a.size \in Sites(yes)
      BY <1>3, <1>7 DEF Extends, Bounds
    <3>5. a.size \in Sites(no) /\ a.size # yes.size /\ v.size # yes.size
      BY <1>1, <1>3, <1>7, <1>8, <3>4
    <3> QED
      BY <1>1, <1>10, <3>2, <3>3, <3>5
  <2>2. CASE j \in Sites(yes) /\ j # w.size
    <3>1. z.code[j] = yes.code[j]
      BY <1>1, <1>8, <1>10, <1>14, <2>2
    <3>2. Targets(z, j) = Targets(yes, j)
      BY <3>1, SameCode
    <3>3. j \in Sites(yes) \ Sites(a) /\ j \notin Pending(yes)
      BY <1>1, <1>2, <1>8, <1>10, <1>14, <2>2
    <3>4. \A t \in Targets(yes, j) : t \in Sites(yes)
      BY <1>3, <3>3
    <3> QED
      BY <1>1, <1>8, <1>10, <3>2, <3>4
  <2>3. CASE j \notin Sites(yes)
    <3>1. j \in Sites(no) \ Sites(v) /\ j \notin Pending(no) /\ z.code[j] = no.code[j]
      BY <1>1, <1>10, <1>14, <2>3
    <3>2. Targets(z, j) = Targets(no, j)
      BY <3>1, SameCode
    <3>3. \A t \in Targets(no, j) : t \in Sites(no) /\ t >= v.size
      BY <1>4, <3>1 DEF Extends
    <3>4. \A t \in Targets(no, j) : t # yes.size
      BY <1>1, <1>7, <3>3
    <3> QED
      BY <1>10, <3>2, <3>3, <3>4
  <2> QED
    BY <2>1, <2>2, <2>3
<1>15. Ends(w, z, {yes.size})
  BY <1>11, <1>12, <1>13, <1>14, <1>16 DEF Ends, Adjoins
<1>17. \A s : \A n \in Nat : Offers(no, n, s) /\ w.size <= n => Offers(z, w.size, s)
  <2>1. \A s, n : Offers(no, n, s) => Offers(z, n, s)
    BY <1>10 DEF Offers
  <2>2. Sites(z) \subseteq Nat
    BY <1>7, <1>10
  <2> QED
    BY <1>7, <2>1, <2>2, OffersFurther
<1>18. \A s, n : Offers(yes, n, s) => Offers(no, n, s)
  <2>1. v.PostponedJumps = yes.PostponedJumps /\ Sites(yes) \subseteq Sites(v)
    BY <1>1
  <2>2. \A s, n : Offers(yes, n, s) => Offers(v, n, s)
    BY <2>1 DEF Offers
  <2> QED
    BY <1>4, <2>2, OffersStays
<1>19. w.size <= a.size /\ w.size <= v.size
  BY <1>1, <1>7
<1> QED
  BY <1>7, <1>15, <1>17, <1>18, <1>19 DEF z, a, v

\* The ways out of a block.
LEMMA WaysOut ==
    ASSUME NEW w, Printing(w), NEW b \in DOMAIN F.blocks
    PROVE  LET t == F.blocks[b].term
           IN  /\ ValidTerm(DOMAIN w.Locals, DOMAIN F.blocks, t)
               /\ \A j \in 1 .. Len(t.to) :
                    t.to[j] \in DOMAIN F.blocks /\ t.to[j] \in Successor(F, b)
               /\ \A s \in Successor(F, b) : \E j \in 1 .. Len(t.to) : s = t.to[j]
<1> DEFINE t == F.blocks[b].term
<1>1. ValidTerm(DOMAIN w.Locals, DOMAIN F.blocks, t)
  BY DEF Printing, ValidFunction, ValidBlock
<1>2. t.to \in Seq(DOMAIN F.blocks)
  BY <1>1 DEF ValidTerm
<1>3. ASSUME NEW j \in 1 .. Len(t.to)
      PROVE  t.to[j] \in DOMAIN F.blocks /\ t.to[j] \in Successor(F, b)
  BY <1>2 DEF Successor, ToSet
<1>4. \A s \in Successor(F, b) : \E j \in 1 .. Len(t.to) : s = t.to[j]
  BY <1>2 DEF Successor, ToSet
<1> QED
  BY <1>1, <1>3, <1>4

LEMMA ConditionEnds ==
    ASSUME NEW w, NEW b \in DOMAIN F.blocks, InBlock(w, b), F.blocks[b].term.op = "cond"
    PROVE  EndsBlock(w, Branch(w, b, F.blocks[b].term), b)
<1> DEFINE t == F.blocks[b].term
           cond == WriteOperand(w, t.arg)
           yes == BranchTo(localJZ(cond), b, t.to[1])
           no == BranchTo(Otherwise(yes, cond.size), b, t.to[2])
<1>1. /\ ValidOperand(DOMAIN w.Locals, t.arg)
      /\ \A j \in 1 .. 2 : t.to[j] \in DOMAIN F.blocks /\ t.to[j] \in Successor(F, b)
      /\ \A s \in Successor(F, b) : s = t.to[1] \/ s = t.to[2]
  <2>1. /\ ValidTerm(DOMAIN w.Locals, DOMAIN F.blocks, t)
        /\ \A j \in 1 .. Len(t.to) : t.to[j] \in DOMAIN F.blocks /\ t.to[j] \in Successor(F, b)
        /\ \A s \in Successor(F, b) : \E j \in 1 .. Len(t.to) : s = t.to[j]
    BY WaysOut DEF InBlock
  <2>2. Len(t.to) = 2 /\ ValidOperand(DOMAIN w.Locals, t.arg)
    BY <2>1 DEF ValidTerm
  <2> HIDE DEF t
  <2> QED
    BY <2>1, <2>2
<1>2. 1 \in 1 .. 2 /\ 2 \in 1 .. 2
  OBVIOUS
<1> HIDE DEF t
<1>3. Continues(w, cond) /\ InBlock(cond, b) /\ Good(cond)
  BY <1>1, ThenOperand, InBlockOn, ContinuesGood DEF InBlock, Printing
<1> HIDE DEF cond
<1>4. InBlock(localJZ(cond), b)
  BY <1>3, LocalJZ, InBlockOn, ContinuesGood
<1>5. /\ Adjoins(localJZ(cond), yes) /\ Ends(localJZ(cond), yes, {})
      /\ Offers(yes, localJZ(cond).size, t.to[1])
  BY <1>1, <1>2, <1>4, BranchEnds
<1> HIDE DEF yes
<1>6. InBlock(Otherwise(yes, cond.size), b)
  BY <1>3, <1>5, ThenOtherwise, InBlockOn, ContinuesGood
<1>7. /\ Adjoins(Otherwise(yes, cond.size), no) /\ Ends(Otherwise(yes, cond.size), no, {})
      /\ Offers(no, Otherwise(yes, cond.size).size, t.to[2])
  BY <1>1, <1>2, <1>6, BranchEnds
<1> HIDE DEF no
<1>8. /\ Ends(cond, FixupLocal(no, yes.size), {yes.size})
      /\ Offers(FixupLocal(no, yes.size), cond.size, t.to[1])
      /\ Offers(FixupLocal(no, yes.size), cond.size, t.to[2])
  BY <1>3, <1>5, <1>7, CondEnds
<1>9. EndsBlock(w, FixupLocal(no, yes.size), b)
  BY <1>1, <1>3, <1>8, EndsBlockAfter DEF EndsBlock
<1>10. Branch(w, b, t) = FixupLocal(no, yes.size)
  BY DEF Branch, no, yes, cond
<1> QED
  BY <1>9, <1>10 DEF t

LEMMA LeavingEnds ==
    \A w, x : Good(w) /\ x.op \in {"ret", "leave"} /\ Plain({x.op}, x)
                  => Ends(w, Emit(w, x), {})
<1> SUFFICES ASSUME NEW w, NEW x, Good(w), x.op \in {"ret", "leave"}, Plain({x.op}, x)
             PROVE  Ends(w, Emit(w, x), {})
  OBVIOUS
<1> DEFINE v == Emit(w, x)
<1>1. Adds({x.op}, w, x, v)
  BY EmitPlain
<1> HIDE DEF v
<1>2. Extends({x.op}, w, v) /\ w.size < v.size /\ Sites(v) = Sites(w) \cup {w.size}
      /\ v.code[w.size] = x
  BY <1>1 DEF Adds
<1>3. {x.op} \subseteq Inside
  BY DEF Inside, OpCodes
<1>4. Extends(Inside, w, v)
  BY <1>2, <1>3, ExtendsMore
<1>5. Targets(v, w.size) = {}
  BY <1>2 DEF Targets
<1>6. Leads(v, w.size)
  <2>1. w.size \in Nat /\ \A j \in Sites(w) : j \in Nat /\ j < w.size
    BY GoodParts
  <2> QED
    BY <1>2, <2>1 DEF Leads
<1>7. Ends(w, v, {})
  BY <1>2, <1>4, <1>5, <1>6 DEF Ends
<1> QED
  BY <1>7 DEF v

\* What is skipped if the result of w is zero.
LEMMA ThenIf ==
    ASSUME NEW w, Good(w), NEW yes, Adjoins(localJZ(w), yes)
    PROVE  LET v == FixupLocal(yes, w.size)
           IN  /\ Continues(w, v)
               /\ \A s, n : Offers(yes, n, s) => Offers(v, n, s)
<1> DEFINE a == localJZ(w)
           v == FixupLocal(yes, w.size)
<1>1. /\ Continues(w, a) /\ Good(a) /\ w.size < a.size
      /\ Sites(a) = Sites(w) \cup {w.size}
      /\ a.code[w.size].op = "jz" /\ a.code[w.size].off = 0
  BY LocalJZ
<1> HIDE DEF a
<1>2. Adjoins(a, yes)
  BY DEF a
<1>3. Adjoins(w, yes)
  BY <1>1, <1>2, ThenAdjoins
<1>4. /\ w.size \in Sites(yes) /\ yes.code[w.size].op = "jz"
      /\ yes.code[w.size].off = 0
  BY <1>1, <1>2 DEF Adjoins, Extends
<1>5. w.size \in Nat /\ w.size >= w.size
  BY GoodParts
<1>6. Adjoins(w, v) /\ Led(v, w.size, yes.size)
  BY <1>3, <1>4, <1>5, FixupLed
<1>7. v.size = yes.size /\ Sites(v) = Sites(yes) /\ v.PostponedJumps = yes.PostponedJumps
  BY <1>3, <1>4, <1>5, FixupLocalExtends DEF Adjoins
<1> HIDE DEF v
<1>8. Continues(w, v)
  BY <1>6, <1>7 DEF Continues
<1> QED
  BY <1>7, <1>8 DEF v, Offers

\* The cases of a switch.
Arms(w, b, t) ==
    LET Equal(v, j) == BinaryOrCompare(v, [f |-> "eq", args |-> <<t.arg, t.cases[j]>>])
        Arm(cond, j) == FixupLocal(BranchTo(localJZ(cond), b, t.to[j]), cond.size)
        Case(v, j) == Arm(Equal(v, j), j)
    IN  FoldLeftDomain(Case, w, t.cases)

LEMMA ThenArm ==
    ASSUME NEW v, NEW b \in DOMAIN F.blocks, InBlock(v, b),
           NEW o, ValidOperand(DOMAIN v.Locals, o),
           NEW p, ValidOperand(DOMAIN v.Locals, p),
           NEW s \in DOMAIN F.blocks, s \in Successor(F, b),
           NEW cond, cond = BinaryOrCompare(v, [f |-> "eq", args |-> <<o, p>>])
    PROVE  LET z == FixupLocal(BranchTo(localJZ(cond), b, s), cond.size)
           IN  Continues(v, z) /\ Offers(z, v.size, s)
<1> DEFINE x == [f |-> "eq", args |-> <<o, p>>]
           yes == BranchTo(localJZ(cond), b, s)
           z == FixupLocal(yes, cond.size)
<1>1. x.f \in AluOps /\ x.args[1] = o /\ x.args[2] = p
  BY FormatAssumption
<1>2. Good(v)
  BY DEF InBlock, Printing
<1> HIDE DEF x
<1>3. Continues(v, cond)
  BY <1>1, <1>2, ThenBinary DEF x
<1>4. InBlock(cond, b) /\ Good(cond) /\ v.size <= cond.size
  BY <1>2, <1>3, InBlockOn, ContinuesGood DEF Extends
<1>5. InBlock(localJZ(cond), b) /\ Good(localJZ(cond)) /\ cond.size < localJZ(cond).size
  BY <1>4, LocalJZ, InBlockOn, ContinuesGood
<1>6. Adjoins(localJZ(cond), yes) /\ Offers(yes, localJZ(cond).size, s)
  BY <1>5, BranchEnds
<1> HIDE DEF yes
<1>7. Continues(cond, z) /\ Offers(z, localJZ(cond).size, s)
  BY <1>4, <1>6, ThenIf
<1>8. Continues(v, z) /\ Good(z)
  BY <1>3, <1>7, Onwards, ContinuesGood
<1> HIDE DEF z
<1>9. /\ v.size \in Nat /\ cond.size \in Nat /\ localJZ(cond).size \in Nat
      /\ Sites(z) \subseteq Nat
  BY <1>2, <1>4, <1>5, <1>8, GoodParts
<1>10. Offers(z, v.size, s)
  <2>1. v.size <= localJZ(cond).size
    BY <1>4, <1>5, <1>9
  <2> QED
    BY <1>7, <1>9, <2>1, OffersFurther
<1> QED
  BY <1>8, <1>10 DEF z, yes

LEMMA FoldArms ==
    ASSUME NEW w, NEW b \in DOMAIN F.blocks, InBlock(w, b), NEW t,
           ValidOperand(DOMAIN w.Locals, t.arg), ValidOperands(DOMAIN w.Locals, t.cases),
           \A j \in 1 .. Len(t.cases) : t.to[j] \in DOMAIN F.blocks /\ t.to[j] \in Successor(F, b)
    PROVE  /\ Continues(w, Arms(w, b, t))
           /\ \A j \in 1 .. Len(t.cases) : Offers(Arms(w, b, t), w.size, t.to[j])
<1> DEFINE n == Len(t.cases)
           s == [i \in DOMAIN t.cases |-> i]
           Equal(v, j) == BinaryOrCompare(v, [f |-> "eq", args |-> <<t.arg, t.cases[j]>>])
           Op(v, j) == FixupLocal(BranchTo(localJZ(Equal(v, j)), b, t.to[j]), Equal(v, j).size)
           G == Continuations(w)
           Gs == [k \in 0 .. n |->
                    {v \in G : \A j \in 1 .. k : Offers(v, w.size, t.to[j])}]
           Step == [p \in G \X (1 .. n) |-> Op(p[1], s[p[2]])]
           Fold(it) == [u \in SUBSET DOMAIN s |->
                          IF u = {} THEN w ELSE Op(it[u \ {Max(u)}], s[Max(u)])]
           fold == CHOOSE it : it = Fold(it)
<1>0. n \in Nat /\ \A j \in 1 .. n : ValidOperand(DOMAIN w.Locals, t.cases[j])
  BY ArgumentValid
<1>1. DOMAIN s = 1 .. n /\ n \in Nat /\ w \in G /\ \A k \in 1 .. n : s[k] = k
  <2>1. w \in G
    BY Stay, ContinuationsType DEF InBlock, Printing
  <2>2. t.cases \in Seq(ToSet(t.cases))
    BY DEF ValidOperands
  <2> HIDE DEF G
  <2> QED
    BY <2>1, <2>2
<1>2. \A v \in G, k \in 1 .. n :
         /\ Op(v, s[k]) \in G /\ Offers(Op(v, s[k]), w.size, t.to[k])
         /\ \A j : Offers(v, w.size, j) => Offers(Op(v, s[k]), w.size, j)
  <2> SUFFICES ASSUME NEW v \in G, NEW k \in 1 .. n
               PROVE  /\ Op(v, k) \in G /\ Offers(Op(v, k), w.size, t.to[k])
                      /\ \A j : Offers(v, w.size, j) => Offers(Op(v, k), w.size, j)
    BY <1>1
  <2>1. /\ Continues(w, v) /\ v.Locals = w.Locals /\ InBlock(v, b)
        /\ Good(w) /\ Good(v) /\ w.size <= v.size
    BY ContinuationsType, ContinuesGood, InBlockOn DEF Extends
  <2>2. Continues(v, Op(v, k)) /\ Offers(Op(v, k), v.size, t.to[k])
    BY <1>0, <2>1, ThenArm
  <2> HIDE DEF Op
  <2>3. Continues(w, Op(v, k)) /\ Extends(Straight, v, Op(v, k)) /\ Good(Op(v, k))
    BY <2>1, <2>2, Onwards, ContinuesGood
  <2>4. w.size \in Nat /\ v.size \in Nat /\ Sites(Op(v, k)) \subseteq Nat
    BY <2>1, <2>3, GoodParts
  <2>5. Offers(Op(v, k), w.size, t.to[k])
    BY <2>1, <2>2, <2>4, OffersFurther
  <2> QED
    BY <2>3, <2>5, ContinuationsType, OffersStays
<1> HIDE DEF Op, n, Step, G, Gs, s
<1>3. Step \in [G \X (1 .. n) -> G]
  BY <1>2 DEF Step
<1>4. PICK it : Unfolds(it, G, w, n, Step)
  BY <1>1, <1>3, FoldExists
<1>5. it = Fold(it)
  <2>1. ASSUME NEW u \in SUBSET (1 .. n), u # {}
        PROVE  it[u] = Op(it[u \ {Max(u)}], s[Max(u)])
    <3>1. Max(u) \in 1 .. n /\ it[u \ {Max(u)}] \in G
          /\ it[u] = Step[<<it[u \ {Max(u)}], Max(u)>>]
      BY <1>4, <2>1 DEF Unfolds
    <3> QED
      BY <3>1 DEF Step
  <2> QED
    BY <1>1, <1>4, <2>1 DEF Unfolds
<1>6. fold = Fold(fold)
  BY <1>5
<1> HIDE DEF fold
<1>7. fold[1 .. n] \in Gs[n]
  <2>1. fold[{}] \in Gs[0]
    <3>1. fold[{}] = w
      BY <1>1, <1>6
    <3>2. 0 \in 0 .. n /\ 1 .. 0 = {}
      BY <1>1
    <3> QED
      BY <1>1, <3>1, <3>2 DEF Gs
  <2>2. ASSUME NEW k \in 1 .. n, fold[1 .. k - 1] \in Gs[k - 1]
        PROVE  fold[1 .. k] \in Gs[k]
    <3>1. k - 1 \in 0 .. n /\ k \in 0 .. n
      BY <1>1
    <3>2. /\ 1 .. k \in SUBSET (1 .. n) /\ 1 .. k # {} /\ Max(1 .. k) = k
          /\ (1 .. k) \ {k} = 1 .. k - 1
      BY <1>1, PrefixIndices
    <3>3. /\ fold[1 .. k - 1] \in G
          /\ \A j \in 1 .. k - 1 : Offers(fold[1 .. k - 1], w.size, t.to[j])
      BY <2>2, <3>1 DEF Gs
    <3>4. fold[1 .. k] = Op(fold[1 .. k - 1], s[k])
      <4>1. \A u \in SUBSET (1 .. n) : u # {} => fold[u] = Op(fold[u \ {Max(u)}], s[Max(u)])
        BY <1>1, <1>6
      <4>2. fold[1 .. k] = Op(fold[(1 .. k) \ {Max(1 .. k)}], s[Max(1 .. k)])
        BY <3>2, <4>1
      <4> QED
        BY <3>2, <4>2
    <3>5. /\ fold[1 .. k] \in G /\ Offers(fold[1 .. k], w.size, t.to[k])
          /\ \A j \in 1 .. k - 1 : Offers(fold[1 .. k], w.size, t.to[j])
      BY <1>2, <3>3, <3>4
    <3>6. \A j \in 1 .. k : j = k \/ j \in 1 .. k - 1
      BY <3>1
    <3> QED
      BY <3>1, <3>5, <3>6 DEF Gs
  <2> QED
    BY <1>1, <2>1, <2>2, FoldEnds
<1>8. Arms(w, b, t) = fold[DOMAIN s]
  BY DEF Arms, FoldLeftDomain, FoldLeft, MapThenFoldSet, fold, Op, s, Equal
<1>9. /\ Arms(w, b, t) \in Continuations(w)
      /\ \A j \in 1 .. n : Offers(Arms(w, b, t), w.size, t.to[j])
  <2>1. n \in 0 .. n
    BY <1>1
  <2> QED
    BY <1>1, <1>7, <1>8, <2>1 DEF G, Gs
<1> QED
  BY <1>9, ContinuationsType DEF n

LEMMA SwitchEnds ==
    ASSUME NEW w, NEW b \in DOMAIN F.blocks, InBlock(w, b), F.blocks[b].term.op = "switch"
    PROVE  EndsBlock(w, Switch(w, b, F.blocks[b].term), b)
<1> DEFINE t == F.blocks[b].term
           v == Arms(w, b, t)
<1>1. /\ Len(t.to) = Len(t.cases) + 1
      /\ ValidOperand(DOMAIN w.Locals, t.arg) /\ ValidOperands(DOMAIN w.Locals, t.cases)
      /\ \A j \in 1 .. Len(t.to) : t.to[j] \in DOMAIN F.blocks /\ t.to[j] \in Successor(F, b)
      /\ \A s \in Successor(F, b) : \E j \in 1 .. Len(t.to) : s = t.to[j]
  BY WaysOut DEF ValidTerm, InBlock
<1>2. Len(t.cases) \in Nat
  BY <1>1, ArgumentValid
<1>3. /\ \A j \in 1 .. Len(t.cases) : t.to[j] \in DOMAIN F.blocks /\ t.to[j] \in Successor(F, b)
      /\ Last(t.to) \in DOMAIN F.blocks /\ Last(t.to) \in Successor(F, b)
      /\ \A s \in Successor(F, b) :
            s = Last(t.to) \/ \E j \in 1 .. Len(t.cases) : s = t.to[j]
  <2> DEFINE n == Len(t.cases)
  <2>1. n \in Nat /\ Len(t.to) = n + 1 /\ Last(t.to) = t.to[n + 1]
    BY <1>1, <1>2 DEF Last
  <2> HIDE DEF n
  <2>2. /\ n + 1 \in 1 .. Len(t.to) /\ \A j \in 1 .. n : j \in 1 .. Len(t.to)
        /\ \A j \in 1 .. Len(t.to) : j = n + 1 \/ j \in 1 .. n
    BY <2>1
  <2> QED
    BY <1>1, <2>1, <2>2 DEF n
<1>4. Switch(w, b, t) = BranchTo(v, b, Last(t.to))
  BY DEF Switch, Arms
<1> HIDE DEF t
<1>5. Continues(w, v) /\ \A j \in 1 .. Len(t.cases) : Offers(v, w.size, t.to[j])
  BY <1>1, <1>3, FoldArms
<1> HIDE DEF v
<1>6. InBlock(v, b) /\ Good(w) /\ Good(v) /\ w.size <= v.size
  BY <1>5, InBlockOn, ContinuesGood DEF Extends
<1> DEFINE z == BranchTo(v, b, Last(t.to))
<1>7. Adjoins(v, z) /\ Ends(v, z, {}) /\ Offers(z, v.size, Last(t.to))
  BY <1>3, <1>6, BranchEnds
<1> HIDE DEF z
<1>8. Ends(w, z, {})
  BY <1>5, <1>7, EndsAfter
<1>9. w.size \in Nat /\ v.size \in Nat /\ Sites(z) \subseteq Nat
  BY <1>6, <1>7, AdjoinsGood, GoodParts
<1>10. Offers(z, w.size, Last(t.to))
  BY <1>6, <1>7, <1>9, OffersFurther
<1>11. \A j \in 1 .. Len(t.cases) : Offers(z, w.size, t.to[j])
  BY <1>5, <1>7, OffersStays DEF Adjoins
<1>12. EndsBlock(w, z, b)
  BY <1>3, <1>8, <1>10, <1>11 DEF EndsBlock
<1> QED
  BY <1>4, <1>12 DEF t, z

LEMMA TerminatorEnds ==
    ASSUME NEW w, NEW b \in DOMAIN F.blocks, InBlock(w, b), ~Falls(F, b)
    PROVE  EndsBlock(w, PrintTerminator(w, b, F.blocks[b].term), b)
<1> DEFINE t == F.blocks[b].term
<1>1. /\ ValidTerm(DOMAIN w.Locals, DOMAIN F.blocks, t)
      /\ \A j \in 1 .. Len(t.to) : t.to[j] \in DOMAIN F.blocks /\ t.to[j] \in Successor(F, b)
      /\ \A s \in Successor(F, b) : \E j \in 1 .. Len(t.to) : s = t.to[j]
  BY WaysOut DEF InBlock
<1>2. Good(w)
  BY DEF InBlock, Printing
<1>3. CASE t.op = "br" /\ Len(t.to) = 1
  <2>1. PrintTerminator(w, b, t) = BranchTo(w, b, t.to[1])
    BY <1>3 DEF PrintTerminator
  <2>2. /\ t.to[1] \in DOMAIN F.blocks /\ t.to[1] \in Successor(F, b)
        /\ \A s \in Successor(F, b) : s = t.to[1]
    BY <1>1, <1>3
  <2> HIDE DEF t
  <2>3. /\ Ends(w, BranchTo(w, b, t.to[1]), {})
        /\ Offers(BranchTo(w, b, t.to[1]), w.size, t.to[1])
    BY <2>2, BranchEnds
  <2>4. EndsBlock(w, BranchTo(w, b, t.to[1]), b)
    BY <2>2, <2>3 DEF EndsBlock
  <2> QED
    BY <2>1, <2>4 DEF t
<1>4. CASE t.op = "cond"
  <2>1. PrintTerminator(w, b, t) = Branch(w, b, t)
    BY <1>4 DEF PrintTerminator
  <2> QED
    BY <1>4, <2>1, ConditionEnds
<1>5. CASE t.op = "switch"
  <2>1. PrintTerminator(w, b, t) = Switch(w, b, t)
    BY <1>5 DEF PrintTerminator
  <2> QED
    BY <1>5, <2>1, SwitchEnds
<1>9. ASSUME t.to = <<>> PROVE Successor(F, b) = {}
  <2>1. Len(t.to) = 0
    BY <1>9
  <2> HIDE DEF t
  <2> QED
    BY <1>1, <2>1
<1>6. CASE t.op = "leave" /\ t.to = <<>>
  <2>1. PrintTerminator(w, b, t) = Emit(w, OpI("leave"))
    BY <1>6 DEF PrintTerminator
  <2>2. Ends(w, Emit(w, OpI("leave")), {})
    BY <1>2, LeavePlain, LeavingEnds
  <2>3. Successor(F, b) = {}
    BY <1>6, <1>9
  <2> QED
    BY <2>1, <2>2, <2>3 DEF EndsBlock
<1>7. CASE t.op = "ret" /\ t.to = <<>> /\ ValidOperand(DOMAIN w.Locals, t.arg)
  <2> DEFINE v == WriteOperand(w, t.arg)
             r == Byte(v.ResultReg)
  <2>1. PrintTerminator(w, b, t) = Emit(v, RetI(r))
    BY <1>7 DEF PrintTerminator, Return
  <2>2. Continues(w, v)
    BY <1>2, <1>7, ThenOperand
  <2> HIDE DEF v, t
  <2>3. Good(v) /\ r \in Reg
    BY <2>2, ContinuesGood, ByteType
  <2>4. Plain({"ret"}, RetI(r)) /\ RetI(r).op = "ret"
    BY <2>3, ReturnPlain
  <2>5. Ends(v, Emit(v, RetI(r)), {})
    BY <2>3, <2>4, LeavingEnds
  <2>6. Ends(w, Emit(v, RetI(r)), {})
    BY <2>2, <2>5, EndsAfter
  <2>7. Successor(F, b) = {}
    BY <1>7, <1>9
  <2> QED
    BY <2>1, <2>6, <2>7 DEF t, EndsBlock
<1> HIDE DEF t
<1>8. \/ t.op = "cond" \/ t.op = "switch"
      \/ t.op = "leave" /\ t.to = <<>>
      \/ t.op = "br" /\ Len(t.to) = 1
      \/ t.op = "ret" /\ t.to = <<>> /\ ValidOperand(DOMAIN w.Locals, t.arg)
  BY <1>1 DEF ValidTerm, Falls, t
<1> QED
  BY <1>3, <1>4, <1>5, <1>6, <1>7, <1>8 DEF t

LEMMA FoldInsts ==
    ASSUME NEW w, Good(w), NEW X, NEW s \in Seq(X),
           \A x \in X : ValidInst(DOMAIN w.Locals, x)
    PROVE  Continues(w, FoldLeft(PrintInst, w, s))
<1> DEFINE n == Len(s)
           G == Continuations(w)
           Step == [p \in G \X (1 .. n) |-> PrintInst(p[1], s[p[2]])]
           Fold(it) == [t \in SUBSET DOMAIN s |->
                          IF t = {} THEN w ELSE PrintInst(it[t \ {Max(t)}], s[Max(t)])]
           fold == CHOOSE it : it = Fold(it)
<1>1. DOMAIN s = 1 .. n /\ n \in Nat /\ w \in G /\ \A k \in 1 .. n : s[k] \in X
  <2>1. w \in G
    BY Stay, ContinuationsType
  <2> HIDE DEF G
  <2> QED
    BY <2>1
<1>2. \A v \in G, k \in 1 .. n : PrintInst(v, s[k]) \in G
  <2> SUFFICES ASSUME NEW v \in G, NEW k \in 1 .. n PROVE PrintInst(v, s[k]) \in G
    OBVIOUS
  <2>1. Continues(w, v) /\ ValidInst(DOMAIN w.Locals, s[k])
    BY <1>1, ContinuationsType
  <2>2. Good(v) /\ v.Locals = w.Locals
    BY <2>1, ContinuesGood
  <2>3. Continues(w, PrintInst(v, s[k]))
    BY <2>1, <2>2, ThenInst, Onwards
  <2> QED
    BY <2>3, ContinuationsType
<1> HIDE DEF n, Step, G
<1>3. Step \in [G \X (1 .. n) -> G]
  BY <1>2 DEF Step
<1>4. PICK it : Unfolds(it, G, w, n, Step)
  BY <1>1, <1>3, FoldExists
<1>5. it = Fold(it)
  <2>1. ASSUME NEW t \in SUBSET (1 .. n), t # {}
        PROVE  it[t] = PrintInst(it[t \ {Max(t)}], s[Max(t)])
    <3>1. Max(t) \in 1 .. n /\ it[t \ {Max(t)}] \in G
          /\ it[t] = Step[<<it[t \ {Max(t)}], Max(t)>>]
      BY <1>4, <2>1 DEF Unfolds
    <3> QED
      BY <3>1 DEF Step
  <2> QED
    BY <1>1, <1>4, <2>1 DEF Unfolds
<1>6. fold = Fold(fold)
  BY <1>5
<1> HIDE DEF fold
<1>7. fold[1 .. n] \in G
  <2>1. fold[{}] \in G
    BY <1>1, <1>6
  <2>2. ASSUME NEW t \in SUBSET (1 .. n), t # {}, Max(t) \in 1 .. n,
               fold[t \ {Max(t)}] \in G
        PROVE  fold[t] \in G
    <3>1. t \in SUBSET DOMAIN s /\ fold[t] = PrintInst(fold[t \ {Max(t)}], s[Max(t)])
      BY <1>1, <1>6, <2>2
    <3> QED
      BY <1>2, <2>2, <3>1
  <2> QED
    BY <1>1, <2>1, <2>2, FoldStays
<1>8. FoldLeft(PrintInst, w, s) = fold[DOMAIN s]
  BY DEF FoldLeft, MapThenFoldSet, fold
<1>9. FoldLeft(PrintInst, w, s) \in Continuations(w)
  BY <1>1, <1>7, <1>8 DEF G
<1> QED
  BY <1>9, ContinuationsType

\* The position of a block is noted before it is printed.
Marked(w, b) == [w EXCEPT !.BlockPositions = With(w.BlockPositions, b, w.size)]

LEMMA MarkedGood ==
    \A w, b : Good(w) =>
        LET v == Marked(w, b)
        IN  /\ Good(v) /\ v.code = w.code /\ v.size = w.size /\ v.Locals = w.Locals
            /\ v.NextReg = w.NextReg
            /\ v.PostponedJumps = w.PostponedJumps
            /\ v.BlockPositions = With(w.BlockPositions, b, w.size)
<1> SUFFICES ASSUME NEW w, NEW b, Good(w)
             PROVE  LET v == Marked(w, b)
                    IN  /\ Good(v) /\ v.code = w.code /\ v.size = w.size
                        /\ v.Locals = w.Locals
                        /\ v.NextReg = w.NextReg
                        /\ v.PostponedJumps = w.PostponedJumps
                        /\ v.BlockPositions = With(w.BlockPositions, b, w.size)
  OBVIOUS
<1> DEFINE v == Marked(w, b)
<1>1. w \in Writers0(w)
  BY DEF Good
<1>2. /\ v.code = w.code /\ v.size = w.size /\ v.Locals = w.Locals
      /\ v.PostponedJumps = w.PostponedJumps /\ v.NextReg = w.NextReg
      /\ v.ResultReg = w.ResultReg
      /\ v.BlockPositions = With(w.BlockPositions, b, w.size)
  BY <1>1 DEF Marked, Writers0, Writers
<1>3. v \in Writers0(v)
  BY <1>1, <1>2 DEF Marked, Writers0, Writers
<1> HIDE DEF v
<1>4. Good(v)
  BY <1>2, <1>3 DEF Good, Sites, Pending, Contiguous, After
<1> QED
  BY <1>2, <1>4 DEF v

\* The blocks printed are of the function, and only one that ends in unreachable
\* can be without code at the end of the text.
Opened(w) ==
    \A c \in DOMAIN w.BlockPositions :
        /\ c \in DOMAIN F.blocks
        /\ w.BlockPositions[c] \in Bounds(w)
        /\ ~Falls(F, c) => w.BlockPositions[c] < w.size

LEMMA FallsNowhere == \A b \in DOMAIN F.blocks : ValidFunction(F) /\ Falls(F, b) => Successor(F, b) = {}
<1> SUFFICES ASSUME NEW b \in DOMAIN F.blocks, ValidFunction(F), Falls(F, b)
             PROVE  Successor(F, b) = {}
  OBVIOUS
<1>1. ValidTerm(ToSet(Values(F)), DOMAIN F.blocks, F.blocks[b].term)
  BY DEF ValidFunction, ValidBlock
<1>2. F.blocks[b].term.to = <<>>
  BY <1>1 DEF ValidTerm, Falls
<1> QED
  BY <1>2 DEF Successor, ToSet

\* It is then the one begun last, but for those.
LEMMA MarkedAhead ==
    ASSUME NEW w, Good(w), ValidFunction(F), NEW b, Opened(w)
    PROVE  Ahead(Marked(w, b)) = Successor(F, b)
<1> DEFINE v == Marked(w, b)
<1>1. v.BlockPositions = With(w.BlockPositions, b, w.size)
  BY MarkedGood
<1> HIDE DEF v
<1>2. /\ DOMAIN v.BlockPositions = DOMAIN w.BlockPositions \cup {b}
      /\ v.BlockPositions[b] = w.size
      /\ \A c \in DOMAIN w.BlockPositions : c # b => v.BlockPositions[c] = w.BlockPositions[c]
  BY <1>1 DEF With
<1>3. w.size \in Nat /\ \A c \in DOMAIN w.BlockPositions :
          /\ w.BlockPositions[c] \in Nat /\ w.BlockPositions[c] <= w.size
          /\ w.BlockPositions[c] < w.size \/ Successor(F, c) = {}
  <2>1. w.size \in Nat /\ \A j \in Sites(w) : j \in Nat /\ j < w.size
    BY GoodParts
  <2> QED
    BY <2>1, FallsNowhere DEF Opened, Bounds
<1> DEFINE last == {c \in DOMAIN v.BlockPositions :
                      \A d \in DOMAIN v.BlockPositions : v.BlockPositions[d] <= v.BlockPositions[c]}
<1>4. b \in last /\ \A c \in last : c # b => Successor(F, c) = {}
  BY <1>2, <1>3
<1>5. Ahead(v) = UNION {Successor(F, c) : c \in last}
  BY DEF Ahead
<1> HIDE DEF last
<1>6. Ahead(v) = Successor(F, b)
  BY <1>4, <1>5
<1> QED
  BY <1>6 DEF v

LEMMA BlockEnds ==
    ASSUME NEW w, Printing(w), NEW b \in DOMAIN F.blocks, Opened(w)
    PROVE  IF Falls(F, b) THEN Continues(Marked(w, b), PrintBasicBlock(w, b))
           ELSE EndsBlock(Marked(w, b), PrintBasicBlock(w, b), b)
<1> DEFINE at == Marked(w, b)
           block == F.blocks[b]
           s == block.phis \o block.body
           X == ToSet(block.phis) \cup ToSet(block.body)
           v == FoldLeft(PrintInst, at, s)
<1>1. InBlock(at, b) /\ Good(at) /\ at.Locals = w.Locals
  <2>1. Printing(at) /\ at.Locals = w.Locals /\ at.BlockPositions = With(w.BlockPositions, b, w.size)
    BY MarkedGood DEF Printing
  <2>2. b \in DOMAIN With(w.BlockPositions, b, w.size)
    BY DEF With
  <2> HIDE DEF at
  <2>3. at.BlockPositions # <<>>
    BY <2>1, <2>2
  <2>4. Ahead(at) = Successor(F, b)
    BY MarkedAhead DEF at, Printing
  <2> QED
    BY <2>1, <2>3, <2>4 DEF InBlock, Printing
<1>2. ValidBlock(F, DOMAIN w.Locals, b)
  BY DEF Printing, ValidFunction
<1>3. s \in Seq(X)
  <2>1. block.phis \in Seq(ToSet(block.phis)) /\ block.body \in Seq(ToSet(block.body))
    BY <1>2 DEF ValidBlock
  <2> QED
    BY <2>1
<1>4. \A x \in X : ValidInst(DOMAIN at.Locals, x)
  BY <1>1, <1>2 DEF ValidBlock
<1>5. PrintBasicBlock(w, b) = PrintTerminator(v, b, F.blocks[b].term)
  BY DEF PrintBasicBlock, Marked
<1> HIDE DEF at, s, X, block
<1>6. Continues(at, v)
  BY <1>1, <1>3, <1>4, FoldInsts
<1> HIDE DEF v
<1>7. InBlock(v, b)
  BY <1>1, <1>6, InBlockOn, ContinuesGood
<1>8. CASE ~Falls(F, b)
  <2>1. EndsBlock(v, PrintTerminator(v, b, F.blocks[b].term), b)
    BY <1>7, <1>8, TerminatorEnds
  <2>2. EndsBlock(at, PrintTerminator(v, b, F.blocks[b].term), b)
    BY <1>6, <2>1, EndsBlockAfter
  <2> QED
    BY <1>5, <1>8, <2>2 DEF at
<1>9. CASE Falls(F, b)
  <2>1. PrintTerminator(v, b, F.blocks[b].term) = v
    BY <1>9 DEF PrintTerminator, Falls
  <2> QED
    BY <1>5, <1>6, <1>9, <2>1 DEF at
<1> QED
  BY <1>8, <1>9

-----------------------------------------------------------------------------
(* The file between two functions *)

\* The text before e, but for the dead jumps D, is as the VM needs it.
Finished(w, e, D) ==
    /\ e \in Bounds(w)
    /\ D \subseteq Sites(w) /\ e \notin D /\ 0 \notin D
    /\ \A d \in Declarations(w) : d < e => Past(w, d) <= e
    /\ \A j \in Sites(w) \ D : j < e =>
        /\ w.code[j].op \in {"ret", "leave"} => InBody(w, j)
        /\ w.code[j].op = "fd" =>
            After(w, j) \in Sites(w) \ D /\ After(w, j) < e /\ InBody(w, After(w, j))
        /\ \A t \in Targets(w, j) :
            t \in (Sites(w) \ D) \cup {e} /\ t <= e /\ (InBody(w, t) <=> InBody(w, j))

\* Nothing comes to the jumps D, some way must lead to e.
Apart(w, e, D) == e \in Bounds(w) /\ D \subseteq Sites(w) /\ e \notin D /\ 0 \notin D

\* v is w before e.
Agree(w, v, e) ==
    \A j \in Nat : j < e =>
        /\ j \in Sites(w) <=> j \in Sites(v)
        /\ j \in Sites(w) => v.code[j] = w.code[j]

LEMMA SameBodies ==
    ASSUME NEW w, Good(w), NEW v, Good(v), NEW e \in Nat, Agree(w, v, e)
    PROVE  \A t \in Nat : t <= e => (InBody(v, t) <=> InBody(w, t))
<1> SUFFICES ASSUME NEW t \in Nat, t <= e PROVE InBody(v, t) <=> InBody(w, t)
  OBVIOUS
<1>1. /\ \A d \in Sites(w) : d \in Nat /\ After(w, d) \in Bounds(w) /\ After(w, d) > d
      /\ \A d \in Sites(v) : d \in Nat /\ After(v, d) \in Bounds(v) /\ After(v, d) > d
      /\ Bounds(w) \subseteq Nat /\ Bounds(v) \subseteq Nat
  BY GoodParts DEF Bounds
<1>2. ASSUME NEW d \in Sites(w), d < e
      PROVE  /\ d \in Sites(v) /\ v.code[d] = w.code[d]
             /\ After(v, d) = After(w, d) /\ Past(v, d) = Past(w, d)
  BY <1>1, <1>2, SameCode DEF Agree
<1>3. ASSUME NEW d \in Sites(v), d < e
      PROVE  /\ d \in Sites(w) /\ v.code[d] = w.code[d]
             /\ After(v, d) = After(w, d) /\ Past(v, d) = Past(w, d)
  BY <1>1, <1>3, SameCode DEF Agree
<1>4. \A d \in Sites(w) : After(w, d) <= t => d < e
  BY <1>1
<1>5. \A d \in Sites(v) : After(v, d) <= t => d < e
  BY <1>1
<1> QED
  BY <1>2, <1>3, <1>4, <1>5 DEF InBody, Declarations

\* What is finished stays so when something is written after it.
LEMMA FinishedAgrees ==
    ASSUME NEW w, Good(w), NEW v, Good(v), NEW e \in Bounds(v), NEW D, NEW E,
           Agree(w, v, e), Finished(w, e, D),
           E \subseteq Sites(v), e \notin E,
           \A j \in Nat : j < e => (j \in D <=> j \in E),
           0 \notin E
    PROVE  Finished(v, e, E)
<1>1. /\ \A d \in Sites(w) : d \in Nat /\ After(w, d) \in Nat /\ After(w, d) > d
      /\ \A d \in Sites(v) : d \in Nat /\ After(v, d) \in Nat /\ After(v, d) > d
      /\ e \in Nat
  BY GoodParts DEF Bounds
<1>2. \A t \in Nat : t <= e => (InBody(v, t) <=> InBody(w, t))
  BY <1>1, SameBodies
<1>3. ASSUME NEW j \in Sites(v), j < e
      PROVE  /\ j \in Sites(w) /\ v.code[j] = w.code[j]
             /\ After(v, j) = After(w, j) /\ Past(v, j) = Past(w, j)
             /\ Targets(v, j) = Targets(w, j)
  BY <1>1, <1>3, SameCode DEF Agree
<1>4. ASSUME NEW t \in (Sites(w) \ D) \cup {e}, t <= e
      PROVE  t \in Nat /\ t \in (Sites(v) \ E) \cup {e}
  <2>1. CASE t = e
    BY <1>1, <2>1
  <2>2. CASE t # e
    BY <1>1, <1>4, <2>2 DEF Agree
  <2> QED
    BY <2>1, <2>2
<1>5. \A d \in Declarations(v) : d < e => Past(v, d) <= e
  BY <1>3 DEF Declarations, Finished
<1>6. ASSUME NEW j \in Sites(v) \ E, j < e
      PROVE  /\ v.code[j].op \in {"ret", "leave"} => InBody(v, j)
             /\ v.code[j].op = "fd" =>
                  After(v, j) \in Sites(v) \ E /\ After(v, j) < e /\ InBody(v, After(v, j))
             /\ \A t \in Targets(v, j) :
                  t \in (Sites(v) \ E) \cup {e} /\ t <= e /\ (InBody(v, t) <=> InBody(v, j))
  <2>1. /\ j \in Sites(w) \ D /\ v.code[j] = w.code[j]
        /\ After(v, j) = After(w, j)
        /\ Targets(v, j) = Targets(w, j)
    BY <1>1, <1>3, <1>6
  <2>2. j \in Nat /\ j <= e
    BY <1>1, <1>6
  <2>3. /\ w.code[j].op \in {"ret", "leave"} => InBody(w, j)
        /\ w.code[j].op = "fd" =>
             After(w, j) \in Sites(w) \ D /\ After(w, j) < e /\ InBody(w, After(w, j))
        /\ \A t \in Targets(w, j) :
             t \in (Sites(w) \ D) \cup {e} /\ t <= e /\ (InBody(w, t) <=> InBody(w, j))
    BY <1>6, <2>1 DEF Finished
  <2>4. InBody(v, j) <=> InBody(w, j)
    BY <1>2, <2>2
  <2>5. v.code[j].op \in {"ret", "leave"} => InBody(v, j)
    BY <2>1, <2>3, <2>4
  <2>6. ASSUME v.code[j].op = "fd"
        PROVE  After(v, j) \in Sites(v) \ E /\ After(v, j) < e /\ InBody(v, After(v, j))
    <3>1. After(w, j) \in Sites(w) \ D /\ After(w, j) < e /\ InBody(w, After(w, j))
      BY <2>1, <2>3, <2>6
    <3>2. After(w, j) \in Nat /\ After(w, j) <= e
      BY <1>1, <2>1, <3>1
    <3>3. After(w, j) \in Sites(v) \ E
      BY <1>1, <1>4, <3>1, <3>2
    <3> QED
      BY <1>2, <2>1, <3>1, <3>2, <3>3
  <2>7. ASSUME NEW t \in Targets(v, j)
        PROVE  t \in (Sites(v) \ E) \cup {e} /\ t <= e /\ (InBody(v, t) <=> InBody(v, j))
    <3>1. t \in (Sites(w) \ D) \cup {e} /\ t <= e /\ (InBody(w, t) <=> InBody(w, j))
      BY <2>1, <2>3, <2>7
    <3>2. t \in Nat /\ t \in (Sites(v) \ E) \cup {e}
      BY <1>4, <3>1
    <3> QED
      BY <1>2, <2>4, <3>1, <3>2
  <2> QED
    BY <2>5, <2>6, <2>7
<1> QED
  BY <1>5, <1>6 DEF Finished

\* v is w and more instructions after it.
Grows(w, v) ==
    /\ \A j \in Sites(w) : j \in Sites(v) /\ v.code[j] = w.code[j]
    /\ \A j \in Sites(v) \ Sites(w) : j >= w.size
    /\ w.size \in Bounds(v) /\ w.size <= v.size

LEMMA ExtendsGrows == \A R, w, v : Extends(R, w, v) => Grows(w, v)
BY DEF Extends, Grows

LEMMA ApartGrows ==
    ASSUME NEW w, Good(w), NEW v, Good(v), Grows(w, v), NEW e, NEW D, Apart(w, e, D),
           NEW E, E \subseteq Sites(v) \ Sites(w), w.size \notin E, 0 \notin E
    PROVE  Apart(v, e, D \cup E)
BY DEF Apart, Bounds, Grows

LEMMA FinishedGrows ==
    ASSUME NEW w, Good(w), NEW v, Good(v), Grows(w, v), NEW e, NEW D, Finished(w, e, D),
           NEW E, E \subseteq Sites(v) \ Sites(w), w.size \notin E, 0 \notin E
    PROVE  Finished(v, e, D \cup E)
<1>1. /\ w.size \in Nat /\ \A j \in Sites(w) : j \in Nat /\ j < w.size
      /\ \A j \in Sites(v) : j \in Nat
  BY GoodParts
<1>2. e \in Bounds(w) /\ e \notin D /\ 0 \notin D /\ D \subseteq Sites(w)
  BY DEF Finished
<1>3. e \in Nat /\ e <= w.size
  BY <1>1, <1>2 DEF Bounds
<1>4. Agree(w, v, e)
  BY <1>1, <1>3 DEF Agree, Grows
<1>5. e \in Bounds(v) /\ e \notin E
  BY <1>1, <1>2 DEF Bounds, Grows
<1>6. \A j \in Nat : j < e => (j \in D <=> j \in D \cup E)
  BY <1>1, <1>3 DEF Grows
<1>7. D \cup E \subseteq Sites(v)
  BY <1>2 DEF Grows
<1> HIDE DEF Bounds, Finished
<1> QED
  BY <1>2, <1>4, <1>5, <1>6, <1>7, FinishedAgrees

LEMMA FinishedKept ==
    \A w, v, e, D : Good(w) /\ Good(v) /\ Grows(w, v) /\ Finished(w, e, D) => Finished(v, e, D)
<1> SUFFICES ASSUME NEW w, NEW v, NEW e, NEW D, Good(w), Good(v), Grows(w, v),
                    Finished(w, e, D)
             PROVE  Finished(v, e, D)
  OBVIOUS
<1> DEFINE E == {}
<1>1. E \subseteq Sites(v) \ Sites(w) /\ w.size \notin E /\ 0 \notin E /\ D \cup E = D
  OBVIOUS
<1> HIDE DEF E
<1>2. Finished(v, e, D \cup E)
  BY <1>1, FinishedGrows
<1> QED
  BY <1>1, <1>2

\* Nothing that is written later is in the body of a finished function.
LEMMA OutsideBodies ==
    ASSUME NEW w, Good(w), NEW D, NEW e \in Nat,
           \A d \in Declarations(w) : d < e => Past(w, d) <= e,
           \A d \in Declarations(w) : d < e
    PROVE  \A t \in Nat : t >= e => ~InBody(w, t)
<1>1. \A d \in Declarations(w) : Past(w, d) \in Int
  <2> SUFFICES ASSUME NEW d \in Declarations(w) PROVE Past(w, d) \in Int
    OBVIOUS
  <2>1. d \in Sites(w)
    BY DEF Declarations
  <2>2. w.code[d] \in Instructions /\ After(w, d) \in Bounds(w) /\ Bounds(w) \subseteq Nat
    BY <2>1, GoodParts DEF Bounds
  <2>3. w.code[d].nskip \in Nat
    BY <2>2 DEF Instructions
  <2> QED
    BY <2>2, <2>3 DEF Past
<1> QED
  BY <1>1 DEF InBody

\* Straight code at the top of the file is finished as it is written.
LEMMA FinishedStraight ==
    ASSUME NEW w, Good(w), NEW v, Continues(w, v), NEW D, Finished(w, w.size, D),
           Pending(v) = {}
    PROVE  Finished(v, v.size, D)
<1>1. Good(v) /\ Extends(Straight, w, v) /\ Grows(w, v)
  BY ContinuesGood, ExtendsGrows DEF Continues
<1>2. /\ w.size \in Nat /\ v.size \in Nat /\ w.size <= v.size
      /\ \A j \in Sites(w) : j \in Nat /\ j < w.size
      /\ \A j \in Sites(v) : j \in Nat /\ j < v.size
      /\ \A j \in Sites(v) : After(v, j) \in Nat
      /\ Bounds(v) \subseteq Nat
  BY <1>1, GoodParts DEF Bounds, Extends
<1>3. Finished(v, w.size, D)
  BY <1>1, FinishedKept
<1>4. /\ w.size \in Bounds(v)
      /\ D \subseteq Sites(v) /\ w.size \notin D /\ 0 \notin D
      /\ \A d \in Declarations(v) : d < w.size => Past(v, d) <= w.size
      /\ \A j \in Sites(v) \ D : j < w.size =>
          /\ v.code[j].op \in {"ret", "leave"} => InBody(v, j)
          /\ v.code[j].op = "fd" =>
              After(v, j) \in Sites(v) \ D /\ After(v, j) < w.size /\ InBody(v, After(v, j))
          /\ \A t \in Targets(v, j) :
              t \in (Sites(v) \ D) \cup {w.size} /\ t <= w.size
              /\ (InBody(v, t) <=> InBody(v, j))
  BY <1>3 DEF Finished
<1>5. \A j \in Sites(v) : j >= w.size =>
         /\ v.code[j].op \in Straight
         /\ \A t \in Targets(v, j) : t \in Bounds(v) /\ t >= w.size
  BY <1>1, <1>2 DEF Extends
<1>6. \A d \in Declarations(v) : d < w.size
  BY <1>2, <1>5 DEF Declarations, Straight
<1>7. \A t \in Nat : t >= w.size => ~InBody(v, t)
  BY <1>1, <1>2, <1>4, <1>6, OutsideBodies
<1>8. D \subseteq Sites(w)
  BY DEF Finished
<1>9. v.size \in Bounds(v) /\ v.size \notin D
  BY <1>2, <1>8 DEF Bounds
<1>10. \A d \in Declarations(v) : Past(v, d) <= v.size
  <2> SUFFICES ASSUME NEW d \in Declarations(v) PROVE Past(v, d) <= v.size
    OBVIOUS
  <2>1. d \in Sites(v) /\ d < w.size /\ Past(v, d) <= w.size
    BY <1>4, <1>6 DEF Declarations
  <2>2. v.code[d].nskip \in Nat
    BY <1>1, <2>1, GoodParts DEF Instructions
  <2>3. Past(v, d) \in Int
    BY <1>2, <2>1, <2>2 DEF Past
  <2> QED
    BY <1>2, <2>1, <2>3
<1>11. \A t \in Bounds(v) : t >= w.size => t \in (Sites(v) \ D) \cup {v.size} /\ t <= v.size
  BY <1>2, <1>8 DEF Bounds
<1>12. ASSUME NEW j \in Sites(v) \ D
       PROVE  /\ v.code[j].op \in {"ret", "leave"} => InBody(v, j)
              /\ v.code[j].op = "fd" =>
                  After(v, j) \in Sites(v) \ D /\ After(v, j) < v.size /\ InBody(v, After(v, j))
              /\ \A t \in Targets(v, j) :
                  t \in (Sites(v) \ D) \cup {v.size} /\ t <= v.size
                  /\ (InBody(v, t) <=> InBody(v, j))
  <2>1. CASE j < w.size
    <3>1. \A t \in (Sites(v) \ D) \cup {w.size} : t <= w.size =>
              t \in (Sites(v) \ D) \cup {v.size} /\ t <= v.size
      BY <1>2, <1>4, <1>11
    <3>2. \A t \in Targets(v, j) :
              t \in (Sites(v) \ D) \cup {w.size} /\ t <= w.size
              /\ (InBody(v, t) <=> InBody(v, j))
      BY <1>4, <2>1
    <3>3. \A t \in Targets(v, j) :
              t \in (Sites(v) \ D) \cup {v.size} /\ t <= v.size
              /\ (InBody(v, t) <=> InBody(v, j))
      BY <3>1, <3>2
    <3>4. After(v, j) \in Nat /\ (After(v, j) < w.size => After(v, j) < v.size)
      BY <1>2
    <3> QED
      BY <1>4, <2>1, <3>3, <3>4
  <2>2. CASE j >= w.size
    <3>1. v.code[j].op \in Straight /\ ~InBody(v, j)
      BY <1>2, <1>5, <1>7, <2>2
    <3>2. v.code[j].op \notin {"fd", "ret", "leave"}
      BY <3>1 DEF Straight
    <3>3. \A t \in Targets(v, j) : t \in Bounds(v) /\ t \in Nat /\ t >= w.size
      BY <1>2, <1>5, <2>2
    <3>4. \A t \in Targets(v, j) : ~InBody(v, t)
      BY <1>7, <3>3
    <3> QED
      BY <1>11, <3>1, <3>2, <3>3, <3>4
  <2> QED
    BY <1>2, <2>1, <2>2
<1> QED
  BY <1>4, <1>9, <1>10, <1>12 DEF Finished

-----------------------------------------------------------------------------
(* The function being printed *)

\* What control can come to: not to the end of what is written, unless a block
\* is open there.
Known(w, D) ==
    (Sites(w) \ D) \cup (IF LastFalls(F, w.BlockPositions) THEN {w.size} ELSE {})

\* The text of the function declared at h, with jumps that are still to be
\* fixed; nothing comes to the jumps D.
Body(w, h, D) ==
    /\ h \in Declarations(w)
    /\ After(w, h) \notin D
    /\ Opened(w)
    /\ \A b \in DOMAIN w.BlockPositions :
        w.BlockPositions[b] \in Known(w, D) /\ w.BlockPositions[b] > h
    /\ \A j \in Pending(w) : j > h
    /\ \A j \in Sites(w) : j > h =>
        /\ w.code[j].op # "fd"
        /\ j \notin D /\ j \notin Pending(w) =>
            \A t \in Targets(w, j) : t \in Known(w, D) /\ t > h

LEMMA BodySites ==
    \A w, h, D : Good(w) /\ Body(w, h, D) =>
        /\ h \in Sites(w) /\ h \in Nat /\ w.code[h].op = "fd" /\ h < w.size
        /\ After(w, h) \in Bounds(w) /\ After(w, h) > h /\ After(w, h) \in Nat
        /\ 0 \in Sites(w)
<1> SUFFICES ASSUME NEW w, NEW h, NEW D, Good(w), Body(w, h, D)
             PROVE  /\ h \in Sites(w) /\ h \in Nat /\ w.code[h].op = "fd" /\ h < w.size
                    /\ After(w, h) \in Bounds(w) /\ After(w, h) > h /\ After(w, h) \in Nat
                    /\ 0 \in Sites(w)
  OBVIOUS
<1>1. h \in Sites(w) /\ w.code[h].op = "fd"
  BY DEF Body, Declarations
<1>2. /\ h \in Nat /\ h < w.size /\ After(w, h) \in Bounds(w) /\ After(w, h) > h
      /\ Bounds(w) \subseteq Nat
  BY <1>1, GoodParts DEF Bounds
<1>3. 0 \in Sites(w)
  BY <1>2 DEF Good
<1> QED
  BY <1>1, <1>2, <1>3

\* A block is added to it.
LEMMA BodyBlock ==
    ASSUME NEW w, Printing(w), NEW h, NEW D, Body(w, h, D), Apart(w, h, D),
           NEW b \in DOMAIN F.blocks, NEW v, NEW E, Ends(Marked(w, b), v, E)
    PROVE  /\ Printing(v) /\ Grows(w, v) /\ E \subseteq Sites(v) \ Sites(w) /\ w.size \notin E
           /\ v.BlockPositions = With(w.BlockPositions, b, w.size) /\ v.Locals = w.Locals
           /\ Body(v, h, D \cup E) /\ Apart(v, h, D \cup E)
           /\ Finished(w, h, D) => Finished(v, h, D \cup E)
<1> DEFINE at == Marked(w, b)
<1>1. /\ Good(at) /\ at.code = w.code /\ at.size = w.size /\ at.Locals = w.Locals
      /\ at.PostponedJumps = w.PostponedJumps
      /\ at.BlockPositions = With(w.BlockPositions, b, w.size)
  BY MarkedGood DEF Printing
<1> HIDE DEF at
<1>2. /\ Extends(Inside, at, v) /\ at.size < v.size
      /\ E \subseteq Sites(v) \ Sites(at) /\ at.size \notin E
      /\ \A j \in Sites(v) \ Sites(at) :
            j \notin E /\ j \notin Pending(v) => \A t \in Targets(v, j) : t \in Sites(v) \ E
  BY DEF Ends, at
<1>3. Sites(at) = Sites(w) /\ Bounds(at) = Bounds(w) /\ Pending(at) = Pending(w)
  BY <1>1 DEF Sites, Bounds, Pending
<1>4. Good(v) /\ v.BlockPositions = at.BlockPositions /\ v.Locals = w.Locals
  BY <1>1, <1>2 DEF Extends, Writers0, Writers
<1>5. Printing(v)
  BY <1>4 DEF Printing
<1>6. Grows(w, v)
  BY <1>1, <1>2, <1>3 DEF Grows, Extends
<1>7. Good(w)
  BY DEF Printing
<1>8. /\ h \in Sites(w) /\ h \in Nat /\ h < w.size /\ w.code[h].op = "fd"
      /\ After(w, h) \in Bounds(w) /\ After(w, h) \in Nat
      /\ 0 \in Sites(w)
  BY <1>7, BodySites
<1>9. /\ w.size \in Nat /\ v.size \in Nat
      /\ \A j \in Sites(w) : j \in Nat /\ j < w.size
      /\ \A j \in Sites(v) : j \in Nat
  BY <1>4, <1>7, GoodParts
<1>10. D \subseteq Sites(w) /\ 0 \notin E
  BY <1>2, <1>3, <1>8 DEF Apart
<1>11. Apart(v, h, D \cup E) /\ (Finished(w, h, D) => Finished(v, h, D \cup E))
  BY <1>1, <1>2, <1>3, <1>4, <1>6, <1>7, <1>10, ApartGrows, FinishedGrows
<1>12. h \in Declarations(v) /\ After(v, h) = After(w, h)
  BY <1>6, <1>8, SameCode DEF Declarations, Grows
<1>13. After(v, h) \notin D \cup E
  <2>1. After(w, h) \notin D
    BY DEF Body
  <2>2. After(w, h) \notin E
    BY <1>1, <1>2, <1>3, <1>8 DEF Bounds
  <2> QED
    BY <1>12, <2>1, <2>2
<1>14. w.size \in Sites(v) \ (D \cup E)
  BY <1>1, <1>2, <1>9, <1>10 DEF Extends, Bounds
<1>15. \A t \in Known(w, D) : t \in Sites(v) \ (D \cup E)
  BY <1>2, <1>3, <1>6, <1>14 DEF Grows, Known
<1>16. ASSUME NEW c \in DOMAIN v.BlockPositions
       PROVE  /\ c \in DOMAIN F.blocks
              /\ v.BlockPositions[c] \in Sites(v) \ (D \cup E) /\ v.BlockPositions[c] > h
  <2>1. CASE c = b
    <3>1. v.BlockPositions[c] = w.size
      BY <1>1, <1>4, <1>16, <2>1 DEF With
    <3> QED
      BY <1>8, <1>9, <1>14, <2>1, <3>1
  <2>2. CASE c # b
    <3>1. c \in DOMAIN w.BlockPositions /\ v.BlockPositions[c] = w.BlockPositions[c]
      BY <1>1, <1>4, <1>16, <2>2 DEF With
    <3> QED
      BY <1>15, <3>1 DEF Body, Opened
  <2> QED
    BY <2>1, <2>2
<1>20. Opened(v)
  <2>1. \A j \in Sites(v) : j < v.size
    BY <1>4, GoodParts
  <2> QED
    BY <1>16, <2>1 DEF Opened, Bounds
<1>17. \A j \in Pending(v) : j > h
  <2> SUFFICES ASSUME NEW j \in Pending(v) PROVE j > h
    OBVIOUS
  <2>1. CASE j \in Pending(w)
    BY <2>1 DEF Body
  <2>2. CASE j \notin Pending(w)
    <3>1. j >= w.size
      BY <1>1, <1>2, <1>3, <2>2 DEF Extends
    <3>2. j \in Nat
      BY <1>4, <1>9 DEF Good
    <3> QED
      BY <1>8, <1>9, <3>1, <3>2
  <2> QED
    BY <2>1, <2>2
<1>18. ASSUME NEW j \in Sites(v), j > h
       PROVE  /\ v.code[j].op # "fd"
              /\ j \notin D \cup E /\ j \notin Pending(v) =>
                    \A t \in Targets(v, j) : t \in Sites(v) \ (D \cup E) /\ t > h
  <2>1. CASE j \in Sites(w)
    <3>1. v.code[j] = w.code[j] /\ Targets(v, j) = Targets(w, j)
      BY <1>6, <2>1, SameCode DEF Grows
    <3>2. j \notin Pending(v) => j \notin Pending(w)
      BY <1>2, <1>3 DEF Extends
    <3>3. /\ w.code[j].op # "fd"
          /\ j \notin D /\ j \notin Pending(w) =>
                \A t \in Targets(w, j) : t \in Known(w, D) /\ t > h
      BY <1>18, <2>1 DEF Body
    <3> QED
      BY <1>15, <3>1, <3>2, <3>3
  <2>2. CASE j \notin Sites(w)
    <3>1. v.code[j].op \in Inside
          /\ (j \in Pending(v) \/ \A t \in Targets(v, j) : t \in Bounds(v) /\ t >= w.size)
      BY <1>1, <1>2, <1>3, <2>2 DEF Extends
    <3>2. v.code[j].op # "fd"
      BY <3>1 DEF Inside
    <3>3. ASSUME j \notin D \cup E, j \notin Pending(v), NEW t \in Targets(v, j)
          PROVE  t \in Sites(v) \ (D \cup E) /\ t > h
      <4>1. t \in Sites(v) \ E
        BY <1>2, <1>3, <2>2, <3>3
      <4>2. t >= w.size /\ t \in Nat
        BY <1>9, <3>1, <3>3, <4>1
      <4>3. t > h /\ t \notin D
        BY <1>8, <1>9, <1>10, <4>2
      <4> QED
        BY <4>1, <4>3
    <3> QED
      BY <3>2, <3>3
  <2> QED
    BY <2>1, <2>2
<1>19. Body(v, h, D \cup E)
  <2>1. \A t \in Sites(v) \ (D \cup E) : t \in Known(v, D \cup E)
    BY DEF Known
  <2> QED
    BY <1>12, <1>13, <1>16, <1>17, <1>18, <1>20, <2>1 DEF Body
<1> QED
  BY <1>1, <1>2, <1>3, <1>4, <1>5, <1>6, <1>11, <1>19

\* A block that ends in unreachable is added to it: it stays open.
LEMMA BodyFalls ==
    ASSUME NEW w, Printing(w), NEW h, NEW D, Body(w, h, D), Apart(w, h, D),
           NEW b \in DOMAIN F.blocks, Falls(F, b), NEW v, Continues(Marked(w, b), v)
    PROVE  /\ Printing(v) /\ Grows(w, v)
           /\ v.BlockPositions = With(w.BlockPositions, b, w.size) /\ v.Locals = w.Locals
           /\ Body(v, h, D) /\ Apart(v, h, D)
           /\ Finished(w, h, D) => Finished(v, h, D)
<1> DEFINE at == Marked(w, b)
<1>1. /\ Good(at) /\ at.code = w.code /\ at.size = w.size /\ at.Locals = w.Locals
      /\ at.PostponedJumps = w.PostponedJumps
      /\ at.BlockPositions = With(w.BlockPositions, b, w.size)
  BY MarkedGood DEF Printing
<1>2. Extends(Straight, at, v) /\ Good(v)
  BY ContinuesGood
<1> HIDE DEF at
<1>3. Sites(at) = Sites(w) /\ Bounds(at) = Bounds(w) /\ Pending(at) = Pending(w)
  BY <1>1 DEF Sites, Bounds, Pending
<1>4. v.BlockPositions = at.BlockPositions /\ v.Locals = w.Locals
  BY <1>1, <1>2 DEF Extends, Writers0, Writers
<1>5. Printing(v)
  BY <1>2, <1>4 DEF Printing
<1>6. Grows(w, v)
  BY <1>1, <1>2, <1>3 DEF Grows, Extends
<1>7. Good(w)
  BY DEF Printing
<1>8. /\ h \in Sites(w) /\ h \in Nat /\ h < w.size /\ w.code[h].op = "fd"
      /\ After(w, h) \in Bounds(w) /\ After(w, h) \in Nat
  BY <1>7, BodySites
<1>9. /\ w.size \in Nat /\ v.size \in Nat
      /\ \A j \in Sites(w) : j \in Nat /\ j < w.size
      /\ \A j \in Sites(v) : j \in Nat /\ j < v.size
  BY <1>2, <1>7, GoodParts
<1>10. D \subseteq Sites(w)
  BY DEF Apart
<1>11. Apart(v, h, D) /\ (Finished(w, h, D) => Finished(v, h, D))
  BY <1>2, <1>6, <1>7, FinishedKept DEF Apart, Bounds, Grows
<1>12. h \in Declarations(v) /\ After(v, h) = After(w, h)
  BY <1>6, <1>8, SameCode DEF Declarations, Grows
<1>13. ASSUME NEW c \in DOMAIN v.BlockPositions
       PROVE  /\ c \in DOMAIN F.blocks
              /\ v.BlockPositions[c] \in Bounds(w)
              /\ ~Falls(F, c) => v.BlockPositions[c] < w.size
              /\ c = b => v.BlockPositions[c] = w.size
              /\ c # b => c \in DOMAIN w.BlockPositions
                           /\ v.BlockPositions[c] = w.BlockPositions[c]
  <2>1. CASE c = b
    BY <1>1, <1>4, <1>13, <2>1 DEF With, Bounds
  <2>2. CASE c # b
    <3>1. c \in DOMAIN w.BlockPositions /\ v.BlockPositions[c] = w.BlockPositions[c]
      BY <1>1, <1>4, <1>13, <2>2 DEF With
    <3> QED
      BY <2>2, <3>1 DEF Body, Opened
  <2> QED
    BY <2>1, <2>2
<1>14. LastFalls(F, v.BlockPositions)
  <2> SUFFICES ASSUME NEW c \in DOMAIN v.BlockPositions, ~Falls(F, c),
                      \A d \in DOMAIN v.BlockPositions :
                          v.BlockPositions[d] <= v.BlockPositions[c]
               PROVE  FALSE
    BY DEF LastFalls
  <2>1. b \in DOMAIN v.BlockPositions
    BY <1>1, <1>4 DEF With
  <2>2. v.BlockPositions[c] < w.size /\ v.BlockPositions[b] = w.size
    BY <1>13, <2>1
  <2>3. v.BlockPositions[c] \in Nat
    BY <1>9, <1>13 DEF Bounds
  <2> QED
    BY <1>9, <2>1, <2>2, <2>3
<1>15. Known(v, D) = (Sites(v) \ D) \cup {v.size}
  BY <1>14 DEF Known
<1>16. /\ \A t \in Bounds(w) : t \in Bounds(v)
       /\ w.size \notin D /\ v.size \notin D
  BY <1>6, <1>9, <1>10 DEF Grows, Bounds
<1>17. \A t \in Bounds(v) : t \notin D => t \in Known(v, D)
  BY <1>15 DEF Bounds
<1>18. \A t \in Known(w, D) : t \in Known(v, D)
  BY <1>16, <1>17 DEF Known, Bounds
<1>19. Opened(v)
  <2>1. v.size >= w.size
    BY <1>6 DEF Grows
  <2>2. ASSUME NEW c \in DOMAIN v.BlockPositions, ~Falls(F, c)
        PROVE  v.BlockPositions[c] < v.size
    <3>1. v.BlockPositions[c] \in Nat /\ v.BlockPositions[c] < w.size
      BY <1>9, <1>13, <2>2 DEF Bounds
    <3> QED
      BY <1>9, <2>1, <3>1
  <2> QED
    BY <1>13, <1>16, <2>2 DEF Opened
<1>20. ASSUME NEW c \in DOMAIN v.BlockPositions
       PROVE  v.BlockPositions[c] \in Known(v, D) /\ v.BlockPositions[c] > h
  <2>1. CASE c = b
    <3>1. v.BlockPositions[c] = w.size
      BY <1>13, <2>1
    <3> QED
      BY <1>8, <1>9, <1>16, <1>17, <3>1 DEF Bounds
  <2>2. CASE c # b
    BY <1>13, <1>18, <2>2 DEF Body
  <2> QED
    BY <2>1, <2>2
<1>21. \A j \in Pending(v) : j > h
  <2> SUFFICES ASSUME NEW j \in Pending(v) PROVE j > h
    OBVIOUS
  <2>1. CASE j \in Pending(w)
    BY <2>1 DEF Body
  <2>2. CASE j \notin Pending(w)
    <3>1. j >= w.size
      BY <1>1, <1>2, <1>3, <2>2 DEF Extends
    <3>2. j \in Nat
      BY <1>2, <1>9 DEF Good
    <3> QED
      BY <1>8, <1>9, <3>1, <3>2
  <2> QED
    BY <2>1, <2>2
<1>22. ASSUME NEW j \in Sites(v), j > h
       PROVE  /\ v.code[j].op # "fd"
              /\ j \notin D /\ j \notin Pending(v) =>
                    \A t \in Targets(v, j) : t \in Known(v, D) /\ t > h
  <2>1. CASE j \in Sites(w)
    <3>1. v.code[j] = w.code[j] /\ Targets(v, j) = Targets(w, j)
      BY <1>6, <2>1, SameCode DEF Grows
    <3>2. j \notin Pending(v) => j \notin Pending(w)
      BY <1>2, <1>3 DEF Extends
    <3>3. /\ w.code[j].op # "fd"
          /\ j \notin D /\ j \notin Pending(w) =>
                \A t \in Targets(w, j) : t \in Known(w, D) /\ t > h
      BY <1>22, <2>1 DEF Body
    <3> QED
      BY <1>18, <3>1, <3>2, <3>3
  <2>2. CASE j \notin Sites(w)
    <3>1. v.code[j].op \in Straight
          /\ (j \in Pending(v) \/ \A t \in Targets(v, j) : t \in Bounds(v) /\ t >= w.size)
      BY <1>1, <1>2, <1>3, <2>2 DEF Extends
    <3>2. v.code[j].op # "fd"
      BY <3>1 DEF Straight
    <3>3. ASSUME j \notin D, j \notin Pending(v), NEW t \in Targets(v, j)
          PROVE  t \in Known(v, D) /\ t > h
      <4>1. t \in Bounds(v) /\ t >= w.size /\ t \in Nat
        BY <1>9, <3>1, <3>3 DEF Bounds
      <4>2. t > h /\ t \notin D
        BY <1>8, <1>9, <1>10, <4>1
      <4> QED
        BY <1>17, <4>1, <4>2
    <3> QED
      BY <3>2, <3>3
  <2> QED
    BY <2>1, <2>2
<1>23. After(v, h) \notin D
  BY <1>12 DEF Body
<1>24. Body(v, h, D)
  BY <1>12, <1>19, <1>20, <1>21, <1>22, <1>23 DEF Body
<1> QED
  BY <1>1, <1>4, <1>5, <1>6, <1>11, <1>24

\* A loop is closed with a jump back to its begin.
LEMMA BodyLoop ==
    ASSUME NEW w, Printing(w), NEW h, NEW D, Body(w, h, D), Apart(w, h, D),
           NEW begin, begin \in Bounds(w) \ D, begin > h,
           NEW v, v = Emit(w, JumpI("jmp", 0, begin - w.size))
    PROVE  /\ Printing(v) /\ Grows(w, v) /\ v.BlockPositions = w.BlockPositions
           /\ v.PostponedJumps = w.PostponedJumps /\ v.Locals = w.Locals
           /\ \A j \in Sites(v) \ Sites(w) : v.code[j].op = "jmp"
           /\ Body(v, h, D) /\ Apart(v, h, D)
           /\ Finished(w, h, D) => Finished(v, h, D)
<1> DEFINE x == JumpI("jmp", 0, begin - w.size)
<1>1. /\ Good(w) /\ w \in Writers0(w) /\ w.size \in Nat /\ Bounds(w) \subseteq Nat
      /\ \A j \in Sites(w) : j \in Nat /\ j < w.size
  BY GoodParts DEF Printing, Good, Bounds
<1>2. begin \in Nat
  BY <1>1
<1>3. /\ x \in Instructions /\ Len(x.args) <= LastReg
      /\ x.op = "jmp" /\ x.off = begin - w.size
  BY <1>1, <1>2, JumpType
<1>4. /\ v.code = With(w.code, w.size, x) /\ v.size = w.size + Length(x)
      /\ v.PostponedJumps = w.PostponedJumps /\ v.BlockPositions = w.BlockPositions
      /\ v.Locals = w.Locals /\ v.NextReg = w.NextReg /\ v.ResultReg = w.ResultReg
  BY <1>1 DEF Emit, Writers0, Writers
<1> HIDE DEF x
<1>5. /\ v.code \in Codes /\ v.size \in Nat /\ w.size < v.size
      /\ Sites(v) = Sites(w) \cup {w.size} /\ w.size \notin Sites(w)
      /\ v.code[w.size] = x /\ After(v, w.size) = v.size
      /\ \A j \in Sites(w) : v.code[j] = w.code[j]
      /\ Sites(v) \subseteq 0 .. v.size - 1
      /\ Contiguous(v)
      /\ 0 \in Sites(v)
      /\ \A j \in Sites(v) : Len(v.code[j].args) <= LastReg
  BY <1>1, <1>3, <1>4, Written
<1>6. v \in Writers0(v)
  <2>1. With(w.code, w.size, x) \in Codes /\ w.size + Length(x) \in Nat
    BY <1>4, <1>5
  <2>2. v \in Writers0(w)
    BY <1>1, <2>1 DEF Emit, Writers0, Writers, x
  <2> QED
    BY <1>4, <2>2 DEF Writers0
<1>7. Pending(v) = Pending(w)
  BY <1>4 DEF Pending
<1>8. Good(v)
  BY <1>1, <1>4, <1>5, <1>6, <1>7 DEF Good
<1>9. Printing(v)
  BY <1>4, <1>8 DEF Printing
<1>10. Grows(w, v)
  BY <1>1, <1>5 DEF Grows, Bounds
<1>11. Apart(v, h, D) /\ (Finished(w, h, D) => Finished(v, h, D))
  BY <1>1, <1>8, <1>10, FinishedKept DEF Apart, Bounds, Grows
<1>12. /\ h \in Sites(w) /\ h \in Nat /\ h < w.size /\ w.code[h].op = "fd"
  BY <1>1, BodySites
<1>13. D \subseteq Sites(w)
  BY DEF Apart
<1>14. h \in Declarations(v) /\ After(v, h) = After(w, h)
  BY <1>5, <1>12, SameCode DEF Declarations
<1>15. Targets(v, w.size) = {begin}
  <2>1. Targets(v, w.size) = {w.size + (begin - w.size)}
    BY <1>3, <1>5 DEF Targets
  <2> QED
    BY <1>1, <1>2, <2>1
<1>16. begin \in Sites(v) \ D
  BY <1>1, <1>5, <1>13 DEF Bounds
<1>19. \A t \in Known(w, D) : t \in Sites(v) \ D
  BY <1>5, <1>13 DEF Known
<1>20. Opened(v) /\ \A t \in Sites(v) \ D : t \in Known(v, D)
  <2>1. Opened(w)
    BY DEF Body
  <2> QED
    BY <1>1, <1>4, <1>5, <2>1 DEF Opened, Bounds, Known
<1>17. ASSUME NEW j \in Sites(v), j > h
       PROVE  /\ v.code[j].op # "fd"
              /\ j \notin D /\ j \notin Pending(v) =>
                    \A t \in Targets(v, j) : t \in Sites(v) \ D /\ t > h
  <2>1. CASE j \in Sites(w)
    <3>1. v.code[j] = w.code[j] /\ Targets(v, j) = Targets(w, j)
      BY <1>5, <2>1, SameCode
    <3> QED
      BY <1>5, <1>7, <1>17, <1>19, <2>1, <3>1 DEF Body
  <2>2. CASE j = w.size
    BY <1>3, <1>5, <1>15, <1>16, <2>2
  <2> QED
    BY <1>5, <2>1, <2>2
<1>18. Body(v, h, D)
  BY <1>4, <1>5, <1>7, <1>14, <1>17, <1>19, <1>20 DEF Body
<1> QED
  BY <1>3, <1>4, <1>5, <1>9, <1>10, <1>11, <1>18

\* A function is declared, with a register for each of its values.
LEMMA Declares ==
    ASSUME NEW w, Good(w), w.PostponedJumps = <<>>, w.BlockPositions = <<>>,
           ValidFunction(F), NEW D, Apart(w, w.size, D),
           NEW v, v = Declared(w, F)
    PROVE  /\ Printing(v) /\ v.BlockPositions = <<>>
           /\ Grows(w, v) /\ Sites(v) = Sites(w) \cup {w.size}
           /\ v.code[w.size] = FdI(F.name, Len(F.params)) /\ After(v, w.size) = v.size
           /\ v.Locals = [id \in ToSet(Values(F)) |->
                            w.NextReg + CHOOSE j \in DOMAIN Values(F) : Values(F)[j] = id]
           /\ Body(v, w.size, D) /\ Apart(v, w.size, D)
           /\ Finished(w, w.size, D) => Finished(v, w.size, D)
<1> DEFINE x == FdI(F.name, Len(F.params))
           ids == Values(F)
           first == w.NextReg
           locals == [id \in ToSet(ids) |-> first + CHOOSE j \in DOMAIN ids : ids[j] = id]
<1>1. /\ w \in Writers0(w) /\ w.size \in Nat /\ first \in Nat
      /\ w.ResultReg \in Nat /\ w.ResultReg <= first
      /\ \A j \in Sites(w) : j \in Nat /\ j < w.size
  BY GoodParts DEF Good
<1>2. F.name \in Names /\ Len(F.params) \in Nat
  <2>1. F.name \in Names /\ F.params \in Seq(ToSet(F.params))
    BY DEF ValidFunction
  <2> QED
    BY <2>1
<1>3. x \in Instructions /\ x.op = "fd" /\ Len(x.args) <= LastReg
  <2>1. "fd" \in OpCodes
    BY DEF OpCodes
  <2>2. x \in Instructions /\ x.op = "fd" /\ x.args = Blank.args
    BY <1>2, <2>1, BlankType DEF FdI, Instructions
  <2> QED
    BY <2>2, BlankType, ConstantsType
<1>4. ids \in Seq(ToSet(ids))
  BY ValuesType
<1>5. Len(ids) \in Nat /\ DOMAIN ids = 1 .. Len(ids)
  BY <1>4
<1>6. \A id \in ToSet(ids) : locals[id] \in 1 .. first + Len(ids)
  <2> SUFFICES ASSUME NEW id \in ToSet(ids)
               PROVE  first + (CHOOSE j \in DOMAIN ids : ids[j] = id) \in 1 .. first + Len(ids)
    OBVIOUS
  <2> DEFINE k == CHOOSE j \in DOMAIN ids : ids[j] = id
  <2>1. \E j \in DOMAIN ids : ids[j] = id
    BY DEF ToSet
  <2>2. k \in DOMAIN ids
    BY <2>1
  <2> HIDE DEF k
  <2> QED
    BY <1>1, <1>5, <2>2 DEF k
<1>7. DOMAIN locals = ToSet(ids)
  OBVIOUS
<1>8. v = [w EXCEPT !.code = With(w.code, w.size, x), !.size = w.size + Length(x),
                    !.NextReg = first + Len(ids), !.Locals = locals]
  BY <1>1 DEF Declared, Emit, Writers0, Writers
<1> HIDE DEF x, ids, locals
<1>9. /\ v.code = With(w.code, w.size, x) /\ v.size = w.size + Length(x)
      /\ v.PostponedJumps = <<>> /\ v.BlockPositions = <<>>
      /\ v.Locals = locals /\ v.NextReg = first + Len(ids) /\ v.ResultReg = w.ResultReg
  BY <1>1, <1>8 DEF Writers0, Writers
<1>10. /\ v.code \in Codes /\ v.size \in Nat /\ w.size < v.size
       /\ Sites(v) = Sites(w) \cup {w.size} /\ w.size \notin Sites(w)
       /\ v.code[w.size] = x /\ After(v, w.size) = v.size
       /\ \A j \in Sites(w) : v.code[j] = w.code[j]
       /\ Sites(v) \subseteq 0 .. v.size - 1
       /\ Contiguous(v)
       /\ 0 \in Sites(v)
       /\ \A j \in Sites(v) : Len(v.code[j].args) <= LastReg
  BY <1>3, <1>9, Written
<1>11. v \in Writers0(v)
  <2>1. With(w.code, w.size, x) \in Codes /\ w.size + Length(x) \in Nat
    BY <1>9, <1>10
  <2>2. first + Len(ids) \in Nat
    BY <1>1, <1>5
  <2>3. v \in Writers(w.BlockPositions, locals)
    BY <1>1, <1>8, <2>1, <2>2 DEF Writers0, Writers
  <2> QED
    BY <1>9, <2>3 DEF Writers0
<1>12. ToSet(v.PostponedJumps) = {} /\ Pending(v) = {}
  BY <1>9 DEF Pending, ToSet
<1>13. v.ResultReg <= v.NextReg
  BY <1>1, <1>5, <1>9
<1>14. \A id \in DOMAIN v.Locals : v.Locals[id] \in 1 .. v.NextReg
  BY <1>6, <1>7, <1>9
<1>15. Good(v)
  BY <1>10, <1>11, <1>12, <1>13, <1>14 DEF Good
<1>16. Printing(v)
  BY <1>7, <1>9, <1>15 DEF Printing, ids
<1>17. Grows(w, v)
  BY <1>1, <1>10 DEF Grows, Bounds
<1>18. Apart(v, w.size, D) /\ (Finished(w, w.size, D) => Finished(v, w.size, D))
  BY <1>15, <1>17, FinishedKept DEF Apart, Bounds, Grows
<1>19. D \subseteq Sites(w)
  BY DEF Apart
<1>20. w.size \in Declarations(v)
  BY <1>3, <1>10 DEF Declarations
<1>21. v.size \notin D
  BY <1>1, <1>10, <1>19
<1>22. \A j \in Sites(v) : ~(j > w.size)
  BY <1>1, <1>10
<1>23. Body(v, w.size, D)
  BY <1>9, <1>10, <1>12, <1>20, <1>21, <1>22 DEF Body, Opened
<1> QED
  BY <1>9, <1>10, <1>16, <1>17, <1>18, <1>23 DEF x, ids, locals, first

-----------------------------------------------------------------------------
(* The end of a function *)

LEMMA SkipChanged ==
    \A x \in Instructions : \A n \in Nat :
        LET y == [x EXCEPT !.nskip = n]
        IN  y \in Instructions /\ Alike(y, x) /\ y.nskip = n
BY DEF Instructions, Alike

LEMMA FixupFDGood ==
    ASSUME NEW w, Good(w), NEW h \in Sites(w)
    PROVE  LET v == FixupFD(w, h)
           IN  /\ Good(v) /\ v \in Writers0(w) /\ Patched(w, v)
               /\ v.PostponedJumps = w.PostponedJumps
               /\ \A j \in Sites(w) \ {h} : v.code[j] = w.code[j]
               /\ Past(v, h) = w.size
<1> DEFINE v == FixupFD(w, h)
           n == w.size - (h + Length(w.code[h]))
           y == [w.code[h] EXCEPT !.nskip = n]
<1>1. /\ w.size \in Nat /\ h \in Nat /\ w.code[h] \in Instructions
      /\ After(w, h) \in Bounds(w) /\ \A j \in Sites(w) : j \in Nat /\ j < w.size
  BY GoodParts
<1>2. After(w, h) \in Nat /\ After(w, h) <= w.size
  <2>1. \A t \in Bounds(w) : t \in Nat /\ t <= w.size
    BY <1>1 DEF Bounds
  <2> HIDE DEF v, n, y
  <2> QED
    BY <1>1, <2>1
<1>3. n \in Nat
  BY <1>1, <1>2 DEF After
<1> HIDE DEF n
<1>4. y \in Instructions /\ Alike(y, w.code[h]) /\ y.nskip = n
  BY <1>1, <1>3, SkipChanged
<1> HIDE DEF y
<1>5. v = Patch(w, h, y)
  BY DEF y, n, FixupFD, Patch
<1> HIDE DEF v
<1>6. /\ Good(v) /\ v \in Writers0(w) /\ Patched(w, v)
      /\ v.PostponedJumps = w.PostponedJumps
      /\ v.code[h] = y /\ \A j \in Sites(w) \ {h} : v.code[j] = w.code[j]
  BY <1>4, <1>5, PatchSite
<1>7. Past(v, h) = w.size
  <2>1. After(v, h) = After(w, h)
    BY <1>6, PatchedText
  <2>2. Past(v, h) = After(w, h) + n
    BY <1>4, <1>6, <2>1 DEF Past
  <2>3. n = w.size - After(w, h)
    BY DEF n, After
  <2> QED
    BY <1>1, <1>2, <2>2, <2>3
<1> QED
  BY <1>6, <1>7 DEF v

\* v is w with k of the postponed jumps fixed.
Fixes(w, v, k) ==
    /\ Good(v) /\ v \in Writers0(w) /\ Patched(w, v)
    /\ v.PostponedJumps = w.PostponedJumps
    /\ \A j \in Sites(w) :
        \/ v.code[j] = w.code[j] /\ \A i \in 1 .. k : w.PostponedJumps[i].pos # j
        \/ \E i \in 1 .. k :
              /\ w.PostponedJumps[i].pos = j
              /\ j + v.code[j].off = w.BlockPositions[w.PostponedJumps[i].block]

Fixing(w) == {v \in Writers0(w) : Good(v) /\ Patched(w, v)
                                  /\ v.PostponedJumps = w.PostponedJumps}

LEMMA FoldFix ==
    ASSUME NEW w, Good(w),
           \A b \in DOMAIN F.blocks :
               b \in DOMAIN w.BlockPositions /\ w.BlockPositions[b] \in Nat
    PROVE  Fixes(w, FixupPostponed(w), Len(w.PostponedJumps))
<1> DEFINE s == w.PostponedJumps
           n == Len(s)
           Position(b) ==
               IF b \in DOMAIN w.BlockPositions THEN w.BlockPositions[b] ELSE 0
           Op(v, p) == [v EXCEPT !.code[p.pos].off = Position(p.block) - p.pos]
           G == Fixing(w)
           Gs == [k \in 0 .. n |-> {v \in G : Fixes(w, v, k)}]
           Step == [p \in G \X (1 .. n) |-> Op(p[1], s[p[2]])]
           Fold(it) == [t \in SUBSET DOMAIN s |->
                          IF t = {} THEN w ELSE Op(it[t \ {Max(t)}], s[Max(t)])]
           fold == CHOOSE it : it = Fold(it)
<1>0. w \in Writers0(w) /\ s \in Seq([block : DOMAIN F.blocks, pos : Nat])
  BY DEF Good, Writers0, Writers
<1>1. /\ DOMAIN s = 1 .. n /\ n \in Nat
      /\ \A k \in 1 .. n : s[k] \in [block : DOMAIN F.blocks, pos : Nat]
  <2> DEFINE T == [block : DOMAIN F.blocks, pos : Nat]
  <2>1. s \in Seq(T)
    BY <1>0
  <2> HIDE DEF s, T
  <2>2. DOMAIN s = 1 .. n /\ n \in Nat /\ \A k \in 1 .. n : s[k] \in T
    BY <2>1
  <2> QED
    BY <2>2 DEF T
<1>2. Patched(w, w)
  BY GoodParts DEF Patched, Alike
<1>3. w \in G /\ Fixes(w, w, 0)
  BY <1>0, <1>2 DEF Fixing, Fixes
<1>4. ASSUME NEW v \in G, NEW k \in 1 .. n
      PROVE  /\ Op(v, s[k]) \in G
             /\ Fixes(w, v, k - 1) => Fixes(w, Op(v, s[k]), k)
  <2> DEFINE p == s[k]
             c == w.BlockPositions[p.block]
             y == [v.code[p.pos] EXCEPT !.off = c - p.pos]
             u == Op(v, p)
  <2>1. p \in [block : DOMAIN F.blocks, pos : Nat]
    BY <1>1
  <2>2. p.block \in DOMAIN F.blocks /\ p.pos \in Nat
    BY <2>1
  <2>3. p.pos \in Pending(w)
    BY <1>1 DEF Pending, ToSet
  <2>4. /\ Good(v) /\ v \in Writers0(w) /\ Patched(w, v) /\ v.PostponedJumps = s
        /\ Sites(v) = Sites(w)
    BY DEF Fixing, Patched
  <2>5. p.pos \in Sites(w) /\ p.pos \in Sites(v)
    BY <2>3, <2>4 DEF Good
  <2>6. c \in Nat /\ Position(p.block) = c
    BY <2>2
  <2> HIDE DEF p, c
  <2>7. v.code[p.pos] \in Instructions
    BY <2>4, <2>5, GoodParts
  <2>8. y \in Instructions /\ Alike(y, v.code[p.pos]) /\ y.off = c - p.pos
    <3>1. c - p.pos \in Int
      BY <2>2, <2>6
    <3> QED
      BY <2>7, <3>1, OffsetChanged
  <2> HIDE DEF y
  <2>9. u = Patch(v, p.pos, y)
    BY <2>6 DEF y, Patch
  <2> HIDE DEF u, Op
  <2>10. /\ Good(u) /\ u \in Writers0(v) /\ Patched(v, u)
         /\ u.PostponedJumps = v.PostponedJumps
         /\ u.code[p.pos] = y /\ \A j \in Sites(v) \ {p.pos} : u.code[j] = v.code[j]
    BY <2>4, <2>5, <2>8, <2>9, PatchSite
  <2>11. u \in Writers0(w)
    BY <2>4, <2>10 DEF Writers0, Writers
  <2>12. Patched(w, u)
    BY <2>4, <2>10 DEF Patched, Alike
  <2>13. u \in G
    BY <2>4, <2>10, <2>11, <2>12 DEF Fixing
  <2>14. ASSUME Fixes(w, v, k - 1) PROVE Fixes(w, u, k)
    <3>1. ASSUME NEW j \in Sites(w)
          PROVE  \/ u.code[j] = w.code[j] /\ \A i \in 1 .. k : s[i].pos # j
                 \/ \E i \in 1 .. k :
                       s[i].pos = j /\ j + u.code[j].off = w.BlockPositions[s[i].block]
      <4>1. CASE j = p.pos
        <5>1. j + u.code[j].off = c
          BY <2>2, <2>6, <2>8, <2>10, <4>1
        <5> QED
          BY <2>2, <4>1, <5>1 DEF c, p
      <4>2. CASE j # p.pos
        <5>1. u.code[j] = v.code[j]
          BY <2>4, <2>10, <4>2
        <5>2. \/ v.code[j] = w.code[j] /\ \A i \in 1 .. k - 1 : s[i].pos # j
              \/ \E i \in 1 .. k - 1 :
                    s[i].pos = j /\ j + v.code[j].off = w.BlockPositions[s[i].block]
          BY <2>14 DEF Fixes
        <5>3. ASSUME \A i \in 1 .. k - 1 : s[i].pos # j
              PROVE  \A i \in 1 .. k : s[i].pos # j
          <6>1. \A i \in 1 .. k : i = k \/ i \in 1 .. k - 1
            OBVIOUS
          <6> QED
            BY <4>2, <5>3, <6>1 DEF p
        <5>4. \A i \in 1 .. k - 1 : i \in 1 .. k
          OBVIOUS
        <5> QED
          BY <5>1, <5>2, <5>3, <5>4
      <4> QED
        BY <4>1, <4>2
    <3> QED
      BY <2>4, <2>10, <2>11, <2>12, <3>1 DEF Fixes
  <2> QED
    BY <2>13, <2>14 DEF u, p
<1> HIDE DEF Op, Step, s, G, n
<1>5. Step \in [G \X (1 .. n) -> G]
  BY <1>4 DEF Step
<1>6. PICK it : Unfolds(it, G, w, n, Step)
  BY <1>1, <1>3, <1>5, FoldExists
<1>7. it = Fold(it)
  <2>1. ASSUME NEW t \in SUBSET (1 .. n), t # {}
        PROVE  it[t] = Op(it[t \ {Max(t)}], s[Max(t)])
    <3>1. Max(t) \in 1 .. n /\ it[t \ {Max(t)}] \in G
          /\ it[t] = Step[<<it[t \ {Max(t)}], Max(t)>>]
      BY <1>6, <2>1 DEF Unfolds
    <3> QED
      BY <3>1 DEF Step
  <2> QED
    BY <1>1, <1>6, <2>1 DEF Unfolds
<1>8. fold = Fold(fold)
  BY <1>7
<1> HIDE DEF fold
<1>9. fold[1 .. n] \in Gs[n]
  <2>1. \A k \in 0 .. n : Gs[k] = {v \in G : Fixes(w, v, k)}
    OBVIOUS
  <2> HIDE DEF Gs
  <2>2. 0 \in 0 .. n /\ n \in 0 .. n
    BY <1>1
  <2>3. fold[{}] \in Gs[0]
    <3>1. fold[{}] = w
      BY <1>8
    <3> QED
      BY <1>3, <2>1, <2>2, <3>1
  <2>4. ASSUME NEW k \in 1 .. n, fold[1 .. k - 1] \in Gs[k - 1]
        PROVE  fold[1 .. k] \in Gs[k]
    <3>1. k - 1 \in 0 .. n /\ k \in 0 .. n
      BY <1>1
    <3>2. 1 .. k \in SUBSET (1 .. n) /\ 1 .. k # {} /\ Max(1 .. k) = k
          /\ (1 .. k) \ {k} = 1 .. k - 1
      BY <1>1, PrefixIndices
    <3>3. fold[1 .. k] = Op(fold[1 .. k - 1], s[k])
      BY <1>1, <1>8, <3>2
    <3>4. fold[1 .. k - 1] \in G /\ Fixes(w, fold[1 .. k - 1], k - 1)
      BY <2>1, <2>4, <3>1
    <3>5. Op(fold[1 .. k - 1], s[k]) \in G /\ Fixes(w, Op(fold[1 .. k - 1], s[k]), k)
      BY <1>4, <3>4
    <3> QED
      BY <2>1, <3>1, <3>3, <3>5
  <2> QED
    BY <1>1, <2>3, <2>4, FoldEnds
<1>10. FixupPostponed(w) = fold[DOMAIN s]
  BY DEF FixupPostponed, FoldLeft, MapThenFoldSet, fold, Op, s
<1>11. n \in 0 .. n
  BY <1>1
<1> QED
  BY <1>1, <1>9, <1>10, <1>11 DEF n, s

\* A postponed jump comes to the block it is for.
LEMMA FixedJump ==
    ASSUME NEW w, Good(w), NEW u, Good(u), u.PostponedJumps = w.PostponedJumps,
           Sites(u) = Sites(w), u.BlockPositions = w.BlockPositions,
           NEW v, Fixes(u, v, Len(u.PostponedJumps)), NEW p \in ToSet(w.PostponedJumps)
    PROVE  /\ p.block \in DOMAIN F.blocks
           /\ p.pos + v.code[p.pos].off = w.BlockPositions[p.block]
<1> DEFINE s == u.PostponedJumps
           n == Len(s)
           T == [block : DOMAIN F.blocks, pos : Nat]
<1>1. s \in Seq(T)
  BY DEF Good, Writers0, Writers
<1>2. p.pos \in Sites(w)
  BY DEF Good, Pending
<1>3. \/ v.code[p.pos] = u.code[p.pos] /\ \A i \in 1 .. n : s[i].pos # p.pos
      \/ \E i \in 1 .. n :
            s[i].pos = p.pos /\ p.pos + v.code[p.pos].off = w.BlockPositions[s[i].block]
  BY <1>2 DEF Fixes
<1>4. \A q, r \in ToSet(s) : q.pos = r.pos => q = r
  BY DEF Good
<1> HIDE DEF s, T
<1>5. DOMAIN s = 1 .. n /\ \A i \in 1 .. n : s[i] \in T /\ s[i] \in ToSet(s)
  BY <1>1 DEF ToSet
<1>6. PICK k \in 1 .. n : p = s[k]
  BY <1>5 DEF ToSet, s
<1>7. p.pos + v.code[p.pos].off = w.BlockPositions[p.block]
  BY <1>3, <1>4, <1>5, <1>6
<1>8. p \in T
  BY <1>5, <1>6
<1> QED
  BY <1>7, <1>8 DEF T

\* Only its declaration and the postponed jumps of a function change.
LEMMA FunctionFixed ==
    ASSUME NEW w, Good(w), NEW h, NEW D, Body(w, h, D),
           \A b \in DOMAIN F.blocks : b \in DOMAIN w.BlockPositions,
           NEW v, v = FixupPostponed(FixupFD(w, h))
    PROVE  /\ Good(v) /\ Patched(w, v) /\ Pending(v) = Pending(w)
           /\ \A j \in Sites(w) : j # h /\ j \notin Pending(w) => v.code[j] = w.code[j]
           /\ Past(v, h) = w.size
           /\ \A p \in ToSet(w.PostponedJumps) :
                /\ p.block \in DOMAIN F.blocks
                /\ p.pos + v.code[p.pos].off = w.BlockPositions[p.block]
<1> DEFINE u == FixupFD(w, h)
<1>1. h \in Sites(w) /\ \A j \in Sites(w) : j \in Nat
  BY BodySites, GoodParts
<1>2. /\ Good(u) /\ u \in Writers0(w) /\ Patched(w, u)
      /\ u.PostponedJumps = w.PostponedJumps
      /\ \A j \in Sites(w) \ {h} : u.code[j] = w.code[j]
      /\ Past(u, h) = w.size
  BY <1>1, FixupFDGood
<1> HIDE DEF u
<1>3. u.BlockPositions = w.BlockPositions
  BY <1>2 DEF Writers0, Writers
<1>4. Fixes(u, v, Len(u.PostponedJumps))
  <2>1. \A b \in DOMAIN F.blocks :
            b \in DOMAIN u.BlockPositions /\ u.BlockPositions[b] \in Nat
    BY <1>1, <1>3, GoodParts DEF Body, Opened, Bounds
  <2> QED
    BY <1>2, <2>1, FoldFix DEF u
<1>5. Good(v) /\ v \in Writers0(u) /\ Patched(u, v) /\ v.PostponedJumps = w.PostponedJumps
  BY <1>2, <1>4 DEF Fixes
<1>6. Patched(w, v)
  BY <1>2, <1>5 DEF Patched, Alike
<1>7. Pending(v) = Pending(w)
  BY <1>5 DEF Pending
<1>8. ASSUME NEW j \in Sites(w), j \notin Pending(w) PROVE v.code[j] = u.code[j]
  <2>1. ASSUME NEW i \in 1 .. Len(u.PostponedJumps) PROVE u.PostponedJumps[i].pos # j
    <3>1. u.PostponedJumps \in Seq([block : DOMAIN F.blocks, pos : Nat])
      BY <1>2 DEF Writers0, Writers
    <3>2. i \in DOMAIN u.PostponedJumps
      BY <3>1
    <3>3. u.PostponedJumps[i].pos \in Pending(w)
      BY <1>2, <3>2 DEF Pending, ToSet
    <3> QED
      BY <1>8, <3>3
  <2>2. j \in Sites(u)
    BY <1>2 DEF Patched
  <2> QED
    BY <1>4, <2>1, <2>2 DEF Fixes
<1>9. \A p \in ToSet(w.PostponedJumps) :
        p.block \in DOMAIN F.blocks /\ p.pos + v.code[p.pos].off = w.BlockPositions[p.block]
  <2>1. Good(u) /\ Sites(u) = Sites(w) /\ u.PostponedJumps = w.PostponedJumps
    BY <1>2 DEF Patched
  <2> QED
    BY <1>3, <1>4, <2>1, FixedJump
<1>10. Past(v, h) = w.size
  <2>1. h \notin Pending(w)
    BY <1>1 DEF Body
  <2>2. v.code[h] = u.code[h]
    BY <1>1, <1>8, <2>1
  <2> QED
    BY <1>2, <2>2, SameCode
<1> QED
  BY <1>2, <1>5, <1>6, <1>7, <1>8, <1>9, <1>10

\* Fixing the jumps moves nothing.
LEMMA FunctionText ==
    ASSUME NEW w, Good(w), NEW h, NEW D, Body(w, h, D),
           \A b \in DOMAIN F.blocks : b \in DOMAIN w.BlockPositions,
           NEW v, v = FixupPostponed(FixupFD(w, h))
    PROVE  Good(v) /\ v.size = w.size /\ Sites(v) = Sites(w)
BY FunctionFixed, PatchedText DEF Patched

\* With its jumps fixed a function is finished, if no block of it is open.
LEMMA FunctionFinished ==
    ASSUME NEW w, Printing(w), NEW h, NEW D, Body(w, h, D), Finished(w, h, D),
           ~LastFalls(F, w.BlockPositions),
           \A b \in DOMAIN F.blocks : b \in DOMAIN w.BlockPositions,
           NEW v, v = FixupPostponed(FixupFD(w, h))
    PROVE  Good(v) /\ v.size = w.size /\ Finished(v, v.size, D)
<1>1. /\ Good(w)
      /\ h \in Sites(w) /\ h \in Nat /\ w.code[h].op = "fd" /\ h < w.size
      /\ After(w, h) \in Bounds(w) /\ After(w, h) > h /\ After(w, h) \in Nat
      /\ 0 \in Sites(w)
  BY BodySites DEF Printing
<1>2. /\ w.size \in Nat /\ \A j \in Sites(w) : j \in Nat /\ j < w.size /\ After(w, j) > j
      /\ Bounds(w) \subseteq Nat
      /\ \A j \in Sites(w) : After(w, j) \in Bounds(w)
  BY <1>1, GoodParts DEF Bounds
<1>3. \A b \in DOMAIN F.blocks :
        /\ w.BlockPositions[b] \in Sites(w) \ D /\ w.BlockPositions[b] > h
        /\ w.BlockPositions[b] \in Nat
  BY <1>2 DEF Body, Known
<1>4. /\ Good(v) /\ Patched(w, v) /\ Pending(v) = Pending(w)
      /\ \A j \in Sites(w) : j # h /\ j \notin Pending(w) => v.code[j] = w.code[j]
      /\ Past(v, h) = w.size
      /\ \A p \in ToSet(w.PostponedJumps) :
           /\ p.block \in DOMAIN F.blocks
           /\ p.pos + v.code[p.pos].off = w.BlockPositions[p.block]
  BY <1>1, FunctionFixed
<1>5. /\ v.size = w.size /\ Sites(v) = Sites(w) /\ Bounds(v) = Bounds(w)
      /\ \A j \in Sites(w) : After(v, j) = After(w, j)
      /\ \A j \in Sites(w) : v.code[j].op = w.code[j].op
  BY <1>1, <1>4, PatchedText DEF Patched, Alike
<1>6. ASSUME NEW j \in Pending(w)
       PROVE  \E b \in DOMAIN F.blocks : j + v.code[j].off = w.BlockPositions[b]
  BY <1>4 DEF Pending
<1>7. \A j \in Pending(w) : j > h
  BY DEF Body
<1>8. \A j \in Sites(w) : j < h => v.code[j] = w.code[j]
  BY <1>1, <1>2, <1>4, <1>7
<1>9. Agree(w, v, h)
  BY <1>5, <1>8 DEF Agree
<1>10. D \subseteq Sites(w) /\ h \notin D /\ 0 \notin D
  BY DEF Finished
<1>11. Finished(v, h, D)
  <2>1. h \in Bounds(v) /\ \A j \in Nat : j < h => (j \in D <=> j \in D)
    BY <1>1, <1>5 DEF Bounds
  <2> QED
    BY <1>1, <1>4, <1>5, <1>9, <1>10, <2>1, FinishedAgrees
<1>12. Past(v, h) = w.size /\ h \in Declarations(v)
  BY <1>1, <1>4, <1>5 DEF Declarations
<1>13. \A d \in Declarations(v) : d < h \/ d = h
  BY <1>1, <1>2, <1>5 DEF Declarations, Body
<1>14. \A d \in Declarations(v) : d < h => Past(v, d) <= h /\ Past(v, d) \in Int
  <2> SUFFICES ASSUME NEW d \in Declarations(v), d < h
               PROVE  Past(v, d) <= h /\ Past(v, d) \in Int
    OBVIOUS
  <2>1. d \in Sites(v) /\ Past(v, d) <= h
    BY <1>11 DEF Finished, Declarations
  <2>2. v.code[d].nskip \in Nat /\ After(v, d) \in Nat
    BY <1>2, <1>4, <1>5, <2>1, GoodParts DEF Instructions
  <2> QED
    BY <2>1, <2>2 DEF Past
<1>15. \A d \in Declarations(v) : Past(v, d) <= v.size
  BY <1>1, <1>2, <1>5, <1>12, <1>13, <1>14
<1>16. \A t \in Nat : t > h /\ t >= After(v, h) /\ t < w.size => InBody(v, t)
  BY <1>12 DEF InBody
<1>17. \A t \in Sites(w) : t > h => InBody(v, t)
  <2> SUFFICES ASSUME NEW t \in Sites(w), t > h PROVE InBody(v, t)
    OBVIOUS
  <2>1. t >= After(v, h)
    BY <1>1, <1>2, <1>5 DEF Good, Contiguous
  <2> QED
    BY <1>2, <1>16, <2>1
<1>18. ~InBody(v, h) /\ ~InBody(v, w.size)
  BY <1>1, <1>2, <1>5, <1>12, <1>13, <1>14 DEF InBody
<1>19. After(v, h) \in Sites(v) \ D /\ After(v, h) < v.size /\ InBody(v, After(v, h))
  <2>1. 1 \in DOMAIN F.blocks
    <3>1. F.blocks \in Seq(ToSet(F.blocks)) /\ F.blocks # <<>>
      BY DEF Printing, ValidFunction
    <3> QED
      BY <3>1
  <2>2. w.BlockPositions[1] \in Sites(w) /\ w.BlockPositions[1] > h
    BY <1>3, <2>1
  <2>3. w.BlockPositions[1] >= After(w, h)
    BY <1>1, <1>2, <2>2 DEF Good, Contiguous
  <2>4. After(w, h) < w.size
    <3> DEFINE first == w.BlockPositions[1]
               after == After(w, h)
    <3>1. first \in Nat /\ first < w.size /\ after \in Nat /\ w.size \in Nat
      BY <1>1, <1>2, <2>2
    <3>2. first >= after
      BY <2>3
    <3> HIDE DEF first, after
    <3>3. after < w.size
      BY <3>1, <3>2
    <3> QED
      BY <3>3 DEF after
  <2>5. After(w, h) \in Sites(w)
    BY <1>1, <1>2, <2>4 DEF Bounds
  <2>6. After(w, h) \notin D
    BY DEF Body
  <2> QED
    BY <1>1, <1>5, <1>17, <2>4, <2>5, <2>6
<1>20. \A j \in Sites(w) : j > h =>
          /\ v.code[j].op # "fd" /\ InBody(v, j)
          /\ j \notin D => \A t \in Targets(v, j) : t \in Sites(w) \ D /\ t > h
  <2> SUFFICES ASSUME NEW j \in Sites(w), j > h
               PROVE  /\ v.code[j].op # "fd" /\ InBody(v, j)
                      /\ j \notin D => \A t \in Targets(v, j) : t \in Sites(w) \ D /\ t > h
    OBVIOUS
  <2>1. /\ w.code[j].op # "fd"
        /\ j \notin D /\ j \notin Pending(w) =>
              \A t \in Targets(w, j) : t \in Sites(w) \ D /\ t > h
    BY DEF Body, Known
  <2>2. CASE j \in Pending(w)
    <3>1. v.code[j].op = "jmp"
      BY <1>4, <2>2 DEF Good
    <3>2. Targets(v, j) = {j + v.code[j].off}
      BY <3>1 DEF Targets
    <3> QED
      BY <1>3, <1>5, <1>6, <1>17, <2>1, <2>2, <3>2
  <2>3. CASE j \notin Pending(w)
    <3>1. v.code[j] = w.code[j]
      <4>1. j # h
        BY <1>1, <1>2
      <4> QED
        BY <1>4, <2>3, <4>1
    <3>2. Targets(v, j) = Targets(w, j)
      BY <3>1, SameCode
    <3> QED
      BY <1>17, <2>1, <2>3, <3>1, <3>2
  <2> QED
    BY <2>2, <2>3
<1>21. ASSUME NEW j \in Sites(v) \ D
       PROVE  /\ v.code[j].op \in {"ret", "leave"} => InBody(v, j)
              /\ v.code[j].op = "fd" =>
                  After(v, j) \in Sites(v) \ D /\ After(v, j) < v.size /\ InBody(v, After(v, j))
              /\ \A t \in Targets(v, j) :
                  t \in (Sites(v) \ D) \cup {v.size} /\ t <= v.size
                  /\ (InBody(v, t) <=> InBody(v, j))
  <2>0. j \in Nat /\ j \in Sites(w)
    BY <1>2, <1>5
  <2>1. CASE j < h
    <3>1. /\ v.code[j].op \in {"ret", "leave"} => InBody(v, j)
          /\ v.code[j].op = "fd" =>
              After(v, j) \in Sites(v) \ D /\ After(v, j) < h /\ InBody(v, After(v, j))
          /\ \A t \in Targets(v, j) :
              t \in (Sites(v) \ D) \cup {h} /\ t <= h /\ (InBody(v, t) <=> InBody(v, j))
      BY <1>11, <2>1 DEF Finished
    <3>2. \A t \in (Sites(v) \ D) \cup {h} : t \in Sites(v) \ D /\ t <= v.size
      BY <1>1, <1>2, <1>5, <1>10
    <3>3. \A t \in Sites(v) : t < v.size
      BY <1>2, <1>5
    <3> QED
      BY <3>1, <3>2, <3>3
  <2>2. CASE j = h
    <3>1. v.code[j].op = "fd"
      BY <1>1, <1>5, <2>2
    <3>2. Targets(v, j) = {v.size}
      BY <1>5, <1>12, <2>2, <3>1 DEF Targets
    <3>3. v.size <= v.size
      BY <1>2, <1>5
    <3> QED
      BY <1>5, <1>18, <1>19, <2>2, <3>1, <3>2, <3>3
  <2>3. CASE j > h
    <3>1. /\ v.code[j].op # "fd" /\ InBody(v, j)
          /\ \A t \in Targets(v, j) : t \in Sites(w) \ D /\ t > h
      BY <1>20, <2>0, <2>3
    <3>2. \A t \in Sites(w) : t <= v.size
      BY <1>2, <1>5
    <3> QED
      BY <1>5, <1>17, <3>1, <3>2
  <2> QED
    BY <1>1, <2>0, <2>1, <2>2, <2>3
<1>22. v.size \in Bounds(v) /\ v.size \notin D
  BY <1>2, <1>5, <1>10 DEF Bounds
<1>23. Finished(v, v.size, D)
  BY <1>5, <1>10, <1>15, <1>21, <1>22 DEF Finished
<1> QED
  BY <1>4, <1>5, <1>23

-----------------------------------------------------------------------------
(* The sites control comes to *)

Onward(p, j) == Targets(p, j) \cup (IF p.code[j].op = "fd" THEN {After(p, j)} ELSE {})

\* What control comes to from S in one more step.
Reach(p, S) == S \cup ((UNION {Onward(p, j) : j \in S}) \cap Sites(p))

Closed(p, S) == \A j \in S : \A t \in Onward(p, j) : t \in Sites(p) => t \in S

LEMMA ReachMeaning ==
    \A p, R, S : R \subseteq S /\ Closed(p, S) =>
        R \subseteq Reach(p, R) /\ Reach(p, R) \subseteq S /\ Reach(p, S) = S
<1> SUFFICES ASSUME NEW p, NEW R, NEW S, R \subseteq S, Closed(p, S)
             PROVE  R \subseteq Reach(p, R) /\ Reach(p, R) \subseteq S /\ Reach(p, S) = S
  OBVIOUS
<1>1. \A Q : \A t : t \in Reach(p, Q) <=>
        t \in Q \/ (t \in Sites(p) /\ \E j \in Q : t \in Onward(p, j))
  BY DEF Reach
<1> QED
  BY <1>1 DEF Closed

LEMMA ReachMore ==
    \A p, R : \A j \in R : \A t \in Onward(p, j) :
        t \in Sites(p) => R \cup {t} \subseteq Reach(p, R)
BY DEF Reach

\* reached is what WithLive computes, within S.
Reaches(p, S, N, reached) ==
    /\ reached[0] = {0}
    /\ \A n \in 1 .. N : reached[n] = Reach(p, reached[n - 1])
    /\ \A n \in 0 .. N : reached[n] \in SUBSET S

Stepwise(p, N, f) == [n \in 0 .. N |-> IF n = 0 THEN {0} ELSE Reach(p, f[n - 1])]

LEMMA StepwiseValues ==
    \A p, f : \A N \in Nat : f = Stepwise(p, N, f) =>
        f[0] = {0} /\ \A n \in 1 .. N : f[n] = Reach(p, f[n - 1])
<1> SUFFICES ASSUME NEW p, NEW f, NEW N \in Nat, f = Stepwise(p, N, f)
             PROVE  f[0] = {0} /\ \A n \in 1 .. N : f[n] = Reach(p, f[n - 1])
  OBVIOUS
<1>1. \A n \in 0 .. N : f[n] = IF n = 0 THEN {0} ELSE Reach(p, f[n - 1])
  BY Zenon DEF Stepwise
<1>2. 0 \in 0 .. N /\ \A n \in 1 .. N : n \in 0 .. N /\ n # 0
  OBVIOUS
<1> QED
  BY <1>1, <1>2

LEMMA ReachExists ==
    ASSUME NEW p, NEW S, S \subseteq Sites(p), 0 \in S, Closed(p, S), NEW N \in Nat
    PROVE  \E reached : Reaches(p, S, N, reached)
                        /\ reached = Stepwise(p, N, reached)
<1> DEFINE G == SUBSET S
           Step == [x \in G \X (1 .. N) |-> Reach(p, x[1])]
<1>1. {0} \in G
  OBVIOUS
<1>2. Step \in [G \X (1 .. N) -> G]
  BY ReachMeaning
<1> HIDE DEF G, Step
<1>3. PICK it : Unfolds(it, G, {0}, N, Step)
  BY <1>1, <1>2, FoldExists
<1> DEFINE reached == [n \in 0 .. N |-> it[1 .. n]]
<1>4. \A n \in 0 .. N : it[1 .. n] \in G
  BY <1>3 DEF Unfolds
<1>5. it[1 .. 0] = {0}
  <2>1. 1 .. 0 = {}
    OBVIOUS
  <2> QED
    BY <1>3, <2>1 DEF Unfolds
<1>6. ASSUME NEW n \in 1 .. N PROVE it[1 .. n] = Reach(p, it[1 .. n - 1])
  <2>1. 1 .. n \in SUBSET (1 .. N) /\ 1 .. n # {} /\ Max(1 .. n) = n
        /\ (1 .. n) \ {n} = 1 .. n - 1
    BY PrefixIndices
  <2>2. it[1 .. n - 1] \in G /\ it[1 .. n] = Step[<<it[1 .. n - 1], n>>]
    BY <1>3, <2>1 DEF Unfolds
  <2> QED
    BY <2>2 DEF Step
<1>7. \A n \in 1 .. N : n - 1 \in 0 .. N /\ n \in 0 .. N
  OBVIOUS
<1>8. 0 \in 0 .. N /\ \A n \in 0 .. N : n # 0 => n \in 1 .. N
  OBVIOUS
<1>9. \A n \in 0 .. N : reached[n] = it[1 .. n]
  OBVIOUS
<1>10. reached[0] = {0}
  BY <1>5, <1>8, <1>9
<1>11. \A n \in 1 .. N : reached[n] = Reach(p, reached[n - 1])
  BY <1>6, <1>7, <1>9
<1>12. \A n \in 0 .. N : reached[n] \in SUBSET S
  BY <1>4, <1>9 DEF G
<1>13. DOMAIN reached = 0 .. N /\ reached = [n \in 0 .. N |-> reached[n]]
  OBVIOUS
<1> HIDE DEF reached
<1>14. reached = Stepwise(p, N, reached)
  <2>1. \A n \in 0 .. N : reached[n] = IF n = 0 THEN {0} ELSE Reach(p, reached[n - 1])
    BY <1>8, <1>10, <1>11
  <2> QED
    BY <1>13, <2>1 DEF Stepwise
<1>15. Reaches(p, S, N, reached)
  BY <1>10, <1>11, <1>12 DEF Reaches
<1> QED
  BY <1>14, <1>15

\* As many steps as there are sites are enough: each comes to another site, or
\* the last came to none.
LEMMA ReachCloses ==
    ASSUME NEW p, IsFiniteSet(Sites(p)), NEW S, S \subseteq Sites(p),
           NEW reached, Reaches(p, S, Cardinality(Sites(p)), reached)
    PROVE  LET R == reached[Cardinality(Sites(p))]
           IN  R \subseteq S /\ 0 \in R /\ Closed(p, R)
<1> DEFINE N == Cardinality(Sites(p))
           T == {n \in Nat : n <= N =>
                    /\ 0 \in reached[n]
                    /\ Closed(p, reached[n]) \/ Cardinality(reached[n]) >= n + 1}
<1>1. N \in Nat
  BY FS_CardinalityType
<1>2. ASSUME NEW n \in 0 .. N
      PROVE  /\ reached[n] \subseteq Sites(p) /\ reached[n] \subseteq S
             /\ IsFiniteSet(reached[n])
             /\ Cardinality(reached[n]) \in Nat /\ Cardinality(reached[n]) <= N
  <2>1. reached[n] \in SUBSET S
    BY <1>2 DEF Reaches
  <2>2. reached[n] \in SUBSET Sites(p)
    BY <2>1
  <2>3. IsFiniteSet(reached[n]) /\ Cardinality(reached[n]) <= N
    BY <2>2, FS_Subset
  <2> QED
    BY <2>1, <2>2, <2>3, FS_CardinalityType
<1> HIDE DEF N
<1>3. 0 \in T
  <2>1. reached[0] = {0}
    BY DEF Reaches
  <2>2. Cardinality(reached[0]) = 1
    BY <2>1, FS_Singleton
  <2> QED
    BY <2>1, <2>2
<1>4. ASSUME NEW n \in T PROVE n + 1 \in T
  <2> DEFINE R == reached[n]
             Q == reached[n + 1]
  <2>1. n \in Nat
    OBVIOUS
  <2> SUFFICES ASSUME n + 1 <= N
               PROVE  0 \in Q /\ (Closed(p, Q) \/ Cardinality(Q) >= (n + 1) + 1)
    BY <2>1
  <2>2. n \in 0 .. N /\ n + 1 \in 0 .. N /\ n + 1 \in 1 .. N /\ (n + 1) - 1 = n
    BY <1>1, <2>1
  <2>3. Q = Reach(p, R)
    <3>1. reached[n + 1] = Reach(p, reached[(n + 1) - 1])
      BY <2>2 DEF Reaches, N
    <3> QED
      BY <2>2, <3>1
  <2>4. 0 \in R /\ (Closed(p, R) \/ Cardinality(R) >= n + 1)
    BY <1>1, <2>1
  <2>5. /\ IsFiniteSet(R) /\ Cardinality(R) \in Nat
        /\ IsFiniteSet(Q) /\ Cardinality(Q) \in Nat
    BY <1>2, <2>2
  <2> HIDE DEF R, Q, T
  <2>6. CASE Closed(p, R)
    <3>1. Q = R
      BY <2>3, <2>6, ReachMeaning
    <3> QED
      BY <2>4, <2>6, <3>1
  <2>7. CASE ~Closed(p, R)
    <3>1. PICK j \in R : \E t \in Onward(p, j) : t \in Sites(p) /\ t \notin R
      BY <2>7 DEF Closed
    <3>2. PICK t \in Onward(p, j) : t \in Sites(p) /\ t \notin R
      BY <3>1
    <3>3. R \cup {t} \in SUBSET Q
      BY <2>3, <3>1, <3>2, ReachMore
    <3>4. Cardinality(R \cup {t}) = Cardinality(R) + 1
      BY <2>5, <3>2, FS_AddElement
    <3>5. Cardinality(R \cup {t}) <= Cardinality(Q)
      BY <2>5, <3>3, FS_Subset
    <3>6. 0 \in Q
      BY <2>4, <3>3
    <3> QED
      BY <2>1, <2>4, <2>5, <2>7, <3>4, <3>5, <3>6
  <2> QED
    BY <2>6, <2>7
<1>5. T = Nat
  <2>1. T \subseteq Nat
    OBVIOUS
  <2> HIDE DEF T
  <2> QED
    BY <1>3, <1>4, <2>1, Induction
<1>6. 0 \in reached[N] /\ (Closed(p, reached[N]) \/ Cardinality(reached[N]) >= N + 1)
  BY <1>1, <1>5
<1>7. reached[N] \subseteq S /\ Cardinality(reached[N]) \in Nat /\ Cardinality(reached[N]) <= N
  BY <1>1, <1>2
<1>8. Closed(p, reached[N])
  BY <1>1, <1>6, <1>7
<1> QED
  BY <1>6, <1>7, <1>8 DEF N

\* What control comes to is closed, and within any closed set with the start.
LEMMA LiveCloses ==
    ASSUME NEW p, IsFiniteSet(Sites(p)), NEW S, S \subseteq Sites(p), 0 \in S, Closed(p, S)
    PROVE  LET R == Live(WithLive(p))
           IN  R \subseteq S /\ 0 \in R /\ Closed(p, R)
<1> DEFINE N == Cardinality(Sites(p))
           reached == CHOOSE f : f = Stepwise(p, N, f)
<1>1. N \in Nat
  BY FS_CardinalityType
<1>2. \E f : f = Stepwise(p, N, f)
  BY <1>1, ReachExists
<1>3. reached = Stepwise(p, N, reached)
  BY <1>2
<1> HIDE DEF reached, N
<1>4. Reaches(p, S, N, reached)
  <2>1. reached[0] = {0}
    BY <1>1, <1>3, StepwiseValues
  <2>2. \A n \in 1 .. N : reached[n] = Reach(p, reached[n - 1])
    BY <1>1, <1>3, StepwiseValues
  <2>3. \A n \in 0 .. N : reached[n] \in SUBSET S
    <3> DEFINE T == {n \in Nat : n <= N => reached[n] \in SUBSET S}
    <3>1. 0 \in T
      BY <2>1
    <3>2. ASSUME NEW n \in T PROVE n + 1 \in T
      <4>1. n \in Nat /\ (n + 1) - 1 = n
        OBVIOUS
      <4> SUFFICES ASSUME n + 1 <= N PROVE reached[n + 1] \in SUBSET S
        BY <4>1
      <4>2. reached[n] \in SUBSET S /\ n + 1 \in 1 .. N
        BY <1>1, <4>1
      <4>3. reached[n + 1] = Reach(p, reached[n])
        BY <2>2, <4>1, <4>2
      <4> QED
        BY <4>2, <4>3, ReachMeaning
    <3>3. T = Nat
      <4>1. T \subseteq Nat
        OBVIOUS
      <4> HIDE DEF T
      <4> QED
        BY <3>1, <3>2, <4>1, Induction
    <3> QED
      BY <1>1, <3>3
  <2> QED
    BY <2>1, <2>2, <2>3 DEF Reaches
<1>5. Live(WithLive(p)) = reached[N]
  BY DEF WithLive, Live, reached, Stepwise, Reach, Onward, N
<1> QED
  BY <1>4, <1>5, ReachCloses DEF N

-----------------------------------------------------------------------------
(* The invariant *)

Activations == [loops : Seq(DOMAIN LI), begin : Nat, todo : SUBSET DOMAIN LI]

\* Block b is still to be printed: by itself, or with a loop it is in.
Waits(b) ==
    \E n \in DOMAIN work : \E c \in work[n].todo :
        (LI[c] = work[n].loops /\ c = b) \/ (LI[c] # work[n].loops /\ c \in ToSet(LI[b]))

\* No function printed so far lets control fall out of its body.
Tight == \A n \in DOMAIN layout : ~FallsOut(n)

\* Between two functions.
Idle(D) ==
    /\ Good(writer)
    /\ writer.Locals = <<>> /\ writer.PostponedJumps = <<>> /\ writer.BlockPositions = <<>>
    /\ Apart(writer, writer.size, D)
    /\ Tight => Finished(writer, writer.size, D)

\* In a function: the text is finished up to its declaration, and is its Body
\* from there.
Busy(D) ==
    /\ fn <= Len(M.functions)
    /\ LI = LoopInfo(F)
    /\ work \in Seq(Activations)
    /\ Printing(writer)
    /\ Body(writer, work[1].begin, D) /\ Apart(writer, work[1].begin, D)
    /\ Tight => Finished(writer, work[1].begin, D)
    /\ \A n \in 2 .. Len(work) :
        work[n].begin \in Bounds(writer) \ D /\ work[n].begin > work[1].begin
    /\ \A b \in DOMAIN LI : b \in DOMAIN writer.BlockPositions \/ Waits(b)

\* Where the pass is in the module.
Types ==
    /\ module \in DOMAIN Modules
    /\ fn \in Nat \ {0}
    /\ layout \in Seq(ToSet(layout)) /\ Len(layout) = fn - 1
    /\ ended => work = <<>> /\ fn > Len(M.functions) /\ writer.size # 0

Inv ==
    /\ Types
    /\ work = <<>> => \E D : Idle(D)
    /\ work # <<>> => \E D : Busy(D)

LEMMA LoopTypes ==
    \A f : ValidFunction(f) =>
        /\ DOMAIN LoopInfo(f) = DOMAIN f.blocks
        /\ LoopsNest(LoopInfo(f))
        /\ DOMAIN f.blocks \subseteq Nat /\ 1 \in DOMAIN f.blocks
<1> SUFFICES ASSUME NEW f, ValidFunction(f)
             PROVE  /\ DOMAIN LoopInfo(f) = DOMAIN f.blocks
                    /\ LoopsNest(LoopInfo(f))
                    /\ DOMAIN f.blocks \subseteq Nat /\ 1 \in DOMAIN f.blocks
  OBVIOUS
<1>1. DOMAIN LoopInfo(f) = DOMAIN f.blocks
  BY Zenon DEF LoopInfo
<1>2. f.blocks \in Seq(ToSet(f.blocks)) /\ f.blocks # <<>>
  BY DEF ValidFunction
<1>3. DOMAIN f.blocks \subseteq Nat /\ 1 \in DOMAIN f.blocks
  BY <1>2
<1> QED
  BY <1>1, <1>3 DEF ValidFunction

\* The loops around a block begin with those around a loop it is in.
LEMMA LoopsAround ==
    ASSUME NEW li, LoopsNest(li), NEW b \in DOMAIN li, NEW c \in ToSet(li[b])
    PROVE  /\ c \in DOMAIN li
           /\ \E n \in 1 .. Len(li[b]) : c = li[b][n] /\ li[c] = SubSeq(li[b], 1, n)
<1>1. li[b] \in Seq(DOMAIN li)
      /\ \A n \in DOMAIN li[b] : li[li[b][n]] = SubSeq(li[b], 1, n)
  BY DEF LoopsNest
<1>2. PICK n \in DOMAIN li[b] : c = li[b][n]
  BY DEF ToSet
<1>3. n \in 1 .. Len(li[b]) /\ c \in DOMAIN li
  BY <1>1, <1>2
<1> QED
  BY <1>1, <1>2, <1>3

\* A block in a loop is printed for that loop, or with a loop just inside it.
LEMMA JustInside ==
    ASSUME NEW li, LoopsNest(li), NEW b \in DOMAIN li, NEW loops, NEW n \in Nat,
           n <= Len(li[b]), loops = SubSeq(li[b], 1, n)
    PROVE  \E c \in InLoop(li, loops) :
               (li[c] = loops /\ c = b) \/ (li[c] # loops /\ c \in ToSet(li[b]))
<1>1. li[b] \in Seq(DOMAIN li)
      /\ \A k \in DOMAIN li[b] : li[li[b][k]] = SubSeq(li[b], 1, k)
  BY DEF LoopsNest
<1>2. Len(li[b]) \in Nat /\ DOMAIN li[b] = 1 .. Len(li[b])
  BY <1>1
<1>3. CASE n = Len(li[b])
  <2>1. SubSeq(li[b], 1, n) = li[b]
    BY <1>1, <1>3
  <2>2. b \in InLoop(li, loops)
    BY <2>1 DEF InLoop
  <2> QED
    BY <2>1, <2>2
<1>4. CASE n < Len(li[b])
  <2> DEFINE c == li[b][n + 1]
  <2>1. n + 1 \in DOMAIN li[b]
    BY <1>2, <1>4
  <2>2. c \in DOMAIN li /\ c \in ToSet(li[b]) /\ li[c] = SubSeq(li[b], 1, n + 1)
    BY <1>1, <2>1 DEF ToSet
  <2>3. SubSeq(li[b], 1, n + 1) = Append(SubSeq(li[b], 1, n), li[b][n + 1])
    BY <1>1, <1>2, <1>4
  <2> HIDE DEF c
  <2>4. li[c] = Append(loops, c)
    BY <2>2, <2>3 DEF c
  <2>5. c \in InLoop(li, loops)
    BY <2>2, <2>4 DEF InLoop
  <2>6. li[c] # loops
    <3>1. Len(SubSeq(li[b], 1, n + 1)) = n + 1 /\ Len(SubSeq(li[b], 1, n)) = n
      BY <1>1, <1>2, <1>4
    <3> QED
      BY <2>2, <3>1
  <2> QED
    BY <2>2, <2>5, <2>6
<1>5. n = Len(li[b]) \/ n < Len(li[b])
  <2> DEFINE l == Len(li[b])
  <2>1. l \in Nat /\ n <= l
    BY <1>2
  <2> HIDE DEF l
  <2>2. n = l \/ n < l
    BY <2>1
  <2> QED
    BY <2>2 DEF l
<1> QED
  BY <1>3, <1>4, <1>5

LEMMA InitInv == Init => Inv
<1> SUFFICES ASSUME Init PROVE Inv
  OBVIOUS
<1> USE DEF Init
<1>1. /\ writer.code = <<>> /\ writer.size = 0 /\ writer.PostponedJumps = <<>>
      /\ writer.BlockPositions = <<>> /\ writer.Locals = <<>>
      /\ writer.NextReg = 0 /\ writer.ResultReg = 0
  BY DEF EmptyWriter
<1>2. /\ Sites(writer) = {} /\ DOMAIN writer.Locals = {}
      /\ ToSet(writer.PostponedJumps) = {} /\ Pending(writer) = {}
  BY <1>1 DEF Sites, Pending, ToSet
<1>3. writer \in Writers0(writer)
  <2>1. <<>> \in Codes
    <3>1. DOMAIN <<>> = {} /\ <<>> \in [DOMAIN <<>> -> Instructions]
      OBVIOUS
    <3> QED
      BY <3>1, CodesType
  <2>2. <<>> \in Seq([block : DOMAIN F.blocks, pos : Nat])
    OBVIOUS
  <2> QED
    BY <2>1, <2>2 DEF EmptyWriter, Writers0, Writers
<1>4. Good(writer)
  BY <1>1, <1>2, <1>3 DEF Good, Contiguous
<1>5. Finished(writer, writer.size, {}) /\ Apart(writer, writer.size, {})
  BY <1>1, <1>2 DEF Finished, Apart, Bounds, Declarations
<1>6. Idle({})
  BY <1>1, <1>4, <1>5 DEF Idle
<1>7. Types
  BY DEF Types, ToSet
<1> QED
  BY <1>6, <1>7 DEF Inv

LEMMA ValidModule ==
    Types => /\ M.functions \in Seq(ToSet(M.functions)) /\ M.globals \in Seq(ToSet(M.globals))
             /\ Len(M.functions) \in Nat
             /\ fn <= Len(M.functions) => ValidFunction(F)
             /\ \A g \in ToSet(M.globals) : ValidGlobal(g)
<1> SUFFICES ASSUME Types
             PROVE  /\ M.functions \in Seq(ToSet(M.functions))
                    /\ M.globals \in Seq(ToSet(M.globals))
                    /\ Len(M.functions) \in Nat
                    /\ fn <= Len(M.functions) => ValidFunction(F)
                    /\ \A g \in ToSet(M.globals) : ValidGlobal(g)
  OBVIOUS
<1>1. /\ M.functions \in Seq(ToSet(M.functions)) /\ M.globals \in Seq(ToSet(M.globals))
      /\ \A f \in ToSet(M.functions) : ValidFunction(f)
      /\ \A g \in ToSet(M.globals) : ValidGlobal(g)
  BY ModulesAssumption DEF Types, M
<1>2. Len(M.functions) \in Nat /\ DOMAIN M.functions = 1 .. Len(M.functions)
  BY <1>1
<1>3. fn <= Len(M.functions) => F \in ToSet(M.functions)
  BY <1>2 DEF Types, F, ToSet
<1> QED
  BY <1>1, <1>2, <1>3

\* The function being printed stays the same.
LEMMA SameFunction ==
    ASSUME UNCHANGED <<module, fn>>, Printing(writer') PROVE Printing(writer)'
<1>1. F' = F
  BY DEF F, M
<1>2. Good(writer)'
  BY <1>1 DEF Printing, Good, Writers0, Writers
<1> QED
  BY <1>1, <1>2 DEF Printing

LEMMA SameBody ==
    ASSUME UNCHANGED <<module, fn>>, NEW D, Body(writer', work'[1].begin, D)
    PROVE  Body(writer, work[1].begin, D)'
<1>1. F' = F
  BY DEF F, M
<1> QED
  BY <1>1 DEF Body, Known, Opened, LastFalls, Falls

LEMMA SameTight == UNCHANGED <<module, layout>> => (Tight' <=> Tight)
BY DEF Tight, FallsOut, LastFalls, Falls, M

LEMMA ByStartFunction == Inv /\ StartFunction => Inv'
<1> SUFFICES ASSUME Inv, StartFunction PROVE Inv'
  OBVIOUS
<1> USE DEF StartFunction
<1>1. PICK D : Idle(D)
  BY DEF Inv
<1>2. Types /\ ValidFunction(F)
  BY ValidModule DEF Inv
<1>3. /\ Printing(writer') /\ writer'.BlockPositions = <<>>
      /\ Body(writer', writer.size, D) /\ Apart(writer', writer.size, D)
      /\ Finished(writer, writer.size, D) => Finished(writer', writer.size, D)
  <2>1. Good(writer) /\ Apart(writer, writer.size, D) /\ writer' = Declared(writer, F)
        /\ writer.PostponedJumps = <<>> /\ writer.BlockPositions = <<>>
    BY <1>1 DEF Idle
  <2> HIDE DEF StartFunction
  <2> QED
    BY <1>2, <2>1, Declares
<1>4. Printing(writer)'
  BY <1>3, SameFunction
<1>5. F' = F /\ M' = M
  BY DEF F, M
<1>6. LI' = LoopInfo(F) /\ LoopsNest(LI')
  BY <1>2, LoopTypes
<1> DEFINE a == [loops |-> <<>>, begin |-> writer.size, todo |-> InLoop(LI', <<>>)]
<1>7. work' = <<a>>
  BY DEF Activation
<1>8. writer.size \in Nat
  BY <1>1, GoodParts DEF Idle
<1>9. a \in Activations'
  BY <1>8 DEF Activations, InLoop
<1>10. /\ a.loops = <<>> /\ a.begin = writer.size /\ a.todo = InLoop(LI', <<>>)
  OBVIOUS
<1> HIDE DEF a
<1>11. work' \in Seq(Activations') /\ Len(work') = 1 /\ work'[1] = a /\ DOMAIN work' = {1}
       /\ work' # <<>>
  BY <1>7, <1>9
<1>12. ASSUME NEW b \in DOMAIN LI' PROVE Waits(b)'
  <2>1. LI'[b] \in Seq(DOMAIN LI')
    BY <1>6 DEF LoopsNest
  <2>2. 0 <= Len(LI'[b]) /\ <<>> = SubSeq(LI'[b], 1, 0)
    BY <2>1
  <2>3. \E c \in InLoop(LI', <<>>) :
            (LI'[c] = <<>> /\ c = b) \/ (LI'[c] # <<>> /\ c \in ToSet(LI'[b]))
    BY <1>6, <2>2, JustInside
  <2> QED
    BY <1>10, <1>11, <2>3 DEF Waits
<1>13. Busy(D)'
  <2>1. (fn <= Len(M.functions))' /\ (LI = LoopInfo(F))'
    BY <1>5, <1>6
  <2>2. Body(writer, work[1].begin, D)'
    BY <1>3, <1>10, <1>11, SameBody
  <2>5. (Apart(writer, work[1].begin, D) /\ (Tight => Finished(writer, work[1].begin, D)))'
    BY <1>1, <1>3, <1>10, <1>11, SameTight DEF Idle
  <2>3. (work \in Seq(Activations))'
    BY <1>11
  <2>4. (\A n \in 2 .. Len(work) :
            work[n].begin \in Bounds(writer) \ D /\ work[n].begin > work[1].begin)'
    BY <1>11
  <2> QED
    BY <1>4, <1>12, <2>1, <2>2, <2>3, <2>4, <2>5 DEF Busy
<1>14. Types'
  <2>1. module \in DOMAIN Modules /\ fn \in Nat \ {0} /\ ~ended
    BY <1>2 DEF Types
  <2> QED
    BY <1>2, <1>5, <2>1 DEF Types
<1> QED
  BY <1>11, <1>13, <1>14 DEF Inv

\* A block that was to be printed no longer is.
LEMMA WorkDone ==
    ASSUME work \in Seq(Activations), work # <<>>, NEW b, NEW k, k = Done(b)
    PROVE  /\ Len(work) \in Nat /\ Len(work) >= 1 /\ DOMAIN work = 1 .. Len(work)
           /\ inner = work[Len(work)]
           /\ k \in Seq(Activations) /\ Len(k) = Len(work)
           /\ \A n \in DOMAIN work :
                /\ k[n].loops = work[n].loops /\ k[n].begin = work[n].begin
                /\ \A d \in work[n].todo : n # Len(work) \/ d # b => d \in k[n].todo
                /\ k[n].todo \subseteq work[n].todo
                /\ n = Len(work) => b \notin k[n].todo
<1>1. Len(work) \in Nat /\ Len(work) >= 1 /\ DOMAIN work = 1 .. Len(work)
  OBVIOUS
<1>2. \A n \in DOMAIN work : work[n] \in Activations
  BY <1>1
<1>3. inner = work[Len(work)]
  BY DEF inner, Last
<1> DEFINE t == work[Len(work)]
           a == [t EXCEPT !.todo = @ \ {b}]
<1>4. a \in Activations /\ a.loops = t.loops /\ a.begin = t.begin /\ a.todo = t.todo \ {b}
  <2>1. t \in Activations
    BY <1>1, <1>2
  <2> HIDE DEF t
  <2> QED
    BY <2>1 DEF Activations
<1>5. k = [work EXCEPT ![Len(work)] = a]
  BY DEF Done
<1> HIDE DEF a
<1>6. k \in Seq(Activations) /\ Len(k) = Len(work)
  BY <1>1, <1>4, <1>5
<1>7. \A n \in DOMAIN work : k[n] = IF n = Len(work) THEN a ELSE work[n]
  BY <1>1, <1>5
<1>8. ASSUME NEW n \in DOMAIN work
      PROVE  /\ k[n].loops = work[n].loops /\ k[n].begin = work[n].begin
             /\ \A d \in work[n].todo : n # Len(work) \/ d # b => d \in k[n].todo
             /\ k[n].todo \subseteq work[n].todo
             /\ n = Len(work) => b \notin k[n].todo
  <2>1. CASE n = Len(work)
    BY <1>4, <1>7, <2>1
  <2>2. CASE n # Len(work)
    BY <1>7, <2>2
  <2> QED
    BY <2>1, <2>2
<1> HIDE DEF t
<1> QED
  BY <1>1, <1>3, <1>6, <1>8

LEMMA ByPrintBlock == \A b \in DOMAIN LI : Inv /\ PrintBlock(b) => Inv'
<1> SUFFICES ASSUME NEW b \in DOMAIN LI, Inv, PrintBlock(b) PROVE Inv'
  OBVIOUS
<1>1. /\ work # <<>> /\ b \in inner.todo /\ LI[b] = inner.loops
      /\ writer' = PrintBasicBlock(writer, b) /\ work' = Done(b)
      /\ UNCHANGED <<module, fn, LI, layout, ended>>
  BY DEF PrintBlock, CanPrint
<1>2. PICK D : Busy(D)
  BY <1>1 DEF Inv
<1>3. Types /\ ValidFunction(F) /\ Printing(writer) /\ LI = LoopInfo(F)
  BY <1>2, ValidModule DEF Inv, Busy
<1>4. b \in DOMAIN F.blocks
  BY <1>3, LoopTypes
<1> DEFINE h == work[1].begin
<1>6. Body(writer, h, D) /\ Apart(writer, h, D) /\ (Tight => Finished(writer, h, D))
  BY <1>2 DEF Busy
<1> HIDE DEF h
<1>5. IF Falls(F, b) THEN Continues(Marked(writer, b), writer')
      ELSE EndsBlock(Marked(writer, b), writer', b)
  BY <1>1, <1>3, <1>4, <1>6, BlockEnds DEF Body
<1>7. PICK E :
      /\ Printing(writer') /\ Grows(writer, writer') /\ E \subseteq Sites(writer') \ Sites(writer)
      /\ writer.size \notin E
      /\ writer'.BlockPositions = With(writer.BlockPositions, b, writer.size)
      /\ Body(writer', h, D \cup E) /\ Apart(writer', h, D \cup E)
      /\ Finished(writer, h, D) => Finished(writer', h, D \cup E)
  <2>1. CASE ~Falls(F, b)
    <3>1. PICK new : Ends(Marked(writer, b), writer', new)
      BY <1>5, <2>1 DEF EndsBlock
    <3>2. /\ Printing(writer') /\ Grows(writer, writer') /\ new \subseteq Sites(writer') \ Sites(writer)
          /\ writer.size \notin new
          /\ writer'.BlockPositions = With(writer.BlockPositions, b, writer.size)
          /\ Body(writer', h, D \cup new) /\ Apart(writer', h, D \cup new)
          /\ Finished(writer, h, D) => Finished(writer', h, D \cup new)
      BY <1>3, <1>4, <1>6, <2>1, <3>1, BodyBlock
    <3> QED
      BY <3>2
  <2>2. CASE Falls(F, b)
    <3>1. Continues(Marked(writer, b), writer')
      BY <1>5, <2>2
    <3>2. /\ Printing(writer') /\ Grows(writer, writer')
          /\ writer'.BlockPositions = With(writer.BlockPositions, b, writer.size)
          /\ Body(writer', h, D) /\ Apart(writer', h, D)
          /\ Finished(writer, h, D) => Finished(writer', h, D)
      BY <1>3, <1>4, <1>6, <2>2, <3>1, BodyFalls
    <3>3. {} \subseteq Sites(writer') \ Sites(writer) /\ writer.size \notin {} /\ D \cup {} = D
      OBVIOUS
    <3> QED
      BY <3>2, <3>3
  <2> QED
    BY <2>1, <2>2
<1>8. /\ Len(work) \in Nat /\ Len(work) >= 1 /\ DOMAIN work = 1 .. Len(work)
      /\ inner = work[Len(work)]
      /\ work' \in Seq(Activations) /\ Len(work') = Len(work)
      /\ \A n \in DOMAIN work :
           /\ work'[n].loops = work[n].loops /\ work'[n].begin = work[n].begin
           /\ \A d \in work[n].todo : n # Len(work) \/ d # b => d \in work'[n].todo
  <2>1. work \in Seq(Activations)
    BY <1>2 DEF Busy
  <2> QED
    BY <1>1, <2>1, WorkDone
<1>9. work'[1].begin = work[1].begin
  BY <1>8
<1>10. F' = F /\ M' = M
  BY <1>1 DEF F, M
<1>11. DOMAIN writer'.BlockPositions = DOMAIN writer.BlockPositions \cup {b}
  BY <1>7 DEF With
<1>12. ASSUME NEW c \in DOMAIN LI, c \notin DOMAIN writer'.BlockPositions
       PROVE  Waits(c)'
  <2>1. Waits(c) /\ c # b
    <3>1. c \notin DOMAIN writer.BlockPositions /\ c # b
      BY <1>11, <1>12
    <3>2. c \in DOMAIN writer.BlockPositions \/ Waits(c)
      BY <1>2, <1>12 DEF Busy
    <3> QED
      BY <3>1, <3>2
  <2>2. PICK n \in DOMAIN work : \E d \in work[n].todo :
          (LI[d] = work[n].loops /\ d = c) \/ (LI[d] # work[n].loops /\ d \in ToSet(LI[c]))
    BY <2>1 DEF Waits
  <2>3. PICK d \in work[n].todo :
          (LI[d] = work[n].loops /\ d = c) \/ (LI[d] # work[n].loops /\ d \in ToSet(LI[c]))
    BY <2>2
  <2>4. n = Len(work) => d # b
    BY <1>1, <1>8, <2>1, <2>2, <2>3
  <2>5. d \in work'[n].todo /\ n \in DOMAIN work' /\ work'[n].loops = work[n].loops
    BY <1>8, <2>2, <2>3, <2>4
  <2> QED
    BY <1>1, <2>3, <2>5 DEF Waits
<1>13. Busy(D \cup E)'
  <2>1. (fn <= Len(M.functions))' /\ (LI = LoopInfo(F))'
    BY <1>1, <1>2, <1>10 DEF Busy
  <2>2. Printing(writer)'
    BY <1>1, <1>7, SameFunction
  <2>3. Body(writer, work[1].begin, D \cup E)'
    BY <1>1, <1>7, <1>9, SameBody DEF h
  <2>8. (Apart(writer, work[1].begin, D \cup E)
         /\ (Tight => Finished(writer, work[1].begin, D \cup E)))'
    BY <1>1, <1>6, <1>7, <1>9, SameTight DEF h
  <2>4. (work \in Seq(Activations))'
    BY <1>1, <1>8 DEF Activations
  <2>5. ASSUME NEW n \in 2 .. Len(work')
        PROVE  work'[n].begin \in Bounds(writer') \ (D \cup E) /\ work'[n].begin > work'[1].begin
    <3>1. n \in 2 .. Len(work) /\ work'[n].begin = work[n].begin
      BY <1>8, <2>5
    <3>2. work[n].begin \in Bounds(writer) \ D /\ work[n].begin > work[1].begin
      BY <1>2, <3>1 DEF Busy
    <3>3. work[n].begin \in Bounds(writer') \ E
      BY <1>7, <3>2 DEF Grows, Bounds
    <3> QED
      BY <1>9, <3>1, <3>2, <3>3
  <2>6. (\A n \in 2 .. Len(work) :
            work[n].begin \in Bounds(writer) \ (D \cup E) /\ work[n].begin > work[1].begin)'
    BY <2>5
  <2>7. (\A c \in DOMAIN LI : c \in DOMAIN writer.BlockPositions \/ Waits(c))'
    BY <1>1, <1>12
  <2> QED
    BY <2>1, <2>2, <2>3, <2>4, <2>6, <2>7, <2>8 DEF Busy
<1>14. Types'
  BY <1>1, <1>3, <1>8, <1>10 DEF Types
<1> QED
  BY <1>8, <1>13, <1>14 DEF Inv

LEMMA ByEnterLoop == \A b \in DOMAIN LI : Inv /\ EnterLoop(b) => Inv'
<1> SUFFICES ASSUME NEW b \in DOMAIN LI, Inv, EnterLoop(b) PROVE Inv'
  OBVIOUS
<1> USE DEF EnterLoop
<1>1. work # <<>> /\ b \in inner.todo
  BY DEF CanPrint
<1>2. PICK D : Busy(D)
  BY <1>1 DEF Inv
<1>3. /\ Types /\ ValidFunction(F) /\ Printing(writer) /\ Good(writer)
      /\ LI = LoopInfo(F) /\ LoopsNest(LI)
  BY <1>2, ValidModule, LoopTypes DEF Inv, Busy, Printing
<1>4. work \in Seq(Activations) /\ Body(writer, work[1].begin, D)
      /\ Apart(writer, work[1].begin, D) /\ (Tight => Finished(writer, work[1].begin, D))
  BY <1>2 DEF Busy
<1> DEFINE k == Done(b)
           a == [loops |-> LI[b], begin |-> writer.size, todo |-> InLoop(LI, LI[b])]
<1>5. work' = Append(k, a)
  BY DEF Activation
<1>6. a.loops = LI[b] /\ a.begin = writer.size /\ a.todo = InLoop(LI, LI[b])
  OBVIOUS
<1>7. writer.size \in Nat /\ Sites(writer) \subseteq Nat
      /\ \A j \in Sites(writer) : j < writer.size
  BY <1>3, GoodParts
<1>8. a \in Activations
  <2>1. LI[b] \in Seq(DOMAIN LI)
    BY <1>3 DEF LoopsNest
  <2> QED
    BY <1>7, <2>1 DEF Activations, InLoop
<1>9. /\ Len(work) \in Nat /\ Len(work) >= 1 /\ DOMAIN work = 1 .. Len(work)
      /\ inner = work[Len(work)]
      /\ k \in Seq(Activations) /\ Len(k) = Len(work)
      /\ \A n \in DOMAIN work :
           /\ k[n].loops = work[n].loops /\ k[n].begin = work[n].begin
           /\ \A d \in work[n].todo : n # Len(work) \/ d # b => d \in k[n].todo
  BY <1>1, <1>4, WorkDone
<1> HIDE DEF k, a
<1>10. /\ work' \in Seq(Activations) /\ Len(work') = Len(work) + 1 /\ work' # <<>>
       /\ DOMAIN work' = 1 .. Len(work) + 1 /\ work'[Len(work) + 1] = a
       /\ \A n \in DOMAIN work : work'[n] = k[n]
  BY <1>5, <1>8, <1>9
<1>11. work'[1].begin = work[1].begin
  BY <1>9, <1>10
<1>12. F' = F /\ M' = M
  BY DEF F, M
<1>13. ASSUME NEW c \in DOMAIN LI, c \notin DOMAIN writer.BlockPositions
       PROVE  Waits(c)'
  <2>1. PICK n \in DOMAIN work : \E d \in work[n].todo :
          (LI[d] = work[n].loops /\ d = c) \/ (LI[d] # work[n].loops /\ d \in ToSet(LI[c]))
    BY <1>2, <1>13 DEF Waits, Busy
  <2>2. PICK d \in work[n].todo :
          (LI[d] = work[n].loops /\ d = c) \/ (LI[d] # work[n].loops /\ d \in ToSet(LI[c]))
    BY <2>1
  <2>3. CASE n # Len(work) \/ d # b
    <3>1. n \in DOMAIN work' /\ d \in work'[n].todo /\ work'[n].loops = work[n].loops
      BY <1>9, <1>10, <2>1, <2>2, <2>3
    <3> QED
      BY <2>1, <2>2, <3>1 DEF Waits
  <2>4. CASE n = Len(work) /\ d = b
    <3>1. b \in ToSet(LI[c])
      BY <1>9, <2>1, <2>2, <2>4
    <3>2. PICK m \in 1 .. Len(LI[c]) : LI[b] = SubSeq(LI[c], 1, m)
      BY <1>3, <3>1, LoopsAround
    <3>3. m \in Nat /\ m <= Len(LI[c])
      <4>1. Len(LI[c]) \in Nat
        BY <1>3 DEF LoopsNest
      <4> QED
        BY <4>1
    <3>4. \E e \in InLoop(LI, LI[b]) :
            (LI[e] = LI[b] /\ e = c) \/ (LI[e] # LI[b] /\ e \in ToSet(LI[c]))
      BY <1>3, <3>2, <3>3, JustInside
    <3>5. Len(work) + 1 \in DOMAIN work'
      BY <1>9, <1>10
    <3> QED
      BY <1>6, <1>10, <3>4, <3>5 DEF Waits
  <2> QED
    BY <2>3, <2>4
<1>14. Busy(D)'
  <2>1. (fn <= Len(M.functions))' /\ (LI = LoopInfo(F))'
    BY <1>2, <1>12 DEF Busy
  <2>2. Printing(writer)'
    BY <1>3, SameFunction
  <2>3. Body(writer, work[1].begin, D)'
    BY <1>4, <1>11, SameBody
  <2>8. (Apart(writer, work[1].begin, D) /\ (Tight => Finished(writer, work[1].begin, D)))'
    BY <1>4, <1>11, SameTight
  <2>4. (work \in Seq(Activations))'
    BY <1>10 DEF Activations
  <2>5. ASSUME NEW n \in 2 .. Len(work')
        PROVE  work'[n].begin \in Bounds(writer) \ D /\ work'[n].begin > work[1].begin
    <3>1. CASE n \in DOMAIN work
      <4>1. n \in 2 .. Len(work) /\ work'[n].begin = work[n].begin
        BY <1>9, <1>10, <2>5, <3>1
      <4> QED
        BY <1>2, <4>1 DEF Busy
    <3>2. CASE n = Len(work) + 1
      <4>1. work'[n].begin = writer.size
        BY <1>6, <1>10, <3>2
      <4>2. work[1].begin \in Nat /\ work[1].begin < writer.size
        BY <1>3, <1>4, BodySites
      <4>3. D \subseteq Sites(writer)
        BY <1>4 DEF Apart
      <4>4. writer.size \notin D
        BY <1>7, <4>3
      <4> QED
        BY <1>7, <4>1, <4>2, <4>4 DEF Bounds
    <3>3. n \in DOMAIN work \/ n = Len(work) + 1
      BY <1>9, <1>10, <2>5
    <3> QED
      BY <3>1, <3>2, <3>3
  <2>6. (\A n \in 2 .. Len(work) :
            work[n].begin \in Bounds(writer) \ D /\ work[n].begin > work[1].begin)'
    BY <1>11, <2>5
  <2>7. (\A c \in DOMAIN LI : c \in DOMAIN writer.BlockPositions \/ Waits(c))'
    BY <1>13
  <2> QED
    BY <2>1, <2>2, <2>3, <2>4, <2>6, <2>7, <2>8 DEF Busy
<1>15. Types'
  BY <1>1, <1>3, <1>10, <1>12 DEF Types
<1> QED
  BY <1>10, <1>14, <1>15 DEF Inv

LEMMA ByEndLoop == Inv /\ EndLoop => Inv'
<1> SUFFICES ASSUME Inv, EndLoop PROVE Inv'
  OBVIOUS
<1>1. /\ Len(work) > 1 /\ inner.todo = {}
      /\ writer' = Emit(writer, JumpI("jmp", 0, inner.begin - writer.size))
      /\ work' = Front(work)
      /\ UNCHANGED <<module, fn, LI, layout, ended>>
  BY DEF EndLoop
<1>2. Types /\ work # <<>>
  BY <1>1 DEF Inv
<1>3. PICK D : Busy(D)
  BY <1>2 DEF Inv
<1>4. Printing(writer) /\ work \in Seq(Activations)
  BY <1>3 DEF Busy
<1>5. Len(work) \in Nat /\ DOMAIN work = 1 .. Len(work) /\ inner = work[Len(work)]
  BY <1>4 DEF inner, Last
<1>6. Len(work) \in 2 .. Len(work)
  BY <1>1, <1>5
<1> DEFINE h == work[1].begin
<1>7. /\ inner.begin \in Bounds(writer) \ D /\ inner.begin > h
      /\ Body(writer, h, D) /\ Apart(writer, h, D) /\ (Tight => Finished(writer, h, D))
  BY <1>3, <1>5, <1>6 DEF Busy
<1> HIDE DEF h
<1>8. /\ Printing(writer') /\ Grows(writer, writer')
      /\ writer'.BlockPositions = writer.BlockPositions
      /\ Body(writer', h, D) /\ Apart(writer', h, D)
      /\ Finished(writer, h, D) => Finished(writer', h, D)
  BY <1>1, <1>4, <1>7, BodyLoop
<1>9. /\ work' \in Seq(Activations) /\ Len(work') = Len(work) - 1 /\ work' # <<>>
      /\ DOMAIN work' = 1 .. Len(work) - 1
      /\ \A n \in 1 .. Len(work) - 1 : work'[n] = work[n]
  <2>1. work' = SubSeq(work, 1, Len(work) - 1)
    BY <1>1 DEF Front
  <2>2. Len(work') = Len(work) - 1 /\ work' \in Seq(Activations)
        /\ \A n \in 1 .. Len(work) - 1 : work'[n] = work[n]
    BY <1>1, <1>4, <1>5, <2>1
  <2>3. DOMAIN work' = 1 .. Len(work) - 1
    BY <2>2
  <2>4. work' # <<>>
    BY <1>1, <1>5, <2>2
  <2> QED
    BY <2>2, <2>3, <2>4
<1>10. F' = F /\ M' = M
  BY <1>1 DEF F, M
<1>11. work'[1] = work[1]
  BY <1>1, <1>5, <1>9
<1>12. ASSUME NEW c \in DOMAIN LI, c \notin DOMAIN writer'.BlockPositions
       PROVE  Waits(c)'
  <2>1. Waits(c)
    BY <1>3, <1>8, <1>12 DEF Busy
  <2>2. PICK n \in DOMAIN work : \E d \in work[n].todo :
          (LI[d] = work[n].loops /\ d = c) \/ (LI[d] # work[n].loops /\ d \in ToSet(LI[c]))
    BY <2>1 DEF Waits
  <2>3. n # Len(work)
    BY <1>1, <1>5, <2>2
  <2>4. n \in DOMAIN work' /\ work'[n] = work[n]
    BY <1>5, <1>9, <2>2, <2>3
  <2> QED
    BY <1>1, <2>2, <2>4 DEF Waits
<1>13. Busy(D)'
  <2>1. (fn <= Len(M.functions))' /\ (LI = LoopInfo(F))'
    BY <1>1, <1>3, <1>10 DEF Busy
  <2>2. Printing(writer)'
    BY <1>1, <1>8, SameFunction
  <2>3. Body(writer, work[1].begin, D)'
    BY <1>1, <1>8, <1>11, SameBody DEF h
  <2>8. (Apart(writer, work[1].begin, D) /\ (Tight => Finished(writer, work[1].begin, D)))'
    BY <1>1, <1>7, <1>8, <1>11, SameTight DEF h
  <2>4. (work \in Seq(Activations))'
    BY <1>1, <1>9 DEF Activations
  <2>5. ASSUME NEW n \in 2 .. Len(work')
        PROVE  work'[n].begin \in Bounds(writer') \ D /\ work'[n].begin > work'[1].begin
    <3>1. n \in 2 .. Len(work) /\ work'[n] = work[n]
      BY <1>5, <1>9, <2>5
    <3>2. work[n].begin \in Bounds(writer) \ D /\ work[n].begin > work[1].begin
      BY <1>3, <3>1 DEF Busy
    <3>3. work[n].begin \in Bounds(writer')
      BY <1>8, <3>2 DEF Grows, Bounds
    <3> QED
      BY <1>11, <3>1, <3>2, <3>3
  <2>6. (\A n \in 2 .. Len(work) :
            work[n].begin \in Bounds(writer) \ D /\ work[n].begin > work[1].begin)'
    BY <2>5
  <2>7. (\A c \in DOMAIN LI : c \in DOMAIN writer.BlockPositions \/ Waits(c))'
    BY <1>1, <1>12
  <2> QED
    BY <2>1, <2>2, <2>3, <2>4, <2>6, <2>7, <2>8 DEF Busy
<1>14. Types'
  BY <1>1, <1>2, <1>10 DEF Types
<1> QED
  BY <1>9, <1>13, <1>14 DEF Inv

\* Nothing of a function is left but its code.
LEMMA ResetGood ==
    ASSUME NEW v, Good(v), NEW w, w = Reset(v)
    PROVE  /\ w.code = v.code /\ w.size = v.size
           /\ w.Locals = <<>> /\ w.PostponedJumps = <<>> /\ w.BlockPositions = <<>>
           /\ w.NextReg = 0 /\ w.ResultReg = 0
           /\ \A S : w \in [code : Codes, size : Nat, PostponedJumps : Seq(S),
                            BlockPositions : {w.BlockPositions}, Locals : {w.Locals},
                            NextReg : Nat, ResultReg : Nat]
           /\ Good(w)
<1>1. /\ w.code = v.code /\ w.size = v.size
      /\ w.Locals = <<>> /\ w.PostponedJumps = <<>> /\ w.BlockPositions = <<>>
      /\ w.NextReg = 0 /\ w.ResultReg = 0
  BY DEF Reset, EmptyWriter
<1>2. v.code \in Codes /\ v.size \in Nat
  BY DEF Good, Writers0, Writers
<1>3. ASSUME NEW S
      PROVE  w \in [code : Codes, size : Nat, PostponedJumps : Seq(S),
                    BlockPositions : {w.BlockPositions}, Locals : {w.Locals},
                    NextReg : Nat, ResultReg : Nat]
  <2>1. <<>> \in Seq(S)
    OBVIOUS
  <2> QED
    BY <1>2, <2>1 DEF Reset, EmptyWriter
<1>4. w \in Writers0(w)
  BY <1>3 DEF Writers0, Writers
<1>5. Sites(w) = Sites(v) /\ ToSet(w.PostponedJumps) = {} /\ Pending(w) = {}
  BY <1>1 DEF Sites, Pending, ToSet
<1>6. Contiguous(w)
  BY <1>1, <1>5 DEF Good, Contiguous, After
<1>7. Good(w)
  <2>1. \A id \in DOMAIN w.Locals : w.Locals[id] \in 1 .. w.NextReg
    BY <1>1
  <2>2. /\ Sites(v) \subseteq 0 .. v.size - 1
        /\ v.size # 0 => 0 \in Sites(v)
        /\ \A j \in Sites(v) : Len(v.code[j].args) <= LastReg
    BY DEF Good
  <2> QED
    BY <1>1, <1>4, <1>5, <1>6, <2>1, <2>2 DEF Good
<1> QED
  BY <1>1, <1>3, <1>7

\* Between functions it does not matter which comes next.
LEMMA IdleNext ==
    ASSUME Good(writer'), writer'.PostponedJumps = <<>>,
           \A S : writer' \in
                    [code : Codes, size : Nat, PostponedJumps : Seq(S),
                     BlockPositions : {writer'.BlockPositions}, Locals : {writer'.Locals},
                     NextReg : Nat, ResultReg : Nat]
    PROVE  Good(writer)'
<1>1. (writer \in Writers0(writer))'
  BY DEF Writers0, Writers
<1> QED
  BY <1>1 DEF Good

LEMMA ByFinishFunction == Inv /\ FinishFunction => Inv'
<1> SUFFICES ASSUME Inv, FinishFunction PROVE Inv'
  OBVIOUS
<1> DEFINE v == FixupPostponed(FixupFD(writer, inner.begin))
           x == [begin |-> inner.begin, registers |-> writer.NextReg,
                 Locals |-> writer.Locals, BlockPositions |-> writer.BlockPositions]
<1>1. /\ Len(work) = 1 /\ inner.todo = {}
      /\ writer' = Reset(v) /\ layout' = Append(layout, x)
      /\ fn' = fn + 1 /\ work' = <<>>
      /\ UNCHANGED <<module, LI, ended>>
  BY DEF FinishFunction
<1> HIDE DEF v, x
<1>2. Types /\ work # <<>>
  BY <1>1 DEF Inv
<1>3. PICK D : Busy(D)
  BY <1>2 DEF Inv
<1>4. /\ Printing(writer) /\ work \in Seq(Activations)
      /\ ValidFunction(F) /\ LI = LoopInfo(F)
  BY <1>3 DEF Busy, Printing
<1>5. inner = work[1] /\ DOMAIN work = {1}
  BY <1>1, <1>4 DEF inner, Last
<1>6. ASSUME NEW b \in DOMAIN F.blocks PROVE b \in DOMAIN writer.BlockPositions
  <2>1. b \in DOMAIN LI
    BY <1>4, <1>6, LoopTypes
  <2>2. ~Waits(b)
    BY <1>1, <1>5 DEF Waits
  <2> QED
    BY <1>3, <2>1, <2>2 DEF Busy
<1> DEFINE h == inner.begin
<1>7. Body(writer, h, D) /\ Apart(writer, h, D) /\ (Tight => Finished(writer, h, D))
  BY <1>3, <1>5 DEF Busy
<1>8. v = FixupPostponed(FixupFD(writer, h))
  BY DEF v
<1> HIDE DEF h
<1>9. Good(v) /\ v.size = writer.size /\ Sites(v) = Sites(writer)
  BY <1>4, <1>6, <1>7, <1>8, FunctionText DEF Printing
<1>15. ASSUME Tight' PROVE Finished(v, v.size, D)
  <2>1. layout \in Seq(ToSet(layout)) /\ Len(layout) = fn - 1 /\ fn \in Nat \ {0}
    BY <1>2 DEF Types
  <2>2. /\ fn \in DOMAIN layout' /\ layout'[fn] = x
        /\ \A n \in DOMAIN layout : n \in DOMAIN layout' /\ layout'[n] = layout[n]
    BY <1>1, <2>1
  <2>3. M' = M /\ F = M.functions[fn] /\ x.BlockPositions = writer.BlockPositions
    BY <1>1 DEF M, F, x
  <2>4. ~LastFalls(F, writer.BlockPositions)
    BY <1>15, <2>2, <2>3 DEF Tight, FallsOut, LastFalls, Falls
  <2>5. Tight
    BY <1>15, <2>2, <2>3 DEF Tight, FallsOut, LastFalls, Falls
  <2> QED
    BY <1>4, <1>6, <1>7, <1>8, <2>4, <2>5, FunctionFinished
<1> DEFINE u == writer'
<1>10. /\ u.code = v.code /\ u.size = v.size
       /\ u.Locals = <<>> /\ u.PostponedJumps = <<>> /\ u.BlockPositions = <<>>
       /\ \A S : u \in [code : Codes, size : Nat, PostponedJumps : Seq(S),
                        BlockPositions : {u.BlockPositions}, Locals : {u.Locals},
                        NextReg : Nat, ResultReg : Nat]
       /\ Good(u)
  BY <1>1, <1>9, ResetGood
<1>11. Apart(u, u.size, D) /\ (Finished(v, v.size, D) => Finished(u, u.size, D))
  <2>1. Sites(u) = Sites(v) /\ u.size \in Nat /\ Sites(u) \subseteq Nat
    BY <1>10, GoodParts DEF Sites
  <2>2. Grows(v, u)
    BY <1>10, <2>1 DEF Grows, Bounds
  <2>3. Finished(v, v.size, D) => Finished(u, u.size, D)
    BY <1>9, <1>10, <2>2, FinishedKept
  <2>4. u.size \notin Sites(u)
    BY <1>10, GoodParts
  <2> QED
    BY <1>7, <1>9, <2>1, <2>3, <2>4 DEF Apart, Bounds
<1>12. Good(writer)'
  BY <1>10, IdleNext
<1>13. Idle(D)'
  BY <1>10, <1>11, <1>12, <1>15 DEF Idle
<1>14. Types'
  <2>1. /\ module \in DOMAIN Modules /\ fn \in Nat \ {0} /\ ~ended
        /\ layout \in Seq(ToSet(layout)) /\ Len(layout) = fn - 1
    BY <1>2 DEF Types
  <2>2. Len(layout') = fn' - 1
    BY <1>1, <2>1
  <2>3. layout' \in Seq(ToSet(layout'))
    <3>1. layout' \in Seq(ToSet(layout) \cup {x})
      BY <1>1, <2>1
    <3> QED
      BY <3>1, SequenceOfOwn
  <2> QED
    BY <1>1, <2>1, <2>2, <2>3 DEF Types
<1> QED
  BY <1>1, <1>13, <1>14 DEF Inv

-----------------------------------------------------------------------------
(* The end of the file *)

LEMMA ThenDeclared ==
    ASSUME NEW w, Good(w), w.Locals = <<>>, NEW g, ValidGlobal(g)
    PROVE  Continues(w, DeclareGlobal(w, g))
<1> DEFINE init == g.init
           v == InitialValue(w, init)
<1>1. DOMAIN w.Locals = {}
  OBVIOUS
<1>2. /\ Mangle(g.name) \in Names
      /\ init.kind \in {"null", "string", "array"} \/ ValidOperand({}, init)
  BY DEF ValidGlobal
<1> HIDE DEF init
<1>3. Continues(w, v)
  <2>1. CASE init.kind = "null"
    <3>1. v = Mov(w, 0)
      BY <2>1 DEF InitialValue
    <3> QED
      BY <3>1, ThenMov, ConstantsType
  <2>2. CASE init.kind = "string"
    <3>1. v = Result(Emit(Fresh(w), CssI(Byte(NewReg(w)))), NewReg(w))
      BY <2>2 DEF InitialValue
    <3>2. Plain(Falling, CssI(Byte(NewReg(w))))
      BY ThenFresh, ByteType, CssPlain
    <3>3. Continues(Fresh(w), Emit(Fresh(w), CssI(Byte(NewReg(w)))))
      BY <3>2, ThenFresh, Stay, ThenEmit
    <3> QED
      BY <3>1, <3>3, ThenKept
  <2>3. CASE init.kind = "array"
    <3>1. v = Result(Fresh(w), NewReg(w))
      BY <2>3 DEF InitialValue
    <3> QED
      BY <3>1, ThenFresh, Stay, ThenKept
  <2>4. CASE init.kind \notin {"null", "string", "array"}
    <3>1. v = NewCell(WriteOperand(w, init))
      BY <2>4 DEF InitialValue
    <3>2. Continues(w, WriteOperand(w, init))
      BY <1>1, <1>2, <2>4, ThenOperand
    <3>3. Continues(WriteOperand(w, init), NewCell(WriteOperand(w, init)))
      BY <3>2, ThenCell, ContinuesGood
    <3> QED
      BY <3>1, <3>2, <3>3, Onwards
  <2> QED
    BY <2>1, <2>2, <2>3, <2>4
<1> HIDE DEF v
<1>4. Continues(w, Assigned(v, Mangle(g.name)))
  BY <1>2, <1>3, ThenAssigned
<1> QED
  BY <1>4 DEF DeclareGlobal, v, init

LEMMA FoldGlobals ==
    ASSUME NEW w, Good(w), w.Locals = <<>>, NEW X, NEW s \in Seq(X),
           \A g \in X : ValidGlobal(g)
    PROVE  Continues(w, FoldLeft(DeclareGlobal, w, s))
<1> DEFINE n == Len(s)
           G == Continuations(w)
           Step == [p \in G \X (1 .. n) |-> DeclareGlobal(p[1], s[p[2]])]
           Fold(it) == [t \in SUBSET DOMAIN s |->
                          IF t = {} THEN w
                          ELSE DeclareGlobal(it[t \ {Max(t)}], s[Max(t)])]
           fold == CHOOSE it : it = Fold(it)
<1>1. DOMAIN s = 1 .. n /\ n \in Nat /\ w \in G /\ \A k \in 1 .. n : s[k] \in X
  <2>1. w \in G
    BY Stay, ContinuationsType
  <2> HIDE DEF G
  <2> QED
    BY <2>1
<1>2. \A v \in G, k \in 1 .. n : DeclareGlobal(v, s[k]) \in G
  <2> SUFFICES ASSUME NEW v \in G, NEW k \in 1 .. n PROVE DeclareGlobal(v, s[k]) \in G
    OBVIOUS
  <2>1. Continues(w, v) /\ ValidGlobal(s[k])
    BY <1>1, ContinuationsType
  <2>2. Good(v) /\ v.Locals = <<>>
    BY <2>1, ContinuesGood
  <2>3. Continues(w, DeclareGlobal(v, s[k]))
    BY <2>1, <2>2, ThenDeclared, Onwards
  <2> QED
    BY <2>3, ContinuationsType
<1> HIDE DEF n, Step, G
<1>3. Step \in [G \X (1 .. n) -> G]
  BY <1>2 DEF Step
<1>4. PICK it : Unfolds(it, G, w, n, Step)
  BY <1>1, <1>3, FoldExists
<1>5. it = Fold(it)
  <2>1. ASSUME NEW t \in SUBSET (1 .. n), t # {}
        PROVE  it[t] = DeclareGlobal(it[t \ {Max(t)}], s[Max(t)])
    <3>1. Max(t) \in 1 .. n /\ it[t \ {Max(t)}] \in G
          /\ it[t] = Step[<<it[t \ {Max(t)}], Max(t)>>]
      BY <1>4, <2>1 DEF Unfolds
    <3> QED
      BY <3>1 DEF Step
  <2> QED
    BY <1>1, <1>4, <2>1 DEF Unfolds
<1>6. fold = Fold(fold)
  BY <1>5
<1> HIDE DEF fold
<1>7. fold[1 .. n] \in G
  <2>1. fold[{}] \in G
    BY <1>1, <1>6
  <2>2. ASSUME NEW t \in SUBSET (1 .. n), t # {}, Max(t) \in 1 .. n,
               fold[t \ {Max(t)}] \in G
        PROVE  fold[t] \in G
    <3>1. t \in SUBSET DOMAIN s /\ fold[t] = DeclareGlobal(fold[t \ {Max(t)}], s[Max(t)])
      BY <1>1, <1>6, <2>2
    <3> QED
      BY <1>2, <2>2, <3>1
  <2> QED
    BY <1>1, <2>1, <2>2, FoldStays
<1>8. FoldLeft(DeclareGlobal, w, s) = fold[DOMAIN s]
  BY DEF FoldLeft, MapThenFoldSet, fold
<1>9. FoldLeft(DeclareGlobal, w, s) \in Continuations(w)
  BY <1>1, <1>7, <1>8 DEF G
<1> QED
  BY <1>9, ContinuationsType

\* The declarations of the globals and the call of main are straight code.
LEMMA FinalizeContinues ==
    ASSUME Types, NEW D, Idle(D), Finalize
    PROVE  Continues(writer, writer') /\ writer'.size # 0
<1> DEFINE u == FoldLeft(DeclareGlobal, writer, M.globals)
           t == Emit(u, GgI("main", 1))
           v == writer'
<1>1. v = Emit(t, CallI(1, <<>>))
  BY DEF Finalize
<1>2. Good(writer) /\ writer.Locals = <<>>
  BY DEF Idle
<1>3. M.globals \in Seq(ToSet(M.globals)) /\ \A g \in ToSet(M.globals) : ValidGlobal(g)
  BY ValidModule
<1>4. Continues(writer, u)
  BY <1>2, <1>3, FoldGlobals
<1> HIDE DEF u
<1>5. Plain(Falling, GgI("main", 1)) /\ Plain(Falling, CallI(1, <<>>))
  <2>1. "main" \in Names /\ 1 \in Reg /\ LastReg \in Nat /\ 0 <= LastReg
    BY FormatAssumption, ConstantsType
  <2>2. <<>> \in Seq(Reg) /\ Len(<<>>) <= LastReg
    BY <2>1
  <2> QED
    BY <2>1, <2>2, GgPlain, CallPlain
<1>6. Continues(writer, t) /\ Good(t)
  BY <1>4, <1>5, ThenEmit, ContinuesGood
<1> HIDE DEF t, v
<1>7. Continues(writer, v) /\ Good(v) /\ t.size < v.size
  <2>1. Adds(Falling, t, CallI(1, <<>>), v)
    BY <1>1, <1>5, <1>6, EmitPlain
  <2> QED
    BY <1>1, <1>5, <1>6, <2>1, ThenEmit, ContinuesGood DEF Adds
<1>8. v.size # 0
  BY <1>6, <1>7, GoodParts
<1> QED
  BY <1>7, <1>8 DEF v

LEMMA ByFinalize == Inv /\ Finalize => Inv'
<1> SUFFICES ASSUME Inv, Finalize PROVE Inv'
  OBVIOUS
<1> DEFINE v == writer'
<1>1. /\ work = <<>> /\ fn > Len(M.functions) /\ ended' = TRUE
      /\ UNCHANGED <<module, fn, LI, work, layout>>
  BY DEF Finalize
<1>2. Types
  BY DEF Inv
<1>3. PICK D : Idle(D)
  BY <1>1 DEF Inv
<1>4. /\ Good(writer) /\ writer.Locals = <<>>
      /\ writer.PostponedJumps = <<>> /\ writer.BlockPositions = <<>>
      /\ Apart(writer, writer.size, D) /\ (Tight => Finished(writer, writer.size, D))
  BY <1>3 DEF Idle
<1>5. Continues(writer, v) /\ Good(v) /\ v.size # 0
  BY <1>2, <1>3, FinalizeContinues, ContinuesGood
<1> HIDE DEF v
<1>6. v.Locals = <<>> /\ v.BlockPositions = <<>> /\ Pending(v) = {}
  <2>1. Pending(writer) = {}
    BY <1>4 DEF Pending, ToSet
  <2>2. Extends(Straight, writer, v)
    BY <1>5, ContinuesGood
  <2> QED
    BY <1>4, <2>1, <2>2 DEF Extends, Writers0, Writers
<1>7. v.PostponedJumps = <<>>
  <2>1. v.PostponedJumps \in Seq([block : DOMAIN F.blocks, pos : Nat])
    BY <1>5 DEF Good, Writers0, Writers
  <2>2. ToSet(v.PostponedJumps) = {}
    BY <1>6 DEF Pending
  <2>3. DOMAIN v.PostponedJumps = {}
    BY <2>2 DEF ToSet
  <2> DEFINE l == Len(v.PostponedJumps)
  <2>4. l \in Nat /\ DOMAIN v.PostponedJumps = 1 .. l
    BY <2>1
  <2> HIDE DEF l
  <2>5. l = 0
    <3>1. 1 \notin 1 .. l
      BY <2>3, <2>4
    <3> QED
      BY <2>4, <3>1
  <2> QED
    BY <2>1, <2>5 DEF l
<1>8. Apart(v, v.size, D) /\ (Finished(writer, writer.size, D) => Finished(v, v.size, D))
  <2>1. Grows(writer, v)
    BY <1>5, ContinuesGood, ExtendsGrows
  <2>2. v.size \notin Sites(v) /\ v.size \notin D
    <3>1. /\ \A j \in Sites(v) : j < v.size /\ j \in Nat
          /\ v.size \in Nat
      BY <1>5, GoodParts
    <3> QED
      BY <1>4, <2>1, <3>1 DEF Apart, Grows
  <2> QED
    BY <1>4, <1>5, <1>6, <2>1, <2>2, FinishedStraight DEF Apart, Grows, Bounds
<1>9. F' = F /\ M' = M
  BY <1>1 DEF F, M
<1>10. Good(writer)'
  BY <1>5, <1>9 DEF v, Good, Writers0, Writers
<1>11. Idle(D)'
  BY <1>1, <1>4, <1>6, <1>7, <1>8, <1>10, SameTight DEF v, Idle
<1>12. Types'
  BY <1>1, <1>2, <1>5, <1>9 DEF v, Types
<1> QED
  BY <1>1, <1>11, <1>12 DEF Inv

LEMMA ByStuttering == Inv /\ UNCHANGED vars => Inv'
<1> SUFFICES ASSUME Inv, UNCHANGED vars PROVE Inv'
  OBVIOUS
<1>1. UNCHANGED <<module, fn, LI, work, writer, layout, ended>>
  BY DEF vars
<1>2. F' = F /\ M' = M
  BY <1>1 DEF F, M
<1>3. ASSUME Good(writer) PROVE Good(writer)'
  BY <1>1, <1>2, <1>3 DEF Good, Writers0, Writers
<1>4. Types'
  BY <1>1, <1>2 DEF Inv, Types
<1>5. ASSUME NEW D, Idle(D) PROVE Idle(D)'
  BY <1>1, <1>3, <1>5, SameTight DEF Idle
<1>6. ASSUME NEW D, Busy(D) PROVE Busy(D)'
  <2>1. Printing(writer)'
    BY <1>2, <1>3, <1>1, <1>6 DEF Busy, Printing
  <2>2. (fn <= Len(M.functions) /\ LI = LoopInfo(F) /\ work \in Seq(Activations))'
    BY <1>1, <1>2, <1>6 DEF Busy, Activations
  <2>3. Body(writer, work[1].begin, D)'
    <3>1. Body(writer, work[1].begin, D)
      BY <1>6 DEF Busy
    <3> QED
      BY <1>1, <3>1, SameBody
  <2>6. (Apart(writer, work[1].begin, D) /\ (Tight => Finished(writer, work[1].begin, D)))'
    BY <1>1, <1>6, SameTight DEF Busy
  <2>4. (\A n \in 2 .. Len(work) :
            work[n].begin \in Bounds(writer) \ D /\ work[n].begin > work[1].begin)'
    BY <1>1, <1>6 DEF Busy
  <2>5. (\A b \in DOMAIN LI : b \in DOMAIN writer.BlockPositions \/ Waits(b))'
    BY <1>1, <1>6 DEF Busy, Waits
  <2> QED
    BY <2>1, <2>2, <2>3, <2>4, <2>5, <2>6 DEF Busy
<1> QED
  BY <1>1, <1>4, <1>5, <1>6 DEF Inv

\* The invariant of the pass over a module: in a function (printFunction,
\* printLoop) its own text is a Body, and each of its blocks is printed or waits
\* in a loop that is; the text before it is finished, unless control falls out of
\* one of its functions (visitUnreachable writes nothing).
THEOREM Invariance == Spec => []Inv
<1>1. Inv /\ [Next]_vars => Inv'
  BY ByStartFunction, ByPrintBlock, ByEnterLoop, ByEndLoop, ByFinishFunction, ByFinalize,
     ByStuttering DEF Next
<1> QED
  BY <1>1, InitInv, PTL DEF Spec

LEMMA InvGood == Inv => Types /\ Good(writer)
<1> SUFFICES ASSUME Inv PROVE Types /\ Good(writer)
  OBVIOUS
<1>1. CASE work = <<>>
  BY <1>1 DEF Inv, Idle
<1>2. CASE work # <<>>
  BY <1>2 DEF Inv, Busy, Printing
<1> QED
  BY <1>1, <1>2 DEF Inv

LEMMA InvType == Inv => TypeOK
<1> SUFFICES ASSUME Inv PROVE TypeOK
  OBVIOUS
<1>1. Types /\ Good(writer)
  BY InvGood
<1>2. /\ writer.size \in Nat /\ writer.NextReg \in Nat /\ writer.ResultReg \in Nat
      /\ writer.ResultReg <= writer.NextReg /\ Sites(writer) \subseteq Nat
      /\ \A j \in Sites(writer) : j < writer.size
      /\ writer.code \in [Sites(writer) -> Instructions]
  BY <1>1, GoodParts
<1>3. \A id \in DOMAIN writer.Locals : writer.Locals[id] \in 1 .. writer.NextReg
  BY <1>1 DEF Good
<1>4. ASSUME NEW j \in DOMAIN writer.PostponedJumps
      PROVE  LET p == writer.PostponedJumps[j]
             IN  /\ p.block \in DOMAIN F.blocks
                 /\ p.pos \in DOMAIN writer.code /\ writer.code[p.pos].op = "jmp"
  <2> DEFINE p == writer.PostponedJumps[j]
  <2>1. writer.PostponedJumps \in Seq([block : DOMAIN F.blocks, pos : Nat])
    BY <1>1 DEF Good, Writers0, Writers
  <2> DEFINE T == [block : DOMAIN F.blocks, pos : Nat]
  <2>2. p \in T /\ p \in ToSet(writer.PostponedJumps)
    <3>1. writer.PostponedJumps \in Seq(T)
      BY <2>1
    <3> HIDE DEF T
    <3> QED
      BY <3>1 DEF ToSet
  <2> HIDE DEF p
  <2>3. p.block \in DOMAIN F.blocks /\ p.pos \in Pending(writer)
    BY <2>2 DEF Pending
  <2> QED
    BY <1>1, <2>3 DEF Good, Sites, p
<1>5. ASSUME NEW n \in DOMAIN work PROVE work[n].begin \in 0 .. writer.size
  <2>1. work # <<>>
    BY <1>5
  <2>2. PICK D : Busy(D)
    BY <2>1 DEF Inv
  <2>3. work \in Seq(Activations) /\ Body(writer, work[1].begin, D)
    BY <2>2 DEF Busy
  <2>4. n = 1 \/ n \in 2 .. Len(work)
    BY <1>5, <2>3
  <2>5. CASE n = 1
    BY <1>1, <1>2, <2>3, <2>5, BodySites
  <2>6. CASE n \in 2 .. Len(work)
    <3>1. work[n].begin \in Bounds(writer)
      BY <2>2, <2>6 DEF Busy
    <3> QED
      BY <1>2, <3>1 DEF Bounds
  <2> QED
    BY <2>4, <2>5, <2>6
<1> QED
  BY <1>1, <1>2, <1>3, <1>4, <1>5 DEF Types, TypeOK, Sites

\* The type invariant: instructions of the format one after the other, as the
\* functions of RbvmBackend.h produce them, registers within those handed out,
\* and postponed jumps that are jumps.
THEOREM TypeCorrect == Spec => []TypeOK
BY Invariance, InvType, PTL

LEMMA FinishedWellFormed ==
    ASSUME NEW w, Good(w), w.size # 0, NEW D, Finished(w, w.size, D),
           NEW p, p = [code |-> w.code, size |-> w.size]
    PROVE  WellFormed(WithLive(p))
<1> DEFINE S == Sites(w) \ D
           q == WithLive(p)
           R == Live(q)
<1>1. /\ p.code = w.code /\ p.size = w.size /\ Sites(p) = Sites(w)
      /\ q.code = w.code /\ q.size = w.size /\ Sites(q) = Sites(w)
  BY DEF WithLive, Sites
<1>2. \A r \in {p, q} : \A j : /\ After(r, j) = After(w, j) /\ Targets(r, j) = Targets(w, j)
                               /\ InBody(r, j) <=> InBody(w, j)
  <2>1. ASSUME NEW r, r.code = w.code
        PROVE  \A j : After(r, j) = After(w, j) /\ Targets(r, j) = Targets(w, j)
                      /\ (InBody(r, j) <=> InBody(w, j))
    <3>1. \A j : After(r, j) = After(w, j) /\ Targets(r, j) = Targets(w, j)
                 /\ Past(r, j) = Past(w, j)
      BY <2>1, SameCode
    <3>2. Declarations(r) = Declarations(w)
      BY <2>1 DEF Declarations, Sites
    <3> QED
      BY <3>1, <3>2 DEF InBody
  <2> QED
    BY <1>1, <2>1
<1>4. /\ w.size \in Nat /\ Sites(w) \subseteq 0 .. w.size - 1 /\ Sites(w) \subseteq Nat
      /\ w.code \in [Sites(w) -> Instructions] /\ w.size \notin Sites(w)
      /\ \A j \in Sites(w) : j < w.size
      /\ \A d \in Sites(w) : After(w, d) \in Nat /\ After(w, d) > d
  <2>1. /\ \A d \in Sites(w) : After(w, d) \in Nat /\ After(w, d) > d
        /\ w.size \in Nat /\ Sites(w) \subseteq Nat
        /\ w.code \in [Sites(w) -> Instructions]
        /\ \A j \in Sites(w) : j < w.size
    BY GoodParts DEF Bounds
  <2> QED
    BY <2>1 DEF Good
<1>5. 0 \in S /\ S \subseteq Sites(w)
  BY DEF Good, Finished
<1>6. \A j \in S :
        /\ w.code[j].op \in {"ret", "leave"} => InBody(w, j)
        /\ w.code[j].op = "fd" => After(w, j) \in S /\ InBody(w, After(w, j))
        /\ \A t \in Targets(w, j) :
            t \in S \cup {w.size} /\ (InBody(w, t) <=> InBody(w, j))
  BY <1>4 DEF Finished
<1>7. IsFiniteSet(Sites(p))
  <2>1. IsFiniteSet(0 .. w.size - 1)
    BY <1>4, FS_Interval
  <2> QED
    BY <1>1, <1>4, <2>1, FS_Subset
<1> HIDE DEF S, q
<1>8. Closed(p, S)
  BY <1>1, <1>2, <1>4, <1>6 DEF Closed, Onward
<1>9. R \subseteq S /\ 0 \in R /\ Closed(p, R)
  <2>1. S \subseteq Sites(p)
    BY <1>1, <1>5
  <2> QED
    BY <1>5, <1>7, <1>8, <2>1, LiveCloses DEF q
<1> HIDE DEF R
<1>10. ASSUME NEW j \in R
       PROVE  /\ Len(w.code[j].args) <= LastReg
              /\ w.code[j].op \in {"ret", "leave"} => InBody(w, j)
              /\ w.code[j].op = "fd" => After(w, j) \in R /\ InBody(w, After(w, j))
              /\ \A t \in Targets(w, j) :
                  /\ t \in R \cup {w.size}
                  /\ InBody(w, t) <=> InBody(w, j)
  <2>1. j \in S /\ j \in Sites(w)
    BY <1>5, <1>9
  <2>2. Len(w.code[j].args) <= LastReg
    BY <2>1 DEF Good
  <2>3. ASSUME w.code[j].op = "fd" PROVE After(w, j) \in R
    <3>1. After(w, j) \in Onward(p, j) /\ After(w, j) \in Sites(p)
      BY <1>1, <1>2, <1>5, <1>6, <2>1, <2>3 DEF Onward
    <3> QED
      BY <1>9, <3>1 DEF Closed
  <2>4. ASSUME NEW t \in Targets(w, j) PROVE t \in R \cup {w.size}
    <3>1. t \in Onward(p, j) /\ t \in S \cup {w.size}
      BY <1>2, <1>6, <2>1, <2>4 DEF Onward
    <3> QED
      BY <1>1, <1>5, <1>9, <3>1 DEF Closed
  <2> QED
    BY <1>6, <2>1, <2>2, <2>3, <2>4
<1>11. ~InBody(w, 0)
  BY <1>4 DEF InBody, Declarations
<1>12. WellFormed(q)
  <2>1. R = Live(q) /\ q \in {p, q} /\ R \subseteq Sites(w)
    BY <1>5, <1>9 DEF R
  <2> QED
    BY <1>1, <1>2, <1>4, <1>9, <1>10, <1>11, <2>1 DEF WellFormed
<1> QED
  BY <1>12 DEF q

LEMMA InvOutput == Inv => OutputWellFormed
<1> SUFFICES ASSUME Inv, ended
             PROVE  Contiguous(Text) /\ (Tight => WellFormed(WithLive(Text)))
  BY DEF OutputWellFormed, Tight
<1>1. work = <<>> /\ writer.size # 0
  BY DEF Inv, Types
<1>2. PICK D : Idle(D)
  BY <1>1 DEF Inv
<1>3. Good(writer) /\ (Tight => Finished(writer, writer.size, D))
  BY <1>2 DEF Idle
<1>4. Contiguous(Text)
  BY <1>3 DEF Good, Contiguous, Sites, After, Text
<1> QED
  BY <1>1, <1>3, <1>4, FinishedWellFormed DEF Text

\* Every offset that is put in afterwards (fixupFD, fixupLocalJZ,
\* fixupPostponed) is right: in the file of any module the instructions follow
\* each other, and if no function has a block that ends in unreachable at its end,
\* it is one the VM can run without a test and the disassembler can list.
THEOREM RightOffsets == Spec => []OutputWellFormed
BY Invariance, InvOutput, PTL

-----------------------------------------------------------------------------
(* What control comes to *)

\* S is closed under the steps of control from the sites before e.
Follows(w, e, S) ==
    0 \in S /\ \A j \in S \cap Sites(w) : j < e => Onward(w, j) \subseteq S

\* Control comes to e, and to every site before it but jumps.
Flows(w, e) ==
    \A S : Follows(w, e, S) =>
        e \in S /\ \A j \in Sites(w) : j < e /\ w.code[j].op # "jmp" => j \in S

\* Control comes from a to all that is due after it, up to site t.
Within(w, a, t) ==
    /\ t \in Sites(w) /\ a <= t
    /\ \A u \in Sites(w) : a < u /\ u <= t /\ Due(w, u) => Led(w, a, u)

LEMMA SameOnward == \A w, v, j : v.code[j] = w.code[j] => Onward(v, j) = Onward(w, j)
BY SameCode DEF Onward

LEMMA GrowsAgrees ==
    \A w, v : \A e \in Nat :
        Good(w) /\ Good(v) /\ Grows(w, v) /\ e <= w.size => Agree(w, v, e)
<1> SUFFICES ASSUME NEW w, NEW v, NEW e \in Nat, Good(w), Good(v), Grows(w, v), e <= w.size
             PROVE  Agree(w, v, e)
  OBVIOUS
<1>1. w.size \in Nat /\ Sites(w) \subseteq Nat /\ Sites(v) \subseteq Nat
  BY GoodParts
<1> QED
  BY <1>1 DEF Agree, Grows

\* What is written after e changes nothing before it.
LEMMA FlowsAgrees ==
    \A w, v : \A e \in Nat :
        Good(w) /\ Good(v) /\ Agree(w, v, e) /\ Flows(w, e) => Flows(v, e)
<1> SUFFICES ASSUME NEW w, NEW v, NEW e \in Nat,
                    Good(w), Good(v), Agree(w, v, e), Flows(w, e),
                    NEW S, Follows(v, e, S)
             PROVE  e \in S /\ \A j \in Sites(v) : j < e /\ v.code[j].op # "jmp" => j \in S
  BY DEF Flows
<1>1. Sites(w) \subseteq Nat /\ Sites(v) \subseteq Nat
  BY GoodParts
<1>2. \A j \in Sites(w) : j < e => j \in Sites(v) /\ v.code[j] = w.code[j]
  BY <1>1 DEF Agree
<1>3. \A j \in Sites(v) : j < e => j \in Sites(w) /\ v.code[j] = w.code[j]
  BY <1>1 DEF Agree
<1>4. Follows(w, e, S)
  BY <1>2, SameOnward DEF Follows
<1> QED
  BY <1>3, <1>4 DEF Flows

\* Control comes to what is due within reach of a, if it comes to a.
LEMMA Arrives ==
    ASSUME NEW w, Sites(w) \subseteq Nat, NEW a \in Nat, NEW S, a \in S, NEW t \in Sites(w),
           \A i \in S \cap Sites(w) :
               a <= i /\ i < t /\ w.code[i].op # "jmp" => Targets(w, i) \subseteq S,
           Within(w, a, t), Due(w, t)
    PROVE  t \in S
<1> DEFINE T == {n \in Nat : \A u \in Sites(w) :
                    u <= n /\ a <= u /\ u <= t /\ Due(w, u) => u \in S}
<1>1. ASSUME NEW u \in Sites(w), a <= u, u <= t, Due(w, u),
             \A i \in Sites(w) : i < u /\ a <= i /\ i <= t /\ Due(w, i) => i \in S
      PROVE  u \in S
  <2>1. CASE u = a
    BY <2>1
  <2>2. CASE a < u
    <3>1. PICK i \in Sites(w) :
              a <= i /\ i < u /\ w.code[i].op # "jmp" /\ u \in Targets(w, i)
      BY <1>1, <2>2 DEF Within, Led
    <3>2. i < t /\ i <= t
      BY <1>1, <3>1
    <3>3. i \in S
      BY <1>1, <3>1, <3>2 DEF Due
    <3> QED
      BY <3>1, <3>2, <3>3
  <2> QED
    BY <1>1, <2>1, <2>2
<1>2. 0 \in T
  <2> SUFFICES ASSUME NEW u \in Sites(w), u <= 0, a <= u, u <= t, Due(w, u) PROVE u \in S
    OBVIOUS
  <2> QED
    BY <1>1
<1>3. ASSUME NEW n \in T PROVE n + 1 \in T
  <2>1. n \in Nat
    OBVIOUS
  <2> SUFFICES ASSUME NEW u \in Sites(w), u <= n + 1, a <= u, u <= t, Due(w, u)
               PROVE  u \in S
    BY <2>1
  <2>2. \A i \in Sites(w) : i < u => i <= n
    BY <2>1
  <2>3. \A i \in Sites(w) : i <= n /\ a <= i /\ i <= t /\ Due(w, i) => i \in S
    OBVIOUS
  <2> HIDE DEF T
  <2> QED
    BY <1>1, <2>2, <2>3
<1>4. T = Nat
  <2>1. T \subseteq Nat
    OBVIOUS
  <2> HIDE DEF T
  <2> QED
    BY <1>2, <1>3, <2>1, Induction
<1>5. t \in Nat /\ a <= t /\ t <= t
  BY DEF Within
<1>6. t \in T
  BY <1>4, <1>5
<1> QED
  BY <1>5, <1>6

\* What is within reach stays so when something is written after it.
LEMMA WithinStays ==
    ASSUME NEW w, Good(w), NEW v, Good(v), Grows(w, v),
           \A j \in Pending(v) \ Pending(w) : j >= w.size,
           NEW a, NEW t, Within(w, a, t)
    PROVE  Within(v, a, t)
<1>1. /\ w.size \in Nat /\ \A j \in Sites(w) : j \in Nat /\ j < w.size
      /\ \A j \in Sites(v) : j \in Nat
  BY GoodParts
<1>2. \A j \in Sites(w) : j \in Sites(v) /\ v.code[j] = w.code[j] /\ Targets(v, j) = Targets(w, j)
  BY SameCode DEF Grows
<1>3. t \in Sites(w) /\ a <= t
  BY DEF Within
<1>4. ASSUME NEW u \in Sites(v), a < u, u <= t, Due(v, u) PROVE Led(v, a, u)
  <2>1. u < w.size
    BY <1>1, <1>3, <1>4
  <2>2. u \in Sites(w)
    BY <1>1, <2>1 DEF Grows
  <2>3. u \in Pending(v) => u \in Pending(w)
    BY <1>1, <2>1, <2>2
  <2>4. Due(w, u)
    BY <1>2, <1>4, <2>2, <2>3 DEF Due
  <2>5. PICK i \in Sites(w) : a <= i /\ i < u /\ w.code[i].op # "jmp" /\ u \in Targets(w, i)
    BY <1>4, <2>2, <2>4 DEF Within, Led
  <2> QED
    BY <1>2, <2>5 DEF Led
<1> QED
  BY <1>2, <1>3, <1>4 DEF Within

LEMMA WithinLeads ==
    \A v, a, t : Leads(v, a) /\ t \in Sites(v) /\ a <= t => Within(v, a, t)
BY DEF Leads, Within
LEMMA EmptySeqs == SetToSeqs({}) = {<<>>}
<1>1. Cardinality({}) = 0
  BY FS_EmptySet
<1>2. 1 .. 0 = {}
  OBVIOUS
<1>3. \A f : f \in [{} -> {}] <=> f = <<>>
  <2>1. <<>> \in [{} -> {}]
    <3>1. DOMAIN <<>> = {}
      OBVIOUS
    <3> QED
      BY <3>1
  <2>2. ASSUME NEW f \in [{} -> {}] PROVE f = <<>>
    <3>1. f \in Seq({})
      BY <1>2
    <3>2. Len(f) = 0
      BY <1>2, <3>1
    <3> QED
      BY <3>1, <3>2
  <2> QED
    BY <2>1, <2>2
<1> QED
  BY <1>1, <1>2, <1>3 DEF SetToSeqs

LEMMA NoLoopAtEntry ==
    ASSUME NEW f, 1 \in DOMAIN f.blocks, \A b \in DOMAIN f.blocks : 1 \notin Successor(f, b)
    PROVE  LoopInfo(f)[1] = <<>>
<1> DEFINE Blocks == DOMAIN f.blocks
        without == [h \in Blocks |-> ConnectionsIn(Flow(f, Blocks \ {h}))]
        Dominates(h, b) == h \in {1, b} \/ ~without[h][1, b]
        Back(h) == {b \in Blocks : h \in Successor(f, b) /\ Dominates(h, b)}
        loop == [h \in {h \in Blocks : Back(h) # {}} |->
                    {h} \cup {b \in Blocks \ {h} :
                        \E s \in Back(h) \ {h} : without[h][b, s]}]
        Around(b) == {h \in DOMAIN loop : b \in loop[h]}
        Inward(s) ==
            \A m, n \in DOMAIN s : m <= n => loop[s[n]] \subseteq loop[s[m]]
<1>1. LoopInfo(f)[1] = CHOOSE s \in SetToSeqs(Around(1)) : Inward(s)
  BY DEF LoopInfo
<1> HIDE DEF without
<1>2. Back(1) = {}
  OBVIOUS
<1>3. ASSUME NEW h \in DOMAIN loop PROVE 1 \notin loop[h]
  <2>1. h \in Blocks /\ Back(h) # {} /\ h # 1
    BY <1>2
  <2>2. \A s \in Back(h) \ {h} : ~without[h][1, s]
    BY <2>1
  <2> QED
    BY <2>1, <2>2
<1>4. Around(1) = {}
  BY <1>3
<1> HIDE DEF Around, Inward, Back, loop
<1>5. SetToSeqs(Around(1)) = {<<>>}
  BY <1>4, EmptySeqs
<1>6. Inward(<<>>)
  BY DEF Inward
<1> QED
  BY <1>1, <1>5, <1>6

\* In the function declared at h control comes from the begin of a block to
\* each site but jumps, and to a branch to each block that follows.
BlockFlows(w, h) ==
    /\ \A t \in Sites(w) : t > h /\ w.code[t].op # "jmp" =>
        \E b \in DOMAIN F.blocks \cap DOMAIN w.BlockPositions :
            Within(w, w.BlockPositions[b], t)
    /\ \A b \in DOMAIN w.BlockPositions : \A s \in Successor(F, b) :
        \E p \in ToSet(w.PostponedJumps) :
            p.block = s /\ Within(w, w.BlockPositions[b], p.pos)

LEMMA BlockFlowsDeclared ==
    \A v, h : v.BlockPositions = <<>> /\ (\A j \in Sites(v) : ~(j > h)) => BlockFlows(v, h)
BY DEF BlockFlows

\* What printBasicBlock writes: the code of a block up to its end, or, for one
\* that ends in unreachable, code that control goes through.
PrintsBlock(w, v, b) ==
    IF Falls(F, b) THEN Continues(Marked(w, b), v) ELSE EndsBlock(Marked(w, b), v, b)

LEMMA BlockPrinted ==
    ASSUME NEW w, Printing(w), NEW b \in DOMAIN F.blocks, NEW v, PrintsBlock(w, v, b)
    PROVE  /\ Printing(v) /\ Grows(w, v) /\ v.Locals = w.Locals
           /\ v.BlockPositions = With(w.BlockPositions, b, w.size)
           /\ Leads(v, w.size)
           /\ \A s \in Successor(F, b) : Offers(v, w.size, s)
           /\ ToSet(w.PostponedJumps) \subseteq ToSet(v.PostponedJumps)
           /\ \A j \in Pending(v) \ Pending(w) : j >= w.size
<1> DEFINE at == Marked(w, b)
<1>1. /\ Good(at) /\ at.code = w.code /\ at.size = w.size /\ at.Locals = w.Locals
      /\ at.PostponedJumps = w.PostponedJumps
      /\ at.BlockPositions = With(w.BlockPositions, b, w.size)
  BY MarkedGood DEF Printing
<1>2. /\ \E R : Extends(R, at, v)
      /\ Leads(v, at.size)
      /\ \A s \in Successor(F, b) : Offers(v, at.size, s)
  <2>1. CASE Falls(F, b)
    <3>1. Continues(at, v)
      BY <2>1 DEF PrintsBlock
    <3>2. Extends(Straight, at, v) /\ Leads(v, at.size)
      BY <3>1 DEF Continues, Adjoins
    <3>3. Successor(F, b) = {}
      BY <2>1, FallsNowhere DEF Printing
    <3> QED
      BY <3>2, <3>3
  <2>2. CASE ~Falls(F, b)
    <3>1. EndsBlock(at, v, b)
      BY <2>2 DEF PrintsBlock
    <3>2. PICK E : Ends(at, v, E)
      BY <3>1 DEF EndsBlock
    <3>3. Extends(Inside, at, v) /\ Leads(v, at.size)
      BY <3>2 DEF Ends
    <3> QED
      BY <3>1, <3>3 DEF EndsBlock
  <2> QED
    BY <2>1, <2>2
<1> HIDE DEF at
<1>3. Sites(at) = Sites(w) /\ Bounds(at) = Bounds(w) /\ Pending(at) = Pending(w)
  BY <1>1 DEF Sites, Bounds, Pending
<1>4. PICK R : Extends(R, at, v)
  BY <1>2
<1>5. Good(v) /\ v.BlockPositions = at.BlockPositions /\ v.Locals = at.Locals
  BY <1>4 DEF Extends, Writers0, Writers
<1>6. /\ Grows(w, v) /\ ToSet(w.PostponedJumps) \subseteq ToSet(v.PostponedJumps)
      /\ \A j \in Pending(v) \ Pending(w) : j >= w.size
  BY <1>1, <1>3, <1>4 DEF Grows, Extends
<1> QED
  BY <1>1, <1>2, <1>5, <1>6 DEF Printing

\* A block printed for the first time is added to it.
LEMMA BlockFlowsBlock ==
    ASSUME NEW w, Printing(w), NEW h, BlockFlows(w, h),
           NEW b \in DOMAIN F.blocks, b \notin DOMAIN w.BlockPositions,
           NEW v, PrintsBlock(w, v, b)
    PROVE  BlockFlows(v, h)
<1>1. v.BlockPositions = With(w.BlockPositions, b, w.size)
  BY BlockPrinted
<1>2. /\ Good(w) /\ Good(v) /\ Leads(v, w.size)
      /\ \A s \in Successor(F, b) : Offers(v, w.size, s)
  BY BlockPrinted DEF Printing
<1>3. /\ Grows(w, v) /\ ToSet(w.PostponedJumps) \subseteq ToSet(v.PostponedJumps)
      /\ \A j \in Pending(v) \ Pending(w) : j >= w.size
  BY BlockPrinted
<1>4. b \in DOMAIN v.BlockPositions /\ v.BlockPositions[b] = w.size
  BY <1>1, <1>2 DEF With
<1>5. ASSUME NEW c \in DOMAIN w.BlockPositions
      PROVE  /\ c \in DOMAIN v.BlockPositions
             /\ \A t : Within(w, w.BlockPositions[c], t) => Within(v, v.BlockPositions[c], t)
  <2>1. c \in DOMAIN v.BlockPositions /\ v.BlockPositions[c] = w.BlockPositions[c]
    BY <1>1, <1>2, <1>5 DEF With
  <2> QED
    BY <1>2, <1>3, <2>1, WithinStays
<1>6. ASSUME NEW t \in Sites(v), t > h, v.code[t].op # "jmp"
      PROVE  \E c \in DOMAIN F.blocks \cap DOMAIN v.BlockPositions :
                Within(v, v.BlockPositions[c], t)
  <2>1. CASE t \in Sites(w)
    <3>1. v.code[t] = w.code[t]
      BY <1>3, <2>1 DEF Grows
    <3>2. PICK c \in DOMAIN F.blocks \cap DOMAIN w.BlockPositions :
            Within(w, w.BlockPositions[c], t)
      BY <1>6, <2>1, <3>1 DEF BlockFlows
    <3> QED
      BY <1>5, <3>2
  <2>2. CASE t \notin Sites(w)
    <3>1. w.size \in Nat /\ t \in Nat /\ t >= w.size
      BY <1>2, <1>3, <2>2, GoodParts DEF Grows
    <3>2. Within(v, w.size, t)
      BY <1>2, <3>1, WithinLeads
    <3> QED
      BY <1>4, <3>2
  <2> QED
    BY <2>1, <2>2
<1>7. ASSUME NEW c \in DOMAIN v.BlockPositions, NEW s \in Successor(F, c)
      PROVE  \E p \in ToSet(v.PostponedJumps) :
                p.block = s /\ Within(v, v.BlockPositions[c], p.pos)
  <2>1. CASE c = b
    <3>1. PICK p \in ToSet(v.PostponedJumps) :
            p.block = s /\ p.pos \in Sites(v) /\ p.pos >= w.size
      BY <1>2, <1>7, <2>1 DEF Offers
    <3>2. w.size \in Nat /\ p.pos \in Nat
      BY <1>2, <3>1, GoodParts
    <3>3. Within(v, w.size, p.pos)
      BY <1>2, <3>1, <3>2, WithinLeads
    <3> QED
      BY <1>4, <2>1, <3>1, <3>3
  <2>2. CASE c # b
    <3>1. c \in DOMAIN w.BlockPositions
      BY <1>1, <1>2, <1>7, <2>2 DEF With
    <3>2. PICK p \in ToSet(w.PostponedJumps) :
            p.block = s /\ Within(w, w.BlockPositions[c], p.pos)
      BY <1>7, <3>1 DEF BlockFlows
    <3> QED
      BY <1>3, <1>5, <3>1, <3>2
  <2> QED
    BY <2>1, <2>2
<1> QED
  BY <1>6, <1>7 DEF BlockFlows

\* Jumps are.
LEMMA BlockFlowsJump ==
    ASSUME NEW w, Good(w), NEW h, BlockFlows(w, h), NEW v, Good(v), Grows(w, v),
           v.BlockPositions = w.BlockPositions, v.PostponedJumps = w.PostponedJumps,
           \A j \in Sites(v) \ Sites(w) : v.code[j].op = "jmp"
    PROVE  BlockFlows(v, h)
<1>1. \A j \in Pending(v) \ Pending(w) : j >= w.size
  BY DEF Pending
<1>2. \A a, t : Within(w, a, t) => Within(v, a, t)
  BY <1>1, WithinStays
<1>3. \A t \in Sites(v) : v.code[t].op # "jmp" => t \in Sites(w) /\ w.code[t].op # "jmp"
  BY DEF Grows
<1> QED
  BY <1>2, <1>3 DEF BlockFlows

\* With its branches fixed control comes to the end of the function.
LEMMA FunctionFlows ==
    ASSUME NEW w, Printing(w), NEW h, NEW D, Body(w, h, D),
           \A b \in DOMAIN F.blocks : b \in DOMAIN w.BlockPositions,
           Flows(w, h), BlockFlows(w, h), w.BlockPositions[1] = After(w, h),
           NEW v, v = FixupPostponed(FixupFD(w, h))
    PROVE  Flows(v, v.size)
<1>1. /\ Good(w) /\ h \in Sites(w) /\ h \in Nat /\ w.code[h].op = "fd" /\ h < w.size
      /\ w.size \in Nat /\ \A j \in Sites(w) : j \in Nat /\ j < w.size
  BY BodySites, GoodParts DEF Printing
<1>2. /\ Good(v) /\ Patched(w, v)
      /\ \A j \in Sites(w) : j # h /\ j \notin Pending(w) => v.code[j] = w.code[j]
      /\ Past(v, h) = w.size
      /\ \A p \in ToSet(w.PostponedJumps) :
           /\ p.block \in DOMAIN F.blocks
           /\ p.pos + v.code[p.pos].off = w.BlockPositions[p.block]
  BY <1>1, FunctionFixed
<1>3. /\ v.size = w.size /\ Sites(v) = Sites(w)
      /\ \A j \in Sites(w) : After(v, j) = After(w, j)
      /\ \A j \in Sites(w) : v.code[j].op = w.code[j].op
  BY <1>1, <1>2, PatchedText DEF Patched, Alike
<1>4. \A j \in Pending(w) : j > h /\ j \in Sites(w) /\ w.code[j].op = "jmp"
  BY <1>1 DEF Body, Good
<1>5. Flows(v, h)
  <2>1. \A j \in Sites(w) : j < h => v.code[j] = w.code[j]
    BY <1>1, <1>2, <1>4
  <2>2. Agree(w, v, h)
    BY <1>3, <2>1 DEF Agree
  <2> QED
    BY <1>1, <1>2, <2>2, FlowsAgrees
<1> SUFFICES ASSUME NEW S, Follows(v, v.size, S)
             PROVE  v.size \in S /\
                    \A j \in Sites(v) : j < v.size /\ v.code[j].op # "jmp" => j \in S
  BY DEF Flows
<1>6. 0 \in S /\ \A j \in S \cap Sites(w) : Onward(v, j) \subseteq S
  BY <1>1, <1>3 DEF Follows
<1>7. h \in S /\ \A j \in Sites(w) : j < h /\ w.code[j].op # "jmp" => j \in S
  <2>1. Follows(v, h, S)
    BY <1>3, <1>6 DEF Follows
  <2> QED
    BY <1>3, <1>5, <2>1 DEF Flows
<1>8. w.size \in S /\ w.BlockPositions[1] \in S
  <2>1. v.code[h].op = "fd" /\ Onward(v, h) \subseteq S
    BY <1>1, <1>3, <1>6, <1>7
  <2>2. Targets(v, h) = {w.size}
    BY <1>2, <2>1 DEF Targets
  <2>3. After(v, h) = After(w, h)
    BY <1>1, <1>3
  <2> QED
    BY <2>1, <2>2, <2>3 DEF Onward
<1>9. ASSUME NEW i \in S \cap Sites(w), i > h, w.code[i].op # "jmp"
      PROVE  Targets(w, i) \subseteq S
  <2>1. v.code[i] = w.code[i]
    <3>1. i \in Sites(w) /\ i \notin Pending(w)
      BY <1>4, <1>9
    <3>2. i # h
      BY <1>1, <1>9, <3>1
    <3> QED
      BY <1>2, <3>1, <3>2
  <2>2. Targets(v, i) = Targets(w, i)
    BY <2>1, SameCode
  <2>3. Onward(v, i) \subseteq S
    BY <1>6, <1>9
  <2> QED
    BY <2>2, <2>3 DEF Onward
<1>10. \A b \in DOMAIN F.blocks : w.BlockPositions[b] \in Nat /\ w.BlockPositions[b] > h
  BY <1>1 DEF Body, Opened, Bounds
<1>11. ASSUME NEW b \in DOMAIN F.blocks, w.BlockPositions[b] \in S,
              NEW t, Within(w, w.BlockPositions[b], t), Due(w, t)
       PROVE  t \in S
  <2> DEFINE a == w.BlockPositions[b]
  <2>1. a \in Nat /\ a > h /\ a \in S
    BY <1>10, <1>11
  <2>2. Within(w, a, t)
    BY <1>11
  <2> HIDE DEF a
  <2>3. t \in Sites(w) /\ Sites(w) \subseteq Nat
    BY <1>1, <2>2 DEF Within
  <2>4. \A i \in S \cap Sites(w) :
            a <= i /\ i < t /\ w.code[i].op # "jmp" => Targets(w, i) \subseteq S
    BY <1>1, <1>9, <2>1
  <2> QED
    BY <1>11, <2>1, <2>2, <2>3, <2>4, Arrives
<1> DEFINE B == {b \in DOMAIN F.blocks : w.BlockPositions[b] \in S}
<1>12. ASSUME NEW b \in B, NEW s \in Successor(F, b) PROVE s \in B
  <2>1. PICK p \in ToSet(w.PostponedJumps) :
            p.block = s /\ Within(w, w.BlockPositions[b], p.pos)
    BY <1>12 DEF BlockFlows
  <2>2. p.pos \in Pending(w)
    BY DEF Pending
  <2>3. p.pos \in S
    BY <1>11, <1>12, <2>1, <2>2 DEF Due
  <2>4. p.pos \in Sites(w) /\ v.code[p.pos].op = "jmp"
    BY <1>3, <1>4, <2>2
  <2>5. p.pos + v.code[p.pos].off \in Onward(v, p.pos)
    BY <2>4 DEF Onward, Targets
  <2>6. w.BlockPositions[s] \in S /\ s \in DOMAIN F.blocks
    BY <1>2, <1>6, <2>1, <2>3, <2>4, <2>5
  <2> QED
    BY <2>6
<1>13. B = DOMAIN F.blocks
  <2>1. F.blocks \in Seq(ToSet(F.blocks)) /\ F.blocks # <<>> /\ Simplified(F)
    BY DEF Printing, ValidFunction
  <2>2. 1 \in B
    BY <1>8, <2>1
  <2>3. B \in SUBSET DOMAIN F.blocks /\ \A b \in B : Successor(F, b) \subseteq B
    BY <1>12
  <2> HIDE DEF B
  <2> QED
    BY <2>1, <2>2, <2>3 DEF Simplified
<1>14. ASSUME NEW j \in Sites(w), j > h, w.code[j].op # "jmp" PROVE j \in S
  <2>1. PICK b \in DOMAIN F.blocks \cap DOMAIN w.BlockPositions :
            Within(w, w.BlockPositions[b], j)
    BY <1>14 DEF BlockFlows
  <2> QED
    BY <1>11, <1>13, <1>14, <2>1 DEF Due
<1> HIDE DEF B
<1> QED
  BY <1>1, <1>3, <1>7, <1>8, <1>14

\* So it does through straight code.
LEMMA StraightFlows ==
    \A w, v : Continues(w, v) /\ Flows(w, w.size) => Flows(v, v.size)
<1> SUFFICES ASSUME NEW w, NEW v, Continues(w, v), Flows(w, w.size), NEW S,
                    Follows(v, v.size, S)
             PROVE  v.size \in S /\
                    \A j \in Sites(v) : j < v.size /\ v.code[j].op # "jmp" => j \in S
  BY DEF Flows
<1>1. /\ Good(w) /\ Good(v) /\ Grows(w, v) /\ Leads(v, w.size)
      /\ w.size < v.size => Led(v, w.size, v.size)
  BY ContinuesGood, ExtendsGrows DEF Continues, Adjoins
<1>2. /\ w.size \in Nat /\ v.size \in Nat /\ w.size <= v.size
      /\ Sites(v) \subseteq Nat /\ \A j \in Sites(v) : j \in Nat /\ j < v.size
  BY <1>1, GoodParts DEF Grows
<1>3. 0 \in S /\ \A j \in S \cap Sites(v) : Onward(v, j) \subseteq S
  BY <1>2 DEF Follows
<1>4. w.size \in S /\ \A j \in Sites(v) : j < w.size /\ v.code[j].op # "jmp" => j \in S
  <2>1. Agree(w, v, w.size)
    BY <1>1, <1>2, GrowsAgrees
  <2>2. Flows(v, w.size)
    BY <1>1, <1>2, <2>1, FlowsAgrees
  <2>3. Follows(v, w.size, S)
    BY <1>3 DEF Follows
  <2> QED
    BY <2>2, <2>3 DEF Flows
<1>5. \A i \in S \cap Sites(v) : Targets(v, i) \subseteq S
  BY <1>3 DEF Onward
<1>6. ASSUME NEW t \in Sites(v), t >= w.size, v.code[t].op # "jmp" PROVE t \in S
  <2>1. Within(v, w.size, t) /\ Due(v, t)
    BY <1>1, <1>2, <1>6, WithinLeads DEF Due
  <2> QED
    BY <1>2, <1>4, <1>5, <2>1, Arrives
<1>7. v.size \in S
  <2>1. CASE w.size = v.size
    BY <1>4, <2>1
  <2>2. CASE w.size < v.size
    <3>1. PICK i \in Sites(v) :
            w.size <= i /\ v.code[i].op # "jmp" /\ v.size \in Targets(v, i)
      BY <1>1, <2>2 DEF Led
    <3>2. i \in S
      BY <1>2, <1>6, <3>1
    <3> QED
      BY <1>5, <3>1, <3>2
  <2> QED
    BY <1>2, <2>1, <2>2
<1> QED
  BY <1>2, <1>4, <1>6, <1>7

-----------------------------------------------------------------------------
(* Each block is printed once *)

\* The calls of printLoop are one in the other, each for a loop of the one
\* before, which is not begun again.
Nested ==
    \A n \in DOMAIN work :
        /\ Len(work[n].loops) = n - 1
        /\ work[n].todo \subseteq InLoop(LI, work[n].loops)
        /\ \A m \in 1 .. n - 1 : work[n].loops[m] \notin work[m].todo

Once == \A b \in DOMAIN LI : Waits(b) => b \notin DOMAIN writer.BlockPositions

\* The entry comes first, after the header of the declaration.
Entered ==
    IF writer.BlockPositions = <<>>
    THEN Len(work) = 1 /\ 1 \in work[1].todo /\ After(writer, work[1].begin) = writer.size
    ELSE 1 \in DOMAIN writer.BlockPositions
         /\ writer.BlockPositions[1] = After(writer, work[1].begin)

\* Control comes to all that is written but jumps, up to the function being
\* printed; in it, to what is written of each block, if it comes to the block.
Flowing ==
    /\ work = <<>> => Flows(writer, writer.size)
    /\ work # <<>> => /\ Flows(writer, work[1].begin)
                      /\ BlockFlows(writer, work[1].begin)
                      /\ Entered /\ Nested /\ Once

\* A block that is next to be printed waits nowhere else.
LEMMA OneWay ==
    ASSUME LoopsNest(LI), work \in Seq(Activations), Nested,
           NEW b \in inner.todo, LI[b] = inner.loops,
           NEW n \in DOMAIN work, NEW c \in work[n].todo,
           (LI[c] = work[n].loops /\ c = b) \/ (LI[c] # work[n].loops /\ c \in ToSet(LI[b]))
    PROVE  n = Len(work) /\ c = b
<1>1. /\ Len(work) \in Nat /\ DOMAIN work = 1 .. Len(work) /\ n \in 1 .. Len(work)
      /\ inner = work[Len(work)] /\ Len(work) \in DOMAIN work
  BY DEF inner, Last
<1>2. \A k \in DOMAIN work : work[k] \in Activations
  BY <1>1
<1>3. work[n].loops \in Seq(DOMAIN LI) /\ Len(work[n].loops) = n - 1 /\ c \in DOMAIN LI
      /\ c \in InLoop(LI, work[n].loops)
  BY <1>2 DEF Nested, Activations
<1>4. b \in DOMAIN LI /\ LI[b] \in Seq(DOMAIN LI) /\ Len(LI[b]) = Len(work) - 1
      /\ \A m \in 1 .. Len(work) - 1 : LI[b][m] \notin work[m].todo
  <2>1. inner.loops \in Seq(DOMAIN LI) /\ inner.todo \subseteq DOMAIN LI
    BY <1>1, <1>2 DEF Activations
  <2> QED
    BY <1>1, <2>1 DEF Nested
<1>5. CASE LI[c] = work[n].loops /\ c = b
  <2>1. n - 1 = Len(work) - 1
    BY <1>3, <1>4, <1>5
  <2> QED
    BY <1>1, <1>5, <2>1
<1>6. CASE LI[c] # work[n].loops /\ c \in ToSet(LI[b])
  <2>1. LI[c] = Append(work[n].loops, c)
    BY <1>3, <1>6 DEF InLoop
  <2>2. Len(LI[c]) = n
    BY <1>1, <1>3, <2>1
  <2>3. PICK k \in 1 .. Len(LI[b]) : c = LI[b][k] /\ LI[c] = SubSeq(LI[b], 1, k)
    <3>1. b \in DOMAIN LI /\ c \in ToSet(LI[b])
      BY <1>4, <1>6
    <3>2. \E k \in 1 .. Len(LI[b]) : c = LI[b][k] /\ LI[c] = SubSeq(LI[b], 1, k)
      BY <3>1, LoopsAround
    <3> QED
      BY <3>2
  <2>4. Len(LI[c]) = k
    BY <1>4, <2>3
  <2>5. n \in 1 .. Len(work) - 1 /\ LI[b][n] = c
    BY <1>4, <2>2, <2>3, <2>4
  <2> QED
    BY <1>4, <2>5
<1> QED
  BY <1>5, <1>6

\* The block printed first is the entry.
LEMMA EntryFirst ==
    ASSUME work \in Seq(Activations), DOMAIN LI \subseteq Nat \ {0}, Nested,
           Len(work) = 1, 1 \in work[1].todo, NEW b \in DOMAIN LI, CanPrint(b)
    PROVE  b = 1 /\ inner.loops = <<>>
<1>1. inner = work[1] /\ 1 \in DOMAIN work /\ work[1] \in Activations
  BY DEF inner, Last
<1>2. inner.loops = <<>>
  <2>1. inner.loops \in Seq(DOMAIN LI) /\ Len(inner.loops) = 0
    BY <1>1 DEF Activations, Nested
  <2> QED
    BY <2>1
<1> DEFINE first == CHOOSE x \in inner.todo : \A c \in inner.todo : x <= c
<1>3. inner.todo \subseteq Nat \ {0} /\ 1 \in inner.todo
  BY <1>1 DEF Activations
<1>4. first = 1
  <2>1. \A c \in inner.todo : 1 <= c
    BY <1>3
  <2>2. first \in inner.todo /\ first <= 1
    BY <1>3, <2>1
  <2> QED
    BY <1>3, <2>2
<1>5. Upcoming = {first}
  BY <1>2 DEF Upcoming
<1> HIDE DEF first
<1> QED
  BY <1>2, <1>4, <1>5 DEF CanPrint

LEMMA BlockNumbers ==
    \A f : ValidFunction(f) =>
        /\ DOMAIN LoopInfo(f) = DOMAIN f.blocks
        /\ DOMAIN f.blocks \subseteq Nat \ {0} /\ 1 \in DOMAIN f.blocks
        /\ LoopInfo(f)[1] = <<>>
<1> SUFFICES ASSUME NEW f, ValidFunction(f)
             PROVE  /\ DOMAIN LoopInfo(f) = DOMAIN f.blocks
                    /\ DOMAIN f.blocks \subseteq Nat \ {0} /\ 1 \in DOMAIN f.blocks
                    /\ LoopInfo(f)[1] = <<>>
  OBVIOUS
<1>1. f.blocks \in Seq(ToSet(f.blocks)) /\ Simplified(f)
  BY DEF ValidFunction
<1>2. DOMAIN f.blocks \subseteq Nat \ {0}
  BY <1>1
<1>3. 1 \in DOMAIN f.blocks /\ DOMAIN LoopInfo(f) = DOMAIN f.blocks
  BY LoopTypes
<1>4. LoopInfo(f)[1] = <<>>
  BY <1>1, <1>3, NoLoopAtEntry DEF Simplified
<1> QED
  BY <1>2, <1>3, <1>4

LEMMA InitFlows == Init => Flowing
<1> SUFFICES ASSUME Init PROVE Flowing
  OBVIOUS
<1>1. work = <<>> /\ writer.size = 0 /\ Sites(writer) = {}
  BY DEF Init, EmptyWriter, Sites
<1> QED
  BY <1>1 DEF Flowing, Flows, Follows

LEMMA FlowsByStartFunction == Inv /\ Flowing /\ StartFunction => Flowing'
<1> SUFFICES ASSUME Inv, Flowing, StartFunction PROVE Flowing'
  OBVIOUS
<1> USE DEF StartFunction
<1>1. PICK D : Idle(D)
  BY DEF Inv
<1>2. Types /\ ValidFunction(F) /\ Good(writer) /\ Flows(writer, writer.size)
  BY <1>1, ValidModule DEF Inv, Idle, Flowing
<1>3. /\ Good(writer') /\ writer'.BlockPositions = <<>> /\ Grows(writer, writer')
      /\ Sites(writer') = Sites(writer) \cup {writer.size}
      /\ After(writer', writer.size) = writer'.size
  <2>1. Apart(writer, writer.size, D) /\ writer' = Declared(writer, F)
        /\ writer.PostponedJumps = <<>> /\ writer.BlockPositions = <<>>
    BY <1>1 DEF Idle
  <2>2. Printing(writer') /\ writer'.BlockPositions = <<>> /\ Grows(writer, writer')
        /\ Sites(writer') = Sites(writer) \cup {writer.size}
        /\ After(writer', writer.size) = writer'.size
    <3> HIDE DEF StartFunction
    <3> QED
      BY <1>2, <2>1, Declares
  <2> QED
    BY <2>2 DEF Printing
<1>4. writer.size \in Nat /\ \A j \in Sites(writer) : j \in Nat /\ j < writer.size
  BY <1>2, GoodParts
<1> DEFINE a == [loops |-> <<>>, begin |-> writer.size, todo |-> InLoop(LI', <<>>)]
<1>5. work' = <<a>>
  BY DEF Activation
<1>6. a.loops = <<>> /\ a.begin = writer.size /\ a.todo = InLoop(LI', <<>>)
  OBVIOUS
<1> HIDE DEF a
<1>7. Len(work') = 1 /\ DOMAIN work' = {1} /\ work'[1] = a /\ work' # <<>>
  BY <1>5
<1>8. Flows(writer', writer.size)
  <2>1. Agree(writer, writer', writer.size)
    BY <1>2, <1>3, <1>4, GrowsAgrees
  <2> QED
    BY <1>2, <1>3, <1>4, <2>1, FlowsAgrees
<1>9. BlockFlows(writer, work[1].begin)'
  <2>1. writer'.BlockPositions = <<>> /\ \A j \in Sites(writer') : ~(j > writer.size)
    BY <1>3, <1>4
  <2> QED
    BY <1>6, <1>7, <2>1 DEF BlockFlows
<1>10. Entered'
  <2>1. 1 \in InLoop(LI', <<>>)
    BY <1>2, BlockNumbers DEF InLoop
  <2> QED
    BY <1>3, <1>6, <1>7, <2>1 DEF Entered
<1>11. Nested'
  BY <1>6, <1>7 DEF Nested
<1>12. Once'
  BY <1>3 DEF Once
<1> QED
  BY <1>6, <1>7, <1>8, <1>9, <1>10, <1>11, <1>12 DEF Flowing

LEMMA FlowsByPrintBlock == \A b \in DOMAIN LI : Inv /\ Flowing /\ PrintBlock(b) => Flowing'
<1> SUFFICES ASSUME NEW b \in DOMAIN LI, Inv, Flowing, PrintBlock(b) PROVE Flowing'
  OBVIOUS
<1>1. /\ work # <<>> /\ b \in inner.todo /\ LI[b] = inner.loops /\ CanPrint(b)
      /\ writer' = PrintBasicBlock(writer, b) /\ work' = Done(b)
      /\ UNCHANGED <<module, fn, LI, layout, ended>>
  BY DEF PrintBlock, CanPrint
<1>2. PICK D : Busy(D)
  BY <1>1 DEF Inv
<1>3. /\ Types /\ ValidFunction(F) /\ Printing(writer) /\ Good(writer)
      /\ LI = LoopInfo(F) /\ LoopsNest(LI) /\ work \in Seq(Activations)
  BY <1>2, ValidModule, LoopTypes DEF Inv, Busy, Printing
<1>4. b \in DOMAIN F.blocks /\ DOMAIN LI \subseteq Nat \ {0}
  BY <1>3, BlockNumbers
<1> DEFINE h == work[1].begin
<1>6. /\ Flows(writer, h) /\ BlockFlows(writer, h) /\ Nested /\ Once /\ Entered
      /\ Body(writer, h, D)
  BY <1>1, <1>2 DEF Flowing, Busy
<1> HIDE DEF h
<1>5. PrintsBlock(writer, writer', b)
  BY <1>1, <1>3, <1>4, <1>6, BlockEnds DEF Body, PrintsBlock
<1>7. /\ Good(writer') /\ Grows(writer, writer')
      /\ writer'.BlockPositions = With(writer.BlockPositions, b, writer.size)
  <2>1. /\ Printing(writer') /\ Grows(writer, writer')
        /\ writer'.BlockPositions = With(writer.BlockPositions, b, writer.size)
    BY <1>3, <1>4, <1>5, BlockPrinted
  <2> QED
    BY <2>1 DEF Printing
<1>8. /\ h \in Sites(writer) /\ h \in Nat /\ h < writer.size /\ writer.size \in Nat
      /\ After(writer', h) = After(writer, h)
  <2>1. h \in Sites(writer) /\ h \in Nat /\ h < writer.size /\ writer.size \in Nat
    BY <1>3, <1>6, BodySites, GoodParts
  <2>2. writer'.code[h] = writer.code[h]
    BY <1>7, <2>1 DEF Grows
  <2> QED
    BY <2>1, <2>2, SameCode
<1>9. /\ Len(work) \in Nat /\ Len(work) >= 1 /\ DOMAIN work = 1 .. Len(work)
      /\ inner = work[Len(work)]
      /\ work' \in Seq(Activations) /\ Len(work') = Len(work)
      /\ \A n \in DOMAIN work :
           /\ work'[n].loops = work[n].loops /\ work'[n].begin = work[n].begin
           /\ work'[n].todo \subseteq work[n].todo
           /\ n = Len(work) => b \notin work'[n].todo
  BY <1>1, <1>3, WorkDone
<1>10. DOMAIN work' = DOMAIN work /\ work' # <<>> /\ work'[1].begin = h
  BY <1>9 DEF h
<1>11. b \notin DOMAIN writer.BlockPositions
  <2>1. Waits(b)
    BY <1>1, <1>9 DEF Waits
  <2> QED
    BY <1>6, <2>1 DEF Once
<1>12. Flows(writer', h)
  <2>1. Agree(writer, writer', h)
    BY <1>3, <1>7, <1>8, GrowsAgrees
  <2> QED
    BY <1>3, <1>6, <1>7, <1>8, <2>1, FlowsAgrees
<1>13. BlockFlows(writer, work[1].begin)'
  <2>1. BlockFlows(writer', h)
    BY <1>3, <1>4, <1>5, <1>6, <1>11, BlockFlowsBlock
  <2>2. F' = F
    BY <1>1 DEF F, M
  <2> QED
    BY <1>10, <2>1, <2>2 DEF BlockFlows
<1>14. DOMAIN writer'.BlockPositions = DOMAIN writer.BlockPositions \cup {b}
       /\ writer'.BlockPositions[b] = writer.size
       /\ \A c \in DOMAIN writer.BlockPositions :
            writer'.BlockPositions[c] = writer.BlockPositions[c]
  BY <1>7, <1>11 DEF With
<1>15. Entered'
  <2>1. writer'.BlockPositions # <<>>
    BY <1>14
  <2>2. CASE writer.BlockPositions = <<>>
    <3>1. Len(work) = 1 /\ 1 \in work[1].todo /\ After(writer, h) = writer.size
      BY <1>6, <2>2 DEF Entered, h
    <3>2. b = 1
      BY <1>1, <1>3, <1>4, <1>6, <3>1, EntryFirst
    <3> QED
      BY <1>8, <1>10, <1>14, <2>1, <3>1, <3>2 DEF Entered
  <2>3. CASE writer.BlockPositions # <<>>
    <3>1. 1 \in DOMAIN writer.BlockPositions /\ writer.BlockPositions[1] = After(writer, h)
      BY <1>6, <2>3 DEF Entered, h
    <3> QED
      BY <1>8, <1>10, <1>14, <2>1, <3>1 DEF Entered
  <2> QED
    BY <2>2, <2>3
<1>16. Nested'
  <2> SUFFICES ASSUME NEW n \in DOMAIN work
               PROVE  /\ Len(work'[n].loops) = n - 1
                      /\ work'[n].todo \subseteq InLoop(LI', work'[n].loops)
                      /\ \A m \in 1 .. n - 1 : work'[n].loops[m] \notin work'[m].todo
    BY <1>10 DEF Nested
  <2>1. /\ Len(work[n].loops) = n - 1 /\ work[n].todo \subseteq InLoop(LI, work[n].loops)
        /\ \A m \in 1 .. n - 1 : work[n].loops[m] \notin work[m].todo
    BY <1>6 DEF Nested
  <2>2. \A m \in 1 .. n - 1 : m \in DOMAIN work
    BY <1>9
  <2> QED
    BY <1>1, <1>9, <2>1, <2>2
<1>17. ASSUME NEW c \in DOMAIN LI, c \in DOMAIN writer'.BlockPositions PROVE ~Waits(c)'
  <2> SUFFICES ASSUME NEW n \in DOMAIN work, NEW d \in work'[n].todo,
                      (LI[d] = work[n].loops /\ d = c)
                        \/ (LI[d] # work[n].loops /\ d \in ToSet(LI[c]))
               PROVE  FALSE
    BY <1>1, <1>9, <1>10 DEF Waits
  <2>1. d \in work[n].todo
    BY <1>9
  <2>2. CASE c = b
    <3>1. n = Len(work) /\ d = b
      BY <1>1, <1>3, <1>6, <2>1, <2>2, OneWay
    <3> QED
      BY <1>9, <3>1
  <2>3. CASE c # b
    <3>1. ~Waits(c)
      BY <1>6, <1>14, <1>17, <2>3 DEF Once
    <3> QED
      BY <2>1, <3>1 DEF Waits
  <2> QED
    BY <2>2, <2>3
<1> QED
  BY <1>1, <1>10, <1>12, <1>13, <1>15, <1>16, <1>17 DEF Flowing, Once

LEMMA FlowsByEnterLoop == \A b \in DOMAIN LI : Inv /\ Flowing /\ EnterLoop(b) => Flowing'
<1> SUFFICES ASSUME NEW b \in DOMAIN LI, Inv, Flowing, EnterLoop(b) PROVE Flowing'
  OBVIOUS
<1> USE DEF EnterLoop
<1>1. work # <<>> /\ b \in inner.todo /\ LI[b] # inner.loops /\ CanPrint(b)
  BY DEF CanPrint
<1>2. PICK D : Busy(D)
  BY <1>1 DEF Inv
<1>3. /\ Types /\ ValidFunction(F) /\ LI = LoopInfo(F) /\ LoopsNest(LI)
      /\ work \in Seq(Activations)
  BY <1>2, ValidModule, LoopTypes DEF Inv, Busy
<1>4. DOMAIN LI \subseteq Nat \ {0} /\ LI[1] = <<>>
  BY <1>3, BlockNumbers
<1>5. /\ Flows(writer, work[1].begin) /\ BlockFlows(writer, work[1].begin)
      /\ Nested /\ Once /\ Entered
  BY <1>1 DEF Flowing
<1> DEFINE k == Done(b)
           a == [loops |-> LI[b], begin |-> writer.size, todo |-> InLoop(LI, LI[b])]
<1>6. work' = Append(k, a)
  BY DEF Activation
<1>7. a.loops = LI[b] /\ a.todo = InLoop(LI, LI[b])
  OBVIOUS
<1>8. /\ Len(work) \in Nat /\ Len(work) >= 1 /\ DOMAIN work = 1 .. Len(work)
      /\ inner = work[Len(work)]
      /\ k \in Seq(Activations) /\ Len(k) = Len(work)
      /\ \A n \in DOMAIN work :
           /\ k[n].loops = work[n].loops /\ k[n].begin = work[n].begin
           /\ k[n].todo \subseteq work[n].todo
           /\ n = Len(work) => b \notin k[n].todo
  BY <1>1, <1>3, WorkDone
<1> HIDE DEF k, a
<1>9. Len(work) \in Nat /\ Len(work) >= 1 /\ Len(work) \in DOMAIN work
  BY <1>8
<1>10. /\ work' # <<>> /\ DOMAIN work' = 1 .. Len(work) + 1 /\ work'[Len(work) + 1] = a
       /\ \A n \in DOMAIN work : work'[n] = k[n]
       /\ work'[1].begin = work[1].begin
  BY <1>6, <1>8
<1>11. /\ inner.loops \in Seq(DOMAIN LI) /\ Len(inner.loops) = Len(work) - 1
       /\ LI[b] = Append(inner.loops, b)
  <2>1. Len(work) \in DOMAIN work /\ work[Len(work)] \in Activations
    BY <1>3, <1>8
  <2>2. Len(inner.loops) = Len(work) - 1 /\ b \in InLoop(LI, inner.loops)
    BY <1>1, <1>5, <1>8, <2>1 DEF Nested
  <2> QED
    BY <1>1, <1>8, <2>1, <2>2 DEF Activations, InLoop
<1>12. /\ LI[b] \in Seq(DOMAIN LI) /\ Len(LI[b]) = Len(work) /\ LI[b][Len(work)] = b
       /\ \A m \in 1 .. Len(work) - 1 : LI[b][m] = inner.loops[m]
  BY <1>9, <1>11, AppendParts
<1>13. Entered'
  <2>1. writer.BlockPositions # <<>>
    <3> SUFFICES ASSUME writer.BlockPositions = <<>> PROVE FALSE
      OBVIOUS
    <3>1. Len(work) = 1 /\ 1 \in work[1].todo
      BY <1>5 DEF Entered
    <3>2. b = 1 /\ inner.loops = <<>>
      BY <1>1, <1>3, <1>4, <1>5, <3>1, EntryFirst
    <3> QED
      BY <1>1, <1>4, <3>2
  <2> QED
    BY <1>5, <1>10, <2>1 DEF Entered
<1>14. Nested'
  <2> SUFFICES ASSUME NEW n \in DOMAIN work'
               PROVE  /\ Len(work'[n].loops) = n - 1
                      /\ work'[n].todo \subseteq InLoop(LI, work'[n].loops)
                      /\ \A m \in 1 .. n - 1 : work'[n].loops[m] \notin work'[m].todo
    BY DEF Nested
  <2>1. CASE n \in DOMAIN work
    <3>1. /\ Len(work[n].loops) = n - 1 /\ work[n].todo \subseteq InLoop(LI, work[n].loops)
          /\ \A m \in 1 .. n - 1 : work[n].loops[m] \notin work[m].todo
      BY <1>5, <2>1 DEF Nested
    <3>2. \A m \in 1 .. n - 1 : m \in DOMAIN work
      BY <1>8, <2>1
    <3>3. /\ work'[n].loops = work[n].loops /\ work'[n].todo \subseteq work[n].todo
          /\ \A m \in 1 .. n - 1 : work'[m].todo \subseteq work[m].todo
      BY <1>8, <1>10, <2>1, <3>2
    <3> QED
      BY <3>1, <3>3
  <2>2. CASE n = Len(work) + 1
    <3>1. work'[n] = a /\ n - 1 = Len(work)
      BY <1>8, <1>10, <2>2
    <3>2. ASSUME NEW m \in 1 .. Len(work) PROVE LI[b][m] \notin work'[m].todo
      <4>1. m \in DOMAIN work /\ work'[m] = k[m] /\ Len(work) \in DOMAIN work
        BY <1>8, <1>10
      <4>2. CASE m = Len(work)
        BY <1>8, <1>12, <4>1, <4>2
      <4>3. CASE m # Len(work)
        <5>1. m \in 1 .. Len(work) - 1
          BY <1>9, <4>3
        <5>2. work[Len(work)].loops[m] \notin work[m].todo
          BY <1>5, <4>1, <5>1 DEF Nested
        <5> QED
          BY <1>8, <1>12, <4>1, <5>1, <5>2
      <4> QED
        BY <4>2, <4>3
    <3> QED
      BY <1>7, <1>12, <3>1, <3>2
  <2>3. n \in DOMAIN work \/ n = Len(work) + 1
    BY <1>8, <1>10
  <2> QED
    BY <2>1, <2>2, <2>3
<1>15. ASSUME NEW c \in DOMAIN LI, NEW n \in DOMAIN work', NEW d \in work'[n].todo,
              (LI[d] = work'[n].loops /\ d = c)
                \/ (LI[d] # work'[n].loops /\ d \in ToSet(LI[c]))
       PROVE  Waits(c)
  <2>1. CASE n \in DOMAIN work
    <3>1. d \in work[n].todo /\ work'[n].loops = work[n].loops
      BY <1>8, <1>10, <1>15, <2>1
    <3> QED
      BY <1>15, <2>1, <3>1 DEF Waits
  <2>2. CASE n = Len(work) + 1
    <3>1. d \in InLoop(LI, LI[b]) /\ d \in DOMAIN LI /\ work'[n].loops = LI[b]
      BY <1>7, <1>10, <1>15, <2>2 DEF InLoop
    <3>2. b \in ToSet(LI[c])
      <4>1. CASE LI[d] = LI[b] /\ d = c
        <5>1. Len(work) \in DOMAIN LI[b]
          BY <1>8, <1>12
        <5> QED
          BY <1>12, <4>1, <5>1 DEF ToSet
      <4>2. CASE LI[d] # LI[b] /\ d \in ToSet(LI[c])
        <5>1. \E j \in 1 .. Len(LI[c]) : d = LI[c][j] /\ LI[d] = SubSeq(LI[c], 1, j)
          BY <1>3, <4>2, LoopsAround
        <5>2. PICK j \in 1 .. Len(LI[c]) : LI[d] = SubSeq(LI[c], 1, j)
          BY <5>1
        <5>3. LI[c] \in Seq(DOMAIN LI)
          BY <1>3 DEF LoopsNest
        <5>4. LI[d] = Append(LI[b], d)
          BY <3>1, <4>2 DEF InLoop
        <5>5. Len(LI[d]) = Len(work) + 1 /\ LI[d][Len(work)] = b
          BY <1>9, <1>12, <5>4, AppendParts
        <5>6. j = Len(work) + 1
          BY <5>2, <5>3, <5>5
        <5>7. LI[c][Len(work)] = b /\ Len(work) \in DOMAIN LI[c]
          BY <1>8, <5>2, <5>3, <5>5, <5>6
        <5> QED
          BY <5>7 DEF ToSet
      <4> QED
        BY <1>15, <3>1, <4>1, <4>2
    <3>3. Len(work) \in DOMAIN work /\ b \in work[Len(work)].todo /\ LI[b] # work[Len(work)].loops
      BY <1>1, <1>8
    <3> QED
      BY <3>2, <3>3 DEF Waits
  <2>3. n \in DOMAIN work \/ n = Len(work) + 1
    BY <1>8, <1>10
  <2> QED
    BY <2>1, <2>2, <2>3
<1>16. Once'
  BY <1>5, <1>15 DEF Once, Waits
<1>17. BlockFlows(writer, work[1].begin)'
  <2>1. F' = F
    BY DEF F, M
  <2> QED
    BY <1>5, <1>10, <2>1 DEF BlockFlows
<1> QED
  BY <1>5, <1>10, <1>13, <1>14, <1>16, <1>17 DEF Flowing

LEMMA FlowsByEndLoop == Inv /\ Flowing /\ EndLoop => Flowing'
<1> SUFFICES ASSUME Inv, Flowing, EndLoop PROVE Flowing'
  OBVIOUS
<1>1. /\ Len(work) > 1
      /\ writer' = Emit(writer, JumpI("jmp", 0, inner.begin - writer.size))
      /\ work' = Front(work)
      /\ UNCHANGED <<module, fn, LI, layout, ended>>
  BY DEF EndLoop
<1>2. work # <<>>
  BY <1>1
<1>3. PICK D : Busy(D)
  BY <1>2 DEF Inv
<1>4. Printing(writer) /\ Good(writer) /\ work \in Seq(Activations)
  BY <1>3 DEF Busy, Printing
<1>5. Len(work) \in Nat /\ DOMAIN work = 1 .. Len(work) /\ inner = work[Len(work)]
  BY <1>4 DEF inner, Last
<1>6. Len(work) \in 2 .. Len(work)
  BY <1>1, <1>5
<1> DEFINE h == work[1].begin
<1>7. /\ inner.begin \in Bounds(writer) \ D /\ inner.begin > h
      /\ Body(writer, h, D) /\ Apart(writer, h, D)
  BY <1>3, <1>5, <1>6 DEF Busy
<1>8. /\ Flows(writer, h) /\ BlockFlows(writer, h) /\ Nested /\ Once /\ Entered
  BY <1>2 DEF Flowing
<1> HIDE DEF h
<1>9. /\ Good(writer') /\ Grows(writer, writer')
      /\ writer'.BlockPositions = writer.BlockPositions
      /\ writer'.PostponedJumps = writer.PostponedJumps
      /\ \A j \in Sites(writer') \ Sites(writer) : writer'.code[j].op = "jmp"
  <2>1. /\ Printing(writer') /\ Grows(writer, writer')
        /\ writer'.BlockPositions = writer.BlockPositions
        /\ writer'.PostponedJumps = writer.PostponedJumps
        /\ \A j \in Sites(writer') \ Sites(writer) : writer'.code[j].op = "jmp"
    BY <1>1, <1>4, <1>7, BodyLoop
  <2> QED
    BY <2>1 DEF Printing
<1>10. /\ h \in Nat /\ h <= writer.size /\ After(writer', h) = After(writer, h)
  <2>1. h \in Sites(writer) /\ h \in Nat /\ h < writer.size /\ writer.size \in Nat
    BY <1>4, <1>7, BodySites, GoodParts
  <2>2. writer'.code[h] = writer.code[h]
    BY <1>9, <2>1 DEF Grows
  <2> QED
    BY <2>1, <2>2, SameCode
<1>11. /\ work' # <<>> /\ DOMAIN work' = 1 .. Len(work) - 1
       /\ \A n \in 1 .. Len(work) - 1 : n \in DOMAIN work /\ work'[n] = work[n]
       /\ work'[1].begin = h
  <2>1. work' = SubSeq(work, 1, Len(work) - 1)
    BY <1>1 DEF Front
  <2>2. Len(work') = Len(work) - 1 /\ work' \in Seq(Activations)
        /\ \A n \in 1 .. Len(work) - 1 : work'[n] = work[n]
    BY <1>1, <1>4, <1>5, <2>1
  <2>3. 1 \in 1 .. Len(work) - 1 /\ \A n \in 1 .. Len(work) - 1 : n \in DOMAIN work
    BY <1>1, <1>5
  <2>4. DOMAIN work' = 1 .. Len(work) - 1
    BY <2>2
  <2>5. work' # <<>>
    BY <1>1, <1>5, <2>2
  <2> QED
    BY <2>2, <2>3, <2>4, <2>5 DEF h
<1>12. Flows(writer', h)
  <2>1. Agree(writer, writer', h)
    BY <1>4, <1>9, <1>10, GrowsAgrees
  <2> QED
    BY <1>4, <1>8, <1>9, <1>10, <2>1, FlowsAgrees
<1>13. BlockFlows(writer, work[1].begin)'
  <2>1. BlockFlows(writer', h)
    BY <1>4, <1>8, <1>9, BlockFlowsJump
  <2>2. F' = F
    BY <1>1 DEF F, M
  <2> QED
    BY <1>11, <2>1, <2>2 DEF BlockFlows
<1>14. Entered'
  <2>1. Len(work) # 1
    BY <1>1, <1>5
  <2>2. writer.BlockPositions # <<>> /\ 1 \in DOMAIN writer.BlockPositions
        /\ writer.BlockPositions[1] = After(writer, h)
    BY <1>8, <2>1 DEF Entered, h
  <2> QED
    BY <1>9, <1>10, <1>11, <2>2 DEF Entered
<1>15. Nested'
  <2> SUFFICES ASSUME NEW n \in 1 .. Len(work) - 1
               PROVE  /\ Len(work'[n].loops) = n - 1
                      /\ work'[n].todo \subseteq InLoop(LI, work'[n].loops)
                      /\ \A m \in 1 .. n - 1 : work'[n].loops[m] \notin work'[m].todo
    BY <1>1, <1>11 DEF Nested
  <2>1. \A m \in 1 .. n - 1 : m \in 1 .. Len(work) - 1
    BY <1>5
  <2> QED
    BY <1>8, <1>11, <2>1 DEF Nested
<1>16. Once'
  BY <1>1, <1>8, <1>9, <1>11 DEF Once, Waits
<1> QED
  BY <1>11, <1>12, <1>13, <1>14, <1>15, <1>16 DEF Flowing

LEMMA FlowsByFinishFunction == Inv /\ Flowing /\ FinishFunction => Flowing'
<1> SUFFICES ASSUME Inv, Flowing, FinishFunction PROVE Flowing'
  OBVIOUS
<1> DEFINE v == FixupPostponed(FixupFD(writer, inner.begin))
           h == work[1].begin
<1>1. /\ Len(work) = 1 /\ inner.todo = {} /\ writer' = Reset(v) /\ work' = <<>>
  BY DEF FinishFunction
<1>2. PICK D : Busy(D)
  BY <1>1 DEF Inv
<1>3. /\ Printing(writer) /\ Good(writer) /\ work \in Seq(Activations)
      /\ ValidFunction(F) /\ LI = LoopInfo(F)
      /\ Body(writer, h, D)
  BY <1>2 DEF Busy, Printing
<1>4. inner = work[1] /\ DOMAIN work = {1}
  BY <1>1, <1>3 DEF inner, Last
<1>5. ASSUME NEW b \in DOMAIN F.blocks PROVE b \in DOMAIN writer.BlockPositions
  <2>1. b \in DOMAIN LI /\ ~Waits(b)
    BY <1>1, <1>3, <1>4, <1>5, LoopTypes DEF Waits
  <2> QED
    BY <1>2, <2>1 DEF Busy
<1>6. v = FixupPostponed(FixupFD(writer, h))
  BY <1>4
<1>7. Flows(writer, h) /\ BlockFlows(writer, h) /\ Entered
  BY <1>1 DEF Flowing
<1>8. writer.BlockPositions[1] = After(writer, h)
  <2>1. 1 \in DOMAIN writer.BlockPositions
    BY <1>3, <1>5, LoopTypes
  <2>2. writer.BlockPositions # <<>>
    BY <2>1
  <2> QED
    BY <1>7, <2>2 DEF Entered
<1> HIDE DEF v, h
<1>9. Flows(v, v.size)
  BY <1>3, <1>5, <1>6, <1>7, <1>8, FunctionFlows
<1>10. Good(v) /\ Good(writer') /\ writer'.code = v.code /\ writer'.size = v.size
  <2>1. Good(v)
    BY <1>3, <1>5, <1>6, FunctionFixed
  <2> QED
    BY <1>1, <2>1, ResetGood
<1>11. Flows(writer', writer'.size)
  <2>1. v.size \in Nat /\ Agree(v, writer', v.size)
    BY <1>10, GoodParts DEF Agree, Sites
  <2> QED
    BY <1>9, <1>10, <2>1, FlowsAgrees
<1> QED
  BY <1>1, <1>11 DEF Flowing

LEMMA FlowsByFinalize == Inv /\ Flowing /\ Finalize => Flowing'
<1> SUFFICES ASSUME Inv, Flowing, Finalize PROVE Flowing'
  OBVIOUS
<1>1. work = <<>> /\ work' = <<>>
  BY DEF Finalize
<1>2. PICK D : Types /\ Idle(D)
  BY <1>1 DEF Inv
<1>3. Flows(writer', writer'.size)
  BY <1>1, <1>2, FinalizeContinues, StraightFlows DEF Flowing
<1> QED
  BY <1>1, <1>3 DEF Flowing

LEMMA FlowsByStuttering == Flowing /\ UNCHANGED vars => Flowing'
<1> SUFFICES ASSUME Flowing, UNCHANGED vars PROVE Flowing'
  OBVIOUS
<1>1. UNCHANGED <<module, fn, LI, work, writer, layout, ended>>
  BY DEF vars
<1>2. F' = F
  BY <1>1 DEF F, M
<1>3. BlockFlows(writer, work[1].begin) => BlockFlows(writer, work[1].begin)'
  BY <1>1, <1>2 DEF BlockFlows
<1>4. (Entered => Entered') /\ (Nested => Nested') /\ (Once => Once')
  BY <1>1 DEF Entered, Nested, Once, Waits
<1> QED
  BY <1>1, <1>3, <1>4 DEF Flowing

\* The invariant of what control comes to: the blocks of a function are taken
\* once each, the entry first, and each is led through up to its branches.
THEOREM FlowInvariance == Spec => []Flowing
<1>1. Inv /\ Flowing /\ [Next]_vars => Flowing'
  BY FlowsByStartFunction, FlowsByPrintBlock, FlowsByEnterLoop, FlowsByEndLoop,
     FlowsByFinishFunction, FlowsByFinalize, FlowsByStuttering DEF Next
<1> QED
  BY <1>1, InitFlows, Invariance, PTL DEF Spec

LEMMA InvDead == Inv /\ Flowing => OnlyJumpsAreDead
<1> SUFFICES ASSUME Inv, Flowing, ended, NEW j \in Sites(Text) \ Live(WithLive(Text)),
                    Text.code[j].op # "jmp"
             PROVE  FALSE
  BY DEF OnlyJumpsAreDead
<1> DEFINE p == Text
           w == writer
           R == Live(WithLive(p))
<1>1. work = <<>> /\ w.size # 0
  BY DEF Inv, Types
<1>2. PICK D : Idle(D)
  BY <1>1 DEF Inv
<1>3. Good(w) /\ Flows(w, w.size)
  BY <1>1, <1>2 DEF Idle, Flowing
<1>4. /\ w.size \in Nat /\ Sites(w) \subseteq 0 .. w.size - 1
      /\ \A i \in Sites(w) : i \in Nat /\ i < w.size
  BY <1>3, GoodParts DEF Good
<1>5. p.code = w.code /\ p.size = w.size /\ Sites(p) = Sites(w)
  BY DEF Text, Sites
<1> HIDE DEF p, w
<1>6. \A i \in Sites(w) : Onward(p, i) = Onward(w, i)
  BY <1>5, SameOnward
<1>7. R \subseteq Sites(p) /\ 0 \in R /\ Closed(p, R)
  <2>1. IsFiniteSet(Sites(p))
    <3>1. IsFiniteSet(0 .. w.size - 1)
      BY <1>4, FS_Interval
    <3> QED
      BY <1>4, <1>5, <3>1, FS_Subset
  <2>2. Sites(p) \subseteq Sites(p) /\ 0 \in Sites(p) /\ Closed(p, Sites(p))
    BY <1>1, <1>3, <1>5 DEF Good, Closed, w
  <2> QED
    BY <2>1, <2>2, LiveCloses
<1> HIDE DEF R
<1> DEFINE S == R \cup UNION {Onward(p, i) : i \in R}
<1>8. \A i \in S \cap Sites(w) : i \in R
  BY <1>5, <1>7 DEF Closed
<1>9. Follows(w, w.size, S)
  <2>1. 0 \in S
    BY <1>7
  <2>2. \A i \in S \cap Sites(w) : Onward(w, i) \subseteq S
    BY <1>6, <1>8
  <2> HIDE DEF S
  <2> QED
    BY <2>1, <2>2 DEF Follows
<1>10. j \in Sites(w) /\ j < w.size /\ w.code[j].op # "jmp" /\ j \notin R
  BY <1>4, <1>5 DEF p, R
<1>11. j \in S
  BY <1>3, <1>9, <1>10 DEF Flows
<1> QED
  BY <1>8, <1>10, <1>11

\* However loops are nested, printFunction and printLoop write each block once,
\* and nothing control cannot come to but jumps: those after the end of a block
\* or a loop.
THEOREM NothingElseDead == Spec => []OnlyJumpsAreDead
BY Invariance, FlowInvariance, InvDead, PTL
-----------------------------------------------------------------------------
(* The code of a block *)

\* The sites from the beginning of block b on, before another one begins.
Own(w, starts, b) ==
    {j \in Sites(w) :
        /\ starts[b] <= j
        /\ \A c \in DOMAIN starts : ~(starts[b] < starts[c] /\ starts[c] <= j)}

\* From a control comes to j before it takes any jump.
Comes(p, a, j) ==
    \A S : a \in S
           /\ (\A i \in S \cap Sites(p) :
                  a <= i /\ i < j /\ p.code[i].op # "jmp" => Targets(p, i) \subseteq S)
        => j \in S

JumpsTo(p, j, t) == p.code[j].op = "jmp" /\ j + p.code[j].off = t

\* No two blocks begin at one place, unless one of them ends in unreachable: it
\* may have no bytecode.
Separate(f, starts) ==
    \A b, c \in DOMAIN starts :
        starts[b] = starts[c] => b = c \/ Falls(f, b) \/ Falls(f, c)

\* Block b of f has bytecode of its own, where control stays but for jumps to
\* the blocks that follow b in f; and it comes to such a jump for each of them.
Branches(p, f, at, b) ==
    LET starts == at.BlockPositions
    IN  \E C \in SUBSET Own(p, starts, b) :
            /\ starts[b] \in C
            /\ \A j \in C :
                 /\ j < Past(p, at.begin)
                 /\ \/ Targets(p, j) \subseteq C
                    \/ \E s \in Successor(f, b) : JumpsTo(p, j, starts[s])
            /\ \A s \in Successor(f, b) : \E j \in C :
                 JumpsTo(p, j, starts[s]) /\ Comes(p, starts[b], j)

\* The same while the function is printed.
Encloses(w, b, C) ==
    /\ C \subseteq Own(w, w.BlockPositions, b) /\ w.BlockPositions[b] \in C
    /\ \A j \in C \ Pending(w) : Targets(w, j) \subseteq C
    /\ \A p \in ToSet(w.PostponedJumps) : p.pos \in C => p.block \in Successor(F, b)

Enclosed(w) ==
    /\ Separate(F, w.BlockPositions)
    /\ \A b \in DOMAIN w.BlockPositions : ~Falls(F, b) => \E C : Encloses(w, b, C)

\* What is written after it changes nothing.
LEMMA EnclosesStays ==
    ASSUME NEW w, Good(w), NEW v, Good(v), Grows(w, v),
           \A j \in Pending(v) \ Pending(w) : j >= w.size,
           ToSet(w.PostponedJumps) \subseteq ToSet(v.PostponedJumps),
           NEW b \in DOMAIN w.BlockPositions, NEW C, Encloses(w, b, C),
           DOMAIN w.BlockPositions \subseteq DOMAIN v.BlockPositions,
           \A c \in DOMAIN v.BlockPositions :
               IF c \in DOMAIN w.BlockPositions
               THEN v.BlockPositions[c] = w.BlockPositions[c]
               ELSE v.BlockPositions[c] \in Nat /\ v.BlockPositions[c] >= w.size
    PROVE  Encloses(v, b, C)
<1>1. /\ w.size \in Nat /\ \A j \in Sites(w) : j \in Nat /\ j < w.size
      /\ \A j \in Sites(v) : j \in Nat
      /\ \A p \in ToSet(w.PostponedJumps) : p.pos \in Sites(w)
  BY GoodParts DEF Good, Pending
<1>2. C \subseteq Sites(w) /\ w.BlockPositions[b] \in C
  BY DEF Encloses, Own
<1>3. C \subseteq Own(v, v.BlockPositions, b)
  <2> SUFFICES ASSUME NEW j \in C
               PROVE  /\ j \in Sites(v) /\ v.BlockPositions[b] <= j
                      /\ \A c \in DOMAIN v.BlockPositions :
                           ~(v.BlockPositions[b] < v.BlockPositions[c] /\ v.BlockPositions[c] <= j)
    BY DEF Own
  <2>1. /\ j \in Sites(w) /\ w.BlockPositions[b] <= j
        /\ \A c \in DOMAIN w.BlockPositions :
             ~(w.BlockPositions[b] < w.BlockPositions[c] /\ w.BlockPositions[c] <= j)
    BY DEF Encloses, Own
  <2>2. j \in Sites(v) /\ v.BlockPositions[b] = w.BlockPositions[b] /\ j \in Nat /\ j < w.size
    BY <1>1, <2>1 DEF Grows
  <2>3. ASSUME NEW c \in DOMAIN v.BlockPositions,
               v.BlockPositions[b] < v.BlockPositions[c], v.BlockPositions[c] <= j
        PROVE  FALSE
    <3>1. CASE c \in DOMAIN w.BlockPositions
      BY <2>1, <2>2, <2>3, <3>1
    <3>2. CASE c \notin DOMAIN w.BlockPositions
      <4>1. v.BlockPositions[c] \in Nat /\ v.BlockPositions[c] >= w.size
        BY <3>2
      <4> QED
        BY <1>1, <2>2, <2>3, <4>1
    <3> QED
      BY <3>1, <3>2
  <2> QED
    BY <2>1, <2>2, <2>3
<1>4. ASSUME NEW j \in C \ Pending(v) PROVE Targets(v, j) \subseteq C
  <2>1. j \notin Pending(w)
    BY <1>4 DEF Pending
  <2>2. Targets(w, j) \subseteq C /\ v.code[j] = w.code[j]
    BY <1>2, <2>1 DEF Encloses, Grows
  <2> QED
    BY <2>2, SameCode
<1>5. ASSUME NEW p \in ToSet(v.PostponedJumps), p.pos \in C PROVE p.block \in Successor(F, b)
  <2>1. p.pos \in Pending(v) /\ p.pos \in Nat /\ p.pos < w.size
    BY <1>1, <1>2, <1>5 DEF Pending
  <2>2. p.pos \in Pending(w)
    BY <1>1, <2>1
  <2>3. PICK q \in ToSet(w.PostponedJumps) : q.pos = p.pos
    BY <2>2 DEF Pending
  <2>4. q = p
    BY <2>3 DEF Good
  <2> QED
    BY <1>5, <2>3, <2>4 DEF Encloses
<1>6. v.BlockPositions[b] \in C
  BY <1>2
<1> QED
  BY <1>3, <1>4, <1>5, <1>6 DEF Encloses

LEMMA EnclosedBlock ==
    ASSUME NEW w, Printing(w), Opened(w), Enclosed(w), NEW b \in DOMAIN F.blocks,
           b \notin DOMAIN w.BlockPositions,
           NEW v, PrintsBlock(w, v, b)
    PROVE  Enclosed(v)
<1>1. Good(w) /\ Good(v) /\ Grows(w, v) /\ v.BlockPositions = With(w.BlockPositions, b, w.size)
  BY BlockPrinted DEF Printing
<1>2. /\ \A j \in Pending(v) \ Pending(w) : j >= w.size
      /\ ToSet(w.PostponedJumps) \subseteq ToSet(v.PostponedJumps)
  BY BlockPrinted
<1>3. /\ w.size \in Nat /\ \A j \in Sites(w) : j \in Nat /\ j < w.size
      /\ \A j \in Sites(v) : j \in Nat
      /\ \A p \in ToSet(w.PostponedJumps) : p.pos \in Sites(w)
  BY <1>1, GoodParts DEF Good, Pending
<1>4. /\ DOMAIN v.BlockPositions = DOMAIN w.BlockPositions \cup {b}
      /\ v.BlockPositions[b] = w.size
      /\ \A c \in DOMAIN w.BlockPositions : v.BlockPositions[c] = w.BlockPositions[c]
  BY <1>1 DEF With
<1>5. \A c \in DOMAIN w.BlockPositions :
        /\ w.BlockPositions[c] \in Nat /\ w.BlockPositions[c] <= w.size
        /\ w.BlockPositions[c] = w.size => Falls(F, c)
  BY <1>3 DEF Opened, Bounds
<1>6. Separate(F, v.BlockPositions)
  <2> SUFFICES ASSUME NEW c \in DOMAIN v.BlockPositions, NEW d \in DOMAIN v.BlockPositions,
                      v.BlockPositions[c] = v.BlockPositions[d], c # d
               PROVE  Falls(F, c) \/ Falls(F, d)
    BY DEF Separate
  <2>1. CASE c = b
    BY <1>4, <1>5, <2>1
  <2>2. CASE d = b
    BY <1>4, <1>5, <2>2
  <2>3. CASE c # b /\ d # b
    BY <1>4, <2>3 DEF Enclosed, Separate
  <2> QED
    BY <2>1, <2>2, <2>3
<1>7. ASSUME NEW c \in DOMAIN w.BlockPositions, ~Falls(F, c) PROVE \E C : Encloses(v, c, C)
  <2>1. PICK C : Encloses(w, c, C)
    BY <1>7 DEF Enclosed
  <2>2. \A d \in DOMAIN v.BlockPositions :
          IF d \in DOMAIN w.BlockPositions
          THEN v.BlockPositions[d] = w.BlockPositions[d]
          ELSE v.BlockPositions[d] \in Nat /\ v.BlockPositions[d] >= w.size
    BY <1>3, <1>4
  <2>3. DOMAIN w.BlockPositions \subseteq DOMAIN v.BlockPositions
    BY <1>4
  <2>4. Encloses(v, c, C)
    BY <1>1, <1>2, <2>1, <2>2, <2>3, EnclosesStays
  <2> QED
    BY <2>4
<1>8. ASSUME ~Falls(F, b) PROVE \E C : Encloses(v, b, C)
  <2> DEFINE at == Marked(w, b)
  <2>1. EndsBlock(at, v, b)
    BY <1>8 DEF PrintsBlock
  <2>2. /\ at.code = w.code /\ at.size = w.size /\ at.PostponedJumps = w.PostponedJumps
        /\ Ahead(at) = Successor(F, b)
    BY <1>1, MarkedGood, MarkedAhead DEF Printing
  <2> HIDE DEF at
  <2>3. PICK E : Ends(at, v, E)
    BY <2>1 DEF EndsBlock
  <2>4. Sites(at) = Sites(w) /\ Bounds(at) = Bounds(w) /\ Pending(at) = Pending(w)
    BY <2>2 DEF Sites, Bounds, Pending
  <2>5. /\ w.size < v.size /\ w.size \notin E /\ w.size \in Bounds(v)
        /\ \A j \in Sites(v) \ Sites(w) :
             j \notin E /\ j \notin Pending(v) => \A t \in Targets(v, j) : t \in Sites(v) \ E
        /\ \A p \in ToSet(v.PostponedJumps) :
             p \in ToSet(w.PostponedJumps) \/ p.block \in Successor(F, b)
        /\ \A j \in Sites(v) \ Sites(w) :
             /\ j >= w.size
             /\ j \in Pending(v) \/ \A t \in Targets(v, j) : t >= w.size
    BY <2>2, <2>3, <2>4 DEF Ends, Extends
  <2> DEFINE C == (Sites(v) \ Sites(w)) \ E
  <2>6. w.size \in Sites(v) /\ w.size \notin Sites(w)
    BY <1>3, <2>5 DEF Bounds
  <2>7. \A c \in DOMAIN v.BlockPositions :
          v.BlockPositions[c] \in Nat /\ v.BlockPositions[c] <= w.size
    BY <1>3, <1>4, <1>5
  <2>8. C \subseteq Own(v, v.BlockPositions, b)
    <3> SUFFICES ASSUME NEW j \in Sites(v) \ Sites(w)
                 PROVE  /\ v.BlockPositions[b] <= j
                        /\ \A c \in DOMAIN v.BlockPositions :
                             ~(v.BlockPositions[b] < v.BlockPositions[c]
                               /\ v.BlockPositions[c] <= j)
      BY DEF Own
    <3>1. w.size <= j
      BY <1>3, <2>5
    <3> QED
      BY <1>3, <1>4, <2>7, <3>1
  <2>9. ASSUME NEW j \in C \ Pending(v) PROVE Targets(v, j) \subseteq C
    <3> SUFFICES ASSUME NEW t \in Targets(v, j) PROVE t \in C
      OBVIOUS
    <3>1. t \in Sites(v) \ E /\ t >= w.size
      BY <2>5, <2>9
    <3>2. t \notin Sites(w)
      BY <1>3, <3>1
    <3> QED
      BY <3>1, <3>2
  <2>10. \A p \in ToSet(v.PostponedJumps) : p.pos \in C => p.block \in Successor(F, b)
    BY <1>3, <2>5
  <2>11. Encloses(v, b, C)
    BY <1>4, <2>5, <2>6, <2>8, <2>9, <2>10 DEF Encloses
  <2> QED
    BY <2>11
<1> QED
  BY <1>4, <1>6, <1>7, <1>8 DEF Enclosed

LEMMA EnclosedJump ==
    ASSUME NEW w, Good(w), Enclosed(w), NEW v, Good(v), Grows(w, v),
           v.BlockPositions = w.BlockPositions, v.PostponedJumps = w.PostponedJumps
    PROVE  Enclosed(v)
<1>1. Pending(v) = Pending(w)
  BY DEF Pending
<1>2. \A C : \A b \in DOMAIN w.BlockPositions : Encloses(w, b, C) => Encloses(v, b, C)
  BY <1>1, EnclosesStays
<1> QED
  BY <1>2 DEF Enclosed

\* With its branches fixed each block of the function has its bytecode.
LEMMA FunctionBranches ==
    ASSUME NEW w, Printing(w), NEW h, NEW D, Body(w, h, D),
           \A b \in DOMAIN F.blocks : b \in DOMAIN w.BlockPositions,
           Enclosed(w), BlockFlows(w, h),
           NEW v, v = FixupPostponed(FixupFD(w, h)),
           NEW at, at.begin = h, at.BlockPositions = w.BlockPositions,
           NEW b \in DOMAIN F.blocks, ~Falls(F, b)
    PROVE  Branches(v, F, at, b)
<1> DEFINE starts == w.BlockPositions
           a == starts[b]
<1>1. /\ Good(w) /\ h \in Sites(w) /\ h \in Nat /\ w.size \in Nat
      /\ \A j \in Sites(w) : j \in Nat /\ j < w.size
      /\ a \in Nat /\ a > h
  BY BodySites, GoodParts DEF Printing, Body, Opened, Bounds
<1>2. /\ Good(v) /\ Patched(w, v)
      /\ \A j \in Sites(w) : j # h /\ j \notin Pending(w) => v.code[j] = w.code[j]
      /\ Past(v, h) = w.size
      /\ \A p \in ToSet(w.PostponedJumps) :
           /\ p.block \in DOMAIN F.blocks
           /\ p.pos + v.code[p.pos].off = starts[p.block]
  BY <1>1, FunctionFixed
<1>3. Sites(v) = Sites(w) /\ \A j \in Sites(w) : v.code[j].op = w.code[j].op
  BY <1>2 DEF Patched, Alike
<1>4. \A j \in Pending(w) : j > h /\ j \in Sites(w) /\ w.code[j].op = "jmp"
  BY <1>1 DEF Body, Good
<1>5. PICK C : Encloses(w, b, C)
  BY DEF Enclosed
<1>6. /\ C \subseteq Own(w, starts, b) /\ a \in C
      /\ \A j \in C \ Pending(w) : Targets(w, j) \subseteq C
      /\ \A p \in ToSet(w.PostponedJumps) : p.pos \in C => p.block \in Successor(F, b)
  BY <1>5 DEF Encloses
<1>7. \A j \in C : j \in Sites(w) /\ j >= a /\ j > h /\ j < w.size
  BY <1>1, <1>6 DEF Own
<1> HIDE DEF a
<1>8. \A j \in Sites(w) : j > h /\ j \notin Pending(w) => Targets(v, j) = Targets(w, j)
  BY <1>1, <1>2, SameCode
<1>9. \A p \in ToSet(w.PostponedJumps) :
        p.pos \in Pending(w) /\ JumpsTo(v, p.pos, starts[p.block])
  BY <1>2, <1>3, <1>4 DEF Pending, JumpsTo
<1>10. ASSUME NEW j \in C
       PROVE  \/ Targets(v, j) \subseteq C
              \/ \E s \in Successor(F, b) : JumpsTo(v, j, starts[s])
  <2>1. CASE j \in Pending(w)
    <3>1. PICK p \in ToSet(w.PostponedJumps) : p.pos = j
      BY <2>1 DEF Pending
    <3> QED
      BY <1>6, <1>9, <3>1
  <2>2. CASE j \notin Pending(w)
    BY <1>6, <1>7, <1>8, <2>2
  <2> QED
    BY <2>1, <2>2
<1>11. ASSUME NEW s \in Successor(F, b)
       PROVE  \E j \in C : JumpsTo(v, j, starts[s]) /\ Comes(v, a, j)
  <2>1. PICK p \in ToSet(w.PostponedJumps) : p.block = s /\ Within(w, a, p.pos)
    BY <1>11 DEF BlockFlows, a
  <2>2. p.pos \in Sites(w) /\ Due(w, p.pos) /\ JumpsTo(v, p.pos, starts[s])
    BY <1>9, <2>1 DEF Within, Due
  <2>3. \A i \in C \cap Sites(w) :
          a <= i /\ i < p.pos /\ w.code[i].op # "jmp" => Targets(w, i) \subseteq C
    BY <1>4, <1>6
  <2>4. Sites(w) \subseteq Nat
    BY <1>1
  <2>5. p.pos \in C
    BY <1>1, <1>6, <2>1, <2>2, <2>3, <2>4, Arrives
  <2>6. Comes(v, a, p.pos)
    <3> SUFFICES ASSUME NEW S, a \in S,
                        \A i \in S \cap Sites(v) :
                            a <= i /\ i < p.pos /\ v.code[i].op # "jmp"
                                => Targets(v, i) \subseteq S
                 PROVE  p.pos \in S
      BY DEF Comes
    <3>1. ASSUME NEW i \in S \cap Sites(w), a <= i, i < p.pos, w.code[i].op # "jmp"
          PROVE  Targets(w, i) \subseteq S
      <4>1. i > h /\ i \notin Pending(w)
        BY <1>1, <1>4, <3>1
      <4> QED
        BY <1>3, <1>8, <3>1, <4>1
    <3> QED
      BY <1>1, <2>1, <2>2, <2>4, <3>1, Arrives
  <2> QED
    BY <2>2, <2>5, <2>6
<1>12. C \in SUBSET Own(v, starts, b)
  BY <1>3, <1>6 DEF Own
<1> QED
  BY <1>2, <1>6, <1>7, <1>10, <1>11, <1>12 DEF Branches, a

-----------------------------------------------------------------------------
(* Where calls enter, and where blocks go on *)

\* The values of f have registers of their own, the parameters the first.
Numbered(f, locals) ==
    /\ IsInjective(locals)
    /\ \A k \in DOMAIN f.params : locals[f.params[k]] = k

\* Site h declares f.
Announces(w, h, f) ==
    /\ h \in Sites(w)
    /\ w.code[h].op = "fd" /\ w.code[h].name = f.name /\ w.code[h].nargs = Len(f.params)

\* Function f is in the text before e as its layout at says.
LaidOut(w, e, f, at) ==
    /\ Announces(w, at.begin, f) /\ at.begin < e /\ Past(w, at.begin) <= e
    /\ Numbered(f, at.Locals)
    /\ \A id \in DOMAIN at.Locals : at.Locals[id] \in 1 .. at.registers
    /\ at.BlockPositions[1] = After(w, at.begin)
    /\ Separate(f, at.BlockPositions)
    /\ \A b \in DOMAIN f.blocks : ~Falls(f, b) => Branches(w, f, at, b)

LEMMA LaidOutAgrees ==
    ASSUME NEW w, Good(w), NEW v, Good(v), NEW e \in Nat, Agree(w, v, e),
           NEW d \in Nat, e <= d,
           NEW f, NEW at, LaidOut(w, e, f, at)
    PROVE  LaidOut(v, d, f, at)
<1> DEFINE h == at.begin
           starts == at.BlockPositions
<1>1. /\ \A j \in Sites(w) : j \in Nat /\ After(w, j) \in Nat
      /\ \A j \in Sites(v) : j \in Nat
  BY GoodParts DEF Bounds
<1>2. \A j \in Sites(w) : j < e => j \in Sites(v) /\ v.code[j] = w.code[j]
  BY <1>1 DEF Agree
<1>3. \A j \in Sites(v) : j < e => j \in Sites(w) /\ v.code[j] = w.code[j]
  BY <1>1 DEF Agree
<1>4. /\ h \in Sites(w) /\ h \in Sites(v) /\ h \in Nat /\ h < e /\ v.code[h] = w.code[h]
      /\ After(v, h) = After(w, h) /\ Past(v, h) = Past(w, h)
  <2>1. h \in Sites(w) /\ h < e
    BY DEF LaidOut, Announces
  <2>2. v.code[h] = w.code[h]
    BY <1>2, <2>1
  <2> QED
    BY <1>1, <1>2, <2>1, <2>2, SameCode
<1>5. Past(w, h) \in Int /\ Past(w, h) <= e
  <2>1. w.code[h] \in Instructions
    BY <1>4, GoodParts
  <2>2. w.code[h].nskip \in Int
    BY <2>1 DEF Instructions
  <2>3. Past(w, h) \in Int
    BY <1>1, <1>4, <2>2 DEF Past
  <2> QED
    BY <2>3 DEF LaidOut
<1>6. ASSUME NEW b \in DOMAIN f.blocks, ~Falls(f, b) PROVE Branches(v, f, at, b)
  <2>1. PICK C \in SUBSET Own(w, starts, b) :
            /\ starts[b] \in C
            /\ \A j \in C :
                 /\ j < Past(w, h)
                 /\ \/ Targets(w, j) \subseteq C
                    \/ \E s \in Successor(f, b) : JumpsTo(w, j, starts[s])
            /\ \A s \in Successor(f, b) : \E j \in C :
                 JumpsTo(w, j, starts[s]) /\ Comes(w, starts[b], j)
    BY <1>6 DEF LaidOut, Branches
  <2>2. \A j \in C : j \in Sites(w) /\ j \in Nat /\ j < e
    BY <1>1, <1>5, <2>1 DEF Own
  <2>3. \A j \in C : j \in Sites(v) /\ v.code[j] = w.code[j] /\ Targets(v, j) = Targets(w, j)
    BY <1>2, <2>2, SameCode
  <2>4. C \in SUBSET Own(v, starts, b)
    BY <2>1, <2>3 DEF Own
  <2>5. \A t : \A j \in C : JumpsTo(w, j, t) => JumpsTo(v, j, t)
    BY <2>3 DEF JumpsTo
  <2>6. ASSUME NEW j \in C, Comes(w, starts[b], j) PROVE Comes(v, starts[b], j)
    <3> SUFFICES ASSUME NEW S, starts[b] \in S,
                        \A i \in S \cap Sites(v) :
                            starts[b] <= i /\ i < j /\ v.code[i].op # "jmp"
                                => Targets(v, i) \subseteq S
                 PROVE  j \in S
      BY DEF Comes
    <3>1. ASSUME NEW i \in S \cap Sites(w), starts[b] <= i, i < j, w.code[i].op # "jmp"
          PROVE  Targets(w, i) \subseteq S
      <4>1. i < e
        BY <1>1, <2>2, <3>1
      <4>2. i \in Sites(v) /\ v.code[i] = w.code[i] /\ Targets(v, i) = Targets(w, i)
        BY <1>2, <4>1, SameCode
      <4> QED
        BY <3>1, <4>2
    <3> QED
      BY <2>6, <3>1 DEF Comes
  <2> QED
    BY <1>4, <2>1, <2>3, <2>4, <2>5, <2>6 DEF Branches
<1>7. Announces(v, h, f) /\ h < d /\ Past(v, h) <= d
  BY <1>4, <1>5 DEF LaidOut, Announces
<1> QED
  BY <1>4, <1>6, <1>7 DEF LaidOut

\* The registers of a function being declared are its own: no other function is
\* being printed.
LEMMA DeclaresNumbered ==
    ASSUME NEW f, ValidFunction(f)
    PROVE  Numbered(f, [id \in ToSet(Values(f)) |->
                            0 + CHOOSE j \in DOMAIN Values(f) : Values(f)[j] = id])
<1> DEFINE ids == Values(f)
           position == [id \in ToSet(ids) |-> CHOOSE j \in DOMAIN ids : ids[j] = id]
           locals == [id \in ToSet(ids) |-> 0 + CHOOSE j \in DOMAIN ids : ids[j] = id]
<1>1. /\ DOMAIN locals = ToSet(ids)
      /\ \A id \in ToSet(ids) : locals[id] = 0 + position[id]
  OBVIOUS
<1>2. ASSUME NEW id \in ToSet(ids)
      PROVE  position[id] \in DOMAIN ids /\ ids[position[id]] = id
  <2> DEFINE k == CHOOSE j \in DOMAIN ids : ids[j] = id
  <2>1. \E j \in DOMAIN ids : ids[j] = id
    BY DEF ToSet
  <2>2. k \in DOMAIN ids /\ ids[k] = id
    BY <2>1
  <2>3. position[id] = k
    OBVIOUS
  <2> HIDE DEF k
  <2> QED
    BY <2>2, <2>3
<1>3. /\ ids \in Seq(ToSet(ids)) /\ ids \in Longer(Identifiers(f), f.params)
      /\ IsInjective(ids) /\ f.params \in Seq(ToSet(f.params))
  BY ValuesType DEF ValidFunction
<1> HIDE DEF ids, position, locals
<1>4. /\ DOMAIN ids = 1 .. Len(ids) /\ Len(ids) \in Nat
      /\ DOMAIN f.params = 1 .. Len(f.params) /\ Len(f.params) <= Len(ids)
      /\ \A k \in DOMAIN f.params : ids[k] = f.params[k]
  BY <1>3 DEF Longer
<1>5. ASSUME NEW j \in DOMAIN ids PROVE ids[j] \in DOMAIN locals /\ locals[ids[j]] = j
  <2>1. ids[j] \in ToSet(ids)
    BY DEF ToSet
  <2>2. \A i \in DOMAIN ids : ids[i] = ids[j] => i = j
    BY <1>3 DEF IsInjective
  <2>3. position[ids[j]] = j /\ j \in Int
    BY <1>4, <1>2, <2>1, <2>2
  <2> QED
    BY <1>1, <2>1, <2>3
<1>6. \A id \in DOMAIN locals : \E j \in DOMAIN ids : id = ids[j]
  BY <1>1 DEF ToSet
<1>7. IsInjective(locals)
  <2> SUFFICES ASSUME NEW a \in DOMAIN locals, NEW b \in DOMAIN locals, locals[a] = locals[b]
               PROVE  a = b
    BY DEF IsInjective
  <2>1. PICK i \in DOMAIN ids : a = ids[i]
    BY <1>6
  <2>2. PICK j \in DOMAIN ids : b = ids[j]
    BY <1>6
  <2> QED
    BY <1>5, <2>1, <2>2
<1>8. ASSUME NEW k \in DOMAIN f.params PROVE locals[f.params[k]] = k
  BY <1>4, <1>5
<1> QED
  BY <1>7, <1>8 DEF Numbered, locals, ids

\* The functions printed are in the text, the one being printed comes after
\* them; its values have their registers, its blocks their bytecode.
Begun == IF work = <<>> THEN writer.size ELSE work[1].begin

Laid ==
    /\ work = <<>> /\ ~ended => writer.NextReg = 0
    /\ work # <<>> => /\ Announces(writer, work[1].begin, F)
                      /\ Numbered(F, writer.Locals)
                      /\ Enclosed(writer)
    /\ \A n \in DOMAIN layout : LaidOut(writer, Begun, M.functions[n], layout[n])

\* What is written does not change what is before it.
LEMMA LaidStays ==
    ASSUME Good(writer), Good(writer'), Begun \in Nat, Begun' \in Nat, Begun <= Begun',
           Agree(writer, writer', Begun), UNCHANGED <<module, layout>>, Laid
    PROVE  (\A n \in DOMAIN layout : LaidOut(writer, Begun, M.functions[n], layout[n]))'
<1>1. M' = M
  BY DEF M
<1>2. ASSUME NEW n \in DOMAIN layout
      PROVE  LaidOut(writer', Begun', M.functions[n], layout[n])
  <2>1. LaidOut(writer, Begun, M.functions[n], layout[n])
    BY DEF Laid
  <2> QED
    BY <2>1, LaidOutAgrees
<1> QED
  BY <1>1, <1>2

LEMMA AnnouncesStays ==
    \A w, v, h, f : Grows(w, v) /\ Announces(w, h, f) => Announces(v, h, f)
BY DEF Grows, Announces

LEMMA InitLaid == Init => Laid
BY DEF Init, EmptyWriter, Laid

LEMMA LaidByStartFunction == Inv /\ Laid /\ StartFunction => Laid'
<1> SUFFICES ASSUME Inv, Laid, StartFunction PROVE Laid'
  OBVIOUS
<1>1. /\ work = <<>> /\ fn <= Len(M.functions) /\ writer' = Declared(writer, F)
      /\ work' = <<Activation(LI', <<>>, writer.size)>>
      /\ UNCHANGED <<module, fn, layout, ended>>
  BY DEF StartFunction
<1>2. PICK D : Idle(D)
  BY <1>1 DEF Inv
<1>3. Types /\ ValidFunction(F) /\ Good(writer) /\ writer.size \in Nat /\ ~ended
  BY <1>1, <1>2, ValidModule, GoodParts DEF Inv, Idle, Types
<1>4. /\ Printing(writer') /\ writer'.BlockPositions = <<>> /\ Grows(writer, writer')
      /\ Sites(writer') = Sites(writer) \cup {writer.size}
      /\ writer'.code[writer.size] = FdI(F.name, Len(F.params))
      /\ writer'.Locals = [id \in ToSet(Values(F)) |->
            writer.NextReg + CHOOSE j \in DOMAIN Values(F) : Values(F)[j] = id]
  <2>1. Apart(writer, writer.size, D)
        /\ writer.PostponedJumps = <<>> /\ writer.BlockPositions = <<>>
    BY <1>2 DEF Idle
  <2> HIDE DEF Declared
  <2> QED
    BY <1>1, <1>3, <2>1, Declares
<1>5. work' # <<>> /\ work'[1].begin = writer.size
  BY <1>1 DEF Activation
<1>6. F' = F
  BY <1>1 DEF F, M
<1>7. Numbered(F, writer'.Locals)
  <2>1. writer.NextReg = 0
    BY <1>1, <1>3 DEF Laid
  <2> QED
    BY <1>3, <1>4, <2>1, DeclaresNumbered
<1>8. Announces(writer', writer.size, F)
  <2>1. FdI(F.name, Len(F.params)).op = "fd" /\ FdI(F.name, Len(F.params)).name = F.name
        /\ FdI(F.name, Len(F.params)).nargs = Len(F.params)
    BY DEF FdI, Blank
  <2> QED
    BY <1>4, <2>1 DEF Announces
<1>9. Enclosed(writer)'
  BY <1>4 DEF Enclosed, Separate
<1>10. Begun = writer.size /\ Begun' = writer.size
  BY <1>1, <1>5 DEF Begun
<1>11. (\A n \in DOMAIN layout : LaidOut(writer, Begun, M.functions[n], layout[n]))'
  <2>1. Good(writer')
    BY <1>4 DEF Printing
  <2>2. Agree(writer, writer', writer.size)
    BY <1>3, <1>4, <2>1, GrowsAgrees
  <2> QED
    BY <1>1, <1>3, <1>10, <2>1, <2>2, LaidStays
<1> QED
  BY <1>5, <1>6, <1>7, <1>8, <1>9, <1>11 DEF Laid

LEMMA LaidByPrintBlock ==
    \A b \in DOMAIN LI : Inv /\ Flowing /\ Laid /\ PrintBlock(b) => Laid'
<1> SUFFICES ASSUME NEW b \in DOMAIN LI, Inv, Flowing, Laid, PrintBlock(b) PROVE Laid'
  OBVIOUS
<1>1. /\ work # <<>> /\ b \in inner.todo /\ LI[b] = inner.loops
      /\ writer' = PrintBasicBlock(writer, b) /\ work' = Done(b)
      /\ UNCHANGED <<module, fn, LI, layout, ended>>
  BY DEF PrintBlock, CanPrint
<1>2. PICK D : Busy(D)
  BY <1>1 DEF Inv
<1>3. /\ Types /\ ValidFunction(F) /\ Printing(writer) /\ Good(writer)
      /\ LI = LoopInfo(F) /\ work \in Seq(Activations)
  BY <1>2, ValidModule DEF Inv, Busy, Printing
<1>4. b \in DOMAIN F.blocks
  BY <1>3, LoopTypes
<1> DEFINE h == work[1].begin
<1>5. /\ Body(writer, h, D) /\ Once
      /\ Announces(writer, h, F) /\ Numbered(F, writer.Locals) /\ Enclosed(writer)
  BY <1>1, <1>2 DEF Flowing, Busy, Laid
<1> HIDE DEF h
<1>6. /\ DOMAIN work = 1 .. Len(work) /\ inner = work[Len(work)] /\ Len(work) \in DOMAIN work
      /\ work' # <<>> /\ work'[1].begin = h
  <2>1. /\ Len(work) \in Nat /\ Len(work) >= 1 /\ DOMAIN work = 1 .. Len(work)
        /\ inner = work[Len(work)] /\ work' \in Seq(Activations) /\ Len(work') = Len(work)
        /\ \A n \in DOMAIN work : work'[n].begin = work[n].begin
    BY <1>1, <1>3, WorkDone
  <2> QED
    BY <2>1 DEF h
<1>7. b \notin DOMAIN writer.BlockPositions
  <2>1. Waits(b)
    BY <1>1, <1>6 DEF Waits
  <2> QED
    BY <1>5, <2>1 DEF Once
<1>8. PrintsBlock(writer, writer', b)
  BY <1>1, <1>3, <1>4, <1>5, BlockEnds DEF Body, PrintsBlock
<1>9. Good(writer') /\ Grows(writer, writer') /\ writer'.Locals = writer.Locals
  <2>1. Printing(writer') /\ Grows(writer, writer') /\ writer'.Locals = writer.Locals
    BY <1>3, <1>4, <1>8, BlockPrinted
  <2> QED
    BY <2>1 DEF Printing
<1>10. Enclosed(writer')
  BY <1>3, <1>4, <1>5, <1>7, <1>8, EnclosedBlock DEF Body
<1>11. F' = F
  BY <1>1 DEF F, M
<1>12. Enclosed(writer)'
  BY <1>10, <1>11 DEF Enclosed, Encloses, Separate
<1>13. Announces(writer', h, F)
  BY <1>5, <1>9, AnnouncesStays
<1>14. Begun = h /\ Begun' = h /\ h \in Nat /\ h <= writer.size
  <2>1. h \in Nat /\ h < writer.size /\ writer.size \in Nat
    BY <1>3, <1>5, BodySites, GoodParts
  <2> QED
    BY <1>1, <1>6, <2>1 DEF Begun, h
<1>15. (\A n \in DOMAIN layout : LaidOut(writer, Begun, M.functions[n], layout[n]))'
  BY <1>1, <1>3, <1>9, <1>14, GrowsAgrees, LaidStays
<1> QED
  BY <1>5, <1>6, <1>9, <1>11, <1>12, <1>13, <1>15 DEF Laid

LEMMA LaidByEnterLoop == \A b \in DOMAIN LI : Inv /\ Laid /\ EnterLoop(b) => Laid'
<1> SUFFICES ASSUME NEW b \in DOMAIN LI, Inv, Laid, EnterLoop(b) PROVE Laid'
  OBVIOUS
<1>1. /\ work # <<>> /\ b \in inner.todo
      /\ work' = Append(Done(b), Activation(LI, LI[b], writer.size))
      /\ UNCHANGED <<module, fn, LI, writer, layout, ended>>
  BY DEF EnterLoop, CanPrint
<1>2. PICK D : Busy(D)
  BY <1>1 DEF Inv
<1>3. work \in Seq(Activations)
  BY <1>2 DEF Busy
<1> DEFINE k == Done(b)
<1>4. /\ Len(work) \in Nat /\ Len(work) >= 1 /\ DOMAIN work = 1 .. Len(work)
      /\ k \in Seq(Activations) /\ Len(k) = Len(work)
      /\ \A n \in DOMAIN work : k[n].begin = work[n].begin
  BY <1>1, <1>3, WorkDone
<1>5. work' = Append(k, Activation(LI, LI[b], writer.size))
  BY <1>1
<1> HIDE DEF k
<1>6. work' # <<>> /\ work'[1].begin = work[1].begin
  BY <1>4, <1>5
<1>7. F' = F /\ M' = M /\ Begun' = Begun
  BY <1>1, <1>6 DEF F, M, Begun
<1>8. Enclosed(writer) => Enclosed(writer)'
  BY <1>1, <1>7 DEF Enclosed, Encloses, Separate
<1> QED
  BY <1>1, <1>6, <1>7, <1>8 DEF Laid

LEMMA LaidByEndLoop == Inv /\ Laid /\ EndLoop => Laid'
<1> SUFFICES ASSUME Inv, Laid, EndLoop PROVE Laid'
  OBVIOUS
<1>1. /\ Len(work) > 1
      /\ writer' = Emit(writer, JumpI("jmp", 0, inner.begin - writer.size))
      /\ work' = Front(work)
      /\ UNCHANGED <<module, fn, LI, layout, ended>>
  BY DEF EndLoop
<1>2. work # <<>>
  BY <1>1
<1>3. PICK D : Busy(D)
  BY <1>2 DEF Inv
<1>4. Printing(writer) /\ Good(writer) /\ work \in Seq(Activations)
  BY <1>3 DEF Busy, Printing
<1>5. Len(work) \in Nat /\ DOMAIN work = 1 .. Len(work) /\ inner = work[Len(work)]
  BY <1>4 DEF inner, Last
<1>6. Len(work) \in 2 .. Len(work)
  BY <1>1, <1>5
<1> DEFINE h == work[1].begin
<1>7. /\ inner.begin \in Bounds(writer) \ D /\ inner.begin > h
      /\ Body(writer, h, D) /\ Apart(writer, h, D)
      /\ Announces(writer, h, F) /\ Numbered(F, writer.Locals) /\ Enclosed(writer)
  BY <1>2, <1>3, <1>5, <1>6 DEF Busy, Laid
<1> HIDE DEF h
<1>8. /\ Good(writer') /\ Grows(writer, writer') /\ writer'.Locals = writer.Locals
      /\ writer'.BlockPositions = writer.BlockPositions
      /\ writer'.PostponedJumps = writer.PostponedJumps
  <2>1. /\ Printing(writer') /\ Grows(writer, writer') /\ writer'.Locals = writer.Locals
        /\ writer'.BlockPositions = writer.BlockPositions
        /\ writer'.PostponedJumps = writer.PostponedJumps
    BY <1>1, <1>4, <1>7, BodyLoop
  <2> QED
    BY <2>1 DEF Printing
<1>9. work' # <<>> /\ work'[1].begin = h
  <2>1. work' = SubSeq(work, 1, Len(work) - 1)
    BY <1>1 DEF Front
  <2>2. Len(work') = Len(work) - 1 /\ work' \in Seq(Activations)
        /\ \A n \in 1 .. Len(work) - 1 : work'[n] = work[n]
    BY <1>1, <1>4, <1>5, <2>1
  <2>3. 1 \in 1 .. Len(work) - 1
    BY <1>1, <1>5
  <2>4. work' # <<>>
    BY <1>1, <1>5, <2>2
  <2> QED
    BY <2>2, <2>3, <2>4 DEF h
<1>10. Enclosed(writer')
  BY <1>4, <1>7, <1>8, EnclosedJump
<1>11. F' = F
  BY <1>1 DEF F, M
<1>12. Enclosed(writer)'
  BY <1>10, <1>11 DEF Enclosed, Encloses, Separate
<1>13. Announces(writer', h, F)
  BY <1>7, <1>8, AnnouncesStays
<1>14. Begun = h /\ Begun' = h /\ h \in Nat /\ h <= writer.size
  <2>1. h \in Nat /\ h < writer.size /\ writer.size \in Nat
    BY <1>4, <1>7, BodySites, GoodParts
  <2> QED
    BY <1>2, <1>9, <2>1 DEF Begun, h
<1>15. (\A n \in DOMAIN layout : LaidOut(writer, Begun, M.functions[n], layout[n]))'
  BY <1>1, <1>4, <1>8, <1>14, GrowsAgrees, LaidStays
<1> QED
  BY <1>7, <1>8, <1>9, <1>11, <1>12, <1>13, <1>15 DEF Laid

\* A function just finished is laid out as its layout says.
LEMMA FunctionLaidOut ==
    ASSUME NEW w, Printing(w), NEW h, NEW D, Body(w, h, D),
           \A b \in DOMAIN F.blocks : b \in DOMAIN w.BlockPositions,
           Enclosed(w), BlockFlows(w, h), Announces(w, h, F), Numbered(F, w.Locals),
           w.BlockPositions[1] = After(w, h),
           NEW v, v = FixupPostponed(FixupFD(w, h)),
           NEW at, at.begin = h, at.BlockPositions = w.BlockPositions,
           at.Locals = w.Locals, at.registers = w.NextReg
    PROVE  LaidOut(v, v.size, F, at)
<1>1. Good(w) /\ h \in Sites(w) /\ h \in Nat /\ w.size \in Nat /\ h < w.size
  BY BodySites, GoodParts DEF Printing
<1>2. Good(v) /\ Patched(w, v) /\ Past(v, h) = w.size
  BY <1>1, FunctionFixed
<1>3. v.size = w.size /\ h \in Sites(v) /\ Alike(v.code[h], w.code[h]) /\ After(v, h) = After(w, h)
  BY <1>1, <1>2, PatchedText DEF Patched
<1>4. Announces(v, h, F)
  BY <1>3 DEF Announces, Alike
<1>5. \A id \in DOMAIN w.Locals : w.Locals[id] \in 1 .. w.NextReg
  BY <1>1 DEF Good
<1>6. \A b \in DOMAIN F.blocks : ~Falls(F, b) => Branches(v, F, at, b)
  BY FunctionBranches
<1>7. Separate(F, w.BlockPositions)
  BY DEF Enclosed
<1> QED
  BY <1>1, <1>2, <1>3, <1>4, <1>5, <1>6, <1>7 DEF LaidOut

LEMMA LaidByFinishFunction == Inv /\ Flowing /\ Laid /\ FinishFunction => Laid'
<1> SUFFICES ASSUME Inv, Flowing, Laid, FinishFunction PROVE Laid'
  OBVIOUS
<1> DEFINE v == FixupPostponed(FixupFD(writer, inner.begin))
           at == [begin |-> inner.begin, registers |-> writer.NextReg,
                  Locals |-> writer.Locals, BlockPositions |-> writer.BlockPositions]
           h == work[1].begin
<1>1. /\ Len(work) = 1 /\ inner.todo = {} /\ writer' = Reset(v) /\ work' = <<>>
      /\ layout' = Append(layout, at)
      /\ UNCHANGED <<module, LI, ended>>
  BY DEF FinishFunction
<1>2. work # <<>>
  BY <1>1
<1>3. PICK D : Busy(D)
  BY <1>2 DEF Inv
<1>4. /\ Types /\ Printing(writer) /\ Good(writer) /\ work \in Seq(Activations)
      /\ ValidFunction(F) /\ LI = LoopInfo(F)
      /\ Body(writer, h, D)
  BY <1>3 DEF Inv, Busy, Printing
<1>5. inner = work[1] /\ DOMAIN work = {1}
  BY <1>1, <1>4 DEF inner, Last
<1>6. ASSUME NEW b \in DOMAIN F.blocks PROVE b \in DOMAIN writer.BlockPositions
  <2>1. b \in DOMAIN LI /\ ~Waits(b)
    BY <1>1, <1>4, <1>5, <1>6, LoopTypes DEF Waits
  <2> QED
    BY <1>3, <2>1 DEF Busy
<1>7. /\ BlockFlows(writer, h) /\ Entered
      /\ Announces(writer, h, F) /\ Numbered(F, writer.Locals) /\ Enclosed(writer)
  BY <1>2 DEF Flowing, Laid
<1>8. writer.BlockPositions[1] = After(writer, h)
  <2>1. 1 \in DOMAIN writer.BlockPositions
    BY <1>4, <1>6, LoopTypes
  <2>2. writer.BlockPositions # <<>>
    BY <2>1
  <2> QED
    BY <1>7, <2>2 DEF Entered
<1>9. /\ v = FixupPostponed(FixupFD(writer, h))
      /\ at.begin = h /\ at.BlockPositions = writer.BlockPositions
      /\ at.Locals = writer.Locals /\ at.registers = writer.NextReg
      /\ Begun = h /\ Begun' = writer'.size
  BY <1>1, <1>2, <1>5 DEF Begun
<1> HIDE DEF v, at, h
<1>10. LaidOut(v, v.size, F, at)
  BY <1>4, <1>6, <1>7, <1>8, <1>9, FunctionLaidOut
<1>11. /\ Good(v) /\ Patched(writer, v)
       /\ \A j \in Sites(writer) : j # h /\ j \notin Pending(writer) =>
            v.code[j] = writer.code[j]
  BY <1>4, <1>6, <1>9, FunctionFixed
<1>12. /\ Good(writer') /\ writer'.code = v.code /\ writer'.size = v.size
       /\ writer'.NextReg = 0
  BY <1>1, <1>11, ResetGood
<1>13. h \in Nat /\ h < writer.size /\ writer.size \in Nat /\ v.size = writer.size
  BY <1>4, <1>11, BodySites, GoodParts DEF Patched
<1>14. Agree(v, writer', v.size) /\ Agree(writer, writer', h)
  <2>1. \A j \in Sites(writer) : j \in Nat
    BY <1>4, GoodParts
  <2>2. \A j \in Pending(writer) : j > h
    BY <1>4 DEF Body
  <2>3. \A j \in Nat : j < h => j # h /\ j \notin Pending(writer)
    BY <1>13, <2>2
  <2>4. Sites(writer') = Sites(v) /\ Sites(v) = Sites(writer)
    BY <1>11, <1>12 DEF Sites, Patched
  <2> QED
    BY <1>11, <1>12, <2>3, <2>4 DEF Agree
<1>15. LaidOut(writer', writer'.size, F, at)
  BY <1>10, <1>11, <1>12, <1>13, <1>14, LaidOutAgrees
<1>16. ASSUME NEW n \in DOMAIN layout
       PROVE  LaidOut(writer', writer'.size, M.functions[n], layout[n])
  <2>1. LaidOut(writer, h, M.functions[n], layout[n])
    BY <1>9 DEF Laid
  <2>2. h <= writer'.size /\ writer'.size \in Nat
    BY <1>12, <1>13
  <2> QED
    BY <1>4, <1>12, <1>13, <1>14, <2>1, <2>2, LaidOutAgrees
<1>17. /\ layout \in Seq(ToSet(layout)) /\ Len(layout) = fn - 1 /\ fn \in Nat
       /\ F = M.functions[fn]
  BY <1>4 DEF Types, F
<1>18. ASSUME NEW n \in DOMAIN layout'
       PROVE  LaidOut(writer', writer'.size, M.functions[n], layout'[n])
  <2>1. CASE n \in DOMAIN layout
    <3>1. layout'[n] = layout[n]
      BY <1>1, <1>17, <2>1
    <3> QED
      BY <1>16, <2>1, <3>1
  <2>2. CASE n \notin DOMAIN layout
    <3>1. n = fn /\ layout'[n] = at
      BY <1>1, <1>17, <2>2
    <3> QED
      BY <1>15, <1>17, <3>1
  <2> QED
    BY <2>1, <2>2
<1>19. M' = M
  BY <1>1 DEF M
<1> QED
  BY <1>1, <1>9, <1>12, <1>18, <1>19 DEF Laid

LEMMA LaidByFinalize == Inv /\ Laid /\ Finalize => Laid'
<1> SUFFICES ASSUME Inv, Laid, Finalize PROVE Laid'
  OBVIOUS
<1>1. work = <<>> /\ work' = <<>> /\ ended' = TRUE /\ UNCHANGED <<module, layout>>
  BY DEF Finalize
<1>2. PICK D : Types /\ Idle(D)
  BY <1>1 DEF Inv
<1>3. Continues(writer, writer')
  BY <1>2, FinalizeContinues
<1>4. Good(writer) /\ Good(writer') /\ Grows(writer, writer')
  BY <1>3, ContinuesGood, ExtendsGrows DEF Continues, Adjoins
<1>5. /\ Begun = writer.size /\ Begun' = writer'.size
      /\ writer.size \in Nat /\ writer'.size \in Nat /\ writer.size <= writer'.size
  BY <1>1, <1>4, GoodParts DEF Begun, Grows
<1>6. (\A n \in DOMAIN layout : LaidOut(writer, Begun, M.functions[n], layout[n]))'
  BY <1>1, <1>4, <1>5, GrowsAgrees, LaidStays
<1> QED
  BY <1>1, <1>6 DEF Laid

LEMMA LaidByStuttering == Laid /\ UNCHANGED vars => Laid'
<1> SUFFICES ASSUME Laid, UNCHANGED vars PROVE Laid'
  OBVIOUS
<1>1. UNCHANGED <<module, fn, LI, work, writer, layout, ended>>
  BY DEF vars
<1>2. F' = F /\ M' = M /\ Begun' = Begun
  BY <1>1 DEF F, M, Begun
<1>3. Enclosed(writer) => Enclosed(writer)'
  BY <1>1, <1>2 DEF Enclosed, Encloses, Separate
<1> QED
  BY <1>1, <1>2, <1>3 DEF Laid

\* The invariant of where things are: the code of each function and block stays
\* what it was when it was written, but for the offsets put in at the end.
THEOREM LayoutInvariance == Spec => []Laid
<1>1. Inv /\ Inv' /\ Flowing /\ Laid /\ [Next]_vars => Laid'
  BY LaidByStartFunction, LaidByPrintBlock, LaidByEnterLoop, LaidByEndLoop,
     LaidByFinishFunction, LaidByFinalize, LaidByStuttering DEF Next
<1> QED
  BY InitLaid, Invariance, FlowInvariance, <1>1, PTL DEF Spec

\* A call of a function of the file enters at its first block, with the
\* arguments in the registers of its parameters, and every value has a register
\* of its own; every block but those that end in unreachable has bytecode of its
\* own, in the body of its function, and control stays in it but for jumps to the
\* blocks that follow it in the module, to each of which there is one it comes to.
ControlKept ==
    ended => \A n \in DOMAIN layout :
        /\ CallsEnter(n)
        /\ Separate(M.functions[n], layout[n].BlockPositions)
        /\ \A b \in DOMAIN M.functions[n].blocks :
            ~Falls(M.functions[n], b) => Branches(writer, M.functions[n], layout[n], b)

LEMMA InvControl == Inv /\ Laid => ControlKept
<1> SUFFICES ASSUME Inv, Laid, ended, NEW n \in DOMAIN layout
             PROVE  /\ CallsEnter(n)
                    /\ Separate(M.functions[n], layout[n].BlockPositions)
                    /\ \A b \in DOMAIN M.functions[n].blocks :
                        ~Falls(M.functions[n], b) =>
                            Branches(writer, M.functions[n], layout[n], b)
  BY DEF ControlKept
<1>1. LaidOut(writer, Begun, M.functions[n], layout[n])
  BY DEF Laid
<1>2. Text.code = writer.code /\ After(Text, layout[n].begin) = After(writer, layout[n].begin)
  BY DEF Text, After
<1>3. CallsEnter(n)
  BY <1>1, <1>2 DEF CallsEnter, LaidOut, Announces, Numbered
<1> QED
  BY <1>1, <1>3 DEF LaidOut

\* The half of BlocksKeepMeaning that is about control (RbvmBackend.cpp: the
\* blocks of printFunction, PostponedJumps and BlockPositions, the header that
\* fixupFD completes) holds for every module, without its assumptions; of a block
\* that ends in unreachable it says nothing, as the module does not either.
THEOREM SameControl == Spec => []ControlKept
BY Invariance, LayoutInvariance, InvControl, PTL
=============================================================================
