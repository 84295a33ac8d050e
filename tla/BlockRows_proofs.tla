-------------------------- MODULE BlockRows_proofs --------------------------
(***************************************************************************)
(* What the rows of a chain promise, however long the chain is, and        *)
(* whatever transactions, coinbases and datasets it meets.                 *)
(***************************************************************************)
EXTENDS BlockRows, FiniteSetTheorems, SequenceTheorems, WellFoundedInduction, TLAPS

-----------------------------------------------------------------------------
(* Induction, and the elements of sequences.                               *)

\* Every set of natural numbers has a least one ...
LEMMA LeastNatural ==
  ASSUME NEW T \in SUBSET Nat, T # {}
  PROVE  \E n \in T : \A m \in T : n <= m
<1>1. IsWellFoundedOn(OpToRel(<, Nat), Nat)
  BY NatLessThanWellFounded
<1>2. \E n \in T : \A m \in T : ~ (<<m, n>> \in OpToRel(<, Nat))
  BY <1>1, WFMin
<1>3. \A m, n \in Nat : m < n => <<m, n>> \in OpToRel(<, Nat)
  BY DEF OpToRel
<1>4. \A m, n \in Nat : ~(m < n) => n <= m
  OBVIOUS
<1> QED
  BY <1>2, <1>3, <1>4

\* ... so a set that holds 0 and with each number the next one holds them all.
LEMMA SetInduction ==
  ASSUME NEW S \in SUBSET Nat, 0 \in S, \A n \in S : n + 1 \in S
  PROVE  S = Nat
<1> DEFINE T == Nat \ S
<1> SUFFICES ASSUME T # {} PROVE FALSE
  OBVIOUS
<1>1. PICK n \in T : \A m \in T : n <= m
  <2> HIDE DEF T
  <2>1. T \in SUBSET Nat
    BY DEF T
  <2> QED
    BY <2>1, LeastNatural
<1>2. n \in Nat /\ n # 0
  BY <1>1
<1>3. n - 1 \in S
  BY <1>1, <1>2
<1> QED
  BY <1>1, <1>2, <1>3

\* What concatenating the first i sequences gives, for every i.
Flattens(f, seqs) ==
  f = [i \in 1..Len(seqs) |-> IF i = 1 THEN seqs[i] ELSE f[i-1] \o seqs[i]]

\* There is such a function.
LEMMA FlattensExists ==
  ASSUME NEW X, NEW seqs \in Seq(Seq(X))
  PROVE  \E f : Flattens(f, seqs)
<1> DEFINE N == Len(seqs)
           S == {n \in Nat : \E f :
                   f = [i \in 1..n |-> IF i = 1 THEN seqs[i] ELSE f[i-1] \o seqs[i]]}
<1>0. N \in Nat
  OBVIOUS
<1>1. 0 \in S
  <2> DEFINE f == [i \in 1..0 |-> seqs[i]]
  <2>1. f = [i \in 1..0 |-> IF i = 1 THEN seqs[i] ELSE f[i-1] \o seqs[i]]
    OBVIOUS
  <2> QED
    BY <2>1
<1>2. ASSUME NEW n \in S PROVE n + 1 \in S
  <2>0. n \in Nat
    BY <1>2
  <2>1. PICK f : f = [i \in 1..n |-> IF i = 1 THEN seqs[i] ELSE f[i-1] \o seqs[i]]
    BY <1>2
  <2> DEFINE g == [i \in 1..n+1 |-> IF i = 1 THEN seqs[i]
                                  ELSE (IF i = n + 1 THEN f[n] \o seqs[n + 1] ELSE f[i])]
  <2>2. \A i \in 1..n : g[i] = f[i]
    BY <2>1
  <2>3. ASSUME NEW i \in 1..n+1
        PROVE  g[i] = IF i = 1 THEN seqs[i] ELSE g[i-1] \o seqs[i]
    <3>1. CASE i = 1
      BY <3>1
    <3>2. CASE i # 1 /\ i = n + 1
      <4>1. n \in 1..n /\ i - 1 = n
        BY <2>0, <3>2
      <4>2. g[i] = f[n] \o seqs[i]
        BY <3>2
      <4> QED
        BY <2>2, <3>2, <4>1, <4>2
    <3>3. CASE i # 1 /\ i # n + 1
      <4>1. i \in 1..n /\ i - 1 \in 1..n
        BY <2>0, <3>3
      <4>2. f[i] = f[i-1] \o seqs[i]
        BY <2>1, <3>3, <4>1
      <4>3. g[i] = f[i] /\ g[i-1] = f[i-1]
        BY <2>2, <4>1
      <4> HIDE DEF g
      <4> QED
        BY <3>3, <4>2, <4>3
    <3> QED
      BY <3>1, <3>2, <3>3
  <2>4. g = [i \in 1..n+1 |-> IF i = 1 THEN seqs[i] ELSE g[i-1] \o seqs[i]]
    BY <2>3
  <2>5. n + 1 \in Nat
    BY <1>2
  <2> HIDE DEF g
  <2> QED
    BY <2>4, <2>5
<1>3. S = Nat
  <2> HIDE DEF S
  <2>1. S \in SUBSET Nat
    BY DEF S
  <2> QED
    BY <1>1, <1>2, <2>1, SetInduction
<1>4. N \in S
  BY <1>0, <1>3
<1> QED
  BY <1>4 DEF Flattens

\* The elements of two sequences one after the other are those of both.
LEMMA ToSetConcat ==
  ASSUME NEW X, NEW s \in Seq(X), NEW t \in Seq(X)
  PROVE  s \o t \in Seq(X) /\ ToSet(s \o t) = ToSet(s) \union ToSet(t)
<1>1. s \o t \in Seq(X) /\ Len(s \o t) = Len(s) + Len(t)
  OBVIOUS
<1>2. \A i \in 1..Len(s) : (s \o t)[i] = s[i]
  OBVIOUS
<1>3. \A i \in 1..Len(t) : (s \o t)[Len(s) + i] = t[i] /\ Len(s) + i \in 1..(Len(s) + Len(t))
  OBVIOUS
<1>4. \A i \in 1..(Len(s) + Len(t)) : (s \o t)[i] = IF i <= Len(s) THEN s[i] ELSE t[i - Len(s)]
  OBVIOUS
<1>5. \A i \in 1..(Len(s) + Len(t)) :
        i \in 1..Len(s) \/ (~(i <= Len(s)) /\ i - Len(s) \in 1..Len(t))
  OBVIOUS
<1>6. \A i \in 1..Len(s) : i \in 1..(Len(s) + Len(t))
  OBVIOUS
<1>7. DOMAIN (s \o t) = 1..(Len(s) + Len(t)) /\ DOMAIN s = 1..Len(s) /\ DOMAIN t = 1..Len(t)
  BY <1>1
<1>8. ToSet(s \o t) \subseteq ToSet(s) \union ToSet(t)
  BY <1>4, <1>5, <1>7 DEF ToSet
<1>9. ToSet(s) \subseteq ToSet(s \o t)
  BY <1>2, <1>6, <1>7 DEF ToSet
<1>10. ToSet(t) \subseteq ToSet(s \o t)
  BY <1>3, <1>7 DEF ToSet
<1> QED
  BY <1>1, <1>8, <1>9, <1>10

\* The elements of a flattened sequence are those of its sequences.
LEMMA FlattenElements ==
  ASSUME NEW X, NEW seqs \in Seq(Seq(X))
  PROVE  ToSet(FlattenSeq(seqs)) = UNION {ToSet(seqs[i]) : i \in DOMAIN seqs}
<1> DEFINE N == Len(seqs)
           fl == CHOOSE f : Flattens(f, seqs)
<1>0. N \in Nat /\ DOMAIN seqs = 1..N /\ \A i \in 1..N : seqs[i] \in Seq(X)
  OBVIOUS
<1>1. CASE N = 0
  <2>1. FlattenSeq(seqs) = seqs /\ DOMAIN seqs = {}
    BY <1>1 DEF FlattenSeq
  <2> QED
    BY <2>1 DEF ToSet
<1>2. CASE N # 0
  <2>1. Flattens(fl, seqs)
    BY FlattensExists
  <2>2. FlattenSeq(seqs) = fl[N]
    BY <1>2 DEF FlattenSeq, Flattens
  <2> DEFINE S == {n \in Nat : n + 1 <= N =>
                     /\ fl[n + 1] \in Seq(X)
                     /\ ToSet(fl[n + 1]) = UNION {ToSet(seqs[i]) : i \in 1..n+1}}
  <2> HIDE DEF fl
  <2>3. \A i \in 1..N : fl[i] = IF i = 1 THEN seqs[i] ELSE fl[i-1] \o seqs[i]
    BY <2>1 DEF Flattens
  <2>4. 0 \in S
    <3>1. fl[1] = seqs[1]
      BY <1>0, <1>2, <2>3
    <3>2. fl[1] \in Seq(X) /\ 1..1 = {1}
      BY <1>0, <1>2, <3>1
    <3>3. ToSet(fl[1]) = UNION {ToSet(seqs[i]) : i \in {1}}
      BY <3>1
    <3>4. 0 + 1 = 1
      OBVIOUS
    <3> QED
      BY <3>2, <3>3, <3>4
  <2>5. ASSUME NEW n \in S PROVE n + 1 \in S
    <3> SUFFICES ASSUME n + 2 <= N
                 PROVE  /\ fl[n + 2] \in Seq(X)
                        /\ ToSet(fl[n + 2]) = UNION {ToSet(seqs[i]) : i \in 1..n+2}
      <4>1. n \in Nat /\ n + 1 \in Nat /\ (n + 1) + 1 = n + 2
        BY <2>5
      <4> QED
        BY <4>1
    <3>1. /\ fl[n + 1] \in Seq(X) /\ n + 1 <= N
          /\ ToSet(fl[n + 1]) = UNION {ToSet(seqs[i]) : i \in 1..n+1}
      BY <1>0, <2>5
    <3>2. fl[n + 2] = fl[n + 1] \o seqs[n + 2] /\ seqs[n + 2] \in Seq(X)
      <4>1. n + 2 \in 1..N /\ n + 2 # 1 /\ (n + 2) - 1 = n + 1
        BY <1>0, <2>5
      <4> HIDE DEF S
      <4> QED
        BY <1>0, <2>3, <4>1
    <3>3. fl[n + 2] \in Seq(X) /\ ToSet(fl[n + 2]) = ToSet(fl[n + 1]) \union ToSet(seqs[n + 2])
      BY <3>1, <3>2, ToSetConcat
    <3>4. \A i : i \in 1..n+2 <=> i \in 1..n+1 \/ i = n + 2
      BY <2>5
    <3> QED
      BY <3>1, <3>3, <3>4
  <2>6. S = Nat
    <3> HIDE DEF S
    <3>1. S \in SUBSET Nat
      BY DEF S
    <3> QED
      BY <2>4, <2>5, <3>1, SetInduction
  <2>7. N - 1 \in S
    <3> HIDE DEF S
    <3> QED
      BY <1>0, <1>2, <2>6
  <2> QED
    BY <1>0, <1>2, <2>2, <2>7
<1> QED
  BY <1>1, <1>2

\* A function over 1..n is a sequence of what it gives.
LEMMA FunctionIsSequence ==
  ASSUME NEW n \in Nat, NEW s, s = [i \in 1..n |-> s[i]]
  PROVE  IsSequence(s) /\ Len(s) = n /\ DOMAIN s = 1..n
<1>1. DOMAIN s = 1..n /\ s \in [1..n -> ToSet(s)]
  BY DEF ToSet
<1>2. s \in Seq(ToSet(s))
  BY <1>1
<1> QED
  BY <1>1, <1>2 DEF IsSequence

\* A sequence is a function over 1..Len.
LEMMA SequenceFacts ==
  ASSUME NEW s, IsSequence(s)
  PROVE  /\ Len(s) \in Nat /\ DOMAIN s = 1..Len(s)
         /\ s = [i \in 1..Len(s) |-> s[i]]
         /\ \A X : ToSet(s) \subseteq X => s \in Seq(X)
<1>1. s \in Seq(ToSet(s))
  BY DEF IsSequence
<1>2. Len(s) \in Nat /\ DOMAIN s = 1..Len(s)
  BY <1>1
<1>3. s = [i \in 1..Len(s) |-> s[i]]
  BY <1>1
<1>4. ASSUME NEW X, ToSet(s) \subseteq X PROVE s \in Seq(X)
  BY <1>1, <1>4, SeqMonotonic
<1> QED
  BY <1>2, <1>3, <1>4

\* The elements of a sequence of sequences, flattened.
LEMMA FlattenRows ==
  ASSUME NEW n \in Nat, NEW ss, ss = [i \in 1..n |-> ss[i]],
         \A i \in 1..n : IsSequence(ss[i])
  PROVE  ToSet(FlattenSeq(ss)) = UNION {ToSet(ss[i]) : i \in 1..n}
<1> DEFINE X == UNION {ToSet(ss[i]) : i \in 1..n}
<1>1. \A i \in 1..n : ss[i] \in Seq(X)
  <2> SUFFICES ASSUME NEW i \in 1..n PROVE ss[i] \in Seq(X)
    OBVIOUS
  <2>1. ToSet(ss[i]) \subseteq X
    OBVIOUS
  <2> HIDE DEF X
  <2> QED
    BY <2>1, SequenceFacts
<1>2. ss \in Seq(Seq(X)) /\ DOMAIN ss = 1..n
  <2> HIDE DEF X
  <2>1. ss \in [1..n -> Seq(X)]
    BY <1>1
  <2> QED
    BY <2>1
<1> QED
  BY <1>2, FlattenElements

-----------------------------------------------------------------------------
(* Sums over finite sets.                                                  *)

\* A set of subsets that holds the empty one, and with each subset those with
\* one element more, holds the whole of a finite set.
LEMMA FiniteInduction ==
  ASSUME NEW S, IsFiniteSet(S), NEW Q \in SUBSET (SUBSET S), {} \in Q,
         \A T \in Q : \A x \in S \ T : T \union {x} \in Q
  PROVE  Q = SUBSET S
<1> DEFINE A == {n \in Nat : \A T \in SUBSET S : Cardinality(T) = n => T \in Q}
<1>1. \A T \in SUBSET S : IsFiniteSet(T) /\ Cardinality(T) \in Nat
  BY FS_Subset, FS_CardinalityType
<1>2. 0 \in A
  <2>1. \A T \in SUBSET S : Cardinality(T) = 0 => T = {}
    BY <1>1, FS_EmptySet
  <2> QED
    BY <2>1
<1>3. ASSUME NEW n \in A PROVE n + 1 \in A
  <2>0. n \in Nat /\ n + 1 \in Nat
    BY <1>3
  <2> SUFFICES ASSUME NEW T \in SUBSET S, Cardinality(T) = n + 1 PROVE T \in Q
    BY <2>0
  <2>1. T # {}
    BY <2>0, FS_EmptySet
  <2>2. PICK x : x \in T
    BY <2>1
  <2>3. Cardinality(T \ {x}) = n /\ T \ {x} \in SUBSET S
    <3>1. IsFiniteSet(T)
      BY <1>1
    <3>2. Cardinality(T \ {x}) = Cardinality(T) - 1
      BY <2>2, <3>1, FS_RemoveElement
    <3> HIDE DEF A
    <3> QED
      BY <2>0, <3>2
  <2>4. \A U \in SUBSET S : Cardinality(U) = n => U \in Q
    BY <1>3
  <2>5. T \ {x} \in Q
    <3> HIDE DEF A
    <3> QED
      BY <2>3, <2>4
  <2>6. x \in S \ (T \ {x}) /\ (T \ {x}) \union {x} = T
    BY <2>2
  <2> QED
    BY <2>5, <2>6
<1>4. A = Nat
  <2> HIDE DEF A
  <2>1. A \in SUBSET Nat
    BY DEF A
  <2> QED
    BY <1>2, <1>3, <2>1, SetInduction
<1>5. ASSUME NEW T \in SUBSET S PROVE T \in Q
  <2>1. Cardinality(T) \in A
    BY <1>1, <1>4
  <2> QED
    BY <2>1
<1> QED
  BY <1>5

\* g gives the sum of f over each subset of S.
Additive(g, f, S) ==
  /\ g \in [SUBSET S -> Int] /\ g[{}] = 0
  /\ \A T \in SUBSET S : \A x \in T : g[T] = f[x] + g[T \ {x}]

\* A finite set has such sums.
LEMMA AdditiveExists ==
  ASSUME NEW S, IsFiniteSet(S), NEW f, \A x \in S : f[x] \in Int
  PROVE  \E g : Additive(g, f, S)
<1> DEFINE Q == {T \in SUBSET S : \E g : Additive(g, f, T)}
<1>1. {} \in Q
  <2> DEFINE g == [T \in {{}} |-> 0]
  <2>1. SUBSET {} = {{}} /\ g \in [SUBSET {} -> Int] /\ g[{}] = 0
    OBVIOUS
  <2>2. Additive(g, f, {})
    <3> HIDE DEF g
    <3> QED
      BY <2>1 DEF Additive
  <2> QED
    BY <2>2
<1>2. ASSUME NEW T \in Q, NEW y \in S \ T PROVE T \union {y} \in Q
  <2>1. PICK g : Additive(g, f, T)
    BY <1>2
  <2> DEFINE U == T \union {y}
             h == [A \in SUBSET U |-> IF y \in A THEN f[y] + g[A \ {y}] ELSE g[A]]
  <2>2. /\ g \in [SUBSET T -> Int] /\ g[{}] = 0
        /\ \A A \in SUBSET T : \A x \in A : g[A] = f[x] + g[A \ {x}]
    BY <2>1 DEF Additive
  <2>3. T \in SUBSET S /\ y \in S /\ y \notin T
    BY <1>2
  <2>4. \A A \in SUBSET U : A \ {y} \in SUBSET T /\ (y \notin A => A \in SUBSET T)
    OBVIOUS
  <2>5. h \in [SUBSET U -> Int]
    BY <2>2, <2>3, <2>4
  <2>6. h[{}] = 0
    BY <2>2
  <2>7. ASSUME NEW A \in SUBSET U, NEW x \in A PROVE h[A] = f[x] + h[A \ {x}]
    <3>1. x \in S /\ A \ {x} \in SUBSET U /\ f[x] \in Int /\ f[y] \in Int
      BY <2>3
    <3>2. CASE x = y
      <4>1. y \notin A \ {x} /\ y \in A
        BY <3>2
      <4>2. h[A] = f[y] + g[A \ {y}] /\ h[A \ {x}] = g[A \ {x}]
        BY <3>1, <4>1
      <4> QED
        BY <3>2, <4>2
    <3>3. CASE x # y /\ y \in A
      <4> DEFINE B == A \ {y}
      <4>1. y \in A \ {x} /\ x \in B /\ B \in SUBSET T /\ (A \ {x}) \ {y} = B \ {x}
        BY <2>4, <3>3
      <4>2. h[A] = f[y] + g[B] /\ h[A \ {x}] = f[y] + g[B \ {x}]
        BY <3>1, <3>3, <4>1
      <4>3. g[B] = f[x] + g[B \ {x}] /\ g[B \ {x}] \in Int
        BY <2>2, <4>1
      <4> HIDE DEF h, B
      <4> QED
        BY <3>1, <4>2, <4>3
    <3>4. CASE y \notin A
      <4>1. y \notin A \ {x} /\ A \in SUBSET T
        BY <2>4, <3>4
      <4>2. h[A] = g[A] /\ h[A \ {x}] = g[A \ {x}]
        BY <3>1, <3>4, <4>1
      <4>3. g[A] = f[x] + g[A \ {x}]
        BY <2>2, <4>1
      <4> QED
        BY <4>2, <4>3
    <3> QED
      BY <3>2, <3>3, <3>4
  <2>8. Additive(h, f, U)
    <3> HIDE DEF h, U
    <3> QED
      BY <2>5, <2>6, <2>7 DEF Additive
  <2>9. U \in SUBSET S
    BY <2>3
  <2> HIDE DEF h, U
  <2>10. U \in Q
    BY <2>8, <2>9
  <2> QED
    BY <2>10 DEF U
<1>3. S \in Q
  <2> HIDE DEF Q
  <2>1. Q \in SUBSET (SUBSET S)
    BY DEF Q
  <2>2. Q = SUBSET S
    BY <1>1, <1>2, <2>1, FiniteInduction
  <2> QED
    BY <2>2
<1> QED
  BY <1>3

\* What SumFunction computes over S, whichever element it takes first.
IsFold(it, f, S) ==
  it = [T \in SUBSET S |-> IF T = {} THEN 0
                           ELSE f[CHOOSE x \in T : TRUE] + it[T \ {CHOOSE x \in T : TRUE}]]

\* The fold over a set gives its sum, whichever element it takes first.
LEMMA FoldIs ==
  ASSUME NEW S, IsFiniteSet(S), NEW f, NEW g, Additive(g, f, S), NEW it, IsFold(it, f, S)
  PROVE  it[S] = g[S]
<1> DEFINE Q == {T \in SUBSET S : it[T] = g[T]}
           A == {n \in Nat : \A T \in SUBSET S : Cardinality(T) = n => it[T] = g[T]}
<1>1. /\ g \in [SUBSET S -> Int] /\ g[{}] = 0
      /\ \A T \in SUBSET S : \A x \in T : g[T] = f[x] + g[T \ {x}]
  BY DEF Additive
<1>2. \A T \in SUBSET S : IsFiniteSet(T) /\ Cardinality(T) \in Nat
  BY FS_Subset, FS_CardinalityType
<1>3. 0 \in A
  <2>1. \A T \in SUBSET S : Cardinality(T) = 0 => T = {}
    BY <1>2, FS_EmptySet
  <2>2. it[{}] = 0
    BY DEF IsFold
  <2> QED
    BY <1>1, <2>1, <2>2
<1>4. ASSUME NEW n \in A PROVE n + 1 \in A
  <2>0. n \in Nat /\ n + 1 \in Nat
    BY <1>4
  <2> SUFFICES ASSUME NEW T \in SUBSET S, Cardinality(T) = n + 1 PROVE it[T] = g[T]
    BY <2>0
  <2> DEFINE x == CHOOSE x \in T : TRUE
  <2>1. T # {}
    BY <2>0, FS_EmptySet
  <2>2. x \in T
    BY <2>1
  <2>3. it[T] = f[x] + it[T \ {x}]
    BY <2>1 DEF IsFold
  <2> HIDE DEF x
  <2>4. Cardinality(T \ {x}) = n /\ T \ {x} \in SUBSET S
    BY <1>2, <2>0, <2>2, FS_RemoveElement
  <2>5. it[T \ {x}] = g[T \ {x}]
    BY <1>4, <2>4
  <2> QED
    BY <1>1, <2>2, <2>3, <2>5
<1>5. A = Nat
  <2> HIDE DEF A
  <2>1. A \in SUBSET Nat
    BY DEF A
  <2> QED
    BY <1>3, <1>4, <2>1, SetInduction
<1>6. Cardinality(S) \in A
  BY <1>2, <1>5
<1> QED
  BY <1>6

\* SumFunction is that sum.
LEMMA SumIs ==
  ASSUME NEW f, IsFiniteSet(DOMAIN f), NEW g, Additive(g, f, DOMAIN f)
  PROVE  SumFunction(f) = g[DOMAIN f]
<1> DEFINE S == DOMAIN f
<1>1. /\ g \in [SUBSET S -> Int] /\ g[{}] = 0
      /\ \A T \in SUBSET S : \A x \in T : g[T] = f[x] + g[T \ {x}]
  BY DEF Additive
<1>2. \A T \in SUBSET S : T # {} => g[T] = f[CHOOSE x \in T : TRUE] + g[T \ {CHOOSE x \in T : TRUE}]
  BY <1>1
<1>3. IsFold(g, f, S)
  BY <1>1, <1>2 DEF IsFold
<1>4. IsFold(CHOOSE it : IsFold(it, f, S), f, S)
  BY <1>3
<1>5. SumFunction(f) = (CHOOSE it : IsFold(it, f, S))[S]
  BY DEF SumFunction, SumFunctionOnSet, FoldFunctionOnSet, MapThenFoldSet, IsFold
<1> QED
  BY <1>4, <1>5, FoldIs

\* The sums of a finite function, over its domain and over all of its parts.
LEMMA Sums ==
  ASSUME NEW S, IsFiniteSet(S), NEW f, \A x \in S : f[x] \in Int
  PROVE  \E g : /\ Additive(g, f, S)
                /\ \A T \in SUBSET S : SumFunction([x \in T |-> f[x]]) = g[T]
<1>1. PICK g : Additive(g, f, S)
  BY AdditiveExists
<1>2. ASSUME NEW T \in SUBSET S PROVE SumFunction([x \in T |-> f[x]]) = g[T]
  <2> DEFINE e == [x \in T |-> f[x]]
             h == [A \in SUBSET T |-> g[A]]
  <2>1. /\ g \in [SUBSET S -> Int] /\ g[{}] = 0
        /\ \A A \in SUBSET S : \A x \in A : g[A] = f[x] + g[A \ {x}]
    BY <1>1 DEF Additive
  <2>2. h \in [SUBSET T -> Int] /\ h[{}] = 0 /\ h[T] = g[T]
    BY <2>1
  <2>3. ASSUME NEW A \in SUBSET T, NEW x \in A PROVE h[A] = e[x] + h[A \ {x}]
    <3>1. A \in SUBSET S /\ A \ {x} \in SUBSET T /\ e[x] = f[x]
      OBVIOUS
    <3>2. h[A] = g[A] /\ h[A \ {x}] = g[A \ {x}]
      BY <3>1
    <3> QED
      BY <2>1, <3>1, <3>2
  <2>4. DOMAIN e = T /\ IsFiniteSet(T)
    BY FS_Subset
  <2> HIDE DEF e, h
  <2>5. Additive(h, e, DOMAIN e)
    BY <2>2, <2>3, <2>4 DEF Additive
  <2>6. SumFunction(e) = h[T]
    BY <2>4, <2>5, SumIs
  <2> QED
    BY <2>2, <2>6 DEF e
<1> QED
  BY <1>1, <1>2

\* A finite sum: nothing sums up to 0, and any element can be taken out.
LEMMA SumEmpty ==
  ASSUME NEW f, DOMAIN f = {}
  PROVE  SumFunction(f) = 0
<1>1. IsFiniteSet(DOMAIN f)
  BY FS_EmptySet
<1>2. PICK g : Additive(g, f, DOMAIN f)
  BY <1>1, AdditiveExists
<1>3. g[{}] = 0
  BY <1>2 DEF Additive
<1> QED
  BY <1>1, <1>2, <1>3, SumIs

\* A sum of integers is one.
LEMMA SumIsInt ==
  ASSUME NEW f, IsFiniteSet(DOMAIN f), \A x \in DOMAIN f : f[x] \in Int
  PROVE  SumFunction(f) \in Int
<1>1. PICK g : Additive(g, f, DOMAIN f)
  BY AdditiveExists
<1>2. SumFunction(f) = g[DOMAIN f]
  BY <1>1, SumIs
<1>3. g \in [SUBSET DOMAIN f -> Int]
  BY <1>1 DEF Additive
<1> QED
  BY <1>2, <1>3

\* A sum is one of its summands and the sum of the others.
LEMMA SumSplit ==
  ASSUME NEW S, IsFiniteSet(S), NEW f, \A x \in S : f[x] \in Int, NEW x \in S
  PROVE  SumFunction([y \in S |-> f[y]]) = f[x] + SumFunction([y \in S \ {x} |-> f[y]])
<1>1. PICK g : /\ Additive(g, f, S)
               /\ \A T \in SUBSET S : SumFunction([y \in T |-> f[y]]) = g[T]
  BY Sums
<1>2. g[S] = f[x] + g[S \ {x}]
  BY <1>1 DEF Additive
<1>3. S \in SUBSET S /\ S \ {x} \in SUBSET S
  OBVIOUS
<1> QED
  BY <1>1, <1>2, <1>3

\* A sum does not depend on what its elements are called.
LEMMA SumReindex ==
  ASSUME NEW S, IsFiniteSet(S), NEW f, \A x \in S : f[x] \in Int,
         NEW T, NEW b \in [T -> S], \A t, u \in T : b[t] = b[u] => t = u,
         \A x \in S : \E t \in T : x = b[t]
  PROVE  /\ IsFiniteSet(T)
         /\ SumFunction([t \in T |-> f[b[t]]]) = SumFunction([x \in S |-> f[x]])
<1>0. IsFiniteSet(T)
  <2>1. b \in Injection(T, S)
    BY DEF Injection, IsInjective
  <2> QED
    BY <2>1, FS_Injection
<1>1. PICK g : /\ Additive(g, f, S)
               /\ \A A \in SUBSET S : SumFunction([x \in A |-> f[x]]) = g[A]
  BY Sums
<1>2. /\ g \in [SUBSET S -> Int] /\ g[{}] = 0
      /\ \A A \in SUBSET S : \A x \in A : g[A] = f[x] + g[A \ {x}]
  BY <1>1 DEF Additive
<1> DEFINE e == [t \in T |-> f[b[t]]]
           Image(A) == {b[t] : t \in A}
           h == [A \in SUBSET T |-> g[Image(A)]]
<1>3. /\ \A A \in SUBSET T : Image(A) \in SUBSET S
      /\ Image({}) = {} /\ Image(T) = S
      /\ \A A \in SUBSET T : \A t \in A : b[t] \in Image(A)
      /\ \A A \in SUBSET T : \A t \in A : Image(A \ {t}) = Image(A) \ {b[t]}
  OBVIOUS
<1> HIDE DEF Image
<1>4. h \in [SUBSET T -> Int] /\ h[{}] = 0 /\ h[T] = g[S]
  BY <1>2, <1>3
<1>5. ASSUME NEW A \in SUBSET T, NEW t \in A PROVE h[A] = e[t] + h[A \ {t}]
  <2>1. g[Image(A)] = f[b[t]] + g[Image(A) \ {b[t]}]
    BY <1>2, <1>3
  <2>2. h[A] = g[Image(A)] /\ h[A \ {t}] = g[Image(A) \ {b[t]}] /\ e[t] = f[b[t]]
    BY <1>3
  <2> QED
    BY <2>1, <2>2
<1>6. DOMAIN e = T
  OBVIOUS
<1> HIDE DEF e, h
<1>7. Additive(h, e, DOMAIN e)
  BY <1>4, <1>5, <1>6 DEF Additive
<1>8. SumFunction(e) = h[T]
  BY <1>0, <1>6, <1>7, SumIs
<1> QED
  BY <1>0, <1>1, <1>4, <1>8 DEF e

\* The sums of two parts add up to that of both.
LEMMA AdditiveUnion ==
  ASSUME NEW S, IsFiniteSet(S), NEW f, \A x \in S : f[x] \in Int,
         NEW g, Additive(g, f, S), NEW A \in SUBSET S, NEW B \in SUBSET S, A \intersect B = {}
  PROVE  g[A \union B] = g[A] + g[B]
<1> DEFINE Q == {T \in SUBSET B : g[A \union T] = g[A] + g[T]}
<1>1. /\ g \in [SUBSET S -> Int] /\ g[{}] = 0
      /\ \A T \in SUBSET S : \A x \in T : g[T] = f[x] + g[T \ {x}]
  BY DEF Additive
<1>2. {} \in Q
  <2>1. A \union {} = A /\ g[A] \in Int
    BY <1>1
  <2> QED
    BY <1>1, <2>1
<1>3. ASSUME NEW T \in Q, NEW x \in B \ T PROVE T \union {x} \in Q
  <2> DEFINE U == T \union {x}
             V == A \union U
  <2>1. /\ U \in SUBSET S /\ V \in SUBSET S /\ x \in U /\ x \in V
        /\ U \ {x} = T /\ V \ {x} = A \union T /\ U \in SUBSET B
        /\ f[x] \in Int
    BY <1>3
  <2>2. g[A \union T] = g[A] + g[T] /\ g[A] \in Int /\ g[T] \in Int
    BY <1>1, <1>3
  <2> HIDE DEF U, V
  <2>3. g[U] = f[x] + g[T] /\ g[V] = f[x] + g[A \union T]
    BY <1>1, <2>1
  <2>4. g[V] = g[A] + g[U]
    BY <2>1, <2>2, <2>3
  <2> QED
    BY <2>1, <2>4 DEF U, V
<1>4. Q = SUBSET B
  <2> HIDE DEF Q
  <2>1. Q \in SUBSET (SUBSET B) /\ IsFiniteSet(B)
    BY FS_Subset DEF Q
  <2> QED
    BY <1>2, <1>3, <2>1, FiniteInduction
<1> QED
  BY <1>4

\* Rows that several transactions have each a part of, none two of them the same
\* one: `b` numbers them, and their sum is that of the transactions' sums.
Parts(b, K, D, R) ==
  /\ \A k \in K : \A n \in D[k] : b[k][n] \in R
  /\ \A r \in R : \E k \in K : \E n \in D[k] : r = b[k][n]
  /\ \A k, l \in K : \A n \in D[k] : \A m \in D[l] : b[k][n] = b[l][m] => k = l /\ n = m

Sub(f, b, D, k) == SumFunction([n \in D[k] |-> f[b[k][n]]])
PartSums(f, b, K, D) == SumFunction([k \in K |-> Sub(f, b, D, k)])
SumOver(f, R) == SumFunction([r \in R |-> f[r]])

\* Finitely many finite parts are finitely many rows.
LEMMA PartsFinite ==
  ASSUME NEW K, IsFiniteSet(K), NEW D, \A k \in K : IsFiniteSet(D[k]),
         NEW R, NEW b, Parts(b, K, D, R)
  PROVE  IsFiniteSet(R)
<1> DEFINE Image(k) == {b[k][n] : n \in D[k]}
           I == {Image(k) : k \in K}
<1>1. \A k \in K : IsFiniteSet(Image(k))
  <2> SUFFICES ASSUME NEW k \in K PROVE IsFiniteSet(Image(k))
    OBVIOUS
  <2> DEFINE c == [n \in D[k] |-> b[k][n]]
  <2>1. c \in Surjection(D[k], Image(k))
    BY DEF Surjection
  <2> QED
    BY <2>1, FS_Surjection
<1>2. IsFiniteSet(I)
  <2> DEFINE c == [k \in K |-> Image(k)]
  <2>1. c \in Surjection(K, I)
    BY DEF Surjection
  <2> QED
    BY <2>1, FS_Surjection
<1>3. IsFiniteSet(UNION I)
  BY <1>1, <1>2, FS_UNION
<1>4. R = UNION I
  BY DEF Parts
<1> QED
  BY <1>3, <1>4

\* Adding up each part, and then the sums, adds up all the rows.
LEMMA SumOfParts ==
  ASSUME NEW K, IsFiniteSet(K), NEW D, \A k \in K : IsFiniteSet(D[k]),
         NEW R, NEW b, Parts(b, K, D, R), NEW f, \A r \in R : f[r] \in Int
  PROVE  PartSums(f, b, K, D) = SumOver(f, R)
<1>0. IsFiniteSet(R)
  BY PartsFinite
<1>1. PICK g : /\ Additive(g, f, R)
               /\ \A A \in SUBSET R : SumFunction([x \in A |-> f[x]]) = g[A]
  BY <1>0, Sums
<1>2. g \in [SUBSET R -> Int] /\ g[{}] = 0
  BY <1>1 DEF Additive
<1> DEFINE Image(k) == {b[k][n] : n \in D[k]}
           e == [k \in K |-> Sub(f, b, D, k)]
           h == [A \in SUBSET K |-> g[UNION {Image(k) : k \in A}]]
<1>3. ASSUME NEW k \in K PROVE e[k] = g[Image(k)] /\ Image(k) \in SUBSET R
  <2> DEFINE c == [n \in D[k] |-> b[k][n]]
  <2>1. Image(k) \in SUBSET R
    BY DEF Parts
  <2>2. c \in [D[k] -> Image(k)] /\ \A x \in Image(k) : \E n \in D[k] : x = c[n]
    OBVIOUS
  <2>3. \A n, m \in D[k] : c[n] = c[m] => n = m
    BY DEF Parts
  <2>4. IsFiniteSet(Image(k)) /\ \A x \in Image(k) : f[x] \in Int
    BY <1>0, <2>1, FS_Subset
  <2>5. SumFunction([x \in Image(k) |-> f[x]]) = g[Image(k)]
    BY <1>1, <2>1
  <2>6. [n \in D[k] |-> f[c[n]]] = [n \in D[k] |-> f[b[k][n]]]
    OBVIOUS
  <2> HIDE DEF c, Image
  <2>7. SumFunction([n \in D[k] |-> f[c[n]]]) = SumFunction([x \in Image(k) |-> f[x]])
    BY <2>2, <2>3, <2>4, SumReindex
  <2> QED
    BY <2>1, <2>5, <2>6, <2>7 DEF Sub
<1>4. h \in [SUBSET K -> Int] /\ h[{}] = 0
  <2>1. \A A \in SUBSET K : UNION {Image(k) : k \in A} \in SUBSET R
    BY <1>3
  <2>2. UNION {Image(k) : k \in {}} = {}
    OBVIOUS
  <2> HIDE DEF Image
  <2> QED
    BY <1>2, <2>1, <2>2
<1>5. ASSUME NEW A \in SUBSET K, NEW k \in A PROVE h[A] = e[k] + h[A \ {k}]
  <2> DEFINE U == UNION {Image(l) : l \in A}
             V == UNION {Image(l) : l \in A \ {k}}
  <2>1. U = Image(k) \union V
    OBVIOUS
  <2>2. V \in SUBSET R /\ Image(k) \in SUBSET R
    BY <1>3
  <2>3. Image(k) \intersect V = {}
    BY DEF Parts
  <2> HIDE DEF Image, U, V
  <2>4. g[Image(k) \union V] = g[Image(k)] + g[V]
    BY <1>0, <1>1, <2>2, <2>3, AdditiveUnion
  <2>5. h[A] = g[U] /\ h[A \ {k}] = g[V]
    BY DEF U, V
  <2> QED
    BY <1>3, <2>1, <2>4, <2>5
<1>6. UNION {Image(k) : k \in K} = R
  BY DEF Parts
<1>7. DOMAIN e = K /\ h[K] = g[R]
  <2> HIDE DEF Image
  <2> QED
    BY <1>6
<1> HIDE DEF e, h
<1>8. Additive(h, e, DOMAIN e)
  BY <1>4, <1>5, <1>7 DEF Additive
<1>9. SumFunction(e) = g[R]
  BY <1>7, <1>8, SumIs
<1> QED
  BY <1>1, <1>9 DEF e, PartSums, SumOver

\* A cardinality is a sum of ones.
LEMMA CardIsSum ==
  ASSUME NEW S, IsFiniteSet(S)
  PROVE  Cardinality(S) = SumFunction([x \in S |-> 1])
<1> DEFINE e == [x \in S |-> 1]
           h == [A \in SUBSET S |-> Cardinality(A)]
<1>1. \A A \in SUBSET S : IsFiniteSet(A) /\ Cardinality(A) \in Nat
  BY FS_Subset, FS_CardinalityType
<1>2. h \in [SUBSET S -> Int] /\ h[{}] = 0 /\ h[S] = Cardinality(S)
  BY <1>1, FS_EmptySet
<1>3. ASSUME NEW A \in SUBSET S, NEW x \in A PROVE h[A] = e[x] + h[A \ {x}]
  <2>1. Cardinality(A \ {x}) = Cardinality(A) - 1
    BY <1>1, FS_RemoveElement
  <2>2. h[A] = Cardinality(A) /\ h[A \ {x}] = Cardinality(A \ {x}) /\ e[x] = 1
    OBVIOUS
  <2> HIDE DEF h, e
  <2> QED
    BY <1>1, <2>1, <2>2
<1>4. DOMAIN e = S
  OBVIOUS
<1> HIDE DEF e, h
<1>5. Additive(h, e, DOMAIN e)
  BY <1>2, <1>3, <1>4 DEF Additive
<1>6. SumFunction(e) = h[S]
  BY <1>4, <1>5, SumIs
<1> QED
  BY <1>2, <1>6 DEF e

\* The rows there are as many as the transactions have in all.
LEMMA CardOfParts ==
  ASSUME NEW K, IsFiniteSet(K), NEW D, \A k \in K : IsFiniteSet(D[k]),
         NEW R, NEW b, Parts(b, K, D, R)
  PROVE  SumFunction([k \in K |-> Cardinality(D[k])]) = Cardinality(R)
<1> DEFINE f == [r \in R |-> 1]
<1>1. IsFiniteSet(R)
  BY PartsFinite
<1>2. Cardinality(R) = SumFunction(f)
  BY <1>1, CardIsSum
<1>3. ASSUME NEW k \in K
      PROVE  Cardinality(D[k]) = Sub(f, b, D, k)
  <2>1. [n \in D[k] |-> f[b[k][n]]] = [n \in D[k] |-> 1]
    BY DEF Parts
  <2>2. Cardinality(D[k]) = SumFunction([n \in D[k] |-> 1])
    BY CardIsSum
  <2> QED
    BY <2>1, <2>2 DEF Sub
<1>4. [k \in K |-> Cardinality(D[k])] = [k \in K |-> Sub(f, b, D, k)]
  BY <1>3
<1>5. \A r \in R : f[r] \in Int
  OBVIOUS
<1>6. [r \in R |-> f[r]] = f
  OBVIOUS
<1> HIDE DEF f
<1>7. PartSums(f, b, K, D) = SumOver(f, R)
  BY <1>5, SumOfParts
<1> QED
  BY <1>2, <1>4, <1>6, <1>7 DEF PartSums, SumOver

-----------------------------------------------------------------------------
(* The rows of one block.                                                  *)

\* The rows `getblock` becomes: one for each input and output of each
\* transaction, and none besides.
IsInputRow(r, tx, h) == \E n \in DOMAIN tx.vin : r = InputEvent(tx, tx.vin[n], n, h)
IsOutputRow(r, tx, h) == \E n \in DOMAIN tx.vout : r = OutputEvent(tx, tx.vout[n], n, h)
IsTxRow(r, txs, h) == \E k \in DOMAIN txs : r = TxEvent(txs[k], h, k - 1)

\* The input rows of a parsed block are those of its transactions.
LEMMA ParsedInputs ==
  ASSUME NEW h, NEW txs, IsSequence(txs), NEW dataset,
         \A k \in DOMAIN txs : IsSequence(txs[k].vin)
  PROVE  \A r : r \in ToSet(AggregateBlock([height |-> h, tx |-> txs], dataset).inputs)
                  <=> \E k \in DOMAIN txs : IsInputRow(r, txs[k], h)
<1> DEFINE ss == [k \in 1..Len(txs) |-> InputEvents(txs[k], h)]
<1>1. AggregateBlock([height |-> h, tx |-> txs], dataset).inputs
        = FlattenSeq([k \in DOMAIN txs |-> InputEvents(txs[k], h)])
  BY DEF AggregateBlock
<1>2. DOMAIN txs = 1..Len(txs) /\ Len(txs) \in Nat
  BY SequenceFacts
<1>3. ASSUME NEW k \in 1..Len(txs)
      PROVE  /\ IsSequence(ss[k])
             /\ \A r : r \in ToSet(ss[k]) <=> IsInputRow(r, txs[k], h)
  <2>1. DOMAIN txs[k].vin = 1..Len(txs[k].vin) /\ Len(txs[k].vin) \in Nat
    BY <1>2, <1>3, SequenceFacts
  <2> DEFINE s == ss[k]
  <2>2. s = [n \in 1..Len(txs[k].vin) |-> InputEvent(txs[k], txs[k].vin[n], n, h)]
    BY <1>3, <2>1 DEF InputEvents
  <2> HIDE DEF s
  <2>3. s = [n \in 1..Len(txs[k].vin) |-> s[n]]
    BY <2>2
  <2>4. IsSequence(s)
    BY <2>1, <2>3, FunctionIsSequence
  <2>5. \A r : r \in ToSet(s) <=> IsInputRow(r, txs[k], h)
    BY <2>1, <2>2 DEF ToSet, IsInputRow
  <2> QED
    BY <2>4, <2>5 DEF s
<1>4. ss = [k \in 1..Len(txs) |-> ss[k]]
  OBVIOUS
<1>5. AggregateBlock([height |-> h, tx |-> txs], dataset).inputs = FlattenSeq(ss)
  BY <1>1, <1>2
<1> HIDE DEF ss
<1>6. ToSet(FlattenSeq(ss)) = UNION {ToSet(ss[k]) : k \in 1..Len(txs)}
  BY <1>2, <1>3, <1>4, FlattenRows
<1> QED
  BY <1>2, <1>3, <1>5, <1>6

\* So are the output rows.
LEMMA ParsedOutputs ==
  ASSUME NEW h, NEW txs, IsSequence(txs), NEW dataset,
         \A k \in DOMAIN txs : IsSequence(txs[k].vout)
  PROVE  \A r : r \in ToSet(AggregateBlock([height |-> h, tx |-> txs], dataset).outputs)
                  <=> \E k \in DOMAIN txs : IsOutputRow(r, txs[k], h)
<1> DEFINE ss == [k \in 1..Len(txs) |-> OutputEvents(txs[k], h)]
<1>1. AggregateBlock([height |-> h, tx |-> txs], dataset).outputs
        = FlattenSeq([k \in DOMAIN txs |-> OutputEvents(txs[k], h)])
  BY DEF AggregateBlock
<1>2. DOMAIN txs = 1..Len(txs) /\ Len(txs) \in Nat
  BY SequenceFacts
<1>3. ASSUME NEW k \in 1..Len(txs)
      PROVE  /\ IsSequence(ss[k])
             /\ \A r : r \in ToSet(ss[k]) <=> IsOutputRow(r, txs[k], h)
  <2>1. DOMAIN txs[k].vout = 1..Len(txs[k].vout) /\ Len(txs[k].vout) \in Nat
    BY <1>2, <1>3, SequenceFacts
  <2> DEFINE s == ss[k]
  <2>2. s = [n \in 1..Len(txs[k].vout) |-> OutputEvent(txs[k], txs[k].vout[n], n, h)]
    BY <1>3, <2>1 DEF OutputEvents
  <2> HIDE DEF s
  <2>3. s = [n \in 1..Len(txs[k].vout) |-> s[n]]
    BY <2>2
  <2>4. IsSequence(s)
    BY <2>1, <2>3, FunctionIsSequence
  <2>5. \A r : r \in ToSet(s) <=> IsOutputRow(r, txs[k], h)
    BY <2>1, <2>2 DEF ToSet, IsOutputRow
  <2> QED
    BY <2>4, <2>5 DEF s
<1>4. ss = [k \in 1..Len(txs) |-> ss[k]]
  OBVIOUS
<1>5. AggregateBlock([height |-> h, tx |-> txs], dataset).outputs = FlattenSeq(ss)
  BY <1>1, <1>2
<1> HIDE DEF ss
<1>6. ToSet(FlattenSeq(ss)) = UNION {ToSet(ss[k]) : k \in 1..Len(txs)}
  BY <1>2, <1>3, <1>4, FlattenRows
<1> QED
  BY <1>2, <1>3, <1>5, <1>6

\* Each of its transactions has a row.
LEMMA ParsedTransactions ==
  ASSUME NEW h, NEW txs, NEW dataset
  PROVE  \A t : t \in ToSet(AggregateBlock([height |-> h, tx |-> txs], dataset).transactions)
                  <=> IsTxRow(t, txs, h)
<1> DEFINE events == [k \in DOMAIN txs |-> TxEvent(txs[k], h, k - 1)]
<1>1. AggregateBlock([height |-> h, tx |-> txs], dataset).transactions = events
  BY DEF AggregateBlock
<1> QED
  BY <1>1 DEF ToSet, IsTxRow

\* What the row of a block says of its height and its pool.
LEMMA ParsedBlock ==
  ASSUME NEW h, NEW txs, txs # <<>>, NEW dataset
  PROVE  LET b == AggregateBlock([height |-> h, tx |-> txs], dataset).block
             pool == Match(dataset, CoinbaseScript(txs[1]), CoinbasePayouts(txs[1]))
         IN b.height = h /\ b.pool_id = pool.id /\ b.pool_match_method = pool.method
<1> DEFINE block == [height |-> h, tx |-> txs]
           events == [n \in DOMAIN block.tx |-> TxEvent(block.tx[n], block.height, n - 1)]
<1>1. AggregateBlock(block, dataset).block = BlockEvent(block, events, dataset)
  BY DEF AggregateBlock
<1>2. block.tx = txs /\ block.height = h
  OBVIOUS
<1> HIDE DEF events, block
<1>3. BlockEvent(block, events, dataset).height = h
  BY <1>2 DEF BlockEvent
<1>4. BlockEvent(block, events, dataset).pool_id
        = Match(dataset, CoinbaseScript(txs[1]), CoinbasePayouts(txs[1])).id
  BY <1>2 DEF BlockEvent
<1>5. BlockEvent(block, events, dataset).pool_match_method
        = Match(dataset, CoinbaseScript(txs[1]), CoinbasePayouts(txs[1])).method
  BY <1>2 DEF BlockEvent
<1> QED
  BY <1>1, <1>3, <1>4, <1>5 DEF block

\* The fields of the rows the properties read.
LEMMA InputFields ==
  ASSUME NEW tx, NEW v, NEW n, NEW h
  PROVE  LET r == InputEvent(tx, v, n, h) IN
         /\ r.block_height = h /\ r.txid = tx.txid /\ r.is_coinbase = IsCoinbase(tx)
         /\ r.input_index = n - 1
         /\ r.prevout_txid = v.prev.txid /\ r.prevout_vout = v.prev.vout
         /\ r.coinbase_hex = v.coinbase
         /\ v.prevout = None =>
              /\ r.value_sats = None /\ r.input_age_blocks = None
              /\ r.prevout_generated = None /\ r.prevout_type = None
              /\ r.prevout_address = None
         /\ v.prevout # None =>
              /\ r.value_sats = v.prevout.value
              /\ r.input_age_blocks = InputAge(h, v.prevout)
              /\ r.prevout_generated = v.prevout.generated
              /\ r.prevout_type = NormalizedScriptType(v.prevout.type)
              /\ r.prevout_address = v.prevout.address
BY DEF InputEvent

\* The fields of an output's row.
LEMMA OutputFields ==
  ASSUME NEW tx, NEW v, NEW n, NEW h
  PROVE  LET r == OutputEvent(tx, v, n, h) IN
         /\ r.block_height = h /\ r.txid = tx.txid /\ r.is_coinbase = IsCoinbase(tx)
         /\ r.output_index = n - 1 /\ r.value_sats = v.value
         /\ r.script_type = NormalizedScriptType(v.type) /\ r.address = v.address
BY DEF OutputEvent, OutputIndex

\* Outputs that pay out a total are a sequence of as many.
LEMMA PayingShape ==
  ASSUME NEW outs, IsSequence(outs), NEW total
  PROVE  IsSequence(Paying(outs, total)) /\ DOMAIN Paying(outs, total) = DOMAIN outs
<1> DEFINE t == Paying(outs, total)
<1>1. Len(outs) \in Nat /\ DOMAIN outs = 1..Len(outs)
  BY SequenceFacts
<1>2. t = [n \in DOMAIN outs |-> t[n]] /\ DOMAIN t = DOMAIN outs
  BY DEF Paying
<1> HIDE DEF t
<1>3. IsSequence(t)
  BY <1>1, <1>2, FunctionIsSequence
<1> QED
  BY <1>2, <1>3 DEF t

-----------------------------------------------------------------------------
(* The block bitcoind works on, and the heights of the rows there are.     *)

\* A transaction of the draft is a regular one and knows its place.
Regular(tx, k) ==
  /\ tx.txid = <<height, k>> /\ ~IsCoinbase(tx)
  /\ IsSequence(tx.vin) /\ IsSequence(tx.vout)

Drafted == IsSequence(draft) /\ \A k \in DOMAIN draft : Regular(draft[k], k)

\* Every row is about a block below the next one.
Below ==
  /\ height \in Nat
  /\ \A b \in blocks : b.height \in 0..height-1
  /\ \A r \in inputs \union outputs : r.block_height \in 0..height-1

\* The block that Connect hands to the parser: the coinbase, then the draft.
Body(coinbase) == <<coinbase>> \o draft

\* Its coinbase is the first, and those of the draft follow.
LEMMA BodyFacts ==
  ASSUME NEW coinbase, IsSequence(draft)
  PROVE  /\ IsSequence(Body(coinbase)) /\ Body(coinbase) # <<>>
         /\ DOMAIN Body(coinbase) = 1..Len(draft) + 1
         /\ Body(coinbase)[1] = coinbase
         /\ \A k \in DOMAIN draft : Body(coinbase)[k + 1] = draft[k]
         /\ \A k \in DOMAIN Body(coinbase) : k # 1 =>
              k - 1 \in DOMAIN draft /\ Body(coinbase)[k] = draft[k - 1]
<1> DEFINE X == ToSet(draft) \union {coinbase}
           body == Body(coinbase)
<1>1. draft \in Seq(X) /\ <<coinbase>> \in Seq(X)
  <2>1. ToSet(draft) \subseteq X /\ coinbase \in X
    OBVIOUS
  <2> HIDE DEF X
  <2>2. draft \in Seq(X)
    BY <2>1, SequenceFacts
  <2> QED
    BY <2>1, <2>2
<1> HIDE DEF X
<1>2. body \in Seq(X) /\ Len(body) = Len(draft) + 1 /\ Len(draft) \in Nat
  BY <1>1 DEF Body
<1>3. DOMAIN draft = 1..Len(draft) /\ DOMAIN body = 1..Len(draft) + 1
  BY <1>1, <1>2
<1>4. body[1] = coinbase
  BY <1>1 DEF Body
<1>5. \A k \in DOMAIN draft : body[k + 1] = draft[k]
  BY <1>1, <1>3 DEF Body
<1>6. \A k \in DOMAIN body : k # 1 => k - 1 \in DOMAIN draft /\ body[k] = draft[k - 1]
  <2> SUFFICES ASSUME NEW k \in DOMAIN body, k # 1
               PROVE  k - 1 \in DOMAIN draft /\ body[k] = draft[k - 1]
    OBVIOUS
  <2>1. k - 1 \in DOMAIN draft /\ (k - 1) + 1 = k
    BY <1>2, <1>3
  <2> HIDE DEF body
  <2> QED
    BY <1>5, <2>1
<1>7. IsSequence(body)
  <2>1. body = [k \in 1..Len(draft) + 1 |-> body[k]]
    BY <1>2, <1>3
  <2> HIDE DEF body
  <2> QED
    BY <1>2, <2>1, FunctionIsSequence
<1>8. body # <<>>
  BY <1>2
<1> QED
  BY <1>3, <1>4, <1>5, <1>6, <1>7, <1>8

\* A coinbase is one, with one input, and its outputs are a sequence.
LEMMA CoinbaseFacts ==
  ASSUME LedgerAssumption, NEW template \in Coinbases
  PROVE  LET coinbase == Coinbase(template) IN
         /\ coinbase.txid = <<height, 0>> /\ IsCoinbase(coinbase)
         /\ IsSequence(coinbase.vin) /\ IsSequence(coinbase.vout)
         /\ DOMAIN coinbase.vin = {1} /\ coinbase.vin[1].coinbase = template.script
         /\ coinbase.vin[1].prevout = None
<1> DEFINE coinbase == Coinbase(template)
           vin == [prev |-> [txid |-> None, vout |-> None], prevout |-> None,
                   coinbase |-> template.script, sequence |-> template.sequence,
                   witness |-> template.witness, scriptsig |-> 2]
<1>1. coinbase.txid = <<height, 0>> /\ coinbase.vin = <<vin>>
  BY DEF Coinbase
<1>2. vin.coinbase = template.script /\ vin.prevout = None
  OBVIOUS
<1>3. template.script # None /\ IsSequence(template.outs)
  BY DEF LedgerAssumption, IsMint, IsPayout
<1>4. \E total : coinbase.vout = Paying(template.outs, total)
  BY DEF Coinbase
<1> HIDE DEF coinbase, vin
<1>5. IsSequence(coinbase.vin) /\ DOMAIN coinbase.vin = {1} /\ coinbase.vin[1] = vin
  <2>1. <<vin>> \in Seq(ToSet(<<vin>>)) /\ DOMAIN <<vin>> = {1} /\ <<vin>>[1] = vin
    BY DEF ToSet
  <2> QED
    BY <1>1, <2>1 DEF IsSequence
<1>6. IsCoinbase(coinbase)
  <2>1. <<vin>> # <<>>
    OBVIOUS
  <2> QED
    BY <1>1, <1>2, <1>3, <1>5, <2>1 DEF IsCoinbase
<1>7. IsSequence(coinbase.vout)
  <2>1. PICK total : coinbase.vout = Paying(template.outs, total)
    BY <1>4
  <2> QED
    BY <1>3, <2>1, PayingShape
<1> QED
  BY <1>1, <1>2, <1>5, <1>6, <1>7 DEF coinbase

\* A transaction of the draft spends coins, and says of what it spends either
\* nothing or what the coin is.
LEMMA SpendFacts ==
  ASSUME LedgerAssumption, NEW spent \in Spendings, NEW template \in Templates,
         NEW feeKnown, NEW known, IsSequence(draft)
  PROVE  LET tx == Spend(spent, template, feeKnown, known) IN
         /\ Regular(tx, Len(draft) + 1)
         /\ DOMAIN tx.vin = DOMAIN spent
         /\ \A i \in DOMAIN spent :
              /\ spent[i] \in DOMAIN coins /\ tx.vin[i].prev = spent[i]
              /\ tx.vin[i].prevout = None \/ tx.vin[i].prevout = coins[spent[i]]
<1> DEFINE tx == Spend(spent, template, feeKnown, known)
           Vin(i) == [prev |-> spent[i],
                      prevout |-> IF i \in known THEN coins[spent[i]] ELSE None,
                      coinbase |-> None, sequence |-> template.sequence[i],
                      witness |-> template.witness[i], scriptsig |-> 0]
<1>1. PICK n \in 1..MaxInputs : spent \in [1..n -> DOMAIN coins]
  BY DEF Spendings
<1>2. n \in Nat /\ DOMAIN spent = 1..n /\ 1 \in 1..n /\ IsSequence(template.outs)
  BY <1>1 DEF LedgerAssumption, IsPayout
<1>3. tx.txid = <<height, Len(draft) + 1>>
  BY DEF Spend
<1>4. tx.vin = [i \in 1..n |-> Vin(i)]
  BY <1>2 DEF Spend
<1>5. \E total : tx.vout = Paying(template.outs, total)
  BY DEF Spend
<1> HIDE DEF tx
<1>6. \A i \in 1..n : /\ tx.vin[i].prev = spent[i] /\ tx.vin[i].coinbase = None
                      /\ tx.vin[i].prevout = None \/ tx.vin[i].prevout = coins[spent[i]]
  BY <1>4
<1>7. IsSequence(tx.vin) /\ DOMAIN tx.vin = 1..n
  <2>1. tx.vin = [i \in 1..n |-> tx.vin[i]]
    BY <1>4
  <2> QED
    BY <1>2, <2>1, FunctionIsSequence
<1>8. IsSequence(tx.vout)
  <2>1. PICK total : tx.vout = Paying(template.outs, total)
    BY <1>5
  <2> QED
    BY <1>2, <2>1, PayingShape
<1>9. ~IsCoinbase(tx)
  BY <1>2, <1>6 DEF IsCoinbase
<1>10. Regular(tx, Len(draft) + 1)
  BY <1>3, <1>7, <1>8, <1>9 DEF Regular
<1> QED
  BY <1>1, <1>2, <1>6, <1>7, <1>10 DEF tx

\* The draft of the next state, one transaction longer.
LEMMA Appended ==
  ASSUME IsSequence(draft), NEW tx
  PROVE  LET longer == Append(draft, tx) IN
         /\ IsSequence(longer) /\ DOMAIN longer = DOMAIN draft \union {Len(draft) + 1}
         /\ Len(draft) + 1 \notin DOMAIN draft /\ longer[Len(draft) + 1] = tx
         /\ \A k \in DOMAIN draft : longer[k] = draft[k]
<1> DEFINE X == ToSet(draft) \union {tx}
           longer == Append(draft, tx)
<1>1. draft \in Seq(X) /\ tx \in X
  <2>1. ToSet(draft) \subseteq X /\ tx \in X
    OBVIOUS
  <2> HIDE DEF X
  <2> QED
    BY <2>1, SequenceFacts
<1> HIDE DEF X
<1>2. Len(draft) \in Nat /\ DOMAIN draft = 1..Len(draft)
  BY <1>1
<1>3. longer \in Seq(X) /\ Len(longer) = Len(draft) + 1 /\ DOMAIN longer = 1..Len(draft) + 1
  BY <1>1
<1>4. longer[Len(draft) + 1] = tx /\ \A k \in DOMAIN draft : longer[k] = draft[k]
  BY <1>1, <1>2
<1> HIDE DEF longer
<1>5. longer = [k \in 1..Len(draft) + 1 |-> longer[k]]
  BY <1>3
<1>6. IsSequence(longer)
  BY <1>2, <1>5, FunctionIsSequence
<1>7. DOMAIN longer = DOMAIN draft \union {Len(draft) + 1} /\ Len(draft) + 1 \notin DOMAIN draft
  BY <1>2, <1>3
<1> QED
  BY <1>4, <1>6, <1>7 DEF longer

\* What a block adds: its row, and the rows of its coinbase and of its draft.
Connects(template, dataset) ==
  LET coinbase == Coinbase(template)
      parsed == AggregateBlock([height |-> height, tx |-> Body(coinbase)], dataset)
  IN /\ blocks' = blocks \union {parsed.block}
     /\ parsed.block.height = height
     /\ LET pool == Match(dataset, template.script, CoinbasePayouts(coinbase)) IN
        parsed.block.pool_id = pool.id /\ parsed.block.pool_match_method = pool.method
     /\ \A r : r \in inputs' <=> \/ r \in inputs \/ IsInputRow(r, coinbase, height)
                                 \/ \E k \in DOMAIN draft : IsInputRow(r, draft[k], height)
     /\ \A r : r \in outputs' <=> \/ r \in outputs \/ IsOutputRow(r, coinbase, height)
                                  \/ \E k \in DOMAIN draft : IsOutputRow(r, draft[k], height)
     /\ \A t : t \in transactions' <=> t \in transactions \/ IsTxRow(t, Body(coinbase), height)
     /\ coins' = IF height = 0 THEN coins ELSE Added(coinbase, coins)
     /\ pools' = [h \in 0..height |-> IF h = height THEN dataset ELSE pools[h]]

\* Connect is such a step.
LEMMA ConnectFacts ==
  ASSUME LedgerAssumption, Drafted, Connect
  PROVE  \E template \in Coinbases : \E dataset \in Datasets : Connects(template, dataset)
<1>1. PICK template \in Coinbases, dataset \in Datasets :
        LET coinbase == Coinbase(template)
            parsed == AggregateBlock([height |-> height, tx |-> Body(coinbase)], dataset)
        IN /\ blocks' = blocks \union {parsed.block}
           /\ transactions' = transactions \union ToSet(parsed.transactions)
           /\ inputs' = inputs \union ToSet(parsed.inputs)
           /\ outputs' = outputs \union ToSet(parsed.outputs)
           /\ coins' = IF height = 0 THEN coins ELSE Added(coinbase, coins)
           /\ pools' = [h \in 0..height |-> IF h = height THEN dataset ELSE pools[h]]
  BY DEF Connect, Body
<1> DEFINE coinbase == Coinbase(template)
           body == Body(coinbase)
           parsed == AggregateBlock([height |-> height, tx |-> body], dataset)
<1>2. /\ coinbase.txid = <<height, 0>> /\ IsCoinbase(coinbase)
      /\ IsSequence(coinbase.vin) /\ IsSequence(coinbase.vout)
      /\ coinbase.vin[1].coinbase = template.script
  BY CoinbaseFacts
<1> HIDE DEF coinbase
<1>3. IsSequence(draft) /\ \A k \in DOMAIN draft : Regular(draft[k], k)
  BY DEF Drafted
<1>4. /\ IsSequence(body) /\ body # <<>>
      /\ body[1] = coinbase /\ 1 \in DOMAIN body
      /\ \A k \in DOMAIN draft : k + 1 \in DOMAIN body /\ body[k + 1] = draft[k]
      /\ \A k \in DOMAIN body : k # 1 => k - 1 \in DOMAIN draft /\ body[k] = draft[k - 1]
  <2>1. DOMAIN draft = 1..Len(draft) /\ Len(draft) \in Nat /\ DOMAIN body = 1..Len(draft) + 1
    BY <1>3, BodyFacts, SequenceFacts
  <2>2. 1 \in DOMAIN body /\ \A k \in DOMAIN draft : k + 1 \in DOMAIN body
    BY <2>1
  <2> QED
    BY <1>3, <2>2, BodyFacts
<1> HIDE DEF body
<1>5. \A k \in DOMAIN body : IsSequence(body[k].vin) /\ IsSequence(body[k].vout)
  BY <1>2, <1>3, <1>4 DEF Regular
<1>6. \A r : r \in ToSet(parsed.inputs) <=> \E k \in DOMAIN body : IsInputRow(r, body[k], height)
  BY <1>4, <1>5, ParsedInputs
<1>7. \A r : r \in ToSet(parsed.outputs) <=> \E k \in DOMAIN body : IsOutputRow(r, body[k], height)
  BY <1>4, <1>5, ParsedOutputs
<1>8. LET pool == Match(dataset, CoinbaseScript(body[1]), CoinbasePayouts(body[1])) IN
      /\ parsed.block.height = height
      /\ parsed.block.pool_id = pool.id /\ parsed.block.pool_match_method = pool.method
  BY <1>4, ParsedBlock
<1>9. CoinbaseScript(body[1]) = template.script
  BY <1>2, <1>4 DEF CoinbaseScript
<1>10. /\ blocks' = blocks \union {parsed.block}
       /\ transactions' = transactions \union ToSet(parsed.transactions)
       /\ inputs' = inputs \union ToSet(parsed.inputs)
       /\ outputs' = outputs \union ToSet(parsed.outputs)
       /\ coins' = IF height = 0 THEN coins ELSE Added(coinbase, coins)
       /\ pools' = [h \in 0..height |-> IF h = height THEN dataset ELSE pools[h]]
  BY <1>1 DEF coinbase, body
<1>11. \A t : t \in ToSet(parsed.transactions) <=> IsTxRow(t, body, height)
  BY ParsedTransactions
<1> HIDE DEF parsed
<1>12. \A t : t \in transactions' <=> t \in transactions \/ IsTxRow(t, body, height)
  BY <1>10, <1>11
<1>13. \A r : r \in inputs' <=> \/ r \in inputs \/ IsInputRow(r, coinbase, height)
                                \/ \E k \in DOMAIN draft : IsInputRow(r, draft[k], height)
  BY <1>4, <1>6, <1>10
<1>14. \A r : r \in outputs' <=> \/ r \in outputs \/ IsOutputRow(r, coinbase, height)
                                 \/ \E k \in DOMAIN draft : IsOutputRow(r, draft[k], height)
  BY <1>4, <1>7, <1>10
<1>15. Connects(template, dataset)
  BY <1>4, <1>8, <1>9, <1>10, <1>12, <1>13, <1>14 DEF Connects, parsed, body, coinbase
<1> QED
  BY <1>15

-----------------------------------------------------------------------------
\* A transaction that is included knows its place.
LEMMA IncludeKeepsDraft ==
  ASSUME LedgerAssumption, Drafted, Below, Include
  PROVE  (Drafted /\ Below)'
<1>1. PICK spent \in Spendings, template \in Templates, feeKnown \in BOOLEAN :
      \E known \in SUBSET DOMAIN spent :
        draft' = Append(draft, Spend(spent, template, feeKnown, known))
  BY DEF Include
<1>2. PICK known \in SUBSET DOMAIN spent :
        draft' = Append(draft, Spend(spent, template, feeKnown, known))
  BY <1>1
<1> DEFINE tx == Spend(spent, template, feeKnown, known)
<1>3. UNCHANGED <<height, pools, blocks, inputs, outputs>>
  BY DEF Include, rows
<1>4. IsSequence(draft) /\ \A k \in DOMAIN draft : Regular(draft[k], k)
  BY DEF Drafted
<1>5. Regular(tx, Len(draft) + 1)
  BY <1>4, SpendFacts
<1> HIDE DEF tx
<1>6. draft' = Append(draft, tx)
  BY <1>2 DEF tx
<1>7. IsSequence(draft')
  BY <1>4, <1>6, Appended
<1>8. \A k \in DOMAIN draft' : Regular(draft'[k], k)
  BY <1>4, <1>5, <1>6, Appended
<1>9. \A k \in DOMAIN draft' : Regular(draft[k], k)'
  BY <1>3, <1>8 DEF Regular
<1>10. Below'
  BY <1>3 DEF Below
<1> QED
  BY <1>7, <1>9, <1>10 DEF Drafted, IsSequence

\* A connected block leaves an empty draft, and only rows of its own height.
LEMMA ConnectKeepsDraft ==
  ASSUME LedgerAssumption, Drafted, Below, Connect
  PROVE  (Drafted /\ Below)'
<1>1. height' = height + 1 /\ draft' = <<>> /\ height \in Nat
  BY DEF Connect, Below
<1>2. Drafted'
  BY <1>1 DEF Drafted, IsSequence, ToSet
<1>3. PICK template \in Coinbases, dataset \in Datasets : Connects(template, dataset)
  BY ConnectFacts
<1>4. \A r \in blocks' : r \in blocks \/ r.height = height
  BY <1>3 DEF Connects
<1>5. \A r, tx : IsInputRow(r, tx, height) => r.block_height = height
  BY InputFields DEF IsInputRow
<1>6. \A r, tx : IsOutputRow(r, tx, height) => r.block_height = height
  BY OutputFields DEF IsOutputRow
<1>7. \A r \in inputs' : r \in inputs \/ r.block_height = height
  BY <1>3, <1>5 DEF Connects
<1>8. \A r \in outputs' : r \in outputs \/ r.block_height = height
  BY <1>3, <1>6 DEF Connects
<1>9. \A h \in 0..height-1 : h \in 0..height'-1
  BY <1>1
<1>10. height \in 0..height'-1
  BY <1>1
<1>11. Below'
  BY <1>1, <1>4, <1>7, <1>8, <1>9, <1>10 DEF Below
<1> QED
  BY <1>2, <1>11

\* The rows are about blocks below the next one, and the draft holds regular
\* transactions only, each under its own number.
THEOREM DraftCorrect == Spec => [](Drafted /\ Below)
<1> USE LedgerAssumption
<1>1. Init => Drafted /\ Below
  <2>1. IsSequence(<<>>) /\ 0..-1 = {}
    BY DEF IsSequence, ToSet
  <2> QED
    BY <2>1 DEF Init, Drafted, Below
<1>2. Drafted /\ Below /\ [Next]_vars => (Drafted /\ Below)'
  <2> SUFFICES ASSUME Drafted, Below, [Next]_vars PROVE (Drafted /\ Below)'
    OBVIOUS
  <2>1. CASE Include
    BY <2>1, IncludeKeepsDraft
  <2>2. CASE Connect
    BY <2>2, ConnectKeepsDraft
  <2>3. CASE UNCHANGED vars
    <3>1. Drafted'
      BY <2>3 DEF vars, ledger, rows, Drafted, IsSequence, Regular
    <3>2. Below'
      BY <2>3 DEF vars, ledger, rows, Below
    <3> QED
      BY <3>1, <3>2
  <2> QED
    BY <2>1, <2>2, <2>3 DEF Next
<1> QED
  BY <1>1, <1>2, PTL DEF Spec

-----------------------------------------------------------------------------
(* Every input finds the output it spends.                                 *)

\* The output rows there are, and those the draft will have.
RowsOf(tx) == {OutputEvent(tx, tx.vout[n], n, height) : n \in DOMAIN tx.vout}
Published == outputs \union UNION {RowsOf(draft[k]) : k \in DOMAIN draft}

\* An output row is that of a coin, and it is what the coin is.
Names(o, coin) == o.txid = coin.txid /\ o.output_index = coin.vout
Tells(o, coin) ==
  /\ coin.value = o.value_sats /\ coin.height = o.block_height
  /\ coin.generated = o.is_coinbase /\ coin.address = o.address
  /\ NormalizedScriptType(coin.type) = o.script_type

\* Every coin has a row, in the rows or in the draft.
CoinsPublished ==
  \A c \in DOMAIN coins : \E o \in Published : Names(o, c) /\ Tells(o, coins[c])

\* So has what the draft spends, though the coin is gone ...
DraftJoins ==
  \A k \in DOMAIN draft : \A i \in DOMAIN draft[k].vin :
    LET v == draft[k].vin[i] IN
    \E o \in Published : Names(o, v.prev) /\ (v.prevout = None \/ Tells(o, v.prevout))

\* ... and what the input rows spent.
Joins(i, o) ==
  /\ o.txid = i.prevout_txid /\ o.output_index = i.prevout_vout
  /\ i.value_sats \in {o.value_sats, None}
  /\ i.prevout_type \in {o.script_type, None} /\ i.prevout_address \in {o.address, None}
  /\ i.prevout_generated \in {o.is_coinbase, None}
  /\ i.input_age_blocks \in {i.block_height - o.block_height, None}
RowsJoin == \A i \in inputs : ~i.is_coinbase => \E o \in outputs : Joins(i, o)

\* A transaction's number holds its block, so no output has two rows.
Numbered == \A o \in outputs : \E k \in Nat : o.txid = <<o.block_height, k>>
OneRow == \A o, p \in outputs : o.txid = p.txid /\ o.output_index = p.output_index => o = p

Joined == CoinsPublished /\ DraftJoins /\ RowsJoin /\ Numbered /\ OneRow

\* Those are the rows of the outputs, and those of the draft.
LEMMA PublishedRows ==
  \A o : o \in Published
           <=> o \in outputs \/ \E k \in DOMAIN draft : IsOutputRow(o, draft[k], height)
BY DEF Published, RowsOf, IsOutputRow

\* The coins a transaction adds are told by its rows.
LEMMA AddedFacts ==
  ASSUME NEW tx, IsSequence(tx.vout), NEW to, NEW c \in DOMAIN Added(tx, to)
  PROVE  \/ c \in DOMAIN to /\ Added(tx, to)[c] = to[c]
         \/ \E o : IsOutputRow(o, tx, height) /\ Names(o, c) /\ Tells(o, Added(tx, to)[c])
<1> DEFINE Coin(vout) == [value |-> vout.value, height |-> height, generated |-> IsCoinbase(tx),
                          type |-> vout.type, address |-> vout.address]
<1>1. c \in DOMAIN to \union DOMAIN CoinsOf(tx)
  BY DEF Added
<1>2. Added(tx, to)[c] = IF c \in DOMAIN to THEN to[c] ELSE CoinsOf(tx)[c]
  BY <1>1 DEF Added
<1>3. CASE c \in DOMAIN to
  BY <1>2, <1>3
<1>4. CASE c \notin DOMAIN to
  <2>1. c \in DOMAIN CoinsOf(tx) /\ Added(tx, to)[c] = CoinsOf(tx)[c]
    BY <1>1, <1>2, <1>4
  <2>2. PICK n \in DOMAIN tx.vout : c = [txid |-> tx.txid, vout |-> n - 1]
    BY <2>1 DEF CoinsOf
  <2>3. c.txid = tx.txid /\ c.vout = n - 1 /\ n \in Nat /\ c.vout + 1 = n
    BY <2>2, SequenceFacts
  <2>4. CoinsOf(tx)[c] = Coin(tx.vout[c.vout + 1])
    BY <2>1 DEF CoinsOf
  <2>5. CoinsOf(tx)[c] = Coin(tx.vout[n])
    BY <2>3, <2>4
  <2> DEFINE o == OutputEvent(tx, tx.vout[n], n, height)
  <2>6. /\ o.txid = tx.txid /\ o.output_index = n - 1 /\ o.block_height = height
        /\ o.is_coinbase = IsCoinbase(tx) /\ o.value_sats = tx.vout[n].value
        /\ o.script_type = NormalizedScriptType(tx.vout[n].type)
        /\ o.address = tx.vout[n].address
    BY OutputFields
  <2>7. IsOutputRow(o, tx, height)
    BY <2>2 DEF IsOutputRow
  <2> HIDE DEF o
  <2>8. Names(o, c)
    BY <2>3, <2>6 DEF Names
  <2>9. Tells(o, CoinsOf(tx)[c])
    BY <2>5, <2>6 DEF Tells
  <2> QED
    BY <2>1, <2>7, <2>8, <2>9
<1> QED
  BY <1>3, <1>4

\* An input row tells of the output what the node told.
LEMMA RowTells ==
  ASSUME NEW tx, NEW n \in DOMAIN tx.vin, height \in Nat, NEW o,
         o.block_height \in 0..height, Names(o, tx.vin[n].prev),
         tx.vin[n].prevout = None \/ Tells(o, tx.vin[n].prevout)
  PROVE  Joins(InputEvent(tx, tx.vin[n], n, height), o)
<1> DEFINE v == tx.vin[n]
           r == InputEvent(tx, v, n, height)
<1>1. /\ r.block_height = height
      /\ r.prevout_txid = v.prev.txid /\ r.prevout_vout = v.prev.vout
      /\ v.prevout = None =>
           /\ r.value_sats = None /\ r.input_age_blocks = None
           /\ r.prevout_generated = None /\ r.prevout_type = None
           /\ r.prevout_address = None
      /\ v.prevout # None =>
           /\ r.value_sats = v.prevout.value
           /\ r.input_age_blocks = InputAge(height, v.prevout)
           /\ r.prevout_generated = v.prevout.generated
           /\ r.prevout_type = NormalizedScriptType(v.prevout.type)
           /\ r.prevout_address = v.prevout.address
  BY InputFields
<1>2. ASSUME NEW coin, coin.height = o.block_height
      PROVE  InputAge(height, coin) = height - o.block_height
  <2> DEFINE d == height - o.block_height
  <2>1. d \in Nat /\ InputAge(height, coin) = Max({0, d})
    BY <1>2 DEF InputAge
  <2> HIDE DEF d
  <2>2. \A x \in {0, d} : (\A y \in {0, d} : x >= y) => x = d
    BY <2>1
  <2>3. \E x \in {0, d} : \A y \in {0, d} : x >= y
    BY <2>1
  <2>4. Max({0, d}) = d
    BY <2>2, <2>3 DEF Max
  <2> QED
    BY <2>1, <2>4 DEF d
<1> HIDE DEF r, v
<1>3. CASE v.prevout = None
  BY <1>1, <1>3 DEF Joins, Names, v, r
<1>4. CASE v.prevout # None
  <2>1. Tells(o, v.prevout)
    BY <1>4 DEF v
  <2>2. InputAge(height, v.prevout) = height - o.block_height
    BY <1>2, <2>1 DEF Tells
  <2> QED
    BY <1>1, <1>4, <2>1, <2>2 DEF Joins, Names, Tells, v, r
<1> QED
  BY <1>3, <1>4

\* No two rows of one block are about the same output.
LEMMA OneOutput ==
  ASSUME NEW tx, IsSequence(tx.vout), NEW o, NEW p,
         IsOutputRow(o, tx, height), IsOutputRow(p, tx, height),
         o.output_index = p.output_index
  PROVE  o = p
<1>1. PICK n \in DOMAIN tx.vout : o = OutputEvent(tx, tx.vout[n], n, height)
  BY DEF IsOutputRow
<1>2. PICK m \in DOMAIN tx.vout : p = OutputEvent(tx, tx.vout[m], m, height)
  BY DEF IsOutputRow
<1>3. o.output_index = n - 1 /\ p.output_index = m - 1
  BY <1>1, <1>2, OutputFields
<1>4. n \in Nat /\ m \in Nat
  BY SequenceFacts
<1>5. n - 1 = m - 1
  BY <1>3
<1>6. n = m
  BY <1>4, <1>5
<1> QED
  BY <1>1, <1>2, <1>6

\* The row an output has is about its transaction and its block.
LEMMA RowIsAbout ==
  ASSUME NEW tx, NEW o, IsOutputRow(o, tx, height)
  PROVE  o.txid = tx.txid /\ o.block_height = height /\ o.is_coinbase = IsCoinbase(tx)
BY OutputFields DEF IsOutputRow

\* A transaction that is included spends coins that have rows, and adds some.
LEMMA IncludeKeepsJoined ==
  ASSUME LedgerAssumption, Drafted, Below, Joined, Include
  PROVE  Joined'
<1>1. PICK spent \in Spendings, template \in Templates, feeKnown \in BOOLEAN :
      \E known \in SUBSET DOMAIN spent :
        LET tx == Spend(spent, template, feeKnown, known) IN
        /\ draft' = Append(draft, tx)
        /\ coins' = Added(tx, [o \in DOMAIN coins \ ToSet(spent) |-> coins[o]])
  BY DEF Include
<1>2. PICK known \in SUBSET DOMAIN spent :
        LET tx == Spend(spent, template, feeKnown, known) IN
        /\ draft' = Append(draft, tx)
        /\ coins' = Added(tx, [o \in DOMAIN coins \ ToSet(spent) |-> coins[o]])
  BY <1>1
<1> DEFINE tx == Spend(spent, template, feeKnown, known)
           left == [o \in DOMAIN coins \ ToSet(spent) |-> coins[o]]
<1>3. UNCHANGED <<height, pools, blocks, inputs, outputs>>
  BY DEF Include, rows
<1>4. IsSequence(draft) /\ \A k \in DOMAIN draft : Regular(draft[k], k)
  BY DEF Drafted
<1>5. /\ Regular(tx, Len(draft) + 1)
      /\ DOMAIN tx.vin = DOMAIN spent
      /\ \A i \in DOMAIN spent :
           /\ spent[i] \in DOMAIN coins /\ tx.vin[i].prev = spent[i]
           /\ tx.vin[i].prevout = None \/ tx.vin[i].prevout = coins[spent[i]]
  BY <1>4, SpendFacts
<1>6. DOMAIN left \subseteq DOMAIN coins /\ \A c \in DOMAIN left : left[c] = coins[c]
  OBVIOUS
<1>7. draft' = Append(draft, tx) /\ coins' = Added(tx, left)
  BY <1>2
<1> HIDE DEF tx, left
<1>8. /\ DOMAIN draft' = DOMAIN draft \union {Len(draft) + 1} /\ draft'[Len(draft) + 1] = tx
      /\ \A k \in DOMAIN draft : draft'[k] = draft[k]
  BY <1>4, <1>7, Appended
<1>9. /\ \A o \in Published : o \in Published'
      /\ \A o : IsOutputRow(o, tx, height) => o \in Published'
  BY <1>3, <1>8 DEF Published, RowsOf, IsOutputRow
<1>10. ASSUME NEW c \in DOMAIN coins'
       PROVE  \E o \in Published' : Names(o, c) /\ Tells(o, coins'[c])
  <2>1. CASE c \in DOMAIN left /\ coins'[c] = left[c]
    BY <1>6, <1>9, <2>1 DEF Joined, CoinsPublished
  <2>2. CASE \E o : IsOutputRow(o, tx, height) /\ Names(o, c) /\ Tells(o, coins'[c])
    BY <1>9, <2>2
  <2> QED
    BY <1>5, <1>7, <1>10, <2>1, <2>2, AddedFacts DEF Regular
<1>11. ASSUME NEW k \in DOMAIN draft', NEW i \in DOMAIN draft'[k].vin
       PROVE  LET v == draft'[k].vin[i] IN
              \E o \in Published' : Names(o, v.prev) /\ (v.prevout = None \/ Tells(o, v.prevout))
  <2>1. CASE k \in DOMAIN draft
    BY <1>8, <1>9, <1>11, <2>1 DEF Joined, DraftJoins
  <2>2. CASE k = Len(draft) + 1
    <3>1. i \in DOMAIN spent /\ draft'[k].vin[i] = tx.vin[i] /\ spent[i] \in DOMAIN coins
      BY <1>5, <1>8, <1>11, <2>2
    <3>2. PICK o \in Published : Names(o, spent[i]) /\ Tells(o, coins[spent[i]])
      BY <3>1 DEF Joined, CoinsPublished
    <3> QED
      BY <1>5, <1>9, <3>1, <3>2
  <2> QED
    BY <1>8, <1>11, <2>1, <2>2
<1>12. CoinsPublished' /\ DraftJoins'
  BY <1>10, <1>11 DEF CoinsPublished, DraftJoins, Names, Tells
<1>13. RowsJoin' /\ Numbered' /\ OneRow'
  BY <1>3 DEF Joined, RowsJoin, Numbered, OneRow, Joins
<1> QED
  BY <1>12, <1>13 DEF Joined

\* A connected block turns the rows of the draft into rows of outputs.csv.
LEMMA ConnectKeepsJoined ==
  ASSUME LedgerAssumption, Drafted, Below, Joined, Connect
  PROVE  Joined'
<1>1. PICK template \in Coinbases, dataset \in Datasets : Connects(template, dataset)
  BY ConnectFacts
<1> DEFINE coinbase == Coinbase(template)
<1>2. coinbase.txid = <<height, 0>> /\ IsCoinbase(coinbase) /\ IsSequence(coinbase.vout)
  BY CoinbaseFacts
<1>3. /\ coins' = IF height = 0 THEN coins ELSE Added(coinbase, coins)
      /\ \A r : r \in inputs' <=> \/ r \in inputs \/ IsInputRow(r, coinbase, height)
                                  \/ \E k \in DOMAIN draft : IsInputRow(r, draft[k], height)
      /\ \A r : r \in outputs' <=> \/ r \in outputs \/ IsOutputRow(r, coinbase, height)
                                   \/ \E k \in DOMAIN draft : IsOutputRow(r, draft[k], height)
  BY <1>1 DEF Connects
<1> HIDE DEF coinbase
<1>4. height \in Nat /\ height' = height + 1 /\ draft' = <<>> /\ DOMAIN draft' = {}
  BY DEF Connect, Below
<1>5. \A k \in DOMAIN draft : Regular(draft[k], k) /\ k \in Nat /\ k # 0
  BY SequenceFacts DEF Drafted
<1>6. Published' = outputs'
  BY <1>4 DEF Published
<1>7. /\ \A o \in Published : o \in outputs'
      /\ \A o : IsOutputRow(o, coinbase, height) => o \in outputs'
  BY <1>3, PublishedRows
<1>8. \A o \in Published : o.block_height \in 0..height
  <2>1. \A h \in 0..height-1 : h \in 0..height
    BY <1>4
  <2>2. height \in 0..height
    BY <1>4
  <2> QED
    BY <2>1, <2>2, PublishedRows, RowIsAbout DEF Below
<1>9. CoinsPublished'
  <2> SUFFICES ASSUME NEW c \in DOMAIN coins'
               PROVE  \E o \in outputs' : Names(o, c) /\ Tells(o, coins'[c])
    BY <1>6 DEF CoinsPublished, Names, Tells
  <2>1. CASE c \in DOMAIN coins /\ coins'[c] = coins[c]
    BY <1>7, <2>1 DEF Joined, CoinsPublished
  <2>2. CASE \E o : IsOutputRow(o, coinbase, height) /\ Names(o, c) /\ Tells(o, coins'[c])
    BY <1>7, <2>2
  <2>3. CASE height = 0
    BY <1>3, <2>1, <2>3
  <2>4. CASE height # 0
    BY <1>2, <1>3, <2>1, <2>2, <2>4, AddedFacts
  <2> QED
    BY <2>3, <2>4
<1>10. DraftJoins'
  BY <1>4 DEF DraftJoins
<1>11. RowsJoin'
  <2> SUFFICES ASSUME NEW r \in inputs', ~r.is_coinbase
               PROVE  \E o \in outputs' : Joins(r, o)
    BY DEF RowsJoin, Joins
  <2>1. CASE r \in inputs
    <3>1. PICK o \in outputs : Joins(r, o)
      BY <2>1 DEF Joined, RowsJoin
    <3> QED
      BY <1>3, <3>1
  <2>2. CASE IsInputRow(r, coinbase, height)
    BY <1>2, <2>2, InputFields DEF IsInputRow
  <2>3. ASSUME NEW k \in DOMAIN draft, IsInputRow(r, draft[k], height)
        PROVE  \E o \in outputs' : Joins(r, o)
    <3> DEFINE tx == draft[k]
    <3>1. PICK n \in DOMAIN tx.vin : r = InputEvent(tx, tx.vin[n], n, height)
      BY <2>3 DEF IsInputRow
    <3>2. PICK o \in Published : /\ Names(o, tx.vin[n].prev)
                                 /\ tx.vin[n].prevout = None \/ Tells(o, tx.vin[n].prevout)
      BY <3>1 DEF Joined, DraftJoins
    <3>3. Joins(r, o)
      BY <1>4, <1>8, <3>1, <3>2, RowTells
    <3> QED
      BY <1>7, <3>3
  <2> QED
    BY <1>3, <2>1, <2>2, <2>3
<1>12. ASSUME NEW o \in outputs'
       PROVE  \/ o \in outputs
              \/ \E k \in Nat : o.txid = <<height, k>> /\ o.block_height = height
  BY <1>2, <1>3, <1>5, <1>12, RowIsAbout DEF Regular
<1>13. Numbered'
  BY <1>12 DEF Joined, Numbered
<1>14. OneRow'
  <2> SUFFICES ASSUME NEW o \in outputs', NEW p \in outputs',
                      o.txid = p.txid, o.output_index = p.output_index
               PROVE  o = p
    BY DEF OneRow
  <2>1. \A q \in outputs : q.txid # <<height, 0>> /\ \A k \in Nat : q.txid # <<height, k>>
    <3>1. height \notin 0..height-1
      BY <1>4
    <3> QED
      BY <3>1 DEF Joined, Numbered, Below
  <2>2. CASE o \in outputs /\ p \in outputs
    BY <2>2 DEF Joined, OneRow
  <2>3. CASE o \in outputs \/ p \in outputs
    BY <1>12, <2>1, <2>2, <2>3
  <2>4. CASE o \notin outputs /\ p \notin outputs
    <3>1. CASE IsOutputRow(o, coinbase, height) /\ IsOutputRow(p, coinbase, height)
      BY <1>2, <3>1, OneOutput
    <3>2. ASSUME NEW k \in DOMAIN draft, NEW m \in DOMAIN draft,
                 IsOutputRow(o, draft[k], height), IsOutputRow(p, draft[m], height)
          PROVE  o = p
      <4>1. o.txid = <<height, k>> /\ p.txid = <<height, m>>
        BY <1>5, <3>2, RowIsAbout DEF Regular
      <4>2. <<height, k>> = <<height, m>>
        BY <4>1
      <4>3. k = m
        BY <4>2
      <4> QED
        BY <1>5, <3>2, <4>3, OneOutput DEF Regular
    <3>3. ASSUME NEW k \in DOMAIN draft, NEW q, NEW c,
                 IsOutputRow(q, draft[k], height), IsOutputRow(c, coinbase, height)
          PROVE  q.txid # c.txid
      BY <1>2, <1>5, <3>3, RowIsAbout DEF Regular
    <3> QED
      BY <1>3, <2>4, <3>1, <3>2, <3>3
  <2> QED
    BY <2>2, <2>3, <2>4
<1> QED
  BY <1>9, <1>10, <1>11, <1>13, <1>14 DEF Joined

\* Every coin has a row that tells of it, from before it is spent to after.
THEOREM JoinedCorrect == Spec => []Joined
<1> USE LedgerAssumption
<1>1. Init => Joined
  <2> SUFFICES ASSUME Init PROVE Joined
    OBVIOUS
  <2>1. DOMAIN coins = {} /\ DOMAIN draft = {} /\ inputs = {} /\ outputs = {}
    BY DEF Init, NoCoins
  <2> QED
    BY <2>1 DEF Joined, CoinsPublished, DraftJoins, RowsJoin, Numbered, OneRow
<1>2. Drafted /\ Below /\ Joined /\ [Next]_vars => Joined'
  <2> SUFFICES ASSUME Drafted, Below, Joined, [Next]_vars PROVE Joined'
    OBVIOUS
  <2>1. CASE Include
    BY <2>1, IncludeKeepsJoined
  <2>2. CASE Connect
    BY <2>2, ConnectKeepsJoined
  <2>3. CASE UNCHANGED vars
    <3>1. UNCHANGED <<height, coins, draft, inputs, outputs>>
      BY <2>3 DEF vars, ledger, rows
    <3>2. CoinsPublished' /\ DraftJoins'
      BY <3>1 DEF Joined, CoinsPublished, DraftJoins, Published, RowsOf, Names, Tells
    <3>3. RowsJoin' /\ Numbered' /\ OneRow'
      BY <3>1 DEF Joined, RowsJoin, Numbered, OneRow, Joins
    <3> QED
      BY <3>2, <3>3 DEF Joined
  <2> QED
    BY <2>1, <2>2, <2>3 DEF Next
<1> QED
  BY <1>1, <1>2, DraftCorrect, PTL DEF Spec

\* InputsJoinOutputs.
THEOREM InputsJoin == Spec => []InputsJoinOutputs
<1>1. Joined => InputsJoinOutputs
  <2> SUFFICES ASSUME Joined, NEW i \in inputs, ~i.is_coinbase
               PROVE  /\ \E o \in outputs : /\ o.txid = i.prevout_txid
                                            /\ o.output_index = i.prevout_vout
                      /\ Joins(i, Spent(i))
    BY DEF InputsJoinOutputs, Joins
  <2>1. PICK o \in outputs : Joins(i, o)
    BY DEF Joined, RowsJoin
  <2>2. o.txid = i.prevout_txid /\ o.output_index = i.prevout_vout
    BY <2>1 DEF Joins
  <2>3. Spent(i) = o
    BY <2>2 DEF Spent, Joined, OneRow
  <2> QED
    BY <2>1, <2>2, <2>3
<1> QED
  BY <1>1, JoinedCorrect, PTL

-----------------------------------------------------------------------------
(* The pool of a block.                                                    *)

\* The least and the greatest of some positions.
LEMMA LeastIs ==
  ASSUME NEW S \in SUBSET Nat, S # {}
  PROVE  Min(S) \in S
<1>1. \E x \in S : \A y \in S : x <= y
  BY LeastNatural
<1> QED
  BY <1>1 DEF Min

\* So has one that is bounded a greatest.
LEMMA GreatestIs ==
  ASSUME NEW n \in Nat, NEW S \in SUBSET (1..n), S # {}
  PROVE  Max(S) \in S
<1> DEFINE T == {n - x : x \in S}
<1>1. \A x \in S : x \in Nat /\ n - x \in Nat
  OBVIOUS
<1>2. T \in SUBSET Nat /\ T # {}
  BY <1>1
<1>3. PICK t \in T : \A u \in T : t <= u
  <2> HIDE DEF T
  <2> QED
    BY <1>2, LeastNatural
<1>4. PICK x \in S : t = n - x
  BY <1>3
<1>5. \A y \in S : n - x <= n - y
  BY <1>3, <1>4
<1>6. \A y \in S : x >= y
  BY <1>1, <1>5
<1> QED
  BY <1>6 DEF Max

\* What a block's pool is, when the byte strings of `script` occur in its
\* coinbase, and it pays the addresses `paid`.
Stamped(p, script) == \E tag \in p.tags \intersect Ascii : Utf8[tag] \in script
Misread(p, script) == \E tag \in p.tags \ Ascii : Latin1[tag] # None /\ Latin1[tag] \in script
PoolIs(dataset, script, paid, id, method) ==
  LET known == IF dataset = None THEN {} ELSE ToSet(dataset)
      marked == {p \in known : Stamped(p, script)} \union {p \in known : Misread(p, script)}
      payees == {p \in known : p.addresses \intersect paid # {}}
  IN /\ marked # {} => method = "tag" /\ id \in {p.id : p \in marked}
     /\ marked = {} /\ payees # {} => method = "address" /\ id \in {p.id : p \in payees}
     /\ marked = {} /\ payees = {} => method = "unknown" /\ id = None

\* What is decoded of a script: the ASCII texts stamped in it, in the bytes of
\* either encoding, and the others whose Latin-1 bytes occur in it.
LEMMA DecodedFinds ==
  ASSUME ParserAssumption, NEW p, p.tags \subseteq DOMAIN Utf8, NEW script
  PROVE  p.tags \intersect Decoded(script) # {} <=> Stamped(p, script) \/ Misread(p, script)
<1>1. DOMAIN Latin1 = DOMAIN Utf8 /\ \A text \in DOMAIN Utf8 : Utf8[text] # None
  BY DEF ParserAssumption
<1>2. ASSUME NEW tag \in p.tags, tag \in Decoded(script)
      PROVE  Stamped(p, script) \/ Misread(p, script)
  <2>1. Latin1[tag] # None /\ Latin1[tag] \in script
    BY <1>2 DEF Decoded
  <2>2. CASE tag \in Ascii
    BY <2>1, <2>2 DEF Ascii, Stamped
  <2>3. CASE tag \notin Ascii
    BY <2>1, <2>3 DEF Misread
  <2> QED
    BY <2>2, <2>3
<1>3. Stamped(p, script) => p.tags \intersect Decoded(script) # {}
  BY <1>1 DEF Stamped, Ascii, Decoded
<1>4. Misread(p, script) => p.tags \intersect Decoded(script) # {}
  BY <1>1 DEF Misread, Decoded
<1> QED
  BY <1>2, <1>3, <1>4

Paid(tx) == {tx.vout[n].address : n \in DOMAIN tx.vout}

\* The matcher finds it: by the tags first, whatever is paid.
LEMMA MatcherFinds ==
  ASSUME ParserAssumption, LedgerAssumption, NEW dataset \in Datasets, NEW script, NEW tx,
         IsCoinbase(tx), IsSequence(tx.vout)
  PROVE  LET m == Match(dataset, script, CoinbasePayouts(tx)) IN
         PoolIs(dataset, script, Paid(tx), m.id, m.method)
<1> DEFINE payouts == CoinbasePayouts(tx)
           m == Match(dataset, script, payouts)
<1> SUFFICES PoolIs(dataset, script, Paid(tx), m.id, m.method)
  OBVIOUS
<1>1. CASE dataset = None
  <2>1. m = UNKNOWN_MATCH
    BY <1>1 DEF Match
  <2>2. m.id = None /\ m.method = "unknown"
    BY <2>1 DEF UNKNOWN_MATCH
  <2> HIDE DEF m
  <2> QED
    BY <1>1, <2>2 DEF PoolIs
<1>2. CASE dataset # None
  <2> DEFINE marked == {p \in ToSet(dataset) : Stamped(p, script)}
                         \union {p \in ToSet(dataset) : Misread(p, script)}
             payees == {p \in ToSet(dataset) : p.addresses \intersect Paid(tx) # {}}
             paid == {n \in DOMAIN payouts : Listing(dataset, payouts[n]) # {}}
  <2>1. /\ IsSequence(dataset)
        /\ \A n \in DOMAIN dataset :
             dataset[n].tags \subseteq DOMAIN Utf8 /\ None \notin dataset[n].addresses
        /\ DOMAIN dataset = 1..Len(dataset) /\ Len(dataset) \in Nat
    BY <1>2, SequenceFacts DEF LedgerAssumption, IsDataset
  <2>2. DOMAIN tx.vout \in SUBSET Nat
    BY SequenceFacts
  <2>3. payouts = [n \in {k \in DOMAIN tx.vout : tx.vout[k].address # None} |-> tx.vout[n].address]
    BY DEF CoinbasePayouts
  <2>4. /\ DOMAIN payouts \in SUBSET Nat
        /\ \A n \in DOMAIN payouts : payouts[n] \in Paid(tx)
        /\ \A a \in Paid(tx) : a # None => \E n \in DOMAIN payouts : payouts[n] = a
    BY <2>2, <2>3 DEF Paid
  <2>8. \A n \in DOMAIN dataset :
          n \in Tagged(dataset, script) <=> dataset[n] \in marked
    BY <2>1, DecodedFinds DEF Tagged, ToSet
  <2>9. Tagged(dataset, script) = {} => marked = {}
    BY <2>8 DEF ToSet
  <2> HIDE DEF payouts, marked
  <2>5. CASE Tagged(dataset, script) # {}
    <3>1. Tagged(dataset, script) \in SUBSET Nat
      BY <2>1 DEF Tagged
    <3>2. Min(Tagged(dataset, script)) \in Tagged(dataset, script)
      BY <2>5, <3>1, LeastIs
    <3> DEFINE n == Min(Tagged(dataset, script))
    <3>3. m = [id |-> dataset[n].id, method |-> "tag"]
      BY <1>2, <2>5 DEF Match, ByTag
    <3>4. dataset[n] \in marked
      BY <2>8, <3>2 DEF Tagged
    <3>5. m.id \in {p.id : p \in marked} /\ m.method = "tag" /\ marked # {}
      BY <3>3, <3>4
    <3> HIDE DEF m
    <3> QED
      BY <1>2, <3>5 DEF PoolIs, marked
  <2>6. CASE Tagged(dataset, script) = {} /\ paid # {}
    <3>1. paid \in SUBSET Nat
      BY <2>4
    <3>2. Min(paid) \in paid
      BY <2>6, <3>1, LeastIs
    <3> DEFINE address == payouts[Min(paid)]
               k == Max(Listing(dataset, address))
    <3>3. address \in Paid(tx) /\ Listing(dataset, address) # {}
      BY <2>4, <3>2
    <3>4. Listing(dataset, address) \in SUBSET (1..Len(dataset))
      BY <2>1 DEF Listing
    <3>5. k \in Listing(dataset, address)
      <4> HIDE DEF address
      <4> QED
        BY <2>1, <3>3, <3>4, GreatestIs
    <3>6. m = [id |-> dataset[k].id, method |-> "address"]
      BY <1>2, <2>6 DEF Match, ByAddress
    <3> HIDE DEF m, k, address
    <3>7. dataset[k] \in payees
      BY <3>3, <3>5 DEF Listing, ToSet
    <3>8. marked = {}
      BY <2>6, <2>9
    <3>9. m.id \in {p.id : p \in payees} /\ m.method = "address"
      BY <3>6, <3>7
    <3> QED
      BY <1>2, <3>7, <3>8, <3>9 DEF PoolIs, marked
  <2>7. CASE Tagged(dataset, script) = {} /\ paid = {}
    <3>1. m = UNKNOWN_MATCH
      BY <1>2, <2>7 DEF Match, ByAddress
    <3>2. m.id = None /\ m.method = "unknown"
      BY <3>1 DEF UNKNOWN_MATCH
    <3>3. marked = {}
      BY <2>7, <2>9
    <3>4. payees = {}
      <4> SUFFICES ASSUME NEW k \in DOMAIN dataset, NEW a \in Paid(tx), a \in dataset[k].addresses
                   PROVE  FALSE
        BY DEF ToSet
      <4>1. PICK n \in DOMAIN payouts : payouts[n] = a
        BY <2>1, <2>4
      <4>2. k \in Listing(dataset, payouts[n])
        BY <4>1 DEF Listing
      <4> QED
        BY <2>7, <4>2
    <3> HIDE DEF m
    <3> QED
      BY <1>2, <3>2, <3>3, <3>4 DEF PoolIs, marked
  <2> QED
    BY <2>5, <2>6, <2>7
<1> QED
  BY <1>1, <1>2

\* The rows of the coinbase say what it carried and what it paid.
ScriptAt(ins, h) == UNION {i.coinbase_hex : i \in {r \in At(ins, h) : r.is_coinbase}}
PaidAt(outs, h) == {o.address : o \in {r \in At(outs, h) : r.is_coinbase}}

PoolRows ==
  \A b \in blocks :
    PoolIs(pools[b.height], ScriptAt(inputs, b.height), PaidAt(outputs, b.height),
           b.pool_id, b.pool_match_method)

\* It is what a run checks.
LEMMA PoolFromRows == PoolFromCoinbase <=> PoolRows
BY DEF PoolFromCoinbase, PoolRows, PoolIs, ScriptAt, PaidAt, Stamped, Misread

\* The coinbase rows at a height are those of the block's own coinbase.
LEMMA CoinbaseRows ==
  ASSUME LedgerAssumption, Drafted, Below,
         NEW template \in Coinbases, NEW dataset, Connects(template, dataset)
  PROVE  /\ ScriptAt(inputs', height) = template.script
         /\ PaidAt(outputs', height) = Paid(Coinbase(template))
<1> DEFINE coinbase == Coinbase(template)
           ins == {r \in At(inputs', height) : r.is_coinbase}
           outs == {r \in At(outputs', height) : r.is_coinbase}
<1>1. /\ IsCoinbase(coinbase) /\ IsSequence(coinbase.vout)
      /\ DOMAIN coinbase.vin = {1} /\ coinbase.vin[1].coinbase = template.script
  BY CoinbaseFacts
<1>2. /\ \A r : r \in inputs' <=> \/ r \in inputs \/ IsInputRow(r, coinbase, height)
                                  \/ \E k \in DOMAIN draft : IsInputRow(r, draft[k], height)
      /\ \A r : r \in outputs' <=> \/ r \in outputs \/ IsOutputRow(r, coinbase, height)
                                   \/ \E k \in DOMAIN draft : IsOutputRow(r, draft[k], height)
  BY DEF Connects
<1> HIDE DEF coinbase
<1>3. \A k \in DOMAIN draft : ~IsCoinbase(draft[k])
  BY DEF Drafted, Regular
<1>4. \A r \in inputs \union outputs : r.block_height # height
  <2>1. height \notin 0..height-1
    BY DEF Below
  <2> QED
    BY <2>1 DEF Below
<1>5. \A r, tx : IsInputRow(r, tx, height) =>
        r.block_height = height /\ r.is_coinbase = IsCoinbase(tx)
  BY InputFields DEF IsInputRow
<1>6. \A r : r \in ins <=> IsInputRow(r, coinbase, height)
  BY <1>1, <1>2, <1>3, <1>4, <1>5 DEF At
<1>7. \A r : r \in outs <=> IsOutputRow(r, coinbase, height)
  BY <1>1, <1>2, <1>3, <1>4, RowIsAbout DEF At
<1> DEFINE row == InputEvent(coinbase, coinbase.vin[1], 1, height)
<1>8. ins = {row}
  <2> HIDE DEF ins
  <2> QED
    BY <1>1, <1>6 DEF IsInputRow
<1>9. row.coinbase_hex = template.script
  BY <1>1, InputFields
<1>10. UNION {i.coinbase_hex : i \in ins} = template.script
  <2> HIDE DEF ins, row
  <2> QED
    BY <1>8, <1>9
<1>11. {o.address : o \in outs} = Paid(coinbase)
  <2> HIDE DEF outs
  <2>1. \A o \in outs : \E n \in DOMAIN coinbase.vout :
          /\ o = OutputEvent(coinbase, coinbase.vout[n], n, height)
          /\ o.address = coinbase.vout[n].address
    BY <1>7, OutputFields DEF IsOutputRow
  <2>2. \A n \in DOMAIN coinbase.vout : \E o \in outs : o.address = coinbase.vout[n].address
    BY <1>7, OutputFields DEF IsOutputRow
  <2> QED
    BY <2>1, <2>2 DEF Paid
<1> QED
  BY <1>10, <1>11 DEF coinbase, ScriptAt, PaidAt

\* A connected block has the pool its coinbase points to, the others keep theirs.
LEMMA ConnectKeepsPool ==
  ASSUME ParserAssumption, LedgerAssumption, Drafted, Below, PoolRows, Connect
  PROVE  PoolRows'
<1>1. PICK template \in Coinbases, dataset \in Datasets : Connects(template, dataset)
  BY ConnectFacts
<1> DEFINE coinbase == Coinbase(template)
           parsed == AggregateBlock([height |-> height, tx |-> Body(coinbase)], dataset)
           b == parsed.block
           pool == Match(dataset, template.script, CoinbasePayouts(coinbase))
<1>2. IsCoinbase(coinbase) /\ IsSequence(coinbase.vout)
  BY CoinbaseFacts
<1>3. /\ blocks' = blocks \union {b} /\ b.height = height
      /\ b.pool_id = pool.id /\ b.pool_match_method = pool.method
  BY <1>1 DEF Connects
<1>4. /\ height \in Nat /\ pools'[height] = dataset
      /\ \A h \in 0..height-1 : pools'[h] = pools[h]
  <2>1. height \in Nat
    BY DEF Below
  <2>2. pools' = [h \in 0..height |-> IF h = height THEN dataset ELSE pools[h]]
    BY <1>1 DEF Connects
  <2> QED
    BY <2>1, <2>2
<1> HIDE DEF parsed, coinbase
<1>5. PoolIs(dataset, template.script, Paid(coinbase), pool.id, pool.method)
  BY <1>2, <1>4, MatcherFinds
<1>6. ScriptAt(inputs', height) = template.script /\ PaidAt(outputs', height) = Paid(coinbase)
  BY <1>1, CoinbaseRows DEF coinbase
<1>7. /\ \A r \in inputs' : r \in inputs \/ r.block_height = height
      /\ \A r \in outputs' : r \in outputs \/ r.block_height = height
      /\ inputs \subseteq inputs' /\ outputs \subseteq outputs'
  <2>1. \A r, tx : IsInputRow(r, tx, height) => r.block_height = height
    BY InputFields DEF IsInputRow
  <2> QED
    BY <1>1, <2>1, RowIsAbout DEF Connects
<1>8. ASSUME NEW h, h # height
      PROVE  ScriptAt(inputs', h) = ScriptAt(inputs, h) /\ PaidAt(outputs', h) = PaidAt(outputs, h)
  <2>1. At(inputs', h) = At(inputs, h) /\ At(outputs', h) = At(outputs, h)
    BY <1>7, <1>8 DEF At
  <2> QED
    BY <2>1 DEF ScriptAt, PaidAt
<1>9. ASSUME NEW c \in blocks'
      PROVE  PoolIs(pools'[c.height], ScriptAt(inputs', c.height), PaidAt(outputs', c.height),
                    c.pool_id, c.pool_match_method)
  <2>1. CASE c \in blocks
    <3>1. c.height \in 0..height-1 /\ c.height # height
      <4>1. height \notin 0..height-1
        BY <1>4
      <4> QED
        BY <2>1, <4>1 DEF Below
    <3>2. PoolIs(pools[c.height], ScriptAt(inputs, c.height), PaidAt(outputs, c.height),
                 c.pool_id, c.pool_match_method)
      BY <2>1 DEF PoolRows
    <3> QED
      BY <1>4, <1>8, <3>1, <3>2
  <2>2. CASE c = b
    <3> HIDE DEF b, pool
    <3> QED
      BY <1>3, <1>4, <1>5, <1>6, <2>2
  <2> QED
    BY <1>3, <1>9, <2>1, <2>2
<1> QED
  BY <1>9 DEF PoolRows

\* PoolFromCoinbase.
THEOREM PoolCorrect == Spec => []PoolFromCoinbase
<1> USE ParserAssumption, LedgerAssumption
<1>1. Init => PoolRows
  BY DEF Init, PoolRows
<1>2. Drafted /\ Below /\ PoolRows /\ [Next]_vars => PoolRows'
  <2> SUFFICES ASSUME Drafted, Below, PoolRows, [Next]_vars PROVE PoolRows'
    OBVIOUS
  <2>1. CASE UNCHANGED <<pools, blocks, inputs, outputs>>
    BY <2>1 DEF PoolRows, ScriptAt, PaidAt, At
  <2>2. CASE Include
    BY <2>1, <2>2 DEF Include, rows
  <2>3. CASE Connect
    BY <2>3, ConnectKeepsPool
  <2>4. CASE UNCHANGED vars
    BY <2>1, <2>4 DEF vars, rows
  <2> QED
    BY <2>2, <2>3, <2>4 DEF Next
<1> QED
  BY <1>1, <1>2, PoolFromRows, DraftCorrect, PTL DEF Spec

\* Outputs that pay out a total do so.
ValueOf(outs) == [n \in DOMAIN outs |-> outs[n].value]

\* Outputs that pay out a total are worth it.
LEMMA PayingFacts ==
  ASSUME NEW outs, IsPayout(outs), NEW total \in Int
  PROVE  LET t == Paying(outs, total) IN
         /\ IsSequence(t) /\ DOMAIN t = DOMAIN outs
         /\ \A n \in DOMAIN t : t[n].value \in Int
         /\ SumFunction(ValueOf(t)) = total
<1> DEFINE others == [n \in DOMAIN outs \ {1} |-> outs[n]]
           left == Total(LAMBDA v : v.value, others)
           t == [outs EXCEPT ![1].value = total - left]
<1>1. /\ IsSequence(outs) /\ outs # <<>>
      /\ \A n \in DOMAIN outs : /\ outs[n].value \in Nat
                                /\ DOMAIN outs[n] = {"value", "type", "bytes", "address"}
  BY DEF IsPayout
<1>2. /\ Len(outs) \in Nat /\ DOMAIN outs = 1..Len(outs) /\ outs = [n \in 1..Len(outs) |-> outs[n]]
      /\ outs \in Seq(ToSet(outs))
  BY <1>1, SequenceFacts DEF IsSequence
<1>3. 1 \in DOMAIN outs /\ IsFiniteSet(DOMAIN outs)
  BY <1>1, <1>2, FS_Interval
<1>4. left = SumFunction([n \in DOMAIN outs \ {1} |-> outs[n].value])
  <2>1. [n \in DOMAIN others |-> others[n].value] = [n \in DOMAIN outs \ {1} |-> outs[n].value]
    OBVIOUS
  <2> QED
    BY <2>1 DEF Total
<1>5. Paying(outs, total) = t
  BY DEF Paying
<1> HIDE DEF left
<1>6. /\ t = [n \in 1..Len(outs) |-> t[n]] /\ DOMAIN t = DOMAIN outs
      /\ \A n \in DOMAIN outs : n # 1 => t[n] = outs[n]
      /\ t[1].value = total - left
  BY <1>1, <1>2, <1>3
<1> HIDE DEF t
<1>7. IsSequence(t)
  BY <1>2, <1>6, FunctionIsSequence
<1>8. left \in Int
  <2> DEFINE e == [n \in DOMAIN outs \ {1} |-> outs[n].value]
  <2>1. IsFiniteSet(DOMAIN e) /\ \A n \in DOMAIN e : e[n] \in Int
    BY <1>1, <1>3, FS_RemoveElement
  <2> HIDE DEF e
  <2>2. SumFunction(e) \in Int
    BY <2>1, SumIsInt
  <2> QED
    BY <1>4, <2>2 DEF e
<1>9. ASSUME NEW n \in DOMAIN t PROVE t[n].value \in Int
  <2>1. CASE n = 1
    BY <1>6, <1>8, <2>1
  <2>2. CASE n # 1
    <3>1. outs[n].value \in Nat /\ t[n] = outs[n]
      BY <1>1, <1>6, <2>2
    <3> QED
      BY <3>1
  <2> QED
    BY <2>1, <2>2
<1>10. SumFunction(ValueOf(t)) = total
  <2> DEFINE e == [n \in DOMAIN t |-> t[n].value]
             S == DOMAIN t
  <2>1. IsFiniteSet(S) /\ 1 \in S /\ \A n \in S : e[n] \in Int
    BY <1>3, <1>6, <1>9
  <2>2. e = [n \in S |-> e[n]] /\ e[1] = total - left
    BY <1>3, <1>6
  <2>3. [n \in S \ {1} |-> e[n]] = [n \in DOMAIN outs \ {1} |-> outs[n].value]
    BY <1>6
  <2> HIDE DEF e, S
  <2>4. SumFunction([n \in S |-> e[n]]) = e[1] + SumFunction([n \in S \ {1} |-> e[n]])
    BY <2>1, SumSplit
  <2>5. SumFunction(e) = (total - left) + left
    BY <1>4, <2>2, <2>3, <2>4
  <2>6. SumFunction(e) = total
    BY <1>8, <2>5
  <2> QED
    BY <2>6 DEF e, ValueOf
<1> QED
  BY <1>5, <1>6, <1>7, <1>9, <1>10

-----------------------------------------------------------------------------
(* What a block pays its miner.                                            *)

\* The subsidy is halved as often as the height says, and stays a number.
LEMMA SubsidyIsNat ==
  ASSUME ParserAssumption, NEW h \in Nat
  PROVE  BlockSubsidy(h) \in Nat
<1> DEFINE IsHalved(f, n) == f = [i \in 0..n |-> IF i = 0 THEN InitialSubsidy ELSE f[i - 1] \div 2]
           S == {n \in Nat : \E f : IsHalved(f, n) /\ \A i \in 0..n : f[i] \in Nat}
<1>0. InitialSubsidy \in Nat /\ HalvingInterval \in Nat \ {0}
  BY DEF ParserAssumption
<1>1. 0 \in S
  <2> DEFINE f == [i \in 0..0 |-> InitialSubsidy]
  <2>1. IsHalved(f, 0) /\ \A i \in 0..0 : f[i] \in Nat
    BY <1>0
  <2> QED
    BY <2>1
<1>2. ASSUME NEW n \in S PROVE n + 1 \in S
  <2>0. n \in Nat /\ n + 1 \in Nat
    BY <1>2
  <2>1. PICK f : IsHalved(f, n) /\ \A i \in 0..n : f[i] \in Nat
    BY <1>2
  <2> DEFINE g == [i \in 0..n+1 |-> IF i = n + 1 THEN f[n] \div 2 ELSE f[i]]
  <2>2. /\ \A i \in 0..n : g[i] = f[i]
        /\ g[n + 1] = f[n] \div 2
    BY <2>0
  <2>3. \A i \in 0..n : f[i] = IF i = 0 THEN InitialSubsidy ELSE f[i - 1] \div 2
    BY <2>1
  <2>4. f[n] \in Nat /\ f[n] \div 2 \in Nat
    BY <2>0, <2>1
  <2>5. \A i \in 0..n+1 : g[i] \in Nat
    BY <2>0, <2>1, <2>2, <2>4
  <2>6. DOMAIN g = 0..n+1 /\ g = [i \in 0..n+1 |-> g[i]]
    OBVIOUS
  <2> HIDE DEF g
  <2>7. ASSUME NEW i \in 0..n+1
        PROVE  g[i] = IF i = 0 THEN InitialSubsidy ELSE g[i - 1] \div 2
    <3>1. CASE i = n + 1
      <4>1. i # 0 /\ i - 1 = n /\ n \in 0..n
        BY <2>0, <3>1
      <4> QED
        BY <2>2, <3>1, <4>1
    <3>2. CASE i # n + 1
      <4>1. i \in 0..n /\ (i # 0 => i - 1 \in 0..n)
        BY <2>0, <3>2
      <4> QED
        BY <2>2, <2>3, <4>1
    <3> QED
      BY <3>1, <3>2
  <2>8. IsHalved(g, n + 1)
    BY <2>6, <2>7
  <2> QED
    BY <2>0, <2>5, <2>8
<1>3. S = Nat
  <2> HIDE DEF S
  <2>1. S \in SUBSET Nat
    BY DEF S
  <2> QED
    BY <1>1, <1>2, <2>1, SetInduction
<1> HIDE DEF S
<1>4. 63 \in S
  BY <1>3
<1>5. PICK f : IsHalved(f, 63) /\ \A i \in 0..63 : f[i] \in Nat
  BY <1>4 DEF S
<1>6. Halved = CHOOSE e : IsHalved(e, 63)
  BY DEF Halved
<1>7. IsHalved(Halved, 63)
  BY <1>5, <1>6
<1> DEFINE A == {n \in Nat : n <= 63 => Halved[n] \in Nat}
<1>8. \A i \in 0..63 : Halved[i] = IF i = 0 THEN InitialSubsidy ELSE Halved[i - 1] \div 2
  BY <1>7
<1>9. 0 \in A
  BY <1>0, <1>8
<1>10. ASSUME NEW n \in A PROVE n + 1 \in A
  <2>1. n \in Nat /\ n + 1 \in Nat /\ (n + 1) - 1 = n /\ n + 1 # 0
    BY <1>10
  <2>2. CASE n + 1 <= 63
    <3>1. Halved[n] \in Nat /\ n + 1 \in 0..63
      BY <1>10, <2>1, <2>2
    <3>2. Halved[n + 1] = Halved[n] \div 2
      BY <1>8, <2>1, <3>1
    <3> QED
      BY <2>1, <3>1, <3>2
  <2> QED
    BY <2>1, <2>2
<1>11. A = Nat
  <2> HIDE DEF A
  <2>1. A \in SUBSET Nat
    BY DEF A
  <2> QED
    BY <1>9, <1>10, <2>1, SetInduction
<1>12. \A n \in Nat : n <= 63 => Halved[n] \in Nat
  BY <1>11
<1> DEFINE halvings == h \div HalvingInterval
<1>13. halvings \in Nat
  BY <1>0
<1> HIDE DEF halvings
<1>14. BlockSubsidy(h) = IF halvings >= 64 THEN 0 ELSE Halved[halvings]
  BY DEF BlockSubsidy, halvings
<1>15. halvings >= 64 \/ halvings <= 63
  BY <1>13
<1> QED
  BY <1>12, <1>13, <1>14, <1>15

\* Two finite sets, one in the other, of the same size are the same.
LEMMA SameSize ==
  ASSUME NEW S, IsFiniteSet(S), NEW T \in SUBSET S, Cardinality(T) = Cardinality(S)
  PROVE  T = S
BY FS_Subset

\* The fields of a transaction's row.
LEMMA TxFields ==
  ASSUME NEW tx, NEW h, NEW x
  PROVE  LET t == TxEvent(tx, h, x) IN
         /\ t.block_height = h /\ t.txid = tx.txid /\ t.is_coinbase = IsCoinbase(tx)
         /\ t.fee_sats = Fee(tx, InputEvents(tx, h), OutputEvents(tx, h)).sats
         /\ t.output_value_sats = Total(LAMBDA r : r.value_sats, OutputEvents(tx, h))
         /\ t.vin_count = Len(InputEvents(tx, h)) /\ t.vout_count = Len(OutputEvents(tx, h))
<1> DEFINE t == TxEvent(tx, h, x)
<1>1. t.block_height = h /\ t.txid = tx.txid /\ t.is_coinbase = IsCoinbase(tx)
  BY DEF TxEvent
<1>2. t.fee_sats = Fee(tx, InputEvents(tx, h), OutputEvents(tx, h)).sats
  BY DEF TxEvent
<1>3. t.output_value_sats = Total(LAMBDA r : r.value_sats, OutputEvents(tx, h))
  BY DEF TxEvent
<1>4. t.vin_count = Len(InputEvents(tx, h)) /\ t.vout_count = Len(OutputEvents(tx, h))
  BY DEF TxEvent
<1> QED
  BY <1>1, <1>2, <1>3, <1>4

-----------------------------------------------------------------------------
(* What a transaction pays.                                                *)

\* The inputs of a transaction are worth `worth`: the rows of what they spend say
\* so, and what the node tells of them.
Worths(rowset, tx, worth) ==
  /\ worth \in [DOMAIN tx.vin -> Int]
  /\ \A i \in DOMAIN tx.vin :
       /\ \E o \in rowset : Names(o, tx.vin[i].prev) /\ o.value_sats = worth[i]
       /\ tx.vin[i].prevout = None \/ tx.vin[i].prevout.value = worth[i]

\* Its inputs are worth its outputs and its fee, which the node may tell.
Balanced(rowset, tx, fee) ==
  /\ fee \in Int /\ tx.fee \in {fee, None}
  /\ \A n \in DOMAIN tx.vout : tx.vout[n].value \in Int
  /\ \E worth : /\ Worths(rowset, tx, worth)
                /\ SumFunction(worth) = fee + SumFunction(ValueOf(tx.vout))

\* The coins have values, and the fees are those of the draft.
Valued ==
  /\ \A c \in DOMAIN coins : coins[c].value \in Int
  /\ \E paid \in [DOMAIN draft -> Int] :
       /\ fees = SumFunction(paid)
       /\ \A k \in DOMAIN draft : Balanced(Published, draft[k], paid[k])

\* A sequence has finitely many places, as many as it is long.
LEMMA SequenceDomain ==
  ASSUME NEW s, IsSequence(s)
  PROVE  IsFiniteSet(DOMAIN s) /\ Cardinality(DOMAIN s) = Len(s)
<1>1. Len(s) \in Nat /\ DOMAIN s = 1..Len(s)
  BY SequenceFacts
<1>2. ASSUME NEW n \in Nat PROVE IsFiniteSet(1..n) /\ Cardinality(1..n) = n
  <2>1. /\ IsFiniteSet(1..n)
        /\ Cardinality(1..n) = IF 1 > n THEN 0 ELSE n - 1 + 1
    BY FS_Interval
  <2> QED
    BY <2>1
<1> QED
  BY <1>1, <1>2

\* What the outputs of a transaction are worth is what their rows say.
LEMMA OutputTotal ==
  ASSUME NEW tx, NEW h
  PROVE  Total(LAMBDA r : r.value_sats, OutputEvents(tx, h)) = SumFunction(ValueOf(tx.vout))
<1> DEFINE outs == OutputEvents(tx, h)
<1>1. DOMAIN outs = DOMAIN tx.vout
  BY DEF OutputEvents
<1>2. \A n \in DOMAIN tx.vout : outs[n].value_sats = tx.vout[n].value
  <2>1. \A n \in DOMAIN tx.vout : outs[n] = OutputEvent(tx, tx.vout[n], n, h)
    BY DEF OutputEvents
  <2> QED
    BY <2>1, OutputFields
<1> HIDE DEF outs
<1>3. [n \in DOMAIN outs |-> outs[n].value_sats] = ValueOf(tx.vout)
  BY <1>1, <1>2 DEF ValueOf
<1> QED
  BY <1>3 DEF Total, outs

\* The outputs of a transaction are worth something.
LEMMA ValuesSum ==
  ASSUME NEW outs, IsSequence(outs), \A n \in DOMAIN outs : outs[n].value \in Int
  PROVE  SumFunction(ValueOf(outs)) \in Int
<1> DEFINE e == ValueOf(outs)
<1>1. IsFiniteSet(DOMAIN outs)
  BY SequenceDomain
<1>2. DOMAIN e = DOMAIN outs /\ \A n \in DOMAIN e : e[n] \in Int
  BY DEF ValueOf
<1> HIDE DEF e
<1>3. SumFunction(e) \in Int
  BY <1>1, <1>2, SumIsInt
<1> QED
  BY <1>3 DEF e

\* The fee that is exported is the true one, if any is.
LEMMA FeeIs ==
  ASSUME NEW tx, IsSequence(tx.vin), IsSequence(tx.vout), ~IsCoinbase(tx),
         NEW rowset, NEW fee, Balanced(rowset, tx, fee), NEW h
  PROVE  Fee(tx, InputEvents(tx, h), OutputEvents(tx, h)).sats \in {fee, None}
<1> DEFINE ins == InputEvents(tx, h)
           outs == OutputEvents(tx, h)
<1> SUFFICES Fee(tx, ins, outs).sats \in {fee, None}
  OBVIOUS
<1>1. /\ fee \in Int /\ tx.fee \in {fee, None}
      /\ \A n \in DOMAIN tx.vout : tx.vout[n].value \in Int
  BY DEF Balanced
<1>2. PICK worth : /\ Worths(rowset, tx, worth)
                   /\ SumFunction(worth) = fee + SumFunction(ValueOf(tx.vout))
  BY DEF Balanced
<1>3. /\ DOMAIN ins = DOMAIN tx.vin
      /\ \A n \in DOMAIN tx.vin : ins[n] = InputEvent(tx, tx.vin[n], n, h)
  BY DEF InputEvents
<1>4. \A n \in DOMAIN tx.vin : ins[n].value_sats = None \/ ins[n].value_sats = worth[n]
  BY <1>2, <1>3, InputFields DEF Worths
<1>5. Len(tx.vin) \in Nat /\ DOMAIN tx.vin = 1..Len(tx.vin) /\ Len(ins) = Len(tx.vin)
  <2>1. Len(tx.vin) \in Nat /\ DOMAIN tx.vin = 1..Len(tx.vin)
    BY SequenceFacts
  <2>2. ins = [n \in 1..Len(tx.vin) |-> ins[n]]
    BY <2>1 DEF InputEvents
  <2> HIDE DEF ins
  <2> QED
    BY <2>1, <2>2, FunctionIsSequence
<1>6. CASE tx.fee # None
  <2>1. Fee(tx, ins, outs).sats = tx.fee
    BY <1>6 DEF Fee
  <2> QED
    BY <1>1, <1>6, <2>1
<1>7. CASE tx.fee = None /\ PrevoutsComplete(ins)
  <2> DEFINE known == {n \in DOMAIN ins : HasValue(ins[n])}
             those == Those(HasValue, ins)
  <2>1. Cardinality(known) = Len(ins)
    BY <1>7 DEF PrevoutsComplete, HowMany
  <2>2. IsFiniteSet(DOMAIN ins) /\ Cardinality(DOMAIN ins) = Len(ins)
    BY <1>3, <1>5, SequenceDomain
  <2>3. known \in SUBSET DOMAIN ins
    OBVIOUS
  <2> HIDE DEF ins, known
  <2>4. known = DOMAIN ins
    BY <2>1, <2>2, <2>3, SameSize
  <2>5. \A n \in DOMAIN tx.vin : ins[n].value_sats = worth[n]
    BY <1>3, <1>4, <2>4 DEF known, HasValue
  <2>6. those = [n \in DOMAIN tx.vin |-> ins[n]]
    BY <1>3, <2>4 DEF known, Those
  <2> HIDE DEF those
  <2>7. DOMAIN those = DOMAIN tx.vin /\ \A n \in DOMAIN tx.vin : those[n] = ins[n]
    BY <2>6
  <2>8. worth = [n \in DOMAIN tx.vin |-> worth[n]]
    BY <1>2 DEF Worths
  <2>9. [n \in DOMAIN those |-> those[n].value_sats] = worth
    BY <2>5, <2>7, <2>8
  <2>10. Total(LAMBDA r : r.value_sats, those) = SumFunction(worth)
    BY <2>9 DEF Total
  <2>11. Total(LAMBDA r : r.value_sats, outs) = SumFunction(ValueOf(tx.vout))
    BY OutputTotal
  <2>12. SumFunction(ValueOf(tx.vout)) \in Int
    BY <1>1, ValuesSum
  <2>13. Fee(tx, ins, outs).sats = Total(LAMBDA r : r.value_sats, those)
                                    - Total(LAMBDA r : r.value_sats, outs)
    BY <1>7 DEF Fee, those
  <2> QED
    BY <1>1, <1>2, <2>10, <2>11, <2>12, <2>13
<1>8. CASE tx.fee = None /\ ~PrevoutsComplete(ins)
  BY <1>8 DEF Fee
<1> QED
  BY <1>6, <1>7, <1>8

\* One more summand.
LEMMA SumOneMore ==
  ASSUME NEW S, IsFiniteSet(S), NEW x, x \notin S, NEW f \in [S -> Int], NEW v \in Int,
         NEW g \in [S \union {x} -> Int], g[x] = v, \A k \in S : g[k] = f[k]
  PROVE  SumFunction(g) = v + SumFunction(f)
<1> DEFINE T == S \union {x}
<1>1. IsFiniteSet(T) /\ x \in T /\ T \ {x} = S
  BY FS_AddElement
<1>2. g = [k \in T |-> g[k]] /\ \A k \in T : g[k] \in Int
  OBVIOUS
<1> HIDE DEF T
<1>3. SumFunction([k \in T |-> g[k]]) = g[x] + SumFunction([k \in T \ {x} |-> g[k]])
  BY <1>1, <1>2, SumSplit
<1>4. [k \in T \ {x} |-> g[k]] = f
  BY <1>1
<1> QED
  BY <1>2, <1>3, <1>4

\* More rows change nothing in that.
LEMMA StaysBalanced ==
  ASSUME NEW few, NEW many, few \subseteq many, NEW tx, NEW fee, Balanced(few, tx, fee)
  PROVE  Balanced(many, tx, fee)
BY DEF Balanced, Worths

\* What the draft spends is worth what it pays out, and its fee.
LEMMA SpendBalances ==
  ASSUME LedgerAssumption, CoinsPublished, IsSequence(draft),
         \A c \in DOMAIN coins : coins[c].value \in Int,
         NEW spent \in Spendings, NEW template \in Templates, NEW feeKnown, NEW known
  PROVE  Balanced(Published, Spend(spent, template, feeKnown, known), template.fee)
<1> DEFINE tx == Spend(spent, template, feeKnown, known)
           worth == [i \in DOMAIN spent |-> coins[spent[i]].value]
           total == SumFunction(worth)
<1>1. PICK n \in 1..MaxInputs : spent \in [1..n -> DOMAIN coins]
  BY DEF Spendings
<1>2. n \in Nat /\ DOMAIN spent = 1..n /\ IsFiniteSet(1..n)
  <2>1. n \in Int /\ 1 \in Int /\ n \in Nat /\ DOMAIN spent = 1..n
    BY <1>1 DEF LedgerAssumption
  <2>2. IsFiniteSet(1..n)
    BY <2>1, FS_Interval
  <2> QED
    BY <2>1, <2>2
<1>3. IsPayout(template.outs) /\ template.fee \in Int
  BY DEF LedgerAssumption
<1>4. worth \in [DOMAIN spent -> Int]
  BY <1>1, <1>2
<1>5. total \in Int
  <2>1. DOMAIN worth = 1..n /\ \A i \in DOMAIN worth : worth[i] \in Int
    BY <1>2, <1>4
  <2> HIDE DEF worth
  <2> QED
    BY <1>2, <2>1, SumIsInt
<1>6. Total(LAMBDA o : coins[o].value, spent) = total
  BY DEF Total
<1>7. tx.vout = Paying(template.outs, total - template.fee)
  BY <1>6 DEF Spend
<1>8. tx.fee \in {template.fee, None}
  BY DEF Spend
<1>9. /\ DOMAIN tx.vin = DOMAIN spent
      /\ \A i \in DOMAIN spent :
           /\ spent[i] \in DOMAIN coins /\ tx.vin[i].prev = spent[i]
           /\ tx.vin[i].prevout = None \/ tx.vin[i].prevout = coins[spent[i]]
  BY SpendFacts
<1> HIDE DEF tx
<1>10. /\ \A m \in DOMAIN tx.vout : tx.vout[m].value \in Int
       /\ SumFunction(ValueOf(tx.vout)) = total - template.fee
  <2> HIDE DEF total
  <2>1. total - template.fee \in Int
    BY <1>3, <1>5
  <2> QED
    BY <1>3, <1>7, <2>1, PayingFacts
<1>11. Worths(Published, tx, worth)
  <2>1. \A i \in DOMAIN spent : worth[i] = coins[spent[i]].value
    OBVIOUS
  <2>2. \A c \in DOMAIN coins : \E o \in Published : Names(o, c) /\ o.value_sats = coins[c].value
    BY DEF CoinsPublished, Tells
  <2> HIDE DEF worth
  <2> QED
    BY <1>4, <1>9, <2>1, <2>2 DEF Worths
<1>12. total = template.fee + (total - template.fee)
  <2> HIDE DEF total
  <2> QED
    BY <1>3, <1>5
<1>13. Balanced(Published, tx, template.fee)
  <2> HIDE DEF worth
  <2> QED
    BY <1>3, <1>8, <1>10, <1>11, <1>12 DEF Balanced
<1> QED
  BY <1>13 DEF tx

\* The coins of a transaction have the values of its outputs.
LEMMA AddedValues ==
  ASSUME NEW tx, IsSequence(tx.vout), \A n \in DOMAIN tx.vout : tx.vout[n].value \in Int,
         NEW to, \A c \in DOMAIN to : to[c].value \in Int
  PROVE  \A c \in DOMAIN Added(tx, to) : Added(tx, to)[c].value \in Int
<1> SUFFICES ASSUME NEW c \in DOMAIN Added(tx, to) PROVE Added(tx, to)[c].value \in Int
  OBVIOUS
<1>1. CASE c \in DOMAIN to /\ Added(tx, to)[c] = to[c]
  BY <1>1
<1>2. ASSUME NEW o, IsOutputRow(o, tx, height), Tells(o, Added(tx, to)[c])
      PROVE  Added(tx, to)[c].value \in Int
  BY <1>2, OutputFields DEF IsOutputRow, Tells
<1> QED
  BY <1>1, <1>2, AddedFacts

\* An included transaction pays its fee, and its coins have values.
LEMMA IncludeKeepsValued ==
  ASSUME LedgerAssumption, Drafted, Below, Joined, Valued, Include
  PROVE  Valued'
<1>1. PICK spent \in Spendings, template \in Templates, feeKnown \in BOOLEAN :
      \E known \in SUBSET DOMAIN spent :
        LET tx == Spend(spent, template, feeKnown, known) IN
        /\ draft' = Append(draft, tx) /\ fees' = fees + template.fee
        /\ coins' = Added(tx, [o \in DOMAIN coins \ ToSet(spent) |-> coins[o]])
  BY DEF Include
<1>2. PICK known \in SUBSET DOMAIN spent :
        LET tx == Spend(spent, template, feeKnown, known) IN
        /\ draft' = Append(draft, tx) /\ fees' = fees + template.fee
        /\ coins' = Added(tx, [o \in DOMAIN coins \ ToSet(spent) |-> coins[o]])
  BY <1>1
<1> DEFINE tx == Spend(spent, template, feeKnown, known)
           left == [o \in DOMAIN coins \ ToSet(spent) |-> coins[o]]
<1>3. UNCHANGED <<height, pools, blocks, inputs, outputs>>
  BY DEF Include, rows
<1>4. IsSequence(draft) /\ \A k \in DOMAIN draft : Regular(draft[k], k)
  BY DEF Drafted
<1>5. /\ \A c \in DOMAIN coins : coins[c].value \in Int
      /\ template.fee \in Int
  BY DEF Valued, LedgerAssumption
<1>6. PICK paid \in [DOMAIN draft -> Int] :
        fees = SumFunction(paid) /\ \A k \in DOMAIN draft : Balanced(Published, draft[k], paid[k])
  BY DEF Valued
<1>7. Regular(tx, Len(draft) + 1) /\ Balanced(Published, tx, template.fee)
  BY <1>4, <1>5, SpendFacts, SpendBalances DEF Joined
<1>8. \A c \in DOMAIN left : left[c].value \in Int
  BY <1>5
<1>9. draft' = Append(draft, tx) /\ fees' = fees + template.fee /\ coins' = Added(tx, left)
  BY <1>2
<1> HIDE DEF tx, left
<1>10. /\ DOMAIN draft' = DOMAIN draft \union {Len(draft) + 1} /\ draft'[Len(draft) + 1] = tx
       /\ \A k \in DOMAIN draft : draft'[k] = draft[k]
       /\ Len(draft) + 1 \notin DOMAIN draft
  BY <1>4, <1>9, Appended
<1>11. \A o \in Published : o \in Published'
  BY <1>3, <1>10 DEF Published, RowsOf
<1>12. \A c \in DOMAIN coins' : coins'[c].value \in Int
  <2>1. IsSequence(tx.vout) /\ \A n \in DOMAIN tx.vout : tx.vout[n].value \in Int
    BY <1>7 DEF Regular, Balanced
  <2> QED
    BY <1>8, <1>9, <2>1, AddedValues
<1> DEFINE more == [k \in DOMAIN draft \union {Len(draft) + 1} |->
                      IF k = Len(draft) + 1 THEN template.fee ELSE paid[k]]
<1>13. SumFunction(more) = template.fee + SumFunction(paid)
  <2>1. PICK place : place = Len(draft) + 1
    OBVIOUS
  <2>2. PICK places : places = DOMAIN draft
    OBVIOUS
  <2>3. IsFiniteSet(places) /\ place \notin places
    BY <1>4, <1>10, <2>1, <2>2, SequenceDomain
  <2>4. paid \in [places -> Int]
    BY <1>6, <2>2
  <2>5. more \in [places \union {place} -> Int]
    BY <1>5, <1>6, <2>1, <2>2
  <2>6. more[place] = template.fee /\ \A k \in places : more[k] = paid[k]
    BY <2>1, <2>2, <2>3
  <2> HIDE DEF more
  <2> QED
    BY ONLY <1>5, <2>3, <2>4, <2>5, <2>6, SumOneMore
<1>14. fees' = SumFunction(more)
  <2>1. SumFunction(paid) \in Int
    <3>1. IsFiniteSet(DOMAIN paid) /\ \A k \in DOMAIN paid : paid[k] \in Int
      BY <1>4, <1>6, SequenceDomain
    <3> QED
      BY <3>1, SumIsInt
  <2> HIDE DEF more
  <2> QED
    BY <1>5, <1>6, <1>9, <1>13, <2>1
<1>15. more \in [DOMAIN draft' -> Int]
  BY <1>5, <1>6, <1>10
<1>16. \A k \in DOMAIN draft' : Balanced(Published', draft'[k], more[k])
  <2> SUFFICES ASSUME NEW k \in DOMAIN draft' PROVE Balanced(Published', draft'[k], more[k])
    OBVIOUS
  <2>1. CASE k \in DOMAIN draft
    <3>1. Balanced(Published, draft'[k], more[k])
      BY <1>6, <1>10, <2>1
    <3> QED
      BY <1>11, <3>1, StaysBalanced
  <2>2. CASE k = Len(draft) + 1
    <3>1. Balanced(Published, draft'[k], more[k])
      BY <1>7, <1>10, <2>2
    <3> QED
      BY <1>11, <3>1, StaysBalanced
  <2> QED
    BY <1>10, <2>1, <2>2
<1> HIDE DEF more
<1> QED
  BY <1>12, <1>14, <1>15, <1>16 DEF Valued

\* The fees of a draft are a number.
LEMMA FeesAreInt ==
  ASSUME Drafted, Valued
  PROVE  fees \in Int
<1>1. PICK paid \in [DOMAIN draft -> Int] : fees = SumFunction(paid)
  BY DEF Valued
<1>2. IsFiniteSet(DOMAIN paid) /\ \A k \in DOMAIN paid : paid[k] \in Int
  BY <1>1, SequenceDomain DEF Drafted
<1> QED
  BY <1>1, <1>2, SumIsInt

\* A connected block leaves no fees, and its coinbase adds coins with values.
LEMMA ConnectKeepsValued ==
  ASSUME LedgerAssumption, ParserAssumption, Drafted, Below, Joined, Valued, Connect
  PROVE  Valued'
<1>1. PICK template \in Coinbases, dataset \in Datasets : Connects(template, dataset)
  BY ConnectFacts
<1> DEFINE coinbase == Coinbase(template)
           total == BlockSubsidy(height) + fees - template.unclaimed
<1>2. draft' = <<>> /\ fees' = 0 /\ DOMAIN draft' = {}
  BY DEF Connect
<1>3. coins' = IF height = 0 THEN coins ELSE Added(coinbase, coins)
  BY <1>1 DEF Connects
<1>4. total \in Int
  <2>1. fees \in Int /\ BlockSubsidy(height) \in Nat
    BY SubsidyIsNat, FeesAreInt DEF Below
  <2>2. template.unclaimed \in Nat
    BY DEF LedgerAssumption, IsMint
  <2> QED
    BY <2>1, <2>2
<1>5. coinbase.vout = Paying(template.outs, total) /\ IsPayout(template.outs)
  BY DEF Coinbase, LedgerAssumption, IsMint
<1>6. IsSequence(coinbase.vout) /\ \A n \in DOMAIN coinbase.vout : coinbase.vout[n].value \in Int
  <2> HIDE DEF coinbase, total
  <2> QED
    BY <1>4, <1>5, PayingFacts
<1>7. \A c \in DOMAIN coins : coins[c].value \in Int
  BY DEF Valued
<1> HIDE DEF coinbase
<1>8. \A c \in DOMAIN coins' : coins'[c].value \in Int
  <2>1. CASE height = 0
    BY <1>3, <1>7, <2>1
  <2>2. CASE height # 0
    <3>1. coins' = Added(coinbase, coins)
      BY <1>3, <2>2
    <3> QED
      BY <1>6, <1>7, <3>1, AddedValues
  <2> QED
    BY <2>1, <2>2
<1> DEFINE paid == [k \in {} |-> 0]
<1>9. paid \in [DOMAIN draft' -> Int] /\ DOMAIN paid = {}
  BY <1>2
<1> HIDE DEF paid
<1>10. fees' = SumFunction(paid)
  BY <1>2, <1>9, SumEmpty
<1> QED
  BY <1>2, <1>8, <1>9, <1>10 DEF Valued

\* The coins and the draft balance.
THEOREM ValuedCorrect == Spec => []Valued
<1> USE LedgerAssumption, ParserAssumption
<1>1. Init => Valued
  <2> SUFFICES ASSUME Init PROVE Valued
    OBVIOUS
  <2> DEFINE paid == [k \in {} |-> 0]
  <2>1. DOMAIN coins = {} /\ DOMAIN draft = {} /\ fees = 0
    BY DEF Init, NoCoins
  <2>2. paid \in [DOMAIN draft -> Int] /\ DOMAIN paid = {}
    BY <2>1
  <2> HIDE DEF paid
  <2>3. fees = SumFunction(paid)
    BY <2>1, <2>2, SumEmpty
  <2> QED
    BY <2>1, <2>2, <2>3 DEF Valued
<1>2. Drafted /\ Below /\ Joined /\ Valued /\ [Next]_vars => Valued'
  <2> SUFFICES ASSUME Drafted, Below, Joined, Valued, [Next]_vars PROVE Valued'
    OBVIOUS
  <2>1. CASE Include
    BY <2>1, IncludeKeepsValued
  <2>2. CASE Connect
    BY <2>2, ConnectKeepsValued
  <2>3. CASE UNCHANGED vars
    <3>1. UNCHANGED <<height, coins, draft, fees, outputs>>
      BY <2>3 DEF vars, ledger, rows
    <3>2. Published' = Published
      BY <3>1 DEF Published, RowsOf
    <3> QED
      BY <3>1, <3>2 DEF Valued
  <2> QED
    BY <2>1, <2>2, <2>3 DEF Next
<1> QED
  BY <1>1, <1>2, DraftCorrect, JoinedCorrect, PTL DEF Spec

-----------------------------------------------------------------------------
(* The fees the rows tell of.                                              *)

\* The rows `own` of a transaction's inputs spend rows that pay for its fee.
PaidFor(t, own, outs) ==
  \E worth \in [own -> Int] :
    /\ \A i \in own : \E o \in outs : /\ o.txid = i.prevout_txid
                                      /\ o.output_index = i.prevout_vout
                                      /\ o.value_sats = worth[i]
    /\ t.fee_sats = SumFunction(worth) - t.output_value_sats

Pays(b) ==
  b.fee_unknown_tx_count = 0 => b.coinbase_value_sats <= b.block_subsidy_sats + b.total_fees_sats

\* The rows of a transaction have its number, and its fee is paid for.
Reckoned ==
  /\ \A i \in inputs : \E k \in Nat : i.txid = <<i.block_height, k>>
  /\ \A t \in transactions :
       /\ t.block_height \in 0..height-1
       /\ \E k \in Nat : t.txid = <<t.block_height, k>>
       /\ t.fee_sats # None /\ ~t.is_coinbase => PaidFor(t, Of(inputs, t), outputs)
  /\ \A b \in blocks : Pays(b)

\* More rows of outputs change nothing in that.
LEMMA StaysPaid ==
  ASSUME NEW t, NEW own, NEW few, NEW many, few \subseteq many, PaidFor(t, own, few)
  PROVE  PaidFor(t, own, many)
BY DEF PaidFor

\* A sum along a bijection, between functions.
LEMMA SumAlong ==
  ASSUME NEW S, IsFiniteSet(S), NEW f \in [S -> Int],
         NEW T, NEW b \in [T -> S], \A t, u \in T : b[t] = b[u] => t = u,
         \A x \in S : \E t \in T : x = b[t],
         NEW g \in [T -> Int], \A t \in T : g[t] = f[b[t]]
  PROVE  IsFiniteSet(T) /\ SumFunction(g) = SumFunction(f)
<1>1. \A x \in S : f[x] \in Int
  OBVIOUS
<1>2. f = [x \in S |-> f[x]] /\ g = [t \in T |-> f[b[t]]]
  OBVIOUS
<1>3. /\ IsFiniteSet(T)
      /\ SumFunction([t \in T |-> f[b[t]]]) = SumFunction([x \in S |-> f[x]])
  BY <1>1, SumReindex
<1> QED
  BY <1>2, <1>3

\* The rows of a transaction's inputs, one for each, are worth what it spends.
LEMMA OwnWorth ==
  ASSUME NEW tx, IsSequence(tx.vin), NEW h, NEW worth \in [DOMAIN tx.vin -> Int],
         NEW own, \A r : r \in own <=> IsInputRow(r, tx, h)
  PROVE  \E w \in [own -> Int] :
           /\ \A n \in DOMAIN tx.vin : w[InputEvent(tx, tx.vin[n], n, h)] = worth[n]
           /\ SumFunction(w) = SumFunction(worth)
<1> DEFINE S == DOMAIN tx.vin
           Row(n) == InputEvent(tx, tx.vin[n], n, h)
           place == [r \in own |-> r.input_index + 1]
           w == [r \in own |-> worth[place[r]]]
<1>1. IsFiniteSet(S) /\ S = 1..Len(tx.vin) /\ Len(tx.vin) \in Nat
  BY SequenceDomain, SequenceFacts
<1>2. /\ \A n \in S : Row(n) \in own /\ Row(n).input_index = n - 1
      /\ \A r \in own : \E n \in S : r = Row(n)
  BY InputFields DEF IsInputRow
<1> HIDE DEF Row
<1>3. \A n \in S : place[Row(n)] = n
  BY <1>1, <1>2
<1> HIDE DEF place
<1>4. /\ DOMAIN place = own /\ place = [r \in own |-> place[r]]
      /\ \A r \in own : place[r] \in S
  BY <1>2, <1>3 DEF place
<1>5. place \in [own -> S]
  BY <1>4
<1>6. \A r, q \in own : place[r] = place[q] => r = q
  BY <1>2, <1>3
<1>7. \A n \in S : \E r \in own : n = place[r]
  BY <1>2, <1>3
<1>8. w \in [own -> Int] /\ \A r \in own : w[r] = worth[place[r]]
  BY <1>4
<1> HIDE DEF w, S
<1>9. worth \in [S -> Int]
  BY DEF S
<1>10. SumFunction(w) = SumFunction(worth)
  <2>1. PICK V : V = S
    OBVIOUS
  <2>2. IsFiniteSet(V) /\ worth \in [V -> Int] /\ place \in [own -> V]
    BY <1>1, <1>5, <1>9, <2>1
  <2>3. \A n \in V : \E r \in own : n = place[r]
    BY <1>7, <2>1
  <2>4. w \in [own -> Int] /\ \A r \in own : w[r] = worth[place[r]]
    BY <1>8
  <2> QED
    BY ONLY <1>6, <2>2, <2>3, <2>4, SumAlong
<1>11. \A n \in S : w[Row(n)] = worth[n]
  BY <1>2, <1>3, <1>8
<1> QED
  BY <1>8, <1>10, <1>11 DEF Row, S

\* The row of a transaction that balances is paid for.
LEMMA RowPaid ==
  ASSUME NEW tx, IsSequence(tx.vin), IsSequence(tx.vout), ~IsCoinbase(tx),
         NEW rowset, NEW fee, Balanced(rowset, tx, fee), NEW h, NEW x,
         NEW own, \A r : r \in own <=> IsInputRow(r, tx, h)
  PROVE  LET t == TxEvent(tx, h, x) IN
         t.fee_sats \in {fee, None} /\ (t.fee_sats # None => PaidFor(t, own, rowset))
<1> DEFINE t == TxEvent(tx, h, x)
           outs == SumFunction(ValueOf(tx.vout))
<1>1. t.fee_sats \in {fee, None}
  <2>1. t.fee_sats = Fee(tx, InputEvents(tx, h), OutputEvents(tx, h)).sats
    BY DEF TxEvent
  <2> HIDE DEF t
  <2> QED
    BY <2>1, FeeIs
<1>2. t.output_value_sats = outs
  <2>1. t.output_value_sats = Total(LAMBDA r : r.value_sats, OutputEvents(tx, h))
    BY TxFields
  <2> HIDE DEF t, outs
  <2> QED
    BY <2>1, OutputTotal DEF outs
<1>3. PICK worth : Worths(rowset, tx, worth) /\ SumFunction(worth) = fee + outs
  BY DEF Balanced
<1>4. worth \in [DOMAIN tx.vin -> Int]
  BY <1>3 DEF Worths
<1>5. PICK w \in [own -> Int] :
        /\ \A n \in DOMAIN tx.vin : w[InputEvent(tx, tx.vin[n], n, h)] = worth[n]
        /\ SumFunction(w) = SumFunction(worth)
  BY <1>4, OwnWorth
<1>6. ASSUME NEW r \in own
      PROVE  \E o \in rowset : /\ o.txid = r.prevout_txid /\ o.output_index = r.prevout_vout
                               /\ o.value_sats = w[r]
  <2>1. PICK n \in DOMAIN tx.vin : r = InputEvent(tx, tx.vin[n], n, h)
    BY <1>6 DEF IsInputRow
  <2>2. PICK o \in rowset : Names(o, tx.vin[n].prev) /\ o.value_sats = worth[n]
    BY <1>3 DEF Worths
  <2>3. r.prevout_txid = tx.vin[n].prev.txid /\ r.prevout_vout = tx.vin[n].prev.vout
    BY <2>1, InputFields
  <2>4. w[r] = worth[n]
    BY <1>5, <2>1
  <2> QED
    BY <2>2, <2>3, <2>4 DEF Names
<1>7. outs \in Int /\ fee \in Int
  BY ValuesSum DEF Balanced
<1> HIDE DEF t, outs
<1>8. fee = SumFunction(w) - outs
  BY <1>3, <1>5, <1>7
<1>9. t.fee_sats # None => PaidFor(t, own, rowset)
  BY <1>1, <1>2, <1>6, <1>8 DEF PaidFor
<1> QED
  BY <1>1, <1>9 DEF t

\* The regular transactions of a block, and those whose fee is known.
RegularOf(txs) == [n \in {m \in DOMAIN txs : ~txs[m].is_coinbase} |-> txs[n]]
PricedOf(txs) ==
  [n \in {m \in DOMAIN txs : ~txs[m].is_coinbase /\ txs[m].fee_sats # None} |-> txs[n]]

\* The fields of a block's row that tell of fees.
LEMMA BlockFields ==
  ASSUME NEW h, NEW txs, txs # <<>>, NEW dataset
  PROVE  LET b == AggregateBlock([height |-> h, tx |-> txs], dataset).block
             events == [n \in DOMAIN txs |-> TxEvent(txs[n], h, n - 1)]
         IN /\ b.block_subsidy_sats = BlockSubsidy(h)
            /\ events # <<>> => b.coinbase_value_sats = events[1].output_value_sats
            /\ b.total_fees_sats = Total(LAMBDA t : t.fee_sats, PricedOf(events))
            /\ b.fee_unknown_tx_count = Size(RegularOf(events)) - Size(PricedOf(events))
<1> DEFINE block == [height |-> h, tx |-> txs]
           events == [n \in DOMAIN txs |-> TxEvent(txs[n], h, n - 1)]
           regular == Those(LAMBDA t : ~t.is_coinbase, events)
           priced == Those(LAMBDA t : t.fee_sats # None, regular)
           b == BlockEvent(block, events, dataset)
<1>1. AggregateBlock(block, dataset).block = b
  BY DEF AggregateBlock
<1>2. block.tx = txs /\ block.height = h
  OBVIOUS
<1> HIDE DEF events, block
<1>3. b.block_subsidy_sats = BlockSubsidy(h)
  BY <1>2 DEF BlockEvent
<1>4. events # <<>> => b.coinbase_value_sats = events[1].output_value_sats
  BY DEF BlockEvent
<1>5. b.total_fees_sats = Total(LAMBDA t : t.fee_sats, priced)
  BY DEF BlockEvent
<1>6. b.fee_unknown_tx_count = Size(regular) - Size(priced)
  BY DEF BlockEvent
<1>7. regular = RegularOf(events)
  BY DEF Those, RegularOf
<1>8. priced = PricedOf(events)
  <2>1. /\ DOMAIN RegularOf(events) = {m \in DOMAIN events : ~events[m].is_coinbase}
        /\ \A n \in DOMAIN RegularOf(events) : RegularOf(events)[n] = events[n]
    BY DEF RegularOf
  <2>2. {m \in DOMAIN RegularOf(events) : RegularOf(events)[m].fee_sats # None}
          = {m \in DOMAIN events : ~events[m].is_coinbase /\ events[m].fee_sats # None}
    BY <2>1
  <2>3. Those(LAMBDA t : t.fee_sats # None, RegularOf(events)) = PricedOf(events)
    BY <2>1, <2>2 DEF Those, PricedOf
  <2> HIDE DEF regular
  <2> QED
    BY <1>7, <2>3
<1> HIDE DEF regular, priced, b
<1> QED
  BY <1>1, <1>3, <1>4, <1>5, <1>6, <1>7, <1>8 DEF block, events

\* The rows of a block's transactions: the coinbase's first, then those of the draft.
Events(coinbase) ==
  [n \in DOMAIN Body(coinbase) |-> TxEvent(Body(coinbase)[n], height, n - 1)]

\* The first is the one coinbase.
LEMMA EventFacts ==
  ASSUME Drafted, NEW coinbase, IsCoinbase(coinbase)
  PROVE  /\ DOMAIN Events(coinbase) = 1..Len(draft) + 1 /\ Len(draft) \in Nat
         /\ DOMAIN draft = 1..Len(draft)
         /\ Events(coinbase)[1] = TxEvent(coinbase, height, 0)
         /\ Events(coinbase)[1].is_coinbase
         /\ \A k \in DOMAIN draft : /\ Events(coinbase)[k + 1] = TxEvent(draft[k], height, k)
                                    /\ ~Events(coinbase)[k + 1].is_coinbase
<1> DEFINE body == Body(coinbase)
<1>1. /\ DOMAIN body = 1..Len(draft) + 1 /\ body[1] = coinbase
      /\ \A k \in DOMAIN draft : body[k + 1] = draft[k]
  BY BodyFacts DEF Drafted
<1>2. Len(draft) \in Nat /\ DOMAIN draft = 1..Len(draft)
  BY SequenceFacts DEF Drafted
<1> HIDE DEF body
<1>3. /\ DOMAIN Events(coinbase) = DOMAIN body
      /\ \A n \in DOMAIN body : Events(coinbase)[n] = TxEvent(body[n], height, n - 1)
  BY DEF Events, body
<1>4. Events(coinbase)[1] = TxEvent(coinbase, height, 0)
  <2>1. 1 \in DOMAIN body /\ 1 - 1 = 0
    BY <1>1, <1>2
  <2> QED
    BY <1>1, <1>3, <2>1
<1>5. \A k \in DOMAIN draft : Events(coinbase)[k + 1] = TxEvent(draft[k], height, k)
  <2>1. \A k \in DOMAIN draft : k + 1 \in DOMAIN body /\ (k + 1) - 1 = k
    BY <1>1, <1>2
  <2> QED
    BY <1>1, <1>3, <2>1
<1>6. \A k \in DOMAIN draft : ~IsCoinbase(draft[k])
  BY DEF Drafted, Regular
<1>7. \A tx, x : TxEvent(tx, height, x).is_coinbase = IsCoinbase(tx)
  BY DEF TxEvent
<1> QED
  BY <1>1, <1>2, <1>3, <1>4, <1>5, <1>6, <1>7

\* A block pays its miner no more than subsidy and fees.
LEMMA BlockPays ==
  ASSUME LedgerAssumption, ParserAssumption, Drafted, Below, Valued,
         NEW template \in Coinbases, NEW dataset
  PROVE  LET body == Body(Coinbase(template)) IN
         Pays(AggregateBlock([height |-> height, tx |-> body], dataset).block)
<1> DEFINE coinbase == Coinbase(template)
           body == Body(coinbase)
           b == AggregateBlock([height |-> height, tx |-> body], dataset).block
           events == Events(coinbase)
           regular == RegularOf(events)
           priced == PricedOf(events)
           total == BlockSubsidy(height) + fees - template.unclaimed
<1>1. IsCoinbase(coinbase) /\ body # <<>>
  BY CoinbaseFacts, BodyFacts DEF Drafted
<1>2. coinbase.vout = Paying(template.outs, total) /\ IsPayout(template.outs)
  BY DEF Coinbase, LedgerAssumption, IsMint
<1>3. /\ fees \in Int /\ BlockSubsidy(height) \in Nat /\ total \in Int
      /\ total <= BlockSubsidy(height) + fees
  <2>1. fees \in Int /\ BlockSubsidy(height) \in Nat
    BY SubsidyIsNat, FeesAreInt DEF Below
  <2>2. template.unclaimed \in Nat
    BY DEF LedgerAssumption, IsMint
  <2> QED
    BY <2>1, <2>2
<1>4. SumFunction(ValueOf(coinbase.vout)) = total
  <2> HIDE DEF total, coinbase
  <2> QED
    BY <1>2, <1>3, PayingFacts
<1> HIDE DEF coinbase, total
<1>5. /\ DOMAIN events = 1..Len(draft) + 1 /\ Len(draft) \in Nat /\ DOMAIN draft = 1..Len(draft)
      /\ events[1] = TxEvent(coinbase, height, 0) /\ events[1].is_coinbase
      /\ \A k \in DOMAIN draft : /\ events[k + 1] = TxEvent(draft[k], height, k)
                                 /\ ~events[k + 1].is_coinbase
  BY <1>1, EventFacts
<1>6. /\ b.block_subsidy_sats = BlockSubsidy(height)
      /\ events # <<>> => b.coinbase_value_sats = events[1].output_value_sats
      /\ b.total_fees_sats = Total(LAMBDA t : t.fee_sats, priced)
      /\ b.fee_unknown_tx_count = Size(regular) - Size(priced)
  <2> HIDE DEF body
  <2>1. events = [n \in DOMAIN body |-> TxEvent(body[n], height, n - 1)]
    BY DEF Events, body
  <2> HIDE DEF events
  <2> QED
    BY <1>1, <2>1, BlockFields
<1> HIDE DEF b, events
<1>7. b.coinbase_value_sats = total
  <2>1. events # <<>> /\ b.coinbase_value_sats = events[1].output_value_sats
    BY <1>5, <1>6
  <2>2. events[1].output_value_sats = Total(LAMBDA r : r.value_sats, OutputEvents(coinbase, height))
    <3>1. TxEvent(coinbase, height, 0).output_value_sats
            = Total(LAMBDA r : r.value_sats, OutputEvents(coinbase, height))
      BY DEF TxEvent
    <3> QED
      BY <1>5, <3>1
  <2>3. Total(LAMBDA r : r.value_sats, OutputEvents(coinbase, height))
          = SumFunction(ValueOf(coinbase.vout))
    BY OutputTotal
  <2> QED
    BY <1>4, <2>1, <2>2, <2>3
<1> SUFFICES ASSUME Size(regular) = Size(priced) PROVE b.total_fees_sats = fees
  <2>1. IsFiniteSet(DOMAIN regular) /\ IsFiniteSet(DOMAIN priced)
    <3>1. DOMAIN regular \in SUBSET DOMAIN events /\ DOMAIN priced \in SUBSET DOMAIN events
      BY DEF RegularOf, PricedOf
    <3>2. IsFiniteSet(DOMAIN events)
      <4>1. 1 \in Int /\ Len(draft) + 1 \in Int
        BY <1>5
      <4> QED
        BY <1>5, <4>1, FS_Interval
    <3> QED
      BY <3>1, <3>2, FS_Subset
  <2>2. Size(regular) \in Nat /\ Size(priced) \in Nat
    BY <2>1, FS_CardinalityType DEF Size
  <2>3. b.fee_unknown_tx_count = 0 => Size(regular) = Size(priced)
    BY <1>6, <2>2
  <2> QED
    BY <1>3, <1>6, <1>7, <2>3 DEF Pays, b, body, coinbase
<1>8. PICK paid \in [DOMAIN draft -> Int] :
        fees = SumFunction(paid) /\ \A k \in DOMAIN draft : Balanced(Published, draft[k], paid[k])
  BY DEF Valued
<1>9. DOMAIN priced = DOMAIN regular /\ IsFiniteSet(DOMAIN draft)
  <2>1. DOMAIN priced \in SUBSET DOMAIN regular /\ DOMAIN regular \in SUBSET DOMAIN events
    BY DEF RegularOf, PricedOf
  <2>2. IsFiniteSet(DOMAIN events) /\ IsFiniteSet(DOMAIN draft)
    <3>1. 1 \in Int /\ Len(draft) + 1 \in Int /\ Len(draft) \in Int
      BY <1>5
    <3> QED
      BY <1>5, <3>1, FS_Interval
  <2>3. IsFiniteSet(DOMAIN regular)
    BY <2>1, <2>2, FS_Subset
  <2>4. Cardinality(DOMAIN priced) = Cardinality(DOMAIN regular)
    BY DEF Size
  <2> HIDE DEF regular, priced
  <2> QED
    BY <2>1, <2>2, <2>3, <2>4, SameSize
<1>10. \A n : n \in DOMAIN regular <=> n - 1 \in DOMAIN draft /\ n \in 1..Len(draft) + 1
  <2>1. \A n \in DOMAIN events : ~events[n].is_coinbase <=> n - 1 \in DOMAIN draft
    <3> SUFFICES ASSUME NEW n \in DOMAIN events
                 PROVE  ~events[n].is_coinbase <=> n - 1 \in DOMAIN draft
      OBVIOUS
    <3>1. CASE n = 1
      BY <1>5, <3>1
    <3>2. CASE n # 1
      <4>1. n - 1 \in DOMAIN draft /\ (n - 1) + 1 = n
        BY <1>5, <3>2
      <4> QED
        BY <1>5, <4>1
    <3> QED
      BY <3>1, <3>2
  <2> QED
    BY <1>5, <2>1 DEF RegularOf
<1> DEFINE fee == [n \in DOMAIN priced |-> priced[n].fee_sats]
           place == [n \in DOMAIN priced |-> n - 1]
<1>11. /\ DOMAIN fee = DOMAIN priced /\ DOMAIN place = DOMAIN priced
       /\ \A n \in DOMAIN priced : place[n] = n - 1 /\ fee[n] = priced[n].fee_sats
  OBVIOUS
<1>12. b.total_fees_sats = SumFunction(fee)
  BY <1>6 DEF Total
<1>13. \A n \in DOMAIN priced : n - 1 \in DOMAIN draft /\ fee[n] = paid[n - 1]
  <2> SUFFICES ASSUME NEW n \in DOMAIN priced
               PROVE  n - 1 \in DOMAIN draft /\ fee[n] = paid[n - 1]
    OBVIOUS
  <2>1. priced[n] = events[n] /\ events[n].fee_sats # None
    BY DEF PricedOf
  <2>2. n - 1 \in DOMAIN draft /\ (n - 1) + 1 = n
    BY <1>9, <1>10
  <2>3. PICK k \in DOMAIN draft : k = n - 1 /\ k + 1 = n
    BY <2>2
  <2>4. events[n] = TxEvent(draft[k], height, k)
    BY <1>5, <2>3
  <2>5. Regular(draft[k], k) /\ Balanced(Published, draft[k], paid[k])
    BY <1>8, <2>3 DEF Drafted
  <2>6. Fee(draft[k], InputEvents(draft[k], height), OutputEvents(draft[k], height)).sats
          \in {paid[k], None}
    BY <2>5, FeeIs DEF Regular
  <2>7. TxEvent(draft[k], height, k).fee_sats
          = Fee(draft[k], InputEvents(draft[k], height), OutputEvents(draft[k], height)).sats
    BY DEF TxEvent
  <2> HIDE DEF priced, fee
  <2> QED
    BY <1>11, <2>1, <2>2, <2>3, <2>4, <2>6, <2>7
<1> HIDE DEF fee, place, regular, priced
<1>14. \A k \in DOMAIN draft : k + 1 \in DOMAIN priced /\ place[k + 1] = k
  <2>1. \A k \in DOMAIN draft : (k + 1) - 1 = k /\ k + 1 \in 1..Len(draft) + 1
    BY <1>5
  <2> QED
    BY <1>9, <1>10, <1>11, <2>1
<1>15. SumFunction(fee) = SumFunction(paid)
  <2>1. PICK S : S = DOMAIN draft
    OBVIOUS
  <2>2. PICK T : T = DOMAIN priced
    OBVIOUS
  <2>3. fee = [n \in T |-> fee[n]] /\ place = [n \in T |-> place[n]]
    BY <2>2 DEF fee, place
  <2>4. IsFiniteSet(S) /\ paid \in [S -> Int]
    BY <1>8, <1>9, <2>1
  <2>5. \A n \in T : place[n] \in S /\ fee[n] = paid[place[n]] /\ paid[place[n]] \in Int
    BY <1>11, <1>13, <2>1, <2>2, <2>4
  <2>6. fee \in [T -> Int] /\ place \in [T -> S]
    BY <2>3, <2>5
  <2>7. \A n, m \in T : place[n] = place[m] => n = m
    <3>1. \A n \in T : n \in Int /\ place[n] = n - 1
      BY <1>9, <1>10, <1>11, <2>2
    <3> QED
      BY <3>1
  <2>8. \A k \in S : \E n \in T : k = place[n]
    BY <1>14, <2>1, <2>2
  <2> QED
    BY ONLY <2>4, <2>5, <2>6, <2>7, <2>8, SumAlong
<1> QED
  BY <1>8, <1>12, <1>15

\* A block's rows keep what the rows before it say.
LEMMA ConnectKeepsReckoned ==
  ASSUME LedgerAssumption, ParserAssumption, Drafted, Below, Joined, Valued, Reckoned, Connect
  PROVE  Reckoned'
<1>1. PICK template \in Coinbases, dataset \in Datasets : Connects(template, dataset)
  BY ConnectFacts
<1> DEFINE coinbase == Coinbase(template)
           body == Body(coinbase)
           b == AggregateBlock([height |-> height, tx |-> body], dataset).block
<1>2. coinbase.txid = <<height, 0>> /\ IsCoinbase(coinbase)
  BY CoinbaseFacts
<1>3. /\ \A r : r \in inputs' <=> \/ r \in inputs \/ IsInputRow(r, coinbase, height)
                                  \/ \E k \in DOMAIN draft : IsInputRow(r, draft[k], height)
      /\ \A r : r \in outputs' <=> \/ r \in outputs \/ IsOutputRow(r, coinbase, height)
                                   \/ \E k \in DOMAIN draft : IsOutputRow(r, draft[k], height)
      /\ \A t : t \in transactions' <=> t \in transactions \/ IsTxRow(t, body, height)
      /\ blocks' = blocks \union {b}
  BY <1>1 DEF Connects
<1>4. Pays(b)
  BY BlockPays
<1>5. /\ DOMAIN body = 1..Len(draft) + 1 /\ body[1] = coinbase
      /\ \A k \in DOMAIN body : k # 1 => k - 1 \in DOMAIN draft /\ body[k] = draft[k - 1]
  BY BodyFacts DEF Drafted
<1> HIDE DEF b, body, coinbase
<1>6. height \in Nat /\ height' = height + 1 /\ height \in 0..height'-1
  BY DEF Connect, Below
<1>7. \A k \in DOMAIN draft : Regular(draft[k], k) /\ k \in Nat /\ k # 0
  BY SequenceFacts DEF Drafted
<1>8. \A r, tx : IsInputRow(r, tx, height) => r.block_height = height /\ r.txid = tx.txid
  BY InputFields DEF IsInputRow
<1>9. \A r : r \in inputs' /\ r \notin inputs =>
         r.block_height = height /\ \E k \in Nat : r.txid = <<height, k>>
  BY <1>2, <1>3, <1>7, <1>8 DEF Regular
<1>10. \A i \in inputs' : \E k \in Nat : i.txid = <<i.block_height, k>>
  BY <1>9 DEF Reckoned
<1>11. outputs \subseteq outputs' /\ Published \subseteq outputs'
  <2>1. \A o \in Published : o \in outputs'
    BY <1>3, PublishedRows
  <2> QED
    BY <1>3, <2>1
<1>12. \A t \in transactions : Of(inputs', t) = Of(inputs, t)
  <2> SUFFICES ASSUME NEW t \in transactions, NEW r \in inputs', r \notin inputs
               PROVE  r.txid # t.txid
    BY <1>3 DEF Of
  <2>1. PICK k \in Nat : r.txid = <<height, k>>
    BY <1>9
  <2>2. PICK m \in Nat : t.txid = <<t.block_height, m>> /\ t.block_height \in 0..height-1
    BY DEF Reckoned
  <2>3. t.block_height # height
    BY <1>6, <2>2
  <2> QED
    BY <2>1, <2>2, <2>3
<1>13. \A t \in transactions :
         t.fee_sats # None /\ ~t.is_coinbase => PaidFor(t, Of(inputs', t), outputs')
  BY <1>11, <1>12, StaysPaid DEF Reckoned
<1>14. \A t \in transactions : /\ t.block_height \in 0..height'-1
                               /\ \E k \in Nat : t.txid = <<t.block_height, k>>
  <2>1. \A h \in 0..height-1 : h \in 0..height'-1
    BY <1>6
  <2> QED
    BY <2>1 DEF Reckoned
<1>15. ASSUME NEW k \in DOMAIN draft, NEW t, t = TxEvent(draft[k], height, k)
       PROVE  /\ t.block_height = height /\ t.txid = <<height, k>>
              /\ t.fee_sats # None => PaidFor(t, Of(inputs', t), outputs')
  <2>1. Regular(draft[k], k)
    BY <1>7
  <2>2. t.block_height = height /\ t.txid = <<height, k>>
    BY <1>15, <2>1 DEF TxEvent, Regular
  <2>3. PICK fee : Balanced(Published, draft[k], fee)
    BY DEF Valued
  <2>4. Balanced(outputs', draft[k], fee)
    BY <1>11, <2>3, StaysBalanced
  <2>5. \A r : r \in Of(inputs', t) <=> IsInputRow(r, draft[k], height)
    <3> SUFFICES ASSUME NEW r
                 PROVE  r \in inputs' /\ r.txid = <<height, k>> <=> IsInputRow(r, draft[k], height)
      BY <2>2 DEF Of
    <3>1. r \in inputs => r.txid # <<height, k>>
      <4>1. ASSUME r \in inputs, r.txid = <<height, k>> PROVE FALSE
        <5>1. PICK m \in Nat : r.txid = <<r.block_height, m>>
          BY <4>1 DEF Reckoned
        <5>2. r.block_height \in 0..height-1
          BY <4>1 DEF Below
        <5>3. r.block_height # height
          BY <1>6, <5>2
        <5> QED
          BY <4>1, <5>1, <5>3
      <4> QED
        BY <4>1
    <3>2. IsInputRow(r, coinbase, height) => r.txid # <<height, k>>
      <4>1. <<height, 0>> # <<height, k>>
        BY <1>7
      <4> QED
        BY <1>2, <1>8, <4>1
    <3>3. ASSUME NEW m \in DOMAIN draft, IsInputRow(r, draft[m], height), r.txid = <<height, k>>
          PROVE  m = k
      <4>1. r.txid = <<height, m>>
        BY <1>7, <1>8, <3>3 DEF Regular
      <4> QED
        BY <3>3, <4>1
    <3>4. IsInputRow(r, draft[k], height) => r \in inputs' /\ r.txid = <<height, k>>
      BY <1>3, <1>8, <2>1 DEF Regular
    <3> QED
      BY <1>3, <3>1, <3>2, <3>3, <3>4
  <2>6. t.fee_sats # None => PaidFor(t, Of(inputs', t), outputs')
    BY <1>15, <2>1, <2>4, <2>5, RowPaid DEF Regular
  <2> QED
    BY <2>2, <2>6
<1>16. ASSUME NEW t, IsTxRow(t, body, height)
       PROVE  /\ t.block_height = height /\ \E k \in Nat : t.txid = <<t.block_height, k>>
              /\ t.fee_sats # None /\ ~t.is_coinbase => PaidFor(t, Of(inputs', t), outputs')
  <2>1. PICK n \in DOMAIN body : t = TxEvent(body[n], height, n - 1)
    BY <1>16 DEF IsTxRow
  <2>2. CASE n = 1
    <3>1. t.block_height = height /\ t.txid = coinbase.txid /\ t.is_coinbase = IsCoinbase(coinbase)
      BY <1>5, <2>1, <2>2 DEF TxEvent
    <3> QED
      BY <1>2, <3>1
  <2>3. CASE n # 1
    <3>1. n - 1 \in DOMAIN draft /\ t = TxEvent(draft[n - 1], height, n - 1)
      BY <1>5, <2>1, <2>3
    <3>2. PICK k \in DOMAIN draft : k = n - 1
      BY <3>1
    <3>3. t = TxEvent(draft[k], height, k) /\ k \in Nat
      BY <1>7, <3>1, <3>2
    <3> QED
      BY <1>15, <3>3
  <2> QED
    BY <2>2, <2>3
<1>17. \A t \in transactions' :
         /\ t.block_height \in 0..height'-1 /\ \E k \in Nat : t.txid = <<t.block_height, k>>
         /\ t.fee_sats # None /\ ~t.is_coinbase => PaidFor(t, Of(inputs', t), outputs')
  BY <1>3, <1>6, <1>13, <1>14, <1>16
<1>18. \A c \in blocks' : Pays(c)
  BY <1>3, <1>4 DEF Reckoned
<1> QED
  BY <1>10, <1>17, <1>18 DEF Reckoned, PaidFor, Of, Pays

\* The rows tell of fees that are paid for.
THEOREM ReckonedCorrect == Spec => []Reckoned
<1> USE LedgerAssumption, ParserAssumption
<1>1. Init => Reckoned
  BY DEF Init, Reckoned
<1>2. Drafted /\ Below /\ Joined /\ Valued /\ Reckoned /\ [Next]_vars => Reckoned'
  <2> SUFFICES ASSUME Drafted, Below, Joined, Valued, Reckoned, [Next]_vars PROVE Reckoned'
    OBVIOUS
  <2>1. CASE Include
    <3>1. UNCHANGED <<height, blocks, transactions, inputs, outputs>>
      BY <2>1 DEF Include, rows
    <3> QED
      BY <3>1 DEF Reckoned, PaidFor, Of, Pays
  <2>2. CASE Connect
    BY <2>2, ConnectKeepsReckoned
  <2>3. CASE UNCHANGED vars
    <3>1. UNCHANGED <<height, blocks, transactions, inputs, outputs>>
      BY <2>3 DEF vars, ledger, rows
    <3> QED
      BY <3>1 DEF Reckoned, PaidFor, Of, Pays
  <2> QED
    BY <2>1, <2>2, <2>3 DEF Next
<1> QED
  BY <1>1, <1>2, DraftCorrect, JoinedCorrect, ValuedCorrect, PTL DEF Spec

\* FeesAreTrue.
THEOREM FeesTrue == Spec => []FeesAreTrue
<1>1. Joined /\ Reckoned => FeesAreTrue
  <2> SUFFICES ASSUME OneRow, Reckoned PROVE FeesAreTrue
    BY DEF Joined
  <2>1. ASSUME NEW t \in transactions, t.fee_sats # None, ~t.is_coinbase
        PROVE  t.fee_sats = Sum(Of(inputs, t), LAMBDA i : Spent(i).value_sats) - t.output_value_sats
    <3> DEFINE own == Of(inputs, t)
    <3>1. PICK worth \in [own -> Int] :
            /\ \A i \in own : \E o \in outputs : /\ o.txid = i.prevout_txid
                                                 /\ o.output_index = i.prevout_vout
                                                 /\ o.value_sats = worth[i]
            /\ t.fee_sats = SumFunction(worth) - t.output_value_sats
      BY <2>1 DEF Reckoned, PaidFor
    <3> HIDE DEF own
    <3>2. \A i \in own : Spent(i).value_sats = worth[i]
      <4> SUFFICES ASSUME NEW i \in own PROVE Spent(i).value_sats = worth[i]
        OBVIOUS
      <4>1. PICK o \in outputs : /\ o.txid = i.prevout_txid /\ o.output_index = i.prevout_vout
                                 /\ o.value_sats = worth[i]
        BY <3>1
      <4>2. Spent(i) \in outputs /\ Spent(i).txid = i.prevout_txid
              /\ Spent(i).output_index = i.prevout_vout
        BY <4>1 DEF Spent
      <4>3. Spent(i) = o
        BY <4>1, <4>2 DEF OneRow
      <4> QED
        BY <4>1, <4>3
    <3>3. [i \in own |-> Spent(i).value_sats] = worth
      BY <3>2
    <3>4. Sum(own, LAMBDA i : Spent(i).value_sats) = SumFunction(worth)
      BY <3>3 DEF Sum
    <3> QED
      BY <3>1, <3>4 DEF own
  <2>2. ASSUME NEW b \in blocks, b.fee_unknown_tx_count = 0
        PROVE  b.coinbase_value_sats <= b.block_subsidy_sats + b.total_fees_sats
    BY <2>2 DEF Reckoned, Pays
  <2> QED
    BY <2>1, <2>2 DEF FeesAreTrue
<1> QED
  BY <1>1, JoinedCorrect, ReckonedCorrect, PTL

-----------------------------------------------------------------------------
(* What the row of a block adds up to.                                     *)

\* What the transactions of a payload are like: the coinbase first.
Payload(body) ==
  /\ IsSequence(body) /\ body # <<>>
  /\ \A k \in DOMAIN body :
       /\ IsSequence(body[k].vin) /\ IsSequence(body[k].vout)
       /\ IsCoinbase(body[k]) <=> k = 1
       /\ \A n \in DOMAIN body[k].vin : body[k].vin[n].witness \in Seq(Nat)
       /\ \A n \in DOMAIN body[k].vout : body[k].vout[n].value \in Int
  /\ \A k, l \in DOMAIN body : body[k].txid = body[l].txid => k = l

\* Its rows, all of them.
RowsAre(body, h, txs, ins, outs) ==
  /\ \A t : t \in txs <=> IsTxRow(t, body, h)
  /\ \A r : r \in ins <=> \E k \in DOMAIN body : IsInputRow(r, body[k], h)
  /\ \A r : r \in outs <=> \E k \in DOMAIN body : IsOutputRow(r, body[k], h)

EventsOf(body, h) == [n \in DOMAIN body |-> TxEvent(body[n], h, n - 1)]
InsOf(body, h) == [k \in DOMAIN body |-> InputEvents(body[k], h)]
OutsOf(body, h) == [k \in DOMAIN body |-> OutputEvents(body[k], h)]
Inputs(body) == [k \in DOMAIN body |-> DOMAIN body[k].vin]
Outputs(body) == [k \in DOMAIN body |-> DOMAIN body[k].vout]

\* A payload has finitely many of each.
LEMMA PayloadFinite ==
  ASSUME NEW body, Payload(body)
  PROVE  /\ IsFiniteSet(DOMAIN body) /\ 1 \in DOMAIN body /\ DOMAIN body \subseteq Nat
         /\ \A k \in DOMAIN body :
              /\ IsFiniteSet(Inputs(body)[k]) /\ IsFiniteSet(Outputs(body)[k])
              /\ Inputs(body)[k] = DOMAIN body[k].vin /\ Outputs(body)[k] = DOMAIN body[k].vout
              /\ Cardinality(Inputs(body)[k]) = Len(body[k].vin)
              /\ Cardinality(Outputs(body)[k]) = Len(body[k].vout)
              /\ Inputs(body)[k] \subseteq Nat /\ Outputs(body)[k] \subseteq Nat
<1>1. IsSequence(body) /\ body # <<>>
  BY DEF Payload
<1>2. \A s : IsSequence(s) => /\ IsFiniteSet(DOMAIN s) /\ Cardinality(DOMAIN s) = Len(s)
                              /\ DOMAIN s = 1..Len(s) /\ Len(s) \in Nat
  BY SequenceDomain, SequenceFacts
<1>3. 1 \in DOMAIN body
  <2>1. body \in Seq(ToSet(body))
    BY <1>1 DEF IsSequence
  <2> QED
    BY <1>1, <2>1
<1>4. IsFiniteSet(DOMAIN body) /\ DOMAIN body \subseteq Nat
  BY <1>1, <1>2
<1>5. ASSUME NEW k \in DOMAIN body
      PROVE  /\ Inputs(body)[k] = DOMAIN body[k].vin /\ Outputs(body)[k] = DOMAIN body[k].vout
             /\ IsSequence(body[k].vin) /\ IsSequence(body[k].vout)
  BY DEF Payload, Inputs, Outputs
<1>6. \A s : IsSequence(s) => DOMAIN s \subseteq Nat
  BY <1>2
<1> QED
  BY <1>2, <1>3, <1>4, <1>5, <1>6

\* The rows of the inputs fall into those of each transaction.
LEMMA InputParts ==
  ASSUME NEW body, Payload(body), NEW h, NEW txs, NEW ins, NEW outs,
         RowsAre(body, h, txs, ins, outs)
  PROVE  Parts(InsOf(body, h), DOMAIN body, Inputs(body), ins)
<1> DEFINE b == InsOf(body, h)
           Row(k, n) == InputEvent(body[k], body[k].vin[n], n, h)
<1>1. \A k \in DOMAIN body : \A n \in Inputs(body)[k] : b[k][n] = Row(k, n)
  BY DEF InsOf, InputEvents, Inputs
<1>2. \A k \in DOMAIN body : \A n \in Inputs(body)[k] :
        n \in Nat /\ Row(k, n).txid = body[k].txid /\ Row(k, n).input_index = n - 1
  BY PayloadFinite, InputFields
<1>3. \A r : r \in ins <=> \E k \in DOMAIN body : \E n \in Inputs(body)[k] : r = Row(k, n)
  BY DEF RowsAre, IsInputRow, Inputs
<1>4. \A k, l \in DOMAIN body : body[k].txid = body[l].txid => k = l
  BY DEF Payload
<1> HIDE DEF b, Row
<1>5. \A k \in DOMAIN body : \A n \in Inputs(body)[k] : b[k][n] \in ins
  BY <1>1, <1>3
<1>6. \A r \in ins : \E k \in DOMAIN body : \E n \in Inputs(body)[k] : r = b[k][n]
  BY <1>1, <1>3
<1>7. ASSUME NEW k \in DOMAIN body, NEW l \in DOMAIN body,
             NEW n \in Inputs(body)[k], NEW m \in Inputs(body)[l], b[k][n] = b[l][m]
      PROVE  k = l /\ n = m
  <2>1. Row(k, n) = Row(l, m)
    BY <1>1, <1>7
  <2>2. k = l
    BY <1>2, <1>4, <2>1
  <2>3. n \in Nat /\ m \in Nat /\ n - 1 = m - 1
    BY <1>2, <2>1
  <2> QED
    BY <2>2, <2>3
<1> QED
  BY <1>5, <1>6, <1>7 DEF Parts, b

\* So do those of the outputs.
LEMMA OutputParts ==
  ASSUME NEW body, Payload(body), NEW h, NEW txs, NEW ins, NEW outs,
         RowsAre(body, h, txs, ins, outs)
  PROVE  Parts(OutsOf(body, h), DOMAIN body, Outputs(body), outs)
<1> DEFINE b == OutsOf(body, h)
           Row(k, n) == OutputEvent(body[k], body[k].vout[n], n, h)
<1>1. \A k \in DOMAIN body : \A n \in Outputs(body)[k] : b[k][n] = Row(k, n)
  BY DEF OutsOf, OutputEvents, Outputs
<1>2. \A k \in DOMAIN body : \A n \in Outputs(body)[k] :
        n \in Nat /\ Row(k, n).txid = body[k].txid /\ Row(k, n).output_index = n - 1
  BY PayloadFinite, OutputFields
<1>3. \A r : r \in outs <=> \E k \in DOMAIN body : \E n \in Outputs(body)[k] : r = Row(k, n)
  BY DEF RowsAre, IsOutputRow, Outputs
<1>4. \A k, l \in DOMAIN body : body[k].txid = body[l].txid => k = l
  BY DEF Payload
<1> HIDE DEF b, Row
<1>5. \A k \in DOMAIN body : \A n \in Outputs(body)[k] : b[k][n] \in outs
  BY <1>1, <1>3
<1>6. \A r \in outs : \E k \in DOMAIN body : \E n \in Outputs(body)[k] : r = b[k][n]
  BY <1>1, <1>3
<1>7. ASSUME NEW k \in DOMAIN body, NEW l \in DOMAIN body,
             NEW n \in Outputs(body)[k], NEW m \in Outputs(body)[l], b[k][n] = b[l][m]
      PROVE  k = l /\ n = m
  <2>1. Row(k, n) = Row(l, m)
    BY <1>1, <1>7
  <2>2. k = l
    BY <1>2, <1>4, <2>1
  <2>3. n \in Nat /\ m \in Nat /\ n - 1 = m - 1
    BY <1>2, <2>1
  <2> QED
    BY <2>2, <2>3
<1> QED
  BY <1>5, <1>6, <1>7 DEF Parts, b

\* Some of the rows of some of the parts.
LEMMA SomeParts ==
  ASSUME NEW b, NEW K, NEW D, NEW R, Parts(b, K, D, R),
         NEW L \in SUBSET K, NEW E, \A k \in L : E[k] \subseteq D[k], NEW Q \in SUBSET R,
         \A k \in K : \A n \in D[k] : b[k][n] \in Q <=> k \in L /\ n \in E[k]
  PROVE  Parts(b, L, E, Q)
<1>1. \A k \in L : \A n \in E[k] : b[k][n] \in Q
  OBVIOUS
<1>2. \A r \in Q : \E k \in L : \E n \in E[k] : r = b[k][n]
  <2> SUFFICES ASSUME NEW r \in Q PROVE \E k \in L : \E n \in E[k] : r = b[k][n]
    OBVIOUS
  <2>1. PICK k \in K : \E n \in D[k] : r = b[k][n]
    BY DEF Parts
  <2>2. PICK n \in D[k] : r = b[k][n]
    BY <2>1
  <2> QED
    BY <2>2
<1>3. \A k, l \in L : \A n \in E[k] : \A m \in E[l] : b[k][n] = b[l][m] => k = l /\ n = m
  BY DEF Parts
<1> QED
  BY <1>1, <1>2, <1>3 DEF Parts

\* As many rows as there are summands, counted by their transactions.
LEMMA CountRows ==
  ASSUME NEW b, NEW K, IsFiniteSet(K), NEW D, \A k \in K : IsFiniteSet(D[k]),
         NEW R, Parts(b, K, D, R), NEW E, \A k \in K : E[k] \subseteq D[k], NEW Q \in SUBSET R,
         \A k \in K : \A n \in D[k] : b[k][n] \in Q <=> n \in E[k],
         NEW count, count = [k \in K |-> count[k]], \A k \in K : count[k] = Cardinality(E[k])
  PROVE  SumFunction(count) = Cardinality(Q)
<1>1. Parts(b, K, E, Q)
  BY SomeParts
<1>2. \A k \in K : IsFiniteSet(E[k])
  BY FS_Subset
<1>3. SumFunction([k \in K |-> Cardinality(E[k])]) = Cardinality(Q)
  BY <1>1, <1>2, CardOfParts
<1>4. count = [k \in K |-> Cardinality(E[k])]
  OBVIOUS
<1> QED
  BY <1>3, <1>4

\* What rows are worth, added up by their transactions.
LEMMA AddRows ==
  ASSUME NEW b, NEW K, IsFiniteSet(K), NEW D, \A k \in K : IsFiniteSet(D[k]),
         NEW R, Parts(b, K, D, R), NEW f \in [R -> Int],
         NEW sums, sums = [k \in K |-> sums[k]],
         \A k \in K : sums[k] = Sub(f, b, D, k)
  PROVE  SumFunction(sums) = SumFunction(f)
<1>1. \A r \in R : f[r] \in Int
  OBVIOUS
<1>2. PartSums(f, b, K, D) = SumOver(f, R)
  BY <1>1, SumOfParts
<1>3. sums = [k \in K |-> Sub(f, b, D, k)]
  OBVIOUS
<1>4. f = [r \in R |-> f[r]]
  OBVIOUS
<1> QED
  BY <1>2, <1>3, <1>4 DEF PartSums, SumOver

\* The rows of a payload's transactions, each at its place.
LEMMA EventsAre ==
  ASSUME NEW body, Payload(body), NEW h
  PROVE  LET events == EventsOf(body, h) IN
         /\ DOMAIN events = DOMAIN body /\ events # <<>>
         /\ \A k \in DOMAIN body : /\ events[k] = TxEvent(body[k], h, k - 1)
                                   /\ events[k].txid = body[k].txid
                                   /\ events[k].is_coinbase <=> k = 1
<1> DEFINE events == EventsOf(body, h)
<1>1. DOMAIN events = DOMAIN body /\ \A k \in DOMAIN body : events[k] = TxEvent(body[k], h, k - 1)
  BY DEF EventsOf
<1>2. events # <<>>
  <2>1. 1 \in DOMAIN events
    BY <1>1, PayloadFinite
  <2> HIDE DEF events
  <2> QED
    BY <2>1
<1>3. \A k \in DOMAIN body : IsCoinbase(body[k]) <=> k = 1
  BY DEF Payload
<1>4. \A tx, x : TxEvent(tx, h, x).is_coinbase = IsCoinbase(tx) /\ TxEvent(tx, h, x).txid = tx.txid
  BY DEF TxEvent
<1> HIDE DEF events
<1> QED
  BY <1>1, <1>2, <1>3, <1>4 DEF events

\* As many rows of transactions as transactions, of whatever kind.
LEMMA CountTxs ==
  ASSUME NEW body, Payload(body), NEW h, NEW txs, NEW ins, NEW outs,
         RowsAre(body, h, txs, ins, outs),
         NEW A \in SUBSET DOMAIN body, NEW B \in SUBSET txs,
         \A k \in DOMAIN body : k \in A <=> EventsOf(body, h)[k] \in B
  PROVE  Cardinality(A) = Cardinality(B)
<1> DEFINE events == EventsOf(body, h)
           f == [k \in A |-> events[k]]
<1>1. /\ DOMAIN events = DOMAIN body
      /\ \A k \in DOMAIN body : /\ events[k] = TxEvent(body[k], h, k - 1)
                                /\ events[k].txid = body[k].txid
  BY EventsAre
<1>2. \A k, l \in DOMAIN body : body[k].txid = body[l].txid => k = l
  BY DEF Payload
<1>3. \A t \in txs : \E k \in DOMAIN body : t = events[k]
  BY <1>1 DEF RowsAre, IsTxRow
<1> HIDE DEF events
<1>4. \A k \in A : f[k] \in B
  BY DEF events
<1>5. f \in [A -> B]
  BY <1>4
<1>6. \A t \in B : \E k \in A : t = f[k]
  <2> SUFFICES ASSUME NEW t \in B PROVE \E k \in A : t = f[k]
    OBVIOUS
  <2>1. PICK k \in DOMAIN body : t = events[k]
    BY <1>3
  <2>2. k \in A
    BY <2>1 DEF events
  <2> QED
    BY <2>1, <2>2
<1>7. \A k, l \in A : f[k] = f[l] => k = l
  BY <1>1, <1>2
<1>8. f \in Bijection(A, B)
  <2>1. IsInjective(f)
    BY <1>5, <1>7 DEF IsInjective
  <2> HIDE DEF f
  <2> QED
    BY <1>5, <1>6, <2>1 DEF Bijection, Injection, Surjection
<1>9. IsFiniteSet(A)
  BY PayloadFinite, FS_Subset
<1>10. ExistsBijection(A, B)
  BY <1>8 DEF ExistsBijection
<1> QED
  BY <1>9, <1>10, FS_Bijection

\* A transaction's own rows are those of its inputs and outputs.
LEMMA OwnRows ==
  ASSUME NEW body, Payload(body), NEW h, NEW txs, NEW ins, NEW outs,
         RowsAre(body, h, txs, ins, outs), NEW k \in DOMAIN body
  PROVE  /\ \A r : r \in Of(ins, EventsOf(body, h)[k])
                     <=> \E n \in DOMAIN body[k].vin : r = InputEvents(body[k], h)[n]
         /\ \A r : r \in Of(outs, EventsOf(body, h)[k])
                     <=> \E n \in DOMAIN body[k].vout : r = OutputEvents(body[k], h)[n]
<1> DEFINE t == EventsOf(body, h)[k]
<1>1. t.txid = body[k].txid
  BY EventsAre
<1>2. \A l \in DOMAIN body : body[l].txid = body[k].txid => l = k
  BY DEF Payload
<1>3. \A r, l : IsInputRow(r, body[l], h) => r.txid = body[l].txid
  BY InputFields DEF IsInputRow
<1>4. \A r, l : IsOutputRow(r, body[l], h) => r.txid = body[l].txid
  BY OutputFields DEF IsOutputRow
<1>5. \A r : IsInputRow(r, body[k], h)
               <=> \E n \in DOMAIN body[k].vin : r = InputEvents(body[k], h)[n]
  BY DEF IsInputRow, InputEvents
<1>6. \A r : IsOutputRow(r, body[k], h)
               <=> \E n \in DOMAIN body[k].vout : r = OutputEvents(body[k], h)[n]
  BY DEF IsOutputRow, OutputEvents
<1> HIDE DEF t
<1>7. \A r : r \in Of(ins, t) <=> IsInputRow(r, body[k], h)
  BY <1>1, <1>2, <1>3 DEF Of, RowsAre
<1>8. \A r : r \in Of(outs, t) <=> IsOutputRow(r, body[k], h)
  BY <1>1, <1>2, <1>4 DEF Of, RowsAre
<1> QED
  BY <1>5, <1>6, <1>7, <1>8 DEF t

\* What a transaction's row counts and adds up of the rows of its inputs and outputs.
InsOfType(ins, type) == {n \in DOMAIN ins : ins[n].prevout_type = type}
OutsOfType(outs, type) == {n \in DOMAIN outs : outs[n].script_type = type}
WithWitness(ins) == {n \in DOMAIN ins : ins[n].witness_item_count > 0}
OpReturns(outs) == {n \in DOMAIN outs : outs[n].is_op_return}
Amounts(outs) == [n \in DOMAIN outs |-> outs[n].value_sats]
WitnessBytes(ins) == [n \in DOMAIN ins |-> ins[n].witness_data_bytes]

\* The fields of a transaction's row that the block's row adds up.
LEMMA TxSums ==
  ASSUME NEW tx, NEW h, NEW x
  PROVE  LET t == TxEvent(tx, h, x)
             ins == InputEvents(tx, h)
             outs == OutputEvents(tx, h)
         IN /\ t.vin_count = Len(ins) /\ t.vout_count = Len(outs)
            /\ t.output_value_sats = SumFunction(Amounts(outs))
            /\ t.witness_input_count = Cardinality(WithWitness(ins))
            /\ t.witness_data_bytes = SumFunction(WitnessBytes(ins))
            /\ t.signals_rbf <=> \E n \in DOMAIN ins : ins[n].signals_rbf
            /\ t.op_return_count = Cardinality(OpReturns(outs))
            /\ \A type \in SCRIPT_TYPES :
                 /\ t.vin_type[type] = Cardinality(InsOfType(ins, type))
                 /\ t.vout_type[type] = Cardinality(OutsOfType(outs, type))
<1> DEFINE t == TxEvent(tx, h, x)
           ins == InputEvents(tx, h)
           outs == OutputEvents(tx, h)
<1>1. t.vin_count = Len(ins) /\ t.vout_count = Len(outs)
  BY DEF TxEvent
<1>2. t.output_value_sats = SumFunction(Amounts(outs))
  BY DEF TxEvent, Total, Amounts
<1>3. t.witness_input_count = Cardinality(WithWitness(ins))
  BY DEF TxEvent, HowMany, WithWitness
<1>4. t.witness_data_bytes = SumFunction(WitnessBytes(ins))
  BY DEF TxEvent, Total, WitnessBytes
<1>5. t.signals_rbf <=> \E n \in DOMAIN ins : ins[n].signals_rbf
  <2>1. t.signals_rbf = Signals(ins)
    BY DEF TxEvent
  <2> QED
    BY <2>1 DEF Signals
<1>6. t.op_return_count = Cardinality(OpReturns(outs))
  BY DEF TxEvent, HowMany, OpReturns
<1>7. ASSUME NEW type \in SCRIPT_TYPES
      PROVE  t.vin_type[type] = Cardinality(InsOfType(ins, type))
  <2> DEFINE types == [n \in DOMAIN ins |-> ins[n].prevout_type]
  <2>1. t.vin_type = TypeCounts(types)
    BY DEF TxEvent
  <2>2. TypeCounts(types)[type] = Cardinality({n \in DOMAIN types : types[n] = type})
    BY DEF TypeCounts, HowMany
  <2>3. {n \in DOMAIN types : types[n] = type} = InsOfType(ins, type)
    BY DEF InsOfType
  <2> HIDE DEF t, types, ins
  <2> QED
    BY <2>1, <2>2, <2>3
<1>8. ASSUME NEW type \in SCRIPT_TYPES
      PROVE  t.vout_type[type] = Cardinality(OutsOfType(outs, type))
  <2> DEFINE types == [n \in DOMAIN outs |-> outs[n].script_type]
  <2>1. t.vout_type = TypeCounts(types)
    BY DEF TxEvent
  <2>2. TypeCounts(types)[type] = Cardinality({n \in DOMAIN types : types[n] = type})
    BY DEF TypeCounts, HowMany
  <2>3. {n \in DOMAIN types : types[n] = type} = OutsOfType(outs, type)
    BY DEF OutsOfType
  <2> HIDE DEF t, types, outs
  <2> QED
    BY <2>1, <2>2, <2>3
<1> HIDE DEF t, ins, outs
<1> QED
  BY <1>1, <1>2, <1>3, <1>4, <1>5, <1>6, <1>7, <1>8 DEF t, ins, outs

\* What a block's row counts and adds up of the rows of its transactions.
Regulars(events) == {n \in DOMAIN events : ~events[n].is_coinbase}
Signallers(events) == {n \in Regulars(events) : events[n].signals_rbf}
Segwits(events) == {n \in DOMAIN events : events[n].witness_input_count > 0}
Carriers(events) == {n \in DOMAIN events : events[n].op_return_count > 0}
VinCounts(events) == [n \in DOMAIN events |-> events[n].vin_count]
VoutCounts(events) == [n \in DOMAIN events |-> events[n].vout_count]
DataBytes(events) == [n \in DOMAIN events |-> events[n].witness_data_bytes]
RegularValues(events) == [n \in Regulars(events) |-> events[n].output_value_sats]
VinTypes(events, type) == [n \in DOMAIN events |-> events[n].vin_type[type]]
VoutTypes(events, type) == [n \in DOMAIN events |-> events[n].vout_type[type]]

\* The fields of a block's row that add up its transactions' rows.
LEMMA BlockSums ==
  ASSUME NEW h, NEW body, body # <<>>, NEW dataset
  PROVE  LET b == AggregateBlock([height |-> h, tx |-> body], dataset).block
             events == EventsOf(body, h)
         IN /\ b.height = h
            /\ b.total_vin_count = SumFunction(VinCounts(events))
            /\ b.total_vout_count = SumFunction(VoutCounts(events))
            /\ b.regular_tx_count = Cardinality(Regulars(events))
            /\ events # <<>> => b.coinbase_value_sats = events[1].output_value_sats
            /\ b.regular_output_value_sats = SumFunction(RegularValues(events))
            /\ b.rbf_tx_count = Cardinality(Signallers(events))
            /\ b.segwit_tx_count = Cardinality(Segwits(events))
            /\ b.witness_data_bytes = SumFunction(DataBytes(events))
            /\ b.op_return_tx_count = Cardinality(Carriers(events))
            /\ \A type \in SCRIPT_TYPES :
                 /\ b.vin_type[type] = SumFunction(VinTypes(events, type))
                 /\ b.vout_type[type] = SumFunction(VoutTypes(events, type))
<1> DEFINE block == [height |-> h, tx |-> body]
           events == EventsOf(body, h)
           those == Those(LAMBDA t : ~t.is_coinbase, events)
           b == BlockEvent(block, events, dataset)
<1>1. AggregateBlock(block, dataset).block = b
  BY DEF AggregateBlock, EventsOf
<1>2. block.tx = body /\ block.height = h
  OBVIOUS
<1> HIDE DEF events, block
<1>3. b.height = h
  BY <1>2 DEF BlockEvent
<1>4. /\ b.total_vin_count = SumFunction(VinCounts(events))
      /\ b.total_vout_count = SumFunction(VoutCounts(events))
      /\ b.witness_data_bytes = SumFunction(DataBytes(events))
  BY DEF BlockEvent, Total, VinCounts, VoutCounts, DataBytes
<1>5. events # <<>> => b.coinbase_value_sats = events[1].output_value_sats
  BY DEF BlockEvent
<1>6. DOMAIN those = Regulars(events) /\ \A n \in Regulars(events) : those[n] = events[n]
  BY DEF Those, Regulars
<1>7. b.regular_tx_count = Cardinality(DOMAIN those)
  BY DEF BlockEvent, Size
<1>8. b.regular_output_value_sats = SumFunction([n \in DOMAIN those |-> those[n].output_value_sats])
  BY DEF BlockEvent, Total
<1>9. b.rbf_tx_count = Cardinality({n \in DOMAIN those : those[n].signals_rbf})
  BY DEF BlockEvent, HowMany
<1>10. /\ b.segwit_tx_count = Cardinality(Segwits(events))
       /\ b.op_return_tx_count = Cardinality(Carriers(events))
  BY DEF BlockEvent, HowMany, Segwits, Carriers
<1>11. ASSUME NEW type \in SCRIPT_TYPES
       PROVE  /\ b.vin_type[type] = SumFunction(VinTypes(events, type))
              /\ b.vout_type[type] = SumFunction(VoutTypes(events, type))
  BY <1>11 DEF BlockEvent, Total, VinTypes, VoutTypes
<1> HIDE DEF those, b
<1>12. /\ [n \in DOMAIN those |-> those[n].output_value_sats] = RegularValues(events)
       /\ {n \in DOMAIN those : those[n].signals_rbf} = Signallers(events)
  BY <1>6 DEF RegularValues, Signallers
<1> QED
  BY <1>1, <1>3, <1>4, <1>5, <1>6, <1>7, <1>8, <1>9, <1>10, <1>11, <1>12 DEF block, events

\* A block's row adds up its transactions, inputs and outputs: how many there are,
\* of which types and kinds, and what they are worth.
AddsUpRows(b, ins, outs) ==
  /\ b.total_vin_count = Cardinality(ins) /\ b.total_vout_count = Cardinality(outs)
  /\ \A type \in SCRIPT_TYPES :
       /\ b.vin_type[type] = Cardinality({i \in ins : i.prevout_type = type})
       /\ b.vout_type[type] = Cardinality({o \in outs : o.script_type = type})

AddsUpTxs(b, txs, ins, outs) ==
  /\ b.regular_tx_count = Cardinality({t \in txs : ~t.is_coinbase})
  /\ b.rbf_tx_count = Cardinality({t \in txs : \E i \in Of(ins, t) : i.signals_rbf})
  /\ b.segwit_tx_count
       = Cardinality({t \in txs : \E i \in Of(ins, t) : i.witness_item_count > 0})
  /\ b.op_return_tx_count = Cardinality({t \in txs : \E o \in Of(outs, t) : o.is_op_return})

AddsUpAmounts(b, ins, outs) ==
  /\ b.coinbase_value_sats = SumFunction([o \in {p \in outs : p.is_coinbase} |-> o.value_sats])
  /\ b.regular_output_value_sats
       = SumFunction([o \in {p \in outs : ~p.is_coinbase} |-> o.value_sats])
  /\ b.witness_data_bytes = SumFunction([i \in ins |-> i.witness_data_bytes])

AddsUp(b, txs, ins, outs) ==
  AddsUpRows(b, ins, outs) /\ AddsUpTxs(b, txs, ins, outs) /\ AddsUpAmounts(b, ins, outs)

\* What the rows of a payload are.
LEMMA RowFields ==
  ASSUME NEW body, Payload(body), NEW h, NEW k \in DOMAIN body
  PROVE  /\ DOMAIN InputEvents(body[k], h) = DOMAIN body[k].vin
         /\ DOMAIN OutputEvents(body[k], h) = DOMAIN body[k].vout
         /\ Len(InputEvents(body[k], h)) = Len(body[k].vin)
         /\ Len(OutputEvents(body[k], h)) = Len(body[k].vout)
         /\ \A n \in DOMAIN body[k].vin :
              LET r == InputEvents(body[k], h)[n] IN
              /\ k = 1 => ~r.signals_rbf
              /\ r.witness_item_count \in Nat /\ r.witness_data_bytes \in Int
         /\ \A n \in DOMAIN body[k].vout :
              LET r == OutputEvents(body[k], h)[n] IN
              /\ r.value_sats \in Int /\ (r.is_coinbase <=> k = 1)
<1> DEFINE tx == body[k]
<1>1. /\ IsSequence(tx.vin) /\ IsSequence(tx.vout) /\ (IsCoinbase(tx) <=> k = 1)
      /\ \A n \in DOMAIN tx.vin : tx.vin[n].witness \in Seq(Nat)
      /\ \A n \in DOMAIN tx.vout : tx.vout[n].value \in Int
  BY DEF Payload
<1> HIDE DEF tx
<1>2. Len(tx.vin) \in Nat /\ DOMAIN tx.vin = 1..Len(tx.vin)
      /\ Len(tx.vout) \in Nat /\ DOMAIN tx.vout = 1..Len(tx.vout)
  BY <1>1, SequenceFacts
<1>3. /\ InputEvents(tx, h) = [n \in DOMAIN tx.vin |-> InputEvents(tx, h)[n]]
      /\ \A n \in DOMAIN tx.vin : InputEvents(tx, h)[n] = InputEvent(tx, tx.vin[n], n, h)
  BY DEF InputEvents
<1>4. /\ OutputEvents(tx, h) = [n \in DOMAIN tx.vout |-> OutputEvents(tx, h)[n]]
      /\ \A n \in DOMAIN tx.vout : OutputEvents(tx, h)[n] = OutputEvent(tx, tx.vout[n], n, h)
  BY DEF OutputEvents
<1>5. /\ DOMAIN InputEvents(tx, h) = DOMAIN tx.vin /\ Len(InputEvents(tx, h)) = Len(tx.vin)
      /\ DOMAIN OutputEvents(tx, h) = DOMAIN tx.vout /\ Len(OutputEvents(tx, h)) = Len(tx.vout)
  BY <1>2, <1>3, <1>4, FunctionIsSequence
<1>6. ASSUME NEW n \in DOMAIN tx.vin
      PROVE  LET r == InputEvent(tx, tx.vin[n], n, h) IN
             /\ k = 1 => ~r.signals_rbf
             /\ r.witness_item_count \in Nat /\ r.witness_data_bytes \in Int
  <2> DEFINE r == InputEvent(tx, tx.vin[n], n, h)
             w == tx.vin[n].witness
  <2>1. r.signals_rbf = DecodeSequence(tx.vin[n].sequence, tx.version, IsCoinbase(tx)).signals_rbf
    BY DEF InputEvent
  <2>2. k = 1 => ~r.signals_rbf
    BY <1>1, <2>1 DEF DecodeSequence
  <2>3. w \in Seq(Nat)
    BY <1>1
  <2>4. r.witness_item_count = Len(w)
    BY DEF InputEvent
  <2>5. r.witness_data_bytes = SumFunction([m \in DOMAIN w |-> w[m]])
    BY DEF InputEvent, Total
  <2> HIDE DEF w, r
  <2>6. Len(w) \in Nat /\ DOMAIN w = 1..Len(w) /\ w = [m \in DOMAIN w |-> w[m]]
        /\ \A m \in DOMAIN w : w[m] \in Int
    BY <2>3
  <2>7. IsFiniteSet(DOMAIN w)
    <3>1. 1 \in Int /\ Len(w) \in Int
      BY <2>6
    <3> QED
      BY <2>6, <3>1, FS_Interval
  <2>8. SumFunction(w) \in Int
    BY <2>6, <2>7, SumIsInt
  <2> QED
    BY <2>2, <2>4, <2>5, <2>6, <2>8 DEF r
<1>7. ASSUME NEW n \in DOMAIN tx.vout
      PROVE  LET r == OutputEvent(tx, tx.vout[n], n, h) IN
             r.value_sats \in Int /\ (r.is_coinbase <=> k = 1)
  BY <1>1, OutputFields
<1> QED
  BY <1>3, <1>4, <1>5, <1>6, <1>7 DEF tx

\* The counts of inputs and outputs, and those of their types.
LEMMA AddsCounts ==
  ASSUME NEW body, Payload(body), NEW h, NEW txs, NEW ins, NEW outs,
         RowsAre(body, h, txs, ins, outs), NEW dataset
  PROVE  AddsUpRows(AggregateBlock([height |-> h, tx |-> body], dataset).block, ins, outs)
<1> DEFINE b == AggregateBlock([height |-> h, tx |-> body], dataset).block
           events == EventsOf(body, h)
           K == DOMAIN body
           In == InsOf(body, h)
           Out == OutsOf(body, h)
<1>1. /\ DOMAIN events = K /\ \A k \in K : events[k] = TxEvent(body[k], h, k - 1)
  BY EventsAre
<1>2. body # <<>>
  BY DEF Payload
<1>3. /\ b.total_vin_count = SumFunction(VinCounts(events))
      /\ b.total_vout_count = SumFunction(VoutCounts(events))
      /\ \A type \in SCRIPT_TYPES :
           /\ b.vin_type[type] = SumFunction(VinTypes(events, type))
           /\ b.vout_type[type] = SumFunction(VoutTypes(events, type))
  BY <1>2, BlockSums
<1> HIDE DEF b, events
<1>4. /\ Parts(In, K, Inputs(body), ins) /\ Parts(Out, K, Outputs(body), outs)
  BY InputParts, OutputParts
<1>5. /\ IsFiniteSet(K)
      /\ \A k \in K : /\ IsFiniteSet(Inputs(body)[k]) /\ IsFiniteSet(Outputs(body)[k])
                      /\ Inputs(body)[k] = DOMAIN body[k].vin
                      /\ Outputs(body)[k] = DOMAIN body[k].vout
                      /\ Cardinality(Inputs(body)[k]) = Len(body[k].vin)
                      /\ Cardinality(Outputs(body)[k]) = Len(body[k].vout)
  BY PayloadFinite
<1>6. /\ \A k \in K : In[k] = InputEvents(body[k], h) /\ Out[k] = OutputEvents(body[k], h)
  BY DEF InsOf, OutsOf
<1>7. \A k \in K : /\ DOMAIN In[k] = Inputs(body)[k] /\ DOMAIN Out[k] = Outputs(body)[k]
                   /\ Len(In[k]) = Cardinality(Inputs(body)[k])
                   /\ Len(Out[k]) = Cardinality(Outputs(body)[k])
  BY <1>5, <1>6, RowFields
<1>8. \A k \in K :
        /\ events[k].vin_count = Cardinality(Inputs(body)[k])
        /\ events[k].vout_count = Cardinality(Outputs(body)[k])
        /\ \A type \in SCRIPT_TYPES :
             /\ events[k].vin_type[type] = Cardinality(InsOfType(In[k], type))
             /\ events[k].vout_type[type] = Cardinality(OutsOfType(Out[k], type))
  BY <1>1, <1>6, <1>7, TxSums
<1> HIDE DEF In, Out
<1>9. PICK N : N = K
  OBVIOUS
<1>10. /\ Parts(In, N, Inputs(body), ins) /\ Parts(Out, N, Outputs(body), outs)
       /\ IsFiniteSet(N)
       /\ \A k \in N : IsFiniteSet(Inputs(body)[k]) /\ IsFiniteSet(Outputs(body)[k])
  BY <1>4, <1>5, <1>9
<1>11. b.total_vin_count = Cardinality(ins)
  <2>1. PICK count : count = VinCounts(events)
    OBVIOUS
  <2>2. count = [k \in N |-> count[k]] /\ \A k \in N : count[k] = Cardinality(Inputs(body)[k])
    BY <1>1, <1>8, <1>9, <2>1 DEF VinCounts
  <2>3. \A k \in N : \A n \in Inputs(body)[k] : In[k][n] \in ins <=> n \in Inputs(body)[k]
    BY <1>10 DEF Parts
  <2>4. ins \in SUBSET ins /\ \A k \in N : Inputs(body)[k] \subseteq Inputs(body)[k]
    OBVIOUS
  <2>5. SumFunction(count) = Cardinality(ins)
    BY <1>10, <2>2, <2>3, <2>4, CountRows
  <2> QED
    BY <1>1, <1>3, <1>9, <2>1, <2>5
<1>12. b.total_vout_count = Cardinality(outs)
  <2>1. PICK count : count = VoutCounts(events)
    OBVIOUS
  <2>2. count = [k \in N |-> count[k]] /\ \A k \in N : count[k] = Cardinality(Outputs(body)[k])
    BY <1>1, <1>8, <1>9, <2>1 DEF VoutCounts
  <2>3. \A k \in N : \A n \in Outputs(body)[k] : Out[k][n] \in outs <=> n \in Outputs(body)[k]
    BY <1>10 DEF Parts
  <2>4. outs \in SUBSET outs /\ \A k \in N : Outputs(body)[k] \subseteq Outputs(body)[k]
    OBVIOUS
  <2>5. SumFunction(count) = Cardinality(outs)
    BY <1>10, <2>2, <2>3, <2>4, CountRows
  <2> QED
    BY <1>1, <1>3, <1>9, <2>1, <2>5
<1>13. ASSUME NEW type \in SCRIPT_TYPES
       PROVE  b.vin_type[type] = Cardinality({i \in ins : i.prevout_type = type})
  <2>1. PICK count : count = VinTypes(events, type)
    OBVIOUS
  <2>2. PICK E : E = [k \in N |-> InsOfType(In[k], type)]
    OBVIOUS
  <2>3. PICK Q : Q = {i \in ins : i.prevout_type = type}
    OBVIOUS
  <2>4. count = [k \in N |-> count[k]] /\ \A k \in N : count[k] = Cardinality(E[k])
    BY <1>1, <1>8, <1>9, <2>1, <2>2 DEF VinTypes
  <2>5. \A k \in N : \A n \in Inputs(body)[k] : In[k][n] \in Q <=> n \in E[k]
    BY <1>7, <1>9, <1>10, <2>2, <2>3 DEF Parts, InsOfType
  <2>6. Q \in SUBSET ins /\ \A k \in N : E[k] \subseteq Inputs(body)[k]
    BY <1>7, <1>9, <2>2, <2>3 DEF InsOfType
  <2>7. SumFunction(count) = Cardinality(Q)
    BY <1>10, <2>4, <2>5, <2>6, CountRows
  <2>8. b.vin_type[type] = SumFunction(VinTypes(events, type))
    BY <1>3
  <2> QED
    BY <1>1, <1>9, <2>1, <2>3, <2>7, <2>8
<1>14. ASSUME NEW type \in SCRIPT_TYPES
       PROVE  b.vout_type[type] = Cardinality({o \in outs : o.script_type = type})
  <2>1. PICK count : count = VoutTypes(events, type)
    OBVIOUS
  <2>2. PICK E : E = [k \in N |-> OutsOfType(Out[k], type)]
    OBVIOUS
  <2>3. PICK Q : Q = {o \in outs : o.script_type = type}
    OBVIOUS
  <2>4. count = [k \in N |-> count[k]] /\ \A k \in N : count[k] = Cardinality(E[k])
    BY <1>1, <1>8, <1>9, <2>1, <2>2 DEF VoutTypes
  <2>5. \A k \in N : \A n \in Outputs(body)[k] : Out[k][n] \in Q <=> n \in E[k]
    BY <1>7, <1>9, <1>10, <2>2, <2>3 DEF Parts, OutsOfType
  <2>6. Q \in SUBSET outs /\ \A k \in N : E[k] \subseteq Outputs(body)[k]
    BY <1>7, <1>9, <2>2, <2>3 DEF OutsOfType
  <2>7. SumFunction(count) = Cardinality(Q)
    BY <1>10, <2>4, <2>5, <2>6, CountRows
  <2>8. b.vout_type[type] = SumFunction(VoutTypes(events, type))
    BY <1>3
  <2> QED
    BY <1>1, <1>9, <2>1, <2>3, <2>7, <2>8
<1> QED
  BY <1>11, <1>12, <1>13, <1>14 DEF AddsUpRows, b

\* The counts of transactions.
LEMMA AddsTxs ==
  ASSUME NEW body, Payload(body), NEW h, NEW txs, NEW ins, NEW outs,
         RowsAre(body, h, txs, ins, outs), NEW dataset
  PROVE  AddsUpTxs(AggregateBlock([height |-> h, tx |-> body], dataset).block, txs, ins, outs)
<1> DEFINE b == AggregateBlock([height |-> h, tx |-> body], dataset).block
           events == EventsOf(body, h)
           K == DOMAIN body
<1>1. /\ DOMAIN events = K
      /\ \A k \in K : events[k] = TxEvent(body[k], h, k - 1) /\ (events[k].is_coinbase <=> k = 1)
  BY EventsAre
<1>2. body # <<>>
  BY DEF Payload
<1>3. /\ b.regular_tx_count = Cardinality(Regulars(events))
      /\ b.rbf_tx_count = Cardinality(Signallers(events))
      /\ b.segwit_tx_count = Cardinality(Segwits(events))
      /\ b.op_return_tx_count = Cardinality(Carriers(events))
  BY <1>2, BlockSums
<1>4. \A k \in K : \A r : r \in Of(ins, events[k])
                            <=> \E n \in DOMAIN body[k].vin : r = InputEvents(body[k], h)[n]
  BY OwnRows
<1>5. \A k \in K : \A r : r \in Of(outs, events[k])
                            <=> \E n \in DOMAIN body[k].vout : r = OutputEvents(body[k], h)[n]
  BY OwnRows
<1>6. \A k \in K : events[k] \in txs
  BY <1>1 DEF RowsAre, IsTxRow
<1> HIDE DEF b
<1>7. ASSUME NEW A \in SUBSET K, NEW B \in SUBSET txs, \A k \in K : k \in A <=> events[k] \in B
      PROVE  Cardinality(A) = Cardinality(B)
  BY <1>7, CountTxs
<1> HIDE DEF events
<1>8. \A k \in K : /\ DOMAIN InputEvents(body[k], h) = DOMAIN body[k].vin
                   /\ DOMAIN OutputEvents(body[k], h) = DOMAIN body[k].vout
                   /\ IsFiniteSet(DOMAIN body[k].vin) /\ IsFiniteSet(DOMAIN body[k].vout)
  BY RowFields, PayloadFinite
<1>9. b.regular_tx_count = Cardinality({t \in txs : ~t.is_coinbase})
  <2>1. Regulars(events) \in SUBSET K
    BY <1>1 DEF Regulars
  <2>2. \A k \in K : k \in Regulars(events) <=> events[k] \in {t \in txs : ~t.is_coinbase}
    BY <1>1, <1>6 DEF Regulars
  <2> QED
    BY <1>3, <1>7, <2>1, <2>2
<1>10. b.rbf_tx_count = Cardinality({t \in txs : \E i \in Of(ins, t) : i.signals_rbf})
  <2> DEFINE B == {t \in txs : \E i \in Of(ins, t) : i.signals_rbf}
  <2>1. Signallers(events) \in SUBSET K
    BY <1>1 DEF Signallers, Regulars
  <2>2. \A k \in K : k = 1 => \A n \in DOMAIN body[k].vin : ~InputEvents(body[k], h)[n].signals_rbf
    BY RowFields
  <2>3. \A k \in K : events[k].signals_rbf
                       <=> \E n \in DOMAIN body[k].vin : InputEvents(body[k], h)[n].signals_rbf
    BY <1>1, <1>8, TxSums
  <2>4. \A k \in K : k \in Signallers(events) <=> events[k] \in B
    BY <1>1, <1>4, <1>6, <2>2, <2>3 DEF Signallers, Regulars
  <2> QED
    BY <1>3, <1>7, <2>1, <2>4
<1>11. b.segwit_tx_count
         = Cardinality({t \in txs : \E i \in Of(ins, t) : i.witness_item_count > 0})
  <2> DEFINE B == {t \in txs : \E i \in Of(ins, t) : i.witness_item_count > 0}
             With(k) == WithWitness(InputEvents(body[k], h))
  <2>1. Segwits(events) \in SUBSET K
    BY <1>1 DEF Segwits
  <2>2. \A k \in K : events[k].witness_input_count = Cardinality(With(k))
    BY <1>1, TxSums
  <2>3. \A k \in K : \A n : n \in With(k) <=> /\ n \in DOMAIN body[k].vin
                                              /\ InputEvents(body[k], h)[n].witness_item_count > 0
    BY <1>8 DEF WithWitness
  <2> HIDE DEF With
  <2>4. \A k \in K : Cardinality(With(k)) > 0 <=> With(k) # {}
    <3> SUFFICES ASSUME NEW k \in K PROVE Cardinality(With(k)) > 0 <=> With(k) # {}
      OBVIOUS
    <3>1. With(k) \in SUBSET DOMAIN body[k].vin
      BY <2>3
    <3>2. IsFiniteSet(With(k))
      BY <1>8, <3>1, FS_Subset
    <3>3. Cardinality(With(k)) \in Nat /\ (Cardinality(With(k)) = 0 <=> With(k) = {})
      BY <3>2, FS_CardinalityType, FS_EmptySet
    <3> QED
      BY <3>3
  <2>5. \A k \in K : k \in Segwits(events) <=> With(k) # {}
    BY <1>1, <2>2, <2>4 DEF Segwits
  <2>6. ASSUME NEW k \in K PROVE k \in Segwits(events) <=> events[k] \in B
    <3>1. With(k) # {} <=> \E n \in DOMAIN body[k].vin :
                              InputEvents(body[k], h)[n].witness_item_count > 0
      BY <2>3
    <3>2. events[k] \in B <=> \E i \in Of(ins, events[k]) : i.witness_item_count > 0
      BY <1>6
    <3>3. \A r : r \in Of(ins, events[k])
                   <=> \E n \in DOMAIN body[k].vin : r = InputEvents(body[k], h)[n]
      BY <1>4
    <3> HIDE DEF B
    <3> QED
      BY <2>5, <3>1, <3>2, <3>3
  <2> QED
    BY <1>3, <1>7, <2>1, <2>6
<1>12. b.op_return_tx_count = Cardinality({t \in txs : \E o \in Of(outs, t) : o.is_op_return})
  <2> DEFINE B == {t \in txs : \E o \in Of(outs, t) : o.is_op_return}
             With(k) == OpReturns(OutputEvents(body[k], h))
  <2>1. Carriers(events) \in SUBSET K
    BY <1>1 DEF Carriers
  <2>2. \A k \in K : events[k].op_return_count = Cardinality(With(k))
    BY <1>1, TxSums
  <2>3. \A k \in K : \A n : n \in With(k) <=> /\ n \in DOMAIN body[k].vout
                                              /\ OutputEvents(body[k], h)[n].is_op_return
    BY <1>8 DEF OpReturns
  <2> HIDE DEF With
  <2>4. \A k \in K : Cardinality(With(k)) > 0 <=> With(k) # {}
    <3> SUFFICES ASSUME NEW k \in K PROVE Cardinality(With(k)) > 0 <=> With(k) # {}
      OBVIOUS
    <3>1. With(k) \in SUBSET DOMAIN body[k].vout
      BY <2>3
    <3>2. IsFiniteSet(With(k))
      BY <1>8, <3>1, FS_Subset
    <3>3. Cardinality(With(k)) \in Nat /\ (Cardinality(With(k)) = 0 <=> With(k) = {})
      BY <3>2, FS_CardinalityType, FS_EmptySet
    <3> QED
      BY <3>3
  <2>5. \A k \in K : k \in Carriers(events) <=> With(k) # {}
    BY <1>1, <2>2, <2>4 DEF Carriers
  <2>6. ASSUME NEW k \in K PROVE k \in Carriers(events) <=> events[k] \in B
    <3>1. With(k) # {} <=> \E n \in DOMAIN body[k].vout : OutputEvents(body[k], h)[n].is_op_return
      BY <2>3
    <3>2. events[k] \in B <=> \E o \in Of(outs, events[k]) : o.is_op_return
      BY <1>6
    <3>3. \A r : r \in Of(outs, events[k])
                   <=> \E n \in DOMAIN body[k].vout : r = OutputEvents(body[k], h)[n]
      BY <1>5
    <3> HIDE DEF B
    <3> QED
      BY <2>5, <3>1, <3>2, <3>3
  <2> QED
    BY <1>3, <1>7, <2>1, <2>6
<1> QED
  BY <1>9, <1>10, <1>11, <1>12 DEF AddsUpTxs, b

\* The amounts and the witness bytes.
LEMMA AddsAmounts ==
  ASSUME NEW body, Payload(body), NEW h, NEW txs, NEW ins, NEW outs,
         RowsAre(body, h, txs, ins, outs), NEW dataset
  PROVE  AddsUpAmounts(AggregateBlock([height |-> h, tx |-> body], dataset).block, ins, outs)
<1> DEFINE b == AggregateBlock([height |-> h, tx |-> body], dataset).block
           events == EventsOf(body, h)
           K == DOMAIN body
           In == InsOf(body, h)
           Out == OutsOf(body, h)
<1>1. /\ DOMAIN events = K /\ events # <<>>
      /\ \A k \in K : events[k] = TxEvent(body[k], h, k - 1) /\ (events[k].is_coinbase <=> k = 1)
  BY EventsAre
<1>2. body # <<>>
  BY DEF Payload
<1>3. /\ b.coinbase_value_sats = events[1].output_value_sats
      /\ b.regular_output_value_sats = SumFunction(RegularValues(events))
      /\ b.witness_data_bytes = SumFunction(DataBytes(events))
  BY <1>1, <1>2, BlockSums
<1> HIDE DEF b, events
<1>4. Parts(In, K, Inputs(body), ins) /\ Parts(Out, K, Outputs(body), outs)
  BY InputParts, OutputParts
<1>5. /\ IsFiniteSet(K) /\ 1 \in K
      /\ \A k \in K : /\ IsFiniteSet(Inputs(body)[k]) /\ IsFiniteSet(Outputs(body)[k])
                      /\ Inputs(body)[k] = DOMAIN body[k].vin
                      /\ Outputs(body)[k] = DOMAIN body[k].vout
  BY PayloadFinite
<1>6. \A k \in K : In[k] = InputEvents(body[k], h) /\ Out[k] = OutputEvents(body[k], h)
  BY DEF InsOf, OutsOf
<1>7. \A k \in K : DOMAIN In[k] = Inputs(body)[k] /\ DOMAIN Out[k] = Outputs(body)[k]
  BY <1>5, <1>6, RowFields
<1>8. /\ \A k \in K : \A n \in Inputs(body)[k] : In[k][n].witness_data_bytes \in Int
      /\ \A k \in K : \A n \in Outputs(body)[k] : /\ Out[k][n].value_sats \in Int
                                                  /\ Out[k][n].is_coinbase <=> k = 1
  BY <1>5, <1>6, RowFields
<1>9. \A k \in K : /\ events[k].output_value_sats = SumFunction(Amounts(Out[k]))
                   /\ events[k].witness_data_bytes = SumFunction(WitnessBytes(In[k]))
  BY <1>1, <1>6, TxSums
<1> HIDE DEF In, Out
<1>10. PICK N : N = K
  OBVIOUS
<1>11. b.witness_data_bytes = SumFunction([i \in ins |-> i.witness_data_bytes])
  <2>1. PICK f : f = [i \in ins |-> i.witness_data_bytes]
    OBVIOUS
  <2>2. PICK sums : sums = DataBytes(events)
    OBVIOUS
  <2>3. f \in [ins -> Int]
    <3>1. \A i \in ins : i.witness_data_bytes \in Int
      BY <1>4, <1>8 DEF Parts
    <3> QED
      BY <2>1, <3>1
  <2>4. sums = [k \in N |-> sums[k]] /\ \A k \in N : sums[k] = SumFunction(WitnessBytes(In[k]))
    BY <1>1, <1>9, <1>10, <2>2 DEF DataBytes
  <2>5. \A k \in N : WitnessBytes(In[k]) = [n \in Inputs(body)[k] |-> f[In[k][n]]]
    <3> SUFFICES ASSUME NEW k \in N
                 PROVE  WitnessBytes(In[k]) = [n \in Inputs(body)[k] |-> f[In[k][n]]]
      OBVIOUS
    <3>1. \A n \in Inputs(body)[k] : f[In[k][n]] = In[k][n].witness_data_bytes
      BY <1>4, <1>10, <2>1 DEF Parts
    <3> QED
      BY <1>7, <1>10, <3>1 DEF WitnessBytes
  <2>6. \A k \in N : sums[k] = Sub(f, In, Inputs(body), k)
    BY <2>4, <2>5 DEF Sub
  <2>7. /\ Parts(In, N, Inputs(body), ins) /\ IsFiniteSet(N)
        /\ \A k \in N : IsFiniteSet(Inputs(body)[k])
    BY <1>4, <1>5, <1>10
  <2>8. sums = [k \in N |-> sums[k]]
    BY <2>4
  <2>9. SumFunction(sums) = SumFunction(f)
    BY ONLY <2>3, <2>6, <2>7, <2>8, AddRows
  <2> QED
    BY <1>3, <2>1, <2>2, <2>9
<1>12. b.regular_output_value_sats
         = SumFunction([o \in {p \in outs : ~p.is_coinbase} |-> o.value_sats])
  <2>1. PICK Q : Q = {p \in outs : ~p.is_coinbase}
    OBVIOUS
  <2>2. PICK f : f = [o \in Q |-> o.value_sats]
    OBVIOUS
  <2>3. PICK sums : sums = RegularValues(events)
    OBVIOUS
  <2>4. PICK L : L = Regulars(events)
    OBVIOUS
  <2>5. L \in SUBSET K /\ \A k \in K : k \in L <=> k # 1
    BY <1>1, <2>4 DEF Regulars
  <2>6. Parts(Out, L, Outputs(body), Q)
    <3>1. Q \in SUBSET outs /\ \A k \in L : Outputs(body)[k] \subseteq Outputs(body)[k]
      BY <2>1
    <3>2. \A k \in K : \A n \in Outputs(body)[k] :
            Out[k][n] \in Q <=> k \in L /\ n \in Outputs(body)[k]
      BY <1>4, <1>8, <2>1, <2>5 DEF Parts
    <3> QED
      BY <1>4, <2>5, <3>1, <3>2, SomeParts
  <2>7. f \in [Q -> Int]
    <3>1. \A o \in outs : o.value_sats \in Int
      BY <1>4, <1>8 DEF Parts
    <3> QED
      BY <2>1, <2>2, <3>1
  <2>8. sums = [k \in L |-> sums[k]] /\ \A k \in L : sums[k] = SumFunction(Amounts(Out[k]))
    BY <1>1, <1>9, <2>3, <2>4, <2>5 DEF RegularValues
  <2>9. \A k \in L : Amounts(Out[k]) = [n \in Outputs(body)[k] |-> f[Out[k][n]]]
    <3> SUFFICES ASSUME NEW k \in L
                 PROVE  Amounts(Out[k]) = [n \in Outputs(body)[k] |-> f[Out[k][n]]]
      OBVIOUS
    <3>1. \A n \in Outputs(body)[k] : f[Out[k][n]] = Out[k][n].value_sats
      BY <2>2, <2>6 DEF Parts
    <3> QED
      BY <1>7, <2>5, <3>1 DEF Amounts
  <2>10. \A k \in L : sums[k] = Sub(f, Out, Outputs(body), k)
    BY <2>8, <2>9 DEF Sub
  <2>11. IsFiniteSet(L) /\ \A k \in L : IsFiniteSet(Outputs(body)[k])
    BY <1>5, <2>5, FS_Subset
  <2>12. sums = [k \in L |-> sums[k]]
    BY <2>8
  <2>13. SumFunction(sums) = SumFunction(f)
    BY ONLY <2>6, <2>7, <2>10, <2>11, <2>12, AddRows
  <2> QED
    BY <1>3, <2>1, <2>2, <2>3, <2>13
<1>13. b.coinbase_value_sats
         = SumFunction([o \in {p \in outs : p.is_coinbase} |-> o.value_sats])
  <2>1. PICK Q : Q = {p \in outs : p.is_coinbase}
    OBVIOUS
  <2>2. PICK f : f = [o \in Q |-> o.value_sats]
    OBVIOUS
  <2>3. PICK T : T = Outputs(body)[1]
    OBVIOUS
  <2>4. PICK e : e = Amounts(Out[1])
    OBVIOUS
  <2>5. PICK c : c = [n \in T |-> Out[1][n]]
    OBVIOUS
  <2>6. \A n \in T : Out[1][n] \in Q
    BY <1>4, <1>5, <1>8, <2>1, <2>3 DEF Parts
  <2>7. \A o \in Q : \E n \in T : o = Out[1][n]
    BY <1>4, <1>8, <2>1, <2>3 DEF Parts
  <2>8. \A n, m \in T : Out[1][n] = Out[1][m] => n = m
    BY <1>4, <1>5, <2>3 DEF Parts
  <2>9. f \in [Q -> Int]
    <3>1. \A o \in outs : o.value_sats \in Int
      BY <1>4, <1>8 DEF Parts
    <3> QED
      BY <2>1, <2>2, <3>1
  <2>10. e = [n \in T |-> Out[1][n].value_sats]
    BY <1>5, <1>7, <2>3, <2>4 DEF Amounts
  <2>11. \A n \in T : e[n] = f[c[n]]
    BY <2>2, <2>5, <2>6, <2>10
  <2>12. e \in [T -> Int] /\ c \in [T -> Q]
    <3>1. \A n \in T : Out[1][n].value_sats \in Int
      BY <1>5, <1>8, <2>3
    <3> QED
      BY <2>5, <2>6, <2>10, <3>1
  <2>13. /\ \A n, m \in T : c[n] = c[m] => n = m
         /\ \A o \in Q : \E n \in T : o = c[n]
    BY <2>5, <2>7, <2>8
  <2>14. IsFiniteSet(Q)
    <3>1. IsFiniteSet(outs)
      BY <1>4, <1>5, PartsFinite
    <3> QED
      BY <2>1, <3>1, FS_Subset
  <2>15. SumFunction(e) = SumFunction(f)
    BY ONLY <2>9, <2>11, <2>12, <2>13, <2>14, SumAlong
  <2>16. b.coinbase_value_sats = SumFunction(e)
    BY <1>3, <1>5, <1>9, <2>4
  <2> QED
    BY <2>1, <2>2, <2>15, <2>16
<1> QED
  BY <1>11, <1>12, <1>13 DEF AddsUpAmounts, b

\* The witnesses of the draft are items of some bytes each.
Witnessed ==
  \A k \in DOMAIN draft : \A n \in DOMAIN draft[k].vin : draft[k].vin[n].witness \in Seq(Nat)

\* Every block's row adds up the rows of its height.
RowsAddUp ==
  \A b \in blocks :
    AddsUp(b, At(transactions, b.height), At(inputs, b.height), At(outputs, b.height))

Summed == Witnessed /\ RowsAddUp

\* It is what a run checks.
LEMMA AddsUpIs == BlockAddsUp <=> RowsAddUp
BY DEF BlockAddsUp, RowsAddUp, AddsUp, AddsUpRows, AddsUpTxs, AddsUpAmounts, Card, Sum

\* The block that bitcoind hands out is a payload.
LEMMA BodyIsPayload ==
  ASSUME LedgerAssumption, ParserAssumption, Drafted, Below, Valued, Witnessed,
         NEW template \in Coinbases
  PROVE  Payload(Body(Coinbase(template)))
<1> DEFINE coinbase == Coinbase(template)
           body == Body(coinbase)
           total == BlockSubsidy(height) + fees - template.unclaimed
<1>1. /\ coinbase.txid = <<height, 0>> /\ IsCoinbase(coinbase)
      /\ IsSequence(coinbase.vin) /\ IsSequence(coinbase.vout) /\ DOMAIN coinbase.vin = {1}
  BY CoinbaseFacts
<1>2. coinbase.vin[1].witness \in Seq(Nat)
  BY DEF Coinbase, LedgerAssumption, IsMint
<1>3. coinbase.vout = Paying(template.outs, total) /\ IsPayout(template.outs)
  BY DEF Coinbase, LedgerAssumption, IsMint
<1>4. total \in Int
  <2>1. fees \in Int /\ BlockSubsidy(height) \in Nat
    BY SubsidyIsNat, FeesAreInt DEF Below
  <2>2. template.unclaimed \in Nat
    BY DEF LedgerAssumption, IsMint
  <2> QED
    BY <2>1, <2>2
<1> HIDE DEF coinbase, total
<1>5. \A n \in DOMAIN coinbase.vout : coinbase.vout[n].value \in Int
  BY <1>3, <1>4, PayingFacts
<1>6. /\ IsSequence(body) /\ body # <<>> /\ body[1] = coinbase
      /\ \A k \in DOMAIN body : k # 1 => k - 1 \in DOMAIN draft /\ body[k] = draft[k - 1]
      /\ DOMAIN body = 1..Len(draft) + 1
  BY BodyFacts DEF Drafted
<1>7. \A k \in DOMAIN draft : /\ Regular(draft[k], k) /\ k \in Nat /\ k # 0
                              /\ \A n \in DOMAIN draft[k].vout : draft[k].vout[n].value \in Int
                              /\ \A n \in DOMAIN draft[k].vin : draft[k].vin[n].witness \in Seq(Nat)
  BY SequenceFacts DEF Drafted, Valued, Balanced, Witnessed
<1> HIDE DEF body
<1>8. ASSUME NEW k \in DOMAIN body
      PROVE  /\ IsSequence(body[k].vin) /\ IsSequence(body[k].vout)
             /\ IsCoinbase(body[k]) <=> k = 1
             /\ \A n \in DOMAIN body[k].vin : body[k].vin[n].witness \in Seq(Nat)
             /\ \A n \in DOMAIN body[k].vout : body[k].vout[n].value \in Int
             /\ body[k].txid = <<height, k - 1>>
  <2>1. CASE k = 1
    BY <1>1, <1>2, <1>5, <1>6, <2>1
  <2>2. CASE k # 1
    <3>1. PICK m \in DOMAIN draft : m = k - 1 /\ body[k] = draft[m]
      BY <1>6, <2>2
    <3> QED
      BY <1>7, <2>2, <3>1 DEF Regular
  <2> QED
    BY <2>1, <2>2
<1>9. ASSUME NEW k \in DOMAIN body, NEW l \in DOMAIN body, body[k].txid = body[l].txid
      PROVE  k = l
  <2>1. <<height, k - 1>> = <<height, l - 1>>
    BY <1>8, <1>9
  <2>2. k - 1 = l - 1
    BY <2>1
  <2>3. k \in Int /\ l \in Int
    BY <1>6
  <2> QED
    BY <2>2, <2>3
<1> QED
  BY <1>6, <1>8, <1>9 DEF Payload, body, coinbase

\* A transaction that is included has its witness from a template.
LEMMA IncludeKeepsSummed ==
  ASSUME LedgerAssumption, Drafted, Summed, Include
  PROVE  Summed'
<1>1. PICK spent \in Spendings, template \in Templates, feeKnown \in BOOLEAN :
      \E known \in SUBSET DOMAIN spent :
        draft' = Append(draft, Spend(spent, template, feeKnown, known))
  BY DEF Include
<1>2. PICK known \in SUBSET DOMAIN spent :
        draft' = Append(draft, Spend(spent, template, feeKnown, known))
  BY <1>1
<1> DEFINE tx == Spend(spent, template, feeKnown, known)
<1>3. PICK n \in 1..MaxInputs : spent \in [1..n -> DOMAIN coins]
  BY DEF Spendings
<1>4. \A i \in DOMAIN spent : template.witness[i] \in Seq(Nat)
  <2>1. n \in Nat /\ MaxInputs \in Nat /\ DOMAIN spent = 1..n
    BY <1>3 DEF LedgerAssumption
  <2>2. \A i \in DOMAIN spent : i \in 1..MaxInputs
    BY <1>3, <2>1
  <2> QED
    BY <2>2 DEF LedgerAssumption
<1>5. /\ DOMAIN tx.vin = DOMAIN spent
      /\ \A i \in DOMAIN spent : tx.vin[i].witness = template.witness[i]
  BY DEF Spend
<1> HIDE DEF tx
<1>6. /\ DOMAIN draft' = DOMAIN draft \union {Len(draft) + 1} /\ draft'[Len(draft) + 1] = tx
      /\ \A k \in DOMAIN draft : draft'[k] = draft[k]
  BY <1>2, Appended DEF Drafted, tx
<1>7. Witnessed'
  BY <1>4, <1>5, <1>6 DEF Summed, Witnessed
<1>8. UNCHANGED <<blocks, transactions, inputs, outputs>>
  BY DEF Include, rows
<1>9. RowsAddUp'
  BY <1>8 DEF Summed, RowsAddUp
<1> QED
  BY <1>7, <1>9 DEF Summed

\* A connected block adds rows of its own height only.
LEMMA ConnectKeepsSummed ==
  ASSUME LedgerAssumption, ParserAssumption, Drafted, Below, Valued, Reckoned, Summed, Connect
  PROVE  Summed'
<1>1. PICK template \in Coinbases, dataset \in Datasets : Connects(template, dataset)
  BY ConnectFacts
<1> DEFINE coinbase == Coinbase(template)
           body == Body(coinbase)
           b == AggregateBlock([height |-> height, tx |-> body], dataset).block
<1>2. Payload(body)
  BY BodyIsPayload DEF Summed
<1>3. /\ \A r : r \in inputs' <=> \/ r \in inputs \/ IsInputRow(r, coinbase, height)
                                  \/ \E k \in DOMAIN draft : IsInputRow(r, draft[k], height)
      /\ \A r : r \in outputs' <=> \/ r \in outputs \/ IsOutputRow(r, coinbase, height)
                                   \/ \E k \in DOMAIN draft : IsOutputRow(r, draft[k], height)
      /\ \A t : t \in transactions' <=> t \in transactions \/ IsTxRow(t, body, height)
      /\ blocks' = blocks \union {b} /\ b.height = height
  BY <1>1 DEF Connects
<1>4. /\ 1 \in DOMAIN body /\ body[1] = coinbase
      /\ \A k \in DOMAIN draft : k + 1 \in DOMAIN body /\ body[k + 1] = draft[k]
      /\ \A k \in DOMAIN body : k # 1 => k - 1 \in DOMAIN draft /\ body[k] = draft[k - 1]
  <2>1. /\ DOMAIN body = 1..Len(draft) + 1 /\ Len(draft) \in Nat /\ DOMAIN draft = 1..Len(draft)
    BY BodyFacts, SequenceFacts DEF Drafted
  <2>2. 1 \in DOMAIN body /\ \A k \in DOMAIN draft : k + 1 \in DOMAIN body
    BY <2>1
  <2> QED
    BY <2>2, BodyFacts DEF Drafted
<1> HIDE DEF b, body, coinbase
<1>5. \A r : (\E k \in DOMAIN body : IsInputRow(r, body[k], height))
               <=> \/ IsInputRow(r, coinbase, height)
                   \/ \E k \in DOMAIN draft : IsInputRow(r, draft[k], height)
  BY <1>4
<1>6. \A r : (\E k \in DOMAIN body : IsOutputRow(r, body[k], height))
               <=> \/ IsOutputRow(r, coinbase, height)
                   \/ \E k \in DOMAIN draft : IsOutputRow(r, draft[k], height)
  BY <1>4
<1>7. height \in Nat /\ height \notin 0..height-1
  BY DEF Below
<1>8. /\ \A r, tx : IsInputRow(r, tx, height) => r.block_height = height
      /\ \A r, tx : IsOutputRow(r, tx, height) => r.block_height = height
      /\ \A t : IsTxRow(t, body, height) => t.block_height = height
  <2>1. \A tx, x : TxEvent(tx, height, x).block_height = height
    BY DEF TxEvent
  <2> QED
    BY <2>1, InputFields, OutputFields DEF IsInputRow, IsOutputRow, IsTxRow
<1>9. /\ \A r \in inputs \union outputs : r.block_height # height
      /\ \A t \in transactions : t.block_height # height
      /\ \A c \in blocks : c.height # height
  BY <1>7 DEF Below, Reckoned
<1>10. RowsAre(body, height, At(transactions', height), At(inputs', height), At(outputs', height))
  <2>1. \A t : t \in At(transactions', height) <=> IsTxRow(t, body, height)
    BY <1>3, <1>8, <1>9 DEF At
  <2>2. \A r : r \in At(inputs', height) <=> \E k \in DOMAIN body : IsInputRow(r, body[k], height)
    BY <1>3, <1>5, <1>8, <1>9 DEF At
  <2>3. \A r : r \in At(outputs', height) <=> \E k \in DOMAIN body : IsOutputRow(r, body[k], height)
    BY <1>3, <1>6, <1>8, <1>9 DEF At
  <2> QED
    BY <2>1, <2>2, <2>3 DEF RowsAre
<1>11. AddsUp(b, At(transactions', height), At(inputs', height), At(outputs', height))
  <2>1. PICK txs, ins, outs : /\ txs = At(transactions', height)
                              /\ ins = At(inputs', height) /\ outs = At(outputs', height)
    OBVIOUS
  <2>2. RowsAre(body, height, txs, ins, outs)
    BY <1>10, <2>1
  <2>3. AddsUp(b, txs, ins, outs)
    BY <1>2, <2>2, AddsCounts, AddsTxs, AddsAmounts DEF AddsUp, b
  <2> QED
    BY <2>1, <2>3
<1>12. ASSUME NEW c \in blocks
       PROVE  AddsUp(c, At(transactions', c.height), At(inputs', c.height), At(outputs', c.height))
  <2>1. /\ At(transactions', c.height) = At(transactions, c.height)
        /\ At(inputs', c.height) = At(inputs, c.height)
        /\ At(outputs', c.height) = At(outputs, c.height)
    BY <1>3, <1>8, <1>9 DEF At
  <2> QED
    BY <2>1 DEF Summed, RowsAddUp
<1>13. RowsAddUp'
  BY <1>3, <1>11, <1>12 DEF RowsAddUp
<1>14. Witnessed'
  <2>1. draft' = <<>> /\ DOMAIN draft' = {}
    BY DEF Connect
  <2> QED
    BY <2>1 DEF Witnessed
<1> QED
  BY <1>13, <1>14 DEF Summed

\* The inductive invariant of BlockAddsUp.
THEOREM SummedCorrect == Spec => []Summed
<1> USE LedgerAssumption, ParserAssumption
<1>1. Init => Summed
  <2> SUFFICES ASSUME Init PROVE Summed
    OBVIOUS
  <2>1. DOMAIN draft = {} /\ blocks = {}
    BY DEF Init
  <2> QED
    BY <2>1 DEF Summed, Witnessed, RowsAddUp
<1>2. Drafted /\ Below /\ Valued /\ Reckoned /\ Summed /\ [Next]_vars => Summed'
  <2> SUFFICES ASSUME Drafted, Below, Valued, Reckoned, Summed, [Next]_vars PROVE Summed'
    OBVIOUS
  <2>1. CASE Include
    BY <2>1, IncludeKeepsSummed
  <2>2. CASE Connect
    BY <2>2, ConnectKeepsSummed
  <2>3. CASE UNCHANGED vars
    <3>1. UNCHANGED <<draft, blocks, transactions, inputs, outputs>>
      BY <2>3 DEF vars, ledger, rows
    <3> QED
      BY <3>1 DEF Summed, Witnessed, RowsAddUp
  <2> QED
    BY <2>1, <2>2, <2>3 DEF Next
<1> QED
  BY <1>1, <1>2, DraftCorrect, ValuedCorrect, ReckonedCorrect, PTL DEF Spec

\* BlockAddsUp.
THEOREM AddsUpCorrect == Spec => []BlockAddsUp
<1>1. Summed => BlockAddsUp
  BY AddsUpIs DEF Summed
<1> QED
  BY <1>1, SummedCorrect, PTL

=============================================================================
