------------------------------ MODULE SetFacts ------------------------------
(***************************************************************************)
(* Facts about sets that the proofs share, above all about sums over       *)
(* finite sets, as SumFunctionOnSet of the community modules computes      *)
(* them: the recursion is well defined, and its result does not depend on  *)
(* the order in which the elements are chosen.                             *)
(*                                                                         *)
(* The induction is on the number of elements. WFMin is the induction      *)
(* principle in first-order form: of what violates the claim, something    *)
(* of least size is taken (LeastNat).                                      *)
(***************************************************************************)
EXTENDS Functions, FiniteSetTheorems, WellFoundedInduction, Subsequences, TLAPS

\* One round of the recursion that SumFunctionOnSet stands for.
Round(f, h, s) ==
    IF s = {} THEN 0 ELSE f[CHOOSE x \in s : TRUE] + h[s \ {CHOOSE x \in s : TRUE}]

\* h computes the sums of f over the subsets of S.
Sums(f, h, S) == h = [s \in SUBSET S |-> Round(f, h, s)]

\* A set in which any two members are one has at most one.
LEMMA SoleMember ==
    ASSUME NEW S, \A a, b \in S : a = b
    PROVE  Cardinality(S) <= 1
  <1>1. CASE S = {}
    BY <1>1, FS_EmptySet
  <1>2. CASE S # {}
    <2>1. PICK a \in S : TRUE
      BY <1>2
    <2>2. S = {a}
      BY <2>1
    <2> QED BY <2>2, FS_Singleton
  <1> QED BY <1>1, <1>2

\* A set of natural numbers that is not empty has a least one.
LEMMA LeastNat ==
  ASSUME NEW T \in SUBSET Nat, T # {}
  PROVE  \E n \in T : \A m \in T : n <= m
  <1> DEFINE Less == OpToRel(<, Nat)
  <1>1. \E n \in T : \A m \in T : ~(<<m, n>> \in Less)
    BY WFMin, NatLessThanWellFounded
  <1>2. ASSUME NEW m \in Nat, NEW n \in Nat, m < n PROVE <<m, n>> \in Less
    <2>1. <<m, n>> \in Nat \X Nat /\ <<m, n>>[1] < <<m, n>>[2]
      BY <1>2
    <2> QED BY <2>1, Zenon DEF OpToRel
  <1> HIDE DEF Less
  <1> PICK n \in T : \A m \in T : <<m, n>> \notin Less
    BY <1>1
  <1>3. \A m \in T : ~(m < n)
    BY <1>2
  <1> QED BY <1>3

\* A sum is an integer, and its first two terms may change places.
LEMMA IntPlus ==
  ASSUME NEW a \in Int, NEW b \in Int, NEW c, c = a + b
  PROVE  c \in Int
  OBVIOUS

LEMMA IntSwap ==
  ASSUME NEW a \in Int, NEW b \in Int, NEW x \in Int, NEW u, NEW v, NEW y,
         u = b + x, v = a + x, y = a + u
  PROVE  y = b + v
  OBVIOUS

\* Induction over an interval, for a set.
LEMMA Reaches ==
    ASSUME NEW S, NEW N \in Nat, 0 \in S, \A n \in 0..(N - 1) : n \in S => n + 1 \in S
    PROVE  \A n \in 0..N : n \in S
  <1> DEFINE Bad == {n \in 0..N : n \notin S}
  <1>1. CASE Bad = {}
    BY <1>1
  <1>2. CASE Bad # {}
    <2>1. Bad \in SUBSET Nat
      OBVIOUS
    <2> HIDE DEF Bad
    <2>2. PICK n \in Bad : \A m \in Bad : n <= m
      BY <1>2, <2>1, LeastNat
    <2>3. n \in 0..N /\ n \notin S
      BY <2>2 DEF Bad
    <2>4. n - 1 \in 0..(N - 1) /\ n - 1 \in 0..N /\ ~(n <= n - 1) /\ (n - 1) + 1 = n
      BY <2>3
    <2>5. n - 1 \notin S
      BY <2>3, <2>4
    <2> QED BY <2>2, <2>4, <2>5 DEF Bad
  <1> QED BY <1>1, <1>2

\* There is such an h over a finite set.
LEMMA SumsExist ==
  ASSUME NEW f, NEW S, IsFiniteSet(S)
  PROVE  \E h : Sums(f, h, S)
  <1> DEFINE Small(n) == {s \in SUBSET S : Cardinality(s) <= n}
             Upto(n) == \E h : h = [s \in Small(n) |-> Round(f, h, s)]
             Missing == {n \in Nat : ~Upto(n)}
  <1>s. \A s \in SUBSET S : IsFiniteSet(s) /\ Cardinality(s) \in Nat
    BY FS_Subset, FS_CardinalityType
  <1>0. Upto(0)
    <2> WITNESS [s \in Small(0) |-> 0]
    <2>1. \A s \in Small(0) : s = {}
      BY <1>s, FS_EmptySet
    <2> QED BY <2>1 DEF Round
  <1>1. ASSUME NEW n \in Nat, Upto(n) PROVE Upto(n + 1)
    <2> PICK g : g = [s \in Small(n) |-> Round(f, g, s)]
      BY <1>1
    <2> DEFINE h == [s \in Small(n + 1) |-> Round(f, g, s)]
    <2>1. ASSUME NEW s \in Small(n + 1), s # {}
          PROVE  s \ {CHOOSE x \in s : TRUE} \in Small(n)
      <3> DEFINE c == CHOOSE x \in s : TRUE
      <3>1. c \in s
        BY <2>1
      <3>2. Cardinality(s \ {c}) = Cardinality(s) - 1
        BY <3>1, <1>s, FS_RemoveElement
      <3> HIDE DEF c
      <3> QED BY <3>2, <1>s DEF c
    <2>2. \A s \in Small(n) : s \in Small(n + 1) /\ g[s] = h[s]
      BY <1>s
    <2>3. \A s \in Small(n + 1) : Round(f, g, s) = Round(f, h, s)
      <3> HIDE DEF h, Small
      <3> QED BY <2>1, <2>2 DEF Round
    <2> WITNESS h
    <2> HIDE DEF Small
    <2> QED BY <2>3
  <1>2. Missing = {}
    <2> SUFFICES ASSUME Missing # {} PROVE FALSE
      OBVIOUS
    <2> PICK n \in Missing : \A m \in Missing : n <= m
      BY LeastNat
    <2> HIDE DEF Upto
    <2>1. n # 0 /\ n - 1 \in Nat /\ n - 1 \notin Missing
      BY <1>0
    <2>2. Upto(n - 1)
      BY <2>1
    <2> QED BY <2>1, <2>2, <1>1
  <1>3. Small(Cardinality(S)) = SUBSET S
    BY FS_Subset, FS_CardinalityType
  <1>4. Upto(Cardinality(S))
    BY <1>2, <1>s
  <1> QED BY <1>3, <1>4 DEF Sums

\* The sum of the library is one of these functions, at the whole set.
LEMMA SumIs ==
  ASSUME NEW f, NEW S, IsFiniteSet(S)
  PROVE  \E h : Sums(f, h, S) /\ SumFunctionOnSet(f, S) = h[S]
  <1> DEFINE h == CHOOSE h : Sums(f, h, S)
  <1>1. Sums(f, h, S)
    BY SumsExist, Zenon
  <1>2. SumFunctionOnSet(f, S) = h[S]
    BY DEF SumFunctionOnSet, FoldFunctionOnSet, MapThenFoldSet, Sums, Round
  <1> QED BY <1>1, <1>2, Zenon

\* What h says of a set depends neither on the set the recursion started from nor on
\* values of f outside of it.
LEMMA SumsAgree ==
  ASSUME NEW S, IsFiniteSet(S), NEW T, IsFiniteSet(T), NEW f, NEW g, NEW h, NEW k,
         Sums(f, h, S), Sums(g, k, T),
         NEW U, U \subseteq S, U \subseteq T, \A x \in U : f[x] = g[x]
  PROVE  h[U] = k[U]
  <1> DEFINE Differ == {n \in Nat : \E s \in SUBSET U : Cardinality(s) = n /\ h[s] # k[s]}
  <1>1. \A s \in SUBSET U : IsFiniteSet(s) /\ Cardinality(s) \in Nat
    BY FS_Subset, FS_CardinalityType
  <1>2. Differ = {}
    <2> SUFFICES ASSUME Differ # {} PROVE FALSE
      OBVIOUS
    <2> PICK n \in Differ : \A m \in Differ : n <= m
      BY LeastNat
    <2> PICK s \in SUBSET U : Cardinality(s) = n /\ h[s] # k[s]
      OBVIOUS
    <2>1. h[s] = Round(f, h, s) /\ k[s] = Round(g, k, s)
      BY DEF Sums
    <2>2. s # {}
      BY <2>1 DEF Round
    <2> DEFINE c == CHOOSE x \in s : TRUE
               t == s \ {c}
    <2>3. c \in s
      BY <2>2
    <2>4. t \in SUBSET U /\ Cardinality(t) = n - 1
      BY <2>3, <1>1, FS_RemoveElement
    <2>5. h[t] = k[t]
      BY <2>4, <1>1
    <2>6. h[s] = f[c] + h[t] /\ k[s] = g[c] + k[t]
      BY <2>1, <2>2 DEF Round
    <2> HIDE DEF c, t
    <2> QED BY <2>3, <2>5, <2>6
  <1> QED BY <1>1, <1>2

\* Any element may be taken first.
LEMMA SumsStep ==
  ASSUME NEW S, IsFiniteSet(S), NEW f, NEW h, Sums(f, h, S), \A x \in S : f[x] \in Int
  PROVE  /\ h[{}] = 0
         /\ \A s \in SUBSET S : h[s] \in Int
         /\ \A s \in SUBSET S : \A x \in s : h[s] = f[x] + h[s \ {x}]
  <1> DEFINE Good(s) == h[s] \in Int /\ \A x \in s : h[s] = f[x] + h[s \ {x}]
             Bad == {n \in Nat : \E s \in SUBSET S : Cardinality(s) = n /\ ~Good(s)}
  <1>1. \A s \in SUBSET S : IsFiniteSet(s) /\ Cardinality(s) \in Nat
    BY FS_Subset, FS_CardinalityType
  <1>2. Bad = {}
    <2> SUFFICES ASSUME Bad # {} PROVE FALSE
      OBVIOUS
    <2> PICK n \in Bad : \A m \in Bad : n <= m
      BY LeastNat
    <2> PICK s \in SUBSET S : Cardinality(s) = n /\ ~Good(s)
      OBVIOUS
    <2>1. h[s] = Round(f, h, s)
      BY DEF Sums
    <2>2. s # {}
      BY <2>1 DEF Round
    <2> DEFINE c == CHOOSE x \in s : TRUE
    <2>3. c \in s
      BY <2>2
    <2>4. h[s] = f[c] + h[s \ {c}]
      BY <2>1, <2>2 DEF Round
    <2> HIDE DEF c
    <2>5. ASSUME NEW x \in s PROVE Good(s \ {x})
      <3>1. s \ {x} \in SUBSET S /\ Cardinality(s \ {x}) = n - 1
        BY <1>1, FS_RemoveElement
      <3> HIDE DEF Good
      <3> QED BY <3>1, <1>1
    <2>6. h[s] \in Int
      <3>1. h[s \ {c}] \in Int /\ f[c] \in Int
        BY <2>3, <2>5
      <3> QED BY <2>4, <3>1, IntPlus
    <2>7. ASSUME NEW x \in s PROVE h[s] = f[x] + h[s \ {x}]
      <3>1. CASE x = c
        BY <3>1, <2>4
      <3>2. CASE x # c
        <4>1. h[s \ {c}] = f[x] + h[(s \ {c}) \ {x}]
          BY <2>3, <2>5, <3>2
        <4>2. h[s \ {x}] = f[c] + h[(s \ {x}) \ {c}]
          BY <2>3, <2>5, <3>2
        <4>3. (s \ {c}) \ {x} = (s \ {x}) \ {c}
          OBVIOUS
        <4>4. h[(s \ {c}) \ {x}] \in Int
          <5>1. (s \ {c}) \ {x} \in SUBSET S /\ Cardinality((s \ {c}) \ {x}) = n - 2
            <6>1. Cardinality(s \ {c}) = n - 1 /\ IsFiniteSet(s \ {c})
              BY <2>3, <1>1, FS_RemoveElement
            <6>2. x \in s \ {c}
              BY <3>2
            <6>3. Cardinality((s \ {c}) \ {x}) = Cardinality(s \ {c}) - 1
              BY <6>1, <6>2, FS_RemoveElement
            <6> QED BY <6>1, <6>3
          <5>2. Good((s \ {c}) \ {x})
            <6> HIDE DEF Good
            <6> QED BY <5>1, <1>1
          <5> QED BY <5>2
        <4>5. f[c] \in Int /\ f[x] \in Int
          BY <2>3
        <4>6. h[s \ {x}] = f[c] + h[(s \ {c}) \ {x}]
          BY <4>2, <4>3
        <4> DEFINE fc == f[c]
                   fx == f[x]
                   rest == h[(s \ {c}) \ {x}]
                   u == h[s \ {c}]
                   v == h[s \ {x}]
                   y == h[s]
        <4>7. fc \in Int /\ fx \in Int /\ rest \in Int /\ u = fx + rest /\ v = fc + rest /\ y = fc + u
          BY <4>1, <4>4, <4>5, <4>6, <2>4
        <4> HIDE DEF fc, fx, rest, u, v, y
        <4>8. y = fx + v
          BY <4>7, IntSwap
        <4> QED BY <4>8 DEF fx, v, y
      <3> QED BY <3>1, <3>2
    <2> QED BY <2>6, <2>7
  <1>3. h[{}] = 0
    BY DEF Sums, Round
  <1>4. \A s \in SUBSET S : Good(s)
    <2> HIDE DEF Good
    <2> QED BY <1>1, <1>2
  <1> QED BY <1>3, <1>4

\* Nothing adds up to zero.
LEMMA SumEmpty ==
  ASSUME NEW f
  PROVE  SumFunctionOnSet(f, {}) = 0
  <1>1. IsFiniteSet({})
    BY FS_EmptySet
  <1>2. PICK h : Sums(f, h, {}) /\ SumFunctionOnSet(f, {}) = h[{}]
    BY <1>1, SumIs
  <1> QED BY <1>2 DEF Sums, Round

\* The sum depends on the values at the elements only.
LEMMA SumSame ==
  ASSUME NEW S, IsFiniteSet(S), NEW f, NEW g, \A x \in S : f[x] = g[x]
  PROVE  SumFunctionOnSet(f, S) = SumFunctionOnSet(g, S)
  <1>1. PICK h : Sums(f, h, S) /\ SumFunctionOnSet(f, S) = h[S]
    BY SumIs
  <1>2. PICK k : Sums(g, k, S) /\ SumFunctionOnSet(g, S) = k[S]
    BY SumIs
  <1>3. h[S] = k[S]
    BY <1>1, <1>2, SumsAgree
  <1> QED BY <1>1, <1>2, <1>3

\* One more element adds its value.
LEMMA SumAdd ==
  ASSUME NEW S, IsFiniteSet(S), NEW a, a \notin S, NEW f, \A x \in S \cup {a} : f[x] \in Int
  PROVE  /\ SumFunctionOnSet(f, S) \in Int
         /\ SumFunctionOnSet(f, S \cup {a}) = SumFunctionOnSet(f, S) + f[a]
  <1> DEFINE U == S \cup {a}
  <1>0. IsFiniteSet(U)
    BY FS_AddElement
  <1>1. PICK h : Sums(f, h, S) /\ SumFunctionOnSet(f, S) = h[S]
    BY SumIs
  <1>2. PICK k : Sums(f, k, U) /\ SumFunctionOnSet(f, U) = k[U]
    BY <1>0, SumIs
  <1>3. h[S] \in Int
    BY <1>1, SumsStep
  <1>4. U \in SUBSET U /\ a \in U /\ U \ {a} = S
    OBVIOUS
  <1> HIDE DEF U
  <1>5. k[U] = f[a] + k[S]
    BY <1>0, <1>2, <1>4, SumsStep DEF U
  <1>6. k[S] = h[S]
    BY <1>0, <1>1, <1>2, SumsAgree DEF U
  <1> QED BY <1>1, <1>2, <1>3, <1>5, <1>6 DEF U

-----------------------------------------------------------------------------
(* Counting: sets that differ in one element.                              *)

Among(x, S) == IF x \in S THEN 1 ELSE 0

LEMMA OneOut ==
    ASSUME NEW S, NEW x, IsFiniteSet(S)
    PROVE  IsFiniteSet(S \ {x}) /\ Cardinality(S) \in Nat /\ Cardinality(S \ {x}) = Cardinality(S) - Among(x, S)
  <1>1. IsFiniteSet(S \ {x}) /\ Cardinality(S) \in Nat
    BY FS_Difference, FS_CardinalityType
  <1>2. CASE x \in S
    BY <1>1, <1>2, FS_RemoveElement DEF Among
  <1>3. CASE x \notin S
    <2>1. S \ {x} = S
      BY <1>3
    <2> QED BY <1>1, <1>3, <2>1 DEF Among
  <1> QED BY <1>2, <1>3

\* Two sets that differ in one element at most.
LEMMA OneMoves ==
    ASSUME NEW S, NEW T, NEW x, IsFiniteSet(S), T \ {x} = S \ {x}
    PROVE  /\ IsFiniteSet(T) /\ Cardinality(S) \in Nat /\ Cardinality(T) \in Nat
           /\ Cardinality(T) + Among(x, S) = Cardinality(S) + Among(x, T)
  <1>1. IsFiniteSet(S \ {x})
    BY FS_Difference
  <1>2. IsFiniteSet(T)
    <2>1. CASE x \in T
      <3>1. T = (S \ {x}) \cup {x}
        BY <2>1
      <3> QED BY <1>1, <3>1, FS_AddElement
    <2>2. CASE x \notin T
      <3>1. T = S \ {x}
        BY <2>2
      <3> QED BY <1>1, <3>1
    <2> QED BY <2>1, <2>2
  <1>3. Cardinality(S) \in Nat /\ Cardinality(T) \in Nat
    BY <1>2, FS_CardinalityType
  <1>4. Cardinality(S \ {x}) = Cardinality(S) - Among(x, S)
    BY OneOut
  <1>5. Cardinality(T \ {x}) = Cardinality(T) - Among(x, T)
    BY <1>2, OneOut
  <1>6. Among(x, S) \in Nat /\ Among(x, T) \in Nat
    <2>1. (IF x \in S THEN 1 ELSE 0) \in Nat /\ (IF x \in T THEN 1 ELSE 0) \in Nat
      <3>1. 1 \in Nat /\ 0 \in Nat
        OBVIOUS
      <3> QED BY <3>1, Zenon
    <2> QED BY <2>1, Zenon DEF Among
  <1>7. Cardinality(S) - Among(x, S) = Cardinality(T) - Among(x, T)
    <2>1. T \ {x} = S \ {x}
      OBVIOUS
    <2>2. Cardinality(T \ {x}) = Cardinality(S \ {x})
      BY <2>1, Zenon
    <2> QED BY <1>4, <1>5, <2>2, Zenon
  <1>8. Cardinality(T) + Among(x, S) = Cardinality(S) + Among(x, T)
    BY <1>3, <1>6, <1>7
  <1> QED BY <1>2, <1>3, <1>8, Zenon

\* Two kinds of members of a set.
LEMMA TwoKinds ==
    ASSUME NEW S, IsFiniteSet(S), NEW A, NEW B, A \subseteq S, B \subseteq S, A \cap B = {}
    PROVE  Cardinality(A) + Cardinality(B) <= Cardinality(S)
  <1>1. IsFiniteSet(A) /\ IsFiniteSet(B)
    BY FS_Subset
  <1>2. Cardinality(A \cup B) = Cardinality(A) + Cardinality(B) - Cardinality(A \cap B)
    BY <1>1, FS_Union
  <1>3. Cardinality(A \cap B) = 0
    BY FS_EmptySet
  <1>4. A \cup B \subseteq S
    OBVIOUS
  <1>5. Cardinality(A \cup B) <= Cardinality(S)
    BY <1>4, FS_Subset
  <1>6. Cardinality(A) \in Nat /\ Cardinality(B) \in Nat
    BY <1>1, FS_CardinalityType
  <1> QED BY <1>2, <1>3, <1>5, <1>6

-----------------------------------------------------------------------------
(* What is picked of a sequence.                                           *)

\* How the rank goes up with the position.
LEMMA RankStep ==
    ASSUME NEW n \in Nat, NEW I \in SUBSET (1..n)
    PROVE  /\ RankIn(I, 0) = 0 /\ RankIn(I, n) = Cardinality(I)
           /\ \A i \in Nat : RankIn(I, i) \in Nat
           /\ \A i \in Nat : RankIn(I, i + 1) = RankIn(I, i) + (IF i + 1 \in I THEN 1 ELSE 0)
  <1>1. IsFiniteSet(I)
    <2>1. IsFiniteSet(1..n)
      BY FS_Interval
    <2> QED BY <2>1, FS_Subset
  <1>2. I \cap 1..0 = {} /\ I \cap 1..n = I
    <2>1. 1..0 = {}
      OBVIOUS
    <2>2. I \subseteq 1..n
      OBVIOUS
    <2> QED BY <2>1, <2>2
  <1>3. ASSUME NEW i \in Nat
        PROVE  /\ RankIn(I, i) \in Nat
               /\ RankIn(I, i + 1) = RankIn(I, i) + (IF i + 1 \in I THEN 1 ELSE 0)
    <2>1. IsFiniteSet(I \cap 1..i) /\ i + 1 \notin I \cap 1..i
      BY <1>1, FS_Subset
    <2>2. I \cap 1..(i + 1) = IF i + 1 \in I THEN (I \cap 1..i) \cup {i + 1} ELSE I \cap 1..i
      <3>1. 1..(i + 1) = 1..i \cup {i + 1}
        OBVIOUS
      <3> QED BY <3>1
    <2>3. Cardinality(I \cap 1..i) \in Nat
      BY <2>1, FS_CardinalityType
    <2>4. Cardinality((I \cap 1..i) \cup {i + 1}) = Cardinality(I \cap 1..i) + 1
      BY <2>1, FS_AddElement
    <2> QED BY <2>2, <2>3, <2>4 DEF RankIn
  <1>4. Cardinality({}) = 0
    BY FS_EmptySet
  <1> QED BY <1>2, <1>3, <1>4 DEF RankIn

\* The rank does not go down, and goes up by one at each position picked.
LEMMA RankRises ==
    ASSUME NEW n \in Nat, NEW I \in SUBSET (1..n), NEW i \in Nat, NEW d \in Nat
    PROVE  /\ RankIn(I, i) <= RankIn(I, i + d)
           /\ (i + 1)..(i + d) \subseteq I => RankIn(I, i + d) = RankIn(I, i) + d
  <1> DEFINE S == {e \in Nat : /\ RankIn(I, i) <= RankIn(I, i + e)
                               /\ (i + 1)..(i + e) \subseteq I => RankIn(I, i + e) = RankIn(I, i) + e}
  <1>0. /\ \A k \in Nat : RankIn(I, k) \in Nat
        /\ \A k \in Nat : RankIn(I, k + 1) = RankIn(I, k) + (IF k + 1 \in I THEN 1 ELSE 0)
    BY RankStep
  <1>1. 0 \in S
    <2>1. i + 0 = i /\ RankIn(I, i) \in Nat
      BY <1>0
    <2> QED BY <2>1
  <1>2. ASSUME NEW e \in 0..(d - 1), e \in S
        PROVE  e + 1 \in S
    <2>0. i + e \in Nat
      OBVIOUS
    <2>1. /\ RankIn(I, i) \in Nat /\ RankIn(I, i + e) \in Nat
          /\ RankIn(I, (i + e) + 1) = RankIn(I, i + e) + (IF (i + e) + 1 \in I THEN 1 ELSE 0)
      BY <1>0, <2>0
    <2>2. (i + e) + 1 = i + (e + 1) /\ (i + 1)..(i + e) \subseteq (i + 1)..(i + (e + 1))
          /\ (i + e) + 1 \in (i + 1)..(i + (e + 1))
      OBVIOUS
    <2> QED BY <1>2, <2>0, <2>1, <2>2
  <1> HIDE DEF S
  <1>3. d \in S
    BY <1>1, <1>2, Reaches
  <1> QED BY <1>3 DEF S

\* What is picked is at the rank of its position, and nothing else is in what is picked.
Picks(s, I) ==
    /\ Cardinality(I) \in Nat /\ DOMAIN Picked(s, I) = 1..Cardinality(I)
    /\ \A i \in I : RankIn(I, i) \in 1..Cardinality(I) /\ Picked(s, I)[RankIn(I, i)] = s[i]
    /\ \A k \in 1..Cardinality(I) : \E i \in I : RankIn(I, i) = k /\ Picked(s, I)[k] = s[i]
    /\ \A i, j \in I : i < j => RankIn(I, i) < RankIn(I, j)

LEMMA PickedIs ==
    ASSUME NEW n \in Nat, NEW I \in SUBSET (1..n), NEW s
    PROVE  Picks(s, I)
  <1>1. /\ RankIn(I, 0) = 0 /\ RankIn(I, n) = Cardinality(I)
        /\ \A i \in Nat : RankIn(I, i) \in Nat
        /\ \A i \in Nat : RankIn(I, i + 1) = RankIn(I, i) + (IF i + 1 \in I THEN 1 ELSE 0)
    BY RankStep
  <1>2. ASSUME NEW i \in I, NEW j \in I, i < j
        PROVE  RankIn(I, i) < RankIn(I, j)
    <2>1. i \in Nat /\ j - 1 \in Nat /\ (j - 1) - i \in Nat /\ i + ((j - 1) - i) = j - 1 /\ (j - 1) + 1 = j
      BY <1>2
    <2>2. RankIn(I, i) <= RankIn(I, j - 1)
      BY <2>1, RankRises
    <2>3. RankIn(I, j) = RankIn(I, j - 1) + 1
      BY <1>1, <2>1
    <2> QED BY <1>1, <2>1, <2>2, <2>3
  <1>3. ASSUME NEW i \in I
        PROVE  RankIn(I, i) \in 1..Cardinality(I)
    <2>1. i - 1 \in Nat /\ (i - 1) + 1 = i /\ i \in Nat /\ n - i \in Nat /\ i + (n - i) = n
      OBVIOUS
    <2>2. RankIn(I, i) = RankIn(I, i - 1) + 1
      BY <1>1, <2>1
    <2>3. RankIn(I, i) <= RankIn(I, n)
      <3>1. RankIn(I, i) <= RankIn(I, i + (n - i))
        BY <2>1, RankRises
      <3> QED BY <2>1, <3>1
    <2> QED BY <1>1, <2>1, <2>2, <2>3
  <1>4. \A k \in 1..Cardinality(I) : \E i \in I : RankIn(I, i) = k
    <2> DEFINE S == {m \in Nat : \A k \in 1..RankIn(I, m) : \E i \in I : RankIn(I, i) = k}
    <2>1. 0 \in S
      BY <1>1
    <2>2. ASSUME NEW m \in 0..(n - 1), m \in S
          PROVE  m + 1 \in S
      <3>1. CASE m + 1 \in I
        <4>1. RankIn(I, m) \in Nat /\ RankIn(I, m + 1) = RankIn(I, m) + 1
          BY <1>1, <3>1
        <4>2. ASSUME NEW k \in 1..RankIn(I, m + 1)
              PROVE  \E i \in I : RankIn(I, i) = k
          <5>1. CASE k = RankIn(I, m + 1)
            BY <3>1, <5>1
          <5>2. CASE k # RankIn(I, m + 1)
            <6>1. k \in 1..RankIn(I, m)
              BY <4>1, <5>2
            <6> QED BY <2>2, <6>1
          <5> QED BY <5>1, <5>2
        <4> QED BY <4>2
      <3>2. CASE m + 1 \notin I
        <4>1. RankIn(I, m + 1) = RankIn(I, m)
          BY <1>1, <3>2
        <4> QED BY <2>2, <4>1
      <3> QED BY <3>1, <3>2
    <2> HIDE DEF S
    <2>3. n \in S
      BY <2>1, <2>2, Reaches
    <2> QED BY <1>1, <2>3 DEF S
  <1>5. Cardinality(I) \in Nat
    BY <1>1
  <1>6. ASSUME NEW k \in 1..Cardinality(I), NEW i \in I, RankIn(I, i) = k
        PROVE  Picked(s, I)[k] = s[i]
    <2>1. \A j \in I : RankIn(I, j) = k => j = i
      <3> SUFFICES ASSUME NEW j \in I, RankIn(I, j) = k, j # i
                   PROVE  FALSE
        OBVIOUS
      <3>1. i < j \/ j < i
        OBVIOUS
      <3>2. RankIn(I, i) \in Nat
        BY <1>1
      <3> QED BY <1>2, <1>6, <3>1, <3>2
    <2>2. (CHOOSE j \in I : RankIn(I, j) = k) = i
      BY <1>6, <2>1
    <2> QED BY <2>2 DEF Picked, Nth
  <1>7. DOMAIN Picked(s, I) = 1..Cardinality(I)
    BY DEF Picked
  <1> QED BY <1>2, <1>3, <1>4, <1>5, <1>6, <1>7 DEF Picks

\* The positions in order, as they are named by their place.
InOrder(I) ==
    /\ Cardinality(I) \in Nat
    /\ \A k \in 1..Cardinality(I) : Nth(I, k) \in I /\ RankIn(I, Nth(I, k)) = k
    /\ \A i \in I : RankIn(I, i) \in 1..Cardinality(I) /\ Nth(I, RankIn(I, i)) = i
    /\ \A k, l \in 1..Cardinality(I) : k < l => Nth(I, k) < Nth(I, l)

LEMMA NthIs ==
    ASSUME NEW n \in Nat, NEW I \in SUBSET (1..n)
    PROVE  InOrder(I)
  <1>1. /\ Cardinality(I) \in Nat
        /\ \A i \in I : RankIn(I, i) \in 1..Cardinality(I)
        /\ \A k \in 1..Cardinality(I) : \E i \in I : RankIn(I, i) = k
        /\ \A i, j \in I : i < j => RankIn(I, i) < RankIn(I, j)
    <2>1. Picks([i \in I |-> i], I)
      BY PickedIs
    <2> QED BY <2>1 DEF Picks
  <1>2. \A k \in 1..Cardinality(I) : Nth(I, k) \in I /\ RankIn(I, Nth(I, k)) = k
    BY <1>1 DEF Nth
  <1>3. \A i, j \in I : i \in Int /\ j \in Int /\ RankIn(I, i) \in Int /\ RankIn(I, j) \in Int
    BY <1>1
  <1>4. \A i, j \in I : RankIn(I, i) = RankIn(I, j) => i = j
    <2> SUFFICES ASSUME NEW i \in I, NEW j \in I, RankIn(I, i) = RankIn(I, j), i # j
                 PROVE  FALSE
      OBVIOUS
    <2>1. i < j \/ j < i
      BY <1>3
    <2> QED BY <1>1, <1>3, <2>1
  <1>5. ASSUME NEW k \in 1..Cardinality(I), NEW l \in 1..Cardinality(I), k < l
        PROVE  Nth(I, k) < Nth(I, l)
    <2> DEFINE i == Nth(I, k)
               j == Nth(I, l)
    <2>1. i \in I /\ j \in I /\ RankIn(I, i) = k /\ RankIn(I, j) = l
      BY <1>2
    <2> HIDE DEF i, j
    <2>2. ~(j < i) /\ i # j
      BY <1>1, <1>5, <2>1
    <2>3. i < j
      BY <1>3, <2>1, <2>2
    <2> QED BY <2>3 DEF i, j
  <1> QED BY <1>1, <1>2, <1>4, <1>5 DEF InOrder

\* The rank does not go down.
LEMMA RankOrder ==
    ASSUME NEW n \in Nat, NEW I \in SUBSET (1..n), NEW i \in Nat, NEW j \in Nat, i <= j
    PROVE  RankIn(I, i) \in Nat /\ RankIn(I, j) \in Nat /\ RankIn(I, i) <= RankIn(I, j)
  <1>1. j - i \in Nat /\ i + (j - i) = j
    OBVIOUS
  <1>2. RankIn(I, i) <= RankIn(I, i + (j - i))
    BY <1>1, RankRises
  <1> QED BY <1>1, <1>2, RankStep

\* Of a part of the positions, those behind s up to r, counted from s on.
PartOf(I, s, r) == {i \in 1..(r - s) : s + i \in I}

\* What is picked up to a position.
LEMMA NthUpTo ==
    ASSUME NEW n \in Nat, NEW I \in SUBSET (1..n), NEW s \in 0..n, NEW k \in 1..Cardinality(I)
    PROVE  k <= RankIn(I, s) <=> Nth(I, k) <= s
  <1> DEFINE i == Nth(I, k)
  <1>1. i \in I /\ RankIn(I, i) = k
    BY NthIs DEF InOrder
  <1> HIDE DEF i
  <1>2. i \in Nat /\ s \in Nat /\ i - 1 \in Nat /\ (i - 1) + 1 = i /\ RankIn(I, s) \in Nat
    BY <1>1, RankStep
  <1>3. CASE i <= s
    BY <1>1, <1>2, <1>3, RankOrder DEF i
  <1>4. CASE ~(i <= s)
    <2>1. RankIn(I, i) = RankIn(I, i - 1) + 1
      <3>1. RankIn(I, (i - 1) + 1) = RankIn(I, i - 1) + (IF (i - 1) + 1 \in I THEN 1 ELSE 0)
        BY <1>2, RankStep
      <3> QED BY <1>1, <1>2, <3>1
    <2>2. RankIn(I, s) <= RankIn(I, i - 1)
      <3>1. s <= i - 1
        BY <1>2, <1>4
      <3> QED BY <1>2, <3>1, RankOrder
    <2>3. RankIn(I, i - 1) \in Nat
      BY <1>2, RankStep
    <2>4. ~(k <= RankIn(I, s))
      BY <1>1, <1>2, <2>1, <2>2, <2>3
    <2> QED BY <1>4, <2>4 DEF i
  <1> QED BY <1>3, <1>4

\* A part of the positions has the places of that part.
LEMMA PartIs ==
    ASSUME NEW n \in Nat, NEW I \in SUBSET (1..n), NEW s \in 0..n, NEW r \in s..n
    PROVE  /\ RankIn(I, s) \in Nat /\ RankIn(I, r) \in RankIn(I, s)..Cardinality(I)
           /\ Cardinality(PartOf(I, s, r)) = RankIn(I, r) - RankIn(I, s)
           /\ \A k \in 1..(RankIn(I, r) - RankIn(I, s)) : Nth(PartOf(I, s, r), k) = Nth(I, RankIn(I, s) + k) - s
  <1> DEFINE J == PartOf(I, s, r)
             d == r - s
             a == RankIn(I, s)
             b == RankIn(I, r)
             S == {i \in Nat : RankIn(J, i) = RankIn(I, s + i) - a}
  <1>1. d \in Nat /\ s \in Nat /\ r \in Nat /\ s + d = r /\ J \in SUBSET (1..d)
    BY DEF PartOf
  <1>2. /\ \A i \in 1..d : i \in J <=> s + i \in I
        /\ RankIn(J, 0) = 0 /\ RankIn(J, d) = Cardinality(J)
        /\ \A i \in Nat : RankIn(J, i) \in Nat
        /\ \A i \in Nat : RankIn(J, i + 1) = RankIn(J, i) + (IF i + 1 \in J THEN 1 ELSE 0)
    <2>1. \A i \in 1..d : i \in J <=> s + i \in I
      BY DEF PartOf
    <2> HIDE DEF J, d
    <2> QED BY <1>1, <2>1, RankStep
  <1>3. /\ \A i \in Nat : RankIn(I, i) \in Nat
        /\ \A i \in Nat : RankIn(I, i + 1) = RankIn(I, i) + (IF i + 1 \in I THEN 1 ELSE 0)
        /\ RankIn(I, n) = Cardinality(I)
    BY RankStep
  <1> HIDE DEF J, d
  <1>4. \A i \in 0..d : i \in S
    <2>1. 0 \in S
      <3>1. s + 0 = s
        BY <1>1
      <3> QED BY <1>1, <1>2, <1>3, <3>1
    <2>2. ASSUME NEW i \in 0..(d - 1), i \in S
          PROVE  i + 1 \in S
      <3>1. s + (i + 1) = (s + i) + 1 /\ s + i \in Nat /\ i \in Nat /\ i + 1 \in 1..d /\ i + 1 \in Nat
        BY <1>1
      <3>2. RankIn(I, (s + i) + 1) = RankIn(I, s + i) + (IF (s + i) + 1 \in I THEN 1 ELSE 0)
        BY <1>3, <3>1
      <3>3. RankIn(J, i + 1) = RankIn(J, i) + (IF s + (i + 1) \in I THEN 1 ELSE 0)
        BY <1>2, <3>1
      <3>4. RankIn(J, i) = RankIn(I, s + i) - a
        BY <2>2
      <3>5. a \in Nat /\ RankIn(I, s + i) \in Nat
        BY <1>1, <1>3, <3>1
      <3>6. RankIn(J, i + 1) = RankIn(I, (s + i) + 1) - a
        <4> HIDE DEF a
        <4> QED BY <3>1, <3>2, <3>3, <3>4, <3>5
      <3> HIDE DEF a
      <3> QED BY <3>1, <3>6
    <2> HIDE DEF S
    <2> QED BY <1>1, <2>1, <2>2, Reaches
  <1>5. a \in Nat /\ b \in Nat /\ a <= b /\ b <= Cardinality(I) /\ Cardinality(I) \in Nat
    <2>1. s <= r /\ r <= n
      OBVIOUS
    <2>2. a \in Nat /\ b \in Nat /\ a <= b
      BY <1>1, <2>1, RankOrder
    <2>3. b <= RankIn(I, n) /\ RankIn(I, n) \in Nat
      BY <1>1, <2>1, RankOrder
    <2> QED BY <1>3, <2>2, <2>3
  <1>6. Cardinality(J) = b - a
    BY <1>1, <1>2, <1>4
  <1>7. ASSUME NEW k \in 1..(b - a)
        PROVE  Nth(J, k) = Nth(I, a + k) - s
    <2> HIDE DEF a, b, S
    <2> DEFINE i == Nth(I, a + k)
    <2>1. a + k \in 1..Cardinality(I) /\ a + k <= b /\ ~(a + k <= a)
      BY <1>5
    <2>2. i \in I /\ RankIn(I, i) = a + k
      BY <2>1, NthIs DEF InOrder
    <2>3. i <= r /\ ~(i <= s)
      <3>1. r \in 0..n
        OBVIOUS
      <3> QED BY <2>1, <3>1, NthUpTo DEF a, b
    <2> HIDE DEF i
    <2>4. i - s \in 1..d /\ s + (i - s) = i /\ i - s \in 0..d
      BY <1>1, <2>2, <2>3
    <2>5. i - s \in J /\ RankIn(J, i - s) = RankIn(I, i) - a
      BY <1>2, <1>4, <2>2, <2>4 DEF S
    <2>6. RankIn(J, i - s) = k
      BY <1>5, <2>2, <2>5
    <2>7. Nth(J, k) = i - s
      BY <1>1, <2>5, <2>6, NthIs DEF InOrder
    <2> QED BY <2>7 DEF i
  <1> QED BY <1>5, <1>6, <1>7 DEF J, a, b

\* A set of numbers up to n that is not empty has a greatest one.
LEMMA GreatestNat ==
    ASSUME NEW n \in Nat, NEW T \in SUBSET (0..n), T # {}
    PROVE  \E m \in T : \A k \in T : k <= m
  <1> DEFINE S == {n - t : t \in T}
  <1>1. S \in SUBSET Nat /\ S # {}
    <2>1. \A t \in T : n - t \in Nat
      OBVIOUS
    <2> QED BY <2>1
  <1>2. PICK l \in S : \A k \in S : l <= k
    <2> HIDE DEF S
    <2> QED BY <1>1, LeastNat
  <1>3. PICK m \in T : l = n - m
    OBVIOUS
  <1>4. ASSUME NEW k \in T
        PROVE  k <= m
    <2>1. n - m <= n - k
      BY <1>2, <1>3
    <2> QED BY <2>1
  <1> QED BY <1>4
=============================================================================
