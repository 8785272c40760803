--------------------------- MODULE OperatorProofs ---------------------------
(***************************************************************************)
(* Facts about the operators that the specifications are built from, for   *)
(* any arguments: least and greatest members, the last member of an order, *)
(* folds over finite sets, sums among them, and the two folds of the shop, *)
(* the binding of crews and the colouring of lanes; and the windows of the *)
(* compiler.                                                               *)
(***************************************************************************)
EXTENDS Verdict, DagCompiler, FiniteSetTheorems, WellFoundedInduction, TLAPS

-----------------------------------------------------------------------------
(***************************************************************************)
(* Least and greatest members.                                             *)
(***************************************************************************)
\* A nonempty set of natural numbers has a least member.
LEMMA LeastNat ==
  ASSUME NEW S \in SUBSET Nat, S # {}
  PROVE  \E m \in S : \A x \in S : m <= x
  <1>1. PICK m \in S : \A x \in S : ~(<<x, m>> \in OpToRel(<, Nat))
    BY NatLessThanWellFounded, WFMin
  <1>2. \A x \in S : ~(x < m)
    BY <1>1 DEF OpToRel
  <1>. QED
    BY <1>2

\* A nonempty set of integers with a bound has a greatest member.
LEMMA GreatestInt ==
  ASSUME NEW S \in SUBSET Int, S # {}, NEW b \in Int, \A x \in S : x <= b
  PROVE  \E m \in S : \A x \in S : x <= m
  <1>. DEFINE T == {b - x : x \in S}
  <1>1. T \subseteq Nat /\ T # {}
    <2>1. \A x \in S : b - x \in Nat
      OBVIOUS
    <2>2. PICK x \in S : TRUE
      OBVIOUS
    <2>3. b - x \in T
      BY <2>2
    <2>. QED
      BY <2>1, <2>3
  <1>2. PICK t \in T : \A y \in T : t <= y
    BY <1>1, LeastNat
  <1>3. PICK m \in S : t = b - m
    OBVIOUS
  <1>4. \A x \in S : b - m <= b - x
    BY <1>2, <1>3
  <1>. QED
    BY <1>4

\* A nonempty family of finite sets has a member that contains no other one.
LEMMA MinimalSet ==
  ASSUME NEW F, F # {}, \A s \in F : IsFiniteSet(s)
  PROVE  \E s \in F : \A t \in F : t \subseteq s => t = s
  <1>. DEFINE N == {Cardinality(s) : s \in F}
  <1>1. N \in SUBSET Nat /\ N # {}
    BY FS_CardinalityType
  <1>2. PICK n \in N : \A x \in N : n <= x
    <2>. HIDE DEF N
    <2>. QED
      BY <1>1, LeastNat
  <1>3. PICK s \in F : n = Cardinality(s)
    BY <1>2
  <1>4. ASSUME NEW t \in F, t \subseteq s
        PROVE  t = s
    <2>1. Cardinality(t) \in N /\ Cardinality(s) \in N
      OBVIOUS
    <2>2. Cardinality(s) <= Cardinality(t)
      BY <1>2, <1>3, <2>1
    <2>3. /\ Cardinality(t) <= Cardinality(s)
          /\ Cardinality(s) = Cardinality(t) => s = t
      BY <1>4, FS_Subset
    <2>4. Cardinality(s) \in Nat /\ Cardinality(t) \in Nat
      BY <1>1, <2>1
    <2>. QED
      BY <2>2, <2>3, <2>4
  <1>. QED
    BY <1>4

\* R tells of any two members of S which one is the later.
Orders(R, S) ==
  /\ \A x \in S : \A y \in S : x # y => <<x, y>> \in R \/ <<y, x>> \in R
  /\ \A x \in S : \A y \in S : \A z \in S :
       <<x, y>> \in R /\ <<y, z>> \in R => <<x, z>> \in R

\* A nonempty finite set that is ordered has a last member.
LEMMA LastInOrder ==
  ASSUME NEW S, IsFiniteSet(S), S # {}, NEW R, Orders(R, S)
  PROVE  \E x \in S : \A q \in S \ {x} : <<q, x>> \in R
  <1>. DEFINE last(T, x) == \A q \in T \ {x} : <<q, x>> \in R
              F == {T \in SUBSET S : T # {} /\ ~\E x \in T : last(T, x)}
  <1>1. SUFFICES ASSUME F # {} PROVE FALSE
    OBVIOUS
  <1>2. \A T \in F : IsFiniteSet(T)
    BY FS_Subset
  <1>3. PICK T \in F : \A U \in F : U \subseteq T => U = T
    <2>. HIDE DEF F
    <2>. QED
      BY <1>1, <1>2, MinimalSet
  <1>4. PICK x \in T : TRUE
    OBVIOUS
  <1>5. T \ {x} # {}
    BY <1>4
  <1>6. T \ {x} \notin F
    <2>. HIDE DEF F
    <2>. QED
      BY <1>3, <1>4
  <1>7. PICK y \in T \ {x} : last(T \ {x}, y)
    BY <1>5, <1>6
  <1>8. x \in S /\ y \in S /\ x # y /\ T \subseteq S
    BY <1>4, <1>7
  <1>9. last(T, x) \/ last(T, y)
    <2>1. CASE <<x, y>> \in R
      BY <1>7, <2>1
    <2>2. CASE <<y, x>> \in R
      <3>1. ASSUME NEW q \in T \ {x} PROVE <<q, x>> \in R
        <4>1. q = y \/ <<q, y>> \in R
          BY <1>7
        <4>. QED
          BY <1>8, <2>2, <4>1 DEF Orders
      <3>. QED
        BY <3>1
    <2>. QED
      BY <1>8, <2>1, <2>2 DEF Orders
  <1>. QED
    BY <1>4, <1>7, <1>9

-----------------------------------------------------------------------------
(***************************************************************************)
(* Folds over a finite set S, which take one member away at a time: next   *)
(* says which, and step what it makes of the rest.                         *)
(***************************************************************************)
FoldsTo(S, base, next, step, f) ==
  f = [s \in SUBSET S |-> IF s = {} THEN base ELSE step[<<next[s], f[s \ {next[s]}]>>]]

\* Of every nonempty part of S, next is a member.
Chooses(S, next) == \A T \in SUBSET S : T # {} => next[T] \in T

\* Two folds agree on what both are defined for.
LEMMA FoldsAgree ==
  ASSUME NEW S, IsFiniteSet(S), NEW base, NEW next, NEW step,
         Chooses(S, next),
         NEW U \in SUBSET S, NEW f, FoldsTo(U, base, next, step, f),
         NEW V \in SUBSET S, NEW g, FoldsTo(V, base, next, step, g),
         NEW s \in SUBSET U, s \in SUBSET V
  PROVE  f[s] = g[s]
  <1>. DEFINE F == {t \in SUBSET S : t \subseteq U /\ t \subseteq V /\ f[t] # g[t]}
  <1>1. SUFFICES ASSUME F # {} PROVE FALSE
    OBVIOUS
  <1>2. \A T \in F : IsFiniteSet(T)
    BY FS_Subset
  <1>3. PICK t \in F : \A u \in F : u \subseteq t => u = t
    <2>. HIDE DEF F
    <2>. QED
      BY <1>1, <1>2, MinimalSet
  <1>. DEFINE rest == t \ {next[t]}
  <1>4. /\ f[t] = IF t = {} THEN base ELSE step[<<next[t], f[rest]>>]
        /\ g[t] = IF t = {} THEN base ELSE step[<<next[t], g[rest]>>]
    BY DEF FoldsTo
  <1>5. t # {} /\ rest # t /\ rest \subseteq t
    BY <1>4 DEF Chooses
  <1>6. rest \notin F
    <2>. HIDE DEF F
    <2>. QED
      BY <1>3, <1>5
  <1>7. f[rest] = g[rest]
    BY <1>5, <1>6
  <1>. QED
    BY <1>4, <1>7

\* There is such a fold.
LEMMA FoldExists ==
  ASSUME NEW S, IsFiniteSet(S), NEW base, NEW next, NEW step,
         Chooses(S, next)
  PROVE  \E f : FoldsTo(S, base, next, step, f)
  <1>. DEFINE F == {T \in SUBSET S : ~\E f : FoldsTo(T, base, next, step, f)}
  <1>1. SUFFICES ASSUME F # {} PROVE FALSE
    OBVIOUS
  <1>2. \A T \in F : IsFiniteSet(T)
    BY FS_Subset
  <1>3. PICK T \in F : \A U \in F : U \subseteq T => U = T
    <2>. HIDE DEF F
    <2>. QED
      BY <1>1, <1>2, MinimalSet
  <1>. DEFINE of(U) == CHOOSE f : FoldsTo(U, base, next, step, f)
              rest(s) == s \ {next[s]}
              g == [s \in SUBSET T |->
                      IF s = {} THEN base ELSE step[<<next[s], of(rest(s))[rest(s)]>>]]
  <1>4. T \in SUBSET S
    OBVIOUS
  <1>5. ASSUME NEW s \in SUBSET T, s # {}
        PROVE  FoldsTo(rest(s), base, next, step, of(rest(s)))
    <2>1. next[s] \in s /\ rest(s) \subseteq T /\ rest(s) # T
      BY <1>4, <1>5 DEF Chooses
    <2>2. rest(s) \notin F
      <3>. HIDE DEF F
      <3>. QED
        BY <1>3, <2>1
    <2>. QED
      BY <1>4, <2>1, <2>2
  <1>6. ASSUME NEW s \in SUBSET T, s # {}
        PROVE  of(rest(s))[rest(s)] = g[rest(s)]
    <2>. DEFINE u == rest(s)
    <2>1. /\ u \in SUBSET T
          /\ of(u)[u] = IF u = {} THEN base ELSE step[<<next[u], of(u)[rest(u)]>>]
          /\ g[u] = IF u = {} THEN base ELSE step[<<next[u], of(rest(u))[rest(u)]>>]
      <3>1. u \in SUBSET T
        BY <1>4
      <3>2. FoldsTo(u, base, next, step, of(u))
        BY <1>5, <1>6
      <3>. HIDE DEF of, u
      <3>. QED
        BY <3>1, <3>2 DEF FoldsTo
    <2>2. CASE u = {}
      BY <2>1, <2>2
    <2>3. CASE u # {}
      <3>1. /\ FoldsTo(u, base, next, step, of(u))
            /\ FoldsTo(rest(u), base, next, step, of(rest(u)))
        <4>1. FoldsTo(u, base, next, step, of(u))
          BY <1>5, <1>6
        <4>. HIDE DEF u, of
        <4>2. FoldsTo(rest(u), base, next, step, of(rest(u)))
          BY <1>5, <2>1, <2>3
        <4>. QED
          BY <4>1, <4>2
      <3>2. rest(u) \in SUBSET u /\ u \in SUBSET S
        BY <1>4, <2>1
      <3>3. of(u)[rest(u)] = of(rest(u))[rest(u)]
        <4>. HIDE DEF u, of
        <4>1. rest(u) \in SUBSET S /\ rest(u) \in SUBSET rest(u)
          BY <3>2
        <4>. HIDE DEF rest
        <4>. QED
          BY <3>1, <3>2, <4>1, FoldsAgree
      <3>. QED
        BY <2>1, <3>3
    <2>. QED
      BY <2>2, <2>3
  <1>7. FoldsTo(T, base, next, step, g)
    <2>1. \A s \in SUBSET T : s # {} => of(rest(s))[rest(s)] = g[rest(s)]
      BY <1>6
    <2>2. g = [s \in SUBSET T |-> IF s = {} THEN base ELSE step[<<next[s], g[rest(s)]>>]]
      <3>. DEFINE a(s) == of(rest(s))[rest(s)]
      <3>1. g = [s \in SUBSET T |-> IF s = {} THEN base ELSE step[<<next[s], a(s)>>]]
        OBVIOUS
      <3>2. \A s \in SUBSET T : s # {} => a(s) = g[rest(s)]
        BY <2>1
      <3>. HIDE DEF g, a, rest
      <3>. QED
        BY <3>1, <3>2
    <2>. HIDE DEF g
    <2>. QED
      BY <2>2 DEF FoldsTo
  <1>. QED
    BY <1>7

\* Good holds the empty set, and a set T when it holds T without its next member.
Inductive(S, next, Good) ==
  /\ {} \in Good
  /\ \A T \in SUBSET S : T # {} /\ T \ {next[T]} \in Good => T \in Good

\* What holds of the empty set and of a set T when it holds of T without its
\* next member holds of S.
LEMMA TakingAway ==
  ASSUME NEW S, IsFiniteSet(S), NEW next, Chooses(S, next),
         NEW Good, Inductive(S, next, Good)
  PROVE  \A T \in SUBSET S : T \in Good
  <1>. DEFINE F == {t \in SUBSET S : t \notin Good}
  <1>1. SUFFICES ASSUME F # {} PROVE FALSE
    OBVIOUS
  <1>2. \A t \in F : IsFiniteSet(t)
    BY FS_Subset
  <1>3. PICK t \in F : \A u \in F : u \subseteq t => u = t
    <2>. HIDE DEF F
    <2>. QED
      BY <1>1, <1>2, MinimalSet
  <1>4. t # {} /\ t \in SUBSET S /\ t \notin Good
    BY DEF Inductive
  <1>5. t \ {next[t]} # t /\ t \ {next[t]} \subseteq t
    BY <1>4 DEF Chooses
  <1>6. t \ {next[t]} \notin F
    <2>. HIDE DEF F
    <2>. QED
      BY <1>3, <1>5
  <1>. QED
    BY <1>4, <1>5, <1>6 DEF Inductive

\* A fold stays in the sets A[T] that its steps do not leave.
LEMMA FoldStaysIn ==
  ASSUME NEW S, IsFiniteSet(S), NEW base, NEW next, NEW step,
         Chooses(S, next),
         NEW A, base \in A[{}],
         \A T \in SUBSET S : T # {} =>
           \A a \in A[T \ {next[T]}] : step[<<next[T], a>>] \in A[T]
  PROVE  \E f : FoldsTo(S, base, next, step, f) /\ \A T \in SUBSET S : f[T] \in A[T]
  <1>1. PICK f : FoldsTo(S, base, next, step, f)
    BY FoldExists
  <1>. DEFINE Good == {T \in SUBSET S : f[T] \in A[T]}
  <1>2. \A T \in SUBSET S :
          f[T] = IF T = {} THEN base ELSE step[<<next[T], f[T \ {next[T]}]>>]
    BY <1>1 DEF FoldsTo
  <1>3. {} \in Good
    BY <1>2
  <1>4. \A T \in SUBSET S : T # {} /\ T \ {next[T]} \in Good => T \in Good
    BY <1>2
  <1>5. \A T \in SUBSET S : T \in Good
    <2>. HIDE DEF Good
    <2>1. Inductive(S, next, Good)
      BY <1>3, <1>4 DEF Inductive
    <2>. QED
      BY <2>1, TakingAway
  <1>. QED
    BY <1>1, <1>5

-----------------------------------------------------------------------------
(***************************************************************************)
(* Sums over finite sets of pairs, of the second component.                *)
(***************************************************************************)
SumOf(S) == MapThenSumSet(LAMBDA x : x[2], S)

Quantities(S) == IsFiniteSet(S) /\ \A x \in S : x[2] \in Int

\* A sum takes one member at a time.
LEMMA SumTakesOne ==
  ASSUME NEW S, Quantities(S)
  PROVE  /\ SumOf({}) = 0
         /\ \A T \in SUBSET S :
              /\ SumOf(T) \in Int
              /\ T # {} => \E y \in T : SumOf(T) = y[2] + SumOf(T \ {y})
  <1>. DEFINE pick(T) == CHOOSE x \in T : TRUE
              next == [T \in SUBSET S |-> pick(T)]
              step == [z \in S \X Int |-> z[1][2] + z[2]]
              A == [T \in SUBSET S |-> Int]
              folds(U, f) == f = [s \in SUBSET U |-> IF s = {} THEN 0 ELSE pick(s)[2] + f[s \ {pick(s)}]]
              iter(U) == CHOOSE f : folds(U, f)
  <1>1. \A T : SumOf(T) = iter(T)[T]
    BY DEF SumOf, MapThenSumSet, MapThenFoldSet
  <1>2. Chooses(S, next) /\ \A T \in SUBSET S : T # {} => next[T] = pick(T) /\ pick(T) \in T
    BY DEF Chooses
  <1>3. \A x \in S : \A a \in Int : step[<<x, a>>] = x[2] + a /\ x[2] + a \in Int
    BY DEF Quantities
  <1>. HIDE DEF next, step
  <1>4. PICK f : FoldsTo(S, 0, next, step, f) /\ \A T \in SUBSET S : f[T] \in A[T]
    <2>1. \A T \in SUBSET S : T # {} => \A a \in A[T \ {next[T]}] : step[<<next[T], a>>] \in A[T]
      BY <1>2, <1>3
    <2>2. 0 \in A[{}] /\ IsFiniteSet(S)
      BY DEF Quantities
    <2>. HIDE DEF A
    <2>. QED
      BY <1>2, <2>1, <2>2, FoldStaysIn
  <1>5. \A T \in SUBSET S : /\ f[T] \in Int
                            /\ f[T] = IF T = {} THEN 0 ELSE pick(T)[2] + f[T \ {pick(T)}]
    <2>1. \A T \in SUBSET S : f[T] \in Int
      BY <1>4
    <2>2. \A T \in SUBSET S : f[T] = IF T = {} THEN 0 ELSE step[<<next[T], f[T \ {next[T]}]>>]
      BY <1>4 DEF FoldsTo
    <2>. HIDE DEF pick
    <2>3. \A T \in SUBSET S : T # {} => next[T] \in S /\ T \ {next[T]} \in SUBSET S
      BY <1>2
    <2>. QED
      BY <1>2, <1>3, <2>1, <2>2, <2>3
  <1>6. ASSUME NEW U \in SUBSET S
        PROVE  iter(U)[U] = f[U]
    <2>. DEFINE g == [s \in SUBSET U |-> f[s]]
    <2>1. folds(U, g)
      <3>1. \A s \in SUBSET U : g[s] = IF s = {} THEN 0 ELSE pick(s)[2] + g[s \ {pick(s)}]
        <4>. HIDE DEF pick
        <4>. QED
          BY <1>5
      <3>. HIDE DEF pick
      <3>. QED
        BY <3>1
    <2>2. folds(U, iter(U))
      <3>. HIDE DEF folds, g
      <3>. QED
        BY <2>1
    <2>. DEFINE h == iter(U)
                Good == {s \in SUBSET U : h[s] = f[s]}
    <2>3. h = [s \in SUBSET U |-> IF s = {} THEN 0 ELSE pick(s)[2] + h[s \ {pick(s)}]]
      BY <2>2
    <2>. HIDE DEF h, pick
    <2>4. \A s \in SUBSET U : h[s] = IF s = {} THEN 0 ELSE pick(s)[2] + h[s \ {pick(s)}]
      BY <2>3
    <2>5. Chooses(U, next) /\ IsFiniteSet(U)
      BY <1>2, FS_Subset DEF Chooses, Quantities
    <2>6. {} \in Good
      BY <1>5, <2>4
    <2>7. ASSUME NEW s \in SUBSET U, s # {}, s \ {next[s]} \in Good
          PROVE  s \in Good
      <3>1. next[s] = pick(s) /\ h[s] = pick(s)[2] + h[s \ {pick(s)}] /\ f[s] = pick(s)[2] + f[s \ {pick(s)}]
        BY <1>2, <1>5, <2>4, <2>7
      <3>. QED
        BY <2>7, <3>1
    <2>8. \A s \in SUBSET U : s \in Good
      <3>. HIDE DEF Good
      <3>1. Inductive(U, next, Good)
        BY <2>6, <2>7 DEF Inductive
      <3>. QED
        BY <2>5, <3>1, TakingAway
    <2>9. h[U] = f[U]
      BY <2>8
    <2>. QED
      BY <2>9 DEF h
  <1>7. \A T \in SUBSET S : SumOf(T) = f[T]
    <2>. HIDE DEF iter
    <2>. QED
      BY <1>1, <1>6
  <1>8. ASSUME NEW T \in SUBSET S, T # {}
        PROVE  SumOf(T) = pick(T)[2] + SumOf(T \ {pick(T)}) /\ pick(T) \in T
    <2>. HIDE DEF pick
    <2>1. pick(T) \in T /\ T \ {pick(T)} \in SUBSET S
      BY <1>2, <1>8
    <2>. QED
      BY <1>5, <1>7, <1>8, <2>1
  <1>. HIDE DEF pick
  <1>9. SumOf({}) = 0 /\ \A T \in SUBSET S : SumOf(T) \in Int
    BY <1>5, <1>7
  <1>. QED
    BY <1>8, <1>9

\* It does not matter which one is taken.
LEMMA SumTakesAny ==
  ASSUME NEW S, Quantities(S), NEW x \in S
  PROVE  SumOf(S) = x[2] + SumOf(S \ {x})
  <1>. DEFINE bad(T, y) == SumOf(T) # y[2] + SumOf(T \ {y})
              F == {T \in SUBSET S : \E y \in T : bad(T, y)}
  <1>1. SUFFICES ASSUME F # {} PROVE FALSE
    OBVIOUS
  <1>2. \A T \in F : IsFiniteSet(T)
    BY FS_Subset DEF Quantities
  <1>3. PICK T \in F : \A U \in F : U \subseteq T => U = T
    <2>. HIDE DEF F
    <2>. QED
      BY <1>1, <1>2, MinimalSet
  <1>4. PICK y \in T : bad(T, y)
    OBVIOUS
  <1>5. \A U \in SUBSET T : U # T => U \in SUBSET S /\ \A z \in U : ~bad(U, z)
    <2>. HIDE DEF bad
    <2>1. \A U \in SUBSET T : U # T => U \in SUBSET S /\ U \notin F
      <3>. HIDE DEF F
      <3>1. T \in SUBSET S
        BY DEF F
      <3>. QED
        BY <1>3, <3>1
    <2>. QED
      BY <2>1
  <1>6. PICK z \in T : SumOf(T) = z[2] + SumOf(T \ {z})
    BY SumTakesOne
  <1>7. /\ SumOf(T \ {z}) = y[2] + SumOf((T \ {z}) \ {y})
        /\ SumOf(T \ {y}) = z[2] + SumOf((T \ {y}) \ {z})
        /\ z # y
    BY <1>4, <1>5, <1>6
  <1>8. (T \ {z}) \ {y} = (T \ {y}) \ {z}
    OBVIOUS
  <1>9. y[2] \in Int /\ z[2] \in Int /\ SumOf((T \ {z}) \ {y}) \in Int
    BY SumTakesOne DEF Quantities
  <1>. DEFINE rest == SumOf((T \ {z}) \ {y})
  <1>10. SumOf(T) = z[2] + (y[2] + rest) /\ SumOf(T \ {y}) = z[2] + rest
    <2>1. SumOf(T \ {z}) = y[2] + rest
      BY <1>7
    <2>2. SumOf((T \ {y}) \ {z}) = rest
      BY <1>8, Zenon
    <2>. HIDE DEF rest
    <2>. QED
      BY <1>6, <1>7, <2>1, <2>2
  <1>11. rest \in Int
    BY <1>9
  <1>. HIDE DEF rest
  <1>12. SumOf(T) = y[2] + SumOf(T \ {y})
    BY <1>9, <1>10, <1>11
  <1>. QED
    BY <1>4, <1>12

\* More pairs sum to no less where none is negative.
LEMMA SumGrows ==
  ASSUME NEW S, Quantities(S), \A x \in S : x[2] >= 0, NEW T \in SUBSET S
  PROVE  SumOf(T) <= SumOf(S)
  <1>. DEFINE F == {U \in SUBSET S : T \subseteq U /\ ~(SumOf(T) <= SumOf(U))}
  <1>1. SUFFICES ASSUME F # {} PROVE FALSE
    OBVIOUS
  <1>2. \A U \in F : IsFiniteSet(U)
    BY FS_Subset DEF Quantities
  <1>3. PICK U \in F : \A V \in F : V \subseteq U => V = U
    <2>. HIDE DEF F
    <2>. QED
      BY <1>1, <1>2, MinimalSet
  <1>4. U \in SUBSET S /\ T \subseteq U /\ ~(SumOf(T) <= SumOf(U)) /\ SumOf(T) \in Int /\ SumOf(U) \in Int
    BY SumTakesOne
  <1>5. PICK x \in U : x \notin T
    BY <1>4
  <1>6. U \ {x} \notin F
    <2>. HIDE DEF F
    <2>. QED
      BY <1>3, <1>5
  <1>7. SumOf(T) <= SumOf(U \ {x}) /\ SumOf(U \ {x}) \in Int
    BY <1>4, <1>5, <1>6, SumTakesOne
  <1>8. SumOf(U) = x[2] + SumOf(U \ {x})
    <2>1. Quantities(U)
      BY <1>4, FS_Subset DEF Quantities
    <2>. QED
      BY <2>1, SumTakesAny
  <1>9. x[2] \in Int /\ x[2] >= 0
    BY <1>4 DEF Quantities
  <1>. QED
    BY <1>4, <1>7, <1>8, <1>9

\* The sum over two sets without a common pair.
LEMMA SumOfBoth ==
  ASSUME NEW S, Quantities(S), NEW T \in SUBSET S
  PROVE  SumOf(S) = SumOf(T) + SumOf(S \ T)
  <1>. DEFINE F == {U \in SUBSET S : T \subseteq U /\ SumOf(U) # SumOf(T) + SumOf(U \ T)}
  <1>1. SUFFICES ASSUME F # {} PROVE FALSE
    OBVIOUS
  <1>2. \A U \in F : IsFiniteSet(U)
    BY FS_Subset DEF Quantities
  <1>3. PICK U \in F : \A V \in F : V \subseteq U => V = U
    <2>. HIDE DEF F
    <2>. QED
      BY <1>1, <1>2, MinimalSet
  <1>4. U \in SUBSET S /\ T \subseteq U /\ SumOf(U) # SumOf(T) + SumOf(U \ T)
    OBVIOUS
  <1>5. SumOf(T) \in Int /\ SumOf({}) = 0
    BY SumTakesOne
  <1>6. PICK x \in U : x \notin T
    <2>1. U # T
      <3>1. T \ T = {}
        OBVIOUS
      <3>. QED
        BY <1>4, <1>5, <3>1
    <2>. QED
      BY <1>4, <2>1
  <1>7. U \ {x} \notin F
    <2>. HIDE DEF F
    <2>. QED
      BY <1>3, <1>6
  <1>8. SumOf(U \ {x}) = SumOf(T) + SumOf((U \ {x}) \ T)
    BY <1>4, <1>6, <1>7
  <1>9. SumOf(U) = x[2] + SumOf(U \ {x}) /\ SumOf(U \ T) = x[2] + SumOf((U \ T) \ {x})
    <2>1. Quantities(U) /\ Quantities(U \ T)
      BY <1>4, FS_Subset DEF Quantities
    <2>. QED
      BY <1>6, <2>1, SumTakesAny
  <1>10. (U \ {x}) \ T = (U \ T) \ {x}
    OBVIOUS
  <1>11. x[2] \in Int /\ SumOf((U \ T) \ {x}) \in Int
    <2>1. (U \ T) \ {x} \in SUBSET S
      BY <1>4
    <2>. QED
      BY <1>4, <2>1, SumTakesOne DEF Quantities
  <1>. DEFINE rest == SumOf((U \ T) \ {x})
  <1>12. SumOf(U \ {x}) = SumOf(T) + rest /\ SumOf(U \ T) = x[2] + rest
    BY <1>8, <1>9, <1>10, Zenon
  <1>13. rest \in Int
    BY <1>11
  <1>. HIDE DEF rest
  <1>14. SumOf(U) = SumOf(T) + SumOf(U \ T)
    BY <1>5, <1>9, <1>11, <1>12, <1>13
  <1>. QED
    BY <1>4, <1>14

-----------------------------------------------------------------------------
(***************************************************************************)
(* bind_concrete_crews.                                                    *)
(***************************************************************************)
\* The plan new has the rows of plan, but for the crew of those that need one
\* and name none, which may have got one with the skills.
Crewed(p, plan, new) ==
  /\ DOMAIN new = DOMAIN plan
  /\ \A o \in DOMAIN plan :
       \/ new[o] = plan[o]
       \/ /\ plan[o].crew = NoCrew /\ NeedsCrew(p, o)
          /\ \E w \in DOMAIN p.crewCap : Skilled(p, o, w) /\ new[o] = [plan[o] EXCEPT !.crew = w]

\* The rows of T that are bound before o, and o as it was.
SeenBy(plan, new, T, o) ==
  [q \in {x \in T : StartsBefore(plan, x, o)} \cup {o} |-> IF q = o THEN plan[o] ELSE new[q]]

\* Row o has what the fold over the rows T makes of it.
BoundInTurn(p, plan, new, T, o) ==
  LET free == FreeCrews(p, SeenBy(plan, new, T, o), o)
  IN IF plan[o].crew = NoCrew /\ NeedsCrew(p, o) /\ free # {}
     THEN \E w \in free : new[o] = [plan[o] EXCEPT !.crew = w]
     ELSE new[o] = plan[o]

\* Rows that come later do not matter.
LEMMA LaterRowsAreNotSeen ==
  ASSUME NEW p, NEW plan, NEW new, NEW old, NEW T, NEW o, o \notin T, NEW q \in T,
         ~StartsBefore(plan, o, q), \A x \in T : new[x] = old[x],
         BoundInTurn(p, plan, old, T, q)
  PROVE  BoundInTurn(p, plan, new, T \cup {o}, q)
  <1>1. {x \in T \cup {o} : StartsBefore(plan, x, q)} = {x \in T : StartsBefore(plan, x, q)}
    OBVIOUS
  <1>. DEFINE before == {x \in T : StartsBefore(plan, x, q)}
  <1>2. \A x \in before \cup {q} : new[x] = old[x]
    OBVIOUS
  <1>3. SeenBy(plan, new, T \cup {o}, q) = SeenBy(plan, old, T, q)
    <2>1. SeenBy(plan, new, T \cup {o}, q) = [x \in before \cup {q} |-> IF x = q THEN plan[q] ELSE new[x]]
      BY <1>1 DEF SeenBy
    <2>2. SeenBy(plan, old, T, q) = [x \in before \cup {q} |-> IF x = q THEN plan[q] ELSE old[x]]
      BY DEF SeenBy
    <2>. HIDE DEF before
    <2>. QED
      BY <1>2, <2>1, <2>2
  <1>. QED
    BY <1>3 DEF BoundInTurn

\* Every row is bound in its turn, among the rows that start before it.
LEMMA CrewsAreBoundInTurn ==
  ASSUME NEW p, DOMAIN p.crewCap \subseteq Nat,
         NEW plan, IsFiniteSet(DOMAIN plan), DOMAIN plan \subseteq Int,
         \A o \in DOMAIN plan : plan[o].start \in Int
  PROVE  /\ DOMAIN BindCrews(p, plan) = DOMAIN plan
         /\ \A o \in DOMAIN plan : BoundInTurn(p, plan, BindCrews(p, plan), DOMAIN plan, o)
  <1>. DEFINE S == DOMAIN plan
              unbound(o) == plan[o].crew = NoCrew /\ NeedsCrew(p, o)
              bind(o, acc) ==
                LET seen == With(acc, o, plan[o])
                    free == FreeCrews(p, seen, o)
                IN IF unbound(o) /\ free # {}
                   THEN With(acc, o, [plan[o] EXCEPT !.crew = Min(free)])
                   ELSE seen
              last(T) == CHOOSE o \in T : \A q \in T \ {o} : StartsBefore(plan, q, o)
              base == [o \in {} |-> {}]
              rowsOf(o) == {plan[o]} \cup (IF unbound(o)
                                           THEN {[plan[o] EXCEPT !.crew = w] :
                                                   w \in {v \in DOMAIN p.crewCap : Skilled(p, o, v)}}
                                                         ELSE {})
              R == UNION {rowsOf(o) : o \in S}
              A == [T \in SUBSET S |-> {g \in [T -> R] : \A o \in T : g[o] \in rowsOf(o) /\ BoundInTurn(p, plan, g, T, o)}]
              step == [z \in S \X UNION {[T -> R] : T \in SUBSET S} |-> bind(z[1], z[2])]
              next == [T \in SUBSET S |-> last(T)]
              folds(f) == f = [s \in SUBSET S |-> IF s = {} THEN base ELSE bind(last(s), f[s \ {last(s)}])]
              iter == CHOOSE f : folds(f)
  <1>1. BindCrews(p, plan) = iter[S]
    BY DEF BindCrews, MapThenFoldSet
  <1>2. \A T \in SUBSET S : T # {} => last(T) \in T /\ \A q \in T \ {last(T)} : StartsBefore(plan, q, last(T))
    <2>1. SUFFICES ASSUME NEW T \in SUBSET S, T # {}
                   PROVE  \E o \in T : \A q \in T \ {o} : StartsBefore(plan, q, o)
      OBVIOUS
    <2>. DEFINE Q == {e \in T \X T : StartsBefore(plan, e[1], e[2])}
    <2>2. \A x \in T : \A y \in T : x # y => <<x, y>> \in Q \/ <<y, x>> \in Q
      BY DEF StartsBefore
    <2>3. \A x \in T : \A y \in T : \A z \in T : <<x, y>> \in Q /\ <<y, z>> \in Q => <<x, z>> \in Q
      BY DEF StartsBefore
    <2>4. IsFiniteSet(T)
      BY FS_Subset
    <2>5. \E x \in T : \A q \in T \ {x} : <<q, x>> \in Q
      <3>1. Orders(Q, T)
        <4>. HIDE DEF Q
        <4>. QED
          BY <2>2, <2>3 DEF Orders
      <3>. HIDE DEF Q
      <3>. QED
        BY <2>1, <2>4, <3>1, LastInOrder
    <2>. QED
      BY <2>5
  <1>3. Chooses(S, next)
    BY <1>2 DEF Chooses
  <1>4. ASSUME NEW o \in S, NEW T \in SUBSET S, NEW acc \in A[T],
               o \notin T, \A q \in T : StartsBefore(plan, q, o)
        PROVE  bind(o, acc) \in A[T \cup {o}]
    <2>1. T \cup {o} \in SUBSET S
      OBVIOUS
    <2>2. DOMAIN acc = T /\ \A x \in T : acc[x] \in rowsOf(x) /\ BoundInTurn(p, plan, acc, T, x)
      <3>. HIDE DEF rowsOf, R
      <3>. QED
        OBVIOUS
    <2>. DEFINE free == FreeCrews(p, With(acc, o, plan[o]), o)
                bound(r) == IF unbound(o) /\ free # {}
                            THEN \E w \in free : r = [plan[o] EXCEPT !.crew = w]
                            ELSE r = plan[o]
    <2>3. \E r \in rowsOf(o) : bind(o, acc) = With(acc, o, r) /\ bound(r)
      <3>1. CASE unbound(o) /\ FreeCrews(p, With(acc, o, plan[o]), o) # {}
        <4>1. free \in SUBSET Nat /\ free # {}
          BY <3>1 DEF FreeCrews
        <4>2. \E w \in free : \A v \in free : w <= v
          <5>. HIDE DEF free
          <5>. QED
            BY <4>1, LeastNat
        <4>3. Min(free) \in free
          BY <4>2 DEF Min
        <4>4. Min(free) \in DOMAIN p.crewCap /\ Skilled(p, o, Min(free))
          BY <4>3 DEF FreeCrews
        <4>5. bind(o, acc) = With(acc, o, [plan[o] EXCEPT !.crew = Min(free)])
          BY <3>1
        <4>. HIDE DEF free, bind
        <4>. QED
          BY <3>1, <4>3, <4>4, <4>5
      <3>2. CASE ~(unbound(o) /\ FreeCrews(p, With(acc, o, plan[o]), o) # {})
        BY <3>2
      <3>. QED
        BY <3>1, <3>2
    <2>4. PICK r \in rowsOf(o) : bind(o, acc) = With(acc, o, r) /\ bound(r)
      BY <2>3
    <2>5. With(acc, o, r) \in A[T \cup {o}]
      <3>. DEFINE g == With(acc, o, r)
                  V == T \cup {o}
      <3>1. g = [x \in V |-> IF x = o THEN r ELSE acc[x]]
        BY <2>2 DEF With
      <3>2. \A x \in V : g[x] \in rowsOf(x)
        <4>. HIDE DEF rowsOf, g
        <4>. QED
          BY <2>2, <3>1
      <3>3. V \in SUBSET S
        BY <2>1
      <3>7. \A x \in V : BoundInTurn(p, plan, g, V, x)
        <4>1. ASSUME NEW x \in T PROVE BoundInTurn(p, plan, g, V, x)
          <5>1. ~StartsBefore(plan, o, x)
            BY <1>4 DEF StartsBefore
          <5>2. \A y \in T : g[y] = acc[y]
            BY <1>4, <3>1
          <5>. HIDE DEF g, rowsOf
          <5>. QED
            BY <1>4, <2>2, <5>1, <5>2, LaterRowsAreNotSeen
        <4>2. SeenBy(plan, g, V, o) = With(acc, o, plan[o])
          <5>1. {x \in V : StartsBefore(plan, x, o)} \cup {o} = V
            BY <1>4
          <5>2. \A x \in V : (IF x = o THEN plan[o] ELSE g[x]) = (IF x = o THEN plan[o] ELSE acc[x])
            BY <3>1
          <5>3. With(acc, o, plan[o]) = [x \in V |-> IF x = o THEN plan[o] ELSE acc[x]]
            BY <2>2 DEF With
          <5>. HIDE DEF g, V, rowsOf
          <5>. QED
            BY <5>1, <5>2, <5>3 DEF SeenBy
        <4>3. g[o] = r
          BY <3>1
        <4>. HIDE DEF g, V, rowsOf
        <4>4. BoundInTurn(p, plan, g, V, o)
          BY <2>4, <4>2, <4>3 DEF BoundInTurn
        <4>. QED
          BY <4>1, <4>4 DEF V
      <3>. HIDE DEF rowsOf, g, V
      <3>4. \A x \in V : g[x] \in R
        BY <3>2, <3>3
      <3>. HIDE DEF R
      <3>5. g \in [V -> R]
        BY <3>1, <3>4
      <3>6. g \in A[V]
        BY <3>2, <3>3, <3>5, <3>7
      <3>. QED
        BY <3>6 DEF g, V
    <2>. QED
      BY <2>4, <2>5
  <1>5. \A T \in SUBSET S : T # {} =>
          \A acc \in A[T \ {next[T]}] : step[<<next[T], acc>>] \in A[T]
    <2>1. SUFFICES ASSUME NEW T \in SUBSET S, T # {}, NEW acc \in A[T \ {next[T]}]
                   PROVE  step[<<next[T], acc>>] \in A[T]
      <3>. HIDE DEF A, step, next
      <3>. QED
        OBVIOUS
    <2>2. /\ next[T] = last(T) /\ last(T) \in T
          /\ \A q \in T \ {last(T)} : StartsBefore(plan, q, last(T))
      BY <1>2, <2>1
    <2>. DEFINE o == last(T)
                U == T \ {o}
    <2>3. /\ o \in S /\ U \in SUBSET S /\ U \cup {o} = T /\ acc \in A[U]
          /\ o \notin U /\ \A q \in U : StartsBefore(plan, q, o)
      BY <2>2
    <2>. HIDE DEF o
    <2>4. acc \in [U -> R]
      BY <2>3
    <2>5. step[<<o, acc>>] = bind(o, acc)
      <3>. HIDE DEF bind, A, R
      <3>. QED
        BY <2>3, <2>4
    <2>6. bind(o, acc) \in A[U \cup {o}]
      <3>1. /\ o \in S /\ U \in SUBSET S /\ acc \in A[U]
            /\ o \notin U /\ \A q \in U : StartsBefore(plan, q, o)
        <4>. HIDE DEF A
        <4>. QED
          BY <2>3
      <3>. HIDE DEF bind, A, U, S
      <3>. QED
        BY <1>4, <3>1
    <2>7. step[<<o, acc>>] \in A[T]
      <3>. HIDE DEF A, step, bind
      <3>. QED
        BY <2>3, <2>5, <2>6
    <2>. HIDE DEF A, step
    <2>. QED
      BY <2>2, <2>7 DEF o
  <1>6. base \in A[{}]
    OBVIOUS
  <1>7. \E f : folds(f)
    <2>1. PICK f : FoldsTo(S, base, next, step, f) /\ \A T \in SUBSET S : f[T] \in A[T]
      <3>. HIDE DEF S, base, next, step, A
      <3>. QED
        BY <1>3, <1>5, <1>6, FoldStaysIn DEF S
    <2>2. ASSUME NEW T \in SUBSET S, T # {}
          PROVE  step[<<next[T], f[T \ {next[T]}]>>] = bind(last(T), f[T \ {last(T)}])
      <3>1. next[T] = last(T) /\ last(T) \in S /\ T \ {last(T)} \in SUBSET S
        BY <1>2, <2>2
      <3>. DEFINE o == last(T)
                  U == T \ {o}
      <3>2. f[U] \in A[U] /\ U \in SUBSET S
        <4>. HIDE DEF A, last
        <4>. QED
          BY <2>1, <3>1
      <3>3. f[U] \in [U -> R]
        <4>. HIDE DEF U, R, rowsOf
        <4>. QED
          BY <3>2
      <3>. HIDE DEF bind, R, last
      <3>. QED
        BY <3>1, <3>2, <3>3
    <2>3. folds(f)
      <3>. HIDE DEF bind, last, next, step, base
      <3>. QED
        BY <2>1, <2>2 DEF FoldsTo
    <2>. QED
      BY <2>3
  <1>8. folds(iter)
    <2>. HIDE DEF folds
    <2>. QED
      BY <1>7
  <1>9. iter[S] \in A[S]
    <2>. DEFINE Good == {T \in SUBSET S : iter[T] \in A[T]}
    <2>. HIDE DEF iter
    <2>1. \A T \in SUBSET S :
            iter[T] = IF T = {} THEN base ELSE bind(last(T), iter[T \ {last(T)}])
      <3>. HIDE DEF bind, last, base
      <3>. QED
        BY <1>8
    <2>2. {} \in Good
      BY <1>6, <2>1
    <2>3. ASSUME NEW T \in SUBSET S, T # {}, T \ {next[T]} \in Good
          PROVE  T \in Good
      <3>1. /\ next[T] = last(T) /\ last(T) \in S /\ (T \ {last(T)}) \cup {last(T)} = T
            /\ \A q \in T \ {last(T)} : StartsBefore(plan, q, last(T))
        BY <1>2, <2>3
      <3>. DEFINE o == last(T)
                  U == T \ {o}
      <3>2. /\ U \in SUBSET S /\ iter[U] \in A[U] /\ o \in S /\ U \cup {o} = T
            /\ o \notin U /\ \A q \in U : StartsBefore(plan, q, o)
        <4>. HIDE DEF A, last
        <4>. QED
          BY <2>3, <3>1
      <3>3. bind(o, iter[U]) \in A[U \cup {o}]
        <4>. HIDE DEF bind, A, U, o
        <4>. QED
          BY <1>4, <3>2
      <3>. HIDE DEF A, bind, last
      <3>. QED
        BY <2>1, <2>3, <3>2, <3>3
    <2>4. \A T \in SUBSET S : T \in Good
      <3>1. IsFiniteSet(S)
        OBVIOUS
      <3>. HIDE DEF Good, next, S
      <3>2. Inductive(S, next, Good)
        BY <2>2, <2>3 DEF Inductive
      <3>. QED
        BY <1>3, <3>1, <3>2, TakingAway
    <2>. QED
      BY <2>4
  <1>. HIDE DEF iter, R, rowsOf
  <1>. QED
    BY <1>1, <1>9

\* Nothing else is bound or changed.
LEMMA CrewsAreBound ==
  ASSUME NEW p, DOMAIN p.crewCap \subseteq Nat,
         NEW plan, IsFiniteSet(DOMAIN plan), DOMAIN plan \subseteq Int,
         \A o \in DOMAIN plan : plan[o].start \in Int
  PROVE  Crewed(p, plan, BindCrews(p, plan))
  <1>. DEFINE new == BindCrews(p, plan)
  <1>1. DOMAIN new = DOMAIN plan /\ \A o \in DOMAIN plan : BoundInTurn(p, plan, new, DOMAIN plan, o)
    BY CrewsAreBoundInTurn
  <1>. HIDE DEF new
  <1>2. \A seen, o : \A w \in FreeCrews(p, seen, o) : w \in DOMAIN p.crewCap /\ Skilled(p, o, w)
    BY DEF FreeCrews
  <1>3. Crewed(p, plan, new)
    BY <1>1, <1>2 DEF Crewed, BoundInTurn
  <1>. QED
    BY <1>3 DEF new

\* A part of a finite set of rows is no more than the whole.
LEMMA FewerRows ==
  ASSUME NEW S, IsFiniteSet(S), NEW T \in SUBSET S
  PROVE  Cardinality(T) \in Nat /\ Cardinality(S) \in Nat /\ Cardinality(T) <= Cardinality(S)
  BY FS_Subset, FS_CardinalityType

\* Rows without setups, bound in turn.
BoundRows(p, plan, new) ==
  /\ IsFiniteSet(DOMAIN plan) /\ DOMAIN plan \subseteq Int /\ DOMAIN new = DOMAIN plan
  /\ \A o \in DOMAIN plan :
       /\ "crew" \in DOMAIN plan[o] /\ plan[o].setup = 0
       /\ plan[o].start \in Int /\ plan[o].end \in Int /\ plan[o].start < plan[o].end
       /\ new[o].start = plan[o].start /\ new[o].end = plan[o].end /\ new[o].setup = 0
       /\ BoundInTurn(p, plan, new, DOMAIN plan, o)

\* A crew that gets all its rows here never has more at once than it takes: the
\* one of them that starts last has seen the others.
LEMMA BoundCrewsAreNotOver ==
  ASSUME NEW p, NEW plan, NEW new, BoundRows(p, plan, new),
         NEW w \in DOMAIN p.crewCap, w # NoCrew, p.crewCap[w] \in Nat,
         \A o \in OfCrew(new, w) : plan[o].crew = NoCrew
  PROVE  ~Excess(new, OfCrew(new, w), p.crewCap[w])
  <1>. SUFFICES ASSUME NEW o \in OfCrew(new, w),
                       Cardinality(LiveAt(new, OfCrew(new, w), OccStart(new[o]))) > p.crewCap[w],
                       Live(new[o], OccStart(new[o]))
                PROVE  FALSE
    BY DEF Excess
  <1>. DEFINE t == OccStart(new[o])
              L == LiveAt(new, OfCrew(new, w), t)
              Q == {e \in L \X L : StartsBefore(plan, e[1], e[2])}
  <1>1. L \in SUBSET DOMAIN plan /\ o \in L /\ IsFiniteSet(L)
    <2>1. L \in SUBSET DOMAIN plan
      BY DEF LiveAt, OfCrew, BoundRows
    <2>2. o \in L
      BY DEF LiveAt
    <2>. HIDE DEF L
    <2>. QED
      BY <2>1, <2>2, FS_Subset DEF BoundRows
  <1>2. \A x \in L : x \in Int /\ plan[x].start \in Int
    BY <1>1 DEF BoundRows
  <1>3. PICK z \in L : \A q \in L \ {z} : StartsBefore(plan, q, z)
    <2>. HIDE DEF L
    <2>1. \A x \in L : \A y \in L : x # y => <<x, y>> \in Q \/ <<y, x>> \in Q
      BY <1>2 DEF StartsBefore
    <2>2. \A x \in L : \A y \in L : \A v \in L : <<x, y>> \in Q /\ <<y, v>> \in Q => <<x, v>> \in Q
      BY <1>2 DEF StartsBefore
    <2>3. Orders(Q, L)
      <3>. HIDE DEF Q
      <3>. QED
        BY <2>1, <2>2 DEF Orders
    <2>4. \E z \in L : \A q \in L \ {z} : <<q, z>> \in Q
      <3>. HIDE DEF Q
      <3>. QED
        BY <1>1, <2>3, LastInOrder
    <2>. QED
      BY <2>4
  <1>. DEFINE seen == SeenBy(plan, new, DOMAIN plan, z)
              met == {q \in OfCrew(seen, w) : Meets(seen[z], seen[q])}
  <1>4. /\ z \in DOMAIN plan /\ new[z].crew = w /\ plan[z].crew = NoCrew
        /\ \A q \in L : new[q].crew = w /\ Live(new[q], t)
    BY <1>1 DEF LiveAt, OfCrew
  <1>5. w \in FreeCrews(p, seen, z)
    <2>1. new[z] # plan[z] /\ BoundInTurn(p, plan, new, DOMAIN plan, z)
      BY <1>4 DEF BoundRows
    <2>2. PICK v \in FreeCrews(p, seen, z) : new[z] = [plan[z] EXCEPT !.crew = v]
      BY <2>1 DEF BoundInTurn
    <2>3. "crew" \in DOMAIN plan[z]
      BY <1>4 DEF BoundRows
    <2>4. new[z].crew = v
      BY <2>2, <2>3
    <2>. QED
      BY <1>4, <2>2, <2>4
  <1>6. Cardinality(met) < p.crewCap[w]
    BY <1>5 DEF FreeCrews
  <1>7. /\ DOMAIN seen \in SUBSET DOMAIN plan /\ z \in DOMAIN seen /\ seen[z] = plan[z]
        /\ \A q \in L \ {z} : q \in DOMAIN seen /\ seen[q] = new[q]
    BY <1>1, <1>3, <1>4 DEF SeenBy
  <1>8. IsFiniteSet(met)
    <2>1. met \in SUBSET DOMAIN plan
      BY <1>7 DEF OfCrew
    <2>. QED
      BY <2>1, FS_Subset DEF BoundRows
  <1>9. L \ {z} \in SUBSET met
    <2>1. SUFFICES ASSUME NEW q \in L \ {z} PROVE q \in met
      OBVIOUS
    <2>2. q \in OfCrew(seen, w)
      BY <1>4, <1>7 DEF OfCrew
    <2>3. q \in DOMAIN plan /\ o \in DOMAIN plan
      BY <1>1
    <2>4. Live(new[q], t) /\ Live(new[z], t)
      BY <1>4
    <2>5. /\ new[q].start <= t /\ t < new[q].end /\ new[z].start <= t /\ t < new[z].end
          /\ t \in Int /\ OccStart(new[q]) = new[q].start /\ OccStart(plan[z]) = plan[z].start
          /\ new[z].start = plan[z].start /\ new[z].end = plan[z].end
      BY <1>4, <2>3, <2>4 DEF Live, OccStart, BoundRows
    <2>6. Meets(plan[z], new[q])
      <3>1. new[q].start \in Int /\ new[q].end \in Int /\ plan[z].start \in Int /\ plan[z].end \in Int
        BY <1>4, <2>3 DEF BoundRows
      <3>. HIDE DEF t
      <3>. QED
        BY <2>5, <3>1 DEF Meets
    <2>. QED
      BY <1>7, <2>2, <2>6
  <1>. HIDE DEF met, L
  <1>10. Cardinality(L \ {z}) = Cardinality(L) - 1
    BY <1>1, FS_RemoveElement
  <1>11. Cardinality(L \ {z}) <= Cardinality(met) /\ Cardinality(met) \in Nat /\ Cardinality(L \ {z}) \in Nat
    BY <1>8, <1>9, FewerRows
  <1>12. Cardinality(L) \in Nat
    BY <1>1, FS_CardinalityType
  <1>. QED
    BY <1>6, <1>10, <1>11, <1>12 DEF L

\* A row that needs a crew finds one that is free, if never more rows than there
\* are crews with the skills draw on these crews.
LEMMA SomeCrewIsFree ==
  ASSUME NEW p, DOMAIN p.crewCap \subseteq Nat \ {NoCrew}, NEW plan, NEW new, BoundRows(p, plan, new),
         NEW o \in DOMAIN plan, plan[o].crew = NoCrew,
         NEW fit, fit = {w \in DOMAIN p.crewCap : Skilled(p, o, w)}, IsFiniteSet(fit),
         \A w \in fit : p.crewCap[w] \in Nat \ {0},
         NEW S \in SUBSET DOMAIN plan, o \in S, ~Excess(plan, S, Cardinality(fit)),
         \A q \in DOMAIN plan : new[q].crew \in fit => q \in S
  PROVE  FreeCrews(p, SeenBy(plan, new, DOMAIN plan, o), o) # {}
  <1>. DEFINE seen == SeenBy(plan, new, DOMAIN plan, o)
              t == OccStart(plan[o])
              L == LiveAt(plan, S, t)
              met(w) == {q \in OfCrew(seen, w) : Meets(seen[o], seen[q])}
  <1>. SUFFICES ASSUME FreeCrews(p, seen, o) = {} PROVE FALSE
    OBVIOUS
  <1>1. /\ DOMAIN seen = {x \in DOMAIN plan : StartsBefore(plan, x, o)} \cup {o} /\ seen[o] = plan[o]
        /\ \A q \in DOMAIN seen : q # o => seen[q] = new[q]
    BY DEF SeenBy
  <1>2. t = plan[o].start /\ t \in Int /\ t < plan[o].end
    BY DEF OccStart, BoundRows
  <1>. HIDE DEF seen
  <1>3. ASSUME NEW w \in fit
        PROVE  \E q \in L \ {o} : new[q].crew = w
    <2>1. ~(Cardinality(met(w)) < p.crewCap[w])
      BY <1>3 DEF FreeCrews
    <2>2. met(w) # {}
      <3>1. Cardinality({}) = 0
        BY FS_EmptySet
      <3>2. p.crewCap[w] \in Nat \ {0}
        BY <1>3
      <3>. HIDE DEF met
      <3>. QED
        BY <2>1, <3>1, <3>2
    <2>3. PICK q \in DOMAIN seen : seen[q].crew = w /\ Meets(seen[o], seen[q])
      BY <2>2 DEF OfCrew
    <2>4. q # o /\ q \in DOMAIN plan /\ seen[q] = new[q] /\ StartsBefore(plan, q, o)
      BY <1>1, <2>3
    <2>5. q \in S
      BY <2>3, <2>4
    <2>6. /\ OccStart(plan[q]) = plan[q].start /\ plan[q].start \in Int /\ plan[q].end \in Int
          /\ OccStart(new[q]) = plan[q].start /\ new[q].end = plan[q].end
      BY <2>4 DEF OccStart, BoundRows
    <2>7. plan[q].start <= t /\ t < plan[q].end
      <3>1. plan[q].start <= plan[o].start
        BY <1>2, <2>4, <2>6 DEF StartsBefore
      <3>2. t < new[q].end
        BY <1>1, <2>3, <2>4 DEF Meets
      <3>. QED
        BY <1>2, <2>6, <3>1, <3>2
    <2>8. q \in L
      BY <2>5, <2>6, <2>7 DEF LiveAt, Live
    <2>. QED
      BY <2>3, <2>4, <2>8
  <1>4. o \in L
    BY <1>2 DEF LiveAt, Live
  <1>5. L \in SUBSET DOMAIN plan /\ IsFiniteSet(L)
    <2>1. L \in SUBSET DOMAIN plan
      BY DEF LiveAt
    <2>. QED
      BY <2>1, FS_Subset DEF BoundRows
  <1>6. ~(Cardinality(L) > Cardinality(fit))
    <2>1. Live(plan[o], t)
      BY <1>4 DEF LiveAt
    <2>. QED
      BY <2>1 DEF Excess
  <1>. HIDE DEF L
  <1>. DEFINE who == {new[q].crew : q \in L \ {o}}
  <1>7. /\ Cardinality(L \ {o}) = Cardinality(L) - 1 /\ IsFiniteSet(L \ {o})
        /\ Cardinality(L) \in Nat /\ Cardinality(fit) \in Nat
    BY <1>4, <1>5, FS_RemoveElement, FS_CardinalityType
  <1>8. IsFiniteSet(who) /\ Cardinality(who) <= Cardinality(L \ {o})
    <2>. DEFINE M == L \ {o}
                f == [q \in M |-> new[q].crew]
    <2>1. IsFiniteSet(M)
      BY <1>7
    <2>2. who = {f[q] : q \in M}
      OBVIOUS
    <2>. HIDE DEF M
    <2>3. f \in Surjection(M, who)
      BY <2>2 DEF Surjection
    <2>. HIDE DEF who, f
    <2>. QED
      BY <2>1, <2>3, FS_Surjection DEF M
  <1>9. fit \in SUBSET who
    BY <1>3
  <1>10. Cardinality(fit) <= Cardinality(who) /\ Cardinality(who) \in Nat
    <2>. HIDE DEF who
    <2>. QED
      BY <1>8, <1>9, FewerRows
  <1>. HIDE DEF who
  <1>. QED
    BY <1>6, <1>7, <1>8, <1>10

-----------------------------------------------------------------------------
(***************************************************************************)
(* _colour_lanes, on rows that name no lanes.                              *)
(***************************************************************************)
\* The rows S of a plan have times.
Timed(plan, S) ==
  /\ IsFiniteSet(S) /\ S \subseteq Int
  /\ \A o \in S : OccStart(plan[o]) \in Int /\ plan[o].end \in Int

\* They name no lane either.
Unnamed(plan, S) == Timed(plan, S) /\ \A o \in S : plan[o].lane = NoLane

\* Of the rows of a post the last one can be told.
LEMMA LastIsOneOf ==
  ASSUME NEW plan, NEW S, Timed(plan, S), NEW T \in SUBSET S, T # {}
  PROVE  LastOf(plan, T) \in T /\ \A q \in T \ {LastOf(plan, T)} : Before(plan, q, LastOf(plan, T))
  <1>. DEFINE Q == {e \in T \X T : Before(plan, e[1], e[2])}
  <1>1. \A o \in T : o \in Int /\ OccStart(plan[o]) \in Int /\ plan[o].end \in Int
    BY DEF Timed
  <1>2. \A x \in T : \A y \in T : x # y => <<x, y>> \in Q \/ <<y, x>> \in Q
    BY <1>1 DEF Before
  <1>3. \A x \in T : \A y \in T : \A z \in T : <<x, y>> \in Q /\ <<y, z>> \in Q => <<x, z>> \in Q
    BY <1>1 DEF Before
  <1>4. IsFiniteSet(T)
    BY FS_Subset DEF Timed
  <1>5. \E x \in T : \A q \in T \ {x} : <<q, x>> \in Q
    <2>. HIDE DEF Q
    <2>1. Orders(Q, T)
      BY <1>2, <1>3 DEF Orders
    <2>. QED
      BY <1>4, <2>1, LastInOrder
  <1>6. \E x \in T : \A q \in T \ {x} : Before(plan, q, x)
    BY <1>5
  <1>. QED
    BY <1>6 DEF LastOf

\* A colouring of the rows T, which are among S.  X is what else may be written
\* for a row than its place on a lane.
SetupsOf(p, S) == {Idle} \cup {p.state[o] : o \in S}
LanesOf(p, S) == [free : Int, last : S \cup {NoOp}, state : SetupsOf(p, S)]
Put(p, c, S) == [lane : Nat, prev : S \cup {NoOp}, from : SetupsOf(p, S),
           expected : {Cell(p, c, k, p.state[o]) : k \in SetupsOf(p, S), o \in S}, ambiguous : BOOLEAN]

Colourings(p, c, S, T, X) ==
  {col \in [lanes : Seq(LanesOf(p, S)), at : UNION {[U -> Put(p, c, S) \cup X] : U \in SUBSET T},
            overflow : BOOLEAN] :
     ~col.overflow => DOMAIN col.at = T}

\* Of the lanes that are free the one that has been so for longest can be told.
LEMMA LongestFree ==
  ASSUME NEW lanes, NEW L, lanes \in Seq(L), \A l \in L : l.free \in Int,
         NEW F \in SUBSET (0..(Len(lanes) - 1)), F # {}
  PROVE  \E k \in F : \A j \in F :
           \/ lanes[k + 1].free < lanes[j + 1].free
           \/ lanes[k + 1].free = lanes[j + 1].free /\ k <= j
  <1>. DEFINE R == {e \in F \X F : \/ lanes[e[2] + 1].free < lanes[e[1] + 1].free
                                   \/ lanes[e[2] + 1].free = lanes[e[1] + 1].free /\ e[2] <= e[1]}
  <1>1. \A k \in F : k \in Int /\ lanes[k + 1].free \in Int
    <2>1. \A k \in 0..(Len(lanes) - 1) : k + 1 \in 1..Len(lanes)
      OBVIOUS
    <2>. QED
      BY <2>1
  <1>2. \A x \in F : \A y \in F : x # y => <<x, y>> \in R \/ <<y, x>> \in R
    BY <1>1
  <1>3. \A x \in F : \A y \in F : \A z \in F : <<x, y>> \in R /\ <<y, z>> \in R => <<x, z>> \in R
    BY <1>1
  <1>4. IsFiniteSet(F)
    <2>1. Len(lanes) - 1 \in Int /\ 0 \in Int
      OBVIOUS
    <2>. QED
      BY <2>1, FS_Interval, FS_Subset
  <1>5. PICK x \in F : \A q \in F \ {x} : <<q, x>> \in R
    <2>. HIDE DEF R
    <2>1. Orders(R, F)
      BY <1>2, <1>3 DEF Orders
    <2>. QED
      BY <1>4, <2>1, LastInOrder
  <1>6. ASSUME NEW j \in F
        PROVE  \/ lanes[x + 1].free < lanes[j + 1].free
               \/ lanes[x + 1].free = lanes[j + 1].free /\ x <= j
    <2>1. CASE j = x
      BY <1>1, <2>1
    <2>2. CASE j # x
      <3>1. <<j, x>> \in R
        BY <1>5, <2>2
      <3>. QED
        BY <3>1
    <2>. QED
      BY <2>1, <2>2
  <1>. QED
    BY <1>6

LEMMA TakeTyped ==
  ASSUME NEW p, NEW c, NEW plan, NEW S, Timed(plan, S), NEW T \in SUBSET S,
         NEW o \in S, NEW k \in Nat, NEW amb \in BOOLEAN, NEW X,
         NEW acc \in Colourings(p, c, S, T, X), k <= Len(acc.lanes)
  PROVE  Take(p, c, plan, o, k, amb, acc) \in Colourings(p, c, S, T \cup {o}, X)
  <1>. DEFINE L == LanesOf(p, S)
              P == Put(p, c, S) \cup X
              old == IF k < Len(acc.lanes) THEN acc.lanes[k + 1] ELSE IdleLane
              new == [free |-> plan[o].end, last |-> o, state |-> p.state[o]]
              put == [lane |-> k, prev |-> old.last, from |-> old.state,
                      expected |-> Cell(p, c, old.state, p.state[o]),
                      ambiguous |-> amb]
              lanes == IF k < Len(acc.lanes) THEN [acc.lanes EXCEPT ![k + 1] = new]
                                             ELSE Append(acc.lanes, new)
              at == With(acc.at, o, put)
  <1>1. /\ acc = [lanes |-> acc.lanes, at |-> acc.at, overflow |-> acc.overflow]
        /\ acc.lanes \in Seq(L) /\ acc.overflow \in BOOLEAN
        /\ DOMAIN acc.at \subseteq T /\ acc.at \in [DOMAIN acc.at -> P]
        /\ ~acc.overflow => DOMAIN acc.at = T
    <2>. HIDE DEF L, P
    <2>. QED
      BY DEF Colourings, L, P
  <1>2. Take(p, c, plan, o, k, amb, acc) = [lanes |-> lanes, at |-> at, overflow |-> acc.overflow]
    <2>1. Take(p, c, plan, o, k, amb, acc) = [acc EXCEPT !.lanes = lanes, !.at = at]
      BY DEF Take
    <2>. HIDE DEF lanes, at
    <2>. QED
      BY <1>1, <2>1
  <1>3. new \in L
    BY DEF LanesOf, Timed, SetupsOf
  <1>4. old \in L
    <2>1. IdleLane \in L
      BY DEF LanesOf, IdleLane, Dawn, SetupsOf
    <2>. HIDE DEF L
    <2>2. CASE k < Len(acc.lanes)
      <3>1. k + 1 \in 1..Len(acc.lanes)
        BY <1>1, <2>2
      <3>. QED
        BY <1>1, <2>2, <3>1
    <2>3. CASE ~(k < Len(acc.lanes))
      BY <2>1, <2>3
    <2>. QED
      BY <2>2, <2>3
  <1>5. put \in P
    <2>. HIDE DEF old
    <2>. QED
      BY <1>4 DEF LanesOf, Put
  <1>6. lanes \in Seq(L)
    <2>. HIDE DEF L, new
    <2>1. CASE k < Len(acc.lanes)
      <3>1. k + 1 \in 1..Len(acc.lanes)
        BY <1>1, <2>1
      <3>. QED
        BY <1>1, <1>3, <2>1, <3>1
    <2>2. CASE ~(k < Len(acc.lanes))
      BY <1>1, <1>3, <2>2
    <2>. QED
      BY <2>1, <2>2
  <1>7. /\ DOMAIN at = DOMAIN acc.at \cup {o}
        /\ at \in [DOMAIN acc.at \cup {o} -> P]
    <2>. HIDE DEF P, put
    <2>. QED
      BY <1>1, <1>5 DEF With
  <1>. DEFINE r == [lanes |-> lanes, at |-> at, overflow |-> acc.overflow]
  <1>8. /\ r.lanes = lanes /\ r.at = at /\ r.overflow = acc.overflow
        /\ r \in [lanes : Seq(L), at : UNION {[U -> P] : U \in SUBSET (T \cup {o})}, overflow : BOOLEAN]
    <2>1. at \in UNION {[U -> P] : U \in SUBSET (T \cup {o})}
      <3>. HIDE DEF at, P
      <3>. QED
        BY <1>1, <1>7
    <2>. HIDE DEF at, lanes, L, P
    <2>. QED
      BY <1>1, <1>6, <2>1
  <1>. QED
    <2>. HIDE DEF at, lanes, L, P, r
    <2>. QED
      BY <1>1, <1>2, <1>7, <1>8 DEF Colourings, L, P, r

LEMMA ImplicitTyped ==
  ASSUME NEW p, NEW c, p.cap[c] \in Int, NEW plan, NEW S, Timed(plan, S), NEW T \in SUBSET S,
         NEW o \in S, NEW guess \in BOOLEAN, NEW X, NEW acc \in Colourings(p, c, S, T, X)
  PROVE  ImplicitStep(p, c, plan, o, guess, acc) \in Colourings(p, c, S, T \cup {o}, X)
  <1>. DEFINE occ  == OccStart(plan[o])
              free == Reusable(acc, occ)
              best == CHOOSE k \in free : \A j \in free :
                        \/ acc.lanes[k + 1].free < acc.lanes[j + 1].free
                        \/ acc.lanes[k + 1].free = acc.lanes[j + 1].free /\ k <= j
              unsure == guess \/ Cardinality(CandidateStates(p, c, acc, occ)) > 1
  <1>1. /\ acc.lanes \in Seq(LanesOf(p, S))
        /\ \A l \in LanesOf(p, S) : l.free \in Int
    BY DEF Colourings, LanesOf
  <1>2. unsure \in BOOLEAN /\ Len(acc.lanes) \in Nat
    BY <1>1
  <1>3. ImplicitStep(p, c, plan, o, guess, acc) =
          IF free # {} THEN Take(p, c, plan, o, best, unsure, acc)
          ELSE IF Len(acc.lanes) < p.cap[c]
               THEN Take(p, c, plan, o, Len(acc.lanes), unsure, acc)
               ELSE [acc EXCEPT !.overflow = TRUE]
    BY DEF ImplicitStep
  <1>4. CASE free # {}
    <2>1. free \in SUBSET (0..(Len(acc.lanes) - 1))
      BY DEF Reusable
    <2>2. best \in free
      <3>. HIDE DEF free
      <3>. QED
        BY <1>1, <1>4, <2>1, LongestFree
    <2>3. best \in Nat /\ best <= Len(acc.lanes)
      <3>. HIDE DEF best, free
      <3>. QED
        BY <1>2, <2>1, <2>2
    <2>. HIDE DEF best, unsure, free
    <2>. QED
      BY <1>2, <1>3, <1>4, <2>3, TakeTyped
  <1>5. CASE free = {} /\ Len(acc.lanes) < p.cap[c]
    <2>. HIDE DEF unsure, free, best
    <2>. QED
      BY <1>2, <1>3, <1>5, TakeTyped
  <1>6. CASE free = {} /\ ~(Len(acc.lanes) < p.cap[c])
    <2>1. ImplicitStep(p, c, plan, o, guess, acc) = [acc EXCEPT !.overflow = TRUE]
      <3>. HIDE DEF unsure, free, best
      <3>. QED
        BY <1>3, <1>6
    <2>. DEFINE P == Put(p, c, S) \cup X
                L == LanesOf(p, S)
                r == [acc EXCEPT !.overflow = TRUE]
    <2>2. /\ acc = [lanes |-> acc.lanes, at |-> acc.at, overflow |-> acc.overflow]
          /\ acc.lanes \in Seq(L)
          /\ acc.at \in UNION {[U -> P] : U \in SUBSET T}
      <3>. HIDE DEF L, P
      <3>. QED
        BY DEF Colourings, L, P
    <2>3. acc.at \in UNION {[U -> P] : U \in SUBSET (T \cup {o})}
      <3>. HIDE DEF P
      <3>. QED
        BY <2>2
    <2>4. \A v : [acc EXCEPT !.overflow = v] = [lanes |-> acc.lanes, at |-> acc.at, overflow |-> v]
      <3>. HIDE DEF L, P
      <3>. QED
        BY <2>2
    <2>5. r.overflow /\ r \in [lanes : Seq(L), at : UNION {[U -> P] : U \in SUBSET (T \cup {o})}, overflow : BOOLEAN]
      <3>1. PICK v \in BOOLEAN : v
        OBVIOUS
      <3>2. v = TRUE
        BY <3>1
      <3>3. r = [lanes |-> acc.lanes, at |-> acc.at, overflow |-> v]
        BY <2>4, <3>2, Zenon
      <3>. HIDE DEF P, L, r
      <3>. QED
        BY <2>2, <2>3, <3>1, <3>3
    <2>. HIDE DEF L, P, r
    <2>. QED
      BY <2>1, <2>5 DEF Colourings, L, P, r
  <1>. QED
    <2>. HIDE DEF free
    <2>. QED
      BY <1>4, <1>5, <1>6

\* The colouring new is acc with the row o on lane k.
PutOn(p, c, rows, o, k, amb, acc, new) ==
  LET from == IF k < Len(acc.lanes) THEN acc.lanes[k + 1].state ELSE Idle
      n    == Len(acc.lanes)
  IN /\ new.overflow = acc.overflow
     /\ Len(new.lanes) = IF k < n THEN n ELSE n + 1
     /\ new.lanes[k + 1].free = rows[o].end /\ new.lanes[k + 1].state = p.state[o]
     /\ new.lanes[k + 1].last = o
     /\ \A j \in 0..(n - 1) : j # k => new.lanes[j + 1] = acc.lanes[j + 1]
     /\ DOMAIN new.at = DOMAIN acc.at \cup {o}
     /\ new.at[o].lane = k /\ new.at[o].from = from /\ new.at[o].ambiguous = amb
     /\ new.at[o].prev = IF k < n THEN acc.lanes[k + 1].last ELSE NoOp
     /\ new.at[o].expected = Cell(p, c, from, p.state[o])
     /\ \A q \in DOMAIN acc.at : q # o => new.at[q] = acc.at[q]

LEMMA TakePutsOn ==
  ASSUME NEW p, NEW c, NEW rows, NEW S, Timed(rows, S), NEW T \in SUBSET S, NEW X,
         NEW o \in S, NEW k \in Nat, NEW amb \in BOOLEAN,
         NEW acc \in Colourings(p, c, S, T, X), k <= Len(acc.lanes)
  PROVE  PutOn(p, c, rows, o, k, amb, acc, Take(p, c, rows, o, k, amb, acc))
  <1>. DEFINE L == LanesOf(p, S)
              old == IF k < Len(acc.lanes) THEN acc.lanes[k + 1] ELSE IdleLane
              from == IF k < Len(acc.lanes) THEN acc.lanes[k + 1].state ELSE Idle
              n == Len(acc.lanes)
              lane == [free |-> rows[o].end, last |-> o, state |-> p.state[o]]
              put == [lane |-> k, prev |-> old.last, from |-> old.state,
                      expected |-> Cell(p, c, old.state, p.state[o]),
                      ambiguous |-> amb]
              lanes == IF k < Len(acc.lanes) THEN [acc.lanes EXCEPT ![k + 1] = lane]
                                             ELSE Append(acc.lanes, lane)
              at == With(acc.at, o, put)
              new == Take(p, c, rows, o, k, amb, acc)
  <1>1. /\ acc = [lanes |-> acc.lanes, at |-> acc.at, overflow |-> acc.overflow]
        /\ acc.lanes \in Seq(L) /\ n \in Nat
    <2>. HIDE DEF L
    <2>. QED
      BY DEF Colourings, L
  <1>2. new = [lanes |-> lanes, at |-> at, overflow |-> acc.overflow]
    <2>1. new = [acc EXCEPT !.lanes = lanes, !.at = at]
      BY DEF Take
    <2>. HIDE DEF lanes, at, new
    <2>. QED
      BY <1>1, <2>1
  <1>3. new.lanes = lanes /\ new.at = at /\ new.overflow = acc.overflow
    <2>. HIDE DEF lanes, at, new
    <2>. QED
      BY <1>2
  <1>4. old.state = from /\ old.last = IF k < n THEN acc.lanes[k + 1].last ELSE NoOp
    BY DEF IdleLane
  <1>5. /\ Len(lanes) = IF k < n THEN n ELSE n + 1
        /\ lanes[k + 1] = lane
        /\ \A j \in 0..(n - 1) : j # k => lanes[j + 1] = acc.lanes[j + 1]
    <2>. HIDE DEF lane, L
    <2>1. CASE k < n
      BY <1>1, <2>1
    <2>2. CASE ~(k < n)
      <3>1. k = n /\ lanes = Append(acc.lanes, lane)
        BY <1>1, <2>2
      <3>. HIDE DEF lanes
      <3>. QED
        BY <1>1, <3>1
    <2>. QED
      BY <2>1, <2>2
  <1>6. /\ DOMAIN at = DOMAIN acc.at \cup {o}
        /\ at[o] = put
        /\ \A q \in DOMAIN acc.at : q # o => at[q] = acc.at[q]
    <2>. HIDE DEF put
    <2>. QED
      BY DEF With
  <1>7. lane.free = rows[o].end /\ lane.state = p.state[o] /\ lane.last = o
    OBVIOUS
  <1>8. /\ put.lane = k /\ put.from = from /\ put.ambiguous = amb
        /\ put.prev = IF k < n THEN acc.lanes[k + 1].last ELSE NoOp
        /\ put.expected = Cell(p, c, from, p.state[o])
    <2>. HIDE DEF old, from
    <2>. QED
      BY <1>4
  <1>. HIDE DEF lanes, at, new, put, lane, old, from, L, n
  <1>9. /\ new.overflow = acc.overflow
        /\ Len(new.lanes) = IF k < n THEN n ELSE n + 1
        /\ new.lanes[k + 1].free = rows[o].end /\ new.lanes[k + 1].state = p.state[o]
        /\ new.lanes[k + 1].last = o
        /\ \A j \in 0..(n - 1) : j # k => new.lanes[j + 1] = acc.lanes[j + 1]
        /\ DOMAIN new.at = DOMAIN acc.at \cup {o}
        /\ new.at[o].lane = k /\ new.at[o].from = from /\ new.at[o].ambiguous = amb
        /\ new.at[o].prev = IF k < n THEN acc.lanes[k + 1].last ELSE NoOp
        /\ new.at[o].expected = Cell(p, c, from, p.state[o])
        /\ \A q \in DOMAIN acc.at : q # o => new.at[q] = acc.at[q]
    BY <1>3, <1>5, <1>6, <1>7, <1>8
  <1>. QED
    BY <1>9 DEF PutOn, new, from, n

\* A single lane leaves no doubt.
LEMMA OneLaneIsSure ==
  ASSUME NEW p, NEW c, p.cap[c] = 1, NEW acc, NEW L, acc.lanes \in Seq(L), Len(acc.lanes) <= 1, NEW occ
  PROVE  ~(Cardinality(CandidateStates(p, c, acc, occ)) > 1)
  <1>1. Reusable(acc, occ) \subseteq {0}
    BY DEF Reusable
  <1>2. Reusable(acc, occ) # {} => ~(Len(acc.lanes) < 1)
    BY DEF Reusable
  <1>. DEFINE one == {acc.lanes[1].state}
  <1>3. CandidateStates(p, c, acc, occ) \in SUBSET one
    BY <1>1, <1>2 DEF CandidateStates
  <1>. HIDE DEF one
  <1>4. IsFiniteSet(one) /\ Cardinality(one) = 1
    BY FS_Singleton DEF one
  <1>. QED
    BY <1>3, <1>4, FewerRows

\* The colouring that a pass starts from, and what it makes of the next row.
StartColouring(p, c, plan, S) ==
  IF IsExplicit(p, c, plan, S)
  THEN [EmptyColouring EXCEPT !.lanes = [k \in 1..p.cap[c] |-> IdleLane]]
  ELSE EmptyColouring

ColourStep(p, c, plan, S, o, acc) ==
  IF IsExplicit(p, c, plan, S)
  THEN ExplicitStep(p, c, plan, o, acc)
  ELSE ImplicitStep(p, c, plan, o, IsMixed(p, c, plan, S), acc)

\* A[T] is closed under the step that takes the last row of T.
StaysColoured(p, c, plan, S, A) ==
  /\ StartColouring(p, c, plan, S) \in A[{}]
  /\ \A T \in SUBSET S : T # {} =>
       \A acc \in A[T \ {LastOf(plan, T)}] :
         ColourStep(p, c, plan, S, LastOf(plan, T), acc) \in A[T]

\* A pass ends in the set of colourings that its steps do not leave.
LEMMA ColouringStaysIn ==
  ASSUME NEW p, NEW c, NEW plan, NEW S, Timed(plan, S), NEW A, StaysColoured(p, c, plan, S, A)
  PROVE  ColourLanes(p, c, plan, S) \in A[S]
  <1>. DEFINE base == StartColouring(p, c, plan, S)
              col(o, acc) == ColourStep(p, c, plan, S, o, acc)
              next == [T \in SUBSET S |-> LastOf(plan, T)]
              step == [z \in S \X UNION {A[T] : T \in SUBSET S} |-> col(z[1], z[2])]
              folds(f) == f = [s \in SUBSET S |->
                                 IF s = {} THEN base ELSE col(LastOf(plan, s), f[s \ {LastOf(plan, s)}])]
              iter == CHOOSE f : folds(f)
  <1>1. ColourLanes(p, c, plan, S) = iter[S]
    BY DEF ColourLanes, MapThenFoldSet, StartColouring, ColourStep
  <1>2. Chooses(S, next) /\ \A T \in SUBSET S : T # {} => next[T] = LastOf(plan, T) /\ LastOf(plan, T) \in T
    BY LastIsOneOf DEF Chooses
  <1>3. base \in A[{}]
    BY DEF StaysColoured
  <1>4. ASSUME NEW T \in SUBSET S, T # {}, NEW acc \in A[T \ {next[T]}]
        PROVE  /\ col(next[T], acc) \in A[T]
               /\ step[<<next[T], acc>>] = col(next[T], acc)
    <2>1. next[T] = LastOf(plan, T) /\ next[T] \in S /\ T \ {next[T]} \in SUBSET S
      <3>. HIDE DEF next
      <3>. QED
        BY <1>2, <1>4
    <2>2. acc \in UNION {A[U] : U \in SUBSET S}
      <3>. HIDE DEF next
      <3>. QED
        BY <1>4, <2>1
    <2>. HIDE DEF next
    <2>3. col(next[T], acc) \in A[T]
      <3>1. acc \in A[T \ {LastOf(plan, T)}]
        BY <1>4, <2>1
      <3>. QED
        BY <1>4, <2>1, <3>1 DEF StaysColoured
    <2>. HIDE DEF col
    <2>4. step[<<next[T], acc>>] = col(next[T], acc)
      BY <2>1, <2>2
    <2>. QED
      BY <2>3, <2>4
  <1>5. \E f : folds(f)
    <2>1. \A T \in SUBSET S : T # {} =>
            \A acc \in A[T \ {next[T]}] : step[<<next[T], acc>>] \in A[T]
      <3>. HIDE DEF next, step, col
      <3>. QED
        BY <1>4
    <2>2. PICK f : FoldsTo(S, base, next, step, f) /\ \A T \in SUBSET S : f[T] \in A[T]
      <3>1. IsFiniteSet(S)
        BY DEF Timed
      <3>. HIDE DEF base, next, step
      <3>. QED
        BY <1>2, <1>3, <2>1, <3>1, FoldStaysIn
    <2>3. ASSUME NEW T \in SUBSET S, T # {}
          PROVE  step[<<next[T], f[T \ {next[T]}]>>] = col(LastOf(plan, T), f[T \ {LastOf(plan, T)}])
      <3>1. next[T] = LastOf(plan, T) /\ f[T \ {next[T]}] \in A[T \ {next[T]}]
        <4>. HIDE DEF next
        <4>. QED
          BY <1>2, <2>2, <2>3
      <3>. HIDE DEF next, step, col
      <3>. QED
        BY <1>4, <2>3, <3>1
    <2>4. folds(f)
      <3>. HIDE DEF base, next, step, col
      <3>. QED
        BY <2>2, <2>3 DEF FoldsTo
    <2>. QED
      BY <2>4
  <1>6. folds(iter)
    <2>. HIDE DEF folds
    <2>. QED
      BY <1>5
  <1>7. iter[S] \in A[S]
    <2>. DEFINE Good == {T \in SUBSET S : iter[T] \in A[T]}
    <2>. HIDE DEF iter
    <2>1. \A T \in SUBSET S :
            iter[T] = IF T = {} THEN base ELSE col(LastOf(plan, T), iter[T \ {LastOf(plan, T)}])
      <3>. HIDE DEF base, col
      <3>. QED
        BY <1>6
    <2>2. {} \in Good
      <3>. HIDE DEF base, col
      <3>. QED
        BY <1>3, <2>1
    <2>3. ASSUME NEW T \in SUBSET S, T # {}, T \ {next[T]} \in Good
          PROVE  T \in Good
      <3>1. iter[T \ {next[T]}] \in A[T \ {next[T]}] /\ next[T] = LastOf(plan, T)
        <4>. HIDE DEF next
        <4>. QED
          BY <1>2, <2>3
      <3>. HIDE DEF next, step, col, base
      <3>2. iter[T] = col(next[T], iter[T \ {next[T]}])
        BY <2>1, <2>3, <3>1
      <3>3. iter[T] \in A[T]
        BY <1>4, <2>3, <3>1, <3>2
      <3>. QED
        BY <3>3
    <2>4. Inductive(S, next, Good)
      <3>. HIDE DEF Good, next
      <3>. QED
        BY <2>2, <2>3 DEF Inductive
    <2>5. IsFiniteSet(S)
      BY DEF Timed
    <2>6. \A T \in SUBSET S : T \in Good
      <3>. HIDE DEF Good, next
      <3>. QED
        BY <1>2, <2>4, <2>5, TakingAway
    <2>. QED
      BY <2>6
  <1>. QED
    <2>. HIDE DEF iter
    <2>. QED
      BY <1>1, <1>7

LEMMA StartTyped ==
  ASSUME NEW p, NEW c, p.cap[c] \in Int, NEW plan, NEW S, NEW X
  PROVE  StartColouring(p, c, plan, S) \in Colourings(p, c, S, {}, X)
  <1>. DEFINE base == StartColouring(p, c, plan, S)
  <1>. DEFINE L == LanesOf(p, S)
              P == Put(p, c, S) \cup X
              at == [o \in {} |-> {}]
              lanes == IF IsExplicit(p, c, plan, S) THEN [k \in 1..p.cap[c] |-> IdleLane] ELSE <<>>
  <1>1. base = [lanes |-> lanes, at |-> at, overflow |-> FALSE]
    BY DEF EmptyColouring, StartColouring
  <1>2. IdleLane \in L
    BY DEF LanesOf, IdleLane, Dawn, SetupsOf
  <1>3. lanes \in Seq(L)
    <2>1. IsExplicit(p, c, plan, S) => p.cap[c] \in Nat
      BY DEF IsExplicit
    <2>. HIDE DEF L
    <2>. QED
      BY <1>2, <2>1
  <1>4. at \in [{} -> P] /\ DOMAIN at = {}
    OBVIOUS
  <1>5. /\ base.at = at
        /\ base \in [lanes : Seq(L), at : UNION {[U -> P] : U \in SUBSET {}}, overflow : BOOLEAN]
    <2>. HIDE DEF L, P, at, lanes, base
    <2>. QED
      BY <1>1, <1>3, <1>4
  <1>. HIDE DEF L, P, at, lanes, base
  <1>. QED
    BY <1>4, <1>5 DEF Colourings, L, P, base

\* Rows that name no lanes: a colouring puts every one on a lane or overflows;
\* the states that setups start from are those of its rows, or idle.
LEMMA ColouringTyped ==
  ASSUME NEW p, NEW c, p.cap[c] \in Int, NEW plan, NEW S, Unnamed(plan, S)
  PROVE  ColourLanes(p, c, plan, S) \in Colourings(p, c, S, S, {})
  <1>. DEFINE A == [T \in SUBSET S |-> Colourings(p, c, S, T, {})]
  <1>1. Timed(plan, S)
    BY DEF Unnamed
  <1>2. S # {} => ~IsExplicit(p, c, plan, S)
    BY DEF IsExplicit, Unnamed
  <1>3. StartColouring(p, c, plan, S) \in A[{}]
    BY StartTyped
  <1>4. ASSUME NEW T \in SUBSET S, T # {}, NEW acc \in A[T \ {LastOf(plan, T)}]
        PROVE  ColourStep(p, c, plan, S, LastOf(plan, T), acc) \in A[T]
    <2>. DEFINE o == LastOf(plan, T)
                U == T \ {o}
    <2>1. o \in S /\ U \in SUBSET S /\ U \cup {o} = T
      BY <1>1, <1>4, LastIsOneOf
    <2>2. acc \in Colourings(p, c, S, U, {})
      <3>. HIDE DEF o
      <3>. QED
        BY <1>4, <2>1 DEF o
    <2>. HIDE DEF o, U
    <2>3. ImplicitStep(p, c, plan, o, IsMixed(p, c, plan, S), acc) \in Colourings(p, c, S, U \cup {o}, {})
      BY <1>1, <2>1, <2>2, ImplicitTyped DEF IsMixed
    <2>4. ColourStep(p, c, plan, S, o, acc) \in Colourings(p, c, S, T, {})
      BY <1>2, <1>4, <2>1, <2>3 DEF ColourStep
    <2>. QED
      BY <2>4 DEF o
  <1>5. StaysColoured(p, c, plan, S, A)
    <2>. HIDE DEF A
    <2>. QED
      BY <1>3, <1>4 DEF StaysColoured
  <1>6. ColourLanes(p, c, plan, S) \in A[S]
    <2>. HIDE DEF A
    <2>. QED
      BY <1>1, <1>5, ColouringStaysIn
  <1>. QED
    BY <1>6

-----------------------------------------------------------------------------
(***************************************************************************)
(* A post with one lane: its rows follow one another.                      *)
(***************************************************************************)
\* Rows of visits that take time, no two at once.
OneByOne(plan, S) ==
  /\ Timed(plan, S) /\ NoOp \notin S
  /\ \A o \in S : OccStart(plan[o]) < plan[o].end
  /\ \A a, b \in S : a # b => \/ plan[a].end <= OccStart(plan[b])
                              \/ plan[b].end <= OccStart(plan[a])

\* The rows that are over when o arrives, and that x is the last of them.
OverBefore(plan, S, o) == {q \in S : plan[q].end <= OccStart(plan[o])}

Follows(plan, S, o, x) ==
  LET over == OverBefore(plan, S, o)
  IN IF over = {} THEN x = NoOp
     ELSE x \in over /\ \A q \in over \ {x} : plan[q].end <= OccStart(plan[x])

\* The state that x leaves its lane in.
StateAfter(p, x) == IF x = NoOp THEN Idle ELSE p.state[x]

\* What is written for o on the one lane of the rows T.
InTurn(p, c, plan, T, o, put) ==
  /\ put.lane = 0 /\ ~put.ambiguous
  /\ Follows(plan, T, o, put.prev)
  /\ put.from = StateAfter(p, put.prev)
  /\ put.expected = Cell(p, c, put.from, p.state[o])

\* The lane is where the last row of T has left it.
LeftBy(p, plan, T, lane) ==
  /\ lane.last \in T
  /\ lane.free = plan[lane.last].end /\ lane.state = p.state[lane.last]
  /\ \A q \in T \ {lane.last} : plan[q].end <= OccStart(plan[lane.last])

OnOneLane(p, c, plan, S, T) ==
  {col \in Colourings(p, c, S, T, {}) :
     /\ ~col.overflow
     /\ \A o \in T : InTurn(p, c, plan, T, o, col.at[o])
     /\ IF T = {} THEN Len(col.lanes) = 0
        ELSE Len(col.lanes) = 1 /\ LeftBy(p, plan, T, col.lanes[1])}

\* A row that comes after all others of a lane changes nothing for them.
LEMMA LaterRow ==
  ASSUME NEW p, NEW c, NEW plan, NEW S, OneByOne(plan, S), NEW T \in SUBSET S, NEW o \in S, o \notin T,
         \A q \in T : plan[q].end <= OccStart(plan[o]), NEW q \in T, NEW put, InTurn(p, c, plan, T, q, put)
  PROVE  InTurn(p, c, plan, T \cup {o}, q, put)
  <1>1. OverBefore(plan, T \cup {o}, q) = OverBefore(plan, T, q)
    <2>1. ~(plan[o].end <= OccStart(plan[q]))
      BY DEF OneByOne, Timed
    <2>. QED
      BY <2>1 DEF OverBefore
  <1>. QED
    BY <1>1 DEF InTurn, Follows

LEMMA NextOnOneLane ==
  ASSUME NEW p, NEW c, p.cap[c] = 1, NEW plan, NEW S, OneByOne(plan, S), NEW T \in SUBSET S,
         NEW o \in S, o \notin T, \A q \in T : plan[q].end <= OccStart(plan[o]),
         NEW acc \in OnOneLane(p, c, plan, S, T)
  PROVE  ImplicitStep(p, c, plan, o, FALSE, acc) \in OnOneLane(p, c, plan, S, T \cup {o})
  <1>. DEFINE occ  == OccStart(plan[o])
              free == Reusable(acc, occ)
              best == CHOOSE k \in free : \A j \in free :
                        \/ acc.lanes[k + 1].free < acc.lanes[j + 1].free
                        \/ acc.lanes[k + 1].free = acc.lanes[j + 1].free /\ k <= j
              unsure == FALSE \/ Cardinality(CandidateStates(p, c, acc, occ)) > 1
              new == ImplicitStep(p, c, plan, o, FALSE, acc)
              lane == acc.lanes[1]
  <1>1. /\ acc \in Colourings(p, c, S, T, {}) /\ acc.lanes \in Seq(LanesOf(p, S))
        /\ ~acc.overflow /\ DOMAIN acc.at = T
        /\ \A q \in T : InTurn(p, c, plan, T, q, acc.at[q])
        /\ IF T = {} THEN Len(acc.lanes) = 0
           ELSE Len(acc.lanes) = 1 /\ LeftBy(p, plan, T, lane)
    BY DEF OnOneLane, Colourings
  <1>2. new = IF free # {} THEN Take(p, c, plan, o, best, unsure, acc)
              ELSE IF Len(acc.lanes) < p.cap[c]
                   THEN Take(p, c, plan, o, Len(acc.lanes), unsure, acc)
                   ELSE [acc EXCEPT !.overflow = TRUE]
    BY DEF ImplicitStep
  <1>3. Len(acc.lanes) = IF T = {} THEN 0 ELSE 1
    BY <1>1
  <1>30. unsure = FALSE
    <2>1. acc.lanes \in Seq(LanesOf(p, S)) /\ Len(acc.lanes) <= 1
      BY <1>1, <1>3
    <2>2. ~(Cardinality(CandidateStates(p, c, acc, occ)) > 1)
      <3>. HIDE DEF occ
      <3>. QED
        BY <2>1, OneLaneIsSure
    <2>3. unsure \in BOOLEAN /\ ~unsure
      BY <2>2
    <2>. HIDE DEF unsure
    <2>. QED
      BY <2>3
  <1>4. Timed(plan, S)
    BY DEF OneByOne
  <1>5. new = Take(p, c, plan, o, 0, FALSE, acc)
    <2>. HIDE DEF unsure
    <2>0. \A k : Take(p, c, plan, o, k, unsure, acc) = Take(p, c, plan, o, k, FALSE, acc)
      BY <1>30
    <2>. HIDE DEF new
    <2>1. CASE T = {}
      <3>1. free = {}
        BY <1>1, <2>1 DEF Reusable
      <3>. HIDE DEF free, best
      <3>. QED
        <4>1. Len(acc.lanes) = 0 /\ p.cap[c] = 1 /\ Len(acc.lanes) < p.cap[c]
          BY <1>3, <2>1
        <4>2. new = Take(p, c, plan, o, Len(acc.lanes), unsure, acc)
          BY <1>2, <3>1, <4>1, Zenon
        <4>. QED
          BY <2>0, <4>1, <4>2
    <2>2. CASE T # {}
      <3>1. lane.free <= occ
        BY <1>1, <2>2 DEF LeftBy
      <3>2. free = {0}
        <4>. HIDE DEF lane
        <4>. QED
          BY <1>1, <2>2, <3>1 DEF Reusable, lane
      <3>. HIDE DEF free
      <3>3. best = 0
        <4>1. best \in free
          <5>1. \E k \in free : \A j \in free :
                   \/ acc.lanes[k + 1].free < acc.lanes[j + 1].free
                   \/ acc.lanes[k + 1].free = acc.lanes[j + 1].free /\ k <= j
            BY <3>2
          <5>. QED
            BY <5>1
        <4>. HIDE DEF best
        <4>. QED
          BY <3>2, <4>1
      <3>. HIDE DEF best
      <3>. QED
        BY <1>2, <2>0, <3>2, <3>3
    <2>. QED
      BY <2>1, <2>2
  <1>. HIDE DEF new, free, best, unsure
  <1>50. 0 \in Nat /\ FALSE \in BOOLEAN /\ 0 <= Len(acc.lanes)
    BY <1>3
  <1>6. PutOn(p, c, plan, o, 0, FALSE, acc, new)
    BY <1>1, <1>4, <1>5, <1>50, TakePutsOn
  <1>7. new \in Colourings(p, c, S, T \cup {o}, {})
    BY <1>1, <1>4, <1>5, <1>50, TakeTyped
  <1>8. ~new.overflow /\ Len(new.lanes) = 1 /\ LeftBy(p, plan, T \cup {o}, new.lanes[1])
    BY <1>1, <1>6 DEF PutOn, LeftBy
  <1>9. InTurn(p, c, plan, T \cup {o}, o, new.at[o])
    <2>1. OverBefore(plan, T \cup {o}, o) = T
      <3>1. ~(plan[o].end <= OccStart(plan[o]))
        BY DEF OneByOne, Timed
      <3>. QED
        BY <3>1 DEF OverBefore
    <2>2. /\ new.at[o].lane = 0 /\ new.at[o].ambiguous = FALSE
          /\ new.at[o].from = IF T = {} THEN Idle ELSE lane.state
          /\ new.at[o].prev = IF T = {} THEN NoOp ELSE lane.last
          /\ new.at[o].expected = Cell(p, c, new.at[o].from, p.state[o])
      BY <1>1, <1>6 DEF PutOn
    <2>3. T # {} => LeftBy(p, plan, T, lane)
      BY <1>1
    <2>. HIDE DEF lane
    <2>4. Follows(plan, T \cup {o}, o, new.at[o].prev) /\ new.at[o].from = StateAfter(p, new.at[o].prev)
      BY <2>1, <2>2, <2>3 DEF Follows, LeftBy, StateAfter, OneByOne
    <2>. QED
      BY <2>2, <2>4 DEF InTurn
  <1>10. ASSUME NEW q \in T
         PROVE  InTurn(p, c, plan, T \cup {o}, q, new.at[q])
    <2>1. new.at[q] = acc.at[q]
      BY <1>1, <1>6 DEF PutOn
    <2>. QED
      BY <1>1, <2>1, LaterRow
  <1>. QED
    BY <1>7, <1>8, <1>9, <1>10 DEF OnOneLane, new

\* On a post with one lane the colouring goes through the rows one by one.
LEMMA OneLaneInTurn ==
  ASSUME NEW p, NEW c, p.cap[c] = 1, NEW plan, NEW S, OneByOne(plan, S)
  PROVE  ColourLanes(p, c, plan, S) \in OnOneLane(p, c, plan, S, S)
  <1>. DEFINE A == [T \in SUBSET S |-> OnOneLane(p, c, plan, S, T)]
  <1>1. Timed(plan, S)
    BY DEF OneByOne
  <1>2. ~IsExplicit(p, c, plan, S) /\ IsMixed(p, c, plan, S) = FALSE
    BY DEF IsExplicit, IsMixed
  <1>3. StartColouring(p, c, plan, S) \in A[{}]
    <2>1. StartColouring(p, c, plan, S) = EmptyColouring
      BY <1>2 DEF StartColouring
    <2>2. StartColouring(p, c, plan, S) \in Colourings(p, c, S, {}, {})
      BY StartTyped
    <2>3. Len(EmptyColouring.lanes) = 0 /\ ~EmptyColouring.overflow
      BY DEF EmptyColouring
    <2>. QED
      BY <2>1, <2>2, <2>3 DEF OnOneLane
  <1>4. ASSUME NEW T \in SUBSET S, T # {}, NEW acc \in A[T \ {LastOf(plan, T)}]
        PROVE  ColourStep(p, c, plan, S, LastOf(plan, T), acc) \in A[T]
    <2>. DEFINE o == LastOf(plan, T)
                U == T \ {o}
    <2>1. o \in S /\ U \in SUBSET S /\ U \cup {o} = T /\ o \notin U
          /\ \A q \in U : Before(plan, q, o)
      BY <1>1, <1>4, LastIsOneOf
    <2>2. acc \in OnOneLane(p, c, plan, S, U)
      <3>. HIDE DEF o
      <3>. QED
        BY <1>4, <2>1 DEF o
    <2>. HIDE DEF o, U
    <2>3. \A q \in U : plan[q].end <= OccStart(plan[o])
      BY <2>1 DEF OneByOne, Timed, Before
    <2>4. ImplicitStep(p, c, plan, o, FALSE, acc) \in OnOneLane(p, c, plan, S, U \cup {o})
      BY <2>1, <2>2, <2>3, NextOnOneLane
    <2>5. ColourStep(p, c, plan, S, o, acc) = ImplicitStep(p, c, plan, o, FALSE, acc)
      BY <1>2 DEF ColourStep
    <2>6. ColourStep(p, c, plan, S, o, acc) \in OnOneLane(p, c, plan, S, T)
      BY <2>1, <2>4, <2>5
    <2>. QED
      BY <2>6 DEF o
  <1>5. StaysColoured(p, c, plan, S, A)
    <2>. HIDE DEF A
    <2>. QED
      BY <1>3, <1>4 DEF StaysColoured
  <1>6. ColourLanes(p, c, plan, S) \in A[S]
    <2>. HIDE DEF A
    <2>. QED
      BY <1>1, <1>5, ColouringStaysIn
  <1>. QED
    BY <1>6

\* Rows that occupy time and are never more than one are so.
LEMMA NeverTwoAtOnce ==
  ASSUME NEW plan, NEW S, Timed(plan, S), NoOp \notin S,
         \A o \in S : OccStart(plan[o]) < plan[o].end,
         ~Excess(plan, S, 1)
  PROVE  OneByOne(plan, S)
  <1>1. ASSUME NEW a \in S, NEW b \in S, a # b, OccStart(plan[a]) <= OccStart(plan[b])
        PROVE  plan[a].end <= OccStart(plan[b])
    <2>. DEFINE t == OccStart(plan[b])
    <2>. SUFFICES ASSUME t < plan[a].end
                  PROVE  FALSE
      BY <1>1 DEF Timed
    <2>1. Live(plan[a], t) /\ Live(plan[b], t)
      BY <1>1 DEF Live, Timed
    <2>2. {a, b} \in SUBSET LiveAt(plan, S, t) /\ LiveAt(plan, S, t) \in SUBSET S
      BY <1>1, <2>1 DEF LiveAt
    <2>. HIDE DEF t
    <2>3. IsFiniteSet(LiveAt(plan, S, t))
      BY <2>2, FS_Subset DEF Timed
    <2>4. Cardinality({a, b}) = 2
      <3>1. IsFiniteSet({a}) /\ Cardinality({a}) = 1
        BY FS_Singleton
      <3>2. Cardinality({a} \cup {b}) = 2
        <4>1. b \notin {a}
          BY <1>1
        <4>2. IsFiniteSet({a})
          BY <3>1
        <4>. HIDE DEF t
        <4>3. Cardinality({a} \cup {b}) = Cardinality({a}) + 1
          BY <4>1, <4>2, FS_AddElement, Zenon
        <4>. QED
          BY <3>1, <4>3
      <3>3. {a} \cup {b} = {a, b}
        OBVIOUS
      <3>. QED
        BY <3>2, <3>3
    <2>5. Cardinality(LiveAt(plan, S, t)) \in Nat /\ Cardinality({a, b}) <= Cardinality(LiveAt(plan, S, t))
      BY <2>2, <2>3, FewerRows
    <2>6. Cardinality(LiveAt(plan, S, t)) > 1
      BY <2>4, <2>5
    <2>. QED
      BY <2>1, <2>6 DEF Excess, t
  <1>. QED
    BY <1>1 DEF OneByOne, Timed

\* There is one row, or none, that a row follows.
LEMMA FollowsOnlyOne ==
  ASSUME NEW plan, NEW S, OneByOne(plan, S), NEW o, NEW x, NEW y,
         Follows(plan, S, o, x), Follows(plan, S, o, y)
  PROVE  x = y
  <1>1. CASE OverBefore(plan, S, o) = {}
    BY <1>1 DEF Follows
  <1>2. CASE OverBefore(plan, S, o) # {}
    <2>1. x \in S /\ y \in S /\ (x = y \/ (plan[x].end <= OccStart(plan[y]) /\ plan[y].end <= OccStart(plan[x])))
      BY <1>2 DEF Follows, OverBefore
    <2>. QED
      BY <2>1 DEF OneByOne, Timed
  <1>. QED
    BY <1>1, <1>2

\* It reads nothing of the rows but their times.
LEMMA FollowsReadsTimes ==
  ASSUME NEW a, NEW b, NEW S, \A o \in S : OccStart(b[o]) = OccStart(a[o]) /\ b[o].end = a[o].end,
         NEW o \in S, NEW x
  PROVE  Follows(b, S, o, x) <=> Follows(a, S, o, x)
  <1>1. OverBefore(b, S, o) = OverBefore(a, S, o)
    BY DEF OverBefore
  <1>. QED
    BY <1>1 DEF Follows, OverBefore

\* Where a row o is put among others, each of them follows what it did, or o.
LEMMA FollowsNowOrThen ==
  ASSUME NEW all, NEW S, NEW o, OneByOne(all, S \cup {o}), o \notin S,
         NEW q \in S, NEW y, Follows(all, S \cup {o}, q, y), y # o
  PROVE  Follows(all, S, q, y)
  <1>. DEFINE then == OverBefore(all, S, q)
              now == OverBefore(all, S \cup {o}, q)
  <1>1. then \subseteq now /\ \A x \in now : x = o \/ x \in then
    BY DEF OverBefore
  <1>. HIDE DEF then, now
  <1>2. IF now = {} THEN y = NoOp ELSE y \in now /\ \A x \in now \ {y} : all[x].end <= OccStart(all[y])
    BY DEF Follows, now
  <1>3. IF then = {} THEN y = NoOp ELSE y \in then /\ \A x \in then \ {y} : all[x].end <= OccStart(all[y])
    BY <1>1, <1>2
  <1>. QED
    BY <1>3 DEF Follows, then

-----------------------------------------------------------------------------
(***************************************************************************)
(* Rows that differ in the lanes they name, and in nothing else.           *)
(***************************************************************************)
RowFields == {"post", "crew", "tools", "start", "end", "setup", "lane"}

SameWork(r, s) ==
  /\ DOMAIN r = RowFields /\ DOMAIN s = RowFields
  /\ s.post = r.post /\ s.crew = r.crew /\ s.tools = r.tools
  /\ s.start = r.start /\ s.end = r.end /\ s.setup = r.setup

SameButLanes(a, b) == DOMAIN b = DOMAIN a /\ \A o \in DOMAIN a : SameWork(a[o], b[o])

\* No interval, duration or calendar reads a lane.
LEMMA LanesAreNotRead ==
  ASSUME NEW p, NEW r, NEW s, SameWork(r, s)
  PROVE  /\ OccStart(s) = OccStart(r)
         /\ \A t : Live(s, t) <=> Live(r, t)
         /\ \A o : DurationHolds(p, o, s) <=> DurationHolds(p, o, r)
         /\ \A o : CrewFits(p, o, s) <=> CrewFits(p, o, r)
         /\ \A o, cal : CalendarFits(p, o, s, cal) <=> CalendarFits(p, o, r, cal)
         /\ \A f : SameSlot(s, f) <=> SameSlot(r, f)
  <1>1. /\ s.post = r.post /\ s.crew = r.crew /\ s.tools = r.tools
        /\ s.start = r.start /\ s.end = r.end /\ s.setup = r.setup
    BY DEF SameWork
  <1>2. OccStart(s) = OccStart(r)
    BY <1>1 DEF OccStart
  <1>3. \A t : Live(s, t) <=> Live(r, t)
    BY <1>1, <1>2 DEF Live
  <1>4. \A o : DurationHolds(p, o, s) <=> DurationHolds(p, o, r)
    BY <1>1 DEF DurationHolds
  <1>5. \A o : CrewFits(p, o, s) <=> CrewFits(p, o, r)
    BY <1>1 DEF CrewFits
  <1>6. \A o, cal : CalendarFits(p, o, s, cal) <=> CalendarFits(p, o, r, cal)
    BY <1>1, <1>2 DEF CalendarFits
  <1>7. \A f : SameSlot(s, f) <=> SameSlot(r, f)
    BY <1>1 DEF SameSlot
  <1>. QED
    BY <1>2, <1>3, <1>4, <1>5, <1>6, <1>7

\* The sweep finds the same in both.
LEMMA ExcessIsSame ==
  ASSUME NEW a, NEW b, SameButLanes(a, b), NEW S \in SUBSET DOMAIN a, NEW cap
  PROVE  Excess(b, S, cap) <=> Excess(a, S, cap)
  <1>1. \A o \in S : OccStart(b[o]) = OccStart(a[o]) /\ \A t : Live(b[o], t) <=> Live(a[o], t)
    BY LanesAreNotRead DEF SameButLanes
  <1>2. \A t : LiveAt(b, S, t) = LiveAt(a, S, t)
    BY <1>1 DEF LiveAt
  <1>. QED
    BY <1>1, <1>2 DEF Excess

LEMMA RowsAreSame ==
  ASSUME NEW a, NEW b, SameButLanes(a, b)
  PROVE  /\ \A c : AtPost(b, c) = AtPost(a, c) /\ AtPost(a, c) \in SUBSET DOMAIN a
         /\ \A w : OfCrew(b, w) = OfCrew(a, w) /\ OfCrew(a, w) \in SUBSET DOMAIN a
         /\ \A x : OnTool(b, x) = OnTool(a, x) /\ OnTool(a, x) \in SUBSET DOMAIN a
         /\ \A p, s : Drawers(p, b, s) = Drawers(p, a, s) /\ Drawers(p, a, s) \in SUBSET DOMAIN a
  <1>1. /\ DOMAIN b = DOMAIN a
        /\ \A o \in DOMAIN a : b[o].post = a[o].post /\ b[o].crew = a[o].crew /\ b[o].tools = a[o].tools
    BY DEF SameButLanes, SameWork
  <1>. QED
    BY <1>1 DEF AtPost, OfCrew, OnTool, Drawers

LEMMA OverlapsAreSame ==
  ASSUME NEW p, NEW a, NEW b, SameButLanes(a, b)
  PROVE  Overlaps(p, b) = Overlaps(p, a)
  <1>1. \A c : Excess(b, AtPost(b, c), p.cap[c]) <=> Excess(a, AtPost(a, c), p.cap[c])
    BY RowsAreSame, ExcessIsSame
  <1>2. \A w : Excess(b, OfCrew(b, w), p.crewCap[w]) <=> Excess(a, OfCrew(a, w), p.crewCap[w])
    BY RowsAreSame, ExcessIsSame
  <1>3. \A x : Excess(b, OnTool(b, x), p.toolCap[x]) <=> Excess(a, OnTool(a, x), p.toolCap[x])
    BY RowsAreSame, ExcessIsSame
  <1>. QED
    BY <1>1, <1>2, <1>3 DEF Overlaps

\* What is wrong with single rows is the same.
LEMMA RowChecksAreSame ==
  ASSUME NEW p, NEW a, NEW b, SameButLanes(a, b)
  PROVE  /\ Durations(p, b) = Durations(p, a) /\ Coverage(p, b) = Coverage(p, a)
         /\ Eligibility(p, b) = Eligibility(p, a) /\ Windows(p, b) = Windows(p, a)
         /\ Frozen(p, b) = Frozen(p, a) /\ Precedence(p, b) = Precedence(p, a)
  <1>1. /\ DOMAIN b = DOMAIN a
        /\ \A o \in DOMAIN a : /\ b[o].post = a[o].post /\ b[o].crew = a[o].crew
                               /\ b[o].tools = a[o].tools /\ b[o].start = a[o].start
                               /\ b[o].end = a[o].end
    BY DEF SameButLanes, SameWork
  <1>2. \A o \in DOMAIN a :
          /\ OccStart(b[o]) = OccStart(a[o])
          /\ DurationHolds(p, o, b[o]) <=> DurationHolds(p, o, a[o])
          /\ CrewFits(p, o, b[o]) <=> CrewFits(p, o, a[o])
          /\ \A cal : CalendarFits(p, o, b[o], cal) <=> CalendarFits(p, o, a[o], cal)
          /\ \A f : SameSlot(b[o], f) <=> SameSlot(a[o], f)
    BY LanesAreNotRead DEF SameButLanes
  <1>3. Durations(p, b) = Durations(p, a)
    BY <1>1, <1>2 DEF Durations
  <1>4. Coverage(p, b) = Coverage(p, a)
    BY <1>1 DEF Coverage
  <1>5. Eligibility(p, b) = Eligibility(p, a)
    BY <1>1, <1>2 DEF Eligibility
  <1>6. Windows(p, b) = Windows(p, a)
    <2>. DEFINE cals(rows, o) == CalendarsOf(rows[o].post, rows[o].crew, rows[o].tools \cup p.tools[o])
                past(rows)   == {o \in DOMAIN a : OccStart(rows[o]) < 0 \/ rows[o].end > p.horizon}
                out(rows)    == {o \in DOMAIN a : rows[o].end > p.latest[o] \/ OccStart(rows[o]) < p.floor[o]}
                closed(rows) == {o \in DOMAIN a :
                                   \E cal \in cals(rows, o) : ~CalendarFits(p, o, rows[o], cal)}
                all(rows) == Codes("HORIZON_VIOLATION", past(rows)) \cup Codes("WINDOW_BROKEN", out(rows))
                               \cup Codes("CALENDAR_BROKEN", closed(rows))
    <2>1. past(b) = past(a) /\ out(b) = out(a)
      BY <1>1, <1>2
    <2>2. \A o \in DOMAIN a : cals(b, o) = cals(a, o)
      BY <1>1
    <2>3. closed(b) = closed(a)
      <3>. HIDE DEF cals
      <3>. QED
        BY <1>2, <2>2
    <2>4. Windows(p, a) = all(a) /\ Windows(p, b) = all(b)
      BY <1>1 DEF Windows
    <2>. HIDE DEF past, out, closed
    <2>. QED
      BY <2>1, <2>3, <2>4
  <1>7. Frozen(p, b) = Frozen(p, a)
    BY <1>1, <1>2 DEF Frozen
  <1>8. \A o \in DOMAIN a : \A l : LinkHolds(b, o, l) <=> LinkHolds(a, o, l)
    BY <1>1 DEF LinkHolds
  <1>9. Precedence(p, b) = Precedence(p, a)
    BY <1>1, <1>8 DEF Precedence
  <1>. QED
    BY <1>3, <1>4, <1>5, <1>6, <1>7, <1>9

\* What is in stock is the same.
LEMMA SparesAreSame ==
  ASSUME NEW p, NEW a, NEW b, SameButLanes(a, b)
  PROVE  Spares(p, b) = Spares(p, a)
  <1>1. DOMAIN b = DOMAIN a /\ \A o \in DOMAIN a : b[o].start = a[o].start
    BY DEF SameButLanes, SameWork
  <1>2. \A s : Drawers(p, b, s) = Drawers(p, a, s) /\ Drawers(p, a, s) \in SUBSET DOMAIN a
    BY RowsAreSame
  <1>3. ASSUME NEW s, NEW o \in DOMAIN a
        PROVE  StockLeft(p, b, s, o) = StockLeft(p, a, s, o)
    <2>. DEFINE drawn(rows, t) == {q \in Drawers(p, a, s) :
                                     rows[q].start < t \/ (rows[q].start = t /\ q <= o)}
                left(t, D) == (IF p.stock[s].from <= t THEN p.stock[s].qty ELSE 0)
                                + SumOf({x \in p.stock[s].receipts : x[1] <= t}) - Cardinality(D)
    <2>1. drawn(b, a[o].start) = drawn(a, a[o].start)
      BY <1>1, <1>2
    <2>2. StockLeft(p, a, s, o) = left(a[o].start, drawn(a, a[o].start))
      BY DEF StockLeft, SumOf
    <2>3. StockLeft(p, b, s, o) = left(b[o].start, drawn(b, b[o].start))
      BY <1>2 DEF StockLeft, SumOf
    <2>. HIDE DEF left, drawn
    <2>. QED
      BY <1>1, <2>1, <2>2, <2>3
  <1>. DEFINE consumed == DOMAIN p.stock \ Rotables(p)
              flat(s) == p.stock[s].receipts = {}
              late(rows, o, s) == p.stock[s].qty <= 0 \/ rows[o].start < p.stock[s].from
              short(rows, o, s) == IF flat(s) THEN late(rows, o, s) ELSE StockLeft(p, rows, s, o) < 0
              dry(rows) == {o \in DOMAIN a : \E s \in p.needs[o] \cap consumed : short(rows, o, s)}
              over(rows) == {OfSpare(s) : s \in {x \in consumed :
                               flat(x) /\ Cardinality(Drawers(p, rows, x)) > p.stock[x].qty}}
  <1>4. \A o \in DOMAIN a : \A s : short(b, o, s) <=> short(a, o, s)
    BY <1>1, <1>3
  <1>5. dry(b) = dry(a)
    <2>. HIDE DEF short, consumed
    <2>. QED
      BY <1>4
  <1>6. over(b) = over(a)
    BY <1>2
  <1>7. /\ Spares(p, a) = Codes("SPARE_UNAVAILABLE", dry(a)) \cup Codes("SPARE_UNAVAILABLE", over(a))
        /\ Spares(p, b) = Codes("SPARE_UNAVAILABLE", dry(b)) \cup Codes("SPARE_UNAVAILABLE", over(b))
    BY <1>1 DEF Spares
  <1>. HIDE DEF dry, over
  <1>. QED
    BY <1>5, <1>6, <1>7

\* The ledger of pools: units come back when they did.
LEMMA WorstIsSame ==
  ASSUME NEW p, NEW a, NEW b, SameButLanes(a, b), NEW pool
  PROVE  WorstStock(p, b, pool) = WorstStock(p, a, pool)
  <1>1. DOMAIN b = DOMAIN a /\ \A o \in DOMAIN a : b[o].end = a[o].end
    BY DEF SameButLanes, SameWork
  <1>2. Returns(p, b, pool) = Returns(p, a, pool)
    BY <1>1 DEF Returns, Returned
  <1>3. ASSUME NEW j \in Returns(p, a, pool)
        PROVE  Completion(p, b, j) = Completion(p, a, j)
    <2>1. Sinks(p, j) \in SUBSET DOMAIN a
      BY DEF Returns, Returned
    <2>. DEFINE ends(rows) == {rows[o].end : o \in Sinks(p, j)}
    <2>2. ends(b) = ends(a)
      BY <1>1, <2>1
    <2>3. Completion(p, b, j) = Max(ends(b)) /\ Completion(p, a, j) = Max(ends(a))
      BY DEF Completion
    <2>. HIDE DEF ends
    <2>. QED
      BY <2>2, <2>3
  <1>4. Moments(p, b, pool) = Moments(p, a, pool)
    BY <1>2, <1>3 DEF Moments
  <1>5. ASSUME NEW m
        PROVE  Delta(p, b, pool, m) = Delta(p, a, pool, m)
    <2>. DEFINE back(rows) == {j \in Returns(p, a, pool) : Completion(p, rows, j) = m}
                drawn == MapThenSumSet(LAMBDA d : d[2], {d \in pool.demand : d[1] = m})
    <2>1. back(b) = back(a)
      BY <1>3
    <2>2. /\ Delta(p, b, pool, m) = Cardinality(back(b)) - drawn
          /\ Delta(p, a, pool, m) = Cardinality(back(a)) - drawn
      BY <1>2 DEF Delta
    <2>. HIDE DEF back, drawn
    <2>. QED
      BY <2>1, <2>2
  <1>. DEFINE M == Moments(p, a, pool)
              start == [stock |-> pool.initial, worst |-> pool.initial]
              after(d, acc) == [stock |-> acc.stock + d, worst |-> Min({acc.worst, acc.stock + d})]
              walk(rows, f) == [s \in SUBSET M |->
                IF s = {} THEN start ELSE after(Delta(p, rows, pool, Max(s)), f[s \ {Max(s)}])]
  <1>6. /\ WorstStock(p, b, pool) = (CHOOSE f : f = walk(b, f))[M].worst
        /\ WorstStock(p, a, pool) = (CHOOSE f : f = walk(a, f))[M].worst
    BY <1>4 DEF WorstStock, MapThenFoldSet
  <1>7. \A f : walk(b, f) = walk(a, f)
    <2>. HIDE DEF M, start, after
    <2>. QED
      BY <1>5
  <1>. HIDE DEF M, walk
  <1>8. (CHOOSE f : f = walk(b, f)) = (CHOOSE f : f = walk(a, f))
    BY <1>7
  <1>. QED
    BY <1>6, <1>8

\* A lent spare is out for as long.
LEMMA RotablesAreSame ==
  ASSUME NEW p, NEW a, NEW b, SameButLanes(a, b), NEW s
  PROVE  RotableFindings(p, b, s) = RotableFindings(p, a, s)
  <1>. DEFINE D == Drawers(p, a, s)
              y == Out(p, b, s)
              x == Out(p, a, s)
              lag == p.stock[s].lag
  <1>1. DOMAIN b = DOMAIN a /\ \A o \in DOMAIN a : SameWork(a[o], b[o])
    BY DEF SameButLanes
  <1>2. Drawers(p, b, s) = D /\ D \in SUBSET DOMAIN a
    BY RowsAreSame
  <1>3. DOMAIN x = D /\ DOMAIN y = D
    BY <1>2 DEF Out
  <1>4. ASSUME NEW o \in D
        PROVE  SameWork(x[o], y[o])
    <2>1. /\ x[o] = [a[o] EXCEPT !.end = a[o].end + lag, !.setup = 0]
          /\ y[o] = [b[o] EXCEPT !.end = b[o].end + lag, !.setup = 0]
      BY <1>2 DEF Out
    <2>2. SameWork(a[o], b[o])
      BY <1>1, <1>2
    <2>. HIDE DEF x, y, lag
    <2>. QED
      BY <2>1, <2>2 DEF SameWork, RowFields
  <1>. HIDE DEF x, y, D
  <1>5. SameButLanes(x, y)
    BY <1>3, <1>4 DEF SameButLanes
  <1>6. Excess(y, DOMAIN y, p.stock[s].qty) <=> Excess(x, DOMAIN x, p.stock[s].qty)
    BY <1>3, <1>5, ExcessIsSame
  <1>7. {q \in DOMAIN y : y[q].start < p.stock[s].from} = {q \in DOMAIN x : x[q].start < p.stock[s].from}
    BY <1>3, <1>4 DEF SameWork
  <1>8. RotableFindings(p, b, s) =
          IF lag = NoLag THEN {<<"SPARE_UNAVAILABLE", OfSpare(s)>>}
          ELSE Codes("SPARE_UNAVAILABLE", {q \in DOMAIN y : y[q].start < p.stock[s].from})
                 \cup (IF Excess(y, DOMAIN y, p.stock[s].qty)
                       THEN {<<"SPARE_UNAVAILABLE", OfSpare(s)>>} ELSE {})
    BY DEF RotableFindings, Codes, y
  <1>9. RotableFindings(p, a, s) =
          IF lag = NoLag THEN {<<"SPARE_UNAVAILABLE", OfSpare(s)>>}
          ELSE Codes("SPARE_UNAVAILABLE", {q \in DOMAIN x : x[q].start < p.stock[s].from})
                 \cup (IF Excess(x, DOMAIN x, p.stock[s].qty)
                       THEN {<<"SPARE_UNAVAILABLE", OfSpare(s)>>} ELSE {})
    BY DEF RotableFindings, Codes, x
  <1>. QED
    BY <1>6, <1>7, <1>8, <1>9

\* What the notary finds apart from setups.
Others(p, rows) ==
       Durations(p, rows) \cup Coverage(p, rows) \cup Eligibility(p, rows)
  \cup Precedence(p, rows) \cup Overlaps(p, rows) \cup Windows(p, rows)
  \cup Spares(p, rows) \cup Frozen(p, rows) \cup LedgerFindings(p, rows)

LEMMA OthersAreSame ==
  ASSUME NEW p, NEW a, NEW b, SameButLanes(a, b)
  PROVE  Others(p, b) = Others(p, a)
  <1>1. LedgerFindings(p, b) = LedgerFindings(p, a)
    <2>1. \A pool : WorstStock(p, b, pool) = WorstStock(p, a, pool)
      BY WorstIsSame
    <2>2. Stockouts(p, b) = Stockouts(p, a)
      BY <2>1 DEF Stockouts
    <2>3. \A s : RotableFindings(p, b, s) = RotableFindings(p, a, s)
      BY RotablesAreSame
    <2>. QED
      BY <2>2, <2>3 DEF LedgerFindings
  <1>. QED
    BY <1>1, OverlapsAreSame, RowChecksAreSame, SparesAreSame DEF Others

\* No other check has a code of the setups.
LEMMA OthersSayNothingOfSetups ==
  ASSUME NEW p, NEW rows
  PROVE  Findings(p, rows) \ Setups(p, rows) = Others(p, rows)
  <1>. DEFINE codes == {"SETUP_MISMATCH", "MISSING_SETUP"}
  <1>1. \A code, U : \A f \in Codes(code, U) : f[1] = code
    BY DEF Codes
  <1>2. \A f \in Setups(p, rows) : f[1] \in codes
    <2>1. \A c : \A f \in SetupsAt(p, rows, c) : f[1] \in codes
      BY <1>1 DEF SetupsAt
    <2>. QED
      BY <2>1 DEF Setups
  <1>3. \A f \in Others(p, rows) : f[1] \notin codes
    <2>1. \A f \in Durations(p, rows) \cup Coverage(p, rows) \cup Eligibility(p, rows) : f[1] \notin codes
      BY <1>1 DEF Durations, Coverage, Eligibility
    <2>2. \A f \in Precedence(p, rows) \cup Overlaps(p, rows) \cup Windows(p, rows) : f[1] \notin codes
      BY <1>1 DEF Precedence, Overlaps, Windows
    <2>3. \A f \in Spares(p, rows) \cup Frozen(p, rows) : f[1] \notin codes
      BY <1>1 DEF Spares, Frozen
    <2>4. \A f \in LedgerFindings(p, rows) : f[1] \notin codes
      <3>1. \A f \in Stockouts(p, rows) : f[1] \notin codes
        BY DEF Stockouts
      <3>2. \A s : \A f \in RotableFindings(p, rows, s) : f[1] \notin codes
        BY DEF RotableFindings
      <3>. QED
        BY <3>1, <3>2 DEF LedgerFindings
    <2>. QED
      BY <2>1, <2>2, <2>3, <2>4 DEF Others
  <1>4. Findings(p, rows) = Others(p, rows) \cup Setups(p, rows)
    BY DEF Findings, Others
  <1>. HIDE DEF codes
  <1>. QED
    BY <1>2, <1>3, <1>4

-----------------------------------------------------------------------------
(***************************************************************************)
(* What propagate_windows makes of any plan whose ends are bounded.        *)
(***************************************************************************)
\* The plan s ends every operation that an edge leads from by minute b.
EndsBy(c, s, b) ==
  \A e \in CrossEdges(c) :
    e[1] \in DOMAIN s => End(c, s, e[1]) \in Int /\ End(c, s, e[1]) <= b

\* The window that lifted edges ask for is one of their ends, and the latest.
LEMMA LatestEndIsOneOf ==
  ASSUME NEW c, NEW ws, NEW s, NEW b \in Int, EndsBy(c, s, b),
         NEW o, \E e \in Lifted(c, ws, s) : e[2] = o
  PROVE  LET es == Lifted(c, ws, s)
             m == LatestEnd(c, s, es, o)
         IN /\ m \in Int
            /\ \E e \in es : e[2] = o /\ End(c, s, e[1]) = m
            /\ \A e \in es : e[2] = o => End(c, s, e[1]) <= m
  <1>. DEFINE es == Lifted(c, ws, s)
              S == {End(c, s, e[1]) : e \in {x \in es : x[2] = o}}
  <1>1. \A e \in es : End(c, s, e[1]) \in Int /\ End(c, s, e[1]) <= b
    BY DEF EndsBy, Lifted, Lifts
  <1>2. S \subseteq Int /\ S # {} /\ \A x \in S : x <= b
    BY <1>1
  <1>3. PICK m \in S : \A x \in S : x <= m
    BY <1>2, GreatestInt
  <1>4. /\ m \in {End(c, s, e[1]) : e \in es}
        /\ \E e \in es : e[2] = o /\ End(c, s, e[1]) = m
        /\ \A e \in es : e[2] = o => End(c, s, e[1]) <= m
    BY <1>3
  <1>5. /\ LatestEnd(c, s, es, o) \in {End(c, s, e[1]) : e \in es}
        /\ \E e \in es : e[2] = o /\ End(c, s, e[1]) = LatestEnd(c, s, es, o)
        /\ \A e \in es : e[2] = o => End(c, s, e[1]) <= LatestEnd(c, s, es, o)
    <2>. HIDE DEF es
    <2>. QED
      BY <1>4 DEF LatestEnd
  <1>6. LatestEnd(c, s, es, o) \in Int
    BY <1>1, <1>5
  <1>. QED
    BY <1>5, <1>6

\* propagate_windows adds the destinations of cross edges only, adds and lifts
\* windows, and takes none back.
LEMMA WindowsOnlyLift ==
  ASSUME NEW c, NEW ws, NEW s, NEW b \in Int, EndsBy(c, s, b),
         \A o \in DOMAIN ws : ws[o] \in Int
  PROVE  /\ DOMAIN Propagate(c, ws, s) \subseteq DOMAIN ws \cup {e[2] : e \in CrossEdges(c)}
         /\ \A o \in DOMAIN Propagate(c, ws, s) : Propagate(c, ws, s)[o] \in Int
         /\ \A o \in DOMAIN ws : /\ o \in DOMAIN Propagate(c, ws, s)
                                /\ Propagate(c, ws, s)[o] >= ws[o]
  <1>. DEFINE es == Lifted(c, ws, s)
              new == Propagate(c, ws, s)
  <1>1. es \subseteq CrossEdges(c)
    BY DEF Lifted
  <1>2. new = [o \in DOMAIN ws \cup {e[2] : e \in es} |->
                 IF \E e \in es : e[2] = o THEN LatestEnd(c, s, es, o) ELSE ws[o]]
    BY DEF Propagate
  <1>3. ASSUME NEW o \in DOMAIN new
        PROVE  new[o] \in Int /\ (o \in DOMAIN ws => new[o] >= ws[o])
    <2>1. CASE \E e \in es : e[2] = o
      <3>1. new[o] = LatestEnd(c, s, es, o)
        BY <1>2, <2>1
      <3>2. PICK e \in es : e[2] = o /\ End(c, s, e[1]) = new[o]
        BY <2>1, <3>1, LatestEndIsOneOf
      <3>3. new[o] \in Int
        BY <2>1, <3>1, LatestEndIsOneOf
      <3>4. o \in DOMAIN ws => new[o] > ws[o]
        BY <3>2 DEF Lifted, Lifts
      <3>. QED
        BY <3>3, <3>4
    <2>2. CASE ~\E e \in es : e[2] = o
      <3>1. o \in DOMAIN ws /\ new[o] = ws[o]
        BY <1>2, <2>2
      <3>. QED
        BY <3>1
    <2>. QED
      BY <2>1, <2>2
  <1>4. DOMAIN new = DOMAIN ws \cup {e[2] : e \in es}
    BY <1>2
  <1>. QED
    BY <1>1, <1>3, <1>4

-----------------------------------------------------------------------------
(***************************************************************************)
(* The greatest and the least of a finite set.                             *)
(***************************************************************************)
\* The greatest member of a finite set.
LEMMA MaxIsGreatest ==
  ASSUME NEW S \in SUBSET Int, S # {}, IsFiniteSet(S)
  PROVE  Max(S) \in S /\ \A x \in S : x <= Max(S)
  <1>. DEFINE R == {e \in S \X S : e[1] <= e[2]}
  <1>1. Orders(R, S)
    BY DEF Orders
  <1>2. PICK m \in S : \A q \in S \ {m} : <<q, m>> \in R
    <2>. HIDE DEF R
    <2>. QED
      BY <1>1, LastInOrder
  <1>3. ASSUME NEW x \in S PROVE m >= x
    <2>1. CASE x = m
      BY <2>1
    <2>2. CASE x # m
      BY <1>2, <2>2
    <2>. QED
      BY <2>1, <2>2
  <1>. QED
    BY <1>3 DEF Max

\* The image of a finite set is finite.
LEMMA ImageIsFinite ==
  ASSUME NEW S, IsFiniteSet(S), NEW f
  PROVE  IsFiniteSet({f[x] : x \in S})
  <1>. DEFINE g == [x \in S |-> f[x]]
              T == {f[x] : x \in S}
  <1>1. g \in Surjection(S, T)
    BY DEF Surjection
  <1>. HIDE DEF g, T
  <1>. QED
    BY <1>1, FS_Surjection DEF T

\* The least member of a finite set.
LEMMA MinIsLeast ==
  ASSUME NEW S \in SUBSET Int, S # {}, IsFiniteSet(S)
  PROVE  Min(S) \in S /\ \A x \in S : Min(S) <= x
  <1>. DEFINE R == {e \in S \X S : e[1] >= e[2]}
  <1>1. Orders(R, S)
    BY DEF Orders
  <1>2. PICK m \in S : \A q \in S \ {m} : <<q, m>> \in R
    <2>. HIDE DEF R
    <2>. QED
      BY <1>1, LastInOrder
  <1>3. ASSUME NEW x \in S PROVE m <= x
    <2>1. CASE x = m
      BY <2>1
    <2>2. CASE x # m
      BY <1>2, <2>2
    <2>. QED
      BY <2>1, <2>2
  <1>. QED
    BY <1>3 DEF Min

\* The later of two minutes.
LEMMA LaterOfTwo ==
  ASSUME NEW a \in Int, NEW b \in Int
  PROVE  Max({a, b}) = IF a >= b THEN a ELSE b
  <1>. DEFINE m == IF a >= b THEN a ELSE b
  <1>1. m \in {a, b} /\ \A y \in {a, b} : m >= y
    OBVIOUS
  <1>2. \A x \in {a, b} : (\A y \in {a, b} : x >= y) => x = m
    OBVIOUS
  <1>. HIDE DEF m
  <1>3. Max({a, b}) = m
    BY <1>1, <1>2 DEF Max
  <1>. QED
    BY <1>3 DEF m
=============================================================================
