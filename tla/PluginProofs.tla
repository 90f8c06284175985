---------------------------- MODULE PluginProofs -----------------------------
(***************************************************************************)
(* Proofs about Plugin: the runs of the agent, the configuration they have *)
(* and the usage counters, whatever calls the host makes in between.       *)
(***************************************************************************)
EXTENDS Plugin, AgentProcessProofs, FiniteSetTheorems, WellFoundedInduction

-----------------------------------------------------------------------------
(* Recursive definitions, which the proofs of Plugin meet as sums, walks    *)
(* over trees and paths.                                                    *)

LEMMA LeastNatural ==
  ASSUME NEW S \in SUBSET Nat, S # {}
  PROVE  \E n \in S : \A m \in S : ~(m < n)
<1>1. \E n \in S : \A m \in S : ~(<<m, n>> \in OpToRel(<, Nat))
  BY NatLessThanWellFounded, WFMin
<1> QED
  BY <1>1 DEF OpToRel

(* Every set of arguments has one that needs no other of them.              *)
Grounded(D, R) ==
  \A T \in SUBSET D : T # {} => \E x \in T : \A y \in T : ~(<<y, x>> \in R)

(* What a recursive definition needs to define a function of D to V: the    *)
(* value at x is made from those at the arguments below x alone.            *)
Recursive(D, V, R, G) ==
  /\ Grounded(D, R)
  /\ V # {}
  /\ G \in [D \X [D -> V] -> V]
  /\ \A x \in D : \A g, h \in [D -> V] :
       (\A y \in D : <<y, x>> \in R => g[y] = h[y]) => G[<<x, g>>] = G[<<x, h>>]

LEMMA Recursion ==
  ASSUME NEW D, NEW V, NEW R, NEW G, Recursive(D, V, R, G)
  PROVE  \E f \in [D -> V] : \A x \in D : f[x] = G[<<x, f>>]
<1>0. /\ Grounded(D, R)
      /\ V # {}
      /\ G \in [D \X [D -> V] -> V]
      /\ \A x \in D : \A g, h \in [D -> V] :
           (\A y \in D : <<y, x>> \in R => g[y] = h[y]) => G[<<x, g>>] = G[<<x, h>>]
  BY DEF Recursive
<1> DEFINE Good(f, P) ==
      /\ f \in [D -> V] /\ P \in SUBSET D
      /\ \A x \in P : \A y \in D : <<y, x>> \in R => y \in P
      /\ \A x \in P : f[x] = G[<<x, f>>]
<1>1. ASSUME NEW f, NEW P, NEW g, NEW Q, Good(f, P), Good(g, Q)
      PROVE  \A x \in P \cap Q : f[x] = g[x]
  <2> SUFFICES ASSUME {x \in P \cap Q : f[x] # g[x]} # {} PROVE FALSE
    OBVIOUS
  <2> DEFINE T == {x \in P \cap Q : f[x] # g[x]}
  <2>1. PICK x \in T : \A y \in T : ~(<<y, x>> \in R)
    <3>1. T \in SUBSET D
      BY <1>1
    <3> QED
      BY <1>0, <3>1 DEF Grounded
  <2>2. \A y \in D : <<y, x>> \in R => f[y] = g[y]
    BY <1>1, <2>1
  <2>3. G[<<x, f>>] = G[<<x, g>>]
    BY <1>0, <1>1, <2>2
  <2> QED
    BY <1>1, <2>3
<1> DEFINE U == {x \in D : \E f \in [D -> V], P \in SUBSET D : Good(f, P) /\ x \in P}
           v0 == CHOOSE v \in V : TRUE
           Val(x) == CHOOSE v \in V : \E f \in [D -> V], P \in SUBSET D :
                       Good(f, P) /\ x \in P /\ v = f[x]
           F == [x \in D |-> IF x \in U THEN Val(x) ELSE v0]
<1>2. F \in [D -> V]
  <2>1. v0 \in V
    BY <1>0
  <2>2. \A x \in U : Val(x) \in V
    <3> TAKE x \in U
    <3>1. PICK f \in [D -> V], P \in SUBSET D : Good(f, P) /\ x \in P
      OBVIOUS
    <3>2. f[x] \in V
      BY <3>1
    <3> HIDE DEF Good
    <3> QED
      BY <3>1, <3>2
  <2> HIDE DEF Val, U, v0
  <2> QED
    BY <2>1, <2>2
<1>3. ASSUME NEW f \in [D -> V], NEW P \in SUBSET D, Good(f, P), NEW x \in P
      PROVE  x \in U /\ F[x] = f[x]
  <2>1. x \in U
    BY <1>3
  <2>2. \E v \in V : \E g \in [D -> V], Q \in SUBSET D : Good(g, Q) /\ x \in Q /\ v = g[x]
    <3>1. f[x] \in V
      OBVIOUS
    <3> HIDE DEF Good
    <3> QED
      BY <1>3, <3>1
  <2>3. PICK g \in [D -> V], Q \in SUBSET D : Good(g, Q) /\ x \in Q /\ Val(x) = g[x]
    <3> HIDE DEF Good
    <3> QED
      BY <2>2
  <2>4. f[x] = g[x]
    <3> HIDE DEF Good
    <3> QED
      BY <1>1, <1>3, <2>3
  <2> HIDE DEF Good, U, Val
  <2> QED
    BY <2>1, <2>3, <2>4
<1>4. Good(F, U)
  <2>1. \A x \in U : \A y \in D : <<y, x>> \in R => y \in U
    OBVIOUS
  <2>2. ASSUME NEW x \in U PROVE F[x] = G[<<x, F>>]
    <3>1. PICK f \in [D -> V], P \in SUBSET D : Good(f, P) /\ x \in P
      BY <2>2
    <3>2. F[x] = f[x] /\ f[x] = G[<<x, f>>]
      <4>1. f[x] = G[<<x, f>>]
        BY <3>1
      <4> HIDE DEF Good, F
      <4> QED
        BY <1>3, <3>1, <4>1
    <3>3. \A y \in D : <<y, x>> \in R => F[y] = f[y]
      <4>1. \A y \in D : <<y, x>> \in R => y \in P
        BY <3>1
      <4> HIDE DEF Good, F
      <4> QED
        BY <1>3, <3>1, <4>1
    <3>4. x \in D
      OBVIOUS
    <3> HIDE DEF F, U, Good
    <3>5. G[<<x, F>>] = G[<<x, f>>]
      BY <1>0, <1>2, <3>3, <3>4
    <3> QED
      BY <3>2, <3>5
  <2>3. U \in SUBSET D
    OBVIOUS
  <2> HIDE DEF F, U
  <2> QED
    BY <1>2, <2>1, <2>2, <2>3
<1>5. U = D
  <2> SUFFICES ASSUME D \ U # {} PROVE FALSE
    OBVIOUS
  <2> HIDE DEF F, U
  <2>1. PICK x \in D \ U : \A y \in D \ U : ~(<<y, x>> \in R)
    BY <1>0 DEF Grounded
  <2> DEFINE E == [F EXCEPT ![x] = G[<<x, F>>]]
             W == U \cup {x}
  <2>2. U \in SUBSET D
    BY <1>4
  <2>3. G[<<x, F>>] \in V
    BY <1>0, <1>2
  <2>4. E \in [D -> V] /\ (\A y \in U : E[y] = F[y]) /\ E[x] = G[<<x, F>>]
    BY <1>2, <2>1, <2>2, <2>3
  <2>5. \A z \in W : \A y \in D : <<y, z>> \in R => y \in U
    BY <1>4, <2>1
  <2>6. \A z \in W : G[<<z, E>>] = G[<<z, F>>]
    <3> TAKE z \in W
    <3>1. \A y \in D : <<y, z>> \in R => E[y] = F[y]
      BY <2>4, <2>5
    <3>2. z \in D
      BY <2>1, <2>2
    <3> HIDE DEF E
    <3> QED
      BY <1>0, <1>2, <2>4, <3>1, <3>2
  <2>7. Good(E, W)
    <3>1. \A z \in W : E[z] = G[<<z, E>>]
      BY <1>4, <2>4, <2>6
    <3> HIDE DEF E
    <3> QED
      BY <2>1, <2>2, <2>4, <2>5, <3>1
  <2>8. x \in U
    <3>1. E \in [D -> V] /\ W \in SUBSET D /\ x \in W
      BY <2>1, <2>2, <2>4
    <3> HIDE DEF E, W
    <3> QED
      BY <2>7, <3>1, <1>3
  <2> QED
    BY <2>1, <2>8
<1>6. \A x \in D : F[x] = G[<<x, F>>]
  <2> HIDE DEF F, U
  <2> QED
    BY <1>4, <1>5
<1> HIDE DEF F
<1> QED
  BY <1>2, <1>6

(* Arguments that have a rank are grounded.                                 *)
LEMMA RankGrounds ==
  ASSUME NEW D, NEW R, NEW rank \in [D -> Nat],
         \A x, y \in D : <<y, x>> \in R => rank[y] < rank[x]
  PROVE  Grounded(D, R)
<1> SUFFICES ASSUME NEW T \in SUBSET D, T # {}
             PROVE  \E x \in T : \A y \in T : ~(<<y, x>> \in R)
  BY DEF Grounded
<1> DEFINE N == {rank[x] : x \in T}
<1>1. N \in SUBSET Nat /\ N # {}
  OBVIOUS
<1>2. PICK n \in N : \A k \in N : ~(k < n)
  <2> HIDE DEF N
  <2> QED
    BY <1>1, LeastNatural
<1>3. PICK x \in T : n = rank[x]
  OBVIOUS
<1>4. \A y \in T : ~(<<y, x>> \in R)
  BY <1>2, <1>3
<1> QED
  BY <1>4

-----------------------------------------------------------------------------
(* Sums.                                                                    *)

(* Parts of a set, and the order of inclusion.                              *)
Within(S) == {p \in (SUBSET S) \X (SUBSET S) : p[1] \subseteq p[2] /\ p[1] # p[2]}

LEMMA SubsetsGrounded ==
  ASSUME NEW S, IsFiniteSet(S)
  PROVE  Grounded(SUBSET S, Within(S))
<1> DEFINE D == SUBSET S
           rank == [s \in D |-> Cardinality(s)]
<1>1. rank \in [D -> Nat]
  BY FS_Subset, FS_CardinalityType
<1>2. ASSUME NEW x \in D, NEW y \in D, <<y, x>> \in Within(S)
      PROVE  rank[y] < rank[x]
  <2>1. y \subseteq x /\ y # x
    BY <1>2 DEF Within
  <2>2. IsFiniteSet(x) /\ Cardinality(x) \in Nat /\ Cardinality(y) \in Nat
    BY FS_Subset, FS_CardinalityType
  <2>3. Cardinality(y) < Cardinality(x)
    BY <2>1, <2>2, FS_Subset
  <2> QED
    BY <2>3
<1> HIDE DEF rank, D
<1>3. Grounded(D, Within(S))
  BY <1>1, <1>2, RankGrounds
<1> QED
  BY <1>3 DEF D

(* A sum is a recursive definition too; g is a solution of it.              *)
Summed(f, A, g) ==
  g = [s \in SUBSET A |->
         IF s = {} THEN 0
         ELSE f[CHOOSE x \in s : TRUE] + g[s \ {CHOOSE x \in s : TRUE}]]

LEMMA SumChosen ==
  ASSUME NEW f, NEW A
  PROVE  SumFunctionOnSet(f, A) = (CHOOSE g : Summed(f, A, g))[A]
BY DEF SumFunctionOnSet, FoldFunctionOnSet, MapThenFoldSet, Summed

LEMMA SumExists ==
  ASSUME NEW A, IsFiniteSet(A), NEW f, \A x \in A : f[x] \in Int
  PROVE  \E g \in [SUBSET A -> Int] : Summed(f, A, g)
<1> DEFINE c(s) == CHOOSE x \in s : TRUE
           D == SUBSET A
           G == [p \in D \X [D -> Int] |->
                   IF p[1] = {} THEN 0 ELSE f[c(p[1])] + p[2][p[1] \ {c(p[1])}]]
<1>1. \A s \in D : s # {} => c(s) \in s /\ f[c(s)] \in Int
                              /\ s \ {c(s)} \in D /\ <<s \ {c(s)}, s>> \in Within(A)
  BY DEF Within
<1> HIDE DEF c
<1>2. G \in [D \X [D -> Int] -> Int]
  <2>1. ASSUME NEW s \in D, NEW g \in [D -> Int]
        PROVE  (IF s = {} THEN 0 ELSE f[c(s)] + g[s \ {c(s)}]) \in Int
    <3>1. s # {} => g[s \ {c(s)}] \in Int
      BY <1>1
    <3>2. CASE s = {}
      BY <3>2
    <3>3. CASE s # {}
      <4>1. f[c(s)] \in Int /\ g[s \ {c(s)}] \in Int
        BY <1>1, <3>1, <3>3
      <4>2. f[c(s)] + g[s \ {c(s)}] \in Int
        BY <4>1
      <4> QED
        BY <3>3, <4>2
    <3> QED
      BY <3>2, <3>3
  <2> QED
    BY <2>1
<1>3. \A x \in D : \A g, h \in [D -> Int] :
        (\A y \in D : <<y, x>> \in Within(A) => g[y] = h[y]) => G[<<x, g>>] = G[<<x, h>>]
  BY <1>1
<1>4. PICK g \in [D -> Int] : \A s \in D : g[s] = G[<<s, g>>]
  <2>1. Grounded(D, Within(A))
    BY SubsetsGrounded
  <2> HIDE DEF G, D
  <2>2. Recursive(D, Int, Within(A), G)
    <3>1. 0 \in Int
      OBVIOUS
    <3>2. Int # {}
      BY <3>1
    <3> QED
      BY <1>2, <1>3, <2>1, <3>2, Zenon DEF Recursive
  <2> QED
    BY <2>2, Recursion
<1>5. g = [s \in D |-> IF s = {} THEN 0 ELSE f[c(s)] + g[s \ {c(s)}]]
  BY <1>4
<1> QED
  BY <1>5 DEF Summed, c

LEMMA SumIs ==
  ASSUME NEW A, IsFiniteSet(A), NEW f, \A x \in A : f[x] \in Int,
         NEW g \in [SUBSET A -> Int], Summed(f, A, g), NEW B \in SUBSET A
  PROVE  SumFunctionOnSet(f, B) = g[B]
<1> DEFINE h == CHOOSE k : Summed(f, B, k)
           r == [s \in SUBSET B |-> g[s]]
<1>1. \A s \in SUBSET B : g[s] = IF s = {} THEN 0
          ELSE f[CHOOSE x \in s : TRUE] + g[s \ {CHOOSE x \in s : TRUE}]
  BY DEF Summed
<1>2. Summed(f, B, r)
  <2>1. r = [s \in SUBSET B |->
         IF s = {} THEN 0
         ELSE f[CHOOSE x \in s : TRUE] + r[s \ {CHOOSE x \in s : TRUE}]]
    BY <1>1
  <2> QED
    BY <2>1 DEF Summed
<1>3. Summed(f, B, h)
  BY <1>2
<1>4. \A s \in SUBSET B : h[s] = g[s]
  <2> SUFFICES ASSUME {s \in SUBSET B : h[s] # g[s]} # {} PROVE FALSE
    OBVIOUS
  <2>1. IsFiniteSet(B)
    BY FS_Subset
  <2>2. PICK s \in {s \in SUBSET B : h[s] # g[s]} :
          \A y \in {t \in SUBSET B : h[t] # g[t]} : ~(<<y, s>> \in Within(B))
    <3> HIDE DEF h
    <3> QED
      BY <2>1, SubsetsGrounded DEF Grounded
  <2> HIDE DEF h, r
  <2> DEFINE x == CHOOSE x \in s : TRUE
  <2>3. h[s] = IF s = {} THEN 0 ELSE f[x] + h[s \ {x}]
    BY <1>3 DEF Summed
  <2>4. g[s] = IF s = {} THEN 0 ELSE f[x] + g[s \ {x}]
    BY <1>1
  <2>5. s # {} => x \in s
    OBVIOUS
  <2> HIDE DEF x
  <2>6. s # {} => h[s \ {x}] = g[s \ {x}]
    <3>1. s # {} => s \ {x} \in SUBSET B /\ <<s \ {x}, s>> \in Within(B)
      BY <2>5 DEF Within
    <3> QED
      BY <2>2, <3>1
  <2> QED
    BY <2>2, <2>3, <2>4, <2>6
<1> HIDE DEF h
<1>5. h[B] = g[B]
  BY <1>4
<1> QED
  BY <1>5, SumChosen DEF h

(* A sum does not depend on the order in which it is made.                  *)
LEMMA SumTakes ==
  ASSUME NEW A, IsFiniteSet(A), NEW f, \A x \in A : f[x] \in Int
  PROVE  /\ SumFunctionOnSet(f, A) \in Int
         /\ SumFunctionOnSet(f, {}) = 0
         /\ \A x \in A : SumFunctionOnSet(f, A) = f[x] + SumFunctionOnSet(f, A \ {x})
<1>1. PICK g \in [SUBSET A -> Int] : Summed(f, A, g)
  BY SumExists
<1>2. \A B \in SUBSET A : SumFunctionOnSet(f, B) = g[B]
  BY <1>1, SumIs
<1>3. \A s \in SUBSET A : g[s] = IF s = {} THEN 0
          ELSE f[CHOOSE x \in s : TRUE] + g[s \ {CHOOSE x \in s : TRUE}]
  BY <1>1 DEF Summed
<1> DEFINE Bad == {s \in SUBSET A : \E x \in s : g[s] # f[x] + g[s \ {x}]}
<1>4. Bad = {}
  <2> SUFFICES ASSUME Bad # {} PROVE FALSE
    OBVIOUS
  <2>1. PICK s \in Bad : \A y \in Bad : ~(<<y, s>> \in Within(A))
    <3>1. Bad \in SUBSET SUBSET A
      OBVIOUS
    <3> HIDE DEF Bad
    <3> QED
      BY <3>1, SubsetsGrounded DEF Grounded
  <2>2. PICK x \in s : g[s] # f[x] + g[s \ {x}]
    BY <2>1
  <2> DEFINE c == CHOOSE y \in s : TRUE
  <2>3. g[s] = f[c] + g[s \ {c}] /\ c \in s
    BY <1>3, <2>2
  <2> HIDE DEF c
  <2>4. c # x
    BY <2>2, <2>3
  <2>5. /\ s \ {x} \in SUBSET A /\ s \ {c} \in SUBSET A
        /\ s \ {x} \notin Bad /\ s \ {c} \notin Bad
    <3>1. s \in SUBSET A
      BY <2>1
    <3>2. <<s \ {x}, s>> \in Within(A) /\ <<s \ {c}, s>> \in Within(A)
      BY <2>2, <2>3, <3>1 DEF Within
    <3> HIDE DEF Bad
    <3> QED
      BY <2>1, <3>1, <3>2
  <2>6. /\ g[s \ {x}] = f[c] + g[(s \ {x}) \ {c}]
        /\ g[s \ {c}] = f[x] + g[(s \ {c}) \ {x}]
    BY <2>2, <2>3, <2>4, <2>5
  <2>7. (s \ {x}) \ {c} = (s \ {c}) \ {x}
    OBVIOUS
  <2>8. f[c] \in Int /\ f[x] \in Int /\ g[(s \ {c}) \ {x}] \in Int
    <3>1. (s \ {c}) \ {x} \in SUBSET A
      BY <2>5
    <3> QED
      BY <2>1, <2>2, <2>3, <3>1
  <2> HIDE DEF Bad
  <2>9. g[s] = f[x] + g[s \ {x}]
    <3>1. \A a, b, w \in Int : a + (b + w) = b + (a + w)
      OBVIOUS
    <3>2. g[s] = f[c] + (f[x] + g[(s \ {c}) \ {x}])
      BY <2>3, <2>6
    <3>3. g[s \ {x}] = f[c] + g[(s \ {c}) \ {x}]
      BY <2>6, <2>7
    <3>4. f[c] + (f[x] + g[(s \ {c}) \ {x}]) = f[x] + (f[c] + g[(s \ {c}) \ {x}])
      BY <2>8, <3>1
    <3> QED
      BY <3>2, <3>3, <3>4
  <2> QED
    BY <2>2, <2>9
<1>5. \A x \in A : g[A] = f[x] + g[A \ {x}]
  BY <1>4
<1>6. g[{}] = 0 /\ g[A] \in Int
  BY <1>3
<1> QED
  BY <1>2, <1>5, <1>6

(* It depends on the summands alone.                                        *)
LEMMA SumSame ==
  ASSUME NEW A, IsFiniteSet(A), NEW f, \A x \in A : f[x] \in Int,
         NEW g, \A x \in A : g[x] = f[x]
  PROVE  SumFunctionOnSet(g, A) = SumFunctionOnSet(f, A)
<1> DEFINE Bad == {s \in SUBSET A : SumFunctionOnSet(g, s) # SumFunctionOnSet(f, s)}
<1> SUFFICES Bad = {}
  OBVIOUS
<1> SUFFICES ASSUME Bad # {} PROVE FALSE
  OBVIOUS
<1>1. PICK s \in Bad : \A y \in Bad : ~(<<y, s>> \in Within(A))
  <2>1. Bad \in SUBSET SUBSET A
    OBVIOUS
  <2> HIDE DEF Bad
  <2> QED
    BY <2>1, SubsetsGrounded DEF Grounded
<1>2. s \in SUBSET A /\ IsFiniteSet(s)
  BY <1>1, FS_Subset
<1>3. s # {}
  BY <1>1, <1>2, SumTakes
<1>4. PICK x \in s : TRUE
  BY <1>3
<1>5. /\ SumFunctionOnSet(f, s) = f[x] + SumFunctionOnSet(f, s \ {x})
      /\ SumFunctionOnSet(g, s) = g[x] + SumFunctionOnSet(g, s \ {x})
  BY <1>2, <1>4, SumTakes
<1>6. s \ {x} \in SUBSET A /\ <<s \ {x}, s>> \in Within(A)
  BY <1>2, <1>4 DEF Within
<1>7. s \ {x} \notin Bad
  <2> HIDE DEF Bad
  <2> QED
    BY <1>1, <1>6
<1>8. SumFunctionOnSet(g, s \ {x}) = SumFunctionOnSet(f, s \ {x})
  BY <1>6, <1>7
<1>9. g[x] = f[x]
  BY <1>2, <1>4
<1> QED
  BY <1>1, <1>5, <1>8, <1>9

-----------------------------------------------------------------------------
(* Numbers that wrap.                                                       *)

LEMMA DivMod ==
  ASSUME NEW n \in Nat \ {0}, NEW x \in Int
  PROVE  x = n * (x \div n) + (x % n) /\ x % n \in 0 .. n - 1 /\ x \div n \in Int
OBVIOUS

LEMMA ModUnique ==
  ASSUME NEW n \in Nat \ {0}, NEW q \in Int, NEW r \in 0 .. n - 1
  PROVE  (n * q + r) % n = r
OBVIOUS

(* Wrapped numbers are those that differ by multiples of 2^64.              *)
LEMMA WrapShifts ==
  ASSUME NEW a \in Int
  PROVE  Wrap(a) \in Int /\ \E q \in Int : Wrap(a) = a + (2 * Half) * q
<1> DEFINE n == 2 * Half
<1>1. n \in Nat \ {0} /\ Half \in Int
  BY HalfAssumption
<1> HIDE DEF n
<1> DEFINE q == (a + Half) \div n
           r == (a + Half) % n
<1>2. a + Half = n * q + r /\ r \in Int /\ q \in Int
  BY <1>1, DivMod
<1>3. Wrap(a) = r - Half
  BY DEF Wrap, n
<1> HIDE DEF q, r
<1>4. n * (0 - q) = 0 - n * q
  BY <1>1, <1>2
<1>5. n * q \in Int
  BY <1>1, <1>2
<1>6. Wrap(a) = a + n * (0 - q) /\ 0 - q \in Int /\ Wrap(a) \in Int
  BY <1>1, <1>2, <1>3, <1>4, <1>5
<1> QED
  BY <1>6 DEF n

LEMMA WrapSame ==
  ASSUME NEW a \in Int, NEW q \in Int
  PROVE  Wrap(a + (2 * Half) * q) = Wrap(a)
<1> DEFINE n == 2 * Half
<1>1. n \in Nat \ {0} /\ Half \in Int
  BY HalfAssumption
<1> HIDE DEF n
<1> DEFINE p == (a + Half) \div n
           r == (a + Half) % n
<1>2. a + Half = n * p + r /\ r \in 0 .. n - 1 /\ p \in Int
  BY <1>1, DivMod
<1> HIDE DEF p, r
<1>3. n * (p + q) = n * p + n * q /\ p + q \in Int
  BY <1>1, <1>2
<1>4. n * p \in Int /\ n * q \in Int
  BY <1>1, <1>2
<1>5. (a + n * q) + Half = n * (p + q) + r
  BY <1>1, <1>2, <1>3, <1>4
<1>6. ((a + n * q) + Half) % n = r
  BY <1>1, <1>2, <1>3, <1>5, ModUnique
<1> QED
  BY <1>6 DEF Wrap, n, r

(* So a sum may be wrapped at every addition, or once at the end.           *)
LEMMA WrapSum ==
  ASSUME NEW a \in Int, NEW b \in Int
  PROVE  Wrap(Wrap(a) + b) = Wrap(a + b)
<1>1. PICK q \in Int : Wrap(a) = a + (2 * Half) * q
  BY WrapShifts
<1>2. (2 * Half) * q \in Int
  BY HalfAssumption
<1>3. Wrap(a) + b = (a + b) + (2 * Half) * q
  BY <1>1, <1>2
<1> QED
  BY <1>3, WrapSame

LEMMA WrapCongruent ==
  ASSUME NEW a \in Int, NEW b \in Int, NEW c \in Int, Wrap(a) = Wrap(b)
  PROVE  Wrap(a + c) = Wrap(b + c)
BY WrapSum

-----------------------------------------------------------------------------
(* The plugin: what holds of it throughout.                                 *)

(* The configuration is one that the host sent and ParseConfig accepted.    *)
ConfigAccepted ==
  \E raw \in accepted : ParseConfig(raw) # Invalid /\ config = ParseConfig(raw)

(* There is a process while a call executes, and only then and until the    *)
(* slot is given back.                                                      *)
ProcessInCall ==
  /\ pc = "executing" => runner # "none"
  /\ runner # "none" => pc = "executing" \/ (pc = "releasing" /\ runner \in Returned)

(* A call that waits for its slot works with a configuration that was       *)
(* accepted, and that allows it.                                            *)
CopyAccepted ==
  pc \in {"called", "sending"} =>
    \E raw \in accepted :
      /\ ParseConfig(raw) # Invalid /\ copy = ParseConfig(raw)
      /\ copy.enabled
      /\ ~(request.bytes > copy.max_request_bytes)
      /\ ~(PromptBytes(request.body) > copy.max_prompt_bytes)

-----------------------------------------------------------------------------
(* What each call leaves alone.                                             *)

(* A step beside the call.                                                  *)
Aside == UNCHANGED <<process, execution>>

(* A step of a call that does not run an agent.                             *)
NoRun ==
  /\ UNCHANGED process
  /\ env' = env
  /\ pc \notin {"executing", "releasing"} /\ pc' \notin {"executing", "releasing"}

LEMMA StepsOfRuns ==
  ASSUME [Next]_vars
  PROVE  Aside \/ NoRun \/ AcquireSlot \/ Running \/ RunAgentReturns \/ ExecuteReturns
<1> USE DEF NoRun, Aside, execution, Answer, Reply
<1>1. CASE \E raw \in Raws : Reconfigure(raw)
  BY <1>1 DEF Reconfigure
<1>2. CASE \E record \in Records, now \in Clock : UsageHandle(record, now)
  BY <1>2 DEF UsageHandle
<1>3. CASE \E req \in Requests : CountTokens(req)
  BY <1>3 DEF CountTokens
<1>4. CASE \E req \in Requests : Execute(req)
  BY <1>4 DEF Execute
<1>5. CASE Refused \/ Shutdown \/ RefreshAuth
  BY <1>5 DEF Refused, Shutdown, RefreshAuth
<1>6. CASE Refreshing \/ RefreshReturns
  BY <1>6 DEF Refreshing, RefreshReturns
<1>7. CASE Unpack \/ Unpacking \/ UnpackReturns
  BY <1>7 DEF Unpack, Unpacking, UnpackReturns
<1>8. CASE ExecuteRunAgent \/ EnterWorkspace
  BY <1>8 DEF ExecuteRunAgent, EnterWorkspace
<1>9. CASE OtherAcquires \/ OtherReleases
  BY <1>9 DEF OtherAcquires, OtherReleases
<1>10. CASE UNCHANGED vars
  BY <1>10 DEF vars
<1> QED
  BY <1>1, <1>2, <1>3, <1>4, <1>5, <1>6, <1>7, <1>8, <1>9, <1>10 DEF Next

LEMMA StepsOfCall ==
  ASSUME [Next]_vars
  PROVE  \/ UNCHANGED execution \/ pc' \notin {"called", "sending"}
         \/ ExecuteRunAgent \/ EnterWorkspace
<1> USE DEF execution
<1>1. CASE \E raw \in Raws : Reconfigure(raw)
  BY <1>1 DEF Reconfigure
<1>2. CASE \E record \in Records, now \in Clock : UsageHandle(record, now)
  BY <1>2 DEF UsageHandle
<1>3. CASE \E req \in Requests : CountTokens(req)
  BY <1>3 DEF CountTokens
<1>4. CASE \E req \in Requests : Execute(req)
  BY <1>4 DEF Execute
<1>5. CASE Refused \/ Shutdown \/ RefreshAuth
  BY <1>5 DEF Refused, Shutdown, RefreshAuth
<1>6. CASE Refreshing \/ RefreshReturns
  BY <1>6 DEF Refreshing, RefreshReturns
<1>7. CASE Unpack \/ Unpacking \/ UnpackReturns
  BY <1>7 DEF Unpack, Unpacking, UnpackReturns
<1>8. CASE AcquireSlot \/ Running \/ RunAgentReturns \/ ExecuteReturns
  BY <1>8 DEF AcquireSlot, Running, RunAgentReturns, ExecuteReturns
<1>9. CASE OtherAcquires \/ OtherReleases
  BY <1>9 DEF OtherAcquires, OtherReleases
<1>10. CASE UNCHANGED vars
  BY <1>10 DEF vars
<1> QED
  BY <1>1, <1>2, <1>3, <1>4, <1>5, <1>6, <1>7, <1>8, <1>9, <1>10 DEF Next

(* The steps of executor.execute after the checks, and of other calls.      *)
Executing ==
  \/ ExecuteRunAgent \/ EnterWorkspace \/ AcquireSlot \/ Running
  \/ RunAgentReturns \/ ExecuteReturns
OthersStep == OtherAcquires \/ OtherReleases

LEMMA StepsOfConfig ==
  ASSUME [Next]_vars
  PROVE  UNCHANGED configuration \/ \E raw \in Raws : Reconfigure(raw)
<1>1. CASE \E record \in Records, now \in Clock : UsageHandle(record, now)
  BY <1>1 DEF UsageHandle
<1>2. CASE \E req \in Requests : CountTokens(req) \/ Execute(req)
  BY <1>2 DEF CountTokens, Execute
<1>3. CASE Refused \/ Shutdown \/ RefreshAuth \/ Refreshing \/ RefreshReturns
  BY <1>3 DEF Refused, Shutdown, RefreshAuth, Refreshing, RefreshReturns
<1>4. CASE Unpack \/ Unpacking \/ UnpackReturns
  BY <1>4 DEF Unpack, Unpacking, UnpackReturns
<1>5. CASE Executing \/ OthersStep
  BY <1>5 DEF Executing, ExecuteRunAgent, EnterWorkspace, AcquireSlot, Running,
              RunAgentReturns, ExecuteReturns, OthersStep, OtherAcquires,
              OtherReleases
<1>6. CASE UNCHANGED vars
  BY <1>6 DEF vars
<1> QED
  BY <1>1, <1>2, <1>3, <1>4, <1>5, <1>6 DEF Next, Executing, OthersStep

LEMMA StepsOfUsage ==
  ASSUME [Next]_vars
  PROVE  \/ UNCHANGED <<usage, log>>
         \/ \E record \in Records, now \in Clock : UsageHandle(record, now)
         \/ Shutdown
<1>1. CASE \E raw \in Raws : Reconfigure(raw)
  BY <1>1 DEF Reconfigure
<1>2. CASE \E req \in Requests : CountTokens(req) \/ Execute(req)
  BY <1>2 DEF CountTokens, Execute
<1>3. CASE Refused \/ RefreshAuth \/ Refreshing \/ RefreshReturns
  BY <1>3 DEF Refused, RefreshAuth, Refreshing, RefreshReturns
<1>4. CASE Unpack \/ Unpacking \/ UnpackReturns
  BY <1>4 DEF Unpack, Unpacking, UnpackReturns
<1>5. CASE Executing \/ OthersStep
  BY <1>5 DEF Executing, ExecuteRunAgent, EnterWorkspace, AcquireSlot, Running,
              RunAgentReturns, ExecuteReturns, OthersStep, OtherAcquires,
              OtherReleases
<1>6. CASE UNCHANGED vars
  BY <1>6 DEF vars
<1> QED
  BY <1>1, <1>2, <1>3, <1>4, <1>5, <1>6 DEF Next, Executing, OthersStep

-----------------------------------------------------------------------------
(* The configuration.                                                       *)

LEMMA AcceptedConfig ==
  ASSUME NEW raw, ParseConfig(raw) # Invalid
  PROVE  /\ ParseConfig(raw).enabled = Merged(raw).enabled
         /\ \A f \in Numbers : /\ ParseConfig(raw)[f] = Merged(raw)[f]
                              /\ ParseConfig(raw)[f] \in Ranges[f]
         /\ ParseConfig(raw).environment_allowlist
              \subseteq ToSet(Merged(raw).environment_allowlist)
<1> DEFINE cfg == Merged(raw)
           checked == [cfg EXCEPT
                         !.workspace = IF @ = "" THEN Default.workspace ELSE @,
                         !.environment_allowlist = DedupeStrings(@) \cap EnvNames]
<1>1. ParseConfig(raw) = checked /\ \A f \in DOMAIN Ranges : cfg[f] \in Ranges[f]
  BY DEF ParseConfig
<1>2. cfg = [f \in DOMAIN Default |-> cfg[f]]
  BY DEF Merged
<1>3. Numbers \subseteq DOMAIN Ranges /\ DOMAIN Ranges \subseteq DOMAIN Default
  BY DefaultAssumption
<1>4. "enabled" \in DOMAIN Default /\ "environment_allowlist" \in DOMAIN Default
  BY DefaultAssumption
<1>5. /\ checked.enabled = cfg.enabled
      /\ checked.environment_allowlist
           = DedupeStrings(cfg.environment_allowlist) \cap EnvNames
  BY <1>2, <1>4
<1>6. \A f \in Numbers : checked[f] = cfg[f]
  BY <1>2, <1>3 DEF Numbers
<1>7. DedupeStrings(cfg.environment_allowlist) \subseteq ToSet(cfg.environment_allowlist)
  BY DEF DedupeStrings, ToSet
<1> QED
  BY <1>1, <1>3, <1>5, <1>6, <1>7

LEMMA ConfigInit == PluginInit => ConfigAccepted
BY DefaultAssumption DEF PluginInit, ConfigAccepted

LEMMA ConfigNext == ConfigAccepted /\ [Next]_vars => ConfigAccepted'
<1> SUFFICES ASSUME ConfigAccepted, [Next]_vars PROVE ConfigAccepted'
  OBVIOUS
<1>1. CASE UNCHANGED configuration
  BY <1>1 DEF configuration, ConfigAccepted
<1>2. ASSUME NEW raw \in Raws, Reconfigure(raw) PROVE ConfigAccepted'
  <2>1. CASE ParseConfig(raw) = Invalid
    BY <1>2, <2>1 DEF Reconfigure, configuration, ConfigAccepted
  <2>2. CASE ParseConfig(raw) # Invalid
    BY <1>2, <2>2 DEF Reconfigure, ConfigAccepted
  <2> QED
    BY <2>1, <2>2
<1> QED
  BY <1>1, <1>2, StepsOfConfig

LEMMA AcceptedGrows ==
  ASSUME [Next]_vars
  PROVE  accepted \subseteq accepted'
<1>1. CASE UNCHANGED configuration
  BY <1>1 DEF configuration
<1>2. CASE \E raw \in Raws : Reconfigure(raw)
  BY <1>2 DEF Reconfigure, configuration
<1> QED
  BY <1>1, <1>2, StepsOfConfig

LEMMA CopyNext ==
  ASSUME ConfigAccepted, CopyAccepted, [Next]_vars
  PROVE  CopyAccepted'
<1> SUFFICES ASSUME pc' \in {"called", "sending"} PROVE CopyAccepted'
  BY DEF CopyAccepted
<1>1. ASSUME pc \in {"called", "sending"}, UNCHANGED <<request, copy>>
      PROVE  CopyAccepted'
  <2>1. PromptBytes(request.body)' = PromptBytes(request.body)
    BY <1>1 DEF PromptBytes
  <2> QED
    BY <1>1, <2>1, AcceptedGrows DEF CopyAccepted
<1>2. CASE UNCHANGED execution
  BY <1>1, <1>2 DEF execution
<1>3. CASE EnterWorkspace
  BY <1>1, <1>3 DEF EnterWorkspace
<1>4. CASE ExecuteRunAgent
  <2>1. /\ SizeCheck(request) = "ok" /\ config.enabled
        /\ copy' = config /\ request' = request /\ accepted' = accepted
    BY <1>4 DEF ExecuteRunAgent, configuration
  <2>2. /\ ~(request.bytes > config.max_request_bytes)
        /\ ~(PromptBytes(request.body) > config.max_prompt_bytes)
    BY <2>1 DEF SizeCheck
  <2>3. PromptBytes(request.body)' = PromptBytes(request.body)
    BY <2>1 DEF PromptBytes
  <2> QED
    BY <2>1, <2>2, <2>3 DEF CopyAccepted, ConfigAccepted
<1> QED
  BY <1>2, <1>3, <1>4, StepsOfCall

-----------------------------------------------------------------------------
(* The processes.                                                           *)

(* A step of a run does not end it.                                         *)
LEMMA StepKeepsRun ==
  ASSUME ProcessStep, runner # "none"
  PROVE  runner' # "none"
<1>1. CASE \E d \in Descendants : Fork(d) \/ ChildExit(d)
  BY <1>1 DEF Fork, ChildExit
<1>2. CASE WriteStdout \/ LeaderExit \/ WatchCtx
  BY <1>2 DEF WriteStdout, LeaderExit, WatchCtx
<1>3. CASE Copy \/ Reap \/ WaitReturns \/ TimeoutExpires
  BY <1>3 DEF Copy, Reap, WaitReturns, TimeoutExpires
<1>4. CASE RunAgent
  BY <1>4 DEF RunAgent, SelectDone, SelectTimeout, KillProcessGroup, GraceDone,
              GraceOver, TimesOut
<1> QED
  BY <1>1, <1>2, <1>3, <1>4 DEF ProcessStep

(* Every step of the plugin is one of the run, or leaves it alone.          *)
LEMMA StepOfProcess ==
  ASSUME CopyAccepted, ProcessInCall, [Next]_vars
  PROVE  [ProcessNext]_process /\ ProcessInCall'
<1>1. CASE Aside \/ NoRun
  BY <1>1 DEF Aside, NoRun, ProcessInCall, process, execution
<1>2. CASE AcquireSlot
  <2>1. runner = "none"
    BY <1>2 DEF AcquireSlot, ProcessInCall
  <2>2. CASE pc' = "executing" /\ Start(copy.max_stdout_bytes)
    <3>1. copy.max_stdout_bytes \in Limits
      BY <1>2, AcceptedConfig, StdoutAssumption DEF AcquireSlot, CopyAccepted, Numbers
    <3> QED
      BY <2>1, <2>2, <3>1 DEF ProcessNext, ProcessInCall, Start
  <2>3. CASE pc' = "failed" /\ UNCHANGED process
    BY <2>1, <2>3 DEF ProcessInCall, process
  <2> QED
    BY <1>2, <2>2, <2>3 DEF AcquireSlot
<1>3. CASE Running
  BY <1>3, StepKeepsRun DEF Running, ProcessInCall, ProcessNext, execution
<1>4. CASE RunAgentReturns
  BY <1>4 DEF RunAgentReturns, ProcessInCall, process
<1>5. CASE ExecuteReturns
  <2>1. pc' = "idle" /\ pc = "releasing"
    BY <1>5 DEF ExecuteReturns
  <2>2. CASE runner = "none"
    BY <1>5, <2>1, <2>2 DEF ExecuteReturns, ProcessInCall, process
  <2>3. CASE runner # "none"
    BY <1>5, <2>1, <2>3 DEF ExecuteReturns, ProcessInCall, ProcessNext, Forgotten
  <2> QED
    BY <2>2, <2>3
<1> QED
  BY <1>1, <1>2, <1>3, <1>4, <1>5, StepsOfRuns

(* The plugin, whatever the host calls, implements the specification of a   *)
(* run: no call touches the run of another, none answers before its run has *)
(* returned, and every run has an output limit that ParseConfig accepts.    *)
THEOREM PluginRunsProcesses == Spec => RunsAreProcesses
<1>1. PluginInit => ConfigAccepted /\ CopyAccepted /\ ProcessInCall /\ Init
  BY ConfigInit DEF PluginInit, Init, ProcessInCall, CopyAccepted
<1>2. ConfigAccepted /\ CopyAccepted /\ ProcessInCall /\ [Next]_vars
        => ConfigAccepted' /\ CopyAccepted' /\ ProcessInCall' /\ [ProcessNext]_process
  BY ConfigNext, CopyNext, StepOfProcess
<1> QED
  BY <1>1, <1>2, PTL DEF Spec, RunsAreProcesses, ProcessSpec

(* So what is proved of a run holds in the plugin: when a call returns its  *)
(* agent is dead, its buffers are quiet, and no output was cut unsaid.      *)
THEOREM PluginRunsAreSafe ==
  Spec => [](AgentDeadOnReturn /\ OutputQuietOnReturn /\ OutputWholeOrRefused)
BY PluginRunsProcesses, NoAgentSurvives, BuffersQuiet, NothingCutSilently, PTL
DEF RunsAreProcesses

-----------------------------------------------------------------------------
(* One configuration for a run.                                             *)

LEMMA LimitKept ==
  ASSUME ProcessInv, ProcessStep
  PROVE  stdout'.limit = stdout.limit
<1>1. CASE \E d \in Descendants : Fork(d) \/ ChildExit(d)
  BY <1>1 DEF Fork, ChildExit, output
<1>2. CASE WriteStdout \/ LeaderExit \/ WatchCtx
  BY <1>2 DEF WriteStdout, LeaderExit, WatchCtx, output
<1>3. CASE Copy
  <2>1. PICK n \in 1 .. inPipe : stdout' = LimitedWrite(stdout, n)
    BY <1>3 DEF Copy
  <2>2. stdout \in [limit : Nat, len : Nat, truncated : BOOLEAN]
    BY DEF ProcessInv, ProcessTypeOK
  <2> QED
    BY <2>1, <2>2 DEF LimitedWrite
<1>4. CASE Reap \/ WaitReturns \/ TimeoutExpires
  BY <1>4 DEF Reap, WaitReturns, TimeoutExpires, output
<1>5. CASE RunAgent
  BY <1>5 DEF RunAgent, SelectDone, SelectTimeout, KillProcessGroup, GraceDone,
              GraceOver, TimesOut, output
<1> QED
  BY <1>1, <1>2, <1>3, <1>4, <1>5 DEF ProcessStep

LEMMA OneConfigNext ==
  ASSUME CopyAccepted, ProcessInv, RunsUnderOneConfig, [Next]_vars
  PROVE  RunsUnderOneConfig'
<1> SUFFICES ASSUME pc' = "executing" PROVE RunsUnderOneConfig'
  BY DEF RunsUnderOneConfig
<1>1. ASSUME UNCHANGED <<pc, request, env>>, stdout'.limit = stdout.limit
      PROVE  RunsUnderOneConfig'
  <2>1. PromptBytes(request.body)' = PromptBytes(request.body)
    BY <1>1 DEF PromptBytes
  <2>2. /\ pc = "executing" /\ accepted \subseteq accepted'
        /\ RunsUnderOneConfig
    BY <1>1, AcceptedGrows
  <2> QED
    BY <1>1, <2>1, <2>2 DEF RunsUnderOneConfig
<1>2. CASE Aside
  BY <1>1, <1>2 DEF Aside, execution, process, output
<1>3. CASE AcquireSlot
  <2>1. /\ pc = "sending"
        /\ Start(copy.max_stdout_bytes)
        /\ env' = FilteredEnv(copy.environment_allowlist)
        /\ request' = request /\ accepted' = accepted
    BY <1>3 DEF AcquireSlot, configuration
  <2>2. PICK raw \in accepted :
          /\ ParseConfig(raw) # Invalid /\ copy = ParseConfig(raw)
          /\ copy.enabled
          /\ ~(request.bytes > copy.max_request_bytes)
          /\ ~(PromptBytes(request.body) > copy.max_prompt_bytes)
    BY <2>1 DEF CopyAccepted
  <2>3. /\ copy.enabled = Merged(raw).enabled
        /\ copy.max_request_bytes = Merged(raw).max_request_bytes
        /\ copy.max_prompt_bytes = Merged(raw).max_prompt_bytes
        /\ copy.max_stdout_bytes = Merged(raw).max_stdout_bytes
        /\ copy.environment_allowlist \subseteq ToSet(Merged(raw).environment_allowlist)
    BY <2>2, AcceptedConfig DEF Numbers
  <2>4. stdout'.limit = copy.max_stdout_bytes
    BY <2>1 DEF Start, EmptyBuffer
  <2>5. /\ DOMAIN env' \subseteq copy.environment_allowlist \cup {"CURSOR_API_KEY"}
        /\ \A n \in DOMAIN env' : Fold[n] = Fold["CURSOR_API_KEY"] => env'[n] = ""
    BY <2>1 DEF FilteredEnv
  <2>6. PromptBytes(request.body)' = PromptBytes(request.body)
    BY <2>1 DEF PromptBytes
  <2> QED
    BY <2>1, <2>2, <2>3, <2>4, <2>5, <2>6 DEF RunsUnderOneConfig
<1>4. CASE Running
  BY <1>1, <1>4, LimitKept DEF Running, execution
<1>5. CASE NoRun \/ RunAgentReturns \/ ExecuteReturns
  BY <1>5 DEF NoRun, RunAgentReturns, ExecuteReturns
<1> QED
  BY <1>2, <1>3, <1>4, <1>5, StepsOfRuns

(* However often the host reconfigures, from the resolution of the model to *)
(* the start of the agent and while it runs, the agent runs under one       *)
(* configuration that was accepted, in which the plugin is enabled and the  *)
(* request is not too large; and whatever the allowlist, its spelling of    *)
(* names and the environment of the host, it does not get the API key.      *)
THEOREM OneConfigPerRun == Spec => []RunsUnderOneConfig
<1>1. PluginInit => ConfigAccepted /\ CopyAccepted /\ RunsUnderOneConfig
  BY ConfigInit DEF PluginInit, CopyAccepted, RunsUnderOneConfig
<1>2. ConfigAccepted /\ CopyAccepted /\ ProcessInv /\ RunsUnderOneConfig /\ [Next]_vars
        => ConfigAccepted' /\ CopyAccepted' /\ RunsUnderOneConfig'
  BY ConfigNext, CopyNext, OneConfigNext
<1>3. Spec => []ProcessInv
  BY PluginRunsProcesses, ProcessInvariant, PTL DEF RunsAreProcesses
<1> QED
  BY <1>1, <1>2, <1>3, PTL DEF Spec

-----------------------------------------------------------------------------
(* The usage counters.                                                      *)

(* Every record counted has a time, and an entry of its model.              *)
LogTypeOK ==
  /\ log \in Seq(UsageRecord)
  /\ usageStarted \in Nat
  /\ \A i \in DOMAIN log : /\ log[i].requestedAt # 0
                            /\ ModelOf(log[i]) \in DOMAIN usageByModel

WindowInv == LogTypeOK /\ WindowCoversUse

LEMMA RecordKeepsWindow ==
  ASSUME WindowInv, NEW record \in Records, NEW now \in Clock,
         UsageHandle(record, now)
  PROVE  WindowInv'
<1>1. CASE ~Counts(record)
  BY <1>1
  DEF UsageHandle, RecordUsage, usage, WindowInv, LogTypeOK, WindowCoversUse
<1>2. CASE Counts(record)
  <2> DEFINE at == UsedAt(record, now)
             m == ModelOf(record)
             rec == [record EXCEPT !.requestedAt = at]
             n == Len(log) + 1
             was == Entry(m).lastUsed
  <2>1. record \in UsageRecord /\ now \in Nat \ {0}
    BY RecordsAssumption, ClockAssumption
  <2>2. at \in Nat /\ at # 0
    BY <2>1 DEF UsedAt, UsageRecord
  <2>3. rec \in UsageRecord /\ rec.requestedAt = at /\ ModelOf(rec) = m
    BY <2>1, <2>2 DEF UsageRecord, ModelOf
  <2>4. /\ log' = Append(log, rec)
        /\ usageStarted' = Earliest(at)
        /\ usageByModel' = [x \in DOMAIN usageByModel \cup {m} |->
             IF x = m THEN AddTo(Entry(m), record, at) ELSE usageByModel[x]]
    BY <1>2 DEF UsageHandle, RecordUsage
  <2>5. log \in Seq(UsageRecord) /\ usageStarted \in Nat
    BY DEF WindowInv, LogTypeOK
  <2> HIDE DEF at, m, rec
  <2>6. /\ log' \in Seq(UsageRecord)
        /\ DOMAIN log' = DOMAIN log \cup {n}
        /\ log'[n] = rec /\ \A i \in DOMAIN log : log'[i] = log[i]
    BY <2>3, <2>4, <2>5
  <2>7. \A i \in DOMAIN log : log[i].requestedAt \in Nat /\ log[i].requestedAt # 0
    <3>1. \A i \in DOMAIN log : log[i] \in UsageRecord
      BY <2>5
    <3>2. \A i \in DOMAIN log : log[i].requestedAt # 0
      BY DEF WindowInv, LogTypeOK
    <3> QED
      BY <3>1, <3>2 DEF UsageRecord
  <2>8. \A x \in DOMAIN usageByModel : usageByModel[x].lastUsed \in Nat
    BY <2>7 DEF WindowInv, WindowCoversUse
  <2>9. /\ DOMAIN usageByModel' = DOMAIN usageByModel \cup {m}
        /\ \A x \in DOMAIN usageByModel : x # m => usageByModel'[x] = usageByModel[x]
        /\ usageByModel'[m].lastUsed = IF was = 0 \/ at > was THEN at ELSE was
    BY <2>4 DEF AddTo
  <2>10. /\ was \in Nat
         /\ m \in DOMAIN usageByModel => was = usageByModel[m].lastUsed
         /\ m \notin DOMAIN usageByModel => was = 0
    BY <2>8 DEF Entry, NewEntry
  <2>11. /\ usageStarted' \in Nat /\ usageStarted' # 0 /\ usageStarted' <= at
         /\ usageStarted # 0 => usageStarted' <= usageStarted
         /\ usageStarted' \in {at, usageStarted}
    BY <2>2, <2>4, <2>5 DEF Earliest
  <2>12. LogTypeOK'
    <3>1. \A i \in DOMAIN log : ModelOf(log[i]) \in DOMAIN usageByModel
      BY DEF WindowInv, LogTypeOK
    <3>2. \A i \in DOMAIN log' : /\ log'[i].requestedAt # 0
                                 /\ ModelOf(log'[i]) \in DOMAIN usageByModel'
      BY <2>2, <2>3, <2>6, <2>7, <2>9, <3>1
    <3> QED
      BY <2>6, <2>11, <3>2 DEF LogTypeOK, ModelOf
  <2>13. log' # <<>> /\ usageStarted' # 0
    BY <2>6, <2>11
  <2>14. \A i \in DOMAIN log' :
           /\ usageStarted' <= log'[i].requestedAt
           /\ log'[i].requestedAt <= usageByModel'[ModelOf(log'[i])].lastUsed
    <3>1. ASSUME NEW i \in DOMAIN log
          PROVE  /\ usageStarted' <= log[i].requestedAt
                 /\ log[i].requestedAt <= usageByModel'[ModelOf(log[i])].lastUsed
      <4>1. /\ usageStarted <= log[i].requestedAt /\ usageStarted # 0
            /\ log[i].requestedAt <= usageByModel[ModelOf(log[i])].lastUsed
            /\ ModelOf(log[i]) \in DOMAIN usageByModel
        BY DEF WindowInv, WindowCoversUse, LogTypeOK
      <4>2. usageStarted' <= log[i].requestedAt
        BY <2>5, <2>7, <2>11, <4>1
      <4>3. CASE ModelOf(log[i]) = m
        BY <2>2, <2>7, <2>9, <2>10, <4>1, <4>2, <4>3
      <4>4. CASE ModelOf(log[i]) # m
        BY <2>9, <4>1, <4>2, <4>4
      <4> QED
        BY <4>3, <4>4
    <3>2. usageStarted' <= at /\ at <= usageByModel'[m].lastUsed
      BY <2>2, <2>9, <2>10, <2>11
    <3> QED
      BY <2>3, <2>6, <3>1, <3>2
  <2>15. \E i \in DOMAIN log' : log'[i].requestedAt = usageStarted'
    <3>1. CASE usageStarted' = at
      BY <2>3, <2>6, <3>1
    <3>2. CASE usageStarted' = usageStarted
      <4>1. PICK i \in DOMAIN log : log[i].requestedAt = usageStarted
        BY <2>11, <3>2 DEF WindowInv, WindowCoversUse
      <4> QED
        BY <2>6, <3>2, <4>1
    <3> QED
      BY <2>11, <3>1, <3>2
  <2>16. ASSUME NEW x \in DOMAIN usageByModel'
         PROVE  \E i \in DOMAIN log' :
                  /\ ModelOf(log'[i]) = x
                  /\ log'[i].requestedAt = usageByModel'[x].lastUsed
    <3>1. CASE x = m /\ usageByModel'[m].lastUsed = at
      BY <2>3, <2>6, <3>1
    <3>2. CASE x \in DOMAIN usageByModel /\ usageByModel'[x].lastUsed = usageByModel[x].lastUsed
      <4>1. PICK i \in DOMAIN log : /\ ModelOf(log[i]) = x
                                    /\ log[i].requestedAt = usageByModel[x].lastUsed
        BY <3>2 DEF WindowInv, WindowCoversUse
      <4> QED
        BY <2>6, <3>2, <4>1
    <3> QED
      BY <2>9, <2>10, <3>1, <3>2
  <2>17. WindowCoversUse'
    BY <2>13, <2>14, <2>15, <2>16 DEF WindowCoversUse, ModelOf
  <2> QED
    BY <2>12, <2>17 DEF WindowInv
<1> QED
  BY <1>1, <1>2

LEMMA WindowNext == WindowInv /\ [Next]_vars => WindowInv'
<1> SUFFICES ASSUME WindowInv, [Next]_vars PROVE WindowInv'
  OBVIOUS
<1>1. CASE UNCHANGED <<usage, log>>
  BY <1>1 DEF usage, WindowInv, LogTypeOK, WindowCoversUse
<1>2. CASE Shutdown
  BY <1>2 DEF Shutdown, ResetUsage, WindowInv, LogTypeOK, WindowCoversUse
<1> QED
  BY <1>1, <1>2, RecordKeepsWindow, StepsOfUsage

(* In whatever order records arrive, and after any number of shutdowns, the *)
(* observed time begins with the earliest request counted since, and each   *)
(* model's last use is its latest.                                          *)
THEOREM WindowAlwaysCovers == Spec => []WindowCoversUse
<1>1. PluginInit => WindowInv
  BY DEF PluginInit, InitUsage, WindowInv, LogTypeOK, WindowCoversUse
<1>2. WindowInv => WindowCoversUse
  BY DEF WindowInv
<1> QED
  BY <1>1, <1>2, WindowNext, PTL DEF Spec

LEMMA RecordCounted ==
  ASSUME LogTypeOK, EachCountedOnce, NEW record \in Records, NEW now \in Clock,
         UsageHandle(record, now)
  PROVE  EachCountedOnce'
<1>1. CASE ~Counts(record)
  BY <1>1 DEF UsageHandle, RecordUsage, usage, EachCountedOnce, ModelOf
<1>2. CASE Counts(record)
  <2> DEFINE at == UsedAt(record, now)
             m == ModelOf(record)
             rec == [record EXCEPT !.requestedAt = at]
             n == Len(log) + 1
             Of(x) == {i \in DOMAIN log : ModelOf(log[i]) = x}
             Failed(x) == {i \in Of(x) : log[i].failed}
             NewOf(x) == {i \in DOMAIN log' : ModelOf(log'[i]) = x}
             NewFailed(x) == {i \in NewOf(x) : log'[i].failed}
  <2>1. record \in UsageRecord
    BY RecordsAssumption
  <2>2. rec.failed = record.failed /\ ModelOf(rec) = m /\ record.failed \in BOOLEAN
    BY <2>1 DEF UsageRecord, ModelOf
  <2>3. /\ log' = Append(log, rec)
        /\ usageByModel' = [x \in DOMAIN usageByModel \cup {m} |->
             IF x = m THEN AddTo(Entry(m), record, at) ELSE usageByModel[x]]
    BY <1>2 DEF UsageHandle, RecordUsage
  <2> HIDE DEF at, m, rec
  <2>4. /\ DOMAIN log = 1 .. Len(log) /\ n \notin DOMAIN log
        /\ DOMAIN log' = DOMAIN log \cup {n}
        /\ log'[n] = rec /\ \A i \in DOMAIN log : log'[i] = log[i]
    BY <2>3 DEF LogTypeOK
  <2>5. \A x : IsFiniteSet(Of(x)) /\ IsFiniteSet(Failed(x))
    <3>1. IsFiniteSet(DOMAIN log)
      BY <2>4, FS_Interval DEF LogTypeOK
    <3> QED
      BY <3>1, FS_Subset
  <2>6. /\ NewOf(m) = Of(m) \cup {n}
        /\ NewFailed(m) = IF record.failed THEN Failed(m) \cup {n} ELSE Failed(m)
        /\ \A x : x # m => NewOf(x) = Of(x) /\ NewFailed(x) = Failed(x)
    BY <2>2, <2>4
  <2>7. /\ Cardinality(NewOf(m)) = Cardinality(Of(m)) + 1
        /\ Cardinality(NewFailed(m))
             = Cardinality(Failed(m)) + IF record.failed THEN 1 ELSE 0
    <3>1. n \notin Of(m) /\ n \notin Failed(m)
      BY <2>4
    <3>2. Cardinality(Failed(m)) \in Nat
      BY <2>5, FS_CardinalityType
    <3>3. /\ Cardinality(Of(m) \cup {n}) = Cardinality(Of(m)) + 1
          /\ Cardinality(Failed(m) \cup {n}) = Cardinality(Failed(m)) + 1
      <4> HIDE DEF Of, Failed, n
      <4> QED
        BY <2>5, <3>1, FS_AddElement
    <3> HIDE DEF Of, Failed, NewOf, NewFailed, n
    <3>4. CASE record.failed
      BY <2>6, <3>3, <3>4
    <3>5. CASE ~record.failed
      BY <2>6, <3>2, <3>3, <3>5
    <3> QED
      BY <3>4, <3>5
  <2>8. /\ Entry(m).requests = Cardinality(Of(m))
        /\ Entry(m).failures = Cardinality(Failed(m))
    <3>1. CASE m \in DOMAIN usageByModel
      BY <3>1 DEF Entry, EachCountedOnce
    <3>2. CASE m \notin DOMAIN usageByModel
      <4>1. Of(m) = {} /\ Failed(m) = {}
        BY <3>2 DEF EachCountedOnce
      <4> QED
        BY <3>2, <4>1, FS_EmptySet DEF Entry, NewEntry
    <3> QED
      BY <3>1, <3>2
  <2>9. /\ DOMAIN usageByModel' = DOMAIN usageByModel \cup {m}
        /\ usageByModel'[m].requests = Entry(m).requests + 1
        /\ usageByModel'[m].failures
             = Entry(m).failures + IF record.failed THEN 1 ELSE 0
        /\ \A x \in DOMAIN usageByModel : x # m => usageByModel'[x] = usageByModel[x]
    BY <2>3 DEF AddTo
  <2>10. \A i \in DOMAIN log' : ModelOf(log'[i]) \in DOMAIN usageByModel'
    BY <2>2, <2>4, <2>9 DEF EachCountedOnce
  <2>11. ASSUME NEW x \in DOMAIN usageByModel'
         PROVE  /\ usageByModel'[x].requests = Cardinality(NewOf(x))
                /\ usageByModel'[x].failures = Cardinality(NewFailed(x))
    <3>1. CASE x = m
      BY <2>7, <2>8, <2>9, <3>1
    <3>2. CASE x # m
      <4>1. /\ x \in DOMAIN usageByModel
            /\ usageByModel[x].requests = Cardinality(Of(x))
            /\ usageByModel[x].failures = Cardinality(Failed(x))
        BY <2>9, <3>2 DEF EachCountedOnce
      <4> QED
        BY <2>6, <2>9, <3>2, <4>1
    <3> QED
      BY <3>1, <3>2
  <2> QED
    BY <2>10, <2>11 DEF EachCountedOnce, ModelOf
<1> QED
  BY <1>1, <1>2

(* In whatever order records arrive, each is counted exactly once, in the   *)
(* entry of its model.                                                      *)
THEOREM RecordsCountedOnce == Spec => []EachCountedOnce
<1>1. PluginInit => WindowInv /\ EachCountedOnce
  BY DEF PluginInit, InitUsage, WindowInv, LogTypeOK, WindowCoversUse, EachCountedOnce
<1>2. WindowInv /\ EachCountedOnce /\ [Next]_vars => WindowInv' /\ EachCountedOnce'
  <2> SUFFICES ASSUME WindowInv, EachCountedOnce, [Next]_vars
               PROVE  WindowInv' /\ EachCountedOnce'
    OBVIOUS
  <2>1. WindowInv'
    BY WindowNext
  <2>2. CASE UNCHANGED <<usage, log>>
    BY <2>1, <2>2 DEF usage, EachCountedOnce, ModelOf
  <2>3. CASE Shutdown
    BY <2>1, <2>3 DEF Shutdown, ResetUsage, EachCountedOnce
  <2>4. ASSUME NEW record \in Records, NEW now \in Clock, UsageHandle(record, now)
        PROVE  EachCountedOnce'
    BY <2>4, RecordCounted DEF WindowInv
  <2> QED
    BY <2>1, <2>2, <2>3, <2>4, StepsOfUsage
<1> QED
  BY <1>1, <1>2, PTL DEF Spec

-----------------------------------------------------------------------------
(* The totals.                                                              *)

(* One summand is added, or replaced.                                       *)
OneRow(A, m, f, g) ==
  /\ IsFiniteSet(A)
  /\ f \in [A -> Int] /\ g \in [A \cup {m} -> Int]
  /\ \A x \in A \ {m} : g[x] = f[x]

LEMMA SumRow ==
  ASSUME NEW A, NEW m, NEW f, NEW g, OneRow(A, m, f, g)
  PROVE  /\ SumFunction(f) \in Int /\ SumFunction(g) \in Int
         /\ SumFunction(g) = SumFunction(f) + (g[m] - IF m \in A THEN f[m] ELSE 0)
<1>0. /\ IsFiniteSet(A)
      /\ f \in [A -> Int] /\ g \in [A \cup {m} -> Int]
      /\ \A x \in A \ {m} : g[x] = f[x]
  BY DEF OneRow
<1> DEFINE B == A \cup {m}
           C == A \ {m}
           rest == SumFunctionOnSet(f, C)
<1>1. IsFiniteSet(B) /\ IsFiniteSet(C)
  BY <1>0, FS_AddElement, FS_Subset
<1>2. /\ SumFunction(f) = SumFunctionOnSet(f, A) /\ SumFunction(g) = SumFunctionOnSet(g, B)
      /\ \A x \in A : f[x] \in Int
      /\ \A x \in B : g[x] \in Int
  BY <1>0 DEF SumFunction
<1>3. SumFunctionOnSet(f, A) \in Int /\ rest \in Int /\ SumFunctionOnSet(g, B) \in Int
  <2>1. \A x \in C : f[x] \in Int
    BY <1>0
  <2> HIDE DEF B, C
  <2> QED
    BY <1>0, <1>1, <1>2, <2>1, SumTakes
<1>4. SumFunctionOnSet(g, B) = g[m] + SumFunctionOnSet(g, C)
  <2>1. B \ {m} = C /\ m \in B
    OBVIOUS
  <2> HIDE DEF B, C
  <2> QED
    BY <1>1, <1>2, <2>1, SumTakes
<1>5. SumFunctionOnSet(g, C) = rest
  <2>1. \A x \in C : f[x] \in Int /\ g[x] = f[x]
    BY <1>0
  <2> HIDE DEF C
  <2> QED
    BY <1>1, <2>1, SumSame
<1>6. SumFunctionOnSet(f, A) = (IF m \in A THEN f[m] ELSE 0) + rest
  <2>1. CASE m \in A
    <3>1. SumFunctionOnSet(f, A) = f[m] + SumFunctionOnSet(f, A \ {m})
      BY <1>0, <1>2, <2>1, SumTakes
    <3> QED
      BY <2>1, <3>1
  <2>2. CASE m \notin A
    <3>1. C = A
      BY <2>2
    <3>2. rest = 0 + rest
      BY <1>3
    <3> QED
      BY <2>2, <3>1, <3>2
  <2> QED
    BY <2>1, <2>2
<1>7. g[m] \in Int /\ (m \in A => f[m] \in Int)
  BY <1>2
<1> HIDE DEF rest, B, C
<1> QED
  BY <1>2, <1>3, <1>4, <1>5, <1>6, <1>7

LEMMA SumOfThree ==
  ASSUME NEW f \in [Kinds -> Int], NEW a \in Kinds, NEW b \in Kinds, NEW c \in Kinds,
         a # b, a # c, b # c
  PROVE  SumFunctionOnSet(f, {a, b, c}) = f[a] + f[b] + f[c]
<1> DEFINE S == {a, b, c}
<1>0. f[a] \in Int /\ f[b] \in Int /\ f[c] \in Int
  OBVIOUS
<1>1. /\ IsFiniteSet(S) /\ IsFiniteSet({b, c}) /\ IsFiniteSet({c})
      /\ S \ {a} = {b, c} /\ {b, c} \ {b} = {c} /\ {c} \ {c} = {}
  <2>1. IsFiniteSet({c})
    BY FS_Singleton
  <2>2. {b, c} = {c} \cup {b} /\ S = {b, c} \cup {a}
    OBVIOUS
  <2>3. IsFiniteSet({b, c})
    BY <2>1, <2>2, FS_AddElement
  <2>4. IsFiniteSet(S)
    BY <2>2, <2>3, FS_AddElement
  <2> QED
    BY <2>1, <2>3, <2>4
<1>2. SumFunctionOnSet(f, S) = f[a] + SumFunctionOnSet(f, {b, c})
  BY <1>0, <1>1, SumTakes
<1>3. SumFunctionOnSet(f, {b, c}) = f[b] + SumFunctionOnSet(f, {c})
  BY <1>0, <1>1, SumTakes
<1>4. SumFunctionOnSet(f, {c}) = f[c] + SumFunctionOnSet(f, {})
  BY <1>0, <1>1, SumTakes
<1>5. SumFunctionOnSet(f, {}) = 0
  BY <1>0, <1>1, SumTakes
<1> QED
  BY <1>0, <1>2, <1>3, <1>4, <1>5

(* What a record is to add to the total of its tokens.                      *)
Total(d) ==
  LET spoken == Wrap(d.input + d.output + d.reasoning) IN
  CASE d.total > 0 -> d.total
    [] d.total <= 0 /\ spoken > 0 -> spoken
    [] OTHER -> d.cacheRead + d.cacheCreation + d.cached

Owed(d, k) == IF k = "total" THEN Total(d) ELSE d[k]

LEMMA AddedIsOwed ==
  ASSUME NEW d \in [Kinds -> Int], NEW k \in Kinds
  PROVE  /\ Added(d)[k] \in Int /\ Owed(d, k) \in Int
         /\ Wrap(Added(d)[k]) = Wrap(Owed(d, k))
<1>1. CASE k # "total"
  BY <1>1 DEF Added, Owed
<1>2. CASE k = "total"
  <2> DEFINE spoken == d.input + d.output + d.reasoning
             cache == d.cacheRead + d.cacheCreation + d.cached
  <2>1. /\ d.input \in Int /\ d.output \in Int /\ d.reasoning \in Int
        /\ d.cacheRead \in Int /\ d.cacheCreation \in Int /\ d.cached \in Int
        /\ d.total \in Int
    BY DEF Kinds
  <2>2. spoken \in Int /\ cache \in Int
    BY <2>1
  <2>3. /\ SumOf(d, {"input", "output", "reasoning"}) = Wrap(spoken)
        /\ SumOf(d, {"cacheRead", "cacheCreation", "cached"}) = Wrap(cache)
    <3>2. /\ "input" \in Kinds /\ "output" \in Kinds /\ "reasoning" \in Kinds
          /\ "cacheRead" \in Kinds /\ "cacheCreation" \in Kinds /\ "cached" \in Kinds
      BY DEF Kinds
    <3>3. /\ SumFunctionOnSet(d, {"input", "output", "reasoning"}) = spoken
          /\ SumFunctionOnSet(d, {"cacheRead", "cacheCreation", "cached"}) = cache
      BY <3>2, SumOfThree
    <3> QED
      BY <3>3 DEF SumOf
  <2> HIDE DEF spoken, cache
  <2>4. /\ Wrap(spoken) \in Int /\ Wrap(cache) \in Int
        /\ Wrap(Wrap(cache)) = Wrap(cache)
    <3>1. Wrap(spoken) \in Int /\ Wrap(cache) \in Int
      BY <2>2, WrapShifts
    <3>2. Wrap(Wrap(cache) + 0) = Wrap(cache + 0)
      BY <2>2, WrapSum
    <3> QED
      BY <2>2, <3>1, <3>2
  <2>5. Added(d)[k] = NormalizedTotalTokens(d)
    BY <1>2 DEF Added
  <2>6. NormalizedTotalTokens(d) = IF d.total > 0 THEN d.total
                                   ELSE IF Wrap(spoken) > 0 THEN Wrap(spoken)
                                   ELSE Wrap(cache)
    BY <2>3 DEF NormalizedTotalTokens
  <2>7. Owed(d, k) = IF d.total > 0 THEN d.total
                     ELSE IF Wrap(spoken) > 0 THEN Wrap(spoken) ELSE cache
    BY <1>2, <2>1, <2>4 DEF Owed, Total, spoken, cache
  <2> QED
    BY <2>1, <2>2, <2>4, <2>5, <2>6, <2>7
<1> QED
  BY <1>1, <1>2

(* The columns of the snapshot, and what the records owe to them.           *)
RequestColumn(u) == [m \in DOMAIN u |-> u[m].requests]
FailureColumn(u) == [m \in DOMAIN u |-> u[m].failures]
TokenColumn(u, k) == [m \in DOMAIN u |-> u[m].tokens[k]]
OwedColumn(l, k) == [i \in DOMAIN l |-> Owed(l[i].detail, k)]

AddsUp(u, l) ==
  /\ SumFunction(RequestColumn(u)) = Len(l)
  /\ SumFunction(FailureColumn(u)) = Cardinality({i \in DOMAIN l : l[i].failed})
  /\ \A k \in Kinds :
       Wrap(SumFunction(TokenColumn(u, k))) = Wrap(SumFunction(OwedColumn(l, k)))

EntriesOK(u) ==
  /\ IsFiniteSet(DOMAIN u)
  /\ \A m \in DOMAIN u : /\ u[m].requests \in Int
                         /\ u[m].failures \in Int
                         /\ \A k \in Kinds : u[m].tokens[k] \in Int

LEMMA MatchesIsAddsUp == AddsUp(usageByModel, log) => UsageMatchesRecords
<1> SUFFICES ASSUME AddsUp(usageByModel, log) PROVE UsageMatchesRecords
  OBVIOUS
<1>1. /\ GatewayUsage.requests = SumFunction(RequestColumn(usageByModel))
      /\ GatewayUsage.failures = SumFunction(FailureColumn(usageByModel))
      /\ \A k \in Kinds :
           GatewayUsage.totals[k] = Wrap(SumFunction(TokenColumn(usageByModel, k)))
  BY DEF GatewayUsage, RequestColumn, FailureColumn, TokenColumn
<1>2. /\ \A k \in Kinds \ {"total"} :
           OwedColumn(log, k) = [i \in DOMAIN log |-> log[i].detail[k]]
      /\ OwedColumn(log, "total") = [i \in DOMAIN log |-> Total(log[i].detail)]
  BY DEF OwedColumn, Owed
<1>3. "total" \in Kinds
  BY DEF Kinds
<1>4. GatewayUsage.totals["total"]
        = Wrap(SumFunction([i \in DOMAIN log |-> Total(log[i].detail)]))
  BY <1>1, <1>2, <1>3 DEF AddsUp
<1>5. \A k \in Kinds \ {"total"} :
        GatewayUsage.totals[k] = Wrap(SumFunction([i \in DOMAIN log |-> log[i].detail[k]]))
  BY <1>1, <1>2 DEF AddsUp
<1>6. /\ GatewayUsage.requests = Len(log)
      /\ GatewayUsage.failures = Cardinality({i \in DOMAIN log : log[i].failed})
  BY <1>1 DEF AddsUp
<1> QED
  BY <1>4, <1>5, <1>6 DEF UsageMatchesRecords, Total

(* The entries v are u with one record added, under the model m.            *)
OneMore(u, v, m, record, at) ==
  v = [x \in DOMAIN u \cup {m} |->
         IF x = m
         THEN AddTo(IF m \in DOMAIN u THEN u[m] ELSE NewEntry, record, at)
         ELSE u[x]]

LEMMA OneRecordAdded ==
  ASSUME NEW u, NEW v, NEW m, NEW record, NEW at, OneMore(u, v, m, record, at),
         record \in UsageRecord, EntriesOK(u),
         NEW l \in Seq(UsageRecord), AddsUp(u, l)
  PROVE  /\ EntriesOK(v)
         /\ \A r \in UsageRecord :
              r.detail = record.detail /\ r.failed = record.failed
                => AddsUp(v, Append(l, r))
<1> DEFINE entry == IF m \in DOMAIN u THEN u[m] ELSE NewEntry
<1>1. /\ entry.requests \in Int /\ entry.failures \in Int
      /\ \A k \in Kinds : entry.tokens[k] \in Int
      /\ m \notin DOMAIN u => /\ entry.requests = 0 /\ entry.failures = 0
                              /\ \A k \in Kinds : entry.tokens[k] = 0
  BY DEF EntriesOK, NewEntry
<1>2. record.detail \in [Kinds -> Int] /\ record.failed \in BOOLEAN
  BY DEF UsageRecord
<1> DEFINE A == DOMAIN u
           one == IF record.failed THEN 1 ELSE 0
<1>3. /\ DOMAIN v = A \cup {m}
      /\ \A x \in A \ {m} : v[x] = u[x]
      /\ v[m].requests = entry.requests + 1
      /\ v[m].failures = entry.failures + one
      /\ \A k \in Kinds : v[m].tokens[k]
                            = Wrap(entry.tokens[k] + Added(record.detail)[k])
  BY DEF AddTo, OneMore
<1> HIDE DEF entry
<1>4. \A k \in Kinds : /\ Added(record.detail)[k] \in Int /\ Owed(record.detail, k) \in Int
                       /\ Wrap(Added(record.detail)[k]) = Wrap(Owed(record.detail, k))
  BY <1>2, AddedIsOwed
<1>5. /\ v[m].requests \in Int /\ v[m].failures \in Int
      /\ \A k \in Kinds : v[m].tokens[k] \in Int
  <2>1. \A k \in Kinds : v[m].tokens[k] \in Int
    <3> TAKE k \in Kinds
    <3>1. entry.tokens[k] + Added(record.detail)[k] \in Int
      BY <1>1, <1>4
    <3> QED
      BY <1>3, <3>1, WrapShifts
  <2> QED
    BY <1>1, <1>2, <1>3, <2>1
<1>6. EntriesOK(v)
  <2>1. IsFiniteSet(DOMAIN v)
    BY <1>3, FS_AddElement DEF EntriesOK
  <2> QED
    BY <1>3, <1>5, <2>1 DEF EntriesOK
<1> HIDE DEF one
<1>7. /\ SumFunction(RequestColumn(v)) = SumFunction(RequestColumn(u)) + 1
      /\ SumFunction(FailureColumn(v)) = SumFunction(FailureColumn(u)) + one
      /\ SumFunction(RequestColumn(u)) \in Int /\ SumFunction(FailureColumn(u)) \in Int
  <2> DEFINE f == RequestColumn(u)
             g == RequestColumn(v)
             h == FailureColumn(u)
             j == FailureColumn(v)
  <2>1. /\ f \in [A -> Int] /\ g \in [A \cup {m} -> Int]
        /\ h \in [A -> Int] /\ j \in [A \cup {m} -> Int]
        /\ \A x \in A \ {m} : g[x] = f[x] /\ j[x] = h[x]
        /\ m \in A => f[m] = entry.requests /\ h[m] = entry.failures
        /\ g[m] = v[m].requests /\ j[m] = v[m].failures
        /\ IsFiniteSet(A)
    BY <1>3, <1>6 DEF entry, EntriesOK, RequestColumn, FailureColumn
  <2> HIDE DEF f, g, h, j, A
  <2>2. /\ SumFunction(f) \in Int
        /\ SumFunction(g) = SumFunction(f) + (g[m] - IF m \in A THEN f[m] ELSE 0)
    <3>1. OneRow(A, m, f, g)
      BY <2>1 DEF OneRow
    <3> QED
      BY <3>1, SumRow
  <2>3. /\ SumFunction(h) \in Int
        /\ SumFunction(j) = SumFunction(h) + (j[m] - IF m \in A THEN h[m] ELSE 0)
    <3>1. OneRow(A, m, h, j)
      BY <2>1 DEF OneRow
    <3> QED
      BY <3>1, SumRow
  <2>4. m \notin A => entry.requests = 0 /\ entry.failures = 0
    BY <1>1 DEF A
  <2>5. SumFunction(g) = SumFunction(f) + 1
    BY <1>1, <1>3, <2>1, <2>2, <2>4
  <2>6. one \in Int
    BY DEF one
  <2>7. SumFunction(j) = SumFunction(h) + one
    BY <1>1, <1>3, <2>1, <2>3, <2>4, <2>6
  <2> QED
    BY <2>2, <2>3, <2>5, <2>7 DEF f, g, h, j
<1>8. ASSUME NEW k \in Kinds
      PROVE  /\ SumFunction(TokenColumn(u, k)) \in Int
             /\ Wrap(SumFunction(TokenColumn(v, k)))
                  = Wrap(SumFunction(TokenColumn(u, k)) + Owed(record.detail, k))
  <2> DEFINE f == TokenColumn(u, k)
             g == TokenColumn(v, k)
             a == Added(record.detail)[k]
             o == Owed(record.detail, k)
             e == entry.tokens[k]
  <2>1. /\ f \in [A -> Int] /\ g \in [A \cup {m} -> Int]
        /\ \A x \in A \ {m} : g[x] = f[x]
        /\ m \in A => f[m] = e
        /\ g[m] = Wrap(e + a)
        /\ IsFiniteSet(A)
    BY <1>3, <1>6 DEF entry, EntriesOK, TokenColumn
  <2>2. /\ a \in Int /\ o \in Int /\ Wrap(a) = Wrap(o) /\ e \in Int
        /\ m \notin A => e = 0
    BY <1>1, <1>4
  <2> HIDE DEF f, g, A, a, o, e
  <2>3. /\ SumFunction(f) \in Int
        /\ SumFunction(g) = SumFunction(f) + (g[m] - IF m \in A THEN f[m] ELSE 0)
    <3>1. OneRow(A, m, f, g)
      BY <2>1 DEF OneRow
    <3> QED
      BY <3>1, SumRow
  <2>4. Wrap(e + a) \in Int
    BY <2>2, WrapShifts
  <2>5. SumFunction(g) = Wrap(e + a) + (SumFunction(f) - e)
    BY <2>1, <2>2, <2>3, <2>4
  <2>6. Wrap(Wrap(e + a) + (SumFunction(f) - e)) = Wrap((e + a) + (SumFunction(f) - e))
    BY <2>2, <2>3, WrapSum
  <2>7. (e + a) + (SumFunction(f) - e) = a + SumFunction(f)
    BY <2>2, <2>3
  <2>8. Wrap(a + SumFunction(f)) = Wrap(o + SumFunction(f))
    BY <2>2, <2>3, WrapCongruent
  <2>9. o + SumFunction(f) = SumFunction(f) + o
    BY <2>2, <2>3
  <2> QED
    BY <2>3, <2>5, <2>6, <2>7, <2>8, <2>9 DEF f, g, o
<1>9. ASSUME NEW r \in UsageRecord, r.detail = record.detail, r.failed = record.failed
      PROVE  AddsUp(v, Append(l, r))
  <2> DEFINE n == Len(l) + 1
             new == Append(l, r)
             F(s) == {i \in DOMAIN s : s[i].failed}
  <2>1. /\ Len(new) = Len(l) + 1 /\ DOMAIN new = DOMAIN l \cup {n} /\ n \notin DOMAIN l
        /\ new[n] = r /\ \A i \in DOMAIN l : new[i] = l[i]
        /\ DOMAIN l = 1 .. Len(l) /\ Len(l) \in Nat
    OBVIOUS
  <2>2. IsFiniteSet(DOMAIN l)
    BY <2>1, FS_Interval
  <2> HIDE DEF n, new
  <2>3. Cardinality(F(new)) = Cardinality(F(l)) + one
    <3>1. IsFiniteSet(F(l)) /\ n \notin F(l)
      BY <2>1, <2>2, FS_Subset
    <3>2. F(new) = IF record.failed THEN F(l) \cup {n} ELSE F(l)
      BY <1>9, <2>1
    <3>3. Cardinality(F(l)) \in Nat
      BY <3>1, FS_CardinalityType
    <3> HIDE DEF F
    <3>4. Cardinality(F(l) \cup {n}) = Cardinality(F(l)) + 1
      BY <3>1, FS_AddElement
    <3>5. CASE record.failed
      BY <3>2, <3>4, <3>5 DEF one
    <3>6. CASE ~record.failed
      BY <3>2, <3>3, <3>6 DEF one
    <3> QED
      BY <3>5, <3>6
  <2>4. ASSUME NEW k \in Kinds
        PROVE  Wrap(SumFunction(TokenColumn(v, k))) = Wrap(SumFunction(OwedColumn(new, k)))
    <3> DEFINE f == OwedColumn(l, k)
               g == OwedColumn(new, k)
               B == DOMAIN l
    <3>1. \A i \in DOMAIN l : Owed(l[i].detail, k) \in Int
      <4>1. \A i \in DOMAIN l : l[i].detail \in [Kinds -> Int]
        <5>1. \A i \in DOMAIN l : l[i] \in UsageRecord
          OBVIOUS
        <5> QED
          BY <5>1 DEF UsageRecord
      <4> QED
        BY <4>1, AddedIsOwed
    <3>2. /\ f \in [B -> Int] /\ g \in [B \cup {n} -> Int]
          /\ \A x \in B \ {n} : g[x] = f[x]
          /\ g[n] = Owed(record.detail, k) /\ n \notin B
      BY <1>4, <1>9, <2>1, <3>1 DEF OwedColumn
    <3> HIDE DEF f, g, B
    <3>3. /\ SumFunction(f) \in Int
          /\ SumFunction(g) = SumFunction(f) + (g[n] - IF n \in B THEN f[n] ELSE 0)
      <4>1. OneRow(B, n, f, g)
        BY <2>2, <3>2 DEF OneRow, B
      <4> QED
        BY <4>1, SumRow
    <3>4. SumFunction(g) = SumFunction(f) + Owed(record.detail, k)
      BY <1>4, <3>2, <3>3
    <3>5. Wrap(SumFunction(TokenColumn(u, k))) = Wrap(SumFunction(f))
      BY DEF AddsUp, f
    <3>6. Wrap(SumFunction(TokenColumn(u, k)) + Owed(record.detail, k))
            = Wrap(SumFunction(f) + Owed(record.detail, k))
      BY <1>4, <1>8, <3>3, <3>5, WrapCongruent
    <3> QED
      BY <1>8, <3>4, <3>6 DEF g
  <2>5. SumFunction(RequestColumn(v)) = Len(new)
    BY <1>7, <2>1 DEF AddsUp
  <2>6. SumFunction(FailureColumn(v)) = Cardinality(F(new))
    BY <1>7, <2>3 DEF AddsUp
  <2> QED
    BY <2>4, <2>5, <2>6 DEF AddsUp, new
<1> QED
  BY <1>6, <1>9

LEMMA NothingAddsUp ==
  ASSUME NEW u, DOMAIN u = {}
  PROVE  EntriesOK(u) /\ AddsUp(u, <<>>)
<1>1. IsFiniteSet({}) /\ Cardinality({}) = 0
  BY FS_EmptySet
<1>2. \A f : DOMAIN f = {} => SumFunction(f) = 0
  <2> SUFFICES ASSUME NEW f, DOMAIN f = {} PROVE SumFunctionOnSet(f, {}) = 0
    BY DEF SumFunction
  <2>1. \A x \in {} : f[x] \in Int
    OBVIOUS
  <2> QED
    BY <1>1, <2>1, SumTakes
<1>3. /\ DOMAIN RequestColumn(u) = {} /\ DOMAIN FailureColumn(u) = {}
      /\ \A k \in Kinds : /\ DOMAIN TokenColumn(u, k) = {}
                          /\ DOMAIN OwedColumn(<<>>, k) = {}
  BY DEF RequestColumn, FailureColumn, TokenColumn, OwedColumn
<1>4. {i \in DOMAIN <<>> : <<>>[i].failed} = {} /\ Len(<<>>) = 0
  OBVIOUS
<1> QED
  BY <1>1, <1>2, <1>3, <1>4 DEF EntriesOK, AddsUp

TotalsInv == LogTypeOK /\ EntriesOK(usageByModel) /\ AddsUp(usageByModel, log)

LEMMA TotalsNext ==
  ASSUME TotalsInv, LogTypeOK', [Next]_vars PROVE TotalsInv'
<1>1. CASE UNCHANGED <<usage, log>>
  BY <1>1 DEF usage, TotalsInv
<1>2. CASE Shutdown
  <2>1. DOMAIN usageByModel' = {} /\ log' = <<>>
    BY <1>2 DEF Shutdown, ResetUsage
  <2> QED
    BY <2>1, NothingAddsUp DEF TotalsInv
<1>3. ASSUME NEW record \in Records, NEW now \in Clock, UsageHandle(record, now)
      PROVE  TotalsInv'
  <2>1. CASE ~Counts(record)
    BY <1>3, <2>1 DEF UsageHandle, RecordUsage, usage, TotalsInv
  <2>2. CASE Counts(record)
    <3> DEFINE at == UsedAt(record, now)
               m == ModelOf(record)
               r == [record EXCEPT !.requestedAt = at]
    <3>1. record \in UsageRecord /\ now \in Nat \ {0}
      BY RecordsAssumption, ClockAssumption
    <3>2. r \in UsageRecord /\ r.detail = record.detail /\ r.failed = record.failed
      BY <3>1 DEF UsageRecord, UsedAt
    <3>3. /\ log' = Append(log, r)
          /\ usageByModel' = [x \in DOMAIN usageByModel \cup {m} |->
               IF x = m THEN AddTo(Entry(m), record, at) ELSE usageByModel[x]]
      BY <1>3, <2>2 DEF UsageHandle, RecordUsage
    <3>4. /\ EntriesOK(usageByModel) /\ AddsUp(usageByModel, log)
          /\ log \in Seq(UsageRecord)
          /\ OneMore(usageByModel, usageByModel', m, record, at)
      BY <3>3 DEF TotalsInv, LogTypeOK, Entry, OneMore
    <3> HIDE DEF at, m, r
    <3>5. EntriesOK(usageByModel') /\ AddsUp(usageByModel', Append(log, r))
      BY <3>1, <3>2, <3>4, OneRecordAdded
    <3> QED
      BY <3>3, <3>5 DEF TotalsInv
  <2> QED
    BY <2>1, <2>2
<1> QED
  BY <1>1, <1>2, <1>3, StepsOfUsage

(* Whatever records the host sends, in whatever order and however large,    *)
(* the totals of a snapshot are those of the records since the last         *)
(* shutdown: sums that wrap at every addition, model by model, are the sum  *)
(* over all records, wrapped.                                               *)
THEOREM SnapshotAddsUp == Spec => []UsageMatchesRecords
<1>1. PluginInit => WindowInv /\ TotalsInv
  <2> SUFFICES ASSUME PluginInit PROVE WindowInv /\ TotalsInv
    OBVIOUS
  <2>1. WindowInv
    BY DEF PluginInit, InitUsage, WindowInv, LogTypeOK, WindowCoversUse
  <2>2. DOMAIN usageByModel = {} /\ log = <<>>
    BY DEF PluginInit, InitUsage
  <2> QED
    BY <2>1, <2>2, NothingAddsUp DEF TotalsInv, WindowInv
<1>2. WindowInv /\ TotalsInv /\ [Next]_vars => WindowInv' /\ TotalsInv'
  BY WindowNext, TotalsNext DEF WindowInv
<1>3. TotalsInv => UsageMatchesRecords
  BY MatchesIsAddsUp DEF TotalsInv
<1> QED
  BY <1>1, <1>2, <1>3, PTL DEF Spec

-----------------------------------------------------------------------------
(* JSON trees.  A recursive function is what its definition says only if    *)
(* there is a function that satisfies it; here the values inside a tree     *)
(* give one.                                                                *)

(* Induction over trees, for the set of those of which something holds.     *)
LEMMA TreeInduction ==
  ASSUME NEW S \in SUBSET Trees,
         \A v \in Trees : Children(v) \subseteq S => v \in S
  PROVE  S = Trees
<1> SUFFICES ASSUME Trees \ S # {} PROVE FALSE
  OBVIOUS
<1> DEFINE Depths == {Nesting[v] : v \in Trees \ S}
<1>1. Depths \in SUBSET Nat /\ Depths # {}
  BY TreesAssumption
<1>2. PICK n \in Depths : \A m \in Depths : ~(m < n)
  BY <1>1, LeastNatural
<1>3. PICK v \in Trees \ S : n = Nesting[v]
  OBVIOUS
<1>4. PICK c \in Children(v) : c \notin S
  OBVIOUS
<1>5. c \in Trees \ S /\ Nesting[c] < Nesting[v]
  BY <1>4, TreesAssumption
<1> QED
  BY <1>2, <1>3, <1>5

(* What can be reached from a tree, without recursion.                      *)
Inside(v) ==
  {w \in Trees : \A S \in SUBSET Trees :
     v \in S /\ (\A u \in S : Children(u) \subseteq S) => w \in S}

LEMMA InsideUnfolds ==
  ASSUME NEW v \in Trees
  PROVE  Inside(v) = {v} \cup UNION {Inside(c) : c \in Children(v)}
<1> DEFINE I == {v} \cup UNION {Inside(c) : c \in Children(v)}
<1>1. I \subseteq Trees
  BY DEF Inside
<1>2. \A u \in I : Children(u) \subseteq I
  <2> SUFFICES ASSUME NEW u \in I, NEW x \in Children(u) PROVE x \in I
    OBVIOUS
  <2>1. CASE u = v
    <3>1. x \in Inside(x)
      BY <2>1, TreesAssumption DEF Inside
    <3> QED
      BY <3>1, <2>1
  <2>2. CASE \E c \in Children(v) : u \in Inside(c)
    <3>1. PICK c \in Children(v) : u \in Inside(c)
      BY <2>2
    <3>2. x \in Inside(c)
      BY <3>1, TreesAssumption DEF Inside
    <3> QED
      BY <3>2
  <2> QED
    BY <2>1, <2>2
<1>3. Inside(v) \subseteq I
  BY <1>1, <1>2 DEF Inside
<1>4. I \subseteq Inside(v)
  BY TreesAssumption DEF Inside
<1> QED
  BY <1>3, <1>4

LEMMA PartsUnfold ==
  ASSUME NEW v \in Trees
  PROVE  Parts[v] = {v} \cup UNION {Parts[c] : c \in Children(v)}
<1> DEFINE f == [u \in Trees |-> Inside(u)]
           Solves(g) == g = [u \in Trees |-> {u} \cup UNION {g[c] : c \in Children(u)}]
<1>1. Solves(f)
  <2>1. \A u \in Trees : {Inside(c) : c \in Children(u)} = {f[c] : c \in Children(u)}
    BY TreesAssumption
  <2>2. \A u \in Trees : f[u] = {u} \cup UNION {f[c] : c \in Children(u)}
    BY <2>1, InsideUnfolds
  <2> QED
    BY <2>2
<1>2. \E g : Solves(g)
  BY <1>1
<1>3. Solves(CHOOSE g : Solves(g))
  <2> HIDE DEF Solves
  <2> QED
    BY <1>2
<1>4. Solves(Parts)
  BY <1>3 DEF Parts
<1> QED
  BY <1>4

(* What the two walks look for in one value.                                *)
ToolShape(v) ==
  IsMap(v) /\ (IsToolWord(StrAt(v, "type")) \/ \E k \in DOMAIN v.map : IsToolWord(k))
NotText(v) == IsMap(v) /\ UnsupportedContentMap(v)

LEMMA ToolShapeUnfolds ==
  ASSUME NEW v \in Trees
  PROVE  FindUnsupportedToolShape[v] <=>
           ToolShape(v) \/ \E c \in Children(v) : FindUnsupportedToolShape[c]
<1> DEFINE f == [u \in Trees |-> \E w \in Inside(u) : ToolShape(w)]
           Solves(g) == g = [u \in Trees |-> ToolShape(u) \/ \E c \in Children(u) : g[c]]
<1>1. Solves(f)
  <2>1. ASSUME NEW u \in Trees
        PROVE  f[u] = (ToolShape(u) \/ \E c \in Children(u) : f[c])
    <3>1. \A c \in Children(u) : f[c] = (\E w \in Inside(c) : ToolShape(w))
      BY TreesAssumption
    <3>2. Inside(u) = {u} \cup UNION {Inside(c) : c \in Children(u)}
      BY InsideUnfolds
    <3> HIDE DEF ToolShape
    <3> QED
      BY <3>1, <3>2
  <2> QED
    BY <2>1
<1>2. \E g : Solves(g)
  BY <1>1
<1>3. Solves(CHOOSE g : Solves(g))
  <2> HIDE DEF Solves
  <2> QED
    BY <1>2
<1>4. Solves(FindUnsupportedToolShape)
  BY <1>3 DEF FindUnsupportedToolShape, ToolShape
<1> QED
  BY <1>4

LEMMA NotTextUnfolds ==
  ASSUME NEW v \in Trees
  PROVE  FindUnsupportedContent[v] <=>
           NotText(v) \/ \E c \in Children(v) : FindUnsupportedContent[c]
<1> DEFINE f == [u \in Trees |-> \E w \in Inside(u) : NotText(w)]
           Solves(g) == g = [u \in Trees |-> NotText(u) \/ \E c \in Children(u) : g[c]]
<1>1. Solves(f)
  <2>1. ASSUME NEW u \in Trees
        PROVE  f[u] = (NotText(u) \/ \E c \in Children(u) : f[c])
    <3>1. \A c \in Children(u) : f[c] = (\E w \in Inside(c) : NotText(w))
      BY TreesAssumption
    <3>2. Inside(u) = {u} \cup UNION {Inside(c) : c \in Children(u)}
      BY InsideUnfolds
    <3> HIDE DEF NotText
    <3> QED
      BY <3>1, <3>2
  <2> QED
    BY <2>1
<1>2. \E g : Solves(g)
  BY <1>1
<1>3. Solves(CHOOSE g : Solves(g))
  <2> HIDE DEF Solves
  <2> QED
    BY <1>2
<1>4. Solves(FindUnsupportedContent)
  BY <1>3 DEF FindUnsupportedContent, NotText
<1> QED
  BY <1>4

(* What validateRequestPayload accepts is clean at every depth.             *)
LEMMA AcceptedIsClean ==
  ASSUME NEW v \in Trees, ValidateRequestPayload(v) = "ok"
  PROVE  \A p \in Parts[v] : ~ToolShape(p) /\ ~NotText(p)
<1> DEFINE IsClean(u) == \A p \in Parts[u] : ~ToolShape(p) /\ ~NotText(p)
           Passes(u) == ~FindUnsupportedToolShape[u] /\ ~FindUnsupportedContent[u]
           S == {u \in Trees : Passes(u) => IsClean(u)}
<1>1. ASSUME NEW u \in Trees, Children(u) \subseteq S, Passes(u)
      PROVE  IsClean(u)
  <2>1. ~ToolShape(u) /\ ~NotText(u)
    BY <1>1, ToolShapeUnfolds, NotTextUnfolds
  <2>2. \A c \in Children(u) : Passes(c)
    BY <1>1, ToolShapeUnfolds, NotTextUnfolds
  <2>3. \A c \in Children(u) : IsClean(c)
    BY <1>1, <2>2
  <2>4. Parts[u] = {u} \cup UNION {Parts[c] : c \in Children(u)}
    BY PartsUnfold
  <2> QED
    BY <2>1, <2>3, <2>4
<1>2. S = Trees
  <2>1. S \in SUBSET Trees
    OBVIOUS
  <2>2. \A u \in Trees : Children(u) \subseteq S => u \in S
    BY <1>1
  <2> HIDE DEF S
  <2> QED
    BY <2>1, <2>2, TreeInduction
<1>3. Passes(v)
  BY DEF ValidateRequestPayload
<1> QED
  BY <1>2, <1>3

(* A request that was resolved has passed the checks.                       *)
InExecution == {"resolved", "called", "sending", "executing"}
RequestPassed ==
  pc \in InExecution =>
    request.body \in Trees /\ ValidateRequestPayload(request.body) = "ok"

LEMMA PassedNext ==
  ASSUME RequestPassed, [Next]_vars
  PROVE  RequestPassed'
<1> DEFINE Kept ==
      /\ request' = request
      /\ pc' \in InExecution => pc \in InExecution
<1>1. ASSUME NEW req \in Requests, Execute(req)
      PROVE  RequestPassed'
  <2>1. CASE RequestCheck(req) # "ok"
    BY <1>1, <2>1 DEF Execute, execution, RequestPassed
  <2>2. CASE RequestCheck(req) = "ok"
    <3>1. /\ req.body \notin {Malformed, EmptyBody}
          /\ ValidateRequestPayload(req.body) = "ok"
      BY <2>2 DEF RequestCheck
    <3>2. req.body \in Trees
      BY <3>1, RequestsAssumption
    <3>3. UNCHANGED execution \/ request' = req
      BY <1>1, <2>2 DEF Execute
    <3> QED
      BY <3>1, <3>2, <3>3 DEF execution, RequestPassed
  <2> QED
    BY <2>1, <2>2
<1>2. CASE Kept
  BY <1>2 DEF RequestPassed
<1>3. CASE \E raw \in Raws : Reconfigure(raw)
  BY <1>2, <1>3 DEF Reconfigure, execution
<1>4. CASE \E record \in Records, now \in Clock : UsageHandle(record, now)
  BY <1>2, <1>4 DEF UsageHandle, execution
<1>5. CASE \E req \in Requests : CountTokens(req)
  BY <1>2, <1>5 DEF CountTokens, execution
<1>6. CASE Refused \/ Shutdown \/ RefreshAuth \/ Refreshing \/ RefreshReturns
  BY <1>2, <1>6 DEF Refused, Shutdown, RefreshAuth, Refreshing, RefreshReturns, execution,
                    InExecution
<1>7. CASE Unpack \/ Unpacking \/ UnpackReturns
  BY <1>2, <1>7 DEF Unpack, Unpacking, UnpackReturns, execution, InExecution
<1>8. CASE ExecuteRunAgent \/ EnterWorkspace
  <2>1. Kept \/ pc' = "idle"
    BY <1>8 DEF ExecuteRunAgent, EnterWorkspace, InExecution
  <2> QED
    BY <2>1, <1>2 DEF RequestPassed, InExecution
<1>9. CASE AcquireSlot \/ Running \/ RunAgentReturns
  BY <1>2, <1>9 DEF AcquireSlot, Running, RunAgentReturns, execution, InExecution
<1>10. CASE ExecuteReturns
  BY <1>10 DEF ExecuteReturns, RequestPassed, InExecution
<1>11. CASE OtherAcquires \/ OtherReleases
  BY <1>2, <1>11 DEF OtherAcquires, OtherReleases, execution
<1>12. CASE UNCHANGED vars
  BY <1>2, <1>12 DEF vars, execution
<1> QED
  BY <1>1, <1>3, <1>4, <1>5, <1>6, <1>7, <1>8, <1>9, <1>10, <1>11, <1>12 DEF Next

(* For every request, however deep it nests: no agent is run for one in     *)
(* which something that validateRequestPayload names lies at any depth, so  *)
(* neither of its walks can be got around by nesting, nor by calls of the   *)
(* host between the check and the run.  (That the names leave something out *)
(* that is not text either is the finding about NonTextNeverDropped.)       *)
THEOREM RefusedNeverReachAgent == Spec => []RefusedNeverRuns
<1>1. PluginInit => RequestPassed
  BY DEF PluginInit, RequestPassed, InExecution
<1>2. RequestPassed /\ [Next]_vars => RequestPassed'
  BY PassedNext
<1>3. RequestPassed => RefusedNeverRuns
  <2> SUFFICES ASSUME RequestPassed, pc = "executing",
                      NEW v \in Parts[request.body], IsMap(v)
               PROVE  /\ \A w \in DOMAIN v.map \cup {StrAt(v, "type")} : ~IsToolWord(w)
                      /\ DOMAIN v.map \cap UnsupportedKeys = {}
                      /\ Lower(StrAt(v, "type")) \notin MediaWords
                      /\ Lower(StrAt(v, "type")) \notin TextTypes =>
                           {StrAt(v, "mime_type"), StrAt(v, "media_type")}
                             \cap NonTextMimes = {}
    BY DEF RefusedNeverRuns
  <2>1. ~ToolShape(v) /\ ~NotText(v)
    BY AcceptedIsClean DEF RequestPassed, InExecution
  <2>2. \A w \in DOMAIN v.map \cup {StrAt(v, "type")} : ~IsToolWord(w)
    BY <2>1 DEF ToolShape
  <2>3. ~UnsupportedContentMap(v)
    BY <2>1 DEF NotText
  <2>4. TextTypes \cap MediaWords = {}
    BY DEF TextTypes, MediaWords
  <2> QED
    BY <2>2, <2>3, <2>4 DEF UnsupportedContentMap
<1> QED
  BY <1>1, <1>2, <1>3, PTL DEF Spec

-----------------------------------------------------------------------------
(* Sequences put together.                                                  *)

LEMMA ConcatSet ==
  ASSUME NEW B, NEW s \in Seq(B), NEW t \in Seq(B)
  PROVE  s \o t \in Seq(B) /\ ToSet(s \o t) = ToSet(s) \cup ToSet(t)
<1> DEFINE r == s \o t
<1>1. /\ r \in Seq(B) /\ Len(r) = Len(s) + Len(t)
      /\ \A i \in 1 .. Len(s) : r[i] = s[i]
      /\ \A i \in 1 .. Len(t) : r[Len(s) + i] = t[i]
  OBVIOUS
<1>2. DOMAIN r = 1 .. Len(r) /\ DOMAIN s = 1 .. Len(s) /\ DOMAIN t = 1 .. Len(t)
      /\ Len(s) \in Nat /\ Len(t) \in Nat
  OBVIOUS
<1> HIDE DEF r
<1>3. ASSUME NEW x \in ToSet(r) PROVE x \in ToSet(s) \cup ToSet(t)
  <2>1. PICK i \in DOMAIN r : x = r[i]
    BY DEF ToSet
  <2>2. CASE i <= Len(s)
    BY <1>1, <1>2, <2>1, <2>2 DEF ToSet
  <2>3. CASE i > Len(s)
    <3>1. i - Len(s) \in 1 .. Len(t) /\ i = Len(s) + (i - Len(s))
      BY <1>1, <1>2, <2>3
    <3>2. x = t[i - Len(s)]
      BY <1>1, <2>1, <3>1
    <3> QED
      BY <1>2, <3>1, <3>2 DEF ToSet
  <2> QED
    BY <1>1, <1>2, <2>1, <2>2, <2>3
<1>4. ASSUME NEW x \in ToSet(s) PROVE x \in ToSet(r)
  <2>1. PICK i \in DOMAIN s : x = s[i]
    BY DEF ToSet
  <2>2. i \in DOMAIN r /\ x = r[i]
    BY <1>1, <1>2, <2>1
  <2> QED
    BY <2>2 DEF ToSet
<1>5. ASSUME NEW x \in ToSet(t) PROVE x \in ToSet(r)
  <2>1. PICK i \in DOMAIN t : x = t[i]
    BY DEF ToSet
  <2>2. Len(s) + i \in DOMAIN r /\ x = r[Len(s) + i]
    BY <1>1, <1>2, <2>1
  <2> QED
    BY <2>2 DEF ToSet
<1>6. ToSet(r) = ToSet(s) \cup ToSet(t)
  BY <1>3, <1>4, <1>5
<1> QED
  BY <1>1, <1>6 DEF r

(* FlattenSeq is a recursive definition; f is a solution of it.             *)
FlattenStep(seqs, f) ==
  f = [i \in 1 .. Len(seqs) |->
         IF i = 1 THEN seqs[i] ELSE f[i - 1] \o seqs[i]]

LEMMA FlattenChosen ==
  ASSUME NEW seqs
  PROVE  FlattenSeq(seqs) = IF Len(seqs) = 0 THEN seqs
                            ELSE (CHOOSE f : FlattenStep(seqs, f))[Len(seqs)]
BY DEF FlattenSeq, FlattenStep

LEMMA FlattenExists ==
  ASSUME NEW B, NEW seqs \in Seq(Seq(B))
  PROVE  \E f \in [1 .. Len(seqs) -> Seq(B)] : FlattenStep(seqs, f)
<1> DEFINE D == 1 .. Len(seqs)
           V == Seq(B)
           R == {p \in D \X D : p[1] < p[2]}
           G == [p \in D \X [D -> V] |->
                   IF p[1] = 1 THEN seqs[p[1]] ELSE p[2][p[1] - 1] \o seqs[p[1]]]
<1>1. /\ D \subseteq Nat
      /\ \A i \in D : seqs[i] \in V
      /\ \A i \in D : i # 1 => i - 1 \in D /\ <<i - 1, i>> \in R
      /\ \A s, t \in V : s \o t \in V
  <2>1. \A s, t \in Seq(B) : s \o t \in Seq(B)
    BY ConcatSet
  <2>2. Len(seqs) \in Nat /\ \A i \in D : seqs[i] \in V
    OBVIOUS
  <2> QED
    BY <2>1, <2>2
<1>2. V # {}
  OBVIOUS
<1> HIDE DEF V
<1>3. Grounded(D, R)
  <2>1. [i \in D |-> i] \in [D -> Nat]
    BY <1>1
  <2>2. \A x, y \in D : <<y, x>> \in R => [i \in D |-> i][y] < [i \in D |-> i][x]
    OBVIOUS
  <2> HIDE DEF D, R
  <2> QED
    BY <2>1, <2>2, RankGrounds
<1>4. G \in [D \X [D -> V] -> V]
  <2>1. ASSUME NEW i \in D, NEW f \in [D -> V]
        PROVE  (IF i = 1 THEN seqs[i] ELSE f[i - 1] \o seqs[i]) \in V
    <3> HIDE DEF D, R
    <3>1. i # 1 => f[i - 1] \in V
      BY <1>1
    <3> QED
      BY <1>1, <3>1
  <2> HIDE DEF D
  <2> QED
    BY <2>1
<1>5. \A x \in D : \A g, h \in [D -> V] :
        (\A y \in D : <<y, x>> \in R => g[y] = h[y]) => G[<<x, g>>] = G[<<x, h>>]
  <2> HIDE DEF D, R
  <2> QED
    BY <1>1
<1>6. PICK f \in [D -> V] : \A i \in D : f[i] = G[<<i, f>>]
  <2>1. Recursive(D, V, R, G)
    <3> HIDE DEF D, R, G
    <3> QED
      BY <1>2, <1>3, <1>4, <1>5 DEF Recursive
  <2> HIDE DEF D, R, G
  <2> QED
    BY <2>1, Recursion
<1>7. f = [i \in D |-> IF i = 1 THEN seqs[i] ELSE f[i - 1] \o seqs[i]]
  <2> HIDE DEF D
  <2> QED
    BY <1>6
<1> QED
  BY <1>7 DEF FlattenStep, V

(* The elements of all the sequences, and no others.                        *)
LEMMA FlattenElements ==
  ASSUME NEW B, NEW seqs \in Seq(Seq(B))
  PROVE  /\ FlattenSeq(seqs) \in Seq(B)
         /\ ToSet(FlattenSeq(seqs)) = UNION {ToSet(seqs[i]) : i \in DOMAIN seqs}
<1> DEFINE n == Len(seqs)
           f == CHOOSE g : FlattenStep(seqs, g)
           Upto(i) == UNION {ToSet(seqs[j]) : j \in 1 .. i}
<1>1. n \in Nat /\ DOMAIN seqs = 1 .. n /\ \A i \in 1 .. n : seqs[i] \in Seq(B)
  OBVIOUS
<1>2. CASE n = 0
  <2>1. seqs = <<>> /\ FlattenSeq(seqs) = <<>>
    BY <1>2, FlattenChosen
  <2>2. DOMAIN seqs = {} /\ ToSet(<<>>) = {} /\ <<>> \in Seq(B)
    BY <2>1 DEF ToSet
  <2> QED
    BY <2>1, <2>2
<1>3. CASE n # 0
  <2>1. FlattenStep(seqs, f)
    BY FlattenExists
  <2> HIDE DEF f
  <2>2. \A i \in 1 .. n : f[i] = IF i = 1 THEN seqs[i] ELSE f[i - 1] \o seqs[i]
    BY <2>1 DEF FlattenStep
  <2> DEFINE Bad == {i \in 1 .. n : ~(f[i] \in Seq(B) /\ ToSet(f[i]) = Upto(i))}
  <2>3. Bad = {}
    <3> SUFFICES ASSUME Bad # {} PROVE FALSE
      OBVIOUS
    <3>1. Bad \in SUBSET Nat
      BY <1>1
    <3>2. PICK i \in Bad : \A j \in Bad : ~(j < i)
      <4> HIDE DEF Bad
      <4> QED
        BY <3>1, LeastNatural
    <3>3. i \in 1 .. n
      OBVIOUS
    <3>4. CASE i = 1
      <4>0. 1 .. 1 = {1}
        OBVIOUS
      <4>1. f[i] = seqs[i] /\ 1 .. i = {i}
        BY <2>2, <3>3, <3>4, <4>0
      <4>2. ToSet(f[i]) = Upto(i)
        BY <4>1
      <4> QED
        BY <1>1, <3>3, <4>1, <4>2
    <3>5. CASE i # 1
      <4>1. i - 1 \in 1 .. n /\ i - 1 < i /\ 1 .. i = (1 .. (i - 1)) \cup {i}
        BY <1>1, <3>3, <3>5
      <4>2. i - 1 \notin Bad
        <5> HIDE DEF Bad
        <5> QED
          BY <3>2, <4>1
      <4>3. f[i - 1] \in Seq(B) /\ ToSet(f[i - 1]) = Upto(i - 1)
        BY <4>1, <4>2
      <4>4. f[i] = f[i - 1] \o seqs[i]
        BY <2>2, <3>3, <3>5
      <4>5. f[i] \in Seq(B) /\ ToSet(f[i]) = ToSet(f[i - 1]) \cup ToSet(seqs[i])
        BY <1>1, <3>3, <4>3, <4>4, ConcatSet
      <4>6. Upto(i) = Upto(i - 1) \cup ToSet(seqs[i])
        BY <4>1
      <4> QED
        BY <4>3, <4>5, <4>6
    <3> QED
      BY <3>4, <3>5
  <2>4. n \in 1 .. n
    BY <1>1, <1>3
  <2>5. f[n] \in Seq(B) /\ ToSet(f[n]) = Upto(n)
    BY <2>3, <2>4
  <2>6. FlattenSeq(seqs) = f[n]
    BY <1>3, FlattenChosen DEF f
  <2> QED
    BY <1>1, <2>5, <2>6
<1> QED
  BY <1>2, <1>3

-----------------------------------------------------------------------------
(* The walk of parseCursorAuthJSON.                                         *)

Deeper == {p \in Trees \X Trees : p[1] \in Children(p[2])}

LEMMA TreesGrounded == Grounded(Trees, Deeper)
<1>1. \A x, y \in Trees : <<y, x>> \in Deeper => Nesting[y] < Nesting[x]
  BY TreesAssumption DEF Deeper
<1> QED
  BY <1>1, RankGrounds, TreesAssumption

(* What the walks of a value are, when f are those of the values inside.    *)
WalksBy(v, f) ==
  IF IsMap(v) THEN WalksOfMap(v.map, [k \in DOMAIN v.map |-> f[v.map[k]]])
  ELSE IF IsList(v) THEN WalksOfList([i \in DOMAIN v.list |-> f[v.list[i]]])
  ELSE {<<>>}

LEMMA TruthType ==
  ASSUME NEW k, NEW v \in Trees
  PROVE  Truth(k, v) \in Seq(BOOLEAN)
<1>1. CASE k \in AuthKeys /\ "bool" \in DOMAIN v
  <2>1. v.bool \in BOOLEAN
    BY <1>1, StatusesAssumption
  <2> QED
    BY <1>1, <2>1 DEF Truth
<1>2. CASE ~(k \in AuthKeys /\ "bool" \in DOMAIN v)
  <2>1. (v.str = "yes") \in BOOLEAN
    OBVIOUS
  <2>2. <<v.str = "yes">> \in Seq(BOOLEAN) /\ <<>> \in Seq(BOOLEAN)
    BY <2>1
  <2>3. Truth(k, v) \in {<<v.str = "yes">>, <<>>}
    BY <1>2, Zenon DEF Truth
  <2> QED
    BY <2>2, <2>3
<1> QED
  BY <1>1, <1>2

LEMMA IsASeq ==
  ASSUME NEW n \in Nat, NEW V, NEW s, s = [i \in 1 .. n |-> s[i]],
         \A i \in 1 .. n : s[i] \in V
  PROVE  s \in Seq(V)
<1>1. s \in [1 .. n -> V]
  OBVIOUS
<1> QED
  BY <1>1

(* An order of a map visits every key.                                      *)
LEMMA OrderVisitsAll ==
  ASSUME NEW S, IsFiniteSet(S), NEW order \in SetToSeqs(S)
  PROVE  order \in Seq(S) /\ S = {order[i] : i \in DOMAIN order}
<1> DEFINE n == Cardinality(S)
           D == 1 .. n
<1>1. n \in Nat
  BY FS_CardinalityType
<1>2. order \in [D -> S] /\ \A i, j \in D : i # j => order[i] # order[j]
  BY DEF SetToSeqs
<1>3. order \in Injection(D, S)
  BY <1>2 DEF Injection, IsInjective
<1>4. IsFiniteSet(D) /\ Cardinality(D) = n
  <2>1. 0 + 1 = 1
    OBVIOUS
  <2> HIDE DEF n
  <2>2. IsFiniteSet(1 .. n) /\ Cardinality(1 .. n) = IF 1 > n THEN 0 ELSE n - 1 + 1
    BY <1>1, FS_Interval
  <2> QED
    BY <1>1, <2>2
<1>5. order \in Surjection(D, S)
  <2> HIDE DEF D
  <2> QED
    BY <1>3, <1>4, FS_Injection
<1>6. \A x \in S : \E i \in D : order[i] = x
  BY <1>5 DEF Surjection
<1>7. order \in Seq(S)
  BY <1>1, <1>2
<1> QED
  BY <1>2, <1>6, <1>7

LEMMA OneOfEachIs ==
  ASSUME NEW family, NEW f \in OneOfEach(family)
  PROVE  /\ DOMAIN f = DOMAIN family
         /\ f = [k \in DOMAIN family |-> f[k]]
         /\ \A k \in DOMAIN family : f[k] \in family[k]
BY DEF OneOfEach

(* A walk over a map is made of what its fields say and of walks over its   *)
(* values, a walk over a list of walks over its elements.                   *)
LEMMA WalkOfMap ==
  ASSUME NEW v \in Trees, IsMap(v), NEW f \in [Trees -> SUBSET Seq(BOOLEAN)],
         NEW w \in WalksBy(v, f)
  PROVE  /\ w \in Seq(BOOLEAN)
         /\ \E walk : /\ \A k \in DOMAIN v.map : walk[k] \in f[v.map[k]]
                      /\ ToSet(w) = UNION {ToSet(Truth(k, v.map[k])) \cup ToSet(walk[k])
                                             : k \in DOMAIN v.map}
<1> DEFINE K == DOMAIN v.map
           At(order, walk) == [i \in DOMAIN order |->
                                 Truth(order[i], v.map[order[i]]) \o walk[order[i]]]
<1>1. PICK order \in SetToSeqs(K), walk \in OneOfEach([k \in K |-> f[v.map[k]]]) :
        w = FlattenSeq(At(order, walk))
  <2>1. WalksBy(v, f) = {FlattenSeq(At(order, walk)) :
          order \in SetToSeqs(K), walk \in OneOfEach([k \in K |-> f[v.map[k]]])}
    BY DEF WalksBy, WalksOfMap
  <2> HIDE DEF At, K
  <2> QED
    BY <2>1
<1>2. \A k \in K : v.map[k] \in Trees
  BY TreesAssumption DEF Children
<1>3. IsFiniteSet(K)
  BY TreesAssumption
<1> HIDE DEF K
<1>4. \A k \in K : walk[k] \in f[v.map[k]]
  BY OneOfEachIs
<1>5. \A k \in K : walk[k] \in Seq(BOOLEAN) /\ Truth(k, v.map[k]) \in Seq(BOOLEAN)
  BY <1>2, <1>4, TruthType
<1>6. order \in Seq(K) /\ K = {order[i] : i \in DOMAIN order}
  BY <1>3, OrderVisitsAll
<1> DEFINE seqs == At(order, walk)
<1>7. \A k \in K : /\ Truth(k, v.map[k]) \o walk[k] \in Seq(BOOLEAN)
                   /\ ToSet(Truth(k, v.map[k]) \o walk[k])
                        = ToSet(Truth(k, v.map[k])) \cup ToSet(walk[k])
  BY <1>5, ConcatSet
<1>8. /\ DOMAIN seqs = DOMAIN order
      /\ \A i \in DOMAIN order : order[i] \in K
      /\ \A i \in DOMAIN order :
           seqs[i] = Truth(order[i], v.map[order[i]]) \o walk[order[i]]
  BY <1>6
<1>9. seqs \in Seq(Seq(BOOLEAN))
  <2>1. PICK n \in Nat : DOMAIN order = 1 .. n
    BY <1>6
  <2>2. \A i \in 1 .. n : seqs[i] \in Seq(BOOLEAN)
    BY <1>7, <1>8, <2>1
  <2>3. seqs = [i \in 1 .. n |-> seqs[i]]
    BY <2>1
  <2> HIDE DEF At
  <2> QED
    BY <2>2, <2>3, IsASeq
<1> HIDE DEF At
<1>10. /\ w \in Seq(BOOLEAN)
       /\ ToSet(w) = UNION {ToSet(seqs[i]) : i \in DOMAIN seqs}
  BY <1>1, <1>9, FlattenElements
<1>11. \A i \in DOMAIN seqs :
         ToSet(seqs[i]) = ToSet(Truth(order[i], v.map[order[i]])) \cup ToSet(walk[order[i]])
  BY <1>7, <1>8
<1>12. ToSet(w) = UNION {ToSet(Truth(k, v.map[k])) \cup ToSet(walk[k]) : k \in K}
  <2>1. ASSUME NEW x \in ToSet(w)
        PROVE  \E k \in K : x \in ToSet(Truth(k, v.map[k])) \cup ToSet(walk[k])
    <3> HIDE DEF seqs
    <3>1. PICK i \in DOMAIN seqs : x \in ToSet(seqs[i])
      BY <1>10
    <3>2. order[i] \in K
      BY <1>8, <3>1
    <3> QED
      BY <1>11, <3>1, <3>2
  <2>2. ASSUME NEW k \in K, NEW x \in ToSet(Truth(k, v.map[k])) \cup ToSet(walk[k])
        PROVE  x \in ToSet(w)
    <3> HIDE DEF seqs
    <3>1. PICK i \in DOMAIN order : k = order[i]
      BY <1>6
    <3>2. i \in DOMAIN seqs /\ x \in ToSet(seqs[i])
      BY <1>8, <1>11, <3>1
    <3> QED
      BY <1>10, <3>2
  <2> QED
    BY <2>1, <2>2
<1> QED
  BY <1>4, <1>10, <1>12 DEF K

LEMMA WalkOfList ==
  ASSUME NEW v \in Trees, ~IsMap(v), IsList(v),
         NEW f \in [Trees -> SUBSET Seq(BOOLEAN)], NEW w \in WalksBy(v, f)
  PROVE  /\ w \in Seq(BOOLEAN)
         /\ \E walk : /\ \A i \in DOMAIN v.list : walk[i] \in f[v.list[i]]
                      /\ ToSet(w) = UNION {ToSet(walk[i]) : i \in DOMAIN v.list}
<1> DEFINE K == DOMAIN v.list
<1>1. PICK walk \in OneOfEach([i \in K |-> f[v.list[i]]]) : w = FlattenSeq(walk)
  BY DEF WalksBy, WalksOfList
<1>2. K = 1 .. Len(v.list) /\ Len(v.list) \in Nat /\ \A i \in K : v.list[i] \in Trees
  BY TreesAssumption
<1>3. /\ DOMAIN walk = K /\ walk = [i \in K |-> walk[i]]
      /\ \A i \in K : walk[i] \in f[v.list[i]]
  BY OneOfEachIs
<1>4. \A i \in K : walk[i] \in Seq(BOOLEAN)
  BY <1>2, <1>3
<1> HIDE DEF K
<1>5. walk \in Seq(Seq(BOOLEAN))
  <2>1. PICK n \in Nat : K = 1 .. n
    BY <1>2
  <2>2. walk = [i \in 1 .. n |-> walk[i]] /\ \A i \in 1 .. n : walk[i] \in Seq(BOOLEAN)
    BY <1>3, <1>4, <2>1
  <2> QED
    BY <2>2, IsASeq
<1>6. /\ w \in Seq(BOOLEAN)
      /\ ToSet(w) = UNION {ToSet(walk[i]) : i \in DOMAIN walk}
  BY <1>1, <1>5, FlattenElements
<1> QED
  BY <1>3, <1>6 DEF K

LEMMA WalksUnfold ==
  /\ Walks \in [Trees -> SUBSET Seq(BOOLEAN)]
  /\ \A v \in Trees : Walks[v] = WalksBy(v, Walks)
<1> DEFINE V == SUBSET Seq(BOOLEAN)
           G == [p \in Trees \X [Trees -> V] |-> WalksBy(p[1], p[2])]
           Solves(g) == g = [v \in Trees |-> WalksBy(v, g)]
<1>1. \A v \in Trees : \A f \in [Trees -> V] : WalksBy(v, f) \in V
  <2> TAKE v \in Trees
  <2> TAKE f \in [Trees -> V]
  <2>1. ASSUME NEW w \in WalksBy(v, f) PROVE w \in Seq(BOOLEAN)
    <3>1. CASE IsMap(v)
      BY <2>1, <3>1, WalkOfMap
    <3>2. CASE ~IsMap(v) /\ IsList(v)
      BY <2>1, <3>2, WalkOfList
    <3>3. CASE ~IsMap(v) /\ ~IsList(v)
      BY <2>1, <3>3 DEF WalksBy
    <3> QED
      BY <3>1, <3>2, <3>3
  <2> QED
    BY <2>1
<1>2. ASSUME NEW v \in Trees, NEW g, NEW h,
             \A c \in Trees : <<c, v>> \in Deeper => g[c] = h[c]
      PROVE  WalksBy(v, g) = WalksBy(v, h)
  <2>1. \A c \in Children(v) : g[c] = h[c]
    BY <1>2, TreesAssumption DEF Deeper
  <2>2. CASE IsMap(v)
    <3>1. \A k \in DOMAIN v.map : g[v.map[k]] = h[v.map[k]]
      BY <2>1, <2>2 DEF Children
    <3>2. [k \in DOMAIN v.map |-> g[v.map[k]]] = [k \in DOMAIN v.map |-> h[v.map[k]]]
      BY <3>1
    <3> QED
      BY <2>2, <3>2 DEF WalksBy
  <2>3. CASE ~IsMap(v) /\ IsList(v)
    <3>1. \A k \in DOMAIN v.list : g[v.list[k]] = h[v.list[k]]
      BY <2>1, <2>3 DEF Children
    <3>2. [k \in DOMAIN v.list |-> g[v.list[k]]] = [k \in DOMAIN v.list |-> h[v.list[k]]]
      BY <3>1
    <3> QED
      BY <2>3, <3>2 DEF WalksBy
  <2>4. CASE ~IsMap(v) /\ ~IsList(v)
    BY <2>4 DEF WalksBy
  <2> QED
    BY <2>2, <2>3, <2>4
<1> HIDE DEF V
<1>3. PICK f \in [Trees -> V] : \A v \in Trees : f[v] = G[<<v, f>>]
  <2>1. G \in [Trees \X [Trees -> V] -> V]
    BY <1>1
  <2>2. \A v \in Trees : \A g, h \in [Trees -> V] :
          (\A c \in Trees : <<c, v>> \in Deeper => g[c] = h[c]) => G[<<v, g>>] = G[<<v, h>>]
    BY <1>2
  <2>3. V # {}
    BY DEF V
  <2> HIDE DEF G
  <2>4. Recursive(Trees, V, Deeper, G)
    BY <2>1, <2>2, <2>3, TreesGrounded DEF Recursive
  <2> QED
    BY <2>4, Recursion
<1>4. Solves(f)
  BY <1>3
<1>5. Solves(CHOOSE g : Solves(g))
  <2> HIDE DEF Solves
  <2> QED
    BY <1>4
<1>6. Solves(Walks)
  <2>1. Walks = CHOOSE g : Solves(g)
    BY Zenon DEF Walks, WalksBy
  <2> QED
    BY <1>5, <2>1, Zenon
<1>7. Walks = f
  <2> DEFINE T == {v \in Trees : Walks[v] # f[v]}
  <2>0. /\ Walks = [v \in Trees |-> WalksBy(v, Walks)]
        /\ f = [v \in Trees |-> WalksBy(v, f)]
    BY <1>4, <1>6
  <2>1. T = {}
    <3> SUFFICES ASSUME T # {} PROVE FALSE
      OBVIOUS
    <3>1. T \in SUBSET Trees
      OBVIOUS
    <3>2. PICK v \in T : \A c \in T : ~(<<c, v>> \in Deeper)
      <4> HIDE DEF T
      <4> QED
        BY <3>1, TreesGrounded DEF Grounded
    <3>3. \A c \in Trees : <<c, v>> \in Deeper => Walks[c] = f[c]
      BY <3>2
    <3>4. WalksBy(v, Walks) = WalksBy(v, f)
      BY <1>2, <3>3
    <3>5. Walks[v] = WalksBy(v, Walks) /\ f[v] = WalksBy(v, f)
      BY <2>0
    <3> QED
      BY <3>4, <3>5
  <2>2. \A v \in Trees : Walks[v] = f[v]
    BY <2>1
  <2> QED
    BY <2>0, <2>2
<1>8. \A v \in Trees : Walks[v] = WalksBy(v, Walks)
  BY <1>6
<1> QED
  BY <1>7, <1>8 DEF V

LEMMA SignalsUnfold ==
  ASSUME NEW v \in Trees
  PROVE  Signals(v) = (IF IsMap(v) THEN UNION {ToSet(Truth(k, v.map[k])) : k \in DOMAIN v.map}
                       ELSE {})
                      \cup UNION {Signals(c) : c \in Children(v)}
<1> DEFINE Own(p) == UNION {ToSet(Truth(k, p.map[k])) : k \in DOMAIN p.map}
<1>1. \A u : Signals(u) = UNION {Own(p) : p \in {q \in Parts[u] : IsMap(q)}}
  BY DEF Signals
<1>2. Parts[v] = {v} \cup UNION {Parts[c] : c \in Children(v)}
  BY PartsUnfold
<1> HIDE DEF Own
<1>3. \A x : x \in Signals(v) <=> \E p \in Parts[v] : IsMap(p) /\ x \in Own(p)
  BY <1>1
<1>4. \A c : \A x : x \in Signals(c) <=> \E p \in Parts[c] : IsMap(p) /\ x \in Own(p)
  BY <1>1
<1>5. \A x : x \in Signals(v) <=>
        (IsMap(v) /\ x \in Own(v)) \/ \E c \in Children(v) : x \in Signals(c)
  BY <1>2, <1>3, <1>4
<1>6. Signals(v) = (IF IsMap(v) THEN Own(v) ELSE {}) \cup UNION {Signals(c) : c \in Children(v)}
  BY <1>5
<1> QED
  BY <1>6 DEF Own

(* In whatever order the maps are walked, a walk meets every signal inside  *)
(* and nothing else.                                                        *)
LEMMA WalkMeetsSignals ==
  \A v \in Trees : \A w \in Walks[v] : w \in Seq(BOOLEAN) /\ ToSet(w) = Signals(v)
<1> DEFINE S == {v \in Trees : \A w \in Walks[v] : ToSet(w) = Signals(v)}
<1>1. ASSUME NEW v \in Trees, Children(v) \subseteq S, NEW w \in Walks[v]
      PROVE  ToSet(w) = Signals(v)
  <2>1. w \in WalksBy(v, Walks) /\ Walks \in [Trees -> SUBSET Seq(BOOLEAN)]
    BY WalksUnfold
  <2>2. CASE IsMap(v)
    <3>1. PICK walk : /\ \A k \in DOMAIN v.map : walk[k] \in Walks[v.map[k]]
                      /\ ToSet(w) = UNION {ToSet(Truth(k, v.map[k])) \cup ToSet(walk[k])
                                             : k \in DOMAIN v.map}
      BY <2>1, <2>2, WalkOfMap
    <3>2. \A k \in DOMAIN v.map : v.map[k] \in Children(v)
      BY <2>2 DEF Children
    <3>3. \A k \in DOMAIN v.map : ToSet(walk[k]) = Signals(v.map[k])
      BY <1>1, <3>1, <3>2
    <3>4. Children(v) = {v.map[k] : k \in DOMAIN v.map}
      BY <2>2 DEF Children
    <3>5. Signals(v) = (UNION {ToSet(Truth(k, v.map[k])) : k \in DOMAIN v.map})
                         \cup UNION {Signals(c) : c \in Children(v)}
      BY <2>2, SignalsUnfold
    <3>6. \A x : x \in ToSet(w) <=>
            \E k \in DOMAIN v.map : x \in ToSet(Truth(k, v.map[k])) \/ x \in Signals(v.map[k])
      BY <3>1, <3>3
    <3>7. \A x : x \in Signals(v) <=>
            \E k \in DOMAIN v.map : x \in ToSet(Truth(k, v.map[k])) \/ x \in Signals(v.map[k])
      BY <3>4, <3>5
    <3> QED
      BY <3>6, <3>7
  <2>3. CASE ~IsMap(v) /\ IsList(v)
    <3>1. PICK walk : /\ \A i \in DOMAIN v.list : walk[i] \in Walks[v.list[i]]
                      /\ ToSet(w) = UNION {ToSet(walk[i]) : i \in DOMAIN v.list}
      BY <2>1, <2>3, WalkOfList
    <3>2. Children(v) = {v.list[i] : i \in DOMAIN v.list}
      BY <2>3 DEF Children
    <3>3. \A i \in DOMAIN v.list : ToSet(walk[i]) = Signals(v.list[i])
      BY <1>1, <3>1, <3>2
    <3>4. Signals(v) = UNION {Signals(c) : c \in Children(v)}
      BY <2>3, SignalsUnfold
    <3> QED
      BY <3>1, <3>2, <3>3, <3>4
  <2>4. CASE ~IsMap(v) /\ ~IsList(v)
    <3>1. w = <<>> /\ Children(v) = {}
      BY <2>1, <2>4 DEF WalksBy, Children
    <3>2. ToSet(<<>>) = {}
      BY DEF ToSet
    <3> QED
      BY <2>4, <3>1, <3>2, SignalsUnfold
  <2> QED
    BY <2>2, <2>3, <2>4
<1>2. S = Trees
  <2>1. S \in SUBSET Trees
    OBVIOUS
  <2>2. \A v \in Trees : Children(v) \subseteq S => v \in S
    BY <1>1
  <2> HIDE DEF S
  <2> QED
    BY <2>1, <2>2, TreeInduction
<1> QED
  BY <1>2, WalksUnfold

LEMMA AgreementIs ==
  ASSUME NEW w \in Seq(BOOLEAN)
  PROVE  /\ Agreement(w).known <=> ToSet(w) # {}
         /\ Agreement(w).authenticated <=> ToSet(w) = {TRUE}
<1>1. CASE w = <<>>
  <2>1. ToSet(w) = {} /\ {} # {TRUE}
    BY <1>1 DEF ToSet
  <2>2. ~Agreement(w).known /\ ~Agreement(w).authenticated
    BY <1>1 DEF Agreement, Unknown
  <2> QED
    BY <2>1, <2>2, Zenon
<1>2. CASE w # <<>>
  <2>1. /\ DOMAIN w = 1 .. Len(w) /\ Len(w) \in Nat /\ 1 \in DOMAIN w
        /\ \A i \in DOMAIN w : w[i] \in BOOLEAN
    BY <1>2
  <2>2. CASE \E i \in 2 .. Len(w) : w[i] # w[1]
    <3>1. PICK i \in 2 .. Len(w) : w[i] # w[1]
      BY <2>2
    <3>2. i \in DOMAIN w
      BY <2>1
    <3>3. w[1] \in ToSet(w) /\ w[i] \in ToSet(w)
      BY <2>1, <3>2, Zenon DEF ToSet
    <3>4. Agreement(w) = Known(FALSE)
      BY <1>2, <2>2, Zenon DEF Agreement
    <3>5. ToSet(w) # {TRUE} /\ ToSet(w) # {}
      <4>1. ASSUME ToSet(w) = {TRUE} PROVE FALSE
        <5>1. w[1] = TRUE /\ w[i] = TRUE
          BY <3>3, <4>1, Zenon
        <5>2. w[i] = w[1]
          BY <5>1, Zenon
        <5> QED
          BY <3>1, <5>2, Zenon
      <4> QED
        BY <3>3, <4>1, Zenon
    <3>6. Agreement(w).known /\ ~Agreement(w).authenticated
      BY <3>4 DEF Known
    <3> QED
      BY <3>5, <3>6, Zenon
  <2>3. CASE ~\E i \in 2 .. Len(w) : w[i] # w[1]
    <3>1. Agreement(w) = Known(w[1])
      BY <1>2, <2>3, Zenon DEF Agreement
    <3>2. \A i \in DOMAIN w : i = 1 \/ i \in 2 .. Len(w)
      BY <2>1
    <3>3. \A i \in DOMAIN w : w[i] = w[1]
      BY <2>3, <3>2, Zenon
    <3>4. w[1] \in ToSet(w) /\ \A x \in ToSet(w) : x = w[1]
      BY <2>1, <3>3, Zenon DEF ToSet
    <3>5. CASE w[1] = TRUE
      <4>1. Agreement(w).known /\ Agreement(w).authenticated
        BY <3>1, <3>5 DEF Known
      <4>2. ToSet(w) = {TRUE} /\ ToSet(w) # {}
        BY <3>4, <3>5, Zenon
      <4> QED
        BY <4>1, <4>2, Zenon
    <3>6. CASE w[1] = FALSE
      <4>1. Agreement(w).known /\ ~Agreement(w).authenticated
        BY <3>1, <3>6 DEF Known
      <4>2. ToSet(w) # {TRUE} /\ ToSet(w) # {}
        BY <3>4, <3>6, Zenon
      <4> QED
        BY <4>1, <4>2, Zenon
    <3>7. w[1] = TRUE \/ w[1] = FALSE
      BY <2>1, Zenon
    <3> QED
      BY <3>5, <3>6, <3>7
  <2> QED
    BY <2>2, <2>3
<1> QED
  BY <1>1, <1>2

LEMMA TextIs ==
  ASSUME NEW lines \in Seq(STRING), ParseCursorAuthText(lines).authenticated
  PROVE  \E i \in DOMAIN lines : lines[i] = "yes" /\ \A j \in 1 .. i : lines[j] # "no"
<1> DEFINE telling == {i \in DOMAIN lines : lines[i] \in {"yes", "no"}}
           n == Min(telling)
<1>1. DOMAIN lines = 1 .. Len(lines) /\ Len(lines) \in Nat
  OBVIOUS
<1>2. telling # {}
  BY DEF ParseCursorAuthText, Unknown
<1>3. telling \in SUBSET Nat
  BY <1>1
<1> HIDE DEF telling
<1>4. n \in telling /\ \A k \in telling : n <= k
  <2>1. \E m \in telling : \A k \in telling : ~(k < m)
    BY <1>2, <1>3, LeastNatural
  <2>2. \E m \in telling : \A k \in telling : m <= k
    BY <1>3, <2>1
  <2> QED
    BY <2>2 DEF Min
<1>5. lines[n] = "yes"
  BY <1>2 DEF ParseCursorAuthText, Known, telling
<1> HIDE DEF n
<1>6. \A j \in 1 .. n : lines[j] # "no"
  <2> SUFFICES ASSUME NEW j \in 1 .. n, lines[j] = "no" PROVE FALSE
    OBVIOUS
  <2>1. n \in DOMAIN lines
    BY <1>4 DEF telling
  <2>2. j \in DOMAIN lines /\ j \in telling
    BY <1>1, <2>1 DEF telling
  <2>3. j = n
    BY <1>3, <1>4, <2>1, <2>2, <1>1
  <2> QED
    BY <1>5, <2>3
<1> QED
  BY <1>4, <1>5, <1>6 DEF telling

(* What "agent status" printed is one of the outputs considered, and the    *)
(* record says of it what the walk found.                                   *)
StatusInv ==
  /\ DOMAIN storage = DOMAIN NoStorage
  /\ refresh \in {"about", "done"} => said \in Statuses
  /\ StatusFailClosed

LEMMA StepsOfAuth ==
  ASSUME [Next]_vars
  PROVE  UNCHANGED auth \/ StatusBegin \/ StatusStorage \/ StatusForgotten
<1>1. CASE \E raw \in Raws : Reconfigure(raw)
  BY <1>1 DEF Reconfigure
<1>2. CASE \E record \in Records, now \in Clock : UsageHandle(record, now)
  BY <1>2 DEF UsageHandle
<1>3. CASE \E req \in Requests : CountTokens(req) \/ Execute(req)
  BY <1>3 DEF CountTokens, Execute
<1>4. CASE Refused \/ Shutdown
  BY <1>4 DEF Refused, Shutdown
<1>5. CASE RefreshAuth \/ Refreshing \/ RefreshReturns
  BY <1>5 DEF RefreshAuth, Refreshing, RefreshReturns
<1>6. CASE Unpack \/ Unpacking \/ UnpackReturns
  BY <1>6 DEF Unpack, Unpacking, UnpackReturns
<1>7. CASE Executing \/ OthersStep
  BY <1>7 DEF Executing, ExecuteRunAgent, EnterWorkspace, AcquireSlot, Running,
              RunAgentReturns, ExecuteReturns, OthersStep, OtherAcquires,
              OtherReleases
<1>8. CASE UNCHANGED vars
  BY <1>8 DEF vars
<1> QED
  BY <1>1, <1>2, <1>3, <1>4, <1>5, <1>6, <1>7, <1>8 DEF Next, Executing, OthersStep

LEMMA PrintedFailsClosed ==
  ASSUME StatusInv, NEW out \in Statuses, StatusPrinted(out)
  PROVE  StatusInv'
<1>1. PICK parsed \in ParseCursorAuthStatus(out) :
        storage' = [storage EXCEPT !.known = parsed.known,
                                   !.authenticated = parsed.authenticated]
  BY DEF StatusPrinted
<1>2. said' = out /\ refresh' = "about"
  BY DEF StatusPrinted
<1>3. /\ DOMAIN storage' = DOMAIN NoStorage
      /\ storage'.known = parsed.known /\ storage'.authenticated = parsed.authenticated
  BY <1>1 DEF StatusInv, NoStorage
<1>4. CASE "json" \in DOMAIN out
  <2>1. out.json \in Trees
    BY <1>4, StatusesAssumption
  <2>2. PICK w \in Walks[out.json] : parsed = Agreement(w)
    BY <1>4 DEF ParseCursorAuthStatus
  <2>3. w \in Seq(BOOLEAN) /\ ToSet(w) = Signals(out.json)
    BY <2>1, <2>2, WalkMeetsSignals
  <2>4. /\ parsed.known <=> Signals(out.json) # {}
        /\ parsed.authenticated <=> Signals(out.json) = {TRUE}
    BY <2>2, <2>3, AgreementIs
  <2>5. StatusFailClosed'
    BY <1>2, <1>3, <1>4, <2>4 DEF StatusFailClosed, Signals
  <2> QED
    BY <1>2, <1>3, <2>5 DEF StatusInv
<1>5. CASE "json" \notin DOMAIN out
  <2>1. out.lines \in Seq(STRING) /\ parsed = ParseCursorAuthText(out.lines)
    BY <1>5, StatusesAssumption DEF ParseCursorAuthStatus
  <2>2. parsed.authenticated =>
          \E i \in DOMAIN out.lines :
            /\ out.lines[i] = "yes"
            /\ \A j \in 1 .. i : out.lines[j] # "no"
    BY <2>1, TextIs
  <2>3. StatusFailClosed'
    BY <1>2, <1>3, <1>5, <2>2 DEF StatusFailClosed
  <2> QED
    BY <1>2, <1>3, <2>3 DEF StatusInv
<1> QED
  BY <1>4, <1>5

LEMMA StatusNext ==
  ASSUME StatusInv, [Next]_vars
  PROVE  StatusInv'
<1>1. CASE UNCHANGED auth
  BY <1>1 DEF auth, StatusInv, StatusFailClosed, Signals
<1>2. CASE StatusBegin \/ StatusForgotten
  BY <1>2 DEF StatusBegin, StatusForgotten, StatusInv, StatusFailClosed
<1>3. CASE StatusJson \/ StatusText
  <2>1. CASE \E out \in Statuses : StatusPrinted(out)
    BY <2>1, PrintedFailsClosed
  <2>2. CASE refresh' \in {"text", "failed"} /\ UNCHANGED <<storage, said>>
    BY <2>2 DEF StatusInv, StatusFailClosed
  <2> QED
    BY <1>3, <2>1, <2>2 DEF StatusJson, StatusText
<1>4. CASE About
  <2>1. DOMAIN storage = DOMAIN NoStorage /\ said' = said /\ refresh = "about"
    BY <1>4 DEF About, StatusInv
  <2>2. /\ DOMAIN storage' = DOMAIN NoStorage
        /\ storage'.known = storage.known /\ storage'.authenticated = storage.authenticated
    <3>1. CASE UNCHANGED storage
      BY <2>1, <3>1
    <3>2. ASSUME NEW about \in Abouts,
                 storage' = Enriched(storage, ParseCursorAbout(about))
          PROVE  /\ DOMAIN storage' = DOMAIN NoStorage
                 /\ storage'.known = storage.known
                 /\ storage'.authenticated = storage.authenticated
      BY <2>1, <3>2 DEF Enriched, NoStorage
    <3> QED
      BY <1>4, <3>1, <3>2 DEF About
  <2> QED
    BY <2>1, <2>2 DEF StatusInv, StatusFailClosed, Signals
<1> QED
  BY <1>1, <1>2, <1>3, <1>4, StepsOfAuth DEF StatusStorage

(* Whatever JSON or text the CLI prints, and in whatever order its maps are *)
(* walked, a record says "authenticated" only when everything the output    *)
(* says about it is a yes, or the first line that tells anything is.        *)
THEOREM RecordsFailClosed == Spec => []StatusFailClosed
<1>1. PluginInit => StatusInv
  BY DEF PluginInit, InitAuth, StatusInv, StatusFailClosed
<1>2. StatusInv => StatusFailClosed
  BY DEF StatusInv
<1> QED
  BY <1>1, <1>2, StatusNext, PTL DEF Spec

-----------------------------------------------------------------------------
(* Paths and the lookup of them.                                            *)

(* A lookup ends: with each step there are fewer links left, or fewer names.*)
Later == {q \in Lookups \X Lookups :
            \/ q[1].links < q[2].links
            \/ q[1].links = q[2].links /\ Len(q[1].rest) < Len(q[2].rest)}

LEMMA SmallNumber == \A n \in 0 .. 40 : n \in Nat /\ (n # 0 => n - 1 \in 0 .. 40 /\ n - 1 < n)
OBVIOUS

LEMMA OneName ==
  ASSUME NEW x \in Names
  PROVE  /\ <<x>> \in Seq(Names) /\ Len(<<x>>) = 1 /\ <<x>>[1] = x
         /\ <<x>> = Append(<<>>, x) /\ <<x>> # <<>> /\ Head(<<x>>) = x
         /\ Tail(<<x>>) = <<>>
<1>1. <<x>> \in Seq(Names)
  <2>1. <<>> \in Seq(Names)
    OBVIOUS
  <2>2. Append(<<>>, x) \in Seq(Names)
    BY <2>1
  <2>3. <<x>> = Append(<<>>, x)
    OBVIOUS
  <2> QED
    BY Zenon, <2>2, <2>3
<1>2. Len(<<x>>) = 1 /\ <<x>>[1] = x
  OBVIOUS
<1>3. <<x>> = Append(<<>>, x)
  OBVIOUS
<1>4. <<x>> # <<>> /\ Head(<<x>>) = x
  OBVIOUS
<1>5. Tail(<<x>>) = <<>>
  OBVIOUS
<1> QED
  BY <1>1, <1>2, <1>3, <1>4, <1>5

LEMMA TwoPaths == "no path" \in Names /\ "dest" \in Names /\ "no path" # "dest"
<1>1. "no path" \in Names
  BY DEF Names
<1>2. "dest" \in Names
  BY DEF Names
<1>3. "no path" # "dest"
  OBVIOUS
<1> QED
  BY <1>1, <1>2, <1>3

LEMMA LookupType ==
  ASSUME NEW l \in Lookups
  PROVE  /\ l.dir \in Seq(Names) /\ l.rest \in Seq(Names)
         /\ l.links \in Nat /\ l.links \in 0 .. 40 /\ Len(l.rest) \in Nat
         /\ l = [dir |-> l.dir, rest |-> l.rest, links |-> l.links]
<1>1. l.dir \in Seq(Names) /\ l.rest \in Seq(Names) /\ l.links \in 0 .. 40
  BY DEF Lookups
<1>2. l = [dir |-> l.dir, rest |-> l.rest, links |-> l.links]
  BY DEF Lookups
<1>3. Len(l.rest) \in Nat
  <2> DEFINE s == l.rest
  <2>1. s \in Seq(Names)
    BY <1>1
  <2> HIDE DEF s
  <2>2. Len(s) \in Nat
    BY <2>1
  <2> QED
    BY <2>2 DEF s
<1>4. l.links \in Nat
  BY <1>1, SmallNumber
<1> QED
  BY <1>1, <1>2, <1>3, <1>4

LEMMA LookupMade ==
  ASSUME NEW dir \in Seq(Names), NEW rest \in Seq(Names), NEW links \in 0 .. 40
  PROVE  [dir |-> dir, rest |-> rest, links |-> links] \in Lookups
BY DEF Lookups

(* Sequences without their first or last element, and with one more.        *)
LEMMA SeqParts ==
  ASSUME NEW s \in Seq(Names), s # <<>>
  PROVE  /\ Head(s) \in Names /\ Tail(s) \in Seq(Names) /\ Len(Tail(s)) < Len(s)
         /\ Front(s) \in Seq(Names) /\ Len(Front(s)) = Len(s) - 1
         /\ \A i \in 1 .. Len(s) - 1 : Front(s)[i] = s[i] /\ Tail(s)[i] = s[i + 1]
         /\ Len(Tail(s)) = Len(s) - 1 /\ Len(s) \in Nat \ {0}
         /\ Last(s) \in Names /\ s = Append(Front(s), Last(s))
<1>1. Len(s) \in Nat /\ Len(s) # 0
  OBVIOUS
<1>2. Head(s) \in Names /\ Tail(s) \in Seq(Names) /\ Len(Tail(s)) = Len(s) - 1
  BY <1>1
<1>3. \A i \in 1 .. Len(s) - 1 : Tail(s)[i] = s[i + 1]
  BY <1>1
<1>4. Front(s) \in Seq(Names) /\ Len(Front(s)) = Len(s) - 1
  <2>1. \A i \in 1 .. Len(s) - 1 : s[i] \in Names
    BY <1>1
  <2>2. Len(s) - 1 \in Nat
    BY <1>1
  <2>3. Front(s) = [i \in 1 .. Len(s) - 1 |-> s[i]]
    BY <1>1, <2>2 DEF Front
  <2> QED
    BY <2>1, <2>2, <2>3
<1>5. \A i \in 1 .. Len(s) - 1 : Front(s)[i] = s[i]
  BY <1>1 DEF Front
<1>6. Last(s) \in Names
  BY <1>1 DEF Last
<1>7. s = Append(Front(s), Last(s))
  <2>1. Append(Front(s), Last(s)) \in Seq(Names) /\ Len(Append(Front(s), Last(s))) = Len(s)
    BY <1>1, <1>4, <1>6
  <2>2. \A i \in 1 .. Len(s) : Append(Front(s), Last(s))[i] = s[i]
    BY <1>1, <1>4, <1>5, <1>6 DEF Last
  <2> QED
    BY <2>1, <2>2
<1>8. Len(Tail(s)) < Len(s)
  BY <1>1, <1>2
<1>9. \A i \in 1 .. Len(s) - 1 : Front(s)[i] = s[i] /\ Tail(s)[i] = s[i + 1]
  BY Zenon, <1>3, <1>5
<1>10. Len(s) \in Nat \ {0}
  BY <1>1
<1> QED
  BY Zenon, <1>2, <1>4, <1>6, <1>7, <1>8, <1>9, <1>10

LEMMA LookupsGrounded == Grounded(Lookups, Later)
<1> SUFFICES ASSUME NEW T \in SUBSET Lookups, T # {}
             PROVE  \E x \in T : \A y \in T : ~(<<y, x>> \in Later)
  BY DEF Grounded
<1>1. \A l \in Lookups : l.links \in Nat /\ Len(l.rest) \in Nat
  BY LookupType
<1> DEFINE N == {l.links : l \in T}
<1>2. N \in SUBSET Nat /\ N # {}
  BY <1>1
<1>3. PICK n \in N : \A k \in N : ~(k < n)
  <2> HIDE DEF N
  <2> QED
    BY <1>2, LeastNatural
<1> DEFINE M == {Len(l.rest) : l \in {l \in T : l.links = n}}
<1>4. M \in SUBSET Nat /\ M # {}
  BY <1>1
<1>5. PICK m \in M : \A k \in M : ~(k < m)
  <2> HIDE DEF M
  <2> QED
    BY <1>4, LeastNatural
<1>6. PICK x \in T : x.links = n /\ Len(x.rest) = m
  OBVIOUS
<1>7. ASSUME NEW y \in T, <<y, x>> \in Later PROVE FALSE
  <2>1. y.links < n \/ (y.links = n /\ Len(y.rest) < m)
    BY <1>6, <1>7 DEF Later
  <2> QED
    BY <1>3, <1>5, <2>1
<1> QED
  BY <1>7

(* The targets of links are paths.                                          *)
LinksOK(fs) == \A p \in DOMAIN fs : fs[p].kind = "link" => fs[p].target \in Seq(Names)

LEMMA OnwardIsLater ==
  ASSUME NEW fs, LinksOK(fs), NEW l \in Lookups, l.rest # <<>>, ~Fails(fs, l)
  PROVE  Onward(fs, l) \in Lookups /\ <<Onward(fs, l), l>> \in Later
<1> DEFINE c == Head(l.rest)
           p == Append(l.dir, c)
           To(dir) == [dir |-> dir, rest |-> Tail(l.rest), links |-> l.links]
<1>1. /\ l.dir \in Seq(Names) /\ l.rest \in Seq(Names) /\ l.links \in 0 .. 40
      /\ c \in Names /\ Tail(l.rest) \in Seq(Names)
      /\ Len(Tail(l.rest)) < Len(l.rest)
  BY LookupType, SeqParts
<1>2. ASSUME NEW dir \in Seq(Names)
      PROVE  To(dir) \in Lookups /\ <<To(dir), l>> \in Later
  <2>1. To(dir) \in Lookups
    BY <1>1, LookupMade
  <2>2. To(dir).links = l.links /\ Len(To(dir).rest) < Len(l.rest)
    BY <1>1
  <2> QED
    BY <2>1, <2>2 DEF Later
<1>3. CASE c \in {"/", ".", ".."}
  <2>1. /\ <<>> \in Seq(Names)
        /\ (IF l.dir = <<>> THEN l.dir ELSE Front(l.dir)) \in Seq(Names)
    BY <1>1, SeqParts
  <2>2. \E dir \in Seq(Names) : Onward(fs, l) = To(dir)
    BY <1>1, <1>3, <2>1 DEF Onward
  <2> QED
    BY <1>2, <2>2
<1>4. CASE c \notin {"/", ".", ".."} /\ fs[p].kind # "link"
  <2>1. p \in Seq(Names)
    BY <1>1
  <2>2. Onward(fs, l) = To(p)
    BY <1>4 DEF Onward
  <2> QED
    BY <1>2, <2>1, <2>2
<1>5. CASE c \notin {"/", ".", ".."} /\ fs[p].kind = "link"
  <2>1. p \in DOMAIN fs /\ l.links # 0
    BY <1>5 DEF Fails
  <2>2. fs[p].target \in Seq(Names)
    BY <1>5, <2>1 DEF LinksOK
  <2> DEFINE o == [dir |-> l.dir, rest |-> fs[p].target \o Tail(l.rest),
                   links |-> l.links - 1]
  <2>3. Onward(fs, l) = o
    BY <1>5 DEF Onward
  <2>4. fs[p].target \o Tail(l.rest) \in Seq(Names)
    BY <1>1, <2>2
  <2>5. l.links - 1 \in 0 .. 40 /\ l.links - 1 < l.links
    BY <1>1, <2>1, SmallNumber
  <2>6. o \in Lookups
    BY <1>1, <2>4, <2>5, LookupMade
  <2>7. o.links < l.links
    BY <2>5
  <2> HIDE DEF o
  <2> QED
    BY <2>3, <2>6, <2>7 DEF Later
<1> QED
  BY <1>3, <1>4, <1>5

Follows(fs, f) ==
  f = [l \in Lookups |-> IF l.rest = <<>> THEN l.dir
                         ELSE IF Fails(fs, l) THEN NoPath
                         ELSE f[Onward(fs, l)]]

LEMMA ResolvedChosen ==
  ASSUME NEW fs, NEW at, NEW path
  PROVE  Resolved(fs, at, path)
           = (CHOOSE f : Follows(fs, f))[[dir |-> at, rest |-> path, links |-> 40]]
BY Zenon DEF Resolved, Follows

LEMMA FollowsExists ==
  ASSUME NEW fs, LinksOK(fs)
  PROVE  \E f \in [Lookups -> Seq(Names)] : Follows(fs, f)
<1> DEFINE V == Seq(Names)
           G == [q \in Lookups \X [Lookups -> V] |->
                   IF q[1].rest = <<>> THEN q[1].dir
                   ELSE IF Fails(fs, q[1]) THEN NoPath
                   ELSE q[2][Onward(fs, q[1])]]
<1>1. NoPath \in V /\ \A l \in Lookups : l.dir \in V
  <2>1. NoPath \in Seq(Names)
    BY OneName, TwoPaths DEF NoPath
  <2> QED
    BY <2>1, LookupType
<1>2. V # {}
  BY <1>1
<1> HIDE DEF V
<1>3. \A l \in Lookups : l.rest # <<>> /\ ~Fails(fs, l) =>
        Onward(fs, l) \in Lookups /\ <<Onward(fs, l), l>> \in Later
  BY OnwardIsLater
<1>4. G \in [Lookups \X [Lookups -> V] -> V]
  BY <1>1, <1>3
<1>5. \A l \in Lookups : \A g, h \in [Lookups -> V] :
        (\A y \in Lookups : <<y, l>> \in Later => g[y] = h[y]) => G[<<l, g>>] = G[<<l, h>>]
  BY <1>3
<1>6. PICK f \in [Lookups -> V] : \A l \in Lookups : f[l] = G[<<l, f>>]
  <2> HIDE DEF G
  <2>1. Recursive(Lookups, V, Later, G)
    BY <1>2, <1>4, <1>5, LookupsGrounded DEF Recursive
  <2> QED
    BY <2>1, Recursion
<1>7. \A l \in Lookups : f[l] = IF l.rest = <<>> THEN l.dir
                                ELSE IF Fails(fs, l) THEN NoPath
                                ELSE f[Onward(fs, l)]
  BY <1>6
<1>8. Follows(fs, f)
  BY <1>7 DEF Follows
<1> QED
  BY <1>8 DEF V

Found(fs) == CHOOSE f : Follows(fs, f)

LEMMA FoundIs ==
  ASSUME NEW fs, LinksOK(fs), NEW l \in Lookups
  PROVE  Found(fs)[l] = IF l.rest = <<>> THEN l.dir
                        ELSE IF Fails(fs, l) THEN NoPath
                        ELSE Found(fs)[Onward(fs, l)]
<1>1. Follows(fs, Found(fs))
  BY FollowsExists DEF Found
<1> QED
  BY <1>1 DEF Follows


-----------------------------------------------------------------------------
(* Clean: "/" is left in front alone, and ".." only in front of everything. *)

CleanStep(done, c) ==
  CASE c = "." -> done
    [] c = ".." /\ done = <<"/">> -> done
    [] c = ".." /\ done # <<"/">> /\ done # <<>> /\ Last(done) # ".." -> Front(done)
    [] OTHER -> Append(done, c)

Cleans(path, f) ==
  f = [n \in 0 .. Len(path) |-> IF n = 0 THEN <<>> ELSE CleanStep(f[n - 1], path[n])]

LEMMA CleanChosen ==
  ASSUME NEW path
  PROVE  Clean(path) = (CHOOSE f : Cleans(path, f))[Len(path)]
BY Zenon DEF Clean, Cleans, CleanStep

Tidy ==
  {s \in Seq(Names) : \A i \in 1 .. Len(s) : /\ s[i] = "/" => i = 1
                                             /\ s[i] # "."
                                             /\ s[i] = ".." /\ i # 1 => s[i - 1] = ".."}

LEMMA AppendName ==
  ASSUME NEW s \in Seq(Names), NEW c \in Names
  PROVE  /\ Append(s, c) \in Seq(Names) /\ Len(Append(s, c)) = Len(s) + 1
         /\ Append(s, c)[Len(s) + 1] = c
         /\ \A i \in 1 .. Len(s) : Append(s, c)[i] = s[i]
         /\ Len(s) \in Nat /\ Append(s, c) # <<>>
         /\ s # <<>> => Head(Append(s, c)) = Head(s)
<1>1. Append(s, c) \in Seq(Names) /\ Len(Append(s, c)) = Len(s) + 1 /\ Len(s) \in Nat
  OBVIOUS
<1>2. Append(s, c)[Len(s) + 1] = c /\ \A i \in 1 .. Len(s) : Append(s, c)[i] = s[i]
  OBVIOUS
<1>3. Append(s, c) # <<>>
  OBVIOUS
<1>4. s # <<>> => Head(Append(s, c)) = Head(s)
  OBVIOUS
<1> QED
  BY Zenon, <1>1, <1>2, <1>3, <1>4

LEMMA CleanStepTidy ==
  ASSUME NEW s \in Tidy, NEW c \in Names, c = "/" => s = <<>>
  PROVE  CleanStep(s, c) \in Tidy
<1>1. s \in Seq(Names) /\ Len(s) \in Nat
  BY DEF Tidy
<1>2. CASE CleanStep(s, c) = s
  BY <1>2
<1>3. CASE s # <<>> /\ CleanStep(s, c) = Front(s)
  <2>1. /\ Front(s) \in Seq(Names) /\ Len(Front(s)) = Len(s) - 1
        /\ \A i \in 1 .. Len(s) - 1 : Front(s)[i] = s[i]
    BY <1>1, <1>3, SeqParts
  <2> QED
    BY <1>1, <1>3, <2>1 DEF Tidy
<1>4. CASE c # "." /\ CleanStep(s, c) = Append(s, c) /\ (c = ".." => s = <<>> \/ Last(s) = "..")
  <2> DEFINE t == Append(s, c)
  <2>1. /\ t \in Seq(Names) /\ Len(t) = Len(s) + 1 /\ t[Len(s) + 1] = c
        /\ \A i \in 1 .. Len(s) : t[i] = s[i]
    BY <1>1, AppendName
  <2>2. s = <<>> => Len(s) = 0
    OBVIOUS
  <2>3. s # <<>> => Last(s) = s[Len(s)] /\ Len(s) > 0
    BY <1>1 DEF Last
  <2> HIDE DEF t
  <2>4. ASSUME NEW i \in 1 .. Len(t)
        PROVE  t[i] = "/" => i = 1
    BY <1>1, <1>4, <2>1, <2>2 DEF Tidy
  <2>5. ASSUME NEW i \in 1 .. Len(t)
        PROVE  t[i] # "."
    BY <1>1, <1>4, <2>1 DEF Tidy
  <2>6. ASSUME NEW i \in 1 .. Len(t), t[i] = "..", i # 1
        PROVE  t[i - 1] = ".."
    <3>1. CASE i = Len(s) + 1
      BY <1>1, <1>4, <2>1, <2>2, <2>3, <2>6, <3>1
    <3>2. CASE i \in 1 .. Len(s)
      BY <1>1, <2>1, <2>6, <3>2 DEF Tidy
    <3> QED
      BY <1>1, <2>1, <3>1, <3>2
  <2>7. t \in Tidy
    BY <2>1, <2>4, <2>5, <2>6 DEF Tidy
  <2> QED
    BY <1>4, <2>7 DEF t
<1> QED
  <2>1. \/ CleanStep(s, c) = s
        \/ s # <<>> /\ CleanStep(s, c) = Front(s)
        \/ c # "." /\ CleanStep(s, c) = Append(s, c) /\ (c = ".." => s = <<>> \/ Last(s) = "..")
    BY DEF CleanStep
  <2> QED
    BY <1>2, <1>3, <1>4, <2>1

LEMMA CleanIsTidy ==
  ASSUME NEW path, IsPath(path)
  PROVE  Clean(path) \in Tidy
<1> DEFINE D == 0 .. Len(path)
           R == {q \in D \X D : q[1] < q[2]}
           G == [q \in D \X [D -> Tidy] |->
                   IF q[1] = 0 THEN <<>>
                   ELSE IF q[1] = 1 THEN CleanStep(<<>>, path[1])
                   ELSE CleanStep(q[2][q[1] - 1], path[q[1]])]
<1>1. path \in Seq(Names) /\ Len(path) \in Nat
  BY DEF IsPath
<1>2. \A n \in D : n # 0 => path[n] \in Names /\ n - 1 \in D /\ (n # 1 => path[n] # "/")
  BY <1>1 DEF IsPath
<1>3. <<>> \in Tidy
  BY DEF Tidy
<1>4. G \in [D \X [D -> Tidy] -> Tidy]
  <2> SUFFICES ASSUME NEW n \in D, NEW g \in [D -> Tidy]
               PROVE  (IF n = 0 THEN <<>>
                       ELSE IF n = 1 THEN CleanStep(<<>>, path[1])
                       ELSE CleanStep(g[n - 1], path[n])) \in Tidy
    OBVIOUS
  <2> HIDE DEF D
  <2>1. CASE n = 0
    BY <1>3, <2>1
  <2>2. CASE n = 1
    BY <1>2, <1>3, <2>2, CleanStepTidy
  <2>3. CASE n # 0 /\ n # 1
    <3>1. g[n - 1] \in Tidy /\ path[n] \in Names /\ path[n] # "/"
      BY <1>2, <2>3
    <3> QED
      BY <2>3, <3>1, CleanStepTidy
  <2> QED
    BY <2>1, <2>2, <2>3
<1>5. Grounded(D, R)
  <2> DEFINE rank == [n \in D |-> n]
  <2>1. rank \in [D -> Nat] /\ \A x, y \in D : <<y, x>> \in R => rank[y] < rank[x]
    BY <1>1
  <2> HIDE DEF D, R, rank
  <2> QED
    BY <2>1, RankGrounds
<1>6. ASSUME NEW n \in D, NEW g \in [D -> Tidy], NEW h \in [D -> Tidy],
             \A y \in D : <<y, n>> \in R => g[y] = h[y]
      PROVE  G[<<n, g>>] = G[<<n, h>>]
  <2>1. n # 0 => g[n - 1] = h[n - 1]
    BY <1>1, <1>2, <1>6
  <2> QED
    BY <2>1
<1>7. PICK f \in [D -> Tidy] : \A n \in D : f[n] = G[<<n, f>>]
  <2> HIDE DEF D, R, G
  <2>1. Recursive(D, Tidy, R, G)
    BY <1>3, <1>4, <1>5, <1>6 DEF Recursive
  <2> QED
    BY <2>1, Recursion
<1>8. \A n \in D : f[n] = IF n = 0 THEN <<>> ELSE CleanStep(f[n - 1], path[n])
  <2>1. 0 \in D /\ f[0] = <<>>
    BY <1>1, <1>7
  <2>2. \A n \in D : f[n] = IF n = 0 THEN <<>>
                            ELSE IF n = 1 THEN CleanStep(<<>>, path[1])
                            ELSE CleanStep(f[n - 1], path[n])
    BY <1>7
  <2> HIDE DEF D
  <2>3. 1 - 1 = 0
    OBVIOUS
  <2> QED
    BY <2>1, <2>2, <2>3
<1>9. Cleans(path, f)
  BY <1>8 DEF Cleans
<1> DEFINE F == CHOOSE g : Cleans(path, g)
<1>10. Cleans(path, F)
  BY <1>9
<1> HIDE DEF F
<1>11. \A n \in D : F[n] = IF n = 0 THEN <<>> ELSE CleanStep(F[n - 1], path[n])
  BY <1>10 DEF Cleans
<1> DEFINE S == {n \in D : F[n] \notin Tidy}
<1>12. S = {}
  <2> SUFFICES ASSUME S # {} PROVE FALSE
    OBVIOUS
  <2>1. S \in SUBSET Nat
    BY <1>1
  <2>2. PICK n \in S : \A k \in S : ~(k < n)
    <3> HIDE DEF S
    <3> QED
      BY <2>1, LeastNatural
  <2>3. n \in D /\ F[n] \notin Tidy
    OBVIOUS
  <2>4. n # 0
    BY <1>3, <1>11, <2>3
  <2>5. n - 1 \in D /\ F[n - 1] \in Tidy
    BY <1>1, <2>2, <2>4
  <2>6. n = 1 => F[n - 1] = <<>>
    BY <1>1, <1>11
  <2>7. CleanStep(F[n - 1], path[n]) \in Tidy
    BY <1>2, <2>3, <2>4, <2>5, <2>6, CleanStepTidy
  <2> QED
    BY <1>11, <2>3, <2>4, <2>7
<1>13. F[Len(path)] \in Tidy
  BY <1>1, <1>12
<1> QED
  BY <1>13, CleanChosen DEF F

(* What safeArchivePath accepts has neither "/" nor ".." nor ".".           *)
Plain == {s \in Seq(Names) : \A i \in 1 .. Len(s) : s[i] \notin {"/", ".", ".."}}

LEMMA SafeIsPlain ==
  ASSUME NEW name, IsPath(name), SafeArchivePath(name) # NoPath
  PROVE  /\ SafeArchivePath(name) = Clean(name) /\ Clean(name) \in Plain
         /\ Clean(name) # <<>> /\ Clean(name) # NoPath
<1> DEFINE s == Clean(name)
<1>1. s \in Tidy
  BY CleanIsTidy
<1>2. SafeArchivePath(name) = s /\ s # <<>> /\ Head(s) \notin {"/", ".."}
  BY DEF SafeArchivePath
<1> HIDE DEF s
<1>3. s \in Seq(Names) /\ Len(s) \in Nat /\ s[1] \notin {"/", ".."}
  BY <1>1, <1>2 DEF Tidy
<1> DEFINE S == {i \in 1 .. Len(s) : s[i] = ".."}
<1>4. S = {}
  <2> SUFFICES ASSUME S # {} PROVE FALSE
    OBVIOUS
  <2>1. S \in SUBSET Nat
    BY <1>3
  <2>2. PICK n \in S : \A k \in S : ~(k < n)
    <3> HIDE DEF S
    <3> QED
      BY <2>1, LeastNatural
  <2>3. n \in 1 .. Len(s) /\ s[n] = ".." /\ n # 1
    BY <1>3
  <2>4. s[n - 1] = ".." /\ n - 1 \in 1 .. Len(s)
    BY <1>1, <1>3, <2>3 DEF Tidy
  <2> QED
    BY <2>2, <2>3, <2>4
<1>5. ASSUME NEW i \in 1 .. Len(s)
      PROVE  s[i] \notin {"/", ".", ".."}
  BY <1>1, <1>3, <1>4 DEF Tidy
<1>6. s \in Plain
  BY <1>3, <1>5 DEF Plain
<1> QED
  BY <1>2, <1>6 DEF s


-----------------------------------------------------------------------------
(* The tree stays below Dest.                                               *)

Below == {p \in Seq(Names) : p # <<>> /\ Head(p) = "dest"}

(* Paths that never lead up, like the targets of links.                     *)
Calm == {s \in Seq(Names) : \A i \in 1 .. Len(s) : s[i] \notin {"/", ".."}}

Nodes == {Dir} \cup [kind : {"file"}, of : Nat] \cup [kind : {"link"}, target : Calm]

FileTrees == UNION {[S -> Nodes] : S \in SUBSET ({<<>>} \cup Below)}

Grown(fs, new) ==
  \A p \in DOMAIN fs : p \in DOMAIN new /\ new[p] = fs[p]

LEMMA NodeKinds ==
  /\ \A node \in Nodes : node.kind = "link" => node.target \in Calm
  /\ Dir \in Nodes /\ Dir.kind # "link"
  /\ \A i \in Nat : [kind |-> "file", of |-> i] \in Nodes
  /\ \A s \in Calm : [kind |-> "link", target |-> s] \in Nodes
<1>1. \A node \in Nodes : node.kind = "link" => node.target \in Calm
  BY DEF Nodes, Dir
<1>2. Dir \in Nodes /\ Dir.kind # "link"
  BY DEF Nodes, Dir
<1>3. \A i \in Nat : [kind |-> "file", of |-> i] \in Nodes
  BY DEF Nodes
<1>4. \A s \in Calm : [kind |-> "link", target |-> s] \in Nodes
  BY DEF Nodes
<1> QED
  BY <1>1, <1>2, <1>3, <1>4

LEMMA TreeHas ==
  ASSUME NEW fs \in FileTrees
  PROVE  /\ \A p \in DOMAIN fs : p = <<>> \/ p \in Below
         /\ \A p \in DOMAIN fs : fs[p] \in Nodes
<1>1. PICK S \in SUBSET ({<<>>} \cup Below) : fs \in [S -> Nodes]
  BY DEF FileTrees
<1> QED
  BY <1>1

LEMMA TreeLinks ==
  ASSUME NEW fs \in FileTrees
  PROVE  LinksOK(fs) /\ \A p \in DOMAIN fs : fs[p].kind = "link" => fs[p].target \in Calm
<1>1. \A p \in DOMAIN fs : fs[p].kind = "link" => fs[p].target \in Calm
  BY TreeHas, NodeKinds
<1>2. \A s \in Calm : s \in Seq(Names)
  BY DEF Calm
<1> QED
  BY <1>1, <1>2 DEF LinksOK

LEMMA WithIs ==
  ASSUME NEW fs \in FileTrees, NEW p \in Below, NEW node \in Nodes, p \notin DOMAIN fs
  PROVE  /\ With(fs, p, node) \in FileTrees /\ Grown(fs, With(fs, p, node))
         /\ p \in DOMAIN With(fs, p, node) /\ With(fs, p, node)[p] = node
<1> DEFINE new == With(fs, p, node)
           S == DOMAIN fs \cup {p}
<1>1. new = [q \in S |-> IF q \in DOMAIN fs THEN fs[q] ELSE node]
  BY DEF With
<1>2. S \in SUBSET ({<<>>} \cup Below)
  BY TreeHas
<1>3. \A q \in S : (IF q \in DOMAIN fs THEN fs[q] ELSE node) \in Nodes
  BY TreeHas
<1>4. new \in [S -> Nodes]
  BY <1>1, <1>3
<1>5. new \in FileTrees
  BY <1>2, <1>4 DEF FileTrees
<1> QED
  BY <1>1, <1>5 DEF Grown

LEMMA BelowIs ==
  /\ Dest \in Below /\ NoPath \notin Below /\ NoPath # <<>>
  /\ \A p \in Below : p \in Seq(Names) /\ p # <<>> /\ Head(p) = "dest" /\ p # NoPath
  /\ \A p \in Below : \A c \in Names : Append(p, c) \in Below
<1>1. Dest \in Below
  BY OneName, TwoPaths DEF Below, Dest
<1>2. NoPath \notin Below /\ NoPath # <<>>
  BY OneName, TwoPaths DEF Below, NoPath
<1>3. \A p \in Below : p \in Seq(Names) /\ p # <<>> /\ Head(p) = "dest"
  BY DEF Below
<1>4. \A p \in Below : \A c \in Names : Append(p, c) \in Below
  BY AppendName DEF Below
<1> QED
  BY <1>1, <1>2, <1>3, <1>4

(* A lookup that starts below Dest and never goes up ends below Dest.       *)
CalmLookups == {l \in Lookups : l.dir \in Below /\ l.rest \in Calm}

LEMMA CalmParts ==
  ASSUME NEW s \in Calm, s # <<>>
  PROVE  Head(s) \in Names /\ Head(s) \notin {"/", ".."} /\ Tail(s) \in Calm
<1>1. s \in Seq(Names) /\ Len(s) \in Nat \ {0} /\ Head(s) = s[1]
  BY SeqParts DEF Calm
<1>2. /\ Tail(s) \in Seq(Names) /\ Len(Tail(s)) = Len(s) - 1 /\ Head(s) \in Names
      /\ \A i \in 1 .. Len(s) - 1 : Tail(s)[i] = s[i + 1]
  BY <1>1, SeqParts
<1>3. \A i \in 1 .. Len(Tail(s)) : Tail(s)[i] \notin {"/", ".."}
  BY <1>1, <1>2 DEF Calm
<1>4. Head(s) \notin {"/", ".."}
  BY <1>1 DEF Calm
<1> QED
  BY <1>2, <1>3, <1>4 DEF Calm

LEMMA CalmJoined ==
  ASSUME NEW s \in Calm, NEW t \in Calm
  PROVE  s \o t \in Calm
<1>1. s \in Seq(Names) /\ t \in Seq(Names) /\ Len(s) \in Nat /\ Len(t) \in Nat
  BY DEF Calm
<1>2. s \o t \in Seq(Names) /\ Len(s \o t) = Len(s) + Len(t)
  BY <1>1
<1>3. \A i \in 1 .. Len(s) + Len(t) :
        (s \o t)[i] = IF i <= Len(s) THEN s[i] ELSE t[i - Len(s)]
  BY <1>1
<1>4. \A i \in 1 .. Len(s) + Len(t) : (s \o t)[i] \notin {"/", ".."}
  BY <1>1, <1>3 DEF Calm
<1> QED
  BY <1>2, <1>4 DEF Calm

LEMMA OnwardIsCalm ==
  ASSUME NEW fs \in FileTrees, NEW l \in CalmLookups, l.rest # <<>>, ~Fails(fs, l)
  PROVE  Onward(fs, l) \in CalmLookups
<1> DEFINE c == Head(l.rest)
           p == Append(l.dir, c)
           o == Onward(fs, l)
<1>1. l \in Lookups /\ l.dir \in Below /\ l.rest \in Calm
  BY DEF CalmLookups
<1>2. o \in Lookups
  BY <1>1, OnwardIsLater, TreeLinks
<1>3. c \in Names /\ c \notin {"/", ".."} /\ Tail(l.rest) \in Calm
  BY <1>1, CalmParts
<1>4. CASE c = "."
  <2>1. o.dir = l.dir /\ o.rest = Tail(l.rest)
    BY <1>4 DEF Onward
  <2> HIDE DEF o
  <2> QED
    BY <1>1, <1>2, <1>3, <2>1 DEF CalmLookups, o
<1>5. CASE c # "." /\ fs[p].kind # "link"
  <2>1. o.dir = p /\ o.rest = Tail(l.rest)
    BY <1>3, <1>5 DEF Onward
  <2>2. p \in Below
    BY <1>1, <1>3, BelowIs
  <2> HIDE DEF o
  <2> QED
    BY <1>1, <1>2, <1>3, <2>1, <2>2 DEF CalmLookups, o
<1>6. CASE c # "." /\ fs[p].kind = "link"
  <2>1. o.dir = l.dir /\ o.rest = fs[p].target \o Tail(l.rest)
    BY <1>3, <1>6 DEF Onward
  <2>2. p \in DOMAIN fs
    BY <1>3, <1>6 DEF Fails
  <2>3. fs[p].target \o Tail(l.rest) \in Calm
    BY <1>3, <1>6, <2>2, TreeLinks, CalmJoined
  <2> HIDE DEF o
  <2> QED
    BY <1>1, <1>2, <2>1, <2>3 DEF CalmLookups, o
<1> QED
  BY <1>4, <1>5, <1>6

LEMMA FoundBelow ==
  ASSUME NEW fs \in FileTrees, NEW l \in CalmLookups
  PROVE  Found(fs)[l] = NoPath \/ Found(fs)[l] \in Below
<1> DEFINE T == {k \in CalmLookups : ~(Found(fs)[k] = NoPath \/ Found(fs)[k] \in Below)}
<1> SUFFICES ASSUME T # {} PROVE FALSE
  OBVIOUS
<1>1. T \in SUBSET Lookups
  BY DEF CalmLookups
<1>2. PICK x \in T : \A y \in T : ~(<<y, x>> \in Later)
  <2> HIDE DEF T
  <2> QED
    BY <1>1, LookupsGrounded DEF Grounded
<1>3. x \in CalmLookups /\ x \in Lookups /\ x.dir \in Below
  BY DEF CalmLookups
<1>4. Found(fs)[x] = IF x.rest = <<>> THEN x.dir
                     ELSE IF Fails(fs, x) THEN NoPath
                     ELSE Found(fs)[Onward(fs, x)]
  BY <1>3, TreeLinks, FoundIs
<1>5. x.rest # <<>> /\ ~Fails(fs, x)
  BY <1>3, <1>4
<1>6. Onward(fs, x) \in CalmLookups /\ <<Onward(fs, x), x>> \in Later
  BY <1>3, <1>5, TreeLinks, OnwardIsCalm, OnwardIsLater
<1> QED
  BY <1>2, <1>4, <1>5, <1>6

(* Resolved, as it is used: below Dest.                                     *)
From(path) == [dir |-> Dest, rest |-> path, links |-> 40]

LEMMA PlainIsCalm == Plain \subseteq Calm /\ Calm \subseteq Seq(Names)
BY DEF Plain, Calm

LEMMA ResolvedIs ==
  ASSUME NEW fs \in FileTrees, NEW path \in Calm
  PROVE  /\ From(path) \in CalmLookups
         /\ Resolved(fs, Dest, path) = Found(fs)[From(path)]
         /\ Resolved(fs, Dest, path) = NoPath \/ Resolved(fs, Dest, path) \in Below
<1>1. 40 \in 0 .. 40
  OBVIOUS
<1>2. From(path) \in Lookups
  BY <1>1, BelowIs, PlainIsCalm, LookupMade DEF From
<1>3. From(path).dir = Dest /\ From(path).rest = path
  BY DEF From
<1>4. From(path) \in CalmLookups
  BY <1>2, <1>3, BelowIs DEF CalmLookups
<1>5. Resolved(fs, Dest, path) = Found(fs)[From(path)]
  BY ResolvedChosen DEF Found, From
<1> QED
  BY <1>4, <1>5, FoundBelow


-----------------------------------------------------------------------------
(* What was found is found again when the tree has grown.                   *)
LEMMA FoundStays ==
  ASSUME NEW fs \in FileTrees, NEW new \in FileTrees, Grown(fs, new),
         NEW l \in Lookups, Found(fs)[l] # NoPath
  PROVE  Found(new)[l] = Found(fs)[l]
<1> DEFINE T == {k \in Lookups : Found(fs)[k] # NoPath /\ Found(new)[k] # Found(fs)[k]}
<1> SUFFICES ASSUME T # {} PROVE FALSE
  OBVIOUS
<1>1. PICK x \in T : \A y \in T : ~(<<y, x>> \in Later)
  <2>1. T \in SUBSET Lookups
    OBVIOUS
  <2> HIDE DEF T
  <2> QED
    BY <2>1, LookupsGrounded DEF Grounded
<1>2. x \in Lookups /\ Found(fs)[x] # NoPath /\ Found(new)[x] # Found(fs)[x]
  OBVIOUS
<1>3. /\ Found(fs)[x] = IF x.rest = <<>> THEN x.dir
                        ELSE IF Fails(fs, x) THEN NoPath
                        ELSE Found(fs)[Onward(fs, x)]
      /\ Found(new)[x] = IF x.rest = <<>> THEN x.dir
                         ELSE IF Fails(new, x) THEN NoPath
                         ELSE Found(new)[Onward(new, x)]
  BY <1>2, TreeLinks, FoundIs
<1>4. x.rest # <<>> /\ ~Fails(fs, x)
  BY <1>2, <1>3
<1> DEFINE c == Head(x.rest)
           p == Append(x.dir, c)
<1>5. c \notin {"/", ".", ".."} => p \in DOMAIN fs /\ p \in DOMAIN new /\ new[p] = fs[p]
  BY <1>4 DEF Fails, Grown
<1>6. ~Fails(new, x)
  BY <1>4, <1>5 DEF Fails
<1>7. Onward(new, x) = Onward(fs, x)
  BY <1>5 DEF Onward
<1>8. Onward(fs, x) \in Lookups /\ <<Onward(fs, x), x>> \in Later
  BY <1>2, <1>4, TreeLinks, OnwardIsLater
<1> QED
  BY <1>1, <1>2, <1>3, <1>4, <1>6, <1>7, <1>8

(* A name after a path that is found: the node of that name in the          *)
(* directory found.                                                         *)
LEMMA AppendJoins ==
  ASSUME NEW s \in Seq(Names), NEW t \in Seq(Names), NEW c \in Names
  PROVE  s \o Append(t, c) = Append(s \o t, c)
OBVIOUS

LEMMA AppendParts ==
  ASSUME NEW s \in Seq(Names), s # <<>>, NEW c \in Names
  PROVE  Head(Append(s, c)) = Head(s) /\ Tail(Append(s, c)) = Append(Tail(s), c)
OBVIOUS

And(l, c) == [dir |-> l.dir, rest |-> Append(l.rest, c), links |-> l.links]

LEMMA OnwardAnd ==
  ASSUME NEW fs \in FileTrees, NEW l \in Lookups, NEW c \in Names,
         l.rest # <<>>, ~Fails(fs, l)
  PROVE  ~Fails(fs, And(l, c)) /\ Onward(fs, And(l, c)) = And(Onward(fs, l), c)
<1> DEFINE k == And(l, c)
           h == Head(l.rest)
           p == Append(l.dir, h)
<1>1. l.rest \in Seq(Names) /\ Tail(l.rest) \in Seq(Names)
  BY LookupType, SeqParts
<1>2. k.dir = l.dir /\ k.links = l.links /\ Head(k.rest) = h /\ Tail(k.rest) = Append(Tail(l.rest), c)
  BY <1>1, AppendParts DEF And
<1> HIDE DEF k
<1>3. ~Fails(fs, k)
  BY <1>2 DEF Fails
<1>4. CASE h \in {"/", ".", ".."} \/ fs[p].kind # "link"
  <2>1. PICK dir : /\ Onward(fs, l) = [dir |-> dir, rest |-> Tail(l.rest), links |-> l.links]
                   /\ Onward(fs, k) = [dir |-> dir, rest |-> Tail(k.rest), links |-> k.links]
    <3>1. CASE h = "/"
      BY <1>2, <3>1 DEF Onward
    <3>2. CASE h = "."
      BY <1>2, <3>2 DEF Onward
    <3>3. CASE h = ".."
      BY <1>2, <3>3 DEF Onward
    <3>4. CASE h \notin {"/", ".", ".."}
      BY <1>2, <1>4, <3>4 DEF Onward
    <3> QED
      BY <3>1, <3>2, <3>3, <3>4
  <2>2. And(Onward(fs, l), c) = [dir |-> dir, rest |-> Append(Tail(l.rest), c),
                                links |-> l.links]
    BY <2>1 DEF And
  <2>3. Onward(fs, k) = And(Onward(fs, l), c)
    BY <1>2, <2>1, <2>2
  <2> QED
    BY <1>3, <2>3 DEF k
<1>5. CASE h \notin {"/", ".", ".."} /\ fs[p].kind = "link"
  <2>1. fs[p].target \in Seq(Names)
    BY <1>5, TreeLinks DEF Fails, LinksOK
  <2>2. Onward(fs, l) = [dir |-> l.dir, rest |-> fs[p].target \o Tail(l.rest),
                         links |-> l.links - 1]
    BY <1>5 DEF Onward
  <2>3. Onward(fs, k) = [dir |-> l.dir, rest |-> fs[p].target \o Append(Tail(l.rest), c),
                         links |-> l.links - 1]
    BY <1>2, <1>5 DEF Onward
  <2>4. fs[p].target \o Append(Tail(l.rest), c) = Append(fs[p].target \o Tail(l.rest), c)
    BY <1>1, <2>1, AppendJoins
  <2>5. And(Onward(fs, l), c)
          = [dir |-> l.dir, rest |-> Append(fs[p].target \o Tail(l.rest), c),
             links |-> l.links - 1]
    BY <2>2 DEF And
  <2>6. Onward(fs, k) = And(Onward(fs, l), c)
    BY <2>3, <2>4, <2>5
  <2> QED
    BY <1>3, <2>6 DEF k
<1> QED
  BY <1>4, <1>5

LEMMA FoundAnd ==
  ASSUME NEW fs \in FileTrees, NEW l \in Lookups, NEW c \in Names,
         c \notin {"/", ".", ".."}, Found(fs)[l] # NoPath,
         Append(Found(fs)[l], c) \in DOMAIN fs, fs[Append(Found(fs)[l], c)].kind # "link"
  PROVE  Found(fs)[And(l, c)] = Append(Found(fs)[l], c)
<1> DEFINE Wrong(k) == /\ Found(fs)[k] = Found(fs)[l]
                       /\ Found(fs)[And(k, c)] # Append(Found(fs)[l], c)
           T == {k \in Lookups : Wrong(k)}
<1> SUFFICES ASSUME T # {} PROVE FALSE
  OBVIOUS
<1>1. PICK x \in T : \A y \in T : ~(<<y, x>> \in Later)
  <2>1. T \in SUBSET Lookups
    OBVIOUS
  <2> HIDE DEF T
  <2> QED
    BY <2>1, LookupsGrounded DEF Grounded
<1>2. x \in Lookups /\ Found(fs)[x] = Found(fs)[l] /\ Found(fs)[And(x, c)] # Append(Found(fs)[l], c)
  OBVIOUS
<1>3. /\ x.dir \in Seq(Names) /\ x.rest \in Seq(Names) /\ x.links \in 0 .. 40
      /\ And(x, c).rest = Append(x.rest, c) /\ Append(x.rest, c) # <<>>
      /\ Append(x.rest, c) \in Seq(Names)
  BY <1>2, LookupType, AppendName DEF And
<1>4. And(x, c) \in Lookups
  BY <1>3, LookupMade DEF And
<1>5. Found(fs)[x] = IF x.rest = <<>> THEN x.dir
                     ELSE IF Fails(fs, x) THEN NoPath
                     ELSE Found(fs)[Onward(fs, x)]
  BY <1>2, TreeLinks, FoundIs
<1>6. Found(fs)[And(x, c)] = IF Fails(fs, And(x, c)) THEN NoPath
                             ELSE Found(fs)[Onward(fs, And(x, c))]
  BY <1>3, <1>4, TreeLinks, FoundIs
<1>7. CASE x.rest = <<>>
  <2> DEFINE k == And(x, c)
             p == Append(x.dir, c)
             o == [dir |-> p, rest |-> <<>>, links |-> x.links]
  <2>1. k.dir = x.dir /\ Head(k.rest) = c /\ Tail(k.rest) = <<>> /\ k.links = x.links
    BY <1>7, OneName DEF And
  <2>2. p \in DOMAIN fs /\ fs[p].kind # "link" /\ Found(fs)[l] = x.dir
    BY <1>2, <1>5, <1>7
  <2> HIDE DEF k
  <2>3. ~Fails(fs, k) /\ Onward(fs, k) = o
    BY <2>1, <2>2 DEF Fails, Onward
  <2>4. o \in Lookups
    <3>1. p \in Seq(Names) /\ <<>> \in Seq(Names)
      BY <1>3, AppendName
    <3> QED
      BY <1>3, <3>1, LookupMade
  <2>5. Found(fs)[o] = p
    BY <2>4, TreeLinks, FoundIs
  <2> QED
    BY <1>2, <1>6, <2>2, <2>3, <2>5 DEF k
<1>8. CASE x.rest # <<>>
  <2>1. ~Fails(fs, x) /\ Found(fs)[Onward(fs, x)] = Found(fs)[l]
    BY <1>2, <1>5, <1>8
  <2>2. Onward(fs, x) \in Lookups /\ <<Onward(fs, x), x>> \in Later
    BY <1>2, <1>8, <2>1, TreeLinks, OnwardIsLater
  <2>3. Found(fs)[And(Onward(fs, x), c)] = Append(Found(fs)[l], c)
    BY <1>1, <2>1, <2>2
  <2> QED
    BY <1>2, <1>6, <1>8, <2>1, <2>3, OnwardAnd
<1> QED
  BY <1>7, <1>8

(* A node made under the name c in the directory that a path leads to.      *)
LEMMA MadeIsFound ==
  ASSUME NEW fs \in FileTrees, NEW path \in Calm, NEW c \in Names,
         c \notin {"/", ".", ".."}, NEW d, d = Resolved(fs, Dest, path), d # NoPath,
         NEW node \in Nodes, node.kind # "link", Append(d, c) \notin DOMAIN fs
  PROVE  Resolved(With(fs, Append(d, c), node), Dest, Append(path, c)) = Append(d, c)
<1> DEFINE p == Append(d, c)
           new == With(fs, p, node)
<1>1. d = Found(fs)[From(path)] /\ From(path) \in Lookups /\ d \in Below
  BY ResolvedIs DEF CalmLookups
<1>2. p \in Below
  BY <1>1, BelowIs
<1>3. new \in FileTrees /\ Grown(fs, new) /\ p \in DOMAIN new /\ new[p] = node
  BY <1>2, WithIs
<1>4. Found(new)[From(path)] = d
  BY <1>1, <1>3, FoundStays
<1> HIDE DEF new
<1>5. Found(new)[And(From(path), c)] = p
  BY <1>1, <1>3, <1>4, FoundAnd
<1>6. And(From(path), c) = From(Append(path, c))
  BY DEF And, From
<1>7. Resolved(new, Dest, Append(path, c)) = Found(new)[From(Append(path, c))]
  BY ResolvedChosen DEF Found, From
<1> QED
  BY <1>5, <1>6, <1>7 DEF new

LEMMA ResolvedStays ==
  ASSUME NEW fs \in FileTrees, NEW new \in FileTrees, Grown(fs, new), NEW path \in Calm,
         Resolved(fs, Dest, path) # NoPath
  PROVE  Resolved(new, Dest, path) = Resolved(fs, Dest, path)
BY ResolvedIs, FoundStays DEF CalmLookups


-----------------------------------------------------------------------------
(* os.MkdirAll: the tree grows below Dest, and the path leads to what it    *)
(* returns.                                                                 *)

MakeOne(made, path, n) ==
  LET p == Append(made.at, path[n])
      r == Resolved(made.fs, Dest, SubSeq(path, 1, n))
  IN IF made.at = NoPath THEN made
     ELSE IF p \notin DOMAIN made.fs
     THEN [fs |-> With(made.fs, p, Dir), at |-> p]
     ELSE IF r # NoPath /\ made.fs[r] = Dir
     THEN [fs |-> made.fs, at |-> r]
     ELSE [fs |-> made.fs, at |-> NoPath]

Makes(fs, path, f) ==
  f = [n \in 0 .. Len(path) |-> IF n = 0 THEN [fs |-> fs, at |-> Dest]
                                ELSE MakeOne(f[n - 1], path, n)]

LEMMA MkdirAllChosen ==
  ASSUME NEW fs, NEW path
  PROVE  MkdirAll(fs, path) = (CHOOSE f : Makes(fs, path, f))[Len(path)]
BY Zenon DEF MkdirAll, Makes, MakeOne

LEMMA PlainPrefixes ==
  ASSUME NEW path \in Plain
  PROVE  /\ path \in Seq(Names) /\ Len(path) \in Nat
         /\ SubSeq(path, 1, 0) = <<>> /\ SubSeq(path, 1, Len(path)) = path
         /\ \A n \in 1 .. Len(path) :
              /\ path[n] \in Names /\ path[n] \notin {"/", ".", ".."}
              /\ SubSeq(path, 1, n) = Append(SubSeq(path, 1, n - 1), path[n])
         /\ \A n \in 0 .. Len(path) : SubSeq(path, 1, n) \in Plain
<1>1. path \in Seq(Names) /\ Len(path) \in Nat
  BY DEF Plain
<1>2. SubSeq(path, 1, 0) = <<>> /\ SubSeq(path, 1, Len(path)) = path
  BY <1>1
<1>3. \A n \in 1 .. Len(path) : path[n] \in Names /\ path[n] \notin {"/", ".", ".."}
  BY <1>1 DEF Plain
<1>4. ASSUME NEW n \in 0 .. Len(path)
      PROVE  /\ SubSeq(path, 1, n) \in Seq(Names) /\ Len(SubSeq(path, 1, n)) = n
             /\ \A i \in 1 .. n : SubSeq(path, 1, n)[i] = path[i]
  <2>1. SubSeq(path, 1, n) = [i \in 1 .. n |-> path[i]]
    BY <1>1
  <2>2. n \in Nat /\ \A i \in 1 .. n : path[i] \in Names
    BY <1>1
  <2> QED
    BY <2>1, <2>2
<1>5. ASSUME NEW n \in 1 .. Len(path)
      PROVE  SubSeq(path, 1, n) = Append(SubSeq(path, 1, n - 1), path[n])
  <2> DEFINE s == SubSeq(path, 1, n - 1)
             t == SubSeq(path, 1, n)
  <2>1. n - 1 \in 0 .. Len(path) /\ n \in 0 .. Len(path)
    BY <1>1
  <2>2. /\ s \in Seq(Names) /\ Len(s) = n - 1 /\ \A i \in 1 .. n - 1 : s[i] = path[i]
        /\ t \in Seq(Names) /\ Len(t) = n /\ \A i \in 1 .. n : t[i] = path[i]
    BY <1>4, <2>1
  <2>3. /\ Append(s, path[n]) \in Seq(Names) /\ Len(Append(s, path[n])) = Len(s) + 1
        /\ Append(s, path[n])[Len(s) + 1] = path[n]
        /\ \A i \in 1 .. Len(s) : Append(s, path[n])[i] = s[i]
    BY <1>3, <2>2, AppendName
  <2> HIDE DEF s, t
  <2> DEFINE u == Append(s, path[n])
  <2>4. u \in Seq(Names) /\ Len(u) = n /\ \A i \in 1 .. n : u[i] = path[i]
    BY <1>1, <2>2, <2>3
  <2> HIDE DEF u
  <2>5. t = u
    BY <2>2, <2>4
  <2> QED
    BY <2>5 DEF t, s, u
<1>6. ASSUME NEW n \in 0 .. Len(path)
      PROVE  SubSeq(path, 1, n) \in Plain
  <2> DEFINE s == SubSeq(path, 1, n)
  <2>1. s \in Seq(Names) /\ Len(s) = n /\ \A i \in 1 .. n : s[i] = path[i]
    BY <1>4
  <2> HIDE DEF s
  <2>2. \A i \in 1 .. Len(s) : s[i] \notin {"/", ".", ".."}
    BY <1>1, <1>3, <2>1
  <2>3. s \in Plain
    BY <2>1, <2>2 DEF Plain
  <2> QED
    BY <2>3 DEF s
<1> QED
  BY Zenon, <1>1, <1>2, <1>3, <1>5, <1>6

Reachable(fs) == {m \in [fs : FileTrees, at : {NoPath} \cup Below] : Grown(fs, m.fs)}

LEMMA MakeOneIs ==
  ASSUME NEW fs, NEW path \in Plain, NEW n \in 1 .. Len(path), NEW made \in Reachable(fs)
  PROVE  /\ MakeOne(made, path, n) \in Reachable(fs)
         /\ \/ made.at = NoPath
            \/ made.at # Resolved(made.fs, Dest, SubSeq(path, 1, n - 1))
            \/ MakeOne(made, path, n).at
                 \in {NoPath, Resolved(MakeOne(made, path, n).fs, Dest, SubSeq(path, 1, n))}
         /\ made.at = NoPath => MakeOne(made, path, n).at = NoPath
<1> DEFINE c == path[n]
           s == SubSeq(path, 1, n - 1)
           t == SubSeq(path, 1, n)
           p == Append(made.at, c)
           r == Resolved(made.fs, Dest, t)
           new == MakeOne(made, path, n)
<1>1. /\ c \in Names /\ c \notin {"/", ".", ".."} /\ t = Append(s, c)
      /\ s \in Calm /\ t \in Calm
  <2>1. n - 1 \in 0 .. Len(path) /\ n \in 0 .. Len(path)
    BY PlainPrefixes
  <2> QED
    BY <2>1, PlainPrefixes, PlainIsCalm
<1>2. made.fs \in FileTrees /\ Grown(fs, made.fs) /\ made.at \in {NoPath} \cup Below
  BY DEF Reachable
<1> HIDE DEF c, s, t
<1>3. CASE made.at = NoPath
  BY <1>3 DEF MakeOne
<1>4. CASE made.at # NoPath /\ p \notin DOMAIN made.fs
  <2>1. new = [fs |-> With(made.fs, p, Dir), at |-> p]
    BY <1>4 DEF MakeOne, c
  <2>2. p \in Below
    BY <1>1, <1>2, <1>4, BelowIs
  <2>3. With(made.fs, p, Dir) \in FileTrees /\ Grown(made.fs, With(made.fs, p, Dir))
    BY <1>2, <1>4, <2>2, WithIs, NodeKinds
  <2>4. Grown(fs, With(made.fs, p, Dir))
    BY <1>2, <2>3 DEF Grown
  <2>5. new \in Reachable(fs)
    BY <2>1, <2>2, <2>3, <2>4 DEF Reachable
  <2>6. ASSUME made.at = Resolved(made.fs, Dest, s)
        PROVE  Resolved(With(made.fs, p, Dir), Dest, t) = p
    BY <1>1, <1>2, <1>4, <2>6, MadeIsFound, NodeKinds
  <2>7. made.at # Resolved(made.fs, Dest, s) \/ new.at = Resolved(new.fs, Dest, t)
    BY <2>1, <2>6
  <2> QED
    BY <1>4, <2>5, <2>7 DEF s, t
<1>5. CASE made.at # NoPath /\ p \in DOMAIN made.fs /\ r # NoPath /\ made.fs[r] = Dir
  <2>1. new = [fs |-> made.fs, at |-> r]
    BY <1>5 DEF MakeOne, c, t
  <2>2. r \in Below
    BY <1>1, <1>2, <1>5, ResolvedIs
  <2>3. new \in Reachable(fs)
    BY <1>2, <2>1, <2>2 DEF Reachable
  <2>4. new.at = Resolved(new.fs, Dest, t)
    BY <2>1
  <2> QED
    BY <1>5, <2>3, <2>4 DEF t
<1>6. CASE made.at # NoPath /\ p \in DOMAIN made.fs /\ ~(r # NoPath /\ made.fs[r] = Dir)
  <2>1. new = [fs |-> made.fs, at |-> NoPath]
    BY <1>6 DEF MakeOne, c, t
  <2>2. new \in Reachable(fs)
    BY <1>2, <2>1 DEF Reachable
  <2> QED
    BY <1>6, <2>1, <2>2
<1> QED
  BY <1>3, <1>4, <1>5, <1>6

LEMMA MakesExists ==
  ASSUME NEW fs \in FileTrees, NEW path \in Plain
  PROVE  \E f : Makes(fs, path, f)
<1> DEFINE D == 0 .. Len(path)
           V == Reachable(fs)
           R == {q \in D \X D : q[1] < q[2]}
           G == [q \in D \X [D -> V] |->
                   IF q[1] = 0 THEN [fs |-> fs, at |-> Dest]
                   ELSE MakeOne(q[2][q[1] - 1], path, q[1])]
<1>1. Len(path) \in Nat
  BY PlainPrefixes
<1>2. [fs |-> fs, at |-> Dest] \in V
  BY BelowIs DEF Reachable, Grown
<1>3. \A n \in D : n # 0 => n - 1 \in D /\ n \in 1 .. Len(path)
  BY <1>1
<1> HIDE DEF V
<1>4. G \in [D \X [D -> V] -> V]
  <2> SUFFICES ASSUME NEW n \in D, NEW g \in [D -> V]
               PROVE  (IF n = 0 THEN [fs |-> fs, at |-> Dest]
                       ELSE MakeOne(g[n - 1], path, n)) \in V
    OBVIOUS
  <2>1. CASE n = 0
    BY <1>2, <2>1
  <2>2. CASE n # 0
    <3>1. n \in 1 .. Len(path) /\ g[n - 1] \in V
      BY <1>3, <2>2
    <3>2. MakeOne(g[n - 1], path, n) \in V
      BY <3>1, MakeOneIs DEF V
    <3> QED
      BY <2>2, <3>2
  <2> QED
    BY <2>1, <2>2
<1>5. Grounded(D, R)
  <2> DEFINE rank == [n \in D |-> n]
  <2>1. rank \in [D -> Nat] /\ \A x, y \in D : <<y, x>> \in R => rank[y] < rank[x]
    BY <1>1
  <2> HIDE DEF D, R, rank
  <2> QED
    BY <2>1, RankGrounds
<1>6. ASSUME NEW n \in D, NEW g \in [D -> V], NEW h \in [D -> V],
             \A y \in D : <<y, n>> \in R => g[y] = h[y]
      PROVE  G[<<n, g>>] = G[<<n, h>>]
  <2>1. n # 0 => n - 1 \in D /\ <<n - 1, n>> \in R
    BY <1>1, <1>3
  <2>2. n # 0 => g[n - 1] = h[n - 1]
    <3> HIDE DEF D, R
    <3> QED
      BY <1>6, <2>1
  <2> QED
    BY <2>2
<1>7. PICK f \in [D -> V] : \A n \in D : f[n] = G[<<n, f>>]
  <2> HIDE DEF D, R, G
  <2>1. Recursive(D, V, R, G)
    BY <1>2, <1>4, <1>5, <1>6 DEF Recursive
  <2> QED
    BY <2>1, Recursion
<1>8. \A n \in D : f[n] = IF n = 0 THEN [fs |-> fs, at |-> Dest]
                          ELSE MakeOne(f[n - 1], path, n)
  BY <1>7
<1> QED
  BY <1>8 DEF Makes

LEMMA MkdirAllIs ==
  ASSUME NEW fs \in FileTrees, NEW path \in Plain
  PROVE  /\ MkdirAll(fs, path) \in Reachable(fs)
         /\ MkdirAll(fs, path).at \in {NoPath, Resolved(MkdirAll(fs, path).fs, Dest, path)}
<1> DEFINE F == CHOOSE f : Makes(fs, path, f)
           D == 0 .. Len(path)
           Right(n) == /\ F[n] \in Reachable(fs)
                       /\ F[n].at \in {NoPath, Resolved(F[n].fs, Dest, SubSeq(path, 1, n))}
<1>1. Makes(fs, path, F)
  BY MakesExists
<1> HIDE DEF F
<1>2. \A n \in D : F[n] = IF n = 0 THEN [fs |-> fs, at |-> Dest]
                          ELSE MakeOne(F[n - 1], path, n)
  BY <1>1 DEF Makes
<1>3. Len(path) \in Nat
  BY PlainPrefixes
<1>4. Right(0)
  <2>1. F[0] = [fs |-> fs, at |-> Dest]
    BY <1>2, <1>3
  <2>2. F[0] \in Reachable(fs)
    BY <2>1, BelowIs DEF Reachable, Grown
  <2>3. <<>> \in Calm
    BY DEF Calm
  <2>4. Found(fs)[From(<<>>)] = From(<<>>).dir
    <3>1. From(<<>>) \in Lookups /\ From(<<>>).rest = <<>>
      BY <2>3, ResolvedIs DEF CalmLookups, From
    <3> QED
      BY <3>1, TreeLinks, FoundIs
  <2>5. Resolved(fs, Dest, <<>>) = Dest
    BY <2>3, <2>4, ResolvedIs DEF From
  <2>6. F[0].at = Resolved(F[0].fs, Dest, SubSeq(path, 1, 0))
    <3>1. SubSeq(path, 1, 0) = <<>>
      BY PlainPrefixes
    <3>2. F[0].at = Dest /\ F[0].fs = fs
      BY <2>1
    <3> QED
      BY Zenon, <2>5, <3>1, <3>2
  <2> QED
    BY <2>2, <2>6
<1>5. ASSUME NEW n \in 1 .. Len(path), Right(n - 1)
      PROVE  Right(n)
  <2>1. F[n] = MakeOne(F[n - 1], path, n)
    BY <1>2, <1>3
  <2> QED
    BY <1>5, <2>1, MakeOneIs
<1> DEFINE S == {n \in D : ~Right(n)}
<1>6. S = {}
  <2> SUFFICES ASSUME S # {} PROVE FALSE
    OBVIOUS
  <2>1. S \in SUBSET Nat
    BY <1>3
  <2>2. PICK n \in S : \A k \in S : ~(k < n)
    <3> HIDE DEF S
    <3> QED
      BY <2>1, LeastNatural
  <2> HIDE DEF Right
  <2>3. n \in D /\ ~Right(n) /\ n # 0
    BY <1>4
  <2>4. n \in 1 .. Len(path) /\ n - 1 \in D /\ n - 1 < n
    BY <1>3, <2>3
  <2>5. Right(n - 1)
    BY <2>2, <2>4
  <2> QED
    BY <1>5, <2>3, <2>4, <2>5
<1>7. Right(Len(path))
  BY <1>3, <1>6
<1> QED
  BY <1>7, MkdirAllChosen, PlainPrefixes DEF F


-----------------------------------------------------------------------------
(* An entry, and the archive.                                               *)

LEMMA CreateIs ==
  ASSUME NEW fs \in FileTrees, NEW path \in Plain, path # <<>>, NEW node \in Nodes
  PROVE  LET made == Create(MkdirAll(fs, Front(path)), Last(path), node) IN
         /\ made.fs \in FileTrees /\ Grown(fs, made.fs)
         /\ made.at # NoPath /\ node.kind # "link" =>
              /\ Resolved(made.fs, Dest, path) \in DOMAIN made.fs
              /\ made.fs[Resolved(made.fs, Dest, path)] = node
<1> DEFINE up == Front(path)
           c == Last(path)
           parent == MkdirAll(fs, up)
           p == Append(parent.at, c)
           made == Create(parent, c, node)
<1>1. path \in Seq(Names) /\ Len(path) \in Nat \ {0} /\ path = Append(up, c)
  BY PlainPrefixes, SeqParts
<1>2. up \in Plain /\ c \in Names /\ c \notin {"/", ".", ".."}
  <2>1. Len(path) - 1 \in 0 .. Len(path) /\ Len(path) \in 1 .. Len(path)
    BY <1>1
  <2> QED
    BY <2>1, PlainPrefixes DEF Front, Last
<1>3. parent \in Reachable(fs) /\ parent.at \in {NoPath, Resolved(parent.fs, Dest, up)}
  BY <1>2, MkdirAllIs
<1> HIDE DEF up, c, parent
<1>4. parent.fs \in FileTrees /\ Grown(fs, parent.fs) /\ parent.at \in {NoPath} \cup Below
  BY <1>3 DEF Reachable
<1>5. CASE parent.at = NoPath \/ p \in DOMAIN parent.fs
  <2>1. made.fs = parent.fs /\ made.at = NoPath
    BY <1>5 DEF Create
  <2> HIDE DEF made
  <2> QED
    BY <1>4, <2>1 DEF made, parent, up, c
<1>6. CASE parent.at # NoPath /\ p \notin DOMAIN parent.fs
  <2> DEFINE new == With(parent.fs, p, node)
  <2>1. made.fs = new /\ made.at = parent.at
    BY <1>6 DEF Create
  <2>2. p \in Below
    BY <1>2, <1>4, <1>6, BelowIs
  <2>3. new \in FileTrees /\ Grown(parent.fs, new) /\ p \in DOMAIN new /\ new[p] = node
    BY <1>4, <1>6, <2>2, WithIs
  <2>4. Grown(fs, new)
    BY <1>4, <2>3 DEF Grown
  <2>5. node.kind # "link" => Resolved(new, Dest, path) = p
    BY <1>1, <1>2, <1>3, <1>4, <1>6, PlainIsCalm, MadeIsFound
  <2> HIDE DEF made, new, p
  <2> QED
    BY <2>1, <2>3, <2>4, <2>5 DEF made, parent, up, c
<1> QED
  BY <1>5, <1>6

LEMMA LinkIsCalm ==
  ASSUME NEW link, IsPath(link), NEW clean, SafeLink(clean, link)
  PROVE  link \in Calm
<1>1. link \in Seq(Names) /\ DOMAIN link = 1 .. Len(link)
  BY DEF IsPath
<1>2. \A i \in 1 .. Len(link) : link[i] # "/"
  BY <1>1 DEF IsPath, SafeLink
<1>3. \A i \in 1 .. Len(link) : link[i] # ".."
  BY DEF SafeLink, Contains
<1> QED
  BY <1>1, <1>2, <1>3 DEF Calm

FileOf(fs, path, i) ==
  LET p == Resolved(fs, Dest, path) IN
  p \in DOMAIN fs /\ fs[p] = [kind |-> "file", of |-> i]

LEMMA FileStays ==
  ASSUME NEW fs \in FileTrees, NEW new \in FileTrees, Grown(fs, new),
         NEW path \in Plain, NEW i, FileOf(fs, path, i)
  PROVE  FileOf(new, path, i)
<1>1. Resolved(fs, Dest, path) # NoPath
  BY TreeHas, BelowIs DEF FileOf
<1>2. Resolved(new, Dest, path) = Resolved(fs, Dest, path)
  BY <1>1, PlainIsCalm, ResolvedStays
<1> QED
  BY <1>2 DEF FileOf, Grown

LEMMA WrittenIs ==
  ASSUME tree \in FileTrees, unpacked \in Seq(Headers), NEW header \in Headers,
         NEW maxEntries, NEW maxBytes, ~Refuses(header, maxEntries, maxBytes)
  PROVE  LET clean == SafeArchivePath(header.name)
             written == Written(header)
         IN /\ clean = Clean(header.name) /\ clean \in Plain /\ clean # NoPath
            /\ written.fs \in FileTrees /\ Grown(tree, written.fs)
            /\ written.at # NoPath /\ header.type = "file" =>
                 FileOf(written.fs, clean, Len(unpacked) + 1)
<1> DEFINE clean == SafeArchivePath(header.name)
           written == Written(header)
<1>1. /\ clean # NoPath /\ header.type \in {"dir", "file", "link"}
      /\ header.type = "link" => SafeLink(clean, header.link)
  BY DEF Refuses
<1>2. IsPath(header.name) /\ IsPath(header.link)
  BY HeadersAssumption
<1>3. clean = Clean(header.name) /\ clean \in Plain /\ clean # <<>>
  BY <1>1, <1>2, SafeIsPlain
<1> HIDE DEF clean
<1>4. CASE header.type = "dir"
  <2>1. written = MkdirAll(tree, clean)
    BY <1>4 DEF Written, clean
  <2>2. written.fs \in FileTrees /\ Grown(tree, written.fs)
    BY <1>3, <2>1, MkdirAllIs DEF Reachable
  <2> QED
    BY <1>1, <1>3, <1>4, <2>2 DEF clean
<1>5. CASE header.type = "file"
  <2> DEFINE node == [kind |-> "file", of |-> Len(unpacked) + 1]
  <2>1. written = Create(MkdirAll(tree, Front(clean)), Last(clean), node)
    BY <1>5 DEF Written, clean
  <2>2. Len(unpacked) + 1 \in Nat
    OBVIOUS
  <2>3. node \in Nodes /\ node.kind # "link"
    BY <2>2, NodeKinds
  <2> HIDE DEF node
  <2>4. /\ written.fs \in FileTrees /\ Grown(tree, written.fs)
        /\ written.at # NoPath =>
             /\ Resolved(written.fs, Dest, clean) \in DOMAIN written.fs
             /\ written.fs[Resolved(written.fs, Dest, clean)] = node
    BY <1>3, <2>1, <2>3, CreateIs
  <2>5. written.at # NoPath => FileOf(written.fs, clean, Len(unpacked) + 1)
    BY <2>4 DEF FileOf, node
  <2> QED
    BY <1>1, <1>3, <2>4, <2>5 DEF clean
<1>6. CASE header.type = "link"
  <2> DEFINE node == [kind |-> "link", target |-> header.link]
  <2>1. written = Create(MkdirAll(tree, Front(clean)), Last(clean), node)
    BY <1>6 DEF Written, clean
  <2>2. node \in Nodes
    BY <1>1, <1>2, <1>6, LinkIsCalm, NodeKinds
  <2> HIDE DEF node
  <2>3. written.fs \in FileTrees /\ Grown(tree, written.fs)
    BY <1>3, <2>1, <2>2, CreateIs
  <2> QED
    BY <1>1, <1>3, <1>6, <2>3 DEF clean
<1> QED
  BY <1>1, <1>4, <1>5, <1>6

(* The inductive invariant: no link leads up, so nothing is written outside;*)
(* nothing is ever replaced, so what an entry made stays under its name.    *)
AllListed(fs, headers) ==
  \A i \in DOMAIN headers : headers[i].type = "file" =>
    /\ Clean(headers[i].name) \in Plain
    /\ FileOf(fs, Clean(headers[i].name), i)

ListedAs(path, headers) ==
  \E i \in DOMAIN headers : headers[i].type = "file" /\ Clean(headers[i].name) = path

ArchiveInv ==
  /\ tree \in FileTrees
  /\ unpacked \in Seq(Headers)
  /\ extract # "failed" => AllListed(tree, unpacked)
  /\ binary # NoPath => ListedAs(binary, unpacked)
  /\ extract = "done" => binary # NoPath

LEMMA StepsOfArchive ==
  ASSUME [Next]_vars
  PROVE  \/ UNCHANGED archive \/ ExtractBegin \/ ExtractForgotten \/ ExtractEnd
         \/ \E h \in Headers :
              ExtractEntry(h, copy.max_archive_entries, copy.max_expanded_bytes)
<1>1. CASE \E raw \in Raws : Reconfigure(raw)
  BY <1>1 DEF Reconfigure
<1>2. CASE \E record \in Records, now \in Clock : UsageHandle(record, now)
  BY <1>2 DEF UsageHandle
<1>3. CASE \E req \in Requests : CountTokens(req) \/ Execute(req)
  BY <1>3 DEF CountTokens, Execute
<1>4. CASE Refused \/ Shutdown
  BY <1>4 DEF Refused, Shutdown
<1>5. CASE RefreshAuth \/ Refreshing \/ RefreshReturns
  BY <1>5 DEF RefreshAuth, Refreshing, RefreshReturns
<1>6. CASE Unpack \/ Unpacking \/ UnpackReturns
  BY <1>6 DEF Unpack, Unpacking, UnpackReturns
<1>7. CASE Executing \/ OthersStep
  BY <1>7 DEF Executing, ExecuteRunAgent, EnterWorkspace, AcquireSlot, Running,
              RunAgentReturns, ExecuteReturns, OthersStep, OtherAcquires,
              OtherReleases
<1>8. CASE UNCHANGED vars
  BY <1>8 DEF vars
<1> QED
  BY <1>1, <1>2, <1>3, <1>4, <1>5, <1>6, <1>7, <1>8 DEF Next, Executing, OthersStep

LEMMA EntryKeepsArchive ==
  ASSUME ArchiveInv, NEW h \in Headers, NEW maxEntries, NEW maxBytes,
         ExtractEntry(h, maxEntries, maxBytes)
  PROVE  ArchiveInv'
<1> DEFINE clean == SafeArchivePath(h.name)
           written == Written(h)
           n == Len(unpacked) + 1
           new == unpacked'
<1>1. /\ tree \in FileTrees /\ unpacked \in Seq(Headers) /\ AllListed(tree, unpacked)
      /\ binary # NoPath => ListedAs(binary, unpacked)
      /\ extract = "reading" /\ unpacked' = Append(unpacked, h)
  BY DEF ArchiveInv, ExtractEntry
<1>2. /\ new \in Seq(Headers) /\ DOMAIN new = 1 .. n /\ new[n] = h /\ n \in DOMAIN new
      /\ DOMAIN unpacked = 1 .. Len(unpacked) /\ Len(unpacked) \in Nat
      /\ \A i \in DOMAIN unpacked : i \in DOMAIN new /\ new[i] = unpacked[i]
      /\ \A i \in DOMAIN new : i = n \/ i \in DOMAIN unpacked
  BY <1>1
<1>3. \A path : ListedAs(path, unpacked) => ListedAs(path, new)
  BY <1>2 DEF ListedAs
<1>4. CASE Refuses(h, maxEntries, maxBytes)
  <2>1. extract' = "failed" /\ tree' = tree /\ binary' = binary
    BY <1>4 DEF ExtractEntry
  <2> QED
    BY <1>1, <1>2, <1>3, <2>1 DEF ArchiveInv
<1>5. CASE ~Refuses(h, maxEntries, maxBytes)
  <2>1. /\ tree' = written.fs
        /\ extract' = IF written.at = NoPath THEN "failed" ELSE extract
        /\ binary' = binary \/ (binary' = clean /\ h.type = "file")
    BY <1>5 DEF ExtractEntry
  <2>2. /\ clean = Clean(h.name) /\ clean \in Plain /\ clean # NoPath
        /\ written.fs \in FileTrees /\ Grown(tree, written.fs)
        /\ written.at # NoPath /\ h.type = "file" => FileOf(written.fs, clean, n)
    BY <1>1, <1>5, WrittenIs
  <2> HIDE DEF clean, written, n, new
  <2>3. ASSUME extract' # "failed"
        PROVE  AllListed(tree', new)
    <3> SUFFICES ASSUME NEW i \in DOMAIN new, new[i].type = "file"
                 PROVE  /\ Clean(new[i].name) \in Plain
                        /\ FileOf(written.fs, Clean(new[i].name), i)
      BY <2>1 DEF AllListed
    <3>1. CASE i = n
      BY <1>2, <2>1, <2>2, <2>3, <3>1
    <3>2. CASE i \in DOMAIN unpacked
      <4>1. new[i] = unpacked[i]
        BY <1>2, <3>2
      <4>2. Clean(new[i].name) \in Plain /\ FileOf(tree, Clean(new[i].name), i)
        BY <1>1, <3>2, <4>1 DEF AllListed
      <4> QED
        BY <1>1, <2>2, <4>2, FileStays
    <3> QED
      BY <1>2, <3>1, <3>2
  <2>4. binary' # NoPath => ListedAs(binary', new)
    <3>1. CASE binary' = binary
      BY <1>1, <1>3, <3>1
    <3>2. CASE binary' = clean /\ h.type = "file"
      BY <1>2, <2>2, <3>2 DEF ListedAs
    <3> QED
      BY <2>1, <3>1, <3>2
  <2>5. extract' # "done"
    BY <1>1, <2>1
  <2> QED
    BY <1>2, <2>1, <2>2, <2>3, <2>4, <2>5 DEF ArchiveInv, new
<1> QED
  BY <1>4, <1>5

LEMMA NewArchive ==
  /\ NewTree \in FileTrees /\ <<>> \in Seq(Headers) /\ AllListed(NewTree, <<>>)
<1>1. NewTree \in [{<<>>, Dest} -> Nodes]
  BY NodeKinds DEF NewTree
<1>2. {<<>>, Dest} \in SUBSET ({<<>>} \cup Below)
  BY BelowIs
<1>3. NewTree \in FileTrees
  BY <1>1, <1>2 DEF FileTrees
<1>4. AllListed(NewTree, <<>>)
  BY DEF AllListed
<1> QED
  BY <1>3, <1>4

LEMMA ArchiveNext ==
  ASSUME ArchiveInv, [Next]_vars
  PROVE  ArchiveInv'
<1>1. CASE UNCHANGED archive
  BY <1>1 DEF archive, ArchiveInv
<1>2. CASE ExtractBegin \/ ExtractForgotten
  <2>1. /\ tree' = NewTree /\ unpacked' = <<>> /\ binary' = NoPath
        /\ extract' \in {"none", "reading"}
    BY <1>2 DEF ExtractBegin, ExtractForgotten
  <2> QED
    BY <2>1, NewArchive DEF ArchiveInv
<1>3. CASE ExtractEnd
  BY <1>3 DEF ExtractEnd, ArchiveInv
<1>4. CASE \E h \in Headers :
             ExtractEntry(h, copy.max_archive_entries, copy.max_expanded_bytes)
  BY <1>4, EntryKeepsArchive
<1> QED
  BY <1>1, <1>2, <1>3, <1>4, StepsOfArchive

LEMMA ArchiveAlways == Spec => []ArchiveInv
<1>1. PluginInit => ArchiveInv
  BY NewArchive DEF PluginInit, InitArchive, ArchiveInv
<1> QED
  BY <1>1, ArchiveNext, PTL DEF Spec

(* Whatever entries an archive has, in whatever order, every file,          *)
(* directory and link they make lies below the directory it is unpacked     *)
(* into: no link that safeExtractTarGz makes leads up or to the root, so a  *)
(* path through links stays below, too.                                     *)
THEOREM NothingOutside == Spec => []ExtractedInside
<1>1. ArchiveInv => ExtractedInside
  <2> SUFFICES ASSUME ArchiveInv, NEW p \in DOMAIN tree
               PROVE  p = <<>> \/ Head(p) = Head(Dest)
    BY DEF ExtractedInside
  <2>1. p = <<>> \/ p \in Below
    BY TreeHas DEF ArchiveInv
  <2>2. Head(Dest) = "dest"
    BY BelowIs
  <2> QED
    BY <2>1, <2>2, BelowIs
<1> QED
  BY <1>1, ArchiveAlways, PTL

(* An archive that is not refused has each of its files under the name it   *)
(* was listed with, with its own contents, however names and links alias    *)
(* each other, and the binary that is run is one of them.                   *)
THEOREM FilesAreTheirEntries == Spec => []ExtractedAsListed
<1>1. ArchiveInv => ExtractedAsListed
  BY DEF ArchiveInv, AllListed, ListedAs, FileOf, ExtractedAsListed
<1> QED
  BY <1>1, ArchiveAlways, PTL

-----------------------------------------------------------------------------
(* The prompt and the segments that are counted.                            *)

LEMMA Flattened ==
  ASSUME NEW B, NEW n \in Nat, NEW s, s = [i \in 1 .. n |-> s[i]],
         \A i \in 1 .. n : s[i] \in Seq(B)
  PROVE  /\ FlattenSeq(s) \in Seq(B)
         /\ \A i \in 1 .. n : ToSet(s[i]) \subseteq ToSet(FlattenSeq(s))
         /\ \A x \in ToSet(FlattenSeq(s)) : \E i \in 1 .. n : x \in ToSet(s[i])
<1>1. s \in Seq(Seq(B)) /\ DOMAIN s = 1 .. n
  BY IsASeq
<1>2. /\ FlattenSeq(s) \in Seq(B)
      /\ ToSet(FlattenSeq(s)) = UNION {ToSet(s[i]) : i \in 1 .. n}
  BY <1>1, FlattenElements
<1> QED
  BY <1>2

LEMMA OneElement ==
  ASSUME NEW B, NEW x \in B
  PROVE  <<x>> \in Seq(B) /\ ToSet(<<x>>) = {x}
<1>1. <<x>> \in Seq(B) /\ DOMAIN <<x>> = {1} /\ <<x>>[1] = x
  OBVIOUS
<1> QED
  BY <1>1 DEF ToSet

LEMMA NoElement == \A B : <<>> \in Seq(B) /\ ToSet(<<>>) = {}
BY DEF ToSet

(* A recursive definition over trees whose step looks at the values inside  *)
(* alone has one solution.                                                  *)
OverTrees(V, G) ==
  /\ V # {}
  /\ G \in [Trees \X [Trees -> V] -> V]
  /\ \A v \in Trees : \A g, h \in [Trees -> V] :
       (\A c \in Children(v) : g[c] = h[c]) => G[<<v, g>>] = G[<<v, h>>]

LEMMA TreeRecursion ==
  ASSUME NEW V, NEW G, OverTrees(V, G)
  PROVE  \E f \in [Trees -> V] : \A v \in Trees : f[v] = G[<<v, f>>]
<1>1. \A v \in Trees : \A c \in Children(v) : c \in Trees /\ <<c, v>> \in Deeper
  BY TreesAssumption DEF Deeper
<1>2. \A v \in Trees : \A g, h \in [Trees -> V] :
        (\A c \in Trees : <<c, v>> \in Deeper => g[c] = h[c]) => G[<<v, g>>] = G[<<v, h>>]
  BY <1>1 DEF OverTrees
<1>3. Recursive(Trees, V, Deeper, G)
  BY <1>2, TreesGrounded DEF Recursive, OverTrees
<1> QED
  BY <1>3, Recursion

LEMMA ChildOf ==
  ASSUME NEW v \in Trees
  PROVE  /\ \A k : Has(v, k) => v.map[k] \in Children(v) /\ v.map[k] \in Trees
         /\ ~IsMap(v) /\ IsList(v) =>
              /\ Len(v.list) \in Nat /\ DOMAIN v.list = 1 .. Len(v.list)
              /\ \A i \in 1 .. Len(v.list) : v.list[i] \in Children(v) /\ v.list[i] \in Trees
<1>1. \A k : Has(v, k) => v.map[k] \in Children(v)
  BY DEF Has, Children
<1>2. ASSUME ~IsMap(v), IsList(v)
      PROVE  /\ Len(v.list) \in Nat /\ DOMAIN v.list = 1 .. Len(v.list)
             /\ \A i \in 1 .. Len(v.list) : v.list[i] \in Children(v)
  <2> DEFINE l == v.list
  <2>1. l \in Seq(Trees)
    BY <1>2, TreesAssumption
  <2> HIDE DEF l
  <2>2. Len(l) \in Nat /\ DOMAIN l = 1 .. Len(l)
    BY <2>1
  <2>3. \A i \in DOMAIN l : l[i] \in Children(v)
    BY <1>2 DEF Children, l
  <2> QED
    BY <2>2, <2>3 DEF l
<1>3. Children(v) \subseteq Trees
  BY TreesAssumption
<1> QED
  BY <1>1, <1>2, <1>3

(* What collectPrompt finds in a value, when f is what it finds inside.     *)
Strings == {v.str : v \in {w \in Trees : IsStr(w)}}
OfKey(v, f, i) == IF Has(v, PromptKeys[i]) THEN f[v.map[PromptKeys[i]]] ELSE <<>>
PromptBy(v, f) ==
  IF IsMap(v) THEN FlattenSeq([i \in DOMAIN PromptKeys |-> OfKey(v, f, i)])
  ELSE IF IsList(v) THEN FlattenSeq([i \in DOMAIN v.list |-> f[v.list[i]]])
  ELSE IF IsStr(v) /\ v.str # "" THEN <<v.str>>
  ELSE <<>>

LEMMA SixKeys == DOMAIN PromptKeys = 1 .. 6
BY DEF PromptKeys

LEMMA PromptByIs ==
  ASSUME NEW v \in Trees, NEW f \in [Trees -> Seq(Strings)]
  PROVE  /\ PromptBy(v, f) \in Seq(Strings)
         /\ \A x \in ToSet(PromptBy(v, f)) :
              \/ ~IsMap(v) /\ ~IsList(v) /\ IsStr(v) /\ v.str = x /\ x # ""
              \/ IsMap(v) /\ \E i \in 1 .. 6 : Has(v, PromptKeys[i]) /\ x \in ToSet(f[v.map[PromptKeys[i]]])
              \/ ~IsMap(v) /\ IsList(v) /\ \E i \in 1 .. Len(v.list) : x \in ToSet(f[v.list[i]])
<1>1. CASE IsMap(v)
  <2> DEFINE s == [i \in 1 .. 6 |-> OfKey(v, f, i)]
  <2>1. \A i \in 1 .. 6 : OfKey(v, f, i) \in Seq(Strings)
    BY ChildOf, NoElement DEF OfKey
  <2>2. s = [i \in 1 .. 6 |-> s[i]] /\ \A i \in 1 .. 6 : s[i] \in Seq(Strings)
    BY <2>1
  <2>3. PromptBy(v, f) = FlattenSeq(s)
    BY <1>1, SixKeys DEF PromptBy
  <2>4. \A i \in 1 .. 6 : s[i] = OfKey(v, f, i)
    OBVIOUS
  <2> HIDE DEF s
  <2>5. 6 \in Nat
    OBVIOUS
  <2>6. /\ FlattenSeq(s) \in Seq(Strings)
        /\ \A x \in ToSet(FlattenSeq(s)) : \E i \in 1 .. 6 : x \in ToSet(s[i])
    BY <2>2, <2>5, Flattened
  <2>7. \A i \in 1 .. 6 : \A x \in ToSet(OfKey(v, f, i)) :
          Has(v, PromptKeys[i]) /\ x \in ToSet(f[v.map[PromptKeys[i]]])
    BY NoElement DEF OfKey
  <2> QED
    BY <1>1, <2>3, <2>4, <2>6, <2>7
<1>2. CASE ~IsMap(v) /\ IsList(v)
  <2> DEFINE n == Len(v.list)
             s == [i \in 1 .. n |-> f[v.list[i]]]
  <2>1. n \in Nat /\ DOMAIN v.list = 1 .. n /\ \A i \in 1 .. n : v.list[i] \in Trees
    BY <1>2, ChildOf
  <2>2. PromptBy(v, f) = FlattenSeq(s)
    BY <1>2, <2>1 DEF PromptBy
  <2> HIDE DEF n
  <2>3. s = [i \in 1 .. n |-> s[i]] /\ \A i \in 1 .. n : s[i] \in Seq(Strings)
    BY <2>1
  <2>4. \A i \in 1 .. n : s[i] = f[v.list[i]]
    OBVIOUS
  <2> HIDE DEF s
  <2>5. /\ FlattenSeq(s) \in Seq(Strings)
        /\ \A x \in ToSet(FlattenSeq(s)) : \E i \in 1 .. n : x \in ToSet(s[i])
    BY <2>1, <2>3, Flattened
  <2> QED
    BY <1>2, <2>2, <2>4, <2>5 DEF n
<1>3. CASE ~IsMap(v) /\ ~IsList(v) /\ IsStr(v) /\ v.str # ""
  <2>1. PromptBy(v, f) = <<v.str>> /\ v.str \in Strings
    BY <1>3 DEF PromptBy, Strings
  <2>2. <<v.str>> \in Seq(Strings) /\ ToSet(<<v.str>>) = {v.str}
    BY <2>1, OneElement
  <2> QED
    BY <1>3, <2>1, <2>2
<1>4. CASE ~IsMap(v) /\ ~IsList(v) /\ ~(IsStr(v) /\ v.str # "")
  BY <1>4, NoElement DEF PromptBy
<1> QED
  BY <1>1, <1>2, <1>3, <1>4

LEMMA PromptUnfolds ==
  /\ CollectPrompt \in [Trees -> Seq(Strings)]
  /\ \A v \in Trees : CollectPrompt[v] = PromptBy(v, CollectPrompt)
<1> DEFINE V == Seq(Strings)
           G == [p \in Trees \X [Trees -> V] |-> PromptBy(p[1], p[2])]
           Solves(g) == g = [v \in Trees |-> PromptBy(v, g)]
<1>1. V # {}
  BY NoElement
<1>2. \A v \in Trees : \A f \in [Trees -> V] : PromptBy(v, f) \in V
  BY PromptByIs
<1>3. ASSUME NEW v \in Trees, NEW g, NEW h, \A c \in Children(v) : g[c] = h[c]
      PROVE  PromptBy(v, g) = PromptBy(v, h)
  <2>1. CASE IsMap(v)
    <3>1. \A i \in DOMAIN PromptKeys : OfKey(v, g, i) = OfKey(v, h, i)
      BY <1>3, ChildOf DEF OfKey
    <3>2. [i \in DOMAIN PromptKeys |-> OfKey(v, g, i)] = [i \in DOMAIN PromptKeys |-> OfKey(v, h, i)]
      BY <3>1
    <3> QED
      BY <2>1, <3>2 DEF PromptBy
  <2>2. CASE ~IsMap(v) /\ IsList(v)
    <3>1. \A i \in DOMAIN v.list : g[v.list[i]] = h[v.list[i]]
      BY <1>3, <2>2, ChildOf
    <3>2. [i \in DOMAIN v.list |-> g[v.list[i]]] = [i \in DOMAIN v.list |-> h[v.list[i]]]
      BY <3>1
    <3> QED
      BY <2>2, <3>2 DEF PromptBy
  <2>3. CASE ~IsMap(v) /\ ~IsList(v)
    BY <2>3 DEF PromptBy
  <2> QED
    BY <2>1, <2>2, <2>3
<1> HIDE DEF V
<1>4. PICK f \in [Trees -> V] : \A v \in Trees : f[v] = G[<<v, f>>]
  <2>1. G \in [Trees \X [Trees -> V] -> V]
    BY <1>2
  <2>2. \A v \in Trees : \A g, h \in [Trees -> V] :
          (\A c \in Children(v) : g[c] = h[c]) => G[<<v, g>>] = G[<<v, h>>]
    BY <1>3
  <2> HIDE DEF G
  <2>3. OverTrees(V, G)
    BY <1>1, <2>1, <2>2 DEF OverTrees
  <2> QED
    BY <2>3, TreeRecursion
<1>5. Solves(f)
  BY <1>4
<1>6. Solves(CHOOSE g : Solves(g))
  <2> HIDE DEF Solves
  <2> QED
    BY <1>5
<1>7. Solves(CollectPrompt)
  <2>1. CollectPrompt = CHOOSE g : Solves(g)
    BY Zenon DEF CollectPrompt, PromptBy, OfKey
  <2> QED
    BY <1>6, <2>1, Zenon
<1>8. CollectPrompt = [v \in Trees |-> PromptBy(v, CollectPrompt)]
  BY <1>7
<1>9. \A v \in Trees : CollectPrompt[v] = PromptBy(v, CollectPrompt)
  BY <1>8
<1> DEFINE S == {v \in Trees : CollectPrompt[v] = f[v]}
<1>10. S = Trees
  <2>1. ASSUME NEW v \in Trees, Children(v) \subseteq S PROVE v \in S
    <3>1. PromptBy(v, CollectPrompt) = PromptBy(v, f)
      BY <1>3, <2>1
    <3>2. f[v] = PromptBy(v, f)
      BY <1>5
    <3> QED
      BY <1>9, <3>1, <3>2
  <2> HIDE DEF S
  <2>2. S \in SUBSET Trees
    BY DEF S
  <2> QED
    BY <2>1, <2>2, TreeInduction
<1>11. CollectPrompt = f
  BY <1>5, <1>8, <1>10
<1> QED
  BY <1>9, <1>11 DEF V

(* A set of values holds a text if one of them is it.                       *)
Holds(P, x) == \E p \in P : IsStr(p) /\ p.str = x

LEMMA PartsHold ==
  ASSUME NEW v \in Trees
  PROVE  v \in Parts[v] /\ \A c \in Children(v) : c \in Trees /\ Parts[c] \subseteq Parts[v]
BY PartsUnfold, TreesAssumption

LEMMA PromptWithin ==
  ASSUME NEW v \in Trees, NEW x \in ToSet(CollectPrompt[v])
  PROVE  Holds(Parts[v], x)
<1> DEFINE S == {w \in Trees : \A y \in ToSet(CollectPrompt[w]) : Holds(Parts[w], y)}
<1>1. ASSUME NEW w \in Trees, Children(w) \subseteq S PROVE w \in S
  <2> SUFFICES ASSUME NEW y \in ToSet(CollectPrompt[w]) PROVE Holds(Parts[w], y)
    OBVIOUS
  <2>1. \/ ~IsMap(w) /\ ~IsList(w) /\ IsStr(w) /\ w.str = y /\ y # ""
        \/ \E c \in Children(w) : y \in ToSet(CollectPrompt[c])
    <3>1. CollectPrompt[w] = PromptBy(w, CollectPrompt) /\ CollectPrompt \in [Trees -> Seq(Strings)]
      BY PromptUnfolds
    <3>2. \/ ~IsMap(w) /\ ~IsList(w) /\ IsStr(w) /\ w.str = y /\ y # ""
          \/ IsMap(w) /\ \E i \in 1 .. 6 :
               Has(w, PromptKeys[i]) /\ y \in ToSet(CollectPrompt[w.map[PromptKeys[i]]])
          \/ /\ ~IsMap(w) /\ IsList(w)
             /\ \E i \in 1 .. Len(w.list) : y \in ToSet(CollectPrompt[w.list[i]])
      BY <3>1, PromptByIs
    <3> QED
      BY <3>2, ChildOf
  <2>2. ASSUME NEW c \in Children(w), y \in ToSet(CollectPrompt[c])
        PROVE  Holds(Parts[w], y)
    <3>1. Holds(Parts[c], y)
      BY <1>1, <2>2
    <3> QED
      BY <3>1, PartsHold DEF Holds
  <2> QED
    BY <2>1, <2>2, PartsHold DEF Holds
<1>2. S = Trees
  <2>1. S \in SUBSET Trees
    OBVIOUS
  <2> HIDE DEF S
  <2> QED
    BY <1>1, <2>1, TreeInduction
<1> QED
  BY <1>2

(* The fields that are counted as they are.                                 *)
OfField(v, keys, i) == IF Has(v, keys[i]) THEN Counted(v.map[keys[i]]) ELSE <<>>

LEMMA CountedIs ==
  ASSUME NEW v \in Trees
  PROVE  Counted(v) \in Seq(Trees) /\ (v \in ToSet(Counted(v)) \/ (IsStr(v) /\ v.str = ""))
BY OneElement, NoElement DEF Counted

LEMMA FieldsAre ==
  ASSUME NEW v \in Trees, NEW keys, NEW n \in Nat, DOMAIN keys = 1 .. n
  PROVE  /\ FieldSegments(v, keys) \in Seq(Trees)
         /\ \A i \in 1 .. n : Has(v, keys[i]) =>
              ToSet(Counted(v.map[keys[i]])) \subseteq ToSet(FieldSegments(v, keys))
<1> DEFINE s == [i \in 1 .. n |-> OfField(v, keys, i)]
<1>1. FieldSegments(v, keys) = FlattenSeq(s)
  BY DEF FieldSegments, OfField
<1>2. \A i \in 1 .. n : OfField(v, keys, i) \in Seq(Trees)
  BY ChildOf, CountedIs, NoElement DEF OfField
<1>3. s = [i \in 1 .. n |-> s[i]] /\ \A i \in 1 .. n : s[i] \in Seq(Trees)
  BY <1>2
<1>4. \A i \in 1 .. n : s[i] = OfField(v, keys, i)
  OBVIOUS
<1> HIDE DEF s
<1>5. /\ FlattenSeq(s) \in Seq(Trees)
      /\ \A i \in 1 .. n : ToSet(s[i]) \subseteq ToSet(FlattenSeq(s))
  BY <1>3, Flattened
<1> QED
  BY <1>1, <1>4, <1>5 DEF OfField

(* The segments of a content, when f are those of the contents inside.      *)
OfNested(v, f, keys, i) == IF Has(v, keys[i]) THEN f[v.map[keys[i]]] ELSE <<>>
NestedBy(v, f, keys) == FlattenSeq([i \in DOMAIN keys |-> OfNested(v, f, keys, i)])
SegmentsBy(v, f) ==
  IF IsStr(v) THEN Counted(v)
  ELSE IF IsList(v) THEN FlattenSeq([i \in DOMAIN v.list |-> f[v.list[i]]])
  ELSE IF ~IsMap(v) THEN <<>>
  ELSE IF StrAt(v, "type") = "" THEN <<v>>
  ELSE IF StrAt(v, "type") = "document" THEN DocumentSegments(v)
  ELSE FieldSegments(v, Leaves(StrAt(v, "type"))) \o NestedBy(v, f, Nested(StrAt(v, "type")))

LEMMA FewKeys ==
  ASSUME NEW type
  PROVE  /\ \E n \in Nat : DOMAIN Leaves(type) = 1 .. n
         /\ \E n \in Nat : DOMAIN Nested(type) = 1 .. n
<1>1. DOMAIN Leaves(type) \in {1 .. 0, 1 .. 1, 1 .. 2, 1 .. 3, 1 .. 4}
  BY DEF Leaves
<1>2. DOMAIN Nested(type) \in {1 .. 0, 1 .. 1, 1 .. 2}
  BY DEF Nested
<1> QED
  BY <1>1, <1>2

LEMMA NestedIs ==
  ASSUME NEW v \in Trees, NEW f \in [Trees -> Seq(Trees)], NEW keys, NEW n \in Nat,
         DOMAIN keys = 1 .. n
  PROVE  /\ NestedBy(v, f, keys) \in Seq(Trees)
         /\ \A i \in 1 .. n : Has(v, keys[i]) =>
              ToSet(f[v.map[keys[i]]]) \subseteq ToSet(NestedBy(v, f, keys))
<1> DEFINE s == [i \in 1 .. n |-> OfNested(v, f, keys, i)]
<1>1. NestedBy(v, f, keys) = FlattenSeq(s)
  BY DEF NestedBy
<1>2. \A i \in 1 .. n : OfNested(v, f, keys, i) \in Seq(Trees)
  BY ChildOf, NoElement DEF OfNested
<1>3. s = [i \in 1 .. n |-> s[i]] /\ \A i \in 1 .. n : s[i] \in Seq(Trees)
  BY <1>2
<1>4. \A i \in 1 .. n : s[i] = OfNested(v, f, keys, i)
  OBVIOUS
<1> HIDE DEF s
<1>5. /\ FlattenSeq(s) \in Seq(Trees)
      /\ \A i \in 1 .. n : ToSet(s[i]) \subseteq ToSet(FlattenSeq(s))
  BY <1>3, Flattened
<1> QED
  BY <1>1, <1>4, <1>5 DEF OfNested

LEMMA ListIs ==
  ASSUME NEW v \in Trees, ~IsMap(v), IsList(v), NEW f \in [Trees -> Seq(Trees)]
  PROVE  LET s == FlattenSeq([i \in DOMAIN v.list |-> f[v.list[i]]]) IN
         s \in Seq(Trees) /\ \A i \in 1 .. Len(v.list) : ToSet(f[v.list[i]]) \subseteq ToSet(s)
<1> DEFINE n == Len(v.list)
           s == [i \in 1 .. n |-> f[v.list[i]]]
<1>1. n \in Nat /\ DOMAIN v.list = 1 .. n /\ \A i \in 1 .. n : v.list[i] \in Trees
  BY ChildOf
<1> HIDE DEF n
<1>2. s = [i \in 1 .. n |-> s[i]] /\ \A i \in 1 .. n : s[i] \in Seq(Trees)
  BY <1>1
<1>3. \A i \in 1 .. n : s[i] = f[v.list[i]]
  OBVIOUS
<1>4. s = [i \in DOMAIN v.list |-> f[v.list[i]]]
  BY <1>1
<1> HIDE DEF s
<1>5. /\ FlattenSeq(s) \in Seq(Trees)
      /\ \A i \in 1 .. n : ToSet(s[i]) \subseteq ToSet(FlattenSeq(s))
  BY <1>1, <1>2, Flattened
<1> QED
  BY <1>3, <1>4, <1>5 DEF n

LEMMA DocumentIs ==
  ASSUME NEW v \in Trees
  PROVE  DocumentSegments(v) \in Seq(Trees)
<1>1. CASE Has(v, "source") /\ StrAt(v.map.source, "type") = "text"
  <2>1. v.map.source \in Trees
    BY <1>1, ChildOf
  <2>2. DOMAIN <<"title", "context">> = 1 .. 2 /\ DOMAIN <<"data", "content">> = 1 .. 2
        /\ 2 \in Nat
    OBVIOUS
  <2>3. /\ FieldSegments(v, <<"title", "context">>) \in Seq(Trees)
        /\ FieldSegments(v.map.source, <<"data", "content">>) \in Seq(Trees)
    BY <2>1, <2>2, FieldsAre
  <2> QED
    BY <1>1, <2>3, ConcatSet DEF DocumentSegments
<1> QED
  BY <1>1, NoElement DEF DocumentSegments

LEMMA SegmentsByType ==
  ASSUME NEW v \in Trees, NEW f \in [Trees -> Seq(Trees)]
  PROVE  SegmentsBy(v, f) \in Seq(Trees)
<1> DEFINE type == StrAt(v, "type")
<1>1. Counted(v) \in Seq(Trees) /\ <<>> \in Seq(Trees) /\ <<v>> \in Seq(Trees)
  BY CountedIs, NoElement, OneElement
<1>2. ~IsMap(v) /\ IsList(v) => FlattenSeq([i \in DOMAIN v.list |-> f[v.list[i]]]) \in Seq(Trees)
  BY ListIs
<1>3. FieldSegments(v, Leaves(type)) \o NestedBy(v, f, Nested(type)) \in Seq(Trees)
  BY FewKeys, FieldsAre, NestedIs, ConcatSet
<1> QED
  BY <1>1, <1>2, <1>3, DocumentIs, KindsAssumption DEF SegmentsBy

LEMMA SegmentsUnfold ==
  /\ ContentSegments \in [Trees -> Seq(Trees)]
  /\ \A v \in Trees : ContentSegments[v] = SegmentsBy(v, ContentSegments)
<1> DEFINE V == Seq(Trees)
           G == [p \in Trees \X [Trees -> V] |-> SegmentsBy(p[1], p[2])]
           Solves(g) == g = [v \in Trees |-> SegmentsBy(v, g)]
<1>1. V # {}
  BY NoElement
<1>2. \A v \in Trees : \A f \in [Trees -> V] : SegmentsBy(v, f) \in V
  BY SegmentsByType
<1>3. ASSUME NEW v \in Trees, NEW g, NEW h, \A c \in Children(v) : g[c] = h[c]
      PROVE  SegmentsBy(v, g) = SegmentsBy(v, h)
  <2>1. ASSUME NEW keys PROVE NestedBy(v, g, keys) = NestedBy(v, h, keys)
    <3>1. \A i \in DOMAIN keys : OfNested(v, g, keys, i) = OfNested(v, h, keys, i)
      BY <1>3, ChildOf DEF OfNested
    <3>2. [i \in DOMAIN keys |-> OfNested(v, g, keys, i)]
            = [i \in DOMAIN keys |-> OfNested(v, h, keys, i)]
      BY <3>1
    <3> QED
      BY <3>2 DEF NestedBy
  <2>2. CASE ~IsStr(v) /\ IsList(v)
    <3>1. \A i \in DOMAIN v.list : g[v.list[i]] = h[v.list[i]]
      BY <1>3, <2>2, ChildOf, KindsAssumption
    <3>2. [i \in DOMAIN v.list |-> g[v.list[i]]] = [i \in DOMAIN v.list |-> h[v.list[i]]]
      BY <3>1
    <3> QED
      BY <2>2, <3>2 DEF SegmentsBy
  <2>3. CASE IsStr(v) \/ ~IsList(v)
    BY <2>1, <2>3 DEF SegmentsBy
  <2> QED
    BY <2>2, <2>3
<1> HIDE DEF V
<1>4. PICK f \in [Trees -> V] : \A v \in Trees : f[v] = G[<<v, f>>]
  <2>1. G \in [Trees \X [Trees -> V] -> V]
    BY <1>2
  <2>2. \A v \in Trees : \A g, h \in [Trees -> V] :
          (\A c \in Children(v) : g[c] = h[c]) => G[<<v, g>>] = G[<<v, h>>]
    BY <1>3
  <2> HIDE DEF G
  <2>3. OverTrees(V, G)
    BY <1>1, <2>1, <2>2 DEF OverTrees
  <2> QED
    BY <2>3, TreeRecursion
<1>5. Solves(f)
  BY <1>4
<1>6. Solves(CHOOSE g : Solves(g))
  <2> HIDE DEF Solves
  <2> QED
    BY <1>5
<1>7. Solves(ContentSegments)
  <2>1. ContentSegments = CHOOSE g : Solves(g)
    BY Zenon DEF ContentSegments, SegmentsBy, NestedBy, OfNested
  <2> QED
    BY <1>6, <2>1, Zenon
<1>8. ContentSegments = [v \in Trees |-> SegmentsBy(v, ContentSegments)]
  BY <1>7
<1>9. \A v \in Trees : ContentSegments[v] = SegmentsBy(v, ContentSegments)
  BY <1>8
<1> DEFINE S == {v \in Trees : ContentSegments[v] = f[v]}
<1>10. S = Trees
  <2>1. ASSUME NEW v \in Trees, Children(v) \subseteq S PROVE v \in S
    <3>1. SegmentsBy(v, ContentSegments) = SegmentsBy(v, f)
      BY <1>3, <2>1
    <3>2. f[v] = SegmentsBy(v, f)
      BY <1>5
    <3> QED
      BY <1>9, <3>1, <3>2
  <2>2. S \in SUBSET Trees
    OBVIOUS
  <2> HIDE DEF S
  <2> QED
    BY <2>1, <2>2, TreeInduction
<1>11. ContentSegments = f
  BY <1>5, <1>8, <1>10
<1> QED
  BY <1>9, <1>11 DEF V

(* Some segment has the text in it.                                         *)
Covers(segments, x) == \E v \in ToSet(segments) : Holds(Parts[v], x)

TypesShaped(v) ==
  \A p \in Parts[v] :
    Has(p, "type") => IsStr(p.map.type) /\ TextKeys(p) \subseteq PartKeys(p.map.type.str)
OnlyText(v) == \A p \in Parts[v] : ~NotText(p)

LEMMA PromptHas ==
  ASSUME NEW v \in Trees, NEW x \in ToSet(CollectPrompt[v])
  PROVE  \/ ~IsMap(v) /\ ~IsList(v) /\ IsStr(v) /\ v.str = x /\ x # ""
         \/ IsMap(v) /\ \E k \in TextKeys(v) : Has(v, k) /\ x \in ToSet(CollectPrompt[v.map[k]])
         \/ ~IsMap(v) /\ IsList(v) /\ \E i \in 1 .. Len(v.list) : x \in ToSet(CollectPrompt[v.list[i]])
<1>1. CollectPrompt[v] = PromptBy(v, CollectPrompt) /\ CollectPrompt \in [Trees -> Seq(Strings)]
  BY PromptUnfolds
<1>2. \/ ~IsMap(v) /\ ~IsList(v) /\ IsStr(v) /\ v.str = x /\ x # ""
      \/ IsMap(v) /\ \E i \in 1 .. 6 :
           Has(v, PromptKeys[i]) /\ x \in ToSet(CollectPrompt[v.map[PromptKeys[i]]])
      \/ ~IsMap(v) /\ IsList(v) /\ \E i \in 1 .. Len(v.list) : x \in ToSet(CollectPrompt[v.list[i]])
  BY <1>1, PromptByIs
<1>3. \A i \in 1 .. 6 : Has(v, PromptKeys[i]) => PromptKeys[i] \in TextKeys(v)
  BY SixKeys DEF TextKeys, ToSet, Has
<1> QED
  BY <1>2, <1>3

(* A text counted as it is.                                                 *)
LEMMA CountedCovers ==
  ASSUME NEW v \in Trees, NEW x \in ToSet(CollectPrompt[v])
  PROVE  Covers(Counted(v), x)
<1>1. Holds(Parts[v], x)
  BY PromptWithin
<1>2. ~(IsStr(v) /\ v.str = "")
  BY PromptHas, KindsAssumption
<1> QED
  BY <1>1, <1>2, CountedIs DEF Covers

LEMMA KeysOfType ==
  ASSUME NEW type, NEW k \in PartKeys(type), type # "document"
  PROVE  \/ k = "content" /\ \E j \in DOMAIN Nested(type) : Nested(type)[j] = "content"
         \/ k = "text" /\ Leaves(type) = <<"text">>
<1>1. CASE type \in ToolResults \cup SearchResults \cup {"web_fetch_result"}
  <2>1. k = "content"
    BY <1>1 DEF PartKeys
  <2>2. Nested(type) = <<"content">>
    BY <1>1 DEF Nested, CodeResults, ToolResults, SearchResults
  <2> QED
    BY <2>1, <2>2
<1>2. CASE type \in CodeResults
  <2>1. k = "content"
    BY <1>2 DEF PartKeys
  <2>2. Nested(type) = <<"content", "output">>
    BY <1>2 DEF Nested, CodeResults, ToolResults, SearchResults
  <2> QED
    BY <2>1, <2>2
<1>3. CASE type \in ToolUses \cup NotCounted \cup {"thinking", "tool_reference"}
  <2>1. type \notin ToolResults \cup SearchResults \cup CodeResults \cup {"web_fetch_result"}
    BY <1>3 DEF ToolUses, NotCounted, CodeResults, ToolResults, SearchResults
  <2>2. PartKeys(type) = {}
    BY <1>3, <2>1 DEF PartKeys
  <2> QED
    BY <2>2
<1>4. CASE type \notin ToolResults \cup SearchResults \cup CodeResults \cup {"web_fetch_result"}
                        \cup ToolUses \cup NotCounted \cup {"thinking", "tool_reference"}
  <2>1. PartKeys(type) = {"text"}
    BY <1>4 DEF PartKeys
  <2>2. Leaves(type) = <<"text">>
    BY <1>4 DEF Leaves
  <2> QED
    BY <2>1, <2>2
<1> QED
  BY <1>1, <1>2, <1>3, <1>4

LEMMA FieldCovers ==
  ASSUME NEW v \in Trees, Has(v, "text"), NEW x \in ToSet(CollectPrompt[v.map["text"]])
  PROVE  Covers(FieldSegments(v, <<"text">>), x)
<1>1. DOMAIN <<"text">> = 1 .. 1 /\ <<"text">>[1] = "text" /\ 1 \in 1 .. 1 /\ 1 \in Nat
  OBVIOUS
<1>2. ToSet(Counted(v.map["text"])) \subseteq ToSet(FieldSegments(v, <<"text">>))
  BY <1>1, FieldsAre
<1>3. Covers(Counted(v.map["text"]), x)
  BY ChildOf, CountedCovers
<1> QED
  BY <1>2, <1>3 DEF Covers

LEMMA TypeOfPart ==
  ASSUME NEW v \in Trees, TypesShaped(v), OnlyText(v), StrAt(v, "type") # ""
  PROVE  TextKeys(v) \subseteq PartKeys(StrAt(v, "type")) /\ StrAt(v, "type") # "document"
<1>1. v \in Parts[v]
  BY PartsHold
<1>2. Has(v, "type") /\ StrAt(v, "type") = v.map.type.str
  BY DEF StrAt
<1>3. TextKeys(v) \subseteq PartKeys(StrAt(v, "type"))
  BY <1>1, <1>2 DEF TypesShaped
<1>4. ASSUME StrAt(v, "type") = "document" PROVE FALSE
  <2>1. Lower("document") = "document"
    BY DEF Lower
  <2>2. UnsupportedContentMap(v)
    BY <1>4, <2>1 DEF UnsupportedContentMap, TextTypes, MediaWords
  <2> QED
    BY <1>1, <1>2, <2>2 DEF OnlyText, NotText, Has
<1> QED
  BY <1>3, <1>4

LEMMA ChildShaped ==
  ASSUME NEW v \in Trees, NEW c \in Children(v)
  PROVE  /\ TypesShaped(v) => TypesShaped(c)
         /\ OnlyText(v) => OnlyText(c)
BY PartsHold DEF TypesShaped, OnlyText

LEMMA ContentCovered ==
  ASSUME NEW v \in Trees, TypesShaped(v), OnlyText(v), NEW x \in ToSet(CollectPrompt[v])
  PROVE  Covers(ContentSegments[v], x)
<1> DEFINE Fine(w) == TypesShaped(w) /\ OnlyText(w) =>
                        \A y \in ToSet(CollectPrompt[w]) : Covers(ContentSegments[w], y)
           S == {w \in Trees : Fine(w)}
<1>1. ASSUME NEW w \in Trees, Children(w) \subseteq S PROVE w \in S
  <2> SUFFICES ASSUME TypesShaped(w), OnlyText(w), NEW y \in ToSet(CollectPrompt[w])
               PROVE  Covers(ContentSegments[w], y)
    OBVIOUS
  <2>1. ASSUME NEW c \in Children(w), y \in ToSet(CollectPrompt[c])
        PROVE  Covers(ContentSegments[c], y)
    BY <1>1, <2>1, ChildShaped
  <2>2. /\ ContentSegments[w] = SegmentsBy(w, ContentSegments)
        /\ ContentSegments \in [Trees -> Seq(Trees)]
    BY SegmentsUnfold
  <2>3. CASE ~IsMap(w) /\ ~IsList(w) /\ IsStr(w)
    BY <2>2, <2>3, CountedCovers DEF SegmentsBy
  <2>4. ASSUME ~IsMap(w), IsList(w), NEW i \in 1 .. Len(w.list),
               y \in ToSet(CollectPrompt[w.list[i]])
        PROVE  Covers(ContentSegments[w], y)
    <3>1. ToSet(ContentSegments[w.list[i]]) \subseteq ToSet(ContentSegments[w])
      BY <2>2, <2>4, ListIs, KindsAssumption DEF SegmentsBy
    <3>2. Covers(ContentSegments[w.list[i]], y)
      BY <2>1, <2>4, ChildOf
    <3> QED
      BY <3>1, <3>2 DEF Covers
  <2>5. ASSUME IsMap(w), NEW k \in TextKeys(w), Has(w, k), y \in ToSet(CollectPrompt[w.map[k]])
        PROVE  Covers(ContentSegments[w], y)
    <3> DEFINE type == StrAt(w, "type")
               leaves == FieldSegments(w, Leaves(type))
               nested == NestedBy(w, ContentSegments, Nested(type))
    <3>1. ~IsStr(w) /\ ~IsList(w)
      BY <2>5, KindsAssumption
    <3>2. CASE type = ""
      <4>1. ContentSegments[w] = <<w>> /\ ToSet(<<w>>) = {w}
        BY <2>2, <2>5, <3>1, <3>2, OneElement DEF SegmentsBy
      <4> QED
        BY <4>1, PromptWithin DEF Covers
    <3>3. CASE type # ""
      <4>1. k \in PartKeys(type) /\ type # "document"
        BY <2>5, <3>3, TypeOfPart
      <4>2. leaves \in Seq(Trees) /\ nested \in Seq(Trees)
        BY <2>2, FewKeys, FieldsAre, NestedIs
      <4>3. ContentSegments[w] = leaves \o nested
        BY <2>2, <2>5, <3>1, <3>3, <4>1 DEF SegmentsBy
      <4>4. ToSet(ContentSegments[w]) = ToSet(leaves) \cup ToSet(nested)
        BY <4>2, <4>3, ConcatSet
      <4>5. CASE k = "text" /\ Leaves(type) = <<"text">>
        <5>1. Covers(leaves, y)
          BY <2>5, <4>5, FieldCovers
        <5> QED
          BY <4>4, <5>1 DEF Covers
      <4>6. ASSUME k = "content", NEW j \in DOMAIN Nested(type), Nested(type)[j] = "content"
            PROVE  Covers(ContentSegments[w], y)
        <5>1. PICK n \in Nat : DOMAIN Nested(type) = 1 .. n
          BY FewKeys
        <5>2. ToSet(ContentSegments[w.map[k]]) \subseteq ToSet(nested)
          BY <2>2, <2>5, <4>6, <5>1, NestedIs
        <5>3. Covers(ContentSegments[w.map[k]], y)
          BY <2>1, <2>5, ChildOf
        <5> QED
          BY <4>4, <5>2, <5>3 DEF Covers
      <4> QED
        BY <4>1, <4>5, <4>6, KeysOfType
    <3> QED
      BY <3>2, <3>3
  <2> QED
    BY <2>3, <2>4, <2>5, PromptHas
<1>2. S = Trees
  <2>1. S \in SUBSET Trees
    OBVIOUS
  <2> HIDE DEF S
  <2> QED
    BY <1>1, <2>1, TreeInduction
<1> QED
  BY <1>2

-----------------------------------------------------------------------------
(* The segments of a body: those of system, of the messages, of tools and   *)
(* of tool_choice.                                                          *)

OfSystemPart(part) ==
  IF IsStr(part) THEN Counted(part)
  ELSE IF StrAt(part, "type") = "text" THEN FieldSegments(part, <<"text">>) ELSE <<>>
OfMessage(m) ==
  FieldSegments(m, <<"role">>) \o
    (IF Has(m, "content") THEN ContentSegments[m.map.content] ELSE <<>>)
OfTool(t) == FieldSegments(t, <<"type", "name", "description", "input_schema">>)

LEMMA TupleDomains ==
  /\ \A a : DOMAIN <<a>> = 1 .. 1
  /\ \A a, b : DOMAIN <<a, b>> = 1 .. 2
  /\ \A a, b, c, d : DOMAIN <<a, b, c, d>> = 1 .. 4
  /\ 1 \in Nat /\ 2 \in Nat /\ 4 \in Nat
OBVIOUS

LEMMA PartsTyped ==
  ASSUME NEW v \in Trees
  PROVE  /\ OfSystemPart(v) \in Seq(Trees) /\ OfMessage(v) \in Seq(Trees)
         /\ OfTool(v) \in Seq(Trees)
         /\ Has(v, "content") =>
              ToSet(ContentSegments[v.map.content]) \subseteq ToSet(OfMessage(v))
<1>1. /\ FieldSegments(v, <<"text">>) \in Seq(Trees)
      /\ FieldSegments(v, <<"role">>) \in Seq(Trees)
      /\ FieldSegments(v, <<"type", "name", "description", "input_schema">>) \in Seq(Trees)
  BY TupleDomains, FieldsAre
<1>2. OfSystemPart(v) \in Seq(Trees)
  BY <1>1, CountedIs, NoElement DEF OfSystemPart
<1> DEFINE content == IF Has(v, "content") THEN ContentSegments[v.map.content] ELSE <<>>
<1>3. content \in Seq(Trees)
  BY ChildOf, SegmentsUnfold, NoElement
<1> DEFINE r == FieldSegments(v, <<"role">>)
<1>4. OfMessage(v) = r \o content /\ r \in Seq(Trees)
  BY <1>1 DEF OfMessage
<1>5. Has(v, "content") => content = ContentSegments[v.map.content]
  OBVIOUS
<1> HIDE DEF content, r
<1>6. r \o content \in Seq(Trees) /\ ToSet(r \o content) = ToSet(r) \cup ToSet(content)
  BY <1>3, <1>4, ConcatSet
<1>7. OfMessage(v) \in Seq(Trees) /\ ToSet(content) \subseteq ToSet(OfMessage(v))
  BY <1>4, <1>6
<1> QED
  BY <1>1, <1>2, <1>5, <1>7 DEF OfTool

(* The items of a list, each with its segments.                             *)
LEMMA ItemsAre ==
  ASSUME NEW v \in Trees, ~IsMap(v), IsList(v),
         NEW s, s = [i \in DOMAIN v.list |-> s[i]],
         \A i \in DOMAIN v.list : s[i] \in Seq(Trees)
  PROVE  /\ FlattenSeq(s) \in Seq(Trees)
         /\ \A i \in 1 .. Len(v.list) : ToSet(s[i]) \subseteq ToSet(FlattenSeq(s))
BY ChildOf, Flattened

LEMMA SystemIs ==
  ASSUME NEW body \in Trees
  PROVE  /\ SystemSegments(body) \in Seq(Trees)
         /\ Has(body, "system") =>
              /\ IsStr(body.map.system) => SystemSegments(body) = Counted(body.map.system)
              /\ ~IsStr(body.map.system) /\ IsList(body.map.system) =>
                   \A i \in 1 .. Len(body.map.system.list) :
                     ToSet(OfSystemPart(body.map.system.list[i])) \subseteq ToSet(SystemSegments(body))
<1> DEFINE v == body.map["system"]
           s == [i \in DOMAIN v.list |-> OfSystemPart(v.list[i])]
<1>1. CASE Has(body, "system") /\ IsStr(v)
  <2>1. SystemSegments(body) = Counted(v)
    BY <1>1 DEF SystemSegments
  <2> QED
    BY <1>1, <2>1, ChildOf, CountedIs
<1>2. CASE Has(body, "system") /\ ~IsStr(v) /\ IsList(v)
  <2>1. SystemSegments(body) = FlattenSeq(s)
    BY <1>2 DEF SystemSegments, Each, OfSystemPart
  <2>2. v \in Trees /\ ~IsMap(v)
    BY <1>2, ChildOf, KindsAssumption
  <2>3. \A i \in DOMAIN v.list : v.list[i] \in Trees
    BY <1>2, <2>2, ChildOf
  <2>4. \A i \in DOMAIN v.list : OfSystemPart(v.list[i]) \in Seq(Trees)
    BY <2>3, PartsTyped
  <2>5. /\ s = [i \in DOMAIN v.list |-> s[i]]
        /\ \A i \in DOMAIN v.list : s[i] \in Seq(Trees) /\ s[i] = OfSystemPart(v.list[i])
    BY <2>4
  <2>6. DOMAIN v.list = 1 .. Len(v.list)
    BY <1>2, <2>2, ChildOf
  <2> HIDE DEF s, v
  <2>7. /\ FlattenSeq(s) \in Seq(Trees)
        /\ \A i \in 1 .. Len(v.list) : ToSet(s[i]) \subseteq ToSet(FlattenSeq(s))
    BY <1>2, <2>2, <2>5, ItemsAre
  <2>8. \A i \in 1 .. Len(v.list) : ToSet(OfSystemPart(v.list[i])) \subseteq ToSet(SystemSegments(body))
    BY <2>1, <2>5, <2>6, <2>7
  <2> QED
    BY <1>2, <2>1, <2>7, <2>8 DEF v
<1>3. CASE ~(Has(body, "system") /\ (IsStr(v) \/ IsList(v)))
  <2>1. SystemSegments(body) = <<>>
    BY <1>3 DEF SystemSegments, Each
  <2> QED
    BY <1>3, <2>1, NoElement
<1> QED
  BY <1>1, <1>2, <1>3

LEMMA MessagesAre ==
  ASSUME NEW body \in Trees
  PROVE  /\ MessageSegments(body) \in Seq(Trees)
         /\ Has(body, "messages") /\ IsList(body.map.messages) =>
              \A i \in 1 .. Len(body.map.messages.list) :
                ToSet(OfMessage(body.map.messages.list[i])) \subseteq ToSet(MessageSegments(body))
<1> DEFINE v == body.map["messages"]
           s == [i \in DOMAIN v.list |-> OfMessage(v.list[i])]
<1>1. CASE Has(body, "messages") /\ IsList(v)
  <2>1. MessageSegments(body) = FlattenSeq(s)
    BY <1>1 DEF MessageSegments, Each, OfMessage
  <2>2. v \in Trees /\ ~IsMap(v)
    BY <1>1, ChildOf, KindsAssumption
  <2>3. DOMAIN v.list = 1 .. Len(v.list) /\ \A i \in DOMAIN v.list : v.list[i] \in Trees
    BY <1>1, <2>2, ChildOf
  <2>4. \A i \in DOMAIN v.list : OfMessage(v.list[i]) \in Seq(Trees)
    BY <2>3, PartsTyped
  <2>5. /\ s = [i \in DOMAIN v.list |-> s[i]]
        /\ \A i \in DOMAIN v.list : s[i] \in Seq(Trees) /\ s[i] = OfMessage(v.list[i])
    BY <2>4
  <2> HIDE DEF s, v
  <2>6. /\ FlattenSeq(s) \in Seq(Trees)
        /\ \A i \in 1 .. Len(v.list) : ToSet(s[i]) \subseteq ToSet(FlattenSeq(s))
    BY <1>1, <2>2, <2>5, ItemsAre
  <2>7. \A i \in 1 .. Len(v.list) : ToSet(OfMessage(v.list[i])) \subseteq ToSet(MessageSegments(body))
    BY <2>1, <2>3, <2>5, <2>6
  <2> QED
    BY <2>1, <2>6, <2>7 DEF v
<1>2. CASE ~(Has(body, "messages") /\ IsList(v))
  <2>1. MessageSegments(body) = <<>>
    BY <1>2 DEF MessageSegments, Each
  <2> QED
    BY <1>2, <2>1, NoElement
<1> QED
  BY <1>1, <1>2

LEMMA ToolsAre ==
  ASSUME NEW body \in Trees
  PROVE  ToolSegments(body) \in Seq(Trees) /\ ToolChoiceSegments(body) \in Seq(Trees)
<1> DEFINE v == body.map["tools"]
           s == [i \in DOMAIN v.list |-> OfTool(v.list[i])]
<1>1. ASSUME Has(body, "tools"), IsList(v)
      PROVE  ToolSegments(body) \in Seq(Trees)
  <2>1. ToolSegments(body) = FlattenSeq(s)
    BY <1>1 DEF ToolSegments, Each, OfTool
  <2>2. v \in Trees /\ ~IsMap(v)
    BY <1>1, ChildOf, KindsAssumption
  <2>3. DOMAIN v.list = 1 .. Len(v.list) /\ \A i \in DOMAIN v.list : v.list[i] \in Trees
    BY <1>1, <2>2, ChildOf
  <2>4. \A i \in DOMAIN v.list : OfTool(v.list[i]) \in Seq(Trees)
    BY <2>3, PartsTyped
  <2>5. /\ s = [i \in DOMAIN v.list |-> s[i]]
        /\ \A i \in DOMAIN v.list : s[i] \in Seq(Trees) /\ s[i] = OfTool(v.list[i])
    BY <2>4
  <2> HIDE DEF s, v
  <2>6. /\ FlattenSeq(s) \in Seq(Trees)
        /\ \A i \in 1 .. Len(v.list) : ToSet(s[i]) \subseteq ToSet(FlattenSeq(s))
    BY <1>1, <2>2, <2>5, ItemsAre
  <2> QED
    BY <2>1, <2>6
<1>2. ~(Has(body, "tools") /\ IsList(v)) => ToolSegments(body) = <<>>
  BY DEF ToolSegments, Each
<1>3. ToolSegments(body) \in Seq(Trees)
  BY <1>1, <1>2, NoElement
<1>4. ASSUME Has(body, "tool_choice")
      PROVE  /\ body.map.tool_choice \in Trees
             /\ FieldSegments(body.map.tool_choice, <<"type", "name">>) \in Seq(Trees)
             /\ Counted(body.map.tool_choice) \in Seq(Trees)
  BY <1>4, ChildOf, CountedIs, FieldsAre, TupleDomains
<1>5. ToolChoiceSegments(body) \in Seq(Trees)
  BY <1>4, NoElement DEF ToolChoiceSegments
<1> QED
  BY <1>3, <1>5

LEMMA BodySegments ==
  ASSUME NEW body \in Trees
  PROVE  /\ ToSet(SystemSegments(body)) \subseteq ToSet(CountClaudeInputTokens(body))
         /\ ToSet(MessageSegments(body)) \subseteq ToSet(CountClaudeInputTokens(body))
<1> DEFINE a == SystemSegments(body)
           b == MessageSegments(body)
           c == ToolSegments(body)
           d == ToolChoiceSegments(body)
<1>1. a \in Seq(Trees) /\ b \in Seq(Trees) /\ c \in Seq(Trees) /\ d \in Seq(Trees)
  BY SystemIs, MessagesAre, ToolsAre
<1>2. CountClaudeInputTokens(body) = ((a \o b) \o c) \o d
  BY DEF CountClaudeInputTokens
<1> HIDE DEF a, b, c, d
<1> DEFINE ab == a \o b
           abc == ab \o c
<1>3. ab \in Seq(Trees) /\ ToSet(ab) = ToSet(a) \cup ToSet(b)
  BY <1>1, ConcatSet
<1>4. CountClaudeInputTokens(body) = abc \o d
  BY <1>2
<1> HIDE DEF ab
<1>5. abc \in Seq(Trees) /\ ToSet(abc) = ToSet(ab) \cup ToSet(c)
  BY <1>1, <1>3, ConcatSet
<1> HIDE DEF abc
<1>6. ToSet(abc \o d) = ToSet(abc) \cup ToSet(d)
  BY <1>1, <1>5, ConcatSet
<1> QED
  BY <1>3, <1>4, <1>5, <1>6 DEF a, b

LEMMA BodyCovered ==
  ASSUME NEW body \in Trees, ClaudeShaped(body), ValidateRequestPayload(body) = "ok",
         NEW x \in ToSet(CollectPrompt[body])
  PROVE  Covers(CountClaudeInputTokens(body), x)
<1>1. TypesShaped(body) /\ OnlyText(body)
  BY AcceptedIsClean DEF ClaudeShaped, TypesShaped, OnlyText
<1>2. IsMap(body) /\ ~IsList(body) /\ ~IsStr(body)
  BY KindsAssumption DEF ClaudeShaped
<1>3. PICK k \in TextKeys(body) : Has(body, k) /\ x \in ToSet(CollectPrompt[body.map[k]])
  BY <1>2, PromptHas
<1> DEFINE v == body.map[k]
<1>4. k \in {"system", "messages"} /\ v \in Trees /\ TypesShaped(v) /\ OnlyText(v)
  BY <1>1, <1>3, ChildOf, ChildShaped DEF ClaudeShaped
<1>5. CASE k = "system"
  <2>1. CASE IsStr(v)
    <3>1. SystemSegments(body) = Counted(v)
      BY <1>3, <1>5, <2>1, SystemIs
    <3>2. Covers(Counted(v), x)
      BY <1>3, <1>4, CountedCovers
    <3> QED
      BY <3>1, <3>2, BodySegments DEF Covers
  <2>2. CASE ~IsStr(v)
    <3>1. IsList(v) /\ ~IsMap(v) /\ \A part \in Children(v) : IsStr(part) \/ StrAt(part, "type") = "text"
      BY <1>3, <1>4, <1>5, <2>2, KindsAssumption DEF ClaudeShaped
    <3>2. PICK i \in 1 .. Len(v.list) : x \in ToSet(CollectPrompt[v.list[i]])
      BY <1>3, <1>4, <3>1, PromptHas
    <3> DEFINE part == v.list[i]
    <3>3. part \in Trees /\ part \in Children(v)
      BY <1>4, <3>1, ChildOf
    <3>4. ToSet(OfSystemPart(part)) \subseteq ToSet(SystemSegments(body))
      BY <1>3, <1>5, <2>2, <3>1, SystemIs
    <3>5. Covers(OfSystemPart(part), x)
      <4>1. CASE IsStr(part)
        BY <3>2, <3>3, <4>1, CountedCovers DEF OfSystemPart
      <4>2. CASE ~IsStr(part)
        <5>1. StrAt(part, "type") = "text" /\ OfSystemPart(part) = FieldSegments(part, <<"text">>)
          BY <3>1, <3>3, <4>2 DEF OfSystemPart
        <5>2. IsMap(part) /\ TextKeys(part) \subseteq PartKeys("text")
          <6>1. IsMap(part)
            BY <5>1 DEF StrAt, Has
          <6>2. TypesShaped(part) /\ OnlyText(part)
            BY <1>4, <3>3, ChildShaped
          <6>3. "text" # ""
            OBVIOUS
          <6> QED
            BY <3>3, <5>1, <6>1, <6>2, <6>3, TypeOfPart
        <5>3. PartKeys("text") = {"text"}
          BY DEF PartKeys, ToolUses, NotCounted, CodeResults, ToolResults, SearchResults
        <5>4. Has(part, "text") /\ x \in ToSet(CollectPrompt[part.map["text"]])
          BY <3>2, <3>3, <5>2, <5>3, PromptHas
        <5> QED
          BY <3>3, <5>1, <5>4, FieldCovers
      <4> QED
        BY <4>1, <4>2
    <3> QED
      BY <3>4, <3>5, BodySegments DEF Covers
  <2> QED
    BY <2>1, <2>2
<1>6. CASE k = "messages"
  <2>1. /\ IsList(v) /\ ~IsMap(v)
        /\ \A m \in Children(v) : IsMap(m) /\ TextKeys(m) \subseteq {"content"}
    BY <1>3, <1>4, <1>6, KindsAssumption DEF ClaudeShaped
  <2>2. PICK i \in 1 .. Len(v.list) : x \in ToSet(CollectPrompt[v.list[i]])
    BY <1>3, <1>4, <2>1, PromptHas
  <2> DEFINE m == v.list[i]
  <2>3. m \in Trees /\ m \in Children(v) /\ TypesShaped(m) /\ OnlyText(m)
    BY <1>4, <2>1, ChildOf, ChildShaped
  <2>4. Has(m, "content") /\ x \in ToSet(CollectPrompt[m.map["content"]])
    BY <2>1, <2>2, <2>3, PromptHas
  <2>5. Covers(ContentSegments[m.map["content"]], x)
    BY <2>3, <2>4, ChildOf, ChildShaped, ContentCovered
  <2>6. ToSet(ContentSegments[m.map["content"]]) \subseteq ToSet(OfMessage(m))
    BY <2>3, <2>4, PartsTyped
  <2>7. ToSet(OfMessage(m)) \subseteq ToSet(MessageSegments(body))
    BY <1>3, <1>6, <2>1, MessagesAre
  <2> QED
    BY <2>5, <2>6, <2>7, BodySegments DEF Covers
<1> QED
  BY <1>4, <1>5, <1>6

(* What was counted last is a body with its segments.                       *)
CountedInv ==
  \/ counted = NothingCounted
  \/ counted.body \in Trees /\ counted.segments = CountClaudeInputTokens(counted.body)

LEMMA StepsOfCounted ==
  ASSUME [Next]_vars
  PROVE  \/ UNCHANGED counted \/ counted' = NothingCounted
         \/ \E req \in Requests : CountTokens(req)
<1>1. CASE \E raw \in Raws : Reconfigure(raw)
  BY <1>1 DEF Reconfigure, Answer
<1>2. CASE \E record \in Records, now \in Clock : UsageHandle(record, now)
  BY <1>2 DEF UsageHandle, Answer
<1>3. CASE \E req \in Requests : Execute(req)
  BY <1>3 DEF Execute, Answer
<1>4. CASE Refused \/ Shutdown
  BY <1>4 DEF Refused, Shutdown, Answer
<1>5. CASE RefreshAuth \/ Refreshing \/ RefreshReturns
  BY <1>5 DEF RefreshAuth, Refreshing, RefreshReturns, Answer, host
<1>6. CASE Unpack \/ Unpacking \/ UnpackReturns
  BY <1>6 DEF Unpack, Unpacking, UnpackReturns, Answer, host
<1>7. CASE Executing \/ OthersStep
  BY <1>7 DEF Executing, ExecuteRunAgent, EnterWorkspace, AcquireSlot, Running,
              RunAgentReturns, ExecuteReturns, OthersStep, OtherAcquires,
              OtherReleases, host
<1>8. CASE UNCHANGED vars
  BY <1>8 DEF vars, host
<1> QED
  BY <1>1, <1>2, <1>3, <1>4, <1>5, <1>6, <1>7, <1>8 DEF Next, Executing, OthersStep

LEMMA CountedNext ==
  ASSUME CountedInv, [Next]_vars
  PROVE  CountedInv'
<1>1. CASE UNCHANGED counted \/ counted' = NothingCounted
  BY <1>1 DEF CountedInv
<1>2. ASSUME NEW req \in Requests, CountTokens(req)
      PROVE  CountedInv'
  <2>1. CASE counted' = NothingCounted
    BY <2>1 DEF CountedInv
  <2>2. CASE counted' # NothingCounted
    <3>1. /\ req.body \notin {Malformed, EmptyBody}
          /\ counted' = [body |-> req.body, segments |-> CountClaudeInputTokens(req.body)]
      BY <1>2, <2>2 DEF CountTokens, Answer
    <3>2. req.body \in Trees
      BY <3>1, RequestsAssumption
    <3> QED
      BY <3>1, <3>2 DEF CountedInv
  <2> QED
    BY <2>1, <2>2
<1> QED
  BY <1>1, <1>2, StepsOfCounted

(* For a Claude request of any depth that the plugin would run, every text  *)
(* that collectPrompt puts into the prompt lies in a segment that           *)
(* count_tokens counts, though the two walk over the body by different      *)
(* rules (token_count.go:62-173, cursor_cli.go:335-364).                    *)
THEOREM EveryTextCounted == Spec => []PromptCounted
<1>1. PluginInit => CountedInv
  BY DEF PluginInit, CountedInv
<1>2. CountedInv => PromptCounted
  <2> DEFINE body == counted.body
             prompt == CollectPrompt[body]
             parts == UNION {Parts[v] : v \in ToSet(counted.segments)}
  <2> SUFFICES ASSUME CountedInv, ClaudeShaped(body), ValidateRequestPayload(body) = "ok",
                      NEW i \in DOMAIN prompt
               PROVE  \E p \in parts : IsStr(p) /\ p.str = prompt[i]
    BY DEF PromptCounted
  <2>1. counted # NothingCounted
    BY DEF ClaudeShaped, NothingCounted, Scalar, IsMap
  <2>2. body \in Trees /\ counted.segments = CountClaudeInputTokens(body)
    BY <2>1 DEF CountedInv
  <2>3. prompt[i] \in ToSet(prompt)
    BY DEF ToSet
  <2>4. Covers(counted.segments, prompt[i])
    BY <2>2, <2>3, BodyCovered
  <2> QED
    BY <2>4 DEF Covers, Holds
<1> QED
  BY <1>1, <1>2, CountedNext, PTL DEF Spec
=============================================================================
