--------------------------- MODULE Layout_proofs ---------------------------
(***************************************************************************)
(* What the packing loop of union_layout.py and the codec of slot.py       *)
(* guarantee for every set of operand types and every instruction set: no  *)
(* field holds two operands of one instruction, in a packed slot every     *)
(* operand has exactly one field, and a word packed from encoded           *)
(* instructions unpacks and decodes to exactly them.                       *)
(*                                                                         *)
(* The first part is about numbers as sets of the places of their ones,    *)
(* which is how Layout has them: induction on a set of naturals, powers of *)
(* two, sums over finite sets, and reading and writing a field.  The       *)
(* second is the packing loop, the third the stack of fields in a slot and *)
(* of slots in a word.                                                     *)
(***************************************************************************)
EXTENDS Layout, FiniteSetTheorems, WellFoundedInduction, TLAPS

(* Every set of naturals has a least one, since < is well-founded on them. *)
LEMMA LeastNatural ==
    ASSUME NEW S \in SUBSET Nat, S # {}
    PROVE  \E m \in S : \A n \in S : m <= n
<1> DEFINE Less == {p \in Nat \X Nat : p[1] < p[2]}
<1>1. IsWellFoundedOn(Less, Nat)
  BY NatLessThanWellFounded DEF OpToRel
<1> HIDE DEF Less
<1>2. PICK m \in S : \A n \in S : ~ (<<n, m>> \in Less)
  BY <1>1, WFMin
<1>3. \A n \in S : ~ (n < m)
  BY <1>2 DEF Less
<1> QED
  BY <1>3

(* Induction over the naturals, on a set instead of a predicate. *)
LEMMA Induction ==
    ASSUME NEW S, 0 \in S, \A n \in Nat : n \in S => n + 1 \in S
    PROVE  Nat \subseteq S
<1> SUFFICES ASSUME Nat \ S # {} PROVE FALSE
  OBVIOUS
<1>1. PICK m \in Nat \ S : \A n \in Nat \ S : m <= n
  BY LeastNatural
<1>2. m # 0 /\ m - 1 \in Nat /\ m - 1 \in S
  BY <1>1
<1> QED
  BY <1>2, <1>1

(* A function on the naturals that asks itself for smaller numbers only is defined. *)
Recurses(f, base, step, down) ==
    \A n \in Nat : f[n] = IF n = 0 THEN base ELSE step[<<n, f[down[n]]>>]

(* Such a function exists, whatever values V it takes. *)
LEMMA Recursion ==
    ASSUME NEW V, NEW base \in V, NEW step \in [Nat \X V -> V],
           NEW down \in [Nat -> Nat], \A n \in Nat \ {0} : down[n] < n
    PROVE  \E f \in [Nat -> V] : Recurses(f, base, step, down)
<1> DEFINE Follows(f, m) ==
              \A n \in 0..m : f[n] = IF n = 0 THEN base ELSE step[<<n, f[down[n]]>>]
           Upto == {m \in Nat : \E f \in [0..m -> V] : Follows(f, m)}
<1>1. Nat \subseteq Upto
  <2>1. 0 \in Upto
    <3>1. Follows([n \in 0..0 |-> base], 0) /\ [n \in 0..0 |-> base] \in [0..0 -> V]
      OBVIOUS
    <3> QED
      BY <3>1
  <2>2. ASSUME NEW m \in Nat, m \in Upto PROVE m + 1 \in Upto
    <3>1. PICK f \in [0..m -> V] : Follows(f, m)
      BY <2>2
    <3>2. down[m + 1] \in 0..m
      <4>1. m + 1 \in Nat \ {0}
        OBVIOUS
      <4> HIDE DEF Follows, Upto
      <4>2. down[m + 1] \in Nat /\ down[m + 1] < m + 1
        BY <4>1
      <4> QED
        BY <4>2
    <3> DEFINE g == [n \in 0..(m + 1) |-> IF n = m + 1 THEN step[<<n, f[down[n]]>>] ELSE f[n]]
    <3>3. g \in [0..(m + 1) -> V]
      <4>1. <<m + 1, f[down[m + 1]]>> \in Nat \X V
        <5>1. f[down[m + 1]] \in V /\ m + 1 \in Nat
          BY <3>2
        <5> QED
          BY <5>1
      <4>2. step[<<m + 1, f[down[m + 1]]>>] \in V
        BY <4>1
      <4>3. \A n \in 0..(m + 1) : n # m + 1 => f[n] \in V
        OBVIOUS
      <4> QED
        BY <4>2, <4>3
    <3>4. \A n \in 0..m : g[n] = f[n]
      OBVIOUS
    <3>5. \A n \in 0..m : n # 0 => down[n] \in 0..m
      OBVIOUS
    <3>6. Follows(g, m + 1)
      <4> SUFFICES ASSUME NEW n \in 0..(m + 1)
                   PROVE  g[n] = IF n = 0 THEN base ELSE step[<<n, g[down[n]]>>]
        OBVIOUS
      <4>1. CASE n = m + 1
        <5>1. g[n] = step[<<n, f[down[n]]>>] /\ n # 0
          BY <4>1
        <5>2. f[down[n]] = g[down[n]]
          BY <4>1, <3>2, <3>4
        <5> QED
          BY <5>1, <5>2
      <4>2. CASE n # m + 1
        <5>1. n \in 0..m
          BY <4>2
        <5> HIDE DEF g
        <5> QED
          BY <5>1, <3>1, <3>4, <3>5
      <4> QED
        BY <4>1, <4>2
    <3>7. \E e \in [0..(m + 1) -> V] : Follows(e, m + 1)
      <4> HIDE DEF g, Follows
      <4> QED
        BY <3>3, <3>6
    <3> HIDE DEF Follows
    <3> QED
      BY <3>7
  <2> HIDE DEF Upto
  <2> QED
    BY <2>1, <2>2, Induction
<1>2. ASSUME NEW m \in Nat, NEW k \in Nat, m <= k, NEW f, Follows(f, m), NEW g, Follows(g, k)
      PROVE  f[m] = g[m]
  <2> DEFINE Apart == {n \in 0..m : f[n] # g[n]}
  <2>1. SUFFICES ASSUME Apart # {} PROVE FALSE
    OBVIOUS
  <2>2. PICK n \in Apart : \A i \in Apart : n <= i
    <3>1. Apart \in SUBSET Nat
      OBVIOUS
    <3> HIDE DEF Apart
    <3> QED
      BY <2>1, <3>1, LeastNatural
  <2>3. n \in 0..m /\ n \in 0..k /\ f[n] # g[n]
    BY <1>2, <2>2
  <2>4. n = 0 => f[n] = base /\ g[n] = base
    BY <2>3, <1>2
  <2>5. n # 0 => down[n] \in 0..m /\ down[n] < n
    BY <2>3
  <2>6. n # 0 => f[down[n]] = g[down[n]]
    BY <2>2, <2>3, <2>5
  <2>7. n # 0 => f[n] = step[<<n, f[down[n]]>>] /\ g[n] = step[<<n, g[down[n]]>>]
    BY <2>3, <1>2
  <2> QED
    BY <2>3, <2>4, <2>6, <2>7
<1> DEFINE F(m) == CHOOSE f \in [0..m -> V] : Follows(f, m)
           h == [n \in Nat |-> F(n)[n]]
<1>3. \A m \in Nat : F(m) \in [0..m -> V] /\ Follows(F(m), m)
  <2> SUFFICES ASSUME NEW m \in Nat PROVE F(m) \in [0..m -> V] /\ Follows(F(m), m)
    OBVIOUS
  <2>1. \E f \in [0..m -> V] : Follows(f, m)
    BY <1>1
  <2> HIDE DEF Follows
  <2> QED
    BY <2>1
<1> HIDE DEF F
<1>4. h \in [Nat -> V]
  BY <1>3
<1>5. ASSUME NEW n \in Nat
      PROVE  h[n] = IF n = 0 THEN base ELSE step[<<n, h[down[n]]>>]
  <2>1. F(n)[n] = IF n = 0 THEN base ELSE step[<<n, F(n)[down[n]]>>]
    <3>1. Follows(F(n), n)
      <4> HIDE DEF Follows, h
      <4> QED
        BY <1>3
    <3>2. n \in 0..n
      OBVIOUS
    <3> HIDE DEF h
    <3> QED
      BY <3>1, <3>2
  <2>2. n # 0 => F(down[n])[down[n]] = F(n)[down[n]]
    <3> HIDE DEF Follows, h
    <3>1. n # 0 => down[n] \in Nat /\ down[n] <= n
      OBVIOUS
    <3> QED
      BY <3>1, <1>2, <1>3
  <2> QED
    BY <2>1, <2>2
<1>6. Recurses(h, base, step, down)
  BY <1>5 DEF Recurses
<1> QED
  BY <1>4, <1>6

(* 2^n *)
LEMMA Powers ==
    /\ Power2 \in [Nat -> Nat]
    /\ Power2[0] = 1
    /\ \A n \in Nat : Power2[n + 1] = 2 * Power2[n]
<1> DEFINE step == [p \in Nat \X Nat |-> 2 * p[2]]
           down == [n \in Nat |-> IF n = 0 THEN 0 ELSE n - 1]
           Is(f) == f = [n \in Nat |-> IF n = 0 THEN 1 ELSE 2 * f[n - 1]]
<1>1. step \in [Nat \X Nat -> Nat] /\ down \in [Nat -> Nat] /\ \A n \in Nat \ {0} : down[n] < n
  OBVIOUS
<1> HIDE DEF step, down
<1>2. PICK f \in [Nat -> Nat] : Recurses(f, 1, step, down)
  BY <1>1, Recursion
<1>3. \A n \in Nat : f[n] = IF n = 0 THEN 1 ELSE 2 * f[n - 1]
  <2> SUFFICES ASSUME NEW n \in Nat PROVE f[n] = IF n = 0 THEN 1 ELSE 2 * f[n - 1]
    OBVIOUS
  <2>1. CASE n = 0
    BY <1>2, <2>1 DEF Recurses
  <2>2. CASE n # 0
    <3>1. n - 1 \in Nat /\ down[n] = n - 1
      BY <2>2 DEF down
    <3>2. step[<<n, f[n - 1]>>] = 2 * f[n - 1]
      BY <3>1 DEF step
    <3> QED
      BY <1>2, <2>2, <3>1, <3>2 DEF Recurses
  <2> QED
    BY <2>1, <2>2
<1>4. Is(f)
  BY <1>3
<1>5. Power2 = CHOOSE g : Is(g)
  BY DEF Power2
<1>6. Is(Power2)
  BY <1>4, <1>5
<1>7. \A n \in Nat : Power2[n] = IF n = 0 THEN 1 ELSE 2 * Power2[n - 1]
  BY <1>6
<1>8. DOMAIN Power2 = Nat
  BY <1>6
<1>9. Nat \subseteq {n \in Nat : Power2[n] \in Nat}
  <2>1. 0 \in {n \in Nat : Power2[n] \in Nat}
    BY <1>7
  <2>2. \A n \in Nat : n \in {i \in Nat : Power2[i] \in Nat} =>
            n + 1 \in {i \in Nat : Power2[i] \in Nat}
    BY <1>7
  <2> QED
    BY <2>1, <2>2, Induction
<1>10. Power2 \in [Nat -> Nat]
  <2>1. Power2 = [n \in Nat |-> Power2[n]]
    BY <1>6
  <2> QED
    BY <2>1, <1>9
<1>11. \A n \in Nat : Power2[n + 1] = 2 * Power2[n]
  <2> TAKE n \in Nat
  <2>1. n + 1 \in Nat /\ n + 1 # 0 /\ (n + 1) - 1 = n
    OBVIOUS
  <2> QED
    BY <2>1, <1>7
<1>12. Power2[0] = 1
  BY <1>7
<1> QED
  BY <1>10, <1>11, <1>12

(* The 1 bits of a number: of its half, one place up, and the lowest if it is odd. *)
LEMMA OnesOf ==
    /\ Ones \in [Nat -> SUBSET Nat]
    /\ \A c \in Nat : (0 \in Ones[c]) <=> (c % 2 = 1)
    /\ \A c \in Nat : \A i \in Nat : (i + 1 \in Ones[c]) <=> (i \in Ones[c \div 2])
<1> DEFINE V == SUBSET Nat
           Bit0(c) == IF c % 2 = 1 THEN {0} ELSE {}
           step == [p \in Nat \X V |-> {i + 1 : i \in p[2]} \cup Bit0(p[1])]
           down == [c \in Nat |-> c \div 2]
           Is(f) ==
             f = [c \in Nat |-> IF c = 0 THEN {} ELSE {i + 1 : i \in f[c \div 2]} \cup Bit0(c)]
<1>1. \A c \in Nat : c \div 2 \in Nat /\ (c # 0 => c \div 2 < c)
  OBVIOUS
<1>2. down \in [Nat -> Nat] /\ \A c \in Nat \ {0} : down[c] < c
  BY <1>1
<1>3. step \in [Nat \X V -> V] /\ {} \in V
  OBVIOUS
<1> HIDE DEF step, down, V
<1>4. PICK f \in [Nat -> V] : Recurses(f, {}, step, down)
  BY <1>2, <1>3, Recursion
<1>5. \A c \in Nat : f[c] = IF c = 0 THEN {} ELSE {i + 1 : i \in f[c \div 2]} \cup Bit0(c)
  <2> SUFFICES ASSUME NEW c \in Nat
               PROVE  f[c] = IF c = 0 THEN {} ELSE {i + 1 : i \in f[c \div 2]} \cup Bit0(c)
    OBVIOUS
  <2>1. CASE c = 0
    BY <1>4, <2>1 DEF Recurses
  <2>2. CASE c # 0
    <3>1. c \div 2 \in Nat /\ down[c] = c \div 2
      BY <1>1 DEF down
    <3>2. <<c, f[c \div 2]>> \in Nat \X V
      BY <3>1
    <3>3. step[<<c, f[c \div 2]>>] = {i + 1 : i \in f[c \div 2]} \cup Bit0(c)
      BY <3>2 DEF step
    <3> QED
      BY <1>4, <2>2, <3>1, <3>3 DEF Recurses
  <2> QED
    BY <2>1, <2>2
<1>6. Is(f)
  BY <1>5
<1>7. Ones = CHOOSE g : Is(g)
  BY DEF Ones
<1>8. Is(Ones)
  BY <1>6, <1>7
<1>0. Ones[0] = {}
  BY <1>8
<1>9. ASSUME NEW c \in Nat, c # 0
      PROVE  Ones[c] = {i + 1 : i \in Ones[c \div 2]} \cup Bit0(c)
  <2> HIDE DEF Bit0
  <2> QED
    BY <1>8, <1>9
<1> DEFINE Good == {n \in Nat : \A c \in 0..n : Ones[c] \in SUBSET Nat}
<1>10. Nat \subseteq Good
  <2>1. 0 \in Good
    BY <1>0
  <2>2. ASSUME NEW n \in Nat, n \in Good PROVE n + 1 \in Good
    <3>1. Ones[n + 1] \in SUBSET Nat
      <4>1. (n + 1) \div 2 \in 0..n
        OBVIOUS
      <4>2. Ones[(n + 1) \div 2] \in SUBSET Nat
        BY <2>2, <4>1
      <4>3. Ones[n + 1] = {i + 1 : i \in Ones[(n + 1) \div 2]} \cup Bit0(n + 1)
        <5>1. n + 1 \in Nat /\ n + 1 # 0
          OBVIOUS
        <5> HIDE DEF Bit0
        <5> QED
          BY <5>1, <1>9
      <4> QED
        BY <4>2, <4>3
    <3> QED
      BY <2>2, <3>1
  <2> HIDE DEF Good
  <2> QED
    BY <2>1, <2>2, Induction
<1>11. Ones \in [Nat -> SUBSET Nat]
  <2>1. Ones = [c \in Nat |-> Ones[c]]
    BY <1>8
  <2>2. \A c \in Nat : Ones[c] \in SUBSET Nat
    BY <1>10 DEF Good
  <2> QED
    BY <2>1, <2>2
<1>12. ASSUME NEW c \in Nat PROVE (0 \in Ones[c]) <=> (c % 2 = 1)
  <2>1. CASE c = 0
    BY <1>0, <2>1
  <2>2. CASE c # 0
    <3>1. Ones[c \div 2] \in SUBSET Nat
      BY <1>1, <1>11
    <3>2. 0 \notin {i + 1 : i \in Ones[c \div 2]}
      BY <3>1
    <3> QED
      BY <1>9, <2>2, <3>2
  <2> QED
    BY <2>1, <2>2
<1>13. ASSUME NEW c \in Nat, NEW i \in Nat PROVE (i + 1 \in Ones[c]) <=> (i \in Ones[c \div 2])
  <2>1. CASE c = 0
    <3>1. c \div 2 = 0
      BY <2>1
    <3> QED
      BY <1>0, <2>1, <3>1
  <2>2. CASE c # 0
    <3>1. Ones[c \div 2] \in SUBSET Nat
      BY <1>1, <1>11
    <3>2. i + 1 \notin Bit0(c)
      OBVIOUS
    <3>3. i + 1 \in Ones[c] <=> i + 1 \in {j + 1 : j \in Ones[c \div 2]}
      <4> HIDE DEF Bit0
      <4> QED
        BY <1>9, <2>2, <3>2
    <3> QED
      BY <3>1, <3>3
  <2> QED
    BY <2>1, <2>2
<1> QED
  BY <1>11, <1>12, <1>13
-----------------------------------------------------------------------------
(* Induction over the subsets of a finite set, on a set instead of a predicate. *)
LEMMA SetInduction ==
    ASSUME NEW S, IsFiniteSet(S), NEW P, {} \in P,
           \A T \in SUBSET S : \A x \in S \ T : T \in P => T \cup {x} \in P
    PROVE  S \in P
<1> DEFINE Good == {n \in Nat : \A T \in SUBSET S : Cardinality(T) = n => T \in P}
<1>1. 0 \in Good
  BY FS_EmptySet, FS_Subset
<1>2. ASSUME NEW n \in Nat, n \in Good PROVE n + 1 \in Good
  <2> SUFFICES ASSUME NEW T \in SUBSET S, Cardinality(T) = n + 1 PROVE T \in P
    OBVIOUS
  <2>1. IsFiniteSet(T)
    BY FS_Subset
  <2>2. PICK x \in T : TRUE
    BY <2>1, FS_EmptySet
  <2>3. Cardinality(T \ {x}) = n
    <3>1. Cardinality(T \ {x}) = Cardinality(T) - 1
      BY <2>1, <2>2, FS_RemoveElement
    <3> QED
      BY <3>1
  <2>4. T \ {x} \in P /\ x \in S \ (T \ {x})
    BY <1>2, <2>3
  <2>5. (T \ {x}) \cup {x} = T
    OBVIOUS
  <2> QED
    BY <2>4, <2>5
<1>3. Cardinality(S) \in Nat
  BY FS_CardinalityType
<1> HIDE DEF Good
<1>4. Cardinality(S) \in Good
  BY <1>1, <1>2, <1>3, Induction
<1> QED
  BY <1>4 DEF Good

(* The sums over the subsets of a set, as the fold of the community modules takes them: an
   element at a time, the one CHOOSE picks. *)
Pick(T) == CHOOSE x \in T : TRUE
Sums(F, w, S) ==
    F = [T \in SUBSET S |-> IF T = {} THEN 0 ELSE w[Pick(T)] + F[T \ {Pick(T)}]]

(* Over a finite set there is such a function, and its values are naturals. *)
LEMMA SumsExist ==
    ASSUME NEW S, IsFiniteSet(S), NEW w, \A x \in S : w[x] \in Nat
    PROVE  \E F \in [SUBSET S -> Nat] : Sums(F, w, S)
<1> DEFINE Small(n) == {T \in SUBSET S : Cardinality(T) <= n}
           Rest(T) == T \ {Pick(T)}
           Follows(F, D) == \A T \in D : F[T] = IF T = {} THEN 0 ELSE w[Pick(T)] + F[Rest(T)]
           Good == {n \in Nat : \E F \in [Small(n) -> Nat] : Follows(F, Small(n))}
<1>1. \A T \in SUBSET S : IsFiniteSet(T) /\ Cardinality(T) \in Nat
  BY FS_Subset, FS_CardinalityType
<1>2. \A T \in SUBSET S : T # {} => Pick(T) \in T
  BY DEF Pick
<1>3. \A T \in SUBSET S : T # {} => Cardinality(Rest(T)) = Cardinality(T) - 1
  BY <1>1, <1>2, FS_RemoveElement
<1>4. 0 \in Good
  <2> DEFINE F == [T \in Small(0) |-> 0]
  <2>1. \A T \in Small(0) : T = {}
    BY <1>1, FS_EmptySet
  <2>2. F \in [Small(0) -> Nat] /\ Follows(F, Small(0))
    BY <2>1
  <2> QED
    BY <2>2
<1>5. ASSUME NEW n \in Nat, n \in Good PROVE n + 1 \in Good
  <2>1. PICK F \in [Small(n) -> Nat] : Follows(F, Small(n))
    BY <1>5
  <2> DEFINE G == [T \in Small(n + 1) |-> IF T = {} THEN 0 ELSE w[Pick(T)] + F[Rest(T)]]
  <2>2. \A T \in Small(n + 1) : T # {} => Rest(T) \in Small(n)
    <3> SUFFICES ASSUME NEW T \in Small(n + 1), T # {} PROVE Rest(T) \in Small(n)
      OBVIOUS
    <3>1. Cardinality(Rest(T)) = Cardinality(T) - 1 /\ Cardinality(T) \in Nat
      BY <1>1, <1>3
    <3> QED
      BY <3>1
  <2>3. G \in [Small(n + 1) -> Nat]
    <3> SUFFICES ASSUME NEW T \in Small(n + 1), T # {} PROVE w[Pick(T)] + F[Rest(T)] \in Nat
      OBVIOUS
    <3>1. F[Rest(T)] \in Nat
      <4> HIDE DEF Small, Rest
      <4> QED
        BY <2>2
    <3>2. w[Pick(T)] \in Nat
      BY <1>2
    <3> QED
      BY <3>1, <3>2
  <2>4. \A T \in Small(n) : T \in Small(n + 1)
    BY <1>1
  <2>5. \A T \in Small(n) : G[T] = F[T]
    <3> HIDE DEF Small, Rest
    <3> QED
      BY <2>1, <2>4
  <2>6. Follows(G, Small(n + 1))
    <3> HIDE DEF Small, Rest
    <3> QED
      BY <2>2, <2>5
  <2> HIDE DEF G, Small, Follows
  <2> QED
    BY <2>3, <2>6
<1> HIDE DEF Good
<1>6. Cardinality(S) \in Good
  BY <1>1, <1>4, <1>5, Induction
<1>7. Small(Cardinality(S)) = SUBSET S
  BY FS_Subset
<1>8. PICK F \in [SUBSET S -> Nat] : Follows(F, SUBSET S)
  BY <1>6, <1>7 DEF Good
<1>9. Sums(F, w, S)
  <2> HIDE DEF Small
  <2> QED
    BY <1>8 DEF Sums
<1> QED
  BY <1>9

(* The element picked is one of the set. *)
LEMMA PickIsOne == \A T : T # {} => Pick(T) \in T
BY DEF Pick

(* A sum is the picked element's weight and the sum of the rest. *)
LEMMA SumsStep ==
    ASSUME NEW S, NEW w, NEW F, Sums(F, w, S), NEW T \in SUBSET S, T # {}
    PROVE  F[T] = w[Pick(T)] + F[T \ {Pick(T)}]
BY DEF Sums

(* Two weights that agree have the same sums, and a sum over a set is the same within any
   greater one. *)
LEMMA SumsAgree ==
    ASSUME NEW S, IsFiniteSet(S), NEW w, NEW F, Sums(F, w, S),
           NEW U, NEW v, NEW G, Sums(G, v, U), \A x \in S : v[x] = w[x], S \subseteq U
    PROVE  \A T \in SUBSET S : F[T] = G[T]
<1> DEFINE Good == {n \in Nat : \A T \in SUBSET S : Cardinality(T) = n => F[T] = G[T]}
<1>1. \A T \in SUBSET S : IsFiniteSet(T) /\ Cardinality(T) \in Nat
  BY FS_Subset, FS_CardinalityType
<1>2. 0 \in Good
  <2> SUFFICES ASSUME NEW T \in SUBSET S, Cardinality(T) = 0 PROVE F[T] = G[T]
    OBVIOUS
  <2>1. T = {}
    BY <1>1, FS_EmptySet
  <2> QED
    BY <2>1 DEF Sums
<1>3. ASSUME NEW n \in Nat, n \in Good PROVE n + 1 \in Good
  <2> SUFFICES ASSUME NEW T \in SUBSET S, Cardinality(T) = n + 1 PROVE F[T] = G[T]
    OBVIOUS
  <2> DEFINE x == Pick(T)
  <2>1. T # {}
    BY FS_EmptySet
  <2>2. x \in T
    BY <2>1, PickIsOne
  <2>3. Cardinality(T \ {x}) = n
    <3>1. Cardinality(T \ {x}) = Cardinality(T) - 1
      BY <1>1, <2>2, FS_RemoveElement
    <3> QED
      BY <3>1
  <2>4. F[T \ {x}] = G[T \ {x}]
    BY <1>3, <2>3
  <2>5. F[T] = w[x] + F[T \ {x}]
    BY <2>1 DEF Sums
  <2>6. G[T] = v[x] + G[T \ {x}]
    BY <2>1 DEF Sums
  <2> QED
    BY <2>2, <2>4, <2>5, <2>6
<1> HIDE DEF Good
<1>4. Nat \subseteq Good
  BY <1>2, <1>3, Induction
<1> QED
  BY <1>1, <1>4 DEF Good

(* SumFunctionOnSet of the community modules is that sum. *)
LEMMA SumIsOne ==
    ASSUME NEW S, IsFiniteSet(S), NEW w, \A x \in S : w[x] \in Nat
    PROVE  \E F \in [SUBSET S -> Nat] : Sums(F, w, S) /\ SumFunctionOnSet(w, S) = F[S]
<1> DEFINE F == CHOOSE G : Sums(G, w, S)
<1>1. PICK E \in [SUBSET S -> Nat] : Sums(E, w, S)
  BY SumsExist
<1>2. Sums(F, w, S)
  BY <1>1
<1>3. SumFunctionOnSet(w, S) = F[S]
  BY DEF SumFunctionOnSet, FoldFunctionOnSet, MapThenFoldSet, Sums, Pick
<1>4. F[S] = E[S]
  <2> HIDE DEF F
  <2> QED
    BY <1>1, <1>2, SumsAgree
<1> QED
  BY <1>1, <1>3, <1>4

(* What a sum is. *)
LEMMA SumType ==
    ASSUME NEW S, IsFiniteSet(S), NEW w, \A x \in S : w[x] \in Nat
    PROVE  SumFunctionOnSet(w, S) \in Nat
<1>1. PICK F \in [SUBSET S -> Nat] : Sums(F, w, S) /\ SumFunctionOnSet(w, S) = F[S]
  BY SumIsOne
<1> QED
  BY <1>1

(* Nothing sums to 0. *)
LEMMA SumOfNone ==
    ASSUME NEW w
    PROVE  SumFunctionOnSet(w, {}) = 0
<1>1. IsFiniteSet({})
  BY FS_EmptySet
<1>2. PICK F : Sums(F, w, {}) /\ SumFunctionOnSet(w, {}) = F[{}]
  BY <1>1, SumIsOne
<1> QED
  BY <1>2 DEF Sums

(* A sum depends on the weights of its elements only. *)
LEMMA SumOfSame ==
    ASSUME NEW S, IsFiniteSet(S), NEW w, NEW v, \A x \in S : w[x] \in Nat /\ v[x] = w[x]
    PROVE  SumFunctionOnSet(v, S) = SumFunctionOnSet(w, S)
<1>1. PICK F : Sums(F, w, S) /\ SumFunctionOnSet(w, S) = F[S]
  BY SumIsOne
<1>2. PICK G : Sums(G, v, S) /\ SumFunctionOnSet(v, S) = G[S]
  BY SumIsOne
<1> QED
  BY <1>1, <1>2, SumsAgree

(* Any element can be taken out of a sum. *)
LEMMA SumTakeOut ==
    ASSUME NEW S, IsFiniteSet(S), NEW w, \A x \in S : w[x] \in Nat, NEW x \in S
    PROVE  SumFunctionOnSet(w, S) = w[x] + SumFunctionOnSet(w, S \ {x})
<1>1. PICK F \in [SUBSET S -> Nat] : Sums(F, w, S) /\ SumFunctionOnSet(w, S) = F[S]
  BY SumIsOne
<1>2. IsFiniteSet(S \ {x})
  BY FS_Subset
<1>3. PICK G : Sums(G, w, S \ {x}) /\ SumFunctionOnSet(w, S \ {x}) = G[S \ {x}]
  BY <1>2, SumIsOne
<1>4. SumFunctionOnSet(w, S \ {x}) = F[S \ {x}]
  BY <1>1, <1>2, <1>3, SumsAgree
<1> DEFINE Good == {n \in Nat : \A T \in SUBSET S : Cardinality(T) = n =>
                        \A y \in T : F[T] = w[y] + F[T \ {y}]}
<1>5. \A T \in SUBSET S : IsFiniteSet(T) /\ Cardinality(T) \in Nat
  BY FS_Subset, FS_CardinalityType
<1>6. 0 \in Good
  BY <1>5, FS_EmptySet
<1>7. ASSUME NEW n \in Nat, n \in Good PROVE n + 1 \in Good
  <2> SUFFICES ASSUME NEW T \in SUBSET S, Cardinality(T) = n + 1, NEW y \in T
               PROVE  F[T] = w[y] + F[T \ {y}]
    OBVIOUS
  <2> DEFINE p == Pick(T)
  <2>1. p \in T
    BY PickIsOne
  <2>2. F[T] = w[p] + F[T \ {p}]
    BY <1>1, SumsStep
  <2> HIDE DEF p
  <2>3. CASE p = y
    BY <2>2, <2>3
  <2>4. CASE p # y
    <3>1. Cardinality(T \ {p}) = n /\ Cardinality(T \ {y}) = n
      <4>1. /\ Cardinality(T \ {p}) = Cardinality(T) - 1
            /\ Cardinality(T \ {y}) = Cardinality(T) - 1
        BY <1>5, <2>1, FS_RemoveElement
      <4> QED
        BY <4>1
    <3> DEFINE rest == T \ {p, y}
    <3>2. F[T \ {p}] = w[y] + F[rest]
      <4>1. (T \ {p}) \ {y} = rest /\ y \in T \ {p} /\ T \ {p} \in SUBSET S
        BY <2>4
      <4> HIDE DEF rest
      <4> QED
        BY <1>7, <3>1, <4>1
    <3>3. F[T \ {y}] = w[p] + F[rest]
      <4>1. (T \ {y}) \ {p} = rest /\ p \in T \ {y} /\ T \ {y} \in SUBSET S
        BY <2>1, <2>4
      <4> HIDE DEF rest
      <4> QED
        BY <1>7, <3>1, <4>1
    <3>4. w[y] \in Nat /\ w[p] \in Nat
      BY <2>1
    <3>5. F[rest] \in Nat
      OBVIOUS
    <3> HIDE DEF rest
    <3> QED
      BY <2>2, <3>2, <3>3, <3>4, <3>5
  <2> QED
    BY <2>3, <2>4
<1> HIDE DEF Good
<1>8. Nat \subseteq Good
  BY <1>6, <1>7, Induction
<1>9. F[S] = w[x] + F[S \ {x}]
  BY <1>5, <1>8 DEF Good
<1> QED
  BY <1>1, <1>4, <1>9

(* The sum over two sets that share nothing. *)
LEMMA SumOfBoth ==
    ASSUME NEW A, IsFiniteSet(A), NEW B, IsFiniteSet(B), A \cap B = {},
           NEW w, \A x \in A \cup B : w[x] \in Nat
    PROVE  SumFunctionOnSet(w, A \cup B) = SumFunctionOnSet(w, A) + SumFunctionOnSet(w, B)
<1> DEFINE Sum(T) == SumFunctionOnSet(w, T)
           Good == {T \in SUBSET A : Sum(T \cup B) = Sum(T) + Sum(B)}
<1>1. \A T \in SUBSET A : IsFiniteSet(T) /\ IsFiniteSet(T \cup B)
  BY FS_Subset, FS_Union
<1>2. \A T \in SUBSET A : Sum(T) \in Nat /\ Sum(B) \in Nat
  BY <1>1, SumType
<1>3. {} \in Good
  <2>1. {} \cup B = B
    OBVIOUS
  <2>2. Sum({}) = 0
    BY SumOfNone
  <2> HIDE DEF Sum
  <2> QED
    BY <1>2, <2>1, <2>2
<1>4. ASSUME NEW T \in SUBSET A, NEW x \in A \ T, T \in Good PROVE T \cup {x} \in Good
  <2>1. /\ (T \cup {x}) \ {x} = T
        /\ ((T \cup {x}) \cup B) \ {x} = T \cup B
    OBVIOUS
  <2>2. T \cup {x} \in SUBSET A
    OBVIOUS
  <2>3. Sum(T \cup {x}) = w[x] + Sum(T)
    <3>1. Sum(T \cup {x}) = w[x] + Sum((T \cup {x}) \ {x})
      BY <1>1, <2>2, SumTakeOut
    <3> QED
      BY <2>1, <3>1
  <2>4. Sum((T \cup {x}) \cup B) = w[x] + Sum(T \cup B)
    <3>1. Sum((T \cup {x}) \cup B) = w[x] + Sum(((T \cup {x}) \cup B) \ {x})
      BY <1>1, <2>2, SumTakeOut
    <3> QED
      BY <2>1, <3>1
  <2>5. w[x] \in Nat
    OBVIOUS
  <2> HIDE DEF Sum
  <2> QED
    BY <1>2, <1>4, <2>1, <2>2, <2>3, <2>4, <2>5
<1>5. A \in Good
  <2> HIDE DEF Good
  <2> QED
    BY <1>3, <1>4, SetInduction
<1> QED
  BY <1>5

(* Numbers moved k places up, and what is weighed m times as much, weigh m times as much. *)
Moved(A, k) == {i + k : i \in A}
(* Moving the places and multiplying the weights multiplies the sum. *)
LEMMA SumOfMoved ==
    ASSUME NEW A \in SUBSET Nat, IsFiniteSet(A), NEW k \in Nat, NEW m \in {1, 2},
           NEW v, NEW w, \A i \in A : v[i] \in Nat /\ w[i + k] = m * v[i]
    PROVE  /\ IsFiniteSet(Moved(A, k))
           /\ SumFunctionOnSet(w, Moved(A, k)) = m * SumFunctionOnSet(v, A)
<1> DEFINE Good == {T \in SUBSET A : /\ IsFiniteSet(Moved(T, k))
                                     /\ SumFunctionOnSet(w, Moved(T, k)) = m * SumFunctionOnSet(v, T)}
<1>1. {} \in Good
  <2>1. Moved({}, k) = {}
    BY DEF Moved
  <2>2. SumFunctionOnSet(w, {}) = 0 /\ SumFunctionOnSet(v, {}) = 0 /\ m * 0 = 0
    BY SumOfNone
  <2>3. IsFiniteSet({})
    BY FS_EmptySet
  <2> QED
    BY <2>1, <2>2, <2>3
<1>2. ASSUME NEW T \in SUBSET A, NEW x \in A \ T, T \in Good PROVE T \cup {x} \in Good
  <2>1. Moved(T \cup {x}, k) = Moved(T, k) \cup {x + k} /\ x + k \notin Moved(T, k)
    BY DEF Moved
  <2>2. Moved(T \cup {x}, k) \ {x + k} = Moved(T, k) /\ (T \cup {x}) \ {x} = T
    BY <2>1
  <2>3. IsFiniteSet(Moved(T \cup {x}, k))
    <3>1. IsFiniteSet(Moved(T, k))
      BY <1>2
    <3>2. IsFiniteSet(Moved(T, k) \cup {x + k})
      BY <3>1, FS_AddElement
    <3> QED
      BY <2>1, <3>2
  <2>4. \A j \in Moved(T \cup {x}, k) : w[j] \in Nat
    <3> SUFFICES ASSUME NEW i \in T \cup {x} PROVE w[i + k] \in Nat
      BY DEF Moved
    <3>1. v[i] \in Nat /\ w[i + k] = m * v[i]
      OBVIOUS
    <3> QED
      BY <3>1
  <2>5. x + k \in Moved(T \cup {x}, k) /\ x \in T \cup {x}
    BY <2>1
  <2>6. SumFunctionOnSet(w, Moved(T \cup {x}, k)) = w[x + k] + SumFunctionOnSet(w, Moved(T, k))
    <3>1. SumFunctionOnSet(w, Moved(T \cup {x}, k))
            = w[x + k] + SumFunctionOnSet(w, Moved(T \cup {x}, k) \ {x + k})
      BY <2>3, <2>4, <2>5, SumTakeOut
    <3> QED
      BY <2>2, <3>1
  <2>7. IsFiniteSet(T) /\ IsFiniteSet(T \cup {x})
    <3> HIDE DEF Good
    <3>1. T \in SUBSET A
      OBVIOUS
    <3>2. IsFiniteSet(T)
      BY <3>1, FS_Subset
    <3>3. IsFiniteSet(T \cup {x})
      BY <3>2, FS_AddElement
    <3> QED
      BY <3>2, <3>3
  <2>8. \A i \in T \cup {x} : v[i] \in Nat
    OBVIOUS
  <2>9. SumFunctionOnSet(v, T \cup {x}) = v[x] + SumFunctionOnSet(v, T)
    <3>1. SumFunctionOnSet(v, T \cup {x}) = v[x] + SumFunctionOnSet(v, (T \cup {x}) \ {x})
      BY <2>5, <2>7, <2>8, SumTakeOut
    <3> QED
      BY <2>2, <3>1
  <2>10. SumFunctionOnSet(v, T) \in Nat /\ v[x] \in Nat /\ w[x + k] = m * v[x]
    BY <2>7, <2>8, SumType
  <2>11. SumFunctionOnSet(w, Moved(T, k)) = m * SumFunctionOnSet(v, T)
    BY <1>2
  <2>12. SumFunctionOnSet(w, Moved(T \cup {x}, k)) = m * SumFunctionOnSet(v, T \cup {x})
    <3> DEFINE a == SumFunctionOnSet(v, T)
               b == SumFunctionOnSet(w, Moved(T, k))
               c == SumFunctionOnSet(v, T \cup {x})
               d == SumFunctionOnSet(w, Moved(T \cup {x}, k))
               e == v[x]
               f == w[x + k]
    <3>1. d = f + b /\ c = e + a /\ a \in Nat /\ e \in Nat /\ f = m * e /\ b = m * a
      BY <2>6, <2>9, <2>10, <2>11
    <3> HIDE DEF a, b, c, d, e, f
    <3>2. ASSUME m = 1 PROVE d = m * c
      <4>1. f = e /\ b = a /\ m * c = c
        BY <3>1, <3>2
      <4> QED
        BY <3>1, <4>1
    <3>3. ASSUME m = 2 PROVE d = m * c
      <4>1. f = 2 * e /\ b = 2 * a /\ m * c = 2 * c
        BY <3>1, <3>3
      <4> QED
        BY <3>1, <4>1
    <3>4. d = m * c
      BY <3>2, <3>3
    <3> QED
      BY <3>4 DEF c, d
  <2> QED
    BY <2>3, <2>12
<1>3. A \in Good
  <2> HIDE DEF Good
  <2> QED
    BY <1>1, <1>2, SetInduction
<1> QED
  BY <1>3

-----------------------------------------------------------------------------
(* The number with given 1 bits, and those of its half. *)
ValueOf(A) == SumFunctionOnSet(Power2, A)
(* The places of the ones of a number halved. *)
Half(A) == {i \in Nat : i + 1 \in A}

(* A finite set of places is the set of a number's ones: its value is a natural. *)
LEMMA ValueType ==
    ASSUME NEW b \in Int, NEW A \in SUBSET (0..b)
    PROVE  IsFiniteSet(A) /\ ValueOf(A) \in Nat
<1>1. IsFiniteSet(A)
  <2>1. IsFiniteSet(0..b)
    BY FS_Interval
  <2> QED
    BY <2>1, FS_Subset
<1>2. \A i \in A : Power2[i] \in Nat
  BY Powers
<1> QED
  BY <1>1, <1>2, SumType DEF ValueOf

(* A number is twice its half and its lowest bit. *)
LEMMA ValueOfHalf ==
    ASSUME NEW b \in Nat, NEW A \in SUBSET (0..b)
    PROVE  /\ Half(A) \in SUBSET (0..(b - 1))
           /\ ValueOf(Half(A)) \in Nat
           /\ ValueOf(A) = 2 * ValueOf(Half(A)) + (IF 0 \in A THEN 1 ELSE 0)
<1>1. Half(A) \in SUBSET (0..(b - 1))
  BY DEF Half
<1>2. IsFiniteSet(Half(A)) /\ ValueOf(Half(A)) \in Nat
  <2>1. b - 1 \in Int
    OBVIOUS
  <2> QED
    BY <1>1, <2>1, ValueType
<1>3. \A i \in Half(A) : Power2[i] \in Nat /\ Power2[i + 1] = 2 * Power2[i]
  BY Powers DEF Half
<1> DEFINE U == Moved(Half(A), 1)
           Z == A \cap {0}
<1>4. IsFiniteSet(U) /\ ValueOf(U) = 2 * ValueOf(Half(A))
  <2>1. Half(A) \in SUBSET Nat /\ 2 \in {1, 2} /\ 1 \in Nat
    BY DEF Half
  <2>2. \A i \in Half(A) : Power2[i] \in Nat /\ Power2[i + 1] = 2 * Power2[i]
    BY <1>3
  <2>3. /\ IsFiniteSet(Moved(Half(A), 1))
        /\ SumFunctionOnSet(Power2, Moved(Half(A), 1)) = 2 * SumFunctionOnSet(Power2, Half(A))
    <3> HIDE DEF U, Z
    <3> QED
      BY <1>2, <2>1, <2>2, SumOfMoved, ZenonT(60)
  <2> QED
    BY <2>3 DEF ValueOf
<1>5. A = U \cup Z /\ U \cap Z = {}
  <2>1. \A i \in A : i \in U \/ i = 0
    <3> SUFFICES ASSUME NEW i \in A, i # 0 PROVE i \in U
      OBVIOUS
    <3>1. i - 1 \in Nat /\ (i - 1) + 1 = i
      OBVIOUS
    <3>2. i - 1 \in Half(A)
      BY <3>1 DEF Half
    <3> QED
      BY <3>1, <3>2 DEF Moved
  <2>2. U \subseteq A /\ 0 \notin U
    BY DEF Moved, Half
  <2> QED
    BY <2>1, <2>2
<1>6. IsFiniteSet(Z)
  <2>1. IsFiniteSet(0..b)
    BY FS_Interval
  <2> QED
    BY <2>1, FS_Subset
<1>7. \A i \in U \cup Z : Power2[i] \in Nat
  <2>1. \A i \in A : Power2[i] \in Nat
    BY Powers
  <2> QED
    BY <1>5, <2>1
<1>8. ValueOf(A) = ValueOf(U) + ValueOf(Z)
  <2> HIDE DEF U, Z
  <2> QED
    BY <1>4, <1>5, <1>6, <1>7, SumOfBoth DEF ValueOf
<1>9. ValueOf(Z) = IF 0 \in A THEN 1 ELSE 0
  <2>1. CASE 0 \in A
    <3>1. Z = {0} /\ Z \ {0} = {}
      BY <2>1
    <3>2. ValueOf(Z) = Power2[0] + ValueOf(Z \ {0})
      <4> HIDE DEF Z
      <4> QED
        BY <1>6, <1>7, <3>1, SumTakeOut DEF ValueOf
    <3>3. ValueOf({}) = 0
      BY SumOfNone DEF ValueOf
    <3>4. Power2[0] + 0 = 1
      BY Powers
    <3> HIDE DEF Z
    <3> QED
      BY <2>1, <3>1, <3>2, <3>3, <3>4
  <2>2. CASE 0 \notin A
    <3>1. Z = {}
      BY <2>2
    <3> QED
      BY <2>2, <3>1, SumOfNone DEF ValueOf
  <2> QED
    BY <2>1, <2>2
<1> QED
  BY <1>1, <1>2, <1>4, <1>8, <1>9

(* A number below 2^b has its 1 bits below place b, and is what they make. *)
LEMMA OnesMakeTheNumber ==
    ASSUME NEW b \in Nat, NEW c \in 0..(Power2[b] - 1)
    PROVE  Ones[c] \in SUBSET (0..(b - 1)) /\ ValueOf(Ones[c]) = c
<1> DEFINE Fits(n, e) == Ones[e] \in SUBSET (0..(n - 1)) /\ ValueOf(Ones[e]) = e
           Good == {n \in Nat : \A e \in 0..(Power2[n] - 1) : Fits(n, e)}
<1>1. 0 \in Good
  <2> SUFFICES ASSUME NEW e \in 0..(Power2[0] - 1) PROVE Fits(0, e)
    OBVIOUS
  <2>1. e = 0 /\ 0 \div 2 = 0 /\ 0 % 2 # 1
    BY Powers
  <2>2. Ones[0] = {}
    <3> DEFINE Out == {n \in Nat : n \notin Ones[0]}
    <3>1. 0 \in Out /\ \A n \in Nat : n \in Out => n + 1 \in Out
      BY <2>1, OnesOf
    <3> HIDE DEF Out
    <3>2. Nat \subseteq Out
      BY <3>1, Induction
    <3> QED
      BY <3>2, OnesOf DEF Out
  <2> QED
    BY <2>1, <2>2, SumOfNone DEF ValueOf
<1>2. ASSUME NEW n \in Nat, n \in Good PROVE n + 1 \in Good
  <2> SUFFICES ASSUME NEW e \in 0..(Power2[n + 1] - 1) PROVE Fits(n + 1, e)
    OBVIOUS
  <2> DEFINE h == e \div 2
  <2>1. Power2[n] \in Nat /\ Power2[n + 1] = 2 * Power2[n]
    BY Powers
  <2>2. e \in Nat /\ h \in 0..(Power2[n] - 1) /\ e = 2 * h + (e % 2) /\ e % 2 \in {0, 1}
    BY <2>1
  <2>3. Ones[h] \in SUBSET (0..(n - 1)) /\ ValueOf(Ones[h]) = h
    BY <1>2, <2>2
  <2>4. Half(Ones[e]) = Ones[h]
    BY <2>2, OnesOf DEF Half
  <2>5. Ones[e] \in SUBSET (0..n)
    <3> SUFFICES ASSUME NEW i \in Ones[e] PROVE i \in 0..n
      BY OnesOf, <2>2
    <3>1. i \in Nat
      BY <2>2, OnesOf
    <3>2. CASE i = 0
      BY <3>2
    <3>3. CASE i # 0
      <4>1. i - 1 \in Nat /\ (i - 1) + 1 = i
        BY <3>1, <3>3
      <4>2. i - 1 \in Half(Ones[e])
        BY <4>1 DEF Half
      <4> QED
        BY <2>3, <2>4, <4>1, <4>2
    <3> QED
      BY <3>2, <3>3
  <2>6. ValueOf(Ones[e]) = 2 * h + (IF 0 \in Ones[e] THEN 1 ELSE 0)
    BY <2>3, <2>4, <2>5, ValueOfHalf
  <2>7. 0 \in Ones[e] <=> e % 2 = 1
    BY <2>2, OnesOf
  <2>8. (n + 1) - 1 = n
    OBVIOUS
  <2>9. ValueOf(Ones[e]) = e
    <3> HIDE DEF h
    <3> QED
      BY <2>2, <2>6, <2>7
  <2> QED
    BY <2>5, <2>8, <2>9
<1> HIDE DEF Good
<1>3. b \in Good
  BY <1>1, <1>2, Induction
<1> QED
  BY <1>3 DEF Good

(* The bits below place b make a number below 2^b, and are its 1 bits. *)
LEMMA NumberHasItsOnes ==
    ASSUME NEW b \in Nat, NEW A \in SUBSET (0..(b - 1))
    PROVE  ValueOf(A) \in 0..(Power2[b] - 1) /\ Ones[ValueOf(A)] = A
<1> DEFINE Fits(n, B) == ValueOf(B) \in 0..(Power2[n] - 1) /\ Ones[ValueOf(B)] = B
           Good == {n \in Nat : \A B \in SUBSET (0..(n - 1)) : Fits(n, B)}
<1>1. 0 \in Good
  <2>1. \A B \in SUBSET (0..(0 - 1)) : B = {}
    OBVIOUS
  <2>2. ValueOf({}) = 0
    BY SumOfNone DEF ValueOf
  <2>3. 0 \in 0..(Power2[0] - 1)
    BY Powers
  <2>4. Ones[0] = {}
    BY <2>2, <2>3, OnesMakeTheNumber
  <2> QED
    BY <2>1, <2>2, <2>3, <2>4
<1>2. ASSUME NEW n \in Nat, n \in Good PROVE n + 1 \in Good
  <2> SUFFICES ASSUME NEW B \in SUBSET (0..n) PROVE Fits(n + 1, B)
    <3>1. (n + 1) - 1 = n
      OBVIOUS
    <3> QED
      BY <3>1
  <2> DEFINE h == ValueOf(Half(B))
             r == IF 0 \in B THEN 1 ELSE 0
             v == 2 * h + r
  <2>1. Half(B) \in SUBSET (0..(n - 1)) /\ h \in Nat /\ ValueOf(B) = v
    BY ValueOfHalf
  <2>2. h \in 0..(Power2[n] - 1) /\ Ones[h] = Half(B)
    BY <1>2, <2>1
  <2>3. Power2[n] \in Nat /\ Power2[n + 1] = 2 * Power2[n]
    BY Powers
  <2> HIDE DEF h
  <2>4. v \in 0..(Power2[n + 1] - 1)
    BY <2>2, <2>3
  <2>5. v \in Nat /\ v \div 2 = h /\ (v % 2 = 1 <=> 0 \in B)
    BY <2>1
  <2>6. Ones[v] \subseteq Nat
    BY <2>5, OnesOf
  <2>7. ASSUME NEW i \in Nat PROVE i \in Ones[v] <=> i \in B
    <3>1. CASE i = 0
      BY <2>5, <3>1, OnesOf
    <3>2. CASE i # 0
      <4>1. i - 1 \in Nat /\ (i - 1) + 1 = i
        BY <3>2
      <4> DEFINE j == i - 1
      <4>2. j + 1 \in Ones[v] <=> j \in Ones[h]
        BY <2>5, <4>1, OnesOf
      <4>3. j \in Half(B) <=> i \in B
        BY <4>1 DEF Half
      <4> QED
        BY <2>2, <4>1, <4>2, <4>3
    <3> QED
      BY <3>1, <3>2
  <2>8. Ones[v] = B
    <3>1. B \subseteq Nat
      OBVIOUS
    <3> HIDE DEF v
    <3> QED
      BY <2>6, <2>7, <3>1
  <2> QED
    BY <2>1, <2>4, <2>8
<1> HIDE DEF Good
<1>3. b \in Good
  BY <1>1, <1>2, Induction
<1> QED
  BY <1>3 DEF Good

(* A bounded non-empty set of naturals has a Max, in it and over it. *)
LEMMA MaxOfBounded ==
    ASSUME NEW S \in SUBSET Nat, S # {}, NEW b \in Nat, \A y \in S : y <= b
    PROVE  Max(S) \in S /\ \A y \in S : y <= Max(S)
<1> DEFINE above == {n \in Nat : \A y \in S : y <= n}
<1>1. PICK m \in above : \A n \in above : m <= n
  <2>1. above \in SUBSET Nat /\ above # {}
    OBVIOUS
  <2> HIDE DEF above
  <2> QED
    BY <2>1, LeastNatural
<1>2. m \in S
  <2> SUFFICES ASSUME m \notin S PROVE FALSE
    OBVIOUS
  <2>1. \A y \in S : y <= m - 1
    BY <1>1
  <2>2. m - 1 \in Nat
    <3>1. PICK y \in S : y \in Nat /\ y <= m - 1
      BY <2>1
    <3> QED
      BY <1>1, <3>1
  <2> QED
    BY <1>1, <2>1, <2>2
<1>3. \A y \in S : m >= y
  BY <1>1
<1> QED
  BY <1>2, <1>3 DEF Max

(* Max of two numbers, as codec and layout write it. *)
LEMMA MaxOfTwo ==
    ASSUME NEW a \in Int, NEW b \in Int
    PROVE  Max({a, b}) = IF a >= b THEN a ELSE b
<1> DEFINE m == IF a >= b THEN a ELSE b
<1>1. m \in {a, b} /\ \A y \in {a, b} : m >= y
  OBVIOUS
<1>2. Max({a, b}) \in {a, b} /\ \A y \in {a, b} : Max({a, b}) >= y
  <2> HIDE DEF m
  <2> QED
    BY <1>1 DEF Max
<1>3. Max({a, b}) >= m /\ m >= Max({a, b})
  BY <1>1, <1>2
<1> QED
  BY <1>2, <1>3

(* A number fits in as many bits as its length. *)
LEMMA BitLengthFits ==
    ASSUME NEW n \in Nat \ {0}
    PROVE  BitLength(n) \in Nat \ {0} /\ n \in 0..(Power2[BitLength(n)] - 1)
<1> DEFINE Good == {i \in Nat : i < Power2[i]}
<1>1. 0 \in Good
  BY Powers
<1>2. \A i \in Nat : i \in Good => i + 1 \in Good
  BY Powers
<1>3. n < Power2[n] /\ Power2[n] \in Nat
  <2> HIDE DEF Good
  <2>1. n \in Good
    BY <1>1, <1>2, Induction
  <2> QED
    BY <2>1, Powers DEF Good
<1>4. Ones[n] \in SUBSET (0..(n - 1)) /\ ValueOf(Ones[n]) = n
  BY <1>3, OnesMakeTheNumber
<1>5. Ones[n] # {}
  BY <1>4, SumOfNone DEF ValueOf
<1> DEFINE M == Max(Ones[n])
<1>6. M \in Ones[n] /\ \A i \in Ones[n] : i <= M
  <2>1. Ones[n] \in SUBSET Nat /\ \A i \in Ones[n] : i <= n
    BY <1>4
  <2> QED
    BY <1>5, <2>1, MaxOfBounded
<1> HIDE DEF M
<1>7. M \in Nat /\ M + 1 \in Nat /\ Ones[n] \in SUBSET (0..((M + 1) - 1))
  BY <1>4, <1>6
<1>8. ValueOf(Ones[n]) \in 0..(Power2[M + 1] - 1)
  BY <1>7, NumberHasItsOnes
<1>9. BitLength(n) = M + 1
  BY DEF BitLength, M
<1> QED
  BY <1>4, <1>7, <1>8, <1>9

-----------------------------------------------------------------------------
(* A code in its bits: what is written at a shift is what is read there. *)
Places(value, shift, bits) == {i \in 0..(bits - 1) : i + shift \in value}

(* The places of a field, moved to its shift, are the word's ones under the field's mask. *)
LEMMA PlacesMoved ==
    ASSUME NEW value, NEW shift \in Nat, NEW bits \in Nat
    PROVE  /\ Places(value, shift, bits) \in SUBSET (0..(bits - 1))
           /\ Moved(Places(value, shift, bits), shift) = value \cap Mask(shift, bits)
<1>1. ASSUME NEW i \in value \cap Mask(shift, bits)
      PROVE  i \in Moved(Places(value, shift, bits), shift)
  <2>1. i - shift \in Places(value, shift, bits) /\ (i - shift) + shift = i
    BY DEF Mask, Places
  <2> QED
    BY <2>1 DEF Moved
<1>2. Moved(Places(value, shift, bits), shift) \subseteq value \cap Mask(shift, bits)
  BY DEF Moved, Places, Mask
<1>3. Places(value, shift, bits) \in SUBSET (0..(bits - 1))
  BY DEF Places
<1> QED
  BY <1>1, <1>2, <1>3

(* Reading a field gives the number of which its places are the ones. *)
LEMMA ReadsThePlaces ==
    ASSUME NEW value, NEW shift \in Nat, NEW bits \in Nat
    PROVE  Read(value, shift, bits) = ValueOf(Places(value, shift, bits))
<1> DEFINE P == Places(value, shift, bits)
           S == value \cap Mask(shift, bits)
           w == [i \in S |-> Power2[i - shift]]
<1>1. P \in SUBSET (0..(bits - 1)) /\ Moved(P, shift) = S
  BY PlacesMoved
<1>2. IsFiniteSet(P) /\ ValueOf(P) \in Nat
  <2>1. bits - 1 \in Int
    OBVIOUS
  <2> QED
    BY <1>1, <2>1, ValueType
<1>3. ASSUME NEW i \in P PROVE Power2[i] \in Nat /\ w[i + shift] = 1 * Power2[i]
  <2>1. i \in Nat /\ i + shift \in S /\ (i + shift) - shift = i
    BY <1>1 DEF Moved
  <2>2. Power2[i] \in Nat
    BY <2>1, Powers
  <2>3. w[i + shift] = Power2[(i + shift) - shift]
    BY <2>1
  <2> QED
    BY <2>1, <2>2, <2>3
<1>4. Read(value, shift, bits) = SumFunctionOnSet(w, S)
  BY DEF Read, SumFunction
<1>5. P \in SUBSET Nat /\ 1 \in {1, 2}
  BY <1>1
<1> HIDE DEF w, S, P
<1>6. SumFunctionOnSet(w, Moved(P, shift)) = 1 * SumFunctionOnSet(Power2, P)
  BY <1>2, <1>3, <1>5, SumOfMoved
<1>7. Read(value, shift, bits) = ValueOf(P)
  BY <1>1, <1>2, <1>4, <1>6 DEF ValueOf
<1> QED
  BY <1>7 DEF P

(* What is read fits, and writing it back gives the bits it was read from. *)
LEMMA ReadThenWrite ==
    ASSUME NEW value, NEW shift \in Nat, NEW bits \in Nat
    PROVE  /\ Read(value, shift, bits) \in 0..(Power2[bits] - 1)
           /\ At(Read(value, shift, bits), shift) = value \cap Mask(shift, bits)
<1> DEFINE P == Places(value, shift, bits)
<1>1. P \in SUBSET (0..(bits - 1)) /\ Moved(P, shift) = value \cap Mask(shift, bits)
  BY PlacesMoved
<1>2. Read(value, shift, bits) = ValueOf(P)
  BY ReadsThePlaces
<1>3. ValueOf(P) \in 0..(Power2[bits] - 1) /\ Ones[ValueOf(P)] = P
  BY <1>1, NumberHasItsOnes
<1> QED
  BY <1>1, <1>2, <1>3 DEF At, Moved

(* What is written stays in its bits, and reading it gives it back. *)
LEMMA WriteThenRead ==
    ASSUME NEW shift \in Nat, NEW bits \in Nat, NEW code \in 0..(Power2[bits] - 1)
    PROVE  /\ At(code, shift) \subseteq Mask(shift, bits)
           /\ \A value : value \cap Mask(shift, bits) = At(code, shift) =>
                            Read(value, shift, bits) = code
<1>1. Ones[code] \in SUBSET (0..(bits - 1)) /\ ValueOf(Ones[code]) = code
  BY OnesMakeTheNumber
<1>2. At(code, shift) \subseteq Mask(shift, bits)
  BY <1>1 DEF At, Mask
<1>3. ASSUME NEW value, value \cap Mask(shift, bits) = At(code, shift)
      PROVE  Read(value, shift, bits) = code
  <2>1. Places(value, shift, bits) \subseteq Ones[code]
    <3> SUFFICES ASSUME NEW i \in Places(value, shift, bits) PROVE i \in Ones[code]
      OBVIOUS
    <3>1. i \in Nat /\ i + shift \in value \cap Mask(shift, bits)
      BY DEF Places, Mask
    <3>2. PICK j \in Ones[code] : i + shift = j + shift
      BY <1>3, <3>1 DEF At
    <3>3. j \in Nat
      BY <1>1
    <3> QED
      BY <3>1, <3>2, <3>3
  <2>2. Ones[code] \subseteq Places(value, shift, bits)
    <3> SUFFICES ASSUME NEW j \in Ones[code] PROVE j \in Places(value, shift, bits)
      OBVIOUS
    <3>1. j + shift \in At(code, shift)
      BY DEF At
    <3> QED
      BY <1>1, <1>3, <3>1 DEF Places
  <2>3. Read(value, shift, bits) = ValueOf(Places(value, shift, bits))
    BY ReadsThePlaces
  <2> QED
    BY <1>1, <2>1, <2>2, <2>3
<1> QED
  BY <1>2, <1>3

(* Every atomic slot is still to be packed or in one bin, never both and never in two. *)
PlacedOnce ==
    \A s \in DOMAIN Slots :
        /\ AtomicSlots(spec[s]) = todo[s] \cup UNION {bins[s][b] : b \in DOMAIN bins[s]}
        /\ \A b \in DOMAIN bins[s] : bins[s][b] \cap todo[s] = {}
        /\ \A b, c \in DOMAIN bins[s] : b # c => bins[s][b] \cap bins[s][c] = {}

(* The operands of one instruction have different atomic slots: of two operands of one type,
   the later has the more of that type before it. *)
LEMMA OperandsDiffer ==
    ASSUME NEW instruction \in Seq(DOMAIN Types),
           NEW j \in DOMAIN instruction, NEW k \in DOMAIN instruction, j < k
    PROVE  AtomOf(instruction, j) # AtomOf(instruction, k)
<1> DEFINE Same(n) == {i \in 1..(n - 1) : instruction[i] = instruction[n]}
<1>1. SUFFICES ASSUME instruction[j] = instruction[k],
                      Cardinality(Same(j)) = Cardinality(Same(k))
               PROVE  FALSE
  BY DEF AtomOf
<1>2. j \in Nat /\ k \in Nat /\ 1 <= j
  OBVIOUS
<1>3. IsFiniteSet(1..(k - 1))
  BY <1>2, FS_Interval
<1>4. IsFiniteSet(Same(k))
  BY <1>3, FS_Subset
<1>5. Same(j) \subseteq Same(k)
  BY <1>1, <1>2
<1>6. Same(j) = Same(k)
  BY <1>1, <1>4, <1>5, FS_Subset
<1>7. j \in Same(k) /\ j \notin Same(j)
  BY <1>1, <1>2
<1> QED
  BY <1>6, <1>7

(* An atomic slot is a type and a count. *)
LEMMA AtomsAreTyped ==
    ASSUME NEW instructions \in Seq(Seq(DOMAIN Types))
    PROVE  AtomicSlots(instructions) \subseteq (DOMAIN Types) \X Nat
<1> SUFFICES ASSUME NEW o \in DOMAIN instructions, NEW k \in DOMAIN instructions[o]
             PROVE  AtomOf(instructions[o], k) \in (DOMAIN Types) \X Nat
  BY DEF AtomicSlots, AtomsOf
<1> DEFINE instruction == instructions[o]
           before == {j \in 1..(k - 1) : instruction[j] = instruction[k]}
<1>1. instruction \in Seq(DOMAIN Types)
  OBVIOUS
<1>2. k \in Nat /\ instruction[k] \in DOMAIN Types
  BY <1>1
<1>3. IsFiniteSet(1..(k - 1))
  BY <1>2, FS_Interval
<1>4. IsFiniteSet(before)
  BY <1>3, FS_Subset
<1>5. Cardinality(before) \in Nat
  BY <1>4, FS_CardinalityType
<1> QED
  BY <1>2, <1>5 DEF AtomOf

(* The state the packing starts in is typed. *)
LEMMA InitTyped == Init => TypeOK
<1> SUFFICES ASSUME Init PROVE TypeOK
  OBVIOUS
<1>1. spec \in [DOMAIN Slots -> Seq(Seq(DOMAIN Types))]
  BY LayoutAssumption DEF Init
<1>2. todo \in [DOMAIN Slots -> SUBSET ((DOMAIN Types) \X Nat)]
  <2> SUFFICES ASSUME NEW s \in DOMAIN Slots
               PROVE  AtomicSlots(spec[s]) \subseteq (DOMAIN Types) \X Nat
    BY DEF Init
  <2> QED
    BY <1>1, AtomsAreTyped
<1>3. bins \in [DOMAIN Slots -> Seq(SUBSET ((DOMAIN Types) \X Nat))]
  BY DEF Init
<1> QED
  BY <1>2, <1>3 DEF Init, TypeOK

(* A packing step keeps the types. *)
LEMMA NextTyped == TypeOK /\ [Next]_vars => TypeOK'
<1> SUFFICES ASSUME TypeOK, [Next]_vars PROVE TypeOK'
  OBVIOUS
<1> DEFINE Atoms == (DOMAIN Types) \X Nat
<1>1. CASE UNCHANGED vars
  BY <1>1 DEF vars, TypeOK
<1>2. ASSUME NEW s \in DOMAIN Slots, NEW atom \in todo[s], NewBin(s, atom)
      PROVE  TypeOK'
  <2>1. atom \in Atoms /\ bins[s] \in Seq(SUBSET Atoms)
    BY DEF TypeOK
  <2>2. Append(bins[s], {atom}) \in Seq(SUBSET Atoms)
    BY <2>1
  <2> QED
    BY <1>2, <2>2 DEF NewBin, TypeOK
<1>3. ASSUME NEW s \in DOMAIN Slots, NEW atom \in todo[s], NEW b \in DOMAIN bins[s],
             PlaceIn(s, atom, b)
      PROVE  TypeOK'
  <2>1. atom \in Atoms /\ bins[s] \in Seq(SUBSET Atoms)
    BY DEF TypeOK
  <2>2. bins[s][b] \cup {atom} \in SUBSET Atoms
    BY <2>1
  <2>3. [bins[s] EXCEPT ![b] = @ \cup {atom}] \in Seq(SUBSET Atoms)
    BY <2>1, <2>2
  <2> QED
    BY <1>3, <2>3 DEF PlaceIn, TypeOK
<1> QED
  BY <1>1, <1>2, <1>3 DEF Next

(* The solver's state keeps its type for every instruction set. *)
THEOREM LayoutTypes == Spec => []TypeOK
<1> QED
  BY InitTyped, NextTyped, PTL DEF Spec

-----------------------------------------------------------------------------
(* What a step of the loop does to the bins of the slot being packed: one atomic slot enters
   one bin whose members share no instruction with it, and no other bin changes. *)
Entered(s, atom, b) ==
    /\ b \in Nat
    /\ DOMAIN bins'[s] = DOMAIN bins[s] \cup {b}
    /\ bins'[s][b] = {atom} \cup (IF b \in DOMAIN bins[s] THEN bins[s][b] ELSE {})
    /\ \A c \in DOMAIN bins[s] \ {b} : bins'[s][c] = bins[s][c]
    /\ b \in DOMAIN bins[s] =>
          \A a \in bins[s][b] : Users(s, a) \cap Users(s, atom) = {}

(* A packing step as the proofs use it: one atomic slot of one slot enters one bin. *)
StepOf(s, atom) ==
    /\ \E b \in Nat : Entered(s, atom, b)
    /\ todo'[s] = todo[s] \ {atom}
    /\ \A r \in DOMAIN Slots \ {s} : bins'[r] = bins[r] /\ todo'[r] = todo[r]
    /\ spec' = spec

(* Every step of Next is such a step. *)
LEMMA StepsEnter ==
    ASSUME TypeOK, Next
    PROVE  \E s \in DOMAIN Slots : \E atom \in todo[s] : StepOf(s, atom)
<1>0. PICK s \in DOMAIN Slots :
          \E atom \in todo[s] : NewBin(s, atom) \/ \E b \in DOMAIN bins[s] : PlaceIn(s, atom, b)
  BY DEF Next
<1>1. PICK atom \in todo[s] : NewBin(s, atom) \/ \E b \in DOMAIN bins[s] : PlaceIn(s, atom, b)
  BY <1>0
<1>2. bins[s] \in Seq(SUBSET ((DOMAIN Types) \X Nat))
  BY DEF TypeOK
<1>3. CASE NewBin(s, atom)
  <2> DEFINE b == Len(bins[s]) + 1
  <2>1. b \in Nat /\ b \notin DOMAIN bins[s]
    BY <1>2
  <2>2. bins'[s] = Append(bins[s], {atom})
    BY <1>3 DEF NewBin, TypeOK
  <2>3. Entered(s, atom, b)
    BY <1>2, <2>1, <2>2 DEF Entered
  <2> QED
    BY <1>3, <2>1, <2>3 DEF NewBin, StepOf, TypeOK
<1>4. ASSUME NEW b \in DOMAIN bins[s], PlaceIn(s, atom, b)
      PROVE  StepOf(s, atom)
  <2>1. b \in Nat
    BY <1>2
  <2>2. bins'[s] = [bins[s] EXCEPT ![b] = @ \cup {atom}]
    BY <1>4 DEF PlaceIn, TypeOK
  <2>3. \A a \in bins[s][b] : Users(s, a) \cap Users(s, atom) = {}
    BY <1>4 DEF PlaceIn, Room
  <2>4. Entered(s, atom, b)
    BY <2>1, <2>2, <2>3 DEF Entered
  <2> QED
    BY <1>4, <2>1, <2>4 DEF PlaceIn, StepOf, TypeOK
<1> QED
  BY <1>1, <1>3, <1>4

(* A packing step puts no two operands of one instruction into one bin. *)
LEMMA StepKeepsApart ==
    ASSUME NoSharing, NEW s \in DOMAIN Slots, NEW atom, StepOf(s, atom)
    PROVE  NoSharing'
<1>1. PICK b \in Nat : Entered(s, atom, b)
  BY DEF StepOf
<1>2. \A r, a : Users(r, a)' = Users(r, a)
  BY DEF StepOf, Users, Opcodes
<1> SUFFICES ASSUME NEW r \in DOMAIN Slots, NEW c \in DOMAIN bins'[r],
                    NEW x \in bins'[r][c], NEW y \in bins'[r][c], x # y
             PROVE  Users(r, x) \cap Users(r, y) = {}
  BY <1>2 DEF NoSharing
<1>3. CASE r # s \/ c # b
  BY <1>1, <1>3 DEF NoSharing, StepOf, Entered
<1>4. CASE r = s /\ c = b
  BY <1>1, <1>4 DEF NoSharing, Entered
<1> QED
  BY <1>3, <1>4

(* "Merge atomic slots into union fields when no instruction uses both": at every round of the
   packing loop, two atomic slots of one field have no instruction in common. *)
THEOREM FieldsAreNotShared == Spec => []NoSharing
<1>1. Init => NoSharing
  BY DEF Init, NoSharing
<1>2. TypeOK /\ NoSharing /\ [Next]_vars => NoSharing'
  <2> SUFFICES ASSUME TypeOK, NoSharing, [Next]_vars PROVE NoSharing'
    OBVIOUS
  <2>1. CASE UNCHANGED vars
    BY <2>1 DEF vars, NoSharing, Users, Opcodes
  <2>2. CASE Next
    BY <2>2, StepsEnter, StepKeepsApart
  <2> QED
    BY <2>1, <2>2
<1> QED
  BY <1>1, <1>2, LayoutTypes, PTL DEF Spec

-----------------------------------------------------------------------------
(* A packing step moves one atomic slot from todo to a bin. *)
LEMMA StepPlaces ==
    ASSUME PlacedOnce, NEW s \in DOMAIN Slots, NEW atom \in todo[s], StepOf(s, atom)
    PROVE  PlacedOnce'
<1>1. PICK b \in Nat : Entered(s, atom, b)
  BY DEF StepOf
<1>2. \A r \in DOMAIN Slots : AtomicSlots(spec'[r]) = AtomicSlots(spec[r])
  BY DEF StepOf
<1> SUFFICES ASSUME NEW r \in DOMAIN Slots
             PROVE  /\ AtomicSlots(spec'[r]) = todo'[r] \cup UNION {bins'[r][c] : c \in DOMAIN bins'[r]}
                    /\ \A c \in DOMAIN bins'[r] : bins'[r][c] \cap todo'[r] = {}
                    /\ \A c, d \in DOMAIN bins'[r] : c # d => bins'[r][c] \cap bins'[r][d] = {}
  BY DEF PlacedOnce
<1>3. CASE r # s
  BY <1>2, <1>3 DEF PlacedOnce, StepOf
<1>4. CASE r = s
  <2> DEFINE Old(c) == IF c \in DOMAIN bins[s] THEN bins[s][c] ELSE {}
  <2>1. DOMAIN bins'[s] = DOMAIN bins[s] \cup {b}
    BY <1>1 DEF Entered
  <2>2. \A c \in DOMAIN bins'[s] : bins'[s][c] = Old(c) \cup (IF c = b THEN {atom} ELSE {})
    BY <1>1 DEF Entered
  <2>3. todo'[s] = todo[s] \ {atom}
    BY DEF StepOf
  <2>4. \A c \in DOMAIN bins'[s] : Old(c) \cap todo[s] = {}
    BY DEF PlacedOnce
  <2>5. \A c, d \in DOMAIN bins'[s] : c # d => Old(c) \cap Old(d) = {}
    BY DEF PlacedOnce
  <2>6. AtomicSlots(spec[s]) = todo[s] \cup UNION {Old(c) : c \in DOMAIN bins'[s]}
    BY <2>1 DEF PlacedOnce
  <2>7. UNION {bins'[s][c] : c \in DOMAIN bins'[s]} = {atom} \cup UNION {Old(c) : c \in DOMAIN bins'[s]}
    BY <2>1, <2>2
  <2>8. AtomicSlots(spec'[s]) = todo'[s] \cup UNION {bins'[s][c] : c \in DOMAIN bins'[s]}
    BY <1>2, <2>3, <2>6, <2>7
  <2>9. \A c \in DOMAIN bins'[s] : bins'[s][c] \cap todo'[s] = {}
    BY <2>2, <2>3, <2>4
  <2>10. \A c, d \in DOMAIN bins'[s] : c # d => bins'[s][c] \cap bins'[s][d] = {}
    BY <2>2, <2>4, <2>5
  <2> QED
    BY <1>4, <2>8, <2>9, <2>10
<1> QED
  BY <1>3, <1>4

(* PlacedOnce is an invariant. *)
LEMMA AlwaysPlacedOnce == Spec => []PlacedOnce
<1>1. Init => PlacedOnce
  BY DEF Init, PlacedOnce
<1>2. TypeOK /\ PlacedOnce /\ [Next]_vars => PlacedOnce'
  <2> SUFFICES ASSUME TypeOK, PlacedOnce, [Next]_vars PROVE PlacedOnce'
    OBVIOUS
  <2>1. CASE UNCHANGED vars
    BY <2>1 DEF vars, PlacedOnce
  <2>2. CASE Next
    BY <2>2, StepsEnter, StepPlaces
  <2> QED
    BY <2>1, <2>2
<1> QED
  BY <1>1, <1>2, LayoutTypes, PTL DEF Spec

(* compute_slot_layout gives each operand a field of its own, for every instruction set. *)
THEOREM OperandsHaveFields == Spec => []EveryOperandHasItsField
<1>1. TypeOK /\ NoSharing /\ PlacedOnce => EveryOperandHasItsField
  <2> SUFFICES ASSUME TypeOK, NoSharing, PlacedOnce, Packed,
                      NEW s \in DOMAIN Slots, NEW o \in Opcodes(s), NEW k \in Operands(s, o)
               PROVE  \E f \in Fields(s) :
                         /\ AtomOf(spec[s][o], k) \in bins[s][f]
                         /\ \A g \in Fields(s) \ {f} : AtomOf(spec[s][o], k) \notin bins[s][g]
                         /\ \A j \in Operands(s, o) \ {k} : AtomOf(spec[s][o], j) \notin bins[s][f]
    BY DEF EveryOperandHasItsField
  <2> DEFINE atom(j) == AtomOf(spec[s][o], j)
  <2>1. spec[s][o] \in Seq(DOMAIN Types)
    BY LayoutAssumption DEF TypeOK, Opcodes
  <2>2. \A j \in Operands(s, o) : atom(j) \in AtomicSlots(spec[s]) /\ o \in Users(s, atom(j))
    BY DEF AtomicSlots, AtomsOf, Users, Opcodes, Operands
  <2>3. PICK f \in Fields(s) : atom(k) \in bins[s][f]
    BY <2>2 DEF PlacedOnce, Packed, Fields
  <2>4. \A g \in Fields(s) \ {f} : atom(k) \notin bins[s][g]
    BY <2>3 DEF PlacedOnce, Fields
  <2>5. ASSUME NEW j \in Operands(s, o) \ {k}, atom(j) \in bins[s][f]
        PROVE  FALSE
    <3>1. j < k \/ k < j
      BY <2>1 DEF Operands
    <3>2. atom(j) # atom(k)
      BY <2>1, <3>1, OperandsDiffer DEF Operands
    <3> QED
      BY <2>2, <2>3, <2>5, <3>2 DEF NoSharing, Fields
  <2> QED
    BY <2>3, <2>4, <2>5
<1> QED
  BY <1>1, LayoutTypes, FieldsAreNotShared, AlwaysPlacedOnce, PTL

(* No bin is empty. *)
BinsFilled == \A s \in DOMAIN Slots : \A b \in DOMAIN bins[s] : bins[s][b] # {}

(* A bin is opened for the atomic slot it then holds. *)
LEMMA AlwaysFilled == Spec => []BinsFilled
<1>1. Init => BinsFilled
  BY DEF Init, BinsFilled
<1>2. TypeOK /\ BinsFilled /\ [Next]_vars => BinsFilled'
  <2> SUFFICES ASSUME TypeOK, BinsFilled, [Next]_vars PROVE BinsFilled'
    OBVIOUS
  <2>1. CASE UNCHANGED vars
    BY <2>1 DEF vars, BinsFilled
  <2>2. CASE Next
    <3>1. PICK s \in DOMAIN Slots : \E atom \in todo[s] : StepOf(s, atom)
      BY <2>2, StepsEnter
    <3>2. PICK atom \in todo[s] : StepOf(s, atom)
      BY <3>1
    <3>3. PICK b \in Nat : Entered(s, atom, b)
      BY <3>2 DEF StepOf
    <3> SUFFICES ASSUME NEW r \in DOMAIN Slots, NEW c \in DOMAIN bins'[r] PROVE bins'[r][c] # {}
      BY DEF BinsFilled
    <3>4. CASE r # s
      BY <3>2, <3>4 DEF StepOf, BinsFilled
    <3>5. CASE r = s
      <4>1. CASE c = b
        BY <3>3, <3>5, <4>1 DEF Entered
      <4>2. CASE c # b
        BY <3>3, <3>5, <4>2 DEF Entered, BinsFilled
      <4> QED
        BY <4>1, <4>2
    <3> QED
      BY <3>4, <3>5
  <2> QED
    BY <2>1, <2>2
<1> QED
  BY <1>1, <1>2, LayoutTypes, PTL DEF Spec

-----------------------------------------------------------------------------
(* The columns of a row of Slots. *)
LEMMA SlotsTyped ==
    \A s \in DOMAIN Slots : /\ Slots[s].pad \in Nat /\ Slots[s].count \in Nat \ {0}
                            /\ Slots[s].hardware \in BOOLEAN
<1> DEFINE R == [count : Nat \ {0}, pad : Nat, hardware : BOOLEAN]
<1>1. Slots \in Seq(R)
  BY LayoutAssumption
<1>2. \A r \in R : r.pad \in Nat /\ r.count \in Nat \ {0}
  OBVIOUS
<1>3. \A r \in R : r.hardware \in BOOLEAN
  BY Zenon
<1> HIDE DEF R
<1>4. \A s \in DOMAIN Slots : Slots[s] \in R
  BY <1>1
<1> QED
  BY <1>2, <1>3, <1>4, Zenon

(* The types of the fields of a slot. *)
LEMMA SpecTyped ==
    ASSUME TypeOK, NEW s \in DOMAIN Slots
    PROVE  /\ spec[s] \in Seq(Seq(DOMAIN Types))
           /\ bins[s] \in Seq(SUBSET ((DOMAIN Types) \X Nat))
           /\ Fields(s) = 1..Len(bins[s]) /\ Len(bins[s]) \in Nat
           /\ IsFiniteSet(Fields(s))
<1>1. spec[s] \in Seq(Seq(DOMAIN Types)) /\ bins[s] \in Seq(SUBSET ((DOMAIN Types) \X Nat))
  BY LayoutAssumption DEF TypeOK
<1>2. Fields(s) = 1..Len(bins[s]) /\ Len(bins[s]) \in Nat
  BY <1>1 DEF Fields
<1>3. IsFiniteSet(1..Len(bins[s]))
  BY <1>2, FS_Interval
<1> QED
  BY <1>1, <1>2, <1>3

(* Every opcode of a slot is a number of OpcodeBits bits. *)
LEMMA OpcodesFit ==
    ASSUME TypeOK, NEW s \in DOMAIN Slots
    PROVE  /\ OpcodeBits(s) \in Nat \ {0}
           /\ \A o \in Opcodes(s) : o - 1 \in 0..(Power2[OpcodeBits(s)] - 1)
<1>1. Len(spec[s]) \in Nat /\ Opcodes(s) = 1..Len(spec[s])
  BY SpecTyped DEF Opcodes
<1>2. CASE Len(spec[s]) > 1
  <2> DEFINE n == Len(spec[s]) - 1
  <2>1. n \in Nat \ {0}
    <3> DEFINE m == Len(spec[s])
    <3>1. m \in Nat /\ m > 1
      BY <1>1, <1>2
    <3> HIDE DEF m
    <3>2. m - 1 \in Nat \ {0}
      BY <3>1
    <3> QED
      BY <3>2 DEF m
  <2>2. BitLength(n) \in Nat \ {0} /\ n \in 0..(Power2[BitLength(n)] - 1)
    BY <2>1, BitLengthFits
  <2>3. OpcodeBits(s) = Max({1, BitLength(n)})
    BY <1>2 DEF OpcodeBits
  <2> HIDE DEF n
  <2>4. Max({1, BitLength(n)}) = BitLength(n)
    <3>1. 1 \in Int /\ BitLength(n) \in Int
      BY <2>2
    <3>2. Max({1, BitLength(n)}) = IF 1 >= BitLength(n) THEN 1 ELSE BitLength(n)
      BY <3>1, MaxOfTwo
    <3> QED
      BY <2>2, <3>2
  <2>5. \A o \in Opcodes(s) : o - 1 \in 0..n
    BY <1>1 DEF n
  <2>6. Power2[BitLength(n)] \in Nat
    BY <2>2, Powers
  <2> QED
    BY <2>1, <2>2, <2>3, <2>4, <2>5, <2>6
<1>3. CASE ~(Len(spec[s]) > 1)
  <2>1. OpcodeBits(s) = 1
    BY <1>3 DEF OpcodeBits
  <2>2. Power2[1] = 2
    <3>1. Power2[0 + 1] = 2 * Power2[0] /\ Power2[0] = 1
      BY Powers
    <3> QED
      BY <3>1
  <2>3. \A o \in Opcodes(s) : o - 1 = 0
    BY <1>1, <1>3
  <2> QED
    BY <2>1, <2>2, <2>3
<1> QED
  BY <1>2, <1>3

(* The types have a greatest width. *)
LEMMA WidthsBounded ==
    \E m \in Nat : \A t \in DOMAIN Types : Types[t].bits \in Nat /\ Types[t].bits <= m
<1>1. Types \in Seq([bits : Nat, codes : Nat, low : Int, members : BOOLEAN, pads : BOOLEAN])
  BY LayoutAssumption
<1>2. Len(Types) \in Nat /\ DOMAIN Types = 1..Len(Types)
  BY <1>1
<1>3. \A t \in DOMAIN Types : Types[t].bits \in Nat
  <2> DEFINE R == [bits : Nat, codes : Nat, low : Int, members : BOOLEAN, pads : BOOLEAN]
  <2>1. Types \in Seq(R)
    BY <1>1
  <2>2. \A r \in R : r.bits \in Nat
    OBVIOUS
  <2> HIDE DEF R
  <2> QED
    BY <2>1, <2>2
<1> DEFINE Good == {n \in Nat : \E m \in Nat : \A t \in DOMAIN Types : t <= n => Types[t].bits <= m}
<1>4. 0 \in Good
  BY <1>2
<1>5. ASSUME NEW n \in Nat, n \in Good PROVE n + 1 \in Good
  <2>1. PICK m \in Nat : \A t \in DOMAIN Types : t <= n => Types[t].bits <= m
    BY <1>5
  <2>2. CASE n + 1 \in DOMAIN Types
    <3> DEFINE k == m + Types[n + 1].bits
    <3>1. k \in Nat
      BY <1>3, <2>2
    <3>2. ASSUME NEW t \in DOMAIN Types, t <= n + 1 PROVE Types[t].bits <= k
      <4>1. t \in Nat /\ Types[t].bits \in Nat /\ Types[n + 1].bits \in Nat
        BY <1>2, <1>3, <2>2
      <4>2. CASE t = n + 1
        BY <4>1, <4>2
      <4>3. CASE t # n + 1
        <5>1. t <= n
          BY <3>2, <4>1, <4>3
        <5> QED
          BY <2>1, <4>1, <5>1
      <4> QED
        BY <4>2, <4>3
    <3> QED
      BY <3>1, <3>2
  <2>3. CASE n + 1 \notin DOMAIN Types
    <3>1. \A t \in DOMAIN Types : t <= n + 1 => t <= n
      BY <1>2, <2>3
    <3> QED
      BY <2>1, <3>1
  <2> QED
    BY <2>2, <2>3
<1> HIDE DEF Good
<1>6. Len(Types) \in Good
  BY <1>2, <1>4, <1>5, Induction
<1>7. PICK m \in Nat : \A t \in DOMAIN Types : t <= Len(Types) => Types[t].bits <= m
  BY <1>6 DEF Good
<1> QED
  BY <1>2, <1>3, <1>7

(* A packed field is as wide as the widest operand in it. *)
LEMMA PackedBitsHold ==
    ASSUME TypeOK, BinsFilled, NEW s \in DOMAIN Slots, NEW f \in Fields(s)
    PROVE  PackedBits(s, f) \in Nat /\ \A a \in bins[s][f] : Types[a[1]].bits <= PackedBits(s, f)
<1> DEFINE W == {Types[a[1]].bits : a \in bins[s][f]}
<1>1. \A a \in bins[s][f] : a[1] \in DOMAIN Types
  <2>1. bins[s][f] \in SUBSET ((DOMAIN Types) \X Nat)
    BY SpecTyped DEF Fields
  <2> QED
    BY <2>1
<1>2. PICK m \in Nat : \A t \in DOMAIN Types : Types[t].bits \in Nat /\ Types[t].bits <= m
  BY WidthsBounded
<1>3. W \in SUBSET Nat /\ W # {} /\ \A y \in W : y <= m
  BY <1>1, <1>2 DEF BinsFilled, Fields
<1> HIDE DEF W
<1>4. Max(W) \in W /\ \A y \in W : y <= Max(W)
  BY <1>3, MaxOfBounded
<1>5. PackedBits(s, f) = Max(W)
  BY DEF PackedBits, W
<1> QED
  BY <1>3, <1>4, <1>5 DEF W

(* A field of the layout, its padding included, holds every operand in it. *)
LEMMA FieldsHold ==
    ASSUME TypeOK, BinsFilled, NEW s \in DOMAIN Slots, NEW f \in Fields(s)
    PROVE  FieldBits(s, f) \in Nat /\ \A a \in bins[s][f] : Types[a[1]].bits <= FieldBits(s, f)
<1>1. PackedBits(s, f) \in Nat /\ \A a \in bins[s][f] : Types[a[1]].bits <= PackedBits(s, f)
  BY PackedBitsHold
<1>2. Deficit(s) \in Nat
  <2> DEFINE w == [g \in Fields(s) |-> PackedBits(s, g)]
  <2>1. IsFiniteSet(Fields(s)) /\ \A g \in Fields(s) : w[g] \in Nat
    BY SpecTyped, PackedBitsHold
  <2>2. SumFunction(w) \in Nat
    <3>1. SumFunction(w) = SumFunctionOnSet(w, Fields(s))
      BY DEF SumFunction
    <3> HIDE DEF w
    <3> QED
      BY <2>1, <3>1, SumType
  <2>3. PackedWidth(s) \in Int
    BY <2>2, OpcodesFit DEF PackedWidth
  <2>4. Slots[s].pad \in Nat
    BY SlotsTyped
  <2>5. Slots[s].pad - PackedWidth(s) \in Int /\ 0 \in Int
    BY <2>3, <2>4
  <2> DEFINE d == Slots[s].pad - PackedWidth(s)
  <2>6. Max({0, d}) = IF 0 >= d THEN 0 ELSE d
    BY <2>5, MaxOfTwo
  <2> QED
    BY <2>5, <2>6 DEF Deficit
<1>3. FieldBits(s, f) = PackedBits(s, f) \/ FieldBits(s, f) = PackedBits(s, f) + Deficit(s)
  BY <1>1 DEF FieldBits
<1>4. FieldBits(s, f) \in Nat /\ FieldBits(s, f) >= PackedBits(s, f)
  BY <1>1, <1>2, <1>3
<1>5. ASSUME NEW a \in bins[s][f] PROVE Types[a[1]].bits <= FieldBits(s, f)
  <2>1. a[1] \in DOMAIN Types
    <3>1. bins[s][f] \in SUBSET ((DOMAIN Types) \X Nat)
      BY SpecTyped DEF Fields
    <3> QED
      BY <3>1
  <2>2. Types[a[1]].bits \in Nat
    BY <2>1, WidthsBounded
  <2> QED
    BY <1>1, <1>4, <2>2
<1> QED
  BY <1>4, <1>5

(* The fields of a slot lie one above another: a field's shift is the widths below it. *)
Widths(s) == [f \in Fields(s) |-> FieldBits(s, f)]
(* The fields that lie below field f of a slot. *)
Below(s, f) == {h \in Fields(s) : h > f}

(* A field's shift is the sum of the widths of the fields below it. *)
LEMMA ShiftIsSum ==
    ASSUME TypeOK, BinsFilled, NEW s \in DOMAIN Slots, NEW f
    PROVE  /\ IsFiniteSet(Below(s, f))
           /\ \A g \in Fields(s) : Widths(s)[g] \in Nat /\ Widths(s)[g] = FieldBits(s, g)
           /\ Shift(s, f) = SumFunctionOnSet(Widths(s), Below(s, f))
           /\ Shift(s, f) \in Nat
<1>1. IsFiniteSet(Below(s, f))
  BY SpecTyped, FS_Subset DEF Below
<1>2. \A g \in Fields(s) : Widths(s)[g] \in Nat /\ Widths(s)[g] = FieldBits(s, g)
  BY FieldsHold DEF Widths
<1> DEFINE w == [g \in Below(s, f) |-> FieldBits(s, g)]
<1>3. Shift(s, f) = SumFunctionOnSet(w, Below(s, f))
  BY DEF Shift, SumFunction, Below
<1>4. \A g \in Below(s, f) : Widths(s)[g] \in Nat /\ w[g] = Widths(s)[g]
  BY <1>2 DEF Below
<1> HIDE DEF w
<1>5. SumFunctionOnSet(w, Below(s, f)) = SumFunctionOnSet(Widths(s), Below(s, f))
  BY <1>1, <1>4, SumOfSame
<1>6. SumFunctionOnSet(Widths(s), Below(s, f)) \in Nat
  BY <1>1, <1>4, SumType
<1> QED
  BY <1>1, <1>2, <1>3, <1>5, <1>6

(* A field starts at or above the end of every later one. *)
LEMMA ShiftsDescend ==
    ASSUME TypeOK, BinsFilled, NEW s \in DOMAIN Slots, NEW f \in Nat, NEW g \in Fields(s), f < g
    PROVE  Shift(s, f) >= FieldBits(s, g) + Shift(s, g)
<1> DEFINE w == Widths(s)
           A == Below(s, f)
           B == Below(s, g)
           C == {h \in Fields(s) : f < h /\ h < g}
<1>1. Fields(s) \subseteq Nat /\ g \in Nat
  BY SpecTyped
<1>2. g \in A /\ A \ {g} = B \cup C /\ B \cap C = {}
  BY <1>1 DEF Below
<1>3. IsFiniteSet(A) /\ IsFiniteSet(B) /\ IsFiniteSet(C)
  BY SpecTyped, FS_Subset DEF Below
<1>4. \A h \in Fields(s) : w[h] \in Nat /\ w[h] = FieldBits(s, h)
  BY ShiftIsSum
<1>5. (\A h \in A : w[h] \in Nat) /\ (\A h \in B \cup C : w[h] \in Nat) /\ \A h \in C : w[h] \in Nat
  BY <1>4 DEF Below
<1>6. /\ Shift(s, f) = SumFunctionOnSet(w, A)
      /\ Shift(s, g) = SumFunctionOnSet(w, B) /\ Shift(s, g) \in Nat
  BY ShiftIsSum
<1> HIDE DEF w, A, B, C
<1>7. SumFunctionOnSet(w, A) = w[g] + SumFunctionOnSet(w, A \ {g})
  BY <1>2, <1>3, <1>5, SumTakeOut
<1>8. SumFunctionOnSet(w, B \cup C) = SumFunctionOnSet(w, B) + SumFunctionOnSet(w, C)
  BY <1>2, <1>3, <1>5, SumOfBoth
<1>9. SumFunctionOnSet(w, C) \in Nat
  BY <1>3, <1>5, SumType
<1>10. w[g] \in Nat /\ w[g] = FieldBits(s, g)
  BY <1>4
<1>11. SumFunctionOnSet(w, A) = w[g] + (SumFunctionOnSet(w, B) + SumFunctionOnSet(w, C))
  BY <1>2, <1>7, <1>8
<1> QED
  BY <1>6, <1>9, <1>10, <1>11

(* A slot is its opcode on top of all its fields. *)
LEMMA SlotWidthIs ==
    ASSUME TypeOK, BinsFilled, NEW s \in DOMAIN Slots
    PROVE  /\ OpcodeShift(s) \in Nat
           /\ SlotWidth(s) = OpcodeBits(s) + OpcodeShift(s)
           /\ SlotWidth(s) \in Nat \ {0}
<1>1. Fields(s) = Below(s, 0) /\ 0 \in Nat
  BY SpecTyped DEF Below
<1>2. OpcodeShift(s) = SumFunctionOnSet(Widths(s), Fields(s)) /\ OpcodeShift(s) \in Nat
  BY <1>1, ShiftIsSum DEF OpcodeShift
<1>3. SumFunction(Widths(s)) = SumFunctionOnSet(Widths(s), Fields(s))
  BY DEF SumFunction, Widths
<1>4. SlotWidth(s) = OpcodeBits(s) + SumFunction(Widths(s))
  BY DEF SlotWidth, Widths
<1>5. OpcodeBits(s) \in Nat \ {0}
  BY OpcodesFit
<1> QED
  BY <1>2, <1>3, <1>4, <1>5

-----------------------------------------------------------------------------
(* The state of a solved slot, and where the operands of one instruction are. *)
Placed == TypeOK /\ NoSharing /\ PlacedOnce /\ BinsFilled /\ EveryOperandHasItsField

(* In a packed and solved slot each operand has a field of its own that it fits. *)
LEMMA OperandsInFields ==
    ASSUME Placed, Solved, NEW s \in DOMAIN Slots, NEW o \in Opcodes(s), NEW k \in Operands(s, o)
    PROVE  /\ FieldOf(s, o, k) \in Fields(s)
           /\ AtomOf(spec[s][o], k) \in bins[s][FieldOf(s, o, k)]
           /\ \A j \in Operands(s, o) \ {k} : FieldOf(s, o, j) # FieldOf(s, o, k)
           /\ OperandBits(spec[s][o][k]) \in Nat
           /\ OperandBits(spec[s][o][k]) <= FieldBits(s, FieldOf(s, o, k))
<1> DEFINE atom(j) == AtomOf(spec[s][o], j)
           f == FieldOf(s, o, k)
           t == spec[s][o][k]
<1>1. ASSUME NEW j \in Operands(s, o)
      PROVE  FieldOf(s, o, j) \in Fields(s) /\ atom(j) \in bins[s][FieldOf(s, o, j)]
  <2>1. \E g \in Fields(s) : atom(j) \in bins[s][g]
    BY DEF Placed, EveryOperandHasItsField, Solved
  <2> QED
    BY <2>1 DEF FieldOf
<1>2. \E g \in Fields(s) :
          /\ \A h \in Fields(s) \ {g} : atom(k) \notin bins[s][h]
          /\ \A j \in Operands(s, o) \ {k} : atom(j) \notin bins[s][g]
  BY DEF Placed, EveryOperandHasItsField, Solved
<1>3. \A j \in Operands(s, o) \ {k} : atom(j) \notin bins[s][f]
  BY <1>1, <1>2
<1>4. \A j \in Operands(s, o) \ {k} : FieldOf(s, o, j) # f
  BY <1>1, <1>3
<1>5. t \in DOMAIN Types /\ atom(k)[1] = t
  <2>1. spec[s] \in Seq(Seq(DOMAIN Types))
    BY SpecTyped DEF Placed
  <2>2. spec[s][o] \in Seq(DOMAIN Types)
    BY <2>1 DEF Opcodes
  <2>3. t \in DOMAIN Types
    BY <2>2 DEF Operands
  <2> QED
    BY <2>3 DEF AtomOf
<1>6. FieldBits(s, f) \in Nat /\ Types[t].bits \in Nat /\ Types[t].bits <= FieldBits(s, f)
  BY <1>1, <1>5, FieldsHold, WidthsBounded DEF Placed
<1>7. OperandBits(t) \in Nat /\ OperandBits(t) <= FieldBits(s, f)
  <2>1. CASE Types[t].bits # 0
    BY <1>6, <2>1 DEF OperandBits
  <2>2. CASE Types[t].bits = 0
    <3>1. FieldBits(s, f) \in CarrierBits(t)
      <4>1. f \in {g \in Fields(s) : \E a \in bins[s][g] : a[1] = t}
        BY <1>1, <1>5
      <4> QED
        BY <4>1 DEF CarrierBits
    <3>2. \E b \in CarrierBits(t) : CarrierBits(t) = {b}
      BY <1>5, <2>2 DEF Solved
    <3> QED
      BY <1>6, <2>2, <3>1, <3>2 DEF OperandBits
  <2> QED
    BY <2>1, <2>2
<1> QED
  BY <1>1, <1>4, <1>7

(* The bits of the opcode and of an operand, and that those of one instruction are apart. *)
OpcodeMask(s) == Mask(OpcodeShift(s), OpcodeBits(s))
(* The bits of an operand in its slot. *)
OperandMask(s, o, k) == Mask(Operand(s, o, k).shift, Operand(s, o, k).bits)

(* An operand lies at its field's shift and in its field's width. *)
LEMMA OperandPlace ==
    ASSUME Placed, Solved, NEW s \in DOMAIN Slots, NEW o \in Opcodes(s), NEW k \in Operands(s, o)
    PROVE  /\ Operand(s, o, k).shift \in Nat
           /\ Operand(s, o, k).bits \in Nat
           /\ Operand(s, o, k).bits = OperandBits(spec[s][o][k])
           /\ Operand(s, o, k).shift = Shift(s, FieldOf(s, o, k))
           /\ Operand(s, o, k).bits <= FieldBits(s, FieldOf(s, o, k))
<1>1. /\ OperandBits(spec[s][o][k]) \in Nat
      /\ OperandBits(spec[s][o][k]) <= FieldBits(s, FieldOf(s, o, k))
  BY OperandsInFields
<1>2. Shift(s, FieldOf(s, o, k)) \in Nat
  BY ShiftIsSum DEF Placed
<1> QED
  BY <1>1, <1>2 DEF Operand

(* The bits of the opcode and of the operands of an instruction are apart and in the slot. *)
LEMMA MasksApart ==
    ASSUME Placed, Solved, NEW s \in DOMAIN Slots, NEW o \in Opcodes(s)
    PROVE  /\ OpcodeMask(s) \subseteq 0..(SlotWidth(s) - 1)
           /\ \A k \in Operands(s, o) :
                /\ OperandMask(s, o, k) \subseteq 0..(SlotWidth(s) - 1)
                /\ OperandMask(s, o, k) \cap OpcodeMask(s) = {}
                /\ \A j \in Operands(s, o) \ {k} : OperandMask(s, o, j) \cap OperandMask(s, o, k) = {}
<1>1. /\ OpcodeShift(s) \in Nat /\ OpcodeBits(s) \in Nat
      /\ SlotWidth(s) = OpcodeBits(s) + OpcodeShift(s)
  BY SlotWidthIs, OpcodesFit DEF Placed
<1>2. OpcodeMask(s) \subseteq 0..(SlotWidth(s) - 1)
  BY <1>1 DEF OpcodeMask, Mask
<1>3. ASSUME NEW k \in Operands(s, o)
      PROVE  /\ Operand(s, o, k).shift \in Nat /\ Operand(s, o, k).bits \in Nat
             /\ Operand(s, o, k).shift + Operand(s, o, k).bits <= OpcodeShift(s)
  <2> DEFINE f == FieldOf(s, o, k)
  <2>1. /\ Operand(s, o, k).shift \in Nat /\ Operand(s, o, k).bits \in Nat
        /\ Operand(s, o, k).shift = Shift(s, f) /\ Operand(s, o, k).bits <= FieldBits(s, f)
    BY OperandPlace
  <2>2. f \in Fields(s) /\ 0 \in Nat /\ f > 0 /\ FieldBits(s, f) \in Nat
    BY OperandsInFields, SpecTyped, FieldsHold DEF Placed
  <2>3. Shift(s, 0) >= FieldBits(s, f) + Shift(s, f)
    BY <2>2, ShiftsDescend DEF Placed
  <2> HIDE DEF f
  <2> QED
    BY <1>1, <2>1, <2>2, <2>3 DEF OpcodeShift
<1>4. ASSUME NEW j \in Operands(s, o), NEW k \in Operands(s, o), FieldOf(s, o, j) < FieldOf(s, o, k)
      PROVE  Operand(s, o, j).shift >= Operand(s, o, k).shift + Operand(s, o, k).bits
  <2> DEFINE f == FieldOf(s, o, j)
             g == FieldOf(s, o, k)
  <2>1. /\ Operand(s, o, j).shift = Shift(s, f) /\ Operand(s, o, k).shift = Shift(s, g)
        /\ Operand(s, o, k).bits \in Nat /\ Operand(s, o, k).bits <= FieldBits(s, g)
        /\ Operand(s, o, k).shift \in Nat /\ Operand(s, o, j).shift \in Nat
    BY OperandPlace
  <2>2. f \in Nat /\ g \in Fields(s) /\ FieldBits(s, g) \in Nat
    BY OperandsInFields, SpecTyped, FieldsHold DEF Placed
  <2>3. Shift(s, f) >= FieldBits(s, g) + Shift(s, g)
    BY <1>4, <2>2, ShiftsDescend DEF Placed
  <2> HIDE DEF f, g
  <2> QED
    BY <2>1, <2>2, <2>3
<1>5. ASSUME NEW k \in Operands(s, o), NEW j \in Operands(s, o) \ {k}
      PROVE  OperandMask(s, o, j) \cap OperandMask(s, o, k) = {}
  <2>1. FieldOf(s, o, j) # FieldOf(s, o, k) /\ FieldOf(s, o, j) \in Nat /\ FieldOf(s, o, k) \in Nat
    <3>1. FieldOf(s, o, j) \in Fields(s) /\ FieldOf(s, o, k) \in Fields(s)
      BY OperandsInFields
    <3>2. FieldOf(s, o, j) # FieldOf(s, o, k)
      BY OperandsInFields
    <3>3. Fields(s) = 1..Len(bins[s]) /\ Len(bins[s]) \in Nat
      BY SpecTyped DEF Placed
    <3> QED
      BY <3>1, <3>2, <3>3
  <2>2. FieldOf(s, o, j) < FieldOf(s, o, k) \/ FieldOf(s, o, k) < FieldOf(s, o, j)
    BY <2>1
  <2>3. \/ Operand(s, o, j).shift >= Operand(s, o, k).shift + Operand(s, o, k).bits
        \/ Operand(s, o, k).shift >= Operand(s, o, j).shift + Operand(s, o, j).bits
    BY <1>4, <2>2
  <2>4. /\ Operand(s, o, j).shift \in Nat /\ Operand(s, o, j).bits \in Nat
        /\ Operand(s, o, k).shift \in Nat /\ Operand(s, o, k).bits \in Nat
    BY <1>3
  <2> DEFINE a == Operand(s, o, j).shift
             b == Operand(s, o, j).bits
             c == Operand(s, o, k).shift
             d == Operand(s, o, k).bits
  <2>5. (a >= c + d \/ c >= a + b) /\ a \in Nat /\ b \in Nat /\ c \in Nat /\ d \in Nat
    BY <2>3, <2>4
  <2> HIDE DEF a, b, c, d
  <2>6. (a..(a + b - 1)) \cap (c..(c + d - 1)) = {}
    BY <2>5
  <2> QED
    BY <2>6 DEF a, b, c, d, OperandMask, Mask
<1>6. ASSUME NEW k \in Operands(s, o)
      PROVE  /\ OperandMask(s, o, k) \subseteq 0..(SlotWidth(s) - 1)
             /\ OperandMask(s, o, k) \cap OpcodeMask(s) = {}
  <2> DEFINE c == Operand(s, o, k).shift
             d == Operand(s, o, k).bits
             a == OpcodeShift(s)
             b == OpcodeBits(s)
             w == SlotWidth(s)
  <2>1. a \in Nat /\ b \in Nat /\ c \in Nat /\ d \in Nat /\ c + d <= a /\ w = b + a
    BY <1>1, <1>3
  <2> HIDE DEF a, b, c, d, w
  <2>2. c..(c + d - 1) \subseteq 0..(w - 1) /\ (c..(c + d - 1)) \cap (a..(a + b - 1)) = {}
    BY <2>1
  <2> QED
    BY <2>2 DEF a, b, c, d, w, OperandMask, OpcodeMask, Mask
<1> QED
  BY <1>2, <1>5, <1>6

-----------------------------------------------------------------------------
(* decode after encode: opcode and operands come back, and no other bit is set. *)
LEMMA EncodedDecodes ==
    ASSUME Placed, Solved, NEW s \in DOMAIN Slots, NEW o \in Opcodes(s), NEW c \in LegalCodes(s, o)
    PROVE  LET v == Encode(s, o, c)
           IN  /\ v \in Values(s) /\ OpcodeOf(s, v) = o
               /\ CodesOf(s, v) = c /\ Unused(s, v) = {}
<1> DEFINE v == Encode(s, o, c)
           P(k) == At(c[k], Operand(s, o, k).shift)
           H == At(o - 1, OpcodeShift(s))
<1>1. v = H \cup UNION {P(k) : k \in Operands(s, o)}
  BY DEF Encode
<1>2. /\ OpcodeShift(s) \in Nat /\ OpcodeBits(s) \in Nat
      /\ o - 1 \in 0..(Power2[OpcodeBits(s)] - 1)
  BY SlotWidthIs, OpcodesFit DEF Placed
<1>3. H \subseteq OpcodeMask(s)
  BY <1>2, WriteThenRead DEF OpcodeMask
<1>4. ASSUME NEW k \in Operands(s, o)
      PROVE  /\ Operand(s, o, k).shift \in Nat /\ Operand(s, o, k).bits \in Nat
             /\ c[k] \in 0..(Power2[Operand(s, o, k).bits] - 1)
  BY OperandPlace DEF LegalCodes, Encodes
<1>5. \A k \in Operands(s, o) : P(k) \subseteq OperandMask(s, o, k)
  BY <1>4, WriteThenRead DEF OperandMask
<1>6. v \in Values(s)
  <2>1. H \subseteq 0..(SlotWidth(s) - 1) /\ \A k \in Operands(s, o) : P(k) \subseteq 0..(SlotWidth(s) - 1)
    BY <1>3, <1>5, MasksApart
  <2> HIDE DEF v, P, H
  <2> QED
    BY <1>1, <2>1 DEF Values
<1>7. v \cap OpcodeMask(s) = H
  <2>1. \A k \in Operands(s, o) : P(k) \cap OpcodeMask(s) = {}
    BY <1>5, MasksApart
  <2> HIDE DEF v, P, H
  <2> QED
    BY <1>1, <1>3, <2>1
<1>8. ASSUME NEW k \in Operands(s, o) PROVE v \cap OperandMask(s, o, k) = P(k)
  <2>1. H \cap OperandMask(s, o, k) = {}
    BY <1>3, MasksApart
  <2>2. \A j \in Operands(s, o) \ {k} : P(j) \cap OperandMask(s, o, k) = {}
    BY <1>5, MasksApart
  <2>3. P(k) \subseteq OperandMask(s, o, k)
    BY <1>5
  <2> HIDE DEF v, P, H
  <2> QED
    BY <1>1, <2>1, <2>2, <2>3
<1>9. OpcodeOf(s, v) = o
  <2>1. Read(v, OpcodeShift(s), OpcodeBits(s)) = o - 1
    <3> HIDE DEF v
    <3> QED
      BY <1>2, <1>7, WriteThenRead DEF OpcodeMask
  <2>2. o \in Nat
    BY SpecTyped DEF Placed, Opcodes
  <2> HIDE DEF v
  <2> QED
    BY <2>1, <2>2 DEF OpcodeOf
<1>10. ASSUME NEW k \in Operands(s, o)
       PROVE  Read(v, Operand(s, o, k).shift, Operand(s, o, k).bits) = c[k]
  <2>1. v \cap Mask(Operand(s, o, k).shift, Operand(s, o, k).bits) = P(k)
    BY <1>8 DEF OperandMask
  <2> HIDE DEF v
  <2> QED
    BY <1>4, <2>1, WriteThenRead
<1>11. CodesOf(s, v) = c
  <2>1. c = [k \in Operands(s, o) |-> c[k]]
    BY DEF LegalCodes
  <2>2. CodesOf(s, v)
          = [k \in Operands(s, o) |-> Read(v, Operand(s, o, k).shift, Operand(s, o, k).bits)]
    <3> HIDE DEF v
    <3> QED
      BY <1>9 DEF CodesOf
  <2> HIDE DEF v
  <2> QED
    BY <1>10, <2>1, <2>2
<1>12. Unused(s, v) = {}
  <2>1. Used(s, o) = OpcodeMask(s) \cup UNION {OperandMask(s, o, k) : k \in Operands(s, o)}
    BY DEF Used, OpcodeMask, OperandMask
  <2>2. v \subseteq Used(s, o)
    <3> HIDE DEF v, P, H
    <3> QED
      BY <1>1, <1>3, <1>5, <2>1
  <2> HIDE DEF v
  <2> QED
    BY <1>9, <2>2 DEF Unused
<1> QED
  BY <1>6, <1>9, <1>11, <1>12

(* encode after decode: all bits come back but those no operand owns. *)
LEMMA DecodedEncodes ==
    ASSUME Placed, Solved, NEW s \in DOMAIN Slots, NEW v \in Values(s), ~IsReserved(s, v)
    PROVE  Encode(s, OpcodeOf(s, v), CodesOf(s, v)) = v \ Unused(s, v)
<1> DEFINE o == OpcodeOf(s, v)
           c == CodesOf(s, v)
<1>1. o \in Opcodes(s)
  BY DEF IsReserved
<1>2. OpcodeShift(s) \in Nat /\ OpcodeBits(s) \in Nat
  BY SlotWidthIs, OpcodesFit DEF Placed
<1>3. /\ Read(v, OpcodeShift(s), OpcodeBits(s)) \in 0..(Power2[OpcodeBits(s)] - 1)
      /\ At(Read(v, OpcodeShift(s), OpcodeBits(s)), OpcodeShift(s)) = v \cap OpcodeMask(s)
  BY <1>2, ReadThenWrite DEF OpcodeMask
<1>4. At(o - 1, OpcodeShift(s)) = v \cap OpcodeMask(s)
  <2>1. o - 1 = Read(v, OpcodeShift(s), OpcodeBits(s))
    BY <1>3 DEF OpcodeOf
  <2> QED
    BY <1>3, <2>1
<1> HIDE DEF o
<1>5. \A k \in Operands(s, o) : c[k] = Read(v, Operand(s, o, k).shift, Operand(s, o, k).bits)
  BY DEF CodesOf, o
<1>6. \A k \in Operands(s, o) : Operand(s, o, k).shift \in Nat /\ Operand(s, o, k).bits \in Nat
  BY <1>1, OperandPlace
<1> HIDE DEF c
<1>7. ASSUME NEW k \in Operands(s, o)
      PROVE  At(c[k], Operand(s, o, k).shift) = v \cap OperandMask(s, o, k)
  BY <1>5, <1>6, ReadThenWrite DEF OperandMask
<1>8. Encode(s, o, c)
        = (v \cap OpcodeMask(s)) \cup UNION {v \cap OperandMask(s, o, k) : k \in Operands(s, o)}
  BY <1>4, <1>7 DEF Encode
<1>9. Used(s, o) = OpcodeMask(s) \cup UNION {OperandMask(s, o, k) : k \in Operands(s, o)}
  BY DEF Used, OpcodeMask, OperandMask
<1>10. Encode(s, o, c) = v \ (v \ Used(s, o))
  BY <1>8, <1>9
<1>11. Unused(s, v) = v \ Used(s, o)
  BY DEF Unused, o
<1> QED
  BY <1>10, <1>11 DEF o, c

(* The word as a stack of slot instances. *)
InstancesOf(slots) == {p \in Instances : p[1] \in slots}
(* The instances that lie below p in the word, and the width of every instance. *)
Later(p) == {q \in Instances : Before(p, q)}
InstanceWidths == [q \in Instances |-> SlotWidth(q[1])]

(* The instances of the slots are strictly and totally ordered. *)
LEMMA InstancesOrdered ==
    /\ DOMAIN Slots \in SUBSET (Nat \ {0}) /\ IsFiniteSet(DOMAIN Slots)
    /\ \A p \in Instances : p = <<p[1], p[2]>> /\ p[1] \in DOMAIN Slots /\ p[2] \in Nat
    /\ \A p, q \in Instances : p # q => Before(p, q) \/ Before(q, p)
    /\ \A p \in Instances : ~Before(p, p)
    /\ \A p, q, r \in Instances : Before(p, q) /\ Before(q, r) => Before(p, r)
<1>1. DOMAIN Slots = 1..Len(Slots) /\ Len(Slots) \in Nat
  BY LayoutAssumption
<1>2. IsFiniteSet(1..Len(Slots))
  BY <1>1, FS_Interval
<1>3. ASSUME NEW p \in Instances
      PROVE  p = <<p[1], p[2]>> /\ p[1] \in DOMAIN Slots /\ p[2] \in Nat
  <2>1. PICK s \in DOMAIN Slots : p \in {<<s, i>> : i \in 0..(Slots[s].count - 1)}
    BY DEF Instances
  <2>2. PICK i \in 0..(Slots[s].count - 1) : p = <<s, i>>
    BY <2>1
  <2>3. i \in Nat
    BY SlotsTyped
  <2> QED
    BY <2>2, <2>3
<1>4. \A p \in Instances : p[1] \in Nat /\ p[2] \in Nat
  BY <1>1, <1>3
<1>5. ASSUME NEW p \in Instances, NEW q \in Instances, p # q PROVE Before(p, q) \/ Before(q, p)
  <2>1. p[1] # q[1] \/ p[2] # q[2]
    BY <1>3, <1>5
  <2> QED
    BY <1>4, <2>1 DEF Before
<1>6. \A p \in Instances : ~Before(p, p)
  BY <1>4 DEF Before
<1>7. \A p, q, r \in Instances : Before(p, q) /\ Before(q, r) => Before(p, r)
  BY <1>4 DEF Before
<1> QED
  BY <1>1, <1>2, <1>3, <1>5, <1>6, <1>7

(* There are finitely many instances. *)
LEMMA InstancesFinite ==
    /\ IsFiniteSet(Instances)
    /\ \A s \in DOMAIN Slots : \A m \in Nat : IsFiniteSet({<<s, i>> : i \in 0..(m - 1)})
<1>1. ASSUME NEW s \in DOMAIN Slots PROVE \A m \in Nat : IsFiniteSet({<<s, i>> : i \in 0..(m - 1)})
  <2> DEFINE Some(m) == {<<s, i>> : i \in 0..(m - 1)}
             Good == {m \in Nat : IsFiniteSet(Some(m))}
  <2>1. 0 \in Good
    <3>1. Some(0) = {}
      OBVIOUS
    <3> QED
      BY <3>1, FS_EmptySet
  <2>2. ASSUME NEW m \in Nat, m \in Good PROVE m + 1 \in Good
    <3>1. Some(m + 1) = Some(m) \cup {<<s, m>>}
      <4>1. 0..((m + 1) - 1) = (0..(m - 1)) \cup {m}
        OBVIOUS
      <4> QED
        BY <4>1
    <3>2. IsFiniteSet(Some(m) \cup {<<s, m>>})
      <4>1. IsFiniteSet(Some(m))
        BY <2>2
      <4> HIDE DEF Some
      <4> QED
        BY <4>1, FS_AddElement
    <3> HIDE DEF Some
    <3> QED
      BY <3>1, <3>2
  <2> HIDE DEF Good
  <2>3. Nat \subseteq Good
    BY <2>1, <2>2, Induction
  <2> QED
    BY <2>3 DEF Good
<1> DEFINE Of(slots) == UNION {{<<s, i>> : i \in 0..(Slots[s].count - 1)} : s \in slots}
           Good == {slots \in SUBSET DOMAIN Slots : IsFiniteSet(Of(slots))}
<1>2. {} \in Good
  <2>1. Of({}) = {}
    OBVIOUS
  <2> QED
    BY <2>1, FS_EmptySet
<1>3. ASSUME NEW slots \in SUBSET DOMAIN Slots, NEW s \in (DOMAIN Slots) \ slots, slots \in Good
      PROVE  slots \cup {s} \in Good
  <2> DEFINE Z == {<<s, i>> : i \in 0..(Slots[s].count - 1)}
  <2>1. IsFiniteSet(Z)
    <3>1. Slots[s].count \in Nat
      BY SlotsTyped
    <3> QED
      BY <1>1, <3>1
  <2>2. IsFiniteSet(Of(slots))
    BY <1>3
  <2>3. Of(slots \cup {s}) = Of(slots) \cup Z
    OBVIOUS
  <2>4. IsFiniteSet(Of(slots) \cup Z)
    <3> HIDE DEF Of, Z
    <3> QED
      BY <2>1, <2>2, FS_Union
  <2> QED
    BY <2>3, <2>4
<1>4. DOMAIN Slots \in Good
  <2> HIDE DEF Good
  <2> QED
    BY <1>2, <1>3, InstancesOrdered, SetInduction
<1>5. Instances = Of(DOMAIN Slots)
  BY DEF Instances
<1> QED
  BY <1>1, <1>4, <1>5

(* An instance's shift is the sum of the widths of the later instances. *)
LEMMA InstanceShiftIsSum ==
    ASSUME TypeOK, BinsFilled, NEW p
    PROVE  /\ IsFiniteSet(Later(p))
           /\ \A q \in Instances : InstanceWidths[q] = SlotWidth(q[1]) /\ InstanceWidths[q] \in Nat \ {0}
           /\ InstanceShift(p) = SumFunctionOnSet(InstanceWidths, Later(p))
           /\ InstanceShift(p) \in Nat
<1>1. IsFiniteSet(Later(p))
  BY InstancesFinite, FS_Subset DEF Later
<1>2. \A q \in Instances : InstanceWidths[q] = SlotWidth(q[1]) /\ InstanceWidths[q] \in Nat \ {0}
  BY InstancesOrdered, SlotWidthIs DEF InstanceWidths
<1> DEFINE w == [q \in Later(p) |-> SlotWidth(q[1])]
<1>3. InstanceShift(p) = SumFunctionOnSet(w, Later(p))
  BY DEF InstanceShift, SumFunction, Later
<1>4. \A q \in Later(p) : InstanceWidths[q] \in Nat /\ w[q] = InstanceWidths[q]
  BY <1>2 DEF Later
<1> HIDE DEF w
<1>5. SumFunctionOnSet(w, Later(p)) = SumFunctionOnSet(InstanceWidths, Later(p))
  BY <1>1, <1>4, SumOfSame
<1>6. SumFunctionOnSet(InstanceWidths, Later(p)) \in Nat
  BY <1>1, <1>4, SumType
<1> QED
  BY <1>1, <1>2, <1>3, <1>5, <1>6

(* A set of instances is at least as wide as any part of it. *)
LEMMA PartIsNarrower ==
    ASSUME TypeOK, BinsFilled, NEW U \in SUBSET Instances, NEW T \in SUBSET U
    PROVE  /\ SumFunctionOnSet(InstanceWidths, U) \in Nat
           /\ SumFunctionOnSet(InstanceWidths, T) \in Nat
           /\ SumFunctionOnSet(InstanceWidths, T) <= SumFunctionOnSet(InstanceWidths, U)
<1> DEFINE R == U \ T
<1>1. IsFiniteSet(T) /\ IsFiniteSet(U) /\ IsFiniteSet(R)
  <2>1. T \in SUBSET Instances /\ R \in SUBSET Instances
    OBVIOUS
  <2> QED
    BY <2>1, InstancesFinite, FS_Subset
<1>2. T \cup R = U /\ T \cap R = {}
  OBVIOUS
<1>3. \A q \in U : InstanceWidths[q] \in Nat
  BY InstanceShiftIsSum
<1>4. (\A q \in T \cup R : InstanceWidths[q] \in Nat) /\ (\A q \in T : InstanceWidths[q] \in Nat)
      /\ \A q \in R : InstanceWidths[q] \in Nat
  BY <1>3
<1> HIDE DEF R
<1>5. SumFunctionOnSet(InstanceWidths, T \cup R)
        = SumFunctionOnSet(InstanceWidths, T) + SumFunctionOnSet(InstanceWidths, R)
  BY <1>1, <1>2, <1>4, SumOfBoth
<1>6. SumFunctionOnSet(InstanceWidths, T) \in Nat /\ SumFunctionOnSet(InstanceWidths, R) \in Nat
  BY <1>1, <1>4, SumType
<1>7. SumFunctionOnSet(InstanceWidths, U)
        = SumFunctionOnSet(InstanceWidths, T) + SumFunctionOnSet(InstanceWidths, R)
  BY <1>2, <1>5
<1> QED
  BY <1>6, <1>7

(* An instance ends at or below the width of any set that holds it and all later ones. *)
LEMMA InstanceOnItsShift ==
    ASSUME TypeOK, BinsFilled, NEW p \in Instances, NEW U \in SUBSET Instances,
           p \in U, Later(p) \subseteq U
    PROVE  /\ InstanceShift(p) + SlotWidth(p[1]) <= SumFunctionOnSet(InstanceWidths, U)
           /\ U = Later(p) \cup {p} =>
                SumFunctionOnSet(InstanceWidths, U) = SlotWidth(p[1]) + InstanceShift(p)
<1> DEFINE T == Later(p) \cup {p}
<1>1. T \in SUBSET U /\ T \in SUBSET Instances /\ p \in T /\ T \ {p} = Later(p)
  BY InstancesOrdered DEF Later
<1>2. IsFiniteSet(T)
  BY <1>1, InstancesFinite, FS_Subset
<1>3. \A q \in T : InstanceWidths[q] \in Nat
  BY <1>1, InstanceShiftIsSum
<1>4. /\ InstanceShift(p) = SumFunctionOnSet(InstanceWidths, Later(p)) /\ InstanceShift(p) \in Nat
      /\ InstanceWidths[p] = SlotWidth(p[1]) /\ InstanceWidths[p] \in Nat
  BY InstanceShiftIsSum
<1> HIDE DEF T
<1>5. SumFunctionOnSet(InstanceWidths, T)
        = InstanceWidths[p] + SumFunctionOnSet(InstanceWidths, T \ {p})
  BY <1>1, <1>2, <1>3, SumTakeOut
<1>6. SumFunctionOnSet(InstanceWidths, T) = SlotWidth(p[1]) + InstanceShift(p)
  BY <1>1, <1>4, <1>5
<1>7. /\ SumFunctionOnSet(InstanceWidths, T) <= SumFunctionOnSet(InstanceWidths, U)
      /\ SumFunctionOnSet(InstanceWidths, U) \in Nat
  BY <1>1, PartIsNarrower
<1>8. InstanceShift(p) + SlotWidth(p[1]) <= SumFunctionOnSet(InstanceWidths, U)
  BY <1>4, <1>6, <1>7
<1>9. U = Later(p) \cup {p} => U = T
  BY DEF T
<1> QED
  BY <1>6, <1>8, <1>9

(* An earlier instance lies above a later one. *)
LEMMA InstancesDescend ==
    ASSUME TypeOK, BinsFilled, NEW p \in Instances, NEW q \in Instances, Before(p, q)
    PROVE  InstanceShift(p) >= InstanceShift(q) + SlotWidth(q[1])
<1>1. q \in Later(p) /\ Later(q) \subseteq Later(p) /\ Later(p) \in SUBSET Instances
  BY InstancesOrdered DEF Later
<1>2. InstanceShift(q) + SlotWidth(q[1]) <= SumFunctionOnSet(InstanceWidths, Later(p))
  BY <1>1, InstanceOnItsShift
<1>3. InstanceShift(p) = SumFunctionOnSet(InstanceWidths, Later(p)) /\ InstanceShift(p) \in Nat
  BY InstanceShiftIsSum
<1>4. InstanceShift(q) \in Nat /\ SlotWidth(q[1]) \in Nat
  BY InstanceShiftIsSum
<1> QED
  BY <1>2, <1>3, <1>4

(* The instances of a set of slots are as wide as WordBits counts them. *)
LEMMA WordBitsIsSum ==
    ASSUME TypeOK, BinsFilled, NEW slots \in SUBSET DOMAIN Slots
    PROVE  /\ WordBits(slots) = SumFunctionOnSet(InstanceWidths, InstancesOf(slots))
           /\ WordBits(slots) \in Nat
<1> DEFINE v == [s \in slots |-> SlotWidth(s) * Slots[s].count]
           Sum(T) == SumFunctionOnSet(InstanceWidths, T)
           Good == {T \in SUBSET slots : SumFunctionOnSet(v, T) = Sum(InstancesOf(T))}
<1>1. \A s \in slots : /\ Slots[s].count \in Nat /\ SlotWidth(s) \in Nat
                       /\ v[s] = SlotWidth(s) * Slots[s].count /\ v[s] \in Nat
  BY SlotsTyped, SlotWidthIs
<1>2. IsFiniteSet(slots)
  BY InstancesOrdered, FS_Subset
<1>3. {} \in Good
  <2>1. InstancesOf({}) = {}
    BY DEF InstancesOf
  <2>2. SumFunctionOnSet(v, {}) = 0 /\ Sum({}) = 0
    <3> HIDE DEF v
    <3> QED
      BY SumOfNone
  <2> HIDE DEF v, Sum
  <2> QED
    BY <2>1, <2>2
<1>4. ASSUME NEW s \in slots, NEW m \in Nat, m <= Slots[s].count
      PROVE  /\ {<<s, i>> : i \in 0..(m - 1)} \in SUBSET Instances
             /\ Sum({<<s, i>> : i \in 0..(m - 1)}) = SlotWidth(s) * m
  <2> DEFINE Some(n) == {<<s, i>> : i \in 0..(n - 1)}
             Fine == {n \in Nat : n <= m => Sum(Some(n)) = SlotWidth(s) * n}
  <2>1. ASSUME NEW n \in Nat, n <= m PROVE Some(n) \in SUBSET Instances
    <3>1. \A i \in 0..(n - 1) : i \in 0..(Slots[s].count - 1)
      BY <1>1, <1>4, <2>1
    <3> QED
      BY <3>1 DEF Instances
  <2>2. 0 \in Fine
    <3>1. Some(0) = {}
      OBVIOUS
    <3>2. Sum({}) = 0
      BY SumOfNone
    <3>3. SlotWidth(s) * 0 = 0
      BY <1>1
    <3> HIDE DEF Sum, Some
    <3> QED
      BY <3>1, <3>2, <3>3
  <2>3. ASSUME NEW n \in Nat, n \in Fine PROVE n + 1 \in Fine
    <3> SUFFICES ASSUME n + 1 <= m PROVE Sum(Some(n + 1)) = SlotWidth(s) * (n + 1)
      OBVIOUS
    <3> DEFINE p == <<s, n>>
    <3>1. Some(n + 1) = Some(n) \cup {p} /\ p \notin Some(n)
      <4>1. 0..((n + 1) - 1) = (0..(n - 1)) \cup {n} /\ n \notin 0..(n - 1)
        OBVIOUS
      <4> QED
        BY <4>1
    <3>2. p \in Some(n + 1) /\ Some(n + 1) \ {p} = Some(n)
      BY <3>1
    <3>3. Some(n + 1) \in SUBSET Instances /\ IsFiniteSet(Some(n + 1)) /\ n <= m
      <4>1. Some(n + 1) \in SUBSET Instances
        BY <2>1
      <4> HIDE DEF Some
      <4>2. IsFiniteSet(Some(n + 1))
        BY <4>1, InstancesFinite, FS_Subset
      <4> QED
        BY <4>1, <4>2
    <3>4. \A q \in Some(n + 1) : InstanceWidths[q] \in Nat
      <4> HIDE DEF Some
      <4> QED
        BY <3>3, InstanceShiftIsSum
    <3>5. InstanceWidths[p] = SlotWidth(s)
      <4>1. p \in Instances /\ p[1] = s
        BY <3>2, <3>3
      <4> QED
        BY <4>1, InstanceShiftIsSum
    <3> HIDE DEF Some, p
    <3>6. Sum(Some(n + 1)) = InstanceWidths[p] + Sum(Some(n))
      <4>1. Sum(Some(n + 1)) = InstanceWidths[p] + Sum(Some(n + 1) \ {p})
        BY <3>2, <3>3, <3>4, SumTakeOut
      <4> QED
        BY <3>2, <4>1
    <3>7. Sum(Some(n)) = SlotWidth(s) * n
      BY <2>3, <3>3
    <3>8. SlotWidth(s) + SlotWidth(s) * n = SlotWidth(s) * (n + 1)
      BY <1>1
    <3> HIDE DEF Sum
    <3> QED
      BY <3>5, <3>6, <3>7, <3>8
  <2> HIDE DEF Fine
  <2>4. m \in Fine
    BY <2>2, <2>3, Induction
  <2> QED
    BY <2>1, <2>4 DEF Fine
<1>5. ASSUME NEW T \in SUBSET slots, NEW s \in slots \ T, T \in Good PROVE T \cup {s} \in Good
  <2> DEFINE Z == {<<s, i>> : i \in 0..(Slots[s].count - 1)}
  <2>1. Slots[s].count \in Nat /\ Slots[s].count <= Slots[s].count
    BY <1>1
  <2>2. Z \in SUBSET Instances /\ Sum(Z) = SlotWidth(s) * Slots[s].count
    BY <1>4, <2>1
  <2>3. InstancesOf(T \cup {s}) = InstancesOf(T) \cup Z /\ InstancesOf(T) \cap Z = {}
    <3>1. \A p \in Instances : p[1] = s => p \in Z
      <4> SUFFICES ASSUME NEW p \in Instances, p[1] = s PROVE p \in Z
        OBVIOUS
      <4>1. PICK r \in DOMAIN Slots : p \in {<<r, i>> : i \in 0..(Slots[r].count - 1)}
        BY DEF Instances
      <4>2. r = s
        BY <4>1
      <4> QED
        BY <4>1, <4>2
    <3>2. \A p \in Z : p[1] = s
      OBVIOUS
    <3> HIDE DEF Z
    <3> QED
      BY <2>2, <3>1, <3>2 DEF InstancesOf
  <2>4. /\ IsFiniteSet(InstancesOf(T)) /\ IsFiniteSet(Z)
        /\ \A q \in InstancesOf(T) \cup Z : InstanceWidths[q] \in Nat
    <3>1. InstancesOf(T) \in SUBSET Instances
      BY DEF InstancesOf
    <3> HIDE DEF Z
    <3> QED
      BY <2>2, <3>1, InstancesFinite, FS_Subset, InstanceShiftIsSum
  <2>5. Sum(InstancesOf(T) \cup Z) = Sum(InstancesOf(T)) + Sum(Z)
    <3> HIDE DEF Z
    <3> QED
      BY <2>3, <2>4, SumOfBoth
  <2>6. SumFunctionOnSet(v, T \cup {s}) = v[s] + SumFunctionOnSet(v, T)
    <3>1. IsFiniteSet(T \cup {s}) /\ s \in T \cup {s} /\ (T \cup {s}) \ {s} = T
      BY <1>2, FS_Subset
    <3>2. \A r \in T \cup {s} : v[r] \in Nat
      BY <1>1
    <3> HIDE DEF v
    <3>3. SumFunctionOnSet(v, T \cup {s}) = v[s] + SumFunctionOnSet(v, (T \cup {s}) \ {s})
      BY <3>1, <3>2, SumTakeOut
    <3> QED
      BY <3>1, <3>3
  <2>7. SumFunctionOnSet(v, T) = Sum(InstancesOf(T))
    BY <1>5
  <2>8. v[s] = Sum(Z)
    <3>1. v[s] = SlotWidth(s) * Slots[s].count
      BY <1>1
    <3> QED
      BY <2>2, <3>1
  <2>9. Sum(InstancesOf(T)) \in Nat /\ Sum(Z) \in Nat
    <3> HIDE DEF Z
    <3> QED
      BY <2>4, SumType
  <2>10. SumFunctionOnSet(v, T \cup {s}) = Sum(InstancesOf(T \cup {s}))
    <3> HIDE DEF v, Z, Sum
    <3>1. Sum(InstancesOf(T \cup {s})) = Sum(InstancesOf(T)) + Sum(Z)
      BY <2>3, <2>5
    <3> QED
      BY <2>6, <2>7, <2>8, <2>9, <3>1
  <2> QED
    BY <2>10
<1>6. slots \in Good
  <2> HIDE DEF Good
  <2> QED
    BY <1>2, <1>3, <1>5, SetInduction
<1>7. WordBits(slots) = SumFunctionOnSet(v, slots)
  BY DEF WordBits, SumFunction
<1>8. SumFunctionOnSet(v, slots) \in Nat
  <2> HIDE DEF v
  <2> QED
    BY <1>1, <1>2, SumType
<1> QED
  BY <1>6, <1>7, <1>8

(* Of a set of instances with all that come later, the first lies on top of the rest. *)
LEMMA FirstOnTop ==
    ASSUME TypeOK, BinsFilled, NEW U \in SUBSET Instances, U # {}, \A q \in U : Later(q) \subseteq U
    PROVE  \E p \in U : SumFunctionOnSet(InstanceWidths, U) = SlotWidth(p[1]) + InstanceShift(p)
<1> DEFINE S == {InstanceShift(q) : q \in U}
<1>1. \A q \in Instances : InstanceShift(q) \in Nat
  BY InstanceShiftIsSum
<1>2. SumFunctionOnSet(InstanceWidths, U) \in Nat
  BY PartIsNarrower
<1>3. \A q \in U : InstanceShift(q) <= SumFunctionOnSet(InstanceWidths, U)
  <2> TAKE q \in U
  <2>1. InstanceShift(q) + SlotWidth(q[1]) <= SumFunctionOnSet(InstanceWidths, U)
    BY InstanceOnItsShift
  <2>2. q \in Instances
    OBVIOUS
  <2>3. SlotWidth(q[1]) \in Nat
    BY <2>2, InstanceShiftIsSum
  <2> QED
    BY <1>1, <1>2, <2>1, <2>2, <2>3
<1>4. S \in SUBSET Nat /\ S # {} /\ \A x \in S : x <= SumFunctionOnSet(InstanceWidths, U)
  BY <1>1, <1>3
<1>5. PICK p \in U : \A q \in U : InstanceShift(q) <= InstanceShift(p)
  <2>1. Max(S) \in S /\ \A x \in S : x <= Max(S)
    <3> HIDE DEF S
    <3> QED
      BY <1>2, <1>4, MaxOfBounded
  <2> QED
    BY <2>1
<1>6. U = Later(p) \cup {p}
  <2> SUFFICES ASSUME NEW q \in U, q # p PROVE Before(p, q)
    BY DEF Later
  <2> SUFFICES ASSUME Before(q, p) PROVE FALSE
    BY InstancesOrdered
  <2>1. InstanceShift(q) >= InstanceShift(p) + SlotWidth(p[1])
    BY InstancesDescend
  <2>2. p \in Instances /\ q \in Instances
    OBVIOUS
  <2>3. SlotWidth(p[1]) \in Nat \ {0}
    BY <2>2, InstanceShiftIsSum
  <2> QED
    BY <1>1, <1>5, <2>1, <2>2, <2>3
<1>7. SumFunctionOnSet(InstanceWidths, U) = SlotWidth(p[1]) + InstanceShift(p)
  BY <1>6, InstanceOnItsShift
<1> QED
  BY <1>7

(* The bits of an instance in the word, and the width of a set of instances. *)
InstanceMask(p) == Mask(InstanceShift(p), SlotWidth(p[1]))
Width(U) == SumFunctionOnSet(InstanceWidths, U)

(* The instances tile the word: every bit below its width is in one of them, and in one only. *)
LEMMA InstancesTile ==
    ASSUME TypeOK, BinsFilled
    PROVE  /\ Width(Instances) \in Nat
           /\ \A p \in Instances : InstanceMask(p) \subseteq 0..(Width(Instances) - 1)
           /\ \A p, q \in Instances : p # q => InstanceMask(p) \cap InstanceMask(q) = {}
           /\ \A i \in 0..(Width(Instances) - 1) : \E p \in Instances : i \in InstanceMask(p)
<1>1. \A p \in Instances : InstanceShift(p) \in Nat /\ SlotWidth(p[1]) \in Nat \ {0}
  BY InstanceShiftIsSum
<1>2. Width(Instances) \in Nat
  BY PartIsNarrower DEF Width
<1>3. ASSUME NEW p \in Instances PROVE InstanceMask(p) \subseteq 0..(Width(Instances) - 1)
  <2>1. Later(p) \subseteq Instances
    BY DEF Later
  <2>2. InstanceShift(p) + SlotWidth(p[1]) <= Width(Instances)
    BY <2>1, InstanceOnItsShift DEF Width
  <2> QED
    BY <1>1, <1>2, <2>2 DEF InstanceMask, Mask
<1>4. ASSUME NEW p \in Instances, NEW q \in Instances, Before(p, q)
      PROVE  InstanceMask(p) \cap InstanceMask(q) = {}
  <2>1. InstanceShift(p) >= InstanceShift(q) + SlotWidth(q[1])
    BY <1>4, InstancesDescend
  <2> QED
    BY <1>1, <2>1 DEF InstanceMask, Mask
<1>5. ASSUME NEW p \in Instances, NEW q \in Instances, p # q
      PROVE  InstanceMask(p) \cap InstanceMask(q) = {}
  <2>1. Before(p, q) \/ Before(q, p)
    BY <1>5, InstancesOrdered
  <2> QED
    BY <1>4, <2>1
<1>6. ASSUME NEW i \in 0..(Width(Instances) - 1)
      PROVE  \E p \in Instances : i \in InstanceMask(p)
  <2> DEFINE G == {q \in Instances : InstanceShift(q) > i}
             Good(U) == /\ U \in SUBSET Instances /\ U \cap G = {} /\ Width(U) > i
                        /\ \A q \in U : Later(q) \subseteq U
  <2>1. \E U : Good(U)
    <3>1. CASE G = {}
      <4>1. Good(Instances)
        BY <1>2, <3>1 DEF Later
      <4> QED
        BY <4>1
    <3>2. CASE G # {}
      <4> DEFINE S == {InstanceShift(q) : q \in G}
      <4>1. S \in SUBSET Nat /\ S # {}
        BY <1>1, <3>2
      <4>2. PICK g \in G : \A q \in G : InstanceShift(g) <= InstanceShift(q)
        <5>1. \E m \in S : \A n \in S : m <= n
          <6> HIDE DEF S
          <6> QED
            BY <4>1, LeastNatural
        <5> QED
          BY <5>1
      <4>3. Later(g) \in SUBSET Instances /\ \A q \in Later(g) : Later(q) \subseteq Later(g)
        BY InstancesOrdered DEF Later
      <4>4. Width(Later(g)) > i
        BY InstanceShiftIsSum DEF Width
      <4>5. ASSUME NEW q \in Later(g) PROVE q \notin G
        <5>1. InstanceShift(g) >= InstanceShift(q) + SlotWidth(q[1])
          BY InstancesDescend DEF Later
        <5>2. q \in Instances /\ g \in Instances
          BY DEF Later
        <5>3. InstanceShift(q) < InstanceShift(g)
          BY <1>1, <5>1, <5>2
        <5> QED
          BY <1>1, <4>2, <5>2, <5>3
      <4>6. Good(Later(g))
        BY <4>3, <4>4, <4>5
      <4> QED
        BY <4>6
    <3> QED
      BY <3>1, <3>2
  <2>2. PICK U : Good(U)
    BY <2>1
  <2>3. U # {}
    <3>1. Width({}) = 0
      BY SumOfNone DEF Width
    <3> QED
      BY <2>2, <3>1
  <2>4. PICK p \in U : Width(U) = SlotWidth(p[1]) + InstanceShift(p)
    BY <2>2, <2>3, FirstOnTop DEF Width
  <2>5. p \in Instances /\ ~(InstanceShift(p) > i)
    BY <2>2
  <2>6. i \in InstanceMask(p)
    <3>1. Width(U) > i
      BY <2>2
    <3> QED
      BY <1>1, <1>2, <2>4, <2>5, <3>1 DEF InstanceMask, Mask
  <2> QED
    BY <2>5, <2>6
<1> QED
  BY <1>2, <1>3, <1>5, <1>6

(* The slots the hardware has lie above the emulator's. *)
LEMMA HardwareAbove ==
    ASSUME TypeOK, BinsFilled
    PROVE  /\ WordBits(EmulatorSlots) \in Nat
           /\ WordBits(DOMAIN Slots) = Width(Instances)
           /\ WordBits(DOMAIN Slots) = WordBits(EmulatorSlots) + WordBits(DOMAIN Slots \ EmulatorSlots)
           /\ WordBits(DOMAIN Slots \ EmulatorSlots) \in Nat
           /\ \A p \in Instances : IF Slots[p[1]].hardware
                 THEN InstanceShift(p) >= WordBits(EmulatorSlots)
                 ELSE InstanceShift(p) + SlotWidth(p[1]) <= WordBits(EmulatorSlots)
<1> DEFINE E == EmulatorSlots
           H == DOMAIN Slots \ EmulatorSlots
           IE == InstancesOf(E)
           IH == InstancesOf(H)
<1>1. E \in SUBSET DOMAIN Slots /\ H \in SUBSET DOMAIN Slots /\ DOMAIN Slots \in SUBSET DOMAIN Slots
  BY DEF EmulatorSlots
<1>2. /\ WordBits(E) = Width(IE) /\ WordBits(H) = Width(IH)
      /\ WordBits(DOMAIN Slots) = Width(InstancesOf(DOMAIN Slots))
      /\ WordBits(E) \in Nat /\ WordBits(H) \in Nat
  BY <1>1, WordBitsIsSum DEF Width
<1>3. InstancesOf(DOMAIN Slots) = Instances
  BY InstancesOrdered DEF InstancesOf
<1>4. Instances = IE \cup IH /\ IE \cap IH = {}
  BY InstancesOrdered DEF InstancesOf
<1>5. IE \in SUBSET Instances /\ IH \in SUBSET Instances
  BY <1>4
<1>6. IsFiniteSet(IE) /\ IsFiniteSet(IH)
  BY <1>5, InstancesFinite, FS_Subset
<1>7. \A q \in IE \cup IH : InstanceWidths[q] \in Nat
  BY <1>4, InstanceShiftIsSum
<1>8. Width(IE \cup IH) = Width(IE) + Width(IH)
  <2> HIDE DEF IE, IH
  <2> QED
    BY <1>4, <1>6, <1>7, SumOfBoth DEF Width
<1>9. WordBits(DOMAIN Slots) = WordBits(E) + WordBits(H)
  BY <1>2, <1>3, <1>4, <1>8
<1>10. ASSUME NEW p \in Instances, NEW q \in Instances,
              ~Slots[p[1]].hardware, Slots[q[1]].hardware
       PROVE  Before(q, p)
  <2>1. p[1] \in DOMAIN Slots /\ q[1] \in DOMAIN Slots /\ p[1] # q[1]
    BY <1>10, InstancesOrdered
  <2>2. ~(p[1] < q[1])
    BY <1>10, <2>1, LayoutAssumption
  <2>3. p[1] \in Nat /\ q[1] \in Nat
    BY <2>1, InstancesOrdered
  <2> QED
    BY <2>1, <2>2, <2>3 DEF Before
<1>11. ASSUME NEW p \in Instances, ~Slots[p[1]].hardware
       PROVE  InstanceShift(p) + SlotWidth(p[1]) <= WordBits(E)
  <2>1. p \in IE
    BY <1>11, InstancesOrdered DEF InstancesOf, EmulatorSlots
  <2>2. Later(p) \subseteq IE
    <3> SUFFICES ASSUME NEW q \in Later(p) PROVE q \in IE
      OBVIOUS
    <3>1. q \in Instances /\ Before(p, q)
      BY DEF Later
    <3>2. ~Slots[q[1]].hardware
      <4> SUFFICES ASSUME Slots[q[1]].hardware PROVE FALSE
        OBVIOUS
      <4>1. Before(q, p)
        BY <1>10, <1>11, <3>1
      <4> QED
        BY <3>1, <4>1, InstancesOrdered
    <3> QED
      BY <3>1, <3>2, InstancesOrdered DEF InstancesOf, EmulatorSlots
  <2> HIDE DEF IE
  <2> QED
    BY <1>2, <1>5, <2>1, <2>2, InstanceOnItsShift DEF Width
<1>12. ASSUME NEW p \in Instances, Slots[p[1]].hardware
       PROVE  InstanceShift(p) >= WordBits(E)
  <2>1. IE \in SUBSET Later(p)
    <3> SUFFICES ASSUME NEW q \in IE PROVE q \in Later(p)
      OBVIOUS
    <3>1. q \in Instances /\ ~Slots[q[1]].hardware
      BY DEF InstancesOf, EmulatorSlots
    <3> QED
      BY <1>10, <1>12, <3>1 DEF Later
  <2>2. Later(p) \in SUBSET Instances
    BY DEF Later
  <2>3. /\ SumFunctionOnSet(InstanceWidths, IE) <= SumFunctionOnSet(InstanceWidths, Later(p))
        /\ SumFunctionOnSet(InstanceWidths, IE) \in Nat
    <3> HIDE DEF IE
    <3> QED
      BY <2>1, <2>2, PartIsNarrower
  <2>4. InstanceShift(p) = SumFunctionOnSet(InstanceWidths, Later(p)) /\ InstanceShift(p) \in Nat
    BY InstanceShiftIsSum
  <2> QED
    BY <1>2, <2>3, <2>4 DEF Width
<1> QED
  BY <1>2, <1>3, <1>9, <1>11, <1>12

-----------------------------------------------------------------------------
(* A value of one instance, put in its place in the word. *)
AloneInTheWord(q, v) ==
    LET word == Pack([p \in Instances |-> IF p = q THEN v ELSE {}])
    IN  /\ Unpack(word)[q] = v
        /\ \A p \in Instances \ {q} : Unpack(word)[p] = {}
        /\ (HardwareWord(word) = {}) = (v = {} \/ ~Slots[q[1]].hardware)

LEMMA OneInstancePacked ==
    ASSUME TypeOK, BinsFilled, NEW q \in Instances, NEW v \in SUBSET (0..(SlotWidth(q[1]) - 1))
    PROVE  AloneInTheWord(q, v)
<1> DEFINE word == Pack([p \in Instances |-> IF p = q THEN v ELSE {}])
           sh == InstanceShift(q)
           wd == SlotWidth(q[1])
<1>1. sh \in Nat /\ wd \in Nat
  BY InstanceShiftIsSum
<1>2. word = Moved(v, sh)
  <2> DEFINE values == [p \in Instances |-> IF p = q THEN v ELSE {}]
             Part(p) == {i + InstanceShift(p) : i \in values[p]}
  <2>1. word = UNION {Part(p) : p \in Instances}
    BY DEF Pack
  <2>2. values[q] = v /\ \A p \in Instances : p # q => values[p] = {}
    OBVIOUS
  <2> HIDE DEF values, word
  <2>3. Part(q) = Moved(v, sh) /\ \A p \in Instances : p # q => Part(p) = {}
    BY <2>2 DEF Moved
  <2> HIDE DEF Part
  <2> QED
    BY <2>1, <2>3
<1> HIDE DEF word
<1>3. Moved(v, sh) \subseteq InstanceMask(q)
  BY <1>1 DEF Moved, InstanceMask, Mask
<1>4. \A p \in Instances : Unpack(word)[p] = {i - InstanceShift(p) : i \in word \cap InstanceMask(p)}
  BY DEF Unpack, InstanceMask
<1>5. Unpack(word)[q] = v
  <2>1. word \cap InstanceMask(q) = Moved(v, sh)
    BY <1>2, <1>3
  <2>2. {i - sh : i \in Moved(v, sh)} = v
    <3>1. \A i \in v : i \in Nat /\ (i + sh) - sh = i
      BY <1>1
    <3> QED
      BY <3>1 DEF Moved
  <2> QED
    BY <1>4, <2>1, <2>2
<1>6. \A p \in Instances \ {q} : Unpack(word)[p] = {}
  <2> TAKE p \in Instances \ {q}
  <2>1. InstanceMask(q) \cap InstanceMask(p) = {}
    BY InstancesTile
  <2>2. word \cap InstanceMask(p) = {}
    BY <1>2, <1>3, <2>1
  <2> QED
    BY <1>4, <2>2
<1> DEFINE E == WordBits(EmulatorSlots)
<1>7. HardwareWord(word) = {} <=> \A j \in word : ~(j >= E)
  BY DEF HardwareWord
<1>8. E \in Nat /\ (Slots[q[1]].hardware => sh >= E) /\ (~Slots[q[1]].hardware => sh + wd <= E)
  BY HardwareAbove
<1>9. HardwareWord(word) = {} <=> (v = {} \/ ~Slots[q[1]].hardware)
  <2> HIDE DEF E, sh, wd
  <2>1. \A j \in word : \E i \in v : j = i + sh
    BY <1>2 DEF Moved
  <2>2. \A i \in v : i + sh \in word /\ i \in Nat /\ i < wd
    BY <1>1, <1>2 DEF Moved, wd
  <2>3. CASE Slots[q[1]].hardware
    <3>1. \A i \in v : i + sh >= E
      BY <1>1, <1>8, <2>2, <2>3
    <3> QED
      BY <1>7, <2>1, <2>2, <2>3, <3>1
  <2>4. CASE ~Slots[q[1]].hardware
    <3>1. \A i \in v : ~(i + sh >= E)
      BY <1>1, <1>8, <2>2, <2>4
    <3> QED
      BY <1>7, <2>1, <2>4, <3>1
  <2> QED
    BY <2>3, <2>4
<1>10. (HardwareWord(word) = {}) = (v = {} \/ ~Slots[q[1]].hardware)
  <2>1. Slots[q[1]].hardware \in BOOLEAN
    BY InstancesOrdered, SlotsTyped
  <2> QED
    BY <1>9, <2>1
<1> QED
  BY <1>5, <1>6, <1>10 DEF word, AloneInTheWord

(* The hardware slots together are the word's top bits. *)
LEMMA WordOnTop == TypeOK /\ BinsFilled => HardwareIsOnTop
<1> SUFFICES ASSUME TypeOK, BinsFilled PROVE HardwareIsOnTop
  OBVIOUS
<1> DEFINE all == [p \in Instances |-> 0..(SlotWidth(p[1]) - 1)]
           E == WordBits(EmulatorSlots)
           H == WordBits(DOMAIN Slots \ EmulatorSlots)
           W == WordBits(DOMAIN Slots)
<1>1. Pack(all) = 0..(W - 1)
  <2> DEFINE Part(p) == {i + InstanceShift(p) : i \in all[p]}
  <2>1. ASSUME NEW p \in Instances PROVE Part(p) = InstanceMask(p)
    <3>1. InstanceShift(p) \in Nat /\ SlotWidth(p[1]) \in Nat /\ all[p] = 0..(SlotWidth(p[1]) - 1)
      BY InstanceShiftIsSum
    <3> DEFINE sh == InstanceShift(p)
               wd == SlotWidth(p[1])
    <3>2. sh \in Nat /\ wd \in Nat /\ Part(p) = {i + sh : i \in 0..(wd - 1)}
      BY <3>1
    <3> HIDE DEF sh, wd, Part
    <3>3. \A j \in sh..(sh + wd - 1) : j - sh \in 0..(wd - 1) /\ (j - sh) + sh = j
      BY <3>2
    <3>4. \A i \in 0..(wd - 1) : i + sh \in sh..(sh + wd - 1)
      BY <3>2
    <3>5. Part(p) = sh..(sh + wd - 1)
      BY <3>2, <3>3, <3>4
    <3> QED
      BY <3>5 DEF sh, wd, InstanceMask, Mask
  <2>2. Pack(all) = UNION {Part(p) : p \in Instances}
    BY DEF Pack
  <2> HIDE DEF Part, all
  <2>3. Pack(all) = UNION {InstanceMask(p) : p \in Instances}
    BY <2>1, <2>2
  <2>4. W = Width(Instances)
    BY HardwareAbove
  <2> HIDE DEF W
  <2> QED
    BY <2>3, <2>4, InstancesTile
<1>2. HardwareWord(Pack(all)) = 0..(H - 1)
  <2>1. W \in Nat /\ E \in Nat /\ H \in Nat /\ W = E + H
    BY HardwareAbove
  <2>2. HardwareWord(Pack(all)) = {i - E : i \in {j \in 0..(W - 1) : j >= E}}
    BY <1>1 DEF HardwareWord
  <2> HIDE DEF W, E, H, all
  <2>3. \A i \in 0..(H - 1) : i + E \in {j \in 0..(W - 1) : j >= E} /\ (i + E) - E = i
    BY <2>1
  <2>4. \A j \in 0..(W - 1) : j >= E => j - E \in 0..(H - 1)
    BY <2>1
  <2> QED
    BY <2>2, <2>3, <2>4
<1>3. ASSUME NEW q \in Instances, NEW v \in {{}, {0}, {SlotWidth(q[1]) - 1}, all[q]}
      PROVE  AloneInTheWord(q, v)
  <2>1. SlotWidth(q[1]) \in Nat \ {0} /\ all[q] = 0..(SlotWidth(q[1]) - 1)
    BY InstanceShiftIsSum
  <2>2. v \in SUBSET (0..(SlotWidth(q[1]) - 1))
    <3> DEFINE wd == SlotWidth(q[1])
    <3>1. wd \in Nat \ {0} /\ v \in {{}, {0}, {wd - 1}, 0..(wd - 1)}
      BY <2>1
    <3> HIDE DEF wd, all
    <3>2. 0 \in 0..(wd - 1) /\ wd - 1 \in 0..(wd - 1)
      BY <3>1
    <3>3. v \in SUBSET (0..(wd - 1))
      BY <3>1, <3>2
    <3> QED
      BY <3>3 DEF wd
  <2> HIDE DEF all
  <2> QED
    BY <2>2, OneInstancePacked
<1> QED
  BY <1>1, <1>2, <1>3 DEF HardwareIsOnTop, AloneInTheWord

-----------------------------------------------------------------------------
(* Whatever the operand types and the instructions: in the layout the solver finds, encoding then
   decoding gives the instruction and its codes back, decoding then encoding gives the value back
   but for its stray bits, the slot instances tile the word, and the hardware's part is its top
   (SlotCodec.encode, decode, WordCodec.pack, unpack, hardware_word). *)
THEOREM WordsAreExact == Spec => []WordsDecodeExactly
<1>1. TypeOK /\ NoSharing /\ PlacedOnce /\ BinsFilled /\ EveryOperandHasItsField => WordsDecodeExactly
  <2> SUFFICES ASSUME Placed PROVE WordsDecodeExactly
    BY DEF Placed
  <2>1. DecodeInvertsEncode
    BY EncodedDecodes DEF DecodeInvertsEncode
  <2>2. ValuesDecodeExactly
    BY DecodedEncodes DEF ValuesDecodeExactly
  <2>3. TypeOK /\ HardwareIsOnTop
    BY WordOnTop DEF Placed
  <2> QED
    BY <2>1, <2>2, <2>3 DEF WordsDecodeExactly
<1> QED
  BY <1>1, LayoutTypes, FieldsAreNotShared, AlwaysPlacedOnce, AlwaysFilled, OperandsHaveFields, PTL
=============================================================================
