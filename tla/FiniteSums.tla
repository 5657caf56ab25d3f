----------------------------- MODULE FiniteSums -----------------------------
(***************************************************************************)
(* Sums over finite sets, for the theorems about counters.  A fold chooses  *)
(* its elements one by one; what it adds up does not depend on the choice.  *)
(* Each fact is proved from a smallest set that violates it, as the finite  *)
(* sets are well-founded by inclusion.                                      *)
(***************************************************************************)
EXTENDS Integers, WellFoundedInduction, FiniteSetTheorems, TLAPS

Chosen(s) == CHOOSE x \in s : TRUE
IsSum(F, g, B) ==
  F = [s \in SUBSET B |-> IF s = {} THEN 0 ELSE g[Chosen(s)] + F[s \ {Chosen(s)}]]

\* A set of finite sets has a smallest element.
LEMMA Smallest ==
  ASSUME NEW B, IsFiniteSet(B), NEW T, T \subseteq SUBSET B, T # {}
  PROVE  \E s \in T : \A u \in T : u \subseteq s => u = s
<1>1. IsWellFoundedOn(StrictSubsetOrdering(B), SUBSET B)
  BY FS_StrictSubsetOrderingWellFounded, FS_FiniteSubsetsOfFinite
<1>2. PICK s \in T : \A u \in T : ~ (<<u, s>> \in StrictSubsetOrdering(B))
  BY <1>1, WFMin
<1> SUFFICES ASSUME NEW u \in T, u \subseteq s, u # s PROVE FALSE
  BY <1>2
<1>3. <<u, s>> \in StrictSubsetOrdering(B)
  BY DEF StrictSubsetOrdering
<1> QED
  BY <1>2, <1>3

\* So has a set of numbers.
LEMMA Least ==
  ASSUME NEW T \in SUBSET Nat, T # {}
  PROVE  \E n \in T : \A m \in T : n <= m
<1> DEFINE R == OpToRel(<, Nat)
<1>1. IsWellFoundedOn(R, Nat)
  BY NatLessThanWellFounded, Zenon
<1>2. \A m, n \in Nat : m < n => <<m, n>> \in R
  BY DEF OpToRel
<1> HIDE DEF R
<1>3. PICK n \in T : \A m \in T : ~ (<<m, n>> \in R)
  BY <1>1, WFMin
<1>4. ASSUME NEW m \in T PROVE n <= m
  <2>1. m \in Nat /\ n \in Nat
    BY <1>4
  <2>2. ~(m < n)
    BY <1>2, <1>3, <2>1
  <2> QED
    BY <2>1, <2>2
<1> QED
  BY <1>4

LEMMA ChosenIsOne == \A s : s # {} => Chosen(s) \in s
  BY DEF Chosen

LEMMA SumValue ==
  ASSUME NEW F, NEW g, NEW B, IsSum(F, g, B)
  PROVE  /\ F[{}] = 0
         /\ \A s \in SUBSET B : s # {} => F[s] = g[Chosen(s)] + F[s \ {Chosen(s)}]
<1>1. \A s \in SUBSET B : F[s] = IF s = {} THEN 0 ELSE g[Chosen(s)] + F[s \ {Chosen(s)}]
  BY DEF IsSum
<1> QED
  BY <1>1

\* The sum over a set depends on its elements only.
LEMMA SumUnique ==
  ASSUME NEW A, IsFiniteSet(A), NEW B, NEW C, A \subseteq B, A \subseteq C,
         NEW g, NEW h, \A x \in A : g[x] = h[x],
         NEW F, IsSum(F, g, B), NEW H, IsSum(H, h, C)
  PROVE  F[A] = H[A]
<1> DEFINE T == {s \in SUBSET A : F[s] # H[s]}
<1> SUFFICES ASSUME T # {} PROVE FALSE
  OBVIOUS
<1>1. T \subseteq SUBSET A /\ \A s \in SUBSET A : s \in T <=> F[s] # H[s]
  OBVIOUS
<1> HIDE DEF T
<1>2. PICK s \in T : \A u \in T : u \subseteq s => u = s
  BY <1>1, Smallest
<1>3. PICK c : c = Chosen(s)
  OBVIOUS
<1>4. s \subseteq A /\ s # {}
  BY <1>1, <1>2, SumValue
<1>5. c \in s
  BY <1>3, <1>4, ChosenIsOne
<1>6. F[s \ {c}] = H[s \ {c}]
  <2>1. s \ {c} \subseteq s /\ s \ {c} # s /\ s \ {c} \in SUBSET A
    BY <1>4, <1>5
  <2> QED
    BY <1>1, <1>2, <2>1
<1>7. s \in SUBSET B /\ s \in SUBSET C
  BY <1>4
<1>8. F[s] = g[c] + F[s \ {c}]
  BY <1>3, <1>4, <1>7, SumValue
<1>9. H[s] = h[c] + H[s \ {c}]
  BY <1>3, <1>4, <1>7, SumValue
<1>10. g[c] = h[c]
  BY <1>4, <1>5
<1> QED
  BY <1>1, <1>4, <1>6, <1>8, <1>9, <1>10

LEMMA SumExists ==
  ASSUME NEW B, IsFiniteSet(B), NEW g
  PROVE  \E F : IsSum(F, g, B)
<1> DEFINE T == {s \in SUBSET B : ~ \E F : IsSum(F, g, s)}
<1> SUFFICES ASSUME T # {} PROVE FALSE
  OBVIOUS
<1>1. T \subseteq SUBSET B /\ \A s \in SUBSET B : s \in T <=> ~ \E F : IsSum(F, g, s)
  OBVIOUS
<1> HIDE DEF T
<1>2. PICK s \in T : \A u \in T : u \subseteq s => u = s
  BY <1>1, Smallest
<1>3. IsFiniteSet(s) /\ s \in SUBSET B
  BY <1>1, FS_Subset
<1> DEFINE Of(v) == CHOOSE F : IsSum(F, g, v)
           Rest(u) == u \ {Chosen(u)}
           G == [u \in SUBSET s |-> IF u = {} THEN 0 ELSE g[Chosen(u)] + Of(Rest(u))[Rest(u)]]
<1>4. ASSUME NEW v \in SUBSET s, v # s PROVE IsSum(Of(v), g, v)
  <2>1. v \in SUBSET B /\ v \notin T
    BY <1>2, <1>3, <1>4
  <2>2. \E F : IsSum(F, g, v)
    BY <1>1, <2>1
  <2> QED
    BY <2>2
<1>5. ASSUME NEW u \in SUBSET s, u # {}
      PROVE  Rest(u) \in SUBSET s /\ Rest(u) # s /\ IsFiniteSet(Rest(u)) /\ Rest(u) \subseteq u
  BY <1>3, <1>5, ChosenIsOne, FS_Subset
<1>6. \A u \in SUBSET s : G[u] = IF u = {} THEN 0 ELSE g[Chosen(u)] + Of(Rest(u))[Rest(u)]
  OBVIOUS
<1> HIDE DEF Of, G
<1>7. ASSUME NEW v \in SUBSET s, v # s PROVE Of(v)[v] = G[v]
  <2>1. IsSum(Of(v), g, v)
    BY <1>4, <1>7
  <2>2. CASE v = {}
    BY <1>6, <2>1, <2>2, SumValue
  <2>3. CASE v # {}
    <3>1. PICK w : w = Rest(v)
      OBVIOUS
    <3>2. w \in SUBSET s /\ w # s /\ IsFiniteSet(w) /\ w \subseteq v
      BY <1>5, <2>3, <3>1
    <3>3. Of(v)[v] = g[Chosen(v)] + Of(v)[w]
      BY <2>1, <2>3, <3>1, SumValue
    <3>4. IsSum(Of(w), g, w)
      BY <1>4, <3>2
    <3>5. Of(v)[w] = Of(w)[w]
      BY <2>1, <3>2, <3>4, SumUnique
    <3>6. G[v] = g[Chosen(v)] + Of(w)[w]
      BY <1>6, <2>3, <3>1
    <3> QED
      BY <3>3, <3>5, <3>6
  <2> QED
    BY <2>2, <2>3
<1>8. ASSUME NEW u \in SUBSET s
      PROVE  G[u] = IF u = {} THEN 0 ELSE g[Chosen(u)] + G[u \ {Chosen(u)}]
  <2>1. CASE u = {}
    BY <1>6, <2>1
  <2>2. CASE u # {}
    <3>1. Of(Rest(u))[Rest(u)] = G[Rest(u)]
      BY <1>5, <1>7, <2>2
    <3> QED
      BY <1>6, <2>2, <3>1
  <2> QED
    BY <2>1, <2>2
<1>9. IsSum(G, g, s)
  <2>1. G = [u \in SUBSET s |-> G[u]]
    BY DEF G
  <2>2. [u \in SUBSET s |-> G[u]]
          = [u \in SUBSET s |-> IF u = {} THEN 0 ELSE g[Chosen(u)] + G[u \ {Chosen(u)}]]
    BY <1>8
  <2> QED
    BY <2>1, <2>2 DEF IsSum
<1> QED
  BY <1>1, <1>3, <1>9

LEMMA SumType ==
  ASSUME NEW B, IsFiniteSet(B), NEW g, \A x \in B : g[x] \in Nat, NEW F, IsSum(F, g, B), NEW A \in SUBSET B
  PROVE  F[A] \in Nat
<1> DEFINE T == {s \in SUBSET B : F[s] \notin Nat}
<1> SUFFICES ASSUME T # {} PROVE FALSE
  OBVIOUS
<1>1. T \subseteq SUBSET B /\ \A s \in SUBSET B : s \in T <=> F[s] \notin Nat
  OBVIOUS
<1> HIDE DEF T
<1>2. PICK s \in T : \A u \in T : u \subseteq s => u = s
  BY <1>1, Smallest
<1>3. PICK c : c = Chosen(s)
  OBVIOUS
<1>4. s \in SUBSET B /\ s # {}
  <2>1. F[{}] = 0
    BY SumValue
  <2>2. F[{}] \in Nat
    BY <2>1
  <2>3. s \in SUBSET B /\ F[s] \notin Nat
    BY <1>1
  <2> QED
    BY <2>2, <2>3
<1>5. c \in s
  BY <1>3, <1>4, ChosenIsOne
<1>6. F[s \ {c}] \in Nat
  <2>1. s \ {c} \subseteq s /\ s \ {c} # s /\ s \ {c} \in SUBSET B
    BY <1>4, <1>5
  <2> QED
    BY <1>1, <1>2, <2>1
<1>7. F[s] = g[c] + F[s \ {c}] /\ g[c] \in Nat
  BY <1>3, <1>4, <1>5, SumValue
<1> QED
  BY <1>1, <1>4, <1>6, <1>7

\* Any element of the set can be added last.
LEMMA SumAnyOrder ==
  ASSUME NEW B, IsFiniteSet(B), NEW g, \A x \in B : g[x] \in Nat, NEW F, IsSum(F, g, B), NEW x \in B
  PROVE  F[B] = g[x] + F[B \ {x}]
<1> DEFINE T == {s \in SUBSET B : \E y \in s : F[s] # g[y] + F[s \ {y}]}
<1> SUFFICES ASSUME T # {} PROVE FALSE
  OBVIOUS
<1>1. T \subseteq SUBSET B
      /\ \A s \in SUBSET B : s \in T <=> \E y \in s : F[s] # g[y] + F[s \ {y}]
  OBVIOUS
<1> HIDE DEF T
<1>2. PICK s \in T : \A u \in T : u \subseteq s => u = s
  BY <1>1, Smallest
<1>3. s \in SUBSET B
  BY <1>1
<1>4. PICK y \in s : F[s] # g[y] + F[s \ {y}]
  BY <1>1, <1>3
<1>5. PICK c : c = Chosen(s)
  OBVIOUS
<1>6. c \in s /\ F[s] = g[c] + F[s \ {c}] /\ c # y
  <2>1. s # {} /\ c \in s
    BY <1>4, <1>5, ChosenIsOne
  <2>2. F[s] = g[c] + F[s \ {c}]
    BY <1>3, <1>5, <2>1, SumValue
  <2> QED
    BY <1>4, <2>1, <2>2
<1>7. PICK both : both = s \ {c, y}
  OBVIOUS
<1>8. (s \ {c}) \ {y} = both /\ (s \ {y}) \ {c} = both
  BY <1>7
<1>9. ASSUME NEW z \in s, NEW v \in s, z # v
      PROVE  F[s \ {z}] = g[v] + F[(s \ {z}) \ {v}]
  <2>1. s \ {z} \subseteq s /\ s \ {z} # s /\ s \ {z} \in SUBSET B /\ v \in s \ {z}
    BY <1>3, <1>9
  <2> QED
    BY <1>1, <1>2, <2>1
<1>10. F[s \ {c}] = g[y] + F[both] /\ F[s \ {y}] = g[c] + F[both]
  BY <1>6, <1>8, <1>9
<1>11. g[c] \in Nat /\ g[y] \in Nat /\ F[both] \in Nat
  <2>1. both \in SUBSET B
    BY <1>3, <1>7
  <2> QED
    BY <1>3, <1>6, <2>1, SumType
<1> QED
  BY <1>4, <1>6, <1>10, <1>11

\* One more element adds its value.
LEMMA SumStep ==
  ASSUME NEW B, IsFiniteSet(B), NEW r, r \notin B, NEW C, C = B \cup {r},
         NEW g, NEW h, \A q \in C : h[q] \in Nat, \A q \in B : h[q] = g[q],
         NEW F, IsSum(F, g, B), NEW H, IsSum(H, h, C)
  PROVE  H[C] = F[B] + h[r]
<1>1. IsFiniteSet(C) /\ r \in C /\ B \subseteq C /\ C \ {r} = B
  BY FS_AddElement
<1>2. H[C] = h[r] + H[B]
  BY <1>1, SumAnyOrder
<1>3. H[B] = F[B]
  BY <1>1, SumUnique
<1>4. h[r] \in Nat /\ F[B] \in Nat
  BY <1>1, SumType
<1> QED
  BY <1>2, <1>3, <1>4

\* The sum of g over B.
SumOf(g, B) == (CHOOSE F : IsSum(F, g, B))[B]

LEMMA SumOfIs ==
  ASSUME NEW B, IsFiniteSet(B), NEW g
  PROVE  \E F : IsSum(F, g, B) /\ SumOf(g, B) = F[B]
<1> DEFINE F == CHOOSE F : IsSum(F, g, B)
<1>1. IsSum(F, g, B)
  BY SumExists
<1>2. SumOf(g, B) = F[B]
  BY DEF SumOf
<1> HIDE DEF F
<1> QED
  BY <1>1, <1>2

LEMMA SumOfSame ==
  ASSUME NEW A, IsFiniteSet(A), NEW g, NEW h, \A x \in A : g[x] = h[x]
  PROVE  SumOf(g, A) = SumOf(h, A)
<1>1. PICK F : IsSum(F, g, A) /\ SumOf(g, A) = F[A]
  BY SumOfIs
<1>2. PICK H : IsSum(H, h, A) /\ SumOf(h, A) = H[A]
  BY SumOfIs
<1> QED
  BY <1>1, <1>2, SumUnique

LEMMA SumOfNothing == ASSUME NEW g PROVE SumOf(g, {}) = 0
<1>1. PICK F : IsSum(F, g, {}) /\ SumOf(g, {}) = F[{}]
  BY SumOfIs, FS_EmptySet
<1> QED
  BY <1>1, SumValue

LEMMA SumOfType ==
  ASSUME NEW B, IsFiniteSet(B), NEW g, \A x \in B : g[x] \in Nat
  PROVE  SumOf(g, B) \in Nat
<1>1. PICK F : IsSum(F, g, B) /\ SumOf(g, B) = F[B]
  BY SumOfIs
<1> QED
  BY <1>1, SumType

LEMMA SumOfRest ==
  ASSUME NEW B, IsFiniteSet(B), NEW g, \A x \in B : g[x] \in Nat, NEW y \in B
  PROVE  SumOf(g, B) = g[y] + SumOf(g, B \ {y})
<1>1. PICK F : IsSum(F, g, B) /\ SumOf(g, B) = F[B]
  BY SumOfIs
<1>2. PICK A : A = B \ {y}
  OBVIOUS
<1>3. IsFiniteSet(A) /\ A \subseteq B
  BY <1>2, FS_Subset
<1>4. PICK H : IsSum(H, g, A) /\ SumOf(g, A) = H[A]
  BY <1>3, SumOfIs
<1>5. F[A] = H[A]
  BY <1>1, <1>3, <1>4, SumUnique
<1>6. F[B] = g[y] + F[B \ {y}]
  BY <1>1, SumAnyOrder
<1> QED
  BY <1>1, <1>2, <1>4, <1>5, <1>6

\* Fewer elements, or smaller values, do not sum up to more.
LEMMA SumOfLess ==
  ASSUME NEW B, IsFiniteSet(B), NEW A \in SUBSET B, NEW g, NEW h,
         \A x \in A : g[x] \in Nat /\ g[x] <= h[x], \A x \in B : h[x] \in Nat
  PROVE  SumOf(g, A) <= SumOf(h, B)
<1> DEFINE T == {s \in SUBSET B : ~(SumOf(g, s \cap A) <= SumOf(h, s))}
<1>1. T \subseteq SUBSET B /\ \A s \in SUBSET B : s \in T <=> ~(SumOf(g, s \cap A) <= SumOf(h, s))
  OBVIOUS
<1> HIDE DEF T
<1>2. ASSUME T # {} PROVE FALSE
  <2>1. PICK s \in T : \A u \in T : u \subseteq s => u = s
    BY <1>1, <1>2, Smallest
  <2>2. s \in SUBSET B /\ ~(SumOf(g, s \cap A) <= SumOf(h, s))
    BY <1>1, <2>1
  <2>3. s # {}
    <3>1. SumOf(g, {}) = 0 /\ SumOf(h, {}) = 0 /\ {} \cap A = {}
      BY SumOfNothing
    <3> QED
      BY <2>2, <3>1
  <2>4. PICK c : c \in s
    BY <2>3
  <2>5. PICK v : v = s \ {c}
    OBVIOUS
  <2>6. SumOf(g, v \cap A) <= SumOf(h, v)
    <3>1. v \subseteq s /\ v # s /\ v \in SUBSET B
      BY <2>2, <2>4, <2>5
    <3> QED
      BY <1>1, <2>1, <3>1
  <2>7. /\ IsFiniteSet(s) /\ IsFiniteSet(v) /\ IsFiniteSet(s \cap A) /\ IsFiniteSet(v \cap A)
        /\ c \in B /\ v \subseteq B /\ s \subseteq B
    BY <2>2, <2>4, <2>5, FS_Subset
  <2>8. SumOf(h, s) = h[c] + SumOf(h, v)
    BY <2>4, <2>5, <2>7, SumOfRest
  <2>9. SumOf(h, v) \in Nat /\ SumOf(g, v \cap A) \in Nat /\ h[c] \in Nat
    <3>1. SumOf(h, v) \in Nat
      BY <2>7, SumOfType
    <3>2. SumOf(g, v \cap A) \in Nat
      BY <2>7, SumOfType
    <3> QED
      BY <2>7, <3>1, <3>2
  <2>10. CASE c \in A
    <3>1. (s \cap A) \ {c} = v \cap A /\ c \in s \cap A
      BY <2>4, <2>5, <2>10
    <3>2. SumOf(g, s \cap A) = g[c] + SumOf(g, (s \cap A) \ {c})
      BY <2>7, <3>1, SumOfRest
    <3>3. g[c] \in Nat /\ g[c] <= h[c]
      BY <2>10
    <3> QED
      BY <2>2, <2>6, <2>8, <2>9, <3>1, <3>2, <3>3
  <2>11. CASE c \notin A
    <3>1. s \cap A = v \cap A
      BY <2>5, <2>11
    <3>2. SumOf(g, s \cap A) = SumOf(g, v \cap A)
      BY <3>1
    <3>3. PICK m, n : m = SumOf(g, v \cap A) /\ n = SumOf(h, v)
      OBVIOUS
    <3>4. m \in Nat /\ n \in Nat /\ m <= n /\ ~(m <= h[c] + n) /\ h[c] \in Nat
      BY <2>2, <2>6, <2>8, <2>9, <3>2, <3>3
    <3> QED
      BY <3>4
  <2> QED
    BY <2>10, <2>11
<1>3. B \cap A = A /\ B \in SUBSET B
  OBVIOUS
<1> QED
  BY <1>1, <1>2, <1>3

\* One more of an element, which may be there already, is one more in the sum.
LEMMA SumOfOneMore ==
  ASSUME NEW B, IsFiniteSet(B), NEW g, \A x \in B : g[x] \in Nat, NEW y, NEW h,
         \A x \in B \ {y} : h[x] = g[x], h[y] = (IF y \in B THEN g[y] ELSE 0) + 1
  PROVE  SumOf(h, B \cup {y}) = SumOf(g, B) + 1
<1>1. PICK A, C : A = B \ {y} /\ C = B \cup {y}
  OBVIOUS
<1>2. IsFiniteSet(A) /\ IsFiniteSet(C) /\ A = C \ {y} /\ y \in C /\ \A x \in C : h[x] \in Nat
  BY <1>1, FS_Subset, FS_AddElement
<1>3. SumOf(h, C) = h[y] + SumOf(h, A)
  BY <1>2, SumOfRest
<1>4. SumOf(h, A) = SumOf(g, A) /\ SumOf(g, A) \in Nat
  <2>1. SumOf(h, A) = SumOf(g, A)
    BY <1>1, <1>2, SumOfSame
  <2>2. SumOf(g, A) \in Nat
    BY <1>1, <1>2, SumOfType
  <2> QED
    BY <2>1, <2>2
<1>5. CASE y \in B
  <2>1. SumOf(g, B) = g[y] + SumOf(g, B \ {y})
    BY <1>5, SumOfRest
  <2>2. g[y] \in Nat /\ h[y] = g[y] + 1
    BY <1>5
  <2> QED
    BY <1>1, <1>3, <1>4, <2>1, <2>2
<1>6. CASE y \notin B
  <2>1. A = B /\ h[y] = 1
    BY <1>1, <1>6
  <2> QED
    BY <1>1, <1>3, <1>4, <2>1
<1> QED
  BY <1>5, <1>6
==============================================================================
