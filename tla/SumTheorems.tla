----------------------------- MODULE SumTheorems -----------------------------
(***************************************************************************)
(* The sum of a counter over a finite set, as MapThenSumSet computes it:   *)
(* one term at a time, in an order CHOOSE fixes.  What a proof needs is    *)
(* that the order does not matter, so that a term can be added or taken    *)
(* away.  Every induction is over the subsets of a finite set, whose least *)
(* counterexample MinimalSubset provides.                                  *)
(***************************************************************************)
EXTENDS Integers, FiniteSetTheorems, TLAPS

\* The term the fold takes first.
First(s) == CHOOSE x \in s : TRUE

\* g is the recursive function that adds up f over the subsets of S.
Sums(g, f, S) ==
    g = [s \in SUBSET S |-> IF s = {} THEN 0
                            ELSE f[First(s)] + g[s \ {First(s)}]]

Total(f, S) == (CHOOSE g : Sums(g, f, S))[S]

-----------------------------------------------------------------------------

\* A family of subsets of a finite set has a smallest member.
LEMMA MinimalSubset ==
    ASSUME NEW S, IsFiniteSet(S), NEW T \in SUBSET SUBSET S, T # {}
    PROVE  \E m \in T : \A s \in T : s \subseteq m => s = m
  <1>1. IsWellFoundedOn(StrictSubsetOrdering(S), FiniteSubsetsOf(S))
    BY FS_StrictSubsetOrderingWellFounded
  <1>2. T \subseteq FiniteSubsetsOf(S)
    BY FS_Subset DEF FiniteSubsetsOf
  <1>3. PICK m \in T : \A s \in T : ~(<<s, m>> \in StrictSubsetOrdering(S))
    BY <1>1, <1>2, WFMin
  <1>. QED
    BY <1>2, <1>3 DEF StrictSubsetOrdering, FiniteSubsetsOf

LEMMA FirstIsIn ==
    ASSUME NEW s, s # {}
    PROVE  First(s) \in s /\ (s \ {First(s)}) \subseteq s /\ s \ {First(s)} # s
  BY DEF First

\* Two such functions agree where both are defined.
LEMMA SumsAgree ==
    ASSUME NEW f, NEW g, NEW h, NEW S, NEW R, IsFiniteSet(S),
           Sums(g, f, S), Sums(h, f, R)
    PROVE  \A s \in SUBSET S : s \subseteq R => g[s] = h[s]
  <1> DEFINE bad == {s \in SUBSET S : s \subseteq R /\ g[s] # h[s]}
  <1>1. SUFFICES ASSUME bad # {} PROVE FALSE
    OBVIOUS
  <1>2. PICK m \in bad : \A s \in bad : s \subseteq m => s = m
    <2>1. bad \in SUBSET SUBSET S
      OBVIOUS
    <2>. HIDE DEF bad
    <2>. QED
      BY <1>1, <2>1, MinimalSubset
  <1>3. m # {}
    BY <1>2 DEF Sums
  <1>4. /\ m \ {First(m)} \in SUBSET S /\ m \ {First(m)} \subseteq R
        /\ m \ {First(m)} \notin bad
    BY <1>2, <1>3, FirstIsIn
  <1>5. g[m \ {First(m)}] = h[m \ {First(m)}]
    BY <1>4
  <1>6. /\ g[m] = f[First(m)] + g[m \ {First(m)}]
        /\ h[m] = f[First(m)] + h[m \ {First(m)}]
    BY <1>2, <1>3 DEF Sums
  <1>. QED
    BY <1>2, <1>5, <1>6

\* There is such a function over every finite set.
LEMMA SumsExist ==
    ASSUME NEW f, NEW S, IsFiniteSet(S)
    PROVE  \E g : Sums(g, f, S)
  <1> DEFINE bad == {s \in SUBSET S : ~\E g : Sums(g, f, s)}
  <1>1. SUFFICES ASSUME bad # {} PROVE FALSE
    OBVIOUS
  <1>2. PICK m \in bad : \A s \in bad : s \subseteq m => s = m
    <2>1. bad \in SUBSET SUBSET S
      OBVIOUS
    <2>. HIDE DEF bad
    <2>. QED
      BY <1>1, <2>1, MinimalSubset
  <1>3. \A s \in SUBSET m : s # m => IsFiniteSet(s) /\ \E g : Sums(g, f, s)
    BY <1>2, FS_Subset
  <1> DEFINE G(s) == CHOOSE g : Sums(g, f, s)
             new == [s \in SUBSET m |-> IF s = {} THEN 0
                        ELSE f[First(s)] + G(s \ {First(s)})[s \ {First(s)}]]
  <1>4. \A s \in SUBSET m : s # m => IsFiniteSet(s) /\ Sums(G(s), f, s)
    BY <1>3
  <1> HIDE DEF G
  <1>5. ASSUME NEW s \in SUBSET m, s # m
        PROVE  new[s] = G(s)[s]
    <2>1. CASE s = {}
      BY <1>4, <1>5, <2>1 DEF Sums
    <2>2. CASE s # {}
      <3> DEFINE r == s \ {First(s)}
      <3>1. r \in SUBSET m /\ r # m /\ r \subseteq s
        BY <1>5, <2>2, FirstIsIn
      <3>2. G(s)[s] = f[First(s)] + G(s)[r]
        BY <1>4, <1>5, <2>2 DEF Sums
      <3>3. new[s] = f[First(s)] + G(r)[r]
        BY <1>5, <2>2
      <3>4. /\ IsFiniteSet(r) /\ Sums(G(r), f, r) /\ Sums(G(s), f, s)
        BY <1>4, <1>5, <3>1
      <3> HIDE DEF r
      <3>5. G(r)[r] = G(s)[r]
        BY <3>1, <3>4, SumsAgree
      <3>. QED
        BY <3>2, <3>3, <3>5
    <2>. QED
      BY <2>1, <2>2
  <1>6. Sums(new, f, m)
    <2>1. \A s \in SUBSET m : s # {} =>
             new[s] = f[First(s)] + new[s \ {First(s)}]
      <3>1. SUFFICES ASSUME NEW s \in SUBSET m, s # {}
                     PROVE  new[s] = f[First(s)] + new[s \ {First(s)}]
        OBVIOUS
      <3>2. s \ {First(s)} \in SUBSET m /\ s \ {First(s)} # m
        BY <3>1, FirstIsIn
      <3>3. new[s \ {First(s)}] = G(s \ {First(s)})[s \ {First(s)}]
        BY <1>5, <3>2
      <3>4. new[s] = f[First(s)] + G(s \ {First(s)})[s \ {First(s)}]
        BY <3>1
      <3>. QED
        BY <3>3, <3>4
    <2>2. new[{}] = 0
      OBVIOUS
    <2>3. new = [s \in SUBSET m |-> new[s]]
      OBVIOUS
    <2>. HIDE DEF new
    <2>. QED
      BY <2>1, <2>2, <2>3 DEF Sums
  <1>. QED
    BY <1>2, <1>6

\* Total is the value of any of them.
LEMMA TotalOf ==
    ASSUME NEW f, NEW S, IsFiniteSet(S), NEW g, Sums(g, f, S)
    PROVE  \A s \in SUBSET S : g[s] = Total(f, s)
  <1>1. SUFFICES ASSUME NEW s \in SUBSET S PROVE g[s] = Total(f, s)
    OBVIOUS
  <1>2. IsFiniteSet(s)
    BY FS_Subset
  <1> DEFINE h == CHOOSE k : Sums(k, f, s)
  <1>3. Sums(h, f, s)
    BY <1>2, SumsExist
  <1> HIDE DEF h
  <1>4. h[s] = g[s]
    BY <1>2, <1>3, SumsAgree
  <1>. QED
    BY <1>4 DEF Total, h

LEMMA TotalEmpty ==
    ASSUME NEW f
    PROVE  Total(f, {}) = 0
  <1>1. IsFiniteSet({})
    BY FS_EmptySet
  <1>2. PICK g : Sums(g, f, {})
    BY <1>1, SumsExist
  <1>3. g[{}] = 0
    BY <1>2 DEF Sums
  <1>. QED
    BY <1>1, <1>2, <1>3, TotalOf

LEMMA TotalFirst ==
    ASSUME NEW f, NEW S, IsFiniteSet(S), S # {}
    PROVE  Total(f, S) = f[First(S)] + Total(f, S \ {First(S)})
  <1>1. PICK g : Sums(g, f, S)
    BY SumsExist
  <1>2. g[S] = f[First(S)] + g[S \ {First(S)}]
    BY <1>1 DEF Sums
  <1>3. \A s \in SUBSET S : g[s] = Total(f, s)
    BY <1>1, TotalOf
  <1>4. S \in SUBSET S /\ S \ {First(S)} \in SUBSET S
    OBVIOUS
  <1>. QED
    BY <1>2, <1>3, <1>4

-----------------------------------------------------------------------------
(* Natural numbers, taken in any order *)

LEMMA TotalType ==
    ASSUME NEW S, IsFiniteSet(S), NEW f, \A x \in S : f[x] \in Nat
    PROVE  Total(f, S) \in Nat
  <1> DEFINE bad == {s \in SUBSET S : Total(f, s) \notin Nat}
  <1>1. SUFFICES ASSUME bad # {} PROVE FALSE
    OBVIOUS
  <1>2. PICK m \in bad : \A s \in bad : s \subseteq m => s = m
    <2>1. bad \in SUBSET SUBSET S
      OBVIOUS
    <2>. HIDE DEF bad
    <2>. QED
      BY <1>1, <2>1, MinimalSubset
  <1>3. m # {} /\ IsFiniteSet(m)
    <2>1. Total(f, {}) = 0
      BY TotalEmpty
    <2>2. Total(f, m) \notin Nat /\ m \subseteq S
      BY <1>2
    <2>. HIDE DEF bad
    <2>. QED
      BY <2>1, <2>2, FS_Subset
  <1>4. /\ First(m) \in S
        /\ m \ {First(m)} \in SUBSET S /\ m \ {First(m)} \notin bad
    BY <1>2, <1>3, FirstIsIn
  <1>5. f[First(m)] \in Nat /\ Total(f, m \ {First(m)}) \in Nat
    BY <1>4
  <1>6. Total(f, m) = f[First(m)] + Total(f, m \ {First(m)})
    BY <1>3, TotalFirst
  <1>. QED
    BY <1>2, <1>5, <1>6

\* Any term can be the one taken out.
THEOREM TotalRemove ==
    ASSUME NEW S, IsFiniteSet(S), NEW f, \A x \in S : f[x] \in Nat,
           NEW y \in S
    PROVE  Total(f, S) = f[y] + Total(f, S \ {y})
  <1> DEFINE bad == {s \in SUBSET S :
                        \E x \in s : Total(f, s) # f[x] + Total(f, s \ {x})}
  <1>1. SUFFICES ASSUME bad # {} PROVE FALSE
    OBVIOUS
  <1>2. PICK m \in bad : \A s \in bad : s \subseteq m => s = m
    <2>1. bad \in SUBSET SUBSET S
      OBVIOUS
    <2>. HIDE DEF bad
    <2>. QED
      BY <1>1, <2>1, MinimalSubset
  <1>3. PICK x \in m : Total(f, m) # f[x] + Total(f, m \ {x})
    BY <1>2
  <1> DEFINE c == First(m)
             rest == m \ {x, c}
  <1>4. /\ m \in SUBSET S /\ m # {} /\ IsFiniteSet(m) /\ c \in m
    BY <1>2, <1>3, FirstIsIn, FS_Subset
  <1>5. Total(f, m) = f[c] + Total(f, m \ {c})
    BY <1>4, TotalFirst
  <1>6. x # c
    BY <1>3, <1>5
  <1>7. /\ (m \ {c}) \ {x} = rest /\ (m \ {x}) \ {c} = rest
        /\ x \in m \ {c} /\ c \in m \ {x}
        /\ m \ {c} \in SUBSET S /\ m \ {x} \in SUBSET S /\ rest \in SUBSET S
        /\ m \ {c} # m /\ m \ {x} # m
    BY <1>3, <1>4, <1>6
  <1>8. m \ {c} \notin bad /\ m \ {x} \notin bad
    BY <1>2, <1>7
  <1>9. Total(f, m \ {c}) = f[x] + Total(f, rest)
    BY <1>7, <1>8
  <1>10. Total(f, m \ {x}) = f[c] + Total(f, rest)
    BY <1>7, <1>8
  <1>11. f[x] \in Nat /\ f[c] \in Nat /\ Total(f, rest) \in Nat
    <2>1. IsFiniteSet(rest) /\ \A z \in rest : f[z] \in Nat
      BY <1>7, FS_Subset
    <2>2. Total(f, rest) \in Nat
      <3>. HIDE DEF rest
      <3>. QED
        BY <2>1, TotalType
    <2>. QED
      BY <1>3, <1>4, <2>2
  <1>. QED
    BY <1>3, <1>5, <1>9, <1>10, <1>11

\* A new term is added to the sum.
THEOREM TotalAdd ==
    ASSUME NEW S, IsFiniteSet(S), NEW y, y \notin S, NEW f,
           \A x \in S \cup {y} : f[x] \in Nat
    PROVE  Total(f, S \cup {y}) = Total(f, S) + f[y]
  <1> DEFINE T == S \cup {y}
  <1>1. /\ IsFiniteSet(T) /\ y \in T /\ T \ {y} = S
        /\ \A x \in T : f[x] \in Nat
    BY FS_AddElement
  <1>2. Total(f, S) \in Nat /\ f[y] \in Nat
    BY TotalType
  <1>3. Total(f, T) = f[y] + Total(f, T \ {y})
    <2>. HIDE DEF T
    <2>. QED
      BY <1>1, TotalRemove
  <1>4. Total(f, T) = f[y] + Total(f, S)
    BY <1>1, <1>3
  <1>. HIDE DEF T
  <1>5. Total(f, T) = Total(f, S) + f[y]
    BY <1>2, <1>4
  <1>. QED
    BY <1>5 DEF T

\* The sum depends on the terms of the set only.
THEOREM TotalSame ==
    ASSUME NEW S, IsFiniteSet(S), NEW f, NEW h, \A x \in S : f[x] = h[x]
    PROVE  Total(f, S) = Total(h, S)
  <1> DEFINE bad == {s \in SUBSET S : Total(f, s) # Total(h, s)}
  <1>1. SUFFICES ASSUME bad # {} PROVE FALSE
    OBVIOUS
  <1>2. PICK m \in bad : \A s \in bad : s \subseteq m => s = m
    <2>1. bad \in SUBSET SUBSET S
      OBVIOUS
    <2>. HIDE DEF bad
    <2>. QED
      BY <1>1, <2>1, MinimalSubset
  <1>3. m # {} /\ IsFiniteSet(m)
    BY <1>2, TotalEmpty, FS_Subset
  <1>4. /\ First(m) \in S
        /\ m \ {First(m)} \in SUBSET S /\ m \ {First(m)} \notin bad
    BY <1>2, <1>3, FirstIsIn
  <1>5. /\ Total(f, m) = f[First(m)] + Total(f, m \ {First(m)})
        /\ Total(h, m) = h[First(m)] + Total(h, m \ {First(m)})
    BY <1>3, TotalFirst
  <1>. QED
    BY <1>2, <1>4, <1>5

\* Nothing is added up to nothing.
THEOREM TotalZero ==
    ASSUME NEW S, IsFiniteSet(S), NEW f, \A x \in S : f[x] = 0
    PROVE  Total(f, S) = 0
  <1> DEFINE bad == {s \in SUBSET S : Total(f, s) # 0}
  <1>1. SUFFICES ASSUME bad # {} PROVE FALSE
    OBVIOUS
  <1>2. PICK m \in bad : \A s \in bad : s \subseteq m => s = m
    <2>1. bad \in SUBSET SUBSET S
      OBVIOUS
    <2>. HIDE DEF bad
    <2>. QED
      BY <1>1, <2>1, MinimalSubset
  <1>3. m # {} /\ IsFiniteSet(m)
    BY <1>2, TotalEmpty, FS_Subset
  <1>4. /\ First(m) \in S
        /\ m \ {First(m)} \in SUBSET S /\ m \ {First(m)} \notin bad
    BY <1>2, <1>3, FirstIsIn
  <1>5. Total(f, m) = f[First(m)] + Total(f, m \ {First(m)})
    BY <1>3, TotalFirst
  <1>6. Total(f, m \ {First(m)}) = 0 /\ f[First(m)] = 0
    BY <1>4
  <1>. QED
    BY <1>2, <1>5, <1>6

\* No term is more than the sum.
THEOREM TotalBounds ==
    ASSUME NEW S, IsFiniteSet(S), NEW f, \A x \in S : f[x] \in Nat,
           NEW y \in S
    PROVE  f[y] <= Total(f, S)
  <1>1. IsFiniteSet(S \ {y})
    BY FS_RemoveElement
  <1>2. Total(f, S) = f[y] + Total(f, S \ {y})
    BY TotalRemove
  <1>3. Total(f, S \ {y}) \in Nat
    BY <1>1, TotalType
  <1>. QED
    BY <1>2, <1>3

=============================================================================
