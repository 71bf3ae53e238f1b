------------------------------ MODULE SumProofs ------------------------------
(***************************************************************************)
(* What SumFunctionOnSet computes on a finite set of integers, for every   *)
(* set and every function.  The sum is a fold, a recursive function on the *)
(* subsets of the set.  That the fold has the values its recursion says is *)
(* shown by a least counterexample in a well-founded order, first on the   *)
(* sizes of the subsets and then on the subsets themselves.                *)
(***************************************************************************)
EXTENDS Integers, FiniteSets, Functions, FiniteSetTheorems, WellFoundedInduction, TLAPS

(***************************************************************************)
(* Induction.  The natural numbers below one another are well founded, so  *)
(* a set of them that is not empty has a least element, and a set that has *)
(* 0 and the successors of its elements has all of them.                   *)
(***************************************************************************)
(* The order of the numbers as a set of pairs. *)
LEMMA LessThan == OpToRel(<, Nat) = {p \in Nat \X Nat : p[1] < p[2]}
BY DEF OpToRel

(* A set of numbers that is not empty has a least one. *)
LEMMA LeastNumber ==
  ASSUME NEW T, T \subseteq Nat, T # {}
  PROVE  \E n \in T : \A m \in T : n <= m
<1> DEFINE R == {p \in Nat \X Nat : p[1] < p[2]}
<1>1. IsWellFoundedOn(R, Nat)
  BY NatLessThanWellFounded, LessThan, Zenon
<1> HIDE DEF R
<1>2. PICK n \in T : \A m \in T : ~(<<m, n>> \in R)
  BY <1>1, WFMin
<1>3. ASSUME NEW m \in T PROVE n <= m
  <2>1. m \in Nat /\ n \in Nat
    OBVIOUS
  <2>2. m < n => <<m, n>> \in R
    BY <2>1 DEF R
  <2> QED BY <1>2, <2>1, <2>2
<1> QED BY <1>3

(* Induction, with a set in the place of a property. *)
LEMMA NatInduct ==
  ASSUME NEW Q, 0 \in Q, \A n \in Nat : n \in Q => n + 1 \in Q
  PROVE  Nat \subseteq Q
<1> SUFFICES ASSUME Nat \ Q # {} PROVE FALSE
  OBVIOUS
<1>1. PICK n \in Nat \ Q : \A m \in Nat \ Q : n <= m
  BY LeastNumber
<1>2. n # 0 /\ n - 1 \in Nat
  BY <1>1
<1>3. n - 1 \in Q
  BY <1>1, <1>2
<1> QED BY <1>1, <1>2, <1>3

-----------------------------------------------------------------------------
(* The fold takes the elements out of the set in the order CHOOSE finds     *)
(* them; a solution is a table of all the sums over subsets of S.           *)
Chosen(s) == CHOOSE x \in s : TRUE

Solves(g, f, S) ==
  g = [s \in SUBSET S |-> IF s = {} THEN 0 ELSE f[Chosen(s)] + g[s \ {Chosen(s)}]]

(* The sum, without the operators it is defined with. *)
LEMMA SumUnfold ==
  ASSUME NEW f, NEW S
  PROVE  SumFunctionOnSet(f, S) = (CHOOSE g : Solves(g, f, S))[S]
BY DEF SumFunctionOnSet, FoldFunctionOnSet, MapThenFoldSet, Solves, Chosen

(* What CHOOSE takes out was in the set. *)
LEMMA ChosenIn == \A s : s # {} => Chosen(s) \in s
BY DEF Chosen

(* A function on the sets with at most n elements. *)
SolvesTo(g, f, S, n) ==
  /\ g \in [SUBSET S -> Int]
  /\ \A s \in SUBSET S : Cardinality(s) <= n =>
       g[s] = IF s = {} THEN 0 ELSE f[Chosen(s)] + g[s \ {Chosen(s)}]

(* What taking out an element does to the size of a subset. *)
Sized(S) ==
  \A s \in SUBSET S :
    /\ Cardinality(s) \in Nat /\ Cardinality(s) <= Cardinality(S)
    /\ s # {} => /\ Chosen(s) \in s
                 /\ s \ {Chosen(s)} \in SUBSET S
                 /\ Cardinality(s \ {Chosen(s)}) = Cardinality(s) - 1
    /\ Cardinality(s) = 0 <=> s = {}

(* Every finite set is that way. *)
LEMMA Smaller ==
  ASSUME NEW S, IsFiniteSet(S)
  PROVE  Sized(S)
BY FS_Subset, FS_CardinalityType, FS_RemoveElement, FS_EmptySet, ChosenIn DEF Sized

(* There is a table of the sums over the subsets with up to n elements ... *)
LEMMA SolutionTo ==
  ASSUME NEW S, IsFiniteSet(S), NEW f, \A x \in S : f[x] \in Int
  PROVE  \A n \in Nat : \E g : SolvesTo(g, f, S, n)
<1>0. Sized(S)
  BY Smaller
<1> DEFINE Q == {n \in Nat : \E g : SolvesTo(g, f, S, n)}
<1>1. 0 \in Q
  <2> DEFINE g == [s \in SUBSET S |-> 0]
  <2>1. SolvesTo(g, f, S, 0)
    BY <1>0 DEF SolvesTo, Sized
  <2> QED BY <2>1
<1>2. ASSUME NEW n \in Nat, n \in Q PROVE n + 1 \in Q
  <2>1. PICK g : SolvesTo(g, f, S, n)
    BY <1>2
  <2> DEFINE h == [s \in SUBSET S |-> IF Cardinality(s) = n + 1
                                      THEN f[Chosen(s)] + g[s \ {Chosen(s)}] ELSE g[s]]
  <2>2. ASSUME NEW s \in SUBSET S PROVE h[s] \in Int
    <3>1. CASE Cardinality(s) = n + 1
      <4>1. s # {}
        BY <3>1, <1>0 DEF Sized
      <4> QED BY <3>1, <4>1, <2>1, <1>0 DEF SolvesTo, Sized
    <3>2. CASE Cardinality(s) # n + 1
      BY <3>2, <2>1 DEF SolvesTo
    <3> QED BY <3>1, <3>2
  <2>3. ASSUME NEW s \in SUBSET S, Cardinality(s) <= n + 1
        PROVE h[s] = IF s = {} THEN 0 ELSE f[Chosen(s)] + h[s \ {Chosen(s)}]
    <3>1. CASE s = {}
      <4>0. Cardinality(s) = 0
        BY <3>1, <1>0 DEF Sized
      <4>1. Cardinality(s) # n + 1 /\ Cardinality(s) <= n
        BY <4>0
      <4> QED BY <3>1, <4>1, <2>1 DEF SolvesTo
    <3>2. CASE s # {}
      <4>1. /\ s \ {Chosen(s)} \in SUBSET S
            /\ Cardinality(s \ {Chosen(s)}) # n + 1
        BY <2>3, <3>2, <1>0 DEF Sized
      <4>2. h[s \ {Chosen(s)}] = g[s \ {Chosen(s)}]
        BY <4>1
      <4>3. CASE Cardinality(s) = n + 1
        BY <3>2, <4>2, <4>3
      <4>4. CASE Cardinality(s) # n + 1
        <5>1. Cardinality(s) \in Nat
          BY <1>0 DEF Sized
        <5>2. Cardinality(s) <= n
          BY <2>3, <4>4, <5>1
        <5> QED BY <3>2, <4>2, <4>4, <5>2, <2>1 DEF SolvesTo
      <4> QED BY <4>3, <4>4
    <3> QED BY <3>1, <3>2
  <2>4. h \in [SUBSET S -> Int]
    BY <2>2
  <2> HIDE DEF h
  <2>5. SolvesTo(h, f, S, n + 1)
    BY <2>3, <2>4 DEF SolvesTo
  <2> QED BY <2>5
<1> HIDE DEF Q
<1>3. Nat \subseteq Q
  BY <1>1, <1>2, NatInduct
<1> QED BY <1>3 DEF Q

(* ... and so of all of them. *)
LEMMA Solution ==
  ASSUME NEW S, IsFiniteSet(S), NEW f, \A x \in S : f[x] \in Int
  PROVE  \E g \in [SUBSET S -> Int] : Solves(g, f, S)
<1>0. Sized(S)
  BY Smaller
<1>1. PICK g : SolvesTo(g, f, S, Cardinality(S))
  BY SolutionTo, <1>0 DEF Sized
<1>2. g \in [SUBSET S -> Int]
  BY <1>1 DEF SolvesTo
<1>3. \A s \in SUBSET S :
        g[s] = IF s = {} THEN 0 ELSE f[Chosen(s)] + g[s \ {Chosen(s)}]
  BY <1>1, <1>0 DEF SolvesTo, Sized
<1>4. Solves(g, f, S)
  BY <1>2, <1>3 DEF Solves
<1> QED BY <1>2, <1>4

(* Among subsets of a finite set there is one with none inside it. *)
LEMMA SmallestSet ==
  ASSUME NEW S, IsFiniteSet(S), NEW D, D \subseteq SUBSET S, D # {}
  PROVE  \E d \in D : \A e \in D : ~(e \subseteq d /\ e # d)
<1>1. \A d \in D : \A e \in D :
        (e \subseteq d /\ e # d) <=> <<e, d>> \in StrictSubsetOrdering(S)
  BY DEF StrictSubsetOrdering
<1>2. IsWellFoundedOn(StrictSubsetOrdering(S), FiniteSubsetsOf(S))
  BY FS_StrictSubsetOrderingWellFounded
<1>3. D \subseteq FiniteSubsetsOf(S)
  BY FS_Subset DEF FiniteSubsetsOf
<1>4. \E d \in D : \A e \in D : ~ (<<e, d>> \in StrictSubsetOrdering(S))
  BY <1>2, <1>3, WFMin
<1> QED BY <1>1, <1>4

(* Two tables for summands that agree have the same sums. *)
LEMMA OneSolution ==
  ASSUME NEW S, IsFiniteSet(S), NEW T \in SUBSET S,
         NEW f, NEW e, \A x \in T : f[x] = e[x],
         NEW g, Solves(g, f, S), NEW h, Solves(h, e, T)
  PROVE  \A s \in SUBSET T : g[s] = h[s]
<1> DEFINE D == {s \in SUBSET T : g[s] # h[s]}
<1> SUFFICES ASSUME D # {} PROVE FALSE
  OBVIOUS
<1>1. IsFiniteSet(T)
  BY FS_Subset
<1>2. PICK d \in D : \A c \in D : ~(c \subseteq d /\ c # d)
  <2> HIDE DEF D
  <2>1. D \subseteq SUBSET T
    BY DEF D
  <2> QED BY <1>1, <2>1, SmallestSet
<1>3. /\ g[d] = IF d = {} THEN 0 ELSE f[Chosen(d)] + g[d \ {Chosen(d)}]
      /\ h[d] = IF d = {} THEN 0 ELSE e[Chosen(d)] + h[d \ {Chosen(d)}]
  BY DEF Solves
<1>4. d # {}
  BY <1>3
<1>5. Chosen(d) \in d
  BY <1>4, ChosenIn
<1>6. d \ {Chosen(d)} \in SUBSET T /\ d \ {Chosen(d)} \notin D
  BY <1>2, <1>5
<1>7. g[d \ {Chosen(d)}] = h[d \ {Chosen(d)}]
  BY <1>6
<1> QED BY <1>3, <1>4, <1>5, <1>7

-----------------------------------------------------------------------------
(* What every lemma below asks: finitely many integers. *)
Sums(f, S) == IsFiniteSet(S) /\ \A x \in S : f[x] \in Int

(* A table of the sums over all the subsets of S. *)
IsTable(g, f, S) ==
  /\ g \in [SUBSET S -> Int]
  /\ Solves(g, f, S)
  /\ \A s \in SUBSET S : SumFunctionOnSet(f, s) = g[s]

(* There is one. *)
LEMMA SumTable ==
  ASSUME NEW S, NEW f, Sums(f, S)
  PROVE  \E g : IsTable(g, f, S)
<1>1. PICK g \in [SUBSET S -> Int] : Solves(g, f, S)
  BY Solution DEF Sums
<1>2. ASSUME NEW s \in SUBSET S PROVE SumFunctionOnSet(f, s) = g[s]
  <2>1. IsFiniteSet(s)
    BY FS_Subset DEF Sums
  <2>2. \E k : Solves(k, f, s)
    BY <2>1, Solution DEF Sums
  <2> DEFINE h == CHOOSE k : Solves(k, f, s)
  <2>3. Solves(h, f, s)
    BY <2>2
  <2>4. SumFunctionOnSet(f, s) = h[s]
    BY SumUnfold
  <2> HIDE DEF h
  <2>5. IsFiniteSet(S) /\ \A x \in s : f[x] = f[x]
    BY DEF Sums
  <2>6. \A t \in SUBSET s : g[t] = h[t]
    BY <1>1, <2>3, <2>5, OneSolution
  <2> QED BY <2>4, <2>6
<1> QED BY <1>1, <1>2 DEF IsTable

(* The sum over nothing is 0. *)
LEMMA SumEmpty == \A f : SumFunctionOnSet(f, {}) = 0
<1> TAKE f
<1>1. Sums(f, {})
  BY FS_EmptySet DEF Sums
<1>2. PICK g : IsTable(g, f, {})
  BY <1>1, SumTable
<1>3. g[{}] = 0
  BY <1>2 DEF IsTable, Solves
<1> QED BY <1>2, <1>3 DEF IsTable

(* A sum of integers is an integer. *)
LEMMA SumInt ==
  ASSUME NEW S, NEW f, Sums(f, S)
  PROVE  SumFunctionOnSet(f, S) \in Int
<1>1. PICK g : IsTable(g, f, S)
  BY SumTable
<1> QED BY <1>1 DEF IsTable

(* The sum without the element that CHOOSE finds. *)
LEMMA SumChosen ==
  ASSUME NEW S, NEW f, Sums(f, S), S # {}
  PROVE  SumFunctionOnSet(f, S) = f[Chosen(S)] + SumFunctionOnSet(f, S \ {Chosen(S)})
<1>1. PICK g : IsTable(g, f, S)
  BY SumTable
<1>2. g[S] = f[Chosen(S)] + g[S \ {Chosen(S)}]
  BY <1>1 DEF IsTable, Solves
<1> QED BY <1>1, <1>2 DEF IsTable

(* Part of the summands can be added up too. *)
LEMMA SumsSub ==
  ASSUME NEW S, NEW f, Sums(f, S), NEW T \in SUBSET S
  PROVE  Sums(f, T)
BY FS_Subset DEF Sums

(* Any summand may be taken out first: the order does not matter. *)
LEMMA SumRemove ==
  ASSUME NEW S, NEW f, Sums(f, S), NEW x \in S
  PROVE  SumFunctionOnSet(f, S) = f[x] + SumFunctionOnSet(f, S \ {x})
<1> DEFINE D == {s \in SUBSET S :
                   \E y \in s : SumFunctionOnSet(f, s) # f[y] + SumFunctionOnSet(f, s \ {y})}
<1> SUFFICES ASSUME D # {} PROVE FALSE
  OBVIOUS
<1>1. PICK d \in D : \A e \in D : ~(e \subseteq d /\ e # d)
  <2> HIDE DEF D
  <2>1. D \subseteq SUBSET S
    BY DEF D
  <2> QED BY <2>1, SmallestSet DEF Sums
<1>2. PICK y \in d : SumFunctionOnSet(f, d) # f[y] + SumFunctionOnSet(f, d \ {y})
  OBVIOUS
<1> DEFINE c == Chosen(d)
<1>3. c \in d
  BY ChosenIn
<1>4. SumFunctionOnSet(f, d) = f[c] + SumFunctionOnSet(f, d \ {c})
  BY SumChosen, SumsSub
<1> HIDE DEF c
<1>5. c # y
  BY <1>2, <1>4
<1>6. \A e \in SUBSET d : e # d =>
        \A z \in e : SumFunctionOnSet(f, e) = f[z] + SumFunctionOnSet(f, e \ {z})
  BY <1>1
<1> HIDE DEF D
<1>7. /\ SumFunctionOnSet(f, d \ {c}) = f[y] + SumFunctionOnSet(f, (d \ {c}) \ {y})
      /\ SumFunctionOnSet(f, d \ {y}) = f[c] + SumFunctionOnSet(f, (d \ {y}) \ {c})
  BY <1>3, <1>5, <1>6
<1>8. (d \ {c}) \ {y} = (d \ {y}) \ {c}
  OBVIOUS
<1>9. d \in SUBSET S /\ (d \ {y}) \ {c} \in SUBSET S
  BY DEF D
<1>10. f[c] \in Int /\ f[y] \in Int /\ SumFunctionOnSet(f, (d \ {y}) \ {c}) \in Int
  BY <1>3, <1>9, SumInt, SumsSub DEF Sums
<1> DEFINE rest == SumFunctionOnSet(f, (d \ {y}) \ {c})
<1>11. SumFunctionOnSet(f, d) = f[c] + (f[y] + rest)
  BY <1>4, <1>7, <1>8
<1>12. SumFunctionOnSet(f, d \ {y}) = f[c] + rest
  BY <1>7
<1>13. f[c] \in Int /\ f[y] \in Int /\ rest \in Int
  BY <1>10
<1> HIDE DEF rest
<1>14. SumFunctionOnSet(f, d) = f[y] + (f[c] + rest)
  BY <1>11, <1>13
<1> QED BY <1>2, <1>12, <1>14

(* One summand more. *)
LEMMA SumAdd ==
  ASSUME NEW S, NEW x, x \notin S, NEW f, Sums(f, S \cup {x})
  PROVE  SumFunctionOnSet(f, S \cup {x}) = f[x] + SumFunctionOnSet(f, S)
<1>1. SumFunctionOnSet(f, S \cup {x}) = f[x] + SumFunctionOnSet(f, (S \cup {x}) \ {x})
  BY SumRemove
<1>2. (S \cup {x}) \ {x} = S
  OBVIOUS
<1> QED BY <1>1, <1>2

(* Two summands that are the same on the set. *)
LEMMA SumSame ==
  ASSUME NEW S, NEW f, NEW e, Sums(f, S), \A x \in S : f[x] = e[x]
  PROVE  SumFunctionOnSet(f, S) = SumFunctionOnSet(e, S)
<1>1. Sums(e, S)
  BY DEF Sums
<1>2. PICK g : IsTable(g, f, S)
  BY SumTable
<1>3. PICK h : IsTable(h, e, S)
  BY <1>1, SumTable
<1>4. IsFiniteSet(S) /\ S \in SUBSET S /\ Solves(g, f, S) /\ Solves(h, e, S)
  BY <1>2, <1>3 DEF IsTable, Sums
<1>5. \A s \in SUBSET S : g[s] = h[s]
  BY <1>4, OneSolution
<1> QED BY <1>2, <1>3, <1>5 DEF IsTable

(* One summand changes. *)
LEMMA SumChange ==
  ASSUME NEW S, NEW f, NEW e, Sums(f, S), Sums(e, S), NEW x \in S,
         \A y \in S \ {x} : f[y] = e[y]
  PROVE  SumFunctionOnSet(e, S) = SumFunctionOnSet(f, S) - f[x] + e[x]
<1>1. Sums(f, S \ {x})
  BY SumsSub
<1>2. SumFunctionOnSet(f, S \ {x}) = SumFunctionOnSet(e, S \ {x})
  BY <1>1, SumSame
<1>3. /\ SumFunctionOnSet(f, S) = f[x] + SumFunctionOnSet(f, S \ {x})
      /\ SumFunctionOnSet(e, S) = e[x] + SumFunctionOnSet(e, S \ {x})
  BY SumRemove
<1>4. SumFunctionOnSet(f, S \ {x}) \in Int /\ f[x] \in Int /\ e[x] \in Int
  BY <1>1, SumInt DEF Sums
<1> QED BY <1>2, <1>3, <1>4

(* Induction over a finite set, as a least counterexample: a set Q of      *)
(* subsets of S that has the empty set and, with any set, that set with    *)
(* one more element, has S.                                                *)
LEMMA SetInduct ==
  ASSUME NEW S, IsFiniteSet(S), NEW Q, {} \in Q,
         \A s \in SUBSET S : \A x \in S \ s : s \in Q => s \cup {x} \in Q
  PROVE  S \in Q
<1> SUFFICES ASSUME S \notin Q PROVE FALSE
  OBVIOUS
<1> DEFINE D == (SUBSET S) \ Q
<1>1. PICK d \in D : \A e \in D : ~(e \subseteq d /\ e # d)
  <2>1. S \in D
    OBVIOUS
  <2> HIDE DEF D
  <2>2. D \subseteq SUBSET S
    BY DEF D
  <2> QED BY <2>1, <2>2, SmallestSet
<1>2. PICK x \in d : TRUE
  OBVIOUS
<1>3. d \ {x} \in Q
  BY <1>1
<1>4. (d \ {x}) \cup {x} \in Q
  BY <1>3
<1>5. (d \ {x}) \cup {x} = d
  OBVIOUS
<1> QED BY <1>4, <1>5

(* Larger summands have the larger sum. *)
LEMMA SumBelow ==
  ASSUME NEW S, NEW f, NEW e, Sums(f, S), Sums(e, S), \A x \in S : f[x] <= e[x]
  PROVE  SumFunctionOnSet(f, S) <= SumFunctionOnSet(e, S)
<1> DEFINE Q == {s \in SUBSET S : SumFunctionOnSet(f, s) <= SumFunctionOnSet(e, s)}
<1>1. {} \in Q
  BY SumEmpty
<1>2. ASSUME NEW s \in SUBSET S, NEW x \in S \ s, s \in Q PROVE s \cup {x} \in Q
  <2>1. Sums(f, s) /\ Sums(e, s) /\ Sums(f, s \cup {x}) /\ Sums(e, s \cup {x})
    BY SumsSub
  <2>2. SumFunctionOnSet(f, s \cup {x}) = f[x] + SumFunctionOnSet(f, s)
    BY <2>1, SumAdd
  <2>3. SumFunctionOnSet(e, s \cup {x}) = e[x] + SumFunctionOnSet(e, s)
    BY <2>1, SumAdd
  <2>4. /\ SumFunctionOnSet(f, s) \in Int /\ SumFunctionOnSet(e, s) \in Int
        /\ f[x] \in Int /\ e[x] \in Int
    BY <2>1, SumInt DEF Sums
  <2>5. SumFunctionOnSet(f, s) <= SumFunctionOnSet(e, s) /\ f[x] <= e[x]
    BY <1>2
  <2>6. f[x] + SumFunctionOnSet(f, s) <= e[x] + SumFunctionOnSet(e, s)
    BY <2>4, <2>5
  <2> QED BY <2>2, <2>3, <2>6
<1> HIDE DEF Q
<1>3. S \in Q
  BY <1>1, <1>2, SetInduct DEF Sums
<1> QED BY <1>3 DEF Q

(* A sum of natural numbers is one. *)
LEMMA SumNat ==
  ASSUME NEW S, NEW f, IsFiniteSet(S), \A x \in S : f[x] \in Nat
  PROVE  SumFunctionOnSet(f, S) \in Nat
<1> DEFINE Q == {s \in SUBSET S : SumFunctionOnSet(f, s) \in Nat}
<1>0. Sums(f, S)
  BY DEF Sums
<1>1. {} \in Q
  BY SumEmpty
<1>2. ASSUME NEW s \in SUBSET S, NEW x \in S \ s, s \in Q PROVE s \cup {x} \in Q
  <2>1. Sums(f, s \cup {x})
    BY <1>0, SumsSub
  <2>2. SumFunctionOnSet(f, s \cup {x}) = f[x] + SumFunctionOnSet(f, s)
    BY <2>1, SumAdd
  <2>3. f[x] \in Nat /\ SumFunctionOnSet(f, s) \in Nat
    BY <1>2
  <2> QED BY <2>2, <2>3
<1> HIDE DEF Q
<1>3. S \in Q
  BY <1>1, <1>2, SetInduct
<1> QED BY <1>3 DEF Q

(* Two sums over one set, added up summand by summand. *)
LEMMA SumPlus ==
  ASSUME NEW S, NEW f, NEW e, NEW h, Sums(f, S), Sums(e, S),
         \A x \in S : h[x] = f[x] + e[x]
  PROVE  SumFunctionOnSet(h, S) = SumFunctionOnSet(f, S) + SumFunctionOnSet(e, S)
<1> DEFINE Q == {s \in SUBSET S : SumFunctionOnSet(h, s)
                                   = SumFunctionOnSet(f, s) + SumFunctionOnSet(e, s)}
<1>0. Sums(h, S)
  BY DEF Sums
<1>1. {} \in Q
  BY SumEmpty
<1>2. ASSUME NEW s \in SUBSET S, NEW x \in S \ s, s \in Q PROVE s \cup {x} \in Q
  <2>1. /\ Sums(f, s) /\ Sums(e, s) /\ Sums(h, s \cup {x})
        /\ Sums(f, s \cup {x}) /\ Sums(e, s \cup {x})
    BY <1>0, SumsSub
  <2>2. SumFunctionOnSet(f, s \cup {x}) = f[x] + SumFunctionOnSet(f, s)
    BY <2>1, SumAdd
  <2>3. SumFunctionOnSet(e, s \cup {x}) = e[x] + SumFunctionOnSet(e, s)
    BY <2>1, SumAdd
  <2>4. SumFunctionOnSet(h, s \cup {x}) = h[x] + SumFunctionOnSet(h, s)
    BY <2>1, SumAdd
  <2>5. /\ SumFunctionOnSet(f, s) \in Int /\ SumFunctionOnSet(e, s) \in Int
        /\ f[x] \in Int /\ e[x] \in Int
    BY <2>1, SumInt DEF Sums
  <2>6. /\ h[x] = f[x] + e[x]
        /\ SumFunctionOnSet(h, s) = SumFunctionOnSet(f, s) + SumFunctionOnSet(e, s)
    BY <1>2
  <2>7. h[x] + SumFunctionOnSet(h, s)
          = (f[x] + SumFunctionOnSet(f, s)) + (e[x] + SumFunctionOnSet(e, s))
    BY <2>5, <2>6
  <2> QED BY <2>2, <2>3, <2>4, <2>7
<1> HIDE DEF Q
<1>3. S \in Q
  BY <1>1, <1>2, SetInduct DEF Sums
<1> QED BY <1>3 DEF Q

(* One more element at the end of a table 1..n. *)
LEMMA SumAppend ==
  ASSUME NEW n \in Nat, NEW f, NEW e, e[n + 1] \in Int,
         \A i \in 1..n : f[i] \in Int /\ e[i] = f[i]
  PROVE  SumFunctionOnSet(e, 1..(n + 1)) = SumFunctionOnSet(f, 1..n) + e[n + 1]
<1>1. 1..(n + 1) = (1..n) \cup {n + 1} /\ n + 1 \notin 1..n
  OBVIOUS
<1>2. IsFiniteSet(1..n) /\ IsFiniteSet(1..(n + 1))
  BY FS_Interval
<1>3. Sums(f, 1..n) /\ Sums(e, 1..(n + 1))
  BY <1>1, <1>2 DEF Sums
<1>4. SumFunctionOnSet(e, (1..n) \cup {n + 1}) = e[n + 1] + SumFunctionOnSet(e, 1..n)
  BY <1>1, <1>3, SumAdd
<1>5. SumFunctionOnSet(f, 1..n) = SumFunctionOnSet(e, 1..n)
  BY <1>3, SumSame
<1>6. SumFunctionOnSet(f, 1..n) \in Int
  BY <1>3, SumInt
<1>7. SumFunctionOnSet(e, 1..(n + 1)) = e[n + 1] + SumFunctionOnSet(f, 1..n)
  BY <1>1, <1>4, <1>5
<1> DEFINE last == e[n + 1]
<1>8. SumFunctionOnSet(e, 1..(n + 1)) = last + SumFunctionOnSet(f, 1..n) /\ last \in Int
  BY <1>7
<1> HIDE DEF last
<1>9. SumFunctionOnSet(e, 1..(n + 1)) = SumFunctionOnSet(f, 1..n) + last
  BY <1>6, <1>8
<1> QED BY <1>9 DEF last

(* Multiplying the summands. *)
LEMMA SumTimes ==
  ASSUME NEW S, NEW f, NEW h, NEW q \in Int, Sums(f, S), \A x \in S : h[x] = f[x] * q
  PROVE  SumFunctionOnSet(h, S) = SumFunctionOnSet(f, S) * q
<1> DEFINE Q == {s \in SUBSET S : SumFunctionOnSet(h, s) = SumFunctionOnSet(f, s) * q}
<1>0. Sums(h, S)
  <2>1. \A x \in S : f[x] * q \in Int
    BY DEF Sums
  <2> QED BY <2>1 DEF Sums
<1>1. {} \in Q
  BY SumEmpty
<1>2. ASSUME NEW s \in SUBSET S, NEW x \in S \ s, s \in Q PROVE s \cup {x} \in Q
  <2>1. Sums(f, s) /\ Sums(f, s \cup {x}) /\ Sums(h, s \cup {x})
    BY <1>0, SumsSub
  <2>2. SumFunctionOnSet(f, s \cup {x}) = f[x] + SumFunctionOnSet(f, s)
    BY <2>1, SumAdd
  <2>3. SumFunctionOnSet(h, s \cup {x}) = h[x] + SumFunctionOnSet(h, s)
    BY <2>1, SumAdd
  <2> DEFINE a == f[x]
             b == SumFunctionOnSet(f, s)
  <2>4. a \in Int /\ b \in Int
    BY <2>1, SumInt DEF Sums
  <2>5. h[x] = a * q /\ SumFunctionOnSet(h, s) = b * q
    BY <1>2
  <2>6. SumFunctionOnSet(f, s \cup {x}) = a + b
    BY <2>2
  <2> HIDE DEF a, b
  <2>7. (a + b) * q = a * q + b * q
    BY <2>4
  <2> QED BY <2>3, <2>5, <2>6, <2>7
<1> HIDE DEF Q
<1>3. S \in Q
  BY <1>1, <1>2, SetInduct DEF Sums
<1> QED BY <1>3 DEF Q

(* Summands that are 0 may be left out. *)
LEMMA SumWithin ==
  ASSUME NEW S, NEW T \in SUBSET S, NEW f, Sums(f, S), \A x \in S \ T : f[x] = 0
  PROVE  SumFunctionOnSet(f, S) = SumFunctionOnSet(f, T)
<1> DEFINE Q == {s \in SUBSET S : SumFunctionOnSet(f, s) = SumFunctionOnSet(f, s \cap T)}
<1>1. {} \in Q
  <2>1. {} \cap T = {}
    OBVIOUS
  <2> QED BY <2>1
<1>2. ASSUME NEW s \in SUBSET S, NEW x \in S \ s, s \in Q PROVE s \cup {x} \in Q
  <2>1. Sums(f, s \cup {x})
    BY SumsSub
  <2>2. SumFunctionOnSet(f, s \cup {x}) = f[x] + SumFunctionOnSet(f, s)
    BY <2>1, SumAdd
  <2>3. SumFunctionOnSet(f, s) = SumFunctionOnSet(f, s \cap T)
    BY <1>2
  <2>4. CASE x \in T
    <3>1. (s \cup {x}) \cap T = (s \cap T) \cup {x} /\ x \notin s \cap T
      BY <1>2, <2>4
    <3>2. Sums(f, (s \cap T) \cup {x})
      BY <2>4, SumsSub
    <3>3. SumFunctionOnSet(f, (s \cap T) \cup {x}) = f[x] + SumFunctionOnSet(f, s \cap T)
      BY <3>1, <3>2, SumAdd
    <3> QED BY <2>2, <2>3, <3>1, <3>3
  <2>5. CASE x \notin T
    <3>1. (s \cup {x}) \cap T = s \cap T /\ f[x] = 0
      BY <1>2, <2>5
    <3>2. SumFunctionOnSet(f, s) \in Int
      BY SumsSub, SumInt
    <3>3. SumFunctionOnSet(f, s \cup {x}) = SumFunctionOnSet(f, s)
      BY <2>2, <3>1, <3>2
    <3> QED BY <2>3, <3>1, <3>3
  <2> QED BY <2>4, <2>5
<1> HIDE DEF Q
<1>3. S \in Q
  BY <1>1, <1>2, SetInduct DEF Sums
<1>4. S \cap T = T
  OBVIOUS
<1> QED BY <1>3, <1>4 DEF Q

(* Numbers of a part of a set add up to no more than those of the set. *)
LEMMA SumSubset ==
  ASSUME NEW S, NEW T \in SUBSET S, NEW f, IsFiniteSet(S), \A x \in S : f[x] \in Nat
  PROVE  SumFunctionOnSet(f, T) <= SumFunctionOnSet(f, S)
<1> DEFINE g == [x \in S |-> IF x \in T THEN f[x] ELSE 0]
<1>1. /\ \A x \in S : g[x] \in Nat /\ g[x] <= f[x]
      /\ \A x \in S \ T : g[x] = 0
      /\ \A x \in T : f[x] = g[x]
  OBVIOUS
<1> HIDE DEF g
<1>2. Sums(f, S) /\ Sums(g, S) /\ Sums(f, T)
  <2>1. Sums(f, S) /\ Sums(g, S)
    BY <1>1 DEF Sums
  <2> QED BY <2>1, SumsSub
<1>3. SumFunctionOnSet(f, T) = SumFunctionOnSet(g, T)
  BY <1>1, <1>2, SumSame
<1>4. SumFunctionOnSet(g, S) = SumFunctionOnSet(g, T)
  BY <1>1, <1>2, SumWithin
<1>5. SumFunctionOnSet(g, S) <= SumFunctionOnSet(f, S)
  BY <1>1, <1>2, SumBelow
<1> QED BY <1>3, <1>4, <1>5

(* One summand is at most the whole, if none is negative. *)
LEMMA SumAtLeast ==
  ASSUME NEW S, NEW f, IsFiniteSet(S), \A y \in S : f[y] \in Nat, NEW x \in S
  PROVE  f[x] <= SumFunctionOnSet(f, S)
<1>1. Sums(f, S)
  BY DEF Sums
<1>2. SumFunctionOnSet(f, S) = f[x] + SumFunctionOnSet(f, S \ {x})
  BY <1>1, SumRemove
<1>3. SumFunctionOnSet(f, S \ {x}) \in Nat
  BY SumNat, FS_Subset
<1>4. f[x] \in Nat
  OBVIOUS
<1> QED BY <1>2, <1>3, <1>4

(* A share of P is a multiple of the quotient; D times it is no more. *)
LEMMA Quotient ==
  ASSUME NEW P \in Nat, NEW D \in Nat, D # 0
  PROVE  P \div D \in Nat /\ D * (P \div D) <= P
OBVIOUS

LEMMA TimesBelow ==
  ASSUME NEW a \in Nat, NEW b \in Nat, NEW q \in Nat, a <= b
  PROVE  a * q <= b * q
OBVIOUS

(* Each of T gets its shares at the price that P is worth for all D: that   *)
(* adds up to no more than P.                                              *)
LEMMA SharedOut ==
  ASSUME NEW S, IsFiniteSet(S), NEW T \in SUBSET S, NEW s, NEW g, NEW D \in Nat, NEW P \in Nat,
         \A h \in T : s[h] \in Nat, SumFunctionOnSet(s, T) <= D,
         \A h \in S : g[h] \in Nat,
         \A h \in S \ T : g[h] = 0,
         \A h \in T : g[h] <= IF D = 0 THEN 0 ELSE s[h] * (P \div D)
  PROVE  SumFunctionOnSet(g, S) <= P
<1>1. Sums(g, S) /\ Sums(g, T) /\ Sums(s, T) /\ IsFiniteSet(T)
  BY FS_Subset DEF Sums
<1>2. SumFunctionOnSet(g, S) = SumFunctionOnSet(g, T)
  BY <1>1, SumWithin
<1>3. CASE D = 0
  <2> DEFINE z == [h \in T |-> 0]
  <2>1. Sums(z, T) /\ \A h \in T : g[h] = 0
    BY <1>1, <1>3 DEF Sums
  <2>2. SumFunctionOnSet(g, T) = SumFunctionOnSet(g, {})
    BY <1>1, <2>1, SumWithin
  <2> QED BY <1>2, <2>2, SumEmpty
<1>4. CASE D # 0
  <2> DEFINE q == P \div D
             e == [h \in T |-> s[h] * q]
             t == SumFunctionOnSet(s, T)
  <2>1. q \in Nat /\ D * q <= P
    BY <1>4, Quotient
  <2>2. t \in Nat /\ t <= D
    BY <1>1, SumNat
  <2>3. \A h \in T : e[h] = s[h] * q /\ g[h] <= e[h]
    BY <1>4
  <2> HIDE DEF q, e
  <2>4. Sums(e, T)
    <3>1. \A h \in T : s[h] * q \in Int
      BY <2>1
    <3> QED BY <1>1, <2>3, <3>1 DEF Sums
  <2>5. SumFunctionOnSet(e, T) = t * q
    BY <1>1, <2>1, <2>3, SumTimes
  <2>6. SumFunctionOnSet(g, T) <= SumFunctionOnSet(e, T)
    BY <1>1, <2>3, <2>4, SumBelow
  <2> HIDE DEF t
  <2>7. t * q <= D * q
    BY <2>1, <2>2, TimesBelow
  <2>8. t * q \in Int /\ D * q \in Int /\ SumFunctionOnSet(g, T) \in Int
    BY <1>1, <2>1, <2>2, SumInt
  <2> QED BY <1>2, <2>1, <2>5, <2>6, <2>7, <2>8
<1> QED BY <1>3, <1>4

(* A set of numbers up to n, and the same with n + 1. *)
LEMMA SumMore ==
  ASSUME NEW n \in Nat, NEW S \in SUBSET (1..n), NEW f, NEW e, e[n + 1] \in Int,
         \A i \in S : f[i] \in Int /\ e[i] = f[i]
  PROVE  /\ SumFunctionOnSet(e, S) = SumFunctionOnSet(f, S)
         /\ SumFunctionOnSet(e, S \cup {n + 1}) = SumFunctionOnSet(f, S) + e[n + 1]
         /\ SumFunctionOnSet(f, S) \in Int
<1>0. IsFiniteSet(1..n)
  BY FS_Interval
<1>1. IsFiniteSet(S)
  BY <1>0, FS_Subset
<1>2. Sums(f, S) /\ Sums(e, S)
  BY <1>1 DEF Sums
<1>3. SumFunctionOnSet(e, S) = SumFunctionOnSet(f, S) /\ SumFunctionOnSet(f, S) \in Int
  BY <1>2, SumSame, SumInt
<1>4. Sums(e, S \cup {n + 1})
  <2>1. IsFiniteSet(S \cup {n + 1})
    BY <1>1, FS_AddElement
  <2> QED BY <1>2, <2>1 DEF Sums
<1>5. n + 1 \notin S
  BY SMT
<1>6. SumFunctionOnSet(e, S \cup {n + 1}) = e[n + 1] + SumFunctionOnSet(e, S)
  BY <1>4, <1>5, SumAdd
<1> QED BY <1>3, <1>6

(* Each is given its shares of P, rounded down: that adds up to no more    *)
(* than P.                                                                 *)
LEMMA DividedOut ==
  ASSUME NEW S, IsFiniteSet(S), NEW s, NEW g, NEW D \in Nat, D # 0, NEW P \in Nat,
         \A h \in S : s[h] \in Nat /\ g[h] \in Nat /\ D * g[h] <= s[h] * P,
         SumFunctionOnSet(s, S) = D
  PROVE  SumFunctionOnSet(g, S) <= P
<1> DEFINE x == [h \in S |-> g[h] * D]
           y == [h \in S |-> s[h] * P]
           G == SumFunctionOnSet(g, S)
<1>1. Sums(g, S) /\ Sums(s, S) /\ G \in Nat
  BY SumNat DEF Sums
<1>2. \A h \in S : x[h] = g[h] * D /\ y[h] = s[h] * P
  OBVIOUS
<1>3. \A h \in S : g[h] * D \in Int /\ s[h] * P \in Int /\ g[h] * D <= s[h] * P
  <2>1. \A a \in Nat : a * D = D * a /\ a * D \in Int /\ a * P \in Int
    OBVIOUS
  <2> QED BY <2>1
<1> HIDE DEF x, y
<1>4. Sums(x, S) /\ Sums(y, S) /\ \A h \in S : x[h] <= y[h]
  BY <1>2, <1>3 DEF Sums
<1>5. SumFunctionOnSet(x, S) = G * D
  BY <1>1, <1>2, SumTimes
<1>6. SumFunctionOnSet(y, S) = SumFunctionOnSet(s, S) * P
  <2>1. P \in Int /\ \A h \in S : y[h] = s[h] * P
    BY <1>2
  <2> QED BY <1>1, <2>1, SumTimes
<1>7. SumFunctionOnSet(x, S) <= SumFunctionOnSet(y, S)
  BY <1>4, SumBelow
<1> HIDE DEF G
<1>8. G * D <= D * P
  BY <1>5, <1>6, <1>7
<1>9. G <= P
  BY <1>1, <1>8
<1> QED BY <1>9 DEF G

(* The sum over two sets that have nothing in common. *)
LEMMA SumUnion ==
  ASSUME NEW S, NEW f, Sums(f, S), NEW A \in SUBSET S, NEW B \in SUBSET S, A \cap B = {}
  PROVE  SumFunctionOnSet(f, A \cup B) = SumFunctionOnSet(f, A) + SumFunctionOnSet(f, B)
<1> DEFINE Q == {s \in SUBSET B : SumFunctionOnSet(f, A \cup s)
                                    = SumFunctionOnSet(f, A) + SumFunctionOnSet(f, s)}
<1>0. \A s \in SUBSET S : Sums(f, s) /\ SumFunctionOnSet(f, s) \in Int
  BY SumsSub, SumInt
<1>1. {} \in Q
  <2>1. A \cup {} = A
    OBVIOUS
  <2>2. SumFunctionOnSet(f, {}) = 0 /\ SumFunctionOnSet(f, A) \in Int
    BY <1>0, SumEmpty
  <2> QED BY <2>1, <2>2
<1>2. ASSUME NEW s \in SUBSET B, NEW x \in B \ s, s \in Q PROVE s \cup {x} \in Q
  <2>1. PICK C, D : C = A \cup s /\ D = s \cup {x}
    OBVIOUS
  <2>2. /\ A \cup D = C \cup {x} /\ x \notin C /\ C \in SUBSET S /\ C \cup {x} \in SUBSET S
        /\ s \in SUBSET S /\ D \in SUBSET S /\ D = s \cup {x} /\ x \notin s
    BY <1>2, <2>1
  <2>3. Sums(f, C \cup {x}) /\ Sums(f, s \cup {x})
    BY <1>0, <2>2
  <2>4. SumFunctionOnSet(f, C \cup {x}) = f[x] + SumFunctionOnSet(f, C)
    BY <2>2, <2>3, SumAdd
  <2>5. SumFunctionOnSet(f, s \cup {x}) = f[x] + SumFunctionOnSet(f, s)
    BY <2>2, <2>3, SumAdd
  <2>6. SumFunctionOnSet(f, C) = SumFunctionOnSet(f, A) + SumFunctionOnSet(f, s)
    BY <1>2, <2>1
  <2>7. /\ f[x] \in Int /\ SumFunctionOnSet(f, A) \in Int /\ SumFunctionOnSet(f, s) \in Int
    BY <1>0, <2>2 DEF Sums
  <2>8. PICK E : E = A \cup D
    OBVIOUS
  <2>9. E = C \cup {x}
    BY <2>2, <2>8
  <2>10. SumFunctionOnSet(f, E) = f[x] + SumFunctionOnSet(f, C)
    BY <2>4, <2>9
  <2>11. SumFunctionOnSet(f, D) = f[x] + SumFunctionOnSet(f, s)
    BY <2>2, <2>5
  <2>12. SumFunctionOnSet(f, E) = SumFunctionOnSet(f, A) + SumFunctionOnSet(f, D)
    BY <2>6, <2>7, <2>10, <2>11
  <2> QED BY <2>1, <2>2, <2>8, <2>12
<1>3. IsFiniteSet(B)
  BY FS_Subset DEF Sums
<1> HIDE DEF Q
<1>4. B \in Q
  BY <1>1, <1>2, <1>3, SetInduct
<1> QED BY <1>4 DEF Q

(* One summand more, within a set. *)
LEMMA SumOneMore ==
  ASSUME NEW T, NEW g, Sums(g, T)
  PROVE  \A U \in SUBSET T : \A t \in T \ U :
           SumFunctionOnSet(g, U \cup {t}) = g[t] + SumFunctionOnSet(g, U)
<1> SUFFICES ASSUME NEW U \in SUBSET T, NEW t \in T \ U
             PROVE  SumFunctionOnSet(g, U \cup {t}) = g[t] + SumFunctionOnSet(g, U)
  OBVIOUS
<1>1. Sums(g, U \cup {t}) /\ t \notin U
  BY SumsSub
<1> QED BY <1>1, SumAdd

(* A set sorted into groups by a key: the sums of the groups add up to the *)
(* sum over the set.                                                       *)
LEMMA SumByKey ==
  ASSUME NEW S, NEW f, Sums(f, S), NEW T, IsFiniteSet(T), NEW key, NEW group, NEW g,
         \A x \in S : key[x] \in T,
         \A t \in T : /\ group[t] \subseteq S
                      /\ \A x \in S : x \in group[t] <=> key[x] = t
                      /\ g[t] = SumFunctionOnSet(f, group[t])
  PROVE  SumFunctionOnSet(g, T) = SumFunctionOnSet(f, S)
<1> DEFINE In(U) == {x \in S : key[x] \in U}
           Q == {U \in SUBSET T : SumFunctionOnSet(g, U) = SumFunctionOnSet(f, In(U))}
<1>0. \A s \in SUBSET S : Sums(f, s) /\ SumFunctionOnSet(f, s) \in Int
  BY SumsSub, SumInt
<1>1. \A t \in T : g[t] \in Int
  BY <1>0
<1>2. {} \in Q
  <2>1. In({}) = {}
    OBVIOUS
  <2> QED BY <2>1, SumEmpty
<1>3. ASSUME NEW U \in SUBSET T, NEW t \in T \ U, U \in Q PROVE U \cup {t} \in Q
  <2>1. PICK A, B, C : A = In(U) /\ B = group[t] /\ C = U \cup {t}
    OBVIOUS
  <2>2. A \cap B = {} /\ A \in SUBSET S /\ B \in SUBSET S
    BY <1>3, <2>1
  <2>3. In(C) = A \cup B
    BY <1>3, <2>1
  <2>4. SumFunctionOnSet(f, A \cup B) = SumFunctionOnSet(f, A) + SumFunctionOnSet(f, B)
    BY <2>2, SumUnion
  <2>5. Sums(g, T)
    BY <1>1 DEF Sums
  <2>6. SumFunctionOnSet(g, U \cup {t}) = g[t] + SumFunctionOnSet(g, U)
    BY <2>5, SumOneMore
  <2>7. g[t] = SumFunctionOnSet(f, B) /\ SumFunctionOnSet(g, U) = SumFunctionOnSet(f, A)
    BY <1>3, <2>1
  <2>8. SumFunctionOnSet(f, A) \in Int /\ SumFunctionOnSet(f, B) \in Int
    BY <1>0, <2>2
  <2>9. PICK E : E = In(C)
    OBVIOUS
  <2>10. SumFunctionOnSet(f, E) = SumFunctionOnSet(f, A) + SumFunctionOnSet(f, B)
    BY <2>3, <2>4, <2>9
  <2>11. SumFunctionOnSet(g, C) = SumFunctionOnSet(f, B) + SumFunctionOnSet(f, A)
    BY <2>1, <2>6, <2>7
  <2>12. SumFunctionOnSet(g, C) = SumFunctionOnSet(f, E)
    BY <2>8, <2>10, <2>11
  <2> QED BY <2>1, <2>9, <2>12
<1> HIDE DEF Q
<1>4. T \in Q
  BY <1>2, <1>3, IsFiniteSet(T), SetInduct
<1>5. In(T) = S
  OBVIOUS
<1> QED BY <1>4, <1>5 DEF Q

=============================================================================
