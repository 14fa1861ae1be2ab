----------------------------- MODULE SumTheorems -----------------------------
(***************************************************************************)
(* What SumOver computes for every function and every finite set.  The     *)
(* community module's fold is a recursive function on the subsets of the   *)
(* set that takes out a chosen element at a time: it exists, and which     *)
(* element it takes out makes no difference.  Each fact is proved from a   *)
(* smallest set that would be an exception to it.                          *)
(***************************************************************************)
EXTENDS Integers, Sums, FiniteSetTheorems, WellFoundedInduction, TLAPS

-----------------------------------------------------------------------------
(* Smallest exceptions *)

\* A non-empty family of subsets of a finite set has a smallest member.
LEMMA SmallestSet ==
  ASSUME NEW S, IsFiniteSet(S), NEW F \in SUBSET (SUBSET S), F # {}
  PROVE  \E T \in F : \A U \in F : U \subseteq T => U = T
<1>1. F \subseteq FiniteSubsetsOf(S)
  BY FS_Subset DEF FiniteSubsetsOf
<1>2. PICK T \in F : \A U \in F : ~(<<U, T>> \in StrictSubsetOrdering(S))
  BY <1>1, WFMin, FS_StrictSubsetOrderingWellFounded
<1> QED
  BY <1>2 DEF StrictSubsetOrdering

\* A non-empty set of natural numbers has a least one.
LEMMA LeastNatural ==
  ASSUME NEW N \in SUBSET Nat, N # {}
  PROVE  \E m \in N : \A n \in N : m <= n
<1>1. PICK top \in N : TRUE
  OBVIOUS
<1> DEFINE S == 1..top
           F == {1..n : n \in {n \in N : n <= top}}
<1>2. IsFiniteSet(S)
  BY FS_Interval
<1>3. F \in SUBSET (SUBSET S) /\ F # {}
  BY <1>1
<1>4. PICK T \in F : \A U \in F : U \subseteq T => U = T
  <2> HIDE DEF F, S
  <2> QED
    BY <1>2, <1>3, SmallestSet
<1>5. PICK m \in N : m <= top /\ T = 1..m
  BY <1>4
<1>6. ASSUME NEW n \in N PROVE m <= n
  <2>1. SUFFICES ASSUME n < m PROVE FALSE
    OBVIOUS
  <2>2. 1..n \in F
    BY <1>5, <2>1
  <2>3. 1..n \subseteq 1..m
    BY <2>1
  <2>4. m \in 1..m /\ m \notin 1..n
    BY <2>1
  <2> QED
    BY <1>4, <1>5, <2>2, <2>3, <2>4
<1> QED
  BY <1>6

-----------------------------------------------------------------------------
(* The fold *)

Chosen(s) == CHOOSE x \in s : TRUE
FoldStep(f, g, s) == IF s = {} THEN 0 ELSE f[Chosen(s)] + g[s \ {Chosen(s)}]
FoldIter(f, S) == CHOOSE g : g = [s \in SUBSET S |-> FoldStep(f, g, s)]

LEMMA SumIsIter == \A f, S : SumOver(f, S) = FoldIter(f, S)[S]
BY DEF SumOver, MapThenSumSet, MapThenFoldSet, FoldIter, FoldStep, Chosen

LEMMA ChosenIn == ASSUME NEW s, s # {} PROVE Chosen(s) \in s
BY DEF Chosen

\* The recursive function exists.
LEMMA IterExists ==
  ASSUME NEW f, NEW S, IsFiniteSet(S)
  PROVE  \A s \in SUBSET S : FoldIter(f, S)[s] = FoldStep(f, FoldIter(f, S), s)
<1> DEFINE Small(n) == {s \in SUBSET S : Cardinality(s) <= n}
           Done(n)  == \E g : g = [s \in Small(n) |-> FoldStep(f, g, s)]
           Open     == {n \in Nat : ~Done(n)}
<1>1. \A s \in SUBSET S : IsFiniteSet(s) /\ Cardinality(s) \in Nat /\ Cardinality(s) <= Cardinality(S)
  BY FS_Subset, FS_CardinalityType
<1>2. Done(0)
  <2> DEFINE g == [s \in Small(0) |-> 0]
  <2>1. \A s \in Small(0) : s = {}
    BY <1>1, FS_EmptySet
  <2>2. g = [s \in Small(0) |-> FoldStep(f, g, s)]
    BY <2>1 DEF FoldStep
  <2> QED
    BY <2>2
<1>3. ASSUME NEW n \in Nat, Done(n) PROVE Done(n + 1)
  <2>1. PICK g : g = [s \in Small(n) |-> FoldStep(f, g, s)]
    BY <1>3
  <2> DEFINE h == [s \in Small(n + 1) |-> IF s \in Small(n) THEN g[s] ELSE FoldStep(f, g, s)]
  <2>2. Small(n) \subseteq Small(n + 1)
    BY <1>1
  <2>3. ASSUME NEW s \in Small(n + 1), s # {}
        PROVE  s \ {Chosen(s)} \in Small(n)
    <3>1. Chosen(s) \in s
      BY <2>3, ChosenIn
    <3>2. Cardinality(s \ {Chosen(s)}) = Cardinality(s) - 1
      BY <1>1, <3>1, FS_RemoveElement
    <3> QED
      BY <1>1, <3>2
  <2>4. ASSUME NEW s \in Small(n + 1) PROVE h[s] = FoldStep(f, h, s)
    <3>1. CASE s = {}
      <4>1. h[s] = FoldStep(f, g, s)
        BY <2>1
      <4> QED
        BY <3>1, <4>1 DEF FoldStep
    <3>2. CASE s # {}
      <4>1. s \ {Chosen(s)} \in Small(n) /\ s \ {Chosen(s)} \in Small(n + 1)
        BY <2>2, <2>3, <3>2
      <4>2. h[s \ {Chosen(s)}] = g[s \ {Chosen(s)}]
        BY <4>1
      <4>3. h[s] = FoldStep(f, g, s)
        BY <2>1
      <4> HIDE DEF h
      <4> QED
        BY <3>2, <4>2, <4>3 DEF FoldStep
    <3> QED
      BY <3>1, <3>2
  <2>5. h = [s \in Small(n + 1) |-> FoldStep(f, h, s)]
    BY <2>4
  <2> HIDE DEF h
  <2> QED
    BY <2>5
<1>4. \A n \in Nat : Done(n)
  <2>1. SUFFICES ASSUME Open # {} PROVE FALSE
    OBVIOUS
  <2>2. PICK m \in Open : \A n \in Open : m <= n
    <3>1. Open \in SUBSET Nat
      OBVIOUS
    <3> HIDE DEF Open
    <3> QED
      BY <2>1, <3>1, LeastNatural
  <2>3. m # 0 /\ m \in Nat /\ ~Done(m)
    BY <1>2
  <2>4. m - 1 \in Nat /\ (m - 1) + 1 = m
    BY <2>3
  <2>5. Done(m - 1)
    <3>1. SUFFICES ASSUME ~Done(m - 1) PROVE FALSE
      OBVIOUS
    <3>2. m - 1 \in Open
      BY <2>4, <3>1
    <3> HIDE DEF Open
    <3> QED
      BY <2>2, <2>3, <3>2
  <2> HIDE DEF Done
  <2>6. Done((m - 1) + 1)
    BY <1>3, <2>4, <2>5
  <2> QED
    BY <2>3, <2>4, <2>6
<1>5. Small(Cardinality(S)) = SUBSET S
  BY <1>1
<1>6. \E g : g = [s \in SUBSET S |-> FoldStep(f, g, s)]
  <2>1. Cardinality(S) \in Nat
    BY FS_CardinalityType
  <2>2. Done(Cardinality(S))
    BY <1>4, <2>1
  <2> QED
    BY <1>5, <2>2
<1>7. FoldIter(f, S) = [s \in SUBSET S |-> FoldStep(f, FoldIter(f, S), s)]
  BY <1>6 DEF FoldIter
<1> QED
  BY <1>7

\* The fold over a set does not depend on the set it is part of.
LEMMA IterLocal ==
  ASSUME NEW f, NEW S, IsFiniteSet(S)
  PROVE  \A A \in SUBSET S : \A s \in SUBSET A : FoldIter(f, A)[s] = FoldIter(f, s)[s]
<1> DEFINE Local(s) == \A A \in SUBSET S : s \subseteq A => FoldIter(f, A)[s] = FoldIter(f, s)[s]
           F == {s \in SUBSET S : ~Local(s)}
<1>1. SUFFICES ASSUME F # {} PROVE FALSE
  OBVIOUS
<1>2. PICK s \in F : \A U \in F : U \subseteq s => U = s
  <2>1. F \in SUBSET (SUBSET S)
    OBVIOUS
  <2> HIDE DEF F
  <2> QED
    BY <1>1, <2>1, SmallestSet
<1>3. s \in SUBSET S /\ ~Local(s)
  OBVIOUS
<1>4. PICK A \in SUBSET S : s \subseteq A /\ FoldIter(f, A)[s] # FoldIter(f, s)[s]
  BY <1>3
<1>5. /\ FoldIter(f, A)[s] = FoldStep(f, FoldIter(f, A), s)
      /\ FoldIter(f, s)[s] = FoldStep(f, FoldIter(f, s), s)
  <2>1. IsFiniteSet(A) /\ IsFiniteSet(s)
    BY <1>3, FS_Subset
  <2>2. s \in SUBSET A /\ s \in SUBSET s
    BY <1>4
  <2> QED
    BY <2>1, <2>2, IterExists
<1>6. s # {}
  <2>1. SUFFICES ASSUME s = {} PROVE FALSE
    OBVIOUS
  <2>2. FoldStep(f, FoldIter(f, A), s) = 0 /\ FoldStep(f, FoldIter(f, s), s) = 0
    BY <2>1 DEF FoldStep
  <2> QED
    BY <1>4, <1>5, <2>2
<1> DEFINE r == s \ {Chosen(s)}
<1>7. r \in SUBSET S /\ r \subseteq s /\ r # s
  BY <1>3, <1>6, ChosenIn
<1>8. Local(r)
  <2>1. r \notin F
    BY <1>2, <1>7
  <2> QED
    BY <1>7, <2>1
<1>9. FoldIter(f, A)[r] = FoldIter(f, r)[r] /\ FoldIter(f, s)[r] = FoldIter(f, r)[r]
  BY <1>3, <1>4, <1>7, <1>8
<1> QED
  BY <1>4, <1>5, <1>6, <1>9 DEF FoldStep

-----------------------------------------------------------------------------
(* What a sum is *)

\* The sum over the empty set, and over any other by its chosen element.
LEMMA SumUnfold ==
  ASSUME NEW f, NEW S, IsFiniteSet(S)
  PROVE  /\ S = {} => SumOver(f, S) = 0
         /\ S # {} => SumOver(f, S) = f[Chosen(S)] + SumOver(f, S \ {Chosen(S)})
<1>1. SumOver(f, S) = FoldStep(f, FoldIter(f, S), S)
  <2>1. S \in SUBSET S
    OBVIOUS
  <2> QED
    BY <2>1, SumIsIter, IterExists
<1>2. \A s \in SUBSET S : FoldIter(f, S)[s] = SumOver(f, s)
  <2>1. S \in SUBSET S
    OBVIOUS
  <2> QED
    BY <2>1, SumIsIter, IterLocal
<1>3. S \ {Chosen(S)} \in SUBSET S
  OBVIOUS
<1> QED
  BY <1>1, <1>2, <1>3 DEF FoldStep

\* A sum of integers is one.
LEMMA SumInt ==
  ASSUME NEW S, IsFiniteSet(S), NEW f, \A x \in S : f[x] \in Int
  PROVE  SumOver(f, S) \in Int
<1> DEFINE F == {s \in SUBSET S : SumOver(f, s) \notin Int}
<1>1. SUFFICES ASSUME F # {} PROVE FALSE
  OBVIOUS
<1>2. PICK s \in F : \A U \in F : U \subseteq s => U = s
  <2>1. F \in SUBSET (SUBSET S)
    OBVIOUS
  <2> HIDE DEF F
  <2> QED
    BY <1>1, <2>1, SmallestSet
<1>3. s \in SUBSET S /\ SumOver(f, s) \notin Int /\ IsFiniteSet(s)
  BY FS_Subset
<1>4. s # {}
  <2>1. s = {} => SumOver(f, s) = 0
    BY <1>3, SumUnfold
  <2> QED
    BY <1>3, <2>1
<1> DEFINE c == Chosen(s)
<1>5. c \in s /\ f[c] \in Int
  BY <1>3, <1>4, ChosenIn
<1>6. s \ {c} \in SUBSET S /\ s \ {c} \subseteq s /\ s \ {c} # s
  BY <1>3, <1>5
<1>7. SumOver(f, s \ {c}) \in Int
  BY <1>2, <1>6
<1>8. SumOver(f, s) = f[c] + SumOver(f, s \ {c})
  BY <1>3, <1>4, SumUnfold
<1> QED
  BY <1>3, <1>5, <1>7, <1>8

\* Any element may be taken out first.
LEMMA SumRemove ==
  ASSUME NEW S, IsFiniteSet(S), NEW f, \A x \in S : f[x] \in Int, NEW a \in S
  PROVE  SumOver(f, S) = f[a] + SumOver(f, S \ {a})
<1> DEFINE Splits(s) == \A x \in s : SumOver(f, s) = f[x] + SumOver(f, s \ {x})
           F == {s \in SUBSET S : ~Splits(s)}
<1>1. SUFFICES ASSUME F # {} PROVE FALSE
  <2>1. S \in SUBSET S
    OBVIOUS
  <2> QED
    BY <2>1
<1>2. PICK s \in F : \A U \in F : U \subseteq s => U = s
  <2>1. F \in SUBSET (SUBSET S)
    OBVIOUS
  <2> HIDE DEF F
  <2> QED
    BY <1>1, <2>1, SmallestSet
<1>3. s \in SUBSET S /\ ~Splits(s) /\ IsFiniteSet(s)
  BY FS_Subset
<1>4. PICK x \in s : SumOver(f, s) # f[x] + SumOver(f, s \ {x})
  BY <1>3
<1> DEFINE c == Chosen(s)
<1>5. c \in s
  BY <1>4, ChosenIn
<1>6. SumOver(f, s) = f[c] + SumOver(f, s \ {c})
  BY <1>3, <1>4, SumUnfold
<1>7. x # c
  BY <1>4, <1>6
<1>8. Splits(s \ {c}) /\ Splits(s \ {x})
  <2>1. /\ s \ {c} \in SUBSET S /\ s \ {c} \subseteq s /\ s \ {c} # s
        /\ s \ {x} \in SUBSET S /\ s \ {x} \subseteq s /\ s \ {x} # s
    BY <1>3, <1>5
  <2>2. s \ {c} \notin F /\ s \ {x} \notin F
    BY <1>2, <2>1
  <2> QED
    BY <2>1, <2>2
<1> DEFINE rest == (s \ {c}) \ {x}
<1>9. /\ SumOver(f, s \ {c}) = f[x] + SumOver(f, rest)
      /\ SumOver(f, s \ {x}) = f[c] + SumOver(f, rest)
  <2>1. x \in s \ {c} /\ c \in s \ {x} /\ (s \ {x}) \ {c} = rest
    BY <1>5, <1>7
  <2> HIDE DEF rest
  <2> QED
    BY <1>8, <2>1 DEF rest
<1>10. f[x] \in Int /\ f[c] \in Int /\ SumOver(f, rest) \in Int
  <2>1. IsFiniteSet(rest) /\ \A y \in rest : f[y] \in Int
    BY <1>3, FS_Subset
  <2> QED
    BY <1>3, <1>5, <2>1, SumInt
<1> QED
  BY <1>4, <1>6, <1>9, <1>10

LEMMA SumAdd ==
  ASSUME NEW S, IsFiniteSet(S), NEW f, \A x \in S : f[x] \in Int,
         NEW a, a \notin S, f[a] \in Int
  PROVE  SumOver(f, S \cup {a}) = f[a] + SumOver(f, S)
<1>1. IsFiniteSet(S \cup {a})
  BY FS_AddElement
<1>2. /\ a \in S \cup {a} /\ (S \cup {a}) \ {a} = S
      /\ \A x \in S \cup {a} : f[x] \in Int
  OBVIOUS
<1> QED
  BY <1>1, <1>2, SumRemove

\* The sum depends on the values over the set only.
LEMMA SumSame ==
  ASSUME NEW S, IsFiniteSet(S), NEW f, NEW g, \A x \in S : f[x] = g[x]
  PROVE  SumOver(f, S) = SumOver(g, S)
<1> DEFINE F == {s \in SUBSET S : SumOver(f, s) # SumOver(g, s)}
<1>1. SUFFICES ASSUME F # {} PROVE FALSE
  OBVIOUS
<1>2. PICK s \in F : \A U \in F : U \subseteq s => U = s
  <2>1. F \in SUBSET (SUBSET S)
    OBVIOUS
  <2> HIDE DEF F
  <2> QED
    BY <1>1, <2>1, SmallestSet
<1>3. s \in SUBSET S /\ SumOver(f, s) # SumOver(g, s) /\ IsFiniteSet(s)
  BY FS_Subset
<1>4. s # {}
  <2>1. /\ s = {} => SumOver(f, s) = 0
        /\ s = {} => SumOver(g, s) = 0
    BY <1>3, SumUnfold
  <2> QED
    BY <1>3, <2>1
<1> DEFINE c == Chosen(s)
<1>5. c \in s
  BY <1>4, ChosenIn
<1>6. s \ {c} \in SUBSET S /\ s \ {c} \subseteq s /\ s \ {c} # s
  BY <1>3, <1>5
<1>7. SumOver(f, s \ {c}) = SumOver(g, s \ {c})
  BY <1>2, <1>6
<1>8. /\ SumOver(f, s) = f[c] + SumOver(f, s \ {c})
      /\ SumOver(g, s) = g[c] + SumOver(g, s \ {c})
  BY <1>3, <1>4, SumUnfold
<1> QED
  BY <1>3, <1>5, <1>7, <1>8

\* One value grows by n.
LEMMA SumBump ==
  ASSUME NEW S, IsFiniteSet(S), NEW f, \A x \in S : f[x] \in Int,
         NEW a \in S, NEW n \in Int, NEW g,
         g[a] = f[a] + n, \A x \in S : x # a => g[x] = f[x]
  PROVE  SumOver(g, S) = SumOver(f, S) + n
<1>1. IsFiniteSet(S \ {a}) /\ \A x \in S \ {a} : f[x] \in Int /\ f[x] = g[x]
  BY FS_Subset
<1>2. SumOver(f, S \ {a}) = SumOver(g, S \ {a}) /\ SumOver(f, S \ {a}) \in Int
  BY <1>1, SumSame, SumInt
<1>3. \A x \in S : g[x] \in Int
  OBVIOUS
<1>4. SumOver(f, S) = f[a] + SumOver(f, S \ {a})
  BY SumRemove
<1>5. SumOver(g, S) = g[a] + SumOver(g, S \ {a})
  BY <1>3, SumRemove
<1> QED
  BY <1>2, <1>4, <1>5

LEMMA SumZero ==
  ASSUME NEW S, IsFiniteSet(S), NEW f, \A x \in S : f[x] = 0
  PROVE  SumOver(f, S) = 0
<1> DEFINE F == {s \in SUBSET S : SumOver(f, s) # 0}
<1>1. SUFFICES ASSUME F # {} PROVE FALSE
  OBVIOUS
<1>2. PICK s \in F : \A U \in F : U \subseteq s => U = s
  <2>1. F \in SUBSET (SUBSET S)
    OBVIOUS
  <2> HIDE DEF F
  <2> QED
    BY <1>1, <2>1, SmallestSet
<1>3. s \in SUBSET S /\ SumOver(f, s) # 0 /\ IsFiniteSet(s)
  BY FS_Subset
<1>4. s # {}
  BY <1>3, SumUnfold
<1> DEFINE c == Chosen(s)
<1>5. c \in s
  BY <1>4, ChosenIn
<1>6. s \ {c} \in SUBSET S /\ s \ {c} \subseteq s /\ s \ {c} # s
  BY <1>3, <1>5
<1>7. SumOver(f, s \ {c}) = 0
  BY <1>2, <1>6
<1>8. SumOver(f, s) = f[c] + SumOver(f, s \ {c})
  BY <1>3, <1>4, SumUnfold
<1> QED
  BY <1>3, <1>5, <1>7, <1>8

\* A sum of larger values is larger.
LEMMA SumMonotone ==
  ASSUME NEW S, IsFiniteSet(S), NEW f, NEW g,
         \A x \in S : f[x] \in Int /\ g[x] \in Int /\ f[x] <= g[x]
  PROVE  SumOver(f, S) <= SumOver(g, S)
<1> DEFINE F == {s \in SUBSET S : ~(SumOver(f, s) <= SumOver(g, s))}
<1>1. SUFFICES ASSUME F # {} PROVE FALSE
  OBVIOUS
<1>2. PICK s \in F : \A U \in F : U \subseteq s => U = s
  <2>1. F \in SUBSET (SUBSET S)
    OBVIOUS
  <2> HIDE DEF F
  <2> QED
    BY <1>1, <2>1, SmallestSet
<1>3. s \in SUBSET S /\ ~(SumOver(f, s) <= SumOver(g, s)) /\ IsFiniteSet(s)
  BY FS_Subset
<1>4. s # {}
  <2>1. /\ s = {} => SumOver(f, s) = 0
        /\ s = {} => SumOver(g, s) = 0
    BY <1>3, SumUnfold
  <2> QED
    BY <1>3, <2>1
<1> DEFINE c == Chosen(s)
<1>5. c \in s /\ f[c] \in Int /\ g[c] \in Int /\ f[c] <= g[c]
  BY <1>3, <1>4, ChosenIn
<1>6. s \ {c} \in SUBSET S /\ s \ {c} \subseteq s /\ s \ {c} # s
  BY <1>3, <1>5
<1>7. SumOver(f, s \ {c}) <= SumOver(g, s \ {c})
  BY <1>2, <1>6
<1>8. /\ SumOver(f, s) = f[c] + SumOver(f, s \ {c})
      /\ SumOver(g, s) = g[c] + SumOver(g, s \ {c})
  BY <1>3, <1>4, SumUnfold
<1>9. SumOver(f, s \ {c}) \in Int /\ SumOver(g, s \ {c}) \in Int
  <2>1. IsFiniteSet(s \ {c}) /\ \A x \in s \ {c} : f[x] \in Int /\ g[x] \in Int
    BY <1>3, FS_Subset
  <2> QED
    BY <2>1, SumInt
<1> QED
  BY <1>3, <1>5, <1>7, <1>8, <1>9

\* A sum of natural numbers is one.
LEMMA SumNat ==
  ASSUME NEW S, IsFiniteSet(S), NEW f, \A x \in S : f[x] \in Nat
  PROVE  SumOver(f, S) \in Nat
<1> DEFINE zero == [x \in S |-> 0]
<1>1. SumOver(zero, S) = 0
  BY SumZero
<1>2. SumOver(zero, S) <= SumOver(f, S)
  <2>1. \A x \in S : zero[x] \in Int /\ f[x] \in Int /\ zero[x] <= f[x]
    OBVIOUS
  <2> HIDE DEF zero
  <2> QED
    BY <2>1, SumMonotone
<1>3. SumOver(f, S) \in Int
  BY SumInt
<1> QED
  BY <1>1, <1>2, <1>3

\* The set gains an element, the other values stay.
LEMMA SumGrows ==
  ASSUME NEW S, IsFiniteSet(S), NEW f, \A x \in S : f[x] \in Int,
         NEW a, a \notin S, NEW g, g[a] \in Int, \A x \in S : g[x] = f[x]
  PROVE  SumOver(g, S \cup {a}) = SumOver(f, S) + g[a]
<1>1. SumOver(g, S) = SumOver(f, S) /\ SumOver(f, S) \in Int
  BY SumSame, SumInt
<1>2. SumOver(g, S \cup {a}) = g[a] + SumOver(g, S)
  BY SumAdd
<1> QED
  BY <1>1, <1>2

\* The set loses one.
LEMMA SumShrinks ==
  ASSUME NEW S, IsFiniteSet(S), NEW f, \A x \in S : f[x] \in Int, NEW a \in S
  PROVE  SumOver(f, S \ {a}) = SumOver(f, S) - f[a]
<1>1. SumOver(f, S \ {a}) \in Int
  BY SumInt, FS_Subset
<1> QED
  BY <1>1, SumRemove

\* The sum over two sets without a common element.
LEMMA SumUnion ==
  ASSUME NEW S, IsFiniteSet(S), NEW T, IsFiniteSet(T), S \cap T = {},
         NEW f, \A x \in S \cup T : f[x] \in Int
  PROVE  SumOver(f, S \cup T) = SumOver(f, S) + SumOver(f, T)
<1> DEFINE F == {t \in SUBSET T : ~(SumOver(f, S \cup t) = SumOver(f, S) + SumOver(f, t))}
<1>1. SUFFICES ASSUME F # {} PROVE FALSE
  OBVIOUS
<1>2. PICK t \in F : \A U \in F : U \subseteq t => U = t
  <2>1. F \in SUBSET (SUBSET T)
    OBVIOUS
  <2> HIDE DEF F
  <2> QED
    BY <1>1, <2>1, SmallestSet
<1>3. t \in SUBSET T /\ IsFiniteSet(t) /\ ~(SumOver(f, S \cup t) = SumOver(f, S) + SumOver(f, t))
  BY FS_Subset
<1>4. SumOver(f, S) \in Int
  BY SumInt
<1>5. CASE t = {}
  <2>1. SumOver(f, t) = 0 /\ S \cup t = S
    BY <1>5, <1>3, SumUnfold
  <2>2. SumOver(f, S \cup t) = SumOver(f, S)
    BY <2>1
  <2> HIDE DEF F
  <2> QED
    BY <1>3, <1>4, <2>1, <2>2
<1>6. CASE t # {}
  <2>1. PICK c \in t : TRUE
    BY <1>6
  <2> DEFINE u == t \ {c}
  <2>2. u \in SUBSET T /\ u \subseteq t /\ u # t /\ IsFiniteSet(u) /\ f[c] \in Int
    BY <1>3, <2>1, FS_Subset
  <2>3. SumOver(f, S \cup u) = SumOver(f, S) + SumOver(f, u)
    BY <1>2, <2>2
  <2>4. SumOver(f, t) = f[c] + SumOver(f, u)
    BY <1>3, <2>1, SumRemove
  <2>5. SumOver(f, S \cup t) = f[c] + SumOver(f, S \cup u)
    <3>1. IsFiniteSet(S \cup u) /\ c \notin S \cup u /\ (S \cup u) \cup {c} = S \cup t
      BY <1>3, <2>1, <2>2, FS_Union
    <3>2. \A x \in S \cup u : f[x] \in Int
      BY <2>2
    <3> HIDE DEF u
    <3> QED
      BY <2>2, <3>1, <3>2, SumAdd
  <2>6. SumOver(f, u) \in Int
    BY <2>2, SumInt
  <2> QED
    BY <1>3, <1>4, <2>2, <2>3, <2>4, <2>5, <2>6
<1> QED
  BY <1>5, <1>6

\* The sum of the first values is at most the sum of all, if none is negative.
LEMMA SumPart ==
  ASSUME NEW S, IsFiniteSet(S), NEW T \in SUBSET S, NEW f, \A x \in S : f[x] \in Nat
  PROVE  SumOver(f, T) \in Nat /\ SumOver(f, S) \in Nat /\ SumOver(f, T) <= SumOver(f, S)
<1>1. IsFiniteSet(T) /\ IsFiniteSet(S \ T) /\ T \cap (S \ T) = {} /\ T \cup (S \ T) = S
  BY FS_Subset
<1>2. SumOver(f, T) \in Nat /\ SumOver(f, S \ T) \in Nat /\ SumOver(f, S) \in Nat
  BY <1>1, SumNat
<1>3. SumOver(f, T \cup (S \ T)) = SumOver(f, T) + SumOver(f, S \ T)
  <2>1. \A x \in T \cup (S \ T) : f[x] \in Int
    BY <1>1
  <2> QED
    BY <1>1, <2>1, SumUnion
<1> QED
  BY <1>1, <1>2, <1>3

\* Sums over growing intervals.
LEMMA SumUpTo ==
  ASSUME NEW n \in Nat, NEW f, \A x \in 1..n : f[x] \in Int, NEW i \in 1..n
  PROVE  /\ SumOver(f, 1..0) = 0
         /\ SumOver(f, 1..(i - 1)) \in Int
         /\ SumOver(f, 1..i) = SumOver(f, 1..(i - 1)) + f[i]
<1>1. 1..i = (1..(i - 1)) \cup {i} /\ i \notin 1..(i - 1) /\ 1..0 = {}
  OBVIOUS
<1>2. IsFiniteSet(1..(i - 1)) /\ IsFiniteSet(1..0)
  BY FS_Interval
<1>3. \A x \in 1..(i - 1) : f[x] \in Int
  OBVIOUS
<1>4. SumOver(f, (1..(i - 1)) \cup {i}) = f[i] + SumOver(f, 1..(i - 1))
  BY <1>1, <1>2, <1>3, SumAdd
<1>5. SumOver(f, 1..(i - 1)) \in Int
  BY <1>2, <1>3, SumInt
<1>6. SumOver(f, 1..0) = 0
  BY <1>1, <1>2, SumUnfold
<1>7. SumOver(f, 1..i) = f[i] + SumOver(f, 1..(i - 1)) /\ f[i] \in Int
  BY <1>1, <1>4
<1> QED
  BY <1>5, <1>6, <1>7

-----------------------------------------------------------------------------
\* A finite, non-empty set of natural numbers has a largest one.
LEMMA MaxIs ==
  ASSUME NEW S, IsFiniteSet(S), S # {}, \A x \in S : x \in Nat
  PROVE  Max(S) \in S /\ \A y \in S : y <= Max(S)
<1> DEFINE From(x) == {y \in S : y >= x}
           F == {From(x) : x \in S}
<1>1. PICK T \in F : \A U \in F : U \subseteq T => U = T
  <2>1. F \in SUBSET (SUBSET S) /\ F # {}
    OBVIOUS
  <2> HIDE DEF F, From
  <2> QED
    BY <2>1, SmallestSet
<1>2. PICK m \in S : T = From(m)
  OBVIOUS
<1>3. ASSUME NEW z \in S PROVE z <= m
  <2>1. SUFFICES ASSUME z > m PROVE FALSE
    OBVIOUS
  <2> z \in Nat /\ m \in Nat
    OBVIOUS
  <2>2. From(z) \in F
    OBVIOUS
  <2>3. ASSUME NEW y \in S, y >= z PROVE y >= m
    <3>1. y \in Nat
      OBVIOUS
    <3> QED
      BY <2>1, <2>3, <3>1
  <2>4. From(z) \subseteq From(m)
    BY <2>3
  <2>5. m \in From(m) /\ m \notin From(z)
    BY <2>1
  <2> QED
    BY <1>1, <1>2, <2>2, <2>4, <2>5
<1>4. \E x \in S : \A y \in S : x >= y
  BY <1>3
<1> QED
  BY <1>4 DEF Max

-----------------------------------------------------------------------------
(* Induction and recursion over an interval *)

\* What holds at the first element and passes from each to the next holds at all.
LEMMA IntervalInduction ==
  ASSUME NEW a \in Int, NEW b \in Int, NEW S,
         a <= b => a \in S,
         \A i \in a..b : i > a /\ i - 1 \in S => i \in S
  PROVE  \A i \in a..b : i \in S
<1> DEFINE Bad == {n \in Nat : a + n <= b /\ a + n \notin S}
<1>1. SUFFICES ASSUME Bad # {} PROVE FALSE
  <2> SUFFICES ASSUME NEW i \in a..b, i \notin S PROVE Bad # {}
    OBVIOUS
  <2>1. i - a \in Nat /\ a + (i - a) = i
    OBVIOUS
  <2>2. i - a \in Bad
    BY <2>1
  <2> QED
    BY <2>2
<1>2. PICK m \in Bad : \A n \in Bad : m <= n
  <2>1. Bad \in SUBSET Nat
    OBVIOUS
  <2> HIDE DEF Bad
  <2> QED
    BY <1>1, <2>1, LeastNatural
<1>3. CASE m = 0
  BY <1>3
<1>4. CASE m > 0
  <2>1. m - 1 \in Nat /\ a + (m - 1) <= b
    BY <1>4
  <2>2. a + (m - 1) \in S
    BY <1>2, <2>1
  <2>3. a + m \in a..b /\ a + m > a /\ (a + m) - 1 = a + (m - 1)
    BY <1>4
  <2> QED
    BY <2>2, <2>3
<1> QED
  BY <1>3, <1>4

RecStep(F, x, a, g, i) == IF i = a THEN x ELSE F[<<i, g[i - 1]>>]
IsRec(g, F, x, a, b) == g = [i \in a..b |-> RecStep(F, x, a, g, i)]

\* A function whose value at an element of an interval depends on the value before
\* exists, whatever the step is.
LEMMA StepsExist ==
  ASSUME NEW a \in Int, NEW b \in Int, NEW x, NEW F
  PROVE  \E g : IsRec(g, F, x, a, b)
<1> DEFINE Done(n) == \E g : IsRec(g, F, x, a, n)
           S == {n \in a..b : Done(n)}
<1>1. CASE a > b
  <2> DEFINE g == [i \in a..b |-> x]
  <2>1. a..b = {}
    BY <1>1
  <2>2. IsRec(g, F, x, a, b)
    BY <2>1 DEF IsRec
  <2> QED
    BY <2>2
<1>2. CASE a <= b
  <2>1. a \in S
    <3> DEFINE g == [i \in a..a |-> x]
    <3>1. \A i \in a..a : i = a
      OBVIOUS
    <3>2. IsRec(g, F, x, a, a)
      BY <3>1 DEF IsRec, RecStep
    <3>3. Done(a)
      BY <3>2
    <3> QED
      BY <1>2, <3>3
  <2>2. ASSUME NEW i \in a..b, i > a, i - 1 \in S PROVE i \in S
    <3>1. PICK g : g = [j \in a..(i - 1) |-> RecStep(F, x, a, g, j)]
      BY <2>2 DEF IsRec
    <3> DEFINE h == [j \in a..i |-> IF j = i THEN F[<<i, g[i - 1]>>] ELSE g[j]]
    <3>2. \A j \in a..i : j # i => j \in a..(i - 1)
      OBVIOUS
    <3>3. ASSUME NEW j \in a..i PROVE h[j] = RecStep(F, x, a, h, j)
      <4>1. CASE j = i
        <5>1. i - 1 \in a..i /\ i - 1 # i /\ i # a
          BY <2>2
        <5>2. h[i - 1] = g[i - 1] /\ h[i] = F[<<i, g[i - 1]>>]
          BY <5>1
        <5> HIDE DEF h
        <5> QED
          BY <4>1, <5>1, <5>2 DEF RecStep
      <4>2. CASE j # i /\ j = a
        <5>1. h[j] = g[j] /\ g[j] = RecStep(F, x, a, g, j)
          BY <3>1, <3>2, <4>2
        <5> QED
          BY <4>2, <5>1 DEF RecStep
      <4>3. CASE j # i /\ j # a
        <5>1. j \in a..(i - 1) /\ j - 1 \in a..i /\ j - 1 # i
          BY <3>2, <4>3
        <5>2. h[j] = g[j] /\ g[j] = RecStep(F, x, a, g, j) /\ h[j - 1] = g[j - 1]
          BY <3>1, <4>3, <5>1
        <5> HIDE DEF h
        <5> QED
          BY <4>3, <5>2 DEF RecStep
      <4> QED
        BY <4>1, <4>2, <4>3
    <3>4. h = [j \in a..i |-> RecStep(F, x, a, h, j)]
      BY <3>3
    <3>5. Done(i)
      <4> HIDE DEF h
      <4> QED
        BY <3>4 DEF IsRec
    <3> QED
      BY <3>5
  <2>3. \A i \in a..b : i \in S
    <3> HIDE DEF S
    <3> QED
      BY <2>1, <2>2, IntervalInduction
  <2>4. b \in a..b
    BY <1>2
  <2>5. Done(b)
    <3> HIDE DEF Done
    <3> QED
      BY <2>3, <2>4
  <2> QED
    BY <2>5
<1> QED
  BY <1>1, <1>2

\* The same with values of a type that the step keeps.
LEMMA RecursionExists ==
  ASSUME NEW a \in Int, NEW b \in Int, NEW D, NEW x \in D, NEW F \in [(a..b) \X D -> D]
  PROVE  \E g \in [a..b -> D] : IsRec(g, F, x, a, b)
<1>1. PICK g : IsRec(g, F, x, a, b)
  BY StepsExist
<1> DEFINE S == {i \in a..b : g[i] \in D}
<1>2. ASSUME a <= b PROVE a \in S
  <2>1. a \in a..b /\ g[a] = RecStep(F, x, a, g, a)
    BY <1>1, <1>2 DEF IsRec
  <2> QED
    BY <2>1 DEF RecStep
<1>3. ASSUME NEW i \in a..b, i > a, i - 1 \in S PROVE i \in S
  <2>1. g[i] = RecStep(F, x, a, g, i)
    BY <1>1 DEF IsRec
  <2>2. F[<<i, g[i - 1]>>] \in D
    BY <1>3
  <2> QED
    BY <1>3, <2>1, <2>2 DEF RecStep
<1>4. \A i \in a..b : i \in S
  <2> HIDE DEF S
  <2> QED
    BY <1>2, <1>3, IntervalInduction
<1>5. g \in [a..b -> D]
  BY <1>1, <1>4 DEF IsRec
<1> QED
  BY <1>1, <1>5
=============================================================================
