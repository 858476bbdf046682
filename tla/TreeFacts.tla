----------------------------- MODULE TreeFacts -----------------------------
(***************************************************************************)
(* Induction and recursion over the trees of ScanTree, and sums over finite  *)
(* sets: the lemmas behind the theorems about sizes, totals and subtrees.    *)
(*                                                                           *)
(* The induction theorems of the library take an operator as parameter.      *)
(* Here a property is the set of what has it: if some element were outside,  *)
(* a minimal one would be, by the well-foundedness of the ordering (WFMin).   *)
(***************************************************************************)
EXTENDS TreeSizes, FiniteSetTheorems, TLAPS

\* A set of subsets of a finite set that has each subset all of whose strict
\* subsets it has, has the set itself.
LEMMA FiniteInduction ==
  ASSUME NEW S, IsFiniteSet(S), NEW Good,
         \A T \in SUBSET S : (\A U \in SUBSET T : U # T => U \in Good) => T \in Good
  PROVE  S \in Good
<1> DEFINE Bad == {T \in SUBSET S : T \notin Good}
<1>1. SUFFICES ASSUME S \notin Good PROVE FALSE
  OBVIOUS
<1>2. IsWellFoundedOn(StrictSubsetOrdering(S), SUBSET S)
  BY FS_StrictSubsetOrderingWellFounded, FS_FiniteSubsetsOfFinite
<1>3. PICK T \in Bad : \A U \in Bad : <<U, T>> \notin StrictSubsetOrdering(S)
  <2>1. Bad \subseteq SUBSET S /\ Bad # {}
    BY <1>1
  <2> HIDE DEF Bad
  <2> QED
    BY <1>2, <2>1, WFMin
<1>4. \A U \in SUBSET T : U # T => U \in Good
  <2> SUFFICES ASSUME NEW U \in SUBSET T, U # T, U \notin Good PROVE FALSE
    OBVIOUS
  <2>1. U \in Bad /\ U \in SUBSET S /\ T \in SUBSET S
    OBVIOUS
  <2>2. <<U, T>> \in StrictSubsetOrdering(S)
    BY <2>1 DEF StrictSubsetOrdering
  <2> QED
    BY <1>3, <2>1, <2>2
<1> QED
  BY <1>4

\* A set that has 0, and n + 1 whenever it has n, has every natural number.
LEMMA CountingInduction ==
  ASSUME NEW Good, 0 \in Good, \A n \in Nat : n \in Good => n + 1 \in Good
  PROVE  Nat \subseteq Good
<1> DEFINE Bad == {n \in Nat : n \notin Good}
<1>1. SUFFICES ASSUME Bad # {} PROVE FALSE
  OBVIOUS
<1>2. PICK n \in Bad : \A m \in Bad : <<m, n>> \notin OpToRel(<, Nat)
  <2>1. Bad \subseteq Nat
    OBVIOUS
  <2> HIDE DEF Bad
  <2> QED
    BY <1>1, <2>1, NatLessThanWellFounded, WFMin
<1>3. n \in Nat /\ n # 0
  OBVIOUS
<1>4. n - 1 \in Nat /\ n - 1 < n /\ n - 1 + 1 = n
  BY <1>3
<1>5. <<n - 1, n>> \in OpToRel(<, Nat)
  BY <1>3, <1>4 DEF OpToRel
<1>6. n - 1 \in Good
  BY <1>2, <1>4, <1>5
<1> QED
  BY <1>3, <1>4, <1>6

\* What holds of an entry whenever it is in the root or holds of its directory
\* holds of all entries.
LEMMA DownTheTree ==
  ASSUME NEW Good, \A e \in Entries : Parent[e] = Root \/ Parent[e] \in Good => e \in Good
  PROVE  Entries \subseteq Good
<1> DEFINE Bad == {d \in Dirs \ {Root} : d \notin Good}
<1>1. Bad = {}
  <2> SUFFICES ASSUME Bad # {} PROVE FALSE
    OBVIOUS
  <2>1. PICK d \in Bad : Parent[d] \notin Bad
    BY AcyclicAssumption
  <2>2. d \in Entries /\ Parent[d] \in Dirs
    BY TreeAssumption DEF Entries
  <2> QED
    BY <2>1, <2>2
<1>2. \A e \in Entries : Parent[e] \in Dirs
  BY TreeAssumption
<1> QED
  BY <1>1, <1>2

\* Of any directories, one holds none of them.
LEMMA LowestDir ==
  ASSUME NEW S \in SUBSET (Dirs \ {Root}), S # {}
  PROVE  \E d \in S : \A c \in S : Parent[c] # d
<1> DEFINE Good == {T \in SUBSET (Dirs \ {Root}) :
                      T # {} => \E d \in T : \A c \in T : Parent[c] # d}
<1>1. IsFiniteSet(S)
  BY TreeAssumption, FS_Subset
<1>2. ASSUME NEW T \in SUBSET S, \A U \in SUBSET T : U # T => U \in Good
      PROVE  T \in Good
  <2> SUFFICES ASSUME T # {}, \A d \in T : \E c \in T : Parent[c] = d PROVE FALSE
    OBVIOUS
  <2>1. PICK d \in T : Parent[d] \notin T
    BY AcyclicAssumption
  <2> DEFINE U == T \ {d}
  <2>2. U \in Good
    BY <1>2
  <2>3. U # {}
    BY <2>1
  <2>4. PICK x \in U : \A c \in U : Parent[c] # x
    BY <2>2, <2>3
  <2> QED
    BY <2>1, <2>4
<1>3. S \in Good
  <2> HIDE DEF Good
  <2> QED
    BY <1>1, <1>2, FiniteInduction
<1> QED
  BY <1>3

\* What holds of a file, and of a directory when it holds of all its entries,
\* holds of the root and of all entries.
LEMMA UpTheTree ==
  ASSUME NEW Good,
         \A x \in Dirs \cup Files :
           (\A c \in Entries : Parent[c] = x => c \in Good) => x \in Good
  PROVE  Dirs \cup Files \subseteq Good
<1> DEFINE Bad == {d \in Dirs \ {Root} : d \notin Good}
<1>1. Files \subseteq Good
  BY TreeAssumption
<1>2. Bad = {}
  <2> SUFFICES ASSUME Bad # {} PROVE FALSE
    OBVIOUS
  <2>1. PICK d \in Bad : \A c \in Bad : Parent[c] # d
    <3>1. Bad \in SUBSET (Dirs \ {Root})
      OBVIOUS
    <3> HIDE DEF Bad
    <3> QED
      BY <3>1, LowestDir
  <2>2. \A c \in Entries : Parent[c] = d => c \in Good
    BY <1>1, <2>1 DEF Entries
  <2> QED
    BY <2>1, <2>2
<1>3. Root \in Good
  BY <1>1, <1>2, TreeAssumption DEF Entries
<1> QED
  BY <1>1, <1>2, <1>3

-----------------------------------------------------------------------------
(* Recursion *)

\* What is computed of an entry from what was computed of its directory is
\* computed of every entry.
LEMMA RecursionDown ==
  ASSUME NEW V, NEW v \in V, NEW start \in [Entries -> V], NEW step \in [Entries \X V -> V]
  PROVE  \E f \in [Entries -> V] : \A e \in Entries :
           f[e] = IF Parent[e] = Root THEN start[e] ELSE step[<<e, f[Parent[e]]>>]
<1> DEFINE SubDirs == Dirs \ {Root}
           Equation(f, e) == f[e] = IF Parent[e] = Root THEN start[e] ELSE step[<<e, f[Parent[e]]>>]
           Closed(T) == \A d \in T : Parent[d] \in T \cup {Root}
           Good == {T \in SUBSET SubDirs :
                      Closed(T) => \E f \in [Entries -> V] : \A d \in T : Equation(f, d)}
<1>0. SubDirs \subseteq Entries /\ \A e \in Entries : Parent[e] \in SubDirs \cup {Root}
  BY TreeAssumption DEF Entries
<1>1. ASSUME NEW T \in SUBSET SubDirs, \A U \in SUBSET T : U # T => U \in Good
      PROVE  T \in Good
  <2> SUFFICES ASSUME Closed(T)
               PROVE  \E f \in [Entries -> V] : \A d \in T : Equation(f, d)
    OBVIOUS
  <2>1. CASE T = {}
    <3>1. [e \in Entries |-> v] \in [Entries -> V]
      OBVIOUS
    <3> QED
      BY <2>1, <3>1
  <2>2. CASE T # {}
    <3>1. PICK d \in T : \A c \in T : Parent[c] # d
      BY <2>2, LowestDir
    <3>2. T \ {d} \in Good
      <4>1. T \ {d} \in SUBSET T /\ T \ {d} # T
        BY <3>1
      <4> HIDE DEF Good
      <4> QED
        BY <1>1, <4>1
    <3>3. Closed(T \ {d})
      BY <3>1
    <3>4. PICK f \in [Entries -> V] : \A x \in T \ {d} : Equation(f, x)
      BY <3>2, <3>3
    <3> DEFINE g == [f EXCEPT ![d] = IF Parent[d] = Root THEN start[d] ELSE step[<<d, f[Parent[d]]>>]]
    <3>5. d \in Entries /\ Parent[d] # d /\ Parent[d] \in SubDirs \cup {Root}
      BY <1>0, <3>1
    <3>6. g \in [Entries -> V]
      BY <1>0, <3>5
    <3>7. ASSUME NEW x \in T PROVE Equation(g, x)
      <4>1. x \in Entries /\ Parent[x] # d
        BY <1>0, <3>1
      <4>2. Parent[x] # Root => Parent[x] \in Entries
        BY <1>0, <4>1
      <4> QED
        BY <3>4, <3>5, <4>1, <4>2
    <3> HIDE DEF g
    <3> QED
      BY <3>6, <3>7
  <2> QED
    BY <2>1, <2>2
<1>2. PICK f \in [Entries -> V] : \A d \in SubDirs : Equation(f, d)
  <2>1. IsFiniteSet(SubDirs)
    BY TreeAssumption, FS_Subset
  <2>2. SubDirs \in Good
    <3> HIDE DEF Good, SubDirs
    <3> QED
      BY <1>1, <2>1, FiniteInduction
  <2>3. Closed(SubDirs)
    BY <1>0
  <2> QED
    BY <2>2, <2>3
<1> DEFINE g == [e \in Entries |-> IF e \in SubDirs THEN f[e]
                                  ELSE IF Parent[e] = Root THEN start[e] ELSE step[<<e, f[Parent[e]]>>]]
<1>3. g \in [Entries -> V]
  BY <1>0
<1>4. \A e \in Entries : Equation(g, e)
  BY <1>0, <1>2
<1> HIDE DEF g
<1> QED
  BY <1>3, <1>4

\* A step computes something of a directory from what was computed of its own
\* entries, and of nothing else.
StepsUp(V) ==
  {step \in [(Dirs \cup Files) \X [Dirs \cup Files -> V] -> V] :
     \A x \in Dirs \cup Files : \A f, g \in [Dirs \cup Files -> V] :
       (\A c \in Children(x) : f[c] = g[c]) => step[<<x, f>>] = step[<<x, g>>]}

\* What such a step computes is computed of the root and of all entries.
LEMMA RecursionUp ==
  ASSUME NEW V, NEW v \in V, NEW step \in StepsUp(V)
  PROVE  \E f \in [Dirs \cup Files -> V] : \A x \in Dirs \cup Files : f[x] = step[<<x, f>>]
<1> DEFINE All == Dirs \cup Files
           Closed(T) == \A c \in Entries : c \in Dirs /\ Parent[c] \in T => c \in T
           Good == {T \in SUBSET Dirs :
                      Closed(T) => \E f \in [All -> V] : \A x \in T \cup Files : f[x] = step[<<x, f>>]}
<1>. /\ step \in [(Dirs \cup Files) \X [Dirs \cup Files -> V] -> V]
     /\ \A x \in Dirs \cup Files : \A f, g \in [Dirs \cup Files -> V] :
          (\A c \in Children(x) : f[c] = g[c]) => step[<<x, f>>] = step[<<x, g>>]
  BY DEF StepsUp
<1>0. /\ \A c \in Entries : c \in All /\ Parent[c] \in Dirs /\ Parent[c] \notin Files
      /\ \A x \in Files : x \in All /\ x \notin Dirs /\ Children(x) = {}
      /\ \A x : \A c \in Children(x) : c \in Entries /\ Parent[c] = x
  BY TreeAssumption DEF Entries, Children
<1>1. ASSUME NEW T \in SUBSET Dirs, \A U \in SUBSET T : U # T => U \in Good
      PROVE  T \in Good
  <2> SUFFICES ASSUME Closed(T)
               PROVE  \E f \in [All -> V] : \A x \in T \cup Files : f[x] = step[<<x, f>>]
    OBVIOUS
  <2>1. CASE T = {}
    <3> DEFINE g == [y \in All |-> v]
    <3>0. g \in [All -> V]
      OBVIOUS
    <3> HIDE DEF g
    <3> DEFINE f == [x \in All |-> step[<<x, g>>]]
    <3>1. f \in [All -> V]
      BY <3>0
    <3>2. \A x \in Files : f[x] = step[<<x, g>>]
      OBVIOUS
    <3> HIDE DEF f
    <3>3. ASSUME NEW x \in Files PROVE step[<<x, g>>] = step[<<x, f>>]
      <4>1. x \in Dirs \cup Files /\ \A c \in Children(x) : g[c] = f[c]
        BY <1>0
      <4> QED
        BY <3>0, <3>1, <4>1
    <3> QED
      BY <2>1, <3>1, <3>2, <3>3
  <2>2. CASE T # {}
    <3>1. PICK d \in T : d = Root \/ Parent[d] \notin T
      <4>1. CASE Root \in T
        BY <4>1
      <4>2. CASE Root \notin T
        BY <2>2, <4>2, AcyclicAssumption
      <4> QED
        BY <4>1, <4>2
    <3>2. T \ {d} \in Good
      <4>1. T \ {d} \in SUBSET T /\ T \ {d} # T
        BY <3>1
      <4> HIDE DEF Good
      <4> QED
        BY <1>1, <4>1
    <3>3. Closed(T \ {d})
      BY <3>1 DEF Entries
    <3>4. PICK f \in [All -> V] : \A x \in (T \ {d}) \cup Files : f[x] = step[<<x, f>>]
      BY <3>2, <3>3
    <3> DEFINE g == [f EXCEPT ![d] = step[<<d, f>>]]
    <3>5. d \in Dirs /\ d \in All /\ d \notin Files
      BY TreeAssumption
    <3>6. g \in [All -> V]
      BY <3>5
    <3>7. ASSUME NEW x \in T \cup Files PROVE step[<<x, g>>] = step[<<x, f>>]
      <4>1. d \notin Children(x)
        BY <1>0, <3>1, TreeAssumption DEF Entries
      <4>2. \A c \in Children(x) : g[c] = f[c]
        BY <1>0, <4>1
      <4> HIDE DEF g
      <4> QED
        BY <3>6, <4>2
    <3>8. \A x \in T \cup Files : g[x] = IF x = d THEN step[<<d, f>>] ELSE f[x]
      BY <3>5
    <3> HIDE DEF g
    <3>9. \A x \in T \cup Files : g[x] = step[<<x, g>>]
      <4>1. \A x \in T \cup Files : x # d => g[x] = f[x] /\ f[x] = step[<<x, f>>]
        BY <3>4, <3>8
      <4>2. d \in T /\ g[d] = step[<<d, f>>]
        BY <3>8
      <4> QED
        BY <3>7, <4>1, <4>2
    <3> QED
      BY <3>6, <3>9
  <2> QED
    BY <2>1, <2>2
<1>2. Dirs \in Good
  <2> HIDE DEF Good
  <2> QED
    BY <1>1, TreeAssumption, FiniteInduction
<1> QED
  BY <1>2

-----------------------------------------------------------------------------
(* Sums over finite sets *)

Picked(S) == CHOOSE x \in S : TRUE

\* g has the sums of f over the subsets of S, computed the way FoldSet does.
IsTable(g, f, S) ==
  g = [s \in SUBSET S |-> IF s = {} THEN 0 ELSE f[Picked(s)] + g[s \ {Picked(s)}]]

\* There is a function that sums up f over the subsets of S.
LEMMA SumExists ==
  ASSUME NEW S, IsFiniteSet(S), NEW f
  PROVE  \E g : IsTable(g, f, S)
<1> DEFINE Equation(g, s) == g[s] = IF s = {} THEN 0 ELSE f[Picked(s)] + g[s \ {Picked(s)}]
           Small(n) == {s \in SUBSET S : Cardinality(s) < n}
           Good == {n \in Nat : \E g : /\ g = [s \in SUBSET S |-> g[s]]
                                       /\ \A s \in Small(n) : Equation(g, s)}
<1>0. \A s \in SUBSET S : IsFiniteSet(s) /\ Cardinality(s) \in Nat /\ (Cardinality(s) = 0 <=> s = {})
  BY FS_Subset, FS_CardinalityType, FS_EmptySet
<1>1. 0 \in Good
  <2> DEFINE g == [s \in SUBSET S |-> 0]
  <2>1. g = [s \in SUBSET S |-> g[s]]
    OBVIOUS
  <2>2. Small(0) = {}
    BY <1>0
  <2> HIDE DEF g
  <2> QED
    BY <2>1, <2>2
<1>2. ASSUME NEW n \in Good PROVE n + 1 \in Good
  <2>1. PICK g : /\ g = [s \in SUBSET S |-> g[s]]
                 /\ \A s \in Small(n) : Equation(g, s)
    OBVIOUS
  <2> DEFINE h == [s \in SUBSET S |-> IF Cardinality(s) < n THEN g[s]
                                     ELSE IF s = {} THEN 0 ELSE f[Picked(s)] + g[s \ {Picked(s)}]]
  <2>2. ASSUME NEW s \in Small(n + 1) PROVE Equation(h, s)
    <3>1. CASE s = {}
      BY <1>0, <2>1, <3>1
    <3>2. CASE s # {}
      <4>1. Picked(s) \in s
        BY <3>2 DEF Picked
      <4>2. Cardinality(s \ {Picked(s)}) = Cardinality(s) - 1
        BY <1>0, <4>1, FS_RemoveElement
      <4>3. s \ {Picked(s)} \in Small(n)
        BY <1>0, <4>2
      <4>4. h[s \ {Picked(s)}] = g[s \ {Picked(s)}]
        BY <4>3
      <4>5. h[s] = f[Picked(s)] + g[s \ {Picked(s)}]
        BY <2>1, <3>2
      <4> QED
        BY <3>2, <4>4, <4>5
    <3> QED
      BY <3>1, <3>2
  <2>3. h = [s \in SUBSET S |-> h[s]]
    OBVIOUS
  <2>4. n \in Nat /\ n + 1 \in Nat
    OBVIOUS
  <2>5. \E k : k = [s \in SUBSET S |-> k[s]] /\ \A s \in Small(n + 1) : Equation(k, s)
    <3> HIDE DEF h
    <3> QED
      BY <2>2, <2>3
  <2> HIDE DEF h, Small, Equation
  <2> QED
    BY <2>4, <2>5
<1>3. Nat \subseteq Good
  <2> HIDE DEF Good
  <2> QED
    BY <1>1, <1>2, CountingInduction
<1>4. Cardinality(S) + 1 \in Good
  <2>1. Cardinality(S) + 1 \in Nat
    BY FS_CardinalityType
  <2> QED
    BY <1>3, <2>1
<1>5. PICK g : /\ g = [s \in SUBSET S |-> g[s]]
               /\ \A s \in Small(Cardinality(S) + 1) : Equation(g, s)
  BY <1>4
<1>6. SUBSET S \subseteq Small(Cardinality(S) + 1)
  <2>1. \A s \in SUBSET S : Cardinality(s) <= Cardinality(S)
    BY FS_Subset
  <2> QED
    BY <1>0, <2>1, FS_CardinalityType
<1>7. IsTable(g, f, S)
  <2>1. \A s \in SUBSET S : Equation(g, s)
    BY <1>5, <1>6
  <2> QED
    BY <1>5, <2>1 DEF IsTable
<1> QED
  BY <1>7

\* The sums of f over the subsets of S, as FoldSet computes them.
SumTable(f, S) == CHOOSE g : IsTable(g, f, S)

LEMMA SumIsTabled ==
  ASSUME NEW S, NEW f
  PROVE  SumOver(f, S) = SumTable(f, S)[S]
BY DEF SumOver, FoldSet, MapThenFoldSet, SumTable, IsTable, Picked

LEMMA TableEquation ==
  ASSUME NEW S, IsFiniteSet(S), NEW f
  PROVE  \A s \in SUBSET S : SumTable(f, S)[s] =
           IF s = {} THEN 0 ELSE f[Picked(s)] + SumTable(f, S)[s \ {Picked(s)}]
<1> DEFINE g == SumTable(f, S)
<1>1. IsTable(g, f, S)
  BY SumExists DEF SumTable
<1> HIDE DEF g
<1>2. \A s \in SUBSET S : g[s] = IF s = {} THEN 0 ELSE f[Picked(s)] + g[s \ {Picked(s)}]
  BY <1>1 DEF IsTable
<1> QED
  BY <1>2 DEF g

\* The table of a set says of a subset what the subset's own table says.
LEMMA TablesAgree ==
  ASSUME NEW S, IsFiniteSet(S), NEW T \in SUBSET S, NEW f
  PROVE  SumTable(f, T)[T] = SumTable(f, S)[T]
<1> DEFINE Good == {U \in SUBSET T : SumTable(f, T)[U] = SumTable(f, S)[U]}
<1>1. IsFiniteSet(T)
  BY FS_Subset
<1>2. ASSUME NEW U \in SUBSET T, \A V \in SUBSET U : V # U => V \in Good
      PROVE  U \in Good
  <2>1. U = {} \/ (Picked(U) \in U /\ U \ {Picked(U)} \in Good)
    <3>1. CASE U # {}
      <4>1. Picked(U) \in U
        BY <3>1 DEF Picked
      <4> QED
        BY <1>2, <4>1
    <3> QED
      BY <3>1
  <2>2. /\ SumTable(f, T)[U] = IF U = {} THEN 0 ELSE f[Picked(U)] + SumTable(f, T)[U \ {Picked(U)}]
        /\ SumTable(f, S)[U] = IF U = {} THEN 0 ELSE f[Picked(U)] + SumTable(f, S)[U \ {Picked(U)}]
    <3>1. U \in SUBSET S
      OBVIOUS
    <3> QED
      BY <1>1, <3>1, TableEquation
  <2> QED
    BY <2>1, <2>2
<1>3. T \in Good
  <2> HIDE DEF Good
  <2> QED
    BY <1>1, <1>2, FiniteInduction
<1> QED
  BY <1>3

\* A sum is one element and the sum of the others.
LEMMA SumEquation ==
  ASSUME NEW S, IsFiniteSet(S), NEW f
  PROVE  /\ SumOver(f, {}) = 0
         /\ S # {} => /\ Picked(S) \in S
                      /\ SumOver(f, S) = f[Picked(S)] + SumOver(f, S \ {Picked(S)})
<1>1. SumOver(f, {}) = 0
  BY SumIsTabled, TableEquation, FS_EmptySet
<1>2. ASSUME S # {}
      PROVE  /\ Picked(S) \in S
             /\ SumOver(f, S) = f[Picked(S)] + SumOver(f, S \ {Picked(S)})
  <2>1. Picked(S) \in S
    BY <1>2 DEF Picked
  <2>2. SumOver(f, S) = f[Picked(S)] + SumTable(f, S)[S \ {Picked(S)}]
    BY <1>2, SumIsTabled, TableEquation
  <2>3. SumOver(f, S \ {Picked(S)}) = SumTable(f, S)[S \ {Picked(S)}]
    BY SumIsTabled, TablesAgree
  <2> QED
    BY <2>1, <2>2, <2>3
<1> QED
  BY <1>1, <1>2

\* Sums of integers are integers, of natural numbers are natural numbers, and
\* only depend on what is summed up.
LEMMA SumType ==
  ASSUME NEW S, IsFiniteSet(S), NEW f, \A x \in S : f[x] \in Int
  PROVE  SumOver(f, S) \in Int
<1> DEFINE Good == {T \in SUBSET S : SumOver(f, T) \in Int}
<1>1. ASSUME NEW T \in SUBSET S, \A U \in SUBSET T : U # T => U \in Good
      PROVE  T \in Good
  <2>1. IsFiniteSet(T)
    BY FS_Subset
  <2>2. CASE T = {}
    BY <2>2, SumEquation, FS_EmptySet
  <2>3. CASE T # {}
    <3>1. Picked(T) \in T /\ SumOver(f, T) = f[Picked(T)] + SumOver(f, T \ {Picked(T)})
      BY <2>1, <2>3, SumEquation
    <3>2. T \ {Picked(T)} \in Good
      BY <1>1, <3>1
    <3> QED
      BY <3>1, <3>2
  <2> QED
    BY <2>2, <2>3
<1>2. S \in Good
  <2> HIDE DEF Good
  <2> QED
    BY <1>1, FiniteInduction
<1> QED
  BY <1>2

LEMMA SumTypeNat ==
  ASSUME NEW S, IsFiniteSet(S), NEW f, \A x \in S : f[x] \in Nat
  PROVE  SumOver(f, S) \in Nat
<1> DEFINE Good == {T \in SUBSET S : SumOver(f, T) \in Nat}
<1>1. ASSUME NEW T \in SUBSET S, \A U \in SUBSET T : U # T => U \in Good
      PROVE  T \in Good
  <2>1. IsFiniteSet(T)
    BY FS_Subset
  <2>2. CASE T = {}
    BY <2>2, SumEquation, FS_EmptySet
  <2>3. CASE T # {}
    <3>1. Picked(T) \in T /\ SumOver(f, T) = f[Picked(T)] + SumOver(f, T \ {Picked(T)})
      BY <2>1, <2>3, SumEquation
    <3>2. T \ {Picked(T)} \in Good
      BY <1>1, <3>1
    <3> QED
      BY <3>1, <3>2
  <2> QED
    BY <2>2, <2>3
<1>2. S \in Good
  <2> HIDE DEF Good
  <2> QED
    BY <1>1, FiniteInduction
<1> QED
  BY <1>2

LEMMA SumSame ==
  ASSUME NEW S, IsFiniteSet(S), NEW f, NEW g, \A x \in S : f[x] = g[x]
  PROVE  SumOver(f, S) = SumOver(g, S)
<1> DEFINE Good == {T \in SUBSET S : SumOver(f, T) = SumOver(g, T)}
<1>1. ASSUME NEW T \in SUBSET S, \A U \in SUBSET T : U # T => U \in Good
      PROVE  T \in Good
  <2>1. IsFiniteSet(T)
    BY FS_Subset
  <2>2. CASE T = {}
    BY <2>2, SumEquation, FS_EmptySet
  <2>3. CASE T # {}
    <3>1. /\ Picked(T) \in T
          /\ SumOver(f, T) = f[Picked(T)] + SumOver(f, T \ {Picked(T)})
          /\ SumOver(g, T) = g[Picked(T)] + SumOver(g, T \ {Picked(T)})
      BY <2>1, <2>3, SumEquation
    <3>2. T \ {Picked(T)} \in Good
      BY <1>1, <3>1
    <3> QED
      BY <3>1, <3>2
  <2> QED
    BY <2>2, <2>3
<1>2. S \in Good
  <2> HIDE DEF Good
  <2> QED
    BY <1>1, FiniteInduction
<1> QED
  BY <1>2

\* Any element can be taken out of a sum.
LEMMA SumTake ==
  ASSUME NEW S, IsFiniteSet(S), NEW f, \A x \in S : f[x] \in Int, NEW e \in S
  PROVE  SumOver(f, S) = f[e] + SumOver(f, S \ {e})
<1> DEFINE Good == {T \in SUBSET S : \A x \in T : SumOver(f, T) = f[x] + SumOver(f, T \ {x})}
<1>0. \A T \in SUBSET S : SumOver(f, T) \in Int
  BY FS_Subset, SumType
<1>1. ASSUME NEW T \in SUBSET S, \A U \in SUBSET T : U # T => U \in Good
      PROVE  T \in Good
  <2> SUFFICES ASSUME NEW x \in T PROVE SumOver(f, T) = f[x] + SumOver(f, T \ {x})
    OBVIOUS
  <2>1. PICK p \in T : SumOver(f, T) = f[p] + SumOver(f, T \ {p})
    BY FS_Subset, SumEquation
  <2>2. CASE p = x
    BY <2>1, <2>2
  <2>3. CASE p # x
    <3>1. SumOver(f, T \ {p}) = f[x] + SumOver(f, (T \ {p}) \ {x})
      BY <1>1, <2>3
    <3>2. SumOver(f, T \ {x}) = f[p] + SumOver(f, (T \ {x}) \ {p})
      BY <1>1, <2>3
    <3>3. (T \ {p}) \ {x} = (T \ {x}) \ {p} /\ (T \ {p}) \ {x} \in SUBSET S
      OBVIOUS
    <3>4. SumOver(f, (T \ {p}) \ {x}) \in Int /\ f[x] \in Int /\ f[p] \in Int
      BY <1>0, <3>3
    <3>5. SumOver(f, (T \ {x}) \ {p}) = SumOver(f, (T \ {p}) \ {x})
      BY <3>3
    <3> HIDE DEF Good
    <3> QED
      BY <2>1, <3>1, <3>2, <3>4, <3>5
  <2> QED
    BY <2>2, <2>3
<1>2. S \in Good
  <2> HIDE DEF Good
  <2> QED
    BY <1>1, FiniteInduction
<1> QED
  BY <1>2

\* The sum over two sets that share nothing.
LEMMA SumUnion ==
  ASSUME NEW S, IsFiniteSet(S), NEW T, IsFiniteSet(T), S \cap T = {},
         NEW f, \A x \in S \cup T : f[x] \in Int
  PROVE  SumOver(f, S \cup T) = SumOver(f, S) + SumOver(f, T)
<1> DEFINE Good == {U \in SUBSET T : SumOver(f, S \cup U) = SumOver(f, S) + SumOver(f, U)}
<1>0. \A U \in SUBSET T : /\ IsFiniteSet(U) /\ IsFiniteSet(S \cup U)
                         /\ SumOver(f, U) \in Int /\ SumOver(f, S \cup U) \in Int
  <2> TAKE U \in SUBSET T
  <2>1. IsFiniteSet(U) /\ IsFiniteSet(S \cup U)
    BY FS_Subset, FS_Union
  <2> QED
    BY <2>1, SumType
<1>1. ASSUME NEW U \in SUBSET T, \A V \in SUBSET U : V # U => V \in Good
      PROVE  U \in Good
  <2>1. CASE U = {}
    <3>1. S \cup U = S /\ SumOver(f, U) = 0 /\ SumOver(f, S) \in Int
      BY <1>0, <2>1, SumEquation, SumType
    <3>2. SumOver(f, S \cup U) = SumOver(f, S)
      BY <3>1
    <3>3. SumOver(f, S \cup U) = SumOver(f, S) + SumOver(f, U)
      BY <3>1, <3>2
    <3> QED
      BY <3>3
  <2>2. CASE U # {}
    <3>1. PICK x \in U : TRUE
      BY <2>2
    <3>2. SumOver(f, S \cup (U \ {x})) = SumOver(f, S) + SumOver(f, U \ {x})
      BY <1>1, <3>1
    <3>3. (S \cup U) \ {x} = S \cup (U \ {x})
      BY <3>1
    <3>4. SumOver(f, S \cup U) = f[x] + SumOver(f, S \cup (U \ {x}))
      <4>1. SumOver(f, S \cup U) = f[x] + SumOver(f, (S \cup U) \ {x})
        BY <1>0, <3>1, SumTake
      <4> QED
        BY <3>3, <4>1
    <3>5. SumOver(f, U) = f[x] + SumOver(f, U \ {x})
      BY <1>0, <3>1, SumTake
    <3>6. f[x] \in Int /\ SumOver(f, S) \in Int /\ SumOver(f, U \ {x}) \in Int
      BY <1>0, SumType
    <3>7. SumOver(f, S \cup U) = SumOver(f, S) + SumOver(f, U)
      <4> HIDE DEF Good
      <4> QED
        BY <3>2, <3>4, <3>5, <3>6
    <3> QED
      BY <3>7
  <2> QED
    BY <2>1, <2>2
<1>2. T \in Good
  <2> HIDE DEF Good
  <2> QED
    BY <1>1, FiniteInduction
<1> QED
  BY <1>2

\* A change of one summand.
LEMMA SumGrow ==
  ASSUME NEW S, IsFiniteSet(S), NEW f, NEW g, NEW e \in S, NEW k \in Int,
         \A x \in S : f[x] \in Int /\ g[x] \in Int, \A x \in S \ {e} : f[x] = g[x], g[e] = f[e] + k
  PROVE  SumOver(g, S) = SumOver(f, S) + k /\ SumOver(f, S) \in Int
<1>1. IsFiniteSet(S \ {e})
  BY FS_Subset
<1>2. SumOver(f, S) = f[e] + SumOver(f, S \ {e}) /\ SumOver(g, S) = g[e] + SumOver(g, S \ {e})
  BY SumTake
<1>3. SumOver(f, S \ {e}) = SumOver(g, S \ {e}) /\ SumOver(f, S \ {e}) \in Int
  BY <1>1, SumSame, SumType
<1> QED
  BY <1>2, <1>3

\* A summand more, and one less.
LEMMA SumAdd ==
  ASSUME NEW S, IsFiniteSet(S), NEW f, NEW g, NEW e, e \notin S,
         \A x \in S : f[x] \in Int /\ f[x] = g[x], g[e] \in Int
  PROVE  SumOver(g, S \cup {e}) = SumOver(f, S) + g[e] /\ SumOver(f, S) \in Int
<1>1. IsFiniteSet(S \cup {e}) /\ \A x \in S \cup {e} : g[x] \in Int
  BY FS_AddElement
<1>2. SumOver(g, S \cup {e}) = g[e] + SumOver(g, (S \cup {e}) \ {e})
  BY <1>1, SumTake
<1>3. (S \cup {e}) \ {e} = S
  OBVIOUS
<1>4. SumOver(g, S) = SumOver(f, S) /\ SumOver(f, S) \in Int
  BY SumSame, SumType
<1>5. SumOver(g, S \cup {e}) = g[e] + SumOver(f, S)
  BY <1>2, <1>3, <1>4, Zenon
<1> QED
  BY <1>4, <1>5

LEMMA SumDrop ==
  ASSUME NEW S, IsFiniteSet(S), NEW f, NEW e \in S, \A x \in S : f[x] \in Int
  PROVE  SumOver(f, S) = f[e] + SumOver(f, S \ {e}) /\ SumOver(f, S \ {e}) \in Int
<1>1. IsFiniteSet(S \ {e})
  BY FS_Subset
<1> QED
  BY <1>1, SumTake, SumType

\* Of zeros.
LEMMA SumOfZeros ==
  ASSUME NEW S, IsFiniteSet(S), NEW f, \A x \in S : f[x] = 0
  PROVE  SumOver(f, S) = 0
<1> DEFINE Good == {T \in SUBSET S : SumOver(f, T) = 0}
<1>1. ASSUME NEW T \in SUBSET S, \A U \in SUBSET T : U # T => U \in Good
      PROVE  T \in Good
  <2>1. IsFiniteSet(T)
    BY FS_Subset
  <2>2. CASE T = {}
    BY <2>2, SumEquation, FS_EmptySet
  <2>3. CASE T # {}
    <3>1. Picked(T) \in T /\ SumOver(f, T) = f[Picked(T)] + SumOver(f, T \ {Picked(T)})
      BY <2>1, <2>3, SumEquation
    <3>2. T \ {Picked(T)} \in Good
      BY <1>1, <3>1
    <3> QED
      BY <3>1, <3>2
  <2> QED
    BY <2>2, <2>3
<1>2. S \in Good
  <2> HIDE DEF Good
  <2> QED
    BY <1>1, FiniteInduction
<1> QED
  BY <1>2

-----------------------------------------------------------------------------
(* SubtreeOf and ScannedSize *)

\* Every directory lists finitely many entries, which are in it.
LEMMA ListingFacts ==
  /\ IsFiniteSet(Entries)
  /\ \A d : /\ Children(d) \subseteq Entries /\ IsFiniteSet(Children(d))
           /\ \A c \in Children(d) : Parent[c] = d
  /\ \A e \in Entries : e \in Children(Parent[e]) /\ Parent[e] \in Dirs
  /\ \A e \in Files : e \in Entries /\ Children(e) = {}
  /\ \A e \in Dirs \cup Files : e # Root <=> e \in Entries
<1>1. IsFiniteSet(Entries)
  <2>1. IsFiniteSet(Dirs \cup Files)
    BY TreeAssumption, BytesAssumption, FS_Union
  <2> QED
    BY <2>1, FS_Subset DEF Entries
<1>2. \A d : Children(d) \subseteq Entries /\ IsFiniteSet(Children(d))
  <2> TAKE d
  <2>1. Children(d) \in SUBSET Entries
    BY DEF Children
  <2> QED
    BY <1>1, <2>1, FS_Subset
<1> QED
  BY <1>1, <1>2, TreeAssumption DEF Entries, Children

\* What lies below an entry is the entry and what lies below its entries.
LEMMA SubtreeEquation ==
  /\ SubtreeOf \in [Entries -> SUBSET Entries]
  /\ \A e \in Entries : SubtreeOf[e] = {e} \cup UNION {SubtreeOf[c] : c \in {x \in Entries : Parent[x] = e}}
<1> DEFINE All == Dirs \cup Files
           Below(f, x) == {x} \cup UNION {f[c] : c \in {y \in Entries : Parent[y] = x}}
           step == [p \in All \X [All -> SUBSET All] |-> Below(p[2], p[1])]
<1>1. Entries \subseteq All
  BY DEF Entries
<1>2. ASSUME NEW x \in All, NEW f \in [All -> SUBSET All]
      PROVE  step[<<x, f>>] = Below(f, x) /\ Below(f, x) \in SUBSET All
  BY <1>1
<1>3. step \in [All \X [All -> SUBSET All] -> SUBSET All]
  BY <1>2
<1>4. ASSUME NEW x \in All, NEW f \in [All -> SUBSET All], NEW g \in [All -> SUBSET All],
             \A c \in Children(x) : f[c] = g[c]
      PROVE  step[<<x, f>>] = step[<<x, g>>]
  <2>1. Below(f, x) = Below(g, x)
    BY <1>4 DEF Children
  <2> HIDE DEF step
  <2> QED
    BY <1>2, <2>1
<1>5. PICK f \in [All -> SUBSET All] : \A x \in All : f[x] = step[<<x, f>>]
  <2>1. {} \in SUBSET All
    OBVIOUS
  <2>2. \A x \in Dirs \cup Files : \A h, k \in [Dirs \cup Files -> SUBSET All] :
          (\A c \in Children(x) : h[c] = k[c]) => step[<<x, h>>] = step[<<x, k>>]
    <3> HIDE DEF step
    <3> QED
      BY <1>4
  <2> DEFINE V == SUBSET All
  <2>3. step \in StepsUp(V) /\ {} \in V
    <3> HIDE DEF step
    <3> QED
      BY <1>3, <2>1, <2>2 DEF StepsUp
  <2>4. \E f \in [Dirs \cup Files -> V] : \A x \in Dirs \cup Files : f[x] = step[<<x, f>>]
    <3> HIDE DEF step, V
    <3> QED
      BY <2>3, RecursionUp
  <2> QED
    BY <2>4
<1> DEFINE g == [e \in Entries |-> f[e]]
<1>6. \A e \in Entries : g[e] = Below(g, e)
  <2> TAKE e \in Entries
  <2>1. f[e] = Below(f, e)
    <3> HIDE DEF Below, step
    <3> QED
      BY <1>1, <1>2, <1>5
  <2>2. Below(f, e) = Below(g, e)
    <3>1. \A c \in {y \in Entries : Parent[y] = e} : f[c] = g[c]
      OBVIOUS
    <3> HIDE DEF g
    <3> QED
      BY <3>1
  <2>3. g[e] = f[e]
    OBVIOUS
  <2> HIDE DEF Below, g
  <2> QED
    BY <2>1, <2>2, <2>3
<1> DEFINE IsSubtree(h) == h = [e \in Entries |-> Below(h, e)]
<1>7. IsSubtree(g)
  BY <1>6
<1>8. SubtreeOf = CHOOSE h : IsSubtree(h)
  BY DEF SubtreeOf
<1>9. IsSubtree(SubtreeOf)
  <2> HIDE DEF IsSubtree, g
  <2> QED
    BY <1>7, <1>8
<1>10. \A e \in Entries : SubtreeOf[e] = Below(SubtreeOf, e)
  BY <1>9
<1> DEFINE Good == {x \in All : x \in Entries => SubtreeOf[x] \subseteq Entries}
<1>11. ASSUME NEW x \in All, \A c \in Entries : Parent[c] = x => c \in Good
       PROVE  x \in Good
  BY <1>10, <1>11
<1>12. All \subseteq Good
  <2> HIDE DEF Good
  <2> QED
    BY <1>11, UpTheTree
<1> QED
  BY <1>1, <1>9, <1>10, <1>12

\* An entry is at or below itself, and what is below what is below it is
\* below it.
LEMMA SubtreeFacts ==
  /\ \A e \in Entries : e \in SubtreeOf[e] /\ SubtreeOf[e] \subseteq Entries
  /\ \A c \in Entries : Parent[c] # Root => SubtreeOf[c] \subseteq SubtreeOf[Parent[c]]
BY SubtreeEquation, ListingFacts, TreeAssumption DEF Entries

\* Below an entry, the directory of everything else is there too.
LEMMA BelowFacts ==
  \A e \in Entries : \A x \in SubtreeOf[e] \ {e} : Parent[x] # Root /\ Parent[x] \in SubtreeOf[e]
<1> DEFINE Fine(e) == \A x \in SubtreeOf[e] \ {e} : Parent[x] # Root /\ Parent[x] \in SubtreeOf[e]
           Good == {e \in Dirs \cup Files : e \in Entries => Fine(e)}
<1>1. ASSUME NEW e \in Dirs \cup Files, \A c \in Entries : Parent[c] = e => c \in Good
      PROVE  e \in Good
  <2> SUFFICES ASSUME e \in Entries, NEW x \in SubtreeOf[e] \ {e}
               PROVE  Parent[x] # Root /\ Parent[x] \in SubtreeOf[e]
    OBVIOUS
  <2>1. PICK c \in Entries : Parent[c] = e /\ x \in SubtreeOf[c]
    BY SubtreeEquation
  <2>2. SubtreeOf[c] \subseteq SubtreeOf[e] /\ e # Root /\ e \in SubtreeOf[e]
    BY <2>1, SubtreeFacts DEF Entries
  <2>3. CASE x = c
    BY <2>1, <2>2, <2>3
  <2>4. CASE x # c
    <3>1. Parent[x] # Root /\ Parent[x] \in SubtreeOf[c]
      BY <1>1, <2>1, <2>4
    <3> QED
      BY <2>2, <3>1
  <2> QED
    BY <2>3, <2>4
<1>2. Dirs \cup Files \subseteq Good
  <2> HIDE DEF Good
  <2> QED
    BY <1>1, UpTheTree
<1> QED
  BY <1>2 DEF Entries

\* No directory is its own.
LEMMA NoLoop == \A e \in Entries : Parent[e] # e
<1> SUFFICES ASSUME NEW e \in Entries, Parent[e] = e PROVE FALSE
  OBVIOUS
<1>1. {e} \in SUBSET (Dirs \ {Root}) /\ {e} # {}
  BY TreeAssumption DEF Entries
<1> QED
  BY <1>1, AcyclicAssumption

LEMMA EmptySizeType == EmptyDirSize \in Nat /\ \A d : EmptySize(d) \in Int
BY DEF EmptySize, EmptyDirSize

\* The scanned size of a directory is the sum of the sizes of its entries, and
\* 512 if it has none.
LEMMA ScannedSizeEquation ==
  /\ ScannedSize \in [Dirs -> Nat]
  /\ \A d \in Dirs : ScannedSize[d] =
       EmptySize(d) + SumOver(Bytes, Children(d) \cap Files) + SumOver(ScannedSize, Children(d) \cap Dirs)
<1> DEFINE All == Dirs \cup Files
           Total(f, d) == EmptySize(d) + SumOver(Bytes, Children(d) \cap Files)
                                       + SumOver(f, Children(d) \cap Dirs)
           step == [p \in All \X [All -> Nat] |-> Total(p[2], p[1])]
<1>1. ASSUME NEW x \in All, NEW f \in [All -> Nat]
      PROVE  step[<<x, f>>] = Total(f, x) /\ Total(f, x) \in Nat
  <2>0. step[<<x, f>>] = Total(f, x)
    <3>1. <<x, f>> \in All \X [All -> Nat]
      OBVIOUS
    <3> HIDE DEF Total
    <3> QED
      BY <3>1
  <2>1. SumOver(Bytes, Children(x) \cap Files) \in Nat
    BY ListingFacts, FS_Intersection, SumTypeNat, BytesAssumption
  <2>2. SumOver(f, Children(x) \cap Dirs) \in Nat
    BY ListingFacts, FS_Intersection, SumTypeNat
  <2>3. Total(f, x) \in Nat
    BY <2>1, <2>2 DEF EmptySize, EmptyDirSize
  <2> QED
    BY <2>0, <2>3
<1>2. step \in [All \X [All -> Nat] -> Nat]
  BY <1>1
<1>3. ASSUME NEW x \in All, NEW f \in [All -> Nat], NEW g \in [All -> Nat],
             \A c \in Children(x) : f[c] = g[c]
      PROVE  step[<<x, f>>] = step[<<x, g>>]
  <2>1. SumOver(f, Children(x) \cap Dirs) = SumOver(g, Children(x) \cap Dirs)
    <3>1. IsFiniteSet(Children(x) \cap Dirs)
      BY ListingFacts, FS_Intersection
    <3> QED
      BY <1>3, <3>1, SumSame
  <2> HIDE DEF step
  <2> QED
    BY <1>1, <2>1
<1>4. PICK f \in [All -> Nat] : \A x \in All : f[x] = step[<<x, f>>]
  <2>1. \A x \in Dirs \cup Files : \A h, k \in [Dirs \cup Files -> Nat] :
          (\A c \in Children(x) : h[c] = k[c]) => step[<<x, h>>] = step[<<x, k>>]
    <3> HIDE DEF step
    <3> QED
      BY <1>3
  <2> DEFINE V == Nat
  <2>2. step \in StepsUp(V) /\ 0 \in V
    <3> HIDE DEF step
    <3> QED
      BY <1>2, <2>1 DEF StepsUp
  <2>3. \E f \in [Dirs \cup Files -> V] : \A x \in Dirs \cup Files : f[x] = step[<<x, f>>]
    <3> HIDE DEF step, V
    <3> QED
      BY <2>2, RecursionUp
  <2> QED
    BY <2>3
<1> DEFINE g == [d \in Dirs |-> f[d]]
           IsSize(h) == h = [d \in Dirs |-> Total(h, d)]
<1>5. \A d \in Dirs : g[d] = Total(g, d)
  <2> TAKE d \in Dirs
  <2>1. f[d] = Total(f, d)
    BY <1>1, <1>4
  <2>2. SumOver(f, Children(d) \cap Dirs) = SumOver(g, Children(d) \cap Dirs)
    <3>1. IsFiniteSet(Children(d) \cap Dirs) /\ \A c \in Children(d) \cap Dirs : f[c] = g[c]
      BY ListingFacts, FS_Intersection
    <3> HIDE DEF g
    <3> QED
      BY <3>1, SumSame
  <2>3. g[d] = f[d]
    OBVIOUS
  <2> HIDE DEF g
  <2> QED
    BY <2>1, <2>2, <2>3
<1>6. IsSize(g)
  BY <1>5
<1>7. ScannedSize = CHOOSE h : IsSize(h)
  BY DEF ScannedSize
<1>8. IsSize(ScannedSize)
  <2> HIDE DEF IsSize, g
  <2> QED
    BY <1>6, <1>7
<1>9. \A d \in Dirs : ScannedSize[d] = Total(ScannedSize, d)
  BY <1>8
<1> DEFINE Good == {x \in All : x \in Dirs => ScannedSize[x] \in Nat}
<1>10. ASSUME NEW x \in All, \A c \in Entries : Parent[c] = x => c \in Good
       PROVE  x \in Good
  <2>1. SumOver(Bytes, Children(x) \cap Files) \in Nat
    BY ListingFacts, FS_Intersection, SumTypeNat, BytesAssumption
  <2>2. SumOver(ScannedSize, Children(x) \cap Dirs) \in Nat
    <3>1. IsFiniteSet(Children(x) \cap Dirs) /\ \A c \in Children(x) \cap Dirs : ScannedSize[c] \in Nat
      BY <1>10, ListingFacts, FS_Intersection
    <3> QED
      BY <3>1, SumTypeNat
  <2>3. Total(ScannedSize, x) \in Nat
    BY <2>1, <2>2 DEF EmptySize, EmptyDirSize
  <2> HIDE DEF Total
  <2> QED
    BY <1>9, <2>3
<1>11. All \subseteq Good
  <2> HIDE DEF Good
  <2> QED
    BY <1>10, UpTheTree
<1> QED
  BY <1>8, <1>9, <1>11

-----------------------------------------------------------------------------
(* What can be reached by descending from the top *)

\* What is found in a tree that lists fs.
IsFound(fs, f) == f = [e \in Entries |-> e \in fs[Parent[e]] /\ (Parent[e] = Root \/ f[Parent[e]])]

\* findNode is defined for every tree: an entry is found if it is listed and
\* its directory, unless that is the top, is found.
LEMMA FoundExists ==
  ASSUME NEW fs
  PROVE  \E f : IsFound(fs, f)
<1> DEFINE start == [e \in Entries |-> e \in fs[Parent[e]]]
           step == [p \in Entries \X BOOLEAN |-> p[1] \in fs[Parent[p[1]]] /\ p[2]]
           V == BOOLEAN
<1>1. start \in [Entries -> V] /\ step \in [Entries \X V -> V] /\ TRUE \in V
  OBVIOUS
<1>2. /\ \A e \in Entries : start[e] = (e \in fs[Parent[e]])
      /\ \A e \in Entries : \A v \in V : step[<<e, v>>] = (e \in fs[Parent[e]] /\ v)
  OBVIOUS
<1>3. PICK f \in [Entries -> V] : \A e \in Entries :
        f[e] = IF Parent[e] = Root THEN start[e] ELSE step[<<e, f[Parent[e]]>>]
  <2> HIDE DEF start, step, V
  <2> QED
    BY <1>1, RecursionDown
<1>4. \A e \in Entries : Parent[e] = Root \/ Parent[e] \in Entries
  BY TreeAssumption DEF Entries
<1>5. ASSUME NEW e \in Entries
      PROVE  f[e] = (e \in fs[Parent[e]] /\ (Parent[e] = Root \/ f[Parent[e]]))
  <2>1. CASE Parent[e] = Root
    <3> HIDE DEF start, step
    <3> QED
      BY <1>2, <1>3, <2>1
  <2>2. CASE Parent[e] # Root
    <3>1. f[Parent[e]] \in V
      BY <1>3, <1>4, <2>2
    <3> HIDE DEF start, step
    <3> QED
      BY <1>2, <1>3, <2>2, <3>1
  <2> QED
    BY <2>1, <2>2
<1>6. f = [e \in Entries |-> e \in fs[Parent[e]] /\ (Parent[e] = Root \/ f[Parent[e]])]
  <2> HIDE DEF V
  <2> QED
    BY <1>3, <1>5
<1> QED
  BY <1>6 DEF IsFound

\* The directory an item is found in is found without the item as well.
LEMMA FoundWithoutItem ==
  ASSUME NEW fs \in [Dirs -> SUBSET Entries], NEW item \in Entries,
         NEW f, IsFound(fs, f), f[item],
         NEW g, IsFound([fs EXCEPT ![Parent[item]] = @ \ {item}], g)
  PROVE  Parent[item] = Root \/ g[Parent[item]]
<1> DEFINE fs2 == [fs EXCEPT ![Parent[item]] = @ \ {item}]
<1>0. /\ \A e \in Entries : f[e] = (e \in fs[Parent[e]] /\ (Parent[e] = Root \/ f[Parent[e]]))
      /\ \A e \in Entries : g[e] = (e \in fs2[Parent[e]] /\ (Parent[e] = Root \/ g[Parent[e]]))
  BY DEF IsFound
<1> SUFFICES ASSUME Parent[item] # Root, ~g[Parent[item]] PROVE FALSE
  OBVIOUS
<1> DEFINE Lost == {d \in Dirs \ {Root} : f[d] /\ ~g[d]}
<1>1. /\ \A e \in Entries : Parent[e] \in Dirs
      /\ Dirs \ {Root} \subseteq Entries
  BY TreeAssumption DEF Entries
<1>2. Parent[item] \in Lost
  BY <1>0, <1>1
<1>3. ASSUME NEW d \in Lost PROVE Parent[d] \in Lost
  <2>1. CASE d = item
    BY <1>2, <2>1
  <2>2. CASE d # item
    <3>1. d \in fs[Parent[d]] /\ (Parent[d] = Root \/ f[Parent[d]])
      BY <1>0, <1>1
    <3>2. d \in fs2[Parent[d]]
      BY <1>1, <2>2, <3>1
    <3>3. Parent[d] # Root /\ ~g[Parent[d]]
      BY <1>0, <1>1, <3>2
    <3> QED
      BY <1>1, <3>1, <3>3
  <2> QED
    BY <2>1, <2>2
<1> QED
  BY <1>2, <1>3, AcyclicAssumption

-----------------------------------------------------------------------------
(* What the directories of a tree list in all *)

\* The sum of the sizes of what d lists.
Listed(fs, sz, d) == SumOver([e \in fs[d] |-> IF e \in Files THEN Bytes[e] ELSE sz[e]], fs[d])
Listings(fs) == fs \in [Dirs -> SUBSET Entries] /\ \A d \in Dirs : fs[d] \subseteq Children(d)

LEMMA ListedType ==
  ASSUME NEW fs, Listings(fs), NEW sz \in [Dirs -> Int], NEW d \in Dirs
  PROVE  /\ IsFiniteSet(fs[d])
         /\ \A e \in fs[d] : (IF e \in Files THEN Bytes[e] ELSE sz[e]) \in Int
         /\ Listed(fs, sz, d) \in Int
<1>1. IsFiniteSet(fs[d]) /\ fs[d] \subseteq Dirs \cup Files
  <2>1. fs[d] \in SUBSET Children(d) /\ Children(d) \subseteq Entries
    BY ListingFacts DEF Listings
  <2> QED
    BY <2>1, ListingFacts, FS_Subset DEF Entries
<1>2. \A e \in fs[d] : (IF e \in Files THEN Bytes[e] ELSE sz[e]) \in Int
  BY <1>1, BytesAssumption
<1> DEFINE f == [e \in fs[d] |-> IF e \in Files THEN Bytes[e] ELSE sz[e]]
<1>3. \A e \in fs[d] : f[e] \in Int
  BY <1>2
<1>4. SumOver(f, fs[d]) \in Int
  <2> HIDE DEF f
  <2> QED
    BY <1>1, <1>3, SumType
<1> QED
  BY <1>1, <1>2, <1>4 DEF Listed

\* The total of the directory an item is taken from falls by the item's size;
\* the other totals stay.
LEMMA ListedUnlink ==
  ASSUME NEW fs, Listings(fs), NEW sz \in [Dirs -> Int], NEW item \in Entries,
         item \in fs[Parent[item]], NEW d \in Dirs
  PROVE  Listed([fs EXCEPT ![Parent[item]] = @ \ {item}], sz, d) =
           Listed(fs, sz, d) - IF d = Parent[item]
                              THEN IF item \in Files THEN Bytes[item] ELSE sz[item] ELSE 0
<1> DEFINE fs2 == [fs EXCEPT ![Parent[item]] = @ \ {item}]
           f == [e \in fs[d] |-> IF e \in Files THEN Bytes[e] ELSE sz[e]]
           g == [e \in fs2[d] |-> IF e \in Files THEN Bytes[e] ELSE sz[e]]
<1>1. Listed(fs2, sz, d) = SumOver(g, fs2[d]) /\ Listed(fs, sz, d) = SumOver(f, fs[d])
  BY DEF Listed
<1>2. /\ IsFiniteSet(fs[d]) /\ \A e \in fs[d] : f[e] \in Int
      /\ Listed(fs, sz, d) \in Int
  BY ListedType
<1>3. fs2[d] = IF d = Parent[item] THEN fs[d] \ {item} ELSE fs[d]
  BY DEF Listings
<1>4. SumOver(g, fs2[d]) = SumOver(f, fs2[d])
  <2>1. fs2[d] \in SUBSET fs[d]
    BY <1>3
  <2>2. \A e \in fs2[d] : g[e] = f[e]
    BY <2>1
  <2>3. IsFiniteSet(fs2[d])
    BY <1>2, <2>1, FS_Subset
  <2> HIDE DEF f, g, fs2
  <2> QED
    BY <2>2, <2>3, SumSame
<1>5. CASE d = Parent[item]
  <2>1. fs2[d] = fs[d] \ {item} /\ item \in fs[d]
    BY <1>3, <1>5
  <2>2. f[item] = (IF item \in Files THEN Bytes[item] ELSE sz[item])
    BY <2>1
  <2>3. SumOver(f, fs[d]) = f[item] + SumOver(f, fs[d] \ {item})
    <3> HIDE DEF f
    <3> QED
      BY <1>2, <2>1, SumTake
  <2>4. SumOver(f, fs[d] \ {item}) \in Int /\ f[item] \in Int
    <3>1. IsFiniteSet(fs[d] \ {item})
      BY <1>2, FS_Subset
    <3> HIDE DEF f
    <3> QED
      BY <1>2, <2>1, <3>1, SumType
  <2>5. SumOver(g, fs2[d]) = SumOver(f, fs[d]) - f[item]
    <3>1. SumOver(f, fs[d]) \in Int
      BY <1>1, <1>2
    <3> HIDE DEF f, g, fs2
    <3> QED
      BY <1>4, <2>1, <2>3, <2>4, <3>1
  <2>6. Listed(fs2, sz, d) = Listed(fs, sz, d) - f[item]
    BY <1>1, <2>5
  <2> HIDE DEF f, g
  <2> QED
    BY <1>5, <2>2, <2>6
<1>6. CASE d # Parent[item]
  <2>1. fs2[d] = fs[d]
    BY <1>3, <1>6
  <2> HIDE DEF f, g
  <2> QED
    BY <1>1, <1>2, <1>4, <1>6, <2>1
<1> QED
  BY <1>5, <1>6

\* When a listed directory's size falls, so does the total of the directory
\* above it; the top directory's is part of no total.
LEMMA ListedSubtract ==
  ASSUME NEW fs, Listings(fs), NEW sz \in [Dirs -> Int], NEW amount \in Int, NEW dir \in Dirs,
         dir # Root => dir \in fs[Parent[dir]], NEW d \in Dirs
  PROVE  Listed(fs, [sz EXCEPT ![dir] = @ - amount], d) =
           Listed(fs, sz, d) - IF dir # Root /\ d = Parent[dir] THEN amount ELSE 0
<1> DEFINE sz2 == [sz EXCEPT ![dir] = @ - amount]
           f == [e \in fs[d] |-> IF e \in Files THEN Bytes[e] ELSE sz[e]]
           g == [e \in fs[d] |-> IF e \in Files THEN Bytes[e] ELSE sz2[e]]
<1>1. Listed(fs, sz2, d) = SumOver(g, fs[d]) /\ Listed(fs, sz, d) = SumOver(f, fs[d])
  BY DEF Listed
<1>2. sz2 \in [Dirs -> Int]
  OBVIOUS
<1>3. /\ IsFiniteSet(fs[d]) /\ \A e \in fs[d] : f[e] \in Int
      /\ SumOver(f, fs[d]) \in Int
  <2>1. SumOver(f, fs[d]) = Listed(fs, sz, d)
    BY DEF Listed
  <2> QED
    BY <2>1, ListedType
<1>4. \A e \in fs[d] : g[e] \in Int
  <2> HIDE DEF sz2
  <2> QED
    BY <1>2, ListedType
<1>5. \A e \in fs[d] : e \in Entries /\ Parent[e] = d
  BY ListingFacts DEF Listings
<1>6. dir \notin Files
  BY TreeAssumption
<1>7. \A e \in fs[d] \ {dir} : f[e] = g[e]
  BY <1>5 DEF Entries
<1>8. CASE dir # Root /\ d = Parent[dir]
  <2>1. dir \in fs[d] /\ f[dir] = sz[dir] /\ g[dir] = sz[dir] - amount
    BY <1>6, <1>8
  <2>2. SumOver(g, fs[d]) = SumOver(f, fs[d]) - f[dir] + g[dir]
    <3>1. \A e \in fs[d] : f[e] \in Int /\ g[e] \in Int
      BY <1>3, <1>4
    <3>2. dir \in fs[d] /\ IsFiniteSet(fs[d])
      BY <1>3, <2>1
    <3>3. \A e \in fs[d] \ {dir} : f[e] = g[e]
      BY <1>7
    <3> HIDE DEF f, g, sz2
    <3> DEFINE S == fs[d]
    <3>4. /\ IsFiniteSet(S) /\ dir \in S
          /\ \A e \in S : f[e] \in Int /\ g[e] \in Int
          /\ \A e \in S \ {dir} : f[e] = g[e]
      BY <3>1, <3>2, <3>3
    <3>5. SumOver(g, S) = SumOver(f, S) - f[dir] + g[dir]
      <4> HIDE DEF S
      <4>1. SumOver(f, S) = f[dir] + SumOver(f, S \ {dir}) /\ SumOver(g, S) = g[dir] + SumOver(g, S \ {dir})
        BY <3>4, SumTake
      <4>2. IsFiniteSet(S \ {dir})
        BY <3>4, FS_Subset
      <4>3. SumOver(f, S \ {dir}) = SumOver(g, S \ {dir}) /\ SumOver(f, S \ {dir}) \in Int
        BY <3>4, <4>2, SumSame, SumType
      <4> QED
        BY <3>4, <4>1, <4>3
    <3> QED
      BY <3>5
  <2>3. SumOver(g, fs[d]) = SumOver(f, fs[d]) - amount
    <3> HIDE DEF f, g, sz2
    <3> QED
      BY <1>3, <2>1, <2>2
  <2> HIDE DEF f, g
  <2> QED
    BY <1>1, <1>8, <2>3
<1>9. CASE ~(dir # Root /\ d = Parent[dir])
  <2>1. dir \notin fs[d]
    BY <1>5, <1>9 DEF Entries
  <2>2. SumOver(f, fs[d]) = SumOver(g, fs[d])
    <3> HIDE DEF f, g
    <3> QED
      BY <1>3, <1>7, <2>1, SumSame
  <2> HIDE DEF f, g
  <2> QED
    BY <1>1, <1>3, <1>9, <2>2
<1> QED
  BY <1>8, <1>9

\* A directory's size as the code keeps it: also what it counts for itself.
Total(fs, sz, d) == EmptySize(d) + Listed(fs, sz, d)

LEMMA TotalType ==
  ASSUME NEW fs, Listings(fs), NEW sz \in [Dirs -> Int], NEW d \in Dirs
  PROVE  /\ IsFiniteSet(fs[d])
         /\ \A e \in fs[d] : (IF e \in Files THEN Bytes[e] ELSE sz[e]) \in Int
         /\ Total(fs, sz, d) \in Int
<1>1. Listed(fs, sz, d) \in Int /\ EmptySize(d) \in Int
  BY ListedType DEF EmptySize, EmptyDirSize
<1> QED
  BY <1>1, ListedType DEF Total

LEMMA TotalUnlink ==
  ASSUME NEW fs, Listings(fs), NEW sz \in [Dirs -> Int], NEW item \in Entries,
         item \in fs[Parent[item]], NEW d \in Dirs
  PROVE  Total([fs EXCEPT ![Parent[item]] = @ \ {item}], sz, d) =
           Total(fs, sz, d) - IF d = Parent[item]
                              THEN IF item \in Files THEN Bytes[item] ELSE sz[item] ELSE 0
<1> DEFINE fs2 == [fs EXCEPT ![Parent[item]] = @ \ {item}]
           n == IF d = Parent[item] THEN IF item \in Files THEN Bytes[item] ELSE sz[item] ELSE 0
<1>1. Listed(fs2, sz, d) = Listed(fs, sz, d) - n
  BY ListedUnlink
<1>2. Listed(fs, sz, d) \in Int /\ EmptySize(d) \in Int
  BY ListedType DEF EmptySize, EmptyDirSize
<1>3. n \in Int
  BY BytesAssumption, TreeAssumption DEF Entries
<1> HIDE DEF n, fs2
<1>4. Total(fs2, sz, d) = Total(fs, sz, d) - n
  BY <1>1, <1>2, <1>3 DEF Total
<1> QED
  BY <1>4 DEF n, fs2

LEMMA TotalSubtract ==
  ASSUME NEW fs, Listings(fs), NEW sz \in [Dirs -> Int], NEW amount \in Int, NEW dir \in Dirs,
         dir # Root => dir \in fs[Parent[dir]], NEW d \in Dirs
  PROVE  Total(fs, [sz EXCEPT ![dir] = @ - amount], d) =
           Total(fs, sz, d) - IF dir # Root /\ d = Parent[dir] THEN amount ELSE 0
<1> DEFINE sz2 == [sz EXCEPT ![dir] = @ - amount]
           n == IF dir # Root /\ d = Parent[dir] THEN amount ELSE 0
<1>1. Listed(fs, sz2, d) = Listed(fs, sz, d) - n
  BY ListedSubtract
<1>2. Listed(fs, sz, d) \in Int /\ EmptySize(d) \in Int /\ n \in Int
  BY ListedType DEF EmptySize, EmptyDirSize
<1> HIDE DEF n, sz2
<1>3. Total(fs, sz2, d) = Total(fs, sz, d) - n
  BY <1>1, <1>2 DEF Total
<1> QED
  BY <1>3 DEF n, sz2

\* After the scan every directory's size is that of what it lists and its own.
LEMMA ScannedTotals ==
  \A d \in Dirs : ScannedSize[d] = Total([x \in Dirs |-> Children(x)], ScannedSize, d)
<1> TAKE d \in Dirs
<1> DEFINE f == [e \in Children(d) |-> IF e \in Files THEN Bytes[e] ELSE ScannedSize[e]]
           F == Children(d) \cap Files
           D == Children(d) \cap Dirs
<1>1. Listed([x \in Dirs |-> Children(x)], ScannedSize, d) = SumOver(f, Children(d))
  BY DEF Listed
<1>2. /\ IsFiniteSet(F) /\ IsFiniteSet(D) /\ F \cap D = {} /\ F \cup D = Children(d)
  BY ListingFacts, FS_Intersection, TreeAssumption DEF Entries
<1>3. /\ \A e \in F : Bytes[e] = f[e] /\ f[e] \in Int
      /\ \A e \in D : ScannedSize[e] = f[e] /\ f[e] \in Int
  BY <1>2, BytesAssumption, ScannedSizeEquation, TreeAssumption
<1>4. SumOver(Bytes, F) = SumOver(f, F) /\ SumOver(ScannedSize, D) = SumOver(f, D)
  <2> HIDE DEF f, F, D
  <2> QED
    BY <1>2, <1>3, SumSame
<1>5. SumOver(f, F \cup D) = SumOver(f, F) + SumOver(f, D)
  <2> HIDE DEF f, F, D
  <2> QED
    BY <1>2, <1>3, SumUnion
<1>6. ScannedSize[d] = EmptySize(d) + SumOver(Bytes, F) + SumOver(ScannedSize, D)
  BY ScannedSizeEquation
<1>7. /\ SumOver(f, F) \in Int /\ SumOver(f, D) \in Int
      /\ EmptySize(d) \in Int
  <2>1. EmptySize(d) \in Int
    BY DEF EmptySize, EmptyDirSize
  <2> HIDE DEF f, F, D
  <2> QED
    BY <1>2, <1>3, <2>1, SumType
<1> HIDE DEF f, F, D
<1>8. SumOver(f, Children(d)) = SumOver(f, F) + SumOver(f, D)
  BY <1>2, <1>5
<1>9. ScannedSize[d] = EmptySize(d) + (SumOver(f, F) + SumOver(f, D))
  BY <1>4, <1>6, <1>7
<1> QED
  BY <1>1, <1>8, <1>9 DEF Total
=============================================================================
