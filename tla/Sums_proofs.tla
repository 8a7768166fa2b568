------------------------------ MODULE Sums_proofs ------------------------------
(***************************************************************************)
(* The sum of a table over a finite set, as the folds of the community     *)
(* modules compute it, element by element, in an order nobody knows.  What *)
(* is needed of it (any element may be taken first, parts add up, a table  *)
(* of pairs may be summed by rows) would be shown by induction over the    *)
(* set; here it is shown by the least size of a set for which it fails.    *)
(* So is what the totals and means of the reports rest on: a relation has  *)
(* as many pairs by rows as by columns, and a mean of many lies between    *)
(* theirs.                                                                 *)
(* At the end, the rows that the month-end calculation appends to a ledger, *)
(* which the ledger by itself and the payroll around it both rest on.       *)
(***************************************************************************)
EXTENDS PayrollCalc, FiniteSets, FiniteSetsExt, Functions, FiniteSetTheorems, SequenceTheorems,
        WellFoundedInduction, TLAPS

\* A set of numbers with zero and, with each, its successor, has them all.
LEMMA AllNumbers ==
    ASSUME NEW N \in SUBSET Nat, 0 \in N, \A n \in N : n + 1 \in N
    PROVE  \A n \in Nat : n \in N
<1> SUFFICES ASSUME NEW z \in Nat, z \notin N PROVE FALSE
  OBVIOUS
<1> PICK M : M = Nat \ N
  OBVIOUS
<1>1. M \subseteq Nat /\ M # {}
  OBVIOUS
<1>2. PICK m \in M : \A y \in M : ~ (<<y, m>> \in OpToRel(<, Nat))
  BY <1>1, NatLessThanWellFounded, WFMin, Zenon
<1>3. m \in Nat /\ m # 0 /\ m \notin N
  OBVIOUS
<1>4. m - 1 \in Nat /\ m - 1 < m /\ (m - 1) + 1 = m
  BY <1>3
<1>5. m - 1 \notin M
  <2>1. <<m - 1, m>> \in Nat \X Nat
    BY <1>3, <1>4
  <2>2. <<m - 1, m>>[1] < <<m - 1, m>>[2]
    BY <1>4
  <2>3. <<m - 1, m>> \in OpToRel(<, Nat)
    BY <2>1, <2>2, Zenon DEF OpToRel
  <2> QED
    BY <2>3, <1>2
<1>6. m - 1 \in N
  BY <1>4, <1>5
<1> QED
  BY <1>3, <1>4, <1>6

-----------------------------------------------------------------------------
\* The value of a fold at the set s, from its values at smaller sets.
Member(s) == CHOOSE x \in s : TRUE
Term(f, s, g) == IF s = {} THEN 0 ELSE f[Member(s)] + g[s \ {Member(s)}]
Running(f, S) == CHOOSE g : g = [s \in SUBSET S |-> Term(f, s, g)]
Total(f, S) == Running(f, S)[S]

\* The fold takes an element of the set.
LEMMA MemberIs == \A s : s # {} => Member(s) \in s
BY DEF Member

\* What is taken from a finite set leaves one less.
LEMMA OneLess ==
    ASSUME NEW s, IsFiniteSet(s), NEW x \in s, NEW n \in Nat, Cardinality(s) <= n + 1
    PROVE  IsFiniteSet(s \ {x}) /\ Cardinality(s \ {x}) <= n
<1>1. Cardinality(s) \in Nat
  BY FS_CardinalityType
<1>2. IsFiniteSet(s \ {x}) /\ Cardinality(s \ {x}) = Cardinality(s) - 1
  BY FS_RemoveElement
<1> QED
  BY <1>1, <1>2

\* A set of no element is empty.
LEMMA NoneOf ==
    ASSUME NEW s, IsFiniteSet(s), Cardinality(s) <= 0
    PROVE  s = {}
<1>1. Cardinality(s) \in Nat
  BY FS_CardinalityType
<1>2. Cardinality(s) = 0
  BY <1>1
<1> QED
  BY <1>2, FS_EmptySet

\* The function the fold defines by recursion over the subsets exists: else there
\* would be a least size of a set at which it could not be continued.
LEMMA RunningIs ==
    ASSUME NEW f, NEW S, IsFiniteSet(S)
    PROVE  Running(f, S) = [s \in SUBSET S |-> Term(f, s, Running(f, S))]
<1> DEFINE Good(g, n) == \A s \in SUBSET S : Cardinality(s) <= n => g[s] = Term(f, s, g)
           N == {n \in Nat : \E g : Good(g, n)}
<1>1. \A s \in SUBSET S : IsFiniteSet(s) /\ Cardinality(s) \in Nat /\ Cardinality(s) <= Cardinality(S)
  BY FS_Subset, FS_CardinalityType
<1>2. 0 \in N
  <2> PICK g : g = [s \in SUBSET S |-> 0]
    OBVIOUS
  <2>1. Good(g, 0)
    <3>1. ASSUME NEW s \in SUBSET S, Cardinality(s) <= 0 PROVE g[s] = Term(f, s, g)
      <4>1. s = {}
        BY <1>1, <3>1, NoneOf
      <4> QED
        BY <4>1 DEF Term
    <3> QED
      BY <3>1
  <2> QED
    BY <2>1
<1>3. ASSUME NEW n \in Nat, NEW g, Good(g, n)
      PROVE  Good([s \in SUBSET S |-> Term(f, s, g)], n + 1)
  <2> PICK h : h = [s \in SUBSET S |-> Term(f, s, g)]
    OBVIOUS
  <2>1. ASSUME NEW s \in SUBSET S, Cardinality(s) <= n + 1 PROVE h[s] = Term(f, s, h)
    <3>1. h[s] = Term(f, s, g)
      OBVIOUS
    <3>2. CASE s = {}
      BY <3>1, <3>2 DEF Term
    <3>3. CASE s # {}
      <4> PICK t : t = s \ {Member(s)}
        OBVIOUS
      <4>1. t \in SUBSET S /\ Cardinality(t) <= n
        BY <2>1, <3>3, <1>1, MemberIs, OneLess
      <4>2. h[t] = g[t]
        BY <1>3, <4>1
      <4> QED
        BY <3>1, <3>3, <4>2 DEF Term
    <3> QED
      BY <3>2, <3>3
  <2> QED
    BY <2>1
<1> PICK k : k = Cardinality(S)
  OBVIOUS
<1>4. k \in Nat /\ \A s \in SUBSET S : Cardinality(s) <= k
  BY <1>1
<1>5. k \in N
  <2>1. ASSUME NEW n \in N PROVE n + 1 \in N
    <3>1. PICK g : Good(g, n)
      OBVIOUS
    <3>2. Good([s \in SUBSET S |-> Term(f, s, g)], n + 1)
      BY <1>3, <3>1
    <3> HIDE DEF Good
    <3> QED
      BY <3>2
  <2> HIDE DEF N
  <2>2. N \in SUBSET Nat
    BY DEF N
  <2> QED
    BY <1>2, <1>4, <2>1, <2>2, AllNumbers
<1>6. PICK g : Good(g, k)
  BY <1>5
<1> PICK h : h = [s \in SUBSET S |-> Term(f, s, g)]
  OBVIOUS
<1>7. \A s \in SUBSET S : h[s] = g[s]
  BY <1>4, <1>6
<1>8. \A s \in SUBSET S : Term(f, s, h) = Term(f, s, g)
  <2>1. ASSUME NEW s \in SUBSET S PROVE Term(f, s, h) = Term(f, s, g)
    <3>1. s \ {Member(s)} \in SUBSET S
      OBVIOUS
    <3> QED
      BY <3>1, <1>7 DEF Term
  <2> QED
    BY <2>1
<1>9. h = [s \in SUBSET S |-> Term(f, s, h)]
  BY <1>8
<1> QED
  BY <1>9, Zenon DEF Running

-----------------------------------------------------------------------------
\* Its value at a subset, from its value at what is left of it.
LEMMA TermIn ==
    ASSUME NEW f, NEW S, NEW T \in SUBSET S, IsFiniteSet(S)
    PROVE  /\ Running(f, S)[T] = Term(f, T, Running(f, S))
           /\ IsFiniteSet(T)
<1> PICK g : g = Running(f, S)
  OBVIOUS
<1>0. Running(f, S) = [s \in SUBSET S |-> Term(f, s, Running(f, S))]
  BY RunningIs
<1>1. g = [s \in SUBSET S |-> Term(f, s, g)]
  BY <1>0
<1>2. g[T] = Term(f, T, g)
  BY <1>1
<1> QED
  BY <1>2, FS_Subset

\* What the fold gives for a smaller set does not depend on the larger one.
LEMMA RunningSub ==
    ASSUME NEW f, NEW S, IsFiniteSet(S), NEW T \in SUBSET S
    PROVE  Running(f, S)[T] = Total(f, T)
<1> DEFINE Same(n) == \A s \in SUBSET T : Cardinality(s) <= n => Running(f, S)[s] = Running(f, T)[s]
           N == {n \in Nat : Same(n)}
<1>1. IsFiniteSet(T)
  BY FS_Subset
<1>2. \A s \in SUBSET T : IsFiniteSet(s) /\ Cardinality(s) \in Nat /\ Cardinality(s) <= Cardinality(T)
  BY <1>1, FS_Subset, FS_CardinalityType
<1>3. \A s \in SUBSET T : /\ Running(f, S)[s] = Term(f, s, Running(f, S))
                          /\ Running(f, T)[s] = Term(f, s, Running(f, T))
  BY <1>1, TermIn
<1>4. 0 \in N
  <2>1. ASSUME NEW s \in SUBSET T, Cardinality(s) <= 0 PROVE Running(f, S)[s] = Running(f, T)[s]
    <3>1. s = {}
      BY <1>2, <2>1, NoneOf
    <3> QED
      BY <3>1, <1>3 DEF Term
  <2> QED
    BY <2>1
<1>5. ASSUME NEW n \in N PROVE n + 1 \in N
  <2>1. ASSUME NEW s \in SUBSET T, Cardinality(s) <= n + 1 PROVE Running(f, S)[s] = Running(f, T)[s]
    <3>1. CASE s = {}
      BY <3>1, <1>3 DEF Term
    <3>2. CASE s # {}
      <4> PICK t : t = s \ {Member(s)}
        OBVIOUS
      <4>1. t \in SUBSET T /\ Cardinality(t) <= n
        BY <2>1, <3>2, <1>2, MemberIs, OneLess
      <4>2. Running(f, S)[t] = Running(f, T)[t]
        BY <4>1
      <4> QED
        BY <3>2, <4>2, <1>3 DEF Term
    <3> QED
      BY <3>1, <3>2
  <2> QED
    BY <2>1
<1>6. \A n \in Nat : n \in N
  <2>1. N \in SUBSET Nat
    OBVIOUS
  <2> HIDE DEF N
  <2> QED
    BY <1>4, <1>5, <2>1, AllNumbers
<1>7. Same(Cardinality(T)) /\ Cardinality(T) <= Cardinality(T)
  BY <1>2, <1>6
<1>8. Running(f, S)[T] = Running(f, T)[T]
  BY <1>7
<1> QED
  BY <1>8 DEF Total

\* The sum over nothing is zero.
LEMMA TotalOfNone == \A f : Total(f, {}) = 0
<1> SUFFICES ASSUME NEW f PROVE Total(f, {}) = 0
  OBVIOUS
<1> PICK v : v = {}
  OBVIOUS
<1>1. IsFiniteSet(v)
  BY FS_EmptySet
<1>2. Running(f, v)[v] = Term(f, v, Running(f, v))
  BY <1>1, TermIn
<1> QED
  BY <1>2 DEF Total, Term

\* A sum is a term and the sum of the others.
LEMMA TotalByMember ==
    ASSUME NEW f, NEW S, IsFiniteSet(S), S # {}
    PROVE  Total(f, S) = f[Member(S)] + Total(f, S \ {Member(S)})
<1> PICK T : T = S \ {Member(S)}
  OBVIOUS
<1>1. Running(f, S)[S] = Term(f, S, Running(f, S))
  BY TermIn
<1>2. Running(f, S)[T] = Total(f, T)
  BY RunningSub
<1> QED
  BY <1>1, <1>2 DEF Total, Term

\* A sum of integers is one.
LEMMA TotalIsInt ==
    ASSUME NEW f, NEW S, IsFiniteSet(S), \A x \in S : f[x] \in Int
    PROVE  Total(f, S) \in Int
<1> DEFINE Typed(n) == \A s \in SUBSET S : Cardinality(s) <= n => Total(f, s) \in Int
           N == {n \in Nat : Typed(n)}
<1>1. \A s \in SUBSET S : IsFiniteSet(s) /\ Cardinality(s) \in Nat
  BY FS_Subset, FS_CardinalityType
<1>2. 0 \in N
  BY <1>1, NoneOf, TotalOfNone
<1>3. ASSUME NEW n \in N PROVE n + 1 \in N
  <2>1. ASSUME NEW s \in SUBSET S, Cardinality(s) <= n + 1 PROVE Total(f, s) \in Int
    <3>1. CASE s = {}
      BY <3>1, TotalOfNone
    <3>2. CASE s # {}
      <4> PICK t : t = s \ {Member(s)}
        OBVIOUS
      <4>1. t \in SUBSET S /\ Cardinality(t) <= n /\ Member(s) \in S
        BY <2>1, <3>2, <1>1, MemberIs, OneLess
      <4>2. Total(f, t) \in Int
        BY <4>1
      <4> QED
        BY <3>2, <4>1, <4>2, <1>1, TotalByMember
    <3> QED
      BY <3>1, <3>2
  <2> QED
    BY <2>1
<1>4. \A n \in Nat : n \in N
  <2>1. N \in SUBSET Nat
    OBVIOUS
  <2> HIDE DEF N
  <2> QED
    BY <1>2, <1>3, <2>1, AllNumbers
<1>5. Cardinality(S) \in Nat /\ Typed(Cardinality(S)) /\ Cardinality(S) <= Cardinality(S)
  BY <1>1, <1>4
<1> QED
  BY <1>5

\* A sum of natural numbers is one.
LEMMA TotalIsNat ==
    ASSUME NEW f, NEW S, IsFiniteSet(S), \A x \in S : f[x] \in Nat
    PROVE  Total(f, S) \in Nat
<1> DEFINE Typed(n) == \A s \in SUBSET S : Cardinality(s) <= n => Total(f, s) \in Nat
           N == {n \in Nat : Typed(n)}
<1>1. \A s \in SUBSET S : IsFiniteSet(s) /\ Cardinality(s) \in Nat
  BY FS_Subset, FS_CardinalityType
<1>2. 0 \in N
  BY <1>1, NoneOf, TotalOfNone
<1>3. ASSUME NEW n \in N PROVE n + 1 \in N
  <2>1. ASSUME NEW s \in SUBSET S, Cardinality(s) <= n + 1 PROVE Total(f, s) \in Nat
    <3>1. CASE s = {}
      BY <3>1, TotalOfNone
    <3>2. CASE s # {}
      <4> PICK t : t = s \ {Member(s)}
        OBVIOUS
      <4>1. t \in SUBSET S /\ Cardinality(t) <= n /\ Member(s) \in S
        BY <2>1, <3>2, <1>1, MemberIs, OneLess
      <4>2. Total(f, t) \in Nat
        BY <4>1
      <4> QED
        BY <3>2, <4>1, <4>2, <1>1, TotalByMember
    <3> QED
      BY <3>1, <3>2
  <2> QED
    BY <2>1
<1>4. \A n \in Nat : n \in N
  <2>1. N \in SUBSET Nat
    OBVIOUS
  <2> HIDE DEF N
  <2> QED
    BY <1>2, <1>3, <2>1, AllNumbers
<1>5. Cardinality(S) \in Nat /\ Typed(Cardinality(S)) /\ Cardinality(S) <= Cardinality(S)
  BY <1>1, <1>4
<1> QED
  BY <1>5

\* Any element may come first.
LEMMA TotalTake ==
    ASSUME NEW f, NEW S, IsFiniteSet(S), \A x \in S : f[x] \in Int, NEW a \in S
    PROVE  Total(f, S) = f[a] + Total(f, S \ {a})
<1> DEFINE Free(n) == \A s \in SUBSET S : Cardinality(s) <= n =>
                         \A x \in s : Total(f, s) = f[x] + Total(f, s \ {x})
           N == {n \in Nat : Free(n)}
<1>1. \A s \in SUBSET S : IsFiniteSet(s) /\ Cardinality(s) \in Nat
  BY FS_Subset, FS_CardinalityType
<1>2. 0 \in N
  BY <1>1, NoneOf
<1>3. ASSUME NEW n \in N PROVE n + 1 \in N
  <2>1. ASSUME NEW s \in SUBSET S, Cardinality(s) <= n + 1, NEW x \in s
        PROVE  Total(f, s) = f[x] + Total(f, s \ {x})
    <3> PICK c : c = Member(s)
      OBVIOUS
    <3>1. c \in s /\ Total(f, s) = f[c] + Total(f, s \ {c})
      BY <2>1, <1>1, MemberIs, TotalByMember
    <3>2. CASE x = c
      BY <3>1, <3>2
    <3>3. CASE x # c
      <4>1. /\ s \ {c} \in SUBSET S /\ Cardinality(s \ {c}) <= n /\ x \in s \ {c}
            /\ s \ {x} \in SUBSET S /\ Cardinality(s \ {x}) <= n /\ c \in s \ {x}
        BY <2>1, <3>1, <3>3, <1>1, OneLess
      <4>2. Total(f, s \ {c}) = f[x] + Total(f, (s \ {c}) \ {x})
        BY <4>1
      <4>3. Total(f, s \ {x}) = f[c] + Total(f, (s \ {x}) \ {c})
        BY <4>1
      <4>4. (s \ {c}) \ {x} = (s \ {x}) \ {c}
        OBVIOUS
      <4> PICK r : r = Total(f, (s \ {x}) \ {c})
        OBVIOUS
      <4>5. r \in Int
        <5>1. (s \ {x}) \ {c} \in SUBSET S
          OBVIOUS
        <5> PICK u : u = (s \ {x}) \ {c}
          OBVIOUS
        <5>2. IsFiniteSet(u) /\ \A y \in u : f[y] \in Int
          BY <5>1, <1>1
        <5> QED
          BY <5>2, TotalIsInt
      <4> PICK fx, fc, withx, withc : /\ fx = f[x] /\ fc = f[c]
                                      /\ withx = Total(f, s \ {c}) /\ withc = Total(f, s \ {x})
        OBVIOUS
      <4>6. fx \in Int /\ fc \in Int
        BY <3>1
      <4>7. withx = fx + r
        BY <4>2, <4>4
      <4>8. withc = fc + r /\ Total(f, s) = fc + withx
        BY <3>1, <4>3
      <4>9. fc + (fx + r) = fx + (fc + r)
        BY <4>5, <4>6
      <4> QED
        BY <4>7, <4>8, <4>9
    <3> QED
      BY <3>2, <3>3
  <2> QED
    BY <2>1
<1>4. \A n \in Nat : n \in N
  <2>1. N \in SUBSET Nat
    OBVIOUS
  <2> HIDE DEF N
  <2> QED
    BY <1>2, <1>3, <2>1, AllNumbers
<1>5. Cardinality(S) \in Nat /\ Free(Cardinality(S)) /\ Cardinality(S) <= Cardinality(S)
  BY <1>1, <1>4
<1> QED
  BY <1>5

\* Sums of what is the same are the same.
LEMMA TotalSame ==
    ASSUME NEW f, NEW g, NEW S, IsFiniteSet(S), \A x \in S : f[x] = g[x]
    PROVE  Total(f, S) = Total(g, S)
<1> DEFINE Alike(n) == \A s \in SUBSET S : Cardinality(s) <= n => Total(f, s) = Total(g, s)
           N == {n \in Nat : Alike(n)}
<1>1. \A s \in SUBSET S : IsFiniteSet(s) /\ Cardinality(s) \in Nat
  BY FS_Subset, FS_CardinalityType
<1>2. 0 \in N
  BY <1>1, NoneOf, TotalOfNone
<1>3. ASSUME NEW n \in N PROVE n + 1 \in N
  <2>1. ASSUME NEW s \in SUBSET S, Cardinality(s) <= n + 1 PROVE Total(f, s) = Total(g, s)
    <3>1. CASE s = {}
      BY <3>1, TotalOfNone
    <3>2. CASE s # {}
      <4> PICK c, t : c = Member(s) /\ t = s \ {c}
        OBVIOUS
      <4>1. t \in SUBSET S /\ Cardinality(t) <= n /\ c \in S
        BY <2>1, <3>2, <1>1, MemberIs, OneLess
      <4>2. Total(f, s) = f[c] + Total(f, t) /\ Total(g, s) = g[c] + Total(g, t)
        BY <3>2, <1>1, TotalByMember
      <4>3. Total(f, t) = Total(g, t)
        BY <4>1
      <4> QED
        BY <4>1, <4>2, <4>3
    <3> QED
      BY <3>1, <3>2
  <2> QED
    BY <2>1
<1>4. \A n \in Nat : n \in N
  <2>1. N \in SUBSET Nat
    OBVIOUS
  <2> HIDE DEF N
  <2> QED
    BY <1>2, <1>3, <2>1, AllNumbers
<1>5. Cardinality(S) \in Nat /\ Alike(Cardinality(S)) /\ Cardinality(S) <= Cardinality(S)
  BY <1>1, <1>4
<1> QED
  BY <1>5

\* One term changes, and the sum by as much.
LEMMA TotalChange ==
    ASSUME NEW f, NEW g, NEW S, IsFiniteSet(S), \A x \in S : f[x] \in Int, NEW a \in S, NEW d \in Int,
           g[a] = f[a] + d, \A x \in S : x # a => g[x] = f[x]
    PROVE  Total(g, S) = Total(f, S) + d
<1> PICK T : T = S \ {a}
  OBVIOUS
<1>1. IsFiniteSet(T) /\ \A x \in T : f[x] = g[x]
  BY FS_RemoveElement
<1>2. \A x \in S : g[x] \in Int
  OBVIOUS
<1>3. Total(f, S) = f[a] + Total(f, T) /\ Total(g, S) = g[a] + Total(g, T)
  BY <1>2, TotalTake
<1>4. Total(f, T) = Total(g, T)
  BY <1>1, TotalSame
<1>5. Total(f, T) \in Int
  BY <1>1, TotalIsInt
<1> PICK fa, ft : fa = f[a] /\ ft = Total(f, T)
  OBVIOUS
<1>6. fa \in Int /\ ft \in Int /\ (fa + d) + ft = (fa + ft) + d
  BY <1>5
<1> QED
  BY <1>3, <1>4, <1>6

\* Sums over sets that are apart add up.
LEMMA TotalApart ==
    ASSUME NEW f, NEW A, IsFiniteSet(A), NEW B, IsFiniteSet(B), A \cap B = {},
           \A x \in A \cup B : f[x] \in Int
    PROVE  Total(f, A \cup B) = Total(f, A) + Total(f, B)
<1> DEFINE Adds(n) == \A s \in SUBSET A : Cardinality(s) <= n => Total(f, s \cup B) = Total(f, s) + Total(f, B)
           N == {n \in Nat : Adds(n)}
<1>1. \A s \in SUBSET A : IsFiniteSet(s) /\ Cardinality(s) \in Nat /\ IsFiniteSet(s \cup B)
  BY FS_Subset, FS_CardinalityType, FS_Union
<1>2. Total(f, B) \in Int
  BY TotalIsInt
<1>3. 0 \in N
  <2>1. ASSUME NEW s \in SUBSET A, Cardinality(s) <= 0 PROVE Total(f, s \cup B) = Total(f, s) + Total(f, B)
    <3>1. s = {}
      BY <1>1, <2>1, NoneOf
    <3>2. s \cup B = B /\ Total(f, s) = 0
      BY <3>1, TotalOfNone
    <3> PICK e : e = Total(f, B)
      OBVIOUS
    <3>3. e = 0 + e
      BY <1>2
    <3> QED
      BY <3>2, <3>3
  <2> QED
    BY <2>1
<1>4. ASSUME NEW n \in N PROVE n + 1 \in N
  <2>1. ASSUME NEW s \in SUBSET A, Cardinality(s) <= n + 1 PROVE Total(f, s \cup B) = Total(f, s) + Total(f, B)
    <3>1. CASE s = {}
      <4>1. s \cup B = B /\ Total(f, s) = 0
        BY <3>1, TotalOfNone
      <4> PICK e : e = Total(f, B)
        OBVIOUS
      <4>2. e = 0 + e
        BY <1>2
      <4> QED
        BY <4>1, <4>2
    <3>2. CASE s # {}
      <4> PICK c, t : c = Member(s) /\ t = s \ {c}
        OBVIOUS
      <4>1. t \in SUBSET A /\ Cardinality(t) <= n /\ c \in s
        BY <2>1, <3>2, <1>1, MemberIs, OneLess
      <4>2. Total(f, s) = f[c] + Total(f, t)
        <5>1. IsFiniteSet(s) /\ \A x \in s : f[x] \in Int
          BY <1>1
        <5> QED
          BY <4>1, <5>1, TotalTake
      <4> PICK w : w = s \cup B
        OBVIOUS
      <4>3. IsFiniteSet(w) /\ c \in w /\ (\A x \in w : f[x] \in Int) /\ w \ {c} = t \cup B
        BY <4>1, <1>1
      <4>4. Total(f, w) = f[c] + Total(f, t \cup B)
        BY <4>3, TotalTake
      <4>5. Total(f, t \cup B) = Total(f, t) + Total(f, B)
        BY <4>1
      <4>6. Total(f, t) \in Int
        BY <4>1, <1>1, TotalIsInt
      <4> PICK a, b, e : a = f[c] /\ b = Total(f, t) /\ e = Total(f, B)
        OBVIOUS
      <4>7. a + (b + e) = (a + b) + e
        BY <4>1, <4>6, <1>2
      <4> QED
        BY <4>2, <4>4, <4>5, <4>7
    <3> QED
      BY <3>1, <3>2
  <2> QED
    BY <2>1
<1>5. \A n \in Nat : n \in N
  <2>1. N \in SUBSET Nat
    OBVIOUS
  <2> HIDE DEF N
  <2> QED
    BY <1>3, <1>4, <2>1, AllNumbers
<1> PICK k : k = Cardinality(A)
  OBVIOUS
<1>6. k \in Nat
  BY <1>1
<1>7. Adds(k) /\ k <= k
  BY <1>5, <1>6
<1> QED
  BY <1>7

\* The sum of the community modules is this one.
LEMMA SumIs ==
    ASSUME NEW fun, NEW S
    PROVE  SumFunctionOnSet(fun, S) = Total(fun, S)
BY DEF SumFunctionOnSet, FoldFunctionOnSet, MapThenFoldSet, Total, Running, Term, Member

\* So is that over all of a table.
LEMMA SumOfAll == \A fun : SumFunction(fun) = Total(fun, DOMAIN fun)
BY SumIs DEF SumFunction

\* The sum over one element is its term.
LEMMA TotalOfOne ==
    ASSUME NEW f, NEW a, f[a] \in Int
    PROVE  Total(f, {a}) = f[a]
<1> PICK S : S = {a}
  OBVIOUS
<1>1. IsFiniteSet(S)
  BY FS_Singleton
<1>2. a \in S /\ \A x \in S : f[x] \in Int
  OBVIOUS
<1>3. Total(f, S) = f[a] + Total(f, S \ {a})
  BY <1>1, <1>2, TotalTake
<1>4. S \ {a} = {}
  OBVIOUS
<1>5. Total(f, {}) = 0
  BY TotalOfNone
<1> PICK fa : fa = f[a]
  OBVIOUS
<1>6. fa + 0 = fa
  OBVIOUS
<1> QED
  BY <1>3, <1>4, <1>5, <1>6

\* The sum of differences is the difference of the sums.
LEMMA TotalLess ==
    ASSUME NEW f, NEW g, NEW h, NEW S, IsFiniteSet(S),
           \A x \in S : f[x] \in Int /\ g[x] \in Int /\ h[x] = f[x] - g[x]
    PROVE  Total(h, S) = Total(f, S) - Total(g, S)
<1> DEFINE Less(n) == \A s \in SUBSET S : Cardinality(s) <= n => Total(h, s) = Total(f, s) - Total(g, s)
           N == {n \in Nat : Less(n)}
<1>1. \A s \in SUBSET S : IsFiniteSet(s) /\ Cardinality(s) \in Nat
  BY FS_Subset, FS_CardinalityType
<1>2. 0 \in N
  <2>1. ASSUME NEW s \in SUBSET S, Cardinality(s) <= 0 PROVE Total(h, s) = Total(f, s) - Total(g, s)
    <3>1. s = {}
      BY <1>1, <2>1, NoneOf
    <3>2. Total(h, {}) = 0 /\ Total(f, {}) = 0 /\ Total(g, {}) = 0
      BY TotalOfNone
    <3> QED
      BY <3>1, <3>2
  <2> QED
    BY <2>1
<1>3. ASSUME NEW n \in N PROVE n + 1 \in N
  <2>1. ASSUME NEW s \in SUBSET S, Cardinality(s) <= n + 1
        PROVE  Total(h, s) = Total(f, s) - Total(g, s)
    <3>1. CASE s = {}
      BY <3>1, <1>2, <1>1, FS_EmptySet
    <3>2. CASE s # {}
      <4> PICK c, t : c = Member(s) /\ t = s \ {c}
        OBVIOUS
      <4>1. t \in SUBSET S /\ Cardinality(t) <= n /\ c \in S
        BY <2>1, <3>2, <1>1, MemberIs, OneLess
      <4>2. /\ Total(f, s) = f[c] + Total(f, t)
            /\ Total(g, s) = g[c] + Total(g, t)
            /\ Total(h, s) = h[c] + Total(h, t)
        BY <3>2, <1>1, TotalByMember
      <4>3. Total(h, t) = Total(f, t) - Total(g, t)
        BY <4>1
      <4>4. Total(f, t) \in Int /\ Total(g, t) \in Int
        BY <4>1, <1>1, TotalIsInt
      <4> PICK fc, gc, ft, gt : fc = f[c] /\ gc = g[c] /\ ft = Total(f, t) /\ gt = Total(g, t)
        OBVIOUS
      <4>5. fc \in Int /\ gc \in Int /\ h[c] = fc - gc
        BY <4>1
      <4>6. (fc - gc) + (ft - gt) = (fc + ft) - (gc + gt)
        BY <4>4, <4>5
      <4> QED
        BY <4>2, <4>3, <4>5, <4>6
    <3> QED
      BY <3>1, <3>2
  <2> QED
    BY <2>1
<1>4. \A n \in Nat : n \in N
  <2>1. N \in SUBSET Nat
    OBVIOUS
  <2> HIDE DEF N
  <2> QED
    BY <1>2, <1>3, <2>1, AllNumbers
<1>5. Cardinality(S) \in Nat /\ Less(Cardinality(S)) /\ Cardinality(S) <= Cardinality(S)
  BY <1>1, <1>4
<1> QED
  BY <1>5

\* A sum of zeros is zero.
LEMMA TotalOfZeros ==
    ASSUME NEW f, NEW S, IsFiniteSet(S), \A x \in S : f[x] = 0
    PROVE  Total(f, S) = 0
<1>1. \A x \in S : f[x] \in Int /\ f[x] \in Int /\ f[x] = f[x] - f[x]
  OBVIOUS
<1>2. Total(f, S) = Total(f, S) - Total(f, S)
  BY <1>1, TotalLess
<1>3. Total(f, S) \in Int
  BY <1>1, TotalIsInt
<1> PICK e : e = Total(f, S)
  OBVIOUS
<1>4. e \in Int /\ e = e - e
  BY <1>2, <1>3
<1> QED
  BY <1>4

\* Terms of zero need not be summed.
LEMMA TotalWithoutZeros ==
    ASSUME NEW f, NEW S, IsFiniteSet(S), \A x \in S : f[x] \in Int,
           NEW T \in SUBSET S, \A x \in S \ T : f[x] = 0
    PROVE  Total(f, T) = Total(f, S)
<1> PICK R : R = S \ T
  OBVIOUS
<1>1. IsFiniteSet(T) /\ IsFiniteSet(R)
  BY FS_Subset
<1>2. T \cap R = {} /\ T \cup R = S
  OBVIOUS
<1>3. Total(f, T \cup R) = Total(f, T) + Total(f, R)
  <2>1. \A x \in T \cup R : f[x] \in Int
    OBVIOUS
  <2> QED
    BY <1>1, <1>2, <2>1, TotalApart
<1>4. Total(f, R) = 0
  BY <1>1, TotalOfZeros
<1>5. Total(f, T) \in Int
  BY <1>1, TotalIsInt
<1> PICK e : e = Total(f, T)
  OBVIOUS
<1>6. e + 0 = e
  BY <1>5
<1> QED
  BY <1>2, <1>3, <1>4, <1>6

\* A sum over the pairs that share their first part.
LEMMA TotalRow ==
    ASSUME NEW f, NEW p, NEW D, IsFiniteSet(D), \A n \in D : f[<<p, n>>] \in Int
    PROVE  /\ Total(f, {p} \X D) = Total([n \in D |-> f[<<p, n>>]], D)
           /\ IsFiniteSet({p} \X D)
<1> PICK g : g = [n \in D |-> f[<<p, n>>]]
  OBVIOUS
<1> DEFINE Alike(n) == \A s \in SUBSET D : Cardinality(s) <= n =>
                          IsFiniteSet({p} \X s) /\ Total(f, {p} \X s) = Total(g, s)
           N == {n \in Nat : Alike(n)}
<1>1. \A s \in SUBSET D : IsFiniteSet(s) /\ Cardinality(s) \in Nat
  BY FS_Subset, FS_CardinalityType
<1>2. 0 \in N
  <2>1. ASSUME NEW s \in SUBSET D, Cardinality(s) <= 0
        PROVE  IsFiniteSet({p} \X s) /\ Total(f, {p} \X s) = Total(g, s)
    <3>1. s = {} /\ {p} \X s = {}
      BY <1>1, <2>1, NoneOf
    <3>2. Total(f, {}) = 0 /\ Total(g, {}) = 0
      BY TotalOfNone
    <3>3. IsFiniteSet({})
      BY FS_EmptySet
    <3> QED
      BY <3>1, <3>2, <3>3
  <2> QED
    BY <2>1
<1>3. ASSUME NEW n \in N PROVE n + 1 \in N
  <2>1. ASSUME NEW s \in SUBSET D, Cardinality(s) <= n + 1
        PROVE  IsFiniteSet({p} \X s) /\ Total(f, {p} \X s) = Total(g, s)
    <3>1. CASE s = {}
      <4>1. Cardinality({}) <= 0
        BY FS_EmptySet
      <4> QED
        BY <3>1, <1>2, <4>1
    <3>2. CASE s # {}
      <4> PICK c, t : c = Member(s) /\ t = s \ {c}
        OBVIOUS
      <4>1. t \in SUBSET D /\ Cardinality(t) <= n /\ c \in s
        BY <2>1, <3>2, <1>1, MemberIs, OneLess
      <4>2. Total(g, s) = g[c] + Total(g, t)
        BY <3>2, <1>1, TotalByMember
      <4> PICK w, v, x : w = {p} \X s /\ v = {p} \X t /\ x = <<p, c>>
        OBVIOUS
      <4>3. IsFiniteSet(v) /\ Total(f, v) = Total(g, t)
        BY <4>1
      <4>4. w = v \cup {x} /\ x \in w /\ w \ {x} = v
        BY <4>1
      <4>5. IsFiniteSet(w)
        <5>1. IsFiniteSet(v \cup {x})
          BY <4>3, FS_AddElement
        <5> QED
          BY <4>4, <5>1
      <4>6. \A y \in w : f[y] \in Int
        OBVIOUS
      <4>7. Total(f, w) = f[x] + Total(f, w \ {x})
        BY <4>4, <4>5, <4>6, TotalTake
      <4>8. f[x] = g[c]
        BY <4>1
      <4> QED
        BY <4>2, <4>3, <4>4, <4>5, <4>7, <4>8
    <3> QED
      BY <3>1, <3>2
  <2>2. n \in Nat /\ n + 1 \in Nat
    OBVIOUS
  <2>3. Alike(n + 1)
    BY <2>1
  <2> HIDE DEF Alike
  <2> QED
    BY <2>2, <2>3
<1>4. \A n \in Nat : n \in N
  <2>1. N \in SUBSET Nat
    OBVIOUS
  <2> HIDE DEF N
  <2> QED
    BY <1>2, <1>3, <2>1, AllNumbers
<1> PICK k : k = Cardinality(D)
  OBVIOUS
<1>5. k \in Nat /\ k <= k
  BY <1>1
<1>6. Alike(k)
  BY <1>4, <1>5
<1> QED
  BY <1>5, <1>6

\* The pairs of a member of P and one of what D has for it.
Pairs(P, D) == UNION {{p} \X D[p] : p \in P}

\* A sum over pairs is the sum of the sums over those that share their first part.
LEMMA TotalPairs ==
    ASSUME NEW f, NEW P, IsFiniteSet(P), NEW D, \A p \in P : IsFiniteSet(D[p]),
           \A p \in P : \A n \in D[p] : f[<<p, n>>] \in Int
    PROVE  /\ IsFiniteSet(Pairs(P, D))
           /\ Total(f, Pairs(P, D)) = Total([p \in P |-> Total([n \in D[p] |-> f[<<p, n>>]], D[p])], P)
<1> PICK g : g = [p \in P |-> Total([n \in D[p] |-> f[<<p, n>>]], D[p])]
  OBVIOUS
<1> DEFINE Alike(n) == \A s \in SUBSET P : Cardinality(s) <= n =>
                          IsFiniteSet(Pairs(s, D)) /\ Total(f, Pairs(s, D)) = Total(g, s)
           N == {n \in Nat : Alike(n)}
<1>1. \A s \in SUBSET P : IsFiniteSet(s) /\ Cardinality(s) \in Nat
  BY FS_Subset, FS_CardinalityType
<1>2. ASSUME NEW s \in SUBSET P, s = {}
      PROVE  IsFiniteSet(Pairs(s, D)) /\ Total(f, Pairs(s, D)) = Total(g, s)
  <2>1. Pairs(s, D) = {}
    BY <1>2 DEF Pairs
  <2>2. Total(f, {}) = 0 /\ Total(g, {}) = 0
    BY TotalOfNone
  <2>3. IsFiniteSet({})
    BY FS_EmptySet
  <2> QED
    BY <1>2, <2>1, <2>2, <2>3
<1>3. 0 \in N
  BY <1>1, <1>2, NoneOf
<1>4. ASSUME NEW n \in N PROVE n + 1 \in N
  <2>1. ASSUME NEW s \in SUBSET P, Cardinality(s) <= n + 1
        PROVE  IsFiniteSet(Pairs(s, D)) /\ Total(f, Pairs(s, D)) = Total(g, s)
    <3>1. CASE s = {}
      BY <3>1, <1>2
    <3>2. CASE s # {}
      <4> PICK c, t : c = Member(s) /\ t = s \ {c}
        OBVIOUS
      <4>1. t \in SUBSET P /\ Cardinality(t) <= n /\ c \in s
        BY <2>1, <3>2, <1>1, MemberIs, OneLess
      <4>2. Total(g, s) = g[c] + Total(g, t)
        BY <3>2, <1>1, TotalByMember
      <4> PICK w, v : w = {c} \X D[c] /\ v = Pairs(t, D)
        OBVIOUS
      <4>3. IsFiniteSet(v) /\ Total(f, v) = Total(g, t)
        BY <4>1
      <4>4. IsFiniteSet(D[c]) /\ \A m \in D[c] : f[<<c, m>>] \in Int
        BY <4>1
      <4>5. IsFiniteSet(w) /\ Total(f, w) = g[c]
        <5>1. /\ Total(f, {c} \X D[c]) = Total([m \in D[c] |-> f[<<c, m>>]], D[c])
              /\ IsFiniteSet({c} \X D[c])
          BY <4>4, TotalRow
        <5>2. g[c] = Total([m \in D[c] |-> f[<<c, m>>]], D[c])
          BY <4>1
        <5> QED
          BY <5>1, <5>2
      <4>6. w \cap v = {}
        BY <4>1 DEF Pairs
      <4>7. Pairs(s, D) = w \cup v
        BY <4>1 DEF Pairs
      <4>8. \A x \in w \cup v : f[x] \in Int
        <5>1. \A x \in w : f[x] \in Int
          BY <4>4
        <5>2. \A x \in v : f[x] \in Int
          BY <4>1 DEF Pairs
        <5> QED
          BY <5>1, <5>2
      <4>9. Total(f, w \cup v) = Total(f, w) + Total(f, v)
        <5>1. IsFiniteSet(w)
          BY <4>5
        <5>2. IsFiniteSet(v)
          BY <4>3
        <5>3. \A x \in w \cup v : f[x] \in Int
          BY <4>8
        <5> HIDE DEF N
        <5> QED
          BY <4>6, <5>1, <5>2, <5>3, TotalApart
      <4>10. IsFiniteSet(w \cup v)
        BY <4>3, <4>5, FS_Union
      <4> QED
        BY <4>2, <4>3, <4>5, <4>7, <4>9, <4>10
    <3> QED
      BY <3>1, <3>2
  <2> QED
    BY <2>1
<1>5. \A n \in Nat : n \in N
  <2>1. N \in SUBSET Nat
    OBVIOUS
  <2> HIDE DEF N
  <2> QED
    BY <1>3, <1>4, <2>1, AllNumbers
<1> PICK k : k = Cardinality(P)
  OBVIOUS
<1>6. k \in Nat /\ k <= k
  BY <1>1
<1>7. Alike(k)
  BY <1>5, <1>6
<1> QED
  BY <1>6, <1>7

\* A table that is nowhere smaller, summed over no less, has no smaller sum.
LEMMA TotalGrows ==
    ASSUME NEW f, NEW g, NEW T, IsFiniteSet(T), NEW S \in SUBSET T,
           \A x \in T : g[x] \in Nat, \A x \in S : f[x] \in Nat /\ f[x] <= g[x]
    PROVE  Total(f, S) \in Nat /\ Total(g, T) \in Nat /\ Total(f, S) <= Total(g, T)
<1> PICK R : R = T \ S
  OBVIOUS
<1> PICK h : h = [x \in S |-> g[x] - f[x]]
  OBVIOUS
<1>1. IsFiniteSet(S) /\ IsFiniteSet(R) /\ S \cap R = {} /\ S \cup R = T
  BY FS_Subset
<1>2. \A x \in S : g[x] \in Nat /\ h[x] \in Nat /\ h[x] = g[x] - f[x]
  OBVIOUS
<1>3. Total(f, S) \in Nat /\ Total(g, S) \in Nat /\ Total(h, S) \in Nat
  BY <1>1, <1>2, TotalIsNat
<1>4. Total(g, R) \in Nat /\ Total(g, T) \in Nat
  BY <1>1, TotalIsNat
<1>5. \A x \in S : g[x] \in Int /\ f[x] \in Int /\ h[x] = g[x] - f[x]
  BY <1>2
<1>6. Total(h, S) = Total(g, S) - Total(f, S)
  BY <1>1, <1>5, TotalLess
<1>7. \A x \in S \cup R : g[x] \in Int
  BY <1>1
<1>8. Total(g, S \cup R) = Total(g, S) + Total(g, R)
  BY <1>1, <1>7, TotalApart
<1> PICK ft, gs, gr, hs : ft = Total(f, S) /\ gs = Total(g, S) /\ gr = Total(g, R) /\ hs = Total(h, S)
  OBVIOUS
<1>9. Total(g, T) = gs + gr
  BY <1>1, <1>8
<1>10. ft \in Nat /\ gs \in Nat /\ gr \in Nat /\ hs \in Nat /\ hs = gs - ft
  BY <1>3, <1>4, <1>6
<1>11. ft <= gs + gr
  BY <1>10
<1> QED
  BY <1>4, <1>9, <1>10, <1>11

\* A sum over one more element is more by its term.
LEMMA TotalOneMore ==
    ASSUME NEW f, NEW S, IsFiniteSet(S), NEW a, a \notin S, \A x \in S \cup {a} : f[x] \in Int
    PROVE  Total(f, S \cup {a}) = Total(f, S) + f[a]
<1> PICK T : T = S \cup {a}
  OBVIOUS
<1>1. IsFiniteSet(T) /\ a \in T /\ T \ {a} = S
  BY FS_AddElement
<1>2. Total(f, T) = f[a] + Total(f, S)
  BY <1>1, TotalTake
<1>3. Total(f, S) \in Int /\ f[a] \in Int
  BY TotalIsInt
<1> QED
  BY <1>2, <1>3

\* The parts of S by the elements of K: each element of S is in one of them.
Parts(part, K, S) ==
    /\ \A k \in K : part[k] \subseteq S
    /\ \A x \in S : \E k \in K : x \in part[k]
    /\ \A k, j \in K : k # j => part[k] \cap part[j] = {}

\* The sums over the parts add up to the sum over the whole.
LEMMA TotalOfParts ==
    ASSUME NEW f, NEW S, IsFiniteSet(S), \A x \in S : f[x] \in Int,
           NEW K, IsFiniteSet(K), NEW part, Parts(part, K, S)
    PROVE  Total([k \in K |-> Total(f, part[k])], K) = Total(f, S)
<1> PICK g : g = [k \in K |-> Total(f, part[k])]
  OBVIOUS
<1> DEFINE U(s) == UNION {part[k] : k \in s}
           Good(n) == \A s \in SUBSET K : Cardinality(s) <= n => Total(g, s) = Total(f, U(s))
           N == {n \in Nat : Good(n)}
<1>1. \A s \in SUBSET K : IsFiniteSet(s) /\ Cardinality(s) \in Nat
  BY FS_Subset, FS_CardinalityType
<1>2. \A k \in K : part[k] \in SUBSET S /\ IsFiniteSet(part[k])
  BY FS_Subset DEF Parts
<1>3. \A s \in SUBSET K : U(s) \in SUBSET S
  BY <1>2
<1>4. \A s \in SUBSET K : IsFiniteSet(U(s))
  <2> HIDE DEF U
  <2> QED
    BY <1>3, FS_Subset
<1>5. \A k \in K : g[k] = Total(f, part[k]) /\ g[k] \in Int
  <2>1. ASSUME NEW k \in K PROVE Total(f, part[k]) \in Int
    <3>1. \A x \in part[k] : f[x] \in Int
      BY <1>2
    <3> QED
      BY <1>2, <3>1, TotalIsInt
  <2> QED
    BY <2>1
<1>6. 0 \in N
  <2>1. ASSUME NEW s \in SUBSET K, Cardinality(s) <= 0 PROVE Total(g, s) = Total(f, U(s))
    <3>1. s = {}
      BY <1>1, <2>1, NoneOf
    <3> PICK none : none = U(s)
      OBVIOUS
    <3>2. none = {}
      BY <3>1
    <3>3. Total(g, s) = 0 /\ Total(f, none) = 0
      BY <3>1, <3>2, TotalOfNone
    <3> QED
      BY <3>3
  <2> QED
    BY <2>1
<1>7. ASSUME NEW n \in N PROVE n + 1 \in N
  <2>1. ASSUME NEW s \in SUBSET K, Cardinality(s) <= n + 1 PROVE Total(g, s) = Total(f, U(s))
    <3>1. CASE s = {}
      <4> PICK none : none = U(s)
        OBVIOUS
      <4>1. none = {}
        BY <3>1
      <4>2. Total(g, s) = 0 /\ Total(f, none) = 0
        BY <3>1, <4>1, TotalOfNone
      <4> QED
        BY <4>2
    <3>2. CASE s # {}
      <4> PICK c, t : c = Member(s) /\ t = s \ {c}
        OBVIOUS
      <4>1. t \in SUBSET K /\ Cardinality(t) <= n /\ c \in s /\ c \in K
        BY <2>1, <3>2, <1>1, MemberIs, OneLess
      <4>2. Total(g, s) = g[c] + Total(g, t)
        <5>1. IsFiniteSet(s) /\ \A x \in s : g[x] \in Int
          BY <1>1, <1>5
        <5>2. t = s \ {c} /\ c \in s
          BY <4>1
        <5> QED
          BY ONLY <5>1, <5>2, TotalTake
      <4>3. Total(g, t) = Total(f, U(t))
        BY <4>1
      <4> PICK A, B : A = part[c] /\ B = U(t)
        OBVIOUS
      <4>4. U(s) = A \cup B
        BY <4>1
      <4>5. A \cap B = {}
        BY <4>1 DEF Parts
      <4>6. IsFiniteSet(A) /\ IsFiniteSet(B) /\ A \in SUBSET S /\ B \in SUBSET S
        BY <4>1, <1>2, <1>3, <1>4
      <4>7. \A x \in A \cup B : f[x] \in Int
        BY <4>6
      <4>8. Total(f, A \cup B) = Total(f, A) + Total(f, B)
        BY <4>5, <4>6, <4>7, TotalApart
      <4>9. g[c] = Total(f, A)
        BY <4>1, <1>5
      <4> QED
        BY <4>2, <4>3, <4>4, <4>8, <4>9
    <3> QED
      BY <3>1, <3>2
  <2> QED
    BY <2>1
<1>8. \A n \in Nat : n \in N
  <2>1. N \in SUBSET Nat
    OBVIOUS
  <2> HIDE DEF N
  <2> QED
    BY <1>6, <1>7, <2>1, AllNumbers
<1> PICK k : k = Cardinality(K)
  OBVIOUS
<1>9. k \in Nat /\ K \in SUBSET K
  BY <1>1
<1>10. Good(k) /\ k <= k
  BY <1>8, <1>9
<1>11. Total(g, K) = Total(f, U(K))
  BY <1>10
<1>12. U(K) = S
  BY DEF Parts
<1> QED
  BY <1>11, <1>12

\* A sum of ones counts.
LEMMA TotalOfOnes ==
    ASSUME NEW f, NEW S, IsFiniteSet(S), \A x \in S : f[x] = 1
    PROVE  Total(f, S) = Cardinality(S)
<1> DEFINE Good(n) == \A s \in SUBSET S : Cardinality(s) <= n => Total(f, s) = Cardinality(s)
           N == {n \in Nat : Good(n)}
<1>1. \A s \in SUBSET S : IsFiniteSet(s) /\ Cardinality(s) \in Nat
  BY FS_Subset, FS_CardinalityType
<1>2. 0 \in N
  <2>1. ASSUME NEW s \in SUBSET S, Cardinality(s) <= 0 PROVE Total(f, s) = Cardinality(s)
    <3>1. s = {} /\ Cardinality(s) = 0
      BY <1>1, <2>1, NoneOf
    <3> QED
      BY <3>1, TotalOfNone
  <2> QED
    BY <2>1
<1>3. ASSUME NEW n \in N PROVE n + 1 \in N
  <2>1. ASSUME NEW s \in SUBSET S, Cardinality(s) <= n + 1 PROVE Total(f, s) = Cardinality(s)
    <3>1. CASE s = {}
      <4>1. Cardinality(s) = 0
        BY <3>1, FS_EmptySet
      <4> QED
        BY <3>1, <4>1, TotalOfNone
    <3>2. CASE s # {}
      <4> PICK c, t : c = Member(s) /\ t = s \ {c}
        OBVIOUS
      <4>1. t \in SUBSET S /\ Cardinality(t) <= n /\ c \in s /\ f[c] = 1
        BY <2>1, <3>2, <1>1, MemberIs, OneLess
      <4>2. Total(f, s) = f[c] + Total(f, t)
        <5>1. IsFiniteSet(s) /\ \A x \in s : f[x] \in Int
          BY <1>1
        <5> QED
          BY <4>1, <5>1, TotalTake
      <4>3. Total(f, t) = Cardinality(t)
        BY <4>1
      <4>4. Cardinality(t) = Cardinality(s) - 1
        BY <4>1, <1>1, FS_RemoveElement
      <4> QED
        BY <4>1, <4>2, <4>3, <4>4, <1>1
    <3> QED
      BY <3>1, <3>2
  <2> QED
    BY <2>1
<1>4. \A n \in Nat : n \in N
  <2>1. N \in SUBSET Nat
    OBVIOUS
  <2> HIDE DEF N
  <2> QED
    BY <1>2, <1>3, <2>1, AllNumbers
<1> PICK k : k = Cardinality(S)
  OBVIOUS
<1>5. k \in Nat
  BY <1>1
<1>6. Good(k) /\ k <= k
  BY <1>4, <1>5
<1> QED
  BY <1>6

\* The parts are as many as the whole.
LEMMA CountOfParts ==
    ASSUME NEW S, IsFiniteSet(S), NEW K, IsFiniteSet(K), NEW part, Parts(part, K, S)
    PROVE  Total([k \in K |-> Cardinality(part[k])], K) = Cardinality(S)
<1> PICK one : one = [x \in S |-> 1]
  OBVIOUS
<1>1. \A x \in S : one[x] = 1
  OBVIOUS
<1>2. Total(one, S) = Cardinality(S)
  BY <1>1, TotalOfOnes
<1>3. ASSUME NEW k \in K PROVE Total(one, part[k]) = Cardinality(part[k])
  <2> PICK T : T = part[k]
    OBVIOUS
  <2>1. T \in SUBSET S
    BY DEF Parts
  <2>2. IsFiniteSet(T) /\ \A x \in T : one[x] = 1
    BY <2>1, <1>1, FS_Subset
  <2> QED
    BY <2>2, TotalOfOnes
<1>4. \A x \in S : one[x] \in Int
  BY <1>1
<1>5. Total([k \in K |-> Total(one, part[k])], K) = Total(one, S)
  BY <1>4, TotalOfParts
<1>6. [k \in K |-> Total(one, part[k])] = [k \in K |-> Cardinality(part[k])]
  BY <1>3
<1> QED
  BY <1>2, <1>5, <1>6

-----------------------------------------------------------------------------
(* The greatest and the least.                                             *)

\* The image of a finite set.
LEMMA ImageFinite ==
    ASSUME NEW S, IsFiniteSet(S), NEW f
    PROVE  IsFiniteSet({f[x] : x \in S})
<1> PICK T : T = {f[x] : x \in S}
  OBVIOUS
<1>1. [x \in S |-> f[x]] \in Surjection(S, T)
  BY DEF Surjection
<1> QED
  BY <1>1, FS_Surjection

\* A finite set of numbers has a greatest.
LEMMA GreatestIs ==
    ASSUME NEW S \in SUBSET Nat, IsFiniteSet(S), S # {}
    PROVE  Max(S) \in S /\ \A y \in S : Max(S) >= y
<1> DEFINE Bounded(n) == \A T \in SUBSET S : T # {} /\ Cardinality(T) <= n => \E x \in T : \A y \in T : x >= y
           N == {n \in Nat : Bounded(n)}
<1>1. \A T \in SUBSET S : IsFiniteSet(T) /\ Cardinality(T) \in Nat
  BY FS_Subset, FS_CardinalityType
<1>2. 0 \in N
  BY <1>1, NoneOf
<1>3. ASSUME NEW n \in N PROVE n + 1 \in N
  <2> SUFFICES ASSUME NEW T \in SUBSET S, T # {}, Cardinality(T) <= n + 1
               PROVE  \E x \in T : \A y \in T : x >= y
    OBVIOUS
  <2> PICK a \in T : TRUE
    OBVIOUS
  <2>1. Cardinality(T \ {a}) <= n
    BY <1>1, OneLess
  <2>2. CASE T \ {a} = {}
    BY <2>2
  <2>3. CASE T \ {a} # {}
    <3> PICK b \in T \ {a} : \A y \in T \ {a} : b >= y
      BY <2>1, <2>3
    <3>1. a \in Nat /\ b \in Nat /\ \A y \in T : y = a \/ b >= y
      OBVIOUS
    <3>2. CASE a >= b
      BY <3>1, <3>2
    <3>3. CASE ~ (a >= b)
      BY <3>1, <3>3
    <3> QED
      BY <3>2, <3>3
  <2> QED
    BY <2>2, <2>3
<1>4. \A n \in Nat : n \in N
  <2>1. N \in SUBSET Nat
    OBVIOUS
  <2> HIDE DEF N
  <2> QED
    BY <1>2, <1>3, <2>1, AllNumbers
<1>5. Bounded(Cardinality(S)) /\ Cardinality(S) <= Cardinality(S)
  BY <1>1, <1>4
<1>6. \E x \in S : \A y \in S : x >= y
  BY <1>5
<1> QED
  BY <1>6 DEF Max

\* A set of numbers has a least.
LEMMA LeastIs ==
    ASSUME NEW S \in SUBSET Nat, S # {}
    PROVE  Min(S) \in S /\ \A y \in S : Min(S) <= y
<1> SUFFICES ASSUME \A x \in S : \E y \in S : ~ (x <= y) PROVE FALSE
  BY DEF Min
<1> PICK N : N = {n \in Nat : \A y \in S : y > n}
  OBVIOUS
<1>1. 0 \in N
  OBVIOUS
<1>2. ASSUME NEW n \in N PROVE n + 1 \in N
  <2> SUFFICES ASSUME NEW y \in S PROVE y > n + 1
    OBVIOUS
  <2>1. y \in Nat /\ n \in Nat /\ y > n
    OBVIOUS
  <2>2. y # n + 1
    BY <2>1
  <2> QED
    BY <2>1, <2>2
<1>3. \A n \in Nat : n \in N
  <2>1. N \in SUBSET Nat
    OBVIOUS
  <2> QED
    BY <1>1, <1>2, <2>1, AllNumbers
<1> PICK x \in S : TRUE
  OBVIOUS
<1>4. x \in Nat /\ x \in N
  BY <1>3
<1>5. x > x
  BY <1>4
<1> QED
  BY <1>4, <1>5

-----------------------------------------------------------------------------
(* Relations and means.                                                     *)

\* Two sets with nothing in common have as many elements together as they have each.
LEMMA BothApart ==
    ASSUME NEW A, IsFiniteSet(A), NEW B, IsFiniteSet(B), A \cap B = {}
    PROVE  IsFiniteSet(A \cup B) /\ Cardinality(A \cup B) = Cardinality(A) + Cardinality(B)
<1>1. /\ IsFiniteSet(A \cup B)
      /\ Cardinality(A \cup B) = Cardinality(A) + Cardinality(B) - Cardinality(A \cap B)
  BY FS_Union
<1>2. Cardinality(A \cap B) = 0
  BY FS_EmptySet
<1>3. Cardinality(A) \in Nat /\ Cardinality(B) \in Nat
  BY FS_CardinalityType
<1> QED
  BY <1>1, <1>2, <1>3

\* A relation by rows and by columns.
RowPairs(R, a) == {x \in R : x[1] = a}
ColumnPairs(R, b) == {x \in R : x[2] = b}
OfRow(R, B, a) == {b \in B : <<a, b>> \in R}
OfColumn(R, A, b) == {a \in A : <<a, b>> \in R}

\* What a relation has of one element is as much as the elements it relates it to.
LEMMA RowCount ==
    ASSUME NEW A, IsFiniteSet(A), NEW B, IsFiniteSet(B), NEW R \in SUBSET (A \X B), NEW a \in A
    PROVE  /\ IsFiniteSet(RowPairs(R, a))
           /\ Cardinality(RowPairs(R, a)) = Cardinality(OfRow(R, B, a))
<1> PICK S, T : S = OfRow(R, B, a) /\ T = RowPairs(R, a)
  OBVIOUS
<1>1. IsFiniteSet(S)
  <2>1. S \in SUBSET B
    BY DEF OfRow
  <2> QED
    BY <2>1, FS_Subset
<1> PICK f : f = [b \in S |-> <<a, b>>]
  OBVIOUS
<1>2. f \in Bijection(S, T)
  <2>1. f \in [S -> T]
    BY DEF OfRow, RowPairs, OfColumn, ColumnPairs
  <2>2. \A b, c \in S : f[b] = f[c] => b = c
    OBVIOUS
  <2>3. \A t \in T : \E b \in S : f[b] = t
    <3> SUFFICES ASSUME NEW t \in T PROVE \E b \in S : f[b] = t
      OBVIOUS
    <3>1. t \in A \X B /\ t = <<t[1], t[2]>> /\ t[1] = a /\ t \in R
      BY DEF RowPairs
    <3>2. t[2] \in S /\ f[t[2]] = t
      BY <3>1 DEF OfRow
    <3> QED
      BY <3>2
  <2> QED
    BY <2>1, <2>2, <2>3 DEF Bijection, Injection, Surjection, IsInjective
<1>3. ExistsBijection(S, T)
  BY <1>2 DEF ExistsBijection
<1> QED
  BY <1>1, <1>3, FS_Bijection

\* So is what it has of one element on the other side.
LEMMA ColumnCount ==
    ASSUME NEW A, IsFiniteSet(A), NEW B, IsFiniteSet(B), NEW R \in SUBSET (A \X B), NEW b \in B
    PROVE  Cardinality(ColumnPairs(R, b)) = Cardinality(OfColumn(R, A, b))
<1> PICK S, T : S = OfColumn(R, A, b) /\ T = ColumnPairs(R, b)
  OBVIOUS
<1>1. IsFiniteSet(S)
  <2>1. S \in SUBSET A
    BY DEF OfColumn
  <2> QED
    BY <2>1, FS_Subset
<1> PICK f : f = [a \in S |-> <<a, b>>]
  OBVIOUS
<1>2. f \in Bijection(S, T)
  <2>1. f \in [S -> T]
    BY DEF OfRow, RowPairs, OfColumn, ColumnPairs
  <2>2. \A a, c \in S : f[a] = f[c] => a = c
    OBVIOUS
  <2>3. \A t \in T : \E a \in S : f[a] = t
    <3> SUFFICES ASSUME NEW t \in T PROVE \E a \in S : f[a] = t
      OBVIOUS
    <3>1. t \in A \X B /\ t = <<t[1], t[2]>> /\ t[2] = b /\ t \in R
      BY DEF ColumnPairs
    <3>2. t[1] \in S /\ f[t[1]] = t
      BY <3>1 DEF OfColumn
    <3> QED
      BY <3>2
  <2> QED
    BY <2>1, <2>2, <2>3 DEF Bijection, Injection, Surjection, IsInjective
<1>3. ExistsBijection(S, T)
  BY <1>2 DEF ExistsBijection
<1> QED
  BY <1>1, <1>3, FS_Bijection

\* A relation counted by rows, and by columns.
LEMMA CountedTwice ==
    ASSUME NEW A, IsFiniteSet(A), NEW B, IsFiniteSet(B), NEW R \in SUBSET (A \X B),
           NEW f, \A a \in A : f[a] = Cardinality(OfRow(R, B, a)),
           NEW g, \A b \in B : g[b] = Cardinality(OfColumn(R, A, b))
    PROVE  Total(f, A) = Cardinality(R) /\ Total(g, B) = Cardinality(R) /\ IsFiniteSet(R)
<1>1. IsFiniteSet(R)
  BY FS_Product, FS_Subset
<1> PICK rows, columns : /\ rows = [a \in A |-> RowPairs(R, a)]
                         /\ columns = [b \in B |-> ColumnPairs(R, b)]
  OBVIOUS
<1>2. Parts(rows, A, R) /\ Parts(columns, B, R)
  BY DEF Parts, RowPairs, ColumnPairs
<1> PICK r, c : /\ r = [a \in A |-> Cardinality(rows[a])] /\ c = [b \in B |-> Cardinality(columns[b])]
  OBVIOUS
<1>3. IsFiniteSet(A) /\ IsFiniteSet(B) /\ R \in SUBSET (A \X B)
  OBVIOUS
<1>4. Total(r, A) = Cardinality(R) /\ Total(c, B) = Cardinality(R)
  <2>1. Total([a \in A |-> Cardinality(rows[a])], A) = Cardinality(R)
    BY ONLY <1>1, <1>2, <1>3, CountOfParts
  <2>2. Total([b \in B |-> Cardinality(columns[b])], B) = Cardinality(R)
    BY ONLY <1>1, <1>2, <1>3, CountOfParts
  <2> QED
    BY <2>1, <2>2
<1>5. ASSUME NEW a \in A PROVE f[a] = r[a]
  <2>1. Cardinality(RowPairs(R, a)) = Cardinality(OfRow(R, B, a))
    BY ONLY <1>3, <1>5, RowCount
  <2> QED
    BY <2>1
<1>6. ASSUME NEW b \in B PROVE g[b] = c[b]
  <2>1. Cardinality(ColumnPairs(R, b)) = Cardinality(OfColumn(R, A, b))
    BY ONLY <1>3, <1>6, ColumnCount
  <2> QED
    BY <2>1
<1>7. Total(f, A) = Total(r, A)
  BY ONLY <1>3, <1>5, TotalSame
<1>8. Total(g, B) = Total(c, B)
  BY ONLY <1>3, <1>6, TotalSame
<1> QED
  BY <1>1, <1>4, <1>7, <1>8

\* The quotient of a division: how often the divisor fits.
LEMMA DivIs ==
    ASSUME NEW x \in Nat, NEW n \in Nat \ {0}, NEW q, q = x \div n
    PROVE  q \in Nat /\ n * q <= x /\ x < n * (q + 1)
OBVIOUS

\* A multiple of more is more.
LEMMA TimesKeeps ==
    ASSUME NEW a \in Int, NEW b \in Int, a <= b, NEW n \in Nat
    PROVE  n * a <= n * b
OBVIOUS

\* A sum of multiples, and the mean of means.
LEMMA TotalScaled ==
    ASSUME NEW f, NEW S, IsFiniteSet(S), \A x \in S : f[x] \in Nat, NEW k \in Nat,
           NEW h, \A x \in S : h[x] = k * f[x]
    PROVE  Total(h, S) = k * Total(f, S)
<1> DEFINE Times(j) == [x \in S |-> j * f[x]]
           Good(j) == Total(Times(j), S) = j * Total(f, S)
           N == {j \in Nat : Good(j)}
<1>1. Total(f, S) \in Nat
  BY TotalIsNat
<1>2. 0 \in N
  <2> PICK z : z = Times(0)
    OBVIOUS
  <2>1. \A x \in S : z[x] = 0
    OBVIOUS
  <2>2. Total(z, S) = 0
    BY <2>1, TotalOfZeros
  <2> QED
    BY <1>1, <2>2
<1>3. ASSUME NEW j \in N PROVE j + 1 \in N
  <2> PICK a, b : a = Times(j) /\ b = Times(j + 1)
    OBVIOUS
  <2>1. j \in Nat /\ Total(a, S) = j * Total(f, S)
    OBVIOUS
  <2>2. \A x \in S : b[x] \in Int /\ a[x] \in Int /\ f[x] = b[x] - a[x]
    <3> SUFFICES ASSUME NEW x \in S PROVE b[x] \in Int /\ a[x] \in Int /\ f[x] = b[x] - a[x]
      OBVIOUS
    <3>1. a[x] = j * f[x] /\ b[x] = (j + 1) * f[x] /\ f[x] \in Nat
      OBVIOUS
    <3> QED
      BY ONLY <2>1, <3>1
  <2>3. Total(f, S) = Total(b, S) - Total(a, S)
    BY ONLY <2>2, IsFiniteSet(S), TotalLess
  <2>4. IsFiniteSet(S) /\ \A x \in S : b[x] \in Int
    BY <2>2
  <2>5. Total(b, S) \in Int
    BY ONLY <2>4, TotalIsInt
  <2>6. Total(b, S) = (j + 1) * Total(f, S)
    BY ONLY <1>1, <2>1, <2>3, <2>5
  <2> QED
    BY <2>1, <2>6
<1>4. k \in N
  <2>1. N \in SUBSET Nat
    OBVIOUS
  <2> HIDE DEF N
  <2> QED
    BY <1>2, <1>3, <2>1, AllNumbers
<1>5. Total(Times(k), S) = k * Total(f, S)
  BY <1>4
<1>6. \A x \in S : h[x] = Times(k)[x]
  OBVIOUS
<1> HIDE DEF Times
<1>7. Total(h, S) = Total(Times(k), S)
  BY <1>6, TotalSame
<1> QED
  BY <1>5, <1>7

\* The mean of all that many have lies between the means of two of them.
LEMMA MeanBetween ==
    ASSUME NEW P, IsFiniteSet(P), P # {}, NEW s, NEW n,
           \A p \in P : s[p] \in Nat /\ n[p] \in Nat \ {0},
           NEW lo \in Nat, NEW hi \in Nat, \A p \in P : lo <= s[p] \div n[p] /\ s[p] \div n[p] <= hi
    PROVE  LET q == Total(s, P) \div Total(n, P) IN lo <= q /\ q <= hi
<1> PICK a, b : /\ a = [p \in P |-> lo * n[p]] /\ b = [p \in P |-> (hi + 1) * n[p]]
  OBVIOUS
<1> PICK S, N : S = Total(s, P) /\ N = Total(n, P)
  OBVIOUS
<1>1. \A p \in P : a[p] \in Nat /\ b[p] \in Nat /\ a[p] <= s[p] /\ s[p] < b[p]
  <2> SUFFICES ASSUME NEW p \in P PROVE a[p] \in Nat /\ b[p] \in Nat /\ a[p] <= s[p] /\ s[p] < b[p]
    OBVIOUS
  <2> PICK x, k, q : x = s[p] /\ k = n[p] /\ q = x \div k
    OBVIOUS
  <2>1. x \in Nat /\ k \in Nat \ {0} /\ lo <= q /\ q <= hi
    OBVIOUS
  <2>2. q \in Nat /\ k * q <= x /\ x < k * (q + 1)
    BY <2>1, DivIs
  <2>3. k * lo <= k * q /\ k * (q + 1) <= k * (hi + 1)
    BY <2>1, <2>2, TimesKeeps
  <2>4. a[p] = lo * k /\ b[p] = (hi + 1) * k
    OBVIOUS
  <2>5. lo * k = k * lo /\ (hi + 1) * k = k * (hi + 1) /\ lo * k \in Nat /\ (hi + 1) * k \in Nat
    BY <2>1
  <2> QED
    BY <2>1, <2>2, <2>3, <2>4, <2>5
<1>2. S \in Nat /\ N \in Nat
  BY TotalIsNat
<1>3. Total(a, P) = lo * N /\ Total(b, P) = (hi + 1) * N
  BY TotalScaled
<1>4. lo * N <= S
  <2>1. P \in SUBSET P /\ \A p \in P : s[p] \in Nat /\ a[p] \in Nat /\ a[p] <= s[p]
    BY <1>1
  <2>2. Total(a, P) <= Total(s, P)
    BY <2>1, TotalGrows
  <2> QED
    BY <1>3, <2>2
<1>5. S < (hi + 1) * N
  <2> PICK c, one : c = [p \in P |-> b[p] - s[p]] /\ one = [p \in P |-> 1]
    OBVIOUS
  <2>1. \A p \in P : /\ b[p] \in Int /\ s[p] \in Int /\ c[p] = b[p] - s[p]
                     /\ one[p] = 1 /\ one[p] \in Nat /\ c[p] \in Nat /\ one[p] <= c[p]
    BY <1>1
  <2>2. Total(c, P) = Total(b, P) - S
    BY <2>1, TotalLess
  <2>3. P \in SUBSET P
    OBVIOUS
  <2>4. Total(one, P) <= Total(c, P) /\ Total(one, P) \in Nat /\ Total(c, P) \in Nat
    BY <2>1, <2>3, TotalGrows
  <2>5. Total(one, P) = Cardinality(P)
    BY <2>1, TotalOfOnes
  <2>6. Cardinality(P) \in Nat /\ Cardinality(P) # 0
    BY FS_CardinalityType, FS_EmptySet
  <2>7. \A p \in P : b[p] \in Int
    BY <2>1
  <2>8. Total(b, P) \in Int
    BY <2>7, TotalIsInt
  <2> QED
    BY <1>2, <1>3, <2>2, <2>4, <2>5, <2>6, <2>8
<1>6. N # 0
  BY <1>2, <1>5
<1> PICK q : q = S \div N
  OBVIOUS
<1>7. q \in Nat /\ N * q <= S /\ S < N * (q + 1)
  BY <1>2, <1>6, DivIs
<1>8. lo <= q
  <2> SUFFICES ASSUME q + 1 <= lo PROVE FALSE
    BY <1>7
  <2>1. N * (q + 1) <= N * lo
    BY <1>2, <1>7, TimesKeeps
  <2>2. N * lo = lo * N
    BY <1>2
  <2> QED
    BY <1>2, <1>4, <1>7, <2>1, <2>2
<1>9. q <= hi
  <2> SUFFICES ASSUME hi + 1 <= q PROVE FALSE
    BY <1>7
  <2>1. N * (hi + 1) <= N * q
    BY <1>2, <1>7, TimesKeeps
  <2>2. N * (hi + 1) = (hi + 1) * N
    BY <1>2
  <2> QED
    BY <1>2, <1>5, <1>7, <2>1, <2>2
<1> QED
  BY <1>8, <1>9

-----------------------------------------------------------------------------
(* Rows of the carry-forward ledger.                                        *)

\* Rows of the months in M whose running balance lies in B: TypeOK takes B to
\* be Int, the range theorem the balances that some cap allows.
RowsOver(M, B) == [month: M, type: EntryTypes, days: Int, balance: B]

(* A non-empty set of row positions has a greatest element, so the CHOOSE   *)
(* of LatestOf, which stands for the query of balance_before, picks one.    *)
LEMMA LatestOfPositions ==
    ASSUME NEW n \in Nat, NEW S \in SUBSET (1 .. n), S # {}
    PROVE  LatestOf(S) \in S /\ \A j \in S : j <= LatestOf(S)
<1> DEFINE T == {n - i : i \in S}
<1>1. T \subseteq Nat /\ T # {}
  <2>1. ASSUME NEW i \in S PROVE n - i \in Nat
    OBVIOUS
  <2>2. PICK i \in S : TRUE
    OBVIOUS
  <2>3. n - i \in T
    OBVIOUS
  <2> QED BY <2>1, <2>3
<1>2. PICK m \in T : \A y \in T : ~ (<<y, m>> \in OpToRel(<, Nat))
  BY <1>1, NatLessThanWellFounded, WFMin, Zenon
<1>3. \A y \in T : m <= y
  <2>1. ASSUME NEW y \in Nat, y < m, m \in Nat
        PROVE  <<y, m>> \in OpToRel(<, Nat)
    <3>1. <<y, m>> \in Nat \X Nat
      BY <2>1
    <3>2. <<y, m>>[1] < <<y, m>>[2]
      BY <2>1
    <3> QED BY <3>1, <3>2, Zenon DEF OpToRel
  <2> HIDE DEF T
  <2>2. m \in Nat /\ \A y \in T : y \in Nat /\ ~ (y < m)
    BY <1>1, <1>2, <2>1, Zenon
  <2> QED BY <2>2
<1>4. PICK i \in S : m = n - i
  OBVIOUS
<1>5. \A j \in S : j <= i
  <2>1. ASSUME NEW j \in S PROVE j <= i
    <3>1. n - j \in T
      OBVIOUS
    <3> QED BY <1>3, <1>4, <3>1
  <2> QED BY <2>1
<1> QED BY <1>5 DEF LatestOf

(* What a month starts from is the balance of some row, or nothing.         *)
LEMMA BalanceBeforeIn ==
    ASSUME NEW B, 0 \in B, NEW M, NEW rows \in Seq(RowsOver(M, B)), NEW month
    PROVE  BalanceBefore(rows, month) \in B
<1> DEFINE S == EarlierRows(rows, month)
<1>1. CASE S = {}
  BY <1>1 DEF BalanceBefore
<1>2. CASE S # {}
  <2>1. Len(rows) \in Nat /\ S \in SUBSET (1 .. Len(rows))
    BY LenProperties DEF EarlierRows
  <2>2. LatestOf(S) \in 1 .. Len(rows)
    BY <1>2, <2>1, LatestOfPositions
  <2>3. rows[LatestOf(S)] \in RowsOver(M, B)
    BY <2>2, ElementOfSeq
  <2> QED BY <1>2, <2>3 DEF BalanceBefore, RowsOver
<1> QED BY <1>1, <1>2

(* current_balance is the balance of some row, or zero.                     *)
LEMMA CurrentBalanceIn ==
    ASSUME NEW B, 0 \in B, NEW M, NEW rows \in Seq(RowsOver(M, B))
    PROVE  CurrentBalance(rows) \in B
<1>1. CASE rows = <<>>
  BY <1>1 DEF CurrentBalance
<1>2. CASE rows # <<>>
  <2>1. Len(rows) \in 1 .. Len(rows)
    BY <1>2, EmptySeq
  <2>2. rows[Len(rows)] \in RowsOver(M, B)
    BY <2>1, ElementOfSeq
  <2> QED BY <1>2, <2>2 DEF CurrentBalance, RowsOver
<1> QED BY <1>1, <1>2

(* An appended row is well formed if its month, type, days and balance are. *)
LEMMA EntryIn ==
    ASSUME NEW month, NEW B, NEW days \in Int, NEW balance \in B
    PROVE  \A type \in EntryTypes :
               <<Entry(month, type, days, balance)>> \in Seq(RowsOver({month}, B))
<1> TAKE type \in EntryTypes
<1>1. Entry(month, type, days, balance) \in RowsOver({month}, B)
  BY DEF Entry, RowsOver
<1> QED BY <1>1

(* The rows apply_computation appends belong to its month, and their        *)
(* balances stay in any set that contains the three balances computed.      *)
LEMMA ApplyComputationRows ==
    ASSUME NEW month, NEW balanceIn \in Int, NEW B,
           NEW mv, mv.added \in Nat, mv.trimmed \in Nat, mv.used \in Int,
           mv.added > 0 \/ mv.trimmed > 0 => balanceIn + mv.added \in B,
           mv.used > 0 => balanceIn + mv.added - mv.used \in B
    PROVE  ApplyComputation(month, balanceIn, mv) \in Seq(RowsOver({month}, B))
<1> DEFINE raised == balanceIn + mv.added
           R == RowsOver({month}, B)
           added == RowIf(mv.added > 0,
                          Entry(month, "extra_added", mv.added, raised))
           trim == RowIf(mv.trimmed > 0,
                         Entry(month, "cap_trim", mv.trimmed, raised))
           used == RowIf(mv.used > 0,
                         Entry(month, "compensation_used", -mv.used,
                               raised - mv.used))
<1>1. added \in Seq(R)
  <2>1. CASE mv.added > 0
    <3>1. mv.added \in Int /\ raised \in B
      BY <2>1
    <3>2. <<Entry(month, "extra_added", mv.added, raised)>> \in Seq(R)
      BY <3>1, EntryIn DEF EntryTypes
    <3> QED BY <2>1, <3>2 DEF RowIf
  <2>2. CASE ~ (mv.added > 0)
    BY <2>2 DEF RowIf
  <2> QED BY <2>1, <2>2
<1>2. trim \in Seq(R)
  <2>1. CASE mv.trimmed > 0
    <3>1. mv.trimmed \in Int /\ raised \in B
      BY <2>1
    <3>2. <<Entry(month, "cap_trim", mv.trimmed, raised)>> \in Seq(R)
      BY <3>1, EntryIn DEF EntryTypes
    <3> QED BY <2>1, <3>2 DEF RowIf
  <2>2. CASE ~ (mv.trimmed > 0)
    BY <2>2 DEF RowIf
  <2> QED BY <2>1, <2>2
<1>3. used \in Seq(R)
  <2>1. CASE mv.used > 0
    <3>1. -mv.used \in Int /\ raised - mv.used \in B
      BY <2>1
    <3>2. <<Entry(month, "compensation_used", -mv.used, raised - mv.used)>> \in Seq(R)
      BY <3>1, EntryIn DEF EntryTypes
    <3> QED BY <2>1, <3>2 DEF RowIf
  <2>2. CASE ~ (mv.used > 0)
    BY <2>2 DEF RowIf
  <2> QED BY <2>1, <2>2
<1>4. ApplyComputation(month, balanceIn, mv) = added \o trim \o used
  BY DEF ApplyComputation
<1> HIDE DEF added, trim, used, R
<1>5. added \o trim \in Seq(R)
  BY <1>1, <1>2, ConcatProperties
<1>6. added \o trim \o used \in Seq(R)
  BY <1>3, <1>5, ConcatProperties
<1> QED BY <1>4, <1>6 DEF R

(* reverse_to appends at most one row, of its month, at the target balance. *)
LEMMA ReverseToRows ==
    ASSUME NEW month, NEW M, NEW B, B \subseteq Int, NEW C, 0 \in C, C \subseteq Int,
           NEW rows \in Seq(RowsOver(M, C)), NEW target \in B
    PROVE  ReverseTo(rows, month, target) \in Seq(RowsOver({month}, B))
<1>1. CurrentBalance(rows) \in Int /\ target \in Int
  BY CurrentBalanceIn
<1> DEFINE days == target - CurrentBalance(rows)
<1>2. days \in Int
  BY <1>1
<1> HIDE DEF days
<1>3. <<Entry(month, "reversal", days, target)>> \in Seq(RowsOver({month}, B))
  BY <1>2, EntryIn DEF EntryTypes
<1>4. \/ ReverseTo(rows, month, target) = <<>>
      \/ ReverseTo(rows, month, target)
           = <<Entry(month, "reversal", days, target)>>
  BY DEF ReverseTo, RowIf, days
<1> QED BY <1>3, <1>4, EmptySeq

(* _apply_balance returns whole half days, and never adds or trims less     *)
(* than none.                                                               *)
LEMMA MovementType ==
    ASSUME NEW net \in Int, NEW b \in Int, NEW c \in Nat,
           NEW borrow \in BOOLEAN, NEW mv, mv = ApplyBalance(net, b, c, borrow)
    PROVE  /\ mv.added \in Nat
           /\ mv.trimmed \in Nat
           /\ mv.used \in Int
  BY DEF ApplyBalance, ExtraMovement, ShortfallMovement, Unmoved, Least, Most

(* With negative balances off, an extra lifts the balance to the cap at     *)
(* most, and a shortfall takes no more than the balance holds.              *)
LEMMA MovementRange ==
    ASSUME NEW net \in Int, NEW b \in Nat, NEW c \in Nat,
           NEW borrow \in BOOLEAN, ~ borrow,
           NEW mv, mv = ApplyBalance(net, b, c, borrow)
    PROVE  /\ mv.added > 0 => b + mv.added <= c
           /\ mv.used > 0 => mv.added = 0 /\ mv.used <= b
<1>1. CASE net > 0
  BY <1>1 DEF ApplyBalance, ExtraMovement, Unmoved, Least, Most
<1>2. CASE net < 0
  BY <1>2 DEF ApplyBalance, ShortfallMovement, Unmoved, Least
<1>3. CASE net = 0
  BY <1>3 DEF ApplyBalance, Unmoved
<1>4. net > 0 \/ net < 0 \/ net = 0
  OBVIOUS
<1> QED BY <1>1, <1>2, <1>3, <1>4, Zenon

(* Rows over smaller sets of months and balances are rows over larger ones. *)
LEMMA RowsWiden ==
    ASSUME NEW M, NEW month \in M, NEW B, NEW rows \in Seq(RowsOver(M, B)),
           NEW new \in Seq(RowsOver({month}, B))
    PROVE  rows \o new \in Seq(RowsOver(M, B))
<1>1. RowsOver({month}, B) \subseteq RowsOver(M, B)
  BY DEF RowsOver
<1>2. new \in Seq(RowsOver(M, B))
  BY <1>1, SeqMonotonic
<1> QED BY <1>2, ConcatProperties
=============================================================================
