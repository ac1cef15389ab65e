--------------------------- MODULE FundingProofs ----------------------------
(***************************************************************************)
(* Theorems about Funding and Gifts: they hold for every set of projects,  *)
(* profiles, contributions, requests, admins, pages, actors and tabs, and  *)
(* for every amount.  Both keep a total beside the rows it adds up, so     *)
(* they start with the sums.                                               *)
(***************************************************************************)
EXTENDS Funding, Gifts, FiniteSetTheorems, WellFoundedInduction, TLAPS

-----------------------------------------------------------------------------
(* Sums over finite sets                                                   *)

\* What MapThenSumSet unfolds to: the sum takes one element away at a time.
Taken(s) == CHOOSE x \in s : TRUE

Unfolds(f, S, sum) ==
    sum = [s \in SUBSET S |-> IF s = {} THEN 0 ELSE f[Taken(s)] + sum[s \ {Taken(s)}]]

\* The sum of f over S, as the two modules write it.
SumOf(f, S) == MapThenSumSet(LAMBDA x : f[x], S)

\* A sum is the chosen unfolding, at the whole set.
LEMMA SumDef == ASSUME NEW f, NEW S
                PROVE  SumOf(f, S) = (CHOOSE sum : Unfolds(f, S, sum))[S]
  BY DEF SumOf, MapThenSumSet, MapThenFoldSet, Unfolds, Taken

\* A set of naturals that holds 0, and with every number the next one, holds all of them.
LEMMA Induction ==
  ASSUME NEW T, 0 \in T, \A n \in Nat : n \in T => n + 1 \in T
  PROVE  Nat \subseteq T
<1> DEFINE Bad == Nat \ T
<1> SUFFICES ASSUME Bad # {} PROVE FALSE
  OBVIOUS
<1>1. Bad \subseteq Nat
  OBVIOUS
<1>2. \E n \in Bad : \A m \in Bad : ~(<<m, n>> \in OpToRel(<, Nat))
  BY <1>1, NatLessThanWellFounded, WFMin
<1>3. PICK n \in Bad : \A m \in Bad : ~(m < n)
  BY <1>1, <1>2 DEF OpToRel
<1>4. n \in Nat /\ n # 0 /\ n - 1 \in Nat
  OBVIOUS
<1>5. n - 1 \in Bad
  BY <1>4
<1>6. QED BY <1>3, <1>4, <1>5

\* The unfolding has a solution when the set is finite.
LEMMA SumExists ==
  ASSUME NEW f, NEW S, IsFiniteSet(S)
  PROVE  \E sum : Unfolds(f, S, sum)
<1> DEFINE Step(g, s) == IF s = {} THEN 0 ELSE f[Taken(s)] + g[s \ {Taken(s)}]
           Upto(n) == \E g : /\ g = [s \in SUBSET S |-> g[s]]
                             /\ \A s \in SUBSET S : Cardinality(s) <= n => g[s] = Step(g, s)
           Good == {n \in Nat : Upto(n)}
<1>0. \A s \in SUBSET S : IsFiniteSet(s) /\ Cardinality(s) \in Nat
  BY FS_Subset, FS_CardinalityType
<1>1. \A s \in SUBSET S : s # {} =>
         s \ {Taken(s)} \in SUBSET S /\ Cardinality(s \ {Taken(s)}) = Cardinality(s) - 1
  <2> SUFFICES ASSUME NEW s \in SUBSET S, s # {}
               PROVE  Cardinality(s \ {Taken(s)}) = Cardinality(s) - 1
    OBVIOUS
  <2>1. Taken(s) \in s
    BY DEF Taken
  <2>2. QED BY <2>1, <1>0, FS_RemoveElement
<1>2. 0 \in Good
  <2> DEFINE g == [s \in SUBSET S |-> 0]
  <2>1. ASSUME NEW s \in SUBSET S, Cardinality(s) <= 0 PROVE s = {}
    BY <2>1, <1>0, FS_EmptySet
  <2>2. \A s \in SUBSET S : Cardinality(s) <= 0 => g[s] = Step(g, s)
    BY <2>1
  <2>3. g = [s \in SUBSET S |-> g[s]]
    OBVIOUS
  <2>4. Upto(0)
    BY <2>2, <2>3
  <2>5. QED BY <2>4
<1>3. ASSUME NEW n \in Nat, n \in Good PROVE n + 1 \in Good
  <2>1. PICK g : /\ g = [s \in SUBSET S |-> g[s]]
                 /\ \A s \in SUBSET S : Cardinality(s) <= n => g[s] = Step(g, s)
    BY <1>3
  <2> DEFINE h == [s \in SUBSET S |-> Step(g, s)]
  <2>2. ASSUME NEW s \in SUBSET S, Cardinality(s) <= n + 1 PROVE h[s] = Step(h, s)
    <3>1. CASE s = {}
      BY <3>1
    <3>2. CASE s # {}
      <4> DEFINE t == s \ {Taken(s)}
      <4>1. t \in SUBSET S /\ Cardinality(t) <= n
        BY <1>0, <1>1, <2>2, <3>2
      <4>2. g[t] = Step(g, t)
        BY <4>1, <2>1
      <4>3. h[t] = g[t]
        BY <4>1, <4>2
      <4>4. QED BY <4>3, <3>2
    <3>3. QED BY <3>1, <3>2
  <2>3. h = [s \in SUBSET S |-> h[s]]
    OBVIOUS
  <2>4. Upto(n + 1)
    <3> HIDE DEF h
    <3>1. QED BY <2>2, <2>3
  <2>5. n + 1 \in Nat
    OBVIOUS
  <2>6. QED
    <3> HIDE DEF Upto
    <3>1. QED BY <2>4, <2>5
<1>4. Cardinality(S) \in Good
  <2> HIDE DEF Good
  <2>1. QED BY <1>0, <1>2, <1>3, Induction
<1>5. PICK g : /\ g = [s \in SUBSET S |-> g[s]]
               /\ \A s \in SUBSET S : Cardinality(s) <= Cardinality(S) => g[s] = Step(g, s)
  BY <1>4
<1>6. \A s \in SUBSET S : g[s] = Step(g, s)
  BY <1>5, FS_Subset
<1>7. Unfolds(f, S, g)
  BY <1>5, <1>6 DEF Unfolds
<1>8. QED BY <1>7

\* Two solutions agree wherever both add up the same numbers.
LEMMA SumUnique ==
  ASSUME NEW f, NEW g, NEW S, NEW T, IsFiniteSet(S), NEW a, NEW b,
         Unfolds(f, S, a), Unfolds(g, T, b), S \subseteq T, \A x \in S : f[x] = g[x]
  PROVE  a[S] = b[S]
<1> DEFINE Good == {n \in Nat : \A s \in SUBSET S : Cardinality(s) <= n => a[s] = b[s]}
<1>0. \A s \in SUBSET S : IsFiniteSet(s) /\ Cardinality(s) \in Nat
  BY FS_Subset, FS_CardinalityType
<1>1. ASSUME NEW s \in SUBSET S, s # {}
      PROVE  /\ Taken(s) \in S
             /\ s \ {Taken(s)} \in SUBSET S
             /\ Cardinality(s \ {Taken(s)}) = Cardinality(s) - 1
             /\ a[s] = f[Taken(s)] + a[s \ {Taken(s)}]
             /\ b[s] = g[Taken(s)] + b[s \ {Taken(s)}]
  <2>1. Taken(s) \in s
    BY <1>1 DEF Taken
  <2>2. Cardinality(s \ {Taken(s)}) = Cardinality(s) - 1
    BY <2>1, <1>0, FS_RemoveElement
  <2>3. a[s] = f[Taken(s)] + a[s \ {Taken(s)}]
    BY <1>1 DEF Unfolds
  <2>4. b[s] = g[Taken(s)] + b[s \ {Taken(s)}]
    BY <1>1 DEF Unfolds
  <2>5. QED BY <2>1, <2>2, <2>3, <2>4
<1>2. a[{}] = 0 /\ b[{}] = 0
  BY DEF Unfolds
<1>3. 0 \in Good
  <2>1. \A s \in SUBSET S : Cardinality(s) <= 0 => s = {}
    BY <1>0, FS_EmptySet
  <2>2. QED BY <2>1, <1>2
<1>4. ASSUME NEW n \in Nat, n \in Good PROVE n + 1 \in Good
  <2>1. ASSUME NEW s \in SUBSET S, Cardinality(s) <= n + 1 PROVE a[s] = b[s]
    <3>1. CASE s = {}
      BY <3>1, <1>2
    <3>2. CASE s # {}
      <4>1. Cardinality(s \ {Taken(s)}) <= n
        BY <1>0, <1>1, <2>1, <3>2
      <4>2. a[s \ {Taken(s)}] = b[s \ {Taken(s)}]
        BY <4>1, <1>1, <1>4, <3>2
      <4>3. f[Taken(s)] = g[Taken(s)]
        BY <1>1, <3>2
      <4>4. QED BY <4>2, <4>3, <1>1, <3>2
    <3>3. QED BY <3>1, <3>2
  <2>2. QED BY <2>1
<1>5. Cardinality(S) \in Good
  <2> HIDE DEF Good
  <2>1. QED BY <1>0, <1>3, <1>4, Induction
<1>6. QED BY <1>5, <1>0

\* So the unfolding chosen for a finite set is one.
LEMMA SumUnfolds ==
  ASSUME NEW f, NEW S, IsFiniteSet(S)
  PROVE  Unfolds(f, S, CHOOSE sum : Unfolds(f, S, sum))
  BY SumExists

\* Only the numbers at the elements of the set count.
LEMMA SumSame ==
  ASSUME NEW f, NEW g, NEW S, IsFiniteSet(S), \A x \in S : f[x] = g[x]
  PROVE  SumOf(f, S) = SumOf(g, S)
<1> DEFINE a == CHOOSE sum : Unfolds(f, S, sum)
           b == CHOOSE sum : Unfolds(g, S, sum)
<1>1. Unfolds(f, S, a) /\ Unfolds(g, S, b)
  BY SumUnfolds
<1>2. SumOf(f, S) = a[S] /\ SumOf(g, S) = b[S]
  BY SumDef
<1> HIDE DEF a, b
<1>3. QED BY <1>1, <1>2, SumUnique

\* Nothing adds up to 0.
LEMMA SumEmpty == ASSUME NEW f PROVE SumOf(f, {}) = 0
<1>1. Unfolds(f, {}, CHOOSE sum : Unfolds(f, {}, sum))
  BY SumUnfolds, FS_EmptySet
<1>2. QED BY <1>1, SumDef DEF Unfolds

\* A sum is one element's number and the sum of the rest.
LEMMA SumTaken ==
  ASSUME NEW f, NEW S, IsFiniteSet(S), S # {}
  PROVE  SumOf(f, S) = f[Taken(S)] + SumOf(f, S \ {Taken(S)})
<1> DEFINE T == S \ {Taken(S)}
           a == CHOOSE sum : Unfolds(f, S, sum)
           b == CHOOSE sum : Unfolds(f, T, sum)
<1>1. IsFiniteSet(T) /\ T \subseteq S
  BY FS_RemoveElement
<1>2. Unfolds(f, S, a) /\ Unfolds(f, T, b)
  BY <1>1, SumUnfolds
<1>3. SumOf(f, S) = a[S] /\ SumOf(f, T) = b[T]
  BY SumDef
<1> HIDE DEF a, b
<1>4. b[T] = a[T]
  BY <1>1, <1>2, SumUnique
<1>5. a[S] = f[Taken(S)] + a[T]
  BY <1>2 DEF Unfolds
<1>6. QED BY <1>3, <1>4, <1>5

\* A sum of integers is an integer, and any element may be taken away first.
LEMMA SumOfInts ==
  ASSUME NEW f, NEW S, IsFiniteSet(S), \A x \in S : f[x] \in Int
  PROVE  /\ SumOf(f, S) \in Int
         /\ \A x \in S : SumOf(f, S) = f[x] + SumOf(f, S \ {x})
<1> DEFINE Fits(s) == /\ SumOf(f, s) \in Int
                      /\ \A x \in s : SumOf(f, s) = f[x] + SumOf(f, s \ {x})
           Good == {n \in Nat : \A s \in SUBSET S : Cardinality(s) <= n => Fits(s)}
<1>0. \A s \in SUBSET S : IsFiniteSet(s) /\ Cardinality(s) \in Nat
  BY FS_Subset, FS_CardinalityType
<1>1. 0 \in Good
  <2>1. \A s \in SUBSET S : Cardinality(s) <= 0 => s = {}
    BY <1>0, FS_EmptySet
  <2>2. Fits({})
    BY SumEmpty
  <2>3. QED
    <3> HIDE DEF Fits
    <3>1. QED BY <2>1, <2>2
<1>2. ASSUME NEW n \in Nat, n \in Good PROVE n + 1 \in Good
  <2>1. ASSUME NEW s \in SUBSET S, Cardinality(s) <= n + 1, s # {} PROVE Fits(s)
    <3> DEFINE y == Taken(s)
    <3>1. y \in s
      BY <2>1 DEF Taken
    <3> HIDE DEF y
    <3>2. \A x \in s : /\ s \ {x} \in SUBSET S
                       /\ Cardinality(s \ {x}) <= n
      BY <1>0, <2>1, FS_RemoveElement
    <3>3. \A x \in s : Fits(s \ {x})
      <4> HIDE DEF Fits
      <4>1. QED BY <3>2, <1>2
    <3>4. SumOf(f, s) = f[y] + SumOf(f, s \ {y})
      BY <1>0, <2>1, SumTaken DEF y
    <3>5. SumOf(f, s) \in Int
      BY <3>1, <3>3, <3>4
    <3>6. ASSUME NEW x \in s, x # y
          PROVE  SumOf(f, s) = f[x] + SumOf(f, s \ {x})
      <4>1. SumOf(f, s \ {y}) = f[x] + SumOf(f, (s \ {y}) \ {x})
        BY <3>1, <3>3, <3>6
      <4>2. SumOf(f, s \ {x}) = f[y] + SumOf(f, (s \ {x}) \ {y})
        BY <3>1, <3>3, <3>6
      <4>3. (s \ {y}) \ {x} = (s \ {x}) \ {y}
        OBVIOUS
      <4>4. SumOf(f, (s \ {x}) \ {y}) \in Int /\ f[x] \in Int /\ f[y] \in Int
        <5>1. (s \ {x}) \ {y} \in SUBSET S /\ Cardinality((s \ {x}) \ {y}) <= n
          <6>1. y \in s \ {x}
            BY <3>1, <3>6
          <6>2. IsFiniteSet(s \ {x}) /\ Cardinality(s \ {x}) \in Nat
            BY <1>0, <3>2
          <6>3. Cardinality((s \ {x}) \ {y}) = Cardinality(s \ {x}) - 1
            BY <6>1, <6>2, FS_RemoveElement
          <6>4. QED BY <6>2, <6>3, <3>2
        <5>2. Fits((s \ {x}) \ {y})
          <6> HIDE DEF Fits
          <6>1. QED BY <5>1, <1>2
        <5>3. QED BY <5>2, <3>1
      <4>5. \A p, q, r \in Int : p + (q + r) = q + (p + r)
        OBVIOUS
      <4>6. SumOf(f, s) = f[y] + (f[x] + SumOf(f, (s \ {x}) \ {y}))
        BY <4>1, <4>3, <3>4
      <4>7. SumOf(f, s) = f[x] + (f[y] + SumOf(f, (s \ {x}) \ {y}))
        BY <4>4, <4>5, <4>6
      <4>8. QED BY <4>2, <4>7
    <3>7. QED BY <3>4, <3>5, <3>6
  <2>2. Fits({})
    BY SumEmpty
  <2>3. QED
    <3> HIDE DEF Fits
    <3>1. QED BY <2>1, <2>2
<1>3. Cardinality(S) \in Good
  <2> HIDE DEF Good
  <2>1. QED BY <1>0, <1>1, <1>2, Induction
<1>4. QED BY <1>3, <1>0

\* One more element adds its number.
LEMMA SumAdd ==
  ASSUME NEW f, NEW g, NEW S, IsFiniteSet(S), NEW x, x \notin S,
         \A y \in S : f[y] \in Int /\ g[y] = f[y], g[x] \in Int
  PROVE  SumOf(g, S \cup {x}) = SumOf(f, S) + g[x]
<1>1. IsFiniteSet(S \cup {x}) /\ (S \cup {x}) \ {x} = S
  BY FS_AddElement
<1>2. \A y \in S \cup {x} : g[y] \in Int
  OBVIOUS
<1>3. SumOf(g, S \cup {x}) = g[x] + SumOf(g, S)
  BY <1>1, <1>2, SumOfInts
<1>4. SumOf(g, S) = SumOf(f, S)
  BY SumSame
<1>5. SumOf(f, S) \in Int
  BY SumOfInts
<1> QED
  BY <1>3, <1>4, <1>5

\* Changing one number changes the sum by as much.
LEMMA SumChanged ==
  ASSUME NEW f, NEW g, NEW S, IsFiniteSet(S), NEW x \in S,
         \A y \in S : f[y] \in Int /\ g[y] \in Int,
         \A y \in S \ {x} : g[y] = f[y]
  PROVE  SumOf(g, S) = SumOf(f, S) + (g[x] - f[x])
<1>1. IsFiniteSet(S \ {x})
  BY FS_RemoveElement
<1>2. SumOf(f, S) = f[x] + SumOf(f, S \ {x}) /\ SumOf(g, S) = g[x] + SumOf(g, S \ {x})
  BY SumOfInts
<1>3. SumOf(g, S \ {x}) = SumOf(f, S \ {x})
  BY <1>1, SumSame
<1>4. SumOf(f, S \ {x}) \in Int
  BY <1>1, SumOfInts
<1>5. f[x] \in Int /\ g[x] \in Int
  OBVIOUS
<1> QED
  BY <1>2, <1>3, <1>4, <1>5

-----------------------------------------------------------------------------
(* Funding: the inductive invariant                                        *)

\* One project row is held by one request or admin, who has read it as it is.
LocksHold ==
    /\ \A v, w \in Request \cup Admin : at[v] # NoProject /\ at[v] = at[w] => v = w
    /\ \A w \in Request \cup Admin : at[w] # NoProject => read[w] = Row(at[w])

\* A contribution that does not exist has not been given back, and those that do are
\* finitely many.
RowsAreWritten ==
    /\ \A c \in Contribution : project[c] = NoProject => ~refunded[c]
    /\ IsFiniteSet({c \in Contribution : project[c] # NoProject})

\* A page that is to be saved shows a project, and cancels none that was not cancelled
\* when it was checked.
PagesAreChecked ==
    \A g \in Page : /\ chosen[g] # "none" => open[g] # NoProject
                    /\ chosen[g] = "canceled" => against[g] = "canceled"

FundingIInv ==
    /\ TypeOK /\ LocksHold /\ RowsAreWritten /\ PagesAreChecked
    /\ CollectedAccounted /\ RefundedOnce /\ CanceledHoldsNothing

USE FundingAssumption DEF FundingAssumption

\* CollectedAccounted speaks of SumOf, now and after a step.
CollectedIsSum ==
    \A p \in Project :
        collected[p] + lost[p] = SumOf(amount, {c \in Contribution : project[c] = p})

\* What the model writes as a fold is that sum.
LEMMA CollectedFold ==
  /\ CollectedAccounted <=> CollectedIsSum
  /\ CollectedAccounted' <=> CollectedIsSum'
<1>1. CollectedAccounted <=> CollectedIsSum
  BY DEF CollectedAccounted, CollectedIsSum, SumOf
<1>2. CollectedAccounted' <=> CollectedIsSum'
  BY DEF CollectedAccounted, CollectedIsSum, SumOf, MapThenSumSet, MapThenFoldSet
<1> QED
  BY <1>1, <1>2

\* Before anybody has contributed, the invariant holds.
LEMMA FundingInit == Init => FundingIInv
<1> SUFFICES ASSUME Init PROVE FundingIInv
  OBVIOUS
<1> USE DEF Init
<1>1. TypeOK
  BY DEF TypeOK, Status, Reading, Nothing
<1>2. LocksHold /\ PagesAreChecked
  BY DEF LocksHold, PagesAreChecked
<1>3. {c \in Contribution : project[c] # NoProject} = {}
  OBVIOUS
<1>4. RowsAreWritten
  BY <1>3, FS_EmptySet DEF RowsAreWritten
<1>5. ASSUME NEW p \in Project
      PROVE  collected[p] + lost[p] = SumOf(amount, {c \in Contribution : project[c] = p})
  <2>1. {c \in Contribution : project[c] = p} = {}
    OBVIOUS
  <2>2. SumOf(amount, {}) = 0
    BY SumEmpty
  <2>3. collected[p] + lost[p] = 0
    OBVIOUS
  <2> QED
    BY <2>1, <2>2, <2>3
<1>6. CollectedAccounted
  BY <1>5, CollectedFold DEF CollectedIsSum
<1>7. RefundedOnce /\ CanceledHoldsNothing
  BY DEF RefundedOnce, CanceledHoldsNothing
<1> QED
  BY <1>1, <1>2, <1>4, <1>6, <1>7 DEF FundingIInv

\* What was paid for a project is a sum of finitely many integers.
LEMMA PaidIsFinite ==
  ASSUME FundingIInv, NEW p \in Project
  PROVE  /\ IsFiniteSet({c \in Contribution : project[c] = p})
         /\ \A S \in SUBSET {c \in Contribution : project[c] = p} :
              SumOf(amount, S) \in Int
<1> DEFINE T == {c \in Contribution : project[c] = p}
<1>1. T \subseteq {c \in Contribution : project[c] # NoProject}
  OBVIOUS
<1>2. IsFiniteSet(T)
  BY <1>1, FS_Subset DEF FundingIInv, RowsAreWritten
<1>3. ASSUME NEW S \in SUBSET T PROVE SumOf(amount, S) \in Int
  <2>1. IsFiniteSet(S)
    BY <1>2, FS_Subset
  <2>2. \A c \in S : amount[c] \in Int
    BY DEF FundingIInv, TypeOK
  <2> QED
    BY <2>1, <2>2, SumOfInts
<1> QED
  BY <1>2, <1>3

\* Every step that writes neither rows nor projects keeps what is said of them.
LEMMA RowsKept ==
  ASSUME FundingIInv, UNCHANGED <<status, collected, rows, marks>>
  PROVE  /\ RowsAreWritten' /\ CollectedAccounted' /\ RefundedOnce'
         /\ CanceledHoldsNothing'
<1> USE DEF FundingIInv, rows, marks
<1>1. RowsAreWritten'
  BY DEF RowsAreWritten
<1>2. CollectedAccounted'
  BY CollectedFold DEF CollectedIsSum
<1>3. RefundedOnce'
  BY DEF RefundedOnce
<1>4. CanceledHoldsNothing'
  BY DEF CanceledHoldsNothing, Held
<1> QED
  BY <1>1, <1>2, <1>3, <1>4

\* Locking a row reads it as it is, and gives it one holder.
LEMMA LockStep ==
  ASSUME FundingIInv, NEW w \in Request \cup Admin, NEW p \in Project, Lock(w, p),
         UNCHANGED <<status, collected, rows>>
  PROVE  /\ LocksHold'
         /\ at' \in [Request \cup Admin -> Project \cup {NoProject}]
         /\ read' \in [Request \cup Admin -> Reading]
<1> USE DEF FundingIInv, TypeOK, Lock, rows
<1>1. Row(p) \in Reading
  BY DEF Row, Reading, Held
<1>2. \A q : Row(q)' = Row(q)
  BY DEF Row, Held
<1>3. LocksHold'
  <2> HIDE DEF Row
  <2> QED BY <1>2 DEF LocksHold, Unlocked
<1> QED
  BY <1>1, <1>3

\* Releasing a row leaves the other holders with what they have read.
LEMMA UnlockStep ==
  ASSUME FundingIInv, NEW w \in Request \cup Admin, Unlock(w),
         \A p \in Project : p # at[w] => Row(p)' = Row(p)
  PROVE  /\ LocksHold'
         /\ at' \in [Request \cup Admin -> Project \cup {NoProject}]
         /\ read' \in [Request \cup Admin -> Reading]
<1> USE DEF FundingIInv, TypeOK, Unlock
<1>1. Nothing \in Reading
  BY DEF Nothing, Reading, Status
<1>2. LocksHold'
  BY DEF LocksHold
<1> QED
  BY <1>1, <1>2

\* Opening a contribution, refusing one, and taking up or dropping a cancellation.
LEMMA HolderStep ==
  ASSUME FundingIInv, NEW w \in Request \cup Admin,
         \/ \E p \in Project : Lock(w, p)
         \/ Unlock(w),
         who' \in [Request -> Profile \cup {NoProfile}],
         todo' \in [Admin -> SUBSET Project],
         UNCHANGED <<status, collected, rows, balance, pages, marks>>
  PROVE  FundingIInv'
<1>1. \A p : Row(p)' = Row(p)
  BY DEF Row, Held, rows
<1>2. /\ LocksHold'
      /\ at' \in [Request \cup Admin -> Project \cup {NoProject}]
      /\ read' \in [Request \cup Admin -> Reading]
  BY <1>1, LockStep, UnlockStep
<1>3. TypeOK'
  BY <1>2 DEF FundingIInv, TypeOK, rows, pages, marks
<1>4. PagesAreChecked'
  BY DEF FundingIInv, PagesAreChecked, pages
<1> QED
  BY <1>2, <1>3, <1>4, RowsKept DEF FundingIInv

\* A contribution pays for its project, and is one row more.
LEMMA ContributeStep ==
  ASSUME FundingIInv, NEW r \in Request, NEW a \in Entered, contribute(r, a)
  PROVE  FundingIInv'
<1> DEFINE Paying(q) == {c \in Contribution : project[c] = q}
<1>1. PICK p \in Project : /\ p = at[r] /\ read[r] = Row(p)
                           /\ read[r].status \in {"funding", "released"}
  BY DEF FundingIInv, TypeOK, LocksHold, contribute, Accepts
<1>2. PICK paid \in Nat : paid = Charged(r, a) /\ paid > 0
  BY <1>1 DEF Charged, contribute
<1>3. who[r] \in Profile \cup {NoProfile}
  BY DEF FundingIInv, TypeOK
<1>4. PICK c \in Contribution :
        /\ project[c] = NoProject
        /\ project' = [project EXCEPT ![c] = p]
        /\ profile' = [profile EXCEPT ![c] = who[r]]
        /\ amount' = [amount EXCEPT ![c] = paid]
        /\ net' = [net EXCEPT ![c] = -paid]
  BY <1>1, <1>2 DEF contribute, Unused
<1>5. /\ collected' = [collected EXCEPT ![p] = collected[p] + paid]
      /\ status' = status \/ status' = [status EXCEPT ![p] = "translating"]
      /\ UNCHANGED <<refunded, todo, pages, marks>>
      /\ balance' = [balance EXCEPT ![who[r]] = @ - paid]
      /\ who' = [who EXCEPT ![r] = NoProfile]
      /\ Unlock(r)
  BY <1>1, <1>2 DEF contribute, Row
<1>6. ASSUME NEW q \in Project, q # p PROVE Row(q)' = Row(q)
  <2>1. collected'[q] = collected[q] /\ status'[q] = status[q]
    BY <1>5, <1>6 DEF FundingIInv, TypeOK
  <2>2. Held(q)' = Held(q)
    BY <1>1, <1>4, <1>5, <1>6 DEF Held, FundingIInv, TypeOK
  <2> QED
    BY <2>1, <2>2 DEF Row
<1>7. /\ LocksHold'
      /\ at' \in [Request \cup Admin -> Project \cup {NoProject}]
      /\ read' \in [Request \cup Admin -> Reading]
  BY <1>1, <1>5, <1>6, UnlockStep
<1>8. TypeOK'
  <2> USE DEF FundingIInv, TypeOK, pages, marks
  <2>1. collected[p] + paid \in Int /\ -paid \in Int
    BY <1>1, <1>2
  <2>2. collected' \in [Project -> Int]
    BY <1>5, <2>1
  <2>3. balance' \in [Profile -> Int]
    <3>1. \A u \in Profile : balance[u] - paid \in Int
      BY <1>2
    <3> QED
      BY <1>5, <3>1
  <2>4. status' \in [Project -> Status]
    BY <1>5 DEF Status
  <2>5. /\ project' \in [Contribution -> Project \cup {NoProject}]
        /\ profile' \in [Contribution -> Profile \cup {NoProfile}]
        /\ amount' \in [Contribution -> Nat] /\ net' \in [Contribution -> Int]
    BY <1>1, <1>2, <1>3, <1>4, <2>1
  <2>6. who' \in [Request -> Profile \cup {NoProfile}]
    BY <1>5
  <2> QED
    BY <1>5, <1>7, <2>2, <2>3, <2>5, <2>6, <2>4
<1>9. PagesAreChecked'
  BY <1>5 DEF FundingIInv, PagesAreChecked, pages
<1>10. RowsAreWritten'
  <2>1. {d \in Contribution : project'[d] # NoProject}
          = {d \in Contribution : project[d] # NoProject} \cup {c}
    BY <1>1, <1>4 DEF FundingIInv, TypeOK
  <2>2. IsFiniteSet({d \in Contribution : project'[d] # NoProject})
    BY <2>1, FS_AddElement DEF FundingIInv, RowsAreWritten
  <2>3. \A d \in Contribution : project'[d] = NoProject => ~refunded'[d]
    BY <1>1, <1>4, <1>5 DEF FundingIInv, TypeOK, RowsAreWritten
  <2> QED
    BY <2>2, <2>3 DEF RowsAreWritten
<1>11. CollectedAccounted'
  <2>1. ASSUME NEW q \in Project
        PROVE  collected'[q] + lost'[q] = SumOf(amount', Paying(q)')
    <3>1. collected[q] + lost[q] = SumOf(amount, Paying(q)) /\ lost' = lost
      BY <1>5, CollectedFold DEF FundingIInv, CollectedIsSum, marks
    <3>2. \A d \in Paying(q) : amount[d] \in Int /\ amount'[d] = amount[d]
      BY <1>1, <1>4 DEF FundingIInv, TypeOK
    <3>3. IsFiniteSet(Paying(q)) /\ SumOf(amount, Paying(q)) \in Int
      BY PaidIsFinite
    <3>4. CASE q = p
      <4>1. Paying(p)' = Paying(p) \cup {c} /\ c \notin Paying(p)
        BY <1>1, <1>4 DEF FundingIInv, TypeOK
      <4>2. amount'[c] = paid
        BY <1>4 DEF FundingIInv, TypeOK
      <4>3. SumOf(amount', Paying(p)') = SumOf(amount, Paying(p)) + paid
        <5> HIDE DEF Paying
        <5> QED
          BY <1>2, <3>2, <3>3, <3>4, <4>1, <4>2, SumAdd
      <4>4. collected'[p] = collected[p] + paid /\ collected[p] \in Int /\ lost[p] \in Int
        BY <1>1, <1>5 DEF FundingIInv, TypeOK
      <4> HIDE DEF Paying
      <4> QED
        BY <1>2, <3>1, <3>3, <3>4, <4>3, <4>4
    <3>5. CASE q # p
      <4>1. Paying(q)' = Paying(q)
        BY <1>1, <1>4, <3>5 DEF FundingIInv, TypeOK
      <4>2. SumOf(amount', Paying(q)) = SumOf(amount, Paying(q))
        <5> HIDE DEF Paying
        <5> QED
          BY <3>2, <3>3, SumSame
      <4>3. collected'[q] = collected[q]
        BY <1>5, <3>5 DEF FundingIInv, TypeOK
      <4> QED
        BY <3>1, <4>1, <4>2, <4>3
    <3> QED
      BY <3>4, <3>5
  <2> QED
    BY <2>1, CollectedFold DEF CollectedIsSum
<1>12. RefundedOnce'
  BY <1>2, <1>4, <1>5 DEF FundingIInv, TypeOK, RowsAreWritten, RefundedOnce
<1>13. CanceledHoldsNothing'
  <2>1. raced' = raced /\ status'[p] # "canceled"
    BY <1>1, <1>5 DEF Row, marks, FundingIInv, TypeOK
  <2>2. \A q \in Project : q # p => status'[q] = status[q] /\ Held(q)' = Held(q)
    BY <1>6 DEF Row
  <2> QED
    BY <2>1, <2>2 DEF FundingIInv, CanceledHoldsNothing
<1> QED
  BY <1>7, <1>8, <1>9, <1>10, <1>11, <1>12, <1>13 DEF FundingIInv

\* A cancellation gives back what the project holds, and holds nothing afterwards.
LEMMA CancelStep ==
  ASSUME FundingIInv, NEW a \in Admin, cancel_project(a)
  PROVE  FundingIInv'
<1>1. PICK p \in Project : p = at[a] /\ read[a] = Row(p)
  BY DEF FundingIInv, TypeOK, LocksHold, cancel_project
<1> DEFINE S == Held(p)
<1>0. Pending(a) = S
  BY <1>1 DEF Pending, Row
<1>2. /\ refunded' = [c \in Contribution |-> refunded[c] \/ c \in S]
      /\ net' = [c \in Contribution |-> IF c \in S THEN net[c] + amount[c] ELSE net[c]]
      /\ status' = [status EXCEPT ![p] = "canceled"]
      /\ todo' = [todo EXCEPT ![a] = @ \ {p}]
      /\ Unlock(a)
      /\ UNCHANGED <<collected, project, profile, amount, who, pages, marks>>
  BY <1>0, <1>1 DEF cancel_project
<1>3. ASSUME NEW q \in Project, q # p PROVE Row(q)' = Row(q)
  <2>1. status'[q] = status[q] /\ collected' = collected
    BY <1>2, <1>3 DEF FundingIInv, TypeOK
  <2>2. Held(q)' = Held(q)
    BY <1>1, <1>2, <1>3 DEF Held
  <2> QED
    BY <2>1, <2>2 DEF Row
<1>4. Held(p)' = {}
  <2> SUFFICES ASSUME NEW c \in Contribution, project'[c] = p, ~refunded'[c]
               PROVE  FALSE
    BY DEF Held
  <2>1. ~refunded[c] /\ c \notin S
    BY <1>2, Zenon
  <2> QED
    BY <1>2, <2>1 DEF Held
<1>5. /\ LocksHold'
      /\ at' \in [Request \cup Admin -> Project \cup {NoProject}]
      /\ read' \in [Request \cup Admin -> Reading]
  BY <1>1, <1>2, <1>3, UnlockStep
<1>6. balance' \in [Profile -> Int]
  <2>1. balance' = [u \in Profile |->
                      balance[u] + MapThenSumSet(LAMBDA c : amount[c], Of(u, S))]
    BY <1>0 DEF cancel_project
  <2>2. balance' = [u \in Profile |-> balance[u] + SumOf(amount, Of(u, S))]
    BY <2>1 DEF SumOf
  <2>3. ASSUME NEW u \in Profile PROVE balance[u] + SumOf(amount, Of(u, S)) \in Int
    <3>1. Of(u, S) \subseteq {c \in Contribution : project[c] = p}
      BY <1>1 DEF Of, Held
    <3>2. SumOf(amount, Of(u, S)) \in Int
      BY <1>1, <3>1, PaidIsFinite
    <3>3. balance[u] \in Int
      BY DEF FundingIInv, TypeOK
    <3> QED
      BY <3>2, <3>3
  <2> QED
    BY <2>2, <2>3
<1>7. TypeOK'
  <2> USE DEF FundingIInv, TypeOK, pages, marks
  <2>1. refunded' \in [Contribution -> BOOLEAN] /\ net' \in [Contribution -> Int]
    BY <1>2
  <2>2. status' \in [Project -> Status] /\ todo' \in [Admin -> SUBSET Project]
    BY <1>2 DEF Status
  <2> QED
    BY <1>2, <1>5, <1>6, <2>1, <2>2
<1>8. PagesAreChecked'
  BY <1>2 DEF FundingIInv, PagesAreChecked, pages
<1>9. RowsAreWritten'
  BY <1>1, <1>2 DEF FundingIInv, RowsAreWritten, Held
<1>10. CollectedAccounted'
  BY <1>2, CollectedFold DEF FundingIInv, CollectedIsSum, marks
<1>11. RefundedOnce'
  <2> SUFFICES ASSUME NEW c \in Contribution, project'[c] # NoProject
               PROVE  net'[c] = IF refunded'[c] THEN 0 ELSE -amount'[c]
    BY DEF RefundedOnce
  <2>1. /\ net[c] = IF refunded[c] THEN 0 ELSE -amount[c]
        /\ amount[c] \in Nat /\ amount' = amount
    BY <1>2 DEF FundingIInv, TypeOK, RefundedOnce
  <2>2. CASE c \in S
    <3>1. ~refunded[c] /\ refunded'[c] /\ net'[c] = net[c] + amount[c]
      BY <1>1, <1>2, <2>2 DEF Held
    <3> QED
      BY <2>1, <3>1
  <2>3. CASE c \notin S
    <3>1. refunded'[c] = refunded[c] /\ net'[c] = net[c]
      BY <1>2, <2>3 DEF FundingIInv, TypeOK
    <3> QED
      BY <2>1, <3>1
  <2> QED
    BY <2>2, <2>3
<1>12. CanceledHoldsNothing'
  <2>1. \A q \in Project : q # p => status'[q] = status[q] /\ Held(q)' = Held(q)
    BY <1>3 DEF Row
  <2> QED
    BY <1>2, <1>4, <2>1 DEF FundingIInv, CanceledHoldsNothing, marks
<1> QED
  BY <1>5, <1>7, <1>8, <1>9, <1>10, <1>11, <1>12 DEF FundingIInv

\* A cancelled coin order leaves contributions and projects alone.
LEMMA ClawbackStep ==
  ASSUME FundingIInv, NEW u \in Profile, Clawback(u)
  PROVE  FundingIInv'
<1>1. /\ balance' = [balance EXCEPT ![u] = @ - Clawed]
      /\ UNCHANGED <<status, collected, rows, at, read, who, todo, pages, marks>>
  BY DEF Clawback
<1>2. balance' \in [Profile -> Int]
  BY <1>1 DEF FundingIInv, TypeOK
<1>3. TypeOK'
  BY <1>1, <1>2 DEF FundingIInv, TypeOK, rows, pages, marks
<1>4. LocksHold'
  BY <1>1 DEF FundingIInv, LocksHold, Row, Held, rows
<1>5. PagesAreChecked'
  BY <1>1 DEF FundingIInv, PagesAreChecked, pages
<1> QED
  BY <1>1, <1>3, <1>4, <1>5, RowsKept DEF FundingIInv

\* Opening a change page and posting a status write neither rows nor projects.
LEMMA PageStep ==
  ASSUME FundingIInv, NEW g \in Page,
         (\E p \in Project : OpenPage(g, p)) \/ (\E s \in Status : clean_status(g, s))
  PROVE  FundingIInv'
<1>1. UNCHANGED <<status, collected, rows, balance, at, read, who, todo, marks>>
  BY DEF OpenPage, clean_status
<1>2. /\ open' \in [Page -> Project \cup {NoProject}]
      /\ shown' \in [Page -> Int]
      /\ chosen' \in [Page -> Status \cup {"none"}]
      /\ against' \in [Page -> Status \cup {"none"}]
  BY DEF OpenPage, clean_status, FundingIInv, TypeOK
<1>3. TypeOK'
  BY <1>1, <1>2 DEF FundingIInv, TypeOK, rows, marks
<1>4. LocksHold'
  BY <1>1 DEF FundingIInv, LocksHold, Row, Held, rows
<1>5. PagesAreChecked'
  <2>1. CASE \E p \in Project : OpenPage(g, p)
    BY <2>1 DEF OpenPage, FundingIInv, TypeOK, PagesAreChecked
  <2>2. CASE \E s \in Status : clean_status(g, s)
    BY <2>2 DEF clean_status, MayChoose, FundingIInv, TypeOK, PagesAreChecked
  <2> QED
    BY <2>1, <2>2
<1> QED
  BY <1>1, <1>3, <1>4, <1>5, RowsKept DEF FundingIInv

\* Saving a page writes its project as it was shown, and what that takes off the
\* collected amount is in lost.
LEMMA SavePageStep ==
  ASSUME FundingIInv, NEW g \in Page, SavePage(g)
  PROVE  FundingIInv'
<1>1. PICK p \in Project : p = open[g] /\ Unlocked(p)
  BY DEF SavePage, FundingIInv, TypeOK, PagesAreChecked
<1>2. PICK s \in Status : s = chosen[g]
  BY DEF SavePage, FundingIInv, TypeOK
<1>3. /\ status' = [status EXCEPT ![p] = s]
      /\ collected' = [collected EXCEPT ![p] = shown[g]]
      /\ lost' = [lost EXCEPT ![p] = @ + collected[p] - shown[g]]
      /\ raced' = IF s = "canceled" /\ against[g] # status[p] THEN raced \cup {p} ELSE raced
      /\ open' = [open EXCEPT ![g] = NoProject]
      /\ shown' = [shown EXCEPT ![g] = 0]
      /\ chosen' = [chosen EXCEPT ![g] = "none"]
      /\ against' = [against EXCEPT ![g] = "none"]
      /\ UNCHANGED <<rows, balance, at, read, who, todo>>
  BY <1>1, <1>2 DEF SavePage
<1>4. shown[g] \in Int /\ collected[p] \in Int /\ lost[p] \in Int
  BY DEF FundingIInv, TypeOK
<1>5. TypeOK'
  <2> USE DEF FundingIInv, TypeOK
  <2>1. status' \in [Project -> Status] /\ raced' \subseteq Project
    BY <1>3
  <2>2. collected' \in [Project -> Int] /\ lost' \in [Project -> Int]
    BY <1>3, <1>4
  <2>3. /\ open' \in [Page -> Project \cup {NoProject}]
        /\ shown' \in [Page -> Int]
        /\ chosen' \in [Page -> Status \cup {"none"}]
        /\ against' \in [Page -> Status \cup {"none"}]
    BY <1>3
  <2> QED
    BY <1>3, <2>1, <2>2, <2>3 DEF rows
<1>6. LocksHold'
  <2>1. \A q \in Project : q # p => Row(q)' = Row(q)
    BY <1>3 DEF FundingIInv, TypeOK, Row, Held, rows
  <2>2. \A w \in Request \cup Admin : at[w] # p
    BY <1>1 DEF Unlocked
  <2> HIDE DEF Row
  <2> QED
    BY <1>3, <2>1, <2>2 DEF FundingIInv, TypeOK, LocksHold
<1>7. PagesAreChecked'
  BY <1>3 DEF FundingIInv, TypeOK, PagesAreChecked
<1>8. RowsAreWritten'
  BY <1>3 DEF FundingIInv, RowsAreWritten, rows
<1>9. CollectedAccounted'
  <2>1. ASSUME NEW q \in Project PROVE collected'[q] + lost'[q] = collected[q] + lost[q]
    BY <1>3, <1>4 DEF FundingIInv, TypeOK
  <2> QED
    BY <1>3, <2>1, CollectedFold DEF FundingIInv, CollectedIsSum, rows
<1>10. RefundedOnce'
  BY <1>3 DEF FundingIInv, RefundedOnce, rows
<1>11. CanceledHoldsNothing'
  <2>1. \A q \in Project : Held(q)' = Held(q)
    BY <1>3 DEF Held, rows
  <2>2. s = "canceled" => against[g] = "canceled"
    BY <1>2 DEF FundingIInv, PagesAreChecked
  <2>3. ASSUME NEW q \in Project \ raced', status'[q] = "canceled" PROVE status[q] = "canceled"
    BY <1>3, <2>2, <2>3 DEF FundingIInv, TypeOK
  <2>4. raced \subseteq raced'
    BY <1>3
  <2> QED
    BY <2>1, <2>3, <2>4 DEF FundingIInv, CanceledHoldsNothing
<1> QED
  BY <1>5, <1>6, <1>7, <1>8, <1>9, <1>10, <1>11 DEF FundingIInv

\* The invariant is inductive.
LEMMA FundingStep == FundingIInv /\ [Next]_vars => FundingIInv'
<1> SUFFICES ASSUME FundingIInv, [Next]_vars PROVE FundingIInv'
  OBVIOUS
<1>1. ASSUME NEW r \in Request, NEW u \in Profile, NEW p \in Project,
             process_funding(r, u, p)
      PROVE  FundingIInv'
  <2>1. who' \in [Request -> Profile \cup {NoProfile}]
    BY <1>1 DEF process_funding, FundingIInv, TypeOK
  <2> QED
    BY <1>1, <2>1, HolderStep DEF process_funding, FundingIInv, TypeOK
<1>2. ASSUME NEW r \in Request, Refuse(r) PROVE FundingIInv'
  <2>1. who' \in [Request -> Profile \cup {NoProfile}]
    BY <1>2 DEF Refuse, FundingIInv, TypeOK
  <2> QED
    BY <1>2, <2>1, HolderStep DEF Refuse, FundingIInv, TypeOK
<1>3. ASSUME NEW a \in Admin, NEW S \in SUBSET Project, cancel_and_refund(a, S)
      PROVE  FundingIInv'
  <2>1. /\ UNCHANGED <<status, collected, rows, balance, at, read, who, pages, marks>>
        /\ todo' \in [Admin -> SUBSET Project]
    BY <1>3 DEF cancel_and_refund, FundingIInv, TypeOK
  <2>2. TypeOK'
    BY <2>1 DEF FundingIInv, TypeOK, rows, pages, marks
  <2>3. LocksHold'
    BY <2>1 DEF FundingIInv, LocksHold, Row, Held, rows
  <2>4. PagesAreChecked'
    BY <2>1 DEF FundingIInv, PagesAreChecked, pages
  <2> QED
    BY <2>1, <2>2, <2>3, <2>4, RowsKept DEF FundingIInv
<1>4. ASSUME NEW a \in Admin, NEW p \in Project, LockForCancel(a, p)
      PROVE  FundingIInv'
  BY <1>4, HolderStep DEF LockForCancel, FundingIInv, TypeOK
<1>5. ASSUME NEW a \in Admin, SkipReleased(a) \/ AbortCancel(a) PROVE FundingIInv'
  <2>1. todo' \in [Admin -> SUBSET Project]
    BY <1>5 DEF SkipReleased, AbortCancel, FundingIInv, TypeOK
  <2> QED
    BY <1>5, <2>1, HolderStep DEF SkipReleased, AbortCancel, FundingIInv, TypeOK
<1>6. CASE UNCHANGED vars
  <2>1. TypeOK'
    BY <1>6 DEF FundingIInv, TypeOK, vars, rows, pages, marks
  <2>2. LocksHold'
    BY <1>6 DEF FundingIInv, LocksHold, Row, Held, vars, rows
  <2>3. PagesAreChecked'
    BY <1>6 DEF FundingIInv, PagesAreChecked, vars, pages
  <2>4. UNCHANGED <<status, collected, rows, marks>>
    BY <1>6 DEF vars, rows, marks
  <2> QED
    BY <2>1, <2>2, <2>3, <2>4, RowsKept DEF FundingIInv
<1> QED
  BY <1>1, <1>2, <1>3, <1>4, <1>5, <1>6, ContributeStep, CancelStep, ClawbackStep, PageStep,
     SavePageStep DEF Next

\* The invariant holds in every reachable state.
THEOREM FundingInvariant == Spec => []FundingIInv
  BY FundingInit, FundingStep, PTL DEF Spec

\* Every column keeps its type; a balance may be a debt, an amount paid never is.
THEOREM FundingTypeCorrect == Spec => []TypeOK
<1>1. FundingIInv => TypeOK
  BY DEF FundingIInv
<1> QED
  BY <1>1, FundingInvariant, PTL

\* contribute and cancel_project: the collected amount is the sum of the contributions,
\* but for what saves of the change page have overwritten.
THEOREM CollectedAccountedHolds == Spec => []CollectedAccounted
<1>1. FundingIInv => CollectedAccounted
  BY DEF FundingIInv
<1> QED
  BY <1>1, FundingInvariant, PTL

\* cancel_project: a cancellation returns every contribution, and once.
THEOREM MoneyIsReturnedHolds == Spec => []MoneyIsReturned
<1>1. FundingIInv => MoneyIsReturned
  BY DEF FundingIInv, MoneyIsReturned
<1> QED
  BY <1>1, FundingInvariant, PTL

-----------------------------------------------------------------------------
(* Gifts                                                                   *)

\* A transaction that has loaded an actor holds his row, and his total is what it read.
GiversHold ==
    \A t \in Tab : giving[t] # NoActor =>
        /\ holder[giving[t]] = t
        /\ loaded_total[t] = total_gifts[giving[t]]

GiftsIInv == GiftsTypeOK /\ GiversHold /\ GiftsAccounted

\* GiftsAccounted speaks of SumOf, now and after a step.
GiftsAreSums ==
    /\ \A u \in User : coins[u] + SumOf(GivenBy(u), Actor) = Coins
    /\ \A a \in Actor : total_gifts[a] + overwritten[a] = SumOf(actor_gifts[a], User)

\* What the model writes as folds are those sums.
LEMMA GiftsFold ==
  /\ GiftsAccounted <=> GiftsAreSums
  /\ GiftsAccounted' <=> GiftsAreSums'
<1>1. GiftsAccounted <=> GiftsAreSums
  BY DEF GiftsAccounted, GiftsAreSums, SumOf
<1>2. GiftsAccounted' <=> GiftsAreSums'
  BY DEF GiftsAccounted, GiftsAreSums, SumOf, MapThenSumSet, MapThenFoldSet, GivenBy
<1> QED
  BY <1>1, <1>2

USE GiftsAssumption, SiteAssumption DEF GiftsAssumption, SiteAssumption

\* Numbers that are all 0 add up to 0.
LEMMA SumOfZeros ==
  ASSUME NEW f, NEW S, IsFiniteSet(S), \A x \in S : f[x] = 0
  PROVE  SumOf(f, S) = 0
<1> DEFINE Good == {n \in Nat : \A s \in SUBSET S : Cardinality(s) <= n => SumOf(f, s) = 0}
<1>1. \A s \in SUBSET S : IsFiniteSet(s) /\ Cardinality(s) \in Nat
  BY FS_Subset, FS_CardinalityType
<1>2. 0 \in Good
  <2>1. \A s \in SUBSET S : Cardinality(s) <= 0 => s = {}
    BY <1>1, FS_EmptySet
  <2> QED
    BY <2>1, SumEmpty
<1>3. ASSUME NEW n \in Nat, n \in Good PROVE n + 1 \in Good
  <2>1. ASSUME NEW s \in SUBSET S, Cardinality(s) <= n + 1, s # {} PROVE SumOf(f, s) = 0
    <3>1. PICK x : x \in s
      BY <2>1
    <3>2. IsFiniteSet(s \ {x}) /\ Cardinality(s \ {x}) = Cardinality(s) - 1
      BY <1>1, <3>1, FS_RemoveElement
    <3>3. SumOf(f, s \ {x}) = 0
      BY <1>1, <1>3, <2>1, <3>2
    <3>4. SumOf(f, s) = f[x] + SumOf(f, s \ {x})
      BY <1>1, <3>1, SumOfInts
    <3> QED
      BY <3>1, <3>3, <3>4
  <2> QED
    BY <2>1, SumEmpty
<1>4. Cardinality(S) \in Good
  <2> HIDE DEF Good
  <2> QED
    BY <1>1, <1>2, <1>3, Induction
<1> QED
  BY <1>1, <1>4

\* Before the first gift, the invariant holds.
LEMMA GiftsInitHolds == GiftsInit => GiftsIInv
<1> SUFFICES ASSUME GiftsInit PROVE GiftsIInv
  OBVIOUS
<1> USE DEF GiftsInit
<1>1. GiftsTypeOK /\ GiversHold
  BY DEF GiftsTypeOK, GiversHold, NoActorForm
<1>2. ASSUME NEW u \in User PROVE coins[u] + SumOf(GivenBy(u), Actor) = Coins
  <2>1. \A a \in Actor : GivenBy(u)[a] = 0
    BY DEF GivenBy
  <2>2. SumOf(GivenBy(u), Actor) = 0
    BY <2>1, SumOfZeros
  <2> QED
    BY <2>2
<1>3. ASSUME NEW a \in Actor
      PROVE  total_gifts[a] + overwritten[a] = SumOf(actor_gifts[a], User)
  <2>1. \A u \in User : actor_gifts[a][u] = 0
    OBVIOUS
  <2>2. SumOf(actor_gifts[a], User) = 0
    BY <2>1, SumOfZeros
  <2> QED
    BY <2>2
<1> QED
  BY <1>1, <1>2, <1>3, GiftsFold DEF GiftsIInv, GiftsAreSums

\* A gift is paid by its giver and reaches the actor's total: the price goes into both
\* sums the gift is in, and into no other.
LEMMA GiveStep ==
  ASSUME GiftsIInv, NEW t \in Tab, NEW g \in Gift, GiveGift(t, g)
  PROVE  GiftsIInv'
<1> USE DEF GiftsIInv
<1>1. PICK a \in Actor : a = giving[t] /\ holder[a] = t /\ loaded_total[t] = total_gifts[a]
  BY DEF GiveGift, GiftsTypeOK, GiversHold
<1>2. PICK v \in User : v = Owner(t)
  OBVIOUS
<1>3. PICK price \in Nat : price = Price(g) /\ price > 0 /\ price <= coins[v]
  BY <1>2 DEF GiveGift, GiftsTypeOK
<1>4. /\ coins' = [coins EXCEPT ![v] = @ - price]
      /\ total_gifts' = [total_gifts EXCEPT ![a] = @ + price]
      /\ actor_gifts' = [actor_gifts EXCEPT ![a][v] = @ + price]
      /\ holder' = [holder EXCEPT ![a] = NoTab]
      /\ giving' = [giving EXCEPT ![t] = NoActor]
      /\ loaded_total' = [loaded_total EXCEPT ![t] = 0]
      /\ actor_form' = actor_form /\ overwritten' = overwritten
  BY <1>1, <1>2, <1>3 DEF GiveGift, End, GiftsTypeOK
<1>5. GiftsTypeOK'
  <2> USE DEF GiftsTypeOK
  <2>1. coins' \in [User -> 0..Coins] /\ total_gifts' \in [Actor -> Nat]
    BY <1>3, <1>4
  <2>2. actor_gifts' \in [Actor -> [User -> Nat]]
    BY <1>4
  <2> QED
    BY <1>4, <2>1, <2>2
<1>6. GiversHold'
  BY <1>1, <1>4 DEF GiftsTypeOK, GiversHold
<1>7. ASSUME NEW b \in Actor, NEW u \in User
      PROVE  /\ actor_gifts[b][u] \in Int
             /\ actor_gifts'[b][u]
                  = IF b = a /\ u = v THEN actor_gifts[b][u] + price ELSE actor_gifts[b][u]
  BY <1>4 DEF GiftsTypeOK
<1>8. ASSUME NEW u \in User PROVE coins'[u] + SumOf(GivenBy(u), Actor)' = Coins
  <2>1. \A b \in Actor : /\ GivenBy(u)[b] = actor_gifts[b][u]
                        /\ GivenBy(u)'[b] = actor_gifts'[b][u]
    BY DEF GivenBy
  <2>2. SumOf(GivenBy(u), Actor)' = SumOf(GivenBy(u)', Actor)
    BY DEF SumOf, MapThenSumSet, MapThenFoldSet
  <2>3. coins[u] + SumOf(GivenBy(u), Actor) = Coins /\ coins[u] \in Int
    BY GiftsFold DEF GiftsAreSums, GiftsTypeOK
  <2>4. CASE u = v
    <3>1. SumOf(GivenBy(u)', Actor)
            = SumOf(GivenBy(u), Actor) + (GivenBy(u)'[a] - GivenBy(u)[a])
      BY <1>7, <2>1, SumChanged
    <3>2. GivenBy(u)'[a] - GivenBy(u)[a] = price
      BY <1>7, <2>1, <2>4
    <3>3. coins'[u] = coins[u] - price
      BY <1>4, <2>4 DEF GiftsTypeOK
    <3>4. SumOf(GivenBy(u), Actor) \in Int
      BY <1>7, <2>1, SumOfInts
    <3> QED
      BY <2>2, <2>3, <3>1, <3>2, <3>3, <3>4
  <2>5. CASE u # v
    <3>1. SumOf(GivenBy(u)', Actor) = SumOf(GivenBy(u), Actor)
      BY <1>7, <2>1, <2>5, SumSame
    <3>2. coins'[u] = coins[u]
      BY <1>4, <2>5 DEF GiftsTypeOK
    <3> QED
      BY <2>2, <2>3, <3>1, <3>2
  <2> QED
    BY <2>4, <2>5
<1>9. ASSUME NEW b \in Actor
      PROVE  total_gifts'[b] + overwritten'[b] = SumOf(actor_gifts[b], User)'
  <2>1. SumOf(actor_gifts[b], User)' = SumOf(actor_gifts'[b], User)
    BY DEF SumOf, MapThenSumSet, MapThenFoldSet
  <2>2. total_gifts[b] + overwritten[b] = SumOf(actor_gifts[b], User)
    BY GiftsFold DEF GiftsAreSums
  <2>3. total_gifts[b] \in Int /\ overwritten[b] \in Int
    BY DEF GiftsTypeOK
  <2>4. CASE b = a
    <3>1. SumOf(actor_gifts'[b], User)
            = SumOf(actor_gifts[b], User) + (actor_gifts'[b][v] - actor_gifts[b][v])
      BY <1>7, SumChanged
    <3>2. actor_gifts'[b][v] - actor_gifts[b][v] = price
      BY <1>7, <2>4
    <3>3. total_gifts'[b] = total_gifts[b] + price /\ overwritten'[b] = overwritten[b]
      BY <1>4, <2>4 DEF GiftsTypeOK
    <3> QED
      BY <2>1, <2>2, <2>3, <3>1, <3>2, <3>3
  <2>5. CASE b # a
    <3>1. actor_gifts'[b] = actor_gifts[b] /\ total_gifts'[b] = total_gifts[b]
      BY <1>4, <2>5 DEF GiftsTypeOK
    <3> QED
      BY <1>4, <2>1, <2>2, <3>1
  <2> QED
    BY <2>4, <2>5
<1> QED
  BY <1>5, <1>6, <1>8, <1>9, GiftsFold DEF GiftsAreSums

\* The invariant is inductive.
LEMMA GiftsStep == GiftsIInv /\ [GiftsNext]_giftsVars => GiftsIInv'
<1> SUFFICES ASSUME GiftsIInv, [GiftsNext]_giftsVars PROVE GiftsIInv'
  OBVIOUS
<1> USE DEF GiftsIInv
<1>1. ASSUME UNCHANGED <<coins, actor_gifts>>,
             \A a \in Actor : total_gifts'[a] + overwritten'[a] = total_gifts[a] + overwritten[a]
      PROVE  GiftsAccounted'
  <2>1. \A u \in User : GivenBy(u)' = GivenBy(u)
    BY <1>1 DEF GivenBy
  <2> QED
    BY <1>1, <2>1, GiftsFold DEF GiftsAreSums
<1>2. ASSUME NEW t \in Tab, NEW a \in Actor, send_gift_to_actor(t, a) PROVE GiftsIInv'
  <2>1. GiftsTypeOK' /\ GiversHold'
    BY <1>2 DEF send_gift_to_actor, ActorFree, GiftsTypeOK, GiversHold
  <2> QED
    BY <1>1, <1>2, <2>1 DEF send_gift_to_actor
<1>3. ASSUME NEW t \in Tab, NEW g \in Gift, RefuseGift(t, g) PROVE GiftsIInv'
  <2>1. GiftsTypeOK' /\ GiversHold'
    BY <1>3 DEF RefuseGift, End, GiftsTypeOK, GiversHold
  <2> QED
    BY <1>1, <1>3, <2>1 DEF RefuseGift
<1>4. ASSUME NEW a \in Actor, OpenActorForm(a) PROVE GiftsIInv'
  <2>1. GiftsTypeOK' /\ GiversHold'
    BY <1>4 DEF OpenActorForm, GiftsTypeOK, GiversHold
  <2> QED
    BY <1>1, <1>4, <2>1 DEF OpenActorForm
<1>5. ASSUME SaveActorForm PROVE GiftsIInv'
  <2> DEFINE a == actor_form.actor
             n == actor_form.total_gifts
  <2>1. a \in Actor \cup {NoActor} /\ n \in Nat
    BY DEF GiftsTypeOK
  <2>2. \A b \in Actor : total_gifts[b] \in Int /\ overwritten[b] \in Int
    BY DEF GiftsTypeOK
  <2>3. /\ total_gifts' = [total_gifts EXCEPT ![a] = n]
        /\ overwritten' = [overwritten EXCEPT ![a] = @ + total_gifts[a] - n]
        /\ actor_form' = NoActorForm
    BY <1>5 DEF SaveActorForm
  <2>4. overwritten' \in [Actor -> Int]
    <3> HIDE DEF a, n
    <3>1. a \in Actor => overwritten[a] + total_gifts[a] - n \in Int
      BY <2>1, <2>2
    <3>2. overwritten \in [Actor -> Int]
      BY DEF GiftsTypeOK
    <3> QED
      BY <2>3, <3>1, <3>2
  <2>5. /\ total_gifts' \in [Actor -> Nat] /\ overwritten' \in [Actor -> Int]
        /\ actor_form' \in [actor : Actor \cup {NoActor}, total_gifts : Nat]
    BY <2>1, <2>3, <2>4 DEF NoActorForm, GiftsTypeOK
  <2>6. GiftsTypeOK'
    BY <1>5, <2>5 DEF SaveActorForm, GiftsTypeOK
  <2>7. \A t \in Tab : giving[t] # NoActor => total_gifts'[giving[t]] = total_gifts[giving[t]]
    BY <1>5 DEF SaveActorForm, GiftsTypeOK, GiversHold
  <2>8. GiftsTypeOK' /\ GiversHold'
    BY <1>5, <2>6, <2>7 DEF SaveActorForm, GiversHold
  <2>9. \A b \in Actor : total_gifts'[b] + overwritten'[b] = total_gifts[b] + overwritten[b]
    BY <1>5 DEF SaveActorForm, GiftsTypeOK
  <2> QED
    BY <1>1, <1>5, <2>8, <2>9 DEF SaveActorForm
<1>6. CASE UNCHANGED giftsVars
  <2>1. GiftsTypeOK' /\ GiversHold'
    BY <1>6 DEF giftsVars, GiftsTypeOK, GiversHold
  <2> QED
    BY <1>1, <1>6, <2>1 DEF giftsVars
<1> QED
  BY <1>2, <1>3, <1>4, <1>5, <1>6, GiveStep DEF GiftsNext

\* send_gift_to_actor: what users have spent is in the gifts' rows, and in the actors'
\* totals but for what a stale change page has overwritten, in every reachable state.
THEOREM GiftsAccountedHolds == GiftsInit /\ [][GiftsNext]_giftsVars => []GiftsAccounted
<1>1. GiftsIInv => GiftsAccounted
  BY DEF GiftsIInv
<1> QED
  BY <1>1, GiftsInitHolds, GiftsStep, PTL
=============================================================================
