------------------------------ MODULE TillsProofs -----------------------------
(***************************************************************************)
(* What TLAPS proves of what is built on the tills (Tills): of the primes  *)
(* of shifts (ShiftPrime), for any number of tills, requests, massages and *)
(* rules, and of the page of the tills (TillPage), for any number of       *)
(* tills, staff members, functions under way and movements.                *)
(*                                                                         *)
(* The prime of a shift is taken once.  While the staff keeps its till,    *)
(* every sync locks that till, so that the sum read under the lock is      *)
(* still the sum when the difference is posted.  While one request is      *)
(* served at a time, the till it locks is the one that the prime was taken *)
(* from, wherever the staff has moved.                                     *)
(*                                                                         *)
(* What the page shows is the book as it was when it was read, because the *)
(* book only grows: what was read when it had n movements is still true of *)
(* the first n.  What the page posts is counted by the dialog it came from.*)
(***************************************************************************)
EXTENDS Tills, FiniteSetTheorems, SequenceTheorems, WellFoundedInduction, TLAPS

(***************************************************************************)
(* Sums.  A fold adds up the members of a set in the order in which CHOOSE *)
(* picks them; g is the function that the fold unfolds to.  It exists for  *)
(* a finite set, by the least size for which it would not.                 *)
(***************************************************************************)
Pick(s) == CHOOSE x \in s : TRUE
Value(f, g, s) == IF s = {} THEN 0 ELSE f[Pick(s)] + g[s \ {Pick(s)}]
Unfolds(g, f, S) == g = [s \in SUBSET S |-> Value(f, g, s)]
Sums(f, S) == CHOOSE g : Unfolds(g, f, S)

LEMMA LeastNumber ==
  ASSUME NEW S \in SUBSET Nat, S # {}
  PROVE  \E n \in S : \A m \in S : n <= m
<1>1. IsWellFoundedOn(OpToRel(<, Nat), Nat)
  BY NatLessThanWellFounded
<1>2. PICK n \in S : \A m \in S : ~ (<<m, n>> \in OpToRel(<, Nat))
  BY <1>1, WFMin
<1>3. ASSUME NEW m \in S PROVE n <= m
  <2>1. ~(<<m, n>> \in {ss \in Nat \X Nat : ss[1] < ss[2]})
    BY <1>2 DEF OpToRel
  <2> QED
    BY <2>1
<1> QED
  BY <1>3

LEMMA Smaller ==
  ASSUME NEW S, IsFiniteSet(S), NEW s \in SUBSET S, s # {}
  PROVE  /\ Pick(s) \in s /\ s \ {Pick(s)} \in SUBSET S
         /\ Cardinality(s) \in Nat /\ Cardinality(s) > 0
         /\ Cardinality(s \ {Pick(s)}) = Cardinality(s) - 1
<1>1. Pick(s) \in s
  BY DEF Pick
<1>2. IsFiniteSet(s)
  BY FS_Subset
<1> QED
  BY <1>1, <1>2, FS_CardinalityType, FS_RemoveElement, FS_EmptySet

\* g adds up f over the sets of at most n members.
UpTo(g, f, S, n) ==
  \A s \in SUBSET S : Cardinality(s) <= n => g[s] = Value(f, g, s)

LEMMA UpToGrows ==
  ASSUME NEW S, IsFiniteSet(S), NEW f \in [S -> Int], NEW n \in Nat, n # 0,
         NEW g \in [SUBSET S -> Int], UpTo(g, f, S, n - 1)
  PROVE  \E k \in [SUBSET S -> Int] : UpTo(k, f, S, n)
<1> DEFINE k == [s \in SUBSET S |-> Value(f, g, s)]
<1>1. k \in [SUBSET S -> Int]
  <2>1. ASSUME NEW s \in SUBSET S PROVE Value(f, g, s) \in Int
    <3>1. CASE s = {}
      BY <3>1 DEF Value
    <3>2. CASE s # {}
      <4> DEFINE x == Pick(s)
      <4>1. x \in S /\ s \ {x} \in SUBSET S
        BY <3>2, Smaller
      <4>2. f[x] \in Int /\ g[s \ {x}] \in Int
        BY <4>1
      <4> QED
        BY <3>2, <4>2 DEF Value
    <3> QED
      BY <3>1, <3>2
  <2> QED
    BY <2>1
<1>2. ASSUME NEW s \in SUBSET S, Cardinality(s) <= n PROVE k[s] = Value(f, k, s)
  <2>1. k[s] = Value(f, g, s)
    OBVIOUS
  <2>2. CASE s = {}
    BY <2>1, <2>2 DEF Value
  <2>3. CASE s # {}
    <3> DEFINE u == s \ {Pick(s)}
    <3>1. u \in SUBSET S /\ Cardinality(u) <= n - 1
      BY <1>2, <2>3, Smaller
    <3>2. g[u] = Value(f, g, u)
      BY <3>1 DEF UpTo
    <3>3. k[u] = Value(f, g, u)
      BY <3>1
    <3> QED
      BY <2>1, <2>3, <3>2, <3>3 DEF Value
  <2> QED
    BY <2>2, <2>3
<1> HIDE DEF k
<1>3. UpTo(k, f, S, n)
  BY <1>2 DEF UpTo
<1> QED
  BY <1>1, <1>3

LEMMA SumsExist ==
  ASSUME NEW S, IsFiniteSet(S), NEW f \in [S -> Int]
  PROVE  \E g \in [SUBSET S -> Int] : Unfolds(g, f, S)
<1> DEFINE Reached(n) == \E g \in [SUBSET S -> Int] : UpTo(g, f, S, n)
           Missed == {n \in Nat : ~Reached(n)}
<1>1. Reached(0)
  <2> DEFINE g == [s \in SUBSET S |-> 0]
  <2>1. ASSUME NEW s \in SUBSET S, Cardinality(s) <= 0 PROVE g[s] = Value(f, g, s)
    <3>1. CASE s = {}
      BY <3>1 DEF Value
    <3>2. CASE s # {}
      <4>1. Cardinality(s) > 0 /\ Cardinality(s) \in Nat
        BY <3>2, Smaller
      <4> QED
        BY <2>1, <4>1
    <3> QED
      BY <3>1, <3>2
  <2>2. g \in [SUBSET S -> Int]
    OBVIOUS
  <2> HIDE DEF g
  <2>3. UpTo(g, f, S, 0)
    BY <2>1 DEF UpTo
  <2> QED
    BY <2>2, <2>3
<1>2. ASSUME NEW n \in Nat, n # 0, Reached(n - 1) PROVE Reached(n)
  BY <1>2, UpToGrows
<1> HIDE DEF Reached
<1>3. Missed = {}
  <2>1. SUFFICES ASSUME Missed # {} PROVE FALSE
    OBVIOUS
  <2>2. PICK n \in Missed : \A m \in Missed : n <= m
    BY <2>1, LeastNumber
  <2>3. n # 0 /\ n \in Nat /\ ~Reached(n)
    BY <1>1
  <2>4. n - 1 \in Nat /\ n - 1 \notin Missed
    BY <2>2, <2>3
  <2> QED
    BY <1>2, <2>3, <2>4
<1>4. Cardinality(S) \in Nat
  BY FS_CardinalityType
<1>5. Reached(Cardinality(S))
  BY <1>3, <1>4
<1>6. PICK g \in [SUBSET S -> Int] : UpTo(g, f, S, Cardinality(S))
  BY <1>5 DEF Reached
<1>7. ASSUME NEW s \in SUBSET S PROVE g[s] = Value(f, g, s)
  <2>1. Cardinality(s) <= Cardinality(S)
    BY FS_Subset
  <2> QED
    BY <1>6, <2>1 DEF UpTo
<1>8. g = [s \in SUBSET S |-> Value(f, g, s)]
  BY <1>7
<1> QED
  BY <1>8 DEF Unfolds

Moved(f, h, t, d) == h = [f EXCEPT ![t] = @ + d]
Apart(g, k, S, t, d) == \A s \in SUBSET S : k[s] = g[s] + IF t \in s THEN d ELSE 0

\* Two ways to add up, of which the second has d more at t.
LEMMA SumsDiffer ==
  ASSUME NEW S, IsFiniteSet(S), NEW f \in [S -> Int], NEW h \in [S -> Int], NEW t \in S, NEW d \in Int,
         Moved(f, h, t, d), NEW g, NEW k, Unfolds(g, f, S), Unfolds(k, h, S)
  PROVE  g \in [SUBSET S -> Int] /\ Apart(g, k, S, t, d)
<1> DEFINE Right(s) == g[s] \in Int /\ k[s] = g[s] + IF t \in s THEN d ELSE 0
           Wrong == {n \in Nat : \E s \in SUBSET S : Cardinality(s) = n /\ ~Right(s)}
<1>1. ASSUME NEW s \in SUBSET S PROVE g[s] = Value(f, g, s) /\ k[s] = Value(h, k, s)
  BY DEF Unfolds
<1>2. ASSUME NEW s \in SUBSET S, s # {}, Right(s \ {Pick(s)}) PROVE Right(s)
  <2> DEFINE x == Pick(s)
             u == s \ {x}
  <2>1. x \in s /\ u \in SUBSET S
    BY <1>2, Smaller
  <2>2. g[s] = f[x] + g[u] /\ k[s] = h[x] + k[u]
    BY <1>1, <1>2 DEF Value
  <2>3. f[x] \in Int /\ h[x] = f[x] + IF x = t THEN d ELSE 0
    BY <2>1 DEF Moved
  <2>4. (t \in s) <=> (x = t \/ t \in u)
    BY <2>1
  <2>5. g[u] \in Int /\ k[u] = g[u] + IF t \in u THEN d ELSE 0
    BY <1>2
  <2>6. ~(x = t /\ t \in u)
    OBVIOUS
  <2> HIDE DEF x, u
  <2> QED
    BY <2>2, <2>3, <2>4, <2>5, <2>6
<1>3. Right({})
  <2>1. g[{}] = 0 /\ k[{}] = 0
    BY <1>1 DEF Value
  <2> QED
    BY <2>1
<1> HIDE DEF Right
<1>4. Wrong = {}
  <2>1. SUFFICES ASSUME Wrong # {} PROVE FALSE
    OBVIOUS
  <2>2. PICK n \in Wrong : \A m \in Wrong : n <= m
    BY <2>1, LeastNumber
  <2>3. PICK s \in SUBSET S : Cardinality(s) = n /\ ~Right(s)
    OBVIOUS
  <2>4. s # {}
    BY <1>3, <2>3
  <2> DEFINE u == s \ {Pick(s)}
  <2>5. u \in SUBSET S /\ Cardinality(u) = n - 1 /\ n - 1 \in Nat
    <3>1. Cardinality(s) \in Nat /\ Cardinality(s) > 0 /\ Cardinality(u) = Cardinality(s) - 1
      BY <2>4, Smaller
    <3> QED
      BY <2>3, <3>1
  <2>6. ~Right(u)
    BY <1>2, <2>3, <2>4
  <2>7. n - 1 \in Wrong
    BY <2>5, <2>6
  <2> QED
    BY <2>2, <2>5, <2>7
<1>5. ASSUME NEW s \in SUBSET S PROVE Right(s)
  <2>1. Cardinality(s) \in Nat
    BY FS_Subset, FS_CardinalityType
  <2> QED
    BY <1>4, <2>1
<1>6. g \in [SUBSET S -> Int]
  <2>1. g = [s \in SUBSET S |-> Value(f, g, s)]
    BY DEF Unfolds
  <2>2. ASSUME NEW s \in SUBSET S PROVE g[s] \in Int
    BY <1>5 DEF Right
  <2> DEFINE v(s) == Value(f, g, s)
  <2>3. g = [s \in SUBSET S |-> v(s)]
    BY <2>1
  <2> HIDE DEF v
  <2> QED
    BY <2>2, <2>3
<1> QED
  BY <1>5, <1>6 DEF Right, Apart

LEMMA SumsUnfold ==
  ASSUME NEW S, IsFiniteSet(S), NEW f \in [S -> Int]
  PROVE  Unfolds(Sums(f, S), f, S)
BY SumsExist DEF Sums

LEMMA UnfoldedIsInt ==
  ASSUME NEW S, IsFiniteSet(S), NEW f \in [S -> Int], NEW g, Unfolds(g, f, S)
  PROVE  g[S] \in Int
<1>1. CASE S = {}
  BY <1>1 DEF Unfolds, Value
<1>2. CASE S # {}
  <2>1. PICK t \in S : TRUE
    BY <1>2
  <2> DEFINE h == [f EXCEPT ![t] = @ + 0]
  <2>2. f[t] \in Int /\ f[t] + 0 = f[t]
    OBVIOUS
  <2>3. h = f
    BY <2>2
  <2>4. g \in [SUBSET S -> Int]
    <3>1. h \in [S -> Int] /\ Moved(f, h, t, 0) /\ Unfolds(g, h, S)
      BY <2>3 DEF Moved
    <3> HIDE DEF h
    <3>2. 0 \in Int
      OBVIOUS
    <3> QED
      BY <3>1, <3>2, SumsDiffer
  <2> QED
    BY <2>4
<1> QED
  BY <1>1, <1>2

LEMMA SumMoves ==
  ASSUME NEW S, IsFiniteSet(S), NEW f \in [S -> Int], NEW h \in [S -> Int], NEW t \in S, NEW d \in Int,
         Moved(f, h, t, d)
  PROVE  Sums(h, S)[S] = Sums(f, S)[S] + d
<1>1. Unfolds(Sums(f, S), f, S) /\ Unfolds(Sums(h, S), h, S)
  BY SumsUnfold
<1> DEFINE g == Sums(f, S)
           k == Sums(h, S)
<1>2. Unfolds(g, f, S) /\ Unfolds(k, h, S)
  BY <1>1
<1> HIDE DEF g, k
<1>3. Apart(g, k, S, t, d)
  BY <1>2, SumsDiffer
<1>4. k[S] = g[S] + d
  BY <1>3 DEF Apart
<1> QED
  BY <1>4 DEF g, k

(***************************************************************************)
(* What the prime has taken from the tills.                                *)
(***************************************************************************)
LEMMA TotalIs ==
  ASSUME NEW f \in [Till -> Int]
  PROVE  Total(f) = Sums(f, Till)[Till]
<1>1. DOMAIN f = Till
  OBVIOUS
<1> QED
  BY <1>1 DEF Total, FoldFunction, FoldFunctionOnSet, MapThenFoldSet, Sums, Unfolds, Value, Pick

LEMMA TotalIsInt ==
  ASSUME NEW f \in [Till -> Int]
  PROVE  Total(f) \in Int
<1>1. Unfolds(Sums(f, Till), f, Till)
  BY SumsUnfold, ServedAssumption
<1> QED
  BY <1>1, TotalIs, UnfoldedIsInt, ServedAssumption

LEMMA TotalMoves ==
  ASSUME NEW f \in [Till -> Int], NEW t \in Till, NEW d \in Int
  PROVE  Total([f EXCEPT ![t] = @ + d]) = Total(f) + d
<1> DEFINE h == [f EXCEPT ![t] = @ + d]
<1>1. h \in [Till -> Int] /\ Moved(f, h, t, d)
  BY DEF Moved
<1> HIDE DEF h
<1>2. Sums(h, Till)[Till] = Sums(f, Till)[Till] + d
  BY <1>1, SumMoves, ServedAssumption
<1>3. Total(h) = Total(f) + d
  BY <1>1, <1>2, TotalIs
<1> QED
  BY <1>3 DEF h

(***************************************************************************)
(* The rules, and the prime that is calculated from them.                  *)
(***************************************************************************)
TablesTyped ==
  /\ now \in Instant
  /\ DOMAIN rules \subseteq Nat /\ \A i \in DOMAIN rules : rules[i] \in RuleRow
  /\ DOMAIN bonuses \subseteq Nat /\ \A i \in DOMAIN bonuses : bonuses[i] \in BonusRow
  /\ creating \in [Owner -> Draft \cup {None}]

Numbers == Int \cup {None}

Massage == [no: Nat, plan: Plan \cup {None}, expected: Numbers, corrected: Numbers,
            billing: {"PENDING", "CALCULATED", "CORRECTED", "DISPUTED"},
            anomaly: {"none", "TOO_SHORT", "TOO_LONG"}, start: Instant, paid: BOOLEAN]
ShiftRow == [here: BOOLEAN, open: BOOLEAN, opened: {0}, gross: Numbers, prime: Numbers,
             manual: Int, tracked: BOOLEAN]

ShiftTyped ==
  /\ shift \in ShiftRow
  /\ massages \subseteq Massage /\ IsFiniteSet(massages)

LEMMA AmountIsInt ==
  ASSUME NEW m \in Massage
  PROVE  resolveFinalAmount(m) \in Int
BY DEF resolveFinalAmount, Massage, Numbers

\* There is a newest rule among those that are valid.
LEMMA RuleIsFound ==
  ASSUME TablesTyped, NEW p, NEW t, Candidates(p, t) # {}
  PROVE  findValidRule(p, t) \in DOMAIN rules
<1> DEFINE C == Candidates(p, t)
           Ages == {LastInstant - rules[i].from : i \in C}
<1>1. C \subseteq DOMAIN rules /\ \A i \in C : rules[i].from \in Instant
  BY DEF Candidates, TablesTyped, RuleRow
<1>2. Ages \in SUBSET Nat /\ Ages # {}
  BY <1>1, AmountAssumption DEF Instant
<1>3. PICK a \in Ages : \A b \in Ages : a <= b
  BY <1>2, LeastNumber
<1> DEFINE Newest == {i \in C : LastInstant - rules[i].from = a}
<1>4. Newest \in SUBSET Nat /\ Newest # {}
  BY <1>1, <1>3 DEF TablesTyped
<1>5. PICK i \in Newest : \A j \in Newest : i <= j
  BY <1>4, LeastNumber
<1>6. ASSUME NEW j \in C
      PROVE  rules[j].from < rules[i].from \/ (rules[j].from = rules[i].from /\ i <= j)
  <2>1. rules[i].from \in Int /\ rules[j].from \in Int /\ LastInstant \in Int
    BY <1>1, AmountAssumption DEF Instant
  <2>2. LastInstant - rules[i].from = a /\ a <= LastInstant - rules[j].from
    BY <1>3
  <2>3. rules[j].from = rules[i].from => j \in Newest
    BY <2>2
  <2> QED
    BY <1>5, <2>1, <2>2, <2>3
<1>7. i \in C
  OBVIOUS
<1> HIDE DEF C
<1>8. \E k \in C : \A j \in C : rules[j].from < rules[k].from \/ (rules[j].from = rules[k].from /\ k <= j)
  BY <1>6, <1>7
<1>9. findValidRule(p, t) \in C
  BY <1>8 DEF findValidRule, C
<1> QED
  BY <1>1, <1>9

LEMMA CommissionIsInt ==
  ASSUME TablesTyped, NEW m \in Massage
  PROVE  CommissionOf(m) \in Int
<1>1. CASE isEligibleForCommission(m) /\ Candidates(m.plan, m.start) # {}
  <2> DEFINE c == rules[findValidRule(m.plan, m.start)].is
             amount == resolveFinalAmount(m)
  <2>1. c \in Commission /\ amount \in Int
    BY <1>1, RuleIsFound, AmountIsInt DEF TablesTyped, RuleRow
  <2>2. c.value \in Int
    BY <2>1, AmountAssumption
  <2>3. CommissionOf(m) = applyCommissionRule(c, amount)
    BY <1>1 DEF CommissionOf
  <2> HIDE DEF c, amount
  <2>4. amount * c.value \in Int
    BY <2>1, <2>2
  <2>5. (amount * c.value + 50) \div 100 \in Int
    BY <2>4
  <2> QED
    BY <2>2, <2>3, <2>5 DEF applyCommissionRule
<1>2. CASE ~(isEligibleForCommission(m) /\ Candidates(m.plan, m.start) # {})
  BY <1>2 DEF CommissionOf
<1> QED
  BY <1>1, <1>2

LEMMA CommissionsAreInt ==
  ASSUME TablesTyped, NEW S \in SUBSET Massage, IsFiniteSet(S)
  PROVE  MapThenSumSet(CommissionOf, S) \in Int
<1> DEFINE h == [m \in S |-> CommissionOf(m)]
           Folds(g) == g = [s \in SUBSET S |-> IF s = {} THEN 0 ELSE CommissionOf(Pick(s)) + g[s \ {Pick(s)}]]
           fold == CHOOSE g : Folds(g)
<1>1. h \in [S -> Int]
  BY CommissionIsInt
<1>2. ASSUME NEW g PROVE Folds(g) <=> Unfolds(g, h, S)
  <2>1. ASSUME NEW s \in SUBSET S, s # {} PROVE h[Pick(s)] = CommissionOf(Pick(s))
    BY <2>1, Smaller
  <2>2. ASSUME NEW s \in SUBSET S
        PROVE  Value(h, g, s) = IF s = {} THEN 0 ELSE CommissionOf(Pick(s)) + g[s \ {Pick(s)}]
    BY <2>1 DEF Value
  <2> HIDE DEF h
  <2> QED
    BY <2>2 DEF Unfolds
<1> HIDE DEF h, Folds
<1>3. \E g : Folds(g)
  <2>1. PICK g \in [SUBSET S -> Int] : Unfolds(g, h, S)
    BY <1>1, SumsExist
  <2> QED
    BY <1>2, <2>1
<1>4. Folds(fold)
  BY <1>3
<1> HIDE DEF fold
<1>5. fold[S] \in Int
  BY <1>1, <1>2, <1>4, UnfoldedIsInt
<1>6. MapThenSumSet(CommissionOf, S) = fold[S]
  BY DEF MapThenSumSet, MapThenFoldSet, Pick, fold, Folds
<1> QED
  BY <1>5, <1>6

LEMMA RevenueIsInt ==
  ASSUME NEW S \in SUBSET Massage, IsFiniteSet(S)
  PROVE  GrossRevenue(S) \in Int
<1> DEFINE h == [m \in S |-> resolveFinalAmount(m)]
           Folds(g) == g = [s \in SUBSET S |-> IF s = {} THEN 0 ELSE resolveFinalAmount(Pick(s)) + g[s \ {Pick(s)}]]
           fold == CHOOSE g : Folds(g)
<1>1. h \in [S -> Int]
  BY AmountIsInt
<1>2. ASSUME NEW g PROVE Folds(g) <=> Unfolds(g, h, S)
  <2>1. ASSUME NEW s \in SUBSET S, s # {} PROVE h[Pick(s)] = resolveFinalAmount(Pick(s))
    BY <2>1, Smaller
  <2>2. ASSUME NEW s \in SUBSET S
        PROVE  Value(h, g, s) = IF s = {} THEN 0 ELSE resolveFinalAmount(Pick(s)) + g[s \ {Pick(s)}]
    BY <2>1 DEF Value
  <2> HIDE DEF h
  <2> QED
    BY <2>2 DEF Unfolds
<1> HIDE DEF h, Folds
<1>3. \E g : Folds(g)
  <2>1. PICK g \in [SUBSET S -> Int] : Unfolds(g, h, S)
    BY <1>1, SumsExist
  <2> QED
    BY <1>2, <2>1
<1>4. Folds(fold)
  BY <1>3
<1> HIDE DEF fold
<1>5. fold[S] \in Int
  BY <1>1, <1>2, <1>4, UnfoldedIsInt
<1>6. GrossRevenue(S) = fold[S]
  BY DEF GrossRevenue, MapThenSumSet, MapThenFoldSet, Pick, fold, Folds
<1> QED
  BY <1>5, <1>6

LEMMA PrimesAreInt ==
  ASSUME TablesTyped, ShiftTyped, NEW s \in Primes
  PROVE  s.gross \in Int /\ s.prime \in Int
<1>1. GrossRevenue(massages) \in Int /\ MapThenSumSet(CommissionOf, massages) \in Int
  BY CommissionsAreInt, RevenueIsInt DEF ShiftTyped
<1>2. shift.manual \in Int
  BY DEF ShiftTyped, ShiftRow
<1>3. ASSUME NEW b \in TargetBonus(shift.opened, GrossRevenue(massages)) PROVE b \in Int
  <2>1. \A i \in DOMAIN bonuses : bonuses[i].is.amount \in Int
    BY AmountAssumption DEF TablesTyped, BonusRow
  <2> QED
    BY <2>1 DEF TargetBonus
<1> DEFINE sum == MapThenSumSet(CommissionOf, massages)
<1>4. PICK b \in TargetBonus(shift.opened, GrossRevenue(massages)) :
        s.gross = GrossRevenue(massages) /\ s.prime = sum + b + shift.manual
  BY DEF Primes, calculateShiftPrimeSummary
<1>5. sum \in Int
  BY <1>1
<1> HIDE DEF sum
<1> QED
  BY <1>1, <1>2, <1>3, <1>4, <1>5

(***************************************************************************)
(* The tills and the requests that sync the prime.                         *)
(***************************************************************************)
Call == [at: {"idle", "recalculate", "save", "sync", "lock", "post", "close"},
         close: BOOLEAN, save: BOOLEAN, gross: Int, prime: Int,
         till: Till \cup {None}, taken: Int, first: BOOLEAN]

BooksTyped ==
  /\ world \in World
  /\ assigned \in Till \cup {None}
  /\ net \in [Till -> Int] /\ touched \subseteq Till
  /\ lock \in [Till -> Worker \cup {None}]
  /\ call \in [Worker -> Call]
  /\ ops \in Nat

\* A request that has chosen its till.
Chosen(k) == k.at \in {"lock", "post"}

\* A till is locked by the request that is about to post to it.
LocksHeld ==
  /\ \A w \in Worker : Chosen(call[w]) => call[w].till \in Till
  /\ \A w \in Worker : call[w].at = "post" => lock[call[w].till] = w
  /\ \A t \in Till : lock[t] # None => call[lock[t]].at = "post" /\ call[lock[t]].till = t

\* While the staff keeps its till, no other is locked, and what was read under
\* the lock stays true.
OneTillKept ==
  ~world.reassign =>
    /\ touched \subseteq {assigned}
    /\ \A w \in Worker : Chosen(call[w]) => call[w].till = assigned
    /\ \A w \in Worker : call[w].at = "post" => call[w].taken = Taken

\* While one request is served at a time, the till it has chosen is the only
\* one that holds a movement of the prime.
OneServed ==
  \A v \in Worker : world.workers = {v} =>
    /\ \A w \in Worker \ {v} : call[w].at = "idle"
    /\ \A t, u \in touched : t = u
    /\ Chosen(call[v]) => touched \subseteq {call[v].till}

Books == BooksTyped /\ LocksHeld /\ OneTillKept /\ OneServed

PrimeInv == TablesTyped /\ ShiftTyped /\ Books

LEMMA IdleIsCall == Idle \in Call
BY DEF Idle, Call

LEMMA AfterIsQuiet ==
  ASSUME NEW w \in Worker
  PROVE  After(w) \in Call /\ ~Chosen(After(w))
BY IdleIsCall DEF After, Idle, Call, Chosen

LEMMA BooksRest ==
  ASSUME Books, UNCHANGED <<world, assigned, ledger, call, ops>>
  PROVE  Books'
<1>1. Taken' = Taken
  BY DEF ledger, Taken
<1>2. UNCHANGED <<net, touched, lock>>
  BY DEF ledger
<1>3. BooksTyped' /\ LocksHeld'
  BY <1>2 DEF Books, BooksTyped, LocksHeld
<1>4. OneTillKept' /\ OneServed'
  BY <1>1, <1>2 DEF Books, OneTillKept, OneServed
<1> QED
  BY <1>3, <1>4 DEF Books

LEMMA BooksMove ==
  ASSUME Books, NEW t \in Till \cup {None}, Reassign(t)
  PROVE  Books'
<1>1. UNCHANGED <<world, net, touched, lock, call, ops>> /\ assigned' = t /\ world.reassign
  BY DEF Reassign, ledger
<1>2. BooksTyped' /\ LocksHeld'
  BY <1>1 DEF Books, BooksTyped, LocksHeld
<1>3. OneTillKept' /\ OneServed'
  BY <1>1 DEF Books, OneTillKept, OneServed
<1> QED
  BY <1>2, <1>3 DEF Books

\* A request begins, or goes on without a till.
LEMMA QuietCall ==
  ASSUME Books, NEW w \in Worker, NEW c \in Call, ~Chosen(c), call' = [call EXCEPT ![w] = c],
         call[w].at # "post", w \in world.workers \/ call[w].at # "idle",
         UNCHANGED <<world, assigned, ledger>>, ops' \in Nat
  PROVE  Books'
<1>1. Taken' = Taken /\ UNCHANGED <<net, touched, lock>>
  BY DEF ledger, Taken
<1>2. /\ call \in [Worker -> Call] /\ call' \in [Worker -> Call] /\ call'[w] = c
      /\ \A v \in Worker : v # w => call'[v] = call[v]
  BY DEF Books, BooksTyped
<1>3. BooksTyped'
  BY <1>1, <1>2 DEF Books, BooksTyped
<1>4. \A t \in Till : lock[t] # None => lock[t] # w /\ lock[t] \in Worker
  BY DEF Books, BooksTyped, LocksHeld
<1>5. c.at # "post"
  BY DEF Chosen
<1>6. LocksHeld'
  BY <1>1, <1>2, <1>4, <1>5 DEF Books, LocksHeld
<1>7. OneTillKept'
  BY <1>1, <1>2, <1>5 DEF Books, OneTillKept
<1>8. OneServed'
  BY <1>1, <1>2 DEF Books, OneServed
<1> QED
  BY <1>3, <1>6, <1>7, <1>8 DEF Books

\* A request has chosen the till that it will lock.
LEMMA ChosenCall ==
  ASSUME Books, NEW w \in Worker, NEW c \in Call, c.at = "lock", call' = [call EXCEPT ![w] = c],
         call[w].at = "sync", c.till \in Till,
         c.till \in IF touched # {} THEN touched ELSE {assigned},
         UNCHANGED <<world, assigned, ledger, ops>>
  PROVE  Books'
<1>1. Taken' = Taken /\ UNCHANGED <<net, touched, lock>>
  BY DEF ledger, Taken
<1>2. /\ call \in [Worker -> Call] /\ call' \in [Worker -> Call] /\ call'[w] = c
      /\ \A v \in Worker : v # w => call'[v] = call[v]
  BY DEF Books, BooksTyped
<1>3. BooksTyped'
  BY <1>1, <1>2 DEF Books, BooksTyped
<1>4. \A t \in Till : lock[t] # None => lock[t] # w /\ lock[t] \in Worker
  BY DEF Books, BooksTyped, LocksHeld
<1>5. LocksHeld'
  BY <1>1, <1>2, <1>4 DEF Books, LocksHeld
<1>6. OneTillKept'
  BY <1>1, <1>2 DEF Books, OneTillKept
<1>7. OneServed'
  BY <1>1, <1>2 DEF Books, OneServed
<1> QED
  BY <1>3, <1>5, <1>6, <1>7 DEF Books

LEMMA LockStep ==
  ASSUME Books, NEW w \in Worker, Lock(w)
  PROVE  Books'
<1> DEFINE t == call[w].till
           c == [call[w] EXCEPT !.at = "post", !.taken = Taken, !.first = touched = {}]
<1>1. Taken' = Taken /\ UNCHANGED <<world, assigned, net, touched, ops>>
  BY DEF Lock, Proceed, Taken
<1>2. call[w].at = "lock" /\ t \in Till /\ lock[t] = None /\ call[w] \in Call
  BY DEF Lock, At, Books, BooksTyped, LocksHeld, Chosen
<1>3. Taken \in Int
  BY TotalIsInt DEF Books, BooksTyped, Taken
<1>4. c \in Call /\ c.at = "post" /\ c.till = t /\ c.taken = Taken
  BY <1>2, <1>3 DEF Call
<1>5. lock' = [lock EXCEPT ![t] = w] /\ call' = [call EXCEPT ![w] = c]
  BY DEF Lock, Proceed
<1> HIDE DEF c
<1>6. /\ call \in [Worker -> Call] /\ call' \in [Worker -> Call] /\ call'[w] = c
      /\ \A v \in Worker : v # w => call'[v] = call[v]
  BY <1>4, <1>5 DEF Books, BooksTyped
<1>7. /\ lock' \in [Till -> Worker \cup {None}] /\ lock'[t] = w
      /\ \A u \in Till : u # t => lock'[u] = lock[u]
  BY <1>2, <1>5 DEF Books, BooksTyped
<1>8. w # None
  BY ServedAssumption
<1>9. BooksTyped'
  BY <1>1, <1>6, <1>7 DEF Books, BooksTyped
<1>10. \A v \in Worker : v # w /\ call[v].at = "post" => call[v].till \in Till /\ call[v].till # t
  BY <1>2, <1>8, ServedAssumption DEF Books, LocksHeld, Chosen
<1>11. \A u \in Till : lock[u] # None => lock[u] # w /\ lock[u] \in Worker
  BY <1>2 DEF Books, BooksTyped, LocksHeld
<1>12. LocksHeld'
  <2>1. ASSUME NEW v \in Worker, Chosen(call'[v]) PROVE call'[v].till \in Till
    BY <1>2, <1>4, <1>6, <2>1 DEF Books, LocksHeld
  <2>2. ASSUME NEW v \in Worker, call'[v].at = "post" PROVE lock'[call'[v].till] = v
    BY <1>4, <1>6, <1>7, <1>10, <2>2 DEF Books, LocksHeld
  <2>3. ASSUME NEW u \in Till, lock'[u] # None
        PROVE  call'[lock'[u]].at = "post" /\ call'[lock'[u]].till = u
    BY <1>4, <1>6, <1>7, <1>11, <2>3 DEF Books, LocksHeld
  <2> QED
    BY <2>1, <2>2, <2>3 DEF LocksHeld
<1>13. OneTillKept'
  BY <1>1, <1>2, <1>4, <1>6 DEF Books, OneTillKept, Chosen
<1>14. OneServed'
  BY <1>1, <1>2, <1>4, <1>6 DEF Books, OneServed, Chosen
<1> QED
  BY <1>9, <1>12, <1>13, <1>14 DEF Books

\* The difference is posted: what the tills have paid is the prime, or as before.
LEMMA PostAdds ==
  ASSUME Books, NEW w \in Worker, Post(w)
  PROVE  /\ planShiftPrimeSync(w) \in Int
         /\ Taken' = Taken + planShiftPrimeSync(w)
         /\ ~world.reassign => Taken' = Taken \/ Taken' = call[w].prime
<1>1. call[w] \in Call /\ call[w].till \in Till /\ call[w].at = "post" /\ net \in [Till -> Int]
  BY DEF Post, At, Books, BooksTyped, LocksHeld, Chosen
<1>2. call[w].prime \in Int /\ call[w].taken \in Int /\ Taken \in Int
  BY <1>1, TotalIsInt DEF Call, Taken
<1> DEFINE d == planShiftPrimeSync(w)
<1>3. d = call[w].prime - call[w].taken \/ d = 0
  BY DEF planShiftPrimeSync
<1>4. d \in Int
  BY <1>2, <1>3
<1>5. net' = [net EXCEPT ![call[w].till] = @ + d]
  BY DEF Post
<1> HIDE DEF d
<1>6. Taken' = Total([net EXCEPT ![call[w].till] = @ + d]) /\ Taken = Total(net)
  BY <1>5 DEF Taken
<1>7. Taken' = Taken + d
  BY <1>1, <1>4, <1>6, TotalMoves
<1>8. ~world.reassign => call[w].taken = Taken
  BY <1>1 DEF Books, OneTillKept
<1>9. ~world.reassign => Taken' = Taken \/ Taken' = call[w].prime
  BY <1>2, <1>3, <1>7, <1>8
<1> QED
  BY <1>4, <1>7, <1>9 DEF d

LEMMA PostStep ==
  ASSUME Books, NEW w \in Worker, Post(w)
  PROVE  Books'
<1> DEFINE t == call[w].till
           c == After(w)
           d == planShiftPrimeSync(w)
<1>1. call[w].at = "post" /\ t \in Till /\ lock[t] = w
  BY DEF Post, At, Books, BooksTyped, LocksHeld, Chosen
<1>2. /\ net' = [net EXCEPT ![t] = @ + d] /\ lock' = [lock EXCEPT ![t] = None]
      /\ call' = [call EXCEPT ![w] = c] /\ UNCHANGED <<world, assigned, ops>>
  BY DEF Post, Proceed
<1>3. touched' = touched \/ touched' = touched \cup {t}
  BY DEF Post
<1>4. d \in Int
  BY PostAdds
<1>5. c \in Call /\ ~Chosen(c) /\ c.at # "post"
  BY AfterIsQuiet DEF Chosen
<1> HIDE DEF c, d
<1>6. /\ call \in [Worker -> Call] /\ call' \in [Worker -> Call] /\ call'[w] = c
      /\ \A v \in Worker : v # w => call'[v] = call[v]
  BY <1>2, <1>5 DEF Books, BooksTyped
<1>7. /\ lock' \in [Till -> Worker \cup {None}] /\ lock'[t] = None
      /\ \A u \in Till : u # t => lock'[u] = lock[u]
  BY <1>1, <1>2 DEF Books, BooksTyped
<1>8. net' \in [Till -> Int]
  BY <1>1, <1>2, <1>4 DEF Books, BooksTyped
<1>9. touched' \subseteq Till
  BY <1>1, <1>3 DEF Books, BooksTyped
<1>10. BooksTyped'
  BY <1>2, <1>6, <1>7, <1>8, <1>9 DEF Books, BooksTyped
<1>11. \A v \in Worker : v # w /\ call[v].at = "post" => call[v].till \in Till /\ call[v].till # t
  BY <1>1 DEF Books, LocksHeld, Chosen
<1>12. LocksHeld'
  <2>1. ASSUME NEW v \in Worker, Chosen(call'[v]) PROVE call'[v].till \in Till
    BY <1>5, <1>6, <2>1 DEF Books, LocksHeld
  <2>2. ASSUME NEW v \in Worker, call'[v].at = "post" PROVE lock'[call'[v].till] = v
    BY <1>5, <1>6, <1>7, <1>11, <2>2 DEF Books, LocksHeld
  <2>3. ASSUME NEW u \in Till, lock'[u] # None
        PROVE  call'[lock'[u]].at = "post" /\ call'[lock'[u]].till = u
    <3>1. u # t /\ lock[u] # None /\ lock[u] \in Worker /\ lock[u] # w
      BY <1>7, <2>3 DEF Books, BooksTyped, LocksHeld
    <3> QED
      BY <1>6, <1>7, <3>1 DEF Books, LocksHeld
  <2> QED
    BY <2>1, <2>2, <2>3 DEF LocksHeld
<1>13. OneTillKept'
  <2>1. SUFFICES ASSUME ~world.reassign PROVE OneTillKept'
    BY <1>2 DEF OneTillKept
  <2>2. t = assigned /\ touched \subseteq {assigned}
    BY <1>1, <2>1 DEF Books, OneTillKept, Chosen
  <2>3. \A v \in Worker : v # w => call[v].at # "post"
    BY <1>1, <1>11, <2>1, <2>2 DEF Books, OneTillKept, Chosen
  <2>4. touched' \subseteq {assigned}
    BY <1>3, <2>2
  <2>5. \A v \in Worker : call'[v].at # "post"
    BY <1>5, <1>6, <2>3
  <2>6. \A v \in Worker : Chosen(call'[v]) => call'[v].till = assigned
    BY <1>5, <1>6, <2>1 DEF Books, OneTillKept
  <2> QED
    BY <1>2, <2>4, <2>5, <2>6 DEF OneTillKept
<1>14. OneServed'
  <2>1. SUFFICES ASSUME NEW v \in Worker, world.workers = {v}
                 PROVE  /\ \A u \in Worker \ {v} : call'[u].at = "idle"
                        /\ \A s, u \in touched' : s = u
                        /\ ~Chosen(call'[v])
    BY <1>2 DEF OneServed
  <2>2. w = v
    BY <1>1, <2>1 DEF Books, OneServed
  <2>3. touched \subseteq {t}
    BY <1>1, <2>1, <2>2 DEF Books, OneServed, Chosen
  <2>4. touched' \subseteq {t}
    BY <1>3, <2>3
  <2> QED
    BY <1>5, <1>6, <2>1, <2>2, <2>4 DEF Books, OneServed
<1> QED
  BY <1>10, <1>12, <1>13, <1>14 DEF Books

(***************************************************************************)
(* The owner works on the rules.                                           *)
(***************************************************************************)
\* Rows of a table of rules; R is what a row may be.
Rows(table, R) == DOMAIN table \subseteq Nat /\ \A i \in DOMAIN table : table[i] \in R

LEMMA TablesAre ==
  TablesTyped <=> /\ now \in Instant /\ Rows(rules, RuleRow) /\ Rows(bonuses, BonusRow)
                  /\ creating \in [Owner -> Draft \cup {None}]
BY DEF TablesTyped, Rows

\* A row of a rule; Table is RuleRow or BonusRow.
Sealable(R) ==
  \A row \in R : /\ \A at \in Instant : SwitchedOff(row, at) \in R
                /\ \A on \in BOOLEAN : [row EXCEPT !.active = on] \in R

LEMMA RowsSeal == Sealable(RuleRow) /\ Sealable(BonusRow)
<1>1. ASSUME NEW row \in RuleRow, NEW at \in Instant PROVE SwitchedOff(row, at) \in RuleRow
  BY DEF SwitchedOff, RuleRow
<1>2. ASSUME NEW row \in RuleRow, NEW on \in BOOLEAN PROVE [row EXCEPT !.active = on] \in RuleRow
  BY DEF RuleRow
<1>3. ASSUME NEW row \in BonusRow, NEW at \in Instant PROVE SwitchedOff(row, at) \in BonusRow
  BY DEF SwitchedOff, BonusRow
<1>4. ASSUME NEW row \in BonusRow, NEW on \in BOOLEAN PROVE [row EXCEPT !.active = on] \in BonusRow
  BY DEF BonusRow
<1> QED
  BY <1>1, <1>2, <1>3, <1>4 DEF Sealable

LEMMA RowsSealed ==
  ASSUME NEW table, NEW R, Rows(table, R), Sealable(R), NEW which, NEW at \in Instant
  PROVE  Rows(SealAll(table, which, at), R)
BY DEF Rows, SealAll, Sealable

LEMMA RowsAdded ==
  ASSUME NEW table, NEW R, Rows(table, R), NEW row \in R
  PROVE  Rows(Added(table, row), R)
BY DEF Rows, Added

Switched(table, i, on) ==
  [table EXCEPT ![i] = IF ~on /\ @.active THEN SwitchedOff(@, now) ELSE [@ EXCEPT !.active = on]]

LEMMA RowsSwitched ==
  ASSUME NEW table, NEW R, Rows(table, R), Sealable(R), NEW i \in DOMAIN table, NEW on \in BOOLEAN,
         now \in Instant
  PROVE  Rows(Switched(table, i, on), R)
<1> DEFINE new == IF ~on /\ table[i].active THEN SwitchedOff(table[i], now)
                  ELSE [table[i] EXCEPT !.active = on]
<1>1. new \in R
  BY DEF Rows, Sealable
<1> HIDE DEF new
<1>2. Rows([table EXCEPT ![i] = new], R)
  BY <1>1 DEF Rows
<1> QED
  BY <1>2 DEF new, Switched

\* What a new row of a rule is.
LEMMA NewRule ==
  ASSUME NEW p \in Plan, NEW c \in Commission, NEW from \in Instant, NEW on \in BOOLEAN
  PROVE  [plan |-> p, is |-> c, active |-> on, from |-> from, to |-> Forever] \in RuleRow
BY DEF RuleRow

LEMMA NewBonus ==
  ASSUME NEW b \in Bonus, NEW from \in Instant, NEW on \in BOOLEAN
  PROVE  [is |-> b, active |-> on, from |-> from, to |-> Forever] \in BonusRow
BY DEF BonusRow

RulesChange ==
  \/ \E o \in Owner, p \in Plan, c \in Commission, on \in BOOLEAN : BeginRule(o, p, c, on)
  \/ \E o \in Owner, b \in Bonus, on \in BOOLEAN : BeginBonus(o, b, on)
  \/ \E o \in Owner : SealFound(o)
  \/ \E o \in Owner : InsertRow(o)
  \/ \E i \in DOMAIN rules, on \in BOOLEAN : SwitchRule(i, on)
  \/ \E i \in DOMAIN rules, c \in Commission, on \in BOOLEAN : ReplaceRule(i, c, on)
  \/ \E i \in DOMAIN bonuses, on \in BOOLEAN : SwitchBonus(i, on)
  \/ \E i \in DOMAIN bonuses, b \in Bonus, on \in BOOLEAN : ReplaceBonus(i, b, on)

\* A request that begins to create a rule keeps the row it will insert.
LEMMA DraftsAre ==
  ASSUME TablesTyped,
         \/ \E o \in Owner, p \in Plan, c \in Commission, on \in BOOLEAN : BeginRule(o, p, c, on)
         \/ \E o \in Owner, b \in Bonus, on \in BOOLEAN : BeginBonus(o, b, on)
  PROVE  \E o \in Owner, d \in Draft : Creating(o, d)
<1>1. DOMAIN rules \subseteq Nat /\ DOMAIN bonuses \subseteq Nat /\ now \in Instant
  BY DEF TablesTyped
<1>2. CASE \E o \in Owner, p \in Plan, c \in Commission, on \in BOOLEAN : BeginRule(o, p, c, on)
  <2>1. PICK o \in Owner, p \in Plan, c \in Commission, on \in BOOLEAN : BeginRule(o, p, c, on)
    BY <1>2
  <2> DEFINE row == [plan |-> p, is |-> c, active |-> on, from |-> now, to |-> Forever]
             found == IF on THEN ActiveRules(p) ELSE {}
             d == [table |-> "rules", sealing |-> found, row |-> row]
  <2>2. row \in RuleRow
    BY <1>1, NewRule
  <2>3. found \in SUBSET Nat
    BY <1>1 DEF ActiveRules
  <2>4. d \in Draft
    <3> HIDE DEF row, found
    <3> QED
      BY <2>2, <2>3 DEF Draft
  <2>5. Creating(o, d)
    BY <2>1 DEF BeginRule
  <2> QED
    BY <2>4, <2>5
<1>3. CASE \E o \in Owner, b \in Bonus, on \in BOOLEAN : BeginBonus(o, b, on)
  <2>1. PICK o \in Owner, b \in Bonus, on \in BOOLEAN : BeginBonus(o, b, on)
    BY <1>3
  <2> DEFINE row == [is |-> b, active |-> on, from |-> now, to |-> Forever]
             found == IF on THEN ActiveBonuses(b.target) ELSE {}
             d == [table |-> "bonuses", sealing |-> found, row |-> row]
  <2>2. row \in BonusRow
    BY <1>1, NewBonus
  <2>3. found \in SUBSET Nat
    BY <1>1 DEF ActiveBonuses
  <2>4. d \in Draft
    <3> HIDE DEF row, found
    <3> QED
      BY <2>2, <2>3 DEF Draft
  <2>5. Creating(o, d)
    BY <2>1 DEF BeginBonus
  <2> QED
    BY <2>4, <2>5
<1> QED
  BY <1>2, <1>3

LEMMA RulesStep ==
  ASSUME TablesTyped, UNCHANGED now, RulesChange
  PROVE  TablesTyped'
<1>1. /\ now \in Instant /\ Rows(rules, RuleRow) /\ Rows(bonuses, BonusRow)
      /\ creating \in [Owner -> Draft \cup {None}] /\ Sealable(RuleRow) /\ Sealable(BonusRow)
  BY TablesAre, RowsSeal
<1>2. SUFFICES /\ Rows(rules', RuleRow) /\ Rows(bonuses', BonusRow)
               /\ creating' \in [Owner -> Draft \cup {None}]
  BY <1>1 DEF TablesTyped, Rows, Instant, RuleRow, BonusRow, Draft, Forever
<1>3. CASE \/ \E o \in Owner, p \in Plan, c \in Commission, on \in BOOLEAN : BeginRule(o, p, c, on)
           \/ \E o \in Owner, b \in Bonus, on \in BOOLEAN : BeginBonus(o, b, on)
  <2>1. PICK o \in Owner, d \in Draft : Creating(o, d)
    BY <1>1, <1>3, DraftsAre
  <2> QED
    BY <1>1, <2>1 DEF Creating
<1>4. CASE \E o \in Owner : SealFound(o)
  <2>1. PICK o \in Owner : SealFound(o)
    BY <1>4
  <2> DEFINE d == creating[o]
  <2>2. d \in Draft
    BY <1>1, <2>1 DEF SealFound
  <2>3. d.row.from \in Instant /\ [d EXCEPT !.sealing = {}] \in Draft
    BY <2>2 DEF Draft, RuleRow, BonusRow
  <2> HIDE DEF d
  <2>4. /\ rules' = IF d.table = "rules" THEN SealAll(rules, d.sealing, d.row.from) ELSE rules
        /\ bonuses' = IF d.table = "bonuses" THEN SealAll(bonuses, d.sealing, d.row.from) ELSE bonuses
        /\ creating' = [creating EXCEPT ![o] = [d EXCEPT !.sealing = {}]]
    BY <2>1 DEF SealFound, d
  <2>5. Rows(rules', RuleRow) /\ Rows(bonuses', BonusRow)
    BY <1>1, <2>3, <2>4, RowsSealed
  <2> QED
    BY <1>1, <2>3, <2>4, <2>5
<1>10. CASE \E o \in Owner : InsertRow(o)
  <2>1. PICK o \in Owner : InsertRow(o)
    BY <1>10
  <2> DEFINE d == creating[o]
  <2>2. d \in Draft
    BY <1>1, <2>1 DEF InsertRow
  <2>3. /\ d.table = "rules" => d.row \in RuleRow
        /\ d.table = "bonuses" => d.row \in BonusRow
    BY <2>2 DEF Draft
  <2>4. Rows(rules', RuleRow) /\ Rows(bonuses', BonusRow)
    BY <1>1, <2>1, <2>3, RowsAdded DEF InsertRow
  <2>5. creating' \in [Owner -> Draft \cup {None}]
    BY <1>1, <2>1 DEF InsertRow
  <2> QED
    BY <2>4, <2>5
<1>5. CASE \E i \in DOMAIN rules, on \in BOOLEAN : SwitchRule(i, on)
  <2>1. PICK i \in DOMAIN rules, on \in BOOLEAN : SwitchRule(i, on)
    BY <1>5
  <2>2. rules' = Switched(rules, i, on)
    BY <2>1 DEF SwitchRule, Switched
  <2>3. Rows(rules', RuleRow)
    BY <1>1, <2>2, RowsSwitched
  <2> QED
    BY <1>1, <2>1, <2>3 DEF SwitchRule
<1>6. CASE \E i \in DOMAIN rules, c \in Commission, on \in BOOLEAN : ReplaceRule(i, c, on)
  <2>1. PICK i \in DOMAIN rules, c \in Commission, on \in BOOLEAN : ReplaceRule(i, c, on)
    BY <1>6
  <2>2. rules[i].plan \in Plan
    BY <1>1 DEF Rows, RuleRow
  <2>3. [plan |-> rules[i].plan, is |-> c, active |-> on, from |-> now, to |-> Forever] \in RuleRow
    BY <1>1, <2>2, NewRule
  <2>4. Rows(SealAll(rules, {i}, now), RuleRow)
    BY <1>1, RowsSealed
  <2>5. Rows(rules', RuleRow)
    BY <2>1, <2>3, <2>4, RowsAdded DEF ReplaceRule
  <2> QED
    BY <1>1, <2>1, <2>5 DEF ReplaceRule
<1>8. CASE \E i \in DOMAIN bonuses, on \in BOOLEAN : SwitchBonus(i, on)
  <2>1. PICK i \in DOMAIN bonuses, on \in BOOLEAN : SwitchBonus(i, on)
    BY <1>8
  <2>2. bonuses' = Switched(bonuses, i, on)
    BY <2>1 DEF SwitchBonus, Switched
  <2>3. Rows(bonuses', BonusRow)
    BY <1>1, <2>2, RowsSwitched
  <2> QED
    BY <1>1, <2>1, <2>3 DEF SwitchBonus
<1>9. CASE \E i \in DOMAIN bonuses, b \in Bonus, on \in BOOLEAN : ReplaceBonus(i, b, on)
  <2>1. PICK i \in DOMAIN bonuses, b \in Bonus, on \in BOOLEAN : ReplaceBonus(i, b, on)
    BY <1>9
  <2>2. [is |-> b, active |-> on, from |-> now, to |-> Forever] \in BonusRow
    BY <1>1, NewBonus
  <2>3. Rows(SealAll(bonuses, {i}, now), BonusRow)
    BY <1>1, RowsSealed
  <2>4. Rows(bonuses', BonusRow)
    BY <2>1, <2>2, <2>3, RowsAdded DEF ReplaceBonus
  <2> QED
    BY <1>1, <2>1, <2>4 DEF ReplaceBonus
<1> QED
  BY <1>3, <1>4, <1>5, <1>6, <1>8, <1>9, <1>10 DEF RulesChange

(***************************************************************************)
(* The whole.                                                              *)
(***************************************************************************)
LEMMA NewShiftIsRow == NewShift \subseteq ShiftRow
<1> SUFFICES ASSUME NEW s \in NewShift PROVE s \in ShiftRow
  OBVIOUS
<1>1. None \in Numbers /\ 0 \in Int
  BY DEF Numbers
<1> QED
  BY <1>1 DEF NewShift, ShiftRow

LEMMA PrimeInit == Init => PrimeInv
<1> SUFFICES ASSUME Init PROVE PrimeInv
  OBVIOUS
<1>1. TablesTyped
  <2>1. now \in Instant
    BY AmountAssumption DEF Init, Instant
  <2>2. PICK p \in Plan, c \in Commission :
          rules = [i \in 1 .. 1 |-> [plan |-> p, is |-> c, active |-> TRUE, from |-> 0, to |-> Forever]]
    BY DEF Init
  <2>3. 0 \in Instant
    BY AmountAssumption DEF Instant
  <2>4. [plan |-> p, is |-> c, active |-> TRUE, from |-> 0, to |-> Forever] \in RuleRow
    BY <2>3, NewRule
  <2>5. DOMAIN rules \subseteq Nat /\ \A i \in DOMAIN rules : rules[i] \in RuleRow
    BY <2>2, <2>4
  <2>6. DOMAIN bonuses = {}
    BY DEF Init
  <2> QED
    BY <2>1, <2>5, <2>6 DEF Init, TablesTyped
<1>2. ShiftTyped
  <2>1. shift \in NewShift
    BY DEF Init
  <2>2. shift \in ShiftRow
    BY <2>1, NewShiftIsRow
  <2>3. massages = {}
    BY DEF Init
  <2> QED
    BY <2>2, <2>3, FS_EmptySet DEF ShiftTyped
<1>3. BooksTyped
  BY IdleIsCall, ServedAssumption DEF Init, BooksTyped
<1>4. \A w \in Worker : call[w].at = "idle"
  BY DEF Init, Idle
<1>5. LocksHeld
  BY <1>4 DEF Init, LocksHeld, Chosen
<1>6. OneTillKept
  BY <1>4 DEF Init, OneTillKept, Chosen
<1>7. OneServed
  BY <1>4 DEF Init, OneServed, Chosen
<1> QED
  BY <1>1, <1>2, <1>3, <1>5, <1>6, <1>7 DEF PrimeInv, Books

LEMMA TablesRest ==
  ASSUME TablesTyped, UNCHANGED <<now, ruleVars>>
  PROVE  TablesTyped'
BY DEF TablesTyped, ruleVars, Instant, RuleRow, BonusRow, Draft, Forever

LEMMA ShiftRests ==
  ASSUME ShiftTyped, UNCHANGED shiftVars
  PROVE  ShiftTyped'
BY DEF ShiftTyped, shiftVars, ShiftRow, Massage, Instant, Numbers

\* A request begins.
Starts == {Sync, Recalculation, [Recalculation EXCEPT !.close = TRUE]}

LEMMA StartsAreCalls == \A c \in Starts : c \in Call /\ ~Chosen(c)
<1> DEFINE r == [Idle EXCEPT !.at = "recalculate", !.save = TRUE]
<1>1. Sync \in Call /\ Sync.at = "sync"
  BY IdleIsCall DEF Sync, Call
<1>2. r \in Call /\ r.at = "recalculate"
  BY IdleIsCall DEF Call
<1> HIDE DEF r
<1>3. [r EXCEPT !.close = TRUE] \in Call /\ [r EXCEPT !.close = TRUE].at = "recalculate"
  BY <1>2 DEF Call
<1>4. Recalculation = r
  BY DEF Recalculation, r
<1> QED
  BY <1>1, <1>2, <1>3, <1>4 DEF Starts, Chosen

LEMMA BeginStep ==
  ASSUME TablesTyped, Books, NEW w \in Worker, Free(w), NEW c \in Starts, Begin(w, c)
  PROVE  TablesTyped' /\ Books'
<1>1. c \in Call /\ ~Chosen(c)
  BY StartsAreCalls
<1>2. ops' \in Nat
  BY DEF Begin, Books, BooksTyped
<1> QED
  BY <1>1, <1>2, QuietCall, TablesRest DEF Free, Begin

\* A request goes on, but for the lock and the post.
LEMMA GoesOn ==
  ASSUME TablesTyped, Books, NEW w \in Worker, NEW c \in Call, ~Chosen(c), Proceed(w, c),
         call[w].at \notin {"idle", "post"}, UNCHANGED ledger
  PROVE  TablesTyped' /\ Books'
<1>1. ops' \in Nat
  BY DEF Proceed, Books, BooksTyped
<1>2. TablesTyped'
  BY TablesRest DEF Proceed
<1>3. Books'
  BY <1>1, QuietCall DEF Proceed
<1> QED
  BY <1>2, <1>3

LEMMA MassagesStep ==
  ASSUME PrimeInv,
         \/ \E w \in Worker, p \in Profile : EndMassage(w, p)
         \/ \E w \in Worker, m \in massages, a \in Amount : CorrectMassage(w, m, a)
         \/ \E m \in massages : ArchiveMassage(m)
  PROVE  PrimeInv'
<1>1. shift' = shift
  BY DEF EndMassage, CorrectMassage, ArchiveMassage
<1>2. SUFFICES massages' \subseteq Massage /\ IsFiniteSet(massages') /\ TablesTyped' /\ Books'
  BY <1>1 DEF PrimeInv, ShiftTyped, ShiftRow, Massage, Instant, Numbers
<1>3. massages \subseteq Massage /\ IsFiniteSet(massages) /\ TablesTyped /\ Books
  BY DEF PrimeInv, ShiftTyped
<1>4. CASE \E w \in Worker, p \in Profile : EndMassage(w, p)
  <2>1. PICK w \in Worker, p \in Profile : EndMassage(w, p)
    BY <1>4
  <2> DEFINE m == [no |-> ops, plan |-> p.plan, expected |-> p.expected, corrected |-> None,
                   billing |-> p.billing, anomaly |-> p.anomaly, start |-> now, paid |-> p.paid]
  <2>2. m \in Massage
    BY <1>3, AmountAssumption DEF Books, BooksTyped, TablesTyped, Massage, Numbers
  <2>3. massages' = massages \cup {m}
    BY <2>1 DEF EndMassage
  <2> HIDE DEF m
  <2>4. massages' \subseteq Massage /\ IsFiniteSet(massages')
    BY <1>3, <2>2, <2>3, FS_AddElement
  <2>5. TablesTyped' /\ Books'
    BY <1>3, <2>1, BeginStep DEF EndMassage, Starts
  <2> QED
    BY <2>4, <2>5
<1>5. CASE \E w \in Worker, m \in massages, a \in Amount : CorrectMassage(w, m, a)
  <2>1. PICK w \in Worker, m \in massages, a \in Amount : CorrectMassage(w, m, a)
    BY <1>5
  <2> DEFINE n == [m EXCEPT !.corrected = a, !.billing = "CORRECTED"]
  <2>2. n \in Massage
    BY <1>3, AmountAssumption DEF Massage, Numbers
  <2>3. massages' = (massages \ {m}) \cup {n}
    BY <2>1 DEF CorrectMassage
  <2> HIDE DEF n
  <2>4. massages' \subseteq Massage /\ IsFiniteSet(massages')
    BY <1>3, <2>2, <2>3, FS_AddElement, FS_RemoveElement
  <2>5. TablesTyped' /\ Books'
    BY <1>3, <2>1, BeginStep DEF CorrectMassage, Starts
  <2> QED
    BY <2>4, <2>5
<1>6. CASE \E m \in massages : ArchiveMassage(m)
  <2>1. PICK m \in massages : ArchiveMassage(m)
    BY <1>6
  <2>2. massages' \subseteq Massage /\ IsFiniteSet(massages')
    BY <1>3, <2>1, FS_RemoveElement DEF ArchiveMassage
  <2>3. TablesTyped' /\ Books'
    BY <1>3, <2>1, TablesRest, BooksRest DEF ArchiveMassage
  <2> QED
    BY <2>2, <2>3
<1> QED
  BY <1>4, <1>5, <1>6

LEMMA ShiftStep ==
  ASSUME PrimeInv,
         \/ \E w \in Worker, a \in Manual : AddBonus(w, a)
         \/ \E w \in Worker : Recalculate(w) \/ CloseShift(w)
         \/ DeleteShift
  PROVE  PrimeInv'
<1>1. TablesTyped /\ ShiftTyped /\ Books
  BY DEF PrimeInv
<1>2. CASE \E w \in Worker, a \in Manual : AddBonus(w, a)
  <2>1. PICK w \in Worker, a \in Manual : AddBonus(w, a)
    BY <1>2
  <2>2. shift' = [shift EXCEPT !.manual = @ + a] /\ massages' = massages
    BY <2>1 DEF AddBonus
  <2>3. shift \in ShiftRow /\ a \in Int
    BY <1>1, AmountAssumption DEF ShiftTyped
  <2>4. shift.manual + a \in Int
    BY <2>3 DEF ShiftRow
  <2>5. shift' \in ShiftRow
    BY <2>2, <2>3, <2>4 DEF ShiftRow
  <2>6. ShiftTyped'
    BY <1>1, <2>2, <2>5 DEF ShiftTyped, ShiftRow, Massage, Instant, Numbers
  <2>7. TablesTyped' /\ Books'
    BY <1>1, <2>1, BeginStep DEF AddBonus, Starts
  <2> QED
    BY <2>6, <2>7 DEF PrimeInv
<1>3. CASE \E w \in Worker : Recalculate(w) \/ CloseShift(w)
  <2>1. PICK w \in Worker : Recalculate(w) \/ CloseShift(w)
    BY <1>3
  <2>2. ShiftTyped'
    BY <1>1, <2>1, ShiftRests DEF Recalculate, CloseShift
  <2>3. TablesTyped' /\ Books'
    <3>1. CASE Recalculate(w)
      BY <1>1, <3>1, BeginStep DEF Recalculate, Starts
    <3>2. CASE CloseShift(w)
      BY <1>1, <3>2, BeginStep DEF CloseShift, Starts
    <3> QED
      BY <2>1, <3>1, <3>2
  <2> QED
    BY <2>2, <2>3 DEF PrimeInv
<1>4. CASE DeleteShift
  <2>1. shift' = [shift EXCEPT !.here = FALSE, !.manual = 0] /\ massages' = {}
    BY <1>4 DEF DeleteShift
  <2>2. ShiftTyped'
    <3> DEFINE gone == [shift EXCEPT !.here = FALSE]
    <3>a. gone \in ShiftRow
      BY <1>1 DEF ShiftTyped, ShiftRow
    <3>b. shift' = [gone EXCEPT !.manual = 0]
      BY <2>1
    <3> HIDE DEF gone
    <3>1. shift' \in ShiftRow
      BY <3>a, <3>b DEF ShiftRow
    <3> QED
      BY <2>1, <3>1, FS_EmptySet DEF ShiftTyped, ShiftRow, Numbers
  <2>3. TablesTyped' /\ Books'
    BY <1>1, <1>4, TablesRest, BooksRest DEF DeleteShift
  <2> QED
    BY <2>2, <2>3 DEF PrimeInv
<1> QED
  BY <1>2, <1>3, <1>4

LEMMA CallStep ==
  ASSUME PrimeInv, NEW w \in Worker,
         \/ Summarise(w) \/ SaveSummary(w) \/ Calculate(w) \/ CloseRow(w) \/ Lock(w) \/ Post(w)
  PROVE  PrimeInv'
<1>1. TablesTyped /\ ShiftTyped /\ Books /\ call[w] \in Call /\ shift \in ShiftRow
  BY DEF PrimeInv, Books, BooksTyped, ShiftTyped
<1>2. massages' = massages /\ UNCHANGED <<now, ruleVars>>
  BY DEF Summarise, SaveSummary, Calculate, CloseRow, Lock, Post, Proceed
<1>3. TablesTyped'
  BY <1>1, <1>2, TablesRest
<1>4. shift' \in ShiftRow => ShiftTyped'
  BY <1>1, <1>2 DEF ShiftTyped, ShiftRow, Massage, Instant, Numbers
<1>5. Idle \in Call /\ ~Chosen(Idle) /\ After(w) \in Call /\ ~Chosen(After(w))
  BY IdleIsCall, AfterIsQuiet DEF Idle, Chosen
<1>6. CASE Summarise(w)
  <2>1. call[w].at = "recalculate" /\ shift' = shift /\ UNCHANGED ledger
    BY <1>6 DEF Summarise, At
  <2>2. PICK c \in Call : ~Chosen(c) /\ Proceed(w, c)
    <3>1. CASE shift.here
      <4>1. PICK s \in Primes :
              Proceed(w, [call[w] EXCEPT !.at = "save", !.gross = s.gross, !.prime = s.prime])
        BY <1>6, <3>1 DEF Summarise
      <4> DEFINE c == [call[w] EXCEPT !.at = "save", !.gross = s.gross, !.prime = s.prime]
      <4>2. s.gross \in Int /\ s.prime \in Int
        BY <1>1, PrimesAreInt
      <4>3. c \in Call /\ ~Chosen(c)
        BY <1>1, <4>2 DEF Call, Chosen
      <4> QED
        BY <4>1, <4>3
    <3>2. CASE ~shift.here
      BY <1>5, <1>6, <3>2 DEF Summarise
    <3> QED
      BY <3>1, <3>2
  <2> QED
    BY <1>1, <1>4, <2>1, <2>2, GoesOn DEF PrimeInv
<1>7. CASE SaveSummary(w)
  <2> DEFINE c == [call[w] EXCEPT !.at = "sync", !.gross = 0, !.prime = 0]
  <2>1. call[w].at = "save" /\ UNCHANGED ledger /\ Proceed(w, IF shift.here THEN c ELSE Idle)
    BY <1>7 DEF SaveSummary, At
  <2>2. shift' \in ShiftRow
    BY <1>1, <1>7 DEF SaveSummary, ShiftRow, Call, Numbers
  <2> DEFINE d == [call[w] EXCEPT !.at = "sync"]
  <2> DEFINE e == [d EXCEPT !.gross = 0]
  <2>a. d \in Call /\ d.at = "sync"
    BY <1>1 DEF Call
  <2> HIDE DEF d
  <2>b. e \in Call /\ e.at = "sync"
    BY <2>a DEF Call
  <2>c. c = [e EXCEPT !.prime = 0]
    BY DEF d
  <2> HIDE DEF c, e
  <2>3. c \in Call /\ c.at = "sync"
    BY <2>b, <2>c DEF Call
  <2>4. ~Chosen(c)
    BY <2>3 DEF Chosen
  <2> QED
    BY <1>1, <1>4, <1>5, <2>1, <2>2, <2>3, <2>4, GoesOn DEF PrimeInv
<1>8. CASE Calculate(w)
  <2>1. call[w].at = "sync" /\ shift' = shift /\ UNCHANGED ledger
    BY <1>8 DEF Calculate, At
  <2>2. CASE ~shift.here
    <3>1. Proceed(w, After(w))
      BY <1>8, <2>2 DEF Calculate
    <3> QED
      BY <1>1, <1>4, <1>5, <2>1, <3>1, GoesOn DEF PrimeInv
  <2>3. CASE shift.here
    <3> DEFINE from == IF touched # {} THEN touched ELSE {assigned}
               c(s, t) == [call[w] EXCEPT !.at = "lock", !.prime = s.prime, !.till = t]
    <3>1. PICK s \in Primes, t \in from :
            Proceed(w, IF t # None THEN c(s, t) ELSE IF s.prime > 0 THEN Idle ELSE After(w))
      BY <1>8, <2>3 DEF Calculate
    <3>2. CASE t # None
      <4>1. t \in Till
        BY <1>1, <3>2 DEF Books, BooksTyped
      <4>2. s.prime \in Int
        BY <1>1, PrimesAreInt
      <4>3. c(s, t) \in Call /\ c(s, t).at = "lock" /\ c(s, t).till = t
        BY <1>1, <4>1, <4>2 DEF Call
      <4>4. Proceed(w, c(s, t))
        BY <3>1, <3>2
      <4> HIDE DEF c, from
      <4>5. t \in IF touched # {} THEN touched ELSE {assigned}
        BY DEF from
      <4>6. Books'
        BY <1>1, <2>1, <4>1, <4>3, <4>4, <4>5, ChosenCall DEF Proceed
      <4> QED
        BY <1>1, <1>3, <1>4, <2>1, <4>6 DEF PrimeInv
    <3>3. CASE t = None
      <4>1. Proceed(w, IF s.prime > 0 THEN Idle ELSE After(w))
        BY <3>1, <3>3
      <4> QED
        BY <1>1, <1>4, <1>5, <2>1, <4>1, GoesOn DEF PrimeInv
    <3> QED
      BY <3>2, <3>3
  <2> QED
    BY <2>2, <2>3
<1>9. CASE CloseRow(w)
  <2>1. call[w].at = "close" /\ UNCHANGED ledger /\ Proceed(w, Idle)
    BY <1>9 DEF CloseRow, At
  <2>2. shift' \in ShiftRow
    BY <1>1, <1>9 DEF CloseRow, ShiftRow
  <2> QED
    BY <1>1, <1>4, <1>5, <2>1, <2>2, GoesOn DEF PrimeInv
<1>10. CASE Lock(w)
  <2>1. shift' = shift
    BY <1>10 DEF Lock
  <2> QED
    BY <1>1, <1>3, <1>4, <1>10, <2>1, LockStep DEF PrimeInv
<1>11. CASE Post(w)
  <2>1. shift' = shift
    BY <1>11 DEF Post
  <2> QED
    BY <1>1, <1>3, <1>4, <1>11, <2>1, PostStep DEF PrimeInv
<1> QED
  BY <1>6, <1>7, <1>8, <1>9, <1>10, <1>11

LEMMA OwnerStep ==
  ASSUME PrimeInv, RulesChange, OnSettingsPage
  PROVE  PrimeInv'
<1>1. TablesTyped'
  BY RulesStep DEF PrimeInv, OnSettingsPage
<1>2. ShiftTyped'
  BY ShiftRests DEF PrimeInv, OnSettingsPage
<1>3. Books'
  BY BooksRest DEF PrimeInv, OnSettingsPage
<1> QED
  BY <1>1, <1>2, <1>3 DEF PrimeInv

LEMMA TickStep ==
  ASSUME PrimeInv, Tick
  PROVE  PrimeInv'
<1>1. TablesTyped'
  BY AmountAssumption DEF PrimeInv, Tick, TablesTyped, ruleVars, Instant, RuleRow, BonusRow, Draft, Forever
<1>2. ShiftTyped'
  BY ShiftRests DEF PrimeInv, Tick
<1>3. Books'
  BY BooksRest DEF PrimeInv, Tick
<1> QED
  BY <1>1, <1>2, <1>3 DEF PrimeInv

LEMMA PrimeStep == PrimeInv /\ [Next]_vars => PrimeInv'
<1> SUFFICES ASSUME PrimeInv, [Next]_vars PROVE PrimeInv'
  OBVIOUS
<1>1. CASE \/ \E w \in Worker, p \in Profile : EndMassage(w, p)
           \/ \E w \in Worker, m \in massages, a \in Amount : CorrectMassage(w, m, a)
           \/ \E m \in massages : ArchiveMassage(m)
  BY <1>1, MassagesStep
<1>2. CASE \/ \E w \in Worker, a \in Manual : AddBonus(w, a)
           \/ \E w \in Worker : Recalculate(w) \/ CloseShift(w)
           \/ DeleteShift
  BY <1>2, ShiftStep
<1>3. CASE \E t \in Till \cup {None} : Reassign(t)
  <2>1. PICK t \in Till \cup {None} : Reassign(t)
    BY <1>3
  <2>2. TablesTyped' /\ ShiftTyped'
    BY <2>1, TablesRest, ShiftRests DEF PrimeInv, Reassign
  <2>3. Books'
    BY <2>1, BooksMove DEF PrimeInv
  <2> QED
    BY <2>2, <2>3 DEF PrimeInv
<1>4. CASE RulesChange /\ OnSettingsPage
  BY <1>4, OwnerStep
<1>5. CASE Tick
  BY <1>5, TickStep
<1>6. CASE \E w \in Worker : \/ Summarise(w) \/ SaveSummary(w) \/ Calculate(w)
                            \/ CloseRow(w) \/ Lock(w) \/ Post(w)
  BY <1>6, CallStep
<1>7. CASE UNCHANGED vars
  <2>1. TablesTyped' /\ ShiftTyped'
    BY <1>7, TablesRest, ShiftRests DEF PrimeInv, vars
  <2>2. Books'
    BY <1>7, BooksRest DEF PrimeInv, vars
  <2> QED
    BY <2>1, <2>2 DEF PrimeInv
<1> QED
  BY <1>1, <1>2, <1>3, <1>4, <1>5, <1>6, <1>7 DEF Next, RulesChange

\* Every state of the shift and of its tills satisfies the invariant, whatever
\* the tills, the requests served at a time and the rules of the owner are: the
\* rows have values of their kinds, a till is locked by the request that is
\* about to post to it, and what that request read under the lock stays true
\* (syncShiftPrimeDeduction).
THEOREM PrimeInvariant == Spec => []PrimeInv
BY PrimeInit, PrimeStep, PTL DEF Spec

\* A request that answers at the end of its transaction has posted what it
\* calculated, unless the tills keep what they had.
LEMMA PostsAreExact ==
  ASSUME PrimeInv, [Next]_vars, NEW w \in Worker, ~world.reassign, Taken' # Taken,
         call[w].at = "post", call'[w].at # "post"
  PROVE  Taken' = call[w].prime
<1>1. net' # net
  BY DEF Taken
<1>2. PICK u \in Worker : Post(u)
  <2>1. ~UNCHANGED vars
    BY <1>1 DEF vars, ledger
  <2>2. UNCHANGED ledger => net' = net
    BY DEF ledger
  <2>3. CASE \/ \E v \in Worker, p \in Profile : EndMassage(v, p)
             \/ \E v \in Worker, m \in massages, a \in Amount : CorrectMassage(v, m, a)
             \/ \E m \in massages : ArchiveMassage(m)
             \/ \E v \in Worker, a \in Manual : AddBonus(v, a)
             \/ \E v \in Worker : Recalculate(v) \/ CloseShift(v)
             \/ DeleteShift
    BY <1>1, <2>2, <2>3 DEF EndMassage, CorrectMassage, ArchiveMassage, AddBonus, Recalculate,
       CloseShift, DeleteShift, Begin
  <2>4. CASE (\E t \in Till \cup {None} : Reassign(t)) \/ (RulesChange /\ OnSettingsPage) \/ Tick
    BY <1>1, <2>2, <2>4 DEF Reassign, OnSettingsPage, Tick
  <2>5. CASE \E v \in Worker : Summarise(v) \/ SaveSummary(v) \/ Calculate(v) \/ CloseRow(v) \/ Lock(v)
    BY <1>1, <2>2, <2>5 DEF Summarise, SaveSummary, Calculate, CloseRow, Lock
  <2>6. CASE \E v \in Worker : Post(v)
    BY <2>6
  <2> QED
    BY <2>1, <2>3, <2>4, <2>5, <2>6 DEF Next, RulesChange
<1>3. Books
  BY DEF PrimeInv
<1>4. call' = [call EXCEPT ![u] = After(u)] /\ call \in [Worker -> Call]
  BY <1>2, <1>3 DEF Post, Proceed, Books, BooksTyped
<1>5. w = u
  BY <1>4
<1> QED
  BY <1>2, <1>3, <1>5, PostAdds

LEMMA OneTillAtMost == PrimeInv => OneTillPerPrime
<1> SUFFICES ASSUME PrimeInv, Cardinality(world.workers) = 1 PROVE Cardinality(touched) <= 1
  BY DEF OneTillPerPrime
<1>1. world.workers \subseteq Worker
  <2>1. world \in [workers: SUBSET Worker, reassign: BOOLEAN, settings: BOOLEAN,
                   edits: BOOLEAN, ops: Nat]
    BY Zenon, WorldAssumption DEF PrimeInv, Books, BooksTyped, WorldAssumption
  <2> QED
    BY <2>1
<1>2. IsFiniteSet(world.workers)
  BY <1>1, ServedAssumption, FS_Subset
<1>3. PICK v : world.workers = {v}
  BY <1>2, FS_Singleton
<1>4. \A t, u \in touched : t = u
  BY <1>1, <1>3 DEF PrimeInv, Books, OneServed
<1>5. CASE touched = {}
  BY <1>5, FS_EmptySet
<1>6. CASE touched # {}
  <2>1. PICK t \in touched : TRUE
    BY <1>6
  <2>2. touched = {t}
    BY <1>4, <2>1
  <2>3. Cardinality(touched) = 1
    BY <2>2, FS_Singleton
  <2> QED
    BY <2>3
<1> QED
  BY <1>5, <1>6

\* The prime of a shift is taken once, for any tills, requests, rules and
\* amounts: two syncs never add their deductions up while the staff keeps its
\* till, and with one request at a time the prime is never split over two
\* tills.  The second read of the movements, under the lock of the till
\* (cash.service.ts, syncShiftPrimeDeduction), is what the proof rests on.
THEOREM PrimeIsTakenOnce == Spec => PrimeTakenOnce
<1>1. PrimeInv /\ [Next]_vars =>
        [\A w \in Worker : ~world.reassign /\ Taken' # Taken /\ At(w, "post") /\ ~At(w, "post")'
            => Taken' = call[w].prime]_vars
  BY PostsAreExact DEF At
<1> QED
  BY <1>1, PrimeInvariant, OneTillAtMost, PTL DEF Spec, PrimeTakenOnce, DeductionsNeverAddUp

-----------------------------------------------------------------------------
(***************************************************************************)
(* Sums again, for the page: a sum is that of its parts, in whatever order *)
(* CHOOSE picks the members, and is the sum of its groups.                 *)
(***************************************************************************)

\* g is the sum of f over each part of S, whichever member is added last.
Adds(g, f, S) ==
  /\ g \in [SUBSET S -> Int]
  /\ g[{}] = 0
  /\ \A s \in SUBSET S : \A t \in s : g[s] = f[t] + g[s \ {t}]

LEMMA AnyOrder ==
  ASSUME NEW S, IsFiniteSet(S), NEW f \in [S -> Int],
         NEW g \in [SUBSET S -> Int], Unfolds(g, f, S)
  PROVE  Adds(g, f, S)
<1> DEFINE Right(s) == \A t \in s : g[s] = f[t] + g[s \ {t}]
           Wrong == {s \in SUBSET S : ~Right(s)}
           Sizes == {Cardinality(s) : s \in Wrong}
<1>1. ASSUME NEW s \in SUBSET S PROVE g[s] = Value(f, g, s)
  BY DEF Unfolds
<1>2. ASSUME Wrong # {} PROVE FALSE
  <2>1. \A s \in SUBSET S : Cardinality(s) \in Nat
    BY FS_Subset, FS_CardinalityType
  <2>2. Sizes \in SUBSET Nat /\ Sizes # {}
    BY <1>2, <2>1
  <2>3. PICK n \in Sizes : \A m \in Sizes : n <= m
    <3> HIDE DEF Sizes
    <3> QED
      BY <2>2, LeastNumber
  <2>4. PICK s \in Wrong : Cardinality(s) = n
    BY <2>3
  <2>5. PICK t \in s : g[s] # f[t] + g[s \ {t}]
    BY <2>4
  <2> DEFINE x == Pick(s)
             u == s \ {x}
  <2>6. s \in SUBSET S /\ s # {} /\ t \in S
    BY <2>4, <2>5
  <2>7. x \in s /\ u \in SUBSET S /\ Cardinality(u) = n - 1 /\ n \in Nat
    BY <2>4, <2>6, Smaller
  <2>8. g[s] = f[x] + g[u]
    BY <1>1, <2>6 DEF Value
  <2>9. u \notin Wrong
    <3>1. u \in Wrong => Cardinality(u) \in Sizes
      OBVIOUS
    <3> HIDE DEF Wrong, Sizes, u
    <3> QED
      BY <2>3, <2>7, <3>1
  <2>10. x # t
    BY <2>5, <2>8
  <2>11. t \in u /\ g[u] = f[t] + g[u \ {t}]
    BY <2>7, <2>9, <2>10, <2>5
  <2> DEFINE v == s \ {t}
  <2>12. v \in SUBSET S /\ Cardinality(v) = n - 1 /\ x \in v
    <3>1. IsFiniteSet(s)
      BY <2>6, FS_Subset
    <3> QED
      BY <2>4, <2>5, <2>6, <2>7, <2>10, <3>1, FS_RemoveElement
  <2>13. v \notin Wrong
    <3>1. v \in Wrong => Cardinality(v) \in Sizes
      OBVIOUS
    <3> HIDE DEF Wrong, Sizes, v
    <3> QED
      BY <2>3, <2>7, <2>12, <3>1
  <2>14. g[v] = f[x] + g[v \ {x}]
    BY <2>12, <2>13
  <2>15. v \ {x} = u \ {t}
    OBVIOUS
  <2>16. f[x] \in Int /\ f[t] \in Int /\ g[u \ {t}] \in Int
    BY <2>6, <2>7
  <2>17. g[s] # f[t] + g[v]
    BY <2>5
  <2>18. g[v] = f[x] + g[u \ {t}]
    BY <2>14, <2>15
  <2> DEFINE r == g[u \ {t}]
             a == f[x]
             b == f[t]
  <2>19. g[s] = a + (b + r) /\ g[s] # b + (a + r) /\ a \in Int /\ b \in Int /\ r \in Int
    BY <2>8, <2>11, <2>16, <2>17, <2>18
  <2> HIDE DEF x, u, v, a, b, r
  <2> QED
    BY <2>19
<1>3. \A s \in SUBSET S : Right(s)
  BY <1>2
<1>4. g[{}] = 0
  BY <1>1 DEF Value
<1> QED
  BY <1>3, <1>4 DEF Adds

LEMMA SumsAreAdded ==
  ASSUME NEW S, IsFiniteSet(S), NEW f \in [S -> Int]
  PROVE  \E g : Adds(g, f, S)
<1>1. PICK g \in [SUBSET S -> Int] : Unfolds(g, f, S)
  BY SumsExist
<1> QED
  BY <1>1, AnyOrder

\* What a fold over a part of S comes to.
LEMMA FoldIs ==
  ASSUME NEW S, IsFiniteSet(S), NEW f \in [S -> Int], NEW g, Adds(g, f, S),
         NEW D \in SUBSET S, NEW e \in [D -> Int], \A i \in D : e[i] = f[i],
         NEW h, Unfolds(h, e, D)
  PROVE  h[D] = g[D]
<1> DEFINE Wrong == {s \in SUBSET D : h[s] # g[s]}
           Sizes == {Cardinality(s) : s \in Wrong}
<1>1. IsFiniteSet(D)
  BY FS_Subset
<1>2. ASSUME NEW s \in SUBSET D PROVE h[s] = Value(e, h, s)
  BY DEF Unfolds
<1>3. ASSUME Wrong # {} PROVE FALSE
  <2>1. \A s \in SUBSET D : Cardinality(s) \in Nat
    BY <1>1, FS_Subset, FS_CardinalityType
  <2>2. Sizes \in SUBSET Nat /\ Sizes # {}
    BY <1>3, <2>1
  <2>3. PICK n \in Sizes : \A m \in Sizes : n <= m
    <3> HIDE DEF Sizes
    <3> QED
      BY <2>2, LeastNumber
  <2>4. PICK s \in Wrong : Cardinality(s) = n
    BY <2>3
  <2>5. s \in SUBSET D /\ h[s] # g[s]
    BY <2>4
  <2>6. s # {}
    <3>1. h[{}] = 0
      BY <1>2 DEF Value
    <3> QED
      BY <2>5, <3>1 DEF Adds
  <2> DEFINE x == Pick(s)
             u == s \ {x}
  <2>7. x \in s /\ u \in SUBSET D /\ Cardinality(u) = n - 1 /\ n \in Nat
    BY <1>1, <2>4, <2>5, <2>6, Smaller
  <2>8. h[s] = e[x] + h[u]
    BY <1>2, <2>5, <2>6 DEF Value
  <2>9. u \notin Wrong
    BY <2>3, <2>7
  <2>10. h[u] = g[u] /\ e[x] = f[x]
    BY <2>5, <2>7, <2>9
  <2>11. g[s] = f[x] + g[u]
    BY <2>5, <2>7 DEF Adds
  <2> HIDE DEF x, u
  <2> QED
    BY <2>5, <2>8, <2>10, <2>11
<1>4. D \notin Wrong
  BY <1>3
<1> QED
  BY <1>4

LEMMA SumsAre ==
  ASSUME NEW S, IsFiniteSet(S), NEW f \in [S -> Int], NEW g, Adds(g, f, S),
         NEW D \in SUBSET S, NEW e \in [D -> Int], \A i \in D : e[i] = f[i]
  PROVE  Sums(e, D)[D] = g[D]
<1>1. IsFiniteSet(D)
  BY FS_Subset
<1>2. Unfolds(Sums(e, D), e, D)
  BY <1>1, SumsExist DEF Sums
<1> QED
  BY <1>2, FoldIs

\* The sum over two parts that have nothing in common.
LEMMA SumOfParts ==
  ASSUME NEW S, IsFiniteSet(S), NEW f \in [S -> Int], NEW g, Adds(g, f, S),
         NEW A \in SUBSET S, NEW B \in SUBSET S, A \cap B = {}
  PROVE  g[A \cup B] = g[A] + g[B]
<1> DEFINE Right(s) == g[A \cup s] = g[A] + g[s]
           Wrong == {s \in SUBSET B : ~Right(s)}
           Sizes == {Cardinality(s) : s \in Wrong}
<1>1. IsFiniteSet(B) /\ g \in [SUBSET S -> Int]
  BY FS_Subset DEF Adds
<1>2. ASSUME Wrong # {} PROVE FALSE
  <2>1. \A s \in SUBSET B : Cardinality(s) \in Nat
    BY <1>1, FS_Subset, FS_CardinalityType
  <2>2. Sizes \in SUBSET Nat /\ Sizes # {}
    BY <1>2, <2>1
  <2>3. PICK n \in Sizes : \A m \in Sizes : n <= m
    <3> HIDE DEF Sizes
    <3> QED
      BY <2>2, LeastNumber
  <2>4. PICK s \in Wrong : Cardinality(s) = n
    BY <2>3
  <2>5. s \in SUBSET B /\ g[A \cup s] # g[A] + g[s]
    BY <2>4
  <2>6. s # {}
    <3>1. A \cup {} = A
      OBVIOUS
    <3>2. g[{}] = 0 /\ g[A] \in Int
      BY <1>1 DEF Adds
    <3>3. CASE s = {}
      BY <2>5, <3>1, <3>2, <3>3
    <3> QED
      BY <3>3
  <2> DEFINE x == Pick(s)
             u == s \ {x}
  <2>7. x \in s /\ u \in SUBSET B /\ Cardinality(u) = n - 1 /\ n \in Nat
    BY <1>1, <2>4, <2>5, <2>6, Smaller
  <2>8. u \notin Wrong
    <3>1. u \in Wrong => Cardinality(u) \in Sizes
      OBVIOUS
    <3> HIDE DEF Wrong, Sizes, u
    <3> QED
      BY <2>3, <2>7, <3>1
  <2>9. g[A \cup u] = g[A] + g[u]
    BY <2>7, <2>8
  <2>10. x \in S /\ x \in A \cup s /\ A \cup s \in SUBSET S /\ s \in SUBSET S
    BY <2>5, <2>7
  <2>11. (A \cup s) \ {x} = A \cup u
    BY <2>5, <2>7
  <2>12. g[A \cup s] = f[x] + g[A \cup u]
    <3> DEFINE q == A \cup s
    <3>1. q \in SUBSET S /\ x \in q /\ q \ {x} = A \cup u
      BY <2>10, <2>11
    <3> HIDE DEF q, u
    <3>2. g[q] = f[x] + g[q \ {x}]
      BY <3>1 DEF Adds
    <3>3. g[q] = f[x] + g[A \cup u]
      BY <3>1, <3>2
    <3> QED
      BY <3>3 DEF q
  <2>13. g[s] = f[x] + g[u]
    BY <2>7, <2>10 DEF Adds
  <2>14. f[x] \in Int /\ g[A] \in Int /\ g[u] \in Int
    BY <1>1, <2>7, <2>10
  <2> DEFINE a == f[x]
             b == g[A]
             c == g[u]
  <2>15. a + (b + c) # b + (a + c) /\ a \in Int /\ b \in Int /\ c \in Int
    BY <2>5, <2>9, <2>12, <2>13, <2>14
  <2> HIDE DEF x, u, a, b, c
  <2> QED
    BY <2>15
<1>3. B \notin Wrong
  BY <1>2
<1> QED
  BY <1>3

\* Functions that are equal on a part have the same sum there.
LEMMA SameSum ==
  ASSUME NEW S, IsFiniteSet(S), NEW f \in [S -> Int], NEW g, Adds(g, f, S),
         NEW e \in [S -> Int], NEW h, Adds(h, e, S),
         NEW D \in SUBSET S, \A i \in D : e[i] = f[i]
  PROVE  h[D] = g[D]
<1> DEFINE r == [i \in D |-> f[i]]
<1>1. r \in [D -> Int] /\ \A i \in D : r[i] = f[i] /\ r[i] = e[i]
  OBVIOUS
<1> HIDE DEF r
<1> QED
  BY <1>1, SumsAre

LEMMA NothingSums ==
  ASSUME NEW S, IsFiniteSet(S), NEW f \in [S -> Int], NEW g, Adds(g, f, S),
         NEW D \in SUBSET S, \A i \in D : f[i] = 0
  PROVE  g[D] = 0
<1> DEFINE e == [i \in S |-> 0]
           h == [s \in SUBSET S |-> 0]
<1>1. e \in [S -> Int] /\ h \in [SUBSET S -> Int] /\ h[{}] = 0
  OBVIOUS
<1>2. \A s \in SUBSET S : \A t \in s : h[s] = e[t] + h[s \ {t}]
  OBVIOUS
<1>3. h[D] = 0 /\ \A i \in D : e[i] = f[i]
  OBVIOUS
<1> HIDE DEF e, h
<1>4. Adds(h, e, S)
  BY <1>1, <1>2 DEF Adds
<1> QED
  BY <1>1, <1>3, <1>4, SameSum

\* Adding up by groups: key says to which group a member belongs.
Group(D, key, k) == {i \in D : key[i] = k}
Grouped(D, key, K) == {i \in D : key[i] \in K}

LEMMA SumByGroups ==
  ASSUME NEW S, IsFiniteSet(S), NEW f \in [S -> Int], NEW g, Adds(g, f, S),
         NEW D \in SUBSET S, NEW key, NEW K, IsFiniteSet(K),
         NEW e \in [K -> Int], \A k \in K : e[k] = g[Group(D, key, k)]
  PROVE  Sums(e, K)[K] = g[Grouped(D, key, K)]
<1> DEFINE In(T) == Grouped(D, key, T)
<1>1. g \in [SUBSET S -> Int] /\ g[{}] = 0
  BY DEF Adds
<1>2. PICK h : Adds(h, e, K)
  BY SumsAreAdded
<1> DEFINE Right(T) == h[T] = g[In(T)]
           Wrong == {T \in SUBSET K : ~Right(T)}
           Sizes == {Cardinality(T) : T \in Wrong}
<1>3. ASSUME Wrong # {} PROVE FALSE
  <2>1. \A T \in SUBSET K : Cardinality(T) \in Nat
    BY FS_Subset, FS_CardinalityType
  <2>2. Sizes \in SUBSET Nat /\ Sizes # {}
    <3> HIDE DEF Right
    <3> QED
      BY <1>3, <2>1
  <2>3. PICK n \in Sizes : \A m \in Sizes : n <= m
    <3> HIDE DEF Sizes
    <3> QED
      BY <2>2, LeastNumber
  <2>4. PICK T \in Wrong : Cardinality(T) = n
    BY <2>3
  <2>5. T \in SUBSET K /\ h[T] # g[In(T)]
    BY <2>4
  <2>6. T # {}
    <3>1. In({}) = {}
      BY DEF Grouped
    <3>2. h[{}] = 0
      BY <1>2 DEF Adds
    <3> HIDE DEF In
    <3>3. CASE T = {}
      BY <1>1, <2>5, <3>1, <3>2, <3>3
    <3> QED
      BY <3>3
  <2> DEFINE x == Pick(T)
             u == T \ {x}
             one == Group(D, key, x)
  <2>7. x \in T /\ u \in SUBSET K /\ Cardinality(u) = n - 1 /\ n \in Nat
    BY <2>4, <2>5, <2>6, Smaller
  <2>8. u \notin Wrong
    <3>1. u \in Wrong => Cardinality(u) \in Sizes
      OBVIOUS
    <3> HIDE DEF Wrong, Sizes, u
    <3> QED
      BY <2>3, <2>7, <3>1
  <2>9. h[u] = g[In(u)]
    BY <2>7, <2>8
  <2>10. one \in SUBSET S /\ In(u) \in SUBSET S /\ one \cap In(u) = {} /\ In(T) = one \cup In(u)
    BY <2>7 DEF Group, Grouped
  <2>11. g[In(T)] = g[one] + g[In(u)]
    <3> HIDE DEF one, In, u
    <3> QED
      BY <2>10, SumOfParts
  <2>12. e[x] = g[one]
    BY <2>5, <2>7
  <2>13. h[T] = e[x] + h[u]
    BY <1>2, <2>5, <2>7 DEF Adds
  <2> HIDE DEF x, u, one, In
  <2> QED
    BY <2>5, <2>9, <2>11, <2>12, <2>13
<1>4. K \notin Wrong
  BY <1>3
<1>5. h[K] = g[In(K)]
  BY <1>4
<1>6. Sums(e, K)[K] = h[K]
  BY <1>2, SumsAre
<1> QED
  BY <1>5, <1>6

LEMMA SumIsNat ==
  ASSUME NEW S, IsFiniteSet(S), NEW f \in [S -> Int], NEW g, Adds(g, f, S),
         NEW D \in SUBSET S, \A i \in D : f[i] >= 0
  PROVE  g[D] \in Nat
<1> DEFINE Wrong == {s \in SUBSET D : g[s] \notin Nat}
           Sizes == {Cardinality(s) : s \in Wrong}
<1>1. IsFiniteSet(D) /\ g[{}] = 0
  BY FS_Subset DEF Adds
<1>2. ASSUME Wrong # {} PROVE FALSE
  <2>1. \A s \in SUBSET D : Cardinality(s) \in Nat
    BY <1>1, FS_Subset, FS_CardinalityType
  <2>2. Sizes \in SUBSET Nat /\ Sizes # {}
    BY <1>2, <2>1
  <2>3. PICK n \in Sizes : \A m \in Sizes : n <= m
    <3> HIDE DEF Sizes
    <3> QED
      BY <2>2, LeastNumber
  <2>4. PICK s \in Wrong : Cardinality(s) = n
    BY <2>3
  <2>5. s \in SUBSET D /\ s # {} /\ g[s] \notin Nat
    BY <1>1, <2>4
  <2> DEFINE x == Pick(s)
             u == s \ {x}
  <2>6. x \in s /\ u \in SUBSET D /\ Cardinality(u) = n - 1 /\ n \in Nat
    BY <1>1, <2>4, <2>5, Smaller
  <2>7. u \notin Wrong
    <3>1. u \in Wrong => Cardinality(u) \in Sizes
      OBVIOUS
    <3> HIDE DEF Wrong, Sizes, u
    <3> QED
      BY <2>3, <2>6, <3>1
  <2>8. g[s] = f[x] + g[u]
    BY <2>5, <2>6 DEF Adds
  <2>9. g[u] \in Nat /\ f[x] \in Int /\ f[x] >= 0
    BY <2>5, <2>6, <2>7
  <2> HIDE DEF x, u
  <2> QED
    BY <2>5, <2>8, <2>9
<1>3. D \notin Wrong
  BY <1>2
<1> QED
  BY <1>3

-----------------------------------------------------------------------------
(***************************************************************************)
(* The page keeps its types. What a function under way has read is as its  *)
(* step says, and an order is under way only in a function that posts one. *)
(***************************************************************************)

Ordering == {"post", "posted", "refused"}
CalmSteps == {"idle", "accounts", "movements", "listed", "history"}

AccountsRead == [date: Nat, balance: [PageTill -> Int], holder: [PageTill -> Holder], at: Nat]
HistoryRead(f) == [todo: SUBSET Page!Reads(f), total: Nat, items: SUBSET Nat,
                   at: Nat \cup {None}, quiet: BOOLEAN]
Tally == [opened: Nat, told: Nat, posted: Nat, troubles: Nat]

Shaped(t) ==
  /\ t = [step |-> t.step, order |-> t.order, next |-> t.next, filters |-> t.filters,
          got |-> t.got]
  /\ t.step \in Ordering \cup CalmSteps
  /\ t.order \in OrderSet \cup {None} /\ t.next \in Nat /\ t.filters \in Page!Filter
  /\ t.step \in Ordering => t.order # None
  /\ t.step = "idle" => t.order = None

GotTyped(t) ==
  /\ t.step = "movements" => t.got \in AccountsRead
  /\ t.step = "listed" => t.got \in ListSet
  /\ t.step = "history" => /\ t.next # 0
                           /\ t.got \in HistoryRead(t.filters) /\ IsFiniteSet(t.got.items)
                           /\ t.got.at = None => t.got.todo # {}

TaskTyped(t) == Shaped(t) /\ GotTyped(t)

Tasks == task = [k \in Task |-> task[k]] /\ \A k \in Task : TaskTyped(task[k])

BookTyped ==
  /\ book \in Seq(Page!Movement)
  /\ \A i \in DOMAIN book : book[i].type = "WITHDRAWAL" => book[i].amount <= 0
  /\ today \in Nat
  /\ holder \in [PageTill -> Holder]

ScreenTyped ==
  /\ list \in ListSet \cup {None}
  /\ history \in Page!HistoryPage \cup {None}
  /\ form \in Page!Filter
  /\ showHistory \in BOOLEAN /\ historyLoading \in BOOLEAN
  /\ page \in Nat \ {0}

OwnerTyped ==
  /\ dialog \in DialogSet \cup {None}
  /\ busy \in BOOLEAN
  /\ late \subseteq OrderSet /\ IsFiniteSet(late)
  /\ tally \in Tally

PageTyped == pageWorld \in PageWorld /\ BookTyped /\ ScreenTyped /\ OwnerTyped /\ Tasks

LEMMA PageCardinality == ASSUME NEW S PROVE Page!Cardinality(S) = Cardinality(S)
BY ZenonT(30) DEF Page!Cardinality, Cardinality

LEMMA TaskSet ==
  ASSUME Tasks, NEW k \in Task, NEW t, TaskTyped(t), task' = [task EXCEPT ![k] = t]
  PROVE  Tasks'
<1>1. task' = [m \in Task |-> task'[m]] /\ \A m \in Task : task'[m] = IF m = k THEN t ELSE task[m]
  BY DEF Tasks
<1> QED
  BY <1>1 DEF Tasks

LEMMA NoFilterIs == Page!NoFilter \in Page!Filter
BY DEF Page!NoFilter, Page!Filter

LEMMA IdleTyped == TaskTyped(Page!Idle)
BY NoFilterIs DEF Page!Idle, TaskTyped, Shaped, GotTyped, Ordering, CalmSteps

LEMMA ReadsAre ==
  ASSUME NEW f \in Page!Filter
  PROVE  Page!Reads(f) # {}
<1>1. CASE Page!SingleDay(f)
  BY <1>1 DEF Page!Reads
<1>2. CASE ~Page!SingleDay(f)
  <2>1. ~(Cardinality(Page!DaysAsked(f)) <= 1)
    BY <1>2, PageCardinality DEF Page!SingleDay
  <2>2. Page!DaysAsked(f) # {}
    BY <2>1, FS_EmptySet
  <2> QED
    BY <1>2, <2>2 DEF Page!Reads
<1> QED
  BY <1>1, <1>2

LEMMA LoadingTyped ==
  ASSUME NEW t, Shaped(t), t.next # 0
  PROVE  /\ TaskTyped(Page!Loading(t))
         /\ Page!Loading(t) = [step |-> "history", order |-> t.order, next |-> t.next,
                               filters |-> t.filters, got |-> Page!NothingRead(t.filters)]
<1> DEFINE g == Page!NothingRead(t.filters)
           u == [step |-> "history", order |-> t.order, next |-> t.next,
                 filters |-> t.filters, got |-> g]
<1>1. t = [step |-> t.step, order |-> t.order, next |-> t.next, filters |-> t.filters,
           got |-> t.got]
  BY DEF Shaped
<1>2. Page!Loading(t) = u
  <2>1. Page!Loading(t) = [[step |-> t.step, order |-> t.order, next |-> t.next,
                            filters |-> t.filters, got |-> t.got] EXCEPT !.step = "history", !.got = g]
    BY <1>1 DEF Page!Loading
  <2> HIDE DEF g
  <2> QED
    BY <2>1
<1>3. t.filters \in Page!Filter
  BY DEF Shaped
<1>4. g \in HistoryRead(t.filters) /\ g.todo # {} /\ IsFiniteSet(g.items)
  BY <1>3, ReadsAre, FS_EmptySet DEF HistoryRead, Page!NothingRead
<1> HIDE DEF g
<1>5. Shaped(u) /\ GotTyped(u)
  <2>1. u.step = "history" /\ u.order = t.order /\ u.next = t.next /\ u.filters = t.filters
        /\ u.got = g
    OBVIOUS
  <2>2. GotTyped(u)
    <3> HIDE DEF u
    <3> QED
      BY <1>4, <2>1 DEF GotTyped
  <2>3. Shaped(u)
    BY <2>1 DEF Shaped, Ordering, CalmSteps
  <2> QED
    BY <2>2, <2>3
<1> QED
  <2>1. TaskTyped(u)
    BY <1>5 DEF TaskTyped
  <2> HIDE DEF u
  <2>2. TaskTyped(Page!Loading(t))
    BY <1>2, <2>1
  <2> QED
    BY <1>2, <2>2 DEF u, g

LEMMA RunningTyped ==
  ASSUME NEW s \in {"post", "accounts", "history"}, NEW o \in OrderSet \cup {None}, NEW n \in Nat,
         NEW f \in Page!Filter, s = "post" => o # None
  PROVE  /\ Shaped(Page!Running(s, o, n, f))
         /\ s # "history" => TaskTyped(Page!Running(s, o, n, f))
BY DEF Page!Running, TaskTyped, Shaped, GotTyped, Ordering, CalmSteps

LEMMA EndOfTyped ==
  ASSUME PageTyped, NEW k \in Task, Page!EndOf(k)
  PROVE  Tasks' /\ busy' \in BOOLEAN
<1>1. Tasks'
  BY TaskSet, IdleTyped DEF PageTyped, Page!EndOf
<1>2. busy' \in BOOLEAN
  BY DEF PageTyped, OwnerTyped, Page!EndOf
<1> QED
  BY <1>1, <1>2

LEMMA AfterListTyped ==
  ASSUME PageTyped, NEW k \in Task, Page!AfterList(k)
  PROVE  Tasks' /\ busy' \in BOOLEAN /\ historyLoading' \in BOOLEAN /\ page' \in Nat \ {0}
<1>1. CASE task[k].next > 0
  <2>1. TaskTyped(Page!Loading(task[k]))
    BY <1>1, LoadingTyped DEF PageTyped, Tasks, TaskTyped
  <2>2. task' = [task EXCEPT ![k] = Page!Loading(task[k])]
    BY <1>1 DEF Page!AfterList
  <2>3. Tasks'
    BY <2>1, <2>2, TaskSet DEF PageTyped
  <2> QED
    BY <1>1, <2>3 DEF Page!AfterList, PageTyped, OwnerTyped, ScreenTyped
<1>2. CASE ~(task[k].next > 0)
  BY <1>2, EndOfTyped DEF Page!AfterList, PageTyped, OwnerTyped, ScreenTyped
<1> QED
  BY <1>1, <1>2

BookSet == Seq(Page!Movement)
Amounts(b) == [i \in DOMAIN b |-> b[i].amount]
BookSum(b) == CHOOSE g : Adds(g, Amounts(b), DOMAIN b)

LEMMA BookIs ==
  ASSUME NEW b \in BookSet
  PROVE  /\ DOMAIN b = 1 .. Len(b) /\ Len(b) \in Nat /\ IsFiniteSet(DOMAIN b)
         /\ \A i \in DOMAIN b : b[i] \in Page!Movement
         /\ Amounts(b) \in [DOMAIN b -> Int]
         /\ Adds(BookSum(b), Amounts(b), DOMAIN b)
<1>1. DOMAIN b = 1 .. Len(b) /\ Len(b) \in Nat /\ \A i \in DOMAIN b : b[i] \in Page!Movement
  BY DEF BookSet
<1>2. IsFiniteSet(DOMAIN b)
  BY <1>1, FS_Interval
<1>3. Amounts(b) \in [DOMAIN b -> Int]
  BY <1>1 DEF Amounts, Page!Movement
<1>4. \E g : Adds(g, Amounts(b), DOMAIN b)
  BY <1>2, <1>3, SumsAreAdded
<1> QED
  BY <1>1, <1>2, <1>3, <1>4 DEF BookSum

LEMMA SumOverIs ==
  ASSUME NEW b \in BookSet, NEW S \in SUBSET DOMAIN b
  PROVE  Page!SumOver(b, S) = BookSum(b)[S] /\ BookSum(b)[S] \in Int
<1> DEFINE h == [i \in S |-> b[i].amount]
           Folds(g) == g = [s \in SUBSET S |-> IF s = {} THEN 0 ELSE b[Pick(s)].amount + g[s \ {Pick(s)}]]
           fold == CHOOSE g : Folds(g)
<1>1. h \in [S -> Int] /\ \A i \in S : h[i] = Amounts(b)[i]
  BY BookIs DEF Amounts
<1>2. IsFiniteSet(S)
  BY BookIs, FS_Subset
<1>3. ASSUME NEW g PROVE Folds(g) <=> Unfolds(g, h, S)
  <2>1. ASSUME NEW s \in SUBSET S, s # {} PROVE h[Pick(s)] = b[Pick(s)].amount
    BY <1>2, <2>1, Smaller
  <2>2. ASSUME NEW s \in SUBSET S
        PROVE  Value(h, g, s) = IF s = {} THEN 0 ELSE b[Pick(s)].amount + g[s \ {Pick(s)}]
    BY <2>1 DEF Value
  <2> HIDE DEF h
  <2> QED
    BY <2>2 DEF Unfolds
<1>4. Page!SumOver(b, S) = fold[S]
  BY DEF Page!SumOver, Page!MapThenSumSet, Page!MapThenFoldSet, Pick, fold, Folds
<1> HIDE DEF h, Folds
<1>5. \E g : Folds(g)
  BY <1>1, <1>2, <1>3, SumsExist
<1>6. Folds(fold)
  BY <1>5
<1> HIDE DEF fold
<1>7. fold[S] = BookSum(b)[S]
  BY <1>1, <1>3, <1>6, BookIs, FoldIs
<1>8. BookSum(b)[S] \in Int
  BY BookIs DEF Adds
<1> QED
  BY <1>4, <1>7, <1>8

TillSum(e) == Page!MapThenSumSet(LAMBDA t : e[t], PageTill)

LEMMA TillSumIs ==
  ASSUME NEW e \in [PageTill -> Int]
  PROVE  TillSum(e) = Sums(e, PageTill)[PageTill] /\ TillSum(e) \in Int
<1>1. TillSum(e) = Sums(e, PageTill)[PageTill]
  BY DEF TillSum, Page!MapThenSumSet, Page!MapThenFoldSet, Sums, Unfolds, Value, Pick
<1>2. Unfolds(Sums(e, PageTill), e, PageTill)
  BY SumsUnfold, PageAssumption
<1> QED
  BY <1>1, <1>2, UnfoldedIsInt, PageAssumption

LEMMA BalanceIsInt ==
  ASSUME NEW b \in BookSet, NEW t
  PROVE  Page!BalanceIn(b, t) \in Int
<1>1. {i \in DOMAIN b : b[i].till = t} \in SUBSET DOMAIN b
  OBVIOUS
<1> QED
  BY <1>1, SumOverIs DEF Page!BalanceIn

LEMMA SumsNegated ==
  ASSUME NEW S, NEW f \in [S -> Int], NEW g, Adds(g, f, S),
         NEW m, m = [i \in S |-> -f[i]], NEW h, h = [s \in SUBSET S |-> -g[s]]
  PROVE  Adds(h, m, S)
<1>1. g \in [SUBSET S -> Int] /\ g[{}] = 0
  BY DEF Adds
<1>2. h \in [SUBSET S -> Int] /\ \A s \in SUBSET S : h[s] = -g[s]
  BY <1>1
<1>3. h[{}] = 0
  <2>1. PICK e \in SUBSET S : e = {}
    OBVIOUS
  <2>2. h[e] = -g[e] /\ g[e] = 0
    BY <1>1, <1>2, <2>1
  <2>3. h[e] = 0
    BY <2>2
  <2> QED
    BY <2>1, <2>3
<1>4. ASSUME NEW s \in SUBSET S, NEW t \in s PROVE h[s] = m[t] + h[s \ {t}]
  <2>1. g[s] = f[t] + g[s \ {t}]
    BY DEF Adds
  <2>2. s \ {t} \in SUBSET S /\ t \in S
    OBVIOUS
  <2>3. f[t] \in Int /\ g[s \ {t}] \in Int
    BY <1>1, <2>2
  <2>4. h[s] = -g[s] /\ h[s \ {t}] = -g[s \ {t}] /\ m[t] = -f[t]
    BY <1>2, <2>2
  <2> QED
    BY <2>1, <2>3, <2>4
<1> QED
  BY <1>2, <1>3, <1>4 DEF Adds

\* Withdrawals are taken out.
LEMMA WithdrawnIsNat ==
  ASSUME NEW b \in BookSet, \A i \in DOMAIN b : b[i].type = "WITHDRAWAL" => b[i].amount <= 0,
         NEW S \in SUBSET DOMAIN b, \A i \in S : b[i].type = "WITHDRAWAL"
  PROVE  -Page!SumOver(b, S) \in Nat
<1> DEFINE D == DOMAIN b
           f == Amounts(b)
           g == BookSum(b)
           m == [i \in D |-> -f[i]]
           h == [s \in SUBSET D |-> -g[s]]
<1>1. IsFiniteSet(D) /\ f \in [D -> Int] /\ Adds(g, f, D)
  BY BookIs
<1>2. Page!SumOver(b, S) = g[S] /\ g[S] \in Int
  BY SumOverIs
<1>3. \A i \in S : m[i] >= 0
  <2>1. ASSUME NEW i \in S PROVE m[i] >= 0
    <3>1. f[i] = b[i].amount /\ f[i] \in Int /\ f[i] <= 0 /\ m[i] = -f[i]
      BY <1>1 DEF Amounts
    <3> HIDE DEF f, m
    <3> QED
      BY <3>1
  <2> QED
    BY <2>1
<1> HIDE DEF f, g, D
<1>4. m \in [D -> Int]
  BY <1>1
<1>5. Adds(h, m, D)
  BY <1>1, SumsNegated
<1>6. S \in SUBSET D
  BY DEF D
<1>7. h[S] = -g[S]
  BY <1>6
<1> HIDE DEF m, h
<1>8. h[S] \in Nat
  BY <1>1, <1>3, <1>4, <1>5, <1>6, SumIsNat
<1> QED
  BY <1>2, <1>7, <1>8 DEF g

LEMMA StatsTyped ==
  ASSUME NEW b \in BookSet, \A i \in DOMAIN b : b[i].type = "WITHDRAWAL" => b[i].amount <= 0,
         NEW S \in SUBSET DOMAIN b, NEW current \in Int
  PROVE  Page!computeDayStats(current, b, S) \in Page!DayStats
<1> DEFINE part(types) == {i \in S : b[i].type \in types}
<1>1. ASSUME NEW types PROVE Page!SumOver(b, part(types)) \in Int
  <2>1. part(types) \in SUBSET DOMAIN b
    OBVIOUS
  <2> HIDE DEF part
  <2> QED
    BY <2>1, SumOverIs
<1>2. Page!SumOver(b, S) \in Int
  BY SumOverIs
<1>3. -Page!SumOver(b, part({"WITHDRAWAL"})) \in Nat
  <2>1. part({"WITHDRAWAL"}) \in SUBSET DOMAIN b
        /\ \A i \in part({"WITHDRAWAL"}) : b[i].type = "WITHDRAWAL"
    OBVIOUS
  <2> HIDE DEF part
  <2> QED
    BY <2>1, WithdrawnIsNat
<1>4. Page!computeDayStats(current, b, S) =
        [opening     |-> current - Page!SumOver(b, S),
         sessions    |-> Page!SumOver(b, part(Page!SessionIncomeType)),
         primes      |-> Page!SumOver(b, part({"PRIME_DEDUCTION"})),
         withdrawals |-> -Page!SumOver(b, part({"WITHDRAWAL"})),
         adjustments |-> Page!SumOver(b, part(Page!MovementType \
                           (Page!SessionIncomeType \cup {"WITHDRAWAL", "PRIME_DEDUCTION"}))),
         closing     |-> current]
  BY DEF Page!computeDayStats
<1> HIDE DEF part
<1>5. current - Page!SumOver(b, S) \in Int
  BY <1>2
<1> QED
  BY <1>1, <1>3, <1>4, <1>5 DEF Page!DayStats

LEMMA DayTyped ==
  ASSUME NEW b \in BookSet, \A i \in DOMAIN b : b[i].type = "WITHDRAWAL" => b[i].amount <= 0,
         NEW t, NEW date, NEW current \in Int
  PROVE  Page!DayOfTill(b, t, date, current) \in Page!DayStats
BY StatsTyped DEF Page!DayOfTill

LEMMA WorldIs ==
  ASSUME PageTyped
  PROVE  /\ pageWorld \in PageWorldSet
         /\ \A p \in pageWorld.posted : p.type = "WITHDRAWAL" => p.amount <= 0
BY PageAssumption DEF PageTyped

LEMMA PostedTyped ==
  ASSUME BookTyped, NEW t \in PageTill, NEW s \in Holder, NEW type \in Page!MovementType,
         NEW amount \in Int, type = "WITHDRAWAL" => amount <= 0, Page!Posted(t, s, type, amount)
  PROVE  /\ book' \in Seq(Page!Movement)
         /\ \A i \in DOMAIN book' : book'[i].type = "WITHDRAWAL" => book'[i].amount <= 0
<1> DEFINE m == [till |-> t, staff |-> s, type |-> type, amount |-> amount, day |-> today]
<1>1. m \in Page!Movement /\ (m.type = "WITHDRAWAL" => m.amount <= 0)
  BY DEF Page!Movement, BookTyped, Holder
<1>2. book' = Append(book, m) /\ book \in Seq(Page!Movement)
  BY DEF Page!Posted, BookTyped
<1> HIDE DEF m
<1>3. book' \in Seq(Page!Movement) /\ Len(book') = Len(book) + 1 /\ Len(book) \in Nat
      /\ book'[Len(book) + 1] = m /\ \A i \in 1 .. Len(book) : book'[i] = book[i]
  BY <1>1, <1>2
<1>4. DOMAIN book' = 1 .. Len(book) + 1 /\ DOMAIN book = 1 .. Len(book)
  BY <1>2, <1>3
<1>5. \A i \in DOMAIN book' : i = Len(book) + 1 \/ i \in 1 .. Len(book)
  BY <1>3, <1>4
<1> QED
  BY <1>1, <1>3, <1>4, <1>5 DEF BookTyped

LEMMA CarriesTyped ==
  ASSUME PageTyped, NEW o \in OrderSet, Page!Carries(o), today' = today
  PROVE  BookTyped'
<1>1. BookTyped /\ o.till \in PageTill /\ o.amount \in Nat /\ o.staff \in Holder
  BY DEF PageTyped, OrderSet
<1>2. CASE Page!Credits(o)
  <2>1. Page!Posted(o.till, None, "MANUAL_INCOME", o.amount) /\ holder' = holder
    BY <1>2 DEF Page!Credits
  <2>2. None \in Holder /\ "MANUAL_INCOME" \in Page!MovementType /\ o.amount \in Int
    BY <1>1 DEF Holder, Page!MovementType
  <2>3. /\ book' \in Seq(Page!Movement)
        /\ \A i \in DOMAIN book' : book'[i].type = "WITHDRAWAL" => book'[i].amount <= 0
    BY <1>1, <2>1, <2>2, PostedTyped
  <2> QED
    BY <2>1, <2>3, <1>1 DEF BookTyped
<1>3. CASE Page!Withdraws(o)
  <2>1. Page!Posted(o.till, holder[o.till], "WITHDRAWAL", -o.amount) /\ holder' = holder
    BY <1>3 DEF Page!Withdraws
  <2>2. holder[o.till] \in Holder /\ "WITHDRAWAL" \in Page!MovementType /\ -o.amount \in Int
        /\ -o.amount <= 0
    BY <1>1 DEF Page!MovementType, BookTyped
  <2>3. /\ book' \in Seq(Page!Movement)
        /\ \A i \in DOMAIN book' : book'[i].type = "WITHDRAWAL" => book'[i].amount <= 0
    BY <1>1, <2>1, <2>2, PostedTyped
  <2> QED
    BY <2>1, <2>3, <1>1 DEF BookTyped
<1>4. CASE Page!Assigns(o)
  BY <1>1, <1>4 DEF Page!Assigns, BookTyped
<1> QED
  BY <1>2, <1>3, <1>4 DEF Page!Carries

LEMMA TasksRest == ASSUME Tasks, UNCHANGED task PROVE Tasks'
BY DEF Tasks

LEMMA PageInitTyped == Page!Init => PageTyped
<1> SUFFICES ASSUME Page!Init PROVE PageTyped
  OBVIOUS
<1>1. Tasks
  <2>1. task = [k \in Task |-> Page!Idle]
    BY DEF Page!Init
  <2> QED
    BY <2>1, IdleTyped DEF Tasks
<1>2. BookTyped
  <2>1. book = << >> /\ << >> \in Seq(Page!Movement) /\ DOMAIN << >> = {}
    BY DEF Page!Init
  <2>2. holder \in [PageTill -> Holder]
    BY DEF Page!Init, Holder
  <2> QED
    BY <2>1, <2>2 DEF Page!Init, BookTyped
<1>3. ScreenTyped
  <2>1. list = None /\ history = None /\ form = Page!NoFilter /\ showHistory = FALSE
        /\ historyLoading = FALSE /\ page = 1
    BY DEF Page!Init
  <2>2. showHistory \in BOOLEAN /\ historyLoading \in BOOLEAN
    BY <2>1, Zenon
  <2>3. page \in Nat \ {0} /\ form \in Page!Filter
    BY <2>1, NoFilterIs
  <2> QED
    BY <2>1, <2>2, <2>3, Zenon DEF ScreenTyped
<1>4. OwnerTyped
  <2>1. dialog = None /\ busy = FALSE /\ late = {}
        /\ tally = [opened |-> 0, told |-> 0, posted |-> 0, troubles |-> 0]
    BY DEF Page!Init
  <2>2. tally \in Tally
    BY <2>1 DEF Tally
  <2> QED
    BY <2>1, <2>2, FS_EmptySet DEF OwnerTyped
<1> QED
  BY <1>1, <1>2, <1>3, <1>4 DEF Page!Init, PageTyped

\* What the owner fills in is what a dialog may hold.
LEMMA DialogTyped ==
  ASSUME PageTyped, Page!fillForm \/ Page!chooseStaff \/ Page!backToForm
  PROVE  dialog \in DialogSet /\ dialog' \in DialogSet
<1>1. pageWorld \in PageWorldSet /\ dialog # None /\ dialog \in DialogSet
  BY WorldIs DEF PageTyped, OwnerTyped, Page!fillForm, Page!chooseStaff, Page!backToForm
<1>2. Page!Listed => list \in ListSet
  BY DEF PageTyped, ScreenTyped, Page!Listed
<1>3. CASE Page!fillForm
  <2>1. PICK t \in pageWorld.tills, a \in pageWorld.amounts :
          dialog' = [dialog EXCEPT !.till = t, !.amount = a, !.step = "confirm"]
    BY <1>3 DEF Page!fillForm
  <2>2. t \in PageTill /\ a \in Nat
    BY <1>1 DEF PageWorldSet
  <2> QED
    BY <1>1, <2>1, <2>2 DEF DialogSet
<1>4. CASE Page!chooseStaff
  <2>1. PICK t \in pageWorld.tills : \E s \in Page!assignableStaff(t) \cup {None, list.holder[t]} :
          dialog' = [dialog EXCEPT !.till = t, !.staff = s]
    BY <1>4 DEF Page!chooseStaff
  <2>2. PICK s \in Page!assignableStaff(t) \cup {None, list.holder[t]} :
          dialog' = [dialog EXCEPT !.till = t, !.staff = s]
    BY <2>1
  <2>3. t \in PageTill /\ list \in ListSet
    BY <1>1, <1>2, <1>4 DEF PageWorldSet, Page!chooseStaff
  <2>4. s \in Holder
    BY <2>2, <2>3 DEF Page!assignableStaff, Holder, ListSet
  <2> QED
    BY <1>1, <2>2, <2>3, <2>4 DEF DialogSet
<1>5. CASE Page!backToForm
  BY <1>1, <1>5 DEF DialogSet, Page!backToForm
<1> QED
  BY <1>3, <1>4, <1>5

\* What is posted elsewhere, the date, and what the owner does that starts nothing.
LEMMA CalmTyped ==
  ASSUME PageTyped,
         \/ Page!Elsewhere \/ Page!Midnight \/ Page!ServeLate
         \/ Page!hideHistory \/ Page!setFilters \/ Page!fillForm \/ Page!chooseStaff
         \/ Page!backToForm \/ Page!closeModals
         \/ \E kind \in Kind : Page!openDialog(kind)
  PROVE  PageTyped'
<1>1. /\ pageWorld \in PageWorldSet /\ pageWorld \in PageWorld /\ BookTyped /\ ScreenTyped
      /\ OwnerTyped /\ Tasks
      /\ \A p \in pageWorld.posted : p.type = "WITHDRAWAL" => p.amount <= 0
  BY WorldIs DEF PageTyped
<1>2. CASE Page!Elsewhere
  <2>1. PICK t \in pageWorld.tills, s \in pageWorld.staff, p \in pageWorld.posted :
          /\ Page!Posted(t, s, p.type, p.amount)
          /\ UNCHANGED <<pageWorld, holder, today, Page!screen, dialog, busy, task, late, tally>>
    BY <1>2 DEF Page!Elsewhere
  <2>2. t \in PageTill /\ s \in Holder /\ p.type \in Page!MovementType /\ p.amount \in Int
        /\ (p.type = "WITHDRAWAL" => p.amount <= 0)
    BY <1>1 DEF PageWorldSet
  <2>3. BookTyped'
    BY <1>1, <2>1, <2>2, PostedTyped DEF BookTyped
  <2> QED
    BY <1>1, <2>1, <2>3, TasksRest DEF PageTyped, ScreenTyped, OwnerTyped, Page!screen
<1>3. CASE Page!Midnight
  BY <1>1, <1>3, TasksRest DEF PageTyped, BookTyped, ScreenTyped, OwnerTyped, Page!screen, Page!Midnight
<1>4. CASE Page!ServeLate
  <2>1. PICK o \in late :
          /\ Page!Carries(o) /\ late' = late \ {o} /\ tally' = [tally EXCEPT !.posted = @ + 1]
          /\ UNCHANGED <<pageWorld, today, Page!screen, dialog, busy, task>>
    BY <1>4 DEF Page!ServeLate
  <2>2. o \in OrderSet
    BY <1>1 DEF OwnerTyped
  <2>3. BookTyped'
    BY <2>1, <2>2, CarriesTyped
  <2>4. OwnerTyped'
    BY <1>1, <2>1, FS_RemoveElement DEF OwnerTyped, Tally
  <2> QED
    BY <1>1, <2>1, <2>3, <2>4, TasksRest DEF PageTyped, ScreenTyped, Page!screen
<1>5. CASE Page!hideHistory
  BY <1>1, <1>5, TasksRest DEF PageTyped, BookTyped, ScreenTyped, OwnerTyped, Page!server, Page!hideHistory
<1>6. CASE Page!setFilters
  BY <1>1, <1>6, TasksRest DEF PageTyped, BookTyped, ScreenTyped, OwnerTyped, Page!server, Page!setFilters, PageWorldSet
<1>7. ASSUME dialog' \in DialogSet \cup {None},
             UNCHANGED <<pageWorld, Page!server, Page!screen, busy, task, late, tally>>
      PROVE  PageTyped'
  BY <1>1, <1>7, TasksRest DEF PageTyped, BookTyped, ScreenTyped, OwnerTyped, Page!server, Page!screen
<1>8. Page!Listed => list \in ListSet
  BY <1>1 DEF ScreenTyped, Page!Listed
<1>9. CASE Page!fillForm \/ Page!chooseStaff \/ Page!backToForm
  BY <1>7, <1>9, DialogTyped DEF Page!fillForm, Page!chooseStaff, Page!backToForm
<1>10. CASE Page!closeModals
  BY <1>7, <1>10 DEF Page!closeModals
<1>11. ASSUME NEW kind \in Kind, Page!openDialog(kind) PROVE PageTyped'
  <2>1. dialog' \in DialogSet
    <3>1. FirstTill \in PageTill
      BY PageAssumption
    <3>2. Page!Listed => list.holder[FirstTill] \in Holder
      BY <1>8, <3>1 DEF ListSet
    <3> QED
      BY <1>11, <3>1, <3>2 DEF Page!openDialog, DialogSet, Holder
  <2>2. tally' \in Tally
    BY <1>1, <1>11 DEF Page!openDialog, OwnerTyped, Tally
  <2> QED
    BY <1>1, <1>11, <2>1, <2>2, TasksRest DEF PageTyped, BookTyped, ScreenTyped, OwnerTyped, Page!server, Page!screen, Page!openDialog
<1> QED
  BY <1>2, <1>3, <1>4, <1>5, <1>6, <1>9, <1>10, <1>11

\* A task as it is after a step of its function.
Stepped(t, s, g) == [step |-> s, order |-> t.order, next |-> t.next, filters |-> t.filters, got |-> g]

LEMMA SteppedIs ==
  ASSUME NEW t, Shaped(t), NEW s, NEW g
  PROVE  /\ [t EXCEPT !.step = s] = Stepped(t, s, t.got)
         /\ [t EXCEPT !.got = g] = Stepped(t, t.step, g)
         /\ s \in Ordering \cup CalmSteps /\ (s \in Ordering => t.order # None) /\ s # "idle"
              => Shaped(Stepped(t, s, g))
<1> DEFINE r == [step |-> t.step, order |-> t.order, next |-> t.next, filters |-> t.filters, got |-> t.got]
<1>1. t = r
  BY DEF Shaped
<1>2. /\ [r EXCEPT !.step = s] = Stepped(t, s, t.got)
      /\ [r EXCEPT !.got = g] = Stepped(t, t.step, g)
  <2>1. [r EXCEPT !.step = s] = Stepped(t, s, t.got)
    BY DEF Stepped
  <2>2. [r EXCEPT !.got = g] = Stepped(t, t.step, g)
    BY DEF Stepped
  <2> QED
    BY <2>1, <2>2
<1>3. s \in Ordering \cup CalmSteps /\ (s \in Ordering => t.order # None) /\ s # "idle"
        => Shaped(Stepped(t, s, g))
  <2> SUFFICES ASSUME s \in Ordering \cup CalmSteps, s \in Ordering => t.order # None, s # "idle"
               PROVE  Shaped(Stepped(t, s, g))
    OBVIOUS
  <2> DEFINE u == Stepped(t, s, g)
  <2>1. u.step = s /\ u.order = t.order /\ u.next = t.next /\ u.filters = t.filters /\ u.got = g
    BY DEF Stepped
  <2>2. u = [step |-> u.step, order |-> u.order, next |-> u.next, filters |-> u.filters, got |-> u.got]
    BY <2>1 DEF Stepped
  <2>3. t.order \in OrderSet \cup {None} /\ t.next \in Nat /\ t.filters \in Page!Filter
    BY DEF Shaped
  <2> HIDE DEF u
  <2>4. Shaped(u)
    BY <2>1, <2>2, <2>3 DEF Shaped
  <2> QED
    BY <2>4 DEF u
<1> HIDE DEF r
<1> QED
  BY <1>1, <1>2, <1>3

LEMMA SteppedTyped ==
  ASSUME NEW t, Shaped(t), NEW s \in Ordering \cup CalmSteps, s # "idle", NEW g,
         s \in Ordering => t.order # None,
         s = "movements" => g \in AccountsRead,
         s = "listed" => g \in ListSet,
         s = "history" => /\ t.next # 0
                          /\ g \in HistoryRead(t.filters) /\ IsFiniteSet(g.items)
                          /\ g.at = None => g.todo # {}
  PROVE  TaskTyped(Stepped(t, s, g))
<1>1. Shaped(Stepped(t, s, g))
  BY SteppedIs
<1>2. Stepped(t, s, g).step = s /\ Stepped(t, s, g).got = g /\ Stepped(t, s, g).next = t.next
      /\ Stepped(t, s, g).filters = t.filters
  BY DEF Stepped
<1>3. GotTyped(Stepped(t, s, g))
  BY <1>2 DEF GotTyped
<1> QED
  BY <1>1, <1>3 DEF TaskTyped

LEMMA TaskIs == ASSUME Tasks, NEW k \in Task PROVE TaskTyped(task[k]) /\ Shaped(task[k]) /\ GotTyped(task[k])
BY DEF Tasks, TaskTyped

\* The variables that most steps of a function leave alone.
LEMMA OnlyTask ==
  ASSUME PageTyped, NEW k \in Task, NEW t, TaskTyped(t), task' = [task EXCEPT ![k] = t],
         BookTyped', ScreenTyped', OwnerTyped', UNCHANGED pageWorld
  PROVE  PageTyped'
BY TaskSet DEF PageTyped

LEMMA Rests ==
  ASSUME PageTyped
  PROVE  /\ UNCHANGED Page!server => BookTyped'
         /\ UNCHANGED Page!screen => ScreenTyped'
         /\ UNCHANGED <<dialog, busy, late, tally>> => OwnerTyped'
BY DEF PageTyped, BookTyped, ScreenTyped, OwnerTyped, Page!server, Page!screen

LEMMA OrdersTyped ==
  ASSUME PageTyped, NEW k \in Task,
         \/ Page!ServeOrder(k) \/ Page!RefuseOrder(k) \/ Page!Confirmed(k) \/ Page!Refused(k)
         \/ Page!GiveUpOrder(k)
  PROVE  PageTyped'
<1>1. Tasks /\ Shaped(task[k]) /\ OwnerTyped /\ pageWorld \in PageWorld
  BY TaskIs DEF PageTyped
<1>2. task[k].step \in Ordering => task[k].order \in OrderSet
  BY <1>1 DEF Shaped
<1>3. ASSUME NEW s \in Ordering \cup {"accounts"}, task[k].step \in Ordering
      PROVE  TaskTyped([task[k] EXCEPT !.step = s])
  <2>1. s \in Ordering \cup CalmSteps /\ s \notin {"idle", "movements", "listed", "history"}
        /\ task[k].order # None
    BY <1>1, <1>3 DEF Ordering, CalmSteps, Shaped
  <2>2. TaskTyped(Stepped(task[k], s, task[k].got))
    BY <1>1, <2>1, SteppedTyped
  <2> QED
    BY <1>1, <2>2, SteppedIs
<1>4. CASE Page!ServeOrder(k)
  <2>1. task[k].step \in Ordering /\ task' = [task EXCEPT ![k] = [task[k] EXCEPT !.step = "posted"]]
    BY <1>4 DEF Page!ServeOrder, Ordering
  <2>2. TaskTyped([task[k] EXCEPT !.step = "posted"])
    BY <1>3, <2>1 DEF Ordering
  <2>3. BookTyped'
    BY <1>2, <1>4, <2>1, CarriesTyped DEF Page!ServeOrder
  <2>4. OwnerTyped'
    BY <1>1, <1>4 DEF OwnerTyped, Tally, Page!ServeOrder
  <2> QED
    BY <1>4, <2>1, <2>2, <2>3, <2>4, Rests, OnlyTask DEF Page!ServeOrder
<1>5. CASE Page!RefuseOrder(k)
  <2>1. task[k].step \in Ordering /\ task' = [task EXCEPT ![k] = [task[k] EXCEPT !.step = "refused"]]
    BY <1>5 DEF Page!RefuseOrder, Ordering
  <2>2. TaskTyped([task[k] EXCEPT !.step = "refused"])
    BY <1>3, <2>1 DEF Ordering
  <2> QED
    BY <1>5, <2>1, <2>2, Rests, OnlyTask DEF Page!RefuseOrder
<1>6. CASE Page!Confirmed(k)
  <2>1. task[k].step \in Ordering /\ task' = [task EXCEPT ![k] = [task[k] EXCEPT !.step = "accounts"]]
    BY <1>6 DEF Page!Confirmed, Ordering
  <2>2. TaskTyped([task[k] EXCEPT !.step = "accounts"])
    BY <1>3, <2>1
  <2>3. OwnerTyped'
    BY <1>1, <1>6 DEF OwnerTyped, Tally, Page!Confirmed
  <2> QED
    BY <1>6, <2>1, <2>2, <2>3, Rests, OnlyTask DEF Page!Confirmed
<1>7. CASE Page!Refused(k)
  <2>1. Tasks' /\ busy' \in BOOLEAN
    BY <1>7, EndOfTyped DEF Page!Refused
  <2>2. OwnerTyped'
    BY <1>1, <1>7, <2>1 DEF OwnerTyped, Page!Refused
  <2> QED
    BY <1>1, <1>7, <2>1, <2>2, Rests DEF PageTyped, Page!Refused
<1>8. CASE Page!GiveUpOrder(k)
  <2>1. Tasks' /\ busy' \in BOOLEAN
    BY <1>8, EndOfTyped DEF Page!GiveUpOrder
  <2>2. task[k].order \in OrderSet
    BY <1>2, <1>8 DEF Page!GiveUpOrder, Ordering
  <2>3. late' = late \cup {task[k].order} \/ late' = late
    BY <1>8 DEF Page!GiveUpOrder
  <2>4. late' \subseteq OrderSet /\ IsFiniteSet(late')
    BY <1>1, <2>2, <2>3, FS_AddElement DEF OwnerTyped
  <2>5. OwnerTyped'
    BY <1>1, <1>8, <2>1, <2>4 DEF OwnerTyped, Tally, Page!GiveUpOrder
  <2> QED
    BY <1>1, <1>8, <2>1, <2>5, Rests DEF PageTyped, Page!GiveUpOrder
<1> QED
  BY <1>4, <1>5, <1>6, <1>7, <1>8

LEMMA DivIsNat == ASSUME NEW n \in Nat PROVE Page!PagesOf(n) \in Nat
<1>1. PageSize \in Nat /\ PageSize > 0
  BY PageAssumption
<1>2. n + PageSize - 1 \in Nat
  BY <1>1
<1> QED
  BY <1>1, <1>2 DEF Page!PagesOf

LEMMA LargerIs ==
  ASSUME NEW m \in Nat, NEW n \in Nat
  PROVE  Page!Max({m, n}) = IF m >= n THEN m ELSE n
BY DEF Page!Max

LEMMA ListTyped ==
  ASSUME PageTyped, NEW k \in Task,
         \/ Page!ReadAccounts(k) \/ Page!listAccountsWithDayStats(k)
         \/ Page!loadList(k) \/ Page!GiveUpList(k)
  PROVE  PageTyped'
<1>1. Tasks /\ Shaped(task[k]) /\ GotTyped(task[k]) /\ OwnerTyped /\ BookTyped /\ ScreenTyped
      /\ pageWorld \in PageWorld
  BY TaskIs DEF PageTyped
<1>2. book \in BookSet /\ Len(book) \in Nat
  BY <1>1 DEF BookTyped, BookSet
<1>3. CASE Page!ReadAccounts(k)
  <2> DEFINE g == [date |-> today, balance |-> [t \in PageTill |-> Page!BalanceIn(book, t)],
                   holder |-> holder, at |-> Len(book)]
  <2>1. task' = [task EXCEPT ![k] = [task[k] EXCEPT !.step = "movements", !.got = g]]
    BY <1>3 DEF Page!ReadAccounts
  <2>2. g \in AccountsRead
    BY <1>1, <1>2, BalanceIsInt DEF AccountsRead, BookTyped
  <2> HIDE DEF g
  <2>3. TaskTyped([task[k] EXCEPT !.step = "movements", !.got = g])
    <3>1. TaskTyped(Stepped(task[k], "movements", g))
      BY <1>1, <2>2, SteppedTyped DEF Ordering, CalmSteps
    <3>2. [task[k] EXCEPT !.step = "movements"] = Stepped(task[k], "movements", task[k].got)
      BY <1>1, SteppedIs
    <3>3. [Stepped(task[k], "movements", task[k].got) EXCEPT !.got = g] = Stepped(task[k], "movements", g)
      BY DEF Stepped
    <3>4. [task[k] EXCEPT !.step = "movements", !.got = g]
            = [[task[k] EXCEPT !.step = "movements"] EXCEPT !.got = g]
      OBVIOUS
    <3> QED
      BY <3>1, <3>2, <3>3, <3>4
  <2> QED
    BY <1>3, <2>1, <2>3, Rests, OnlyTask DEF Page!ReadAccounts
<1>4. CASE Page!listAccountsWithDayStats(k)
  <2> DEFINE old == task[k].got
             g == [date |-> old.date, total |-> TillSum(old.balance),
                   rows |-> [t \in PageTill |-> Page!DayOfTill(book, t, old.date, old.balance[t])],
                   holder |-> old.holder, at |-> old.at, quiet |-> Len(book) = old.at]
  <2>1. task' = [task EXCEPT ![k] = [task[k] EXCEPT !.step = "listed", !.got = g]]
    BY <1>4 DEF Page!listAccountsWithDayStats, TillSum, Page!MapThenSumSet, Page!MapThenFoldSet
  <2>2. old \in AccountsRead
    BY <1>1, <1>4 DEF GotTyped, Page!listAccountsWithDayStats
  <2>3. TillSum(old.balance) \in Int
    BY <2>2, TillSumIs DEF AccountsRead
  <2>4. \A t \in PageTill : Page!DayOfTill(book, t, old.date, old.balance[t]) \in Page!DayStats
    BY <1>1, <1>2, <2>2, DayTyped DEF AccountsRead, BookTyped
  <2> HIDE DEF old
  <2>5. g \in ListSet
    BY <2>2, <2>3, <2>4 DEF ListSet, AccountsRead
  <2> HIDE DEF g
  <2>6. TaskTyped([task[k] EXCEPT !.step = "listed", !.got = g])
    <3>1. TaskTyped(Stepped(task[k], "listed", g))
      BY <1>1, <2>5, SteppedTyped DEF Ordering, CalmSteps
    <3>2. [task[k] EXCEPT !.step = "listed"] = Stepped(task[k], "listed", task[k].got)
      BY <1>1, SteppedIs
    <3>3. [Stepped(task[k], "listed", task[k].got) EXCEPT !.got = g] = Stepped(task[k], "listed", g)
      BY DEF Stepped
    <3>4. [task[k] EXCEPT !.step = "listed", !.got = g]
            = [[task[k] EXCEPT !.step = "listed"] EXCEPT !.got = g]
      OBVIOUS
    <3> QED
      BY <3>1, <3>2, <3>3, <3>4
  <2> QED
    BY <1>4, <2>1, <2>6, Rests, OnlyTask DEF Page!listAccountsWithDayStats
<1>5. CASE Page!loadList(k)
  <2>1. Tasks' /\ busy' \in BOOLEAN /\ historyLoading' \in BOOLEAN /\ page' \in Nat \ {0}
    BY <1>5, AfterListTyped DEF Page!loadList
  <2>2. list' \in ListSet
    <3> DEFINE g == task[k].got
    <3>1. g \in ListSet
      BY <1>1, <1>5 DEF Page!loadList, GotTyped
    <3>2. list' = [date |-> g.date, total |-> g.total, rows |-> g.rows, holder |-> g.holder,
                   at |-> g.at, quiet |-> g.quiet]
      BY <1>5 DEF Page!loadList
    <3> HIDE DEF g
    <3> QED
      BY <3>1, <3>2 DEF ListSet
  <2>3. ScreenTyped'
    BY <1>1, <1>5, <2>1, <2>2 DEF ScreenTyped, Page!loadList
  <2>4. OwnerTyped'
    BY <1>1, <1>5, <2>1 DEF OwnerTyped, Page!loadList
  <2> QED
    BY <1>1, <1>5, <2>1, <2>3, <2>4, Rests DEF PageTyped, Page!loadList
<1>6. CASE Page!GiveUpList(k)
  <2>1. Tasks' /\ busy' \in BOOLEAN /\ historyLoading' \in BOOLEAN /\ page' \in Nat \ {0}
    BY <1>6, AfterListTyped DEF Page!GiveUpList
  <2>2. ScreenTyped'
    BY <1>1, <1>6, <2>1 DEF ScreenTyped, Page!GiveUpList
  <2>3. OwnerTyped'
    BY <1>1, <1>6, <2>1 DEF OwnerTyped, Tally, Page!GiveUpList
  <2> QED
    BY <1>1, <1>6, <2>1, <2>2, <2>3, Rests DEF PageTyped, Page!GiveUpList
<1> QED
  BY <1>3, <1>4, <1>5, <1>6

LEMMA WhereIs ==
  ASSUME NEW b \in BookSet, NEW f, NEW d
  PROVE  /\ Page!Where(b, f, d) \in SUBSET DOMAIN b /\ Page!Where(b, f, d) \in SUBSET Nat
         /\ IsFiniteSet(Page!Where(b, f, d)) /\ Cardinality(Page!Where(b, f, d)) \in Nat
<1>1. Page!Where(b, f, d) \in SUBSET DOMAIN b
  BY DEF Page!Where
<1>2. DOMAIN b \in SUBSET Nat /\ IsFiniteSet(DOMAIN b)
  BY BookIs
<1> QED
  BY <1>1, <1>2, FS_Subset, FS_CardinalityType

LEMMA SliceIs == ASSUME NEW S, NEW n, NEW size PROVE Page!Slice(S, n, size) \in SUBSET S
BY DEF Page!Slice

LEMMA RowsAre ==
  ASSUME NEW b \in BookSet, NEW f, NEW r, NEW n
  PROVE  /\ Page!RowsRead(b, f, r, n) \in SUBSET DOMAIN b /\ Page!RowsRead(b, f, r, n) \in SUBSET Nat
         /\ IsFiniteSet(Page!RowsRead(b, f, r, n))
<1>1. Page!RowsRead(b, f, r, n) \in SUBSET Page!Where(b, f, r.day)
  BY SliceIs DEF Page!RowsRead
<1> QED
  BY <1>1, WhereIs, FS_Subset

\* What a function of the history has read after one more query.
ReadOn(t, r) ==
  LET first == t.got.at = None IN
    [todo  |-> t.got.todo \ {r},
     total |-> IF r.what = "total" THEN Cardinality(Page!Where(book, t.filters, r.day))
               ELSE t.got.total,
     items |-> IF r.what = "total" THEN t.got.items
               ELSE t.got.items \cup Page!RowsRead(book, t.filters, r, t.next),
     at    |-> IF first THEN Len(book) ELSE t.got.at,
     quiet |-> t.got.quiet /\ (first \/ t.got.at = Len(book))]

LEMMA ReadHistoryIs ==
  ASSUME NEW k, NEW r, Page!ReadHistory(k, r)
  PROVE  /\ task[k].step = "history" /\ r \in task[k].got.todo
         /\ task' = [task EXCEPT ![k] = [task[k] EXCEPT !.got = ReadOn(task[k], r)]]
         /\ UNCHANGED <<pageWorld, Page!server, Page!screen, dialog, busy, late, tally>>
BY PageCardinality DEF Page!ReadHistory, ReadOn

LEMMA ReadOnTyped ==
  ASSUME PageTyped, NEW k \in Task, task[k].step = "history", NEW r
  PROVE  /\ ReadOn(task[k], r) \in HistoryRead(task[k].filters) /\ ReadOn(task[k], r).at # None
         /\ IsFiniteSet(ReadOn(task[k], r).items)
<1> DEFINE g == task[k].got
           f == task[k].filters
           n == task[k].next
<1>1. g \in HistoryRead(f) /\ book \in BookSet /\ Len(book) \in Nat /\ IsFiniteSet(g.items)
  BY TaskIs DEF PageTyped, BookTyped, BookSet, GotTyped
<1>2. Cardinality(Page!Where(book, f, r.day)) \in Nat /\ Page!RowsRead(book, f, r, n) \in SUBSET Nat
      /\ IsFiniteSet(Page!RowsRead(book, f, r, n))
  BY <1>1, WhereIs, RowsAre
<1>3. ReadOn(task[k], r) =
       [todo  |-> g.todo \ {r},
        total |-> IF r.what = "total" THEN Cardinality(Page!Where(book, f, r.day)) ELSE g.total,
        items |-> IF r.what = "total" THEN g.items ELSE g.items \cup Page!RowsRead(book, f, r, n),
        at    |-> IF g.at = None THEN Len(book) ELSE g.at,
        quiet |-> g.quiet /\ (g.at = None \/ g.at = Len(book))]
  BY DEF ReadOn
<1> HIDE DEF g, f, n
<1>4. g.todo \in SUBSET Page!Reads(f) /\ g.total \in Nat /\ g.items \in SUBSET Nat
      /\ g.at \in Nat \cup {None}
  BY <1>1 DEF HistoryRead
<1>5. None \notin Nat
  BY PageAssumption
<1>6. (g.quiet /\ (g.at = None \/ g.at = Len(book))) \in BOOLEAN
  OBVIOUS
<1>7. (IF g.at = None THEN Len(book) ELSE g.at) \in Nat
  BY <1>1, <1>4
<1>8. ReadOn(task[k], r) \in HistoryRead(f)
  BY <1>2, <1>3, <1>4, <1>6, <1>7 DEF HistoryRead
<1>9. ReadOn(task[k], r).at # None
  BY <1>3, <1>5, <1>7
<1>10. IsFiniteSet(ReadOn(task[k], r).items)
  <2>1. IsFiniteSet(g.items \cup Page!RowsRead(book, f, r, n))
    BY <1>1, <1>2, FS_Union
  <2>2. \/ ReadOn(task[k], r).items = g.items
        \/ ReadOn(task[k], r).items = g.items \cup Page!RowsRead(book, f, r, n)
    BY <1>3
  <2> QED
    BY <1>1, <2>1, <2>2
<1> QED
  BY <1>8, <1>9, <1>10 DEF f

LEMMA HistoryTyped ==
  ASSUME PageTyped, NEW k \in Task,
         \/ \E r \in Page!Reads(task[k].filters) : Page!ReadHistory(k, r)
         \/ Page!loadMovements(k) \/ Page!GiveUpHistory(k)
  PROVE  PageTyped'
<1>1. Tasks /\ Shaped(task[k]) /\ GotTyped(task[k]) /\ OwnerTyped /\ BookTyped /\ ScreenTyped
      /\ pageWorld \in PageWorld
  BY TaskIs DEF PageTyped
<1>2. ASSUME NEW r, Page!ReadHistory(k, r) PROVE PageTyped'
  <2> DEFINE g == ReadOn(task[k], r)
  <2>1. /\ task[k].step = "history" /\ task[k].next # 0
        /\ task' = [task EXCEPT ![k] = [task[k] EXCEPT !.got = g]]
        /\ UNCHANGED <<pageWorld, Page!server, Page!screen, dialog, busy, late, tally>>
    BY <1>1, <1>2, ReadHistoryIs DEF GotTyped
  <2>2. g \in HistoryRead(task[k].filters) /\ g.at # None /\ IsFiniteSet(g.items)
    BY <2>1, ReadOnTyped
  <2> HIDE DEF g
  <2>3. TaskTyped([task[k] EXCEPT !.got = g])
    <3>1. TaskTyped(Stepped(task[k], "history", g))
      BY <1>1, <2>1, <2>2, SteppedTyped DEF Ordering, CalmSteps
    <3>2. [task[k] EXCEPT !.got = g] = Stepped(task[k], task[k].step, g)
      BY <1>1, SteppedIs
    <3>3. TaskTyped(Stepped(task[k], task[k].step, g))
      BY <2>1, <3>1
    <3> QED
      BY <3>2, <3>3
  <2> QED
    BY <2>1, <2>3, Rests, OnlyTask
<1>3. CASE Page!loadMovements(k)
  <2> DEFINE t == task[k]
             got == task[k].got
             answer == IF Page!SingleDay(t.filters) THEN Page!SinglePage(t) ELSE Page!Merged(t)
  <2>1. /\ t.step = "history" /\ got.todo = {}
        /\ history' = [items |-> answer.items, total |-> answer.total, pages |-> answer.pages,
                       page |-> t.next, filters |-> t.filters, at |-> got.at, quiet |-> got.quiet]
        /\ page' = (IF t.order # None THEN 1 ELSE t.next)
        /\ historyLoading' = FALSE
        /\ Page!EndOf(k)
        /\ UNCHANGED <<pageWorld, Page!server, list, form, showHistory, dialog, late, tally>>
    BY <1>3 DEF Page!loadMovements
  <2>2. Tasks' /\ busy' \in BOOLEAN
    BY <2>1, EndOfTyped
  <2>3. t.next \in Nat \ {0} /\ t.filters \in Page!Filter /\ got \in HistoryRead(t.filters)
        /\ got.at # None
    BY <1>1, <2>1 DEF GotTyped, Shaped
  <2>4. got.total \in Nat /\ got.items \in SUBSET Nat /\ got.at \in Nat /\ got.quiet \in BOOLEAN
    BY <2>3 DEF HistoryRead
  <2>5. answer.items \in SUBSET Nat /\ answer.total \in Nat /\ answer.pages \in Nat
    <3>1. CASE Page!SingleDay(t.filters)
      BY <2>4, <3>1, DivIsNat DEF Page!SinglePage
    <3>2. CASE ~Page!SingleDay(t.filters)
      <4>1. Page!Merged(t) = [items |-> Page!Slice(got.items, t.next, PageSize),
                              total |-> Cardinality(got.items),
                              pages |-> Page!Max({1, Page!PagesOf(Cardinality(got.items))})]
        BY PageCardinality DEF Page!Merged
      <4>2. Cardinality(got.items) \in Nat
        BY <1>1, <2>1, FS_CardinalityType DEF GotTyped
      <4>3. Page!PagesOf(Cardinality(got.items)) \in Nat
        BY <4>2, DivIsNat
      <4>4. Page!Max({1, Page!PagesOf(Cardinality(got.items))}) \in Nat
        BY <4>3, LargerIs
      <4> QED
        BY <2>4, <3>2, <4>1, <4>2, <4>4, SliceIs
    <3> QED
      BY <3>1, <3>2
  <2> HIDE DEF answer, got, t
  <2>6. history' \in Page!HistoryPage
    <3>1. history' = [items |-> answer.items, total |-> answer.total, pages |-> answer.pages,
                      page |-> t.next, filters |-> t.filters, at |-> got.at, quiet |-> got.quiet]
      BY <2>1
    <3> QED
      BY <2>3, <2>4, <2>5, <3>1 DEF Page!HistoryPage
  <2>7. ScreenTyped'
    <3>1. historyLoading' \in BOOLEAN
      BY <2>1, Zenon
    <3>2. page' \in Nat \ {0}
      BY <2>1, <2>3
    <3> QED
      BY <1>1, <2>1, <2>6, <3>1, <3>2 DEF ScreenTyped
  <2>8. OwnerTyped'
    BY <1>1, <2>1, <2>2 DEF OwnerTyped
  <2> QED
    BY <1>1, <2>1, <2>2, <2>7, <2>8, Rests DEF PageTyped
<1>4. CASE Page!GiveUpHistory(k)
  <2>1. Tasks' /\ busy' \in BOOLEAN
    BY <1>4, EndOfTyped DEF Page!GiveUpHistory
  <2>2. ScreenTyped'
    <3>1. historyLoading' = FALSE /\ page' = (IF task[k].order # None THEN 1 ELSE page)
          /\ UNCHANGED <<list, history, form, showHistory>>
      BY <1>4 DEF Page!GiveUpHistory
    <3>2. historyLoading' \in BOOLEAN
      BY <3>1, Zenon
    <3>3. page' \in Nat \ {0}
      BY <1>1, <3>1 DEF ScreenTyped
    <3> QED
      BY <1>1, <3>1, <3>2, <3>3 DEF ScreenTyped
  <2>3. OwnerTyped'
    BY <1>1, <1>4, <2>1 DEF OwnerTyped, Tally, Page!GiveUpHistory
  <2> QED
    BY <1>1, <1>4, <2>1, <2>2, <2>3, Rests DEF PageTyped, Page!GiveUpHistory
<1> QED
  BY <1>2, <1>3, <1>4

LEMMA LoadsTyped ==
  ASSUME PageTyped, NEW k \in Task, NEW n \in Nat \ {0}, NEW f \in Page!Filter, Page!LoadsHistory(k, n, f)
  PROVE  Tasks' /\ historyLoading' \in BOOLEAN /\ page' \in Nat \ {0}
<1>1. Shaped(Page!Running("history", None, n, f))
  BY RunningTyped
<1>2. Page!Running("history", None, n, f).next # 0
  BY DEF Page!Running
<1>3. TaskTyped(Page!Loading(Page!Running("history", None, n, f)))
  BY <1>1, <1>2, LoadingTyped
<1>4. Tasks'
  BY <1>3, TaskSet DEF PageTyped, Page!LoadsHistory, Page!Starts
<1>5. historyLoading' \in BOOLEAN
  BY Zenon DEF Page!LoadsHistory
<1>6. page' \in Nat \ {0}
  BY DEF Page!LoadsHistory
<1> QED
  BY <1>4, <1>5, <1>6

LEMMA BeginsTyped ==
  ASSUME PageTyped, NEW k \in Task,
         \/ Page!refreshAll(k) \/ Page!openHistory(k) \/ Page!applyFilters(k)
         \/ Page!resetFilters(k) \/ Page!turnPage(k) \/ Page!submit(k)
  PROVE  PageTyped'
<1>1. Tasks /\ OwnerTyped /\ BookTyped /\ ScreenTyped /\ pageWorld \in PageWorld
  BY DEF PageTyped
<1>2. form \in Page!Filter /\ page \in Nat \ {0}
  BY <1>1 DEF ScreenTyped
<1>3. CASE Page!refreshAll(k)
  <2> DEFINE n == IF showHistory THEN page ELSE 0
             t == Page!Running("accounts", None, n, form)
  <2>1. n \in Nat
    BY <1>2
  <2>2. TaskTyped(t)
    BY <1>2, <2>1, RunningTyped
  <2>3. task' = [task EXCEPT ![k] = t]
    BY <1>3 DEF Page!refreshAll, Page!Starts
  <2> HIDE DEF t
  <2> QED
    BY <1>3, <2>2, <2>3, Rests, OnlyTask DEF Page!refreshAll
<1>4. ASSUME NEW n \in Nat \ {0}, NEW f \in Page!Filter, Page!LoadsHistory(k, n, f),
             form' \in Page!Filter, showHistory' \in BOOLEAN,
             UNCHANGED <<pageWorld, Page!server, list, history, dialog, busy, late, tally>>
      PROVE  PageTyped'
  <2>1. Tasks' /\ historyLoading' \in BOOLEAN /\ page' \in Nat \ {0}
    BY <1>4, LoadsTyped
  <2>2. ScreenTyped'
    BY <1>1, <1>4, <2>1 DEF ScreenTyped
  <2> QED
    BY <1>1, <1>4, <2>1, <2>2, Rests DEF PageTyped
<1>5. CASE Page!openHistory(k)
  <2>1. showHistory' \in BOOLEAN
    BY <1>5, Zenon DEF Page!openHistory
  <2> QED
    BY <1>2, <1>4, <1>5, <2>1 DEF Page!openHistory
<1>6. showHistory \in BOOLEAN
  BY <1>1 DEF ScreenTyped
<1>7. CASE Page!applyFilters(k)
  BY <1>2, <1>4, <1>6, <1>7 DEF Page!applyFilters
<1>8. CASE Page!resetFilters(k)
  BY <1>4, <1>6, <1>8, NoFilterIs DEF Page!resetFilters
<1>9. CASE Page!turnPage(k)
  <2>1. history \in Page!HistoryPage
    BY <1>1, <1>9 DEF Page!turnPage, ScreenTyped
  <2>2. history.pages \in Nat
    BY <2>1 DEF Page!HistoryPage
  <2>3. Page!Max({page, history.pages}) \in Nat
    BY <1>2, <2>2, LargerIs
  <2>4. PICK n \in {page - 1, page + 1} \cap 1 .. Page!Max({page, history.pages}) :
          Page!LoadsHistory(k, n, form)
    BY <1>9 DEF Page!turnPage
  <2>5. n \in Nat \ {0}
    BY <2>3, <2>4
  <2> QED
    BY <1>2, <1>4, <1>6, <1>9, <2>4, <2>5 DEF Page!turnPage
<1>10. CASE Page!submit(k)
  <2> DEFINE o == Page!Order(dialog)
             n == IF showHistory /\ dialog.kind # "assign" THEN 1 ELSE 0
             t == Page!Running("post", o, n, form)
  <2>1. dialog \in DialogSet /\ dialog.till # None
    BY <1>1, <1>10 DEF OwnerTyped, Page!submit, Page!MaySubmit
  <2>2. o \in OrderSet
    BY <2>1 DEF DialogSet, OrderSet, Page!Order
  <2>3. n \in Nat /\ o # None
    BY <2>2, PageAssumption
  <2>4. task' = [task EXCEPT ![k] = t] /\ busy' = TRUE
    BY <1>10 DEF Page!submit, Page!Starts
  <2> HIDE DEF n, o
  <2>5. TaskTyped(t)
    BY <1>2, <2>2, <2>3, RunningTyped
  <2>6. busy' \in BOOLEAN
    BY <2>4, Zenon
  <2>7. OwnerTyped'
    BY <1>1, <1>10, <2>6 DEF OwnerTyped, Page!submit
  <2> HIDE DEF t
  <2> QED
    BY <1>10, <2>4, <2>5, <2>7, Rests, OnlyTask DEF Page!submit
<1> QED
  BY <1>3, <1>5, <1>7, <1>8, <1>9, <1>10

\* The kinds of step that the page and the server take.
Calm ==
  \/ Page!Elsewhere \/ Page!Midnight \/ Page!ServeLate
  \/ Page!hideHistory \/ Page!setFilters \/ Page!fillForm \/ Page!chooseStaff
  \/ Page!backToForm \/ Page!closeModals
  \/ \E kind \in Kind : Page!openDialog(kind)
Ordered(k) ==
  \/ Page!ServeOrder(k) \/ Page!RefuseOrder(k) \/ Page!Confirmed(k) \/ Page!Refused(k)
  \/ Page!GiveUpOrder(k)
Listing(k) ==
  \/ Page!ReadAccounts(k) \/ Page!listAccountsWithDayStats(k)
  \/ Page!loadList(k) \/ Page!GiveUpList(k)
Paging(k) ==
  \/ \E r \in Page!Reads(task[k].filters) : Page!ReadHistory(k, r)
  \/ Page!loadMovements(k) \/ Page!GiveUpHistory(k)
Begun(k) ==
  \/ Page!refreshAll(k) \/ Page!openHistory(k) \/ Page!applyFilters(k)
  \/ Page!resetFilters(k) \/ Page!turnPage(k) \/ Page!submit(k)

LEMMA StepsAre ==
  ASSUME Page!Next
  PROVE  Calm \/ \E k \in Task : Ordered(k) \/ Listing(k) \/ Paging(k) \/ Begun(k)
BY DEF Page!Next, Calm, Kind, Ordered, Listing, Paging, Begun

LEMMA PageStepTyped == PageTyped /\ [Page!Next]_Page!vars => PageTyped'
<1> SUFFICES ASSUME PageTyped, [Page!Next]_Page!vars PROVE PageTyped'
  OBVIOUS
<1>1. CASE Page!Next
  <2>1. CASE Calm
    BY <2>1, CalmTyped DEF Calm
  <2>2. ASSUME NEW k \in Task, Ordered(k) \/ Listing(k) \/ Paging(k) \/ Begun(k) PROVE PageTyped'
    <3>1. CASE Ordered(k)
      BY <3>1, OrdersTyped DEF Ordered
    <3>2. CASE Listing(k)
      BY <3>2, ListTyped DEF Listing
    <3>3. CASE Paging(k)
      BY <3>3, HistoryTyped DEF Paging
    <3>4. CASE Begun(k)
      BY <3>4, BeginsTyped DEF Begun
    <3> QED
      BY <2>2, <3>1, <3>2, <3>3, <3>4
  <2> QED
    BY <1>1, <2>1, <2>2, StepsAre
<1>2. CASE UNCHANGED Page!vars
  <2>1. UNCHANGED pageWorld /\ UNCHANGED Page!server /\ UNCHANGED Page!screen
        /\ UNCHANGED <<dialog, busy, late, tally>> /\ UNCHANGED task
    BY <1>2 DEF Page!vars, Page!server, Page!screen
  <2>2. BookTyped' /\ ScreenTyped' /\ OwnerTyped' /\ Tasks'
    BY <2>1, Rests, TasksRest DEF PageTyped
  <2> QED
    BY <2>1, <2>2 DEF PageTyped
<1> QED
  BY <1>1, <1>2

\* The page and its functions keep their types, whatever is answered, fails
\* or comes late (page.tsx).
THEOREM PageTypes == Page!Spec => []PageTyped
BY PageInitTyped, PageStepTyped, PTL DEF Page!Spec

-----------------------------------------------------------------------------
(***************************************************************************)
(* A dialog posts its order once. One order at most is under way (busy     *)
(* blocks the buttons while it is), each order comes from a dialog that    *)
(* was opened, and what was given up is a failure that was counted; it may *)
(* reach the server later (late).                                          *)
(***************************************************************************)

AnyAt(steps) == \E k \in Task : task[k].step \in steps
One(yes) == IF yes THEN 1 ELSE 0
Alone(k) == \A m \in Task : task[m].order # None => m = k

OneOrder ==
  /\ busy <=> \E k \in Task : task[k].order # None
  /\ \A k \in Task : task[k].order # None => Alone(k)
  /\ AnyAt(Ordering) => dialog # None

Counted ==
  /\ tally.posted + Cardinality(late) + One(AnyAt({"post"}))
       + One(dialog # None /\ ~AnyAt({"post", "posted"})) <= tally.opened + tally.troubles
  /\ tally.told + One(AnyAt({"posted"})) <= tally.posted

OrdersInv == OneOrder /\ Counted

LEMMA OneIs == ASSUME NEW b PROVE One(b) \in Nat /\ (b => One(b) = 1) /\ (~b => One(b) = 0)
BY DEF One

LEMMA TallyIs ==
  ASSUME PageTyped
  PROVE  /\ tally.opened \in Nat /\ tally.told \in Nat /\ tally.posted \in Nat /\ tally.troubles \in Nat
         /\ Cardinality(late) \in Nat
BY FS_CardinalityType DEF PageTyped, OwnerTyped, Tally

\* A step of a function that has nothing to do with an order at the server.
CalmStep(k, t) ==
  /\ task' = [task EXCEPT ![k] = t]
  /\ TaskTyped(t)
  /\ task[k].step \in CalmSteps /\ t.step \in CalmSteps
  /\ \/ t.order = task[k].order /\ busy' = busy
     \/ t.order = None /\ busy' = (busy /\ task[k].order = None)
  /\ UNCHANGED <<dialog, late>>
  /\ tally' = tally \/ tally' = [tally EXCEPT !.troubles = @ + 1]

LEMMA CalmStepKeeps ==
  ASSUME PageTyped, OrdersInv, NEW k \in Task, NEW t, CalmStep(k, t)
  PROVE  OrdersInv'
<1>1. \A m \in Task : task'[m] = IF m = k THEN t ELSE task[m]
  BY DEF PageTyped, Tasks, CalmStep
<1>2. \A m \in Task : task'[m].step \in Ordering \/ task[m].step \in Ordering => m # k
  BY <1>1 DEF CalmStep, Ordering, CalmSteps
<1>3. \A m \in Task : (task'[m].step \in Ordering \/ task[m].step \in Ordering) =>
         task'[m] = task[m]
  BY <1>1, <1>2
<1>4. ASSUME NEW steps \in SUBSET Ordering PROVE AnyAt(steps)' <=> AnyAt(steps)
  BY <1>3 DEF AnyAt
<1>5. /\ AnyAt(Ordering)' <=> AnyAt(Ordering)
      /\ AnyAt({"post"})' <=> AnyAt({"post"})
      /\ AnyAt({"posted"})' <=> AnyAt({"posted"})
      /\ AnyAt({"post", "posted"})' <=> AnyAt({"post", "posted"})
  BY <1>4 DEF Ordering
<1>6. \A m \in Task : task'[m].order # None => task[m].order # None
  BY <1>1 DEF CalmStep
<1>7. \A m \in Task : task'[m].order # None => Alone(m)'
  <2>1. \A m, n \in Task : task[m].order # None /\ task[n].order # None => n = m
    BY DEF OrdersInv, OneOrder, Alone
  <2> QED
    BY <1>6, <2>1 DEF Alone
<1>8. busy' <=> \E m \in Task : task'[m].order # None
  <2>1. \A m, n \in Task : task[m].order # None /\ task[n].order # None => n = m
    BY DEF OrdersInv, OneOrder, Alone
  <2>2. busy <=> \E m \in Task : task[m].order # None
    BY DEF OrdersInv, OneOrder
  <2>3. CASE t.order = task[k].order /\ busy' = busy
    <3>1. \A m \in Task : task'[m].order = task[m].order
      BY <1>1, <2>3
    <3> QED
      BY <2>2, <2>3, <3>1
  <2>4. CASE t.order = None /\ busy' = (busy /\ task[k].order = None)
    <3>1. CASE task[k].order = None
      <4>1. \A m \in Task : task'[m].order = task[m].order
        BY <1>1, <2>4, <3>1
      <4> QED
        BY <2>2, <2>4, <3>1, <4>1
    <3>2. CASE task[k].order # None
      <4>1. \A m \in Task : task'[m].order = None
        BY <1>1, <2>1, <2>4, <3>2
      <4> QED
        BY <2>4, <3>2, <4>1
    <3> QED
      BY <3>1, <3>2
  <2> QED
    BY <2>3, <2>4 DEF CalmStep
<1>9. OneOrder'
  BY <1>5, <1>7, <1>8 DEF OrdersInv, OneOrder, CalmStep
<1>10. /\ tally'.opened = tally.opened /\ tally'.told = tally.told /\ tally'.posted = tally.posted
       /\ tally'.troubles \in Nat /\ tally'.troubles >= tally.troubles
  BY DEF PageTyped, OwnerTyped, Tally, CalmStep
<1>11. /\ One(AnyAt({"post"}))' = One(AnyAt({"post"}))
       /\ One(AnyAt({"posted"}))' = One(AnyAt({"posted"}))
       /\ One(dialog # None /\ ~AnyAt({"post", "posted"}))' = One(dialog # None /\ ~AnyAt({"post", "posted"}))
       /\ late' = late
  BY <1>5 DEF One, CalmStep
<1>12. /\ One(AnyAt({"post"})) \in Nat /\ One(AnyAt({"posted"})) \in Nat
       /\ One(dialog # None /\ ~AnyAt({"post", "posted"})) \in Nat
  BY OneIs
<1>13. Counted'
  BY <1>10, <1>11, <1>12, TallyIs DEF OrdersInv, Counted
<1> QED
  BY <1>9, <1>13 DEF OrdersInv

\* A step of the one function that has an order, or of any when none has one.
OrderStep(k, t) ==
  /\ task' = [task EXCEPT ![k] = t]
  /\ TaskTyped(t)
  /\ busy => task[k].order # None
  /\ busy' <=> t.order # None

LEMMA OrderStepShows ==
  ASSUME PageTyped, OneOrder, NEW k \in Task, NEW t, OrderStep(k, t)
  PROVE  /\ busy' <=> \E m \in Task : task'[m].order # None
         /\ \A m \in Task : task'[m].order # None => Alone(m)'
         /\ \A steps \in SUBSET Ordering :
              /\ AnyAt(steps) <=> task[k].step \in steps
              /\ AnyAt(steps)' <=> t.step \in steps
<1>1. \A m \in Task : task'[m] = IF m = k THEN t ELSE task[m]
  BY DEF PageTyped, Tasks, OrderStep
<1>2. \A m \in Task : task[m].order # None => m = k
  BY DEF OneOrder, Alone, OrderStep
<1>3. \A m \in Task : task'[m].order # None => m = k /\ t.order # None
  BY <1>1, <1>2
<1>4. \A m \in Task : /\ task[m].step \in Ordering => task[m].order # None
                      /\ task'[m].step \in Ordering => task'[m].order # None
  BY <1>1 DEF PageTyped, Tasks, TaskTyped, Shaped, OrderStep
<1>5. \A m \in Task : /\ task[m].step \in Ordering => m = k
                      /\ task'[m].step \in Ordering => m = k
  BY <1>2, <1>3, <1>4
<1>6. ASSUME NEW steps \in SUBSET Ordering
      PROVE  /\ AnyAt(steps) <=> task[k].step \in steps
             /\ AnyAt(steps)' <=> t.step \in steps
  BY <1>1, <1>5 DEF AnyAt
<1>7. busy' <=> \E m \in Task : task'[m].order # None
  BY <1>1, <1>3 DEF OrderStep
<1>8. \A m \in Task : task'[m].order # None => Alone(m)'
  BY <1>3 DEF Alone
<1> QED
  BY <1>6, <1>7, <1>8

Debt(t) == tally.posted + Cardinality(late) + One(t.step = "post")
             + One(dialog # None /\ t.step \notin {"post", "posted"})
             - (tally.opened + tally.troubles)
Told(t) == tally.told + One(t.step = "posted") - tally.posted

LEMMA OrderStepCounts ==
  ASSUME PageTyped, PageTyped', OrdersInv, NEW k \in Task, NEW t, OrderStep(k, t),
         t.step \in Ordering => dialog' # None,
         tally'.posted + Cardinality(late') + One(t.step = "post")
           + One(dialog' # None /\ t.step \notin {"post", "posted"})
           - (tally'.opened + tally'.troubles) <= Debt(task[k]),
         tally'.told + One(t.step = "posted") - tally'.posted <= Told(task[k])
  PROVE  OrdersInv'
<1>1. /\ busy' <=> \E m \in Task : task'[m].order # None
      /\ \A m \in Task : task'[m].order # None => Alone(m)'
      /\ \A steps \in SUBSET Ordering :
           /\ AnyAt(steps) <=> task[k].step \in steps
           /\ AnyAt(steps)' <=> t.step \in steps
  BY OrderStepShows DEF OrdersInv
<1>2. Ordering \in SUBSET Ordering /\ {"post"} \in SUBSET Ordering
      /\ {"posted"} \in SUBSET Ordering /\ {"post", "posted"} \in SUBSET Ordering
  BY DEF Ordering
<1>3. /\ AnyAt(Ordering)' => dialog' # None
      /\ AnyAt({"post"}) <=> task[k].step = "post"
      /\ AnyAt({"post"})' <=> t.step = "post"
      /\ AnyAt({"posted"}) <=> task[k].step = "posted"
      /\ AnyAt({"posted"})' <=> t.step = "posted"
      /\ AnyAt({"post", "posted"}) <=> task[k].step \in {"post", "posted"}
      /\ AnyAt({"post", "posted"})' <=> t.step \in {"post", "posted"}
  BY <1>1, <1>2
<1>4. OneOrder'
  BY <1>1, <1>3 DEF OneOrder
<1>5. /\ One(AnyAt({"post"})) = One(task[k].step = "post")
      /\ One(AnyAt({"posted"})) = One(task[k].step = "posted")
      /\ One(dialog # None /\ ~AnyAt({"post", "posted"})) =
           One(dialog # None /\ task[k].step \notin {"post", "posted"})
      /\ One(AnyAt({"post"}))' = One(t.step = "post")
      /\ One(AnyAt({"posted"}))' = One(t.step = "posted")
      /\ One(dialog # None /\ ~AnyAt({"post", "posted"}))' =
           One(dialog' # None /\ t.step \notin {"post", "posted"})
  BY <1>3 DEF One
<1>6. /\ tally'.opened \in Nat /\ tally'.told \in Nat /\ tally'.posted \in Nat
      /\ tally'.troubles \in Nat /\ Cardinality(late') \in Nat
  BY FS_CardinalityType DEF PageTyped, OwnerTyped, Tally
<1>7. \A b : One(b) \in Nat
  BY OneIs
<1>8. /\ tally.posted + Cardinality(late) + One(task[k].step = "post")
            + One(dialog # None /\ task[k].step \notin {"post", "posted"})
            <= tally.opened + tally.troubles
      /\ tally.told + One(task[k].step = "posted") <= tally.posted
  BY <1>5 DEF OrdersInv, Counted
<1>9. /\ tally'.posted + Cardinality(late') + One(t.step = "post")
            + One(dialog' # None /\ t.step \notin {"post", "posted"})
            <= tally'.opened + tally'.troubles
      /\ tally'.told + One(t.step = "posted") <= tally'.posted
  BY <1>6, <1>7, <1>8, TallyIs DEF Debt, Told
<1>10. Counted'
  BY <1>5, <1>9 DEF Counted
<1> QED
  BY <1>4, <1>10 DEF OrdersInv

LEMMA OrderedCounts ==
  ASSUME PageTyped, PageTyped', OrdersInv, NEW k \in Task, Ordered(k)
  PROVE  OrdersInv'
<1> DEFINE c == Cardinality(late)
<1>1. /\ Tasks /\ Shaped(task[k]) /\ task'[k] \in {task'[k]} /\ TaskTyped(task'[k])
      /\ task[k].step \in Ordering
  BY TaskIs DEF PageTyped, Tasks, Ordered, Ordering, Page!ServeOrder, Page!RefuseOrder,
       Page!Confirmed, Page!Refused, Page!GiveUpOrder
<1>2. task[k].order # None /\ busy /\ dialog # None
  BY <1>1 DEF Shaped, OrdersInv, OneOrder, AnyAt
<1>3. /\ tally.opened \in Nat /\ tally.told \in Nat /\ tally.posted \in Nat /\ tally.troubles \in Nat
      /\ c \in Nat
  BY TallyIs
<1>4. One(TRUE) = 1 /\ One(FALSE) = 0
  BY DEF One
<1> HIDE DEF c
<1>5. ASSUME NEW t, OrderStep(k, t), t.step \in Ordering => dialog' # None,
             NEW p \in {0, 1}, NEW q \in {0, 1}, NEW r \in {0, 1},
             NEW p1 \in {0, 1}, NEW q1 \in {0, 1}, NEW r1 \in {0, 1},
             One(task[k].step = "post") = p, One(t.step = "post") = p1,
             One(dialog # None /\ task[k].step \notin {"post", "posted"}) = q,
             One(dialog' # None /\ t.step \notin {"post", "posted"}) = q1,
             One(task[k].step = "posted") = r, One(t.step = "posted") = r1,
             tally'.posted + Cardinality(late') + p1 + q1 - (tally'.opened + tally'.troubles)
               <= tally.posted + c + p + q - (tally.opened + tally.troubles),
             tally'.told + r1 - tally'.posted <= tally.told + r - tally.posted
      PROVE  OrdersInv'
  BY <1>5, OrderStepCounts DEF Debt, Told, c
<1>6. CASE Page!ServeOrder(k)
  <2> DEFINE t == [task[k] EXCEPT !.step = "posted"]
  <2>1. /\ task[k].step = "post" /\ task' = [task EXCEPT ![k] = t]
        /\ tally' = [tally EXCEPT !.posted = @ + 1]
        /\ UNCHANGED <<dialog, busy, late>>
    BY <1>6 DEF Page!ServeOrder
  <2>2. t.step = "posted" /\ t.order = task[k].order /\ TaskTyped(t)
    BY <1>1, <2>1 DEF Shaped, Tasks
  <2> HIDE DEF t
  <2>3. OrderStep(k, t)
    BY <1>2, <2>1, <2>2 DEF OrderStep
  <2>4. /\ tally'.opened = tally.opened /\ tally'.told = tally.told
        /\ tally'.troubles = tally.troubles /\ tally'.posted = tally.posted + 1
    BY <2>1 DEF PageTyped, OwnerTyped, Tally
  <2>5. /\ One(task[k].step = "post") = 1 /\ One(t.step = "post") = 0
        /\ One(dialog # None /\ task[k].step \notin {"post", "posted"}) = 0
        /\ One(dialog' # None /\ t.step \notin {"post", "posted"}) = 0
        /\ One(task[k].step = "posted") = 0 /\ One(t.step = "posted") = 1
        /\ Cardinality(late') = c
    BY <2>1, <2>2 DEF One, c
  <2> QED
    BY <1>2, <1>3, <1>5, <2>1, <2>3, <2>4, <2>5
<1>7. CASE Page!RefuseOrder(k)
  <2> DEFINE t == [task[k] EXCEPT !.step = "refused"]
  <2>1. /\ task[k].step = "post" /\ task' = [task EXCEPT ![k] = t]
        /\ UNCHANGED <<dialog, busy, late, tally>>
    BY <1>7 DEF Page!RefuseOrder
  <2>2. t.step = "refused" /\ t.order = task[k].order /\ TaskTyped(t)
    BY <1>1, <2>1 DEF Shaped, Tasks
  <2> HIDE DEF t
  <2>3. OrderStep(k, t)
    BY <1>2, <2>1, <2>2 DEF OrderStep
  <2>5. /\ One(task[k].step = "post") = 1 /\ One(t.step = "post") = 0
        /\ One(dialog # None /\ task[k].step \notin {"post", "posted"}) = 0
        /\ One(dialog' # None /\ t.step \notin {"post", "posted"}) = 1
        /\ One(task[k].step = "posted") = 0 /\ One(t.step = "posted") = 0
        /\ Cardinality(late') = c
    BY <1>2, <2>1, <2>2 DEF One, c
  <2> QED
    BY <1>2, <1>3, <1>5, <2>1, <2>3, <2>5
<1>8. CASE Page!Confirmed(k)
  <2> DEFINE t == [task[k] EXCEPT !.step = "accounts"]
  <2>1. /\ task[k].step = "posted" /\ task' = [task EXCEPT ![k] = t] /\ dialog' = None
        /\ tally' = [tally EXCEPT !.told = @ + 1]
        /\ UNCHANGED <<busy, late>>
    BY <1>8 DEF Page!Confirmed
  <2>2. t.step = "accounts" /\ t.order = task[k].order /\ TaskTyped(t)
    BY <1>1, <2>1 DEF Shaped, Tasks
  <2> HIDE DEF t
  <2>3. OrderStep(k, t) /\ t.step \notin Ordering
    BY <1>2, <2>1, <2>2 DEF OrderStep, Ordering
  <2>4. /\ tally'.opened = tally.opened /\ tally'.told = tally.told + 1
        /\ tally'.troubles = tally.troubles /\ tally'.posted = tally.posted
    BY <2>1 DEF PageTyped, OwnerTyped, Tally
  <2>5. /\ One(task[k].step = "post") = 0 /\ One(t.step = "post") = 0
        /\ One(dialog # None /\ task[k].step \notin {"post", "posted"}) = 0
        /\ One(dialog' # None /\ t.step \notin {"post", "posted"}) = 0
        /\ One(task[k].step = "posted") = 1 /\ One(t.step = "posted") = 0
        /\ Cardinality(late') = c
    BY <1>2, <2>1, <2>2 DEF One, c
  <2> QED
    BY <1>2, <1>3, <1>5, <2>1, <2>3, <2>4, <2>5
<1> DEFINE u == Page!Idle
<1>9. u.step = "idle" /\ u.order = None /\ TaskTyped(u)
  BY IdleTyped DEF Page!Idle
<1> HIDE DEF u
<1>10. ASSUME Page!EndOf(k) PROVE OrderStep(k, u) /\ u.step \notin Ordering
  <2>1. task' = [task EXCEPT ![k] = u] /\ busy' = (busy /\ task[k].order = None)
    BY <1>10 DEF Page!EndOf, u
  <2> QED
    BY <1>2, <1>9, <2>1 DEF OrderStep, Ordering
<1>11. CASE Page!Refused(k)
  <2>1. task[k].step = "refused" /\ UNCHANGED <<dialog, late, tally>> /\ Page!EndOf(k)
    BY <1>11 DEF Page!Refused
  <2>2. /\ One(task[k].step = "post") = 0 /\ One(u.step = "post") = 0
        /\ One(dialog # None /\ task[k].step \notin {"post", "posted"}) = 1
        /\ One(dialog' # None /\ u.step \notin {"post", "posted"}) = 1
        /\ One(task[k].step = "posted") = 0 /\ One(u.step = "posted") = 0
        /\ Cardinality(late') = c
    BY <1>2, <1>9, <2>1 DEF One, c
  <2> QED
    BY <1>2, <1>3, <1>5, <1>10, <2>1, <2>2
<1>12. CASE Page!GiveUpOrder(k)
  <2>1. /\ task[k].step \in {"post", "posted"} /\ Page!EndOf(k) /\ UNCHANGED dialog
        /\ tally' = [tally EXCEPT !.troubles = @ + 1]
        /\ late' = IF task[k].step = "post" THEN late \cup {task[k].order} ELSE late
    BY <1>12 DEF Page!GiveUpOrder
  <2>2. /\ tally'.opened = tally.opened /\ tally'.told = tally.told
        /\ tally'.troubles = tally.troubles + 1 /\ tally'.posted = tally.posted
    BY <2>1 DEF PageTyped, OwnerTyped, Tally
  <2>3. /\ One(u.step = "post") = 0 /\ One(u.step = "posted") = 0
        /\ One(dialog # None /\ task[k].step \notin {"post", "posted"}) = 0
        /\ One(dialog' # None /\ u.step \notin {"post", "posted"}) = 1
    BY <1>2, <1>9, <2>1 DEF One
  <2>4. CASE task[k].step = "post"
    <3>1. Cardinality(late') \in Nat /\ Cardinality(late') <= c + 1
      <4>1. late' = late \cup {task[k].order} /\ IsFiniteSet(late)
        BY <2>1, <2>4 DEF PageTyped, OwnerTyped
      <4> DEFINE x == task[k].order
      <4>2. Cardinality(late \cup {x}) = IF x \in late THEN Cardinality(late) ELSE Cardinality(late) + 1
        BY <4>1, FS_AddElement
      <4>3. Cardinality(late') = IF x \in late THEN c ELSE c + 1
        BY <4>1, <4>2 DEF c
      <4> HIDE DEF x
      <4> QED
        BY <4>3, <1>3
    <3>2. One(task[k].step = "post") = 1 /\ One(task[k].step = "posted") = 0
      BY <2>4 DEF One
    <3> QED
      BY <1>2, <1>3, <1>5, <1>10, <2>1, <2>2, <2>3, <3>1, <3>2
  <2>5. CASE task[k].step = "posted"
    <3>1. Cardinality(late') = c
      BY <2>1, <2>5 DEF c
    <3>2. One(task[k].step = "post") = 0 /\ One(task[k].step = "posted") = 1
      BY <2>5 DEF One
    <3> QED
      BY <1>2, <1>3, <1>5, <1>10, <2>1, <2>2, <2>3, <3>1, <3>2
  <2> QED
    BY <2>1, <2>4, <2>5
<1> QED
  BY <1>6, <1>7, <1>8, <1>11, <1>12 DEF Ordered

SameTally == tally' = tally \/ tally' = [tally EXCEPT !.troubles = @ + 1]

LEMMA CalmEnd ==
  ASSUME NEW k \in Task, Page!EndOf(k), task[k].step \in CalmSteps, UNCHANGED <<dialog, late>>, SameTally
  PROVE  CalmStep(k, Page!Idle)
<1>1. Page!Idle.step \in CalmSteps /\ Page!Idle.order = None
  BY DEF Page!Idle, CalmSteps
<1> QED
  BY <1>1, IdleTyped DEF Page!EndOf, CalmStep, SameTally

LEMMA CalmAfterList ==
  ASSUME PageTyped, NEW k \in Task, Page!AfterList(k), task[k].step \in CalmSteps,
         UNCHANGED <<dialog, late>>, SameTally
  PROVE  \E t : CalmStep(k, t)
<1>1. CASE task[k].next > 0
  <2> DEFINE t == Page!Loading(task[k])
  <2>1. Shaped(task[k]) /\ task[k].next # 0
    BY <1>1, TaskIs DEF PageTyped
  <2>2. TaskTyped(t) /\ t.step = "history" /\ t.order = task[k].order
    BY <2>1, LoadingTyped
  <2>3. task' = [task EXCEPT ![k] = t] /\ busy' = busy
    BY <1>1 DEF Page!AfterList
  <2> HIDE DEF t
  <2>4. CalmStep(k, t)
    BY <2>2, <2>3 DEF CalmStep, CalmSteps, SameTally
  <2> QED
    BY <2>4
<1>2. CASE ~(task[k].next > 0)
  BY <1>2, CalmEnd DEF Page!AfterList
<1> QED
  BY <1>1, <1>2

LEMMA ListingIsCalm ==
  ASSUME PageTyped, PageTyped', NEW k \in Task, Listing(k)
  PROVE  \E t : CalmStep(k, t)
<1>1. Tasks /\ Shaped(task[k]) /\ TaskTyped(task'[k])
  BY TaskIs DEF PageTyped, Tasks
<1>2. CASE Page!ReadAccounts(k)
  <2> DEFINE g == [date |-> today, balance |-> [t \in PageTill |-> Page!BalanceIn(book, t)],
                   holder |-> holder, at |-> Len(book)]
             t == [task[k] EXCEPT !.step = "movements", !.got = g]
  <2>1. /\ task[k].step = "accounts" /\ task' = [task EXCEPT ![k] = t]
        /\ UNCHANGED <<dialog, busy, late, tally>>
    BY <1>2 DEF Page!ReadAccounts
  <2> HIDE DEF g
  <2>2. t.step = "movements" /\ t.order = task[k].order
    BY <1>1 DEF Shaped
  <2> HIDE DEF t
  <2>3. TaskTyped(t)
    BY <1>1, <2>1 DEF Tasks
  <2>4. CalmStep(k, t)
    BY <2>1, <2>2, <2>3 DEF CalmStep, CalmSteps
  <2> QED
    BY <2>4
<1>3. CASE Page!listAccountsWithDayStats(k)
  <2>1. PICK g : /\ task[k].step = "movements"
                 /\ task' = [task EXCEPT ![k] = [task[k] EXCEPT !.step = "listed", !.got = g]]
                 /\ UNCHANGED <<dialog, busy, late, tally>>
    BY <1>3 DEF Page!listAccountsWithDayStats
  <2> DEFINE t == [task[k] EXCEPT !.step = "listed", !.got = g]
  <2>2. t.step = "listed" /\ t.order = task[k].order
    BY <1>1 DEF Shaped
  <2> HIDE DEF t
  <2>3. TaskTyped(t) /\ task' = [task EXCEPT ![k] = t]
    BY <1>1, <2>1 DEF Tasks, t
  <2>4. CalmStep(k, t)
    BY <2>1, <2>2, <2>3 DEF CalmStep, CalmSteps
  <2> QED
    BY <2>4
<1>4. CASE Page!loadList(k)
  <2>1. Page!AfterList(k) /\ task[k].step \in CalmSteps /\ UNCHANGED <<dialog, late>> /\ SameTally
    BY <1>4 DEF Page!loadList, CalmSteps, SameTally
  <2> QED
    BY <2>1, CalmAfterList
<1>5. CASE Page!GiveUpList(k)
  <2>1. Page!AfterList(k) /\ task[k].step \in CalmSteps /\ UNCHANGED <<dialog, late>> /\ SameTally
    BY <1>5 DEF Page!GiveUpList, CalmSteps, SameTally
  <2> QED
    BY <2>1, CalmAfterList
<1> QED
  BY <1>2, <1>3, <1>4, <1>5 DEF Listing

LEMMA PagingIsCalm ==
  ASSUME PageTyped, PageTyped', NEW k \in Task, Paging(k)
  PROVE  \E t : CalmStep(k, t)
<1>1. Tasks /\ Shaped(task[k]) /\ TaskTyped(task'[k])
  BY TaskIs DEF PageTyped, Tasks
<1>2. ASSUME NEW r, Page!ReadHistory(k, r) PROVE \E t : CalmStep(k, t)
  <2> DEFINE g == ReadOn(task[k], r)
             t == [task[k] EXCEPT !.got = g]
  <2>1. /\ task[k].step = "history" /\ task' = [task EXCEPT ![k] = t]
        /\ UNCHANGED <<dialog, busy, late, tally>>
    BY <1>2, ReadHistoryIs
  <2> HIDE DEF g
  <2>2. t.step = "history" /\ t.order = task[k].order
    BY <1>1, <2>1 DEF Shaped
  <2> HIDE DEF t
  <2>3. TaskTyped(t)
    BY <1>1, <2>1 DEF Tasks
  <2>4. CalmStep(k, t)
    BY <2>1, <2>2, <2>3 DEF CalmStep, CalmSteps
  <2> QED
    BY <2>4
<1>3. CASE Page!loadMovements(k)
  <2>1. Page!EndOf(k) /\ task[k].step \in CalmSteps /\ UNCHANGED <<dialog, late>> /\ SameTally
    BY <1>3 DEF Page!loadMovements, CalmSteps, SameTally
  <2> QED
    BY <2>1, CalmEnd
<1>4. CASE Page!GiveUpHistory(k)
  <2>1. Page!EndOf(k) /\ task[k].step \in CalmSteps /\ UNCHANGED <<dialog, late>> /\ SameTally
    BY <1>4 DEF Page!GiveUpHistory, CalmSteps, SameTally
  <2> QED
    BY <2>1, CalmEnd
<1> QED
  BY <1>2, <1>3, <1>4 DEF Paging

LEMMA LoadsIsCalm ==
  ASSUME PageTyped, PageTyped', NEW k \in Task, NEW n, NEW f, Page!LoadsHistory(k, n, f),
         UNCHANGED <<dialog, busy, late, tally>>
  PROVE  \E t : CalmStep(k, t)
<1> DEFINE t == Page!Loading(Page!Running("history", None, n, f))
<1>1. task' = [task EXCEPT ![k] = t] /\ task[k].step = "idle"
  BY DEF Page!LoadsHistory, Page!Starts, Page!Free
<1>2. t.step = "history" /\ t.order = None
  BY DEF Page!Loading, Page!Running
<1>3. task[k].order = None /\ TaskTyped(task'[k]) /\ Tasks
  BY <1>1, TaskIs DEF PageTyped, Tasks, Shaped
<1> HIDE DEF t
<1>4. TaskTyped(t)
  BY <1>1, <1>3 DEF Tasks
<1>5. CalmStep(k, t)
  BY <1>1, <1>2, <1>3, <1>4 DEF CalmStep, CalmSteps
<1> QED
  BY <1>5

LEMMA BegunCounts ==
  ASSUME PageTyped, PageTyped', OrdersInv, NEW k \in Task, Begun(k)
  PROVE  OrdersInv'
<1>1. CASE Page!refreshAll(k)
  <2> DEFINE t == Page!Running("accounts", None, IF showHistory THEN page ELSE 0, form)
  <2>1. /\ task' = [task EXCEPT ![k] = t] /\ task[k].step = "idle"
        /\ UNCHANGED <<dialog, busy, late, tally>>
    BY <1>1 DEF Page!refreshAll, Page!Starts, Page!Free
  <2>2. t.step = "accounts" /\ t.order = None
    BY DEF Page!Running
  <2>3. task[k].order = None /\ TaskTyped(task'[k]) /\ Tasks
    BY <2>1, TaskIs DEF PageTyped, Tasks, Shaped
  <2> HIDE DEF t
  <2>4. TaskTyped(t)
    BY <2>1, <2>3 DEF Tasks
  <2>5. CalmStep(k, t)
    BY <2>1, <2>2, <2>3, <2>4 DEF CalmStep, CalmSteps
  <2> QED
    BY <2>5, CalmStepKeeps
<1>2. CASE Page!openHistory(k) \/ Page!applyFilters(k) \/ Page!resetFilters(k) \/ Page!turnPage(k)
  <2>1. \E n, f : Page!LoadsHistory(k, n, f)
    BY <1>2 DEF Page!openHistory, Page!applyFilters, Page!resetFilters, Page!turnPage
  <2>2. UNCHANGED <<dialog, busy, late, tally>>
    BY <1>2 DEF Page!openHistory, Page!applyFilters, Page!resetFilters, Page!turnPage
  <2> QED
    BY <2>1, <2>2, LoadsIsCalm, CalmStepKeeps
<1>3. CASE Page!submit(k)
  <2> DEFINE t == Page!Running("post", Page!Order(dialog),
                               IF showHistory /\ dialog.kind # "assign" THEN 1 ELSE 0, form)
  <2>1. /\ task' = [task EXCEPT ![k] = t] /\ task[k].step = "idle" /\ busy' = TRUE
        /\ dialog # None /\ ~busy
        /\ UNCHANGED <<dialog, late, tally>>
    BY <1>3 DEF Page!submit, Page!MaySubmit, Page!Starts, Page!Free
  <2>2. t.step = "post"
    BY DEF Page!Running
  <2>3. TaskTyped(task'[k]) /\ Tasks
    BY DEF PageTyped, Tasks
  <2> HIDE DEF t
  <2>4. TaskTyped(t)
    BY <2>1, <2>3 DEF Tasks
  <2>5. t.order # None
    BY <2>2, <2>4 DEF TaskTyped, Shaped, Ordering
  <2>6. OrderStep(k, t)
    BY <2>1, <2>4, <2>5 DEF OrderStep
  <2>7. /\ One(task[k].step = "post") = 0 /\ One(t.step = "post") = 1
        /\ One(dialog # None /\ task[k].step \notin {"post", "posted"}) = 1
        /\ One(dialog' # None /\ t.step \notin {"post", "posted"}) = 0
        /\ One(task[k].step = "posted") = 0 /\ One(t.step = "posted") = 0
        /\ Cardinality(late') = Cardinality(late) /\ tally' = tally
    BY <2>1, <2>2 DEF One
  <2> HIDE DEF OrderStep
  <2>8. /\ tally'.posted + Cardinality(late') + One(t.step = "post")
             + One(dialog' # None /\ t.step \notin {"post", "posted"})
             - (tally'.opened + tally'.troubles) <= Debt(task[k])
        /\ tally'.told + One(t.step = "posted") - tally'.posted <= Told(task[k])
    BY <2>7, TallyIs DEF Debt, Told
  <2> QED
    BY <2>1, <2>6, <2>8, OrderStepCounts
<1> QED
  BY <1>1, <1>2, <1>3 DEF Begun

\* A step that starts, ends and moves no function.
LEMMA StillCounts ==
  ASSUME PageTyped, PageTyped', OrdersInv, UNCHANGED <<task, busy>>,
         AnyAt(Ordering) => dialog' # None,
         tally'.posted + Cardinality(late') + One(dialog' # None /\ ~AnyAt({"post", "posted"}))
           - (tally'.opened + tally'.troubles)
         <= tally.posted + Cardinality(late) + One(dialog # None /\ ~AnyAt({"post", "posted"}))
           - (tally.opened + tally.troubles),
         tally'.told - tally'.posted <= tally.told - tally.posted
  PROVE  OrdersInv'
<1>1. \A steps : AnyAt(steps)' <=> AnyAt(steps)
  BY DEF AnyAt
<1>2. OneOrder'
  BY <1>1 DEF OrdersInv, OneOrder, Alone
<1>3. /\ One(AnyAt({"post"}))' = One(AnyAt({"post"})) /\ One(AnyAt({"posted"}))' = One(AnyAt({"posted"}))
      /\ One(dialog # None /\ ~AnyAt({"post", "posted"}))' = One(dialog' # None /\ ~AnyAt({"post", "posted"}))
  BY <1>1 DEF One
<1>4. \A b : One(b) \in Nat
  BY OneIs
<1>5. /\ tally'.opened \in Nat /\ tally'.told \in Nat /\ tally'.posted \in Nat
      /\ tally'.troubles \in Nat /\ Cardinality(late') \in Nat
  BY FS_CardinalityType DEF PageTyped, OwnerTyped, Tally
<1>6. Counted'
  BY <1>3, <1>4, <1>5, TallyIs DEF OrdersInv, Counted
<1> QED
  BY <1>2, <1>6 DEF OrdersInv

LEMMA CalmCounts ==
  ASSUME PageTyped, PageTyped', OrdersInv, Calm
  PROVE  OrdersInv'
<1>1. /\ tally.opened \in Nat /\ tally.told \in Nat /\ tally.posted \in Nat /\ tally.troubles \in Nat
      /\ Cardinality(late) \in Nat
  BY TallyIs
<1>2. \A b : One(b) \in Nat
  BY OneIs
<1>3. ASSUME dialog' # None \/ ~AnyAt(Ordering), dialog' = dialog \/ dialog # None,
             UNCHANGED <<task, busy, late, tally>>
      PROVE  OrdersInv'
  <2>1. One(dialog' # None /\ ~AnyAt({"post", "posted"})) <= One(dialog # None /\ ~AnyAt({"post", "posted"}))
    BY <1>3 DEF One
  <2> QED
    BY <1>1, <1>2, <1>3, <2>1, StillCounts
<1>4. AnyAt(Ordering) => busy /\ dialog # None
  BY DEF OrdersInv, OneOrder, AnyAt, PageTyped, Tasks, TaskTyped, Shaped
<1>5. ASSUME UNCHANGED <<dialog, task, busy, late, tally>> PROVE OrdersInv'
  BY <1>3, <1>4, <1>5
<1>6. CASE Page!Elsewhere \/ Page!Midnight \/ Page!hideHistory \/ Page!setFilters
  BY <1>5, <1>6 DEF Page!Elsewhere, Page!Midnight, Page!hideHistory, Page!setFilters
<1>7. CASE Page!ServeLate
  <2>1. PICK o \in late : late' = late \ {o} /\ tally' = [tally EXCEPT !.posted = @ + 1]
                          /\ UNCHANGED <<dialog, busy, task>>
    BY <1>7 DEF Page!ServeLate
  <2>2. Cardinality(late') = Cardinality(late) - 1
    <3>1. IsFiniteSet(late)
      BY DEF PageTyped, OwnerTyped
    <3> QED
      BY <2>1, <3>1, FS_RemoveElement
  <2>3. /\ tally'.opened = tally.opened /\ tally'.told = tally.told
        /\ tally'.troubles = tally.troubles /\ tally'.posted = tally.posted + 1
    BY <2>1 DEF PageTyped, OwnerTyped, Tally
  <2>4. dialog' = dialog
    BY <2>1
  <2> QED
    BY <1>1, <1>2, <1>4, <2>1, <2>2, <2>3, <2>4, StillCounts
<1>8. ASSUME dialog # None, dialog' # None, UNCHANGED <<task, busy, late, tally>> PROVE OrdersInv'
  BY <1>3, <1>8
<1>9. CASE Page!fillForm \/ Page!chooseStaff \/ Page!backToForm
  <2>1. dialog # None /\ dialog' # None
    BY <1>9, DialogTyped, PageAssumption
  <2> QED
    BY <1>8, <1>9, <2>1 DEF Page!fillForm, Page!chooseStaff, Page!backToForm
<1>10. CASE Page!closeModals
  BY <1>3, <1>4, <1>10 DEF Page!closeModals
<1>11. ASSUME NEW kind \in Kind, Page!openDialog(kind) PROVE OrdersInv'
  <2>1. dialog = None /\ tally' = [tally EXCEPT !.opened = @ + 1] /\ UNCHANGED <<busy, task, late>>
    BY <1>11 DEF Page!openDialog, Page!Uncovered
  <2>2. /\ tally'.opened = tally.opened + 1 /\ tally'.told = tally.told
        /\ tally'.troubles = tally.troubles /\ tally'.posted = tally.posted
        /\ late' = late
    BY <2>1 DEF PageTyped, OwnerTyped, Tally
  <2>3. /\ One(dialog # None /\ ~AnyAt({"post", "posted"})) = 0
        /\ One(dialog' # None /\ ~AnyAt({"post", "posted"})) <= 1
    BY <2>1 DEF One
  <2> QED
    BY <1>1, <1>2, <1>4, <2>1, <2>2, <2>3, StillCounts
<1> QED
  BY <1>6, <1>7, <1>9, <1>10, <1>11 DEF Calm

LEMMA OrdersInit == Page!Init => OrdersInv
<1> SUFFICES ASSUME Page!Init PROVE OrdersInv
  OBVIOUS
<1>1. /\ task = [k \in Task |-> Page!Idle] /\ dialog = None /\ busy = FALSE /\ late = {}
      /\ tally = [opened |-> 0, told |-> 0, posted |-> 0, troubles |-> 0]
  BY DEF Page!Init
<1>2. \A k \in Task : task[k].step = "idle" /\ task[k].order = None
  BY <1>1 DEF Page!Idle
<1>3. ~AnyAt(Ordering) /\ ~AnyAt({"post"}) /\ ~AnyAt({"posted"})
  BY <1>2 DEF AnyAt, Ordering
<1>4. OneOrder
  BY <1>1, <1>2, <1>3 DEF OneOrder
<1>5. Counted
  <2>1. One(AnyAt({"post"})) = 0 /\ One(AnyAt({"posted"})) = 0
        /\ One(dialog # None /\ ~AnyAt({"post", "posted"})) = 0 /\ Cardinality(late) = 0
    BY <1>1, <1>3, FS_EmptySet DEF One
  <2>2. tally.posted = 0 /\ tally.told = 0 /\ tally.opened = 0 /\ tally.troubles = 0
    BY <1>1
  <2> QED
    BY <2>1, <2>2 DEF Counted
<1> QED
  BY <1>4, <1>5 DEF OrdersInv

LEMMA OrdersStep == PageTyped /\ PageTyped' /\ OrdersInv /\ [Page!Next]_Page!vars => OrdersInv'
<1> SUFFICES ASSUME PageTyped, PageTyped', OrdersInv, [Page!Next]_Page!vars PROVE OrdersInv'
  OBVIOUS
<1>1. CASE Page!Next
  <2>1. CASE Calm
    BY <2>1, CalmCounts
  <2>2. ASSUME NEW k \in Task, Ordered(k) \/ Listing(k) \/ Paging(k) \/ Begun(k) PROVE OrdersInv'
    <3>1. CASE Ordered(k)
      BY <3>1, OrderedCounts
    <3>2. CASE Listing(k) \/ Paging(k)
      BY <3>2, ListingIsCalm, PagingIsCalm, CalmStepKeeps
    <3>3. CASE Begun(k)
      BY <3>3, BegunCounts
    <3> QED
      BY <2>2, <3>1, <3>2, <3>3
  <2> QED
    BY <1>1, <2>1, <2>2, StepsAre
<1>2. CASE UNCHANGED Page!vars
  <2>1. UNCHANGED <<dialog, busy, late, tally, task>>
    BY <1>2 DEF Page!vars
  <2> QED
    BY <2>1 DEF OrdersInv, OneOrder, Counted, AnyAt, Alone
<1> QED
  BY <1>1, <1>2

LEMMA OrdersShow == PageTyped /\ OrdersInv => OrdersCountedOnce
<1> SUFFICES ASSUME PageTyped, OrdersInv PROVE OrdersCountedOnce
  OBVIOUS
<1>1. \A b : One(b) \in Nat
  BY OneIs
<1> QED
  BY <1>1, TallyIs DEF OrdersInv, Counted, OrdersCountedOnce, Page!OrdersCountedOnce

\* However often the owner clicks, a dialog posts what it was confirmed for
\* once, but for orders reported as failed and repeated, and what was reported
\* as done was posted (submitCredit, submitWithdraw, submitAssign).
THEOREM OrdersAreCountedOnce == Page!Spec => []OrdersCountedOnce
<1>1. Page!Spec => []PageTyped
  BY PageTypes
<1>2. Page!Init => OrdersInv
  BY OrdersInit
<1>3. PageTyped /\ PageTyped' /\ OrdersInv /\ [Page!Next]_Page!vars => OrdersInv'
  BY OrdersStep
<1>4. PageTyped /\ OrdersInv => OrdersCountedOnce
  BY OrdersShow
<1> QED
  BY <1>1, <1>2, <1>3, <1>4, PTL DEF Page!Spec

-----------------------------------------------------------------------------
(***************************************************************************)
(* The types of both parts.                                                *)
(***************************************************************************)

LEMMA PrimeTyped == PrimeInv => TypeOK
<1> SUFFICES ASSUME PrimeInv PROVE TypeOK
  OBVIOUS
<1>1. BooksTyped /\ LocksHeld /\ TablesTyped /\ ShiftTyped
  BY DEF PrimeInv, Books
<1>2. ASSUME NEW t \in Till
      PROVE  lock[t] = (IF \E w \in Worker : At(w, "post") /\ call[w].till = t
                        THEN CHOOSE w \in Worker : At(w, "post") /\ call[w].till = t ELSE None)
  <2>1. \A w \in Worker : At(w, "post") /\ call[w].till = t => lock[t] = w
    BY <1>1 DEF LocksHeld, At
  <2>2. CASE \E w \in Worker : At(w, "post") /\ call[w].till = t
    BY <2>1, <2>2
  <2>3. CASE ~\E w \in Worker : At(w, "post") /\ call[w].till = t
    <3>1. lock[t] = None
      BY <1>1, <2>3 DEF LocksHeld, At, BooksTyped
    <3> QED
      BY <2>3, <3>1
  <2> QED
    BY <2>2, <2>3
<1> QED
  BY <1>1, <1>2 DEF TypeOK, BooksTyped, TablesTyped, ShiftTyped

LEMMA PageShape == PageTyped /\ OrdersInv => Page!TypeOK
<1> SUFFICES ASSUME PageTyped, OrdersInv PROVE Page!TypeOK
  OBVIOUS
<1>1. book \in Seq(Page!Movement) /\ holder \in [PageTill -> PageStaff \cup {None}]
  BY DEF PageTyped, BookTyped, Holder
<1>2. list # None => /\ list.rows \in [PageTill -> Page!DayStats]
                     /\ list.holder \in [PageTill -> PageStaff \cup {None}]
  BY DEF PageTyped, ScreenTyped, ListSet, Holder
<1>3. (history # None => history \in Page!HistoryPage) /\ form \in Page!Filter /\ page \in Nat \ {0}
  BY DEF PageTyped, ScreenTyped
<1>4. \A k \in Task : task[k].step \in {"idle", "post", "posted", "refused", "accounts",
                                        "movements", "listed", "history"}
  BY DEF PageTyped, Tasks, TaskTyped, Shaped, Ordering, CalmSteps
<1>5. busy = (\E k \in Task : task[k].order # None)
  <2>1. busy <=> \E k \in Task : task[k].order # None
    BY DEF OrdersInv, OneOrder
  <2>2. busy \in BOOLEAN
    BY DEF PageTyped, OwnerTyped
  <2> QED
    BY <2>1, <2>2, Zenon
<1> QED
  BY <1>1, <1>2, <1>3, <1>4, <1>5 DEF Page!TypeOK

\* The primes and the page keep their types, and the buttons of the dialogs are
\* blocked exactly while an order is under way (actionBusy).
THEOREM PartsKeepTheirTypes == Spec /\ Page!Spec => []PartsTypeOK
<1>1. Spec => []PrimeInv
  BY PrimeInvariant
<1>2. Page!Spec => []PageTyped
  BY PageTypes
<1>3. Page!Init => OrdersInv
  BY OrdersInit
<1>4. PageTyped /\ PageTyped' /\ OrdersInv /\ [Page!Next]_Page!vars => OrdersInv'
  BY OrdersStep
<1>5. PrimeInv /\ PageTyped /\ OrdersInv => PartsTypeOK
  BY PrimeTyped, PageShape DEF PartsTypeOK
<1> QED
  BY <1>1, <1>2, <1>3, <1>4, <1>5, PTL DEF Page!Spec

-----------------------------------------------------------------------------
(***************************************************************************)
(* What the list shows of the day. A list is sound if it is what the first *)
(* at movements of the book say; the balances and the movements are read   *)
(* one after the other, so that a function half way knows the balances as  *)
(* they were at the first query.                                           *)
(***************************************************************************)

\* The figures of a list that was read from the book b.
BalancesOf(b) == [t \in PageTill |-> Page!BalanceIn(b, t)]
ReadFrom(l, b) ==
  /\ \A i \in DOMAIN b : b[i].day <= l.date
  /\ l.total = TillSum(BalancesOf(b))
  /\ l.rows = [t \in PageTill |-> Page!DayOfTill(b, t, l.date, BalancesOf(b)[t])]

\* A list read at a moment that the book b goes back to, and a function that reads one.
Sound(l, b) == l.at <= Len(b) /\ (l.quiet => ReadFrom(l, SubSeq(b, 1, l.at)))
Halfway(g, b) ==
  /\ g.at <= Len(b)
  /\ LET then == SubSeq(b, 1, g.at) IN
       /\ \A i \in DOMAIN then : then[i].day <= g.date
       /\ g.balance = BalancesOf(then)
Underway(t, b) ==
  /\ t.step = "movements" => Halfway(t.got, b)
  /\ t.step = "listed" => Sound(t.got, b)

DayInv ==
  /\ \A i \in DOMAIN book : book[i].day <= today
  /\ list # None => Sound(list, book)
  /\ \A k \in Task : Underway(task[k], book)

LEMMA ThenIs ==
  ASSUME NEW b \in BookSet, NEW n \in Nat, n <= Len(b)
  PROVE  /\ SubSeq(b, 1, n) \in BookSet
         /\ DOMAIN SubSeq(b, 1, n) = 1 .. n
         /\ Len(SubSeq(b, 1, n)) = n
         /\ \A i \in 1 .. n : SubSeq(b, 1, n)[i] = b[i]
BY DEF BookSet

LEMMA AllIs ==
  ASSUME NEW b \in BookSet
  PROVE  SubSeq(b, 1, Len(b)) = b
BY DEF BookSet

LEMMA ThenStays ==
  ASSUME NEW b \in BookSet, NEW m \in Page!Movement, NEW n \in Nat, n <= Len(b)
  PROVE  /\ Append(b, m) \in BookSet /\ Len(Append(b, m)) = Len(b) + 1
         /\ SubSeq(Append(b, m), 1, n) = SubSeq(b, 1, n)
         /\ Append(b, m)[Len(b) + 1] = m /\ \A i \in DOMAIN b : Append(b, m)[i] = b[i]
<1>1. Append(b, m) \in BookSet /\ Len(Append(b, m)) = Len(b) + 1
      /\ Append(b, m)[Len(b) + 1] = m /\ \A i \in 1 .. Len(b) : Append(b, m)[i] = b[i]
  BY DEF BookSet
<1>2. SubSeq(Append(b, m), 1, n) = SubSeq(b, 1, n)
  <2>1. SubSeq(Append(b, m), 1, n) = [i \in 1 .. n |-> Append(b, m)[i]]
        /\ SubSeq(b, 1, n) = [i \in 1 .. n |-> b[i]]
    BY <1>1 DEF BookSet
  <2>2. \A i \in 1 .. n : i \in 1 .. Len(b)
    BY DEF BookSet
  <2> QED
    BY <1>1, <2>1, <2>2
<1> QED
  BY <1>1, <1>2, BookIs

\* Movements are only ever added, and the date only goes on.
Grows ==
  /\ book' = book \/ \E m \in Page!Movement : m.day = today /\ book' = Append(book, m)
  /\ today <= today'

LEMMA PostedGrows ==
  ASSUME BookTyped, NEW t \in PageTill, NEW s \in Holder, NEW type \in Page!MovementType,
         NEW amount \in Int, Page!Posted(t, s, type, amount), today' = today
  PROVE  Grows
<1> DEFINE m == [till |-> t, staff |-> s, type |-> type, amount |-> amount, day |-> today]
<1>1. m \in Page!Movement /\ m.day = today /\ today \in Nat
  BY DEF Page!Movement, BookTyped, Holder
<1>2. book' = Append(book, m)
  BY DEF Page!Posted
<1> HIDE DEF m
<1> QED
  BY <1>1, <1>2 DEF Grows

LEMMA CarriesGrows ==
  ASSUME PageTyped, NEW o \in OrderSet, Page!Carries(o), today' = today
  PROVE  Grows
<1>1. BookTyped /\ o.till \in PageTill /\ o.amount \in Nat /\ o.staff \in Holder
  BY DEF PageTyped, OrderSet
<1>2. CASE Page!Credits(o)
  <2>1. Page!Posted(o.till, None, "MANUAL_INCOME", o.amount)
    BY <1>2 DEF Page!Credits
  <2>2. None \in Holder /\ "MANUAL_INCOME" \in Page!MovementType /\ o.amount \in Int
    BY <1>1 DEF Holder, Page!MovementType
  <2> QED
    BY <1>1, <2>1, <2>2, PostedGrows
<1>3. CASE Page!Withdraws(o)
  <2>1. Page!Posted(o.till, holder[o.till], "WITHDRAWAL", -o.amount)
    BY <1>3 DEF Page!Withdraws
  <2>2. holder[o.till] \in Holder /\ "WITHDRAWAL" \in Page!MovementType /\ -o.amount \in Int
    BY <1>1 DEF Page!MovementType, BookTyped
  <2> QED
    BY <1>1, <2>1, <2>2, PostedGrows
<1>4. CASE Page!Assigns(o)
  BY <1>1, <1>4 DEF Page!Assigns, Grows, BookTyped
<1> QED
  BY <1>2, <1>3, <1>4 DEF Page!Carries

LEMMA BookGrows == PageTyped /\ [Page!Next]_Page!vars => Grows
<1> SUFFICES ASSUME PageTyped, [Page!Next]_Page!vars PROVE Grows
  OBVIOUS
<1>1. today \in Nat /\ BookTyped
  BY DEF PageTyped, BookTyped
<1>2. ASSUME UNCHANGED <<book, today>> PROVE Grows
  BY <1>1, <1>2 DEF Grows
<1>3. CASE Calm
  <2>1. CASE Page!Elsewhere
    <3>1. PICK t \in pageWorld.tills, s \in pageWorld.staff, p \in pageWorld.posted :
            Page!Posted(t, s, p.type, p.amount) /\ today' = today
      BY <2>1 DEF Page!Elsewhere
    <3>2. t \in PageTill /\ s \in Holder /\ p.type \in Page!MovementType /\ p.amount \in Int
      BY WorldIs DEF PageWorldSet
    <3> QED
      BY <1>1, <3>1, <3>2, PostedGrows
  <2>2. CASE Page!Midnight
    BY <1>1, <2>2 DEF Page!Midnight, Grows
  <2>3. CASE Page!ServeLate
    <3>1. PICK o \in late : Page!Carries(o) /\ today' = today
      BY <2>3 DEF Page!ServeLate
    <3>2. o \in OrderSet
      BY DEF PageTyped, OwnerTyped
    <3> QED
      BY <3>1, <3>2, CarriesGrows
  <2>4. ASSUME NEW kind \in Kind, Page!openDialog(kind) PROVE Grows
    BY <1>2, <2>4 DEF Page!openDialog, Page!server
  <2> QED
    BY <1>2, <1>3, <2>1, <2>2, <2>3, <2>4 DEF Calm, Page!hideHistory, Page!setFilters,
       Page!fillForm, Page!chooseStaff, Page!backToForm, Page!closeModals, Page!server
<1>4. ASSUME NEW k \in Task, Page!ServeOrder(k) PROVE Grows
  <2>1. task[k].order \in OrderSet
    BY <1>4, TaskIs DEF PageTyped, Shaped, Ordering, Page!ServeOrder
  <2> QED
    BY <1>4, <2>1, CarriesGrows DEF Page!ServeOrder
<1>5. ASSUME NEW k \in Task, Ordered(k) PROVE Grows
  BY <1>2, <1>4, <1>5 DEF Ordered, Page!RefuseOrder, Page!Confirmed, Page!Refused,
     Page!GiveUpOrder, Page!server
<1>6. ASSUME NEW k \in Task, Listing(k) PROVE Grows
  BY <1>2, <1>6 DEF Listing, Page!ReadAccounts, Page!listAccountsWithDayStats, Page!loadList,
     Page!GiveUpList, Page!server
<1>7. ASSUME NEW k \in Task, Paging(k) PROVE Grows
  BY <1>2, <1>7, ReadHistoryIs DEF Paging, Page!loadMovements, Page!GiveUpHistory, Page!server
<1>8. ASSUME NEW k \in Task, Begun(k) PROVE Grows
  BY <1>2, <1>8 DEF Begun, Page!refreshAll, Page!openHistory, Page!applyFilters,
     Page!resetFilters, Page!turnPage, Page!submit, Page!server
<1>9. CASE UNCHANGED Page!vars
  BY <1>2, <1>9 DEF Page!vars
<1> QED
  BY <1>3, <1>5, <1>6, <1>7, <1>8, <1>9, StepsAre

LEMMA BookStays ==
  ASSUME PageTyped, Grows
  PROVE  /\ book \in BookSet /\ book' \in BookSet
         /\ \A n \in Nat : n <= Len(book) => n <= Len(book') /\ SubSeq(book', 1, n) = SubSeq(book, 1, n)
<1>1. book \in BookSet /\ Len(book) \in Nat
  BY DEF PageTyped, BookTyped, BookSet
<1>2. CASE book' = book
  BY <1>1, <1>2
<1>3. CASE \E m \in Page!Movement : m.day = today /\ book' = Append(book, m)
  <2>1. PICK m \in Page!Movement : book' = Append(book, m)
    BY <1>3
  <2>2. Len(book') = Len(book) + 1 /\ book' \in BookSet
    BY <1>1, <2>1, ThenStays
  <2>3. ASSUME NEW n \in Nat, n <= Len(book) PROVE n <= Len(book') /\ SubSeq(book', 1, n) = SubSeq(book, 1, n)
    BY <1>1, <2>1, <2>2, <2>3, ThenStays
  <2> QED
    BY <1>1, <2>2, <2>3
<1> QED
  BY <1>2, <1>3 DEF Grows

LEMMA DaysStay ==
  ASSUME PageTyped, Grows, \A i \in DOMAIN book : book[i].day <= today, today' \in Nat
  PROVE  \A i \in DOMAIN book' : book'[i].day <= today'
<1>1. book \in BookSet /\ Len(book) \in Nat /\ today \in Nat
  BY DEF PageTyped, BookTyped, BookSet
<1>2. \A i \in DOMAIN book : book[i].day \in Nat
  BY <1>1, BookIs DEF Page!Movement
<1>3. CASE book' = book
  BY <1>1, <1>2, <1>3 DEF Grows
<1>4. CASE \E m \in Page!Movement : m.day = today /\ book' = Append(book, m)
  <2>1. PICK m \in Page!Movement : m.day = today /\ book' = Append(book, m)
    BY <1>4
  <2>2. /\ Len(book') = Len(book) + 1 /\ book' \in BookSet
        /\ book'[Len(book) + 1] = m /\ \A i \in DOMAIN book : book'[i] = book[i]
    BY <1>1, <2>1, ThenStays
  <2>3. \A i \in DOMAIN book' : i \in DOMAIN book \/ i = Len(book) + 1
    BY <1>1, <2>2, BookIs
  <2> QED
    BY <1>1, <1>2, <2>1, <2>2, <2>3 DEF Grows
<1> QED
  BY <1>3, <1>4 DEF Grows

LEMMA SoundStays ==
  ASSUME PageTyped, Grows, NEW l \in ListSet, Sound(l, book)
  PROVE  Sound(l, book')
<1>1. l.at \in Nat
  BY DEF ListSet
<1> QED
  BY <1>1, BookStays DEF Sound

LEMMA UnderwayStays ==
  ASSUME PageTyped, Grows, NEW t, GotTyped(t), Underway(t, book)
  PROVE  Underway(t, book')
<1>1. ASSUME t.step = "movements" PROVE Halfway(t.got, book')
  <2>1. t.got.at \in Nat
    BY <1>1 DEF GotTyped, AccountsRead
  <2>2. Halfway(t.got, book)
    BY <1>1 DEF Underway
  <2> QED
    BY <2>1, <2>2, BookStays DEF Halfway
<1>2. ASSUME t.step = "listed" PROVE Sound(t.got, book')
  BY <1>2, SoundStays DEF GotTyped, Underway
<1> QED
  BY <1>1, <1>2 DEF Underway

\* A step that neither reads nor shows the tills.
Elsewise ==
  /\ list' = list
  /\ \A k \in Task : task'[k] = task[k] \/ task'[k].step \notin {"movements", "listed"}

LEMMA ElsewiseKeeps ==
  ASSUME PageTyped, PageTyped', DayInv, Grows, Elsewise
  PROVE  DayInv'
<1>1. \A i \in DOMAIN book' : book'[i].day <= today'
  BY DaysStay DEF DayInv, PageTyped, BookTyped
<1>2. list' # None => Sound(list', book')
  BY SoundStays DEF DayInv, Elsewise, PageTyped, ScreenTyped
<1>3. ASSUME NEW k \in Task PROVE Underway(task'[k], book')
  <2>1. CASE task'[k] = task[k]
    <3>1. GotTyped(task[k]) /\ Underway(task[k], book)
      BY TaskIs DEF PageTyped, DayInv
    <3> QED
      BY <2>1, <3>1, UnderwayStays
  <2>2. CASE task'[k].step \notin {"movements", "listed"}
    BY <2>2 DEF Underway
  <2> QED
    BY <2>1, <2>2 DEF Elsewise
<1> QED
  BY <1>1, <1>2, <1>3 DEF DayInv

LEMMA OneTask ==
  ASSUME Tasks, NEW k \in Task, NEW t, task' = [task EXCEPT ![k] = t],
         t.step \notin {"movements", "listed"}, list' = list
  PROVE  Elsewise
BY DEF Tasks, Elsewise

LEMMA StepIs ==
  ASSUME Tasks, NEW k \in Task, NEW s
  PROVE  [task[k] EXCEPT !.step = s].step = s
<1>1. [task[k] EXCEPT !.step = s] = Stepped(task[k], s, task[k].got)
  BY TaskIs, SteppedIs
<1> QED
  BY <1>1 DEF Stepped

LEMMA EndIsElsewise ==
  ASSUME Tasks, NEW k \in Task, Page!EndOf(k), list' = list
  PROVE  Elsewise
<1>1. Page!Idle.step = "idle" /\ task' = [task EXCEPT ![k] = Page!Idle]
  BY DEF Page!Idle, Page!EndOf
<1> QED
  BY <1>1, OneTask

LEMMA AfterIsElsewise ==
  ASSUME Tasks, NEW k \in Task, Page!AfterList(k), list' = list
  PROVE  Elsewise
<1>1. CASE task[k].next > 0
  <2>1. Page!Loading(task[k]).step = "history"
    <3>1. task[k].next # 0 /\ Shaped(task[k])
      BY <1>1, TaskIs DEF Shaped
    <3> QED
      BY <3>1, LoadingTyped
  <2>2. task' = [task EXCEPT ![k] = Page!Loading(task[k])]
    BY <1>1 DEF Page!AfterList
  <2> QED
    BY <2>1, <2>2, OneTask
<1>2. CASE ~(task[k].next > 0)
  BY <1>2, EndIsElsewise DEF Page!AfterList
<1> QED
  BY <1>1, <1>2

LEMMA OthersAreElsewise ==
  ASSUME PageTyped, NEW k \in Task,
         \/ Ordered(k) \/ Page!GiveUpList(k) \/ Paging(k) \/ Begun(k)
  PROVE  Elsewise
<1>1. Tasks /\ Shaped(task[k])
  BY TaskIs DEF PageTyped
<1>2. ASSUME NEW s \in Ordering \cup {"accounts"}, task' = [task EXCEPT ![k] = [task[k] EXCEPT !.step = s]],
             list' = list
      PROVE  Elsewise
  <2>1. s \notin {"movements", "listed"}
    BY DEF Ordering
  <2>2. [task[k] EXCEPT !.step = s].step = s
    BY <1>1, StepIs
  <2>3. [task[k] EXCEPT !.step = s].step \notin {"movements", "listed"}
    BY <2>1, <2>2
  <2> QED
    BY <1>1, <1>2, <2>3, OneTask
<1>3. CASE Page!ServeOrder(k)
  <2>1. "posted" \in Ordering \cup {"accounts"} /\ list' = list
        /\ task' = [task EXCEPT ![k] = [task[k] EXCEPT !.step = "posted"]]
    BY <1>3 DEF Page!ServeOrder, Page!screen, Ordering
  <2> QED
    BY <1>2, <2>1
<1>4. CASE Page!RefuseOrder(k)
  <2>1. "refused" \in Ordering \cup {"accounts"} /\ list' = list
        /\ task' = [task EXCEPT ![k] = [task[k] EXCEPT !.step = "refused"]]
    BY <1>4 DEF Page!RefuseOrder, Page!screen, Ordering
  <2> QED
    BY <1>2, <2>1
<1>5. CASE Page!Confirmed(k)
  <2>1. "accounts" \in Ordering \cup {"accounts"} /\ list' = list
        /\ task' = [task EXCEPT ![k] = [task[k] EXCEPT !.step = "accounts"]]
    BY <1>5 DEF Page!Confirmed, Page!screen
  <2> QED
    BY <1>2, <2>1
<1>6. CASE Page!Refused(k) \/ Page!GiveUpOrder(k)
  BY <1>1, <1>6, EndIsElsewise DEF Page!Refused, Page!GiveUpOrder, Page!screen
<1>7. CASE Page!GiveUpList(k)
  BY <1>1, <1>7, AfterIsElsewise DEF Page!GiveUpList
<1>8. ASSUME NEW r, Page!ReadHistory(k, r) PROVE Elsewise
  <2> DEFINE t == [task[k] EXCEPT !.got = ReadOn(task[k], r)]
  <2>1. task[k].step = "history" /\ task' = [task EXCEPT ![k] = t] /\ list' = list
    BY <1>8, ReadHistoryIs DEF Page!screen
  <2>2. t.step = "history"
    <3>1. t = Stepped(task[k], task[k].step, ReadOn(task[k], r))
      BY <1>1, SteppedIs
    <3> QED
      BY <2>1, <3>1 DEF Stepped
  <2> HIDE DEF t
  <2> QED
    BY <1>1, <2>1, <2>2, OneTask
<1>9. CASE Page!loadMovements(k) \/ Page!GiveUpHistory(k)
  BY <1>1, <1>9, EndIsElsewise DEF Page!loadMovements, Page!GiveUpHistory
<1>10. ASSUME NEW s \in {"post", "accounts"}, NEW o, NEW n, NEW f,
              Page!Starts(k, Page!Running(s, o, n, f)), list' = list
       PROVE  Elsewise
  <2>1. Page!Running(s, o, n, f).step \notin {"movements", "listed"}
    BY DEF Page!Running
  <2> QED
    BY <1>1, <1>10, <2>1, OneTask DEF Page!Starts
<1>11. ASSUME NEW n \in Nat \ {0}, NEW f \in Page!Filter, Page!LoadsHistory(k, n, f), list' = list
       PROVE  Elsewise
  <2>1. Shaped(Page!Running("history", None, n, f))
    BY RunningTyped
  <2>2. Page!Running("history", None, n, f).next # 0
    BY DEF Page!Running
  <2>3. Page!Loading(Page!Running("history", None, n, f)).step = "history"
    BY <2>1, <2>2, LoadingTyped
  <2> QED
    BY <1>1, <1>11, <2>3, OneTask DEF Page!LoadsHistory, Page!Starts
<1>12. CASE Page!refreshAll(k)
  BY <1>10, <1>12 DEF Page!refreshAll, Page!screen
<1>13. form \in Page!Filter /\ page \in Nat \ {0}
  BY DEF PageTyped, ScreenTyped
<1>14. CASE Page!openHistory(k) \/ Page!applyFilters(k)
  BY <1>11, <1>13, <1>14 DEF Page!openHistory, Page!applyFilters
<1>15. CASE Page!resetFilters(k)
  BY <1>11, <1>15, NoFilterIs DEF Page!resetFilters
<1>16. CASE Page!turnPage(k)
  <2>1. history \in Page!HistoryPage
    BY <1>16 DEF Page!turnPage, PageTyped, ScreenTyped
  <2>2. history.pages \in Nat
    BY <2>1 DEF Page!HistoryPage
  <2>3. Page!Max({page, history.pages}) \in Nat
    BY <1>13, <2>2, LargerIs
  <2>4. PICK n \in {page - 1, page + 1} \cap 1 .. Page!Max({page, history.pages}) :
          Page!LoadsHistory(k, n, form)
    BY <1>16 DEF Page!turnPage
  <2>5. n \in Nat \ {0}
    BY <2>3, <2>4
  <2> QED
    BY <1>11, <1>13, <1>16, <2>4, <2>5 DEF Page!turnPage
<1>17. CASE Page!submit(k)
  BY <1>10, <1>17 DEF Page!submit, Page!screen
<1> QED
  BY <1>3, <1>4, <1>5, <1>6, <1>7, <1>8, <1>9, <1>12, <1>14, <1>15, <1>16, <1>17
  DEF Ordered, Paging, Begun

LEMMA DayStays ==
  ASSUME PageTyped, PageTyped', DayInv, UNCHANGED <<book, today>>,
         NEW k \in Task, NEW t, task' = [task EXCEPT ![k] = t], Underway(t, book),
         list' # None => Sound(list', book)
  PROVE  DayInv'
<1>1. \A m \in Task : task'[m] = IF m = k THEN t ELSE task[m]
  BY DEF PageTyped, Tasks
<1>2. \A m \in Task : Underway(task'[m], book')
  BY <1>1 DEF DayInv
<1> QED
  BY <1>2 DEF DayInv

LEMMA AccountsAreRead ==
  ASSUME PageTyped, PageTyped', DayInv, NEW k \in Task, Page!ReadAccounts(k)
  PROVE  DayInv'
<1> DEFINE g == [date |-> today, balance |-> BalancesOf(book), holder |-> holder, at |-> Len(book)]
           t == Stepped(task[k], "movements", g)
<1>1. Shaped(task[k]) /\ book \in BookSet /\ Len(book) \in Nat
  BY TaskIs DEF PageTyped, BookTyped, BookSet
<1>2. task' = [task EXCEPT ![k] = [task[k] EXCEPT !.step = "movements", !.got = g]]
  BY DEF Page!ReadAccounts, BalancesOf
<1>3. [task[k] EXCEPT !.step = "movements", !.got = g] = t
  <2> HIDE DEF g
  <2>1. [task[k] EXCEPT !.step = "movements"] = Stepped(task[k], "movements", task[k].got)
    BY <1>1, SteppedIs
  <2>2. [Stepped(task[k], "movements", task[k].got) EXCEPT !.got = g] = t
    BY DEF Stepped
  <2>3. [task[k] EXCEPT !.step = "movements", !.got = g]
          = [[task[k] EXCEPT !.step = "movements"] EXCEPT !.got = g]
    OBVIOUS
  <2> QED
    BY <2>1, <2>2, <2>3
<1>4. Halfway(g, book)
  <2>1. g.at = Len(book) /\ g.date = today /\ g.balance = BalancesOf(book)
    OBVIOUS
  <2>2. SubSeq(book, 1, g.at) = book /\ g.at <= Len(book)
    BY <1>1, <2>1, AllIs
  <2> HIDE DEF g
  <2> QED
    BY <2>1, <2>2 DEF Halfway, DayInv
<1> HIDE DEF g
<1>5. Underway(t, book)
  <2>1. t.step = "movements" /\ t.got = g
    BY DEF Stepped
  <2> HIDE DEF t
  <2> QED
    BY <1>4, <2>1 DEF Underway
<1>6. UNCHANGED <<book, today, list>>
  BY DEF Page!ReadAccounts, Page!server, Page!screen
<1>7. task' = [task EXCEPT ![k] = t]
  BY <1>2, <1>3
<1> HIDE DEF t
<1> QED
  BY <1>5, <1>6, <1>7, DayStays DEF DayInv

LEMMA MovementsAreRead ==
  ASSUME PageTyped, PageTyped', DayInv, NEW k \in Task, Page!listAccountsWithDayStats(k)
  PROVE  DayInv'
<1> DEFINE old == task[k].got
           g == [date |-> old.date, total |-> TillSum(old.balance),
                 rows |-> [t \in PageTill |-> Page!DayOfTill(book, t, old.date, old.balance[t])],
                 holder |-> old.holder, at |-> old.at, quiet |-> Len(book) = old.at]
           t == Stepped(task[k], "listed", g)
<1>1. Shaped(task[k]) /\ book \in BookSet /\ Len(book) \in Nat
  BY TaskIs DEF PageTyped, BookTyped, BookSet
<1>2. task' = [task EXCEPT ![k] = [task[k] EXCEPT !.step = "listed", !.got = g]]
  BY DEF Page!listAccountsWithDayStats, TillSum, Page!MapThenSumSet, Page!MapThenFoldSet
<1>3. [task[k] EXCEPT !.step = "listed", !.got = g] = t
  <2> HIDE DEF g
  <2>1. [task[k] EXCEPT !.step = "listed"] = Stepped(task[k], "listed", task[k].got)
    BY <1>1, SteppedIs
  <2>2. [Stepped(task[k], "listed", task[k].got) EXCEPT !.got = g] = t
    BY DEF Stepped
  <2>3. [task[k] EXCEPT !.step = "listed", !.got = g]
          = [[task[k] EXCEPT !.step = "listed"] EXCEPT !.got = g]
    OBVIOUS
  <2> QED
    BY <2>1, <2>2, <2>3
<1>4. Sound(g, book)
  <2>1. Halfway(old, book)
    BY DEF DayInv, Underway, Page!listAccountsWithDayStats
  <2>2. /\ g.at = old.at /\ g.date = old.date /\ g.total = TillSum(old.balance)
        /\ g.rows = [u \in PageTill |-> Page!DayOfTill(book, u, old.date, old.balance[u])]
        /\ g.quiet <=> Len(book) = old.at
    OBVIOUS
  <2> HIDE DEF g, old
  <2>3. ASSUME g.quiet PROVE ReadFrom(g, SubSeq(book, 1, g.at))
    <3>1. SubSeq(book, 1, old.at) = book
      BY <1>1, <2>2, <2>3, AllIs
    <3>2. old.balance = BalancesOf(book) /\ \A i \in DOMAIN book : book[i].day <= old.date
      BY <2>1, <3>1 DEF Halfway
    <3>3. SubSeq(book, 1, g.at) = book /\ g.date = old.date
      BY <2>2, <3>1
    <3>4. g.total = TillSum(BalancesOf(book))
      BY <2>2, <3>2
    <3>5. g.rows = [u \in PageTill |-> Page!DayOfTill(book, u, g.date, BalancesOf(book)[u])]
      BY <2>2, <3>2, <3>3
    <3>6. ReadFrom(g, book)
      BY <3>2, <3>3, <3>4, <3>5 DEF ReadFrom
    <3> QED
      BY <3>3, <3>6
  <2>4. old.at <= Len(book)
    BY <2>1 DEF Halfway
  <2>5. g.at <= Len(book)
    BY <2>2, <2>4
  <2> QED
    BY <2>3, <2>5 DEF Sound
<1> HIDE DEF g
<1>5. Underway(t, book)
  <2>1. t.step = "listed" /\ t.got = g
    BY DEF Stepped
  <2> HIDE DEF t
  <2> QED
    BY <1>4, <2>1 DEF Underway
<1>6. UNCHANGED <<book, today, list>>
  BY DEF Page!listAccountsWithDayStats, Page!server, Page!screen
<1>7. task' = [task EXCEPT ![k] = t]
  BY <1>2, <1>3
<1> HIDE DEF t
<1> QED
  BY <1>5, <1>6, <1>7, DayStays DEF DayInv

LEMMA ListIsShown ==
  ASSUME PageTyped, PageTyped', DayInv, NEW k \in Task, Page!loadList(k)
  PROVE  DayInv'
<1> DEFINE g == task[k].got
<1>1. task[k].step = "listed" /\ Page!AfterList(k) /\ UNCHANGED <<book, today>>
  BY DEF Page!loadList, Page!server
<1>2. list' = [date |-> g.date, total |-> g.total, rows |-> g.rows, holder |-> g.holder,
               at |-> g.at, quiet |-> g.quiet]
  BY DEF Page!loadList
<1>3. Sound(g, book)
  BY <1>1 DEF DayInv, Underway
<1> HIDE DEF g
<1>4. Sound(list', book)
  <2>1. list'.date = g.date /\ list'.total = g.total /\ list'.rows = g.rows /\ list'.at = g.at
        /\ list'.quiet = g.quiet
    BY <1>2
  <2> QED
    BY <1>3, <2>1 DEF Sound, ReadFrom
<1>5. ASSUME NEW t, t.step \notin {"movements", "listed"}, task' = [task EXCEPT ![k] = t]
      PROVE  DayInv'
  <2>1. Underway(t, book)
    BY <1>5 DEF Underway
  <2> QED
    BY <1>1, <1>4, <1>5, <2>1, DayStays
<1>6. CASE task[k].next > 0
  <2>1. Page!Loading(task[k]).step = "history"
    <3>1. task[k].next # 0 /\ Shaped(task[k])
      BY <1>6, TaskIs DEF Shaped, PageTyped
    <3> QED
      BY <3>1, LoadingTyped
  <2>2. task' = [task EXCEPT ![k] = Page!Loading(task[k])]
    BY <1>1, <1>6 DEF Page!AfterList
  <2> QED
    BY <1>5, <2>1, <2>2
<1>7. CASE ~(task[k].next > 0)
  <2>1. Page!Idle.step = "idle" /\ task' = [task EXCEPT ![k] = Page!Idle]
    BY <1>1, <1>7 DEF Page!Idle, Page!EndOf, Page!AfterList
  <2> QED
    BY <1>5, <2>1
<1> QED
  BY <1>6, <1>7

LEMMA DayInit == Page!Init => DayInv
<1> SUFFICES ASSUME Page!Init PROVE DayInv
  OBVIOUS
<1>1. book = << >> /\ list = None /\ task = [k \in Task |-> Page!Idle]
  BY DEF Page!Init
<1>2. \A i \in DOMAIN book : book[i].day <= today
  BY <1>1
<1>3. \A k \in Task : task[k].step = "idle"
  BY <1>1 DEF Page!Idle
<1> QED
  BY <1>1, <1>2, <1>3 DEF DayInv, Underway

LEMMA DayStep == PageTyped /\ PageTyped' /\ DayInv /\ [Page!Next]_Page!vars => DayInv'
<1> SUFFICES ASSUME PageTyped, PageTyped', DayInv, [Page!Next]_Page!vars PROVE DayInv'
  OBVIOUS
<1>1. Grows
  BY BookGrows
<1>2. ASSUME UNCHANGED <<list, task>> PROVE DayInv'
  <2>1. Elsewise
    BY <1>2 DEF Elsewise
  <2> QED
    BY <1>1, <2>1, ElsewiseKeeps
<1>3. CASE Calm
  <2>1. ASSUME NEW kind \in Kind, Page!openDialog(kind) PROVE DayInv'
    BY <1>2, <2>1 DEF Page!openDialog, Page!screen
  <2> QED
    BY <1>2, <1>3, <2>1 DEF Calm, Page!Elsewhere, Page!Midnight, Page!ServeLate, Page!hideHistory,
       Page!setFilters, Page!fillForm, Page!chooseStaff, Page!backToForm, Page!closeModals, Page!screen
<1>4. ASSUME NEW k \in Task, Ordered(k) \/ Listing(k) \/ Paging(k) \/ Begun(k) PROVE DayInv'
  <2>1. CASE Page!ReadAccounts(k)
    BY <2>1, AccountsAreRead
  <2>2. CASE Page!listAccountsWithDayStats(k)
    BY <2>2, MovementsAreRead
  <2>3. CASE Page!loadList(k)
    BY <2>3, ListIsShown
  <2>4. CASE Ordered(k) \/ Page!GiveUpList(k) \/ Paging(k) \/ Begun(k)
    BY <1>1, <2>4, OthersAreElsewise, ElsewiseKeeps
  <2> QED
    BY <1>4, <2>1, <2>2, <2>3, <2>4 DEF Listing
<1>5. CASE UNCHANGED Page!vars
  BY <1>2, <1>5 DEF Page!vars
<1> QED
  BY <1>3, <1>4, <1>5, StepsAre

-----------------------------------------------------------------------------
(***************************************************************************)
(* The figures of the day add up: those of the types to those of the till, *)
(* those of the staff members to those of the till, and those of the tills *)
(* to the cards.                                                           *)
(***************************************************************************)

\* A sum over the tills or the staff.
SumOf(e, K) == Page!MapThenSumSet(LAMBDA k : e[k], K)

LEMMA SumOfIs ==
  ASSUME NEW K, IsFiniteSet(K), NEW e \in [K -> Int]
  PROVE  SumOf(e, K) = Sums(e, K)[K] /\ SumOf(e, K) \in Int
<1>1. SumOf(e, K) = Sums(e, K)[K]
  BY DEF SumOf, Page!MapThenSumSet, Page!MapThenFoldSet, Sums, Unfolds, Value, Pick
<1>2. Unfolds(Sums(e, K), e, K)
  BY SumsUnfold
<1> QED
  BY <1>1, <1>2, UnfoldedIsInt

LEMMA SumOfAdded ==
  ASSUME NEW K, IsFiniteSet(K), NEW e \in [K -> Int]
  PROVE  \E g : Adds(g, e, K) /\ SumOf(e, K) = g[K]
<1>1. PICK g : Adds(g, e, K)
  BY SumsAreAdded
<1>2. Sums(e, K)[K] = g[K]
  BY <1>1, SumsAre
<1> QED
  BY <1>1, <1>2, SumOfIs

LEMMA SumOfNegated ==
  ASSUME NEW K, IsFiniteSet(K), NEW e \in [K -> Int], NEW m, m = [k \in K |-> -e[k]]
  PROVE  SumOf(m, K) = -SumOf(e, K)
<1>1. PICK g : Adds(g, e, K) /\ SumOf(e, K) = g[K]
  BY SumOfAdded
<1> DEFINE h == [s \in SUBSET K |-> -g[s]]
<1>2. Adds(h, m, K)
  BY <1>1, SumsNegated
<1>3. h[K] = -g[K]
  OBVIOUS
<1> HIDE DEF h
<1>4. m \in [K -> Int]
  OBVIOUS
<1>5. Sums(m, K)[K] = h[K]
  BY <1>2, <1>4, SumsAre
<1> QED
  BY <1>1, <1>3, <1>4, <1>5, SumOfIs

LEMMA SumOfSums ==
  ASSUME NEW K, IsFiniteSet(K), NEW d \in [K -> Int], NEW e \in [K -> Int],
         NEW m, m = [k \in K |-> d[k] + e[k]]
  PROVE  SumOf(m, K) = SumOf(d, K) + SumOf(e, K)
<1>1. PICK g : Adds(g, d, K) /\ SumOf(d, K) = g[K]
  BY SumOfAdded
<1>2. PICK h : Adds(h, e, K) /\ SumOf(e, K) = h[K]
  BY SumOfAdded
<1> DEFINE j == [s \in SUBSET K |-> g[s] + h[s]]
<1>3. /\ g \in [SUBSET K -> Int] /\ g[{}] = 0 /\ \A s \in SUBSET K : \A t \in s : g[s] = d[t] + g[s \ {t}]
      /\ h \in [SUBSET K -> Int] /\ h[{}] = 0 /\ \A s \in SUBSET K : \A t \in s : h[s] = e[t] + h[s \ {t}]
  BY <1>1, <1>2 DEF Adds
<1>4. j \in [SUBSET K -> Int] /\ \A s \in SUBSET K : j[s] = g[s] + h[s]
  BY <1>3
<1> HIDE DEF j
<1>5. j[{}] = 0
  <2>1. {} \in SUBSET K
    OBVIOUS
  <2>2. j[{}] = g[{}] + h[{}]
    BY <1>4, <2>1
  <2> QED
    BY <1>3, <2>2
<1>6. ASSUME NEW s \in SUBSET K, NEW t \in s PROVE j[s] = m[t] + j[s \ {t}]
  <2>1. g[s] = d[t] + g[s \ {t}] /\ h[s] = e[t] + h[s \ {t}]
    BY <1>3
  <2>2. s \ {t} \in SUBSET K /\ t \in K
    OBVIOUS
  <2>3. d[t] \in Int /\ e[t] \in Int /\ g[s \ {t}] \in Int /\ h[s \ {t}] \in Int
    BY <1>3, <2>2
  <2>4. j[s] = g[s] + h[s] /\ j[s \ {t}] = g[s \ {t}] + h[s \ {t}] /\ m[t] = d[t] + e[t]
    BY <1>4, <2>2
  <2> QED
    BY <2>1, <2>3, <2>4
<1>7. Adds(j, m, K) /\ m \in [K -> Int]
  <2>1. m \in [K -> Int]
    OBVIOUS
  <2>2. Adds(j, m, K)
    BY <1>4, <1>5, <1>6 DEF Adds
  <2> QED
    BY <2>1, <2>2
<1>8. Sums(m, K)[K] = j[K] /\ j[K] = g[K] + h[K]
  BY <1>4, <1>7, SumsAre
<1> QED
  BY <1>1, <1>2, <1>7, <1>8, SumOfIs

\* The movements of the book, put together from parts.
LEMMA TwoParts ==
  ASSUME NEW b \in BookSet, NEW A \in SUBSET DOMAIN b, NEW B \in SUBSET DOMAIN b, A \cap B = {}
  PROVE  /\ Page!SumOver(b, A \cup B) = Page!SumOver(b, A) + Page!SumOver(b, B)
         /\ Page!SumOver(b, A) \in Int /\ Page!SumOver(b, B) \in Int
<1> DEFINE C == A \cup B
<1>1. C \in SUBSET DOMAIN b
  OBVIOUS
<1>2. BookSum(b)[C] = BookSum(b)[A] + BookSum(b)[B]
  <2> DEFINE S == DOMAIN b
             f == Amounts(b)
             g == BookSum(b)
  <2>1. IsFiniteSet(S) /\ f \in [S -> Int] /\ Adds(g, f, S) /\ A \in SUBSET S /\ B \in SUBSET S
    BY BookIs
  <2> HIDE DEF S, f, g
  <2>2. g[A \cup B] = g[A] + g[B]
    BY <2>1, SumOfParts
  <2> QED
    BY <2>2 DEF g
<1> HIDE DEF C
<1>3. /\ Page!SumOver(b, A) = BookSum(b)[A] /\ Page!SumOver(b, B) = BookSum(b)[B]
      /\ Page!SumOver(b, C) = BookSum(b)[C]
      /\ BookSum(b)[A] \in Int /\ BookSum(b)[B] \in Int
  BY <1>1, SumOverIs
<1>4. Page!SumOver(b, C) = Page!SumOver(b, A) + Page!SumOver(b, B)
      /\ Page!SumOver(b, A) \in Int /\ Page!SumOver(b, B) \in Int
  BY <1>2, <1>3
<1> QED
  BY <1>4 DEF C

LEMMA ByGroups ==
  ASSUME NEW b \in BookSet, NEW D \in SUBSET DOMAIN b, NEW key, NEW K, IsFiniteSet(K),
         NEW e, e = [k \in K |-> Page!SumOver(b, Group(D, key, k))]
  PROVE  /\ e \in [K -> Int]
         /\ SumOf(e, K) = Page!SumOver(b, Grouped(D, key, K))
<1>1. ASSUME NEW k \in K PROVE e[k] = BookSum(b)[Group(D, key, k)] /\ e[k] \in Int
  <2>1. Group(D, key, k) \in SUBSET DOMAIN b
    BY DEF Group
  <2>2. e[k] = Page!SumOver(b, Group(D, key, k))
    OBVIOUS
  <2> QED
    BY <2>1, <2>2, SumOverIs
<1>2. e \in [K -> Int]
  BY <1>1
<1>3. Sums(e, K)[K] = BookSum(b)[Grouped(D, key, K)]
  BY <1>1, <1>2, BookIs, SumByGroups
<1>4. Grouped(D, key, K) \in SUBSET DOMAIN b
  BY DEF Grouped
<1> QED
  BY <1>2, <1>3, <1>4, SumOverIs, SumOfIs

LEMMA ListTotalIs ==
  ASSUME NEW b \in BookSet
  PROVE  TillSum(BalancesOf(b)) = Page!SumOver(b, DOMAIN b)
<1> DEFINE key == [i \in DOMAIN b |-> b[i].till]
<1>1. Grouped(DOMAIN b, key, PageTill) = DOMAIN b
  BY BookIs DEF Grouped, Page!Movement
<1>2. \A t \in PageTill : Group(DOMAIN b, key, t) = {i \in DOMAIN b : b[i].till = t}
  BY DEF Group
<1>3. BalancesOf(b) = [t \in PageTill |-> Page!SumOver(b, Group(DOMAIN b, key, t))]
  BY <1>2 DEF BalancesOf, Page!BalanceIn
<1> HIDE DEF key
<1>4. DOMAIN b \in SUBSET DOMAIN b /\ IsFiniteSet(PageTill)
  BY PageAssumption
<1>5. SumOf(BalancesOf(b), PageTill) = Page!SumOver(b, DOMAIN b)
  BY <1>1, <1>3, <1>4, ByGroups
<1> QED
  BY <1>5 DEF SumOf, TillSum

\* What was there before the day and what came on the day make the balance.
LEMMA OpeningIs ==
  ASSUME NEW b \in BookSet, NEW d \in Nat, \A i \in DOMAIN b : b[i].day <= d, NEW t
  PROVE  Page!BalanceIn(b, t) - Page!SumOver(b, {i \in DOMAIN b : b[i].till = t /\ b[i].day = d})
           = Page!SumOver(b, {i \in DOMAIN b : b[i].till = t /\ b[i].day < d})
<1> DEFINE C == {i \in DOMAIN b : b[i].till = t}
           A == {i \in DOMAIN b : b[i].till = t /\ b[i].day = d}
           B == {i \in DOMAIN b : b[i].till = t /\ b[i].day < d}
<1>1. \A i \in DOMAIN b : b[i].day \in Nat
  BY BookIs DEF Page!Movement
<1>2. A \in SUBSET DOMAIN b /\ B \in SUBSET DOMAIN b /\ A \cap B = {} /\ C = A \cup B
  BY <1>1
<1>3. Page!BalanceIn(b, t) = Page!SumOver(b, C)
  BY DEF Page!BalanceIn
<1> HIDE DEF A, B, C
<1>4. Page!SumOver(b, A \cup B) = Page!SumOver(b, A) + Page!SumOver(b, B)
      /\ Page!SumOver(b, A) \in Int /\ Page!SumOver(b, B) \in Int
  BY <1>2, TwoParts
<1>5. Page!BalanceIn(b, t) - Page!SumOver(b, A) = Page!SumOver(b, B)
  BY <1>2, <1>3, <1>4
<1> QED
  BY <1>5 DEF A, B

Of(b, D, types) == {i \in D : b[i].type \in types}
Primed == {"PRIME_DEDUCTION"}
Withdrawn == {"WITHDRAWAL"}
Adjusted == Page!MovementType \ (Page!SessionIncomeType \cup {"WITHDRAWAL", "PRIME_DEDUCTION"})
Sum(b, D, types) == Page!SumOver(b, Of(b, D, types))

LEMMA SumIsInt ==
  ASSUME NEW b \in BookSet, NEW D \in SUBSET DOMAIN b, NEW types
  PROVE  Sum(b, D, types) \in Int /\ Of(b, D, types) \in SUBSET DOMAIN b
<1>1. Of(b, D, types) \in SUBSET DOMAIN b
  BY DEF Of
<1> QED
  BY <1>1, SumOverIs DEF Sum

LEMMA StatsAre ==
  ASSUME NEW b, NEW D, NEW current
  PROVE  Page!computeDayStats(current, b, D) =
           [opening     |-> current - Page!SumOver(b, D),
            sessions    |-> Sum(b, D, Page!SessionIncomeType),
            primes      |-> Sum(b, D, Primed),
            withdrawals |-> -Sum(b, D, Withdrawn),
            adjustments |-> Sum(b, D, Adjusted),
            closing     |-> current]
BY DEF Page!computeDayStats, Sum, Of, Primed, Withdrawn, Adjusted

LEMMA DayParts ==
  ASSUME NEW b \in BookSet, NEW D \in SUBSET DOMAIN b
  PROVE  Page!SumOver(b, D) = Sum(b, D, Page!SessionIncomeType) + Sum(b, D, Primed)
                                + Sum(b, D, Adjusted) + Sum(b, D, Withdrawn)
<1> DEFINE S == Of(b, D, Page!SessionIncomeType)
           P == Of(b, D, Primed)
           W == Of(b, D, Withdrawn)
           A == Of(b, D, Adjusted)
<1>1. \A i \in D : b[i].type \in Page!MovementType
  BY BookIs DEF Page!Movement
<1>2. D = (S \cup P) \cup (A \cup W)
  BY <1>1 DEF Of, Primed, Withdrawn, Adjusted
<1>3. S \cap P = {} /\ A \cap W = {} /\ (S \cup P) \cap (A \cup W) = {}
  BY DEF Of, Primed, Withdrawn, Adjusted, Page!SessionIncomeType
<1>4. S \in SUBSET DOMAIN b /\ P \in SUBSET DOMAIN b /\ A \in SUBSET DOMAIN b /\ W \in SUBSET DOMAIN b
  BY SumIsInt
<1>5. (S \cup P) \in SUBSET DOMAIN b /\ (A \cup W) \in SUBSET DOMAIN b
  BY <1>4
<1> HIDE DEF S, P, A, W
<1>6. /\ Page!SumOver(b, S \cup P) = Page!SumOver(b, S) + Page!SumOver(b, P)
      /\ Page!SumOver(b, S) \in Int /\ Page!SumOver(b, P) \in Int
  BY <1>3, <1>4, TwoParts
<1>7. /\ Page!SumOver(b, A \cup W) = Page!SumOver(b, A) + Page!SumOver(b, W)
      /\ Page!SumOver(b, A) \in Int /\ Page!SumOver(b, W) \in Int
  BY <1>3, <1>4, TwoParts
<1>8. Page!SumOver(b, (S \cup P) \cup (A \cup W)) = Page!SumOver(b, S \cup P) + Page!SumOver(b, A \cup W)
  BY <1>3, <1>5, TwoParts
<1>9. Page!SumOver(b, D) = Page!SumOver(b, S) + Page!SumOver(b, P) + Page!SumOver(b, A)
                             + Page!SumOver(b, W)
  BY <1>2, <1>6, <1>7, <1>8
<1> QED
  BY <1>9 DEF S, P, A, W, Sum

\* The movements of D that belong to s.
OfStaff(b, D, s) == {i \in D : b[i].staff = s}
OfEach(b, D, types) == [s \in PageStaff |-> Sum(b, OfStaff(b, D, s), types)]

LEMMA StaffParts ==
  ASSUME NEW b \in BookSet, NEW D \in SUBSET DOMAIN b, NEW types
  PROVE  /\ OfEach(b, D, types) \in [PageStaff -> Int]
         /\ Sum(b, OfStaff(b, D, None), types) \in Int
         /\ Sum(b, D, types) = Sum(b, OfStaff(b, D, None), types)
                                 + SumOf(OfEach(b, D, types), PageStaff)
<1> DEFINE E == Of(b, D, types)
           key == [i \in DOMAIN b |-> b[i].staff]
           N == Of(b, OfStaff(b, D, None), types)
           G == Grouped(E, key, PageStaff)
           e == [s \in PageStaff |-> Page!SumOver(b, Group(E, key, s))]
<1>1. E \in SUBSET DOMAIN b /\ N \in SUBSET DOMAIN b /\ G \in SUBSET DOMAIN b
  BY DEF Of, OfStaff, Grouped
<1>2. E = N \cup G /\ N \cap G = {}
  <2>1. \A i \in E : b[i].staff \in PageStaff \cup {None} /\ key[i] = b[i].staff
    BY BookIs DEF Page!Movement, Of
  <2>2. None \notin PageStaff
    BY PageAssumption
  <2> QED
    BY <2>1, <2>2 DEF Of, OfStaff, Grouped
<1>3. OfEach(b, D, types) = e
  <2>1. ASSUME NEW s \in PageStaff PROVE Sum(b, OfStaff(b, D, s), types) = Page!SumOver(b, Group(E, key, s))
    <3>1. Of(b, OfStaff(b, D, s), types) = Group(E, key, s)
      BY DEF Of, OfStaff, Group
    <3> QED
      BY <3>1 DEF Sum
  <2> HIDE DEF E, key
  <2> QED
    BY <2>1 DEF OfEach
<1>4. IsFiniteSet(PageStaff)
  BY PageAssumption
<1> HIDE DEF E, key, N, G
<1>5. e \in [PageStaff -> Int] /\ SumOf(e, PageStaff) = Page!SumOver(b, G)
  BY <1>1, <1>4, ByGroups DEF G
<1> HIDE DEF e
<1>6. Page!SumOver(b, N \cup G) = Page!SumOver(b, N) + Page!SumOver(b, G)
      /\ Page!SumOver(b, N) \in Int
  BY <1>1, <1>2, TwoParts
<1>7. Page!SumOver(b, E) = Page!SumOver(b, N) + Page!SumOver(b, G)
  BY <1>2, <1>6
<1>8. Sum(b, D, types) = Page!SumOver(b, E) /\ Sum(b, OfStaff(b, D, None), types) = Page!SumOver(b, N)
  BY DEF Sum, E, N
<1> QED
  BY <1>3, <1>5, <1>6, <1>7, <1>8

OfDay(b, t, d) == {i \in DOMAIN b : b[i].till = t /\ b[i].day = d}

LEMMA DayIs ==
  ASSUME NEW b, NEW t, NEW d
  PROVE  /\ OfDay(b, t, d) \in SUBSET DOMAIN b
         /\ \A c : Page!DayOfTill(b, t, d, c) = Page!computeDayStats(c, b, OfDay(b, t, d))
         /\ Page!getDayStats(b, t, d, None)
              = Page!computeDayStats(Page!BalanceIn(b, t), b, OfDay(b, t, d))
         /\ \A s \in PageStaff : Page!getDayStats(b, t, d, s)
              = Page!computeDayStats(Page!BalanceIn(b, t), b, OfStaff(b, OfDay(b, t, d), s))
         /\ {i \in DOMAIN b : b[i].till = t /\ b[i].day = d /\ b[i].staff = None}
              = OfStaff(b, OfDay(b, t, d), None)
<1>1. OfDay(b, t, d) \in SUBSET DOMAIN b
  BY DEF OfDay
<1>2. \A c : Page!DayOfTill(b, t, d, c) = Page!computeDayStats(c, b, OfDay(b, t, d))
  BY DEF Page!DayOfTill, OfDay
<1>3. {i \in DOMAIN b : b[i].till = t /\ b[i].day = d /\ (None = None \/ b[i].staff = None)} = OfDay(b, t, d)
  BY DEF OfDay
<1>4. ASSUME NEW s \in PageStaff
      PROVE  {i \in DOMAIN b : b[i].till = t /\ b[i].day = d /\ (s = None \/ b[i].staff = s)}
               = OfStaff(b, OfDay(b, t, d), s)
  <2>1. s # None
    BY PageAssumption
  <2> QED
    BY <2>1 DEF OfDay, OfStaff
<1>5. Page!getDayStats(b, t, d, None)
        = Page!computeDayStats(Page!BalanceIn(b, t), b, OfDay(b, t, d))
  BY <1>3 DEF Page!getDayStats
<1>6. \A s \in PageStaff : Page!getDayStats(b, t, d, s)
        = Page!computeDayStats(Page!BalanceIn(b, t), b, OfStaff(b, OfDay(b, t, d), s))
  BY <1>4 DEF Page!getDayStats
<1>7. {i \in DOMAIN b : b[i].till = t /\ b[i].day = d /\ b[i].staff = None}
        = OfStaff(b, OfDay(b, t, d), None)
  BY DEF OfDay, OfStaff
<1> QED
  BY <1>1, <1>2, <1>5, <1>6, <1>7

LEMMA FieldsAre ==
  ASSUME NEW b, NEW D, NEW c
  PROVE  /\ Page!computeDayStats(c, b, D).sessions = Sum(b, D, Page!SessionIncomeType)
         /\ Page!computeDayStats(c, b, D).primes = Sum(b, D, Primed)
         /\ Page!computeDayStats(c, b, D).withdrawals = -Sum(b, D, Withdrawn)
         /\ Page!computeDayStats(c, b, D).adjustments = Sum(b, D, Adjusted)
BY StatsAre

\* The row of a till leads from what it held at midnight to its balance.
DayRow(b, t, d) == Page!DayOfTill(b, t, d, Page!BalanceIn(b, t))

LEMMA RowIs ==
  ASSUME NEW b \in BookSet, NEW d \in Nat, \A i \in DOMAIN b : b[i].day <= d, NEW t
  PROVE  LET row == DayRow(b, t, d) IN
         /\ row.opening = Page!SumOver(b, {i \in DOMAIN b : b[i].till = t /\ b[i].day < d})
         /\ row.closing = row.opening + row.sessions + row.primes + row.adjustments
                                      - row.withdrawals
         /\ row.closing = Page!BalanceIn(b, t)
         /\ row.opening \in Int /\ row.closing \in Int /\ row.sessions \in Int /\ row.primes \in Int
         /\ row.adjustments \in Int /\ row.withdrawals \in Int
         /\ Page!getDayStats(b, t, d, None) = row
<1> DEFINE row == DayRow(b, t, d)
           D == OfDay(b, t, d)
           c == Page!BalanceIn(b, t)
           day == Page!SumOver(b, D)
           s == Sum(b, D, Page!SessionIncomeType)
           p == Sum(b, D, Primed)
           w == Sum(b, D, Withdrawn)
           a == Sum(b, D, Adjusted)
<1>1. D \in SUBSET DOMAIN b /\ row = Page!computeDayStats(c, b, D)
      /\ Page!getDayStats(b, t, d, None) = Page!computeDayStats(c, b, D)
  BY DayIs DEF DayRow
<1> HIDE DEF row
<1>2. c - day = Page!SumOver(b, {i \in DOMAIN b : b[i].till = t /\ b[i].day < d})
  BY OpeningIs DEF OfDay
<1> HIDE DEF D
<1>3. row = [opening |-> c - day, sessions |-> s, primes |-> p, withdrawals |-> -w,
             adjustments |-> a, closing |-> c]
  BY <1>1, StatsAre
<1>4. c \in Int /\ day \in Int /\ s \in Int /\ p \in Int /\ w \in Int /\ a \in Int
  BY <1>1, BalanceIsInt, SumIsInt, SumOverIs
<1>5. day = s + p + a + w
  BY <1>1, DayParts
<1> HIDE DEF c, day, s, p, w, a
<1>6. row.opening = c - day /\ row.sessions = s /\ row.primes = p /\ row.withdrawals = -w
      /\ row.adjustments = a /\ row.closing = c
  BY <1>3
<1>7. row.closing = row.opening + row.sessions + row.primes + row.adjustments - row.withdrawals
  BY <1>4, <1>5, <1>6
<1>8. row.opening \in Int /\ row.closing \in Int /\ row.sessions \in Int /\ row.primes \in Int
      /\ row.adjustments \in Int /\ row.withdrawals \in Int
  BY <1>4, <1>6
<1>9. Page!getDayStats(b, t, d, None) = row
  BY <1>1
<1> QED
  BY <1>2, <1>6, <1>7, <1>8, <1>9 DEF c, row

\* A fold over the tills or the staff is a sum of what it folds.
LEMMA UnfoldedIs ==
  ASSUME NEW K, IsFiniteSet(K), NEW e \in [K -> Int], NEW fold, Unfolds(fold, e, K)
  PROVE  fold[K] = SumOf(e, K)
<1>1. PICK g : Adds(g, e, K) /\ SumOf(e, K) = g[K]
  BY SumOfAdded
<1>2. K \in SUBSET K /\ \A i \in K : e[i] = e[i]
  OBVIOUS
<1> QED
  BY <1>1, <1>2, FoldIs

SumOfField(of, field, K) == Page!MapThenSumSet(LAMBDA k : of[k][field], K)

LEMMA FieldSum ==
  ASSUME NEW K, IsFiniteSet(K), NEW of, NEW field, NEW e \in [K -> Int], \A k \in K : e[k] = of[k][field]
  PROVE  SumOfField(of, field, K) = SumOf(e, K)
<1> DEFINE Folds(g) == g = [s \in SUBSET K |-> IF s = {} THEN 0 ELSE of[Pick(s)][field] + g[s \ {Pick(s)}]]
           fold == CHOOSE g : Folds(g)
<1>1. ASSUME NEW g PROVE Folds(g) <=> Unfolds(g, e, K)
  <2>1. ASSUME NEW s \in SUBSET K, s # {} PROVE e[Pick(s)] = of[Pick(s)][field]
    BY <2>1, Smaller
  <2>2. ASSUME NEW s \in SUBSET K
        PROVE  Value(e, g, s) = IF s = {} THEN 0 ELSE of[Pick(s)][field] + g[s \ {Pick(s)}]
    BY <2>1 DEF Value
  <2> QED
    BY <2>2 DEF Unfolds
<1>2. SumOfField(of, field, K) = fold[K]
  BY DEF SumOfField, Page!MapThenSumSet, Page!MapThenFoldSet, Pick, fold, Folds
<1> HIDE DEF Folds
<1>3. \E g : Folds(g)
  BY <1>1, SumsExist
<1>4. Folds(fold)
  BY <1>3
<1> HIDE DEF fold
<1>5. fold[K] = SumOf(e, K)
  BY <1>1, <1>4, UnfoldedIs
<1> QED
  BY <1>2, <1>5

\* The figures of the staff members, and of nobody, add up to those of the till.
DayOf(b, t, d) == [s \in PageStaff |-> Page!getDayStats(b, t, d, s)]
DayOfNobody(b, t, d) == Page!computeDayStats(0, b,
  {i \in DOMAIN b : b[i].till = t /\ b[i].day = d /\ b[i].staff = None})

LEMMA StaffAddsUp ==
  ASSUME NEW b \in BookSet, NEW d, NEW t,
         NEW field \in {"sessions", "primes", "withdrawals", "adjustments"}
  PROVE  DayRow(b, t, d)[field] = DayOfNobody(b, t, d)[field]
                                    + SumOfField(DayOf(b, t, d), field, PageStaff)
<1> DEFINE row == DayRow(b, t, d)
           of == DayOf(b, t, d)
           nobody == DayOfNobody(b, t, d)
           D == OfDay(b, t, d)
           N == OfStaff(b, D, None)
           types == CASE field = "sessions" -> Page!SessionIncomeType
                      [] field = "primes" -> Primed
                      [] field = "withdrawals" -> Withdrawn
                      [] field = "adjustments" -> Adjusted
           e == OfEach(b, D, types)
           shown == [s \in PageStaff |-> of[s][field]]
<1>1. D \in SUBSET DOMAIN b
  BY DayIs
<1>2. /\ nobody = Page!computeDayStats(0, b, N)
      /\ \A s \in PageStaff : of[s] = Page!computeDayStats(Page!BalanceIn(b, t), b, OfStaff(b, D, s))
      /\ row = Page!computeDayStats(Page!BalanceIn(b, t), b, D)
  <2>1. {i \in DOMAIN b : b[i].till = t /\ b[i].day = d /\ b[i].staff = None} = N
    BY DayIs
  <2>2. \A s \in PageStaff : Page!getDayStats(b, t, d, s)
           = Page!computeDayStats(Page!BalanceIn(b, t), b, OfStaff(b, D, s))
    BY DayIs
  <2>3. \A c : Page!DayOfTill(b, t, d, c) = Page!computeDayStats(c, b, D)
    BY DayIs
  <2> HIDE DEF D, N
  <2>4. nobody = Page!computeDayStats(0, b, N)
    BY <2>1 DEF DayOfNobody
  <2>5. \A s \in PageStaff : of[s] = Page!computeDayStats(Page!BalanceIn(b, t), b, OfStaff(b, D, s))
    BY <2>2 DEF DayOf
  <2>6. row = Page!computeDayStats(Page!BalanceIn(b, t), b, D)
    BY <2>3 DEF DayRow
  <2> QED
    BY <2>4, <2>5, <2>6
<1> HIDE DEF D, row, of, nobody
<1>3. /\ row.sessions = Sum(b, D, Page!SessionIncomeType)
      /\ row.primes = Sum(b, D, Primed)
      /\ row.withdrawals = -Sum(b, D, Withdrawn)
      /\ row.adjustments = Sum(b, D, Adjusted)
  BY <1>2, FieldsAre
<1>4. /\ nobody.sessions = Sum(b, N, Page!SessionIncomeType)
      /\ nobody.primes = Sum(b, N, Primed)
      /\ nobody.withdrawals = -Sum(b, N, Withdrawn)
      /\ nobody.adjustments = Sum(b, N, Adjusted)
  BY <1>2, FieldsAre
<1>5. ASSUME NEW s \in PageStaff
      PROVE  /\ of[s].sessions = Sum(b, OfStaff(b, D, s), Page!SessionIncomeType)
             /\ of[s].primes = Sum(b, OfStaff(b, D, s), Primed)
             /\ of[s].withdrawals = -Sum(b, OfStaff(b, D, s), Withdrawn)
             /\ of[s].adjustments = Sum(b, OfStaff(b, D, s), Adjusted)
  BY <1>2, FieldsAre
<1>6. /\ e \in [PageStaff -> Int] /\ Sum(b, N, types) \in Int
      /\ Sum(b, D, types) = Sum(b, N, types) + SumOf(e, PageStaff)
  BY <1>1, StaffParts
<1>7. \A s \in PageStaff : e[s] = Sum(b, OfStaff(b, D, s), types)
  BY DEF OfEach
<1>8. IsFiniteSet(PageStaff) /\ SumOf(e, PageStaff) \in Int
  BY <1>6, PageAssumption, SumOfIs
<1>9. /\ field = "sessions" => types = Page!SessionIncomeType
      /\ field = "primes" => types = Primed
      /\ field = "withdrawals" => types = Withdrawn
      /\ field = "adjustments" => types = Adjusted
  OBVIOUS
<1>10. shown \in [PageStaff -> Int] /\ SumOf(shown, PageStaff) =
         IF field = "withdrawals" THEN -SumOf(e, PageStaff) ELSE SumOf(e, PageStaff)
  <2>1. CASE field = "withdrawals"
    <3>1. \A s \in PageStaff : of[s][field] = -e[s]
      BY <1>5, <1>7, <1>9, <2>1
    <3>2. shown = [s \in PageStaff |-> -e[s]]
      BY <3>1
    <3>3. shown \in [PageStaff -> Int]
      <4> HIDE DEF e, shown
      <4> QED
        BY <1>6, <3>2
    <3> HIDE DEF e, shown
    <3> QED
      BY <1>6, <1>8, <2>1, <3>2, <3>3, SumOfNegated
  <2>2. CASE field # "withdrawals"
    <3>1. \A s \in PageStaff : of[s][field] = e[s]
      BY <1>5, <1>7, <1>9, <2>2
    <3>2. shown = [s \in PageStaff |-> e[s]]
      BY <3>1
    <3> HIDE DEF e, shown
    <3>3. shown = e
      BY <1>6, <3>2
    <3> QED
      BY <1>6, <2>2, <3>3
  <2> QED
    BY <2>1, <2>2
<1>11. SumOfField(of, field, PageStaff) = SumOf(shown, PageStaff)
  <2>1. \A s \in PageStaff : shown[s] = of[s][field]
    OBVIOUS
  <2> HIDE DEF shown
  <2> QED
    BY <1>8, <1>10, <2>1, FieldSum
<1> HIDE DEF types, e, N, shown
<1>12. row[field] = nobody[field] + SumOf(shown, PageStaff)
  BY <1>3, <1>4, <1>6, <1>8, <1>9, <1>10
<1> QED
  BY <1>11, <1>12 DEF row, of, nobody

Size(n) == IF n < 0 THEN -n ELSE n
SumOfOpenings(rows, K) == Page!MapThenSumSet(LAMBDA k : rows[k].opening + rows[k].adjustments, K)
SumOfPrimes(rows, K) ==
  Page!MapThenSumSet(LAMBDA k : IF rows[k].primes < 0 THEN -rows[k].primes ELSE rows[k].primes, K)

LEMMA CardsAre ==
  /\ Page!Cards.entries = SumOfField(list.rows, "sessions", PageTill)
  /\ Page!Cards.withdrawals = SumOfField(list.rows, "withdrawals", PageTill)
  /\ Page!Cards.primes = SumOfPrimes(list.rows, PageTill)
<1>1. Page!Cards.entries = SumOfField(list.rows, "sessions", PageTill)
  BY DEF Page!Cards, SumOfField, Page!MapThenSumSet, Page!MapThenFoldSet
<1>2. Page!Cards.withdrawals = SumOfField(list.rows, "withdrawals", PageTill)
  BY DEF Page!Cards, SumOfField, Page!MapThenSumSet, Page!MapThenFoldSet
<1>3. Page!Cards.primes = SumOfPrimes(list.rows, PageTill)
  BY DEF Page!Cards, SumOfPrimes, Page!MapThenSumSet, Page!MapThenFoldSet
<1> QED
  BY <1>1, <1>2, <1>3

LEMMA OpeningSum ==
  ASSUME NEW K, IsFiniteSet(K), NEW rows, NEW e \in [K -> Int],
         \A k \in K : e[k] = rows[k].opening + rows[k].adjustments
  PROVE  SumOfOpenings(rows, K) = SumOf(e, K)
<1> DEFINE Folds(g) == g = [s \in SUBSET K |-> IF s = {} THEN 0
                              ELSE rows[Pick(s)].opening + rows[Pick(s)].adjustments + g[s \ {Pick(s)}]]
           fold == CHOOSE g : Folds(g)
<1>1. ASSUME NEW g PROVE Folds(g) <=> Unfolds(g, e, K)
  <2>1. ASSUME NEW s \in SUBSET K, s # {}
        PROVE  e[Pick(s)] = rows[Pick(s)].opening + rows[Pick(s)].adjustments
    BY <2>1, Smaller
  <2>2. ASSUME NEW s \in SUBSET K
        PROVE  Value(e, g, s) = IF s = {} THEN 0
                 ELSE rows[Pick(s)].opening + rows[Pick(s)].adjustments + g[s \ {Pick(s)}]
    BY <2>1 DEF Value
  <2> QED
    BY <2>2 DEF Unfolds
<1>2. SumOfOpenings(rows, K) = fold[K]
  BY DEF SumOfOpenings, Page!MapThenSumSet, Page!MapThenFoldSet, Pick, fold, Folds
<1> HIDE DEF Folds
<1>3. \E g : Folds(g)
  BY <1>1, SumsExist
<1>4. Folds(fold)
  BY <1>3
<1> HIDE DEF fold
<1>5. fold[K] = SumOf(e, K)
  BY <1>1, <1>4, UnfoldedIs
<1> QED
  BY <1>2, <1>5

LEMMA PrimeSum ==
  ASSUME NEW K, IsFiniteSet(K), NEW rows, NEW e \in [K -> Int],
         \A k \in K : e[k] = Size(rows[k].primes)
  PROVE  SumOfPrimes(rows, K) = SumOf(e, K)
<1> DEFINE Folds(g) == g = [s \in SUBSET K |-> IF s = {} THEN 0
                              ELSE Size(rows[Pick(s)].primes) + g[s \ {Pick(s)}]]
           fold == CHOOSE g : Folds(g)
<1>1. ASSUME NEW g PROVE Folds(g) <=> Unfolds(g, e, K)
  <2>1. ASSUME NEW s \in SUBSET K, s # {} PROVE e[Pick(s)] = Size(rows[Pick(s)].primes)
    BY <2>1, Smaller
  <2>2. ASSUME NEW s \in SUBSET K
        PROVE  Value(e, g, s) = IF s = {} THEN 0 ELSE Size(rows[Pick(s)].primes) + g[s \ {Pick(s)}]
    BY <2>1 DEF Value
  <2> QED
    BY <2>2 DEF Unfolds
<1>2. SumOfPrimes(rows, K) = fold[K]
  BY DEF SumOfPrimes, Size, Page!MapThenSumSet, Page!MapThenFoldSet, Pick, fold, Folds
<1> HIDE DEF Folds
<1>3. \E g : Folds(g)
  BY <1>1, SumsExist
<1>4. Folds(fold)
  BY <1>3
<1> HIDE DEF fold
<1>5. fold[K] = SumOf(e, K)
  BY <1>1, <1>4, UnfoldedIs
<1> QED
  BY <1>2, <1>5

\* The cards lead from the openings to the balances.
LEMMA CardsAddUp ==
  ASSUME NEW K, IsFiniteSet(K), NEW rows, NEW closing \in [K -> Int],
         \A k \in K : /\ closing[k] = rows[k].opening + rows[k].sessions + rows[k].primes
                                       + rows[k].adjustments - rows[k].withdrawals
                      /\ rows[k].opening \in Int /\ rows[k].sessions \in Int
                      /\ rows[k].primes \in Int /\ rows[k].adjustments \in Int
                      /\ rows[k].withdrawals \in Int /\ rows[k].primes <= 0
  PROVE  SumOf(closing, K) = SumOfOpenings(rows, K) + SumOfField(rows, "sessions", K)
           - SumOfField(rows, "withdrawals", K) - SumOfPrimes(rows, K)
<1> DEFINE o == [k \in K |-> rows[k].opening + rows[k].adjustments]
           s == [k \in K |-> rows[k].sessions]
           w == [k \in K |-> rows[k].withdrawals]
           p == [k \in K |-> -rows[k].primes]
           mw == [k \in K |-> -w[k]]
           mp == [k \in K |-> -p[k]]
           os == [k \in K |-> o[k] + s[k]]
           osw == [k \in K |-> os[k] + mw[k]]
           all == [k \in K |-> osw[k] + mp[k]]
<1>1. /\ o \in [K -> Int] /\ \A k \in K : o[k] = rows[k].opening + rows[k].adjustments
      /\ s \in [K -> Int] /\ \A k \in K : s[k] = rows[k]["sessions"]
      /\ w \in [K -> Int] /\ \A k \in K : w[k] = rows[k]["withdrawals"]
      /\ p \in [K -> Int] /\ \A k \in K : p[k] = -rows[k].primes
  OBVIOUS
<1>2. \A k \in K : p[k] = Size(rows[k].primes)
  <2>1. \A k \in K : Size(rows[k].primes) = -rows[k].primes
    BY DEF Size
  <2> HIDE DEF p
  <2> QED
    BY <1>1, <2>1
<1> HIDE DEF o, s, w, p
<1>3. /\ SumOfOpenings(rows, K) = SumOf(o, K) /\ SumOfPrimes(rows, K) = SumOf(p, K)
      /\ SumOfField(rows, "sessions", K) = SumOf(s, K)
      /\ SumOfField(rows, "withdrawals", K) = SumOf(w, K)
  BY <1>1, <1>2, OpeningSum, PrimeSum, FieldSum
<1>4. /\ mw \in [K -> Int] /\ mp \in [K -> Int] /\ os \in [K -> Int]
      /\ \A k \in K : mw[k] = -w[k] /\ mp[k] = -p[k] /\ os[k] = o[k] + s[k]
  BY <1>1
<1>5. SumOf(mw, K) = -SumOf(w, K) /\ SumOf(mp, K) = -SumOf(p, K)
  BY <1>1, SumOfNegated
<1>6. SumOf(os, K) = SumOf(o, K) + SumOf(s, K)
  BY <1>1, SumOfSums
<1> HIDE DEF mw, mp, os
<1>7. osw \in [K -> Int] /\ (\A k \in K : osw[k] = os[k] + mw[k])
      /\ SumOf(osw, K) = SumOf(os, K) + SumOf(mw, K)
  <2>1. osw \in [K -> Int] /\ (\A k \in K : osw[k] = os[k] + mw[k])
    BY <1>4
  <2>2. SumOf(osw, K) = SumOf(os, K) + SumOf(mw, K)
    BY <1>4, SumOfSums
  <2> QED
    BY <2>1, <2>2
<1> HIDE DEF osw
<1>8. SumOf(all, K) = SumOf(osw, K) + SumOf(mp, K)
  BY <1>4, <1>7, SumOfSums
<1>9. all = closing
  <2>1. ASSUME NEW k \in K PROVE osw[k] + mp[k] = closing[k]
    <3>1. /\ osw[k] = os[k] + mw[k] /\ os[k] = o[k] + s[k] /\ mw[k] = -w[k] /\ mp[k] = -p[k]
          /\ o[k] = rows[k].opening + rows[k].adjustments /\ s[k] = rows[k].sessions
          /\ w[k] = rows[k].withdrawals /\ p[k] = -rows[k].primes
      BY <1>1, <1>4, <1>7
    <3>2. /\ closing[k] = rows[k].opening + rows[k].sessions + rows[k].primes
                            + rows[k].adjustments - rows[k].withdrawals
          /\ rows[k].opening \in Int /\ rows[k].sessions \in Int
          /\ rows[k].primes \in Int /\ rows[k].adjustments \in Int
          /\ rows[k].withdrawals \in Int
      OBVIOUS
    <3> QED
      BY <3>1, <3>2
  <2>2. all = [k \in K |-> closing[k]]
    BY <2>1
  <2> HIDE DEF all
  <2> QED
    BY <2>2
<1>10. SumOf(o, K) \in Int /\ SumOf(s, K) \in Int /\ SumOf(w, K) \in Int /\ SumOf(p, K) \in Int
  BY <1>1, SumOfIs
<1> HIDE DEF all
<1> QED
  BY <1>3, <1>5, <1>6, <1>7, <1>8, <1>9, <1>10

LEMMA DayShows == PageTyped /\ DayInv => DayAddsUp
<1> SUFFICES ASSUME PageTyped, DayInv, list # None, list.quiet PROVE DayAddsUp
  BY DEF DayAddsUp, Page!DayAddsUp
<1> DEFINE b == SubSeq(book, 1, list.at)
           d == list.date
           rows == list.rows
           closing == BalancesOf(b)
<1>1. list \in ListSet /\ Sound(list, book) /\ book \in BookSet
  BY DEF PageTyped, ScreenTyped, BookTyped, BookSet, DayInv
<1>2. b \in BookSet /\ d \in Nat
  BY <1>1, ThenIs DEF ListSet, Sound
<1>3. ReadFrom(list, b)
  BY <1>1 DEF Sound
<1> HIDE DEF b
<1>4. /\ \A i \in DOMAIN b : b[i].day <= d
      /\ list.total = TillSum(closing)
      /\ rows = [t \in PageTill |-> Page!DayOfTill(b, t, d, closing[t])]
  BY <1>3 DEF ReadFrom
<1>5. closing \in [PageTill -> Int] /\ \A t \in PageTill : closing[t] = Page!BalanceIn(b, t)
  BY <1>2, BalanceIsInt DEF BalancesOf
<1> HIDE DEF d, closing
<1>6. ASSUME NEW t \in PageTill PROVE rows[t] = Page!DayOfTill(b, t, d, Page!BalanceIn(b, t))
  BY <1>4, <1>5
<1> HIDE DEF rows
<1>7. ASSUME NEW t \in PageTill
      PROVE  /\ rows[t].opening = Page!SumOver(b, {i \in DOMAIN b : b[i].till = t /\ b[i].day < d})
             /\ rows[t].closing = rows[t].opening + rows[t].sessions + rows[t].primes
                                    + rows[t].adjustments - rows[t].withdrawals
             /\ rows[t].closing = Page!BalanceIn(b, t)
             /\ rows[t].opening \in Int /\ rows[t].closing \in Int /\ rows[t].sessions \in Int
             /\ rows[t].primes \in Int /\ rows[t].adjustments \in Int /\ rows[t].withdrawals \in Int
             /\ Page!getDayStats(b, t, d, None) = rows[t]
  <2>1. rows[t] = DayRow(b, t, d)
    BY <1>6 DEF DayRow
  <2> DEFINE row == DayRow(b, t, d)
  <2>2. /\ row.opening = Page!SumOver(b, {i \in DOMAIN b : b[i].till = t /\ b[i].day < d})
        /\ row.closing = row.opening + row.sessions + row.primes + row.adjustments
                                     - row.withdrawals
        /\ row.closing = Page!BalanceIn(b, t)
        /\ row.opening \in Int /\ row.closing \in Int /\ row.sessions \in Int /\ row.primes \in Int
        /\ row.adjustments \in Int /\ row.withdrawals \in Int
        /\ Page!getDayStats(b, t, d, None) = row
    BY <1>2, <1>4, RowIs, Zenon
  <2> HIDE DEF row
  <2>3. rows[t] = row
    BY <2>1 DEF row
  <2> QED
    BY <2>2, <2>3
<1>8. list.total = Page!SumOver(b, DOMAIN b)
  BY <1>2, <1>4, ListTotalIs DEF closing
<1>9. ASSUME \A t \in PageTill : rows[t].primes <= 0
      PROVE  list.total = SumOfOpenings(rows, PageTill) + SumOfField(rows, "sessions", PageTill)
               - SumOfField(rows, "withdrawals", PageTill) - SumOfPrimes(rows, PageTill)
  <2>1. IsFiniteSet(PageTill)
    BY PageAssumption
  <2>2. \A t \in PageTill :
          /\ closing[t] = rows[t].opening + rows[t].sessions + rows[t].primes
                                       + rows[t].adjustments - rows[t].withdrawals
          /\ rows[t].opening \in Int /\ rows[t].sessions \in Int
          /\ rows[t].primes \in Int /\ rows[t].adjustments \in Int
          /\ rows[t].withdrawals \in Int /\ rows[t].primes <= 0
    BY <1>5, <1>7, <1>9
  <2>3. SumOf(closing, PageTill) = SumOfOpenings(rows, PageTill) + SumOfField(rows, "sessions", PageTill)
          - SumOfField(rows, "withdrawals", PageTill) - SumOfPrimes(rows, PageTill)
    BY <1>5, <2>1, <2>2, CardsAddUp
  <2>4. list.total = SumOf(closing, PageTill)
    BY <1>4 DEF TillSum, SumOf
  <2> QED
    BY <2>3, <2>4
<1>10. (\A t \in PageTill : rows[t].primes <= 0) =>
         list.total = Page!MapThenSumSet(LAMBDA t : rows[t].opening + rows[t].adjustments, PageTill)
                        + Page!Cards.entries - Page!Cards.withdrawals - Page!Cards.primes
  <2>1. /\ Page!Cards.entries = SumOfField(rows, "sessions", PageTill)
        /\ Page!Cards.withdrawals = SumOfField(rows, "withdrawals", PageTill)
        /\ Page!Cards.primes = SumOfPrimes(rows, PageTill)
    BY CardsAre DEF rows
  <2>2. Page!MapThenSumSet(LAMBDA t : rows[t].opening + rows[t].adjustments, PageTill)
          = SumOfOpenings(rows, PageTill)
    BY DEF SumOfOpenings, Page!MapThenSumSet, Page!MapThenFoldSet
  <2> DEFINE op == Page!MapThenSumSet(LAMBDA t : rows[t].opening + rows[t].adjustments, PageTill)
  <2>3. op = SumOfOpenings(rows, PageTill)
    BY <2>2
  <2> HIDE DEF op
  <2>4. (\A t \in PageTill : rows[t].primes <= 0) =>
         list.total = op + Page!Cards.entries - Page!Cards.withdrawals - Page!Cards.primes
    BY <1>9, <2>1, <2>3
  <2> QED
    BY <2>4 DEF op
<1>11. ASSUME NEW t \in PageTill,
              NEW field \in {"sessions", "primes", "withdrawals", "adjustments"}
       PROVE  rows[t][field] = DayOfNobody(b, t, d)[field]
                                 + SumOfField(DayOf(b, t, d), field, PageStaff)
  <2>1. rows[t] = DayRow(b, t, d)
    BY <1>6 DEF DayRow
  <2> QED
    BY <1>2, <2>1, StaffAddsUp
<1> QED
  <2>1. list.total = Page!SumOver(b, DOMAIN b)
    BY <1>8
  <2>2. ASSUME NEW t \in PageTill
        PROVE  LET row == rows[t] IN
         /\ row.opening = Page!SumOver(b, {i \in DOMAIN b : b[i].till = t /\ b[i].day < d})
         /\ row.closing = row.opening + row.sessions + row.primes + row.adjustments
                                      - row.withdrawals
         /\ row.closing = Page!BalanceIn(b, t)
         /\ LET whole == Page!getDayStats(b, t, d, None)
                of == [s \in PageStaff |-> Page!getDayStats(b, t, d, s)]
                nobody == Page!computeDayStats(0, b, {i \in DOMAIN b :
                  b[i].till = t /\ b[i].day = d /\ b[i].staff = None})
            IN /\ whole = row
               /\ \A field \in {"sessions", "primes", "withdrawals", "adjustments"} :
                    row[field] = nobody[field]
                      + Page!MapThenSumSet(LAMBDA s : of[s][field], PageStaff)
    BY <1>7, <1>11 DEF DayOfNobody, DayOf, SumOfField, Page!MapThenSumSet, Page!MapThenFoldSet
  <2> QED
    BY <1>10, <2>1, <2>2 DEF DayAddsUp, Page!DayAddsUp, b, d, rows

\* The figures of the day are those of the book for any tills, staff members,
\* movements and dates, if nothing was posted between the two queries
\* (listAccountsWithDayStats, computeDayStats, getDayStats).
THEOREM DayOnThePageAddsUp == Page!Spec => []DayAddsUp
<1>1. Page!Spec => []PageTyped
  BY PageTypes
<1>2. Page!Init => DayInv
  BY DayInit
<1>3. PageTyped /\ PageTyped' /\ DayInv /\ [Page!Next]_Page!vars => DayInv'
  BY DayStep
<1>4. PageTyped /\ DayInv => DayAddsUp
  BY DayShows
<1> QED
  BY <1>1, <1>2, <1>3, <1>4, PTL DEF Page!Spec

-----------------------------------------------------------------------------
(***************************************************************************)
(* The history. Pages are counted from the latest movement back; what a    *)
(* function has read so far is what its queries answered, all from the     *)
(* book of the first one if nothing was posted meanwhile.                  *)
(***************************************************************************)

LEMMA QuotientIs ==
  ASSUME NEW r \in Nat, NEW P \in Nat \ {0}
  PROVE  r \div P \in Nat /\ (r \div P) * P <= r /\ r < (r \div P) * P + P
<1>1. P > 0
  OBVIOUS
<1> QED
  BY <1>1, SMTT(30)
LEMMA Larger ==
  ASSUME NEW a \in Nat, NEW c \in Nat, NEW P \in Nat, a < c
  PROVE  a * P + P <= c * P
<1>1. PICK k \in Nat : c = a + 1 + k
  <2>1. c - a - 1 \in Nat /\ c = a + 1 + (c - a - 1)
    OBVIOUS
  <2> QED
    BY <2>1
<1>2. c * P = a * P + P + k * P
  BY <1>1
<1>3. k * P \in Nat
  BY <1>1
<1>4. a * P \in Nat /\ c * P \in Nat
  OBVIOUS
<1> DEFINE x == a * P
           y == c * P
           z == k * P
<1>5. x \in Nat /\ y \in Nat /\ z \in Nat /\ y = x + P + z
  BY <1>2, <1>3, <1>4
<1> HIDE DEF x, y, z
<1>6. x + P <= y
  BY <1>5
<1> QED
  BY <1>6 DEF x, y
LEMMA PlaceIs ==
  ASSUME NEW r \in Nat, NEW P \in Nat \ {0}, NEW n \in Nat \ {0}
  PROVE  r \in (n - 1) * P .. n * P - 1 <=> (r \div P) + 1 = n
<1> DEFINE q == r \div P
           m == n - 1
<1>1. q \in Nat /\ q * P <= r /\ r < q * P + P /\ m \in Nat
  BY QuotientIs
<1>2. n * P = m * P + P
  OBVIOUS
<1>3. m * P \in Nat /\ q * P \in Nat
  BY <1>1
<1>4. m < q => m * P + P <= q * P
  BY <1>1, Larger
<1>5. q < m => q * P + P <= m * P
  BY <1>1, Larger
<1> DEFINE x == m * P
           y == q * P
           z == n * P
<1>6. x \in Nat /\ y \in Nat /\ z = x + P /\ y <= r /\ r < y + P
      /\ (m < q => x + P <= y) /\ (q < m => y + P <= x) /\ (m = q => x = y)
  BY <1>1, <1>2, <1>3, <1>4, <1>5
<1> HIDE DEF x, y, z, q
<1>7. x <= r /\ r <= z - 1 <=> q = m
  BY <1>1, <1>6
<1> HIDE DEF m
<1>8. r \in x .. z - 1 <=> q = m
  BY <1>6, <1>7
<1>9. q = m <=> q + 1 = n
  BY <1>1 DEF m
<1> QED
  BY <1>8, <1>9 DEF x, z, q, m

\* What a day of the book answers to the filters f, and all days that are asked for.
Found(b, f) == Page!Where(b, f, Page!TheDay(f))
Batch(b, f, d) == Page!Slice(Page!Where(b, f, d), 1, BatchSize)
Batches(b, f, D) == UNION {Batch(b, f, d) : d \in D}
Request(w, d) == [what |-> w, day |-> d]

\* How far a function has read the page n of the history from the book b.
ReadSoFar(g, f, n, b) ==
  IF Page!SingleDay(f)
  THEN /\ Request("total", Page!TheDay(f)) \notin g.todo => g.total = Cardinality(Found(b, f))
       /\ g.items = IF Request("rows", Page!TheDay(f)) \in g.todo THEN {}
                    ELSE Page!Slice(Found(b, f), n, PageSize)
  ELSE g.items = Batches(b, f, {d \in Page!DaysAsked(f) : Request("batch", d) \notin g.todo})

PageSound(t, b) ==
  LET g == t.got IN
  /\ g.at = None => g = Page!NothingRead(t.filters)
  /\ g.at # None => g.at <= Len(b)
                    /\ (g.quiet => ReadSoFar(g, t.filters, t.next, SubSeq(b, 1, g.at)))

\* A page of the history as it is answered when the book is b.
Answered(h, b) ==
  IF Page!SingleDay(h.filters)
  THEN /\ h.total = Cardinality(Found(b, h.filters))
       /\ h.items = Page!Slice(Found(b, h.filters), h.page, PageSize)
       /\ h.pages = Page!PagesOf(h.total)
  ELSE LET all == Batches(b, h.filters, Page!DaysAsked(h.filters)) IN
       /\ h.total = Cardinality(all)
       /\ h.items = Page!Slice(all, h.page, PageSize)
       /\ h.pages = Page!Max({1, Page!PagesOf(h.total)})

PagesInv ==
  /\ \A k \in Task : task[k].step = "history" => PageSound(task[k], book)
  /\ history # None => /\ history.page # 0
                       /\ history.at <= Len(book)
                       /\ history.quiet => Answered(history, SubSeq(book, 1, history.at))

LEMMA NothingIsRead ==
  ASSUME NEW f, NEW n, NEW b
  PROVE  /\ ReadSoFar(Page!NothingRead(f), f, n, b)
         /\ Page!NothingRead(f).at = None /\ Page!NothingRead(f).todo = Page!Reads(f)
         /\ Page!NothingRead(f).quiet
<1> DEFINE g == Page!NothingRead(f)
<1>1. g.todo = Page!Reads(f) /\ g.items = {} /\ g.at = None /\ g.quiet = TRUE
  BY DEF Page!NothingRead
<1> HIDE DEF g
<1>2. CASE Page!SingleDay(f)
  <2>1. Request("total", Page!TheDay(f)) \in g.todo /\ Request("rows", Page!TheDay(f)) \in g.todo
    BY <1>1, <1>2 DEF Page!Reads, Request
  <2> QED
    BY <1>1, <1>2, <2>1 DEF ReadSoFar, g
<1>3. CASE ~Page!SingleDay(f)
  <2>1. \A d \in Page!DaysAsked(f) : Request("batch", d) \in g.todo
    BY <1>1, <1>3 DEF Page!Reads, Request
  <2>2. {d \in Page!DaysAsked(f) : Request("batch", d) \notin g.todo} = {}
    BY <2>1
  <2>3. Batches(b, f, {}) = {}
    BY DEF Batches
  <2> QED
    BY <1>1, <1>3, <2>2, <2>3 DEF ReadSoFar, g
<1> QED
  BY <1>1, <1>2, <1>3 DEF g

\* One more query.
LEMMA ReadFurther ==
  ASSUME NEW g, NEW h, NEW f, NEW n, NEW b, NEW r \in g.todo, g.todo \subseteq Page!Reads(f),
         ReadSoFar(g, f, n, b),
         h.todo = g.todo \ {r},
         h.total = IF r.what = "total" THEN Cardinality(Page!Where(b, f, r.day)) ELSE g.total,
         h.items = IF r.what = "total" THEN g.items ELSE g.items \cup Page!RowsRead(b, f, r, n)
  PROVE  ReadSoFar(h, f, n, b)
<1>1. CASE Page!SingleDay(f)
  <2>1. r = Request("total", Page!TheDay(f)) \/ r = Request("rows", Page!TheDay(f))
    BY <1>1 DEF Page!Reads, Request
  <2>2. Request("total", Page!TheDay(f)) # Request("rows", Page!TheDay(f))
    BY DEF Request
  <2>3. Request("total", Page!TheDay(f)).what = "total" /\ Request("rows", Page!TheDay(f)).what = "rows"
        /\ Request("total", Page!TheDay(f)).day = Page!TheDay(f)
        /\ Request("rows", Page!TheDay(f)).day = Page!TheDay(f)
    BY DEF Request
  <2>4. /\ Request("total", Page!TheDay(f)) \notin g.todo => g.total = Cardinality(Found(b, f))
        /\ g.items = IF Request("rows", Page!TheDay(f)) \in g.todo THEN {}
                     ELSE Page!Slice(Found(b, f), n, PageSize)
    BY <1>1 DEF ReadSoFar
  <2>5. CASE r = Request("total", Page!TheDay(f))
    <3>1. h.total = Cardinality(Found(b, f)) /\ h.items = g.items
      BY <2>3, <2>5 DEF Found
    <3>2. Request("rows", Page!TheDay(f)) \in h.todo <=> Request("rows", Page!TheDay(f)) \in g.todo
      BY <2>2, <2>5
    <3> QED
      BY <1>1, <2>4, <3>1, <3>2 DEF ReadSoFar
  <2>6. CASE r = Request("rows", Page!TheDay(f))
    <3>1. Page!RowsRead(b, f, r, n) = Page!Slice(Found(b, f), n, PageSize)
      BY <2>3, <2>6 DEF Page!RowsRead, Found
    <3>2. g.items = {} /\ h.items = Page!Slice(Found(b, f), n, PageSize) /\ h.total = g.total
      BY <2>3, <2>4, <2>6, <3>1
    <3>3. Request("rows", Page!TheDay(f)) \notin h.todo
          /\ (Request("total", Page!TheDay(f)) \in h.todo <=> Request("total", Page!TheDay(f)) \in g.todo)
      BY <2>2, <2>6
    <3> QED
      BY <1>1, <2>4, <3>2, <3>3 DEF ReadSoFar
  <2> QED
    BY <2>1, <2>5, <2>6
<1>2. CASE ~Page!SingleDay(f)
  <2>1. PICK e \in Page!DaysAsked(f) : r = Request("batch", e)
    BY <1>2 DEF Page!Reads, Request
  <2>2. r.what = "batch" /\ r.day = e
    BY <2>1 DEF Request
  <2>3. \A d : Request("batch", d) = r <=> d = e
    BY <2>1 DEF Request
  <2>4. h.items = g.items \cup Batch(b, f, e)
    BY <2>2 DEF Page!RowsRead, Batch
  <2> DEFINE D == {d \in Page!DaysAsked(f) : Request("batch", d) \notin g.todo}
             E == {d \in Page!DaysAsked(f) : Request("batch", d) \notin h.todo}
  <2>5. E = D \cup {e}
    BY <2>1, <2>3
  <2>6. g.items = Batches(b, f, D)
    BY <1>2 DEF ReadSoFar
  <2> HIDE DEF D
  <2>7. Batches(b, f, D \cup {e}) = Batches(b, f, D) \cup Batch(b, f, e)
    BY DEF Batches
  <2>8. h.items = Batches(b, f, E)
    BY <2>4, <2>5, <2>6, <2>7
  <2> QED
    BY <1>2, <2>8 DEF ReadSoFar
<1> QED
  BY <1>1, <1>2

LEMMA FreshIsSound ==
  ASSUME NEW t, t.got = Page!NothingRead(t.filters), NEW b
  PROVE  PageSound(t, b)
BY NothingIsRead DEF PageSound

LEMMA PageStays ==
  ASSUME PageTyped, Grows, NEW t, GotTyped(t), t.step = "history", PageSound(t, book)
  PROVE  PageSound(t, book')
<1> DEFINE g == t.got
<1>1. g.at \in Nat \cup {None}
  BY DEF GotTyped, HistoryRead
<1>2. CASE g.at = None
  BY <1>2 DEF PageSound
<1>3. CASE g.at # None
  <2>1. g.at \in Nat /\ g.at <= Len(book)
    BY <1>1, <1>3 DEF PageSound
  <2>2. g.at <= Len(book') /\ SubSeq(book', 1, g.at) = SubSeq(book, 1, g.at)
    BY <2>1, BookStays
  <2>3. g.quiet => ReadSoFar(g, t.filters, t.next, SubSeq(book, 1, g.at))
    BY <1>3 DEF PageSound
  <2> QED
    BY <1>3, <2>2, <2>3 DEF PageSound
<1> QED
  BY <1>2, <1>3

LEMMA HistoryStays ==
  ASSUME PageTyped, Grows, NEW h \in Page!HistoryPage, h.at <= Len(book),
         h.quiet => Answered(h, SubSeq(book, 1, h.at))
  PROVE  h.at <= Len(book') /\ (h.quiet => Answered(h, SubSeq(book', 1, h.at)))
<1>1. h.at \in Nat
  BY DEF Page!HistoryPage
<1>2. h.at <= Len(book') /\ SubSeq(book', 1, h.at) = SubSeq(book, 1, h.at)
  BY <1>1, BookStays
<1> QED
  BY <1>2

\* A step that neither reads nor shows the history.
Aside ==
  /\ history' = history
  /\ \A k \in Task : \/ task'[k] = task[k] \/ task'[k].step # "history"
                     \/ task'[k].got = Page!NothingRead(task'[k].filters)

LEMMA AsideKeeps ==
  ASSUME PageTyped, PageTyped', PagesInv, Grows, Aside
  PROVE  PagesInv'
<1>1. ASSUME NEW k \in Task, task'[k].step = "history" PROVE PageSound(task'[k], book')
  <2>1. CASE task'[k] = task[k]
    <3>1. GotTyped(task[k]) /\ task[k].step = "history" /\ PageSound(task[k], book)
      BY <1>1, <2>1, TaskIs DEF PageTyped, PagesInv
    <3> QED
      BY <2>1, <3>1, PageStays
  <2>2. CASE task'[k].got = Page!NothingRead(task'[k].filters)
    BY <2>2, FreshIsSound
  <2> QED
    BY <1>1, <2>1, <2>2 DEF Aside
<1>2. ASSUME history' # None
      PROVE  /\ history'.page # 0 /\ history'.at <= Len(book')
             /\ history'.quiet => Answered(history', SubSeq(book', 1, history'.at))
  <2>1. history' = history /\ history # None
    BY <1>2 DEF Aside
  <2>2. history \in Page!HistoryPage /\ history.page # 0 /\ history.at <= Len(book)
        /\ (history.quiet => Answered(history, SubSeq(book, 1, history.at)))
    BY <2>1 DEF PageTyped, ScreenTyped, PagesInv
  <2>3. /\ history.at <= Len(book')
        /\ history.quiet => Answered(history, SubSeq(book', 1, history.at))
    BY <2>2, HistoryStays
  <2> QED
    BY <2>1, <2>2, <2>3
<1> QED
  BY <1>1, <1>2 DEF PagesInv

LEMMA TaskAside ==
  ASSUME Tasks, NEW k \in Task, NEW t, task' = [task EXCEPT ![k] = t],
         t.step # "history" \/ t.got = Page!NothingRead(t.filters), history' = history
  PROVE  Aside
BY DEF Tasks, Aside

LEMMA LoadingIsFresh ==
  ASSUME NEW t, Shaped(t), t.next # 0
  PROVE  Page!Loading(t).got = Page!NothingRead(Page!Loading(t).filters)
<1> DEFINE g == Page!NothingRead(t.filters)
<1>1. Page!Loading(t) = [step |-> "history", order |-> t.order, next |-> t.next,
                         filters |-> t.filters, got |-> g]
  BY LoadingTyped
<1> HIDE DEF g
<1>2. Page!Loading(t).got = g /\ Page!Loading(t).filters = t.filters
  BY <1>1
<1> QED
  BY <1>2 DEF g

LEMMA EndIsAside ==
  ASSUME Tasks, NEW k \in Task, Page!EndOf(k), history' = history
  PROVE  Aside
<1>1. Page!Idle.step = "idle" /\ task' = [task EXCEPT ![k] = Page!Idle]
  BY DEF Page!Idle, Page!EndOf
<1> QED
  BY <1>1, TaskAside

LEMMA AfterIsAside ==
  ASSUME Tasks, NEW k \in Task, Page!AfterList(k), history' = history
  PROVE  Aside
<1>1. CASE task[k].next > 0
  <2>1. Page!Loading(task[k]).got = Page!NothingRead(Page!Loading(task[k]).filters)
    <3>1. task[k].next # 0 /\ Shaped(task[k])
      BY <1>1, TaskIs DEF Shaped
    <3> QED
      BY <3>1, LoadingIsFresh
  <2>2. task' = [task EXCEPT ![k] = Page!Loading(task[k])]
    BY <1>1 DEF Page!AfterList
  <2> QED
    BY <2>1, <2>2, TaskAside
<1>2. CASE ~(task[k].next > 0)
  BY <1>2, EndIsAside DEF Page!AfterList
<1> QED
  BY <1>1, <1>2

LEMMA OthersAreAside ==
  ASSUME PageTyped, NEW k \in Task,
         \/ Ordered(k) \/ Listing(k) \/ Page!GiveUpHistory(k) \/ Begun(k)
  PROVE  Aside
<1>1. Tasks /\ Shaped(task[k])
  BY TaskIs DEF PageTyped
<1>2. ASSUME NEW s \in Ordering \cup {"accounts"}, task' = [task EXCEPT ![k] = [task[k] EXCEPT !.step = s]],
             history' = history
      PROVE  Aside
  <2>1. s # "history"
    BY DEF Ordering
  <2>2. [task[k] EXCEPT !.step = s].step = s
    BY <1>1, StepIs
  <2>3. [task[k] EXCEPT !.step = s].step # "history"
    BY <2>1, <2>2
  <2> QED
    BY <1>1, <1>2, <2>3, TaskAside
<1>3. CASE Page!ServeOrder(k)
  <2>1. "posted" \in Ordering \cup {"accounts"} /\ history' = history
        /\ task' = [task EXCEPT ![k] = [task[k] EXCEPT !.step = "posted"]]
    BY <1>3 DEF Page!ServeOrder, Page!screen, Ordering
  <2> QED
    BY <1>2, <2>1
<1>4. CASE Page!RefuseOrder(k)
  <2>1. "refused" \in Ordering \cup {"accounts"} /\ history' = history
        /\ task' = [task EXCEPT ![k] = [task[k] EXCEPT !.step = "refused"]]
    BY <1>4 DEF Page!RefuseOrder, Page!screen, Ordering
  <2> QED
    BY <1>2, <2>1
<1>5. CASE Page!Confirmed(k)
  <2>1. "accounts" \in Ordering \cup {"accounts"} /\ history' = history
        /\ task' = [task EXCEPT ![k] = [task[k] EXCEPT !.step = "accounts"]]
    BY <1>5 DEF Page!Confirmed, Page!screen
  <2> QED
    BY <1>2, <2>1
<1>6. CASE Page!Refused(k) \/ Page!GiveUpOrder(k)
  BY <1>1, <1>6, EndIsAside DEF Page!Refused, Page!GiveUpOrder, Page!screen
<1>7. ASSUME NEW s \in {"movements", "listed"}, NEW g,
             task' = [task EXCEPT ![k] = [task[k] EXCEPT !.step = s, !.got = g]], history' = history
      PROVE  Aside
  <2>1. [task[k] EXCEPT !.step = s, !.got = g].step = s
    <3>1. [task[k] EXCEPT !.step = s] = Stepped(task[k], s, task[k].got)
      BY <1>1, SteppedIs
    <3>2. [Stepped(task[k], s, task[k].got) EXCEPT !.got = g].step = s
      BY DEF Stepped
    <3>3. [task[k] EXCEPT !.step = s, !.got = g] = [[task[k] EXCEPT !.step = s] EXCEPT !.got = g]
      OBVIOUS
    <3> QED
      BY <3>1, <3>2, <3>3
  <2>2. [task[k] EXCEPT !.step = s, !.got = g].step # "history"
    BY <2>1
  <2> DEFINE t == [task[k] EXCEPT !.step = s, !.got = g]
  <2>3. task' = [task EXCEPT ![k] = t] /\ t.step # "history" /\ history' = history
    BY <1>7, <2>2
  <2> HIDE DEF t
  <2> QED
    BY <1>1, <2>3, TaskAside
<1>8. CASE Page!ReadAccounts(k)
  <2> DEFINE g == [date |-> today, balance |-> [t \in PageTill |-> Page!BalanceIn(book, t)],
                   holder |-> holder, at |-> Len(book)]
  <2>1. task' = [task EXCEPT ![k] = [task[k] EXCEPT !.step = "movements", !.got = g]] /\ history' = history
    BY <1>8 DEF Page!ReadAccounts, Page!screen
  <2> HIDE DEF g
  <2> QED
    BY <1>7, <2>1
<1>9. CASE Page!listAccountsWithDayStats(k)
  <2> DEFINE old == task[k].got
             g == [date |-> old.date, total |-> TillSum(old.balance),
                   rows |-> [t \in PageTill |-> Page!DayOfTill(book, t, old.date, old.balance[t])],
                   holder |-> old.holder, at |-> old.at, quiet |-> Len(book) = old.at]
  <2>1. task' = [task EXCEPT ![k] = [task[k] EXCEPT !.step = "listed", !.got = g]]
    BY <1>9 DEF Page!listAccountsWithDayStats, TillSum, Page!MapThenSumSet, Page!MapThenFoldSet
  <2>2. history' = history
    BY <1>9 DEF Page!listAccountsWithDayStats, Page!screen
  <2> HIDE DEF g
  <2> QED
    BY <1>7, <2>1, <2>2
<1>10. CASE Page!loadList(k) \/ Page!GiveUpList(k)
  BY <1>1, <1>10, AfterIsAside DEF Page!loadList, Page!GiveUpList
<1>11. CASE Page!GiveUpHistory(k)
  BY <1>1, <1>11, EndIsAside DEF Page!GiveUpHistory
<1>12. ASSUME NEW s \in {"post", "accounts"}, NEW o, NEW n, NEW f,
              Page!Starts(k, Page!Running(s, o, n, f)), history' = history
       PROVE  Aside
  <2>1. Page!Running(s, o, n, f).step # "history"
    BY DEF Page!Running
  <2> QED
    BY <1>1, <1>12, <2>1, TaskAside DEF Page!Starts
<1>13. ASSUME NEW n \in Nat \ {0}, NEW f \in Page!Filter, Page!LoadsHistory(k, n, f), history' = history
       PROVE  Aside
  <2> DEFINE t == Page!Running("history", None, n, f)
  <2>1. Shaped(t)
    BY RunningTyped
  <2>2. t.next # 0
    BY DEF Page!Running
  <2>3. task' = [task EXCEPT ![k] = Page!Loading(t)]
    BY <1>13 DEF Page!LoadsHistory, Page!Starts
  <2> HIDE DEF t
  <2>4. Page!Loading(t).got = Page!NothingRead(Page!Loading(t).filters)
    BY <2>1, <2>2, LoadingIsFresh
  <2> QED
    BY <1>1, <1>13, <2>3, <2>4, TaskAside
<1>14. form \in Page!Filter /\ page \in Nat \ {0}
  BY DEF PageTyped, ScreenTyped
<1>15. CASE Page!refreshAll(k)
  BY <1>12, <1>15 DEF Page!refreshAll, Page!screen
<1>16. CASE Page!openHistory(k) \/ Page!applyFilters(k)
  BY <1>13, <1>14, <1>16 DEF Page!openHistory, Page!applyFilters
<1>17. CASE Page!resetFilters(k)
  BY <1>13, <1>17, NoFilterIs DEF Page!resetFilters
<1>18. CASE Page!turnPage(k)
  <2>1. history \in Page!HistoryPage
    BY <1>18 DEF Page!turnPage, PageTyped, ScreenTyped
  <2>2. history.pages \in Nat
    BY <2>1 DEF Page!HistoryPage
  <2>3. Page!Max({page, history.pages}) \in Nat
    BY <1>14, <2>2, LargerIs
  <2>4. PICK n \in {page - 1, page + 1} \cap 1 .. Page!Max({page, history.pages}) :
          Page!LoadsHistory(k, n, form)
    BY <1>18 DEF Page!turnPage
  <2>5. n \in Nat \ {0}
    BY <2>3, <2>4
  <2> QED
    BY <1>13, <1>14, <1>18, <2>4, <2>5 DEF Page!turnPage
<1>19. CASE Page!submit(k)
  BY <1>12, <1>19 DEF Page!submit, Page!screen
<1> QED
  BY <1>3, <1>4, <1>5, <1>6, <1>8, <1>9, <1>10, <1>11, <1>15, <1>16, <1>17, <1>18, <1>19
  DEF Ordered, Listing, Begun

LEMMA ReadOnIsSound ==
  ASSUME PageTyped, NEW t, t.step = "history", GotTyped(t), PageSound(t, book), NEW r \in t.got.todo,
         NEW u, u.got = ReadOn(t, r), u.filters = t.filters, u.next = t.next
  PROVE  PageSound(u, book)
<1> DEFINE g == t.got
           h == ReadOn(t, r)
           f == t.filters
           n == t.next
<1>1. book \in BookSet /\ Len(book) \in Nat /\ None \notin Nat
  BY PageAssumption DEF PageTyped, BookTyped, BookSet
<1>2. g.at \in Nat \cup {None} /\ g.todo \subseteq Page!Reads(f)
  BY DEF GotTyped, HistoryRead
<1>3. /\ h.todo = g.todo \ {r}
      /\ h.total = IF r.what = "total" THEN Cardinality(Page!Where(book, f, r.day)) ELSE g.total
      /\ h.items = IF r.what = "total" THEN g.items ELSE g.items \cup Page!RowsRead(book, f, r, n)
      /\ h.at = IF g.at = None THEN Len(book) ELSE g.at
      /\ h.quiet <=> (g.quiet /\ (g.at = None \/ g.at = Len(book)))
  BY DEF ReadOn
<1>4. /\ g.at = None => g = Page!NothingRead(f)
      /\ g.at # None => g.at <= Len(book) /\ (g.quiet => ReadSoFar(g, f, n, SubSeq(book, 1, g.at)))
  BY DEF PageSound
<1> HIDE DEF h
<1>5. h.at \in Nat /\ h.at <= Len(book)
  BY <1>1, <1>2, <1>3, <1>4
<1>6. ASSUME h.quiet PROVE ReadSoFar(h, f, n, SubSeq(book, 1, h.at))
  <2>1. h.at = Len(book)
    BY <1>3, <1>6
  <2>2. SubSeq(book, 1, h.at) = book
    BY <1>1, <2>1, AllIs
  <2>3. ReadSoFar(g, f, n, book)
    <3>1. CASE g.at = None
      BY <1>4, <3>1, NothingIsRead
    <3>2. CASE g.at # None
      <4>1. g.at = Len(book) /\ g.quiet
        BY <1>3, <1>6, <3>2
      <4>2. SubSeq(book, 1, g.at) = book
        BY <1>1, <4>1, AllIs
      <4> QED
        BY <1>4, <3>2, <4>1, <4>2
    <3> QED
      BY <3>1, <3>2
  <2> HIDE DEF g, f, n
  <2>4. r \in g.todo
    BY DEF g
  <2>5. ReadSoFar(h, f, n, book)
    BY <1>2, <1>3, <2>3, <2>4, ReadFurther
  <2> QED
    BY <2>2, <2>5
<1>7. u.got = h /\ u.filters = f /\ u.next = n
  BY DEF h
<1> HIDE DEF g, f, n
<1> QED
  BY <1>1, <1>5, <1>6, <1>7 DEF PageSound

LEMMA HistoryIsRead ==
  ASSUME PageTyped, PageTyped', PagesInv, NEW k \in Task, NEW r, Page!ReadHistory(k, r)
  PROVE  PagesInv'
<1> DEFINE t == task[k]
           u == Stepped(task[k], "history", ReadOn(task[k], r))
<1>1. /\ t.step = "history" /\ r \in t.got.todo
      /\ task' = [task EXCEPT ![k] = [task[k] EXCEPT !.got = ReadOn(task[k], r)]]
      /\ UNCHANGED <<book, history>>
  BY ReadHistoryIs DEF Page!server, Page!screen
<1>2. Shaped(t) /\ GotTyped(t) /\ PageSound(t, book)
  BY <1>1, TaskIs DEF PageTyped, PagesInv
<1>3. [task[k] EXCEPT !.got = ReadOn(task[k], r)] = u
  <2> DEFINE g == ReadOn(task[k], r)
  <2>1. Shaped(task[k]) /\ task[k].step = "history"
    BY <1>1, <1>2
  <2> HIDE DEF g, t
  <2>2. [task[k] EXCEPT !.got = g] = Stepped(task[k], task[k].step, g)
    BY <2>1, SteppedIs
  <2>3. Stepped(task[k], task[k].step, g) = Stepped(task[k], "history", g)
    BY <2>1
  <2> QED
    BY <2>2, <2>3 DEF g
<1>4. u.got = ReadOn(t, r) /\ u.filters = t.filters /\ u.next = t.next
  BY DEF Stepped
<1>5. task' = [task EXCEPT ![k] = u]
  BY <1>1, <1>3
<1> HIDE DEF u
<1>6. PageSound(u, book)
  <2> HIDE DEF t
  <2> QED
    BY <1>1, <1>2, <1>4, ReadOnIsSound
<1>7. \A m \in Task : task'[m] = IF m = k THEN u ELSE task[m]
  BY <1>5 DEF PageTyped, Tasks
<1>8. \A m \in Task : task'[m].step = "history" => PageSound(task'[m], book')
  BY <1>1, <1>6, <1>7 DEF PagesInv
<1> QED
  BY <1>1, <1>8 DEF PagesInv

LEMMA HistoryIsShown ==
  ASSUME PageTyped, PageTyped', PagesInv, NEW k \in Task, Page!loadMovements(k)
  PROVE  PagesInv'
<1> DEFINE t == task[k]
           g == task[k].got
           f == task[k].filters
           answer == IF Page!SingleDay(f) THEN Page!SinglePage(t) ELSE Page!Merged(t)
           b == SubSeq(book, 1, g.at)
<1>1. /\ t.step = "history" /\ g.todo = {}
      /\ history' = [items |-> answer.items, total |-> answer.total, pages |-> answer.pages,
                     page |-> t.next, filters |-> f, at |-> g.at, quiet |-> g.quiet]
      /\ Page!EndOf(k)
      /\ UNCHANGED book
  BY DEF Page!loadMovements, Page!server
<1>2. GotTyped(t) /\ PageSound(t, book)
  BY <1>1, TaskIs DEF PageTyped, PagesInv
<1>3. t.next # 0 /\ g.at # None
  BY <1>1, <1>2 DEF GotTyped
<1>4. g.at <= Len(book) /\ (g.quiet => ReadSoFar(g, f, t.next, b))
  BY <1>2, <1>3 DEF PageSound
<1>5. CASE Page!SingleDay(f)
  <2>1. answer = [items |-> g.items, total |-> g.total, pages |-> Page!PagesOf(g.total)]
    BY <1>5 DEF Page!SinglePage
  <2> HIDE DEF answer, g, f, t, b
  <2>2. answer.items = g.items /\ answer.total = g.total /\ answer.pages = Page!PagesOf(g.total)
    BY <2>1
  <2>3. /\ history'.items = g.items /\ history'.total = g.total
        /\ history'.pages = Page!PagesOf(g.total) /\ history'.page = t.next /\ history'.filters = f
        /\ history'.at = g.at /\ history'.quiet = g.quiet
    BY <1>1, <2>2
  <2>4. ASSUME g.quiet PROVE Answered(history', b)
    <3>1. g.total = Cardinality(Found(b, f)) /\ g.items = Page!Slice(Found(b, f), t.next, PageSize)
      BY <1>1, <1>4, <1>5, <2>4 DEF ReadSoFar
    <3> QED
      BY <1>5, <2>3, <3>1 DEF Answered
  <2>5. history'.page # 0 /\ history'.at <= Len(book')
        /\ (history'.quiet => Answered(history', SubSeq(book', 1, history'.at)))
    BY <1>1, <1>3, <1>4, <2>3, <2>4 DEF b
  <2> QED
    <3>1. \A m \in Task : task'[m] = IF m = k THEN Page!Idle ELSE task[m]
      BY <1>1 DEF PageTyped, Tasks, Page!EndOf
    <3>2. \A m \in Task : task'[m].step = "history" => PageSound(task'[m], book')
      BY <1>1, <3>1 DEF PagesInv, Page!Idle
    <3> QED
      BY <2>5, <3>2 DEF PagesInv
<1>6. CASE ~Page!SingleDay(f)
  <2>1. answer = [items |-> Page!Slice(g.items, t.next, PageSize), total |-> Cardinality(g.items),
                  pages |-> Page!Max({1, Page!PagesOf(Cardinality(g.items))})]
    BY <1>6, PageCardinality DEF Page!Merged
  <2> HIDE DEF answer, g, f, t, b
  <2>2. /\ answer.items = Page!Slice(g.items, t.next, PageSize) /\ answer.total = Cardinality(g.items)
        /\ answer.pages = Page!Max({1, Page!PagesOf(Cardinality(g.items))})
    BY <2>1
  <2>3. /\ history'.items = Page!Slice(g.items, t.next, PageSize)
        /\ history'.total = Cardinality(g.items)
        /\ history'.pages = Page!Max({1, Page!PagesOf(Cardinality(g.items))})
        /\ history'.page = t.next /\ history'.filters = f
        /\ history'.at = g.at /\ history'.quiet = g.quiet
    BY <1>1, <2>2
  <2>4. ASSUME g.quiet PROVE Answered(history', b)
    <3>1. g.items = Batches(b, f, Page!DaysAsked(f))
      <4>1. g.items = Batches(b, f, {d \in Page!DaysAsked(f) : Request("batch", d) \notin g.todo})
        BY <1>4, <1>6, <2>4 DEF ReadSoFar
      <4>2. {d \in Page!DaysAsked(f) : Request("batch", d) \notin g.todo} = Page!DaysAsked(f)
        BY <1>1
      <4> QED
        BY <4>1, <4>2
    <3> QED
      BY <1>6, <2>3, <3>1 DEF Answered
  <2>5. history'.page # 0 /\ history'.at <= Len(book')
        /\ (history'.quiet => Answered(history', SubSeq(book', 1, history'.at)))
    BY <1>1, <1>3, <1>4, <2>3, <2>4 DEF b
  <2> QED
    <3>1. \A m \in Task : task'[m] = IF m = k THEN Page!Idle ELSE task[m]
      BY <1>1 DEF PageTyped, Tasks, Page!EndOf
    <3>2. \A m \in Task : task'[m].step = "history" => PageSound(task'[m], book')
      BY <1>1, <3>1 DEF PagesInv, Page!Idle
    <3> QED
      BY <2>5, <3>2 DEF PagesInv
<1> QED
  BY <1>5, <1>6

LEMMA PagesInit == Page!Init => PagesInv
<1> SUFFICES ASSUME Page!Init PROVE PagesInv
  OBVIOUS
<1>1. history = None /\ task = [k \in Task |-> Page!Idle]
  BY DEF Page!Init
<1>2. \A k \in Task : task[k].step = "idle"
  BY <1>1 DEF Page!Idle
<1> QED
  BY <1>1, <1>2 DEF PagesInv

LEMMA PagesStep == PageTyped /\ PageTyped' /\ PagesInv /\ [Page!Next]_Page!vars => PagesInv'
<1> SUFFICES ASSUME PageTyped, PageTyped', PagesInv, [Page!Next]_Page!vars PROVE PagesInv'
  OBVIOUS
<1>1. Grows
  BY BookGrows
<1>2. ASSUME UNCHANGED <<history, task>> PROVE PagesInv'
  <2>1. Aside
    BY <1>2 DEF Aside
  <2> QED
    BY <1>1, <2>1, AsideKeeps
<1>3. CASE Calm
  <2>1. ASSUME NEW kind \in Kind, Page!openDialog(kind) PROVE PagesInv'
    BY <1>2, <2>1 DEF Page!openDialog, Page!screen
  <2> QED
    BY <1>2, <1>3, <2>1 DEF Calm, Page!Elsewhere, Page!Midnight, Page!ServeLate, Page!hideHistory,
       Page!setFilters, Page!fillForm, Page!chooseStaff, Page!backToForm, Page!closeModals, Page!screen
<1>4. ASSUME NEW k \in Task, Ordered(k) \/ Listing(k) \/ Paging(k) \/ Begun(k) PROVE PagesInv'
  <2>1. ASSUME NEW r, Page!ReadHistory(k, r) PROVE PagesInv'
    BY <2>1, HistoryIsRead
  <2>2. CASE Page!loadMovements(k)
    BY <2>2, HistoryIsShown
  <2>3. CASE Ordered(k) \/ Listing(k) \/ Page!GiveUpHistory(k) \/ Begun(k)
    BY <1>1, <2>3, OthersAreAside, AsideKeeps
  <2> QED
    BY <1>4, <2>1, <2>2, <2>3 DEF Paging
<1>5. CASE UNCHANGED Page!vars
  BY <1>2, <1>5 DEF Page!vars
<1> QED
  BY <1>3, <1>4, <1>5, StepsAre

-----------------------------------------------------------------------------
(***************************************************************************)
(* What is asked for is what was read: one request for no day or one, one  *)
(* a day for more, as long as a request returns as many rows as the day    *)
(* has.                                                                    *)
(***************************************************************************)

\* The movements that the filters f ask for.
Asked(b, f) == {i \in DOMAIN b : Page!Wanted(b[i], f)}

LEMMA OnlyOne ==
  ASSUME NEW S, IsFiniteSet(S), Cardinality(S) <= 1, NEW x \in S, NEW y \in S
  PROVE  x = y
<1> SUFFICES ASSUME x # y PROVE FALSE
  OBVIOUS
<1>1. Cardinality({x}) = 1 /\ IsFiniteSet({x})
  BY FS_Singleton
<1>2. Cardinality({x} \cup {y}) = 2
  <2>1. y \notin {x}
    OBVIOUS
  <2> DEFINE one == {x}
  <2>2. IsFiniteSet(one) /\ Cardinality(one) = 1 /\ y \notin one
    BY <1>1, <2>1
  <2> HIDE DEF one
  <2>3. Cardinality(one \cup {y}) = Cardinality(one) + 1
    BY <2>2, FS_AddElement
  <2> QED
    BY <2>2, <2>3 DEF one
<1>3. {x} \cup {y} \in SUBSET S
  OBVIOUS
<1>4. Cardinality({x} \cup {y}) <= Cardinality(S)
  BY <1>3, FS_Subset
<1>5. Cardinality(S) \in Nat
  BY FS_CardinalityType
<1> QED
  BY <1>2, <1>4, <1>5

LEMMA DaysAre ==
  ASSUME NEW f \in Page!Filter
  PROVE  /\ Page!FirstDay(f) = None => Page!DaysAsked(f) = {}
         /\ Page!FirstDay(f) # None /\ Page!LastDay(f) - Page!FirstDay(f) \in 0 .. MaxRangeDays - 1
              => /\ Page!FirstDay(f) \in Nat /\ Page!LastDay(f) \in Nat
                 /\ Page!FirstDay(f) <= Page!LastDay(f)
                 /\ Page!DaysAsked(f) = Page!FirstDay(f) .. Page!LastDay(f)
                 /\ IsFiniteSet(Page!DaysAsked(f))
<1>1. f.from \in Nat \cup {None} /\ f.to \in Nat \cup {None}
  BY DEF Page!Filter
<1>2. None \notin Nat /\ MaxRangeDays \in Nat \ {0}
  BY PageAssumption
<1>3. CASE Page!FirstDay(f) = None
  BY <1>1, <1>2, <1>3 DEF Page!FirstDay, Page!DaysAsked
<1>4. CASE Page!FirstDay(f) # None /\ Page!LastDay(f) - Page!FirstDay(f) \in 0 .. MaxRangeDays - 1
  <2> DEFINE a == Page!FirstDay(f)
             z == Page!LastDay(f)
  <2>1. a \in Nat /\ z \in Nat
    BY <1>1, <1>4 DEF Page!FirstDay, Page!LastDay
  <2>2. Page!DaysAsked(f) = Page!enumerateDays(a, z)
    BY <1>1, <1>4 DEF Page!FirstDay, Page!LastDay, Page!DaysAsked
  <2>3. z - a \in 0 .. MaxRangeDays - 1
    BY <1>4
  <2> HIDE DEF a, z
  <2>4. a <= z /\ \A d \in a .. z : d < a + MaxRangeDays
    BY <1>2, <2>1, <2>3
  <2>5. Page!DaysAsked(f) = a .. z
    BY <2>2, <2>4 DEF Page!enumerateDays
  <2>6. IsFiniteSet(a .. z)
    BY <2>1, FS_Interval
  <2> QED
    BY <1>4, <2>1, <2>4, <2>5, <2>6 DEF a, z
<1> QED
  BY <1>3, <1>4

\* A day on which all that is asked for is asked of one request.
LEMMA OneRequestFinds ==
  ASSUME NEW b \in BookSet, NEW f \in Page!Filter, Page!SingleDay(f), Page!Servable(f, b)
  PROVE  Found(b, f) = Asked(b, f)
<1>1. Page!QueriedType(f.type) = f.type
  BY DEF Page!Servable, Page!QueriedType
<1>2. \A i \in DOMAIN b : b[i].day \in Nat
  BY BookIs DEF Page!Movement
<1>3. None \notin Nat
  BY PageAssumption
<1>4. ASSUME NEW i \in DOMAIN b
      PROVE  (Page!TheDay(f) = None \/ b[i].day = Page!TheDay(f))
               <=> (Page!FirstDay(f) = None \/ b[i].day \in Page!FirstDay(f) .. Page!LastDay(f))
  <2>1. CASE Page!FirstDay(f) = None
    BY <2>1, DaysAre DEF Page!TheDay
  <2>2. CASE Page!FirstDay(f) # None
    <3> DEFINE a == Page!FirstDay(f)
               z == Page!LastDay(f)
               D == Page!DaysAsked(f)
    <3>1. /\ a \in Nat /\ z \in Nat /\ a <= z
          /\ D = a .. z /\ IsFiniteSet(D)
      BY <2>2, DaysAre DEF Page!Servable
    <3>2. Cardinality(D) <= 1
      BY PageCardinality DEF Page!SingleDay
    <3>3. Page!TheDay(f) = IF D = {} THEN None ELSE CHOOSE d \in D : TRUE
      BY DEF Page!TheDay
    <3> HIDE DEF a, z, D
    <3>4. a \in D /\ z \in D
      BY <3>1
    <3>5. Page!TheDay(f) \in D
      BY <3>3, <3>4
    <3>6. a = z /\ Page!TheDay(f) = a
      BY <3>1, <3>2, <3>4, <3>5, OnlyOne
    <3>7. a # None
      BY <1>3, <3>1
    <3>8. b[i].day \in a .. z <=> b[i].day = a
      BY <1>2, <3>1, <3>6
    <3> QED
      BY <3>6, <3>7, <3>8 DEF a, z
  <2> QED
    BY <2>1, <2>2
<1>5. ASSUME NEW i \in DOMAIN b
      PROVE  i \in Found(b, f) <=> Page!Wanted(b[i], f)
  BY <1>1, <1>4, <1>5 DEF Found, Page!Where, Page!Wanted
<1> QED
  BY <1>5 DEF Found, Asked, Page!Where

LEMMA RankIs ==
  ASSUME NEW S \in SUBSET Nat, IsFiniteSet(S), NEW i \in S
  PROVE  Page!Rank(i, S) \in Nat /\ Page!Rank(i, S) < Cardinality(S)
<1> DEFINE L == {j \in S : j > i}
<1>1. L \in SUBSET (S \ {i})
  OBVIOUS
<1>2. IsFiniteSet(S \ {i}) /\ Cardinality(S \ {i}) = Cardinality(S) - 1
  BY FS_RemoveElement
<1>3. IsFiniteSet(L) /\ Cardinality(L) <= Cardinality(S \ {i})
  BY <1>1, <1>2, FS_Subset
<1>4. Cardinality(L) \in Nat /\ Cardinality(S) \in Nat
  BY <1>3, FS_CardinalityType
<1>5. Page!Rank(i, S) = Cardinality(L)
  BY PageCardinality DEF Page!Rank
<1> HIDE DEF L
<1> QED
  BY <1>2, <1>3, <1>4, <1>5

\* A request that returns as many rows as there are returns them all.
LEMMA AllAreRead ==
  ASSUME NEW S \in SUBSET Nat, IsFiniteSet(S), Cardinality(S) <= BatchSize
  PROVE  Page!Slice(S, 1, BatchSize) = S
<1>1. BatchSize \in Nat /\ Cardinality(S) \in Nat
  BY PageAssumption, FS_CardinalityType
<1>2. ASSUME NEW i \in S PROVE Page!Rank(i, S) \in (1 - 1) * BatchSize .. 1 * BatchSize - 1
  <2>1. (1 - 1) * BatchSize = 0 /\ 1 * BatchSize = BatchSize
    BY <1>1
  <2>2. Page!Rank(i, S) \in Nat /\ Page!Rank(i, S) < Cardinality(S)
    BY RankIs
  <2>3. Page!Rank(i, S) \in 0 .. BatchSize - 1
    BY <1>1, <2>2
  <2> QED
    BY <2>1, <2>3
<1> QED
  BY <1>2 DEF Page!Slice

\* A request a day.
LEMMA RequestsFind ==
  ASSUME NEW b \in BookSet, NEW f \in Page!Filter, ~Page!SingleDay(f), Page!Servable(f, b)
  PROVE  Batches(b, f, Page!DaysAsked(f)) = Asked(b, f)
<1>1. Page!QueriedType(f.type) = f.type
  BY DEF Page!Servable, Page!QueriedType
<1>2. \A i \in DOMAIN b : b[i].day \in Nat
  BY BookIs DEF Page!Movement
<1>3. None \notin Nat
  BY PageAssumption
<1> DEFINE a == Page!FirstDay(f)
           z == Page!LastDay(f)
           D == Page!DaysAsked(f)
<1>4. a # None
  <2>1. ~(Cardinality(D) <= 1)
    BY PageCardinality DEF Page!SingleDay
  <2>2. D # {}
    <3>1. Cardinality({}) = 0
      BY FS_EmptySet
    <3> QED
      BY <2>1, <3>1
  <2> QED
    BY <2>2, DaysAre
<1>5. D = a .. z /\ a \in Nat /\ z \in Nat
  BY <1>4, DaysAre DEF Page!Servable
<1>6. ASSUME NEW d \in D PROVE Batch(b, f, d) = Page!Where(b, f, d)
  <2>1. Page!Where(b, f, d) \in SUBSET Nat /\ IsFiniteSet(Page!Where(b, f, d))
    BY WhereIs
  <2>2. Cardinality(Page!Where(b, f, d)) <= BatchSize
    BY PageCardinality DEF Page!Servable
  <2> QED
    BY <2>1, <2>2, AllAreRead DEF Batch
<1>7. ASSUME NEW i, NEW d \in D
      PROVE  i \in Page!Where(b, f, d) <=>
               /\ i \in DOMAIN b
               /\ f.till = None \/ b[i].till = f.till
               /\ f.staff = None \/ b[i].staff = f.staff
               /\ f.type = None \/ b[i].type = f.type
               /\ b[i].day = d
  <2>1. d # None
    <3> HIDE DEF a, z, D
    <3> QED
      BY <1>3, <1>5
  <2> QED
    BY <1>1, <2>1 DEF Page!Where
<1>8. \A i : i \in Batches(b, f, D) <=> \E d \in D : i \in Page!Where(b, f, d)
  <2> HIDE DEF D
  <2> QED
    BY <1>6 DEF Batches
<1>9. \A i : i \in Asked(b, f) <=>
               /\ i \in DOMAIN b
               /\ f.till = None \/ b[i].till = f.till
               /\ f.staff = None \/ b[i].staff = f.staff
               /\ f.type = None \/ b[i].type = f.type
               /\ b[i].day \in a .. z
  BY <1>4 DEF Asked, Page!Wanted
<1> HIDE DEF a, z, D
<1>10. \A i : i \in Batches(b, f, D) <=> i \in Asked(b, f)
  BY <1>5, <1>7, <1>8, <1>9
<1> QED
  BY <1>10 DEF D

\* What stands on a page, and that there are pages enough.
LEMMA PageIs ==
  ASSUME NEW S \in SUBSET Nat, IsFiniteSet(S), NEW n \in Nat \ {0}
  PROVE  Page!Slice(S, n, PageSize) = {i \in S : (Page!Rank(i, S) \div PageSize) + 1 = n}
<1>1. ASSUME NEW i \in S
      PROVE  Page!Rank(i, S) \in (n - 1) * PageSize .. n * PageSize - 1
               <=> (Page!Rank(i, S) \div PageSize) + 1 = n
  <2>1. Page!Rank(i, S) \in Nat /\ PageSize \in Nat \ {0}
    BY RankIs, PageAssumption
  <2> QED
    BY <2>1, PlaceIs
<1> QED
  BY <1>1 DEF Page!Slice

LEMMA PagesAreEnough ==
  ASSUME NEW t \in Nat
  PROVE  Page!PagesOf(t) * PageSize >= t /\ Page!Max({1, Page!PagesOf(t)}) * PageSize >= t
<1> DEFINE q == Page!PagesOf(t)
           P == PageSize
<1>1. P \in Nat \ {0}
  BY PageAssumption
<1>2. t + P - 1 \in Nat
  BY <1>1
<1>3. q = (t + P - 1) \div P
  BY DEF Page!PagesOf
<1> HIDE DEF q, P
<1>4. q \in Nat /\ t + P - 1 < q * P + P
  BY <1>1, <1>2, <1>3, QuotientIs
<1>5. q * P >= t
  <2> DEFINE y == q * P
  <2>1. y \in Nat
    BY <1>1, <1>4
  <2>2. t + P - 1 < y + P
    BY <1>4
  <2> HIDE DEF y
  <2>3. y >= t
    BY <1>1, <2>1, <2>2
  <2> QED
    BY <2>3 DEF y
<1>6. Page!Max({1, q}) = IF 1 >= q THEN 1 ELSE q
  BY <1>4, LargerIs
<1>7. Page!Max({1, q}) * P >= t
  <2>1. CASE q = 0
    BY <1>1, <1>5, <1>6, <2>1
  <2>2. CASE q # 0
    <3>1. Page!Max({1, q}) = q
      BY <1>4, <1>6, <2>2
    <3> QED
      BY <1>5, <3>1
  <2> QED
    BY <2>1, <2>2
<1> QED
  BY <1>5, <1>7 DEF q, P

LEMMA HistoryShows == PageTyped /\ PagesInv => HistoryIsThePage
<1> SUFFICES ASSUME PageTyped, PagesInv, history # None, history.quiet = TRUE,
                    Page!Servable(history.filters, SubSeq(book, 1, history.at))
             PROVE  /\ history.total = Cardinality(Asked(SubSeq(book, 1, history.at), history.filters))
                    /\ history.items =
                         {i \in Asked(SubSeq(book, 1, history.at), history.filters) :
                            (Page!Rank(i, Asked(SubSeq(book, 1, history.at), history.filters))
                               \div PageSize) + 1 = history.page}
                    /\ history.pages * PageSize >= history.total
  <2>1. PageTyped /\ history # None => history.quiet \in BOOLEAN
    <3>1. PageTyped /\ history # None => history \in Page!HistoryPage
      BY DEF PageTyped, ScreenTyped
    <3>2. ASSUME NEW h \in Page!HistoryPage PROVE h.quiet \in BOOLEAN
      BY Zenon DEF Page!HistoryPage
    <3> QED
      BY <3>1, <3>2
  <2> QED
    BY <2>1, PageCardinality DEF HistoryIsThePage, Page!HistoryIsThePage, Asked
<1> DEFINE b == SubSeq(book, 1, history.at)
           f == history.filters
           n == history.page
           W == Asked(b, f)
<1>1. history \in Page!HistoryPage
  BY DEF PageTyped, ScreenTyped
<1>2. history.at \in Nat /\ history.at <= Len(book) /\ f \in Page!Filter /\ n \in Nat \ {0}
      /\ Answered(history, b)
  BY <1>1 DEF Page!HistoryPage, PagesInv
<1>3. b \in BookSet
  <2>1. book \in BookSet
    BY DEF PageTyped, BookTyped, BookSet
  <2> QED
    BY <1>2, <2>1, ThenIs
<1>4. Page!Servable(f, b)
  OBVIOUS
<1> HIDE DEF b, f, n
<1>5. W \in SUBSET Nat /\ IsFiniteSet(W)
  <2>1. W \in SUBSET DOMAIN b
    BY DEF Asked
  <2>2. DOMAIN b \in SUBSET Nat /\ IsFiniteSet(DOMAIN b)
    BY <1>3, BookIs
  <2> QED
    BY <2>1, <2>2, FS_Subset
<1>6. Cardinality(W) \in Nat
  BY <1>5, FS_CardinalityType
<1>7. /\ history.total = Cardinality(W) /\ history.items = Page!Slice(W, n, PageSize)
      /\ history.pages \in {Page!PagesOf(history.total), Page!Max({1, Page!PagesOf(history.total)})}
  <2>1. CASE Page!SingleDay(f)
    <3>1. Found(b, f) = W
      BY <1>2, <1>3, <1>4, <2>1, OneRequestFinds
    <3> HIDE DEF W
    <3> QED
      BY <1>2, <2>1, <3>1 DEF Answered, f, n
  <2>2. CASE ~Page!SingleDay(f)
    <3>1. Batches(b, f, Page!DaysAsked(f)) = W
      BY <1>2, <1>3, <1>4, <2>2, RequestsFind
    <3> HIDE DEF W
    <3> QED
      BY <1>2, <2>2, <3>1 DEF Answered, f, n
  <2> QED
    BY <2>1, <2>2
<1> HIDE DEF W
<1>8. Page!Slice(W, n, PageSize) = {i \in W : (Page!Rank(i, W) \div PageSize) + 1 = n}
  BY <1>2, <1>5, PageIs
<1>9. history.pages * PageSize >= history.total
  BY <1>6, <1>7, PagesAreEnough
<1>10. /\ history.total = Cardinality(W)
       /\ history.items = {i \in W : (Page!Rank(i, W) \div PageSize) + 1 = n}
       /\ history.pages * PageSize >= history.total
  BY <1>7, <1>8, <1>9
<1> QED
  BY <1>10 DEF W, b, f, n

\* A page of the history holds the movements that the filters ask for and their
\* number, for any page size, filters and range of days that the page can serve,
\* if nothing was posted between its queries (loadMovements, listMovements,
\* enumerateDays).
THEOREM HistoryOnThePage == Page!Spec => []HistoryIsThePage
<1>1. Page!Spec => []PageTyped
  BY PageTypes
<1>2. Page!Init => PagesInv
  BY PagesInit
<1>3. PageTyped /\ PageTyped' /\ PagesInv /\ [Page!Next]_Page!vars => PagesInv'
  BY PagesStep
<1>4. PageTyped /\ PagesInv => HistoryIsThePage
  BY HistoryShows
<1> QED
  BY <1>1, <1>2, <1>3, <1>4, PTL DEF Page!Spec
=============================================================================
