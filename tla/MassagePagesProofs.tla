------------------------- MODULE MassagePagesProofs --------------------------
(***************************************************************************)
(* What TLAPS proves of what the pages make of the massages (MassagePages):*)
(* of the prices and the figures (Figures), for any plans, rules, massages,*)
(* shifts and filters, any calendar and any requests that edit at once,    *)
(* and of the changes asked for and reviewed (RequestPages), for any       *)
(* sessions, reviewers, requests and orders under way.                     *)
(*                                                                         *)
(* A longer massage never costs less.  Under one rule, the plans that      *)
(* cover the longer duration also cover the shorter one, so the plan       *)
(* matched for the shorter is not longer; the minimum plan replaces both   *)
(* or the shorter alone by a plan that is no longer than the other's; and  *)
(* a duration that no plan covers is billed as the longest plan of all.    *)
(* A list of plans that is ordered turns lengths into prices.              *)
(*                                                                         *)
(* The home page counts each massage once: a row never changes its place   *)
(* in the order of the batches, so that those before the cursor have been  *)
(* counted, but for one per cursor that the next query skipped.            *)
(*                                                                         *)
(* The pages agree.  A sum over a set does not depend on the order in      *)
(* which its members are taken (Adds), so that it may be split into parts, *)
(* grouped by chair or by bar, or taken over the images of the members.    *)
(* A day is in one month, a massage in one bar, and from the server's      *)
(* midnight on is the same as today in the hours from ServerOffset on,     *)
(* because no massage is of the future (TimesInv).                         *)
(*                                                                         *)
(* A change is made as it was shown.  Whoever writes a massage gives it    *)
(* the next stamp and requests never change what they ask for, so that     *)
(* what a page, a dialog or an order shows of a request is still true as   *)
(* long as the massage has the stamp that the request was made for         *)
(* (Shows); and what would be asked for again differs from what the        *)
(* massage already has (Files).                                            *)
(***************************************************************************)
EXTENDS MassagePages, FiniteSetTheorems, SequenceTheorems, WellFoundedInduction, TLAPS

(***************************************************************************)
(* Numbers have a least one, and finitely many have a greatest.            *)
(***************************************************************************)
LEMMA LeastNumber ==
  ASSUME NEW S \in SUBSET Nat, S # {}
  PROVE  \E n \in S : \A m \in S : n <= m
<1>1. IsWellFoundedOn(OpToRel(<, Nat), Nat)
  BY NatLessThanWellFounded
<1>2. PICK n \in S : \A m \in S : ~ (<<m, n>> \in OpToRel(<, Nat))
  BY <1>1, WFMin
<1>3. ASSUME NEW m \in S PROVE n <= m
  <2>1. ~(<<m, n>> \in {ss \in Nat \X Nat : ss[1] < ss[2]})
    BY <1>2 DEF OpToRel
  <2> QED
    BY <2>1
<1> QED
  BY <1>3

Greatest(x, T, f) == x \in T /\ \A y \in T : f[y] <= f[x]

LEMMA FiniteHasGreatest ==
  ASSUME NEW S, IsFiniteSet(S), NEW f \in [S -> Nat]
  PROVE  \A T \in SUBSET S : T # {} => \E x \in T : Greatest(x, T, f)
<1> DEFINE Without == {T \in SUBSET S : T # {} /\ ~ \E x \in T : Greatest(x, T, f)}
           Sizes == {Cardinality(T) : T \in Without}
<1>1. \A T \in SUBSET S : IsFiniteSet(T) /\ Cardinality(T) \in Nat
  BY FS_Subset, FS_CardinalityType
<1>2. ASSUME Without # {} PROVE FALSE
  <2>1. Sizes \in SUBSET Nat /\ Sizes # {}
    BY <1>1, <1>2
  <2>2. PICK n \in Sizes : \A m \in Sizes : n <= m
    <3> HIDE DEF Sizes
    <3> QED
      BY <2>1, LeastNumber
  <2>3. PICK T \in Without : Cardinality(T) = n
    BY <2>2
  <2>4. PICK t \in T : TRUE
    BY <2>3
  <2> DEFINE R == T \ {t}
  <2>5. R \in SUBSET S /\ Cardinality(R) = n - 1 /\ n \in Nat
    BY <1>1, <2>1, <2>2, <2>3, <2>4, FS_RemoveElement
  <2>6. R \notin Without
    BY <2>1, <2>2, <2>5
  <2>7. t \in S /\ f[t] \in Nat /\ \A y \in R : y \in S /\ f[y] \in Nat
    BY <2>3, <2>4
  <2>8. CASE R = {}
    <3>1. Greatest(t, T, f)
      BY <2>4, <2>7, <2>8 DEF Greatest
    <3> QED
      BY <2>3, <2>4, <3>1
  <2>9. CASE R # {}
    <3>1. PICK x \in R : Greatest(x, R, f)
      BY <2>5, <2>6, <2>9
    <3>2. Greatest(x, T, f) \/ Greatest(t, T, f)
      BY <2>4, <2>7, <3>1 DEF Greatest
    <3> QED
      BY <2>3, <2>4, <3>1, <3>2
  <2> QED
    BY <2>8, <2>9
<1> QED
  BY <1>2

(***************************************************************************)
(* A finite set that is ordered can be listed in that order, in one way    *)
(* that takes in all of it.                                                *)
(***************************************************************************)
Orders(R, S) ==
  /\ \A x \in S : <<x, x>> \notin R
  /\ \A x, y \in S : x # y => <<x, y>> \in R \/ <<y, x>> \in R
  /\ \A x, y, z \in S : <<x, y>> \in R /\ <<y, z>> \in R => <<x, z>> \in R

Last(x, T, R) == x \in T /\ \A y \in T : y # x => <<y, x>> \in R

LEMMA FiniteHasLast ==
  ASSUME NEW S, IsFiniteSet(S), NEW R, Orders(R, S)
  PROVE  \A T \in SUBSET S : T # {} => \E x \in T : Last(x, T, R)
<1> DEFINE Without == {T \in SUBSET S : T # {} /\ ~ \E x \in T : Last(x, T, R)}
           Sizes == {Cardinality(T) : T \in Without}
<1>1. \A T \in SUBSET S : IsFiniteSet(T) /\ Cardinality(T) \in Nat
  BY FS_Subset, FS_CardinalityType
<1>2. ASSUME Without # {} PROVE FALSE
  <2>1. Sizes \in SUBSET Nat /\ Sizes # {}
    BY <1>1, <1>2
  <2>2. PICK n \in Sizes : \A m \in Sizes : n <= m
    <3> HIDE DEF Sizes
    <3> QED
      BY <2>1, LeastNumber
  <2>3. PICK T \in Without : Cardinality(T) = n
    BY <2>2
  <2>4. PICK t \in T : TRUE
    BY <2>3
  <2> DEFINE Q == T \ {t}
  <2>5. Q \in SUBSET S /\ Cardinality(Q) = n - 1 /\ n \in Nat
    BY <1>1, <2>1, <2>2, <2>3, <2>4, FS_RemoveElement
  <2>6. Q \notin Without
    BY <2>1, <2>2, <2>5
  <2>7. t \in S /\ T \subseteq S
    BY <2>3, <2>4
  <2>8. CASE Q = {}
    <3>1. Last(t, T, R)
      BY <2>4, <2>8 DEF Last
    <3> QED
      BY <2>3, <2>4, <3>1
  <2>9. CASE Q # {}
    <3>1. PICK x \in Q : Last(x, Q, R)
      BY <2>5, <2>6, <2>9
    <3>2. CASE <<x, t>> \in R
      <4>1. ASSUME NEW y \in T, y # t PROVE <<y, t>> \in R
        BY <2>7, <3>1, <3>2, <4>1 DEF Last, Orders
      <4> QED
        BY <2>3, <2>4, <4>1 DEF Last
    <3>3. CASE <<t, x>> \in R
      BY <2>3, <3>1, <3>3 DEF Last
    <3> QED
      BY <2>7, <3>1, <3>2, <3>3 DEF Orders
  <2> QED
    BY <2>8, <2>9
<1> QED
  BY <1>2

Lists(s, n, T, R) ==
  /\ s \in [1 .. n -> T]
  /\ \A j, k \in 1 .. n : j < k => <<s[j], s[k]>> \in R

LEMMA FiniteIsListed ==
  ASSUME NEW S, IsFiniteSet(S), NEW R, Orders(R, S)
  PROVE  \A T \in SUBSET S : \E s : Lists(s, Cardinality(T), T, R)
<1> DEFINE Without == {T \in SUBSET S : ~ \E s : Lists(s, Cardinality(T), T, R)}
           Sizes == {Cardinality(T) : T \in Without}
<1>1. \A T \in SUBSET S : IsFiniteSet(T) /\ Cardinality(T) \in Nat
  BY FS_Subset, FS_CardinalityType
<1>2. ASSUME Without # {} PROVE FALSE
  <2>1. Sizes \in SUBSET Nat /\ Sizes # {}
    BY <1>1, <1>2
  <2>2. PICK n \in Sizes : \A m \in Sizes : n <= m
    <3> HIDE DEF Sizes
    <3> QED
      BY <2>1, LeastNumber
  <2>3. PICK T \in Without : Cardinality(T) = n
    BY <2>2
  <2>4. n \in Nat /\ T \in SUBSET S
    BY <2>1, <2>2, <2>3
  <2>5. CASE T = {}
    <3>1. n = 0
      BY <2>3, <2>5, FS_EmptySet
    <3>2. Lists([k \in 1 .. 0 |-> k], 0, T, R)
      BY DEF Lists
    <3> QED
      BY <2>3, <3>1, <3>2
  <2>6. CASE T # {}
    <3>1. PICK t \in T : Last(t, T, R)
      BY <2>4, <2>6, FiniteHasLast
    <3> DEFINE Q == T \ {t}
    <3>2. Q \in SUBSET S /\ Cardinality(Q) = n - 1
      BY <1>1, <2>3, <2>4, FS_RemoveElement
    <3>3. Q \notin Without
      BY <2>1, <2>2, <2>4, <3>2
    <3>4. PICK q : Lists(q, n - 1, Q, R)
      BY <3>2, <3>3
    <3>5. n - 1 \in Nat
      BY <1>1, <3>2
    <3> DEFINE s == [k \in 1 .. n |-> IF k = n THEN t ELSE q[k]]
    <3>6. s \in [1 .. n -> T]
      BY <2>4, <3>4 DEF Lists
    <3>7. ASSUME NEW j \in 1 .. n, NEW k \in 1 .. n, j < k PROVE <<s[j], s[k]>> \in R
      <4>1. j \in 1 .. n - 1 /\ q[j] \in Q /\ s[j] = q[j]
        BY <2>4, <3>4, <3>7 DEF Lists
      <4>2. CASE k = n
        BY <3>1, <4>1, <4>2 DEF Last
      <4>3. CASE k # n
        BY <2>4, <3>4, <3>7, <4>1, <4>3 DEF Lists
      <4> QED
        BY <4>2, <4>3
    <3>8. Lists(s, n, T, R)
      BY <3>6, <3>7 DEF Lists
    <3> QED
      BY <2>3, <3>8
  <2> QED
    BY <2>5, <2>6
<1> QED
  BY <1>2

LEMMA ListTakesInAll ==
  ASSUME NEW S, IsFiniteSet(S), NEW R, Orders(R, S), NEW s, Lists(s, Cardinality(S), S, R)
  PROVE  /\ \A x \in S : \E k \in 1 .. Cardinality(S) : s[k] = x
         /\ \A j, k \in 1 .. Cardinality(S) : s[j] = s[k] => j = k
<1> DEFINE n == Cardinality(S)
<1>1. n \in Nat
  BY FS_CardinalityType
<1> HIDE DEF n
<1>2. IsFiniteSet(1 .. n) /\ Cardinality(1 .. n) = n
  BY <1>1, FS_Interval
<1>3. s \in [1 .. n -> S] /\ \A j, k \in 1 .. n : j < k => <<s[j], s[k]>> \in R
  BY DEF Lists, n
<1>4. ASSUME NEW j \in 1 .. n, NEW k \in 1 .. n, s[j] = s[k] PROVE j = k
  <2>1. <<s[j], s[k]>> \notin R /\ <<s[k], s[j]>> \notin R
    BY <1>3, <1>4 DEF Orders
  <2> QED
    BY <1>1, <1>3, <2>1
<1>5. s \in Injection(1 .. n, S)
  BY <1>3, <1>4 DEF Injection, IsInjective
<1>6. s \in Surjection(1 .. n, S)
  BY <1>2, <1>5, FS_Injection DEF n
<1>7. \A x \in S : \E k \in 1 .. n : s[k] = x
  BY <1>6 DEF Surjection
<1> QED
  BY <1>4, <1>7 DEF n

-----------------------------------------------------------------------------
(***************************************************************************)
(* The plans.                                                              *)
(***************************************************************************)
PlansTyped == plans \in [Plan -> PlanForm \cup {None}]
TariffsTyped == tariffs \in Seq(Tariff)

LEMMA ActivePlansTyped ==
  ASSUME PlansTyped
  PROVE  /\ ActivePlans \subseteq Plan
         /\ \A p \in ActivePlans : plans[p].duration \in Nat /\ plans[p].price \in Nat
<1>1. ASSUME NEW p \in ActivePlans
      PROVE  p \in Plan /\ plans[p] \in [duration: Nat, price: Nat, active: BOOLEAN]
  BY <1>1, PricingAssumption DEF PlansTyped, ActivePlans
<1> QED
  BY <1>1

\* The first and the last plan of a list are among its plans and are what
\* sorting by duration makes them.
LEMMA ShortestIs ==
  ASSUME PlansTyped, NEW S \in SUBSET ActivePlans, S # {}
  PROVE  Shortest(S) \in S /\ \A q \in S : plans[Shortest(S)].duration <= plans[q].duration
<1> DEFINE Lengths == {plans[p].duration : p \in S}
<1>1. Lengths \in SUBSET Nat /\ Lengths # {}
  BY ActivePlansTyped
<1>2. PICK n \in Lengths : \A m \in Lengths : n <= m
  <2> HIDE DEF Lengths
  <2> QED
    BY <1>1, LeastNumber
<1>3. \E p \in S : \A q \in S : plans[p].duration <= plans[q].duration
  BY <1>2
<1> QED
  BY <1>3 DEF Shortest

LEMMA LongestIs ==
  ASSUME PlansTyped, ActivePlans # {}
  PROVE  /\ Longest(ActivePlans) \in ActivePlans
         /\ \A q \in ActivePlans : plans[q].duration <= plans[Longest(ActivePlans)].duration
<1> DEFINE length == [p \in ActivePlans |-> plans[p].duration]
<1>1. IsFiniteSet(ActivePlans)
  BY ActivePlansTyped, PricingAssumption, FS_Subset
<1>2. length \in [ActivePlans -> Nat]
  BY ActivePlansTyped
<1>3. PICK x \in ActivePlans : Greatest(x, ActivePlans, length)
  <2> HIDE DEF length
  <2> QED
    BY <1>1, <1>2, FiniteHasGreatest
<1>4. \A q \in ActivePlans : plans[q].duration <= plans[x].duration
  BY <1>3 DEF Greatest
<1> QED
  BY <1>4 DEF Longest

Covering(rule, d) == {p \in ActivePlans : d <= plans[p].duration + rule.grace}

\* The plan that a covered duration is billed as.
LEMMA MatchedIs ==
  ASSUME PlansTyped, NEW rule, rule.grace \in Nat, NEW d \in Nat, Covering(rule, d) # {}
  PROVE  /\ Matched(rule, d) \in Covering(rule, d)
         /\ \/ \A q \in Covering(rule, d) : plans[Matched(rule, d)].duration <= plans[q].duration
            \/ Matched(rule, d) = rule.floor
         /\ rule.floor \in ActivePlans =>
              plans[rule.floor].duration <= plans[Matched(rule, d)].duration
<1> DEFINE m == Shortest(Covering(rule, d))
<1>1. /\ m \in Covering(rule, d)
      /\ \A q \in Covering(rule, d) : plans[m].duration <= plans[q].duration
  BY ShortestIs DEF Covering
<1>2. m \in ActivePlans /\ plans[m].duration \in Nat
  BY <1>1, ActivePlansTyped DEF Covering
<1>3. Matched(rule, d) = IF rule.floor \in ActivePlans /\ plans[m].duration < plans[rule.floor].duration
                         THEN rule.floor ELSE m
  BY DEF Matched, Covering
<1> HIDE DEF m
<1>4. rule.floor \in ActivePlans => plans[rule.floor].duration \in Nat
  BY ActivePlansTyped
<1>5. CASE rule.floor \in ActivePlans /\ plans[m].duration < plans[rule.floor].duration
  <2>1. Matched(rule, d) = rule.floor
    BY <1>3, <1>5
  <2>2. rule.floor \in Covering(rule, d)
    BY <1>1, <1>2, <1>4, <1>5 DEF Covering
  <2> QED
    BY <1>4, <2>1, <2>2
<1>6. CASE ~(rule.floor \in ActivePlans /\ plans[m].duration < plans[rule.floor].duration)
  <2>1. Matched(rule, d) = m
    BY <1>3, <1>6
  <2> QED
    BY <1>1, <1>2, <1>4, <1>6, <2>1
<1> QED
  BY <1>5, <1>6

\* A longer duration is matched by a plan that is not shorter.
LEMMA MatchedGrows ==
  ASSUME PlansTyped, NEW rule, rule.grace \in Nat, NEW d \in Nat, NEW e \in Nat, d <= e,
         Covering(rule, e) # {}
  PROVE  /\ Covering(rule, d) # {}
         /\ Matched(rule, d) \in ActivePlans /\ Matched(rule, e) \in ActivePlans
         /\ plans[Matched(rule, d)].duration <= plans[Matched(rule, e)].duration
<1> DEFINE md == Matched(rule, d)
           me == Matched(rule, e)
<1>1. Covering(rule, e) \subseteq Covering(rule, d)
  BY ActivePlansTyped DEF Covering
<1>2. Covering(rule, d) # {}
  BY <1>1
<1>3. /\ md \in Covering(rule, d)
      /\ \/ \A q \in Covering(rule, d) : plans[md].duration <= plans[q].duration
         \/ md = rule.floor
  BY <1>2, MatchedIs
<1>4. /\ me \in Covering(rule, e)
      /\ rule.floor \in ActivePlans => plans[rule.floor].duration <= plans[me].duration
  BY MatchedIs
<1> HIDE DEF md, me
<1>5. md \in ActivePlans /\ me \in ActivePlans
  BY <1>3, <1>4 DEF Covering
<1>6. plans[md].duration <= plans[me].duration
  BY <1>1, <1>3, <1>4, <1>5
<1> QED
  BY <1>2, <1>5, <1>6 DEF md, me

-----------------------------------------------------------------------------
(***************************************************************************)
(* One rule.                                                               *)
(***************************************************************************)
LEMMA OrderedCosts ==
  ASSUME PlansTyped, OrderedPlans, NEW p \in ActivePlans, NEW q \in ActivePlans,
         plans[p].duration <= plans[q].duration
  PROVE  plans[p].price <= plans[q].price
<1>1. CASE p = q
  BY <1>1, ActivePlansTyped
<1>2. CASE p # q
  BY <1>2, ActivePlansTyped DEF OrderedPlans
<1> QED
  BY <1>1, <1>2

\* What a duration costs, by the case it falls into.
LEMMA Amounts ==
  ASSUME NEW rule, NEW d
  PROVE  Price(rule, d).amount =
           IF ActivePlans = {} \/ d < rule.minimum THEN 0
           ELSE IF Covering(rule, d) # {} THEN plans[Matched(rule, d)].price
           ELSE plans[Longest(ActivePlans)].price
<1> DEFINE Billed(p, anomaly) ==
             [plan |-> p, amount |-> plans[p].price, billing |-> "CALCULATED", anomaly |-> anomaly]
<1>1. \A p, anomaly : Billed(p, anomaly).amount = plans[p].price
  OBVIOUS
<1>2. Price(rule, d) =
        IF ActivePlans = {} THEN Fallback
        ELSE IF d < rule.minimum
        THEN [plan |-> None, amount |-> 0, billing |-> "PENDING", anomaly |-> {"TOO_SHORT"}]
        ELSE IF Covering(rule, d) # {} THEN Billed(Matched(rule, d), {})
        ELSE Billed(Longest(ActivePlans), IF rule.policy = "NEXT_PLAN" THEN {} ELSE {"TOO_LONG"})
  BY DEF Price, Covering
<1>3. Fallback.amount = 0
  BY DEF Fallback
<1> HIDE DEF Billed
<1> QED
  BY <1>1, <1>2, <1>3

LEMMA OneRuleGrows ==
  ASSUME PlansTyped, OrderedPlans, NEW rule, rule.grace \in Nat, rule.minimum \in Nat,
         NEW d \in Nat, NEW e \in Nat, d <= e
  PROVE  Price(rule, d).amount <= Price(rule, e).amount
<1>1. \A p \in ActivePlans : plans[p].duration \in Nat /\ plans[p].price \in Nat
  BY ActivePlansTyped
<1>2. CASE ActivePlans = {}
  BY <1>2, Amounts
<1>3. CASE ActivePlans # {} /\ d < rule.minimum
  <2>1. Price(rule, d).amount = 0
    BY <1>3, Amounts
  <2>2. Covering(rule, e) # {} => Matched(rule, e) \in ActivePlans
    BY MatchedIs DEF Covering
  <2>3. Price(rule, e).amount \in Nat
    BY <1>1, <1>3, <2>2, Amounts, LongestIs
  <2> QED
    BY <2>1, <2>3
<1>4. CASE ActivePlans # {} /\ ~(d < rule.minimum)
  <2>1. ~(e < rule.minimum)
    BY <1>4
  <2>2. CASE Covering(rule, e) # {}
    <3>1. /\ Covering(rule, d) # {}
          /\ Matched(rule, d) \in ActivePlans /\ Matched(rule, e) \in ActivePlans
          /\ plans[Matched(rule, d)].duration <= plans[Matched(rule, e)].duration
      BY <2>2, MatchedGrows
    <3>2. plans[Matched(rule, d)].price <= plans[Matched(rule, e)].price
      BY <3>1, OrderedCosts
    <3> QED
      BY <1>4, <2>1, <2>2, <3>1, <3>2, Amounts
  <2>3. CASE Covering(rule, e) = {} /\ Covering(rule, d) # {}
    <3>1. Matched(rule, d) \in ActivePlans
      BY <2>3, MatchedIs DEF Covering
    <3>2. plans[Matched(rule, d)].price <= plans[Longest(ActivePlans)].price
      BY <1>4, <3>1, LongestIs, OrderedCosts
    <3> QED
      BY <1>4, <2>1, <2>3, <3>2, Amounts
  <2>4. CASE Covering(rule, e) = {} /\ Covering(rule, d) = {}
    <3>1. plans[Longest(ActivePlans)].price \in Nat
      BY <1>1, <1>4, LongestIs
    <3> QED
      BY <1>4, <2>1, <2>4, <3>1, Amounts
  <2> QED
    BY <2>2, <2>3, <2>4
<1> QED
  BY <1>2, <1>3, <1>4

\* While one rule is active, every massage is billed by it.
LEMMA TypedPricesGrow ==
  ASSUME PlansTyped, TariffsTyped
  PROVE  LongerNeverCheaper
<1> SUFFICES ASSUME OrderedPlans, Cardinality(ActiveTariffs) = 1,
                    NEW d \in Duration, NEW e \in Duration, d <= e,
                    NEW a \in Calculated(d), NEW b \in Calculated(e)
             PROVE  a.amount <= b.amount
  BY DEF LongerNeverCheaper
<1>1. d \in Nat /\ e \in Nat
  BY PricingAssumption
<1>2. ActiveTariffs \subseteq 1 .. Len(tariffs) /\ Len(tariffs) \in Nat
  BY DEF TariffsTyped, ActiveTariffs
<1>3. IsFiniteSet(ActiveTariffs)
  <2>1. IsFiniteSet(1 .. Len(tariffs))
    BY <1>2, FS_Interval
  <2> QED
    BY <1>2, <2>1, FS_Subset
<1>4. PICK t \in ActiveTariffs : ActiveTariffs = {t}
  BY <1>3, FS_Singleton
<1>5. a = Price(tariffs[t].is, d) /\ b = Price(tariffs[t].is, e)
  BY <1>4 DEF Calculated
<1>6. tariffs[t].is \in RuleForm
  <2>1. tariffs[t] \in Tariff
    BY <1>2, <1>4, ElementOfSeq DEF TariffsTyped
  <2> QED
    BY <2>1 DEF Tariff
<1>7. tariffs[t].is.grace \in Nat /\ tariffs[t].is.minimum \in Nat
  BY <1>6, PricingAssumption
<1> QED
  BY <1>1, <1>5, <1>7, OneRuleGrows

-----------------------------------------------------------------------------
(***************************************************************************)
(* The settings page.                                                      *)
(***************************************************************************)
TariffBound == Len(tariffs) <= MaxRules
PricingInv == PricingTypeOK /\ TariffBound

LEMMA TariffsKeepInv ==
  ASSUME PricingInv, Tariffs
  PROVE  PricingInv'
<1>1. /\ plans \in [Plan -> PlanForm \cup {None}]
      /\ tariffs \in Seq(Tariff)
      /\ upserting \in [Editor -> (SUBSET (1 .. MaxRules)) \cup {None}]
      /\ Len(tariffs) <= MaxRules
  BY DEF PricingInv, PricingTypeOK, TariffBound
<1>2. CASE \E p \in Plan, form \in PlanForm : SetPlan(p, form)
  <2>1. PICK p \in Plan, form \in PlanForm : SetPlan(p, form)
    BY <1>2
  <2> QED
    BY <1>1, <2>1 DEF SetPlan, PricingInv, PricingTypeOK, TariffBound
<1>3. CASE \E e \in Editor : ReadTariff(e)
  <2>1. PICK e \in Editor : ReadTariff(e)
    BY <1>3
  <2>2. ActiveTariffs \subseteq 1 .. MaxRules
    BY <1>1, PricingAssumption DEF ActiveTariffs
  <2> QED
    BY <1>1, <2>1, <2>2 DEF ReadTariff, PricingInv, PricingTypeOK, TariffBound
<1>4. CASE \E e \in Editor, form \in RuleForm : WriteTariff(e, form)
  <2>1. PICK e \in Editor, form \in RuleForm : WriteTariff(e, form)
    BY <1>4
  <2>2. UNCHANGED plans /\ upserting' \in [Editor -> (SUBSET (1 .. MaxRules)) \cup {None}]
    BY <1>1, <2>1 DEF WriteTariff
  <2>3. tariffs' \in Seq(Tariff) /\ Len(tariffs') <= MaxRules
    <3>1. CASE upserting[e] = {}
      <4>1. Len(tariffs) < MaxRules /\ tariffs' = Append(tariffs, [is |-> form, active |-> TRUE])
        BY <2>1, <3>1 DEF WriteTariff
      <4>2. [is |-> form, active |-> TRUE] \in Tariff
        BY DEF Tariff
      <4> QED
        BY <1>1, <4>1, <4>2, PricingAssumption
    <3>2. CASE upserting[e] # {}
      <4> DEFINE last == Max(upserting[e])
      <4>1. tariffs' = [t \in DOMAIN tariffs |->
                          CASE t = last                     -> [tariffs[t] EXCEPT !.is = form]
                            [] t \in upserting[e] \ {last}  -> [tariffs[t] EXCEPT !.active = FALSE]
                            [] OTHER                        -> tariffs[t]]
        BY <2>1, <3>2 DEF WriteTariff
      <4> HIDE DEF last
      <4>2. \A t \in DOMAIN tariffs : tariffs[t] \in Tariff
        <5>1. DOMAIN tariffs = 1 .. Len(tariffs)
          BY <1>1
        <5> QED
          BY <1>1, <5>1, ElementOfSeq
      <4>3. \A t \in DOMAIN tariffs : tariffs'[t] \in Tariff
        BY <4>1, <4>2 DEF Tariff
      <4>4. DOMAIN tariffs' = 1 .. Len(tariffs) /\ Len(tariffs) \in Nat
        BY <1>1, <4>1
      <4>5. tariffs' = [t \in 1 .. Len(tariffs) |-> tariffs'[t]]
        BY <4>1, <4>4
      <4>6. tariffs' \in [1 .. Len(tariffs) -> Tariff]
        BY <1>1, <4>3, <4>4, <4>5
      <4> QED
        BY <1>1, <4>4, <4>6
    <3> QED
      BY <3>1, <3>2
  <2> QED
    BY <1>1, <2>2, <2>3 DEF PricingInv, PricingTypeOK, TariffBound
<1> QED
  BY <1>2, <1>3, <1>4 DEF Tariffs

\* Nothing else writes the plans or the rules.
LEMMA OthersKeepPrices ==
  ASSUME [Next]_vars, ~Tariffs
  PROVE  UNCHANGED pricingVars
<1>1. ASSUME NEW i \in DOMAIN rows, NEW row, Write(i, row) PROVE UNCHANGED pricingVars
  BY <1>1 DEF Write
<1>2. ASSUME NEW row, Insert(row) PROVE UNCHANGED pricingVars
  BY <1>2 DEF Insert
<1>3. CASE \E c \in enabled : start(c) \/ disable(c)
  BY <1>2, <1>3 DEF start, disable
<1>4. CASE \E i \in DOMAIN rows : finalize(i) \/ review(i) \/ correct(i) \/ deleteSession(i)
                                  \/ \E p \in Plan : changePlan(i, p)
  BY <1>1, <1>4 DEF finalize, review, correct, deleteSession, changePlan
<1>5. CASE Tick \/ (\E raw \in world.filters : Open(raw)) \/ NextBatch
  BY <1>5 DEF Tick, Open, NextBatch
<1>6. CASE UNCHANGED vars
  BY <1>6 DEF vars, pricingVars
<1>7. CASE CommissionRules \/ BonusRules \/ RuleCreation
  BY <1>7 DEF CommissionRules, BonusRules, RuleCreation, pricingVars
<1> QED
  BY <1>3, <1>4, <1>5, <1>6, <1>7 DEF Next

LEMMA InitPricing == Init => PricingInv
<1> SUFFICES ASSUME Init PROVE PricingInv
  OBVIOUS
<1>1. world.plans \in [Plan -> PlanForm \cup {None}] /\ world.tariff \in RuleForm \cup {None}
  BY FiguresAssumption DEF Init
<1>2. plans = world.plans /\ upserting = [e \in Editor |-> None]
  BY DEF Init
<1>3. tariffs \in Seq(Tariff) /\ Len(tariffs) <= MaxRules
  <2>1. CASE world.tariff = None
    <3>1. tariffs = <<>>
      BY <2>1 DEF Init
    <3> QED
      BY <3>1, PricingAssumption
  <2>2. CASE world.tariff # None
    <3> DEFINE t == [is |-> world.tariff, active |-> TRUE]
    <3>1. tariffs = <<t>>
      BY <2>2 DEF Init
    <3>2. t \in Tariff
      BY <1>1, <2>2 DEF Tariff
    <3> HIDE DEF t
    <3> QED
      BY <3>1, <3>2, PricingAssumption
  <2> QED
    BY <2>1, <2>2
<1> QED
  BY <1>1, <1>2, <1>3 DEF PricingInv, PricingTypeOK, TariffBound

LEMMA PriceTyped ==
  ASSUME PlansTyped, TariffsTyped, NEW d \in Duration, NEW price \in calculateSessionPrice(d)
  PROVE  /\ price.amount \in Nat
         /\ price.billing \in {"PENDING", "CALCULATED"}
         /\ price.plan \in Plan \cup {None}
         /\ price.anomaly \subseteq {"TOO_SHORT", "TOO_LONG"}
<1> DEFINE Priced(x) == /\ x.amount \in Nat
                        /\ x.billing \in {"PENDING", "CALCULATED"}
                        /\ x.plan \in Plan \cup {None}
                        /\ x.anomaly \subseteq {"TOO_SHORT", "TOO_LONG"}
           Billed(p, anomaly) ==
             [plan |-> p, amount |-> plans[p].price, billing |-> "CALCULATED", anomaly |-> anomaly]
           Short == [plan |-> None, amount |-> 0, billing |-> "PENDING", anomaly |-> {"TOO_SHORT"}]
<1>1. Priced(Fallback) /\ Priced(Short)
  BY DEF Fallback
<1>2. ASSUME NEW p \in ActivePlans, NEW anomaly \in {{}, {"TOO_LONG"}} PROVE Priced(Billed(p, anomaly))
  BY <1>2, ActivePlansTyped
<1>3. ASSUME NEW rule \in RuleForm PROVE Priced(Price(rule, d))
  <2>1. rule.grace \in Nat /\ d \in Nat
    BY PricingAssumption
  <2>2. Covering(rule, d) # {} => Matched(rule, d) \in ActivePlans
    BY <2>1, MatchedIs DEF Covering
  <2>3. ActivePlans # {} => Longest(ActivePlans) \in ActivePlans
    BY LongestIs
  <2>4. Price(rule, d) =
        IF ActivePlans = {} THEN Fallback
        ELSE IF d < rule.minimum THEN Short
        ELSE IF Covering(rule, d) # {} THEN Billed(Matched(rule, d), {})
        ELSE Billed(Longest(ActivePlans), IF rule.policy = "NEXT_PLAN" THEN {} ELSE {"TOO_LONG"})
    BY DEF Price, Covering
  <2> HIDE DEF Priced, Billed, Short
  <2> QED
    BY <1>1, <1>2, <2>2, <2>3, <2>4
<1>4. ASSUME NEW t \in ActiveTariffs PROVE tariffs[t].is \in RuleForm
  <2>1. tariffs[t] \in Tariff
    BY <1>4, ElementOfSeq DEF TariffsTyped, ActiveTariffs
  <2> QED
    BY <2>1 DEF Tariff
<1>5. Priced(price)
  <2> HIDE DEF Priced
  <2> QED
    BY <1>1, <1>3, <1>4 DEF calculateSessionPrice, Calculated
<1> QED
  BY <1>5

-----------------------------------------------------------------------------
(***************************************************************************)
(* The rules of the primes.                                                *)
(***************************************************************************)
\* Rows of a table of rules; R is what a row may be.
Table(t, R) ==
  IsFiniteSet(DOMAIN t) /\ DOMAIN t \subseteq Nat /\ \A k \in DOMAIN t : t[k] \in R

PrimesTyped ==
  /\ Table(rules, Taken!RuleRow) /\ Table(bonuses, Taken!BonusRow)
  /\ creating \in [Owner -> Taken!Draft \cup {None}]

Sealable(R) ==
  \A row \in R : /\ \A at \in Hour : Taken!SwitchedOff(row, at) \in R
                /\ \A on \in BOOLEAN : [row EXCEPT !.active = on] \in R

LEMMA HourIs == Taken!Instant = Hour
BY DEF Taken!Instant, Hour

LEMMA RowsSeal == Sealable(Taken!RuleRow) /\ Sealable(Taken!BonusRow)
<1>1. ASSUME NEW row \in Taken!RuleRow, NEW at \in Hour
      PROVE  Taken!SwitchedOff(row, at) \in Taken!RuleRow
  BY HourIs DEF Taken!SwitchedOff, Taken!RuleRow
<1>2. ASSUME NEW row \in Taken!RuleRow, NEW on \in BOOLEAN
      PROVE  [row EXCEPT !.active = on] \in Taken!RuleRow
  BY DEF Taken!RuleRow
<1>3. ASSUME NEW row \in Taken!BonusRow, NEW at \in Hour
      PROVE  Taken!SwitchedOff(row, at) \in Taken!BonusRow
  BY HourIs DEF Taken!SwitchedOff, Taken!BonusRow
<1>4. ASSUME NEW row \in Taken!BonusRow, NEW on \in BOOLEAN
      PROVE  [row EXCEPT !.active = on] \in Taken!BonusRow
  BY DEF Taken!BonusRow
<1> QED
  BY <1>1, <1>2, <1>3, <1>4 DEF Sealable

LEMMA TableSealed ==
  ASSUME NEW t, NEW R, Table(t, R), Sealable(R), NEW which, NEW at \in Hour
  PROVE  Table(Taken!SealAll(t, which, at), R)
<1> DEFINE u == Taken!SealAll(t, which, at)
<1>1. DOMAIN u = DOMAIN t /\ \A k \in DOMAIN t : u[k] = t[k] \/ u[k] = Taken!SwitchedOff(t[k], at)
  BY DEF Taken!SealAll
<1> HIDE DEF u
<1>2. Table(u, R)
  BY <1>1 DEF Table, Sealable
<1> QED
  BY <1>2 DEF u

LEMMA TakenCardinality == ASSUME NEW S PROVE Taken!Cardinality(S) = Cardinality(S)
BY ZenonT(30) DEF Taken!Cardinality, Cardinality

LEMMA TableAdded ==
  ASSUME NEW t, NEW R, Table(t, R), NEW row \in R
  PROVE  Table(Taken!Added(t, row), R)
<1> DEFINE n == Cardinality(DOMAIN t) + 1
           u == Taken!Added(t, row)
<1>1. n \in Nat
  <2>1. Cardinality(DOMAIN t) \in Nat
    BY FS_CardinalityType DEF Table
  <2> QED
    BY <2>1
<1>2. u = [k \in 1 .. n |-> IF k \in DOMAIN t THEN t[k] ELSE row]
  BY TakenCardinality DEF Taken!Added
<1> HIDE DEF n, u
<1>3. DOMAIN u = 1 .. n /\ \A k \in 1 .. n : u[k] = IF k \in DOMAIN t THEN t[k] ELSE row
  BY <1>2
<1>4. IsFiniteSet(1 .. n) /\ 1 .. n \subseteq Nat
  BY <1>1, FS_Interval
<1>5. Table(u, R)
  BY <1>3, <1>4 DEF Table
<1> QED
  BY <1>5 DEF u

Switched(t, k, on) ==
  [t EXCEPT ![k] = IF ~on /\ @.active THEN Taken!SwitchedOff(@, now) ELSE [@ EXCEPT !.active = on]]

LEMMA TableSwitched ==
  ASSUME NEW t, NEW R, Table(t, R), Sealable(R), NEW k \in DOMAIN t, NEW on \in BOOLEAN,
         now \in Hour
  PROVE  Table(Switched(t, k, on), R)
<1> DEFINE new == IF ~on /\ t[k].active THEN Taken!SwitchedOff(t[k], now)
                  ELSE [t[k] EXCEPT !.active = on]
<1>1. new \in R
  BY DEF Table, Sealable
<1> HIDE DEF new
<1>2. Table([t EXCEPT ![k] = new], R)
  BY <1>1 DEF Table
<1> QED
  BY <1>2 DEF new, Switched

\* What a new row of a rule is.
LEMMA NewRule ==
  ASSUME NEW p \in Plan, NEW c \in Commission, NEW from \in Hour, NEW on \in BOOLEAN
  PROVE  [plan |-> p, is |-> c, active |-> on, from |-> from, to |-> Taken!Forever] \in Taken!RuleRow
BY HourIs DEF Taken!RuleRow

LEMMA NewBonus ==
  ASSUME NEW b \in Bonus, NEW from \in Hour, NEW on \in BOOLEAN
  PROVE  [is |-> b, active |-> on, from |-> from, to |-> Taken!Forever] \in Taken!BonusRow
BY HourIs DEF Taken!BonusRow

\* What a row and a request may be does not change.
LEMMA TypesStay ==
  /\ Taken!RuleRow' = Taken!RuleRow /\ Taken!BonusRow' = Taken!BonusRow
  /\ Taken!Draft' = Taken!Draft
BY DEF Taken!RuleRow, Taken!BonusRow, Taken!Draft, Taken!Instant, Taken!Forever

\* Only the owner writes the rules of the primes.
LEMMA OthersKeepRules ==
  ASSUME [Next]_vars, ~(CommissionRules \/ BonusRules \/ RuleCreation)
  PROVE  UNCHANGED primeVars
<1>1. ASSUME NEW i \in DOMAIN rows, NEW row, Write(i, row) PROVE UNCHANGED primeVars
  BY <1>1 DEF Write
<1>2. ASSUME NEW row, Insert(row) PROVE UNCHANGED primeVars
  BY <1>2 DEF Insert
<1>3. CASE \E c \in enabled : start(c) \/ disable(c)
  BY <1>2, <1>3 DEF start, disable
<1>4. CASE \E i \in DOMAIN rows : finalize(i) \/ review(i) \/ correct(i) \/ deleteSession(i)
                                  \/ \E p \in Plan : changePlan(i, p)
  BY <1>1, <1>4 DEF finalize, review, correct, deleteSession, changePlan
<1>5. CASE Tick \/ Tariffs \/ (\E raw \in world.filters : Open(raw)) \/ NextBatch
  BY <1>5 DEF Tick, Tariffs, Open, NextBatch
<1>6. CASE UNCHANGED vars
  BY <1>6 DEF vars, primeVars
<1> QED
  BY <1>3, <1>4, <1>5, <1>6 DEF Next

RuleBegins ==
  \E o \in Owner, p \in Plan, c \in Commission, on \in BOOLEAN : Taken!BeginRule(o, p, c, on)
BonusBegins ==
  \E o \in Owner, b \in Bonus, on \in BOOLEAN : Taken!BeginBonus(o, b, on)

\* A request that begins to create a rule keeps the row it will insert.
LEMMA DraftsAre ==
  ASSUME PrimesTyped, now \in Hour, RuleBegins \/ BonusBegins
  PROVE  \E o \in Owner, d \in Taken!Draft : Taken!Creating(o, d)
<1>1. DOMAIN rules \subseteq Nat /\ DOMAIN bonuses \subseteq Nat
  BY DEF PrimesTyped, Table
<1>2. CASE RuleBegins
  <2>1. PICK o \in Owner, p \in Plan, c \in Commission, on \in BOOLEAN : Taken!BeginRule(o, p, c, on)
    BY <1>2 DEF RuleBegins
  <2> DEFINE row == [plan |-> p, is |-> c, active |-> on, from |-> now, to |-> Taken!Forever]
             found == IF on THEN Taken!ActiveRules(p) ELSE {}
             d == [table |-> "rules", sealing |-> found, row |-> row]
  <2>2. row \in Taken!RuleRow
    BY NewRule
  <2>3. found \in SUBSET Nat
    BY <1>1 DEF Taken!ActiveRules
  <2>4. d \in Taken!Draft
    <3> HIDE DEF row, found
    <3> QED
      BY <2>2, <2>3 DEF Taken!Draft
  <2>5. Taken!Creating(o, d)
    BY <2>1 DEF Taken!BeginRule
  <2> QED
    BY <2>4, <2>5
<1>3. CASE BonusBegins
  <2>1. PICK o \in Owner, b \in Bonus, on \in BOOLEAN : Taken!BeginBonus(o, b, on)
    BY <1>3 DEF BonusBegins
  <2> DEFINE row == [is |-> b, active |-> on, from |-> now, to |-> Taken!Forever]
             found == IF on THEN Taken!ActiveBonuses(b.target) ELSE {}
             d == [table |-> "bonuses", sealing |-> found, row |-> row]
  <2>2. row \in Taken!BonusRow
    BY NewBonus
  <2>3. found \in SUBSET Nat
    BY <1>1 DEF Taken!ActiveBonuses
  <2>4. d \in Taken!Draft
    <3> HIDE DEF row, found
    <3> QED
      BY <2>2, <2>3 DEF Taken!Draft
  <2>5. Taken!Creating(o, d)
    BY <2>1 DEF Taken!BeginBonus
  <2> QED
    BY <2>4, <2>5
<1> QED
  BY <1>2, <1>3

LEMMA CreationStep ==
  ASSUME PrimesTyped, NEW o \in Owner, Taken!SealFound(o) \/ Taken!InsertRow(o)
  PROVE  PrimesTyped'
<1>1. /\ Table(rules, Taken!RuleRow) /\ Table(bonuses, Taken!BonusRow)
      /\ creating \in [Owner -> Taken!Draft \cup {None}]
      /\ Sealable(Taken!RuleRow) /\ Sealable(Taken!BonusRow)
  BY RowsSeal DEF PrimesTyped
<1> DEFINE d == creating[o]
<1>2. d \in Taken!Draft
  BY <1>1 DEF Taken!SealFound, Taken!InsertRow
<1>3. CASE Taken!SealFound(o)
  <2>1. d.row.from \in Hour /\ [d EXCEPT !.sealing = {}] \in Taken!Draft
    BY <1>2, HourIs DEF Taken!Draft, Taken!RuleRow, Taken!BonusRow
  <2>2. /\ rules' = IF d.table = "rules" THEN Taken!SealAll(rules, d.sealing, d.row.from) ELSE rules
        /\ bonuses' = IF d.table = "bonuses" THEN Taken!SealAll(bonuses, d.sealing, d.row.from) ELSE bonuses
        /\ creating' = [creating EXCEPT ![o] = [d EXCEPT !.sealing = {}]]
    BY <1>3 DEF Taken!SealFound
  <2> HIDE DEF d
  <2>3. Table(rules', Taken!RuleRow) /\ Table(bonuses', Taken!BonusRow)
    BY <1>1, <2>1, <2>2, TableSealed
  <2>4. creating' \in [Owner -> Taken!Draft \cup {None}]
    BY <1>1, <2>1, <2>2
  <2> QED
    BY <2>3, <2>4, TypesStay DEF PrimesTyped
<1>4. CASE Taken!InsertRow(o)
  <2>1. /\ d.table = "rules" => d.row \in Taken!RuleRow
        /\ d.table = "bonuses" => d.row \in Taken!BonusRow
    BY <1>2 DEF Taken!Draft
  <2>2. Table(rules', Taken!RuleRow) /\ Table(bonuses', Taken!BonusRow)
    BY <1>1, <1>4, <2>1, TableAdded DEF Taken!InsertRow
  <2>3. creating' \in [Owner -> Taken!Draft \cup {None}]
    BY <1>1, <1>4 DEF Taken!InsertRow
  <2> QED
    BY <2>2, <2>3, TypesStay DEF PrimesTyped
<1> QED
  BY <1>3, <1>4

LEMMA CommissionStep ==
  ASSUME PrimesTyped, now \in Hour, NEW k \in DOMAIN rules, NEW on \in BOOLEAN,
         Taken!SwitchRule(k, on) \/ \E c \in Commission : Taken!ReplaceRule(k, c, on)
  PROVE  PrimesTyped'
<1>1. /\ Table(rules, Taken!RuleRow) /\ Table(bonuses, Taken!BonusRow)
      /\ creating \in [Owner -> Taken!Draft \cup {None}] /\ Sealable(Taken!RuleRow)
  BY RowsSeal DEF PrimesTyped
<1>2. bonuses' = bonuses /\ creating' = creating
  BY DEF Taken!SwitchRule, Taken!ReplaceRule
<1>3. CASE Taken!SwitchRule(k, on)
  <2>1. rules' = Switched(rules, k, on)
    BY <1>3 DEF Taken!SwitchRule, Switched
  <2>2. Table(rules', Taken!RuleRow)
    BY <1>1, <2>1, TableSwitched
  <2> QED
    BY <1>1, <1>2, <2>2, TypesStay DEF PrimesTyped
<1>4. CASE \E c \in Commission : Taken!ReplaceRule(k, c, on)
  <2>1. PICK c \in Commission : Taken!ReplaceRule(k, c, on)
    BY <1>4
  <2>2. rules[k].plan \in Plan
    BY <1>1 DEF Table, Taken!RuleRow
  <2>3. [plan |-> rules[k].plan, is |-> c, active |-> on, from |-> now, to |-> Taken!Forever]
          \in Taken!RuleRow
    BY <2>2, NewRule
  <2>4. Table(Taken!SealAll(rules, {k}, now), Taken!RuleRow)
    BY <1>1, TableSealed
  <2>5. Table(rules', Taken!RuleRow)
    BY <2>1, <2>3, <2>4, TableAdded DEF Taken!ReplaceRule
  <2> QED
    BY <1>1, <1>2, <2>5, TypesStay DEF PrimesTyped
<1> QED
  BY <1>3, <1>4

LEMMA BonusStep ==
  ASSUME PrimesTyped, now \in Hour, NEW k \in DOMAIN bonuses, NEW on \in BOOLEAN,
         Taken!SwitchBonus(k, on) \/ \E b \in Bonus : Taken!ReplaceBonus(k, b, on)
  PROVE  PrimesTyped'
<1>1. /\ Table(rules, Taken!RuleRow) /\ Table(bonuses, Taken!BonusRow)
      /\ creating \in [Owner -> Taken!Draft \cup {None}] /\ Sealable(Taken!BonusRow)
  BY RowsSeal DEF PrimesTyped
<1>2. rules' = rules /\ creating' = creating
  BY DEF Taken!SwitchBonus, Taken!ReplaceBonus
<1>3. CASE Taken!SwitchBonus(k, on)
  <2>1. bonuses' = Switched(bonuses, k, on)
    BY <1>3 DEF Taken!SwitchBonus, Switched
  <2>2. Table(bonuses', Taken!BonusRow)
    BY <1>1, <2>1, TableSwitched
  <2> QED
    BY <1>1, <1>2, <2>2, TypesStay DEF PrimesTyped
<1>4. CASE \E b \in Bonus : Taken!ReplaceBonus(k, b, on)
  <2>1. PICK b \in Bonus : Taken!ReplaceBonus(k, b, on)
    BY <1>4
  <2>2. [is |-> b, active |-> on, from |-> now, to |-> Taken!Forever] \in Taken!BonusRow
    BY NewBonus
  <2>3. Table(Taken!SealAll(bonuses, {k}, now), Taken!BonusRow)
    BY <1>1, TableSealed
  <2>4. Table(bonuses', Taken!BonusRow)
    BY <2>1, <2>2, <2>3, TableAdded DEF Taken!ReplaceBonus
  <2> QED
    BY <1>1, <1>2, <2>4, TypesStay DEF PrimesTyped
<1> QED
  BY <1>3, <1>4

LEMMA PrimesStep ==
  ASSUME PrimesTyped, now \in Hour, [Next]_vars
  PROVE  PrimesTyped'
<1>1. CASE UNCHANGED primeVars
  BY <1>1, TypesStay DEF PrimesTyped, primeVars, Table
<1>2. CASE RuleBegins \/ BonusBegins
  <2>1. PICK o \in Owner, d \in Taken!Draft : Taken!Creating(o, d)
    BY <1>2, DraftsAre
  <2>2. creating' \in [Owner -> Taken!Draft \cup {None}] /\ rules' = rules /\ bonuses' = bonuses
    BY <2>1 DEF Taken!Creating, PrimesTyped
  <2> QED
    BY <2>2, TypesStay DEF PrimesTyped, Table
<1>3. CASE RuleCreation
  BY <1>3, CreationStep DEF RuleCreation
<1>4. CASE CommissionRules
  <2>1. \/ RuleBegins
        \/ \E k \in DOMAIN rules, on \in BOOLEAN :
             Taken!SwitchRule(k, on) \/ \E c \in Commission : Taken!ReplaceRule(k, c, on)
    BY <1>4 DEF CommissionRules, RuleBegins
  <2> QED
    BY <1>2, <2>1, CommissionStep
<1>5. CASE BonusRules
  <2>1. \/ BonusBegins
        \/ \E k \in DOMAIN bonuses, on \in BOOLEAN :
             Taken!SwitchBonus(k, on) \/ \E b \in Bonus : Taken!ReplaceBonus(k, b, on)
    BY <1>5 DEF BonusRules, BonusBegins
  <2> QED
    BY <1>2, <2>1, BonusStep
<1>6. CASE ~(CommissionRules \/ BonusRules \/ RuleCreation)
  <2>1. UNCHANGED primeVars
    BY <1>6, OthersKeepRules
  <2> QED
    BY <1>1, <2>1
<1> QED
  BY <1>3, <1>4, <1>5, <1>6

LEMMA InitPrimes == Init => PrimesTyped
<1> SUFFICES ASSUME Init PROVE PrimesTyped
  OBVIOUS
<1>1. ASSUME NEW R, NEW t \in Seq(R) PROVE Table(t, R)
  <2>1. DOMAIN t = 1 .. Len(t) /\ Len(t) \in Nat /\ \A k \in 1 .. Len(t) : t[k] \in R
    OBVIOUS
  <2>2. IsFiniteSet(1 .. Len(t))
    BY <2>1, FS_Interval
  <2> QED
    BY <2>1, <2>2 DEF Table
<1>2. Table(rules, Taken!RuleRow) /\ Table(bonuses, Taken!BonusRow)
  BY <1>1, PrimeAssumption DEF Init
<1> QED
  BY <1>2 DEF Init, PrimesTyped

-----------------------------------------------------------------------------
(***************************************************************************)
(* The rows of the massages.  A row that is kept stays where it is.        *)
(***************************************************************************)
RowsTyped ==
  /\ world \in World
  /\ enabled \subseteq Chair
  /\ now \in Hour
  /\ rows \in Seq(Row \cup {None}) /\ Len(rows) <= world.sessions
  /\ edits \in 0 .. world.edits

KeepsPlaces ==
  /\ Len(rows) <= Len(rows')
  /\ \A i \in DOMAIN rows :
       rows'[i] # None => rows[i] # None /\ rows'[i].at = rows[i].at

Changed ==
  /\ RowsTyped'
  /\ world' = world
  /\ KeepsPlaces
  /\ request' = Watched(rows')

LEMMA RowIsTyped ==
  ASSUME RowsTyped, NEW i \in Kept
  PROVE  i \in 1 .. Len(rows) /\ rows[i] \in Row
BY ElementOfSeq DEF RowsTyped, Kept

LEMMA WorldIsTyped ==
  ASSUME RowsTyped
  PROVE  world.sessions \in Nat /\ world.edits \in Nat /\ world.batch \in Nat \ {0}
BY FiguresAssumption DEF RowsTyped

LEMMA InsertChanges ==
  ASSUME RowsTyped, NEW row \in Row, Insert(row)
  PROVE  Changed
<1>1. rows \in Seq(Row \cup {None}) /\ Len(rows) \in Nat
  BY DEF RowsTyped
<1>2. rows' = Append(rows, row) /\ Len(rows) < world.sessions /\ world.sessions \in Nat
  BY WorldIsTyped DEF Insert
<1>3. /\ rows' \in Seq(Row \cup {None}) /\ Len(rows') = Len(rows) + 1
      /\ \A i \in DOMAIN rows : rows'[i] = rows[i]
  BY <1>1, <1>2
<1>4. KeepsPlaces
  BY <1>1, <1>3 DEF KeepsPlaces
<1>5. RowsTyped'
  BY <1>1, <1>2, <1>3 DEF RowsTyped, Insert
<1> QED
  BY <1>4, <1>5 DEF Changed, Insert

LEMMA WriteChanges ==
  ASSUME RowsTyped, NEW i \in Kept, NEW row \in Row \cup {None}, Write(i, row),
         row # None => row.at = rows[i].at
  PROVE  Changed
<1>1. rows \in Seq(Row \cup {None}) /\ Len(rows) \in Nat /\ DOMAIN rows = 1 .. Len(rows)
  BY DEF RowsTyped
<1>2. i \in DOMAIN rows /\ rows[i] # None
  BY DEF Kept
<1>3. rows' = [rows EXCEPT ![i] = row] /\ edits < world.edits /\ edits' = edits + 1
  BY DEF Write
<1>4. rows' \in Seq(Row \cup {None}) /\ Len(rows') = Len(rows)
  BY <1>1, <1>2, <1>3, ExceptSeq
<1>5. rows'[i] = row /\ \A j \in DOMAIN rows : j # i => rows'[j] = rows[j]
  BY <1>1, <1>2, <1>3
<1>6. KeepsPlaces
  BY <1>1, <1>2, <1>4, <1>5 DEF KeepsPlaces
<1>7. edits' \in 0 .. world.edits
  BY <1>3, WorldIsTyped DEF RowsTyped
<1>8. RowsTyped'
  BY <1>4, <1>7 DEF RowsTyped, Write
<1> QED
  BY <1>6, <1>8 DEF Changed, Write

FiguresTyped == RowsTyped /\ PlansTyped /\ TariffsTyped /\ PrimesTyped

LEMMA RowFields ==
  ASSUME NEW r \in Row
  PROVE  /\ r = [chair |-> r.chair, shift |-> r.shift, at |-> r.at, status |-> r.status,
                 expected |-> r.expected, corrected |-> r.corrected, billing |-> r.billing,
                 anomaly |-> r.anomaly, plan |-> r.plan, archived |-> r.archived]
         /\ r.at \in Nat
BY FiguresAssumption DEF Row, Hour

LEMMA StartChanges ==
  ASSUME FiguresTyped, NEW c \in enabled, start(c)
  PROVE  Changed
<1>1. PICK at \in {now - 1, now} \cap Hour :
        Insert([chair |-> c, shift |-> ShiftAt[now], at |-> at, status |-> "ACTIVE",
               expected |-> None, corrected |-> None, billing |-> "PENDING",
               anomaly |-> IF ShiftAt[now] = None THEN {"NO_OPEN_SHIFT"} ELSE {},
               plan |-> None, archived |-> FALSE])
  BY DEF start
<1>2. c \in Chair /\ ShiftAt[now] \in Shift \cup {None}
  BY FiguresAssumption DEF FiguresTyped, RowsTyped
<1>3. [chair |-> c, shift |-> ShiftAt[now], at |-> at, status |-> "ACTIVE",
       expected |-> None, corrected |-> None, billing |-> "PENDING",
       anomaly |-> IF ShiftAt[now] = None THEN {"NO_OPEN_SHIFT"} ELSE {},
       plan |-> None, archived |-> FALSE] \in Row
  BY <1>2 DEF Row
<1> QED
  BY <1>1, <1>3, InsertChanges DEF FiguresTyped

LEMMA FinalizeChanges ==
  ASSUME FiguresTyped, NEW i \in DOMAIN rows, finalize(i)
  PROVE  Changed
<1>1. i \in Kept
  BY DEF finalize
<1>2. rows[i] \in Row
  BY <1>1, RowIsTyped DEF FiguresTyped
<1>3. PICK d \in Duration : \E price \in calculateSessionPrice(d) :
       Write(i, [rows[i] EXCEPT !.status = "COMPLETED",
                                !.expected = price.amount, !.billing = price.billing,
                                !.plan = price.plan, !.anomaly = @ \cup price.anomaly])
  BY DEF finalize
<1> DEFINE Billed(price) == [rows[i] EXCEPT !.status = "COMPLETED",
                                !.expected = price.amount, !.billing = price.billing,
                                !.plan = price.plan, !.anomaly = @ \cup price.anomaly]
<1>4. PICK price \in calculateSessionPrice(d) : Write(i, Billed(price))
  BY <1>3
<1>5. Billed(price) \in Row /\ Billed(price).at = rows[i].at
  BY <1>2, PriceTyped DEF FiguresTyped, Row
<1> HIDE DEF Billed
<1> QED
  BY <1>1, <1>4, <1>5, WriteChanges DEF FiguresTyped

LEMMA ReviewChanges ==
  ASSUME FiguresTyped, NEW i \in DOMAIN rows, review(i)
  PROVE  Changed
<1> DEFINE row == [rows[i] EXCEPT !.status = "UNCERTAIN", !.billing = "DISPUTED",
                              !.anomaly = @ \cup {"STALE_NEEDS_REVIEW"}]
<1>1. i \in Kept /\ Write(i, row)
  BY DEF review
<1>2. row \in Row /\ row.at = rows[i].at
  BY <1>1, RowIsTyped DEF FiguresTyped, Row
<1> HIDE DEF row
<1> QED
  BY <1>1, <1>2, WriteChanges DEF FiguresTyped

LEMMA CorrectChanges ==
  ASSUME FiguresTyped, NEW i \in DOMAIN rows, correct(i)
  PROVE  Changed
<1> DEFINE Given(amount) == [rows[i] EXCEPT !.corrected = amount, !.billing = "CORRECTED"]
           cleared == [rows[i] EXCEPT !.corrected = None,
                                 !.billing = IF rows[i].expected # None THEN "CALCULATED"
                                             ELSE "PENDING"]
<1>1. i \in Kept /\ ((\E amount \in Correction : Write(i, Given(amount))) \/ Write(i, cleared))
  BY DEF correct
<1>2. rows[i] \in Row
  BY <1>1, RowIsTyped DEF FiguresTyped
<1>3. \A amount \in Correction : Given(amount) \in Row /\ Given(amount).at = rows[i].at
  BY <1>2 DEF Row
<1>4. cleared \in Row /\ cleared.at = rows[i].at
  BY <1>2 DEF Row
<1> HIDE DEF Given, cleared
<1> QED
  BY <1>1, <1>3, <1>4, WriteChanges DEF FiguresTyped

LEMMA ChangePlanChanges ==
  ASSUME FiguresTyped, NEW i \in DOMAIN rows, NEW p \in Plan, changePlan(i, p)
  PROVE  Changed
<1> DEFINE row == [rows[i] EXCEPT !.plan = p, !.expected = plans[p].price,
                              !.billing = "CALCULATED", !.anomaly = {}]
<1>1. i \in Kept /\ Write(i, row) /\ p \in ActivePlans
  BY DEF changePlan
<1>2. plans[p].price \in Nat
  BY <1>1, ActivePlansTyped DEF FiguresTyped
<1>3. row \in Row /\ row.at = rows[i].at
  BY <1>1, <1>2, RowIsTyped DEF FiguresTyped, Row
<1> HIDE DEF row
<1> QED
  BY <1>1, <1>3, WriteChanges DEF FiguresTyped

LEMMA DeleteChanges ==
  ASSUME FiguresTyped, NEW i \in DOMAIN rows, deleteSession(i)
  PROVE  Changed
<1>1. i \in Kept /\ (Write(i, Archived(rows[i])) \/ Write(i, None))
  BY DEF deleteSession
<1>2. rows[i] \in Row
  BY <1>1, RowIsTyped DEF FiguresTyped
<1>3. Archived(rows[i]) \in Row /\ Archived(rows[i]).at = rows[i].at
  BY <1>2 DEF Archived, Row
<1> QED
  BY <1>1, <1>3, WriteChanges DEF FiguresTyped

\* A step changes the rows, or the request, or neither.
Leaves == RowsTyped' /\ UNCHANGED <<world, rows>>

LEMMA StepKinds ==
  ASSUME FiguresTyped, [Next]_vars
  PROVE  \/ Changed
         \/ Leaves /\ UNCHANGED request
         \/ Leaves /\ \E raw \in world.filters : Open(raw)
         \/ Leaves /\ NextBatch
<1>1. CASE \E c \in enabled : start(c) \/ disable(c)
  <2>1. PICK c \in enabled : start(c) \/ disable(c)
    BY <1>1
  <2>2. CASE disable(c)
    BY <2>2 DEF disable, Leaves, FiguresTyped, RowsTyped
  <2> QED
    BY <2>1, <2>2, StartChanges
<1>2. CASE \E i \in DOMAIN rows :
             \/ finalize(i) \/ review(i) \/ correct(i) \/ deleteSession(i)
             \/ \E p \in Plan : changePlan(i, p)
  BY <1>2, FinalizeChanges, ReviewChanges, CorrectChanges, DeleteChanges, ChangePlanChanges
<1>3. CASE Tick
  <2>1. now' \in Hour
    BY <1>3, FiguresAssumption DEF Tick, FiguresTyped, RowsTyped, Hour
  <2> QED
    BY <1>3, <2>1 DEF Tick, Leaves, FiguresTyped, RowsTyped
<1>4. CASE Tariffs
  BY <1>4 DEF Tariffs, Leaves, FiguresTyped, RowsTyped
<1>5. CASE \E raw \in world.filters : Open(raw)
  <2>1. Leaves
    BY <1>5 DEF Open, Leaves, FiguresTyped, RowsTyped
  <2> QED
    BY <1>5, <2>1
<1>6. CASE NextBatch
  <2>1. Leaves
    BY <1>6 DEF NextBatch, Leaves, FiguresTyped, RowsTyped
  <2> QED
    BY <1>6, <2>1
<1>7. CASE UNCHANGED vars
  BY <1>7 DEF vars, Leaves, FiguresTyped, RowsTyped
<1>8. CASE CommissionRules \/ BonusRules
  <2>1. edits' \in 0 .. world.edits
    BY <1>8, WorldIsTyped DEF CommissionRules, BonusRules, FiguresTyped, RowsTyped
  <2> QED
    BY <1>8, <2>1 DEF CommissionRules, BonusRules, Leaves, FiguresTyped, RowsTyped
<1>9. CASE RuleCreation
  BY <1>9 DEF RuleCreation, Leaves, FiguresTyped, RowsTyped
<1> QED
  BY <1>1, <1>2, <1>3, <1>4, <1>5, <1>6, <1>7, <1>8, <1>9 DEF Next

FiguresInv == RowsTyped /\ PricingInv /\ PrimesTyped

LEMMA FiguresTypedInv ==
  /\ Init => FiguresInv
  /\ FiguresInv /\ [Next]_vars => FiguresInv'
  /\ FiguresInv => FiguresTyped
<1>1. ASSUME Init PROVE FiguresInv
  <2>1. RowsTyped
    BY <1>1, FiguresAssumption DEF Init, RowsTyped, Hour
  <2> QED
    BY <1>1, <2>1, InitPricing, InitPrimes DEF FiguresInv
<1>2. FiguresInv => FiguresTyped
  BY DEF FiguresInv, PricingInv, PricingTypeOK, FiguresTyped, PlansTyped, TariffsTyped
<1>3. ASSUME FiguresInv, [Next]_vars PROVE FiguresInv'
  <2>1. RowsTyped'
    BY <1>2, <1>3, StepKinds DEF Changed, Leaves
  <2>2. PrimesTyped'
    BY <1>3, PrimesStep DEF FiguresInv, RowsTyped
  <2>3. PricingInv'
    <3>1. CASE Tariffs
      BY <1>3, <3>1, TariffsKeepInv DEF FiguresInv
    <3>2. CASE ~Tariffs
      BY <1>3, <3>2, OthersKeepPrices DEF FiguresInv, PricingInv, PricingTypeOK, TariffBound, pricingVars
    <3> QED
      BY <3>1, <3>2
  <2> QED
    BY <2>1, <2>2, <2>3 DEF FiguresInv
<1> QED
  BY <1>1, <1>2, <1>3

-----------------------------------------------------------------------------
(***************************************************************************)
(* One batch of the home page.                                             *)
(***************************************************************************)
Sooner(table, i, j) == table[i].at < table[j].at \/ (table[i].at = table[j].at /\ i < j)

LEMMA SoonerOrders ==
  ASSUME RowsTyped
  PROVE  /\ \A i \in Kept : i \in Nat /\ i # 0 /\ rows[i].at \in Nat
         /\ \A i \in Kept : ~Sooner(rows, i, i)
         /\ \A i, j \in Kept : i # j => Sooner(rows, i, j) \/ Sooner(rows, j, i)
         /\ \A i, j, k \in Kept :
              Sooner(rows, i, j) /\ Sooner(rows, j, k) => Sooner(rows, i, k)
<1>1. ASSUME NEW i \in Kept PROVE i \in Nat /\ i # 0 /\ rows[i].at \in Nat
  <2>1. i \in 1 .. Len(rows) /\ rows[i] \in Row
    BY RowIsTyped
  <2>2. rows[i].at \in Nat
    BY <2>1, RowFields
  <2> QED
    BY <2>1, <2>2 DEF RowsTyped
<1>2. \A i \in Kept : ~Sooner(rows, i, i)
  BY <1>1 DEF Sooner
<1>3. \A i, j \in Kept : i # j => Sooner(rows, i, j) \/ Sooner(rows, j, i)
  BY <1>1 DEF Sooner
<1>4. \A i, j, k \in Kept : Sooner(rows, i, j) /\ Sooner(rows, j, k) => Sooner(rows, i, k)
  BY <1>1 DEF Sooner
<1> QED
  BY <1>1, <1>2, <1>3, <1>4

SortedList(s, S) ==
  /\ Cardinality(S) \in Nat
  /\ s \in [1 .. Cardinality(S) -> S]
  /\ \A j, k \in 1 .. Cardinality(S) : j < k => Sooner(rows, s[j], s[k])
  /\ \A x \in S : \E k \in 1 .. Cardinality(S) : s[k] = x
  /\ \A j, k \in 1 .. Cardinality(S) : s[j] = s[k] => j = k

LEMMA SortedIs ==
  ASSUME RowsTyped, NEW S \in SUBSET Kept
  PROVE  SortedList(Sorted(S), S)
<1> DEFINE R == {p \in S \X S : Sooner(rows, p[1], p[2])}
           n == Cardinality(S)
<1>1. IsFiniteSet(S)
  <2>1. IsFiniteSet(1 .. Len(rows))
    BY FS_Interval DEF RowsTyped
  <2>2. S \subseteq 1 .. Len(rows)
    BY RowIsTyped
  <2> QED
    BY <2>1, <2>2, FS_Subset
<1>2. n \in Nat
  BY <1>1, FS_CardinalityType
<1>3. \A i, j \in S : <<i, j>> \in R <=> Sooner(rows, i, j)
  OBVIOUS
<1>4. Orders(R, S)
  <2> HIDE DEF R
  <2> QED
    BY <1>3, SoonerOrders DEF Orders
<1>5. PICK l : Lists(l, n, S, R)
  <2> HIDE DEF R
  <2> QED
    BY <1>1, <1>4, FiniteIsListed
<1> HIDE DEF R, n
<1> DEFINE InOrder(s) == \A j, k \in DOMAIN s : j < k => Precedes(Position(s[j]), Position(s[k]))
<1>6. \A i, j : Precedes(Position(i), Position(j)) <=> Sooner(rows, i, j)
  BY DEF Precedes, Position, Sooner
<1>7. \A s \in [1 .. n -> S] : InOrder(s) <=> Lists(s, n, S, R)
  <2> SUFFICES ASSUME NEW s \in [1 .. n -> S]
               PROVE  InOrder(s) <=> Lists(s, n, S, R)
    OBVIOUS
  <2>1. DOMAIN s = 1 .. n
    OBVIOUS
  <2>2. \A j, k \in 1 .. n : <<s[j], s[k]>> \in R <=> Precedes(Position(s[j]), Position(s[k]))
    BY <1>3, <1>6
  <2> QED
    BY <2>1, <2>2 DEF Lists
<1>8. l \in [1 .. n -> S] /\ InOrder(l)
  <2>1. l \in [1 .. n -> S]
    BY <1>5 DEF Lists
  <2> HIDE DEF InOrder
  <2> QED
    BY <1>5, <1>7, <2>1
<1>9. Sorted(S) = CHOOSE s \in [1 .. n -> S] : InOrder(s)
  BY DEF Sorted, n
<1> HIDE DEF InOrder
<1>10. Sorted(S) \in [1 .. n -> S] /\ InOrder(Sorted(S))
  BY <1>8, <1>9
<1>11. Lists(Sorted(S), n, S, R)
  BY <1>7, <1>10
<1>12. /\ \A x \in S : \E k \in 1 .. n : Sorted(S)[k] = x
       /\ \A j, k \in 1 .. n : Sorted(S)[j] = Sorted(S)[k] => j = k
  BY <1>1, <1>4, <1>11, ListTakesInAll DEF n
<1>13. \A j, k \in 1 .. n : j < k => Sooner(rows, Sorted(S)[j], Sorted(S)[k])
  BY <1>3, <1>10, <1>11 DEF Lists
<1> QED
  BY <1>2, <1>10, <1>12, <1>13 DEF SortedList, n

\* What the query with the cursor finds while the row of the cursor is kept,
\* and what a batch is: without at most the first of them, up to its size.
Found(c) ==
  {i \in DOMAIN rows : Where(request.filter, rows[i]) /\ (c = 0 \/ ~Sooner(rows, i, c))}

Serves(b, c, dropped) ==
  /\ b \in Seq(Found(c)) /\ Len(b) <= world.batch
  /\ \A j, k \in 1 .. Len(b) : b[j] = b[k] => j = k
  /\ c # 0 => \A k \in 1 .. Len(b) : Sooner(rows, c, b[k])
  /\ \A k \in 1 .. Len(b) : ~Sooner(rows, b[Len(b)], b[k])
  /\ dropped = {} \/ (c # 0 /\ \E d : dropped = {d})
  /\ c # 0 /\ Where(request.filter, rows[c]) => dropped \subseteq {c}
  /\ \A i \in Found(c) \ dropped :
       \/ \E k \in 1 .. Len(b) : b[k] = i
       \/ Len(b) = world.batch /\ Sooner(rows, b[Len(b)], i)

LEMMA WhereIsKept ==
  ASSUME RowsTyped, NEW c
  PROVE  Found(c) \in SUBSET Kept
BY DEF Found, Where, Kept

LEMMA FromIs ==
  ASSUME RowsTyped, NEW c, c = 0 \/ (c \in Kept)
  PROVE  From(c) = Sorted(Found(c))
<1>1. \A i, j : Precedes(Position(i), Position(j)) <=> Sooner(rows, i, j)
  BY DEF Precedes, Position, Sooner
<1> DEFINE found == {i \in DOMAIN rows : Where(request.filter, rows[i])}
<1>2. CASE c = 0
  <2>1. Found(c) = found
    BY <1>2 DEF Found
  <2> QED
    BY <1>2, <2>1 DEF From
<1>3. CASE c # 0
  <2>1. {i \in found : ~Precedes(Position(i), Position(c))} = Found(c)
    BY <1>1, <1>3 DEF Found
  <2>2. rows[c] # None
    BY <1>3 DEF Kept
  <2> QED
    BY <1>3, <2>1, <2>2 DEF From
<1> QED
  BY <1>2, <1>3

\* Of the sorted list the first o are left out, and the next m are the batch.
LEMMA CutServes ==
  ASSUME RowsTyped, NEW c, c = 0 \/ c \in Kept, NEW s, SortedList(s, Found(c)),
         NEW o \in {0, 1}, o = 1 <=> (c # 0 /\ Found(c) # {}),
         NEW m \in Nat, m <= Cardinality(Found(c)) - o, m <= world.batch,
         m = Cardinality(Found(c)) - o \/ m = world.batch,
         NEW b \in Seq(Found(c)), Len(b) = m, \A k \in 1 .. m : b[k] = s[k + o]
  PROVE  \E dropped : Serves(b, c, dropped)
<1> DEFINE F == Found(c)
           n == Cardinality(F)
           dropped == IF o = 1 THEN {s[1]} ELSE {}
<1>1. /\ F \in SUBSET Kept /\ n \in Nat /\ s \in [1 .. n -> F]
      /\ \A x \in F : \E k \in 1 .. n : s[k] = x
  BY WhereIsKept DEF SortedList
<1>2. \A j, k \in 1 .. n : j < k => Sooner(rows, s[j], s[k])
  BY DEF SortedList
<1>3. \A j, k \in 1 .. n : s[j] = s[k] => j = k
  BY DEF SortedList
<1>4. world.batch \in Nat \ {0}
  BY WorldIsTyped
<1>5. m <= n - o /\ (m = n - o \/ m = world.batch)
  OBVIOUS
<1>6. \A i \in F : c # 0 => ~Sooner(rows, i, c)
  BY DEF Found
<1>7. c # 0 /\ Where(request.filter, rows[c]) => c \in F
  BY SoonerOrders DEF Found, Kept
<1>8. o = 1 <=> (c # 0 /\ F # {})
  OBVIOUS
<1> HIDE DEF F, n
<1>9. ASSUME o = 1 PROVE s[1] \in F /\ 1 \in 1 .. n
  <2>1. PICK x \in F : TRUE
    BY <1>8, <1>9
  <2>2. 1 \in 1 .. n
    BY <1>1, <2>1
  <2> QED
    BY <1>1, <2>2
<1>10. \A k \in 1 .. m : k + o \in 1 .. n
  BY <1>1, <1>5
<1>11. \A j, k \in 1 .. m : b[j] = b[k] => j = k
  <2>1. ASSUME NEW j \in 1 .. m, NEW k \in 1 .. m, b[j] = b[k] PROVE j = k
    <3>1. j + o = k + o
      BY <1>3, <1>10, <2>1
    <3> QED
      BY <3>1
  <2> QED
    BY <2>1
<1>12. ASSUME c # 0, NEW k \in 1 .. m PROVE Sooner(rows, c, b[k])
  <2>1. k + o \in 1 .. n /\ s[k + o] \in F
    BY <1>1, <1>10
  <2>2. o = 1 /\ s[1] \in F /\ 1 \in 1 .. n
    BY <1>8, <1>9, <1>12, <2>1
  <2>3. Sooner(rows, s[1], s[k + 1])
    BY <1>2, <2>1, <2>2
  <2>4. s[1] \in Kept /\ s[k + 1] \in Kept /\ c \in Kept /\ b[k] = s[k + 1]
    BY <1>1, <1>12, <2>1, <2>2
  <2>5. s[1] = c \/ Sooner(rows, c, s[1])
    BY <1>6, <1>12, <2>2, <2>4, SoonerOrders
  <2> QED
    BY <2>3, <2>4, <2>5, SoonerOrders
<1>13. ASSUME NEW k \in 1 .. m PROVE ~Sooner(rows, b[m], b[k])
  <2>0. m \in 1 .. m
    OBVIOUS
  <2>1. b[m] = s[m + o] /\ b[k] = s[k + o] /\ m + o \in 1 .. n /\ k + o \in 1 .. n
    BY <1>10, <2>0
  <2>2. s[m + o] \in Kept /\ s[k + o] \in Kept
    BY <1>1, <2>1
  <2>3. k = m \/ Sooner(rows, s[k + o], s[m + o])
    BY <1>2, <2>1
  <2> QED
    BY <2>1, <2>2, <2>3, SoonerOrders
<1>14. dropped = {} \/ (c # 0 /\ \E d : dropped = {d})
  BY <1>8
<1>15. ASSUME c # 0, Where(request.filter, rows[c]) PROVE dropped \subseteq {c}
  <2>1. c \in F /\ o = 1 /\ s[1] \in F /\ 1 \in 1 .. n
    BY <1>7, <1>8, <1>9, <1>15
  <2>2. PICK k \in 1 .. n : s[k] = c
    BY <1>1, <2>1
  <2>3. ~(1 < k)
    BY <1>2, <1>6, <1>15, <2>1, <2>2
  <2>4. k = 1
    BY <2>3
  <2> QED
    BY <2>2, <2>4
<1>16. ASSUME NEW i \in F \ dropped
       PROVE  \/ \E k \in 1 .. m : b[k] = i
              \/ m = world.batch /\ Sooner(rows, b[m], i)
  <2>1. PICK k \in 1 .. n : s[k] = i
    BY <1>1, <1>16
  <2>2. k > o
    BY <1>16, <2>1
  <2>3. CASE k <= m + o
    <3>1. k - o \in 1 .. m /\ (k - o) + o = k
      BY <1>1, <2>2, <2>3
    <3> QED
      BY <2>1, <3>1
  <2>4. CASE k > m + o
    <3>1. m = world.batch
      BY <1>1, <1>5, <2>4
    <3>2. m \in 1 .. m /\ m + o \in 1 .. n
      BY <1>4, <1>10, <3>1
    <3> QED
      BY <1>2, <2>1, <2>4, <3>1, <3>2
  <2> QED
    BY <1>1, <2>3, <2>4
<1> HIDE DEF dropped
<1>17. b \in Seq(F) /\ Len(b) = m
  BY DEF F
<1>18. Serves(b, c, dropped)
  BY <1>11, <1>12, <1>13, <1>14, <1>15, <1>16, <1>17 DEF Serves, F
<1> QED
  BY <1>18

LEMMA BatchServes ==
  ASSUME RowsTyped, NEW c, c = 0 \/ c \in Kept
  PROVE  \E dropped : Serves(Batch(c), c, dropped)
<1> DEFINE F == Found(c)
           n == Cardinality(F)
           s == Sorted(F)
           o == IF c # 0 /\ F # {} THEN 1 ELSE 0
           q == Skip(From(c), c)
           m == IF Len(q) < world.batch THEN Len(q) ELSE world.batch
<1>1. SortedList(s, F) /\ From(c) = s
  BY WhereIsKept, SortedIs, FromIs
<1>2. n \in Nat /\ s \in [1 .. n -> F] /\ \A x \in F : \E k \in 1 .. n : s[k] = x
  BY <1>1 DEF SortedList
<1> HIDE DEF F, n, s
<1>3. s \in Seq(F) /\ Len(s) = n
  BY <1>2
<1>4. s = <<>> <=> F = {}
  <2>1. F = {} => n = 0
    BY <1>2
  <2>2. n = 0 => F = {}
    BY <1>2
  <2> QED
    BY <1>2, <1>3, <2>1, <2>2
<1>5. q \in Seq(F) /\ Len(q) = n - o /\ \A k \in 1 .. n - o : q[k] = s[k + o]
  <2>1. CASE o = 1
    <3>1. q = Tail(s) /\ s # <<>>
      BY <1>1, <1>4, <2>1 DEF Skip
    <3> QED
      BY <1>2, <1>3, <2>1, <3>1
  <2>2. CASE o = 0
    <3>1. q = s
      BY <1>1, <1>4, <2>2 DEF Skip
    <3> QED
      BY <1>2, <1>3, <2>2, <3>1
  <2> QED
    BY <2>1, <2>2
<1>6. world.batch \in Nat \ {0} /\ o \in {0, 1}
  BY WorldIsTyped
<1>7. o = 1 <=> (c # 0 /\ F # {})
  OBVIOUS
<1> HIDE DEF q, o
<1>8. n - o \in Nat
  BY <1>5
<1>9. m \in Nat /\ m <= n - o /\ m <= world.batch /\ (m = n - o \/ m = world.batch)
  BY <1>5, <1>6, <1>8
<1>10. Batch(c) = SubSeq(q, 1, m)
  BY DEF Batch, q
<1> HIDE DEF m
<1>11. Batch(c) \in Seq(F) /\ Len(Batch(c)) = m /\ \A k \in 1 .. m : Batch(c)[k] = q[k]
  BY <1>5, <1>8, <1>9, <1>10
<1>12. \A k \in 1 .. m : Batch(c)[k] = s[k + o]
  BY <1>5, <1>8, <1>9, <1>11
<1> QED
  BY <1>1, <1>6, <1>7, <1>9, <1>11, <1>12, CutServes DEF F, n

-----------------------------------------------------------------------------
(***************************************************************************)
(* The home page while it is computed: a count is 0 or 1; what must be     *)
(* counted matches, and what matches may be; what was counted, and is      *)
(* kept, is not behind the cursor; and of what must be counted, only as    *)
(* many as were skipped are missing up to the cursor.                      *)
(***************************************************************************)
Ids(req) == {i \in DOMAIN req.counted : req.counted[i] > 0}
Missed(req, table) == {i \in req.steady \ Ids(req) : ~Sooner(table, req.cursor, i)}

RequestTyped(req, table, size) ==
  req \in [phase: {"streaming", "done"}, filter: {req.filter}, cursor: 0 .. Len(table),
           counted: [1 .. size -> {0, 1}],
           steady: SUBSET (1 .. Len(table)), ever: SUBSET (1 .. Len(table)),
           skipped: Nat, cut: BOOLEAN]

UpToCursor(req, table) ==
  req.cursor # 0 /\ table[req.cursor] # None =>
    /\ \A i \in Ids(req) : table[i] # None => ~Sooner(table, req.cursor, i)
    /\ Cardinality(Missed(req, table)) <= req.skipped

CountsSoFar(req, table, size) ==
  /\ RequestTyped(req, table, size)
  /\ req.steady \subseteq Matching(req.filter, table)
  /\ Matching(req.filter, table) \subseteq req.ever
  /\ Ids(req) \subseteq req.ever
  /\ req.cursor = 0 => Ids(req) = {}
  /\ UpToCursor(req, table)

CountsOnce(req) ==
  /\ \A i \in Ids(req) : req.counted[i] = 1
  /\ Ids(req) \subseteq req.ever
  /\ ~req.cut => Cardinality(req.steady \ Ids(req)) <= req.skipped

LEMMA PlacesAreFinite ==
  ASSUME RowsTyped, NEW S \in SUBSET (1 .. Len(rows))
  PROVE  IsFiniteSet(S) /\ Cardinality(S) \in Nat
<1>1. IsFiniteSet(1 .. Len(rows))
  BY FS_Interval DEF RowsTyped
<1> QED
  BY <1>1, FS_Subset, FS_CardinalityType

LEMMA OpenCounts ==
  ASSUME RowsTyped, NEW raw, Open(raw)
  PROVE  request'.phase = "streaming" /\ CountsSoFar(request', rows, world.sessions)
<1> DEFINE f == Normalized(raw)
<1>1. request' = [phase |-> "streaming", filter |-> f, cursor |-> 0,
                  counted |-> [i \in 1 .. world.sessions |-> 0],
                  steady |-> Matching(f, rows), ever |-> Matching(f, rows),
                  skipped |-> 0, cut |-> FALSE]
  BY DEF Open
<1> HIDE DEF f
<1>2. Matching(f, rows) \subseteq 1 .. Len(rows) /\ Len(rows) \in Nat
  BY DEF Matching, RowsTyped
<1>3. RequestTyped(request', rows, world.sessions)
  BY <1>1, <1>2 DEF RequestTyped
<1>4. Ids(request') = {}
  BY <1>1 DEF Ids
<1>5. UpToCursor(request', rows)
  BY <1>1 DEF UpToCursor
<1> QED
  BY <1>1, <1>3, <1>4, <1>5 DEF CountsSoFar

\* Changes of rows in between.
LEMMA WatchedCounts ==
  ASSUME RowsTyped, Changed, request.phase = "streaming",
         CountsSoFar(request, rows, world.sessions)
  PROVE  request'.phase = "streaming" /\ CountsSoFar(request', rows', world.sessions)
<1> DEFINE steady == {i \in request.steady : Matches(request.filter, rows'[i])}
           ever == request.ever \cup Matching(request.filter, rows')
           c == request.cursor
<1>1. request' = [request EXCEPT !.steady = steady, !.ever = ever]
  BY DEF Changed, Watched
<1>2. RequestTyped(request, rows, world.sessions)
  BY DEF CountsSoFar
<1>3. /\ Len(rows) \in Nat /\ Len(rows') \in Nat /\ Len(rows) <= Len(rows')
      /\ DOMAIN rows = 1 .. Len(rows) /\ DOMAIN rows' = 1 .. Len(rows')
  BY DEF Changed, RowsTyped, KeepsPlaces
<1>4. \A i \in 1 .. Len(rows) : rows'[i] # None => rows[i] # None /\ rows'[i].at = rows[i].at
  BY <1>3 DEF Changed, KeepsPlaces
<1>5. /\ steady \subseteq request.steady
      /\ \A i \in steady : Matches(request.filter, rows'[i]) /\ rows'[i] # None
  BY DEF Matches, Where
<1>6. request.ever \subseteq ever /\ Matching(request.filter, rows') \subseteq ever
      /\ Matching(request.filter, rows') \subseteq 1 .. Len(rows')
  BY <1>3 DEF Matching
<1> HIDE DEF steady, ever
<1>7. /\ request'.phase = request.phase /\ request'.filter = request.filter
      /\ request'.cursor = c /\ request'.counted = request.counted
      /\ request'.steady = steady /\ request'.ever = ever
      /\ request'.skipped = request.skipped /\ request'.cut = request.cut
      /\ request' = [phase |-> request'.phase, filter |-> request'.filter,
                     cursor |-> request'.cursor, counted |-> request'.counted,
                     steady |-> request'.steady, ever |-> request'.ever,
                     skipped |-> request'.skipped, cut |-> request'.cut]
  BY <1>1, <1>2 DEF RequestTyped
<1>8. /\ request.phase \in {"streaming", "done"} /\ c \in 0 .. Len(rows)
      /\ request.counted \in [1 .. world.sessions -> {0, 1}]
      /\ request.steady \subseteq 1 .. Len(rows) /\ request.ever \subseteq 1 .. Len(rows)
      /\ request.skipped \in Nat /\ request.cut \in BOOLEAN
  BY <1>2 DEF RequestTyped
<1>9. steady \subseteq 1 .. Len(rows') /\ ever \subseteq 1 .. Len(rows')
  BY <1>3, <1>5, <1>6, <1>8 DEF ever
<1>10. RequestTyped(request', rows', world.sessions)
  <2>1. c \in 0 .. Len(rows')
    BY <1>3, <1>8
  <2> QED
    BY <1>7, <1>8, <1>9, <2>1 DEF RequestTyped
<1>11. Ids(request') = Ids(request)
  BY <1>7 DEF Ids
<1>12. Ids(request) \subseteq request.ever /\ request.steady \subseteq Matching(request.filter, rows)
       /\ (c = 0 => Ids(request) = {}) /\ UpToCursor(request, rows)
  BY DEF CountsSoFar
<1>13. steady \subseteq Matching(request.filter, rows')
  BY <1>3, <1>5, <1>9 DEF Matching
<1>14. UpToCursor(request', rows')
  <2> SUFFICES ASSUME c # 0, rows'[c] # None
               PROVE  /\ \A i \in Ids(request) : rows'[i] # None => ~Sooner(rows', c, i)
                      /\ Cardinality(Missed(request', rows')) <= request.skipped
    BY <1>7, <1>11 DEF UpToCursor
  <2>1. c \in 1 .. Len(rows) /\ rows[c] # None /\ rows'[c].at = rows[c].at
    BY <1>4, <1>8
  <2>2. \A i \in 1 .. Len(rows) :
          rows'[i] # None => rows[i] # None /\ (Sooner(rows', c, i) <=> Sooner(rows, c, i))
    BY <1>4, <2>1 DEF Sooner
  <2>3. \A i \in Ids(request) : rows'[i] # None => ~Sooner(rows', c, i)
    BY <1>8, <1>12, <2>1, <2>2 DEF UpToCursor
  <2>4. Missed(request', rows') \subseteq Missed(request, rows)
    BY <1>5, <1>7, <1>8, <1>11, <2>2 DEF Missed
  <2>5. Missed(request, rows) \subseteq 1 .. Len(rows)
    BY <1>8 DEF Missed
  <2>6. Cardinality(Missed(request', rows')) <= Cardinality(Missed(request, rows))
    BY <2>4, <2>5, PlacesAreFinite, FS_Subset
  <2>7. Cardinality(Missed(request, rows)) <= request.skipped
    BY <1>12, <2>1 DEF UpToCursor
  <2>8. Cardinality(Missed(request', rows')) \in Nat /\ Cardinality(Missed(request, rows)) \in Nat
    BY <2>4, <2>5, PlacesAreFinite
  <2> QED
    BY <1>8, <2>3, <2>6, <2>7, <2>8
<1> QED
  BY <1>6, <1>7, <1>10, <1>11, <1>12, <1>13, <1>14 DEF CountsSoFar

\* Which massages a batch counts.
CountedIn(b) == {i \in Found(request.cursor) :
               /\ \E k \in 1 .. Len(b) : b[k] = i
               /\ inPeriodWindow(request.filter.window, rows[i].at)}

\* What is counted with the batch b, from the place of the cursor on.
LEMMA BatchCounts ==
  ASSUME RowsTyped, CountsSoFar(request, rows, world.sessions),
         NEW c, c = request.cursor, c = 0 \/ c \in Kept,
         NEW b, NEW dropped, Serves(b, c, dropped),
         NEW counted, counted = [i \in 1 .. world.sessions |->
                                   request.counted[i] + Cardinality(Absorbed(b, i))]
  PROVE  /\ counted \in [1 .. world.sessions -> {0, 1}]
         /\ {i \in 1 .. world.sessions : counted[i] > 0} = Ids(request) \cup CountedIn(b)
         /\ CountedIn(b) \subseteq Matching(request.filter, rows)
<1> DEFINE T == CountedIn(b)
<1>1. /\ b \in Seq(Found(c)) /\ Len(b) \in Nat
      /\ \A j, k \in 1 .. Len(b) : b[j] = b[k] => j = k
      /\ \A k \in 1 .. Len(b) : b[k] \in Found(c)
  BY DEF Serves
<1>2. ASSUME NEW i \in T PROVE Cardinality(Absorbed(b, i)) = 1
  <2>1. PICK k \in 1 .. Len(b) : b[k] = i
    BY <1>2 DEF CountedIn
  <2>2. Absorbed(b, i) = {k}
    BY <1>1, <1>2, <2>1 DEF CountedIn, Absorbed
  <2> QED
    BY <2>2, FS_Singleton
<1>3. ASSUME NEW i, i \notin T PROVE Cardinality(Absorbed(b, i)) = 0
  <2>1. Absorbed(b, i) = {}
    BY <1>1, <1>3 DEF CountedIn, Absorbed
  <2> QED
    BY <2>1, FS_EmptySet
<1>4. /\ request.counted \in [1 .. world.sessions -> {0, 1}]
      /\ c = 0 => Ids(request) = {}
      /\ UpToCursor(request, rows)
  BY DEF CountsSoFar, RequestTyped
<1>5. ASSUME NEW i \in T PROVE i \in 1 .. world.sessions /\ i \in Matching(request.filter, rows)
  <2>1. i \in Found(c) /\ i \in DOMAIN rows /\ Matches(request.filter, rows[i])
    BY <1>5 DEF CountedIn, Found, Matches
  <2> QED
    BY <2>1, WorldIsTyped DEF Matching, RowsTyped
<1>6. ASSUME NEW i \in T PROVE i \notin Ids(request)
  <2>1. PICK k \in 1 .. Len(b) : b[k] = i
    BY <1>6 DEF CountedIn
  <2>2. i \in Kept
    BY <1>6, WhereIsKept DEF CountedIn
  <2>3. SUFFICES ASSUME i \in Ids(request) PROVE FALSE
    OBVIOUS
  <2>4. c # 0 /\ c \in Kept /\ rows[c] # None /\ rows[i] # None
    BY <1>4, <2>2, <2>3 DEF Kept
  <2>5. Sooner(rows, c, i)
    BY <2>1, <2>4 DEF Serves
  <2>6. ~Sooner(rows, c, i)
    BY <1>4, <2>3, <2>4 DEF UpToCursor
  <2> QED
    BY <2>5, <2>6
<1>7. /\ DOMAIN counted = 1 .. world.sessions
      /\ \A i \in 1 .. world.sessions : counted[i] = request.counted[i] + Cardinality(Absorbed(b, i))
  OBVIOUS
<1> HIDE DEF T
<1>8. ASSUME NEW i \in 1 .. world.sessions
      PROVE  /\ i \in T => counted[i] = 1
             /\ i \notin T => counted[i] = request.counted[i]
             /\ i \in Ids(request) <=> request.counted[i] = 1
             /\ request.counted[i] \in {0, 1}
  <2>1. request.counted[i] \in {0, 1} /\ (i \in Ids(request) <=> request.counted[i] > 0)
    BY <1>4 DEF Ids
  <2>2. i \in Ids(request) <=> request.counted[i] = 1
    BY <2>1
  <2>3. ASSUME i \in T PROVE counted[i] = 1
    BY <1>2, <1>6, <1>7, <2>1, <2>2, <2>3
  <2>4. ASSUME i \notin T PROVE counted[i] = request.counted[i]
    BY <1>3, <1>7, <2>1, <2>4
  <2> QED
    BY <2>1, <2>2, <2>3, <2>4
<1>9. counted \in [1 .. world.sessions -> {0, 1}]
  <2>1. \A i \in 1 .. world.sessions : counted[i] \in {0, 1}
    BY <1>8
  <2>2. counted = [i \in 1 .. world.sessions |-> counted[i]]
    OBVIOUS
  <2> QED
    BY <2>1, <2>2
<1>10. Ids(request) \subseteq 1 .. world.sessions
  BY <1>4 DEF Ids
<1>11. T \subseteq 1 .. world.sessions /\ T \subseteq Matching(request.filter, rows)
  BY <1>5
<1>12. \A i \in 1 .. world.sessions : counted[i] > 0 <=> i \in Ids(request) \cup T
  BY <1>8
<1>13. {i \in 1 .. world.sessions : counted[i] > 0} = Ids(request) \cup T
  BY <1>10, <1>11, <1>12
<1> QED
  BY <1>9, <1>11, <1>13 DEF T

\* How many are missing once the batch is counted.
LEMMA BatchLeaves ==
  ASSUME RowsTyped, CountsSoFar(request, rows, world.sessions),
         NEW c, c = request.cursor, c = 0 \/ c \in Kept,
         NEW b, NEW dropped, Serves(b, c, dropped),
         NEW left \in SUBSET (request.steady \ (Ids(request) \cup CountedIn(b))),
         \A i \in left : Len(b) = world.batch => ~Sooner(rows, b[Len(b)], i)
  PROVE  /\ Cardinality(left) \in Nat
         /\ Cardinality(left) <= request.skipped + 1
         /\ c = 0 \/ Where(request.filter, rows[c]) => Cardinality(left) <= request.skipped
<1> DEFINE before == Missed(request, rows)
<1>1. /\ request.steady \subseteq 1 .. Len(rows) /\ request.skipped \in Nat
      /\ request.steady \subseteq Matching(request.filter, rows)
      /\ UpToCursor(request, rows)
  BY DEF CountsSoFar, RequestTyped
<1>2. IsFiniteSet(left) /\ Cardinality(left) \in Nat
  BY <1>1, PlacesAreFinite
<1>3. ASSUME NEW i \in left
      PROVE  i \in dropped \/ (c # 0 /\ i \in before)
  <2>1. /\ i \in request.steady /\ i \notin Ids(request) /\ i \notin CountedIn(b)
        /\ i \in DOMAIN rows /\ i \in Kept
        /\ Where(request.filter, rows[i]) /\ inPeriodWindow(request.filter.window, rows[i].at)
    BY <1>1, <1>3 DEF Matching, Matches, Where, Kept
  <2>2. CASE c # 0 /\ ~Sooner(rows, c, i)
    BY <2>1, <2>2 DEF Missed
  <2>3. CASE c = 0 \/ Sooner(rows, c, i)
    <3>1. c = 0 \/ ~Sooner(rows, i, c)
      BY <2>1, <2>3, SoonerOrders
    <3>2. i \in Found(c)
      BY <2>1, <3>1 DEF Found
    <3>3. ~ \E k \in 1 .. Len(b) : b[k] = i
      BY <2>1, <3>2 DEF CountedIn
    <3>4. i \in dropped \/ (Len(b) = world.batch /\ Sooner(rows, b[Len(b)], i))
      BY <3>2, <3>3 DEF Serves
    <3> QED
      BY <1>3, <3>4
  <2> QED
    BY <2>2, <2>3
<1>4. /\ IsFiniteSet(before) /\ Cardinality(before) \in Nat
      /\ c # 0 => Cardinality(before) <= request.skipped
  <2>1. before \subseteq 1 .. Len(rows)
    BY <1>1 DEF Missed
  <2>2. c # 0 => Cardinality(before) <= request.skipped
    BY <1>1 DEF UpToCursor, Kept
  <2> QED
    BY <2>1, <2>2, PlacesAreFinite
<1>5. CASE c = 0
  <2>1. left = {}
    BY <1>3, <1>5 DEF Serves
  <2> QED
    BY <1>1, <1>5, <2>1, FS_EmptySet
<1>6. CASE c # 0 /\ Where(request.filter, rows[c])
  <2>1. ASSUME NEW i \in left PROVE i \in before
    <3>1. CASE i \in dropped
      <4>1. i = c /\ c \in Kept
        BY <1>6, <3>1 DEF Serves
      <4>2. ~Sooner(rows, c, i)
        BY <4>1, SoonerOrders
      <4> QED
        BY <2>1, <4>2 DEF Missed
    <3> QED
      BY <1>3, <3>1
  <2>2. Cardinality(left) <= Cardinality(before)
    BY <1>4, <2>1, FS_Subset
  <2> QED
    BY <1>1, <1>2, <1>4, <1>6, <2>2
<1>7. CASE c # 0 /\ ~Where(request.filter, rows[c])
  <2>1. \E d : dropped \subseteq {d}
    BY DEF Serves
  <2>2. PICK d : dropped \subseteq {d}
    BY <2>1
  <2>3. left \subseteq before \cup {d}
    BY <1>3, <2>2
  <2> HIDE DEF before
  <2>4. /\ IsFiniteSet(before \cup {d})
        /\ Cardinality(before \cup {d}) = IF d \in before THEN Cardinality(before) ELSE Cardinality(before) + 1
    BY <1>4, FS_AddElement
  <2>5. Cardinality(left) <= Cardinality(before \cup {d})
    BY <2>3, <2>4, FS_Subset
  <2> QED
    BY <1>1, <1>2, <1>4, <1>7, <2>4, <2>5
<1> QED
  BY <1>5, <1>6, <1>7

\* The request after the batch b, read at the cursor c.
After(b, c) ==
  [request EXCEPT
     !.phase = IF Len(b) < world.batch THEN "done" ELSE @,
     !.cursor = IF b = <<>> THEN @ ELSE b[Len(b)],
     !.counted = [i \in DOMAIN @ |-> @[i] + Cardinality(Absorbed(b, i))],
     !.skipped = IF c # 0 /\ rows[c] # None /\ ~Where(request.filter, rows[c]) THEN @ + 1 ELSE @,
     !.cut = @ \/ (c # 0 /\ rows[c] = None)]

LEMMA AfterIs ==
  ASSUME NextBatch
  PROVE  request' = After(Batch(request.cursor), request.cursor)
BY DEF NextBatch, After

\* The fields of a request are those that the actions write.
LEMMA AfterFields ==
  ASSUME RequestTyped(request, rows, world.sessions), NEW b, NEW c, c = request.cursor,
         NEW r, r = After(b, c)
  PROVE  /\ r.phase = IF Len(b) < world.batch THEN "done" ELSE request.phase
         /\ r.filter = request.filter
         /\ r.cursor = IF b = <<>> THEN c ELSE b[Len(b)]
         /\ r.counted = [i \in 1 .. world.sessions |->
                           request.counted[i] + Cardinality(Absorbed(b, i))]
         /\ r.steady = request.steady
         /\ r.ever = request.ever
         /\ r.skipped = IF c # 0 /\ rows[c] # None /\ ~Where(request.filter, rows[c])
                        THEN request.skipped + 1 ELSE request.skipped
         /\ r.cut = (request.cut \/ (c # 0 /\ rows[c] = None))
         /\ r = [phase |-> r.phase, filter |-> r.filter, cursor |-> r.cursor,
                 counted |-> r.counted, steady |-> r.steady, ever |-> r.ever,
                 skipped |-> r.skipped, cut |-> r.cut]
<1> DEFINE phase == IF Len(b) < world.batch THEN "done" ELSE request.phase
           cursor == IF b = <<>> THEN request.cursor ELSE b[Len(b)]
           counted == [i \in DOMAIN request.counted |->
                         request.counted[i] + Cardinality(Absorbed(b, i))]
           skipped == IF c # 0 /\ rows[c] # None /\ ~Where(request.filter, rows[c])
                      THEN request.skipped + 1 ELSE request.skipped
           cut == request.cut \/ (c # 0 /\ rows[c] = None)
<1>1. r = [request EXCEPT !.phase = phase, !.cursor = cursor, !.counted = counted,
                          !.skipped = skipped, !.cut = cut]
  BY DEF After
<1>2. DOMAIN request.counted = 1 .. world.sessions
  BY DEF RequestTyped
<1> HIDE DEF phase, cursor, counted, skipped, cut
<1>3. /\ r.phase = phase /\ r.filter = request.filter /\ r.cursor = cursor
      /\ r.counted = counted /\ r.steady = request.steady /\ r.ever = request.ever
      /\ r.skipped = skipped /\ r.cut = cut
      /\ r = [phase |-> r.phase, filter |-> r.filter, cursor |-> r.cursor,
              counted |-> r.counted, steady |-> r.steady, ever |-> r.ever,
              skipped |-> r.skipped, cut |-> r.cut]
  BY <1>1 DEF RequestTyped
<1> QED
  BY <1>2, <1>3 DEF phase, cursor, counted, skipped, cut

\* The row of the cursor is gone: nothing more is read.
LEMMA CutEnds ==
  ASSUME RowsTyped, CountsSoFar(request, rows, world.sessions), NextBatch,
         request.cursor # 0, request.cursor \notin Kept
  PROVE  request'.phase = "done" /\ CountsOnce(request')
<1> DEFINE c == request.cursor
           b == Batch(c)
<1>1. RequestTyped(request, rows, world.sessions)
  BY DEF CountsSoFar
<1>2. rows[c] = None
  <2>1. c \in 0 .. Len(rows)
    BY <1>1 DEF RequestTyped
  <2>2. c \in DOMAIN rows
    BY <2>1 DEF RowsTyped
  <2> QED
    BY <2>2 DEF Kept
<1>3. Skip(From(c), c) = <<>>
  BY <1>2 DEF From, Skip
<1>4. b = <<>> /\ Len(b) = 0
  BY <1>3, WorldIsTyped DEF Batch
<1> HIDE DEF b
<1>5. request' = After(b, c)
  BY AfterIs DEF b
<1>6. \A i : Cardinality(Absorbed(b, i)) = 0
  <2>1. \A i : Absorbed(b, i) = {}
    BY <1>4 DEF Absorbed
  <2> QED
    BY <2>1, FS_EmptySet
<1>7. request.counted \in [1 .. world.sessions -> {0, 1}]
  BY <1>1 DEF RequestTyped
<1>8. /\ request'.phase = IF Len(b) < world.batch THEN "done" ELSE request.phase
      /\ request'.counted = [i \in 1 .. world.sessions |->
                               request.counted[i] + Cardinality(Absorbed(b, i))]
      /\ request'.ever = request.ever
      /\ request'.cut = (request.cut \/ (c # 0 /\ rows[c] = None))
  BY <1>1, <1>5, AfterFields
<1>9. request'.phase = "done" /\ request'.cut = TRUE
  <2>1. request'.phase = "done"
    BY <1>4, <1>8, WorldIsTyped
  <2>2. request'.cut = TRUE
    BY <1>2, <1>8, Zenon
  <2> QED
    BY <2>1, <2>2
<1>10. request'.counted = request.counted
  <2>1. ASSUME NEW i \in 1 .. world.sessions
        PROVE  request.counted[i] + Cardinality(Absorbed(b, i)) = request.counted[i]
    <3>1. request.counted[i] \in {0, 1} /\ Cardinality(Absorbed(b, i)) = 0
      BY <1>6, <1>7
    <3> QED
      BY <3>1
  <2> QED
    BY <1>7, <1>8, <2>1
<1>11. ASSUME NEW i \in Ids(request) PROVE request.counted[i] = 1
  <2>1. i \in 1 .. world.sessions /\ request.counted[i] > 0
    BY <1>7 DEF Ids
  <2>2. request.counted[i] \in {0, 1}
    BY <1>7, <2>1
  <2> QED
    BY <2>1, <2>2
<1>12. Ids(request') = Ids(request) /\ Ids(request) \subseteq request.ever
  BY <1>10 DEF Ids, CountsSoFar
<1> QED
  BY <1>8, <1>9, <1>10, <1>11, <1>12 DEF CountsOnce

LEMMA BatchStep ==
  ASSUME RowsTyped, CountsSoFar(request, rows, world.sessions), NextBatch,
         request.phase = "streaming", request.cursor = 0 \/ request.cursor \in Kept
  PROVE  /\ request'.phase \in {"streaming", "done"}
         /\ request'.phase = "streaming" => CountsSoFar(request', rows, world.sessions)
         /\ request'.phase = "done" => CountsOnce(request')
<1> DEFINE c == request.cursor
           b == Batch(c)
<1>1. PICK dropped : Serves(b, c, dropped)
  BY BatchServes
<1> HIDE DEF b
<1>2. /\ RequestTyped(request, rows, world.sessions)
      /\ request.steady \subseteq Matching(request.filter, rows)
      /\ Matching(request.filter, rows) \subseteq request.ever
      /\ Ids(request) \subseteq request.ever
      /\ c = 0 => Ids(request) = {}
      /\ UpToCursor(request, rows)
  BY DEF CountsSoFar
<1>3. /\ b \in Seq(Found(c)) /\ Len(b) \in Nat /\ world.batch \in Nat \ {0}
      /\ \A k \in 1 .. Len(b) : b[k] \in Found(c) /\ b[k] \in Kept /\ b[k] \in 1 .. Len(rows)
  <2>1. b \in Seq(Found(c)) /\ Len(b) \in Nat
    BY <1>1 DEF Serves
  <2> QED
    BY <2>1, WhereIsKept, RowIsTyped, WorldIsTyped
<1>4. request' = After(b, c)
  BY AfterIs DEF b
<1>5. /\ request'.phase = IF Len(b) < world.batch THEN "done" ELSE request.phase
      /\ request'.filter = request.filter
      /\ request'.cursor = IF b = <<>> THEN c ELSE b[Len(b)]
      /\ request'.counted = [i \in 1 .. world.sessions |->
                               request.counted[i] + Cardinality(Absorbed(b, i))]
      /\ request'.steady = request.steady
      /\ request'.ever = request.ever
      /\ request'.skipped = IF c # 0 /\ rows[c] # None /\ ~Where(request.filter, rows[c])
                            THEN request.skipped + 1 ELSE request.skipped
      /\ request'.cut = (request.cut \/ (c # 0 /\ rows[c] = None))
      /\ request' =
           [phase |-> request'.phase, filter |-> request'.filter,
            cursor |-> request'.cursor, counted |-> request'.counted,
            steady |-> request'.steady, ever |-> request'.ever,
            skipped |-> request'.skipped, cut |-> request'.cut]
  BY <1>2, <1>4, AfterFields
<1>6. /\ request'.counted \in [1 .. world.sessions -> {0, 1}]
      /\ {i \in 1 .. world.sessions : request'.counted[i] > 0} = Ids(request) \cup CountedIn(b)
      /\ CountedIn(b) \subseteq Matching(request.filter, rows)
  BY <1>1, <1>5, BatchCounts
<1>7. Ids(request') = Ids(request) \cup CountedIn(b)
  BY <1>6 DEF Ids
<1>8. Ids(request') \subseteq request.ever
  BY <1>2, <1>6, <1>7
<1>9. ASSUME NEW left \in SUBSET (request.steady \ Ids(request')),
             \A i \in left : Len(b) = world.batch => ~Sooner(rows, b[Len(b)], i)
      PROVE  Cardinality(left) <= request'.skipped
  <2>1. /\ Cardinality(left) \in Nat
        /\ Cardinality(left) <= request.skipped + 1
        /\ c = 0 \/ Where(request.filter, rows[c]) => Cardinality(left) <= request.skipped
    BY <1>1, <1>7, <1>9, BatchLeaves
  <2>2. c # 0 => rows[c] # None
    BY DEF Kept
  <2> QED
    BY <1>5, <2>1, <2>2
<1>10. ASSUME request'.phase = "done" PROVE CountsOnce(request')
  <2>1. Len(b) < world.batch
    BY <1>5, <1>10
  <2>2. Cardinality(request.steady \ Ids(request')) <= request'.skipped
    BY <1>3, <1>9, <2>1
  <2>3. ASSUME NEW i \in Ids(request') PROVE request'.counted[i] = 1
    <3>1. i \in 1 .. world.sessions /\ request'.counted[i] > 0
      BY <1>6, <2>3 DEF Ids
    <3>2. request'.counted[i] \in {0, 1}
      BY <1>6, <3>1
    <3> QED
      BY <3>1, <3>2
  <2> QED
    BY <1>5, <1>8, <2>2, <2>3 DEF CountsOnce
<1>11. ASSUME request'.phase = "streaming" PROVE CountsSoFar(request', rows, world.sessions)
  <2> DEFINE e == b[Len(b)]
  <2>1. Len(b) = world.batch /\ Len(b) \in 1 .. Len(b)
    BY <1>1, <1>3, <1>5, <1>11 DEF Serves
  <2>2. /\ request'.cursor = e /\ e \in Found(c) /\ e \in Kept /\ e \in 1 .. Len(rows)
        /\ c # 0 => Sooner(rows, c, e)
    <3>1. b # <<>>
      BY <1>3, <2>1
    <3> QED
      BY <1>1, <1>3, <1>5, <2>1, <3>1 DEF Serves
  <2>3. RequestTyped(request', rows, world.sessions)
    <3>1. /\ request'.steady \subseteq 1 .. Len(rows) /\ request'.ever \subseteq 1 .. Len(rows)
          /\ request'.skipped \in Nat /\ request'.cut \in BOOLEAN
      BY <1>2, <1>5 DEF RequestTyped
    <3>2. request'.cursor \in 0 .. Len(rows)
      BY <2>2
    <3> QED
      BY <1>5, <1>6, <1>11, <3>1, <3>2 DEF RequestTyped
  <2>4. ASSUME NEW i \in Ids(request'), rows[i] # None PROVE ~Sooner(rows, e, i)
    <3>1. CASE i \in CountedIn(b)
      <4>1. PICK k \in 1 .. Len(b) : b[k] = i
        BY <3>1 DEF CountedIn
      <4> QED
        BY <1>1, <4>1 DEF Serves
    <3>2. CASE i \in Ids(request)
      <4>1. c # 0 /\ c \in Kept
        BY <1>2, <3>2
      <4>2. ~Sooner(rows, c, i)
        BY <1>2, <2>4, <3>2, <4>1 DEF UpToCursor, Kept
      <4>3. i \in Kept
        BY <1>2, <2>4, <3>2 DEF Kept, RequestTyped, RowsTyped
      <4> QED
        BY <2>2, <4>1, <4>2, <4>3, SoonerOrders
    <3> QED
      BY <1>7, <3>1, <3>2
  <2>5. Cardinality(Missed(request', rows)) <= request'.skipped
    <3>1. Missed(request', rows) \subseteq request.steady \ Ids(request')
      BY <1>5 DEF Missed
    <3>2. \A i \in Missed(request', rows) : ~Sooner(rows, e, i)
      BY <2>2 DEF Missed
    <3> QED
      BY <1>9, <3>1, <3>2
  <2>6. UpToCursor(request', rows)
    BY <2>2, <2>4, <2>5 DEF UpToCursor
  <2>7. request'.cursor # 0
    BY <2>2
  <2> QED
    BY <1>2, <1>5, <1>8, <2>3, <2>6, <2>7 DEF CountsSoFar
<1> QED
  BY <1>5, <1>10, <1>11

CountInv ==
  /\ request.phase \in {"idle", "streaming", "done"}
  /\ request.phase = "streaming" => CountsSoFar(request, rows, world.sessions)
  /\ request.phase = "done" => CountsOnce(request)

LEMMA StepCounts ==
  ASSUME FiguresInv, CountInv, [Next]_vars
  PROVE  CountInv'
<1>1. RowsTyped
  BY DEF FiguresInv
<1>2. CASE Changed
  <2>1. CASE request.phase = "streaming"
    BY <1>1, <1>2, <2>1, WatchedCounts DEF CountInv, Changed
  <2>2. CASE request.phase # "streaming"
    BY <1>2, <2>2 DEF Changed, Watched, CountInv
  <2> QED
    BY <2>1, <2>2
<1>3. CASE Leaves /\ UNCHANGED request
  BY <1>3 DEF Leaves, CountInv
<1>4. CASE Leaves /\ \E raw \in world.filters : Open(raw)
  BY <1>1, <1>4, OpenCounts DEF Leaves, CountInv
<1>5. CASE Leaves /\ NextBatch
  <2>1. request.phase = "streaming" /\ CountsSoFar(request, rows, world.sessions)
    BY <1>5 DEF NextBatch, CountInv
  <2>2. CASE request.cursor = 0 \/ request.cursor \in Kept
    BY <1>1, <1>5, <2>1, <2>2, BatchStep DEF Leaves, CountInv
  <2>3. CASE request.cursor # 0 /\ request.cursor \notin Kept
    BY <1>1, <1>5, <2>1, <2>3, CutEnds DEF Leaves, CountInv
  <2> QED
    BY <2>2, <2>3
<1> QED
  BY <1>2, <1>3, <1>4, <1>5, StepKinds, FiguresTypedInv

-----------------------------------------------------------------------------
(***************************************************************************)
(* Sums.  A fold adds up the members of a set in the order in which CHOOSE *)
(* picks them; g is the function that the fold unfolds to.  It exists for  *)
(* a finite set, and the order makes no difference.                        *)
(***************************************************************************)
Pick(s) == CHOOSE x \in s : TRUE
Value(f, g, s) == IF s = {} THEN 0 ELSE f[Pick(s)] + g[s \ {Pick(s)}]
Unfolds(g, f, S) == g = [s \in SUBSET S |-> Value(f, g, s)]
Sums(f, S) == CHOOSE g : Unfolds(g, f, S)

LEMMA Smaller ==
  ASSUME NEW S, IsFiniteSet(S), NEW s \in SUBSET S, s # {}
  PROVE  /\ Pick(s) \in s /\ s \ {Pick(s)} \in SUBSET S
         /\ Cardinality(s) \in Nat /\ Cardinality(s) > 0
         /\ Cardinality(s \ {Pick(s)}) = Cardinality(s) - 1
<1>1. Pick(s) \in s
  BY DEF Pick
<1>2. IsFiniteSet(s)
  BY FS_Subset
<1> QED
  BY <1>1, <1>2, FS_CardinalityType, FS_RemoveElement, FS_EmptySet

\* g adds up f over the sets of at most n members.
UpTo(g, f, S, n) ==
  \A s \in SUBSET S : Cardinality(s) <= n => g[s] = Value(f, g, s)

LEMMA UpToGrows ==
  ASSUME NEW S, IsFiniteSet(S), NEW f \in [S -> Int], NEW n \in Nat, n # 0,
         NEW g \in [SUBSET S -> Int], UpTo(g, f, S, n - 1)
  PROVE  \E k \in [SUBSET S -> Int] : UpTo(k, f, S, n)
<1> DEFINE k == [s \in SUBSET S |-> Value(f, g, s)]
<1>1. k \in [SUBSET S -> Int]
  <2>1. ASSUME NEW s \in SUBSET S PROVE Value(f, g, s) \in Int
    <3>1. CASE s = {}
      BY <3>1 DEF Value
    <3>2. CASE s # {}
      <4> DEFINE x == Pick(s)
      <4>1. x \in S /\ s \ {x} \in SUBSET S
        BY <3>2, Smaller
      <4>2. f[x] \in Int /\ g[s \ {x}] \in Int
        BY <4>1
      <4> QED
        BY <3>2, <4>2 DEF Value
    <3> QED
      BY <3>1, <3>2
  <2> QED
    BY <2>1
<1>2. ASSUME NEW s \in SUBSET S, Cardinality(s) <= n PROVE k[s] = Value(f, k, s)
  <2>1. k[s] = Value(f, g, s)
    OBVIOUS
  <2>2. CASE s = {}
    BY <2>1, <2>2 DEF Value
  <2>3. CASE s # {}
    <3> DEFINE u == s \ {Pick(s)}
    <3>1. u \in SUBSET S /\ Cardinality(u) <= n - 1
      BY <1>2, <2>3, Smaller
    <3>2. g[u] = Value(f, g, u)
      BY <3>1 DEF UpTo
    <3>3. k[u] = Value(f, g, u)
      BY <3>1
    <3> QED
      BY <2>1, <2>3, <3>2, <3>3 DEF Value
  <2> QED
    BY <2>2, <2>3
<1> HIDE DEF k
<1>3. UpTo(k, f, S, n)
  BY <1>2 DEF UpTo
<1> QED
  BY <1>1, <1>3

LEMMA SumsExist ==
  ASSUME NEW S, IsFiniteSet(S), NEW f \in [S -> Int]
  PROVE  \E g \in [SUBSET S -> Int] : Unfolds(g, f, S)
<1> DEFINE Reached(n) == \E g \in [SUBSET S -> Int] : UpTo(g, f, S, n)
           Unreached == {n \in Nat : ~Reached(n)}
<1>1. Reached(0)
  <2> DEFINE g == [s \in SUBSET S |-> 0]
  <2>1. ASSUME NEW s \in SUBSET S, Cardinality(s) <= 0 PROVE g[s] = Value(f, g, s)
    <3>1. CASE s = {}
      BY <3>1 DEF Value
    <3>2. CASE s # {}
      <4>1. Cardinality(s) > 0 /\ Cardinality(s) \in Nat
        BY <3>2, Smaller
      <4> QED
        BY <2>1, <4>1
    <3> QED
      BY <3>1, <3>2
  <2>2. g \in [SUBSET S -> Int]
    OBVIOUS
  <2> HIDE DEF g
  <2>3. UpTo(g, f, S, 0)
    BY <2>1 DEF UpTo
  <2> QED
    BY <2>2, <2>3
<1>2. ASSUME NEW n \in Nat, n # 0, Reached(n - 1) PROVE Reached(n)
  BY <1>2, UpToGrows
<1> HIDE DEF Reached
<1>3. Unreached = {}
  <2>1. SUFFICES ASSUME Unreached # {} PROVE FALSE
    OBVIOUS
  <2>2. PICK n \in Unreached : \A m \in Unreached : n <= m
    BY <2>1, LeastNumber
  <2>3. n # 0 /\ n \in Nat /\ ~Reached(n)
    BY <1>1
  <2>4. n - 1 \in Nat /\ n - 1 \notin Unreached
    BY <2>2, <2>3
  <2> QED
    BY <1>2, <2>3, <2>4
<1>4. Cardinality(S) \in Nat
  BY FS_CardinalityType
<1>5. Reached(Cardinality(S))
  BY <1>3, <1>4
<1>6. PICK g \in [SUBSET S -> Int] : UpTo(g, f, S, Cardinality(S))
  BY <1>5 DEF Reached
<1>7. ASSUME NEW s \in SUBSET S PROVE g[s] = Value(f, g, s)
  <2>1. Cardinality(s) <= Cardinality(S)
    BY FS_Subset
  <2> QED
    BY <1>6, <2>1 DEF UpTo
<1>8. g = [s \in SUBSET S |-> Value(f, g, s)]
  BY <1>7
<1> QED
  BY <1>8 DEF Unfolds

\* g is the sum of f over each part of S, whichever member is added last.
Adds(g, f, S) ==
  /\ g \in [SUBSET S -> Int]
  /\ g[{}] = 0
  /\ \A s \in SUBSET S : \A t \in s : g[s] = f[t] + g[s \ {t}]

LEMMA AnyOrder ==
  ASSUME NEW S, IsFiniteSet(S), NEW f \in [S -> Int],
         NEW g \in [SUBSET S -> Int], Unfolds(g, f, S)
  PROVE  Adds(g, f, S)
<1> DEFINE Right(s) == \A t \in s : g[s] = f[t] + g[s \ {t}]
           Wrong == {s \in SUBSET S : ~Right(s)}
           Sizes == {Cardinality(s) : s \in Wrong}
<1>1. ASSUME NEW s \in SUBSET S PROVE g[s] = Value(f, g, s)
  BY DEF Unfolds
<1>2. ASSUME Wrong # {} PROVE FALSE
  <2>1. \A s \in SUBSET S : Cardinality(s) \in Nat
    BY FS_Subset, FS_CardinalityType
  <2>2. Sizes \in SUBSET Nat /\ Sizes # {}
    BY <1>2, <2>1
  <2>3. PICK n \in Sizes : \A m \in Sizes : n <= m
    <3> HIDE DEF Sizes
    <3> QED
      BY <2>2, LeastNumber
  <2>4. PICK s \in Wrong : Cardinality(s) = n
    BY <2>3
  <2>5. PICK t \in s : g[s] # f[t] + g[s \ {t}]
    BY <2>4
  <2> DEFINE x == Pick(s)
             u == s \ {x}
  <2>6. s \in SUBSET S /\ s # {} /\ t \in S
    BY <2>4, <2>5
  <2>7. x \in s /\ u \in SUBSET S /\ Cardinality(u) = n - 1 /\ n \in Nat
    BY <2>4, <2>6, Smaller
  <2>8. g[s] = f[x] + g[u]
    BY <1>1, <2>6 DEF Value
  <2>9. u \notin Wrong
    <3>1. u \in Wrong => Cardinality(u) \in Sizes
      OBVIOUS
    <3> HIDE DEF Wrong, Sizes, u
    <3> QED
      BY <2>3, <2>7, <3>1
  <2>10. x # t
    BY <2>5, <2>8
  <2>11. t \in u /\ g[u] = f[t] + g[u \ {t}]
    BY <2>7, <2>9, <2>10, <2>5
  <2> DEFINE v == s \ {t}
  <2>12. v \in SUBSET S /\ Cardinality(v) = n - 1 /\ x \in v
    <3>1. IsFiniteSet(s)
      BY <2>6, FS_Subset
    <3> QED
      BY <2>4, <2>5, <2>6, <2>7, <2>10, <3>1, FS_RemoveElement
  <2>13. v \notin Wrong
    <3>1. v \in Wrong => Cardinality(v) \in Sizes
      OBVIOUS
    <3> HIDE DEF Wrong, Sizes, v
    <3> QED
      BY <2>3, <2>7, <2>12, <3>1
  <2>14. g[v] = f[x] + g[v \ {x}]
    BY <2>12, <2>13
  <2>15. v \ {x} = u \ {t}
    OBVIOUS
  <2>16. f[x] \in Int /\ f[t] \in Int /\ g[u \ {t}] \in Int
    BY <2>6, <2>7
  <2>17. g[s] # f[t] + g[v]
    BY <2>5
  <2>18. g[v] = f[x] + g[u \ {t}]
    BY <2>14, <2>15
  <2> DEFINE r == g[u \ {t}]
             a == f[x]
             b == f[t]
  <2>19. g[s] = a + (b + r) /\ g[s] # b + (a + r) /\ a \in Int /\ b \in Int /\ r \in Int
    BY <2>8, <2>11, <2>16, <2>17, <2>18
  <2> HIDE DEF x, u, v, a, b, r
  <2> QED
    BY <2>19
<1>3. \A s \in SUBSET S : Right(s)
  BY <1>2
<1>4. g[{}] = 0
  BY <1>1 DEF Value
<1> QED
  BY <1>3, <1>4 DEF Adds

LEMMA SumsAreAdded ==
  ASSUME NEW S, IsFiniteSet(S), NEW f \in [S -> Int]
  PROVE  \E g : Adds(g, f, S)
<1>1. PICK g \in [SUBSET S -> Int] : Unfolds(g, f, S)
  BY SumsExist
<1> QED
  BY <1>1, AnyOrder

\* What a fold over a part of S comes to.
LEMMA FoldIs ==
  ASSUME NEW S, IsFiniteSet(S), NEW f \in [S -> Int], NEW g, Adds(g, f, S),
         NEW D \in SUBSET S, NEW e \in [D -> Int], \A i \in D : e[i] = f[i],
         NEW h, Unfolds(h, e, D)
  PROVE  h[D] = g[D]
<1> DEFINE Wrong == {s \in SUBSET D : h[s] # g[s]}
           Sizes == {Cardinality(s) : s \in Wrong}
<1>1. IsFiniteSet(D)
  BY FS_Subset
<1>2. ASSUME NEW s \in SUBSET D PROVE h[s] = Value(e, h, s)
  BY DEF Unfolds
<1>3. ASSUME Wrong # {} PROVE FALSE
  <2>1. \A s \in SUBSET D : Cardinality(s) \in Nat
    BY <1>1, FS_Subset, FS_CardinalityType
  <2>2. Sizes \in SUBSET Nat /\ Sizes # {}
    BY <1>3, <2>1
  <2>3. PICK n \in Sizes : \A m \in Sizes : n <= m
    <3> HIDE DEF Sizes
    <3> QED
      BY <2>2, LeastNumber
  <2>4. PICK s \in Wrong : Cardinality(s) = n
    BY <2>3
  <2>5. s \in SUBSET D /\ h[s] # g[s]
    BY <2>4
  <2>6. s # {}
    <3>1. h[{}] = 0
      BY <1>2 DEF Value
    <3> QED
      BY <2>5, <3>1 DEF Adds
  <2> DEFINE x == Pick(s)
             u == s \ {x}
  <2>7. x \in s /\ u \in SUBSET D /\ Cardinality(u) = n - 1 /\ n \in Nat
    BY <1>1, <2>4, <2>5, <2>6, Smaller
  <2>8. h[s] = e[x] + h[u]
    BY <1>2, <2>5, <2>6 DEF Value
  <2>9. u \notin Wrong
    BY <2>3, <2>7
  <2>10. h[u] = g[u] /\ e[x] = f[x]
    BY <2>5, <2>7, <2>9
  <2>11. g[s] = f[x] + g[u]
    BY <2>5, <2>7 DEF Adds
  <2> HIDE DEF x, u
  <2> QED
    BY <2>5, <2>8, <2>10, <2>11
<1>4. D \notin Wrong
  BY <1>3
<1> QED
  BY <1>4

LEMMA SumsAre ==
  ASSUME NEW S, IsFiniteSet(S), NEW f \in [S -> Int], NEW g, Adds(g, f, S),
         NEW D \in SUBSET S, NEW e \in [D -> Int], \A i \in D : e[i] = f[i]
  PROVE  Sums(e, D)[D] = g[D]
<1>1. IsFiniteSet(D)
  BY FS_Subset
<1>2. Unfolds(Sums(e, D), e, D)
  BY <1>1, SumsExist DEF Sums
<1> QED
  BY <1>2, FoldIs

\* The sum over two parts that have nothing in common.
LEMMA SumOfParts ==
  ASSUME NEW S, IsFiniteSet(S), NEW f \in [S -> Int], NEW g, Adds(g, f, S),
         NEW A \in SUBSET S, NEW B \in SUBSET S, A \cap B = {}
  PROVE  g[A \cup B] = g[A] + g[B]
<1> DEFINE Right(s) == g[A \cup s] = g[A] + g[s]
           Wrong == {s \in SUBSET B : ~Right(s)}
           Sizes == {Cardinality(s) : s \in Wrong}
<1>1. IsFiniteSet(B) /\ g \in [SUBSET S -> Int]
  BY FS_Subset DEF Adds
<1>2. ASSUME Wrong # {} PROVE FALSE
  <2>1. \A s \in SUBSET B : Cardinality(s) \in Nat
    BY <1>1, FS_Subset, FS_CardinalityType
  <2>2. Sizes \in SUBSET Nat /\ Sizes # {}
    BY <1>2, <2>1
  <2>3. PICK n \in Sizes : \A m \in Sizes : n <= m
    <3> HIDE DEF Sizes
    <3> QED
      BY <2>2, LeastNumber
  <2>4. PICK s \in Wrong : Cardinality(s) = n
    BY <2>3
  <2>5. s \in SUBSET B /\ g[A \cup s] # g[A] + g[s]
    BY <2>4
  <2>6. s # {}
    <3>1. A \cup {} = A
      OBVIOUS
    <3>2. g[{}] = 0 /\ g[A] \in Int
      BY <1>1 DEF Adds
    <3>3. CASE s = {}
      BY <2>5, <3>1, <3>2, <3>3
    <3> QED
      BY <3>3
  <2> DEFINE x == Pick(s)
             u == s \ {x}
  <2>7. x \in s /\ u \in SUBSET B /\ Cardinality(u) = n - 1 /\ n \in Nat
    BY <1>1, <2>4, <2>5, <2>6, Smaller
  <2>8. u \notin Wrong
    <3>1. u \in Wrong => Cardinality(u) \in Sizes
      OBVIOUS
    <3> HIDE DEF Wrong, Sizes, u
    <3> QED
      BY <2>3, <2>7, <3>1
  <2>9. g[A \cup u] = g[A] + g[u]
    BY <2>7, <2>8
  <2>10. x \in S /\ x \in A \cup s /\ A \cup s \in SUBSET S /\ s \in SUBSET S
    BY <2>5, <2>7
  <2>11. (A \cup s) \ {x} = A \cup u
    BY <2>5, <2>7
  <2>12. g[A \cup s] = f[x] + g[A \cup u]
    <3> DEFINE q == A \cup s
    <3>1. q \in SUBSET S /\ x \in q /\ q \ {x} = A \cup u
      BY <2>10, <2>11
    <3> HIDE DEF q, u
    <3>2. g[q] = f[x] + g[q \ {x}]
      BY <3>1 DEF Adds
    <3>3. g[q] = f[x] + g[A \cup u]
      BY <3>1, <3>2
    <3> QED
      BY <3>3 DEF q
  <2>13. g[s] = f[x] + g[u]
    BY <2>7, <2>10 DEF Adds
  <2>14. f[x] \in Int /\ g[A] \in Int /\ g[u] \in Int
    BY <1>1, <2>7, <2>10
  <2> DEFINE a == f[x]
             b == g[A]
             c == g[u]
  <2>15. a + (b + c) # b + (a + c) /\ a \in Int /\ b \in Int /\ c \in Int
    BY <2>5, <2>9, <2>12, <2>13, <2>14
  <2> HIDE DEF x, u, a, b, c
  <2> QED
    BY <2>15
<1>3. B \notin Wrong
  BY <1>2
<1> QED
  BY <1>3

\* Functions that are equal on a part have the same sum there.
LEMMA SameSum ==
  ASSUME NEW S, IsFiniteSet(S), NEW f \in [S -> Int], NEW g, Adds(g, f, S),
         NEW e \in [S -> Int], NEW h, Adds(h, e, S),
         NEW D \in SUBSET S, \A i \in D : e[i] = f[i]
  PROVE  h[D] = g[D]
<1> DEFINE r == [i \in D |-> f[i]]
<1>1. r \in [D -> Int] /\ \A i \in D : r[i] = f[i] /\ r[i] = e[i]
  OBVIOUS
<1> HIDE DEF r
<1> QED
  BY <1>1, SumsAre

LEMMA NothingSums ==
  ASSUME NEW S, IsFiniteSet(S), NEW f \in [S -> Int], NEW g, Adds(g, f, S),
         NEW D \in SUBSET S, \A i \in D : f[i] = 0
  PROVE  g[D] = 0
<1> DEFINE e == [i \in S |-> 0]
           h == [s \in SUBSET S |-> 0]
<1>1. e \in [S -> Int] /\ h \in [SUBSET S -> Int] /\ h[{}] = 0
  OBVIOUS
<1>2. \A s \in SUBSET S : \A t \in s : h[s] = e[t] + h[s \ {t}]
  OBVIOUS
<1>3. h[D] = 0 /\ \A i \in D : e[i] = f[i]
  OBVIOUS
<1> HIDE DEF e, h
<1>4. Adds(h, e, S)
  BY <1>1, <1>2 DEF Adds
<1> QED
  BY <1>1, <1>3, <1>4, SameSum

\* Adding up by groups: key says to which group a member belongs.
Group(D, key, k) == {i \in D : key[i] = k}
Grouped(D, key, K) == {i \in D : key[i] \in K}

LEMMA SumByGroups ==
  ASSUME NEW S, IsFiniteSet(S), NEW f \in [S -> Int], NEW g, Adds(g, f, S),
         NEW D \in SUBSET S, NEW key, NEW K, IsFiniteSet(K),
         NEW e \in [K -> Int], \A k \in K : e[k] = g[Group(D, key, k)]
  PROVE  Sums(e, K)[K] = g[Grouped(D, key, K)]
<1> DEFINE In(T) == Grouped(D, key, T)
<1>1. g \in [SUBSET S -> Int] /\ g[{}] = 0
  BY DEF Adds
<1>2. PICK h : Adds(h, e, K)
  BY SumsAreAdded
<1> DEFINE Right(T) == h[T] = g[In(T)]
           Wrong == {T \in SUBSET K : ~Right(T)}
           Sizes == {Cardinality(T) : T \in Wrong}
<1>3. ASSUME Wrong # {} PROVE FALSE
  <2>1. \A T \in SUBSET K : Cardinality(T) \in Nat
    BY FS_Subset, FS_CardinalityType
  <2>2. Sizes \in SUBSET Nat /\ Sizes # {}
    <3> HIDE DEF Right
    <3> QED
      BY <1>3, <2>1
  <2>3. PICK n \in Sizes : \A m \in Sizes : n <= m
    <3> HIDE DEF Sizes
    <3> QED
      BY <2>2, LeastNumber
  <2>4. PICK T \in Wrong : Cardinality(T) = n
    BY <2>3
  <2>5. T \in SUBSET K /\ h[T] # g[In(T)]
    BY <2>4
  <2>6. T # {}
    <3>1. In({}) = {}
      BY DEF Grouped
    <3>2. h[{}] = 0
      BY <1>2 DEF Adds
    <3> HIDE DEF In
    <3>3. CASE T = {}
      BY <1>1, <2>5, <3>1, <3>2, <3>3
    <3> QED
      BY <3>3
  <2> DEFINE x == Pick(T)
             u == T \ {x}
             one == Group(D, key, x)
  <2>7. x \in T /\ u \in SUBSET K /\ Cardinality(u) = n - 1 /\ n \in Nat
    BY <2>4, <2>5, <2>6, Smaller
  <2>8. u \notin Wrong
    <3>1. u \in Wrong => Cardinality(u) \in Sizes
      OBVIOUS
    <3> HIDE DEF Wrong, Sizes, u
    <3> QED
      BY <2>3, <2>7, <3>1
  <2>9. h[u] = g[In(u)]
    BY <2>7, <2>8
  <2>10. one \in SUBSET S /\ In(u) \in SUBSET S /\ one \cap In(u) = {} /\ In(T) = one \cup In(u)
    BY <2>7 DEF Group, Grouped
  <2>11. g[In(T)] = g[one] + g[In(u)]
    <3> HIDE DEF one, In, u
    <3> QED
      BY <2>10, SumOfParts
  <2>12. e[x] = g[one]
    BY <2>5, <2>7
  <2>13. h[T] = e[x] + h[u]
    BY <1>2, <2>5, <2>7 DEF Adds
  <2> HIDE DEF x, u, one, In
  <2> QED
    BY <2>5, <2>9, <2>11, <2>12, <2>13
<1>4. K \notin Wrong
  BY <1>3
<1>5. h[K] = g[In(K)]
  BY <1>4
<1>6. Sums(e, K)[K] = h[K]
  BY <1>2, SumsAre
<1> QED
  BY <1>5, <1>6

\* Adding up over the members or over their images, one for each.
OneEach(image, D, K) ==
  /\ \A i \in D : image[i] \in K
  /\ \A k \in K : \E i \in D : image[i] = k
  /\ \A i, j \in D : image[i] = image[j] => i = j

LEMMA SumOfImages ==
  ASSUME NEW S, IsFiniteSet(S), NEW f \in [S -> Int], NEW g, Adds(g, f, S),
         NEW D \in SUBSET S, NEW image, NEW K, OneEach(image, D, K),
         NEW e \in [K -> Int], \A i \in D : e[image[i]] = f[i]
  PROVE  IsFiniteSet(K) /\ Sums(e, K)[K] = g[D]
<1>1. IsFiniteSet(K)
  <2> DEFINE all == [i \in D |-> image[i]]
  <2>1. all \in [D -> K] /\ \A k \in K : \E i \in D : all[i] = k
    BY DEF OneEach
  <2> HIDE DEF all
  <2>2. all \in Surjection(D, K)
    BY <2>1 DEF Surjection
  <2> QED
    BY <2>2, FS_Subset, FS_Surjection
<1>2. ASSUME NEW k \in K PROVE e[k] = g[Group(D, image, k)]
  <2>1. PICK i \in D : k = image[i]
    BY DEF OneEach
  <2>2. Group(D, image, k) = {i}
    BY <2>1 DEF Group, OneEach
  <2>3. g[{i}] = f[i]
    <3> DEFINE s == {i}
    <3>1. s \in SUBSET S /\ i \in s /\ s \ {i} = {}
      OBVIOUS
    <3> HIDE DEF s
    <3>2. g[s] = f[i] + g[s \ {i}] /\ g[{}] = 0
      BY <3>1 DEF Adds
    <3>3. f[i] \in Int
      OBVIOUS
    <3>4. g[s] = f[i] + 0
      BY <3>1, <3>2, Zenon
    <3> DEFINE x == f[i]
    <3>5. x + 0 = x
      <4>1. x \in Int
        BY <3>3
      <4> HIDE DEF x
      <4> QED
        BY <4>1
    <3> QED
      BY <3>4, <3>5, Zenon DEF s
  <2>4. e[k] = f[i]
    BY <2>1
  <2> QED
    BY <2>2, <2>3, <2>4
<1>3. Grouped(D, image, K) = D
  BY DEF Grouped, OneEach
<1>4. Sums(e, K)[K] = g[Grouped(D, image, K)]
  BY <1>1, <1>2, SumByGroups
<1> QED
  BY <1>1, <1>3, <1>4

LEMMA SumIsNat ==
  ASSUME NEW S, IsFiniteSet(S), NEW f \in [S -> Int], NEW g, Adds(g, f, S),
         NEW D \in SUBSET S, \A i \in D : f[i] >= 0
  PROVE  g[D] \in Nat
<1> DEFINE Wrong == {s \in SUBSET D : g[s] \notin Nat}
           Sizes == {Cardinality(s) : s \in Wrong}
<1>1. IsFiniteSet(D) /\ g[{}] = 0
  BY FS_Subset DEF Adds
<1>2. ASSUME Wrong # {} PROVE FALSE
  <2>1. \A s \in SUBSET D : Cardinality(s) \in Nat
    BY <1>1, FS_Subset, FS_CardinalityType
  <2>2. Sizes \in SUBSET Nat /\ Sizes # {}
    BY <1>2, <2>1
  <2>3. PICK n \in Sizes : \A m \in Sizes : n <= m
    <3> HIDE DEF Sizes
    <3> QED
      BY <2>2, LeastNumber
  <2>4. PICK s \in Wrong : Cardinality(s) = n
    BY <2>3
  <2>5. s \in SUBSET D /\ s # {} /\ g[s] \notin Nat
    BY <1>1, <2>4
  <2> DEFINE x == Pick(s)
             u == s \ {x}
  <2>6. x \in s /\ u \in SUBSET D /\ Cardinality(u) = n - 1 /\ n \in Nat
    BY <1>1, <2>4, <2>5, Smaller
  <2>7. u \notin Wrong
    <3>1. u \in Wrong => Cardinality(u) \in Sizes
      OBVIOUS
    <3> HIDE DEF Wrong, Sizes, u
    <3> QED
      BY <2>3, <2>6, <3>1
  <2>8. g[s] = f[x] + g[u]
    BY <2>5, <2>6 DEF Adds
  <2>9. g[u] \in Nat /\ f[x] \in Int /\ f[x] >= 0
    BY <2>5, <2>6, <2>7
  <2> HIDE DEF x, u
  <2> QED
    BY <2>5, <2>8, <2>9
<1>3. D \notin Wrong
  BY <1>2
<1> QED
  BY <1>3

LEMMA SumGrows ==
  ASSUME NEW S, IsFiniteSet(S), NEW f \in [S -> Int], NEW g, Adds(g, f, S),
         NEW D \in SUBSET S, NEW A \in SUBSET D, \A i \in D : f[i] >= 0
  PROVE  g[A] \in Nat /\ g[D] \in Nat /\ g[A] <= g[D]
<1> DEFINE B == D \ A
<1>1. A \in SUBSET S /\ B \in SUBSET S /\ A \cap B = {} /\ D = A \cup B
  OBVIOUS
<1>2. (\A i \in A : f[i] >= 0) /\ (\A i \in B : f[i] >= 0)
  OBVIOUS
<1> HIDE DEF B
<1>3. g[A] \in Nat /\ g[B] \in Nat
  BY <1>1, <1>2, SumIsNat
<1>4. g[D] = g[A] + g[B]
  BY <1>1, SumOfParts
<1> QED
  BY <1>3, <1>4

\* The sum of greater numbers is greater.
LEMMA SumsGrow ==
  ASSUME NEW S, IsFiniteSet(S), NEW f \in [S -> Int], NEW g, Adds(g, f, S),
         NEW e \in [S -> Int], NEW h, Adds(h, e, S),
         NEW D \in SUBSET S, \A i \in D : f[i] <= e[i]
  PROVE  g[D] <= h[D]
<1> DEFINE d == [i \in S |-> e[i] - f[i]]
           k == [s \in SUBSET S |-> h[s] - g[s]]
<1>1. /\ g \in [SUBSET S -> Int] /\ h \in [SUBSET S -> Int] /\ g[{}] = 0 /\ h[{}] = 0
  BY DEF Adds
<1>2. d \in [S -> Int] /\ k \in [SUBSET S -> Int]
  BY <1>1
<1>3. (\A i \in S : d[i] = e[i] - f[i]) /\ (\A s \in SUBSET S : k[s] = h[s] - g[s])
  OBVIOUS
<1> HIDE DEF d, k
<1>4. ASSUME NEW s \in SUBSET S, NEW t \in s PROVE k[s] = d[t] + k[s \ {t}]
  <2> DEFINE u == s \ {t}
  <2>1. g[s] = f[t] + g[u] /\ h[s] = e[t] + h[u]
    BY DEF Adds
  <2>2. t \in S /\ u \in SUBSET S
    OBVIOUS
  <2> HIDE DEF u
  <2>3. f[t] \in Int /\ e[t] \in Int /\ g[u] \in Int /\ h[u] \in Int
    BY <1>1, <2>2
  <2>4. k[s] = h[s] - g[s] /\ d[t] = e[t] - f[t] /\ k[u] = h[u] - g[u]
    BY <1>3, <2>2
  <2>5. k[s] = d[t] + k[u]
    BY <2>1, <2>3, <2>4
  <2> QED
    BY <2>5 DEF u
<1>5. k[{}] = 0
  BY <1>1, <1>3
<1>6. Adds(k, d, S)
  BY <1>2, <1>4, <1>5 DEF Adds
<1>7. \A i \in D : d[i] >= 0
  <2> SUFFICES ASSUME NEW i \in D PROVE d[i] >= 0
    OBVIOUS
  <2>1. f[i] \in Int /\ e[i] \in Int /\ f[i] <= e[i] /\ d[i] = e[i] - f[i]
    BY <1>3
  <2> QED
    BY <2>1
<1>8. k[D] \in Nat
  BY <1>2, <1>6, <1>7, SumIsNat
<1>9. k[D] = h[D] - g[D] /\ h[D] \in Int /\ g[D] \in Int
  BY <1>1, <1>3
<1> QED
  BY <1>8, <1>9

-----------------------------------------------------------------------------
(***************************************************************************)
(* The calendar: a day is in one month.                                    *)
(***************************************************************************)
LEMMA MonthsAreListed ==
  /\ Month = 1 .. Len(MonthLengths) /\ Len(MonthLengths) \in Nat
  /\ IsFiniteSet(Month)
  /\ MonthLengths \in [Month -> Int]
  /\ \A m \in Month : MonthLengths[m] \in Nat /\ MonthLengths[m] > 0
<1>1. MonthLengths \in Seq(Nat \ {0})
  BY CalendarAssumption
<1>2. Month = 1 .. Len(MonthLengths) /\ Len(MonthLengths) \in Nat
  BY <1>1 DEF Month
<1> QED
  <2>1. IsFiniteSet(Month)
    BY <1>2, FS_Interval
  <2>2. MonthLengths \in [Month -> Nat \ {0}]
    BY <1>1 DEF Month
  <2>3. \A m \in Month : MonthLengths[m] \in Nat /\ MonthLengths[m] > 0 /\ MonthLengths[m] \in Int
    BY <2>2
  <2>4. MonthLengths \in [Month -> Int]
    BY <2>2, <2>3
  <2> QED
    BY <1>2, <2>1, <2>3, <2>4

LEMMA FirstDayIs ==
  ASSUME NEW g, Adds(g, MonthLengths, Month), NEW m \in Month
  PROVE  FirstDay(m) = g[1 .. m - 1] /\ 1 .. m - 1 \in SUBSET Month
<1> DEFINE D == 1 .. m - 1
           e == [k \in D |-> MonthLengths[k]]
           Folds(h) == h = [s \in SUBSET D |-> IF s = {} THEN 0 ELSE MonthLengths[Pick(s)] + h[s \ {Pick(s)}]]
           fold == CHOOSE h : Folds(h)
<1>1. D \in SUBSET Month
  BY MonthsAreListed
<1>2. e \in [D -> Int] /\ \A k \in D : e[k] = MonthLengths[k]
  BY <1>1, MonthsAreListed
<1>3. IsFiniteSet(D)
  BY <1>1, MonthsAreListed, FS_Subset
<1>4. ASSUME NEW h PROVE Folds(h) <=> Unfolds(h, e, D)
  <2>1. ASSUME NEW s \in SUBSET D, s # {} PROVE e[Pick(s)] = MonthLengths[Pick(s)]
    BY <1>3, <2>1, Smaller
  <2>2. ASSUME NEW s \in SUBSET D
        PROVE  Value(e, h, s) = IF s = {} THEN 0 ELSE MonthLengths[Pick(s)] + h[s \ {Pick(s)}]
    BY <2>1 DEF Value
  <2> HIDE DEF e, D
  <2> QED
    BY <2>2 DEF Unfolds
<1> HIDE DEF e, Folds
<1>5. Unfolds(fold, e, D)
  <2>1. \E h : Folds(h)
    BY <1>2, <1>3, <1>4, SumsExist
  <2>2. Folds(fold)
    BY <2>1
  <2> QED
    BY <1>4, <2>2
<1>6. FirstDay(m) = fold[D]
  BY DEF FirstDay, MapThenSumSet, MapThenFoldSet, Pick, fold, Folds
<1> HIDE DEF D, fold
<1>7. fold[D] = g[D]
  <2>1. IsFiniteSet(Month) /\ MonthLengths \in [Month -> Int]
    BY MonthsAreListed
  <2> HIDE DEF Month
  <2> QED
    BY <1>1, <1>2, <1>5, <2>1, FoldIs
<1>8. FirstDay(m) = g[D] /\ D \in SUBSET Month
  BY <1>1, <1>5, <1>6, <1>7
<1> QED
  BY <1>8 DEF D

LEMMA MonthsFollow ==
  /\ \A m \in Month : FirstDay(m) \in Nat
  /\ \A m, k \in Month : m < k => FirstDay(m) + MonthLengths[m] <= FirstDay(k)
<1>1. IsFiniteSet(Month) /\ MonthLengths \in [Month -> Int]
  BY MonthsAreListed
<1>2. PICK g : Adds(g, MonthLengths, Month)
  BY <1>1, SumsAreAdded
<1>3. ASSUME NEW m \in Month PROVE FirstDay(m) \in Nat
  <2> DEFINE D == 1 .. m - 1
  <2>1. FirstDay(m) = g[D] /\ D \in SUBSET Month
    BY <1>2, FirstDayIs
  <2>2. \A i \in D : MonthLengths[i] >= 0
    BY <2>1, MonthsAreListed
  <2> HIDE DEF D
  <2>3. g[D] \in Nat
    BY <1>1, <1>2, <2>1, <2>2, SumIsNat
  <2> QED
    BY <2>1, <2>3
<1>4. ASSUME NEW m \in Month, NEW k \in Month, m < k
      PROVE  FirstDay(m) + MonthLengths[m] <= FirstDay(k)
  <2> DEFINE D == 1 .. m - 1
             E == 1 .. k - 1
             A == 1 .. m
  <2>1. FirstDay(m) = g[D] /\ FirstDay(k) = g[E] /\ D \in SUBSET Month /\ E \in SUBSET Month
    BY <1>2, FirstDayIs
  <2>2. m \in Nat /\ k \in Nat /\ m >= 1
    BY MonthsAreListed
  <2>3. A \in SUBSET E /\ D = A \ {m} /\ m \in A
    BY <1>4, <2>2
  <2>4. \A i \in E : MonthLengths[i] >= 0
    BY <2>1, MonthsAreListed
  <2> HIDE DEF D, E, A
  <2>5. A \in SUBSET Month
    BY <2>1, <2>3
  <2>6. g[A] <= g[E]
    BY <1>1, <1>2, <2>1, <2>3, <2>4, SumGrows
  <2>7. g[A] = MonthLengths[m] + g[D]
    BY <1>2, <2>3, <2>5 DEF Adds
  <2>8. g[D] \in Nat /\ g[E] \in Nat /\ MonthLengths[m] \in Nat
    BY <1>3, <2>1, MonthsAreListed
  <2> QED
    BY <2>1, <2>6, <2>7, <2>8
<1> QED
  BY <1>3, <1>4

LEMMA OneMonth ==
  ASSUME NEW d \in Calendar
  PROVE  /\ d \in Nat
         /\ MonthOf(d) \in Month /\ d \in DaysOf(MonthOf(d))
         /\ \A m \in Month : d \in DaysOf(m) => m = MonthOf(d)
<1>1. \E m \in Month : d \in DaysOf(m)
  BY DEF Calendar
<1>2. MonthOf(d) \in Month /\ d \in DaysOf(MonthOf(d))
  BY <1>1 DEF MonthOf
<1>3. \A m \in Month : FirstDay(m) \in Nat /\ MonthLengths[m] \in Nat /\ m \in Nat
  BY MonthsFollow, MonthsAreListed
<1>4. d \in Nat
  BY <1>2, <1>3 DEF DaysOf
<1>5. ASSUME NEW m \in Month, NEW k \in Month, d \in DaysOf(m), d \in DaysOf(k), m < k
      PROVE  FALSE
  <2>1. FirstDay(m) + MonthLengths[m] <= FirstDay(k)
    BY <1>5, MonthsFollow
  <2>2. FirstDay(k) <= d /\ d <= FirstDay(m) + MonthLengths[m] - 1
    BY <1>5 DEF DaysOf
  <2> QED
    BY <1>3, <1>4, <2>1, <2>2
<1>6. ASSUME NEW m \in Month, d \in DaysOf(m) PROVE m = MonthOf(d)
  <2> DEFINE k == MonthOf(d)
  <2>1. k \in Month /\ d \in DaysOf(k)
    BY <1>2
  <2>2. m < k \/ k < m \/ m = k
    BY <1>3, <2>1
  <2> HIDE DEF k
  <2>3. m = k
    BY <1>5, <1>6, <2>1, <2>2
  <2> QED
    BY <2>3 DEF k
<1> QED
  BY <1>2, <1>4, <1>6

\* The days between two days of a month are days of that month.
LEMMA DaysBetween ==
  ASSUME NEW a \in Calendar, NEW b \in DaysOf(MonthOf(a)), NEW d \in Int, a <= d, d <= b
  PROVE  /\ d \in DaysOf(MonthOf(a)) /\ d \in Calendar /\ MonthOf(d) = MonthOf(a)
         /\ d - FirstDay(MonthOf(d)) \in 0 .. MonthLengths[MonthOf(a)] - 1
<1> DEFINE m == MonthOf(a)
<1>1. m \in Month /\ a \in DaysOf(m) /\ a \in Nat
  BY OneMonth
<1>2. FirstDay(m) \in Nat /\ MonthLengths[m] \in Nat
  BY <1>1, MonthsFollow, MonthsAreListed
<1>3. b \in DaysOf(m)
  OBVIOUS
<1> HIDE DEF m
<1>4. d \in DaysOf(m)
  BY <1>1, <1>2, <1>3 DEF DaysOf
<1>5. d \in Calendar
  BY <1>1, <1>4 DEF Calendar
<1>6. m = MonthOf(d)
  BY <1>1, <1>4, <1>5, OneMonth
<1>7. d - FirstDay(m) \in 0 .. MonthLengths[m] - 1
  BY <1>2, <1>4 DEF DaysOf
<1> QED
  BY <1>4, <1>5, <1>6, <1>7 DEF m

LEMMA CalendarEnds ==
  /\ Max(Calendar) \in Calendar
  /\ \A d \in Calendar : d <= Max(Calendar)
<1> DEFINE last == Len(MonthLengths)
           top == FirstDay(last) + MonthLengths[last]
<1>1. 0 \in Calendar
  <2>1. 0 \in 0 .. LastDay
    <3>1. LastDay \in Nat
      BY FiguresAssumption DEF LastDay, Day
    <3> QED
      BY <3>1
  <2> QED
    BY <2>1, CalendarAssumption
<1>2. last \in Month
  <2>1. Month # {}
    BY <1>1, OneMonth
  <2> QED
    BY <2>1, MonthsAreListed
<1>3. top \in Nat
  BY <1>2, MonthsFollow, MonthsAreListed
<1>4. Calendar \in SUBSET (0 .. top)
  <2> SUFFICES ASSUME NEW d \in Calendar PROVE d \in 0 .. top
    OBVIOUS
  <2>1. PICK m \in Month : d \in DaysOf(m)
    BY DEF Calendar
  <2>2. /\ FirstDay(m) \in Nat /\ MonthLengths[m] \in Nat
        /\ FirstDay(last) \in Nat /\ MonthLengths[last] \in Nat
    BY <1>2, MonthsFollow, MonthsAreListed
  <2>3. m = last \/ m < last
    <3>1. Month = 1 .. last /\ last \in Nat
      BY MonthsAreListed
    <3> HIDE DEF last
    <3> QED
      BY <3>1
  <2>4. m < last => FirstDay(m) + MonthLengths[m] <= FirstDay(last)
    BY <1>2, MonthsFollow
  <2>5. FirstDay(m) <= d /\ d <= FirstDay(m) + MonthLengths[m] - 1 /\ d \in Int
    BY <2>1, <2>2 DEF DaysOf
  <2> HIDE DEF last
  <2> QED
    BY <2>2, <2>3, <2>4, <2>5
<1> HIDE DEF top
<1> DEFINE f == [d \in 0 .. top |-> d]
           S == 0 .. top
<1>5. IsFiniteSet(S) /\ f \in [S -> Nat]
  BY <1>3, FS_Interval
<1>6. \E x \in Calendar : Greatest(x, Calendar, f)
  <2> HIDE DEF f, S
  <2> QED
    BY <1>1, <1>4, <1>5, FiniteHasGreatest DEF S
<1>7. \E x \in Calendar : \A y \in Calendar : x >= y
  <2>1. PICK x \in Calendar : Greatest(x, Calendar, f)
    BY <1>6
  <2>2. ASSUME NEW y \in Calendar PROVE x >= y
    BY <1>4, <2>1 DEF Greatest
  <2> QED
    BY <2>2
<1>8. Max(Calendar) \in Calendar /\ \A y \in Calendar : Max(Calendar) >= y
  BY <1>7 DEF Max
<1>9. \A y \in Calendar : y \in Nat
  BY OneMonth
<1> QED
  BY <1>8, <1>9

-----------------------------------------------------------------------------
(***************************************************************************)
(* Days and hours.                                                         *)
(***************************************************************************)
LEMMA HoursOfDay ==
  ASSUME NEW t \in Int
  PROVE  /\ Day(t) \in Int
         /\ HourOf(t) \in 0 .. HoursPerDay - 1
         /\ t = HoursPerDay * Day(t) + HourOf(t)
<1> DEFINE h == HoursPerDay
<1>1. h \in Nat \ {0}
  BY FiguresAssumption
<1> HIDE DEF h
<1>2. t \div h \in Int
  BY <1>1
<1>3. t % h \in 0 .. h - 1
  BY <1>1
<1>4. t = h * (t \div h) + (t % h)
  BY <1>1
<1> QED
  BY <1>2, <1>3, <1>4 DEF Day, HourOf, h

LEMMA Multiples ==
  ASSUME NEW h \in Nat, NEW q \in Int, NEW k \in Int, q < k
  PROVE  h * q \in Int /\ h * k \in Int /\ h * q + h <= h * k
OBVIOUS

LEMMA DaysGrow ==
  ASSUME NEW t \in Int, NEW u \in Int, t <= u
  PROVE  Day(t) <= Day(u)
<1> DEFINE h == HoursPerDay
           a == Day(t)
           b == Day(u)
<1>1. h \in Nat /\ h > 0
  BY FiguresAssumption
<1>2. /\ a \in Int /\ HourOf(t) \in 0 .. h - 1 /\ t = h * a + HourOf(t)
      /\ b \in Int /\ HourOf(u) \in 0 .. h - 1 /\ u = h * b + HourOf(u)
  BY HoursOfDay
<1> HIDE DEF h, a, b
<1>3. ASSUME b < a PROVE FALSE
  <2>1. h * b \in Int /\ h * a \in Int /\ h * b + h <= h * a
    BY <1>1, <1>2, <1>3, Multiples
  <2> DEFINE x == h * a
             y == h * b
             v == HourOf(t)
             w == HourOf(u)
  <2>2. /\ x \in Int /\ y \in Int /\ y + h <= x /\ t = x + v /\ u = y + w
        /\ v \in 0 .. h - 1 /\ w \in 0 .. h - 1
    BY <1>2, <2>1
  <2> HIDE DEF x, y, v, w
  <2> QED
    BY <1>1, <2>2
<1>4. a <= b
  BY <1>2, <1>3
<1> QED
  BY <1>4 DEF a, b

LEMMA HoursAreDated ==
  ASSUME NEW t \in Hour
  PROVE  /\ t \in Nat
         /\ Day(t) \in Nat /\ Day(t) \in 0 .. LastDay /\ Day(t) \in Calendar
<1>1. t \in Nat /\ t <= LastHour /\ LastHour \in Nat
  BY FiguresAssumption DEF Hour
<1>2. Day(0) <= Day(t) /\ Day(t) <= Day(LastHour)
  BY <1>1, DaysGrow
<1>3. Day(0) = 0
  <2>1. Day(0) \in Int /\ HourOf(0) \in 0 .. HoursPerDay - 1 /\ 0 = HoursPerDay * Day(0) + HourOf(0)
    BY HoursOfDay
  <2>2. HoursPerDay \in Nat /\ HoursPerDay > 0
    BY FiguresAssumption
  <2>3. Day(0) < 0 => HoursPerDay * Day(0) + HoursPerDay <= HoursPerDay * 0
    BY <2>1, <2>2, Multiples
  <2>4. 0 < Day(0) => HoursPerDay * 0 + HoursPerDay <= HoursPerDay * Day(0)
    BY <2>1, <2>2, Multiples
  <2> DEFINE x == HoursPerDay * Day(0)
  <2>5. x \in Int /\ HoursPerDay * 0 = 0
    BY <2>1, <2>2
  <2>6. /\ 0 = x + HourOf(0) /\ (Day(0) < 0 => x + HoursPerDay <= 0)
        /\ (0 < Day(0) => HoursPerDay <= x)
    BY <2>1, <2>2, <2>3, <2>4, <2>5
  <2> HIDE DEF x
  <2> QED
    BY <2>1, <2>2, <2>5, <2>6
<1>4. Day(t) \in Int /\ Day(LastHour) \in Int
  BY <1>1, HoursOfDay
<1>5. Day(t) \in 0 .. LastDay
  BY <1>2, <1>3, <1>4 DEF LastDay
<1> QED
  BY <1>1, <1>2, <1>3, <1>4, <1>5, CalendarAssumption

\* The server's midnight before an hour is the shop's, moved by the offset, on
\* a day that has reached the offset.
LEMMA MidnightIs ==
  ASSUME now \in Hour, HourOf(now) >= ServerOffset
  PROVE  ServerMidnight = ServerOffset + HoursPerDay * Today
<1> DEFINE h == HoursPerDay
           k == ServerOffset
           q == Today
           t == now - k
<1>1. h \in Nat /\ h > 0 /\ k \in 0 .. h - 1 /\ now \in Int
  BY FiguresAssumption, HoursAreDated
<1>2. q \in Int /\ HourOf(now) \in 0 .. h - 1 /\ now = h * q + HourOf(now)
  BY <1>1, HoursOfDay DEF Today
<1> DEFINE r == HourOf(now) - k
           p == t \div h
           s == t % h
<1>3. r \in 0 .. h - 1
  BY <1>1, <1>2
<1>4. t \in Int /\ p = Day(t) /\ s = HourOf(t)
  BY <1>1 DEF Day, HourOf
<1>5. p \in Int /\ s \in 0 .. h - 1 /\ t = h * p + s
  BY <1>4, HoursOfDay
<1>6. t = h * q + r
  <2> DEFINE x == h * q
  <2>1. x \in Int
    BY <1>1, <1>2
  <2> HIDE DEF x
  <2> QED
    BY <1>1, <1>2, <2>1 DEF x
<1> HIDE DEF h, q, t, r, p, s
<1>7. p < q => h * p + h <= h * q
  BY <1>1, <1>2, <1>5, Multiples
<1>8. q < p => h * q + h <= h * p
  BY <1>1, <1>2, <1>5, Multiples
<1> DEFINE x == h * p
           y == h * q
<1>9. x \in Int /\ y \in Int
  BY <1>1, <1>2, <1>5
<1>10. x + s = y + r /\ (p < q => x + h <= y) /\ (q < p => y + h <= x)
  BY <1>5, <1>6, <1>7, <1>8
<1> HIDE DEF x, y
<1>11. p = q
  BY <1>1, <1>2, <1>3, <1>5, <1>9, <1>10
<1> QED
  BY <1>11 DEF ServerMidnight, p, q, h, t, k

LEMMA SinceIs ==
  ASSUME now \in Hour, HourOf(now) >= ServerOffset, NEW t \in Hour, t <= now
  PROVE  t >= ServerMidnight <=> Day(t) = Today /\ ServerOffset <= HourOf(t) /\ HourOf(t) < HoursPerDay
<1> DEFINE h == HoursPerDay
           k == ServerOffset
           q == Today
           p == Day(t)
<1>1. h \in Nat /\ h > 0 /\ k \in 0 .. h - 1 /\ now \in Int /\ t \in Int
  BY FiguresAssumption, HoursAreDated
<1>2. q \in Int /\ p \in Int /\ HourOf(t) \in 0 .. h - 1 /\ t = h * p + HourOf(t)
  BY <1>1, HoursOfDay DEF Today
<1>3. p <= q
  BY <1>1, DaysGrow DEF Today
<1>4. ServerMidnight = k + h * q
  BY MidnightIs
<1> HIDE DEF h, k, q, p
<1>5. p < q => h * p + h <= h * q
  BY <1>1, <1>2, Multiples
<1> DEFINE x == h * p
           y == h * q
           r == HourOf(t)
<1>6. x \in Int /\ y \in Int /\ (p = q => x = y)
  BY <1>1, <1>2
<1>7. t = x + r /\ ServerMidnight = k + y /\ (p < q => x + h <= y) /\ r \in 0 .. h - 1
  BY <1>2, <1>4, <1>5
<1> HIDE DEF x, y, r
<1>8. t >= ServerMidnight <=> p = q /\ k <= r /\ r < h
  BY <1>1, <1>2, <1>3, <1>6, <1>7
<1> QED
  BY <1>8 DEF p, q, k, r, h

Summed(e, K) == MapThenSumSet(LAMBDA k : e[k], K)

LEMMA SummedIs ==
  ASSUME NEW K, NEW e \in [K -> Int]
  PROVE  Summed(e, K) = Sums(e, K)[K]
BY DEF Summed, MapThenSumSet, MapThenFoldSet, Sums, Unfolds, Value, Pick

-----------------------------------------------------------------------------
(***************************************************************************)
(* The money of the rows.  C maps the places of some rows to these rows.   *)
(***************************************************************************)
Places == DOMAIN rows
Revenues == [i \in Places |-> IF rows[i] = None THEN 0 ELSE sessionRevenue(rows[i])]
Finals == [i \in Places |-> IF rows[i] = None THEN 0 ELSE FinalAmount(rows[i])]
Part(C) == DOMAIN C \subseteq Kept /\ \A i \in DOMAIN C : C[i] = rows[i]

LEMMA TableIs ==
  ASSUME RowsTyped
  PROVE  /\ IsFiniteSet(Places) /\ Kept \subseteq Places
         /\ Revenues \in [Places -> Int] /\ \A i \in Places : Revenues[i] >= 0
         /\ Finals \in [Places -> Int] /\ \A i \in Places : Finals[i] >= 0
<1>1. Places = 1 .. Len(rows) /\ Kept \subseteq Places
  BY DEF RowsTyped, Places, Kept
<1>2. IsFiniteSet(Places)
  BY <1>1, PlacesAreFinite
<1>3. ASSUME NEW i \in Places
      PROVE  Revenues[i] \in Int /\ Revenues[i] >= 0 /\ Finals[i] \in Int /\ Finals[i] >= 0
  <2>1. CASE rows[i] = None
    BY <2>1 DEF Revenues, Finals
  <2>2. CASE rows[i] # None
    <3>1. rows[i] \in Row
      BY <2>2, RowIsTyped DEF Kept, Places
    <3>2. FinalAmount(rows[i]) \in Nat
      BY <3>1, FiguresAssumption DEF Row, FinalAmount
    <3>3. Finals[i] = FinalAmount(rows[i]) /\ Revenues[i] = sessionRevenue(rows[i])
      BY <2>2 DEF Finals, Revenues
    <3>4. sessionRevenue(rows[i]) \in Nat
      BY <3>2 DEF sessionRevenue
    <3> QED
      BY <3>2, <3>3, <3>4
  <2> QED
    BY <2>1, <2>2
<1>4. Revenues \in [Places -> Int] /\ Finals \in [Places -> Int]
  BY <1>3 DEF Revenues, Finals
<1> QED
  BY <1>1, <1>2, <1>3, <1>4

LEMMA RevenueOver ==
  ASSUME RowsTyped, NEW g, Adds(g, Revenues, Places), NEW C, Part(C)
  PROVE  SumOver(sessionRevenue, C) = g[DOMAIN C]
<1> DEFINE D == DOMAIN C
           e == [i \in D |-> Revenues[i]]
           Folds(h) == h = [s \in SUBSET D |-> IF s = {} THEN 0 ELSE sessionRevenue(C[Pick(s)]) + h[s \ {Pick(s)}]]
           fold == CHOOSE h : Folds(h)
<1>1. D \in SUBSET Places /\ IsFiniteSet(Places) /\ IsFiniteSet(D) /\ Revenues \in [Places -> Int]
  BY TableIs, FS_Subset DEF Part
<1>2. e \in [D -> Int] /\ \A i \in D : e[i] = Revenues[i]
  BY <1>1
<1>3. \A i \in D : e[i] = sessionRevenue(C[i])
  BY <1>1 DEF Part, Revenues, Kept
<1>4. ASSUME NEW h PROVE Folds(h) <=> Unfolds(h, e, D)
  <2>1. ASSUME NEW s \in SUBSET D, s # {} PROVE e[Pick(s)] = sessionRevenue(C[Pick(s)])
    BY <1>1, <1>3, <2>1, Smaller
  <2>2. ASSUME NEW s \in SUBSET D
        PROVE  Value(e, h, s) = IF s = {} THEN 0 ELSE sessionRevenue(C[Pick(s)]) + h[s \ {Pick(s)}]
    BY <2>1 DEF Value
  <2> HIDE DEF e, D
  <2> QED
    BY <2>2 DEF Unfolds
<1> HIDE DEF e, Folds
<1>5. Unfolds(fold, e, D)
  <2>1. \E h : Folds(h)
    BY <1>1, <1>2, <1>4, SumsExist
  <2>2. Folds(fold)
    BY <2>1
  <2> QED
    BY <1>4, <2>2
<1>6. SumOver(sessionRevenue, C) = fold[D]
  BY DEF SumOver, MapThenSumSet, MapThenFoldSet, Pick, fold, Folds
<1> HIDE DEF D, fold
<1>7. fold[D] = g[D]
  BY <1>1, <1>2, <1>5, FoldIs
<1> QED
  BY <1>6, <1>7 DEF D

LEMMA FinalOver ==
  ASSUME RowsTyped, NEW g, Adds(g, Finals, Places), NEW C, Part(C)
  PROVE  SumOver(FinalAmount, C) = g[DOMAIN C]
<1> DEFINE D == DOMAIN C
           e == [i \in D |-> Finals[i]]
           Folds(h) == h = [s \in SUBSET D |-> IF s = {} THEN 0 ELSE FinalAmount(C[Pick(s)]) + h[s \ {Pick(s)}]]
           fold == CHOOSE h : Folds(h)
<1>1. D \in SUBSET Places /\ IsFiniteSet(Places) /\ IsFiniteSet(D) /\ Finals \in [Places -> Int]
  BY TableIs, FS_Subset DEF Part
<1>2. e \in [D -> Int] /\ \A i \in D : e[i] = Finals[i]
  BY <1>1
<1>3. \A i \in D : e[i] = FinalAmount(C[i])
  BY <1>1 DEF Part, Finals, Kept
<1>4. ASSUME NEW h PROVE Folds(h) <=> Unfolds(h, e, D)
  <2>1. ASSUME NEW s \in SUBSET D, s # {} PROVE e[Pick(s)] = FinalAmount(C[Pick(s)])
    BY <1>1, <1>3, <2>1, Smaller
  <2>2. ASSUME NEW s \in SUBSET D
        PROVE  Value(e, h, s) = IF s = {} THEN 0 ELSE FinalAmount(C[Pick(s)]) + h[s \ {Pick(s)}]
    BY <2>1 DEF Value
  <2> HIDE DEF e, D
  <2> QED
    BY <2>2 DEF Unfolds
<1> HIDE DEF e, Folds
<1>5. Unfolds(fold, e, D)
  <2>1. \E h : Folds(h)
    BY <1>1, <1>2, <1>4, SumsExist
  <2>2. Folds(fold)
    BY <2>1
  <2> QED
    BY <1>4, <2>2
<1>6. SumOver(FinalAmount, C) = fold[D]
  BY DEF SumOver, MapThenSumSet, MapThenFoldSet, Pick, fold, Folds
<1> HIDE DEF D, fold
<1>7. fold[D] = g[D]
  BY <1>1, <1>2, <1>5, FoldIs
<1> QED
  BY <1>6, <1>7 DEF D

\* The sums of all parts, by one function that adds up the whole table.
Gross(D) == (CHOOSE g : Adds(g, Revenues, Places))[D]
Final(D) == (CHOOSE g : Adds(g, Finals, Places))[D]

LEMMA MoneyAddsUp ==
  ASSUME RowsTyped
  PROVE  /\ Adds(CHOOSE g : Adds(g, Revenues, Places), Revenues, Places)
         /\ Adds(CHOOSE g : Adds(g, Finals, Places), Finals, Places)
<1>1. (\E g : Adds(g, Revenues, Places)) /\ (\E g : Adds(g, Finals, Places))
  BY TableIs, SumsAreAdded
<1> QED
  BY <1>1

LEMMA GrossIs ==
  ASSUME RowsTyped, NEW C, Part(C)
  PROVE  SumOver(sessionRevenue, C) = Gross(DOMAIN C)
BY MoneyAddsUp, RevenueOver DEF Gross

LEMMA FinalIs ==
  ASSUME RowsTyped, NEW C, Part(C)
  PROVE  SumOver(FinalAmount, C) = Final(DOMAIN C)
BY MoneyAddsUp, FinalOver DEF Final

LEMMA GrossOfParts ==
  ASSUME RowsTyped, NEW A \in SUBSET Kept, NEW B \in SUBSET Kept, A \cap B = {}
  PROVE  Gross(A \cup B) = Gross(A) + Gross(B) /\ Gross(A) \in Nat /\ Gross({}) = 0
<1> DEFINE g == CHOOSE g : Adds(g, Revenues, Places)
<1>1. Adds(g, Revenues, Places)
  BY MoneyAddsUp
<1>2. A \in SUBSET Places /\ B \in SUBSET Places /\ IsFiniteSet(Places)
      /\ Revenues \in [Places -> Int] /\ \A i \in Places : Revenues[i] >= 0
  BY TableIs
<1> HIDE DEF g
<1>3. g[A \cup B] = g[A] + g[B]
  BY <1>1, <1>2, SumOfParts
<1>4. g[A] \in Nat
  BY <1>1, <1>2, SumIsNat
<1>5. g[{}] = 0
  BY <1>1 DEF Adds
<1> QED
  BY <1>3, <1>4, <1>5 DEF Gross, g

\* What the groups of some rows bring in, added up.
LEMMA GroupsAddUp ==
  ASSUME RowsTyped, NEW D \in SUBSET Kept, NEW key, NEW K, IsFiniteSet(K), NEW e,
         e = [k \in K |-> Gross(Group(D, key, k))]
  PROVE  /\ Summed(e, K) = Gross(Grouped(D, key, K))
         /\ Gross(D) = Gross(Grouped(D, key, K)) + Gross(D \ Grouped(D, key, K))
<1> DEFINE g == CHOOSE g : Adds(g, Revenues, Places)
<1>1. Adds(g, Revenues, Places)
  BY MoneyAddsUp
<1>2. D \in SUBSET Places /\ IsFiniteSet(Places) /\ Revenues \in [Places -> Int]
  BY TableIs
<1>3. \A k \in K : Group(D, key, k) \in SUBSET Kept
  BY DEF Group
<1>4. \A k \in K : e[k] = g[Group(D, key, k)] /\ e[k] \in Int
  <2> SUFFICES ASSUME NEW k \in K PROVE e[k] = g[Group(D, key, k)] /\ e[k] \in Int
    OBVIOUS
  <2> DEFINE G == Group(D, key, k)
  <2>1. e[k] = Gross(G)
    OBVIOUS
  <2>2. G \in SUBSET Kept /\ {} \in SUBSET Kept /\ G \cap {} = {}
    BY <1>3
  <2> HIDE DEF G
  <2>3. Gross(G) \in Nat
    BY <2>2, GrossOfParts
  <2>4. e[k] = g[G] /\ e[k] \in Int
    BY <2>1, <2>3 DEF Gross
  <2> QED
    BY <2>4 DEF G
<1>5. e \in [K -> Int]
  <2> DEFINE v(k) == Gross(Group(D, key, k))
  <2>1. e = [k \in K |-> v(k)] /\ \A k \in K : v(k) \in Int
    BY <1>4
  <2> HIDE DEF v
  <2> QED
    BY <2>1
<1> HIDE DEF g
<1>6. Sums(e, K)[K] = g[Grouped(D, key, K)]
  BY <1>1, <1>2, <1>4, <1>5, SumByGroups
<1>7. Summed(e, K) = Sums(e, K)[K]
  BY <1>5, SummedIs
<1> DEFINE A == Grouped(D, key, K)
           B == D \ A
<1>8. A \in SUBSET Kept /\ B \in SUBSET Kept /\ A \cap B = {} /\ D = A \cup B
  BY DEF Grouped
<1> HIDE DEF A, B
<1>9. Gross(D) = Gross(A) + Gross(B)
  BY <1>8, GrossOfParts
<1> QED
  BY <1>6, <1>7, <1>9 DEF Gross, g, A, B

-----------------------------------------------------------------------------
(***************************************************************************)
(* The parts of the home page.                                             *)
(***************************************************************************)
Charts == {"day", "week", "month", "year"}

LEMMA WeekDays ==
  ASSUME NEW d \in Nat
  PROVE  d % DaysPerWeek \in 0 .. DaysPerWeek - 1 /\ d % DaysPerWeek <= d
<1> DEFINE w == DaysPerWeek
<1>1. w \in Nat \ {0}
  BY CalendarAssumption
<1> HIDE DEF w
<1>2. d % w \in 0 .. w - 1 /\ d = w * (d \div w) + (d % w) /\ d \div w \in Int
  BY <1>1
<1>3. ASSUME d \div w < 0 PROVE FALSE
  <2>1. w * (d \div w) \in Int /\ w * (d \div w) + w <= w * 0 /\ w * 0 = 0
    BY <1>1, <1>2, <1>3, Multiples
  <2> DEFINE x == w * (d \div w)
             r == d % w
  <2>2. x \in Int /\ x + w <= 0 /\ d = x + r /\ r \in 0 .. w - 1
    BY <1>2, <2>1
  <2> HIDE DEF x, r
  <2> QED
    BY <1>1, <2>2
<1>4. w * (d \div w) \in Int /\ w * (d \div w) >= 0
  BY <1>1, <1>2, <1>3
<1>5. d % w <= d
  <2> DEFINE x == w * (d \div w)
             r == d % w
  <2>1. x \in Int /\ x >= 0 /\ d = x + r /\ r \in 0 .. w - 1
    BY <1>2, <1>4
  <2> HIDE DEF x, r
  <2>2. r <= d
    BY <1>1, <2>1
  <2> QED
    BY <2>2 DEF r
<1> QED
  BY <1>2, <1>5 DEF w

LEMMA BucketsAreNumbers ==
  ASSUME NEW chart \in Charts, NEW t \in Hour, NEW range, range[1] \in Calendar
  PROVE  Bucket(chart, t) \in Nat /\ BucketCount(chart, range) \in Nat
<1>1. Day(t) \in Nat /\ Day(t) \in Calendar /\ t \in Nat
  BY HoursAreDated
<1>2. HourOf(t) \in Nat /\ HoursPerDay \in Nat
  <2>1. HourOf(t) \in 0 .. HoursPerDay - 1 /\ HoursPerDay \in Nat
    BY <1>1, HoursOfDay, FiguresAssumption
  <2> QED
    BY <2>1
<1>3. Day(t) % DaysPerWeek \in Nat /\ DaysPerWeek \in Nat
  <2> DEFINE d == Day(t)
             r == d % DaysPerWeek
  <2>1. r \in 0 .. DaysPerWeek - 1 /\ DaysPerWeek \in Nat
    BY <1>1, WeekDays, CalendarAssumption
  <2> HIDE DEF r
  <2>2. r \in Nat
    BY <2>1
  <2> QED
    BY <2>1, <2>2 DEF r
<1>4. Day(t) - FirstDay(MonthOf(Day(t))) \in Nat /\ MonthLengths[MonthOf(range[1])] \in Nat
  <2>1. MonthOf(Day(t)) \in Month /\ Day(t) \in DaysOf(MonthOf(Day(t))) /\ MonthOf(range[1]) \in Month
    BY <1>1, OneMonth
  <2>2. FirstDay(MonthOf(Day(t))) \in Nat /\ FirstDay(MonthOf(Day(t))) <= Day(t)
    BY <2>1, MonthsFollow DEF DaysOf
  <2>3. MonthLengths[MonthOf(range[1])] \in Nat
    BY <2>1, MonthsAreListed
  <2> QED
    BY <1>1, <2>2, <2>3
<1>5. MonthOf(Day(t)) - 1 \in Nat /\ Cardinality(Month) \in Nat
  <2>1. MonthOf(Day(t)) \in 1 .. Len(MonthLengths)
    BY <1>1, OneMonth, MonthsAreListed
  <2> QED
    BY <2>1, MonthsAreListed, FS_CardinalityType
<1> QED
  BY <1>2, <1>3, <1>4, <1>5 DEF Charts, Bucket, BucketCount

\* No massage is outside the chart when the dates are those of one month.
LEMMA EveryMassageHasABar ==
  ASSUME NEW chart \in Charts, NEW t \in Hour, NEW range, range[1] \in Calendar,
         InRange(range, t), range[2] \in DaysOf(MonthOf(range[1])) \/ chart # "month"
  PROVE  Bucket(chart, t) < BucketCount(chart, range)
<1>1. Day(t) \in Nat /\ Day(t) \in Calendar /\ t \in Nat
  BY HoursAreDated
<1>2. CASE chart = "day"
  <2>1. HourOf(t) \in 0 .. HoursPerDay - 1 /\ HoursPerDay \in Nat
    BY <1>1, HoursOfDay, FiguresAssumption
  <2> QED
    BY <1>2, <2>1 DEF Bucket, BucketCount
<1>3. CASE chart = "week"
  <2>1. Day(t) % DaysPerWeek \in 0 .. DaysPerWeek - 1 /\ DaysPerWeek \in Nat
    BY <1>1, WeekDays, CalendarAssumption
  <2> QED
    BY <1>3, <2>1 DEF Bucket, BucketCount
<1>4. CASE chart = "month"
  <2>1. range[2] \in DaysOf(MonthOf(range[1]))
    BY <1>4
  <2>2. Day(t) \in Int /\ range[1] <= Day(t) /\ Day(t) <= range[2]
    BY <1>1 DEF InRange
  <2>3. Day(t) - FirstDay(MonthOf(Day(t))) \in 0 .. MonthLengths[MonthOf(range[1])] - 1
    BY <2>1, <2>2, DaysBetween
  <2>4. MonthLengths[MonthOf(range[1])] \in Nat
    BY OneMonth, MonthsAreListed
  <2>5. Day(t) - FirstDay(MonthOf(Day(t))) < MonthLengths[MonthOf(range[1])]
    <3> DEFINE x == Day(t) - FirstDay(MonthOf(Day(t)))
               n == MonthLengths[MonthOf(range[1])]
    <3>1. x \in 0 .. n - 1 /\ n \in Nat
      BY <2>3, <2>4
    <3> HIDE DEF x, n
    <3>2. x < n
      BY <3>1
    <3> QED
      BY <3>2 DEF x, n
  <2> QED
    BY <1>4, <2>5 DEF Bucket, BucketCount
<1>5. CASE chart = "year"
  <2>1. MonthOf(Day(t)) \in 1 .. Len(MonthLengths) /\ Len(MonthLengths) \in Nat
    BY <1>1, OneMonth, MonthsAreListed
  <2>2. Cardinality(Month) = Len(MonthLengths)
    <3>1. Month = 1 .. Len(MonthLengths) /\ Len(MonthLengths) \in Nat
      BY MonthsAreListed
    <3> DEFINE n == Len(MonthLengths)
    <3> HIDE DEF n
    <3>2. n \in Nat
      BY <3>1 DEF n
    <3>3. Cardinality(1 .. n) = n
      BY <3>2, FS_Interval
    <3>4. Month = 1 .. n
      BY <3>1 DEF n
    <3>5. Cardinality(Month) = n
      BY <3>3, <3>4
    <3> QED
      BY <3>5 DEF n
  <2>3. MonthOf(Day(t)) - 1 < Cardinality(Month)
    BY <2>1, <2>2
  <2> QED
    BY <1>5, <2>3 DEF Bucket, BucketCount
<1> QED
  BY <1>2, <1>3, <1>4, <1>5 DEF Charts

\* The shop has been open for a day.
SecondDay == now >= HoursPerDay

LEMMA TodayIs ==
  ASSUME now \in Hour
  PROVE  /\ Today \in Nat /\ Today \in Calendar /\ Today \in 0 .. LastDay
         /\ SecondDay => Today - 1 \in Calendar /\ Today >= 1
<1>1. Today \in Nat /\ Today \in Calendar /\ Today \in 0 .. LastDay
  BY HoursAreDated DEF Today
<1>2. ASSUME SecondDay PROVE Today >= 1
  <2> DEFINE h == HoursPerDay
             q == Today
             r == HourOf(now)
  <2>1. h \in Nat /\ h > 0 /\ now \in Int /\ now >= h
    BY <1>2, FiguresAssumption, HoursAreDated DEF SecondDay
  <2>2. q \in Nat /\ r \in 0 .. h - 1 /\ now = h * q + r
    BY <1>1, <2>1, HoursOfDay DEF Today
  <2> HIDE DEF h, r, q
  <2>3. q = 0 => now = r
    BY <2>1, <2>2
  <2>4. q >= 1
    BY <2>1, <2>2, <2>3
  <2> QED
    BY <2>4 DEF q
<1>3. ASSUME SecondDay PROVE Today - 1 \in 0 .. LastDay
  <2>1. Today >= 1 /\ Today \in Nat /\ Today <= LastDay
    BY <1>1, <1>2, <1>3
  <2>2. LastDay \in Int
    BY FiguresAssumption, HoursOfDay DEF LastDay
  <2> QED
    BY <2>1, <2>2
<1> QED
  BY <1>1, <1>2, <1>3, CalendarAssumption

LEMMA RangeStarts ==
  ASSUME now \in Hour, SecondDay, NEW raw \in RawFilter
  PROVE  Asked(raw).range[1] \in Calendar
<1> DEFINE dates == IF raw.preset = "custom" THEN raw.dates ELSE resolvePresetDates(raw.preset, Today)
<1>1. Asked(raw).range[1] = dates[1]
  BY DEF Asked, Normalized, buildDateRangeFilter
<1>2. raw.preset \in {"custom", "today", "yesterday", "week", "month", "year"} /\ raw.dates \in Calendar \X Calendar
  BY CalendarAssumption
<1>3. Today \in Nat /\ Today \in Calendar /\ Today - 1 \in Calendar /\ Today <= LastDay
  BY TodayIs
<1>4. 0 \in Calendar /\ Today - (Today % DaysPerWeek) \in Calendar
  <2> DEFINE w == Today % DaysPerWeek
  <2>1. w \in 0 .. DaysPerWeek - 1 /\ w <= Today /\ DaysPerWeek \in Nat
    BY <1>3, WeekDays, CalendarAssumption
  <2> HIDE DEF w
  <2>2. Today - w \in 0 .. LastDay /\ 0 \in 0 .. LastDay
    <3>1. LastDay \in Int
      BY FiguresAssumption, HoursOfDay DEF LastDay
    <3> QED
      BY <1>3, <2>1, <3>1
  <2>3. Today - w \in Calendar /\ 0 \in Calendar
    BY <2>2, CalendarAssumption
  <2> QED
    BY <2>3 DEF w
<1>5. FirstDay(MonthOf(Today)) \in Calendar
  <2> DEFINE m == MonthOf(Today)
  <2>1. m \in Month
    BY <1>3, OneMonth
  <2> HIDE DEF m
  <2>2. FirstDay(m) \in Nat /\ MonthLengths[m] \in Nat /\ MonthLengths[m] > 0
    BY <2>1, MonthsFollow, MonthsAreListed
  <2>3. FirstDay(m) \in DaysOf(m)
    BY <2>2 DEF DaysOf
  <2>4. FirstDay(m) \in Calendar
    BY <2>1, <2>3 DEF Calendar
  <2> QED
    BY <2>4 DEF m
<1>6. CASE raw.preset = "custom"
  BY <1>1, <1>2, <1>6
<1>7. CASE raw.preset # "custom"
  <2>1. dates = resolvePresetDates(raw.preset, Today)
    BY <1>7
  <2> HIDE DEF dates
  <2>2. dates[1] \in {Today, Today - 1, Today - (Today % DaysPerWeek), FirstDay(MonthOf(Today)), 0}
    BY <1>2, <2>1 DEF resolvePresetDates
  <2> QED
    BY <1>1, <1>3, <1>4, <1>5, <2>2 DEF dates
<1> QED
  BY <1>6, <1>7

LEMMA CountedIsPart ==
  ASSUME NEW f
  PROVE  Part(Counted(f)) /\ DOMAIN Counted(f) = Matching(f, rows) /\ Matching(f, rows) \in SUBSET Kept
<1>1. Matching(f, rows) \in SUBSET Kept
  BY DEF Matching, Matches, Where, Kept
<1>2. DOMAIN Counted(f) = Matching(f, rows) /\ \A i \in Matching(f, rows) : Counted(f)[i] = rows[i]
  BY DEF Counted
<1> QED
  BY <1>1, <1>2 DEF Part

LEMMA SummaryIs ==
  ASSUME RowsTyped, NEW C, Part(C)
  PROVE  Summary(C).gross = Gross(DOMAIN C) /\ Summary(C).sessions = Cardinality(DOMAIN C)
BY GrossIs DEF Summary

LEMMA ChairsAddUp ==
  ASSUME RowsTyped, NEW C, Part(C)
  PROVE  Summary(C).gross = MapThenSumSet(LAMBDA c : ByChair(C)[c], enabled)
                               + SumOver(sessionRevenue, Only(LAMBDA r : r.chair \notin enabled, C))
<1> DEFINE D == DOMAIN C
           key == [i \in D |-> rows[i].chair]
           e == ByChair(C)
           hidden == Only(LAMBDA r : r.chair \notin enabled, C)
<1>1. D \in SUBSET Kept /\ \A i \in D : C[i] = rows[i]
  BY DEF Part
<1>2. ASSUME NEW c \in enabled
      PROVE  SumOver(sessionRevenue, Only(LAMBDA r : r.chair = c, C)) = Gross(Group(D, key, c))
  <2> DEFINE O == Only(LAMBDA r : r.chair = c, C)
  <2>1. DOMAIN O = {i \in D : C[i].chair = c} /\ \A i \in DOMAIN O : O[i] = C[i]
    BY DEF Only
  <2>2. DOMAIN O = Group(D, key, c)
    BY <1>1, <2>1 DEF Group
  <2>3. Part(O)
    BY <1>1, <2>1 DEF Part
  <2> HIDE DEF O
  <2>4. SumOver(sessionRevenue, O) = Gross(DOMAIN O)
    BY <2>3, GrossIs
  <2> QED
    BY <2>2, <2>4 DEF O
<1>3. e = [c \in enabled |-> Gross(Group(D, key, c))]
  BY <1>2 DEF ByChair
<1>4. /\ DOMAIN hidden = {i \in D : C[i].chair \notin enabled}
      /\ \A i \in DOMAIN hidden : hidden[i] = C[i]
  BY DEF Only
<1>5. DOMAIN hidden = D \ Grouped(D, key, enabled) /\ Part(hidden)
  BY <1>1, <1>4 DEF Grouped, Part
<1>6. IsFiniteSet(enabled)
  BY CalendarAssumption, FS_Subset DEF RowsTyped
<1> HIDE DEF key, e, hidden
<1>7. Gross(D) = Summed(e, enabled) + Gross(DOMAIN hidden)
  BY <1>1, <1>3, <1>5, <1>6, GroupsAddUp
<1>8. SumOver(sessionRevenue, hidden) = Gross(DOMAIN hidden)
  BY <1>5, GrossIs
<1>9. Summary(C).gross = Summed(e, enabled) + SumOver(sessionRevenue, hidden)
  BY <1>7, <1>8, SummaryIs
<1> QED
  BY <1>9 DEF e, hidden, Summed

\* The bars of a chart, and what is past the last one.
Bars(chart, range, C) ==
  [b \in 0 .. BucketCount(chart, range) - 1 |->
     SumOver(sessionRevenue, Only(LAMBDA r : Bucket(chart, r.at) = b, C))]
PastBars(chart, range, C) ==
  Only(LAMBDA r : Bucket(chart, r.at) >= BucketCount(chart, range), C)

LEMMA BarsAddUp ==
  ASSUME RowsTyped, NEW C, Part(C), NEW chart \in Charts, NEW range, range[1] \in Calendar
  PROVE  /\ Gross(DOMAIN C) = Summed(Bars(chart, range, C), 0 .. BucketCount(chart, range) - 1)
                                + SumOver(sessionRevenue, PastBars(chart, range, C))
         /\ Summed(Bars(chart, range, C), 0 .. BucketCount(chart, range) - 1) \in Nat
<1> DEFINE D == DOMAIN C
           n == BucketCount(chart, range)
           K == 0 .. n - 1
           key == [i \in D |-> Bucket(chart, rows[i].at)]
           e == Bars(chart, range, C)
           noBar == PastBars(chart, range, C)
<1>1. D \in SUBSET Kept /\ \A i \in D : C[i] = rows[i]
  BY DEF Part
<1>2. ASSUME NEW b \in K
      PROVE  SumOver(sessionRevenue, Only(LAMBDA r : Bucket(chart, r.at) = b, C)) = Gross(Group(D, key, b))
  <2> DEFINE O == Only(LAMBDA r : Bucket(chart, r.at) = b, C)
  <2>1. DOMAIN O = {i \in D : Bucket(chart, C[i].at) = b} /\ \A i \in DOMAIN O : O[i] = C[i]
    BY DEF Only
  <2>2. DOMAIN O = Group(D, key, b)
    BY <1>1, <2>1 DEF Group
  <2>3. Part(O)
    BY <1>1, <2>1 DEF Part
  <2> HIDE DEF O
  <2>4. SumOver(sessionRevenue, O) = Gross(DOMAIN O)
    BY <2>3, GrossIs
  <2> QED
    BY <2>2, <2>4 DEF O
<1>3. e = [b \in K |-> Gross(Group(D, key, b))]
  BY <1>2 DEF Bars
<1>4. /\ DOMAIN noBar = {i \in D : Bucket(chart, C[i].at) >= n}
      /\ \A i \in DOMAIN noBar : noBar[i] = C[i]
  BY DEF Only, PastBars
<1>5. \A i \in D : key[i] \in Nat /\ n \in Nat
  <2> SUFFICES ASSUME NEW i \in D PROVE Bucket(chart, rows[i].at) \in Nat /\ n \in Nat
    OBVIOUS
  <2>1. rows[i] \in Row
    BY <1>1, RowIsTyped
  <2>2. rows[i].at \in Hour
    BY <2>1 DEF Row
  <2> QED
    BY <2>2, BucketsAreNumbers
<1>6. DOMAIN noBar = D \ Grouped(D, key, K) /\ Part(noBar)
  <2>1. Part(noBar)
    BY <1>1, <1>4 DEF Part
  <2>2. \A i \in D : key[i] = Bucket(chart, C[i].at)
    BY <1>1
  <2> HIDE DEF key, n, noBar
  <2>3. \A i \in D : key[i] >= n <=> key[i] \notin K
    BY <1>5
  <2>4. DOMAIN noBar = {i \in D : key[i] \notin K}
    BY <1>4, <2>2, <2>3
  <2> QED
    BY <2>1, <2>4 DEF Grouped
<1>7. IsFiniteSet(K)
  <2>1. 0 \in Hour
    BY FiguresAssumption DEF Hour
  <2>2. n \in Nat
    BY <2>1, BucketsAreNumbers
  <2> HIDE DEF n
  <2> QED
    BY <2>2, FS_Interval
<1> HIDE DEF key, K, noBar, e
<1> DEFINE A == Grouped(D, key, K)
<1>8. Summed(e, K) = Gross(A) /\ Gross(D) = Summed(e, K) + Gross(DOMAIN noBar)
  <2> D \in SUBSET Kept
    BY <1>1
  <2> HIDE DEF D
  <2>1. /\ Summed(e, K) = Gross(Grouped(D, key, K))
        /\ Gross(D) = Gross(Grouped(D, key, K)) + Gross(D \ Grouped(D, key, K))
    BY <1>3, <1>7, GroupsAddUp
  <2> QED
    BY <1>6, <2>1
<1>9. SumOver(sessionRevenue, noBar) = Gross(DOMAIN noBar)
  BY <1>6, GrossIs
<1>10. Gross(D) = Summed(e, K) + SumOver(sessionRevenue, noBar)
  BY <1>8, <1>9
<1>11. Summed(e, K) \in Nat
  <2>1. A \subseteq D
    BY DEF Grouped
  <2> HIDE DEF A, D
  <2>2. A \in SUBSET Kept /\ {} \in SUBSET Kept /\ A \cap {} = {}
    BY <1>1, <2>1
  <2>3. Gross(A) \in Nat
    BY <2>2, GrossOfParts
  <2> QED
    BY <1>8, <2>3
<1> QED
  BY <1>10, <1>11 DEF K, noBar, e

LEMMA ChartAddsUp ==
  ASSUME RowsTyped, NEW f, f.chart \in Charts, f.range[1] \in Calendar
  PROVE  /\ Summary(Counted(f)).gross =
              ChartTotal(f, Counted(f)) + SumOver(sessionRevenue, PastBars(f.chart, f.range, Counted(f)))
         /\ f.range[2] \in DaysOf(MonthOf(f.range[1])) =>
              PastBars(f.chart, f.range, Counted(f)) = <<>>
<1> DEFINE C == Counted(f)
           chart == f.chart
           range == f.range
           n == BucketCount(chart, range)
           e == Bars(chart, range, C)
           noBar == PastBars(chart, range, C)
<1>1. Part(C) /\ DOMAIN C = Matching(f, rows)
  BY CountedIsPart
<1> HIDE DEF C
<1>2. ChartTotal(f, C) = Summed(e, 0 .. n - 1)
  <2>1. DOMAIN e = 0 .. n - 1
    BY DEF Bars
  <2>2. ChartTotal(f, C) = Summed(e, DOMAIN e)
    BY DEF ChartTotal, Summed, Chart, Bars
  <2> HIDE DEF e
  <2> QED
    BY <2>1, <2>2
<1>3. chart \in Charts /\ range[1] \in Calendar
  OBVIOUS
<1>4. Gross(DOMAIN C) = Summed(e, 0 .. n - 1) + SumOver(sessionRevenue, noBar)
  <2> HIDE DEF chart, range
  <2> QED
    BY <1>1, <1>3, BarsAddUp
<1>5. Summary(C).gross = ChartTotal(f, C) + SumOver(sessionRevenue, noBar)
  BY <1>1, <1>2, <1>4, SummaryIs
<1>6. ASSUME range[2] \in DaysOf(MonthOf(range[1])) PROVE noBar = <<>>
  <2>1. ASSUME NEW i \in DOMAIN C PROVE ~(Bucket(chart, C[i].at) >= n)
    <3>1. i \in Kept /\ C[i] = rows[i] /\ InRange(range, rows[i].at)
      BY <1>1 DEF Part, Matching, Matches, Where
    <3>2. rows[i].at \in Hour
      BY <3>1, RowIsTyped DEF Row
    <3>3. Bucket(chart, rows[i].at) < n /\ Bucket(chart, rows[i].at) \in Nat /\ n \in Nat
      BY <1>3, <1>6, <3>1, <3>2, EveryMassageHasABar, BucketsAreNumbers
    <3> HIDE DEF n, chart
    <3>4. ~(Bucket(chart, rows[i].at) >= n)
      BY <3>3
    <3> QED
      BY <3>1, <3>4
  <2>2. DOMAIN noBar = {i \in DOMAIN C : Bucket(chart, C[i].at) >= n} /\ noBar = [i \in DOMAIN noBar |-> C[i]]
    BY DEF Only, PastBars
  <2> HIDE DEF noBar
  <2>3. DOMAIN noBar = {}
    BY <2>1, <2>2
  <2>4. noBar = [i \in {} |-> C[i]]
    BY <2>2, <2>3
  <2> QED
    BY <2>4
<1> QED
  BY <1>5, <1>6 DEF C

\* The counters of the summary are those of the page filtered by status.
LEMMA CountersAgree ==
  ASSUME NEW f, f.status = All, NEW status \in {"ACTIVE", "COMPLETED", "PENDING", "CORRECTED"},
         NEW h, h.status = status, h.range = f.range, h.staff = f.staff, h.shift = f.shift,
         h.chair = f.chair, h.window = f.window
  PROVE  Summary(Counted(f))[status] = Summary(Counted(h)).sessions
<1> DEFINE C == Counted(f)
           D == Matching(f, rows)
           E == Matching(h, rows)
<1>1. Part(C) /\ DOMAIN C = D /\ DOMAIN Counted(h) = E /\ \A i \in D : C[i] = rows[i]
  BY CountedIsPart DEF Part
<1>2. ASSUME NEW i \in DOMAIN rows
      PROVE  i \in E <=> i \in D /\ statusWhere(status, rows[i])
  <2>1. statusWhere(status, rows[i]) => statusWhere(All, rows[i])
    BY CalendarAssumption DEF statusWhere
  <2> QED
    BY <2>1 DEF Matching, Matches, Where
<1>3. D \in SUBSET DOMAIN rows /\ E \in SUBSET DOMAIN rows
  BY DEF Matching
<1>4. \A i \in D : rows[i].status # "CANCELLED"
  BY CalendarAssumption DEF Matching, Matches, Where, statusWhere
<1> HIDE DEF C, D, E
<1>5. E = {i \in D : statusWhere(status, C[i])}
  BY <1>1, <1>2, <1>3
<1>6. Summary(Counted(h)).sessions = Cardinality(E)
  BY <1>1 DEF Summary
<1>7. \A i \in D : C[i].status # "CANCELLED"
  BY <1>1, <1>4
<1>8. CASE status = "ACTIVE"
  <2>1. Summary(C).ACTIVE = Cardinality({i \in D : C[i].status = "ACTIVE"})
    BY <1>1 DEF Summary, CountOf
  <2>2. E = {i \in D : C[i].status = "ACTIVE"}
    BY <1>5, <1>8 DEF statusWhere
  <2> QED
    BY <1>6, <1>8, <2>1, <2>2 DEF C
<1>9. CASE status = "COMPLETED"
  <2>1. Summary(C).COMPLETED = Cardinality({i \in D : C[i].status = "COMPLETED"})
    BY <1>1 DEF Summary, CountOf
  <2>2. E = {i \in D : C[i].status = "COMPLETED"}
    BY <1>5, <1>9 DEF statusWhere
  <2> QED
    BY <1>6, <1>9, <2>1, <2>2 DEF C
<1>10. CASE status = "PENDING"
  <2>1. Summary(C).PENDING = Cardinality({i \in D : C[i].billing = "PENDING"})
    BY <1>1 DEF Summary, CountOf
  <2>2. E = {i \in D : C[i].billing = "PENDING"}
    BY <1>5, <1>7, <1>10 DEF statusWhere
  <2> QED
    BY <1>6, <1>10, <2>1, <2>2 DEF C
<1>11. CASE status = "CORRECTED"
  <2>1. Summary(C).CORRECTED =
          Cardinality({i \in D : C[i].billing = "CORRECTED" \/ C[i].corrected # None})
    BY <1>1 DEF Summary, CountOf
  <2>2. E = {i \in D : C[i].billing = "CORRECTED" \/ C[i].corrected # None}
    BY <1>5, <1>7, <1>11 DEF statusWhere
  <2> QED
    BY <1>6, <1>11, <2>1, <2>2 DEF C
<1> QED
  BY <1>8, <1>9, <1>10, <1>11

LEMMA PageAddsUp ==
  ASSUME RowsTyped, SecondDay
  PROVE  HomeAddsUp
<1> SUFFICES ASSUME NEW raw \in world.filters
             PROVE  LET f == Asked(raw)
                        C == Counted(f)
                        hidden == Only(LAMBDA r : r.chair \notin enabled, C)
                        noBar == Only(LAMBDA r : Bucket(f.chart, r.at) >= BucketCount(f.chart, f.range), C)
                    IN /\ Summary(C).gross = MapThenSumSet(LAMBDA c : ByChair(C)[c], enabled)
                                               + SumOver(sessionRevenue, hidden)
                       /\ Summary(C).gross = ChartTotal(f, C) + SumOver(sessionRevenue, noBar)
                       /\ f.range[2] \in DaysOf(MonthOf(f.range[1])) => noBar = <<>>
                       /\ f.status = All =>
                            \A status \in {"ACTIVE", "COMPLETED", "PENDING", "CORRECTED"} :
                              Summary(C)[status] = Summary(Counted([f EXCEPT !.status = status])).sessions
  BY DEF HomeAddsUp
<1> DEFINE f == Asked(raw)
           C == Counted(f)
<1>1. Part(C)
  BY CountedIsPart
<1>2. f.chart \in Charts /\ f.range[1] \in Calendar
  <2> raw \in RawFilter
    BY FiguresAssumption DEF RowsTyped
  <2>1. raw.chart \in Charts
    BY CalendarAssumption DEF Charts
  <2>2. f.chart = raw.chart
    BY DEF Asked, Normalized
  <2> QED
    BY <2>1, <2>2, RangeStarts DEF RowsTyped
<1>3. ASSUME NEW status \in {"ACTIVE", "COMPLETED", "PENDING", "CORRECTED"}, f.status = All
      PROVE  Summary(C)[status] = Summary(Counted([f EXCEPT !.status = status])).sessions
  <2> DEFINE h == [f EXCEPT !.status = status]
  <2>1. /\ h.status = status /\ h.range = f.range /\ h.staff = f.staff /\ h.shift = f.shift
        /\ h.chair = f.chair /\ h.window = f.window
    BY DEF Asked, Normalized
  <2> HIDE DEF h, f
  <2>2. Summary(Counted(f))[status] = Summary(Counted(h)).sessions
    BY <1>3, <2>1, CountersAgree
  <2> QED
    BY <2>2 DEF h
<1> HIDE DEF f
<1>4. Summary(C).gross = ChartTotal(f, C) + SumOver(sessionRevenue, PastBars(f.chart, f.range, C))
  BY <1>2, ChartAddsUp
<1>5. f.range[2] \in DaysOf(MonthOf(f.range[1])) => PastBars(f.chart, f.range, C) = <<>>
  BY <1>2, ChartAddsUp
<1> HIDE DEF C
<1>6. Summary(C).gross = MapThenSumSet(LAMBDA c : ByChair(C)[c], enabled)
                           + SumOver(sessionRevenue, Only(LAMBDA r : r.chair \notin enabled, C))
  BY <1>1, ChairsAddUp
<1> QED
  BY <1>3, <1>4, <1>5, <1>6 DEF C, f, PastBars

-----------------------------------------------------------------------------
(***************************************************************************)
(* A massage started in the past, and one that was cancelled is hidden.    *)
(***************************************************************************)
RowSound(r, t) == r.at <= t /\ (r.status = "CANCELLED" => r.archived)
TimesInv == SecondDay /\ \A i \in Kept : RowSound(rows[i], now)

LEMMA InsertIsSound ==
  ASSUME RowsTyped, TimesInv, NEW row \in Row, Insert(row), RowSound(row, now)
  PROVE  TimesInv'
<1>1. rows \in Seq(Row \cup {None}) /\ Len(rows) \in Nat
  BY DEF RowsTyped
<1>2. rows' = Append(rows, row) /\ now' = now
  BY DEF Insert
<1>3. /\ DOMAIN rows' = DOMAIN rows \cup {Len(rows) + 1}
      /\ rows'[Len(rows) + 1] = row
      /\ \A i \in DOMAIN rows : rows'[i] = rows[i]
  BY <1>1, <1>2
<1>4. ASSUME NEW i \in Kept' PROVE RowSound(rows'[i], now)
  BY <1>3, <1>4 DEF Kept, TimesInv
<1> QED
  BY <1>2, <1>4 DEF TimesInv, SecondDay

LEMMA WriteIsSound ==
  ASSUME RowsTyped, TimesInv, NEW i \in Kept, NEW row, Write(i, row),
         row # None => RowSound(row, now)
  PROVE  TimesInv'
<1>1. rows' = [rows EXCEPT ![i] = row] /\ now' = now
  BY DEF Write
<1>2. DOMAIN rows' = DOMAIN rows /\ \A j \in DOMAIN rows : rows'[j] = IF j = i THEN row ELSE rows[j]
  BY <1>1 DEF Kept
<1>3. ASSUME NEW j \in Kept' PROVE RowSound(rows'[j], now)
  BY <1>2, <1>3 DEF Kept, TimesInv
<1> QED
  BY <1>1, <1>3 DEF TimesInv, SecondDay

LEMMA KeptIsSound ==
  ASSUME RowsTyped, TimesInv, NEW i \in Kept
  PROVE  rows[i] \in Row /\ rows[i].at <= now /\ (rows[i].status = "CANCELLED" => rows[i].archived)
BY RowIsTyped DEF TimesInv, RowSound

LEMMA HandlersAreSound ==
  ASSUME FiguresTyped, TimesInv, NEW i \in DOMAIN rows,
         \/ finalize(i) \/ review(i) \/ correct(i) \/ deleteSession(i)
         \/ \E p \in Plan : changePlan(i, p)
  PROVE  TimesInv'
<1>1. RowsTyped
  BY DEF FiguresTyped
<1>2. i \in Kept
  BY DEF finalize, review, correct, deleteSession, changePlan
<1>3. rows[i] \in Row /\ rows[i].at <= now /\ (rows[i].status = "CANCELLED" => rows[i].archived)
  BY <1>1, <1>2, KeptIsSound
<1>4. CASE finalize(i)
  <2> DEFINE Billed(price) == [rows[i] EXCEPT !.status = "COMPLETED",
                                 !.expected = price.amount, !.billing = price.billing,
                                 !.plan = price.plan, !.anomaly = @ \cup price.anomaly]
  <2>1. \E d \in Duration : \E price \in calculateSessionPrice(d) : Write(i, Billed(price))
    BY <1>4 DEF finalize
  <2>2. \A price : RowSound(Billed(price), now)
    BY <1>3 DEF RowSound, Row
  <2> HIDE DEF Billed
  <2>3. PICK d \in Duration : \E price \in calculateSessionPrice(d) : Write(i, Billed(price))
    BY <2>1
  <2>4. PICK price \in calculateSessionPrice(d) : Write(i, Billed(price))
    BY <2>3
  <2> QED
    BY <1>1, <1>2, <2>2, <2>4, WriteIsSound
<1>5. CASE review(i)
  <2> DEFINE row == [rows[i] EXCEPT !.status = "UNCERTAIN", !.billing = "DISPUTED",
                                    !.anomaly = @ \cup {"STALE_NEEDS_REVIEW"}]
  <2>1. Write(i, row)
    BY <1>5 DEF review
  <2>2. RowSound(row, now)
    BY <1>3 DEF RowSound, Row
  <2> HIDE DEF row
  <2> QED
    BY <1>1, <1>2, <2>1, <2>2, WriteIsSound
<1>6. CASE correct(i)
  <2> DEFINE Given(amount) == [rows[i] EXCEPT !.corrected = amount, !.billing = "CORRECTED"]
             cleared == [rows[i] EXCEPT !.corrected = None,
                                   !.billing = IF rows[i].expected # None THEN "CALCULATED"
                                               ELSE "PENDING"]
  <2>1. (\E amount \in Correction : Write(i, Given(amount))) \/ Write(i, cleared)
    BY <1>6 DEF correct
  <2>2. RowSound(cleared, now) /\ \A amount : RowSound(Given(amount), now)
    BY <1>3 DEF RowSound, Row
  <2> HIDE DEF Given, cleared
  <2> QED
    BY <1>1, <1>2, <2>1, <2>2, WriteIsSound
<1>7. CASE deleteSession(i)
  <2>1. Write(i, Archived(rows[i])) \/ Write(i, None)
    BY <1>7 DEF deleteSession
  <2>2. RowSound(Archived(rows[i]), now)
    BY <1>3 DEF RowSound, Row, Archived
  <2> QED
    BY <1>1, <1>2, <2>1, <2>2, WriteIsSound
<1>8. CASE \E p \in Plan : changePlan(i, p)
  <2>1. PICK p \in Plan : changePlan(i, p)
    BY <1>8
  <2> DEFINE row == [rows[i] EXCEPT !.plan = p, !.expected = plans[p].price,
                                    !.billing = "CALCULATED", !.anomaly = {}]
  <2>2. Write(i, row)
    BY <2>1 DEF changePlan
  <2>3. RowSound(row, now)
    BY <1>3 DEF RowSound, Row
  <2> HIDE DEF row
  <2> QED
    BY <1>1, <1>2, <2>2, <2>3, WriteIsSound
<1> QED
  BY <1>4, <1>5, <1>6, <1>7, <1>8

LEMMA TimesHold ==
  /\ Init => TimesInv
  /\ FiguresInv /\ TimesInv /\ [Next]_vars => TimesInv'
<1>1. ASSUME Init PROVE TimesInv
  <2>1. world.first \in HoursPerDay .. LastHour
    BY <1>1, FiguresAssumption DEF Init
  <2>2. now >= HoursPerDay
    BY <1>1, <2>1, FiguresAssumption DEF Init
  <2>3. Kept = {}
    BY <1>1 DEF Init, Kept
  <2> QED
    BY <2>2, <2>3 DEF TimesInv, SecondDay
<1>2. ASSUME FiguresInv, TimesInv, [Next]_vars PROVE TimesInv'
  <2>1. FiguresTyped /\ RowsTyped
    BY <1>2, FiguresTypedInv DEF FiguresTyped
  <2>2. CASE \E c \in enabled : start(c) \/ disable(c)
    <3>1. PICK c \in enabled : start(c) \/ disable(c)
      BY <2>2
    <3>2. CASE disable(c)
      BY <1>2, <3>2 DEF disable, TimesInv, SecondDay, Kept
    <3>3. CASE start(c)
      <4> DEFINE Row1(at) ==
            [chair |-> c, shift |-> ShiftAt[now], at |-> at, status |-> "ACTIVE",
             expected |-> None, corrected |-> None, billing |-> "PENDING",
             anomaly |-> IF ShiftAt[now] = None THEN {"NO_OPEN_SHIFT"} ELSE {},
             plan |-> None, archived |-> FALSE]
      <4>1. PICK at \in {now - 1, now} \cap Hour : Insert(Row1(at))
        BY <3>3 DEF start
      <4>2. c \in Chair /\ ShiftAt[now] \in Shift \cup {None} /\ now \in Nat
        BY <2>1, FiguresAssumption DEF RowsTyped, Hour
      <4>3. Row1(at) \in Row
        BY <4>2 DEF Row
      <4>4. RowSound(Row1(at), now)
        BY <4>2 DEF RowSound
      <4> HIDE DEF Row1
      <4> QED
        BY <1>2, <2>1, <4>1, <4>3, <4>4, InsertIsSound
    <3> QED
      BY <3>1, <3>2, <3>3
  <2>3. CASE \E i \in DOMAIN rows :
               \/ finalize(i) \/ review(i) \/ correct(i) \/ deleteSession(i)
               \/ \E p \in Plan : changePlan(i, p)
    BY <1>2, <2>1, <2>3, HandlersAreSound
  <2>4. CASE Tick
    <3>1. now \in Nat /\ HoursPerDay \in Nat /\ now' = now + 1 /\ rows' = rows
      BY <2>1, <2>4, FiguresAssumption DEF Tick, RowsTyped, Hour
    <3>2. Kept' = Kept
      BY <3>1 DEF Kept
    <3>3. ASSUME NEW i \in Kept PROVE RowSound(rows[i], now')
      <4>1. rows[i].at \in Nat /\ rows[i].at <= now
        BY <1>2, <2>1, KeptIsSound, RowFields
      <4> QED
        BY <1>2, <3>1, <4>1, KeptIsSound, <2>1 DEF RowSound
    <3> QED
      BY <1>2, <3>1, <3>2, <3>3 DEF TimesInv, SecondDay
  <2>5. CASE UNCHANGED <<now, rows>>
    BY <1>2, <2>5 DEF TimesInv, SecondDay, Kept
  <2>6. CASE Tariffs \/ CommissionRules \/ BonusRules \/ RuleCreation
               \/ (\E raw \in world.filters : Open(raw)) \/ NextBatch \/ UNCHANGED vars
    <3>1. UNCHANGED <<now, rows>>
      BY <2>6 DEF Tariffs, CommissionRules, BonusRules, RuleCreation, Open, NextBatch, vars
    <3> QED
      BY <2>5, <3>1
  <2> QED
    BY <1>2, <2>2, <2>3, <2>4, <2>6 DEF Next
<1> QED
  BY <1>1, <1>2

-----------------------------------------------------------------------------
(***************************************************************************)
(* The pages, compared with the home page.                                 *)
(***************************************************************************)
Shown == {i \in Kept : ~rows[i].archived}

LEMMA OperationalIs ==
  Part(Operational) /\ DOMAIN Operational = Shown /\ Shown \in SUBSET Kept
BY DEF Operational, Shown, Part

\* What a filter by dates, shift, chair and hours of the day lets through.
LEMMA MatchingIs ==
  ASSUME NEW f, f.status = All, f.staff = All
  PROVE  Matching(f, rows) =
           {i \in Shown : /\ InRange(f.range, rows[i].at) /\ rows[i].status # "CANCELLED"
                          /\ f.chair # All => rows[i].chair = f.chair
                          /\ f.shift # All => rows[i].shift = f.shift
                          /\ inPeriodWindow(f.window, rows[i].at)}
<1>1. \A i \in Kept : statusWhere(f.status, rows[i]) <=> rows[i].status # "CANCELLED"
  BY CalendarAssumption DEF statusWhere
<1>2. \A i \in DOMAIN rows : i \in Kept <=> rows[i] # None
  BY DEF Kept
<1> QED
  BY <1>1, <1>2 DEF Matching, Matches, Where, Shown, Kept

Periods == {"day", "week", "month", "year"}
RangeOf(period) == resolvePresetDates(PresetOf(period), Today)

LEMMA PeriodRange ==
  ASSUME now \in Hour, NEW period \in Periods
  PROVE  /\ RangeOf(period)[1] \in Calendar
         /\ buildDateRangeFilter(RangeOf(period)) = <<RangeOf(period)[1], RangeOf(period)[2]>>
         /\ RangeOf(period)[2] \in DaysOf(MonthOf(RangeOf(period)[1])) \/ period # "month"
<1> DEFINE r == RangeOf(period)
           w == Today % DaysPerWeek
           m == MonthOf(Today)
<1>1. Today \in Nat /\ Today \in Calendar /\ Today \in 0 .. LastDay
  BY TodayIs
<1>2. w \in 0 .. DaysPerWeek - 1 /\ w <= Today /\ DaysPerWeek \in Nat /\ DaysPerWeek > 0
  BY <1>1, WeekDays, CalendarAssumption
<1>3. m \in Month /\ FirstDay(m) \in Nat /\ MonthLengths[m] \in Nat /\ MonthLengths[m] > 0
  <2>1. m \in Month
    BY <1>1, OneMonth
  <2> HIDE DEF m
  <2> QED
    BY <2>1, MonthsFollow, MonthsAreListed
<1>4. CASE period = "day"
  <2>1. r = <<Today, Today>>
    BY <1>4 DEF RangeOf, PresetOf, resolvePresetDates
  <2> HIDE DEF r
  <2> QED
    BY <1>1, <1>4, <2>1 DEF buildDateRangeFilter, r
<1>5. CASE period = "week"
  <2>1. r = <<Today - w, Today - w + DaysPerWeek - 1>>
    BY <1>5 DEF RangeOf, PresetOf, resolvePresetDates
  <2> HIDE DEF r, w
  <2>2. Today - w \in 0 .. LastDay /\ ~(Today - w + DaysPerWeek - 1 < Today - w)
    <3>1. LastDay \in Int
      BY FiguresAssumption, HoursOfDay DEF LastDay
    <3> QED
      BY <1>1, <1>2, <3>1
  <2>3. Today - w \in Calendar
    BY <2>2, CalendarAssumption
  <2> QED
    BY <1>5, <2>1, <2>2, <2>3 DEF buildDateRangeFilter, r
<1>6. CASE period = "month"
  <2>1. r = <<FirstDay(m), FirstDay(m) + MonthLengths[m] - 1>>
    BY <1>6 DEF RangeOf, PresetOf, resolvePresetDates
  <2> HIDE DEF r, m
  <2>2. /\ FirstDay(m) \in DaysOf(m) /\ FirstDay(m) + MonthLengths[m] - 1 \in DaysOf(m)
        /\ ~(FirstDay(m) + MonthLengths[m] - 1 < FirstDay(m))
    BY <1>3 DEF DaysOf
  <2>3. FirstDay(m) \in Calendar
    BY <1>3, <2>2 DEF Calendar
  <2>4. MonthOf(FirstDay(m)) = m
    BY <1>3, <2>2, <2>3, OneMonth
  <2> QED
    BY <2>1, <2>2, <2>3, <2>4 DEF buildDateRangeFilter, r
<1>7. CASE period = "year"
  <2>1. r = <<0, Max(Calendar)>>
    BY <1>7 DEF RangeOf, PresetOf, resolvePresetDates
  <2> HIDE DEF r
  <2>2. 0 \in Calendar
    <3>1. 0 \in 0 .. LastDay
      <4>1. LastDay \in Int
        BY FiguresAssumption, HoursOfDay DEF LastDay
      <4> QED
        BY <1>1, <4>1
    <3> QED
      BY <3>1, CalendarAssumption
  <2>3. Max(Calendar) \in Nat
    BY CalendarEnds, OneMonth
  <2>4. ~(Max(Calendar) < 0)
    BY <2>3
  <2> QED
    BY <1>7, <2>1, <2>2, <2>4 DEF buildDateRangeFilter, r
<1> QED
  BY <1>4, <1>5, <1>6, <1>7 DEF Periods

\* The sum of the bars as the chart of revenues forms it.
LEMMA BarsAreSummed ==
  ASSUME RowsTyped, NEW C, Part(C), NEW chart \in Charts, NEW range, range[1] \in Calendar
  PROVE  MapThenSumSet(
           LAMBDA b : SumOver(sessionRevenue, Only(LAMBDA r : Bucket(chart, r.at) = b, C)),
           0 .. BucketCount(chart, range) - 1) =
         Summed(Bars(chart, range, C), 0 .. BucketCount(chart, range) - 1)
<1> DEFINE K == 0 .. BucketCount(chart, range) - 1
           Bar(b) == SumOver(sessionRevenue, Only(LAMBDA r : Bucket(chart, r.at) = b, C))
           e == Bars(chart, range, C)
           Folds(h) == h = [s \in SUBSET K |-> IF s = {} THEN 0 ELSE Bar(Pick(s)) + h[s \ {Pick(s)}]]
           fold == CHOOSE h : Folds(h)
<1>1. \A b \in K : e[b] = Bar(b)
  BY DEF Bars
<1>2. ASSUME NEW b \in K PROVE Bar(b) \in Int
  <2> DEFINE O == Only(LAMBDA r : Bucket(chart, r.at) = b, C)
  <2>1. DOMAIN O \subseteq DOMAIN C /\ \A i \in DOMAIN O : O[i] = C[i]
    BY DEF Only
  <2>2. Part(O) /\ DOMAIN O \in SUBSET Kept /\ {} \in SUBSET Kept /\ DOMAIN O \cap {} = {}
    BY <2>1 DEF Part
  <2> HIDE DEF O
  <2>3. SumOver(sessionRevenue, O) \in Int
    BY <2>2, GrossIs, GrossOfParts
  <2> QED
    BY <2>3 DEF O
<1>3. DOMAIN e = K /\ e \in [K -> Int]
  <2>1. e = [b \in K |-> Bar(b)]
    BY DEF Bars
  <2> HIDE DEF e, K, Bar
  <2> QED
    BY <1>2, <2>1
<1>4. IsFiniteSet(K)
  <2> DEFINE n == BucketCount(chart, range)
  <2>1. 0 \in Hour
    BY FiguresAssumption DEF Hour
  <2>2. n \in Nat
    BY <2>1, BucketsAreNumbers
  <2> HIDE DEF n
  <2>3. IsFiniteSet(0 .. n - 1)
    BY <2>2, FS_Interval
  <2> QED
    BY <2>3 DEF n
<1> HIDE DEF K, e, Bar
<1>5. ASSUME NEW h PROVE Folds(h) <=> Unfolds(h, e, K)
  <2>1. ASSUME NEW s \in SUBSET K, s # {} PROVE e[Pick(s)] = Bar(Pick(s))
    BY <1>1, <1>4, <2>1, Smaller
  <2>2. ASSUME NEW s \in SUBSET K
        PROVE  Value(e, h, s) = IF s = {} THEN 0 ELSE Bar(Pick(s)) + h[s \ {Pick(s)}]
    BY <2>1 DEF Value
  <2> QED
    BY <2>2 DEF Unfolds
<1> HIDE DEF Folds
<1>6. Unfolds(fold, e, K)
  <2>1. \E h : Folds(h)
    BY <1>3, <1>4, <1>5, SumsExist
  <2>2. Folds(fold)
    BY <2>1
  <2> QED
    BY <1>5, <2>2
<1>7. MapThenSumSet(Bar, K) = fold[K]
  BY DEF MapThenSumSet, MapThenFoldSet, Pick, fold, Folds
<1> HIDE DEF fold
<1>8. PICK g : Adds(g, e, K)
  BY <1>3, <1>4, SumsAreAdded
<1>9. fold[K] = g[K]
  BY <1>3, <1>4, <1>6, <1>8, FoldIs
<1>10. Summed(e, K) = g[K]
  BY <1>3, <1>4, <1>8, SummedIs, SumsAre
<1>11. MapThenSumSet(Bar, K) = Summed(e, K)
  BY <1>7, <1>9, <1>10
<1> QED
  BY <1>11 DEF K, Bar, e

\* The bars of the chart of revenues are the money of the home page.
LEMMA RevenuesAgree ==
  ASSUME RowsTyped, TimesInv, NEW period \in Periods
  PROVE  RevenueStats(period) =
           Summary(Counted(Asked([TodayAll EXCEPT !.preset = PresetOf(period)]))).gross
<1> DEFINE range == RangeOf(period)
           inside == Only(LAMBDA r : InRange(range, r.at) /\ r.status # "CANCELLED", Operational)
           f == Asked([TodayAll EXCEPT !.preset = PresetOf(period)])
           K == 0 .. BucketCount(period, range) - 1
<1>1. now \in Hour /\ period \in Charts
  BY DEF RowsTyped, Periods, Charts
<1>2. /\ range[1] \in Calendar
      /\ buildDateRangeFilter(range) = <<range[1], range[2]>>
      /\ range[2] \in DaysOf(MonthOf(range[1])) \/ period # "month"
  BY <1>1, PeriodRange
<1>3. /\ f.status = All /\ f.staff = All /\ f.chair = All /\ f.shift = All /\ f.window = All
      /\ f.range = buildDateRangeFilter(range)
  <2>1. PresetOf(period) # "custom"
    BY DEF PresetOf, Periods
  <2> QED
    BY <2>1 DEF Asked, Normalized, TodayAll, RangeOf
<1>4. /\ DOMAIN inside = {i \in Shown : InRange(range, rows[i].at) /\ rows[i].status # "CANCELLED"}
      /\ Part(inside)
  <2>1. DOMAIN Operational = Shown /\ \A i \in Shown : Operational[i] = rows[i]
    BY OperationalIs DEF Part
  <2>2. /\ DOMAIN inside = {i \in DOMAIN Operational : InRange(range, Operational[i].at)
                                                         /\ Operational[i].status # "CANCELLED"}
        /\ \A i \in DOMAIN inside : inside[i] = Operational[i]
    BY DEF Only
  <2> HIDE DEF inside, range
  <2> QED
    BY <2>1, <2>2, OperationalIs DEF Part
<1> HIDE DEF f, inside, range
<1>5. \A t : InRange(f.range, t) <=> InRange(range, t)
  <2>1. f.range[1] = range[1] /\ f.range[2] = range[2]
    BY <1>2, <1>3
  <2> QED
    BY <2>1 DEF InRange
<1>6. DOMAIN inside = Matching(f, rows)
  <2>1. Matching(f, rows) =
           {i \in Shown : /\ InRange(f.range, rows[i].at) /\ rows[i].status # "CANCELLED"
                          /\ f.chair # All => rows[i].chair = f.chair
                          /\ f.shift # All => rows[i].shift = f.shift
                          /\ inPeriodWindow(f.window, rows[i].at)}
    BY <1>3, MatchingIs
  <2>2. \A t : inPeriodWindow(f.window, t)
    BY <1>3 DEF inPeriodWindow
  <2> QED
    BY <1>3, <1>4, <1>5, <2>1, <2>2
<1>7. Gross(DOMAIN inside) = Summary(Counted(f)).gross
  BY <1>6, CountedIsPart, SummaryIs
<1>8. Gross(DOMAIN inside) = Summed(Bars(period, range, inside), K)
                               + SumOver(sessionRevenue, PastBars(period, range, inside))
  BY <1>1, <1>2, <1>4, BarsAddUp
<1>9. SumOver(sessionRevenue, PastBars(period, range, inside)) = 0
  <2> DEFINE noBar == PastBars(period, range, inside)
             n == BucketCount(period, range)
  <2>1. DOMAIN noBar = {i \in DOMAIN inside : Bucket(period, inside[i].at) >= n}
    BY DEF Only, PastBars
  <2>2. ASSUME NEW i \in DOMAIN inside PROVE ~(Bucket(period, inside[i].at) >= n)
    <3>1. i \in Kept /\ inside[i] = rows[i] /\ InRange(range, rows[i].at)
      BY <1>4 DEF Part
    <3>2. rows[i].at \in Hour
      BY <3>1, RowIsTyped DEF Row
    <3>3. Bucket(period, rows[i].at) < n /\ Bucket(period, rows[i].at) \in Nat /\ n \in Nat
      BY <1>1, <1>2, <3>1, <3>2, EveryMassageHasABar, BucketsAreNumbers
    <3> HIDE DEF n
    <3> DEFINE b == Bucket(period, rows[i].at)
    <3>4. b < n /\ b \in Nat
      BY <3>3
    <3> HIDE DEF b
    <3>5. ~(b >= n)
      BY <3>3, <3>4
    <3> QED
      BY <3>1, <3>5 DEF b
  <2> HIDE DEF noBar, n
  <2>3. DOMAIN noBar = {}
    BY <2>1, <2>2
  <2>4. Part(noBar)
    BY <2>3 DEF Part
  <2>5. SumOver(sessionRevenue, noBar) = Gross({})
    BY <2>3, <2>4, GrossIs
  <2>6. Gross({}) = 0
    BY GrossOfParts
  <2> QED
    BY <2>5, <2>6 DEF noBar
<1>10. Gross(DOMAIN inside) \in Nat
  <2>1. DOMAIN inside \in SUBSET Kept /\ {} \in SUBSET Kept /\ DOMAIN inside \cap {} = {}
    BY <1>4 DEF Part
  <2> QED
    BY <2>1, GrossOfParts
<1> DEFINE chart == MapThenSumSet(
             LAMBDA b : SumOver(sessionRevenue, Only(LAMBDA r : Bucket(period, r.at) = b, inside)), K)
<1>11. chart = Summed(Bars(period, range, inside), K)
  BY <1>1, <1>2, <1>4, BarsAreSummed
<1>12. RevenueStats(period) = chart
  BY DEF RevenueStats, RangeOf, range, inside
<1> HIDE DEF chart
<1>13. Summed(Bars(period, range, inside), K) \in Int
  BY <1>1, <1>2, <1>4, BarsAddUp
<1> HIDE DEF K
<1> QED
  BY <1>7, <1>8, <1>9, <1>10, <1>11, <1>12, <1>13 DEF f

\* A massage that still runs brings in nothing yet, unless it is corrected.
RunningOf(D) == {i \in D : rows[i].status = "ACTIVE"}

LEMMA FinalIsGrossAndEarly ==
  ASSUME RowsTyped, NEW D \in SUBSET Kept
  PROVE  Final(D) = Gross(D) + Final(RunningOf(D))
<1> DEFINE gr == CHOOSE g : Adds(g, Revenues, Places)
           fin == CHOOSE g : Adds(g, Finals, Places)
           A == RunningOf(D)
           B == D \ A
<1>1. Adds(gr, Revenues, Places) /\ Adds(fin, Finals, Places)
  BY MoneyAddsUp
<1>2. /\ IsFiniteSet(Places) /\ D \in SUBSET Places
      /\ Revenues \in [Places -> Int] /\ \A i \in Places : Revenues[i] >= 0
      /\ Finals \in [Places -> Int] /\ \A i \in Places : Finals[i] >= 0
  BY TableIs
<1>3. \A i \in A : Revenues[i] = 0
  BY <1>2 DEF RunningOf, Revenues, sessionRevenue, Kept
<1>4. \A i \in B : Finals[i] = Revenues[i]
  BY <1>2 DEF RunningOf, Revenues, Finals, sessionRevenue, Kept
<1>5. A \in SUBSET Places /\ B \in SUBSET Places /\ A \cap B = {}
  BY <1>2 DEF RunningOf
<1>6. D = A \cup B
  BY DEF RunningOf
<1> HIDE DEF gr, fin, A, B
<1>7. gr[A] = 0
  BY <1>1, <1>2, <1>3, <1>5, NothingSums
<1>8. fin[B] = gr[B]
  BY <1>1, <1>2, <1>4, <1>5, SameSum
<1>9. gr[A \cup B] = gr[A] + gr[B]
  BY <1>1, <1>2, <1>5, SumOfParts
<1>10. fin[A \cup B] = fin[A] + fin[B]
  BY <1>1, <1>2, <1>5, SumOfParts
<1>11. gr[B] \in Nat /\ fin[A] \in Nat
  <2>1. (\A i \in B : Revenues[i] >= 0) /\ (\A i \in A : Finals[i] >= 0)
    BY <1>2, <1>5
  <2>2. gr[B] \in Nat
    BY <1>1, <1>2, <1>5, <2>1, SumIsNat
  <2>3. fin[A] \in Nat
    BY <1>1, <1>2, <1>5, <2>1, SumIsNat
  <2> QED
    BY <2>2, <2>3
<1>12. fin[D] = gr[D] + fin[A]
  BY <1>6, <1>7, <1>8, <1>9, <1>10, <1>11
<1> QED
  BY <1>12 DEF Gross, Final, gr, fin, A

\* The massages of today, as the server and as the home page see it.
Since == {i \in Shown : rows[i].at >= ServerMidnight /\ rows[i].status # "CANCELLED"}

LEMMA SinceMidnightIs ==
  Part(SinceMidnight) /\ DOMAIN SinceMidnight = Since
<1>1. DOMAIN Operational = Shown /\ \A i \in Shown : Operational[i] = rows[i]
  BY OperationalIs DEF Part
<1>2. /\ DOMAIN SinceMidnight = {i \in DOMAIN Operational :
                                   Operational[i].at >= ServerMidnight /\ Operational[i].status # "CANCELLED"}
      /\ \A i \in DOMAIN SinceMidnight : SinceMidnight[i] = Operational[i]
  BY DEF Only, SinceMidnight
<1> QED
  BY <1>1, <1>2, OperationalIs DEF Part, Since

TodayPage == Asked(TodayAll)
SincePage == [TodayPage EXCEPT !.window = <<ServerOffset, HoursPerDay>>]

LEMMA TodayPageIs ==
  ASSUME now \in Hour
  PROVE  /\ TodayPage.status = All /\ TodayPage.staff = All /\ TodayPage.chair = All
         /\ TodayPage.shift = All /\ TodayPage.window = All /\ TodayPage.range = <<Today, Today>>
         /\ \A t \in Hour : InRange(TodayPage.range, t) <=> Day(t) = Today
         /\ DOMAIN TodayPage = {"range", "status", "staff", "shift", "chair", "window", "chart"}
<1>1. Today \in Nat
  BY TodayIs
<1>2. TodayPage.range = <<Today, Today>>
  <2>1. TodayPage.range = buildDateRangeFilter(<<Today, Today>>)
    BY DEF TodayPage, Asked, Normalized, TodayAll, resolvePresetDates
  <2> QED
    BY <1>1, <2>1 DEF buildDateRangeFilter
<1>3. ASSUME NEW t \in Hour PROVE InRange(TodayPage.range, t) <=> Day(t) = Today
  <2> DEFINE d == Day(t)
             q == Today
  <2>1. d \in Int /\ q \in Int
    BY <1>1, HoursAreDated, HoursOfDay DEF Hour
  <2>2. InRange(TodayPage.range, t) <=> q <= d /\ d <= q
    BY <1>2 DEF InRange
  <2> HIDE DEF d, q
  <2>3. (q <= d /\ d <= q) <=> d = q
    BY <2>1
  <2> QED
    BY <2>2, <2>3 DEF d, q
<1> QED
  BY <1>2, <1>3 DEF TodayPage, Asked, Normalized, TodayAll, canFilterByShift

\* The massages of the home page from the server's midnight on.
LEMMA SinceIsToday ==
  ASSUME RowsTyped, TimesInv, HourOf(now) >= ServerOffset, NEW i \in Kept
  PROVE  rows[i].at >= ServerMidnight <=>
           InRange(TodayPage.range, rows[i].at)
             /\ inPeriodWindow(<<ServerOffset, HoursPerDay>>, rows[i].at)
<1>1. now \in Hour /\ rows[i].at \in Hour /\ rows[i].at <= now
  BY KeptIsSound DEF RowsTyped, Row
<1>2. rows[i].at >= ServerMidnight <=>
        Day(rows[i].at) = Today /\ ServerOffset <= HourOf(rows[i].at) /\ HourOf(rows[i].at) < HoursPerDay
  BY <1>1, SinceIs
<1>3. <<ServerOffset, HoursPerDay>> # All
  BY FiguresAssumption, CalendarAssumption
<1> QED
  BY <1>1, <1>2, <1>3, TodayPageIs DEF inPeriodWindow

\* What the home page of a filter counts, given the places that pass it.
LEMMA GrossOfPage ==
  ASSUME RowsTyped, NEW f
  PROVE  /\ Summary(Counted(f)).gross = Gross(Matching(f, rows))
         /\ Summary(Counted(f)).sessions = Cardinality(Matching(f, rows))
BY CountedIsPart, SummaryIs

LEMMA SinceIsPage ==
  ASSUME RowsTyped, TimesInv, HourOf(now) >= ServerOffset
  PROVE  /\ Matching(SincePage, rows) = Since
         /\ \A c \in Chair : Matching([SincePage EXCEPT !.chair = c], rows) =
                               {i \in Since : rows[i].chair = c}
<1>1. now \in Hour
  BY DEF RowsTyped
<1>2. /\ SincePage.status = All /\ SincePage.staff = All /\ SincePage.chair = All
      /\ SincePage.shift = All /\ SincePage.range = TodayPage.range
      /\ SincePage.window = <<ServerOffset, HoursPerDay>>
      /\ DOMAIN SincePage = {"range", "status", "staff", "shift", "chair", "window", "chart"}
  BY <1>1, TodayPageIs DEF SincePage
<1>3. \A i \in Shown : i \in Since <=>
         /\ InRange(SincePage.range, rows[i].at) /\ rows[i].status # "CANCELLED"
         /\ inPeriodWindow(SincePage.window, rows[i].at)
  BY <1>2, SinceIsToday DEF Since, Shown
<1>4. Matching(SincePage, rows) = Since
  <2>1. Matching(SincePage, rows) =
           {i \in Shown : /\ InRange(SincePage.range, rows[i].at) /\ rows[i].status # "CANCELLED"
                          /\ SincePage.chair # All => rows[i].chair = SincePage.chair
                          /\ SincePage.shift # All => rows[i].shift = SincePage.shift
                          /\ inPeriodWindow(SincePage.window, rows[i].at)}
    BY <1>2, MatchingIs
  <2> QED
    BY <1>2, <1>3, <2>1 DEF Since
<1>5. ASSUME NEW c \in Chair
      PROVE  Matching([SincePage EXCEPT !.chair = c], rows) = {i \in Since : rows[i].chair = c}
  <2> DEFINE f == [SincePage EXCEPT !.chair = c]
  <2>1. /\ f.status = All /\ f.staff = All /\ f.chair = c /\ f.shift = All
        /\ f.range = SincePage.range /\ f.window = SincePage.window
    BY <1>2
  <2> HIDE DEF f
  <2>2. Matching(f, rows) =
           {i \in Shown : /\ InRange(f.range, rows[i].at) /\ rows[i].status # "CANCELLED"
                          /\ f.chair # All => rows[i].chair = f.chair
                          /\ f.shift # All => rows[i].shift = f.shift
                          /\ inPeriodWindow(f.window, rows[i].at)}
    BY <2>1, MatchingIs
  <2>3. c # All
    BY CalendarAssumption
  <2>4. Matching(f, rows) = {i \in Since : rows[i].chair = c}
    BY <1>3, <2>1, <2>2, <2>3 DEF Since
  <2> QED
    BY <2>4 DEF f
<1> QED
  BY <1>4, <1>5

Early == Only(LAMBDA r : r.status = "ACTIVE", Operational)

LEMMA EarlyPart ==
  /\ DOMAIN Early = RunningOf(Shown) /\ DOMAIN Early \in SUBSET Kept
  /\ \A i \in DOMAIN Early : Early[i] = rows[i]
<1>1. DOMAIN Operational = Shown /\ \A i \in Shown : Operational[i] = rows[i]
  BY OperationalIs DEF Part
<1>2. /\ DOMAIN Early = {i \in DOMAIN Operational : Operational[i].status = "ACTIVE"}
      /\ \A i \in DOMAIN Early : Early[i] = Operational[i]
  BY DEF Only, Early
<1> QED
  BY <1>1, <1>2 DEF RunningOf, Shown

LEMMA ChairsAgree ==
  ASSUME RowsTyped, TimesInv, HourOf(now) >= ServerOffset, NEW c \in Chair
  PROVE  ChairToday(c) =
           Summary(Counted([SincePage EXCEPT !.chair = c])).gross
             + SumOver(FinalAmount, Only(LAMBDA r : r.chair = c /\ r.at >= ServerMidnight, Early))
<1> DEFINE C == Only(LAMBDA r : r.chair = c, SinceMidnight)
           E == Only(LAMBDA r : r.chair = c /\ r.at >= ServerMidnight, Early)
           f == [SincePage EXCEPT !.chair = c]
           D == {i \in Since : rows[i].chair = c}
<1>1. /\ DOMAIN C = {i \in DOMAIN SinceMidnight : SinceMidnight[i].chair = c}
      /\ \A i \in DOMAIN C : C[i] = SinceMidnight[i]
  BY DEF Only
<1>2. /\ DOMAIN E = {i \in DOMAIN Early : Early[i].chair = c /\ Early[i].at >= ServerMidnight}
      /\ \A i \in DOMAIN E : E[i] = Early[i]
  BY DEF Only
<1>3. Matching(f, rows) = D
  BY SinceIsPage
<1> HIDE DEF C, E, f
<1>4. DOMAIN C = D /\ Part(C) /\ D \in SUBSET Kept
  BY <1>1, SinceMidnightIs DEF Part
<1>5. DOMAIN E = RunningOf(D) /\ Part(E)
  <2>1. \A i \in Shown : rows[i].status = "ACTIVE" => rows[i].status # "CANCELLED"
    OBVIOUS
  <2> QED
    BY <1>2, <2>1, EarlyPart DEF Part, RunningOf, Since
<1> HIDE DEF D
<1>6. SumOver(FinalAmount, C) = Final(D) /\ SumOver(FinalAmount, E) = Final(RunningOf(D))
  BY <1>4, <1>5, FinalIs
<1>7. Final(D) = Gross(D) + Final(RunningOf(D))
  BY <1>4, FinalIsGrossAndEarly
<1>8. Summary(Counted(f)).gross = Gross(D)
  BY <1>3, GrossOfPage
<1> QED
  BY <1>6, <1>7, <1>8 DEF ChairToday, C, E, f

LEMMA ShiftPageIs ==
  ASSUME RowsTyped, TimesInv, NEW s \in Shift,
         \A i \in Shown : rows[i].shift = s => Day(rows[i].at) = Today
  PROVE  Matching([TodayPage EXCEPT !.shift = s], rows) = {i \in Shown : rows[i].shift = s}
<1> DEFINE f == [TodayPage EXCEPT !.shift = s]
<1>1. now \in Hour
  BY DEF RowsTyped
<1>2. /\ f.status = All /\ f.staff = All /\ f.chair = All /\ f.shift = s
      /\ f.range = TodayPage.range /\ f.window = All
  BY <1>1, TodayPageIs
<1> HIDE DEF f
<1>3. Matching(f, rows) =
         {i \in Shown : /\ InRange(f.range, rows[i].at) /\ rows[i].status # "CANCELLED"
                        /\ f.chair # All => rows[i].chair = f.chair
                        /\ f.shift # All => rows[i].shift = f.shift
                        /\ inPeriodWindow(f.window, rows[i].at)}
  BY <1>2, MatchingIs
<1>4. s # All
  BY CalendarAssumption
<1>5. ASSUME NEW i \in Shown, rows[i].shift = s
      PROVE  /\ InRange(f.range, rows[i].at) /\ rows[i].status # "CANCELLED"
             /\ inPeriodWindow(f.window, rows[i].at)
  <2>1. i \in Kept /\ ~rows[i].archived
    BY DEF Shown
  <2>2. rows[i].status # "CANCELLED" /\ rows[i].at \in Hour
    BY <2>1, KeptIsSound DEF Row
  <2>3. InRange(f.range, rows[i].at)
    BY <1>1, <1>2, <1>5, <2>2, TodayPageIs
  <2> QED
    BY <1>2, <2>2, <2>3 DEF inPeriodWindow
<1>6. Matching(f, rows) = {i \in Shown : rows[i].shift = s}
  BY <1>2, <1>3, <1>4, <1>5
<1> QED
  BY <1>6 DEF f

LEMMA ShiftsAgree ==
  ASSUME RowsTyped, TimesInv, NEW s \in Shift,
         \A i \in Shown : rows[i].shift = s => Day(rows[i].at) = Today
  PROVE  AssistantGross(s) =
           Summary(Counted([TodayPage EXCEPT !.shift = s])).gross
             + SumOver(FinalAmount, Only(LAMBDA r : r.shift = s, Early))
<1> DEFINE C == Only(LAMBDA r : r.shift = s, Operational)
           E == Only(LAMBDA r : r.shift = s, Early)
           f == [TodayPage EXCEPT !.shift = s]
           D == {i \in Shown : rows[i].shift = s}
<1>1. /\ DOMAIN C = {i \in DOMAIN Operational : Operational[i].shift = s}
      /\ \A i \in DOMAIN C : C[i] = Operational[i]
  BY DEF Only
<1>2. /\ DOMAIN E = {i \in DOMAIN Early : Early[i].shift = s}
      /\ \A i \in DOMAIN E : E[i] = Early[i]
  BY DEF Only
<1>3. Matching(f, rows) = D
  BY ShiftPageIs
<1> HIDE DEF C, E, f
<1>4. DOMAIN C = D /\ Part(C) /\ D \in SUBSET Kept
  BY <1>1, OperationalIs DEF Part, Shown
<1>5. DOMAIN E = RunningOf(D) /\ Part(E)
  BY <1>2, EarlyPart DEF Part, RunningOf
<1> HIDE DEF D
<1>6. SumOver(FinalAmount, C) = Final(D) /\ SumOver(FinalAmount, E) = Final(RunningOf(D))
  BY <1>4, <1>5, FinalIs
<1>7. Final(D) = Gross(D) + Final(RunningOf(D))
  BY <1>4, FinalIsGrossAndEarly
<1>8. Summary(Counted(f)).gross = Gross(D)
  BY <1>3, GrossOfPage
<1> QED
  BY <1>6, <1>7, <1>8 DEF AssistantGross, C, E, f

LEMMA PagesShowTheSame ==
  ASSUME RowsTyped, TimesInv
  PROVE  PagesAgree
<1> DEFINE early == Only(LAMBDA r : r.status = "ACTIVE", Operational)
<1>1. early = Early
  BY DEF Early
<1>2. ASSUME NEW period \in {"day", "week", "month", "year"}
      PROVE  RevenueStats(period) =
               Summary(Counted(Asked([TodayAll EXCEPT !.preset = PresetOf(period)]))).gross
  BY RevenuesAgree DEF Periods
<1>3. ASSUME HourOf(now) >= ServerOffset
      PROVE  /\ LiveCount = Summary(Counted(SincePage)).sessions
             /\ \A c \in Chair :
                  ChairToday(c) =
                    Summary(Counted([SincePage EXCEPT !.chair = c])).gross
                      + SumOver(FinalAmount, Only(LAMBDA r : r.chair = c /\ r.at >= ServerMidnight, early))
  <2>1. LiveCount = Cardinality(Since)
    BY SinceMidnightIs DEF LiveCount
  <2>2. Summary(Counted(SincePage)).sessions = Cardinality(Since)
    BY <1>3, SinceIsPage, GrossOfPage
  <2> QED
    BY <1>1, <1>3, <2>1, <2>2, ChairsAgree
<1>4. ASSUME NEW s \in Shift,
             LET mine == Only(LAMBDA r : r.shift = s, Operational)
             IN  \A i \in DOMAIN mine : Day(mine[i].at) = Today
      PROVE  AssistantGross(s) = Summary(Counted([TodayPage EXCEPT !.shift = s])).gross
                                   + SumOver(FinalAmount, Only(LAMBDA r : r.shift = s, early))
  <2> DEFINE mine == Only(LAMBDA r : r.shift = s, Operational)
  <2>1. /\ DOMAIN mine = {i \in DOMAIN Operational : Operational[i].shift = s}
        /\ \A i \in DOMAIN mine : mine[i] = Operational[i]
    BY DEF Only
  <2>2. \A i \in DOMAIN mine : Day(mine[i].at) = Today
    BY <1>4
  <2> HIDE DEF mine
  <2>3. \A i \in Shown : rows[i].shift = s => Day(rows[i].at) = Today
    BY <2>1, <2>2, OperationalIs DEF Part
  <2> QED
    BY <1>1, <2>3, ShiftsAgree
<1> HIDE DEF early
<1> QED
  BY <1>2, <1>3, <1>4 DEF PagesAgree, SincePage, TodayPage, early

-----------------------------------------------------------------------------
(***************************************************************************)
(* Primes: what the home page adds up, and what the till pays.             *)
(***************************************************************************)
Commissioned ==
  [i \in Places |-> IF rows[i] # None /\ EarnsCommission(rows[i]) THEN HomeCommission(rows[i]) ELSE 0]

LEMMA RulesAre ==
  ASSUME PrimesTyped
  PROVE  /\ \A k \in DOMAIN rules :
              /\ rules[k].is \in Commission /\ rules[k].plan \in Plan
              /\ rules[k].active \in BOOLEAN /\ rules[k].from \in Hour
         /\ DOMAIN rules \subseteq Nat
         /\ IsFiniteSet(DOMAIN bonuses)
         /\ \A k \in DOMAIN bonuses :
              /\ bonuses[k].is.target \in Nat /\ bonuses[k].is.target > 0
              /\ bonuses[k].is.amount \in Nat
<1>1. \A r \in Taken!RuleRow : r.is \in Commission /\ r.plan \in Plan /\ r.active \in BOOLEAN /\ r.from \in Hour
  BY HourIs DEF Taken!RuleRow
<1>2. \A b \in Bonus : b.target \in Nat /\ b.target > 0 /\ b.amount \in Nat
  BY PrimeAssumption
<1>3. \A r \in Taken!BonusRow : r.is \in Bonus
  BY DEF Taken!BonusRow
<1> QED
  BY <1>1, <1>2, <1>3 DEF PrimesTyped, Table

LEMMA ShareIsNat ==
  ASSUME NEW a \in Nat, NEW v \in Nat
  PROVE  (a * v + 50) \div 100 \in Nat
<1>1. a * v + 50 \in Nat
  OBVIOUS
<1> DEFINE x == a * v + 50
<1> HIDE DEF x
<1>2. x \in Nat
  BY <1>1 DEF x
<1>3. x \div 100 \in Nat
  BY <1>2
<1> QED
  BY <1>3 DEF x

\* What a rule gives for an amount.
LEMMA ApplyIsNat ==
  ASSUME NEW c \in Commission, NEW a \in Nat
  PROVE  Taken!applyCommissionRule(c, a) \in Nat
<1>1. c.value \in Nat
  BY PrimeAssumption
<1> DEFINE v == c.value
<1>2. Taken!applyCommissionRule(c, a) = IF c.type = "PERCENTAGE" THEN (a * v + 50) \div 100 ELSE v
  BY DEF Taken!applyCommissionRule
<1> HIDE DEF v
<1>3. v \in Nat /\ (a * v + 50) \div 100 \in Nat
  BY <1>1, ShareIsNat DEF v
<1> QED
  BY <1>2, <1>3

\* The rule the home page takes is an active one of the plan.
LEMMA HomeCommissionIs ==
  ASSUME PrimesTyped, NEW r \in Row
  PROVE  /\ HomeCommission(r) \in Nat /\ FinalAmount(r) \in Nat
         /\ RuleOf(r.plan) = {} => HomeCommission(r) = 0
         /\ RuleOf(r.plan) # {} =>
              \E k \in RuleOf(r.plan) :
                HomeCommission(r) = Taken!applyCommissionRule(rules[k].is, FinalAmount(r))
<1>1. FinalAmount(r) \in Nat
  BY FiguresAssumption DEF Row, FinalAmount
<1>2. CASE RuleOf(r.plan) = {}
  BY <1>1, <1>2 DEF HomeCommission
<1>3. CASE RuleOf(r.plan) # {}
  <2> DEFINE k == CHOOSE i \in RuleOf(r.plan) : TRUE
  <2>1. HomeCommission(r) = Taken!applyCommissionRule(rules[k].is, FinalAmount(r))
    BY <1>3, Zenon DEF HomeCommission, Taken!applyCommissionRule
  <2>2. k \in RuleOf(r.plan)
    BY <1>3
  <2> HIDE DEF k
  <2>3. rules[k].is \in Commission
    BY <2>2, RulesAre DEF RuleOf
  <2>4. HomeCommission(r) \in Nat
    BY <1>1, <2>1, <2>3, ApplyIsNat
  <2> QED
    BY <1>1, <1>3, <2>1, <2>2, <2>4
<1> QED
  BY <1>2, <1>3

LEMMA CommissionsAreTyped ==
  ASSUME RowsTyped, PrimesTyped
  PROVE  /\ IsFiniteSet(Places) /\ Commissioned \in [Places -> Int]
         /\ \A i \in Places : Commissioned[i] >= 0
<1>1. ASSUME NEW i \in Places PROVE Commissioned[i] \in Nat
  <2>1. CASE rows[i] # None /\ EarnsCommission(rows[i])
    <3>1. rows[i] \in Row
      BY <2>1, RowIsTyped DEF Kept, Places
    <3>2. Commissioned[i] = HomeCommission(rows[i])
      BY <2>1 DEF Commissioned
    <3> QED
      BY <3>1, <3>2, HomeCommissionIs
  <2>2. CASE ~(rows[i] # None /\ EarnsCommission(rows[i]))
    BY <2>2 DEF Commissioned
  <2> QED
    BY <2>1, <2>2
<1>2. Commissioned = [i \in Places |-> Commissioned[i]]
  BY DEF Commissioned
<1> HIDE DEF Commissioned
<1>3. Commissioned \in [Places -> Int] /\ \A i \in Places : Commissioned[i] >= 0
  BY <1>1, <1>2
<1> QED
  BY <1>3, TableIs

LEMMA CommissionOver ==
  ASSUME RowsTyped, PrimesTyped, NEW g, Adds(g, Commissioned, Places), NEW C, Part(C),
         \A i \in DOMAIN C : EarnsCommission(C[i])
  PROVE  SumOver(HomeCommission, C) = g[DOMAIN C]
<1> DEFINE D == DOMAIN C
           e == [i \in D |-> Commissioned[i]]
           Folds(h) == h = [s \in SUBSET D |-> IF s = {} THEN 0 ELSE HomeCommission(C[Pick(s)]) + h[s \ {Pick(s)}]]
           fold == CHOOSE h : Folds(h)
<1>1. D \in SUBSET Places /\ IsFiniteSet(Places) /\ IsFiniteSet(D) /\ Commissioned \in [Places -> Int]
  BY TableIs, CommissionsAreTyped, FS_Subset DEF Part
<1>2. e \in [D -> Int] /\ \A i \in D : e[i] = Commissioned[i]
  BY <1>1
<1>3. \A i \in D : e[i] = HomeCommission(C[i])
  BY <1>1 DEF Part, Commissioned, Kept
<1>4. ASSUME NEW h PROVE Folds(h) <=> Unfolds(h, e, D)
  <2>1. ASSUME NEW s \in SUBSET D, s # {} PROVE e[Pick(s)] = HomeCommission(C[Pick(s)])
    BY <1>1, <1>3, <2>1, Smaller
  <2>2. ASSUME NEW s \in SUBSET D
        PROVE  Value(e, h, s) = IF s = {} THEN 0 ELSE HomeCommission(C[Pick(s)]) + h[s \ {Pick(s)}]
    BY <2>1 DEF Value
  <2> HIDE DEF e, D
  <2> QED
    BY <2>2 DEF Unfolds
<1> HIDE DEF e, Folds
<1>5. Unfolds(fold, e, D)
  <2>1. \E h : Folds(h)
    BY <1>1, <1>2, <1>4, SumsExist
  <2>2. Folds(fold)
    BY <2>1
  <2> QED
    BY <1>4, <2>2
<1>6. SumOver(HomeCommission, C) = fold[D]
  BY DEF SumOver, MapThenSumSet, MapThenFoldSet, Pick, fold, Folds
<1> HIDE DEF D, fold
<1>7. fold[D] = g[D]
  BY <1>1, <1>2, <1>5, FoldIs
<1> QED
  BY <1>6, <1>7 DEF D

Earned(D) == (CHOOSE g : Adds(g, Commissioned, Places))[D]

LEMMA CommissionAddsUp ==
  ASSUME RowsTyped, PrimesTyped
  PROVE  Adds(CHOOSE g : Adds(g, Commissioned, Places), Commissioned, Places)
<1>1. \E g : Adds(g, Commissioned, Places)
  BY CommissionsAreTyped, SumsAreAdded
<1> QED
  BY <1>1

\* Only the massages that earn one count.
LEMMA PlanCommissionIs ==
  ASSUME RowsTyped, PrimesTyped, NEW C, Part(C)
  PROVE  PlanCommission(C) = Earned({i \in DOMAIN C : EarnsCommission(rows[i])})
<1> DEFINE E == Only(EarnsCommission, C)
           A == {i \in DOMAIN C : EarnsCommission(rows[i])}
<1>1. DOMAIN E = {i \in DOMAIN C : EarnsCommission(C[i])} /\ \A i \in DOMAIN E : E[i] = C[i]
  BY DEF Only
<1>2. PlanCommission(C) = SumOver(HomeCommission, E)
  BY DEF PlanCommission
<1> HIDE DEF E
<1>3. DOMAIN E = A /\ Part(E) /\ \A i \in DOMAIN E : EarnsCommission(E[i])
  BY <1>1 DEF Part
<1> HIDE DEF A
<1>4. SumOver(HomeCommission, E) = (CHOOSE g : Adds(g, Commissioned, Places))[DOMAIN E]
  BY <1>3, CommissionAddsUp, CommissionOver
<1> QED
  BY <1>2, <1>3, <1>4 DEF Earned, A

\* The till pays for a massage what the home page counts for it.
LEMMA MassageIs ==
  ASSUME RowsTyped, NEW i \in Kept
  PROVE  Taken!resolveFinalAmount(Massage(i, rows[i])) = FinalAmount(rows[i])
BY DEF Taken!resolveFinalAmount, Massage, FinalAmount

LEMMA EligibleIs ==
  ASSUME RowsTyped, NEW i \in Kept, rows[i].status = "COMPLETED"
  PROVE  Taken!isEligibleForCommission(Massage(i, rows[i])) <=> EarnsCommission(rows[i])
<1> DEFINE r == rows[i]
           m == Massage(i, r)
<1>1. m.billing = r.billing /\ m.plan = r.plan
  BY DEF Massage
<1>2. m.anomaly # "TOO_SHORT" <=> "TOO_SHORT" \notin r.anomaly
  BY PrimeAssumption DEF Massage
<1>3. m.anomaly # "TOO_SHORT" => (m.anomaly = "TOO_LONG" <=> "TOO_LONG" \in r.anomaly)
  BY PrimeAssumption DEF Massage
<1>4. Taken!resolveFinalAmount(m) = FinalAmount(r)
  BY MassageIs
<1> HIDE DEF m
<1> QED
  BY <1>1, <1>2, <1>3, <1>4, Zenon DEF Taken!isEligibleForCommission, EarnsCommission, m

\* Two active rules of the plan of a massage pay alike; they have stood since
\* before the massage.
PayAlike(i) == \A k, l \in RuleOf(rows[i].plan) : rules[k].is = rules[l].is
Stand(i) == \A k \in RuleOf(rows[i].plan) : Taken!ValidAt(rules[k], rows[i].at)

\* Of the rules that are valid there is a newest; it is active.
LEMMA RuleIsFound ==
  ASSUME PrimesTyped, NEW p, NEW t, Taken!Candidates(p, t) # {}
  PROVE  Taken!findValidRule(p, t) \in Taken!Candidates(p, t)
<1> DEFINE C == Taken!Candidates(p, t)
           Ages == {LastHour - rules[k].from : k \in C}
<1>1. C \subseteq DOMAIN rules
  BY DEF Taken!Candidates
<1> HIDE DEF C
<1>2. \A k \in C : k \in Nat /\ rules[k].from \in Nat /\ rules[k].from <= LastHour
  BY <1>1, RulesAre, FiguresAssumption DEF Hour
<1>3. LastHour \in Nat /\ C # {}
  BY FiguresAssumption DEF C
<1>4. Ages \in SUBSET Nat /\ Ages # {}
  BY <1>2, <1>3
<1>5. PICK a \in Ages : \A b \in Ages : a <= b
  BY <1>4, LeastNumber
<1> DEFINE Newest == {k \in C : LastHour - rules[k].from = a}
<1>6. Newest \in SUBSET Nat /\ Newest # {}
  BY <1>2, <1>5
<1>7. PICK k \in Newest : \A l \in Newest : k <= l
  BY <1>6, LeastNumber
<1>8. ASSUME NEW l \in C
      PROVE  rules[l].from < rules[k].from \/ (rules[l].from = rules[k].from /\ k <= l)
  <2>1. rules[k].from \in Int /\ rules[l].from \in Int /\ LastHour \in Int
    BY <1>2, <1>3
  <2>2. LastHour - rules[k].from = a /\ a <= LastHour - rules[l].from
    BY <1>5
  <2>3. rules[l].from = rules[k].from => l \in Newest
    BY <2>2
  <2> QED
    BY <1>7, <2>1, <2>2, <2>3
<1>9. \E x \in C : \A y \in C : rules[y].from < rules[x].from \/ (rules[y].from = rules[x].from /\ x <= y)
  BY <1>8
<1>10. Taken!findValidRule(p, t) \in C
  BY <1>9 DEF Taken!findValidRule, C
<1> QED
  BY <1>10 DEF C

\* The till pays what the home page counts, or nothing.
LEMMA CommissionIs ==
  ASSUME RowsTyped, PrimesTyped, NEW i \in Kept, rows[i].status = "COMPLETED", PayAlike(i)
  PROVE  /\ Taken!CommissionOf(Massage(i, rows[i])) \in {0, Commissioned[i]}
         /\ Stand(i) => Taken!CommissionOf(Massage(i, rows[i])) = Commissioned[i]
<1> DEFINE r == rows[i]
           m == Massage(i, r)
           C == Taken!Candidates(r.plan, r.at)
           e == Taken!findValidRule(r.plan, r.at)
<1>1. m.plan = r.plan /\ m.start = r.at /\ r \in Row
  BY RowIsTyped DEF Massage
<1>2. Taken!resolveFinalAmount(m) = FinalAmount(r)
  BY MassageIs
<1>3. Taken!isEligibleForCommission(m) <=> EarnsCommission(r)
  BY EligibleIs
<1>4. Commissioned[i] = IF EarnsCommission(r) THEN HomeCommission(r) ELSE 0
  BY DEF Commissioned, Kept, Places
<1>5. C \subseteq RuleOf(r.plan) /\ (Stand(i) => C = RuleOf(r.plan))
  BY DEF Taken!Candidates, Taken!ValidAt, RuleOf, Stand
<1>6. Taken!CommissionOf(m) =
        IF Taken!isEligibleForCommission(m) /\ C # {}
        THEN Taken!applyCommissionRule(rules[e].is, Taken!resolveFinalAmount(m))
        ELSE 0
  BY <1>1 DEF Taken!CommissionOf
<1>7. ASSUME C # {}
      PROVE  HomeCommission(r) = Taken!applyCommissionRule(rules[e].is, FinalAmount(r))
  <2>1. e \in C
    BY <1>7, RuleIsFound
  <2> HIDE DEF r, C, e
  <2>2. e \in RuleOf(r.plan)
    BY <1>5, <2>1
  <2>3. PICK k \in RuleOf(r.plan) :
          HomeCommission(r) = Taken!applyCommissionRule(rules[k].is, FinalAmount(r))
    BY <1>1, <2>2, HomeCommissionIs
  <2>4. rules[k].is = rules[e].is
    BY <2>2, <2>3 DEF PayAlike, r
  <2> QED
    BY <2>3, <2>4
<1>8. RuleOf(r.plan) = {} => HomeCommission(r) = 0
  BY <1>1, HomeCommissionIs
<1> HIDE DEF r, m, C, e
<1>9. Taken!CommissionOf(m) \in {0, Commissioned[i]}
  BY <1>2, <1>3, <1>4, <1>6, <1>7
<1>10. Stand(i) => Taken!CommissionOf(m) = Commissioned[i]
  BY <1>2, <1>3, <1>4, <1>5, <1>6, <1>7, <1>8
<1> QED
  BY <1>9, <1>10 DEF m, r

Massages(D) == {Massage(i, rows[i]) : i \in D}

\* The massages of some places are as many, and each has the figures of its row.
LEMMA OverMassages ==
  ASSUME RowsTyped, NEW f \in [Places -> Int], NEW g, Adds(g, f, Places), NEW D \in SUBSET Kept,
         NEW e \in [Massages(D) -> Int], \A i \in D : e[Massage(i, rows[i])] = f[i]
  PROVE  /\ IsFiniteSet(Massages(D))
         /\ Sums(e, Massages(D))[Massages(D)] = g[D]
<1> DEFINE image == [i \in D |-> Massage(i, rows[i])]
           K == Massages(D)
<1>1. \A i, j \in D : image[i] = image[j] => i = j
  <2>1. \A i \in D : image[i].no = i
    BY DEF Massage
  <2> HIDE DEF image
  <2> QED
    BY <2>1
<1>2. /\ \A i \in D : image[i] \in K
      /\ \A k \in K : \E i \in D : image[i] = k
      /\ \A i \in D : e[image[i]] = f[i]
  BY DEF Massages
<1>3. OneEach(image, D, K)
  BY <1>1, <1>2 DEF OneEach
<1>4. D \in SUBSET Places /\ IsFiniteSet(Places)
  BY TableIs
<1> HIDE DEF image
<1> HIDE DEF K
<1>5. e \in [K -> Int]
  BY DEF K
<1>6. IsFiniteSet(K) /\ Sums(e, K)[K] = g[D]
  BY <1>2, <1>4, <1>5, <1>3, SumOfImages
<1> QED
  BY <1>6 DEF K

\* What the till pays for the massages at some places.
Paid(D) ==
  [i \in Places |-> IF i \in D THEN Taken!CommissionOf(Massage(i, rows[i])) ELSE 0]

LEMMA PaidIs ==
  ASSUME RowsTyped, PrimesTyped, NEW D \in SUBSET Kept,
         \A i \in D : rows[i].status = "COMPLETED" /\ PayAlike(i)
  PROVE  /\ D \in SUBSET Places
         /\ Paid(D) \in [Places -> Int]
         /\ \A i \in D : /\ Paid(D)[i] = Taken!CommissionOf(Massage(i, rows[i]))
                         /\ Paid(D)[i] <= Commissioned[i]
                         /\ Stand(i) => Paid(D)[i] = Commissioned[i]
<1>1. D \in SUBSET Places
  BY TableIs
<1>2. \A i \in Places : Commissioned[i] \in Int /\ Commissioned[i] >= 0
  BY CommissionsAreTyped
<1>3. ASSUME NEW i \in D
      PROVE  /\ Taken!CommissionOf(Massage(i, rows[i])) \in Int
             /\ Taken!CommissionOf(Massage(i, rows[i])) <= Commissioned[i]
             /\ Stand(i) => Taken!CommissionOf(Massage(i, rows[i])) = Commissioned[i]
  <2> DEFINE c == Taken!CommissionOf(Massage(i, rows[i]))
             x == Commissioned[i]
  <2>1. c \in {0, x} /\ (Stand(i) => c = x)
    BY CommissionIs
  <2>2. x \in Int /\ x >= 0
    BY <1>1, <1>2
  <2> HIDE DEF c, x
  <2>3. c \in Int /\ c <= x
    BY <2>1, <2>2
  <2> QED
    BY <2>1, <2>3 DEF c, x
<1>4. \A i \in Places : Paid(D)[i] \in Int
  BY <1>3 DEF Paid
<1>5. Paid(D) = [i \in Places |-> Paid(D)[i]]
  BY DEF Paid
<1>6. \A i \in D : Paid(D)[i] = Taken!CommissionOf(Massage(i, rows[i]))
  BY <1>1 DEF Paid
<1>7. Paid(D) \in [Places -> Int]
  <2> DEFINE f == Paid(D)
  <2> HIDE DEF f
  <2>1. f \in [Places -> Int]
    BY <1>4, <1>5 DEF f
  <2> QED
    BY <2>1 DEF f
<1> QED
  BY <1>1, <1>3, <1>6, <1>7

\* They are added up one by one.
LEMMA PaidOver ==
  ASSUME RowsTyped, PrimesTyped, NEW D \in SUBSET Kept,
         \A i \in D : rows[i].status = "COMPLETED" /\ PayAlike(i),
         NEW g, Adds(g, Paid(D), Places)
  PROVE  MapThenSumSet(Taken!CommissionOf, Massages(D)) = g[D]
<1> DEFINE K == Massages(D)
           f == Paid(D)
           e == [m \in K |-> Taken!CommissionOf(m)]
           Folds(h) == h = [s \in SUBSET K |-> IF s = {} THEN 0
                                               ELSE Taken!CommissionOf(Pick(s)) + h[s \ {Pick(s)}]]
           fold == CHOOSE h : Folds(h)
<1>1. Adds(g, f, Places) /\ f \in [Places -> Int] /\ D \in SUBSET Places
  BY PaidIs
<1>2. \A i \in D : e[Massage(i, rows[i])] = f[i]
  BY PaidIs DEF Massages
<1>3. \A m \in K : e[m] = Taken!CommissionOf(m)
  OBVIOUS
<1> HIDE DEF f
<1>4. e \in [K -> Int]
  <2>1. \A m \in K : \E i \in D : m = Massage(i, rows[i])
    BY DEF Massages
  <2>2. e = [m \in K |-> Taken!CommissionOf(m)]
    OBVIOUS
  <2> HIDE DEF e, K
  <2>3. \A m \in K : e[m] \in Int
    BY <1>1, <1>2, <2>1
  <2> QED
    BY <1>3, <2>2, <2>3
<1> HIDE DEF e
<1>5. e \in [K -> Int] /\ IsFiniteSet(K) /\ Sums(e, K)[K] = g[D]
  BY <1>1, <1>2, <1>4, OverMassages
<1> HIDE DEF K
<1>6. ASSUME NEW h PROVE Folds(h) <=> Unfolds(h, e, K)
  <2>1. ASSUME NEW s \in SUBSET K, s # {} PROVE e[Pick(s)] = Taken!CommissionOf(Pick(s))
    BY <1>3, <1>5, <2>1, Smaller
  <2>2. ASSUME NEW s \in SUBSET K
        PROVE  Value(e, h, s) = IF s = {} THEN 0 ELSE Taken!CommissionOf(Pick(s)) + h[s \ {Pick(s)}]
    BY <2>1 DEF Value
  <2> QED
    BY <2>2 DEF Unfolds
<1> HIDE DEF Folds
<1>7. Unfolds(fold, e, K)
  <2>1. \E h : Folds(h)
    BY <1>5, <1>6, SumsExist
  <2>2. Folds(fold)
    BY <2>1
  <2> QED
    BY <1>6, <2>2
<1>8. MapThenSumSet(Taken!CommissionOf, K) = fold[K]
  BY DEF MapThenSumSet, MapThenFoldSet, Pick, fold, Folds
<1> HIDE DEF fold
<1>9. PICK k : Adds(k, e, K)
  BY <1>5, SumsAreAdded
<1>10. fold[K] = k[K]
  BY <1>5, <1>7, <1>9, FoldIs
<1>11. Sums(e, K)[K] = k[K]
  BY <1>5, <1>9, SumsAre
<1>12. MapThenSumSet(Taken!CommissionOf, K) = g[D]
  BY <1>5, <1>8, <1>10, <1>11
<1> QED
  BY <1>12 DEF K

LEMMA TakenCommissions ==
  ASSUME RowsTyped, PrimesTyped, NEW D \in SUBSET Kept,
         \A i \in D : rows[i].status = "COMPLETED" /\ PayAlike(i)
  PROVE  /\ MapThenSumSet(Taken!CommissionOf, Massages(D)) \in Int
         /\ MapThenSumSet(Taken!CommissionOf, Massages(D)) <= Earned(D)
         /\ (\A i \in D : Stand(i)) => MapThenSumSet(Taken!CommissionOf, Massages(D)) = Earned(D)
<1> DEFINE f == Paid(D)
           h == CHOOSE h : Adds(h, Commissioned, Places)
<1>1. IsFiniteSet(Places) /\ Commissioned \in [Places -> Int] /\ Adds(h, Commissioned, Places)
  BY CommissionsAreTyped, CommissionAddsUp
<1>2. D \in SUBSET Places /\ f \in [Places -> Int]
      /\ \A i \in D : f[i] <= Commissioned[i] /\ (Stand(i) => f[i] = Commissioned[i])
  BY PaidIs
<1>3. PICK g : Adds(g, f, Places)
  BY <1>1, <1>2, SumsAreAdded
<1>4. MapThenSumSet(Taken!CommissionOf, Massages(D)) = g[D]
  BY <1>3, PaidOver
<1> HIDE DEF f, h
<1>5. g[D] \in Int
  BY <1>2, <1>3 DEF Adds
<1>6. g[D] <= h[D]
  BY <1>1, <1>2, <1>3, SumsGrow
<1>7. (\A i \in D : Stand(i)) => g[D] = h[D]
  BY <1>1, <1>2, <1>3, SameSum
<1> QED
  BY <1>4, <1>5, <1>6, <1>7 DEF Earned, h

LEMMA TakenGross ==
  ASSUME RowsTyped, NEW D \in SUBSET Kept
  PROVE  Taken!GrossRevenue(Massages(D)) = Final(D)
<1> DEFINE K == Massages(D)
           e == [m \in K |-> Taken!resolveFinalAmount(m)]
           g == CHOOSE g : Adds(g, Finals, Places)
           Folds(h) == h = [s \in SUBSET K |-> IF s = {} THEN 0
                                               ELSE Taken!resolveFinalAmount(Pick(s)) + h[s \ {Pick(s)}]]
           fold == CHOOSE h : Folds(h)
<1>1. Adds(g, Finals, Places) /\ Finals \in [Places -> Int]
  BY MoneyAddsUp, TableIs
<1>2. \A i \in D : e[Massage(i, rows[i])] = Finals[i]
  <2>1. \A i \in D : e[Massage(i, rows[i])] = Taken!resolveFinalAmount(Massage(i, rows[i]))
    BY DEF Massages
  <2> HIDE DEF e
  <2> QED
    BY <2>1, MassageIs DEF Finals, Kept, Places
<1>3. \A m \in K : e[m] = Taken!resolveFinalAmount(m)
  OBVIOUS
<1>4. e \in [K -> Int]
  <2>1. D \in SUBSET Places
    BY TableIs
  <2>2. \A m \in K : \E i \in D : m = Massage(i, rows[i])
    BY DEF Massages
  <2>3. e = [m \in K |-> Taken!resolveFinalAmount(m)]
    OBVIOUS
  <2> HIDE DEF e, K
  <2>4. \A m \in K : e[m] \in Int
    BY <1>1, <1>2, <2>1, <2>2
  <2> QED
    BY <1>3, <2>3, <2>4
<1> HIDE DEF e, g
<1>5. e \in [K -> Int] /\ IsFiniteSet(K) /\ Sums(e, K)[K] = g[D]
  BY <1>1, <1>2, <1>4, OverMassages
<1> HIDE DEF K
<1>6. ASSUME NEW h PROVE Folds(h) <=> Unfolds(h, e, K)
  <2>1. ASSUME NEW s \in SUBSET K, s # {} PROVE e[Pick(s)] = Taken!resolveFinalAmount(Pick(s))
    BY <1>3, <1>5, <2>1, Smaller
  <2>2. ASSUME NEW s \in SUBSET K
        PROVE  Value(e, h, s) = IF s = {} THEN 0 ELSE Taken!resolveFinalAmount(Pick(s)) + h[s \ {Pick(s)}]
    BY <2>1 DEF Value
  <2> QED
    BY <2>2 DEF Unfolds
<1> HIDE DEF Folds
<1>7. Unfolds(fold, e, K)
  <2>1. \E h : Folds(h)
    BY <1>5, <1>6, SumsExist
  <2>2. Folds(fold)
    BY <2>1
  <2> QED
    BY <1>6, <2>2
<1>8. Taken!GrossRevenue(K) = fold[K]
  BY DEF Taken!GrossRevenue, Taken!MapThenSumSet, Taken!MapThenFoldSet, MapThenSumSet, MapThenFoldSet, Pick, fold, Folds
<1> HIDE DEF fold
<1>9. PICK k : Adds(k, e, K)
  BY <1>5, SumsAreAdded
<1>10. fold[K] = k[K]
  BY <1>5, <1>7, <1>9, FoldIs
<1>11. Sums(e, K)[K] = k[K]
  BY <1>5, <1>9, SumsAre
<1>12. Taken!GrossRevenue(K) = g[D]
  BY <1>5, <1>8, <1>10, <1>11
<1> QED
  BY <1>12 DEF K, g, Final

LEMMA CommissionOfEarners ==
  ASSUME RowsTyped, PrimesTyped, NEW D \in SUBSET Kept
  PROVE  /\ Earned(D) = Earned({i \in D : EarnsCommission(rows[i])})
         /\ Earned(D) \in Int
<1> DEFINE g == CHOOSE g : Adds(g, Commissioned, Places)
           A == {i \in D : EarnsCommission(rows[i])}
           B == D \ A
<1>1. Adds(g, Commissioned, Places)
  BY CommissionAddsUp
<1>2. IsFiniteSet(Places) /\ Commissioned \in [Places -> Int]
  BY CommissionsAreTyped
<1>3. D \in SUBSET Places
  BY TableIs
<1>4. \A i \in B : Commissioned[i] = 0
  BY <1>3 DEF Commissioned
<1>5. A \in SUBSET Places /\ B \in SUBSET Places /\ A \cap B = {}
  BY <1>3
<1>6. D = A \cup B
  OBVIOUS
<1> HIDE DEF g, A, B
<1>7. g[A \cup B] = g[A] + g[B]
  BY <1>1, <1>2, <1>5, SumOfParts
<1>8. g[B] = 0
  BY <1>1, <1>2, <1>4, <1>5, NothingSums
<1>9. g[A] \in Int /\ g[D] \in Int
  BY <1>1, <1>3, <1>5 DEF Adds
<1>10. g[D] = g[A]
  BY <1>6, <1>7, <1>8, <1>9
<1> QED
  BY <1>9, <1>10 DEF Earned, g, A

CompletedOf(s) == {i \in Shown : rows[i].shift = s /\ rows[i].status = "COMPLETED"}

LEMMA MassagesOfShift ==
  ASSUME NEW s
  PROVE  MassagesOf(s) = Massages(CompletedOf(s)) /\ CompletedOf(s) \in SUBSET Kept
<1> DEFINE C == Only(LAMBDA r : r.shift = s /\ r.status = "COMPLETED", Operational)
<1>1. DOMAIN Operational = Shown /\ \A i \in Shown : Operational[i] = rows[i]
  BY OperationalIs DEF Part
<1>2. /\ DOMAIN C = {i \in DOMAIN Operational : Operational[i].shift = s /\ Operational[i].status = "COMPLETED"}
      /\ \A i \in DOMAIN C : C[i] = Operational[i]
  BY DEF Only
<1>3. MassagesOf(s) = {Massage(i, C[i]) : i \in DOMAIN C}
  BY DEF MassagesOf
<1> HIDE DEF C
<1>4. DOMAIN C = CompletedOf(s) /\ \A i \in DOMAIN C : C[i] = rows[i]
  BY <1>1, <1>2 DEF CompletedOf
<1> QED
  BY <1>3, <1>4 DEF Massages, CompletedOf, Shown

\* The card of the open shift.
LEMMA LivePrime ==
  ASSUME RowsTyped, PrimesTyped, NEW s \in Shift, \A i \in CompletedOf(s) : PayAlike(i)
  PROVE  /\ LiveShift(s).prime >= CommissionTaken(s)
         /\ (\A i \in CompletedOf(s) : Stand(i)) => LiveShift(s).prime = CommissionTaken(s)
<1> DEFINE C == Only(LAMBDA r : r.shift = s /\ r.status # "CANCELLED", Operational)
           D == CompletedOf(s)
           taken == MapThenSumSet(Taken!CommissionOf, Massages(D))
<1>1. DOMAIN Operational = Shown /\ \A i \in Shown : Operational[i] = rows[i]
  BY OperationalIs DEF Part
<1>2. /\ DOMAIN C = {i \in DOMAIN Operational : Operational[i].shift = s /\ Operational[i].status # "CANCELLED"}
      /\ \A i \in DOMAIN C : C[i] = Operational[i]
  BY DEF Only
<1>3. LiveShift(s).prime = PlanCommission(C)
  BY DEF LiveShift
<1> HIDE DEF C
<1>4. Part(C) /\ DOMAIN C = {i \in Shown : rows[i].shift = s /\ rows[i].status # "CANCELLED"}
  BY <1>1, <1>2, OperationalIs DEF Part
<1>5. PlanCommission(C) = Earned({i \in DOMAIN C : EarnsCommission(rows[i])})
  BY <1>4, PlanCommissionIs
<1>6. {i \in DOMAIN C : EarnsCommission(rows[i])} = {i \in D : EarnsCommission(rows[i])}
  BY <1>4 DEF CompletedOf, EarnsCommission
<1>7. D \in SUBSET Kept /\ MassagesOf(s) = Massages(D) /\ \A i \in D : rows[i].status = "COMPLETED"
  BY MassagesOfShift DEF CompletedOf
<1>8. \A i \in D : PayAlike(i)
  OBVIOUS
<1> HIDE DEF D
<1>9. Earned(D) = Earned({i \in D : EarnsCommission(rows[i])}) /\ Earned(D) \in Int
  BY <1>7, CommissionOfEarners
<1>10. taken \in Int /\ taken <= Earned(D) /\ ((\A i \in D : Stand(i)) => taken = Earned(D))
  BY <1>7, <1>8, TakenCommissions
<1>11. CommissionTaken(s) = taken
  BY <1>7 DEF CommissionTaken
<1> HIDE DEF taken
<1>12. LiveShift(s).prime = Earned(D)
  BY <1>3, <1>5, <1>6, <1>9
<1> QED
  BY <1>9, <1>10, <1>11, <1>12 DEF D

\* Of the targets that are reached one is the highest, and its rules pay alike.
LEMMA OneBonus ==
  ASSUME PrimesTyped, NEW s, TargetsStand(s), NEW gross \in Int
  PROVE  LET reached == {i \in DOMAIN bonuses : bonuses[i].active /\ bonuses[i].is.target <= gross}
             b == IF gross <= 0 \/ reached = {} THEN 0
                  ELSE bonuses[CHOOSE i \in reached :
                                 \A j \in reached : bonuses[j].is.target <= bonuses[i].is.target].is.amount
         IN  Taken!TargetBonus(OpenedAt(s), gross) = {b} /\ b \in Int
<1> DEFINE opened == OpenedAt(s)
           reached == {i \in DOMAIN bonuses : bonuses[i].active /\ bonuses[i].is.target <= gross}
           Top(i) == i \in reached /\ \A j \in reached : bonuses[j].is.target <= bonuses[i].is.target
           k == CHOOSE i \in reached : \A j \in reached : bonuses[j].is.target <= bonuses[i].is.target
           b == IF gross <= 0 \/ reached = {} THEN 0 ELSE bonuses[k].is.amount
           valid == {i \in DOMAIN bonuses : Taken!ValidAt(bonuses[i], opened) /\ bonuses[i].is.target <= gross}
           tops == {j \in valid : \A x \in valid : bonuses[x].is.target <= bonuses[j].is.target}
<1>1. valid = reached
  <2>1. ASSUME NEW i \in DOMAIN bonuses PROVE Taken!ValidAt(bonuses[i], opened) <=> bonuses[i].active
    BY DEF TargetsStand, Taken!ValidAt
  <2> HIDE DEF opened
  <2> QED
    BY <2>1
<1>2. Taken!TargetBonus(opened, gross) =
        IF valid = {} THEN {0} ELSE {bonuses[i].is.amount : i \in tops}
  BY DEF Taken!TargetBonus
<1> HIDE DEF opened
<1>3. ASSUME gross <= 0 PROVE reached = {}
  <2>1. ASSUME NEW i \in DOMAIN bonuses PROVE ~(bonuses[i].is.target <= gross)
    <3> DEFINE t == bonuses[i].is.target
    <3>1. t \in Nat /\ t > 0
      BY RulesAre
    <3> HIDE DEF t
    <3>2. ~(t <= gross)
      BY <1>3, <3>1
    <3> QED
      BY <3>2 DEF t
  <2> QED
    BY <2>1
<1>4. ASSUME reached # {}
      PROVE  /\ Top(k) /\ k \in DOMAIN bonuses
             /\ \A i \in DOMAIN bonuses : Top(i) => bonuses[i].is.amount = bonuses[k].is.amount
  <2> DEFINE f == [i \in DOMAIN bonuses |-> bonuses[i].is.target]
  <2>1. f \in [DOMAIN bonuses -> Nat] /\ IsFiniteSet(DOMAIN bonuses)
    BY RulesAre
  <2>2. reached \in SUBSET DOMAIN bonuses
    OBVIOUS
  <2>3. \A i \in DOMAIN bonuses : f[i] = bonuses[i].is.target
    OBVIOUS
  <2>4. \E i \in reached : Greatest(i, reached, f)
    <3> HIDE DEF f, reached
    <3> QED
      BY <1>4, <2>1, <2>2, FiniteHasGreatest
  <2>5. \E i \in reached : \A j \in reached : bonuses[j].is.target <= bonuses[i].is.target
    <3> HIDE DEF f, reached
    <3> QED
      BY <2>2, <2>3, <2>4 DEF Greatest
  <2>6. Top(k)
    <3> HIDE DEF reached
    <3> QED
      BY <2>5
  <2>7. \A i \in reached : bonuses[i].active /\ bonuses[i].is.target \in Nat
    BY RulesAre
  <2> HIDE DEF reached, k, f
  <2>8. ASSUME NEW i \in DOMAIN bonuses, Top(i) PROVE bonuses[i].is.amount = bonuses[k].is.amount
    <3>1. bonuses[i].is.target = bonuses[k].is.target
      BY <2>6, <2>7, <2>8
    <3> QED
      BY <2>2, <2>6, <2>7, <2>8, <3>1 DEF TargetsStand
  <2> QED
    BY <2>2, <2>6, <2>8
<1>5. CASE reached = {}
  <2>1. b = 0
    BY <1>5
  <2> HIDE DEF reached, valid, tops
  <2>2. Taken!TargetBonus(opened, gross) = {0}
    BY <1>1, <1>2, <1>5
  <2>3. b \in Int
    BY <2>1
  <2> QED
    BY <2>1, <2>2, <2>3, Zenon DEF opened, reached
<1>6. CASE reached # {}
  <2>1. ~(gross <= 0)
    BY <1>3, <1>6
  <2>2. k \in tops /\ \A i \in tops : bonuses[i].is.amount = bonuses[k].is.amount
    <3>1. reached \subseteq DOMAIN bonuses
      OBVIOUS
    <3>2. k \in valid /\ \A i \in tops : Top(i)
      <4> HIDE DEF reached, k, valid
      <4> QED
        BY <1>1, <1>4, <1>6
    <3> HIDE DEF reached, k, valid
    <3> QED
      BY <1>1, <1>4, <1>6, <3>1, <3>2
  <2>3. bonuses[k].is.amount \in Nat
    BY <1>4, <1>6, RulesAre
  <2> HIDE DEF reached, k, valid, tops
  <2>4. {bonuses[i].is.amount : i \in tops} = {bonuses[k].is.amount}
    BY <2>2
  <2>5. Taken!TargetBonus(opened, gross) = {bonuses[k].is.amount}
    BY <1>1, <1>2, <1>6, <2>4
  <2> QED
    BY <1>6, <2>1, <2>3, <2>5 DEF k, reached, opened
<1> QED
  BY <1>5, <1>6 DEF opened

BonusOf(C, t) == TargetBonus(C, t) + ManualBonus[t]

\* A sum of one.
LEMMA OneShift ==
  ASSUME NEW C, NEW s, BonusOf(C, s) \in Int
  PROVE  MapThenSumSet(LAMBDA t : TargetBonus(C, t) + ManualBonus[t], {s}) = BonusOf(C, s)
<1> DEFINE K == {s}
           e == [t \in K |-> BonusOf(C, t)]
           Given(t) == TargetBonus(C, t) + ManualBonus[t]
           Folds(h) == h = [x \in SUBSET K |-> IF x = {} THEN 0 ELSE Given(Pick(x)) + h[x \ {Pick(x)}]]
           fold == CHOOSE h : Folds(h)
<1>1. e \in [K -> Int] /\ IsFiniteSet(K)
  BY FS_Singleton
<1>2. \A t \in K : e[t] = Given(t)
  BY DEF BonusOf
<1>3. e[s] = BonusOf(C, s) /\ s \in K
  OBVIOUS
<1> HIDE DEF e, Given
<1>4. ASSUME NEW h PROVE Folds(h) <=> Unfolds(h, e, K)
  <2> HIDE DEF K
  <2>1. ASSUME NEW x \in SUBSET K, x # {} PROVE e[Pick(x)] = Given(Pick(x))
    BY <1>1, <1>2, <2>1, Smaller
  <2>2. ASSUME NEW x \in SUBSET K
        PROVE  Value(e, h, x) = IF x = {} THEN 0 ELSE Given(Pick(x)) + h[x \ {Pick(x)}]
    BY <2>1 DEF Value
  <2> QED
    BY <2>2 DEF Unfolds
<1> HIDE DEF Folds
<1>5. Unfolds(fold, e, K)
  <2>1. \E h : Folds(h)
    BY <1>1, <1>4, SumsExist
  <2>2. Folds(fold)
    BY <2>1
  <2> QED
    BY <1>4, <2>2
<1>6. MapThenSumSet(Given, K) = fold[K]
  BY DEF MapThenSumSet, MapThenFoldSet, Pick, fold, Folds
<1> HIDE DEF fold
<1>7. PICK g : Adds(g, e, K)
  BY <1>1, SumsAreAdded
<1>8. fold[K] = g[K]
  BY <1>1, <1>5, <1>7, FoldIs
<1>9. g[K] = e[s] + g[K \ {s}] /\ g[{}] = 0
  BY <1>3, <1>7 DEF Adds
<1>10. K \ {s} = {}
  OBVIOUS
<1> DEFINE b == BonusOf(C, s)
<1>11. g[K] = b + 0
  BY <1>3, <1>9, <1>10
<1>12. b + 0 = b
  <2>1. b \in Int
    OBVIOUS
  <2> HIDE DEF b
  <2> QED
    BY <2>1
<1> HIDE DEF b
<1>13. MapThenSumSet(Given, K) = b
  BY <1>6, <1>8, <1>11, <1>12
<1> QED
  BY <1>13 DEF Given, b, K

\* All money of a shift is that of its completed massages, unless a massage
\* under review was corrected.
LEMMA GrossIsCompleted ==
  ASSUME RowsTyped, TimesInv, NEW s \in Shift, NEW D, D = {i \in Shown : rows[i].shift = s},
         \A i \in D : rows[i].status = "UNCERTAIN" => FinalAmount(rows[i]) = 0
  PROVE  Gross(D) = Final(CompletedOf(s)) /\ Gross(D) \in Int
<1> DEFINE money == CHOOSE g : Adds(g, Revenues, Places)
           final == CHOOSE g : Adds(g, Finals, Places)
           A == CompletedOf(s)
           B == D \ A
<1>1. Adds(money, Revenues, Places) /\ Adds(final, Finals, Places)
  BY MoneyAddsUp
<1>2. IsFiniteSet(Places) /\ Revenues \in [Places -> Int] /\ Finals \in [Places -> Int]
  BY TableIs
<1>3. D \in SUBSET Kept /\ D \in SUBSET Places
  BY TableIs DEF Shown
<1>4. A \subseteq D /\ \A i \in A : Finals[i] = Revenues[i]
  BY <1>3 DEF CompletedOf, Finals, Revenues, sessionRevenue, Kept
<1>5. \A i \in B : Revenues[i] = 0
  <2> SUFFICES ASSUME NEW i \in B PROVE Revenues[i] = 0
    OBVIOUS
  <2>1. i \in Kept /\ ~rows[i].archived /\ rows[i].status # "COMPLETED" /\ i \in Places
    BY <1>3 DEF CompletedOf, Shown
  <2>2. rows[i] \in Row /\ rows[i].status # "CANCELLED"
    BY <2>1, KeptIsSound
  <2>3. rows[i].status \in {"ACTIVE", "UNCERTAIN"}
    BY <2>1, <2>2 DEF Row
  <2>4. sessionRevenue(rows[i]) = 0
    BY <2>3 DEF sessionRevenue
  <2> QED
    BY <2>1, <2>4 DEF Revenues, Kept
<1>6. A \in SUBSET Places /\ B \in SUBSET Places /\ A \cap B = {}
  BY <1>3, <1>4
<1>7. D = A \cup B
  BY <1>4
<1> HIDE DEF money, final, A, B
<1>8. money[A \cup B] = money[A] + money[B]
  BY <1>1, <1>2, <1>6, SumOfParts
<1>9. money[B] = 0
  BY <1>1, <1>2, <1>5, <1>6, NothingSums
<1>10. final[A] = money[A]
  BY <1>1, <1>2, <1>4, <1>6, SameSum
<1>11. money[A] \in Int
  BY <1>1, <1>6 DEF Adds
<1>12. money[A \cup B] = final[A] /\ money[A \cup B] \in Int
  BY <1>8, <1>9, <1>10, <1>11
<1>13. Gross(A \cup B) = Final(A) /\ Gross(A \cup B) \in Int
  BY <1>12 DEF Gross, Final, money, final
<1> QED
  BY <1>7, <1>13 DEF A

\* The bonus the home page gives is the one of the till.
LEMMA BonusIs ==
  ASSUME RowsTyped, PrimesTyped, NEW C, Part(C), NEW s, TargetsStand(s),
         \A i \in DOMAIN C : rows[i].shift = s
  PROVE  /\ Taken!TargetBonus(OpenedAt(s), Gross(DOMAIN C)) = {TargetBonus(C, s)}
         /\ TargetBonus(C, s) \in Int
<1> DEFINE O == Only(LAMBDA r : r.shift = s, C)
           gross == SumOver(sessionRevenue, O)
<1>1. DOMAIN O = {i \in DOMAIN C : C[i].shift = s} /\ \A i \in DOMAIN O : O[i] = C[i]
  BY DEF Only
<1> HIDE DEF O
<1>2. DOMAIN O = DOMAIN C /\ Part(O)
  BY <1>1 DEF Part
<1>3. gross = Gross(DOMAIN C)
  BY <1>2, GrossIs
<1>4. gross \in Int
  <2> DEFINE A == DOMAIN C
  <2>1. A \in SUBSET Kept /\ {} \in SUBSET Kept /\ A \cap {} = {}
    BY DEF Part
  <2> HIDE DEF A, gross
  <2>2. Gross(A) \in Nat
    BY <2>1, GrossOfParts
  <2> QED
    BY <1>3, <2>2 DEF A
<1> HIDE DEF gross
<1> DEFINE reached == {i \in DOMAIN bonuses : bonuses[i].active /\ bonuses[i].is.target <= gross}
           b == IF gross <= 0 \/ reached = {} THEN 0
                ELSE bonuses[CHOOSE i \in reached :
                               \A j \in reached : bonuses[j].is.target <= bonuses[i].is.target].is.amount
<1>5. Taken!TargetBonus(OpenedAt(s), gross) = {b} /\ b \in Int
  BY <1>4, OneBonus
<1>6. TargetBonus(C, s) = b
  BY DEF TargetBonus, gross, O
<1> QED
  BY <1>3, <1>5, <1>6

LEMMA PrimesAgree ==
  ASSUME RowsTyped, TimesInv, PrimesTyped, NEW s \in Shift, TargetsStand(s),
         NEW D, D = {i \in Shown : rows[i].shift = s}, D # {},
         \A i \in D : PayAlike(i) /\ Stand(i),
         \A i \in D : Day(rows[i].at) = Today,
         \A i \in D : rows[i].status = "UNCERTAIN" => FinalAmount(rows[i]) = 0
  PROVE  {TotalPrime(Counted([TodayPage EXCEPT !.shift = s]))} = PrimeTaken(s)
<1> DEFINE C == Counted([TodayPage EXCEPT !.shift = s])
           seen == {C[i].shift : i \in DOMAIN C} \ {None}
           M == MassagesOf(s)
           opened == OpenedAt(s)
           gross == Taken!GrossRevenue(M)
           x == Earned(CompletedOf(s))
           b == TargetBonus(C, s)
           manual == ManualBonus[s]
           sum == MapThenSumSet(Taken!CommissionOf, M)
<1>1. Part(C) /\ DOMAIN C = D
  <2>1. Matching([TodayPage EXCEPT !.shift = s], rows) = D
    BY ShiftPageIs
  <2> QED
    BY <2>1, CountedIsPart
<1>2. TotalPrime(C) = PlanCommission(C) + MapThenSumSet(LAMBDA t : TargetBonus(C, t) + ManualBonus[t], seen)
  BY DEF TotalPrime
<1> HIDE DEF C
<1>3. \A i \in DOMAIN C : rows[i].shift = s /\ C[i].shift = s
  BY <1>1 DEF Part
<1>4. seen = {s}
  BY <1>1, <1>3, PrimeAssumption
<1>5. M = Massages(CompletedOf(s)) /\ CompletedOf(s) \in SUBSET Kept
      /\ \A i \in CompletedOf(s) : rows[i].status = "COMPLETED" /\ i \in D
  BY MassagesOfShift DEF CompletedOf
<1>6. gross = Gross(D)
  <2>1. gross = Final(CompletedOf(s))
    BY <1>5, TakenGross
  <2> QED
    BY <2>1, GrossIsCompleted
<1>7. Taken!TargetBonus(opened, gross) = {b} /\ b \in Int
  BY <1>1, <1>3, <1>6, BonusIs
<1>8. sum = x /\ x \in Int
  BY <1>5, TakenCommissions, CommissionOfEarners
<1>9. PlanCommission(C) = x
  <2>1. PlanCommission(C) = Earned({i \in DOMAIN C : EarnsCommission(rows[i])})
    BY <1>1, PlanCommissionIs
  <2>2. {i \in DOMAIN C : EarnsCommission(rows[i])} = {i \in CompletedOf(s) : EarnsCommission(rows[i])}
    BY <1>1 DEF CompletedOf, EarnsCommission
  <2>3. x = Earned({i \in CompletedOf(s) : EarnsCommission(rows[i])})
    BY <1>5, CommissionOfEarners
  <2> QED
    BY <2>1, <2>2, <2>3
<1>10. manual \in Int
  BY FiguresAssumption
<1>11. BonusOf(C, s) = b + manual
  BY DEF BonusOf
<1>12. Taken!calculateShiftPrimeSummary(M, opened, manual) =
         {[gross |-> gross, prime |-> sum + y + manual] :
            y \in Taken!TargetBonus(opened, gross)}
  BY DEF Taken!calculateShiftPrimeSummary, Taken!MapThenSumSet, Taken!MapThenFoldSet, MapThenSumSet, MapThenFoldSet
<1> HIDE DEF M, opened, gross, x, b, manual, seen, sum
<1>13. BonusOf(C, s) \in Int
  BY <1>7, <1>10, <1>11
<1>14. TotalPrime(C) = x + (b + manual)
  BY <1>2, <1>4, <1>9, <1>11, <1>13, OneShift
<1>15. {t.prime : t \in Taken!calculateShiftPrimeSummary(M, opened, manual)} = {x + b + manual}
  <2>1. Taken!calculateShiftPrimeSummary(M, opened, manual) = {[gross |-> gross, prime |-> sum + b + manual]}
    BY <1>7, <1>12
  <2> DEFINE total == sum + b + manual
  <2>2. total = x + b + manual
    BY <1>8
  <2> HIDE DEF total
  <2>3. Taken!calculateShiftPrimeSummary(M, opened, manual) = {[gross |-> gross, prime |-> total]}
    BY <2>1 DEF total
  <2>4. {t.prime : t \in Taken!calculateShiftPrimeSummary(M, opened, manual)} = {total}
    <3> DEFINE T == Taken!calculateShiftPrimeSummary(M, opened, manual)
               u == [gross |-> gross, prime |-> total]
    <3>1. T = {u} /\ u.prime = total
      BY <2>3
    <3> HIDE DEF T, u
    <3>2. \A y : y \in {t.prime : t \in T} <=> \E t \in T : y = t.prime
      BY Zenon
    <3>3. \A y : y \in {t.prime : t \in T} <=> y = total
      BY <3>1, <3>2, Zenon
    <3>4. {t.prime : t \in T} = {total}
      BY <3>3, Zenon
    <3> QED
      BY <3>4 DEF T
  <2> QED
    BY <2>2, <2>4
<1>16. x + (b + manual) = x + b + manual
  BY <1>7, <1>8, <1>10
<1> QED
  BY <1>14, <1>15, <1>16 DEF C, M, opened, manual, PrimeTaken

LEMMA PrimesAreTaken ==
  ASSUME RowsTyped, TimesInv, PrimesTyped
  PROVE  PrimeShownIsPrimeTaken
<1> SUFFICES ASSUME NEW s \in Shift, OneRate(Only(LAMBDA r : r.shift = s, Operational))
             PROVE  LET C == Only(LAMBDA r : r.shift = s, Operational)
                    IN /\ LiveShift(s).prime >= CommissionTaken(s)
                       /\ RatesStand(C) => LiveShift(s).prime = CommissionTaken(s)
                       /\ (/\ RatesStand(C) /\ TargetsStand(s)
                           /\ C # <<>>
                           /\ \A i \in DOMAIN C : Day(C[i].at) = Today
                           /\ \A i \in DOMAIN C : C[i].status = "UNCERTAIN" => FinalAmount(C[i]) = 0) =>
                             {TotalPrime(Counted([Asked(TodayAll) EXCEPT !.shift = s]))} = PrimeTaken(s)
  BY DEF PrimeShownIsPrimeTaken
<1> DEFINE C == Only(LAMBDA r : r.shift = s, Operational)
           D == {i \in Shown : rows[i].shift = s}
<1>1. DOMAIN Operational = Shown /\ \A i \in Shown : Operational[i] = rows[i]
  BY OperationalIs DEF Part
<1>2. /\ C = [i \in {j \in DOMAIN Operational : Operational[j].shift = s} |-> Operational[i]]
      /\ DOMAIN C = {i \in DOMAIN Operational : Operational[i].shift = s}
      /\ \A i \in DOMAIN C : C[i] = Operational[i]
  BY DEF Only
<1>3. DOMAIN C = D /\ \A i \in D : C[i] = rows[i]
  BY <1>1, <1>2
<1>4. ASSUME C # <<>> PROVE D # {}
  <2> SUFFICES ASSUME D = {} PROVE FALSE
    OBVIOUS
  <2>1. C = [i \in {} |-> Operational[i]]
    BY <1>2, <1>3
  <2> HIDE DEF C
  <2> QED
    BY <1>4, <2>1
<1>5. OneRate(C)
  OBVIOUS
<1> HIDE DEF C
<1>6. \A i \in D : PayAlike(i)
  BY <1>3, <1>5 DEF OneRate, PayAlike
<1>7. RatesStand(C) => \A i \in D : Stand(i)
  BY <1>3 DEF RatesStand, Stand
<1>8. CompletedOf(s) \subseteq D
  BY DEF CompletedOf
<1>9. /\ LiveShift(s).prime >= CommissionTaken(s)
      /\ RatesStand(C) => LiveShift(s).prime = CommissionTaken(s)
  <2> HIDE DEF D
  <2> QED
    BY <1>6, <1>7, <1>8, LivePrime
<1>10. ASSUME RatesStand(C), TargetsStand(s),
              C # <<>>, \A i \in DOMAIN C : Day(C[i].at) = Today,
              \A i \in DOMAIN C : C[i].status = "UNCERTAIN" => FinalAmount(C[i]) = 0
       PROVE  {TotalPrime(Counted([TodayPage EXCEPT !.shift = s]))} = PrimeTaken(s)
  <2>1. D # {}
    BY <1>4, <1>10
  <2>2. \A i \in D : Day(rows[i].at) = Today
    BY <1>3, <1>10
  <2>3. \A i \in D : rows[i].status = "UNCERTAIN" => FinalAmount(rows[i]) = 0
    BY <1>3, <1>10
  <2>4. \A i \in D : PayAlike(i) /\ Stand(i)
    BY <1>6, <1>7, <1>10
  <2> QED
    BY <1>10, <2>1, <2>2, <2>3, <2>4, PrimesAgree
<1> QED
  BY <1>9, <1>10 DEF C, TodayPage

-----------------------------------------------------------------------------
(***************************************************************************)
(* The theorems.                                                           *)
(***************************************************************************)

\* Whatever requests edit the settings at once, plans and rules keep their
\* types, and a request rewrites rules that exist.
THEOREM PricesTyped == Spec => []PricingTypeOK
<1>1. Init => PricingInv
  BY InitPricing
<1>2. ASSUME PricingInv, [Next]_vars PROVE PricingInv'
  <2>1. CASE Tariffs
    BY <1>2, <2>1, TariffsKeepInv
  <2>2. CASE ~Tariffs
    BY <1>2, <2>2, OthersKeepPrices DEF PricingInv, PricingTypeOK, TariffBound, pricingVars
  <2> QED
    BY <2>1, <2>2
<1>3. PricingInv => PricingTypeOK
  BY DEF PricingInv
<1> QED
  BY <1>1, <1>2, <1>3, PTL DEF Spec

\* A longer massage never costs less, whatever the owner has done to the
\* plans, the grace, the minimum plan and the overtime policy, while the list
\* of plans is ordered, one rule is active and no query fails
\* (calculateSessionPrice, without its catch).
THEOREM LongerIsNeverCheaper == Spec => []LongerNeverCheaper
<1>1. PricingTypeOK => LongerNeverCheaper
  BY TypedPricesGrow DEF PricingTypeOK, PlansTyped, TariffsTyped
<1> QED
  BY <1>1, PricesTyped, PTL

\* The massages, the clock and the chairs keep their types, whatever the
\* owner and the assistants do to rows, plans and rules.
THEOREM FiguresStayTyped == Spec => []TypeOK
<1>1. Init => FiguresInv
  BY FiguresTypedInv
<1>2. FiguresInv /\ [Next]_vars => FiguresInv'
  BY FiguresTypedInv
<1>3. FiguresInv => TypeOK
  BY DEF FiguresInv, RowsTyped, PricingInv, PrimesTyped, Table, TypeOK
<1> QED
  BY <1>1, <1>2, <1>3, PTL DEF Spec

\* The home page counts every massage once, for any batches and filters and
\* whatever is started, corrected, archived or deleted between two of them:
\* none twice, none that never matched, and of those that matched throughout
\* one less per skipped cursor, or the rest if its row was deleted (the loop
\* of _getUncached).
THEOREM EachIsCountedOnce == Spec => []EveryMassageCountsOnce
<1>1. Init => FiguresInv /\ CountInv
  BY FiguresTypedInv DEF Init, CountInv
<1>2. FiguresInv /\ CountInv /\ [Next]_vars => FiguresInv' /\ CountInv'
  BY FiguresTypedInv, StepCounts
<1>3. CountInv => EveryMassageCountsOnce
  BY DEF CountInv, CountsOnce, EveryMassageCountsOnce, Ids
<1> QED
  BY <1>1, <1>2, <1>3, PTL DEF Spec

\* The pages show the same money, whatever happened to the massages: the
\* home page adds up for every filter of the world, and the chart of revenues, the live
\* counter, the page of a chair and the page of an assistant show what it
\* shows, but for corrections of massages that still run (session-metrics,
\* dashboard, chair-detail and assistant).
THEOREM PagesShowTheSameMoney == Spec => []FiguresAgree
<1>1. Init => FiguresInv /\ TimesInv
  BY FiguresTypedInv, TimesHold
<1>2. FiguresInv /\ TimesInv /\ [Next]_vars => (FiguresInv /\ TimesInv)'
  BY FiguresTypedInv, TimesHold
<1>3. FiguresInv /\ TimesInv => FiguresAgree
  BY PageAddsUp, PagesShowTheSame DEF FiguresInv, TimesInv, FiguresAgree
<1> QED
  BY <1>1, <1>2, <1>3, PTL DEF Spec

\* Whatever the owner does to the rules, and whatever happens to the massages:
\* while the active rules of a plan pay alike, the commission on the card of a
\* shift is never less than what the till pays; it is the same when those rules
\* were in force at the massages of the shift; and when the active bonuses were
\* in force as the shift opened, too, and agree on each target, the prime on
\* the home page of the day is the one that is taken, unless a correction of a
\* massage under review counts towards the target.  After an edit of a rule
\* in the middle of a shift nothing but the first is claimed: the home page
\* takes any active rule, the calculation only one in force by then
\* (session-metrics.logic and home-dashboard.service, prime-calculation.service).
THEOREM PrimesShownAreTaken == Spec => []PrimeShownIsPrimeTaken
<1>1. Init => FiguresInv /\ TimesInv
  BY FiguresTypedInv, TimesHold
<1>2. FiguresInv /\ TimesInv /\ [Next]_vars => (FiguresInv /\ TimesInv)'
  BY FiguresTypedInv, TimesHold
<1>3. FiguresInv /\ TimesInv => PrimeShownIsPrimeTaken
  BY PrimesAreTaken DEF FiguresInv
<1> QED
  BY <1>1, <1>2, <1>3, PTL DEF Spec

-----------------------------------------------------------------------------
(***************************************************************************)
(* The changes asked for and reviewed.  Types of the rows, of the pages    *)
(* with their dialogs, and of the orders under way.                        *)
(***************************************************************************)

Everyone == {"assistant"} \cup Reviewer
Waits == {"dialog", "timer", "nobody"}
Answer == {None, "ok", "error"}

APage(L, D) == [list: L, dialog: D \cup {None}, closing: Nat]
AssistantPage == APage([Session -> SeenSession \cup {None}], FileDialog)
ReviewPage == APage([Pages!Request -> SeenRequest \cup {None}], ReviewDialog)
PageSet(v) == IF v = "assistant" THEN AssistantPage ELSE ReviewPage

FileOrder ==
  [page: {"assistant"}, do: {"file"}, of: Session, plan: Plan \cup {None}, paid: Amount \cup {None},
   shown: SeenSession, read: ReadRow \cup {None}, waits: Waits, answer: Answer]
ReviewOrder ==
  [page: Reviewer, do: {"approve", "reject"}, of: Pages!Request, plan: {None}, paid: {None},
   shown: SeenRequest, read: ReadRow \cup {None}, waits: Waits, answer: Answer]

FiledTyped ==
  /\ pagesWorld \in PagesWorld
  /\ session \in [Session -> Pages!SessionRow]
  /\ plan \in [Plan -> [price: PlanPrice, active: BOOLEAN]]
  /\ filed \in [Pages!Request -> Pages!RequestRow \cup {None}]
  /\ \E n \in 0 .. MaxRequests : Pages!Rows = 1 .. n

PagesTyped == assistant \in AssistantPage /\ reviewer \in [Reviewer -> ReviewPage]

OrdersTyped == order \subseteq FileOrder \cup ReviewOrder

WaitsFor(os, v) == {o \in os : o.page = v /\ o.waits = "dialog"}
Saving(p) == p.dialog # None /\ p.dialog.stage = "saving"

\* A page is saving while exactly one order is under way for its dialog.
OneWaits ==
  \A v \in Everyone :
    IF Saving(Pages!Page(v)) THEN \E o \in order : WaitsFor(order, v) = {o}
    ELSE WaitsFor(order, v) = {}

AskTyped == FiledTyped /\ PagesTyped /\ OrdersTyped /\ OneWaits

\* Cardinality as RequestPages sees it.
LEMMA PagesCardinality == ASSUME NEW S PROVE Pages!Cardinality(S) = Cardinality(S)
BY ZenonT(30) DEF Pages!Cardinality, Cardinality

LEMMA NotNull ==
  /\ None \notin SeenSession /\ None \notin SeenRequest /\ None \notin FileDialog
  /\ None \notin ReviewDialog /\ None \notin ReadRow /\ None \notin Pages!RequestRow
  /\ None \notin Amount /\ None \notin PlanPrice /\ None \notin Status
  /\ None # "ok" /\ None # "error" /\ None \notin Plan
BY PagesAssumption, PricingAssumption

LEMMA PagesWorldIs ==
  ASSUME FiledTyped
  PROVE  pagesWorld.reviewers \in SUBSET Reviewer /\ pagesWorld.wanted \in SUBSET Plan
BY PagesAssumption DEF FiledTyped, Pages!AllWorlds

LEMMA PageIsTyped ==
  ASSUME PagesTyped, NEW v \in Everyone
  PROVE  Pages!Page(v) \in PageSet(v)
BY PagesAssumption DEF PagesTyped, Everyone, Pages!Page, PageSet

LEMMA PagesAre == ASSUME FiledTyped, NEW v \in Pages!Pages PROVE v \in Everyone
BY PagesWorldIs DEF Pages!Pages, Everyone

\* SetPage changes one page and leaves the others.
LEMMA PageIsSet ==
  ASSUME PagesTyped, NEW v \in Everyone, NEW p \in PageSet(v), Pages!SetPage(v, p)
  PROVE  PagesTyped' /\ \A w \in Everyone : Pages!Page(w)' = IF w = v THEN p ELSE Pages!Page(w)
<1>1. CASE v = "assistant"
  <2>1. assistant' = p /\ reviewer' = reviewer
    BY <1>1 DEF Pages!SetPage
  <2> QED
    BY <1>1, <2>1, PagesAssumption DEF PagesTyped, Everyone, Pages!Page, PageSet
<1>2. CASE v # "assistant"
  <2>1. assistant' = assistant /\ reviewer' = [reviewer EXCEPT ![v] = p] /\ v \in Reviewer
        /\ p \in ReviewPage
    BY <1>2 DEF Pages!SetPage, Everyone, PageSet
  <2>2. reviewer' \in [Reviewer -> ReviewPage] /\ \A w \in Reviewer : reviewer'[w] = IF w = v THEN p ELSE reviewer[w]
    BY <2>1 DEF PagesTyped
  <2>3. ASSUME NEW w \in Everyone PROVE Pages!Page(w)' = IF w = v THEN p ELSE Pages!Page(w)
    <3>1. CASE w = "assistant"
      BY <1>2, <2>1, <3>1 DEF Pages!Page
    <3>2. CASE w # "assistant"
      <4>1. w \in Reviewer
        BY <3>2 DEF Everyone
      <4> QED
        BY <2>2, <3>2, <4>1 DEF Pages!Page
    <3> QED
      BY <3>1, <3>2
  <2> QED
    BY <2>1, <2>2, <2>3 DEF PagesTyped
<1> QED
  BY <1>1, <1>2

LEMMA PagesRest ==
  ASSUME PagesTyped, UNCHANGED <<assistant, reviewer>>
  PROVE  PagesTyped' /\ \A w \in Everyone : Pages!Page(w)' = Pages!Page(w)
BY DEF PagesTyped, Pages!Page

\* Pages and dialogs, one field at a time.
LEMMA FieldsOfPage ==
  ASSUME NEW L, NEW D, NEW p \in APage(L, D)
  PROVE  /\ p.list \in L /\ p.dialog \in D \cup {None} /\ p.closing \in Nat
         /\ \A l \in L : LET u == [p EXCEPT !.list = l] IN
              u \in APage(L, D) /\ u.list = l /\ u.dialog = p.dialog /\ u.closing = p.closing
         /\ \A d \in D \cup {None} : LET u == [p EXCEPT !.dialog = d] IN
              u \in APage(L, D) /\ u.list = p.list /\ u.dialog = d /\ u.closing = p.closing
         /\ \A c \in Nat : LET u == [p EXCEPT !.closing = c] IN
              u \in APage(L, D) /\ u.list = p.list /\ u.dialog = p.dialog /\ u.closing = c
BY DEF APage

StageSet(d, st) == [d EXCEPT !.stage = st]

LEMMA StageIsSet ==
  ASSUME NEW v, NEW p \in PageSet(v), p.dialog # None, NEW st \in Stage
  PROVE  LET d == StageSet(p.dialog, st)
             u == [p EXCEPT !.dialog = d]
         IN /\ u \in PageSet(v) /\ u.list = p.list /\ u.dialog = d /\ u.closing = p.closing
            /\ d # None /\ d.stage = st /\ d.of = p.dialog.of /\ d.shown = p.dialog.shown
            /\ d.do = p.dialog.do
            /\ [p EXCEPT !.dialog.stage = st] = u
<1> DEFINE d == StageSet(p.dialog, st)
           u == [p EXCEPT !.dialog = d]
<1>1. ASSUME NEW L, NEW S, NEW A, NEW O, p \in APage(L, [of: O, shown: S, do: A, stage: Stage]),
             None \notin [of: O, shown: S, do: A, stage: Stage]
      PROVE  /\ u \in APage(L, [of: O, shown: S, do: A, stage: Stage])
             /\ u.list = p.list /\ u.dialog = d /\ u.closing = p.closing
             /\ d # None /\ d.stage = st /\ d.of = p.dialog.of /\ d.shown = p.dialog.shown
             /\ d.do = p.dialog.do
  <2> DEFINE D == [of: O, shown: S, do: A, stage: Stage]
  <2>1. p.dialog \in D
    <3>1. p \in APage(L, D)
      BY <1>1
    <3> HIDE DEF D
    <3> QED
      BY <3>1, FieldsOfPage
  <2>2. d \in D /\ d.stage = st /\ d.of = p.dialog.of /\ d.shown = p.dialog.shown /\ d.do = p.dialog.do
    BY <2>1 DEF StageSet
  <2> HIDE DEF D, d
  <2>3. /\ u \in APage(L, D) /\ u.list = p.list /\ u.dialog = d /\ u.closing = p.closing
    BY <1>1, <2>2, FieldsOfPage DEF D
  <2> QED
    BY <1>1, <2>2, <2>3 DEF D
<1>2. [p EXCEPT !.dialog.stage = st] = u
  BY DEF StageSet
<1>3. CASE v = "assistant"
  <2>1. p \in APage([Session -> SeenSession \cup {None}], [of: Session, shown: SeenSession, do: {"file"}, stage: Stage])
    BY <1>3 DEF PageSet, AssistantPage, FileDialog
  <2>2. None \notin [of: Session, shown: SeenSession, do: {"file"}, stage: Stage]
    BY NotNull DEF FileDialog
  <2> HIDE DEF d, u
  <2>3. /\ u \in APage([Session -> SeenSession \cup {None}], [of: Session, shown: SeenSession, do: {"file"}, stage: Stage])
        /\ u.list = p.list /\ u.dialog = d /\ u.closing = p.closing
        /\ d # None /\ d.stage = st /\ d.of = p.dialog.of /\ d.shown = p.dialog.shown
        /\ d.do = p.dialog.do
    BY <1>1, <2>1, <2>2
  <2>4. u \in PageSet(v)
    BY <1>3, <2>3 DEF PageSet, AssistantPage, FileDialog
  <2> QED
    BY <1>2, <2>3, <2>4 DEF d, u
<1>4. CASE v # "assistant"
  <2> DEFINE D == [of: Pages!Request, shown: SeenRequest, do: {"approve", "reject"}, stage: Stage]
             L == [Pages!Request -> SeenRequest \cup {None}]
  <2>1. p \in APage(L, D)
    BY <1>4 DEF PageSet, ReviewPage, ReviewDialog
  <2>2. None \notin D
    BY NotNull DEF ReviewDialog
  <2> HIDE DEF d, u, L
  <2>3. /\ u \in APage(L, D)
        /\ u.list = p.list /\ u.dialog = d /\ u.closing = p.closing
        /\ d # None /\ d.stage = st /\ d.of = p.dialog.of /\ d.shown = p.dialog.shown
        /\ d.do = p.dialog.do
    BY <1>1, <2>1, <2>2
  <2>4. u \in PageSet(v)
    BY <1>4, <2>3 DEF PageSet, ReviewPage, ReviewDialog, L
  <2> QED
    BY <1>2, <2>3, <2>4 DEF d, u
<1> QED
  BY <1>3, <1>4

-----------------------------------------------------------------------------
\* The row of a massage, one field at a time.
SRow(p, e, c, a, n) == [plan |-> p, expected |-> e, corrected |-> c, archived |-> a, stamp |-> n]

LEMMA SRowIs ==
  ASSUME NEW p, NEW e, NEW c, NEW a, NEW n
  PROVE  /\ SRow(p, e, c, a, n).plan = p /\ SRow(p, e, c, a, n).expected = e
         /\ SRow(p, e, c, a, n).corrected = c /\ SRow(p, e, c, a, n).stamp = n
BY DEF SRow

Priced(r, p, e) == [[r EXCEPT !.plan = p] EXCEPT !.expected = e]
SetArchived(r, a) == [r EXCEPT !.archived = a]

LEMMA SRowArchived ==
  ASSUME NEW p, NEW e, NEW c, NEW a, NEW n, NEW x
  PROVE  SetArchived(SRow(p, e, c, a, n), x) = SRow(p, e, c, x, n)
BY DEF SRow, SetArchived

LEMMA SessionRowIs ==
  ASSUME NEW r \in Pages!SessionRow
  PROVE  /\ r = SRow(r.plan, r.expected, r.corrected, r.archived, r.stamp)
         /\ r.plan \in Plan \cup {None} /\ r.expected \in PlanPrice \cup {0}
         /\ r.corrected \in Amount \cup {None} /\ r.archived \in BOOLEAN /\ r.stamp \in 0 .. MaxStamp
<1>1. r.archived \in BOOLEAN
  BY Zenon DEF Pages!SessionRow
<1>2. /\ r = SRow(r.plan, r.expected, r.corrected, r.archived, r.stamp)
      /\ r.plan \in Plan \cup {None} /\ r.expected \in PlanPrice \cup {0}
      /\ r.corrected \in Amount \cup {None} /\ r.stamp \in 0 .. MaxStamp
  BY DEF Pages!SessionRow, SRow
<1> QED
  BY <1>1, <1>2

LEMMA SRowTyped ==
  ASSUME NEW p \in Plan \cup {None}, NEW e \in PlanPrice \cup {0}, NEW c \in Amount \cup {None},
         NEW a \in BOOLEAN, NEW n \in 0 .. MaxStamp
  PROVE  SRow(p, e, c, a, n) \in Pages!SessionRow
BY DEF Pages!SessionRow, SRow

IsBoolean(a) == a \in BOOLEAN

LEMMA RowEdits ==
  ASSUME NEW r \in Pages!SessionRow
  PROVE  /\ \A p \in Plan, e \in PlanPrice : LET u == Priced(r, p, e) IN
              u \in Pages!SessionRow /\ u.stamp = r.stamp /\ u.plan = p /\ u.expected = e
              /\ u.corrected = r.corrected
         /\ \A c \in Amount \cup {None} : LET u == [r EXCEPT !.corrected = c] IN
              u \in Pages!SessionRow /\ u.stamp = r.stamp /\ u.corrected = c /\ u.plan = r.plan
              /\ u.expected = r.expected
         /\ \A a : IsBoolean(a) => LET u == SetArchived(r, a) IN u \in Pages!SessionRow /\ u.stamp = r.stamp
         /\ \A n \in 0 .. MaxStamp : LET u == [r EXCEPT !.stamp = n] IN
              u \in Pages!SessionRow /\ u.stamp = n /\ u.plan = r.plan /\ u.expected = r.expected
              /\ u.corrected = r.corrected
<1> DEFINE R == SRow(r.plan, r.expected, r.corrected, r.archived, r.stamp)
<1>1. r = R
  BY SessionRowIs
<1>2. /\ r.plan \in Plan \cup {None} /\ r.expected \in PlanPrice \cup {0}
      /\ r.corrected \in Amount \cup {None} /\ r.archived \in BOOLEAN /\ r.stamp \in 0 .. MaxStamp
  BY SessionRowIs
<1>4. ASSUME NEW p \in Plan, NEW e \in PlanPrice
      PROVE  LET u == Priced(r, p, e) IN
              u \in Pages!SessionRow /\ u.stamp = r.stamp /\ u.plan = p /\ u.expected = e
              /\ u.corrected = r.corrected
  <2>1. Priced(R, p, e) = SRow(p, e, r.corrected, r.archived, r.stamp)
    <3>1. [R EXCEPT !.plan = p] = SRow(p, r.expected, r.corrected, r.archived, r.stamp)
      BY DEF SRow
    <3>2. [SRow(p, r.expected, r.corrected, r.archived, r.stamp) EXCEPT !.expected = e]
            = SRow(p, e, r.corrected, r.archived, r.stamp)
      BY DEF SRow
    <3> QED
      BY <3>1, <3>2 DEF Priced
  <2>2. SRow(p, e, r.corrected, r.archived, r.stamp) \in Pages!SessionRow
    BY <1>2, SRowTyped
  <2>3. LET v == SRow(p, e, r.corrected, r.archived, r.stamp) IN
          v.stamp = r.stamp /\ v.plan = p /\ v.expected = e /\ v.corrected = r.corrected
    BY SRowIs
  <2> HIDE DEF R
  <2> QED
    BY <1>1, <2>1, <2>2, <2>3
<1>5. ASSUME NEW c \in Amount \cup {None}
      PROVE  LET u == [r EXCEPT !.corrected = c] IN
              u \in Pages!SessionRow /\ u.stamp = r.stamp /\ u.corrected = c /\ u.plan = r.plan
              /\ u.expected = r.expected
  <2>1. [R EXCEPT !.corrected = c] = SRow(r.plan, r.expected, c, r.archived, r.stamp)
    BY DEF SRow
  <2>2. SRow(r.plan, r.expected, c, r.archived, r.stamp) \in Pages!SessionRow
    BY <1>2, SRowTyped
  <2>3. LET v == SRow(r.plan, r.expected, c, r.archived, r.stamp) IN
          v.stamp = r.stamp /\ v.plan = r.plan /\ v.expected = r.expected /\ v.corrected = c
    BY SRowIs
  <2> HIDE DEF R
  <2> QED
    BY <1>1, <2>1, <2>2, <2>3
<1>6. ASSUME NEW a, IsBoolean(a)
      PROVE  LET u == SetArchived(r, a) IN u \in Pages!SessionRow /\ u.stamp = r.stamp
  <2>1. SetArchived(R, a) = SRow(r.plan, r.expected, r.corrected, a, r.stamp)
    BY SRowArchived
  <2>2. SRow(r.plan, r.expected, r.corrected, a, r.stamp) \in Pages!SessionRow
    BY <1>2, <1>6, SRowTyped DEF IsBoolean
  <2>3. SRow(r.plan, r.expected, r.corrected, a, r.stamp).stamp = r.stamp
    BY SRowIs
  <2> HIDE DEF R
  <2> QED
    BY <1>1, <2>1, <2>2, <2>3
<1>7. ASSUME NEW n \in 0 .. MaxStamp
      PROVE  LET u == [r EXCEPT !.stamp = n] IN
              u \in Pages!SessionRow /\ u.stamp = n /\ u.plan = r.plan /\ u.expected = r.expected
              /\ u.corrected = r.corrected
  <2>1. [R EXCEPT !.stamp = n] = SRow(r.plan, r.expected, r.corrected, r.archived, n)
    BY DEF SRow
  <2>2. SRow(r.plan, r.expected, r.corrected, r.archived, n) \in Pages!SessionRow
    BY <1>2, SRowTyped
  <2>3. LET v == SRow(r.plan, r.expected, r.corrected, r.archived, n) IN
          v.stamp = n /\ v.plan = r.plan /\ v.expected = r.expected /\ v.corrected = r.corrected
    BY SRowIs
  <2> HIDE DEF R
  <2> QED
    BY <1>1, <2>1, <2>2, <2>3
<1> QED
  BY <1>4, <1>5, <1>6, <1>7

\* The row of s is written: it is r with the next stamp.
LEMMA ChangedIs ==
  ASSUME FiledTyped, NEW s \in Session, NEW r \in Pages!SessionRow, r.stamp < MaxStamp,
         Pages!Changed(s, r)
  PROVE  /\ session' \in [Session -> Pages!SessionRow]
         /\ session'[s].stamp = r.stamp + 1 /\ session'[s].plan = r.plan
         /\ session'[s].expected = r.expected /\ session'[s].corrected = r.corrected
         /\ \A m \in Session : m # s => session'[m] = session[m]
<1>1. r.stamp + 1 \in 0 .. MaxStamp
  BY SessionRowIs, PagesAssumption
<1> DEFINE u == [r EXCEPT !.stamp = r.stamp + 1]
<1>2. u \in Pages!SessionRow /\ u.stamp = r.stamp + 1 /\ u.plan = r.plan /\ u.expected = r.expected
      /\ u.corrected = r.corrected
  BY <1>1, RowEdits
<1>3. session' = [session EXCEPT ![s] = u]
  BY DEF Pages!Changed
<1> HIDE DEF u
<1> QED
  BY <1>2, <1>3 DEF FiledTyped

-----------------------------------------------------------------------------
\* A request as a list, a dialog or an order shows it, against the rows.
Shows(x, q) ==
  /\ filed[q] # None
  /\ x.session = filed[q].session /\ x.plan = filed[q].plan
  /\ x.price = filed[q].price /\ x.paid = filed[q].paid
  /\ session[x.session].stamp = filed[q].atStamp =>
       x.expected = session[x.session].expected /\ x.corrected = session[x.session].corrected

Done(r, row) ==
  (r.plan # None => row.plan = r.plan) /\ (r.paid # None => row.corrected = r.paid)

\* Requests are made for, and approved with, stamps the massage has had.
StampsInv ==
  \A q \in Pages!Rows :
    /\ filed[q].atStamp <= session[filed[q].session].stamp
    /\ filed[q].status = "APPROVED" => filed[q].applied <= session[filed[q].session].stamp

\* What was approved last is what the massage has, until it is changed again.
DoneInv ==
  \A r \in Pages!Rows :
    filed[r].status = "APPROVED" /\ filed[r].applied = session[filed[r].session].stamp
      => Done(filed[r], session[filed[r].session])

\* What was approved is not asked for again for the row that came of it.
AskedInv ==
  \A q, r \in Pages!Rows :
    filed[q].session = filed[r].session /\ q # r /\ filed[q].plan = filed[r].plan
    /\ filed[q].paid = filed[r].paid /\ filed[r].status = "APPROVED"
      => filed[q].atStamp # filed[r].applied

\* An order to file a request, against the rows.
Files(o) ==
  /\ o.plan # None \/ o.paid # None
  /\ o.read # None =>
       /\ o.read.stamp <= session[o.of].stamp
       /\ \A r \in Pages!Rows :
            filed[r].status = "APPROVED" /\ filed[r].session = o.of /\ filed[r].applied = o.read.stamp
              => o.plan # filed[r].plan \/ o.paid # filed[r].paid

\* What a page shows, and what an order was sent and has read, against the rows.
PageHonest(p) ==
  /\ \A q \in Pages!Request : p.list[q] # None => Shows(p.list[q], q)
  /\ p.dialog # None => Shows(p.dialog.shown, p.dialog.of)

OrderHonest(o) ==
  /\ o.do # "file" => Shows(o.shown, o.of)
  /\ o.do = "approve" /\ o.read # None => o.read.stamp = filed[o.of].atStamp
  /\ o.do = "file" => Files(o)

HonestInv ==
  /\ \A v \in Reviewer : PageHonest(Pages!Page(v))
  /\ \A o \in order : OrderHonest(o)

RowsInv == StampsInv /\ DoneInv /\ AskedInv

AskInv == AskTyped /\ RowsInv /\ HonestInv

-----------------------------------------------------------------------------
\* What any step leaves of the rows: requests say what they said, rows that are
\* written get the next stamp, and what is approved now has a stamp of its own.
SameRequest(a, b) ==
  a.session = b.session /\ a.plan = b.plan /\ a.price = b.price /\ a.paid = b.paid
  /\ a.atStamp = b.atStamp

Onward ==
  /\ \A q \in Pages!Rows : filed'[q] # None /\ SameRequest(filed'[q], filed[q])
  /\ \A s \in Session : session'[s] = session[s] \/ session'[s].stamp = session[s].stamp + 1
  /\ \A q \in Pages!Rows' : filed'[q].status = "APPROVED" =>
       \/ q \in Pages!Rows /\ filed[q].status = "APPROVED" /\ filed'[q].applied = filed[q].applied
       \/ filed'[q].applied > session[filed'[q].session].stamp

LEMMA RowIs ==
  ASSUME FiledTyped, NEW q \in Pages!Rows
  PROVE  /\ q \in Pages!Request /\ filed[q] \in Pages!RequestRow /\ filed[q] # None
         /\ filed[q].session \in Session /\ filed[q].atStamp \in Nat /\ filed[q].applied \in Nat
         /\ filed[q].plan \in Plan \cup {None} /\ filed[q].paid \in Amount \cup {None}
BY DEF FiledTyped, Pages!Rows, Pages!RequestRow

LEMMA StampIs ==
  ASSUME FiledTyped, NEW s \in Session
  PROVE  session[s] \in Pages!SessionRow /\ session[s].stamp \in Nat /\ session[s].stamp \in 0 .. MaxStamp
BY SessionRowIs DEF FiledTyped

\* A step leaves what was shown true, and an order to file one worth filing.
LEMMA ShowsOn ==
  ASSUME FiledTyped, StampsInv, Onward, NEW x, NEW q \in Pages!Request, Shows(x, q)
  PROVE  Shows(x, q)'
<1>1. q \in Pages!Rows
  BY DEF Shows, Pages!Rows
<1>2. filed'[q] # None /\ SameRequest(filed'[q], filed[q])
  BY <1>1 DEF Onward
<1>3. x.session \in Session /\ filed[q].atStamp \in Nat
  BY <1>1, RowIs DEF Shows
<1>4. session[x.session].stamp \in Nat /\ filed[q].atStamp <= session[x.session].stamp
  BY <1>1, <1>3, StampIs DEF StampsInv, Shows
<1>5. session'[x.session] = session[x.session] \/ session'[x.session].stamp = session[x.session].stamp + 1
  BY <1>3 DEF Onward
<1>6. session'[x.session].stamp = filed[q].atStamp => session'[x.session] = session[x.session]
  BY <1>3, <1>4, <1>5
<1> QED
  BY <1>2, <1>6 DEF Shows, SameRequest

LEMMA FilesOn ==
  ASSUME FiledTyped, FiledTyped', Onward, NEW o \in FileOrder, Files(o)
  PROVE  Files(o)'
<1>1. o.of \in Session /\ o.read \in ReadRow \cup {None}
  BY DEF FileOrder
<1>2. CASE o.read = None
  BY <1>2 DEF Files
<1>3. CASE o.read # None
  <2>1. o.read.stamp \in Nat
    BY <1>1, <1>3 DEF ReadRow
  <2>2. o.read.stamp <= session[o.of].stamp /\ session[o.of].stamp \in Nat
    BY <1>1, <1>3, StampIs DEF Files
  <2>3. o.read.stamp <= session'[o.of].stamp
    <3>1. session'[o.of] = session[o.of] \/ session'[o.of].stamp = session[o.of].stamp + 1
      BY <1>1 DEF Onward
    <3> QED
      BY <2>1, <2>2, <3>1
  <2>4. ASSUME NEW r \in Pages!Rows', filed'[r].status = "APPROVED", filed'[r].session = o.of,
               filed'[r].applied = o.read.stamp
        PROVE  o.plan # filed'[r].plan \/ o.paid # filed'[r].paid
    <3>1. ~(filed'[r].applied > session[filed'[r].session].stamp)
      BY <2>1, <2>2, <2>4
    <3>2. r \in Pages!Rows /\ filed[r].status = "APPROVED" /\ filed'[r].applied = filed[r].applied
      BY <2>4, <3>1 DEF Onward
    <3>3. SameRequest(filed'[r], filed[r])
      BY <3>2 DEF Onward
    <3> QED
      BY <1>3, <2>4, <3>2, <3>3 DEF Files, SameRequest
  <2> QED
    BY <1>3, <2>3, <2>4 DEF Files
<1> QED
  BY <1>2, <1>3

-----------------------------------------------------------------------------
\* What an order was sent with, and what it has read, stay with it.
SameOrder(u, o) ==
  /\ o.page = u.page /\ o.do = u.do /\ o.of = u.of /\ o.plan = u.plan /\ o.paid = u.paid
  /\ o.shown = u.shown /\ o.read = u.read

Posts == FileOrder \cup ReviewOrder

LEMMA OrderEdits ==
  ASSUME NEW o \in Posts
  PROVE  /\ \A a \in Answer : LET u == [o EXCEPT !.answer = a] IN
              u \in Posts /\ SameOrder(o, u) /\ u.waits = o.waits
         /\ \A w \in Waits : LET u == [o EXCEPT !.waits = w] IN
              u \in Posts /\ SameOrder(o, u) /\ u.waits = w
         /\ \A r \in ReadRow : LET u == [o EXCEPT !.read = r] IN
              /\ u \in Posts /\ u.page = o.page /\ u.waits = o.waits /\ u.do = o.do /\ u.of = o.of
              /\ u.plan = o.plan /\ u.paid = o.paid /\ u.shown = o.shown /\ u.read = r
<1>1. CASE o \in FileOrder
  BY <1>1 DEF FileOrder, Posts, SameOrder
<1>2. CASE o \in ReviewOrder
  BY <1>2 DEF ReviewOrder, Posts, SameOrder
<1> QED
  BY <1>1, <1>2 DEF Posts

LEMMA OrderIs ==
  ASSUME OrdersTyped, NEW o \in order
  PROVE  /\ o \in Posts /\ o.page \in Everyone /\ o.waits \in Waits /\ o.read \in ReadRow \cup {None}
         /\ o.answer \in Answer
         /\ o.do = "file" => o \in FileOrder
         /\ o.do # "file" => o \in ReviewOrder
         /\ o.do \in {"file", "approve", "reject"}
<1>1. o \in Posts
  BY DEF OrdersTyped, Posts
<1>2. CASE o \in FileOrder
  BY <1>1, <1>2 DEF FileOrder, Everyone
<1>3. CASE o \in ReviewOrder
  BY <1>1, <1>3 DEF ReviewOrder, Everyone
<1> QED
  BY <1>1, <1>2, <1>3 DEF Posts

LEMMA WaitsSame ==
  ASSUME OneWaits, order' = order,
         \A w \in Everyone : Saving(Pages!Page(w)') <=> Saving(Pages!Page(w))
  PROVE  OneWaits'
BY DEF OneWaits

\* An order changes in what nobody waits for.
LEMMA WaitsSwapped ==
  ASSUME OneWaits, NEW o \in order, NEW u, u.page = o.page, u.waits = o.waits,
         order' = (order \ {o}) \cup {u},
         \A w \in Everyone : Pages!Page(w)' = Pages!Page(w)
  PROVE  OneWaits'
<1> SUFFICES ASSUME NEW w \in Everyone
             PROVE  IF Saving(Pages!Page(w)) THEN \E x \in order' : WaitsFor(order', w) = {x}
                    ELSE WaitsFor(order', w) = {}
  BY DEF OneWaits
<1>1. CASE ~Saving(Pages!Page(w))
  <2>1. WaitsFor(order, w) = {}
    BY <1>1 DEF OneWaits
  <2>2. WaitsFor(order', w) = {}
    BY <2>1 DEF WaitsFor
  <2> QED
    BY <1>1, <2>2
<1>2. CASE Saving(Pages!Page(w))
  <2>1. PICK x \in order : WaitsFor(order, w) = {x}
    BY <1>2 DEF OneWaits
  <2>2. CASE x = o
    <3>1. WaitsFor(order', w) = {u}
      BY <2>1, <2>2 DEF WaitsFor
    <3> QED
      BY <1>2, <3>1
  <2>3. CASE x # o
    <3>1. WaitsFor(order', w) = {x} /\ x \in order'
      BY <2>1, <2>3 DEF WaitsFor
    <3> QED
      BY <1>2, <3>1
  <2> QED
    BY <2>2, <2>3
<1> QED
  BY <1>1, <1>2

\* An order goes, or nobody's dialog waits for it any more.
LEMMA WaitsDropped ==
  ASSUME OneWaits, NEW o \in order, o.page \in Everyone, NEW U, \A u \in U : u.waits # "dialog",
         order' = (order \ {o}) \cup U,
         \A w \in Everyone :
           Saving(Pages!Page(w)') <=> Saving(Pages!Page(w)) /\ ~(o.waits = "dialog" /\ w = o.page)
  PROVE  OneWaits'
<1> SUFFICES ASSUME NEW w \in Everyone
             PROVE  IF Saving(Pages!Page(w)') THEN \E x \in order' : WaitsFor(order', w) = {x}
                    ELSE WaitsFor(order', w) = {}
  BY DEF OneWaits
<1>1. WaitsFor(order', w) = WaitsFor(order, w) \ {o}
  BY DEF WaitsFor
<1>2. CASE o \in WaitsFor(order, w)
  <2>1. Saving(Pages!Page(w)) /\ o.waits = "dialog" /\ w = o.page
    BY <1>2 DEF OneWaits, WaitsFor
  <2>2. PICK x \in order : WaitsFor(order, w) = {x}
    BY <2>1 DEF OneWaits
  <2>3. WaitsFor(order', w) = {}
    BY <1>1, <1>2, <2>2
  <2> QED
    BY <2>1, <2>3
<1>3. CASE o \notin WaitsFor(order, w)
  <2>1. WaitsFor(order', w) = WaitsFor(order, w)
    BY <1>1, <1>3
  <2>2. Saving(Pages!Page(w)') <=> Saving(Pages!Page(w))
    BY <1>3 DEF WaitsFor
  <2>3. WaitsFor(order, w) \subseteq order'
    BY <1>3 DEF WaitsFor
  <2> QED
    BY <2>1, <2>2, <2>3 DEF OneWaits
<1> QED
  BY <1>2, <1>3

\* Orders whose dialog went are waited for by its timer.
LEMMA UnmountedAre ==
  ASSUME OrdersTyped, NEW v, order' = Pages!Unmounted(v)
  PROVE  /\ OrdersTyped'
         /\ \A x \in order' : \E o \in order : SameOrder(o, x)
         /\ WaitsFor(order', v) = {}
         /\ \A w : w # v => WaitsFor(order', w) = WaitsFor(order, w)
<1> DEFINE Gone(o) == [o EXCEPT !.waits = "timer"]
           F(o) == IF o.page = v /\ o.waits = "dialog" THEN Gone(o) ELSE o
<1>1. order' = {F(o) : o \in order}
  BY DEF Pages!Unmounted
<1>2. ASSUME NEW o \in order
      PROVE  Gone(o) \in Posts /\ SameOrder(o, Gone(o)) /\ Gone(o).waits = "timer" /\ Gone(o).page = o.page
  <2>1. o \in Posts
    BY OrderIs
  <2> QED
    BY <2>1, OrderEdits DEF Waits, SameOrder
<1> HIDE DEF Gone
<1>3. ASSUME NEW o \in order PROVE F(o) \in Posts /\ SameOrder(o, F(o)) /\ F(o).page = o.page
  <2>1. o \in Posts
    BY OrderIs
  <2> QED
    BY <1>2, <2>1 DEF SameOrder
<1>4. OrdersTyped' /\ \A x \in order' : \E o \in order : SameOrder(o, x)
  <2> HIDE DEF F
  <2> QED
    BY <1>1, <1>3 DEF OrdersTyped, Posts
<1>5. WaitsFor(order', v) = {}
  <2>1. ASSUME NEW o \in order PROVE F(o).page = v => F(o).waits # "dialog"
    BY <1>2
  <2> HIDE DEF F
  <2> QED
    BY <1>1, <2>1 DEF WaitsFor
<1>6. ASSUME NEW w, w # v PROVE WaitsFor(order', w) = WaitsFor(order, w)
  <2>1. ASSUME NEW o \in order, o.page = w PROVE F(o) = o
    BY <1>6, <2>1
  <2>2. \A o \in order : F(o).page = o.page
    BY <1>3
  <2> HIDE DEF F
  <2>3. ASSUME NEW x \in WaitsFor(order', w) PROVE x \in WaitsFor(order, w)
    <3>1. PICK o \in order : x = F(o)
      BY <1>1, <2>3 DEF WaitsFor
    <3>2. o.page = w
      BY <2>2, <2>3, <3>1 DEF WaitsFor
    <3> QED
      BY <2>1, <2>3, <3>1, <3>2 DEF WaitsFor
  <2>4. ASSUME NEW x \in WaitsFor(order, w) PROVE x \in WaitsFor(order', w)
    BY <1>1, <2>1, <2>4 DEF WaitsFor
  <2> QED
    BY <2>3, <2>4
<1> QED
  BY <1>4, <1>5, <1>6

LEMMA WaitsUnmounted ==
  ASSUME OneWaits, OrdersTyped, NEW v \in Everyone, order' = Pages!Unmounted(v),
         \A w \in Everyone : Saving(Pages!Page(w)') <=> Saving(Pages!Page(w)) /\ w # v
  PROVE  OneWaits'
<1> SUFFICES ASSUME NEW w \in Everyone
             PROVE  IF Saving(Pages!Page(w)') THEN \E x \in order' : WaitsFor(order', w) = {x}
                    ELSE WaitsFor(order', w) = {}
  BY DEF OneWaits
<1>1. CASE w = v
  BY <1>1, UnmountedAre
<1>2. CASE w # v
  <2>1. WaitsFor(order', w) = WaitsFor(order, w)
    BY <1>2, UnmountedAre
  <2>2. \A x : WaitsFor(order', w) = {x} => x \in order'
    BY DEF WaitsFor
  <2> QED
    BY <1>2, <2>1, <2>2 DEF OneWaits
<1> QED
  BY <1>1, <1>2

\* A new order of a page that has none under way.
LEMMA WaitsSent ==
  ASSUME OneWaits, NEW v \in Everyone, NEW o, o.page = v, o.waits = "dialog", order' = order \cup {o},
         ~Saving(Pages!Page(v)),
         \A w \in Everyone : Saving(Pages!Page(w)') <=> Saving(Pages!Page(w)) \/ w = v
  PROVE  OneWaits'
<1> SUFFICES ASSUME NEW w \in Everyone
             PROVE  IF Saving(Pages!Page(w)') THEN \E x \in order' : WaitsFor(order', w) = {x}
                    ELSE WaitsFor(order', w) = {}
  BY DEF OneWaits
<1>1. CASE w = v
  <2>1. WaitsFor(order, v) = {}
    BY DEF OneWaits
  <2>2. WaitsFor(order', v) = {o}
    BY <2>1 DEF WaitsFor
  <2> QED
    BY <1>1, <2>2
<1>2. CASE w # v
  <2>1. WaitsFor(order', w) = WaitsFor(order, w)
    BY <1>2 DEF WaitsFor
  <2> QED
    BY <1>2, <2>1 DEF OneWaits
<1> QED
  BY <1>1, <1>2

-----------------------------------------------------------------------------
\* What each operation makes of the rows.
LEMMA RowsSame ==
  ASSUME FiledTyped, RowsInv, UNCHANGED <<pagesWorld, session, filed>>,
         plan' \in [Plan -> [price: PlanPrice, active: BOOLEAN]]
  PROVE  FiledTyped' /\ Onward /\ RowsInv'
<1>1. Pages!Rows' = Pages!Rows
  BY DEF Pages!Rows
<1>2. FiledTyped'
  BY <1>1 DEF FiledTyped
<1>3. Onward
  <2>1. \A q \in Pages!Rows : filed[q] # None
    BY DEF Pages!Rows
  <2> QED
    BY <1>1, <2>1 DEF Onward, SameRequest
<1>4. RowsInv'
  BY <1>1 DEF RowsInv, StampsInv, DoneInv, AskedInv
<1> QED
  BY <1>2, <1>3, <1>4

LEMMA RowsEdited ==
  ASSUME FiledTyped, RowsInv, UNCHANGED <<pagesWorld, plan, filed>>,
         NEW s \in Session, NEW r \in Pages!SessionRow, r.stamp = session[s].stamp,
         r.stamp < MaxStamp, Pages!Changed(s, r)
  PROVE  FiledTyped' /\ Onward /\ RowsInv'
<1>1. Pages!Rows' = Pages!Rows
  BY DEF Pages!Rows
<1>2. /\ session' \in [Session -> Pages!SessionRow]
      /\ session'[s].stamp = session[s].stamp + 1
      /\ \A m \in Session : m # s => session'[m] = session[m]
  BY ChangedIs
<1>3. FiledTyped'
  BY <1>1, <1>2 DEF FiledTyped
<1>4. Onward
  <2>1. \A q \in Pages!Rows : filed[q] # None
    BY DEF Pages!Rows
  <2>2. \A m \in Session : session'[m] = session[m] \/ session'[m].stamp = session[m].stamp + 1
    BY <1>2
  <2> QED
    BY <1>1, <2>1, <2>2 DEF Onward, SameRequest
<1>5. ASSUME NEW q \in Pages!Rows
      PROVE  LET m == filed[q].session IN
               /\ filed[q].atStamp <= session'[m].stamp
               /\ filed[q].status = "APPROVED" =>
                    /\ filed[q].applied <= session'[m].stamp
                    /\ filed[q].applied = session'[m].stamp => Done(filed[q], session'[m])
  <2> DEFINE m == filed[q].session
  <2>1. /\ m \in Session /\ filed[q].atStamp \in Nat /\ filed[q].applied \in Nat
        /\ session[m].stamp \in Nat
    BY RowIs, StampIs
  <2>2. /\ filed[q].atStamp <= session[m].stamp
        /\ filed[q].status = "APPROVED" =>
             /\ filed[q].applied <= session[m].stamp
             /\ filed[q].applied = session[m].stamp => Done(filed[q], session[m])
    BY DEF RowsInv, StampsInv, DoneInv
  <2>3. session'[m] = session[m] \/ session'[m].stamp = session[m].stamp + 1
    BY <1>2, <2>1
  <2> HIDE DEF m
  <2>4. CASE session'[m] = session[m]
    BY <2>2, <2>4 DEF m
  <2>5. CASE session'[m].stamp = session[m].stamp + 1
    BY <2>1, <2>2, <2>5 DEF m
  <2> QED
    BY <2>3, <2>4, <2>5
<1>6. RowsInv'
  BY <1>1, <1>5 DEF RowsInv, StampsInv, DoneInv, AskedInv
<1> QED
  BY <1>3, <1>4, <1>6

-----------------------------------------------------------------------------
\* Requests are numbered in the order they are filed.
LEMMA RowsAre ==
  ASSUME FiledTyped
  PROVE  \E n \in 0 .. MaxRequests : Pages!Rows = 1 .. n /\ Pages!Cardinality(Pages!Rows) = n
<1>1. PICK n \in 0 .. MaxRequests : Pages!Rows = 1 .. n
  BY DEF FiledTyped
<1>2. n \in Nat
  BY PagesAssumption
<1>3. Cardinality(1 .. n) = n
  BY <1>2, FS_Interval
<1>4. Pages!Cardinality(Pages!Rows) = Cardinality(Pages!Rows)
  BY PagesCardinality
<1> QED
  BY <1>1, <1>3, <1>4

NewRow(o) ==
  [session |-> o.of, plan |-> o.plan,
   price |-> IF o.plan = None THEN None ELSE plan[o.plan].price, paid |-> o.paid,
   atPlan |-> o.read.plan, atStamp |-> o.read.stamp, status |-> "PENDING", applied |-> 0]

LEMMA NewRowTyped ==
  ASSUME FiledTyped, NEW o \in FileOrder, o.read # None
  PROVE  /\ NewRow(o) \in Pages!RequestRow /\ NewRow(o) # None /\ NewRow(o).status = "PENDING"
         /\ NewRow(o).session = o.of /\ NewRow(o).plan = o.plan /\ NewRow(o).paid = o.paid
         /\ NewRow(o).atStamp = o.read.stamp
<1>1. /\ o.of \in Session /\ o.plan \in Plan \cup {None} /\ o.paid \in Amount \cup {None}
      /\ o.read \in ReadRow
  BY DEF FileOrder
<1>2. o.read.plan \in Plan \cup {None} /\ o.read.stamp \in 0 .. MaxStamp
  BY <1>1 DEF ReadRow
<1> DEFINE pr == IF o.plan = None THEN None ELSE plan[o.plan].price
<1>3. pr \in PlanPrice \cup {None}
  BY <1>1 DEF FiledTyped
<1>4. 0 \in 0 .. MaxStamp
  BY PagesAssumption
<1> HIDE DEF pr
<1>5. NewRow(o) \in Pages!RequestRow
  BY <1>1, <1>2, <1>3, <1>4 DEF NewRow, Pages!RequestRow, pr
<1> QED
  BY <1>5, NotNull DEF NewRow

LEMMA RowsFiled ==
  ASSUME FiledTyped, RowsInv, NEW o \in FileOrder, o.read # None, Files(o),
         Pages!createRequest(o), UNCHANGED <<pagesWorld, plan>>
  PROVE  FiledTyped' /\ Onward /\ RowsInv'
<1> DEFINE u == NewRow(o)
<1>1. PICK n \in 0 .. MaxRequests : Pages!Rows = 1 .. n /\ Pages!Cardinality(Pages!Rows) = n
  BY RowsAre
<1>2. n \in Nat /\ n < MaxRequests /\ session' = session /\ filed' = [filed EXCEPT ![n + 1] = u]
  <2>1. n < MaxRequests /\ session' = session
    BY <1>1 DEF Pages!createRequest
  <2>2. filed' = [filed EXCEPT ![n + 1] = u]
    BY <1>1, Zenon DEF Pages!createRequest, NewRow
  <2> QED
    BY <2>1, <2>2, PagesAssumption
<1>3. /\ u \in Pages!RequestRow /\ u # None /\ u.status = "PENDING" /\ u.session = o.of
      /\ u.plan = o.plan /\ u.paid = o.paid /\ u.atStamp = o.read.stamp
  BY NewRowTyped
<1> HIDE DEF u
<1>4. n + 1 \in Pages!Request /\ n + 1 \notin Pages!Rows
  BY <1>1, <1>2, PagesAssumption DEF Pages!Request
<1>5. /\ filed' \in [Pages!Request -> Pages!RequestRow \cup {None}]
      /\ filed'[n + 1] = u
      /\ \A q \in Pages!Request : q # n + 1 => filed'[q] = filed[q]
  BY <1>2, <1>3, <1>4 DEF FiledTyped
<1>6. Pages!Rows' = Pages!Rows \cup {n + 1}
  BY <1>3, <1>4, <1>5 DEF Pages!Rows
<1>7. Pages!Rows' = 1 .. (n + 1) /\ n + 1 \in 0 .. MaxRequests
  BY <1>1, <1>2, <1>6, PagesAssumption
<1>8. FiledTyped'
  BY <1>2, <1>5, <1>7 DEF FiledTyped
<1>9. \A q \in Pages!Rows : q \in Pages!Request /\ filed'[q] = filed[q] /\ filed[q] # None
  BY <1>4, <1>5 DEF Pages!Rows
<1>10. Onward
  BY <1>2, <1>3, <1>5, <1>6, <1>9 DEF Onward, SameRequest
<1>11. o.of \in Session /\ o.read.stamp <= session[o.of].stamp
  BY DEF FileOrder, Files
<1>12. StampsInv'
  BY <1>2, <1>3, <1>5, <1>6, <1>9, <1>11 DEF RowsInv, StampsInv
<1>13. DoneInv'
  BY <1>2, <1>3, <1>5, <1>6, <1>9 DEF RowsInv, DoneInv
<1>14. AskedInv'
  <2>1. \A r \in Pages!Rows :
          filed[r].status = "APPROVED" /\ filed[r].session = u.session /\ filed[r].applied = u.atStamp
            => u.plan # filed[r].plan \/ u.paid # filed[r].paid
    BY <1>3 DEF Files
  <2>2. SUFFICES ASSUME NEW q \in Pages!Rows', NEW r \in Pages!Rows', filed'[q].session = filed'[r].session,
                        q # r, filed'[q].plan = filed'[r].plan, filed'[q].paid = filed'[r].paid,
                        filed'[r].status = "APPROVED"
                 PROVE  filed'[q].atStamp # filed'[r].applied
    BY DEF AskedInv
  <2>3. r \in Pages!Rows /\ filed'[r] = filed[r]
    BY <1>3, <1>5, <1>6, <1>9, <2>2
  <2>4. CASE q \in Pages!Rows
    BY <1>9, <2>2, <2>3, <2>4 DEF RowsInv, AskedInv
  <2>5. CASE q = n + 1
    BY <1>5, <2>1, <2>2, <2>3, <2>5
  <2> QED
    BY <1>6, <2>4, <2>5
<1> QED
  BY <1>8, <1>10, <1>12, <1>13, <1>14 DEF RowsInv

-----------------------------------------------------------------------------
\* A request that is rejected or approved.
Decided(r, st, n) == [[r EXCEPT !.status = st] EXCEPT !.applied = n]

LEMMA DecidedIs ==
  ASSUME NEW r \in Pages!RequestRow, NEW st \in Status, NEW n \in 0 .. MaxStamp
  PROVE  LET u == Decided(r, st, n) IN
           /\ u \in Pages!RequestRow /\ u # None /\ u.status = st /\ u.applied = n /\ SameRequest(u, r)
<1>1. Decided(r, st, n) \in Pages!RequestRow
  BY DEF Decided, Pages!RequestRow, Status
<1>2. LET u == Decided(r, st, n) IN u.status = st /\ u.applied = n /\ SameRequest(u, r)
  BY DEF Decided, Pages!RequestRow, SameRequest
<1> QED
  BY <1>1, <1>2, NotNull

\* A request gets its status: nothing else of the requests changes.
LEMMA FiledDecided ==
  ASSUME FiledTyped, NEW q \in Pages!Rows, NEW u \in Pages!RequestRow, u # None, SameRequest(u, filed[q]),
         filed' = [filed EXCEPT ![q] = u]
  PROVE  /\ filed' \in [Pages!Request -> Pages!RequestRow \cup {None}]
         /\ filed'[q] = u
         /\ \A r \in Pages!Request : r # q => filed'[r] = filed[r]
         /\ Pages!Rows' = Pages!Rows
         /\ \A r \in Pages!Rows : filed'[r] # None /\ SameRequest(filed'[r], filed[r])
<1>1. q \in Pages!Request
  BY DEF Pages!Rows
<1>2. /\ filed' \in [Pages!Request -> Pages!RequestRow \cup {None}]
      /\ filed'[q] = u
      /\ \A r \in Pages!Request : r # q => filed'[r] = filed[r]
  BY <1>1 DEF FiledTyped
<1>3. Pages!Rows' = Pages!Rows
  BY <1>1, <1>2 DEF Pages!Rows
<1>4. \A r \in Pages!Rows : filed'[r] # None /\ SameRequest(filed'[r], filed[r])
  BY <1>2 DEF Pages!Rows, SameRequest
<1> QED
  BY <1>2, <1>3, <1>4

LEMMA RowsRejected ==
  ASSUME FiledTyped, RowsInv, NEW o \in ReviewOrder, o.of \in Pages!Rows,
         Pages!rejectRequest(o), UNCHANGED <<pagesWorld, plan>>
  PROVE  FiledTyped' /\ Onward /\ RowsInv'
<1> DEFINE q == o.of
           r == filed[q]
           u == Decided(r, "REJECTED", r.applied)
<1>1. q \in Pages!Rows /\ r \in Pages!RequestRow /\ q \in Pages!Request
  BY RowIs
<1>2. r.applied \in 0 .. MaxStamp
  BY <1>1 DEF Pages!RequestRow
<1>3. u \in Pages!RequestRow /\ u # None /\ u.status = "REJECTED" /\ SameRequest(u, r)
  <2> DEFINE n == r.applied
  <2>1. "REJECTED" \in Status /\ n \in 0 .. MaxStamp
    BY <1>2 DEF Status
  <2> HIDE DEF r, n
  <2> QED
    BY <1>1, <2>1, DecidedIs DEF n
<1>4. [filed EXCEPT ![q].status = "REJECTED"] = [filed EXCEPT ![q] = u]
  <2>1. [r EXCEPT !.status = "REJECTED"] = u
    BY <1>1 DEF Decided, Pages!RequestRow
  <2> QED
    BY <2>1
<1>5. filed' = [filed EXCEPT ![q] = u] /\ session' = session
  BY <1>4 DEF Pages!rejectRequest
<1> HIDE DEF u
<1>6. /\ filed' \in [Pages!Request -> Pages!RequestRow \cup {None}]
      /\ filed'[q] = u
      /\ \A m \in Pages!Request : m # q => filed'[m] = filed[m]
      /\ Pages!Rows' = Pages!Rows
      /\ \A m \in Pages!Rows : filed'[m] # None /\ SameRequest(filed'[m], filed[m])
  BY <1>1, <1>3, <1>5, FiledDecided
<1>7. FiledTyped'
  BY <1>5, <1>6 DEF FiledTyped
<1>8. ASSUME NEW m \in Pages!Rows, filed'[m].status = "APPROVED" PROVE filed'[m] = filed[m]
  BY <1>3, <1>6, <1>8 DEF Pages!Rows
<1>9. Onward
  BY <1>5, <1>6, <1>8 DEF Onward
<1>10. StampsInv'
  BY <1>5, <1>6, <1>8 DEF RowsInv, StampsInv, SameRequest
<1>11. DoneInv'
  BY <1>5, <1>6, <1>8 DEF RowsInv, DoneInv
<1>12. AskedInv'
  BY <1>6, <1>8 DEF RowsInv, AskedInv, SameRequest
<1> QED
  BY <1>7, <1>9, <1>10, <1>11, <1>12 DEF RowsInv

-----------------------------------------------------------------------------
\* The row an approval leaves, before its stamp.
Planned(row, r) ==
  IF r.plan = None THEN row ELSE [row EXCEPT !.plan = r.plan, !.expected = plan[r.plan].price]
Approved(row, r) ==
  IF r.paid = None THEN Planned(row, r) ELSE [Planned(row, r) EXCEPT !.corrected = r.paid]

LEMMA PlannedIs ==
  ASSUME FiledTyped, NEW row \in Pages!SessionRow, NEW r \in Pages!RequestRow
  PROVE  LET u == Planned(row, r) IN
           /\ u \in Pages!SessionRow /\ u.stamp = row.stamp /\ u.corrected = row.corrected
           /\ r.plan # None => u.plan = r.plan /\ u.expected = plan[r.plan].price
           /\ r.plan = None => u.plan = row.plan /\ u.expected = row.expected
<1>1. CASE r.plan = None
  BY <1>1 DEF Planned
<1>2. CASE r.plan # None
  <2>1. r.plan \in Plan
    BY <1>2 DEF Pages!RequestRow
  <2>2. plan[r.plan].price \in PlanPrice
    BY <2>1 DEF FiledTyped
  <2> DEFINE pr == plan[r.plan].price
             k == r.plan
  <2>3. [row EXCEPT !.plan = k, !.expected = pr] = Priced(row, k, pr)
    <3> HIDE DEF k, pr
    <3> QED
      BY DEF Priced
  <2>4. Planned(row, r) = Priced(row, k, pr)
    BY <1>2, <2>3 DEF Planned
  <2>5. k \in Plan /\ pr \in PlanPrice
    BY <2>1, <2>2
  <2> HIDE DEF k, pr
  <2>6. LET x == Priced(row, k, pr) IN
          x \in Pages!SessionRow /\ x.stamp = row.stamp /\ x.plan = k /\ x.expected = pr
          /\ x.corrected = row.corrected
    BY <2>5, RowEdits
  <2>7. LET u == Planned(row, r) IN
          u \in Pages!SessionRow /\ u.stamp = row.stamp /\ u.plan = k /\ u.expected = pr
          /\ u.corrected = row.corrected
    BY <2>4, <2>6
  <2> QED
    BY <1>2, <2>7 DEF k, pr
<1> QED
  BY <1>1, <1>2

LEMMA ApprovedIs ==
  ASSUME FiledTyped, NEW row \in Pages!SessionRow, NEW r \in Pages!RequestRow
  PROVE  LET u == Approved(row, r) IN
           /\ u \in Pages!SessionRow /\ u.stamp = row.stamp
           /\ u.corrected = IF r.paid = None THEN row.corrected ELSE r.paid
           /\ r.plan # None => u.plan = r.plan /\ u.expected = plan[r.plan].price
           /\ r.plan = None => u.plan = row.plan /\ u.expected = row.expected
<1> DEFINE m == Planned(row, r)
<1>1. /\ m \in Pages!SessionRow /\ m.stamp = row.stamp /\ m.corrected = row.corrected
      /\ r.plan # None => m.plan = r.plan /\ m.expected = plan[r.plan].price
      /\ r.plan = None => m.plan = row.plan /\ m.expected = row.expected
  BY PlannedIs
<1>2. r.paid \in Amount \cup {None}
  BY DEF Pages!RequestRow
<1>3. Approved(row, r) = IF r.paid = None THEN m ELSE [m EXCEPT !.corrected = r.paid]
  BY Zenon DEF Approved
<1> HIDE DEF m
<1>4. LET x == [m EXCEPT !.corrected = r.paid] IN
        x \in Pages!SessionRow /\ x.stamp = m.stamp /\ x.corrected = r.paid /\ x.plan = m.plan
        /\ x.expected = m.expected
  BY <1>1, <1>2, RowEdits
<1> QED
  BY <1>1, <1>3, <1>4

LEMMA SessionApproved ==
  ASSUME FiledTyped, NEW o, o.of \in Pages!Rows, Pages!approveRequest(o)
  PROVE  LET r == filed[o.of]
             row == session[r.session]
         IN /\ session' \in [Session -> Pages!SessionRow] /\ row.stamp < MaxStamp
            /\ session'[r.session].stamp = row.stamp + 1
            /\ session'[r.session].corrected = IF r.paid = None THEN row.corrected ELSE r.paid
            /\ r.plan # None => session'[r.session].plan = r.plan
                                /\ session'[r.session].expected = plan[r.plan].price
            /\ r.plan = None => session'[r.session].plan = row.plan
                                /\ session'[r.session].expected = row.expected
            /\ \A m \in Session : m # r.session => session'[m] = session[m]
            /\ filed' = [filed EXCEPT ![o.of].status = "APPROVED", ![o.of].applied = row.stamp + 1]
<1> DEFINE r == filed[o.of]
           row == session[r.session]
           u == Approved(row, r)
<1>1. r \in Pages!RequestRow /\ r.session \in Session
  BY RowIs
<1>2. row \in Pages!SessionRow
  BY <1>1, StampIs
<1>3. /\ u \in Pages!SessionRow /\ u.stamp = row.stamp
      /\ u.corrected = IF r.paid = None THEN row.corrected ELSE r.paid
      /\ r.plan # None => u.plan = r.plan /\ u.expected = plan[r.plan].price
      /\ r.plan = None => u.plan = row.plan /\ u.expected = row.expected
  BY <1>1, <1>2, ApprovedIs
<1>4. /\ row.stamp < MaxStamp
      /\ Pages!Changed(r.session, u)
      /\ filed' = [filed EXCEPT ![o.of].status = "APPROVED", ![o.of].applied = row.stamp + 1]
  BY Zenon DEF Pages!approveRequest, Approved, Planned
<1> HIDE DEF u
<1>5. /\ session' \in [Session -> Pages!SessionRow]
      /\ session'[r.session].stamp = u.stamp + 1 /\ session'[r.session].plan = u.plan
      /\ session'[r.session].expected = u.expected /\ session'[r.session].corrected = u.corrected
      /\ \A m \in Session : m # r.session => session'[m] = session[m]
  <2> DEFINE s == r.session
  <2>1. s \in Session /\ Pages!Changed(s, u) /\ u.stamp < MaxStamp
    BY <1>1, <1>3, <1>4
  <2> HIDE DEF s
  <2>2. /\ session' \in [Session -> Pages!SessionRow]
        /\ session'[s].stamp = u.stamp + 1 /\ session'[s].plan = u.plan
        /\ session'[s].expected = u.expected /\ session'[s].corrected = u.corrected
        /\ \A m \in Session : m # s => session'[m] = session[m]
    BY <1>3, <2>1, ChangedIs
  <2> QED
    BY <2>2 DEF s
<1> QED
  BY <1>3, <1>4, <1>5

LEMMA RowsApproved ==
  ASSUME FiledTyped, RowsInv, NEW o, o.of \in Pages!Rows,
         Pages!approveRequest(o), UNCHANGED <<pagesWorld, plan>>
  PROVE  FiledTyped' /\ Onward /\ RowsInv'
<1> DEFINE q == o.of
           r == filed[q]
           s == r.session
           n == session[s].stamp
           u == Decided(r, "APPROVED", n + 1)
<1>1. q \in Pages!Rows /\ r \in Pages!RequestRow /\ q \in Pages!Request /\ s \in Session
  BY RowIs
<1>2. n \in Nat /\ n < MaxStamp /\ n + 1 \in 0 .. MaxStamp
  <2>1. n \in 0 .. MaxStamp /\ n < MaxStamp
    BY <1>1, StampIs, SessionApproved
  <2> QED
    BY <2>1, PagesAssumption
<1>3. u \in Pages!RequestRow /\ u # None /\ u.status = "APPROVED" /\ u.applied = n + 1 /\ SameRequest(u, r)
  <2> DEFINE k == n + 1
  <2>1. "APPROVED" \in Status /\ k \in 0 .. MaxStamp
    BY <1>2 DEF Status
  <2> HIDE DEF r, k
  <2> QED
    BY <1>1, <2>1, DecidedIs DEF k
<1>4. /\ session' \in [Session -> Pages!SessionRow]
      /\ session'[s].stamp = n + 1
      /\ r.paid # None => session'[s].corrected = r.paid
      /\ r.plan # None => session'[s].plan = r.plan
      /\ \A m \in Session : m # s => session'[m] = session[m]
      /\ filed' = [filed EXCEPT ![q].status = "APPROVED", ![q].applied = n + 1]
  BY SessionApproved
<1>5. [filed EXCEPT ![q].status = "APPROVED", ![q].applied = n + 1] = [filed EXCEPT ![q] = u]
  <2> DEFINE k == n + 1
  <2> HIDE DEF n
  <2>1. filed \in [Pages!Request -> Pages!RequestRow \cup {None}]
    BY DEF FiledTyped
  <2>2. \A x : [filed EXCEPT ![q].status = "APPROVED", ![q].applied = x] = [filed EXCEPT ![q] = Decided(filed[q], "APPROVED", x)]
    BY <1>1, <2>1 DEF Decided
  <2> QED
    BY <2>2
<1>6. filed' = [filed EXCEPT ![q] = u]
  BY <1>4, <1>5
<1> HIDE DEF u, n
<1>7. /\ filed' \in [Pages!Request -> Pages!RequestRow \cup {None}]
      /\ filed'[q] = u
      /\ \A m \in Pages!Request : m # q => filed'[m] = filed[m]
      /\ Pages!Rows' = Pages!Rows
      /\ \A m \in Pages!Rows : filed'[m] # None /\ SameRequest(filed'[m], filed[m])
  BY <1>1, <1>3, <1>6, FiledDecided
<1>8. FiledTyped'
  BY <1>4, <1>7 DEF FiledTyped
<1>9. \A m \in Pages!Rows : m \in Pages!Request /\ (m # q => filed'[m] = filed[m])
  BY <1>7 DEF Pages!Rows
<1>10. \A m \in Session : session'[m] = session[m] \/ session'[m].stamp = session[m].stamp + 1
  BY <1>4 DEF n
<1>11. filed'[q].session = s /\ filed'[q].applied > session[s].stamp /\ filed'[q].applied = n + 1
       /\ filed'[q].plan = r.plan /\ filed'[q].paid = r.paid /\ filed'[q].atStamp = r.atStamp
  BY <1>2, <1>3, <1>7 DEF SameRequest, n
<1>12. Onward
  BY <1>7, <1>9, <1>10, <1>11 DEF Onward
<1>13. ASSUME NEW m \in Pages!Rows
       PROVE  LET t == filed'[m].session IN
               /\ filed'[m].atStamp <= session'[t].stamp
               /\ filed'[m].status = "APPROVED" =>
                    /\ filed'[m].applied <= session'[t].stamp
                    /\ filed'[m].applied = session'[t].stamp => Done(filed'[m], session'[t])
  <2> DEFINE t == filed[m].session
  <2>1. /\ t \in Session /\ filed[m].atStamp \in Nat /\ filed[m].applied \in Nat
        /\ session[t].stamp \in Nat
    BY RowIs, StampIs
  <2>2. /\ filed[m].atStamp <= session[t].stamp
        /\ filed[m].status = "APPROVED" =>
             /\ filed[m].applied <= session[t].stamp
             /\ filed[m].applied = session[t].stamp => Done(filed[m], session[t])
    BY DEF RowsInv, StampsInv, DoneInv
  <2>3. session'[t] = session[t] \/ session'[t].stamp = session[t].stamp + 1
    BY <1>10, <2>1
  <2>4. filed'[m].session = t /\ filed'[m].atStamp = filed[m].atStamp
    BY <1>7 DEF SameRequest
  <2>5. filed'[m].atStamp <= session'[t].stamp
    BY <2>1, <2>2, <2>3, <2>4
  <2>6. CASE m = q
    <3>1. t = s
      BY <2>6
    <3>2. filed'[m].applied = session'[t].stamp
      BY <1>4, <1>11, <2>6, <3>1
    <3>3. session'[t].stamp \in Nat
      BY <1>2, <1>4, <3>1
    <3>4. Done(filed'[m], session'[t])
      BY <1>4, <1>11, <2>6, <3>1 DEF Done
    <3> QED
      BY <2>4, <2>5, <3>2, <3>3, <3>4
  <2>7. CASE m # q
    <3>1. filed'[m] = filed[m]
      BY <1>9, <2>7
    <3> HIDE DEF t
    <3>2. CASE session'[t] = session[t]
      BY <2>2, <2>4, <2>5, <3>1, <3>2
    <3>3. CASE session'[t].stamp = session[t].stamp + 1
      BY <2>1, <2>2, <2>4, <2>5, <3>1, <3>3
    <3> QED
      BY <2>3, <3>2, <3>3
  <2> QED
    BY <2>6, <2>7
<1>14. StampsInv' /\ DoneInv'
  BY <1>7, <1>13 DEF StampsInv, DoneInv
<1>15. AskedInv'
  <2>1. SUFFICES ASSUME NEW m \in Pages!Rows, NEW t \in Pages!Rows, filed'[m].session = filed'[t].session,
                        m # t, filed'[m].plan = filed'[t].plan, filed'[m].paid = filed'[t].paid,
                        filed'[t].status = "APPROVED"
                 PROVE  filed'[m].atStamp # filed'[t].applied
    BY <1>7 DEF AskedInv
  <2>2. SameRequest(filed'[m], filed[m]) /\ SameRequest(filed'[t], filed[t])
    BY <1>7
  <2>3. CASE t = q
    <3>1. filed[m].session = s
      BY <2>1, <2>2, <2>3 DEF SameRequest
    <3>2. filed[m].atStamp <= session[s].stamp
      BY <3>1 DEF RowsInv, StampsInv
    <3>3. filed[m].atStamp \in Nat
      BY RowIs
    <3>4. filed[m].atStamp <= n
      BY <3>2 DEF n
    <3> QED
      BY <1>2, <1>11, <2>2, <2>3, <3>3, <3>4 DEF SameRequest
  <2>4. CASE t # q
    <3>1. filed'[t] = filed[t]
      BY <1>9, <2>4
    <3> QED
      BY <2>1, <2>2, <3>1 DEF RowsInv, AskedInv, SameRequest
  <2> QED
    BY <2>3, <2>4
<1> QED
  BY <1>8, <1>12, <1>14, <1>15 DEF RowsInv

-----------------------------------------------------------------------------
LEMMA PageOn ==
  ASSUME FiledTyped, RowsInv, Onward, NEW p \in ReviewPage, PageHonest(p)
  PROVE  PageHonest(p)'
<1>1. p.dialog # None => p.dialog.of \in Pages!Request
  <2>1. p.dialog \in ReviewDialog \cup {None}
    BY DEF ReviewPage, APage
  <2> QED
    BY <2>1 DEF ReviewDialog
<1>2. \A x : \A q \in Pages!Request : Shows(x, q) => Shows(x, q)'
  BY ShowsOn DEF RowsInv
<1>3. \A q \in Pages!Request : p.list[q] # None => Shows(p.list[q], q)'
  BY <1>2 DEF PageHonest
<1>4. p.dialog # None => Shows(p.dialog.shown, p.dialog.of)'
  BY <1>1, <1>2 DEF PageHonest
<1> QED
  BY <1>3, <1>4 DEF PageHonest

LEMMA OrderOn ==
  ASSUME FiledTyped, FiledTyped', RowsInv, Onward, NEW o \in Posts, OrderHonest(o)
  PROVE  OrderHonest(o)'
<1>1. CASE o \in FileOrder
  <2>1. o.do = "file"
    BY <1>1 DEF FileOrder
  <2>2. Files(o)'
    BY <1>1, <2>1, FilesOn DEF OrderHonest
  <2> QED
    BY <2>1, <2>2 DEF OrderHonest
<1>2. CASE o \in ReviewOrder
  <2>1. o.do # "file" /\ o.of \in Pages!Request
    BY <1>2 DEF ReviewOrder
  <2>2. Shows(o.shown, o.of) /\ Shows(o.shown, o.of)'
    BY <2>1, ShowsOn DEF OrderHonest, RowsInv
  <2>3. o.of \in Pages!Rows
    BY <2>1, <2>2 DEF Shows, Pages!Rows
  <2>4. filed'[o.of].atStamp = filed[o.of].atStamp
    BY <2>3 DEF Onward, SameRequest
  <2> QED
    BY <2>1, <2>2, <2>4 DEF OrderHonest
<1> QED
  BY <1>1, <1>2 DEF Posts

LEMMA HonestKept ==
  ASSUME NEW u, NEW o, SameOrder(u, o), OrderHonest(u)
  PROVE  OrderHonest(o)
BY DEF SameOrder, OrderHonest, Files

\* A step keeps the invariant when what it shows and sends tells the truth about
\* the rows before it.
LEMMA AskOn ==
  ASSUME FiledTyped, RowsInv, FiledTyped', Onward, RowsInv', PagesTyped', OrdersTyped', OneWaits',
         \A v \in Reviewer : PageHonest(Pages!Page(v)'),
         \A o \in order' : OrderHonest(o)
  PROVE  AskInv'
<1>1. ASSUME NEW v \in Reviewer PROVE PageHonest(Pages!Page(v))'
  <2>1. Pages!Page(v)' \in ReviewPage
    BY PagesAssumption DEF PagesTyped, Pages!Page
  <2>2. ASSUME NEW p \in ReviewPage, PageHonest(p) PROVE PageHonest(p)'
    BY <2>2, PageOn
  <2>3. \A p \in ReviewPage : PageHonest(p) => PageHonest(p)'
    BY <2>2
  <2>4. PageHonest(Pages!Page(v)')
    OBVIOUS
  <2> QED
    BY <2>1, <2>3, <2>4 DEF PageHonest, Shows
<1>2. ASSUME NEW o \in order' PROVE OrderHonest(o)'
  <2>1. o \in Posts
    BY DEF OrdersTyped, Posts
  <2> QED
    BY <2>1, OrderOn
<1>3. HonestInv'
  BY <1>1, <1>2 DEF HonestInv
<1> QED
  BY <1>3 DEF AskInv, AskTyped

-----------------------------------------------------------------------------
\* What the pages load.
LEMMA ListIs ==
  ASSUME FiledTyped
  PROVE  /\ Pages!listRequests \in [Pages!Request -> SeenRequest \cup {None}]
         /\ \A q \in Pages!Request : Pages!listRequests[q] # None =>
              Shows(Pages!listRequests[q], q)
<1>1. ASSUME NEW q \in Pages!Rows
      PROVE  Pages!mapRequestResponse(filed[q]) \in SeenRequest /\ Shows(Pages!mapRequestResponse(filed[q]), q)
  <2> DEFINE r == filed[q]
             row == session[r.session]
             m == Pages!mapRequestResponse(r)
  <2>1. r \in Pages!RequestRow /\ r # None /\ r.session \in Session
    BY RowIs
  <2>2. row.expected \in PlanPrice \cup {0} /\ row.corrected \in Amount \cup {None}
    BY <2>1, StampIs, SessionRowIs
  <2>3. m \in SeenRequest
    <3> HIDE DEF row
    <3>1. m = [session |-> r.session, status |-> r.status, plan |-> r.plan, price |-> r.price,
               paid |-> r.paid, expected |-> row.expected, corrected |-> row.corrected]
      BY DEF Pages!mapRequestResponse, row
    <3> QED
      BY <2>1, <2>2, <3>1 DEF SeenRequest, Pages!RequestRow, Status
  <2>4. Shows(m, q)
    BY <2>1 DEF Shows, Pages!mapRequestResponse
  <2> QED
    BY <2>3, <2>4
<1>2. ASSUME NEW q \in Pages!Request
      PROVE  /\ Pages!listRequests[q] \in SeenRequest \cup {None}
             /\ Pages!listRequests[q] # None => Shows(Pages!listRequests[q], q)
  <2>1. Pages!listRequests[q] = IF q \in Pages!Rows THEN Pages!mapRequestResponse(filed[q]) ELSE None
    BY DEF Pages!listRequests
  <2> QED
    BY <1>1, <2>1
<1>3. Pages!listRequests \in [Pages!Request -> SeenRequest \cup {None}]
  <2> DEFINE F(q) == IF q \in Pages!Rows THEN Pages!mapRequestResponse(filed[q]) ELSE None
  <2>1. \A q \in Pages!Request : F(q) \in SeenRequest \cup {None}
    BY <1>1
  <2>2. Pages!listRequests = [q \in Pages!Request |-> F(q)]
    BY DEF Pages!listRequests
  <2> HIDE DEF F
  <2> QED
    BY <2>1, <2>2
<1> QED
  BY <1>2, <1>3

LEMMA LatestIs ==
  ASSUME FiledTyped, NEW s \in Session
  PROVE  Pages!latestBySession(s) \in Status \cup {None}
<1>1. CASE Pages!Of(s) = {}
  BY <1>1 DEF Pages!latestBySession
<1>2. CASE Pages!Of(s) # {}
  <2> DEFINE S == Pages!Of(s)
  <2>1. PICK n \in 0 .. MaxRequests : Pages!Rows = 1 .. n
    BY DEF FiledTyped
  <2>2. n \in Nat /\ S \subseteq 1 .. n
    BY <2>1, PagesAssumption DEF Pages!Of
  <2>3. IsFiniteSet(S) /\ S \in SUBSET Int
    BY <2>2, FS_Interval, FS_Subset
  <2>4. Pages!Max(S) \in S
    <3> HIDE DEF S
    <3>1. \E x \in S : \A y \in S : x >= y
      <4> DEFINE f == [x \in S |-> x]
      <4>1. f \in [S -> Nat] /\ \A x \in S : f[x] = x
        BY <2>2
      <4>2. S # {}
        BY <1>2 DEF S
      <4> HIDE DEF f
      <4>3. PICK x \in S : Greatest(x, S, f)
        BY <2>3, <4>1, <4>2, FiniteHasGreatest
      <4> QED
        BY <2>2, <4>1, <4>3 DEF Greatest
    <3> QED
      BY <3>1 DEF Pages!Max
  <2>5. Pages!Max(S) \in Pages!Rows
    BY <2>4 DEF Pages!Of
  <2>6. filed[Pages!Max(S)].status \in Status
    BY <2>5, RowIs DEF Pages!RequestRow, Status
  <2>7. Pages!latestBySession(s) = filed[Pages!Max(S)].status
    BY <1>2 DEF Pages!latestBySession
  <2> QED
    BY <2>6, <2>7
<1> QED
  BY <1>1, <1>2

LEMMA AssistantListIs ==
  ASSUME FiledTyped
  PROVE  Pages!getAssistantToday \in [Session -> SeenSession \cup {None}]
<1> DEFINE LineOf(s) == [plan |-> session[s].plan, corrected |-> session[s].corrected,
                      latest |-> Pages!latestBySession(s)]
           F(s) == IF session[s].archived THEN None ELSE LineOf(s)
<1>1. ASSUME NEW s \in Session PROVE LineOf(s) \in SeenSession
  <2>1. session[s].plan \in Plan \cup {None} /\ session[s].corrected \in Amount \cup {None}
    BY StampIs, SessionRowIs
  <2>2. Pages!latestBySession(s) \in Status \cup {None}
    BY LatestIs
  <2> QED
    BY <2>1, <2>2 DEF SeenSession
<1> HIDE DEF LineOf
<1>2. \A s \in Session : F(s) \in SeenSession \cup {None}
  BY <1>1
<1>3. Pages!getAssistantToday = [s \in Session |-> F(s)]
  BY DEF Pages!getAssistantToday, LineOf
<1> HIDE DEF F
<1> QED
  BY <1>2, <1>3

-----------------------------------------------------------------------------
ListSet(v) ==
  IF v = "assistant" THEN [Session -> SeenSession \cup {None}]
  ELSE [Pages!Request -> SeenRequest \cup {None}]
DialogSet(v) == IF v = "assistant" THEN FileDialog ELSE ReviewDialog

LEMMA PageSetIs == ASSUME NEW v PROVE PageSet(v) = APage(ListSet(v), DialogSet(v))
BY DEF PageSet, AssistantPage, ReviewPage, ListSet, DialogSet

LEMMA FieldsOfAny ==
  ASSUME NEW v, NEW p \in PageSet(v)
  PROVE  /\ p.list \in ListSet(v) /\ p.dialog \in DialogSet(v) \cup {None} /\ p.closing \in Nat
         /\ \A l \in ListSet(v) : LET u == [p EXCEPT !.list = l] IN
              u \in PageSet(v) /\ u.list = l /\ u.dialog = p.dialog /\ u.closing = p.closing
         /\ \A d \in DialogSet(v) \cup {None} : LET u == [p EXCEPT !.dialog = d] IN
              u \in PageSet(v) /\ u.list = p.list /\ u.dialog = d /\ u.closing = p.closing
         /\ \A c \in Nat : LET u == [p EXCEPT !.closing = c] IN
              u \in PageSet(v) /\ u.list = p.list /\ u.dialog = p.dialog /\ u.closing = c
<1> DEFINE L == ListSet(v)
           D == DialogSet(v)
<1>1. p \in APage(L, D)
  BY PageSetIs
<1>2. PageSet(v) = APage(L, D)
  BY PageSetIs
<1> HIDE DEF L, D
<1>3. /\ p.list \in L /\ p.dialog \in D \cup {None} /\ p.closing \in Nat
      /\ \A l \in L : LET u == [p EXCEPT !.list = l] IN
           u \in APage(L, D) /\ u.list = l /\ u.dialog = p.dialog /\ u.closing = p.closing
      /\ \A d \in D \cup {None} : LET u == [p EXCEPT !.dialog = d] IN
           u \in APage(L, D) /\ u.list = p.list /\ u.dialog = d /\ u.closing = p.closing
      /\ \A c \in Nat : LET u == [p EXCEPT !.closing = c] IN
           u \in APage(L, D) /\ u.list = p.list /\ u.dialog = p.dialog /\ u.closing = c
  BY <1>1, FieldsOfPage
<1> QED
  BY <1>2, <1>3 DEF L, D

LEMMA PagesStep ==
  ASSUME PagesTyped, HonestInv, NEW v \in Everyone, NEW p \in PageSet(v), Pages!SetPage(v, p),
         v # "assistant" => PageHonest(p)
  PROVE  /\ PagesTyped'
         /\ \A w \in Everyone : Pages!Page(w)' = IF w = v THEN p ELSE Pages!Page(w)
         /\ \A w \in Reviewer : PageHonest(Pages!Page(w)')
<1>1. PagesTyped' /\ \A w \in Everyone : Pages!Page(w)' = IF w = v THEN p ELSE Pages!Page(w)
  BY PageIsSet
<1>2. ASSUME NEW w \in Reviewer PROVE PageHonest(Pages!Page(w)')
  <2>1. w \in Everyone /\ w # "assistant" /\ PageHonest(Pages!Page(w))
    BY PagesAssumption DEF Everyone, HonestInv
  <2>2. Pages!Page(w)' = IF w = v THEN p ELSE Pages!Page(w)
    BY <1>1, <2>1
  <2>3. CASE w = v
    BY <2>1, <2>2, <2>3
  <2>4. CASE w # v
    BY <2>1, <2>2, <2>4
  <2> QED
    BY <2>3, <2>4
<1> QED
  BY <1>1, <1>2

LEMMA PagesStay ==
  ASSUME PagesTyped, HonestInv, UNCHANGED <<assistant, reviewer>>
  PROVE  /\ PagesTyped'
         /\ \A w \in Everyone : Pages!Page(w)' = Pages!Page(w)
         /\ \A w \in Reviewer : PageHonest(Pages!Page(w)')
<1>1. PagesTyped' /\ \A w \in Everyone : Pages!Page(w)' = Pages!Page(w)
  BY PagesRest
<1>2. ASSUME NEW w \in Reviewer PROVE PageHonest(Pages!Page(w)')
  <2>1. w \in Everyone /\ PageHonest(Pages!Page(w))
    BY DEF Everyone, HonestInv
  <2> QED
    BY <1>1, <2>1
<1> QED
  BY <1>1, <1>2

LEMMA RowsStay ==
  ASSUME AskInv, UNCHANGED <<pagesWorld, session, plan, filed>>
  PROVE  FiledTyped' /\ Onward /\ RowsInv'
BY RowsSame DEF AskInv, AskTyped, FiledTyped

LEMMA OrdersStay ==
  ASSUME AskInv, order' = order
  PROVE  OrdersTyped' /\ \A o \in order' : OrderHonest(o)
BY DEF AskInv, AskTyped, OrdersTyped, HonestInv

LEMMA PageHonestIs ==
  ASSUME AskInv, NEW v \in Everyone
  PROVE  /\ Pages!Page(v) \in PageSet(v)
         /\ v # "assistant" => v \in Reviewer /\ PageHonest(Pages!Page(v))
BY PageIsTyped DEF AskInv, AskTyped, HonestInv, Everyone

-----------------------------------------------------------------------------
LEMMA LoadKeeps ==
  ASSUME AskInv, NEW v \in Everyone, Pages!load(v)
  PROVE  AskInv'
<1> DEFINE p == Pages!Page(v)
           l == Pages!Read(v)
           u == [p EXCEPT !.list = l]
<1>1. Pages!SetPage(v, u) /\ order' = order /\ UNCHANGED <<pagesWorld, session, plan, filed>>
  BY DEF Pages!load
<1>2. p \in PageSet(v) /\ (v # "assistant" => v \in Reviewer /\ PageHonest(p))
  BY PageHonestIs
<1>3. l \in ListSet(v) /\ (v # "assistant" =>
        \A q \in Pages!Request : l[q] # None => Shows(l[q], q))
  BY ListIs, AssistantListIs DEF Pages!Read, ListSet, AskInv, AskTyped
<1> HIDE DEF l, p
<1>4. u \in PageSet(v) /\ u.list = l /\ u.dialog = p.dialog
  BY <1>2, <1>3, FieldsOfAny
<1> HIDE DEF u
<1>5. v # "assistant" => PageHonest(u)
  BY <1>2, <1>3, <1>4 DEF PageHonest
<1>6. /\ PagesTyped'
      /\ \A w \in Everyone : Pages!Page(w)' = IF w = v THEN u ELSE Pages!Page(w)
      /\ \A w \in Reviewer : PageHonest(Pages!Page(w)')
  BY <1>1, <1>4, <1>5, PagesStep DEF AskInv, AskTyped
<1>7. OneWaits'
  <2>1. \A w \in Everyone : Saving(Pages!Page(w)') <=> Saving(Pages!Page(w))
    BY <1>4, <1>6 DEF Saving, p
  <2> QED
    BY <1>1, <2>1, WaitsSame DEF AskInv, AskTyped
<1> QED
  BY <1>1, <1>6, <1>7, RowsStay, OrdersStay, AskOn DEF AskInv, AskTyped

\* A dialog goes, and what it waits for goes on without it.
LEMMA DismissKeeps ==
  ASSUME AskInv, NEW v \in Everyone, NEW u \in PageSet(v), u.list = Pages!Page(v).list, u.dialog = None,
         Pages!SetPage(v, u), order' = Pages!Unmounted(v),
         UNCHANGED <<pagesWorld, session, plan, filed>>
  PROVE  AskInv'
<1>1. v # "assistant" => PageHonest(u)
  BY PageHonestIs DEF PageHonest
<1>2. /\ PagesTyped'
      /\ \A w \in Everyone : Pages!Page(w)' = IF w = v THEN u ELSE Pages!Page(w)
      /\ \A w \in Reviewer : PageHonest(Pages!Page(w)')
  BY <1>1, PagesStep DEF AskInv, AskTyped
<1>3. OneWaits'
  <2>1. \A w \in Everyone : Saving(Pages!Page(w)') <=> Saving(Pages!Page(w)) /\ w # v
    BY <1>2 DEF Saving
  <2> QED
    BY <2>1, WaitsUnmounted DEF AskInv, AskTyped
<1>4. OrdersTyped' /\ \A x \in order' : \E o \in order : SameOrder(o, x)
  BY UnmountedAre DEF AskInv, AskTyped
<1>5. \A x \in order' : OrderHonest(x)
  BY <1>4, HonestKept DEF AskInv, HonestInv
<1> QED
  BY <1>2, <1>3, <1>4, <1>5, RowsStay, AskOn DEF AskInv, AskTyped

LEMMA OnCloseKeeps ==
  ASSUME AskInv, NEW v \in Everyone, Pages!onClose(v)
  PROVE  AskInv'
<1> DEFINE p == Pages!Page(v)
           u == [p EXCEPT !.dialog = None]
<1>1. p \in PageSet(v)
  BY PageHonestIs
<1>2. Pages!SetPage(v, u) /\ order' = Pages!Unmounted(v) /\ UNCHANGED <<pagesWorld, session, plan, filed>>
  BY DEF Pages!onClose
<1> HIDE DEF p
<1>3. u \in PageSet(v) /\ u.list = p.list /\ u.dialog = None
  BY <1>1, FieldsOfAny
<1> HIDE DEF u
<1> QED
  BY <1>2, <1>3, DismissKeeps DEF p

Closed(p) == [[p EXCEPT !.dialog = None] EXCEPT !.closing = p.closing - 1]

LEMMA CloseKeeps ==
  ASSUME AskInv, NEW v \in Everyone, Pages!close(v)
  PROVE  AskInv'
<1> DEFINE p == Pages!Page(v)
           u == Closed(p)
<1>1. p \in PageSet(v)
  BY PageHonestIs
<1>2. p.closing > 0 /\ Pages!SetPage(v, u) /\ order' = Pages!Unmounted(v)
      /\ UNCHANGED <<pagesWorld, session, plan, filed>>
  <2>1. p.closing > 0 /\ Pages!SetPage(v, [p EXCEPT !.dialog = None, !.closing = @ - 1])
        /\ order' = Pages!Unmounted(v) /\ UNCHANGED <<pagesWorld, session, plan, filed>>
    BY DEF Pages!close
  <2>2. [p EXCEPT !.dialog = None, !.closing = @ - 1] = u
    <3> HIDE DEF p
    <3> QED
      BY DEF Closed
  <2> QED
    BY <2>1, <2>2
<1>3. u \in PageSet(v) /\ u.list = p.list /\ u.dialog = None
  <2> DEFINE m == [p EXCEPT !.dialog = None]
             c == p.closing - 1
  <2> HIDE DEF p
  <2>1. m \in PageSet(v) /\ m.list = p.list /\ m.dialog = None
    BY <1>1, FieldsOfAny
  <2>2. c \in Nat
    BY <1>1, <1>2, FieldsOfAny
  <2>3. u = [m EXCEPT !.closing = c]
    BY DEF Closed
  <2> HIDE DEF m, c, u
  <2>4. LET x == [m EXCEPT !.closing = c] IN x \in PageSet(v) /\ x.list = m.list /\ x.dialog = m.dialog
    BY <2>1, <2>2, FieldsOfAny
  <2> QED
    BY <2>1, <2>3, <2>4
<1> HIDE DEF u, p
<1> QED
  BY <1>2, <1>3, DismissKeeps DEF p

-----------------------------------------------------------------------------
\* A page's dialog changes and nothing waits for it, before or after.
LEMMA DialogKeeps ==
  ASSUME AskInv, NEW v \in Everyone, NEW u \in PageSet(v), u.list = Pages!Page(v).list,
         ~Saving(u), ~Saving(Pages!Page(v)), Pages!SetPage(v, u), order' = order,
         v # "assistant" /\ u.dialog # None => Shows(u.dialog.shown, u.dialog.of),
         UNCHANGED <<pagesWorld, session, plan, filed>>
  PROVE  AskInv'
<1>1. v # "assistant" => PageHonest(u)
  BY PageHonestIs DEF PageHonest
<1>2. /\ PagesTyped'
      /\ \A w \in Everyone : Pages!Page(w)' = IF w = v THEN u ELSE Pages!Page(w)
      /\ \A w \in Reviewer : PageHonest(Pages!Page(w)')
  BY <1>1, PagesStep DEF AskInv, AskTyped
<1>3. OneWaits'
  <2>1. \A w \in Everyone : Saving(Pages!Page(w)') <=> Saving(Pages!Page(w))
    BY <1>2
  <2> QED
    BY <2>1, WaitsSame DEF AskInv, AskTyped
<1> QED
  BY <1>2, <1>3, RowsStay, OrdersStay, AskOn DEF AskInv, AskTyped

LEMMA OpenRequestKeeps ==
  ASSUME AskInv, Pages!openRequest
  PROVE  AskInv'
<1> DEFINE p == assistant
<1>1. PICK s \in Session :
        /\ p.dialog = None /\ p.list[s] # None
        /\ assistant' = [p EXCEPT !.dialog = Pages!Dialog(s, p.list[s], "file", "ready")]
        /\ UNCHANGED <<pagesWorld, session, plan, filed, reviewer, order>>
  BY Zenon DEF Pages!openRequest
<1> DEFINE d == Pages!Dialog(s, p.list[s], "file", "ready")
           u == [p EXCEPT !.dialog = d]
<1>2. p = Pages!Page("assistant") /\ "assistant" \in Everyone
  BY DEF Pages!Page, Everyone
<1>3. p \in PageSet("assistant")
  BY <1>2, PageHonestIs
<1>4. p.list[s] \in SeenSession
  BY <1>1, <1>3, FieldsOfAny DEF ListSet
<1>5. d \in DialogSet("assistant") \cup {None} /\ d.stage = "ready"
  BY <1>4 DEF Pages!Dialog, DialogSet, FileDialog, Stage
<1>6. Pages!SetPage("assistant", u) /\ order' = order
  BY <1>1 DEF Pages!SetPage
<1> HIDE DEF d, p
<1>7. u \in PageSet("assistant") /\ u.list = p.list /\ u.dialog = d
  BY <1>3, <1>5, FieldsOfAny
<1> HIDE DEF u
<1>8. ~Saving(u) /\ ~Saving(p)
  BY <1>1, <1>5, <1>7 DEF Saving
<1> QED
  BY <1>1, <1>2, <1>6, <1>7, <1>8, DialogKeeps

LEMMA SetReviewKeeps ==
  ASSUME AskInv, NEW v \in Reviewer, Pages!setReview(v)
  PROVE  AskInv'
<1> DEFINE p == Pages!Page(v)
<1>0. v \in Everyone /\ v # "assistant" /\ p = reviewer[v]
  BY PagesAssumption DEF Everyone, Pages!Page
<1>1. PICK q \in Pages!Request, do \in {"approve", "reject"} :
        /\ reviewer[v].dialog = None /\ reviewer[v].list[q] # None
        /\ reviewer' = [reviewer EXCEPT ![v].dialog =
             Pages!Dialog(q, reviewer[v].list[q], do, IF do = "approve" THEN "asking" ELSE "ready")]
        /\ UNCHANGED <<pagesWorld, session, plan, filed, assistant, order>>
  BY Zenon DEF Pages!setReview
<1> DEFINE st == IF do = "approve" THEN "asking" ELSE "ready"
           d == Pages!Dialog(q, p.list[q], do, st)
           u == [p EXCEPT !.dialog = d]
<1>2. p \in PageSet(v) /\ PageHonest(p)
  BY <1>0, PageHonestIs
<1>3. p.list[q] \in SeenRequest
  BY <1>0, <1>1, <1>2, FieldsOfAny DEF ListSet
<1>4. d \in DialogSet(v) \cup {None} /\ d.stage # "saving" /\ d.shown = p.list[q] /\ d.of = q
  BY <1>0, <1>3 DEF Pages!Dialog, DialogSet, ReviewDialog, Stage
<1>5. Pages!SetPage(v, u) /\ order' = order
  <2>1. reviewer' = [reviewer EXCEPT ![v].dialog = d]
    BY <1>0, <1>1
  <2> HIDE DEF d
  <2>2. reviewer' = [reviewer EXCEPT ![v] = u]
    BY <1>0, <2>1
  <2> QED
    BY <1>0, <1>1, <2>2 DEF Pages!SetPage
<1> HIDE DEF d, p
<1>6. u \in PageSet(v) /\ u.list = p.list /\ u.dialog = d
  BY <1>2, <1>4, FieldsOfAny
<1> HIDE DEF u
<1>7. ~Saving(u) /\ ~Saving(p)
  BY <1>0, <1>1, <1>4, <1>6 DEF Saving, p
<1>8. Shows(u.dialog.shown, u.dialog.of)
  BY <1>0, <1>1, <1>2, <1>4, <1>6 DEF PageHonest
<1> QED
  BY <1>0, <1>1, <1>5, <1>6, <1>7, <1>8, DialogKeeps DEF p

LEMMA SetConfirmingKeeps ==
  ASSUME AskInv, NEW v \in Reviewer, Pages!setConfirming(v)
  PROVE  AskInv'
<1> DEFINE p == Pages!Page(v)
           d == StageSet(p.dialog, "ready")
           u == [p EXCEPT !.dialog = d]
<1>0. v \in Everyone /\ v # "assistant" /\ p = reviewer[v]
  BY PagesAssumption DEF Everyone, Pages!Page
<1>1. /\ p.dialog # None /\ p.dialog.stage = "asking"
      /\ reviewer' = [reviewer EXCEPT ![v].dialog.stage = "ready"]
      /\ UNCHANGED <<pagesWorld, session, plan, filed, assistant, order>>
  BY <1>0 DEF Pages!setConfirming
<1>2. p \in PageSet(v) /\ PageHonest(p)
  BY <1>0, PageHonestIs
<1>3. [p EXCEPT !.dialog.stage = "ready"] = u
  <2> HIDE DEF p
  <2> QED
    BY DEF StageSet
<1>4. Pages!SetPage(v, u) /\ order' = order
  <2>1. [reviewer EXCEPT ![v].dialog.stage = "ready"] = [reviewer EXCEPT ![v] = [p EXCEPT !.dialog.stage = "ready"]]
    BY <1>0
  <2>2. reviewer' = [reviewer EXCEPT ![v] = u]
    BY <1>1, <1>3, <2>1
  <2> HIDE DEF u
  <2> QED
    BY <1>0, <1>1, <2>2 DEF Pages!SetPage
<1>5. /\ u \in PageSet(v) /\ u.list = p.list /\ u.dialog = d
      /\ d # None /\ d.stage = "ready" /\ d.of = p.dialog.of /\ d.shown = p.dialog.shown
  <2> HIDE DEF p
  <2> QED
    BY <1>1, <1>2, StageIsSet DEF Stage
<1> HIDE DEF u, d
<1>6. ~Saving(u) /\ ~Saving(p)
  BY <1>1, <1>5 DEF Saving
<1>7. Shows(u.dialog.shown, u.dialog.of)
  BY <1>1, <1>2, <1>5 DEF PageHonest
<1> QED
  BY <1>0, <1>1, <1>4, <1>5, <1>6, <1>7, DialogKeeps

-----------------------------------------------------------------------------
LEMMA SendKeeps ==
  ASSUME AskInv, NEW v \in Everyone, NEW o \in Posts, o.page = v, o.waits = "dialog",
         OrderHonest(o), Pages!Send(v, o)
  PROVE  AskInv'
<1> DEFINE p == Pages!Page(v)
           d == StageSet(p.dialog, "saving")
           u == [p EXCEPT !.dialog = d]
<1>1. p \in PageSet(v) /\ (v # "assistant" => v \in Reviewer /\ PageHonest(p))
  BY PageHonestIs
<1>2. /\ p.dialog # None /\ p.dialog.stage = "ready"
      /\ Pages!SetPage(v, [p EXCEPT !.dialog.stage = "saving"])
      /\ order' = order \cup {o} /\ UNCHANGED <<pagesWorld, session, plan, filed>>
  BY DEF Pages!Send
<1>3. [p EXCEPT !.dialog.stage = "saving"] = u
  <2> HIDE DEF p
  <2> QED
    BY DEF StageSet
<1>4. Pages!SetPage(v, u)
  BY <1>2, <1>3
<1>5. /\ u \in PageSet(v) /\ u.list = p.list /\ u.dialog = d
      /\ d # None /\ d.stage = "saving" /\ d.of = p.dialog.of /\ d.shown = p.dialog.shown
  <2> HIDE DEF p
  <2> QED
    BY <1>1, <1>2, StageIsSet DEF Stage
<1> HIDE DEF u, d
<1>6. v # "assistant" => PageHonest(u)
  BY <1>1, <1>2, <1>5 DEF PageHonest
<1>7. /\ PagesTyped'
      /\ \A w \in Everyone : Pages!Page(w)' = IF w = v THEN u ELSE Pages!Page(w)
      /\ \A w \in Reviewer : PageHonest(Pages!Page(w)')
  BY <1>4, <1>5, <1>6, PagesStep DEF AskInv, AskTyped
<1>8. OneWaits'
  <2>1. ~Saving(p) /\ Saving(u)
    BY <1>2, <1>5 DEF Saving
  <2>2. \A w \in Everyone : Saving(Pages!Page(w)') <=> Saving(Pages!Page(w)) \/ w = v
    BY <1>7, <2>1
  <2> QED
    BY <1>2, <2>1, <2>2, WaitsSent DEF AskInv, AskTyped
<1>9. OrdersTyped' /\ \A x \in order' : OrderHonest(x)
  BY <1>2 DEF AskInv, AskTyped, OrdersTyped, HonestInv, Posts
<1> QED
  BY <1>2, <1>7, <1>8, <1>9, RowsStay, AskOn DEF AskInv, AskTyped

LEMMA HandleSubmitKeeps ==
  ASSUME AskInv, Pages!handleSubmit
  PROVE  AskInv'
<1>1. PICK k \in pagesWorld.wanted \cup {None}, a \in Amount \cup {None} :
        /\ assistant.dialog # None
        /\ k # None \/ a # None
        /\ Pages!Send("assistant", Pages!Order("assistant", k, a))
  BY DEF Pages!handleSubmit, Pages!validateModificationSelection
<1> DEFINE o == Pages!Order("assistant", k, a)
           p == Pages!Page("assistant")
<1>2. "assistant" \in Everyone /\ k \in Plan \cup {None} /\ p = assistant
  BY PagesWorldIs DEF Everyone, AskInv, AskTyped, Pages!Page
<1>3. p.dialog \in FileDialog
  BY <1>1, <1>2, PageHonestIs, FieldsOfAny DEF DialogSet
<1>4. o \in FileOrder /\ o.page = "assistant" /\ o.waits = "dialog" /\ o.read = None /\ o.do = "file"
      /\ o.plan = k /\ o.paid = a
  BY <1>2, <1>3 DEF Pages!Order, FileOrder, FileDialog, Waits, Answer
<1>5. Pages!Send("assistant", o)
  BY <1>1
<1> HIDE DEF o
<1>6. OrderHonest(o)
  BY <1>1, <1>4 DEF OrderHonest, Files
<1> QED
  BY <1>2, <1>4, <1>5, <1>6, SendKeeps DEF Posts

LEMMA SubmitKeeps ==
  ASSUME AskInv, NEW v \in Reviewer, Pages!submit(v)
  PROVE  AskInv'
<1> DEFINE o == Pages!Order(v, None, None)
           p == Pages!Page(v)
<1>1. reviewer[v].dialog # None /\ Pages!Send(v, o)
  BY DEF Pages!submit
<1>2. v \in Everyone /\ v # "assistant" /\ p = reviewer[v]
  BY PagesAssumption DEF Everyone, Pages!Page
<1>3. p.dialog \in ReviewDialog /\ PageHonest(p)
  BY <1>1, <1>2, PageHonestIs, FieldsOfAny DEF DialogSet
<1>4. o \in ReviewOrder /\ o.page = v /\ o.waits = "dialog" /\ o.read = None /\ o.do # "file"
      /\ o.shown = p.dialog.shown /\ o.of = p.dialog.of
  BY <1>3 DEF Pages!Order, ReviewOrder, ReviewDialog, Waits, Answer
<1> HIDE DEF o
<1>5. OrderHonest(o)
  BY <1>1, <1>2, <1>3, <1>4 DEF OrderHonest, PageHonest
<1> QED
  BY <1>1, <1>2, <1>4, <1>5, SendKeeps DEF Posts

-----------------------------------------------------------------------------
\* What is read and found different from the row is worth filing.
LEMMA FindSessionKeeps ==
  ASSUME AskInv, Pages!findSession
  PROVE  AskInv'
<1>1. PICK o \in order :
        LET row == session[Pages!SessionOf(o)] IN
          /\ Pages!Reads(o) /\ Pages!Checks(o)
          /\ order' = (order \ {o}) \cup {[o EXCEPT !.read = [plan |-> row.plan, stamp |-> row.stamp]]}
          /\ UNCHANGED <<pagesWorld, session, plan, filed, assistant, reviewer>>
  BY DEF Pages!findSession
<1> DEFINE s == Pages!SessionOf(o)
           row == session[s]
           r == [plan |-> row.plan, stamp |-> row.stamp]
           u == [o EXCEPT !.read = r]
<1>2. o \in Posts /\ OrderHonest(o)
      /\ (o.do = "file" => o \in FileOrder) /\ (o.do # "file" => o \in ReviewOrder)
  BY OrderIs DEF AskInv, AskTyped, HonestInv
<1>3. o.do # "file" => o.of \in Pages!Rows
  BY <1>2 DEF OrderHonest, Shows, Pages!Rows, ReviewOrder
<1>4. s \in Session
  BY <1>2, <1>3, RowIs DEF Pages!SessionOf, FileOrder, AskInv, AskTyped
<1>5. r \in ReadRow /\ r.stamp = row.stamp /\ r # None
  <2>1. row.plan \in Plan \cup {None} /\ row.stamp \in 0 .. MaxStamp
    BY <1>4, StampIs, SessionRowIs DEF AskInv, AskTyped
  <2>2. r \in ReadRow
    BY <2>1 DEF ReadRow
  <2> QED
    BY <2>2, NotNull
<1>6. order' = (order \ {o}) \cup {u}
  BY <1>1
<1>7. Pages!Checks(o)
  BY <1>1
<1> HIDE DEF r
<1>8. /\ u \in Posts /\ u.page = o.page /\ u.waits = o.waits /\ u.do = o.do /\ u.of = o.of
      /\ u.plan = o.plan /\ u.paid = o.paid /\ u.shown = o.shown /\ u.read = r
  BY <1>2, <1>5, OrderEdits
<1> HIDE DEF u
<1>9. OrderHonest(u)
  <2>1. u.do # "file" => Shows(u.shown, u.of)
    BY <1>2, <1>8 DEF OrderHonest
  <2>2. u.do = "approve" => u.read.stamp = filed[u.of].atStamp
    BY <1>5, <1>7, <1>8 DEF Pages!Checks, Pages!assertRequestNotStale, Pages!SessionOf
  <2>3. ASSUME u.do = "file" PROVE Files(u)
    <3>1. s = u.of /\ Pages!Different(s, u.plan, u.paid)
      BY <1>7, <1>8, <2>3 DEF Pages!Checks, Pages!SessionOf
    <3>2. u.plan # None \/ u.paid # None
      BY <1>2, <1>8, <2>3 DEF OrderHonest, Files
    <3>3. u.read.stamp <= session[u.of].stamp
      <4>1. session[s].stamp \in Nat
        BY <1>4, StampIs DEF AskInv, AskTyped
      <4> QED
        BY <1>5, <1>8, <3>1, <4>1
    <3>4. ASSUME NEW q \in Pages!Rows, filed[q].status = "APPROVED", filed[q].session = u.of,
                 filed[q].applied = u.read.stamp
          PROVE  u.plan # filed[q].plan \/ u.paid # filed[q].paid
      <4>1. Done(filed[q], session[s])
        BY <1>5, <1>8, <3>1, <3>4 DEF AskInv, RowsInv, DoneInv
      <4>2. /\ u.plan # None => u.plan # session[s].plan
            /\ u.paid # None => u.paid # session[s].corrected
        BY <3>1 DEF Pages!Different, Pages!assertPlanIsDifferent, Pages!assertPaidAmountIsDifferent
      <4> QED
        BY <3>2, <4>1, <4>2 DEF Done
    <3> QED
      BY <3>2, <3>3, <3>4 DEF Files
  <2> QED
    BY <2>1, <2>2, <2>3 DEF OrderHonest
<1>10. /\ PagesTyped'
       /\ \A w \in Everyone : Pages!Page(w)' = Pages!Page(w)
       /\ \A w \in Reviewer : PageHonest(Pages!Page(w)')
  BY <1>1, PagesStay DEF AskInv, AskTyped
<1>11. OneWaits'
  BY <1>6, <1>8, <1>10, WaitsSwapped DEF AskInv, AskTyped
<1>12. OrdersTyped' /\ \A x \in order' : OrderHonest(x)
  BY <1>6, <1>8, <1>9 DEF AskInv, AskTyped, OrdersTyped, HonestInv, Posts
<1> QED
  BY <1>1, <1>10, <1>11, <1>12, RowsStay, AskOn DEF AskInv, AskTyped

\* An order is answered: what the rows become is the caller's.
LEMMA AnswerKeeps ==
  ASSUME AskInv, FiledTyped', Onward, RowsInv', NEW o \in order, NEW a \in Answer,
         Pages!Answered(o, a), UNCHANGED <<assistant, reviewer>>
  PROVE  AskInv'
<1> DEFINE u == [o EXCEPT !.answer = a]
<1>1. o \in Posts /\ OrderHonest(o) /\ o.page \in Everyone
  BY OrderIs DEF AskInv, AskTyped, HonestInv
<1>2. u \in Posts /\ SameOrder(o, u) /\ u.waits = o.waits
  BY <1>1, OrderEdits
<1>3. order' = (order \ {o}) \cup (IF o.waits = "nobody" THEN {} ELSE {u})
  BY DEF Pages!Answered
<1> HIDE DEF u
<1>4. OrderHonest(u) /\ u.page = o.page
  BY <1>1, <1>2, HonestKept DEF SameOrder
<1>5. OrdersTyped' /\ \A x \in order' : OrderHonest(x)
  BY <1>2, <1>3, <1>4 DEF AskInv, AskTyped, OrdersTyped, HonestInv, Posts
<1>6. /\ PagesTyped'
      /\ \A w \in Everyone : Pages!Page(w)' = Pages!Page(w)
      /\ \A w \in Reviewer : PageHonest(Pages!Page(w)')
  BY PagesStay DEF AskInv, AskTyped
<1>7. OneWaits'
  <2>1. CASE o.waits = "nobody"
    <3> DEFINE U == {}
    <3>1. order' = (order \ {o}) \cup U /\ \A x \in U : x.waits # "dialog"
      BY <1>3, <2>1
    <3>2. \A w \in Everyone :
            Saving(Pages!Page(w)') <=> Saving(Pages!Page(w)) /\ ~(o.waits = "dialog" /\ w = o.page)
      BY <1>6, <2>1
    <3> HIDE DEF U
    <3> QED
      BY <1>1, <3>1, <3>2, WaitsDropped DEF AskInv, AskTyped
  <2>2. CASE o.waits # "nobody"
    BY <1>2, <1>3, <1>4, <1>6, <2>2, WaitsSwapped DEF AskInv, AskTyped
  <2> QED
    BY <2>1, <2>2
<1> QED
  BY <1>5, <1>6, <1>7, AskOn DEF AskInv, AskTyped

LEMMA HandleErrorKeeps ==
  ASSUME AskInv, Pages!handleError
  PROVE  AskInv'
<1>1. PICK o \in order : Pages!Answered(o, "error")
                         /\ UNCHANGED <<pagesWorld, session, plan, filed, assistant, reviewer>>
  BY DEF Pages!handleError
<1>2. "error" \in Answer
  BY DEF Answer
<1> QED
  BY <1>1, <1>2, RowsStay, AnswerKeeps

LEMMA CarryOutKeeps ==
  ASSUME AskInv, Pages!carryOut
  PROVE  AskInv'
<1>1. PICK o \in order :
        /\ ~Pages!Reads(o)
        /\ Pages!createRequest(o) \/ Pages!approveRequest(o) \/ Pages!rejectRequest(o)
        /\ Pages!Answered(o, "ok")
        /\ UNCHANGED <<pagesWorld, plan, assistant, reviewer>>
  BY DEF Pages!carryOut
<1>2. o \in Posts /\ OrderHonest(o)
      /\ (o.do = "file" => o \in FileOrder) /\ (o.do # "file" => o \in ReviewOrder)
  BY OrderIs DEF AskInv, AskTyped, HonestInv
<1>3. o.do # "file" => o.of \in Pages!Rows
  BY <1>2 DEF OrderHonest, Shows, Pages!Rows, ReviewOrder
<1>4. FiledTyped /\ RowsInv
  BY DEF AskInv, AskTyped
<1>5. FiledTyped' /\ Onward /\ RowsInv'
  <2>1. CASE Pages!createRequest(o)
    <3>1. o.do = "file" /\ o.read # None
      BY <1>1, <2>1 DEF Pages!createRequest, Pages!Reads
    <3>2. o \in FileOrder /\ Files(o)
      BY <1>2, <3>1 DEF OrderHonest
    <3> QED
      BY <1>1, <1>4, <2>1, <3>1, <3>2, RowsFiled
  <2>2. CASE Pages!approveRequest(o)
    <3>1. o.do = "approve"
      BY <2>2, Zenon DEF Pages!approveRequest
    <3>2. o.of \in Pages!Rows
      BY <1>3, <3>1
    <3> QED
      BY <1>1, <1>4, <2>2, <3>2, RowsApproved
  <2>3. CASE Pages!rejectRequest(o)
    <3>1. o.do = "reject"
      BY <2>3 DEF Pages!rejectRequest
    <3>2. o.of \in Pages!Rows /\ o \in ReviewOrder
      BY <1>2, <1>3, <3>1
    <3> QED
      BY <1>1, <1>4, <2>3, <3>2, RowsRejected
  <2> QED
    BY <1>1, <2>1, <2>2, <2>3
<1>6. "ok" \in Answer
  BY DEF Answer
<1> QED
  BY <1>1, <1>5, <1>6, AnswerKeeps

-----------------------------------------------------------------------------
\* An order goes: its page gets to know, or nobody does any more.
LEMMA GoneKeeps ==
  ASSUME AskInv, NEW o \in order, NEW U, \A u \in U : u.waits # "dialog" /\ u \in Posts /\ OrderHonest(u),
         order' = (order \ {o}) \cup U, UNCHANGED <<pagesWorld, session, plan, filed>>,
         PagesTyped', \A w \in Reviewer : PageHonest(Pages!Page(w)'),
         \A w \in Everyone :
           Saving(Pages!Page(w)') <=> Saving(Pages!Page(w)) /\ ~(o.waits = "dialog" /\ w = o.page)
  PROVE  AskInv'
<1>1. o.page \in Everyone
  BY OrderIs DEF AskInv, AskTyped
<1>2. OneWaits'
  BY <1>1, WaitsDropped DEF AskInv, AskTyped
<1>3. OrdersTyped' /\ \A x \in order' : OrderHonest(x)
  BY DEF AskInv, AskTyped, OrdersTyped, HonestInv, Posts
<1> QED
  BY <1>2, <1>3, RowsStay, AskOn DEF AskInv, AskTyped

\* The page an order waits for is saving it.
LEMMA WaitedFor ==
  ASSUME AskInv, NEW o \in order, o.waits = "dialog"
  PROVE  Pages!Page(o.page).dialog # None
<1>1. o.page \in Everyone
  BY OrderIs DEF AskInv, AskTyped
<1>2. WaitsFor(order, o.page) # {}
  BY DEF WaitsFor
<1> QED
  BY <1>1, <1>2 DEF AskInv, AskTyped, OneWaits, Saving

\* The dialog that waited for the answer gets another stage.
LEMMA PageAnswered ==
  ASSUME AskInv, NEW v \in Everyone, NEW u \in PageSet(v), Pages!SetPage(v, u), u.list = Pages!Page(v).list,
         Pages!Page(v).dialog # None, u.dialog # None, u.dialog.stage # "saving",
         u.dialog.of = Pages!Page(v).dialog.of, u.dialog.shown = Pages!Page(v).dialog.shown
  PROVE  /\ PagesTyped' /\ \A w \in Reviewer : PageHonest(Pages!Page(w)')
         /\ \A w \in Everyone : Saving(Pages!Page(w)') <=> Saving(Pages!Page(w)) /\ w # v
<1>1. v # "assistant" => PageHonest(Pages!Page(v))
  BY PageHonestIs
<1>2. v # "assistant" => PageHonest(u)
  BY <1>1 DEF PageHonest
<1>3. ~Saving(u)
  BY DEF Saving
<1>4. /\ PagesTyped'
      /\ \A w \in Everyone : Pages!Page(w)' = IF w = v THEN u ELSE Pages!Page(w)
      /\ \A w \in Reviewer : PageHonest(Pages!Page(w)')
  BY <1>2, PagesStep DEF AskInv, AskTyped
<1> QED
  BY <1>3, <1>4

LEMMA BackKeeps ==
  ASSUME AskInv, NEW o \in order, Pages!Back(o)
  PROVE  /\ PagesTyped' /\ \A w \in Reviewer : PageHonest(Pages!Page(w)')
         /\ \A w \in Everyone :
              Saving(Pages!Page(w)') <=> Saving(Pages!Page(w)) /\ ~(o.waits = "dialog" /\ w = o.page)
<1>1. CASE o.waits = "dialog"
  <2> DEFINE v == o.page
             p == Pages!Page(v)
             d == StageSet(p.dialog, "ready")
             u == [p EXCEPT !.dialog = d]
  <2>1. v \in Everyone /\ p.dialog # None
    BY <1>1, WaitedFor, OrderIs DEF AskInv, AskTyped
  <2>2. p \in PageSet(v)
    BY <2>1, PageHonestIs
  <2>3. [p EXCEPT !.dialog.stage = "ready"] = u
    <3> HIDE DEF p
    <3> QED
      BY DEF StageSet
  <2>4. Pages!SetPage(v, u)
    BY <1>1, <2>3 DEF Pages!Back
  <2>5. /\ u \in PageSet(v) /\ u.list = p.list /\ u.dialog = d
        /\ d # None /\ d.stage = "ready" /\ d.of = p.dialog.of /\ d.shown = p.dialog.shown
    <3> HIDE DEF p, v
    <3> QED
      BY <2>1, <2>2, StageIsSet DEF Stage
  <2> HIDE DEF u, d
  <2>6. /\ u.list = Pages!Page(v).list /\ u.dialog # None /\ u.dialog.stage # "saving"
        /\ u.dialog.of = Pages!Page(v).dialog.of /\ u.dialog.shown = Pages!Page(v).dialog.shown
    BY <2>5
  <2> HIDE DEF p, v
  <2>7. /\ PagesTyped' /\ \A w \in Reviewer : PageHonest(Pages!Page(w)')
        /\ \A w \in Everyone : Saving(Pages!Page(w)') <=> Saving(Pages!Page(w)) /\ w # v
    BY <2>1, <2>4, <2>5, <2>6, PageAnswered DEF p
  <2> QED
    BY <1>1, <2>7 DEF v
<1>2. CASE o.waits # "dialog"
  <2>1. UNCHANGED <<assistant, reviewer>>
    BY <1>2 DEF Pages!Back
  <2> QED
    BY <1>2, <2>1, PagesStay DEF AskInv, AskTyped
<1> QED
  BY <1>1, <1>2

LEMMA SetErrorKeeps ==
  ASSUME AskInv, Pages!setError
  PROVE  AskInv'
<1>1. PICK o \in order : order' = order \ {o} /\ Pages!Back(o)
                         /\ UNCHANGED <<pagesWorld, session, plan, filed>>
  BY DEF Pages!setError
<1> DEFINE U == {}
<1>2. order' = (order \ {o}) \cup U /\ \A u \in U : u.waits # "dialog" /\ u \in Posts /\ OrderHonest(u)
  BY <1>1
<1> HIDE DEF U
<1> QED
  BY <1>1, <1>2, BackKeeps, GoneKeeps

LEMMA GiveUpKeeps ==
  ASSUME AskInv, Pages!giveUp
  PROVE  AskInv'
<1>1. PICK o \in order :
        /\ order' = (order \ {o}) \cup (IF o.answer = None THEN {[o EXCEPT !.waits = "nobody"]} ELSE {})
        /\ Pages!Back(o) /\ UNCHANGED <<pagesWorld, session, plan, filed>>
  BY DEF Pages!giveUp
<1> DEFINE u == [o EXCEPT !.waits = "nobody"]
           U == IF o.answer = None THEN {u} ELSE {}
<1>2. o \in Posts /\ OrderHonest(o)
  BY OrderIs DEF AskInv, AskTyped, HonestInv
<1>3. u \in Posts /\ SameOrder(o, u) /\ u.waits = "nobody"
  BY <1>2, OrderEdits DEF Waits
<1>4. order' = (order \ {o}) \cup U
  BY <1>1
<1> HIDE DEF u
<1>5. \A x \in U : x.waits # "dialog" /\ x \in Posts /\ OrderHonest(x)
  BY <1>2, <1>3, HonestKept
<1> HIDE DEF U
<1> QED
  BY <1>1, <1>4, <1>5, BackKeeps, GoneKeeps

LEMMA SetDoneKeeps ==
  ASSUME AskInv, Pages!setDone
  PROVE  AskInv'
<1>1. PICK o \in order :
        LET p == Pages!Page(o.page) IN
          /\ order' = order \ {o}
          /\ Pages!SetPage(o.page,
               IF o.waits = "dialog" THEN [p EXCEPT !.dialog.stage = "done", !.closing = @ + 1]
               ELSE [p EXCEPT !.closing = @ + 1])
          /\ UNCHANGED <<pagesWorld, session, plan, filed>>
  BY DEF Pages!setDone
<1> DEFINE v == o.page
           p == Pages!Page(v)
           c == p.closing + 1
           U == {}
<1>2. v \in Everyone
  BY OrderIs DEF AskInv, AskTyped
<1>3. p \in PageSet(v)
  BY <1>2, PageHonestIs
<1>4. c \in Nat
  <2> HIDE DEF p
  <2> QED
    BY <1>3, FieldsOfAny
<1>5. order' = (order \ {o}) \cup U /\ UNCHANGED <<pagesWorld, session, plan, filed>>
      /\ \A u \in U : u.waits # "dialog" /\ u \in Posts /\ OrderHonest(u)
  BY <1>1
<1>6. CASE o.waits = "dialog"
  <2> DEFINE d == StageSet(p.dialog, "done")
             m == [p EXCEPT !.dialog = d]
             u == [m EXCEPT !.closing = c]
  <2>1. p.dialog # None
    BY <1>6, WaitedFor
  <2>2. Pages!SetPage(v, [p EXCEPT !.dialog.stage = "done", !.closing = @ + 1])
    BY <1>1, <1>6
  <2>3. [p EXCEPT !.dialog.stage = "done", !.closing = @ + 1] = u
    <3> HIDE DEF p
    <3> QED
      BY DEF StageSet
  <2>4. Pages!SetPage(v, u)
    BY <2>2, <2>3
  <2>5. /\ m \in PageSet(v) /\ m.list = p.list /\ m.dialog = d
        /\ d # None /\ d.stage = "done" /\ d.of = p.dialog.of /\ d.shown = p.dialog.shown
    <3> HIDE DEF p, v
    <3> QED
      BY <1>3, <2>1, StageIsSet DEF Stage
  <2> HIDE DEF d, m, c
  <2>6. u \in PageSet(v) /\ u.list = m.list /\ u.dialog = m.dialog
    BY <1>4, <2>5, FieldsOfAny
  <2> HIDE DEF u
  <2>7. /\ u.list = Pages!Page(v).list /\ u.dialog # None /\ u.dialog.stage # "saving"
        /\ u.dialog.of = Pages!Page(v).dialog.of /\ u.dialog.shown = Pages!Page(v).dialog.shown
        /\ Pages!Page(v).dialog # None
    BY <2>1, <2>5, <2>6
  <2> HIDE DEF p, v
  <2>8. /\ PagesTyped' /\ \A w \in Reviewer : PageHonest(Pages!Page(w)')
        /\ \A w \in Everyone : Saving(Pages!Page(w)') <=> Saving(Pages!Page(w)) /\ w # v
    BY <1>2, <2>4, <2>6, <2>7, PageAnswered
  <2>9. \A w \in Everyone :
          Saving(Pages!Page(w)') <=> Saving(Pages!Page(w)) /\ ~(o.waits = "dialog" /\ w = o.page)
    BY <1>6, <2>8 DEF v
  <2> HIDE DEF U
  <2> QED
    BY <1>5, <2>8, <2>9, GoneKeeps
<1>7. CASE o.waits # "dialog"
  <2> DEFINE u == [p EXCEPT !.closing = c]
  <2>1. Pages!SetPage(v, u)
    BY <1>1, <1>7
  <2> HIDE DEF c, p
  <2>2. u \in PageSet(v) /\ u.list = p.list /\ u.dialog = p.dialog
    BY <1>3, <1>4, FieldsOfAny
  <2> HIDE DEF u
  <2>3. v # "assistant" => PageHonest(p)
    BY <1>2, PageHonestIs DEF p
  <2>4. v # "assistant" => PageHonest(u)
    BY <2>2, <2>3 DEF PageHonest
  <2> HIDE DEF v
  <2>5. /\ PagesTyped'
        /\ \A w \in Everyone : Pages!Page(w)' = IF w = v THEN u ELSE Pages!Page(w)
        /\ \A w \in Reviewer : PageHonest(Pages!Page(w)')
    BY <1>2, <2>1, <2>2, <2>4, PagesStep DEF AskInv, AskTyped
  <2>6. \A w \in Everyone :
          Saving(Pages!Page(w)') <=> Saving(Pages!Page(w)) /\ ~(o.waits = "dialog" /\ w = o.page)
    BY <1>7, <2>2, <2>5 DEF Saving, p
  <2> HIDE DEF U
  <2> QED
    BY <1>5, <2>5, <2>6, GoneKeeps
<1> QED
  BY <1>6, <1>7

-----------------------------------------------------------------------------
\* Whatever else changes the rows.
LEMMA RowsKeep ==
  ASSUME AskInv, FiledTyped', Onward, RowsInv', UNCHANGED <<assistant, reviewer, order>>
  PROVE  AskInv'
<1>1. /\ PagesTyped'
      /\ \A w \in Everyone : Pages!Page(w)' = Pages!Page(w)
      /\ \A w \in Reviewer : PageHonest(Pages!Page(w)')
  BY PagesStay DEF AskInv, AskTyped
<1>2. OneWaits'
  BY <1>1, WaitsSame DEF AskInv, AskTyped
<1> QED
  BY <1>1, <1>2, OrdersStay, AskOn DEF AskInv, AskTyped

LEMMA EditKeeps ==
  ASSUME AskInv, NEW s \in Session, NEW r \in Pages!SessionRow, r.stamp = session[s].stamp,
         r.stamp < MaxStamp, Pages!Only(s, r)
  PROVE  AskInv'
<1>1. Pages!Changed(s, r) /\ UNCHANGED <<pagesWorld, plan, filed, assistant, reviewer, order>>
  BY DEF Pages!Only
<1> QED
  BY <1>1, RowsEdited, RowsKeep DEF AskInv, AskTyped

LEMMA SessionEditsKeep ==
  ASSUME AskInv, NEW s \in Session,
         Pages!correctSession(s) \/ Pages!changeSessionPlan(s) \/ Pages!deleteSession(s)
  PROVE  AskInv'
<1> DEFINE row == session[s]
<1>1. row \in Pages!SessionRow
  BY StampIs DEF AskInv, AskTyped
<1>2. row.stamp < MaxStamp
  BY DEF Pages!correctSession, Pages!changeSessionPlan, Pages!deleteSession, Pages!May
<1>3. CASE Pages!correctSession(s)
  <2>1. PICK a \in Amount \cup {None} : Pages!Only(s, [row EXCEPT !.corrected = a])
    BY <1>3 DEF Pages!correctSession
  <2> DEFINE r == [row EXCEPT !.corrected = a]
  <2>2. Pages!Only(s, r)
    BY <2>1
  <2> HIDE DEF row
  <2>3. r \in Pages!SessionRow /\ r.stamp = row.stamp
    BY <1>1, RowEdits
  <2> HIDE DEF r
  <2> QED
    BY <1>2, <2>2, <2>3, EditKeeps DEF row
<1>4. CASE Pages!changeSessionPlan(s)
  <2>1. PICK p \in Plan : Pages!Only(s, [row EXCEPT !.plan = p, !.expected = plan[p].price])
    BY <1>4, Zenon DEF Pages!changeSessionPlan
  <2> DEFINE e == plan[p].price
             r == Priced(row, p, e)
  <2>2. e \in PlanPrice
    BY DEF AskInv, AskTyped, FiledTyped
  <2>3. Pages!Only(s, r)
    <3>1. [row EXCEPT !.plan = p, !.expected = e] = r
      <4> HIDE DEF row, e
      <4> QED
        BY DEF Priced
    <3> QED
      BY <2>1, <3>1
  <2> HIDE DEF row, e
  <2>4. r \in Pages!SessionRow /\ r.stamp = row.stamp
    BY <1>1, <2>2, RowEdits
  <2> HIDE DEF r
  <2> QED
    BY <1>2, <2>3, <2>4, EditKeeps DEF row
<1>5. CASE Pages!deleteSession(s)
  <2> DEFINE r == SetArchived(row, TRUE)
  <2>1. Pages!Only(s, r)
    BY <1>5, Zenon DEF Pages!deleteSession, SetArchived
  <2> HIDE DEF row
  <2>2. r \in Pages!SessionRow /\ r.stamp = row.stamp
    BY <1>1, RowEdits DEF IsBoolean
  <2> HIDE DEF r
  <2> QED
    BY <1>2, <2>1, <2>2, EditKeeps DEF row
<1> QED
  BY <1>3, <1>4, <1>5

LEMMA UpdatePricingPlanKeeps ==
  ASSUME AskInv, Pages!updatePricingPlan
  PROVE  AskInv'
<1>1. PICK p \in pagesWorld.wanted, form \in [price: PlanPrice, active: BOOLEAN] :
        /\ plan' = [plan EXCEPT ![p] = form]
        /\ UNCHANGED <<pagesWorld, session, filed, assistant, reviewer, order>>
  BY DEF Pages!updatePricingPlan
<1> DEFINE T == [price: PlanPrice, active: BOOLEAN]
<1>2. plan \in [Plan -> T]
  BY DEF AskInv, AskTyped, FiledTyped
<1>3. form \in T
  OBVIOUS
<1>4. plan' \in [Plan -> T]
  <2> HIDE DEF T
  <2> QED
    BY <1>1, <1>2, <1>3
<1>5. FiledTyped' /\ Onward /\ RowsInv'
  BY <1>1, <1>4, RowsSame DEF AskInv, AskTyped
<1> QED
  BY <1>1, <1>5, RowsKeep

-----------------------------------------------------------------------------
LEMMA AskStep ==
  ASSUME AskInv, [Pages!Next]_(Pages!vars)
  PROVE  AskInv'
<1>1. CASE UNCHANGED Pages!vars
  <2>1. UNCHANGED <<pagesWorld, session, plan, filed, assistant, reviewer, order>>
    BY <1>1 DEF Pages!vars
  <2> QED
    BY <2>1, RowsStay, RowsKeep
<1>2. ASSUME NEW v \in Pages!Pages, Pages!load(v) \/ Pages!onClose(v) \/ Pages!close(v) PROVE AskInv'
  BY <1>2, PagesAre, LoadKeeps, OnCloseKeeps, CloseKeeps DEF AskInv, AskTyped
<1>3. ASSUME NEW v \in Reviewer, Pages!setReview(v) \/ Pages!setConfirming(v) \/ Pages!submit(v)
      PROVE  AskInv'
  BY <1>3, SetReviewKeeps, SetConfirmingKeeps, SubmitKeeps
<1>4. CASE Pages!openRequest \/ Pages!handleSubmit
  BY <1>4, OpenRequestKeeps, HandleSubmitKeeps
<1>5. CASE Pages!findSession \/ Pages!carryOut \/ Pages!handleError
  BY <1>5, FindSessionKeeps, CarryOutKeeps, HandleErrorKeeps
<1>6. CASE Pages!setDone \/ Pages!setError \/ Pages!giveUp
  BY <1>6, SetDoneKeeps, SetErrorKeeps, GiveUpKeeps
<1>7. ASSUME NEW s \in Session,
             Pages!correctSession(s) \/ Pages!changeSessionPlan(s) \/ Pages!deleteSession(s)
      PROVE  AskInv'
  BY <1>7, SessionEditsKeep
<1>8. CASE Pages!updatePricingPlan
  BY <1>8, UpdatePricingPlanKeeps
<1> QED
  BY <1>1, <1>2, <1>3, <1>4, <1>5, <1>6, <1>7, <1>8 DEF Pages!Next

LEMMA AskInit ==
  ASSUME Pages!Init
  PROVE  AskInv
<1>1. /\ pagesWorld \in PagesWorld /\ order = {} /\ Pages!Rows = {}
      /\ filed \in [Pages!Request -> Pages!RequestRow \cup {None}]
  BY DEF Pages!Init, Pages!Rows
<1>2. plan \in [Plan -> [price: PlanPrice, active: BOOLEAN]]
  <2>1. plan \in [Plan -> [price: PlanPrice, active: {TRUE}]]
    BY DEF Pages!Init
  <2>2. [price: PlanPrice, active: {TRUE}] \subseteq [price: PlanPrice, active: BOOLEAN]
    OBVIOUS
  <2> DEFINE T == [price: PlanPrice, active: {TRUE}]
             B == [price: PlanPrice, active: BOOLEAN]
  <2> HIDE DEF T, B
  <2> QED
    BY <2>1, <2>2 DEF T, B
<1>3. session \in [Session -> Pages!SessionRow]
  <2> DEFINE P(r) == r.corrected = None /\ ~r.archived /\ r.stamp = 0
                     /\ r.expected = IF r.plan = None THEN 0 ELSE plan[r.plan].price
             T == Pages!SessionRow
  <2>1. session \in [Session -> {r \in T : P(r)}]
    BY DEF Pages!Init
  <2> HIDE DEF P, T
  <2>2. session \in [Session -> T]
    BY <2>1
  <2> QED
    BY <2>2 DEF T
<1>4. FiledTyped
  <2>1. 0 \in 0 .. MaxRequests /\ 1 .. 0 = {}
    BY PagesAssumption
  <2> QED
    BY <1>1, <1>2, <1>3, <2>1 DEF FiledTyped
<1>5. assistant \in AssistantPage /\ assistant.dialog = None
  BY <1>4, AssistantListIs DEF Pages!Init, Pages!EmptyPage, AssistantPage, APage
<1>6. \A v \in Reviewer : reviewer[v] \in ReviewPage /\ reviewer[v].dialog = None
                          /\ reviewer[v].list = Pages!listRequests
  BY <1>4, ListIs DEF Pages!Init, Pages!EmptyPage, ReviewPage, APage
<1>7. PagesTyped
  <2>1. reviewer = [v \in Reviewer |-> Pages!EmptyPage(Pages!listRequests)]
    BY DEF Pages!Init
  <2> QED
    BY <1>5, <1>6, <2>1 DEF PagesTyped
<1>8. \A v \in Everyone : Pages!Page(v).dialog = None
  BY <1>5, <1>6 DEF Everyone, Pages!Page
<1>9. OrdersTyped /\ OneWaits
  BY <1>1, <1>8 DEF OrdersTyped, OneWaits, Saving, WaitsFor
<1>10. RowsInv
  BY <1>1 DEF RowsInv, StampsInv, DoneInv, AskedInv
<1>11. HonestInv
  <2>1. ASSUME NEW v \in Reviewer PROVE PageHonest(Pages!Page(v))
    <3>1. Pages!Page(v) = reviewer[v]
      BY PagesAssumption DEF Pages!Page
    <3> QED
      BY <1>4, <1>6, <3>1, ListIs DEF PageHonest
  <2> QED
    BY <1>1, <2>1 DEF HonestInv
<1> QED
  BY <1>4, <1>7, <1>9, <1>10, <1>11 DEF AskInv, AskTyped

-----------------------------------------------------------------------------
LEMMA AskTypes ==
  ASSUME AskInv
  PROVE  Pages!TypeOK
<1>1. pagesWorld \in Pages!AllWorlds
  BY PagesAssumption DEF AskInv, AskTyped, FiledTyped
<1>2. ASSUME NEW v \in Pages!Pages
      PROVE  LET saving == Pages!Page(v).dialog # None /\ Pages!Page(v).dialog.stage = "saving"
             IN Pages!Cardinality({o \in order : o.page = v /\ o.waits = "dialog"}) = IF saving THEN 1 ELSE 0
  <2>1. v \in Everyone
    BY PagesAre DEF AskInv, AskTyped
  <2> DEFINE W == WaitsFor(order, v)
  <2>2. Cardinality(W) = IF Saving(Pages!Page(v)) THEN 1 ELSE 0
    <3>1. CASE Saving(Pages!Page(v))
      <4>1. PICK o \in order : W = {o}
        BY <2>1, <3>1 DEF AskInv, AskTyped, OneWaits
      <4> QED
        BY <3>1, <4>1, FS_Singleton
    <3>2. CASE ~Saving(Pages!Page(v))
      <4>1. W = {}
        BY <2>1, <3>2 DEF AskInv, AskTyped, OneWaits
      <4> QED
        BY <3>2, <4>1, FS_EmptySet
    <3> QED
      BY <3>1, <3>2
  <2>3. Pages!Cardinality(W) = Cardinality(W)
    BY PagesCardinality
  <2> QED
    BY <2>2, <2>3 DEF WaitsFor, Saving
<1> QED
  BY <1>1, <1>2 DEF Pages!TypeOK, AskInv, AskTyped, FiledTyped

-----------------------------------------------------------------------------
\* Only an approval approves.
LEMMA ApprovalIs ==
  ASSUME AskInv, [Pages!Next]_(Pages!vars), NEW q \in Pages!Rows, filed[q].status = "PENDING",
         filed'[q].status = "APPROVED"
  PROVE  \E o \in order : o.of = q /\ Pages!approveRequest(o)
<1>0. filed' # filed
  OBVIOUS
<1>1. Pages!carryOut
  <2>1. ~UNCHANGED Pages!vars
    BY <1>0 DEF Pages!vars
  <2> QED
    BY <1>0, <2>1 DEF Pages!Next, Pages!load, Pages!onClose, Pages!close, Pages!setReview,
      Pages!setConfirming, Pages!submit, Pages!openRequest, Pages!handleSubmit, Pages!Send,
      Pages!findSession, Pages!handleError, Pages!setDone, Pages!setError, Pages!giveUp,
      Pages!correctSession, Pages!changeSessionPlan, Pages!deleteSession, Pages!Only,
      Pages!updatePricingPlan
<1>2. PICK o \in order :
        Pages!createRequest(o) \/ Pages!approveRequest(o) \/ Pages!rejectRequest(o)
  BY <1>1 DEF Pages!carryOut
<1>3. FiledTyped /\ q \in Pages!Request /\ filed \in [Pages!Request -> Pages!RequestRow \cup {None}]
  BY DEF AskInv, AskTyped, FiledTyped, Pages!Rows
<1>4. CASE Pages!createRequest(o)
  <2>1. PICK n \in 0 .. MaxRequests : Pages!Rows = 1 .. n /\ Pages!Cardinality(Pages!Rows) = n
    BY <1>3, RowsAre
  <2>2. q # n + 1
    BY <2>1, PagesAssumption
  <2>3. \E u : filed' = [filed EXCEPT ![n + 1] = u]
    BY <1>4, <2>1, Zenon DEF Pages!createRequest
  <2>4. filed'[q] = filed[q]
    BY <1>3, <2>2, <2>3
  <2> QED
    BY <2>4
<1>5. CASE Pages!rejectRequest(o)
  <2>1. filed' = [filed EXCEPT ![o.of].status = "REJECTED"]
    BY <1>5 DEF Pages!rejectRequest
  <2>2. filed[q] \in Pages!RequestRow
    BY <1>3, RowIs
  <2>3. CASE o.of = q
    <3>1. filed'[q] = [filed[q] EXCEPT !.status = "REJECTED"]
      BY <1>3, <2>1, <2>3
    <3>2. filed'[q].status = "REJECTED"
      BY <2>2, <3>1 DEF Pages!RequestRow
    <3> QED
      BY <3>2
  <2>4. CASE o.of # q
    BY <1>3, <2>1, <2>4
  <2> QED
    BY <2>3, <2>4
<1>6. CASE Pages!approveRequest(o)
  <2>1. CASE o.of = q
    BY <1>6, <2>1
  <2>2. CASE o.of # q
    <3>1. \E x : filed' = [filed EXCEPT ![o.of].status = "APPROVED", ![o.of].applied = x]
      BY <1>6, Zenon DEF Pages!approveRequest
    <3>2. filed'[q] = filed[q]
      BY <1>3, <2>2, <3>1
    <3> QED
      BY <3>2
  <2> QED
    BY <2>1, <2>2
<1> QED
  BY <1>2, <1>4, <1>5, <1>6

LEMMA ApprovedIsAsShown ==
  ASSUME AskInv, [Pages!Next]_(Pages!vars)
  PROVE  Pages!ApprovedAsShown
<1> SUFFICES ASSUME NEW o \in order, o.do = "approve", o.read # None,
                    filed[o.of].status = "PENDING", filed'[o.of].status = "APPROVED",
                    o.read.stamp = session[o.shown.session].stamp
             PROVE  /\ session'[o.shown.session].corrected = Pages!newPaid(o.shown)
                    /\ Pages!Repriced(o.shown)
                         \/ session'[o.shown.session].expected = Pages!newAmt(o.shown)
  BY DEF Pages!ApprovedAsShown
<1> DEFINE q == o.of
           r == filed[q]
           s == r.session
           x == o.shown
<1>1. OrderHonest(o) /\ o.of \in Pages!Request
  BY OrderIs DEF AskInv, AskTyped, HonestInv, ReviewOrder
<1>2. /\ r # None /\ x.session = s /\ x.plan = r.plan /\ x.price = r.price /\ x.paid = r.paid
      /\ r.atStamp = session[s].stamp
      /\ x.expected = session[s].expected /\ x.corrected = session[s].corrected
  BY <1>1 DEF OrderHonest, Shows
<1>3. q \in Pages!Rows
  BY <1>1, <1>2 DEF Pages!Rows
<1>4. PICK a \in order : a.of = q /\ Pages!approveRequest(a)
  BY <1>3, ApprovalIs
<1>5. /\ session'[s].corrected = IF r.paid = None THEN session[s].corrected ELSE r.paid
      /\ r.plan # None => session'[s].expected = plan[r.plan].price
      /\ r.plan = None => session'[s].expected = session[s].expected
  <2>1. FiledTyped /\ a.of \in Pages!Rows
    BY <1>3, <1>4 DEF AskInv, AskTyped
  <2>2. LET t == filed[a.of]
            row == session[t.session]
        IN /\ session'[t.session].corrected = IF t.paid = None THEN row.corrected ELSE t.paid
           /\ t.plan # None => session'[t.session].expected = plan[t.plan].price
           /\ t.plan = None => session'[t.session].expected = row.expected
    BY <1>4, <2>1, SessionApproved
  <2> QED
    BY <1>4, <2>2
<1> HIDE DEF q, r, s
<1>6. session'[x.session].corrected = Pages!newPaid(x)
  BY <1>2, <1>5 DEF Pages!newPaid
<1>7. Pages!Repriced(x) \/ session'[x.session].expected = Pages!newAmt(x)
  BY <1>2, <1>5 DEF Pages!Repriced, Pages!newAmt
<1> QED
  BY <1>6, <1>7

-----------------------------------------------------------------------------
\* The pages of the requests keep their types, and a dialog is saving exactly
\* while one order is under way for it.
THEOREM RequestPagesTypes == Pages!Spec => []Pages!TypeOK
<1>1. Pages!Init => AskInv
  BY AskInit
<1>2. AskInv /\ [Pages!Next]_(Pages!vars) => AskInv'
  BY AskStep
<1>3. AskInv => Pages!TypeOK
  BY AskTypes
<1> QED
  BY <1>1, <1>2, <1>3, PTL DEF Pages!Spec

\* The figures and the requests keep their types.
THEOREM MassagePagesTypes == Spec /\ Pages!Spec => []PartsTypeOK
<1>1. TypeOK /\ Pages!TypeOK => PartsTypeOK
  BY DEF PartsTypeOK
<1> QED
  BY <1>1, FiguresStayTyped, RequestPagesTypes, PTL

\* For any sessions, reviewers and plans, whatever is dismissed, sent again or
\* lost: an approval whose check saw the massage as it still is does what the
\* dialog announced, but for the price of a plan repriced since, and a request
\* for what has been approved meanwhile was made for an older row
\* (createRequest, approveRequest).
THEOREM ChangesMadeAsShown == Pages!Spec => ChangesAreMadeAsShown
<1>1. Pages!Init => AskInv
  BY AskInit
<1>2. AskInv /\ [Pages!Next]_(Pages!vars) => AskInv'
  BY AskStep
<1>3. AskInv /\ [Pages!Next]_(Pages!vars) => Pages!ApprovedAsShown
  BY ApprovedIsAsShown
<1>4. AskInv' => Pages!AskedOnce
  BY DEF AskInv, RowsInv, AskedInv, Pages!AskedOnce
<1>5. Pages!Spec => [][Pages!ApprovedAsShown /\ Pages!AskedOnce]_(Pages!vars)
  BY <1>1, <1>2, <1>3, <1>4, PTL DEF Pages!Spec
<1> QED
  BY <1>5 DEF ChangesAreMadeAsShown, Pages!ChangesAreMadeAsShown
=============================================================================
