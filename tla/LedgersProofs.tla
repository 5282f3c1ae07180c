---------------------------- MODULE LedgersProofs ----------------------------
(***************************************************************************)
(* What TLAPS proves of the two ledgers, for every number of tills,        *)
(* requests or calls, staff members and amounts.                           *)
(*                                                                         *)
(* The service: a transaction reads its till under the row lock, the lock  *)
(* keeps every other writer out until the commit, so what was read and     *)
(* checked still holds when the movement is appended (LedgerInv).  Then    *)
(* each append extends the chain of balances, and is a step that           *)
(* TillAccounts allows.                                                    *)
(*                                                                         *)
(* The ledger of the tests: no movement is beyond those that are counted,  *)
(* and a call that waits keeps what its method checked before the lock     *)
(* (TwinInv); what it plans behind the lock is then a step that            *)
(* TillAccounts allows, and adds to what the session or the shift has paid *)
(* (a sum over all movements) just what is missing.                        *)
(***************************************************************************)
EXTENDS Ledgers, FiniteSetTheorems, SequenceTheorems, WellFoundedInduction, TLAPS

(***************************************************************************)
(* The inductive invariant.  BalanceChains alone is not inductive: it does *)
(* not say that the balance a request carries to its commit is current.    *)
(***************************************************************************)
LedgerInv ==
  /\ TypeOK
  /\ ReadStaysFresh
  /\ RequestsInFlight
  /\ BalanceChains
  /\ WithdrawalsCovered
  /\ OpeningComesFirst

-----------------------------------------------------------------------------
(***************************************************************************)
(* Every handler that accepts a request begins one sound operation: the    *)
(* amounts have the sign of their kind, a reversal the sign opposite to    *)
(* the movement it undoes.                                                 *)
(***************************************************************************)
LEMMA AcceptBeginsSound ==
  ASSUME TypeOK, NEW r \in Request, Accept(r)
  PROVE  \E o \in Operation : SoundRequest(o) /\ Begin(r, o)
<1>1. CASE creditManualIncome(r)
  <2>1. PICK t \in Till, a \in Amount :
          Begin(r, Asked("MANUAL_INCOME", t, a, 0, NoOne))
    BY <1>1 DEF creditManualIncome
  <2>2. Asked("MANUAL_INCOME", t, a, 0, NoOne) \in Operation /\ SoundRequest(Asked("MANUAL_INCOME", t, a, 0, NoOne))
    BY AmountAssumption DEF SoundRequest, Asked, Operation, MovementType
  <2> QED BY <2>1, <2>2
<1>2. CASE withdraw(r)
  <2>1. PICK t \in Till, a \in Amount :
          Begin(r, Asked("WITHDRAWAL", t, -a, 0, NoOne))
    BY <1>2 DEF withdraw
  <2>2. Asked("WITHDRAWAL", t, -a, 0, NoOne) \in Operation /\ SoundRequest(Asked("WITHDRAWAL", t, -a, 0, NoOne))
    BY AmountAssumption DEF SoundRequest, Asked, Operation, MovementType
  <2> QED BY <2>1, <2>2
<1>3. CASE adjust(r)
  <2>1. PICK t \in Till, d \in Desired :
          Begin(r, Asked("ADMIN_ADJUSTMENT", t, d, 0, NoOne))
    BY <1>3 DEF adjust
  <2>2. Asked("ADMIN_ADJUSTMENT", t, d, 0, NoOne) \in Operation /\ SoundRequest(Asked("ADMIN_ADJUSTMENT", t, d, 0, NoOne))
    BY DesiredAssumption DEF SoundRequest, Asked, Operation, MovementType
  <2> QED BY <2>1, <2>2
<1>4. CASE setInitialBalance(r)
  <2>1. PICK t \in Till, c \in Counted :
          Begin(r, Asked("INITIAL_BALANCE", t, c, 0, NoOne))
    BY <1>4 DEF setInitialBalance
  <2>2. Asked("INITIAL_BALANCE", t, c, 0, NoOne) \in Operation /\ SoundRequest(Asked("INITIAL_BALANCE", t, c, 0, NoOne))
    BY CountedAssumption DEF SoundRequest, Asked, Operation, MovementType
  <2> QED BY <2>1, <2>2
<1>5. CASE reverse(r)
  <2>1. PICK t \in Till : \E i \in 1..Len(movements[t]) :
          /\ movements[t][i].type # "REVERSAL"
          /\ Begin(r, Asked("REVERSAL", t, -movements[t][i].amount, i, NoOne))
    BY <1>5 DEF reverse
  <2>0. PICK i \in 1..Len(movements[t]) :
          /\ movements[t][i].type # "REVERSAL"
          /\ Begin(r, Asked("REVERSAL", t, -movements[t][i].amount, i, NoOne))
    BY <2>1
  <2>2. movements[t] \in Seq(Movement) /\ i \in Nat
    BY DEF TypeOK
  <2>5. movements[t][i] \in Movement
    BY <2>2
  <2>3. movements[t][i].amount \in Int
    BY <2>5 DEF Movement
  <2>4. Asked("REVERSAL", t, -movements[t][i].amount, i, NoOne) \in Operation /\ SoundRequest(Asked("REVERSAL", t, -movements[t][i].amount, i, NoOne))
    BY <2>0, <2>2, <2>3 DEF SoundRequest, Asked, Operation, MovementType
  <2> QED BY <2>0, <2>4
<1>6. CASE setCashAccountAssignment(r)
  <2>1. PICK t \in Till, s \in Staff \cup {NoOne} :
          Begin(r, Asked("ASSIGNMENT", t, 0, 0, s))
    BY <1>6 DEF setCashAccountAssignment
  <2>2. Asked("ASSIGNMENT", t, 0, 0, s) \in Operation /\ SoundRequest(Asked("ASSIGNMENT", t, 0, 0, s))
    BY DEF SoundRequest, Asked, Operation, MovementType
  <2> QED BY <2>1, <2>2
<1> QED BY <1>1, <1>2, <1>3, <1>4, <1>5, <1>6 DEF Accept

-----------------------------------------------------------------------------
(***************************************************************************)
(* Releasing a transaction keeps the types, whoever releases it.           *)
(***************************************************************************)
LEMMA EndKeepsTypes ==
  ASSUME TypeOK, NEW r \in Request, End(r)
  PROVE  /\ lock' \in [Till -> Request \cup {NoOne}]
         /\ pc' \in [Request -> Phase]
         /\ op' \in [Request -> Operation \cup {Idle}]
         /\ seen' \in [Request -> Int]
         /\ \A q \in Request : pc'[q] # "idle" => op'[q] \in Operation
BY DEF TypeOK, End, Phase

(***************************************************************************)
(* The amount to be posted is a whole number, and the movement is typed.   *)
(***************************************************************************)
LEMMA PlannedAmountType ==
  ASSUME TypeOK, NEW r \in Request, pc[r] # "idle"
  PROVE  PlannedAmount(r) \in Int /\ op[r] \in Operation /\ op[r].till \in Till
<1>1. op[r] \in Operation /\ seen[r] \in Int
  BY DEF TypeOK
<1>2. op[r].amount \in Int /\ op[r].till \in Till
  BY <1>1 DEF Operation
<1> QED BY <1>1, <1>2 DEF PlannedAmount

(***************************************************************************)
(* Every step keeps the types of the rows and of the requests in flight.   *)
(***************************************************************************)
LEMMA TypeStep == TypeOK /\ [Next]_vars => TypeOK'
<1> SUFFICES ASSUME TypeOK, [Next]_vars PROVE TypeOK'
  OBVIOUS
<1>1. ASSUME NEW r \in Request, NEW o \in Operation, Begin(r, o)
      PROVE  TypeOK'
  BY <1>1 DEF TypeOK, Begin, Phase
<1>2. ASSUME NEW r \in Request, Accept(r)
      PROVE  TypeOK'
  BY <1>1, <1>2, AcceptBeginsSound
<1>3. ASSUME NEW r \in Request, lockAccount(r)
      PROVE  TypeOK'
  BY <1>3 DEF TypeOK, lockAccount, Phase
<1>4. ASSUME NEW r \in Request, ReadFresh(r)
      PROVE  TypeOK'
  <2>1. op[r].till \in Till
    BY <1>4, PlannedAmountType DEF ReadFresh
  <2>2. balance[op[r].till] \in Int
    BY <2>1 DEF TypeOK
  <2> QED BY <1>4, <2>2 DEF TypeOK, ReadFresh, Phase
<1>5. ASSUME NEW r \in Request, postMovementInTx(r)
      PROVE  TypeOK'
  <2> DEFINE t == op[r].till
             m == [type |-> op[r].type, amount |-> PlannedAmount(r),
                   before |-> seen[r], after |-> seen[r] + PlannedAmount(r),
                   reverses |-> op[r].reverses]
  <2>1. op[r] \in Operation /\ PlannedAmount(r) \in Int /\ t \in Till
    BY <1>5, PlannedAmountType DEF postMovementInTx
  <2>2. seen[r] \in Int /\ op[r].reverses \in Nat
    BY <2>1 DEF TypeOK, Operation
  <2>3. m \in Movement
    BY <1>5, <2>1, <2>2 DEF postMovementInTx, Movement
  <2>4. Append(movements[t], m) \in Seq(Movement)
    BY <2>1, <2>3 DEF TypeOK
  <2>5. movements' \in [Till -> Seq(Movement)]
    BY <1>5, <2>4 DEF TypeOK, postMovementInTx
  <2>6. balance' \in [Till -> Int]
    BY <1>5, <2>1, <2>2 DEF TypeOK, postMovementInTx
  <2>7. tracking' \in [Till -> BOOLEAN] /\ holder' \in [Till -> Staff \cup {NoOne}]
    BY <1>5 DEF TypeOK, postMovementInTx
  <2>8. End(r)
    BY <1>5 DEF postMovementInTx
  <2> QED BY <2>5, <2>6, <2>7, <2>8, EndKeepsTypes DEF TypeOK
<1>6. ASSUME NEW r \in Request, CommitAssignment(r)
      PROVE  TypeOK'
  <2>1. op[r] \in Operation /\ End(r)
    BY <1>6, PlannedAmountType DEF CommitAssignment
  <2>2. op[r].staff \in Staff \cup {NoOne}
    BY <2>1 DEF Operation
  <2>3. holder' \in [Till -> Staff \cup {NoOne}]
    BY <1>6, <2>2 DEF TypeOK, CommitAssignment
  <2> QED BY <1>6, <2>1, <2>3, EndKeepsTypes DEF TypeOK, CommitAssignment
<1>7. ASSUME NEW r \in Request, Rollback(r)
      PROVE  TypeOK'
  BY <1>7, EndKeepsTypes DEF TypeOK, Rollback
<1>8. CASE UNCHANGED vars
  BY <1>8 DEF TypeOK, vars
<1> QED BY <1>2, <1>3, <1>4, <1>5, <1>6, <1>7, <1>8 DEF Next, Finish

-----------------------------------------------------------------------------
(***************************************************************************)
(* The row lock excludes: two transactions past lockAccount work on two    *)
(* different tills.                                                        *)
(***************************************************************************)
LEMMA LockExcludes ==
  ASSUME ReadStaysFresh, NEW q \in Request, NEW r \in Request, q # r,
         pc[q] \in {"locked", "read"}, pc[r] \in {"locked", "read"}
  PROVE  op[q].till # op[r].till
BY DEF ReadStaysFresh

(***************************************************************************)
(* The two facts a commit hands on: what one step of each kind leaves of   *)
(* the guarantee that a read under the lock stays fresh.                   *)
(***************************************************************************)
LEMMA FreshStep == TypeOK /\ ReadStaysFresh /\ [Next]_vars => ReadStaysFresh'
<1> SUFFICES ASSUME TypeOK, ReadStaysFresh, [Next]_vars,
                    NEW q \in Request
             PROVE  /\ pc'[q] \in {"locked", "read"} => lock'[op'[q].till] = q
                    /\ pc'[q] = "read" => seen'[q] = balance'[op'[q].till]
  BY DEF ReadStaysFresh
<1> DEFINE Goal == /\ pc'[q] \in {"locked", "read"} => lock'[op'[q].till] = q
                   /\ pc'[q] = "read" => seen'[q] = balance'[op'[q].till]
<1>1. ASSUME NEW r \in Request, Accept(r)
      PROVE  Goal
  <2>1. PICK o \in Operation : Begin(r, o)
    BY <1>1, AcceptBeginsSound
  <2> QED BY <2>1 DEF TypeOK, ReadStaysFresh, Begin
<1>2. ASSUME NEW r \in Request, lockAccount(r)
      PROVE  Goal
  <2>1. op[r].till \in Till
    BY <1>2, PlannedAmountType DEF lockAccount
  <2>2. lock[op[r].till] = NoOne /\ q # NoOne
    BY <1>2, NoOneAssumption DEF lockAccount, LockFree
  <2> QED BY <1>2, <2>1, <2>2 DEF TypeOK, ReadStaysFresh, lockAccount
<1>3. ASSUME NEW r \in Request, ReadFresh(r)
      PROVE  Goal
  BY <1>3 DEF TypeOK, ReadStaysFresh, ReadFresh
<1>4. ASSUME NEW r \in Request, End(r),
             balance' = balance \/ ( /\ pc[r] = "read"
                                     /\ \E b : balance' = [balance EXCEPT ![op[r].till] = b])
      PROVE  Goal
  <2>1. CASE q = r
    BY <1>4, <2>1 DEF TypeOK, End
  <2>2. CASE q # r /\ pc[q] \in {"locked", "read"}
    <3>1. pc'[q] = pc[q] /\ op'[q] = op[q] /\ seen'[q] = seen[q]
      BY <1>4, <2>2 DEF TypeOK, End
    <3>2. op[q].till \in Till /\ lock[op[q].till] = q
      BY <2>2, PlannedAmountType DEF ReadStaysFresh
    <3>3. lock'[op[q].till] = q
      BY <1>4, <2>2, <3>2 DEF End
    <3>4. balance'[op[q].till] = balance[op[q].till]
      BY <1>4, <2>2, <3>2, LockExcludes DEF TypeOK
    <3> QED BY <3>1, <3>3, <3>4 DEF ReadStaysFresh
  <2>3. CASE q # r /\ pc[q] \notin {"locked", "read"}
    BY <1>4, <2>3 DEF TypeOK, End
  <2> QED BY <2>1, <2>2, <2>3
<1>5. ASSUME NEW r \in Request, Finish(r)
      PROVE  Goal
  BY <1>4, <1>5 DEF Finish, postMovementInTx, CommitAssignment, Rollback
<1>6. CASE UNCHANGED vars
  BY <1>6 DEF ReadStaysFresh, vars
<1> QED BY <1>1, <1>2, <1>3, <1>5, <1>6 DEF Next

-----------------------------------------------------------------------------
(***************************************************************************)
(* Movements are only ever appended, so what a request found in the ledger *)
(* stays there.                                                            *)
(***************************************************************************)
Appends(t, m) == movements' = [movements EXCEPT ![t] = Append(@, m)]

LEMMA SoundRequestStable ==
  ASSUME TypeOK, NEW o \in Operation, SoundRequest(o),
         NEW t \in Till, NEW m \in Movement, Appends(t, m)
  PROVE  SoundRequest(o)'
<1>1. o.till \in Till
  BY DEF Operation
<1>2. movements[o.till] \in Seq(Movement) /\ movements[t] \in Seq(Movement)
  BY <1>1 DEF TypeOK
<1>3. Len(movements[o.till]) <= Len(movements'[o.till])
  BY <1>1, <1>2 DEF TypeOK, Appends
<1>4. \A i \in 1..Len(movements[o.till]) : movements'[o.till][i] = movements[o.till][i]
  BY <1>1, <1>2 DEF TypeOK, Appends
<1> QED BY <1>2, <1>3, <1>4 DEF SoundRequest

(***************************************************************************)
(* The movement a commit appends: typed, starting from the balance the     *)
(* till shows, and leaving the balance the till is set to.                 *)
(***************************************************************************)
Posted(r) ==
  [type |-> op[r].type, amount |-> PlannedAmount(r), before |-> seen[r],
   after |-> seen[r] + PlannedAmount(r), reverses |-> op[r].reverses]

LEMMA PostAppends ==
  ASSUME TypeOK, ReadStaysFresh, NEW r \in Request, postMovementInTx(r)
  PROVE  /\ op[r] \in Operation /\ op[r].till \in Till
         /\ Posted(r) \in Movement
         /\ Appends(op[r].till, Posted(r))
         /\ balance' = [balance EXCEPT ![op[r].till] = Posted(r).after]
         /\ Posted(r).before = balance[op[r].till]
         /\ Posted(r).after = Posted(r).before + Posted(r).amount
         /\ End(r)
<1>1. op[r] \in Operation /\ op[r].till \in Till /\ PlannedAmount(r) \in Int
  BY PlannedAmountType DEF postMovementInTx
<1>2. seen[r] \in Int /\ op[r].reverses \in Nat /\ op[r].type \in MovementType
  BY <1>1 DEF TypeOK, Operation, postMovementInTx
<1>3. Posted(r) \in Movement
  BY <1>1, <1>2 DEF Posted, Movement
<1>4. Appends(op[r].till, Posted(r)) /\ End(r)
  BY DEF Appends, Posted, postMovementInTx
<1>5. Posted(r).before = balance[op[r].till]
  BY DEF ReadStaysFresh, Posted, postMovementInTx
<1>6. balance' = [balance EXCEPT ![op[r].till] = Posted(r).after]
  BY DEF Posted, postMovementInTx
<1> QED BY <1>1, <1>3, <1>4, <1>5, <1>6 DEF Posted

(***************************************************************************)
(* A commit is the only step that touches the balances and the movements.  *)
(***************************************************************************)
LEMMA OnlyCommitsPost ==
  ASSUME [Next]_vars
  PROVE  \/ UNCHANGED <<balance, movements, tracking>>
         \/ \E r \in Request : postMovementInTx(r)
BY DEF Next, vars, Accept, creditManualIncome, withdraw, adjust, setInitialBalance,
       reverse, setCashAccountAssignment, Begin, lockAccount, ReadFresh, Finish,
       CommitAssignment, Rollback

-----------------------------------------------------------------------------
(***************************************************************************)
(* What a request relies on is preserved by every step.                    *)
(***************************************************************************)
LEMMA InFlightStep ==
  TypeOK /\ ReadStaysFresh /\ RequestsInFlight /\ [Next]_vars => RequestsInFlight'
<1> SUFFICES ASSUME TypeOK, ReadStaysFresh, RequestsInFlight, [Next]_vars,
                    NEW q \in Request
             PROVE  /\ pc'[q] # "idle" => SoundRequest(op[q])'
                    /\ pc'[q] = "read" => ChecksStillHold(q)'
  BY DEF RequestsInFlight
<1> DEFINE Goal == /\ pc'[q] # "idle" => SoundRequest(op[q])'
                   /\ pc'[q] = "read" => ChecksStillHold(q)'
<1>1. ASSUME NEW r \in Request, Accept(r)
      PROVE  Goal
  <2>1. PICK o \in Operation : SoundRequest(o) /\ Begin(r, o)
    BY <1>1, AcceptBeginsSound
  <2>2. CASE q = r
    BY <2>1, <2>2 DEF TypeOK, Begin, SoundRequest
  <2>3. CASE q # r
    BY <2>1, <2>3 DEF TypeOK, RequestsInFlight, Begin, SoundRequest, ChecksStillHold
  <2> QED BY <2>2, <2>3
<1>2. ASSUME NEW r \in Request, lockAccount(r)
      PROVE  Goal
  BY <1>2 DEF TypeOK, RequestsInFlight, lockAccount, SoundRequest, ChecksStillHold
<1>3. ASSUME NEW r \in Request, ReadFresh(r)
      PROVE  Goal
  <2>1. SoundRequest(op[q])' <=> SoundRequest(op[q])
    BY <1>3 DEF ReadFresh, SoundRequest
  <2>2. CASE q = r
    <3>1. op[r] \in Operation /\ op[r].till \in Till
      BY <1>3, PlannedAmountType DEF ReadFresh
    <3>2. balance[op[r].till] \in Int /\ op[r].amount \in Int
      BY <3>1 DEF TypeOK, Operation
    <3>3. seen'[r] = balance[op[r].till] /\ op' = op /\ movements' = movements
      BY <1>3 DEF TypeOK, ReadFresh
    <3>4. Accepted(op[r])
      BY <1>3 DEF ReadFresh
    <3>5. ChecksStillHold(r)'
      BY <3>2, <3>3, <3>4 DEF ChecksStillHold, Accepted, assertWithdrawAmount,
                             planAdjustment, planInitialBalance
    <3> QED BY <1>3, <2>1, <2>2, <3>5 DEF RequestsInFlight, ReadFresh
  <2>3. CASE q # r
    BY <1>3, <2>1, <2>3 DEF TypeOK, RequestsInFlight, ReadFresh, ChecksStillHold
  <2> QED BY <2>2, <2>3
<1>4. ASSUME NEW r \in Request, postMovementInTx(r)
      PROVE  Goal
  <2>1. CASE q = r
    BY <1>4, <2>1 DEF TypeOK, postMovementInTx, End
  <2>2. CASE q # r /\ pc[q] # "idle"
    <3>1. pc'[q] = pc[q] /\ op'[q] = op[q] /\ seen'[q] = seen[q]
      BY <1>4, <2>2 DEF TypeOK, postMovementInTx, End
    <3>2. op[q] \in Operation /\ SoundRequest(op[q])
      BY <2>2 DEF TypeOK, RequestsInFlight
    <3>3. SoundRequest(op[q])'
      <4>1. \A o \in Operation : SoundRequest(o) => SoundRequest(o)'
        BY <1>4, PostAppends, SoundRequestStable
      <4> QED BY <3>1, <3>2, <4>1 DEF SoundRequest
    <3>4. pc[q] = "read" => movements'[op[q].till] = movements[op[q].till]
      <4>1. pc[q] = "read" => op[q].till # op[r].till
        BY <1>4, <2>2, LockExcludes DEF postMovementInTx
      <4> QED BY <1>4, <3>2, <4>1 DEF TypeOK, Operation, postMovementInTx
    <3> QED BY <3>1, <3>3, <3>4 DEF RequestsInFlight, ChecksStillHold
  <2>3. CASE q # r /\ pc[q] = "idle"
    BY <1>4, <2>3 DEF TypeOK, postMovementInTx, End
  <2> QED BY <2>1, <2>2, <2>3
<1>5. ASSUME NEW r \in Request, CommitAssignment(r) \/ Rollback(r)
      PROVE  Goal
  BY <1>5 DEF TypeOK, RequestsInFlight, CommitAssignment, Rollback, End,
              SoundRequest, ChecksStillHold
<1>6. CASE UNCHANGED vars
  BY <1>6 DEF RequestsInFlight, SoundRequest, ChecksStillHold, vars
<1> QED BY <1>1, <1>2, <1>3, <1>4, <1>5, <1>6 DEF Next, Finish

-----------------------------------------------------------------------------
(***************************************************************************)
(* One commit extends the chain of balances of its till by one link.       *)
(***************************************************************************)
LEMMA ChainStep ==
  TypeOK /\ ReadStaysFresh /\ BalanceChains /\ [Next]_vars => BalanceChains'
<1> SUFFICES ASSUME TypeOK, ReadStaysFresh, BalanceChains,
                    NEW r \in Request, postMovementInTx(r)
             PROVE  BalanceChains'
  BY OnlyCommitsPost DEF BalanceChains, BalanceBefore
<1>1. PICK t \in Till, m \in Movement :
        /\ Appends(t, m)
        /\ balance' = [balance EXCEPT ![t] = m.after]
        /\ m.before = balance[t] /\ m.after = m.before + m.amount
  BY PostAppends
<1> SUFFICES ASSUME NEW u \in Till
             PROVE  /\ \A i \in 1..Len(movements'[u]) :
                         /\ movements'[u][i].before = BalanceBefore(u, i)'
                         /\ movements'[u][i].after =
                              movements'[u][i].before + movements'[u][i].amount
                    /\ balance'[u] = BalanceBefore(u, Len(movements[u]) + 1)'
  BY DEF BalanceChains
<1>2. movements[u] \in Seq(Movement) /\ movements[t] \in Seq(Movement)
  BY <1>1 DEF TypeOK
<1>3. CASE u # t
  <2>1. movements'[u] = movements[u] /\ balance'[u] = balance[u]
    BY <1>1, <1>3 DEF TypeOK, Appends
  <2> QED BY <2>1 DEF BalanceChains, BalanceBefore
<1>4. CASE u = t
  <2>1. /\ movements'[t] = Append(movements[t], m)
        /\ balance'[t] = m.after
    BY <1>1 DEF TypeOK, Appends
  <2>2. /\ Len(movements'[t]) = Len(movements[t]) + 1
        /\ movements'[t][Len(movements[t]) + 1] = m
        /\ \A i \in 1..Len(movements[t]) : movements'[t][i] = movements[t][i]
    BY <1>2, <2>1
  <2>3. Len(movements[t]) \in Nat
    BY <1>2
  <2>4. \A i \in 1..Len(movements[t]) + 1 : BalanceBefore(t, i)' = BalanceBefore(t, i)
    BY <2>2, <2>3 DEF BalanceBefore
  <2>5. balance'[t] = BalanceBefore(t, Len(movements[t]) + 1)'
    <3>1. Len(movements'[t]) + 1 # 1 /\ (Len(movements'[t]) + 1) - 1 = Len(movements[t]) + 1
      BY <2>2, <2>3
    <3> QED BY <2>1, <2>2, <3>1 DEF BalanceBefore
  <2>6. ASSUME NEW i \in 1..Len(movements'[t])
        PROVE  /\ movements'[t][i].before = BalanceBefore(t, i)'
               /\ movements'[t][i].after =
                    movements'[t][i].before + movements'[t][i].amount
    <3>1. CASE i \in 1..Len(movements[t])
      BY <1>1, <2>2, <2>3, <2>4, <3>1 DEF BalanceChains
    <3>2. CASE i = Len(movements[t]) + 1
      BY <1>1, <2>2, <2>3, <2>4, <3>2 DEF BalanceChains
    <3> QED BY <2>2, <2>3, <3>1, <3>2
  <2> QED BY <1>4, <2>5, <2>6
<1> QED BY <1>3, <1>4

(***************************************************************************)
(* One commit keeps every rule that speaks of single movements: the last   *)
(* one obeys it because its checks still held, the others are untouched.   *)
(***************************************************************************)
LEMMA RulesStep ==
  /\ TypeOK /\ ReadStaysFresh /\ RequestsInFlight
  /\ WithdrawalsCovered /\ OpeningComesFirst /\ [Next]_vars
  => WithdrawalsCovered' /\ OpeningComesFirst'
<1> SUFFICES ASSUME TypeOK, ReadStaysFresh, RequestsInFlight, WithdrawalsCovered,
                    OpeningComesFirst, NEW r \in Request, postMovementInTx(r)
             PROVE  WithdrawalsCovered' /\ OpeningComesFirst'
  BY OnlyCommitsPost DEF WithdrawalsCovered, OpeningComesFirst
<1> DEFINE t == op[r].till
           m == Posted(r)
<1>1. /\ t \in Till /\ m \in Movement /\ Appends(t, m)
      /\ m.type = op[r].type /\ m.after = seen[r] + PlannedAmount(r)
  BY PostAppends DEF Posted
<1>2. ChecksStillHold(r) /\ pc[r] = "read"
  BY DEF RequestsInFlight, postMovementInTx
<1>3. m.type = "WITHDRAWAL" => m.after >= 0
  BY <1>1, <1>2 DEF ChecksStillHold, PlannedAmount
<1>4. m.type = "INITIAL_BALANCE" => movements[t] = << >>
  BY <1>1, <1>2 DEF ChecksStillHold
<1>5. tracking' = [tracking EXCEPT ![t] = @ \/ m.type = "INITIAL_BALANCE"]
  BY <1>1 DEF postMovementInTx
<1> HIDE DEF m
<1>6. movements[t] \in Seq(Movement)
  BY <1>1 DEF TypeOK
<1>7. /\ Len(movements'[t]) = Len(movements[t]) + 1
      /\ movements'[t][Len(movements[t]) + 1] = m
      /\ \A i \in 1..Len(movements[t]) : movements'[t][i] = movements[t][i]
  BY <1>1, <1>6 DEF TypeOK, Appends
<1>8. Len(movements[t]) \in Nat
  BY <1>6
<1>9. \A u \in Till \ {t} : movements'[u] = movements[u] /\ tracking'[u] = tracking[u]
  BY <1>1, <1>5 DEF TypeOK, Appends
<1>10. WithdrawalsCovered'
  <2> SUFFICES ASSUME NEW u \in Till, NEW i \in 1..Len(movements'[u]),
                      movements'[u][i].type = "WITHDRAWAL"
               PROVE  movements'[u][i].after >= 0
    BY DEF WithdrawalsCovered
  <2>1. CASE u # t
    BY <1>9, <2>1 DEF WithdrawalsCovered
  <2>2. CASE u = t /\ i \in 1..Len(movements[t])
    BY <1>1, <1>7, <2>2 DEF WithdrawalsCovered
  <2>3. CASE u = t /\ i = Len(movements[t]) + 1
    BY <1>3, <1>7, <2>3
  <2> QED BY <1>7, <1>8, <2>1, <2>2, <2>3
<1>11. OpeningComesFirst'
  <2> SUFFICES ASSUME NEW u \in Till
               PROVE  /\ \A i \in 1..Len(movements'[u]) :
                           movements'[u][i].type = "INITIAL_BALANCE" => i = 1
                      /\ tracking'[u] <=> /\ movements'[u] # << >>
                                          /\ movements'[u][1].type = "INITIAL_BALANCE"
    BY DEF OpeningComesFirst
  <2>1. CASE u # t
    BY <1>9, <2>1 DEF OpeningComesFirst
  <2>2. CASE u = t /\ movements[t] = << >>
    <3>1. Len(movements'[t]) = 1 /\ movements'[t][1] = m /\ movements'[t] # << >>
      BY <1>7, <2>2
    <3>2. tracking[t] = FALSE
      BY <1>1, <2>2 DEF OpeningComesFirst, TypeOK
    <3>3. tracking'[t] <=> m.type = "INITIAL_BALANCE"
      BY <1>1, <1>5, <3>2 DEF TypeOK
    <3> QED BY <2>2, <3>1, <3>3
  <2>3. CASE u = t /\ movements[t] # << >>
    <3>1. m.type # "INITIAL_BALANCE"
      BY <1>4, <2>3
    <3>2. 1 \in 1..Len(movements[t])
      BY <1>6, <2>3
    <3>3. movements'[t] # << >> /\ movements'[t][1] = movements[t][1]
      BY <1>7, <1>8, <3>2
    <3>4. tracking'[t] = tracking[t]
      BY <1>1, <1>5, <3>1 DEF TypeOK
    <3>5. \A i \in 1..Len(movements'[t]) :
             movements'[t][i].type = "INITIAL_BALANCE" => i = 1
      <4>1. \A i \in 1..Len(movements[t]) :
               movements'[t][i].type = "INITIAL_BALANCE" => i = 1
        BY <1>1, <1>7 DEF OpeningComesFirst
      <4>2. \A i \in 1..Len(movements'[t]) :
               i \in 1..Len(movements[t]) \/ i = Len(movements[t]) + 1
        BY <1>7, <1>8
      <4> QED BY <1>7, <3>1, <4>1, <4>2
    <3> QED BY <1>1, <2>3, <3>3, <3>4, <3>5 DEF OpeningComesFirst
  <2> QED BY <2>1, <2>2, <2>3
<1> QED BY <1>10, <1>11

-----------------------------------------------------------------------------
(***************************************************************************)
(* LedgerInv is an inductive invariant of the ledger.                      *)
(***************************************************************************)
LEMMA LedgerInvInit == Init => LedgerInv
<1> SUFFICES ASSUME Init PROVE LedgerInv
  OBVIOUS
<1>1. TypeOK
  BY DEF Init, TypeOK, Phase
<1>2. ReadStaysFresh /\ RequestsInFlight
  BY DEF Init, ReadStaysFresh, RequestsInFlight
<1>3. BalanceChains /\ WithdrawalsCovered /\ OpeningComesFirst
  BY DEF Init, BalanceChains, BalanceBefore, WithdrawalsCovered, OpeningComesFirst
<1> QED BY <1>1, <1>2, <1>3 DEF LedgerInv

LEMMA LedgerInvStep == LedgerInv /\ [Next]_vars => LedgerInv'
BY TypeStep, FreshStep, InFlightStep, ChainStep, RulesStep DEF LedgerInv

THEOREM LedgerInvariant == Spec => []LedgerInv
BY LedgerInvInit, LedgerInvStep, PTL DEF Spec

(***************************************************************************)
(* The rows of the ledger and the requests in flight keep their types.     *)
(***************************************************************************)
THEOREM TypeCorrect == Spec => []TypeOK
<1>1. LedgerInv => TypeOK
  BY DEF LedgerInv
<1> QED BY <1>1, LedgerInvariant, PTL

(***************************************************************************)
(* postMovementInTx never works from a stale balance.                      *)
(***************************************************************************)
THEOREM NoStaleBalance == Spec => []ReadStaysFresh
<1>1. LedgerInv => ReadStaysFresh
  BY DEF LedgerInv
<1> QED BY <1>1, LedgerInvariant, PTL

(***************************************************************************)
(* No interleaving of requests breaks the chain of balances of a till.     *)
(***************************************************************************)
THEOREM ChainUnbroken == Spec => []BalanceChains
<1>1. LedgerInv => BalanceChains
  BY DEF LedgerInv
<1> QED BY <1>1, LedgerInvariant, PTL

(***************************************************************************)
(* No withdrawal overdraws a till.                                         *)
(***************************************************************************)
THEOREM NoOverdraft == Spec => []WithdrawalsCovered
<1>1. LedgerInv => WithdrawalsCovered
  BY DEF LedgerInv
<1> QED BY <1>1, LedgerInvariant, PTL

(***************************************************************************)
(* A till is opened at most once, before anything else, and is tracked     *)
(* from then on.                                                           *)
(***************************************************************************)
THEOREM OpenedOnceFirst == Spec => []OpeningComesFirst
<1>1. LedgerInv => OpeningComesFirst
  BY DEF LedgerInv
<1> QED BY <1>1, LedgerInvariant, PTL

-----------------------------------------------------------------------------
(***************************************************************************)
(* Two assignments of one staff member may run at the same time under the  *)
(* locks of two tills; the unique index lets one of them commit.           *)
(***************************************************************************)
LEMMA OneTillStep == TypeOK /\ OneTillPerStaff /\ [Next]_vars => OneTillPerStaff'
<1> SUFFICES ASSUME TypeOK, OneTillPerStaff, [Next]_vars PROVE OneTillPerStaff'
  OBVIOUS
<1>1. ASSUME NEW r \in Request, CommitAssignment(r)
      PROVE  OneTillPerStaff'
  <2>1. op[r].till \in Till
    BY <1>1, PlannedAmountType DEF CommitAssignment
  <2>2. /\ holder' = [holder EXCEPT ![op[r].till] = op[r].staff]
        /\ op[r].staff # NoOne => \A u \in Till \ {op[r].till} : holder[u] # op[r].staff
    BY <1>1 DEF CommitAssignment, UniqueActiveStaff
  <2> QED BY <2>1, <2>2 DEF TypeOK, OneTillPerStaff
<1>2. CASE holder' = holder
  BY <1>2 DEF OneTillPerStaff
<1> QED
  BY <1>1, <1>2 DEF Next, vars, Accept, creditManualIncome, withdraw, adjust,
     setInitialBalance, reverse, setCashAccountAssignment, Begin, lockAccount,
     ReadFresh, Finish, postMovementInTx, Rollback

THEOREM OneTillEach == Spec => []OneTillPerStaff
<1>1. Init => OneTillPerStaff
  BY DEF Init, OneTillPerStaff
<1>2. TypeOK /\ TypeOK' /\ OneTillPerStaff /\ [Next]_vars => OneTillPerStaff'
  BY OneTillStep
<1> QED BY <1>1, <1>2, TypeCorrect, PTL DEF Spec

(***************************************************************************)
(* All that an owner reads off the tills at once.                          *)
(***************************************************************************)
THEOREM SoundTills == Spec => []TillsAreSound
<1>1. BalanceChains /\ WithdrawalsCovered /\ OpeningComesFirst /\ OneTillPerStaff
      => TillsAreSound
  BY DEF TillsAreSound
<1> QED
  BY <1>1, ChainUnbroken, NoOverdraft, OpenedOnceFirst, OneTillEach, PTL

-----------------------------------------------------------------------------
(***************************************************************************)
(* Refinement: every commit is one indivisible movement of TillAccounts,   *)
(* every other step leaves the tills as they are.                          *)
(***************************************************************************)
LEMMA CommitIsOnePost ==
  ASSUME LedgerInv, NEW r \in Request, postMovementInTx(r)
  PROVE  Tills!TillsNext
<1> DEFINE t == op[r].till
           m == Posted(r)
           e == movements'[t][Len(movements'[t])]
<1>1. /\ TypeOK /\ ReadStaysFresh
      /\ pc[r] = "read" /\ SoundRequest(op[r]) /\ ChecksStillHold(r)
  BY DEF LedgerInv, RequestsInFlight, postMovementInTx
<1>2. /\ op[r] \in Operation /\ t \in Till /\ m \in Movement /\ Appends(t, m)
      /\ balance' = [balance EXCEPT ![t] = m.after]
      /\ m.before = balance[t] /\ m.after = m.before + m.amount
  BY <1>1, PostAppends
<1>3. /\ m.type = op[r].type /\ m.amount = PlannedAmount(r)
      /\ m.before = seen[r] /\ m.reverses = op[r].reverses
  BY DEF Posted
<1>4. op[r].amount \in Int /\ seen[r] \in Int /\ m.type \in MovementType
  BY <1>1, <1>2, <1>3 DEF TypeOK, Operation, postMovementInTx
<1> HIDE DEF m
<1>5. movements[t] \in Seq(Movement) /\ movements' = [movements EXCEPT ![t] = Append(@, m)]
  BY <1>1, <1>2 DEF TypeOK, Appends
<1>6. e = m /\ Len(movements'[t]) = Len(movements[t]) + 1
  BY <1>1, <1>2, <1>5 DEF TypeOK
<1>7. Tills!Allowed(t, m)
  <2>1. CASE m.type = "ADMIN_ADJUSTMENT"
    BY <1>1, <1>3, <1>4, <2>1 DEF Tills!Allowed, ChecksStillHold, PlannedAmount
  <2>2. CASE m.type = "WITHDRAWAL"
    BY <1>1, <1>2, <1>3, <1>4, <2>2
       DEF Tills!Allowed, ChecksStillHold, SoundRequest, PlannedAmount
  <2>3. CASE m.type = "INITIAL_BALANCE"
    BY <1>1, <1>3, <1>4, <2>3
       DEF Tills!Allowed, ChecksStillHold, SoundRequest, PlannedAmount
  <2>4. CASE m.type = "MANUAL_INCOME" \/ m.type = "REVERSAL"
    BY <1>1, <1>3, <1>4, <2>4 DEF Tills!Allowed, SoundRequest, PlannedAmount
  <2> QED BY <1>4, <2>1, <2>2, <2>3, <2>4 DEF MovementType
<1>8. m \in Tills!Entry
  BY <1>2 DEF Tills!Entry, Tills!EntryType, Movement, MovementType
<1>9. m.after = balance[t] + m.amount
  BY <1>2
<1>10. Tills!Post(t)
  BY <1>2, <1>5, <1>6, <1>7, <1>8, <1>9 DEF Tills!Post
<1> QED BY <1>2, <1>10 DEF Tills!TillsNext

THEOREM LedgerImplementsTillAccounts == Spec => ImplementsTillAccounts
<1>1. Init => Tills!TillsInit
  BY DEF Init, Tills!TillsInit
<1>2. LedgerInv /\ [Next]_vars => [Tills!TillsNext]_(Tills!tillVars)
  BY OnlyCommitsPost, CommitIsOnePost DEF Tills!tillVars
<1> QED
  BY <1>1, <1>2, LedgerInvariant, PTL DEF Spec, ImplementsTillAccounts, Tills!TillsSpec

-----------------------------------------------------------------------------
(***************************************************************************)
(* Sums.  A fold adds up the members of a set in the order in which CHOOSE *)
(* picks them; g is the function that the fold unfolds to.  It exists for  *)
(* a finite set, by the least size for which it would not.                 *)
(***************************************************************************)
Pick(s) == CHOOSE x \in s : TRUE
Value(f, g, s) == IF s = {} THEN 0 ELSE f[Pick(s)] + g[s \ {Pick(s)}]
Unfolds(g, f, S) == g = [s \in SUBSET S |-> Value(f, g, s)]
Sums(f, S) == CHOOSE g : Unfolds(g, f, S)

LEMMA LeastNumber ==
  ASSUME NEW S \in SUBSET Nat, S # {}
  PROVE  \E n \in S : \A m \in S : n <= m
<1>1. IsWellFoundedOn(OpToRel(<, Nat), Nat)
  BY NatLessThanWellFounded
<1>2. PICK n \in S : \A m \in S : ~ (<<m, n>> \in OpToRel(<, Nat))
  BY <1>1, WFMin
<1>3. ASSUME NEW m \in S PROVE n <= m
  <2>1. ~(<<m, n>> \in {ss \in Nat \X Nat : ss[1] < ss[2]})
    BY <1>2 DEF OpToRel
  <2> QED
    BY <2>1
<1> QED
  BY <1>3

LEMMA Smaller ==
  ASSUME NEW S, IsFiniteSet(S), NEW s \in SUBSET S, s # {}
  PROVE  /\ Pick(s) \in s /\ s \ {Pick(s)} \in SUBSET S
         /\ Cardinality(s) \in Nat /\ Cardinality(s) > 0
         /\ Cardinality(s \ {Pick(s)}) = Cardinality(s) - 1
<1>1. Pick(s) \in s
  BY DEF Pick
<1>2. IsFiniteSet(s)
  BY FS_Subset
<1> QED
  BY <1>1, <1>2, FS_CardinalityType, FS_RemoveElement, FS_EmptySet

\* g adds up f over the sets of at most n members.
UpTo(g, f, S, n) ==
  \A s \in SUBSET S : Cardinality(s) <= n => g[s] = Value(f, g, s)

LEMMA UpToGrows ==
  ASSUME NEW S, IsFiniteSet(S), NEW f \in [S -> Int], NEW n \in Nat, n # 0,
         NEW g \in [SUBSET S -> Int], UpTo(g, f, S, n - 1)
  PROVE  \E k \in [SUBSET S -> Int] : UpTo(k, f, S, n)
<1> DEFINE k == [s \in SUBSET S |-> Value(f, g, s)]
<1>1. k \in [SUBSET S -> Int]
  <2>1. ASSUME NEW s \in SUBSET S PROVE Value(f, g, s) \in Int
    <3>1. CASE s = {}
      BY <3>1 DEF Value
    <3>2. CASE s # {}
      <4> DEFINE x == Pick(s)
      <4>1. x \in S /\ s \ {x} \in SUBSET S
        BY <3>2, Smaller
      <4>2. f[x] \in Int /\ g[s \ {x}] \in Int
        BY <4>1
      <4> QED
        BY <3>2, <4>2 DEF Value
    <3> QED
      BY <3>1, <3>2
  <2> QED
    BY <2>1
<1>2. ASSUME NEW s \in SUBSET S, Cardinality(s) <= n PROVE k[s] = Value(f, k, s)
  <2>1. k[s] = Value(f, g, s)
    OBVIOUS
  <2>2. CASE s = {}
    BY <2>1, <2>2 DEF Value
  <2>3. CASE s # {}
    <3> DEFINE u == s \ {Pick(s)}
    <3>1. u \in SUBSET S /\ Cardinality(u) <= n - 1
      BY <1>2, <2>3, Smaller
    <3>2. g[u] = Value(f, g, u)
      BY <3>1 DEF UpTo
    <3>3. k[u] = Value(f, g, u)
      BY <3>1
    <3> QED
      BY <2>1, <2>3, <3>2, <3>3 DEF Value
  <2> QED
    BY <2>2, <2>3
<1> HIDE DEF k
<1>3. UpTo(k, f, S, n)
  BY <1>2 DEF UpTo
<1> QED
  BY <1>1, <1>3

LEMMA SumsExist ==
  ASSUME NEW S, IsFiniteSet(S), NEW f \in [S -> Int]
  PROVE  \E g \in [SUBSET S -> Int] : Unfolds(g, f, S)
<1> DEFINE Reached(n) == \E g \in [SUBSET S -> Int] : UpTo(g, f, S, n)
           Missed == {n \in Nat : ~Reached(n)}
<1>1. Reached(0)
  <2> DEFINE g == [s \in SUBSET S |-> 0]
  <2>1. ASSUME NEW s \in SUBSET S, Cardinality(s) <= 0 PROVE g[s] = Value(f, g, s)
    <3>1. CASE s = {}
      BY <3>1 DEF Value
    <3>2. CASE s # {}
      <4>1. Cardinality(s) > 0 /\ Cardinality(s) \in Nat
        BY <3>2, Smaller
      <4> QED
        BY <2>1, <4>1
    <3> QED
      BY <3>1, <3>2
  <2>2. g \in [SUBSET S -> Int]
    OBVIOUS
  <2> HIDE DEF g
  <2>3. UpTo(g, f, S, 0)
    BY <2>1 DEF UpTo
  <2> QED
    BY <2>2, <2>3
<1>2. ASSUME NEW n \in Nat, n # 0, Reached(n - 1) PROVE Reached(n)
  BY <1>2, UpToGrows
<1> HIDE DEF Reached
<1>3. Missed = {}
  <2>1. SUFFICES ASSUME Missed # {} PROVE FALSE
    OBVIOUS
  <2>2. PICK n \in Missed : \A m \in Missed : n <= m
    BY <2>1, LeastNumber
  <2>3. n # 0 /\ n \in Nat /\ ~Reached(n)
    BY <1>1
  <2>4. n - 1 \in Nat /\ n - 1 \notin Missed
    BY <2>2, <2>3
  <2> QED
    BY <1>2, <2>3, <2>4
<1>4. Cardinality(S) \in Nat
  BY FS_CardinalityType
<1>5. Reached(Cardinality(S))
  BY <1>3, <1>4
<1>6. PICK g \in [SUBSET S -> Int] : UpTo(g, f, S, Cardinality(S))
  BY <1>5 DEF Reached
<1>7. ASSUME NEW s \in SUBSET S PROVE g[s] = Value(f, g, s)
  <2>1. Cardinality(s) <= Cardinality(S)
    BY FS_Subset
  <2> QED
    BY <1>6, <2>1 DEF UpTo
<1>8. g = [s \in SUBSET S |-> Value(f, g, s)]
  BY <1>7
<1> QED
  BY <1>8 DEF Unfolds

\* g is the sum of f over each part of S, whichever member is added last.
Adds(g, f, S) ==
  /\ g \in [SUBSET S -> Int]
  /\ g[{}] = 0
  /\ \A s \in SUBSET S : \A t \in s : g[s] = f[t] + g[s \ {t}]

LEMMA AnyOrder ==
  ASSUME NEW S, IsFiniteSet(S), NEW f \in [S -> Int],
         NEW g \in [SUBSET S -> Int], Unfolds(g, f, S)
  PROVE  Adds(g, f, S)
<1> DEFINE Right(s) == \A t \in s : g[s] = f[t] + g[s \ {t}]
           Wrong == {s \in SUBSET S : ~Right(s)}
           Sizes == {Cardinality(s) : s \in Wrong}
<1>1. ASSUME NEW s \in SUBSET S PROVE g[s] = Value(f, g, s)
  BY DEF Unfolds
<1>2. ASSUME Wrong # {} PROVE FALSE
  <2>1. \A s \in SUBSET S : Cardinality(s) \in Nat
    BY FS_Subset, FS_CardinalityType
  <2>2. Sizes \in SUBSET Nat /\ Sizes # {}
    BY <1>2, <2>1
  <2>3. PICK n \in Sizes : \A m \in Sizes : n <= m
    <3> HIDE DEF Sizes
    <3> QED
      BY <2>2, LeastNumber
  <2>4. PICK s \in Wrong : Cardinality(s) = n
    BY <2>3
  <2>5. PICK t \in s : g[s] # f[t] + g[s \ {t}]
    BY <2>4
  <2> DEFINE x == Pick(s)
             u == s \ {x}
  <2>6. s \in SUBSET S /\ s # {} /\ t \in S
    BY <2>4, <2>5
  <2>7. x \in s /\ u \in SUBSET S /\ Cardinality(u) = n - 1 /\ n \in Nat
    BY <2>4, <2>6, Smaller
  <2>8. g[s] = f[x] + g[u]
    BY <1>1, <2>6 DEF Value
  <2>9. u \notin Wrong
    <3>1. u \in Wrong => Cardinality(u) \in Sizes
      OBVIOUS
    <3> HIDE DEF Wrong, Sizes, u
    <3> QED
      BY <2>3, <2>7, <3>1
  <2>10. x # t
    BY <2>5, <2>8
  <2>11. t \in u /\ g[u] = f[t] + g[u \ {t}]
    BY <2>7, <2>9, <2>10, <2>5
  <2> DEFINE v == s \ {t}
  <2>12. v \in SUBSET S /\ Cardinality(v) = n - 1 /\ x \in v
    <3>1. IsFiniteSet(s)
      BY <2>6, FS_Subset
    <3> QED
      BY <2>4, <2>5, <2>6, <2>7, <2>10, <3>1, FS_RemoveElement
  <2>13. v \notin Wrong
    <3>1. v \in Wrong => Cardinality(v) \in Sizes
      OBVIOUS
    <3> HIDE DEF Wrong, Sizes, v
    <3> QED
      BY <2>3, <2>7, <2>12, <3>1
  <2>14. g[v] = f[x] + g[v \ {x}]
    BY <2>12, <2>13
  <2>15. v \ {x} = u \ {t}
    OBVIOUS
  <2>16. f[x] \in Int /\ f[t] \in Int /\ g[u \ {t}] \in Int
    BY <2>6, <2>7
  <2>17. g[s] # f[t] + g[v]
    BY <2>5
  <2>18. g[v] = f[x] + g[u \ {t}]
    BY <2>14, <2>15
  <2> DEFINE r == g[u \ {t}]
             a == f[x]
             b == f[t]
  <2>19. g[s] = a + (b + r) /\ g[s] # b + (a + r) /\ a \in Int /\ b \in Int /\ r \in Int
    BY <2>8, <2>11, <2>16, <2>17, <2>18
  <2> HIDE DEF x, u, v, a, b, r
  <2> QED
    BY <2>19
<1>3. \A s \in SUBSET S : Right(s)
  BY <1>2
<1>4. g[{}] = 0
  BY <1>1 DEF Value
<1> QED
  BY <1>3, <1>4 DEF Adds

LEMMA SumsAreAdded ==
  ASSUME NEW S, IsFiniteSet(S), NEW f \in [S -> Int]
  PROVE  \E g : Adds(g, f, S)
<1>1. PICK g \in [SUBSET S -> Int] : Unfolds(g, f, S)
  BY SumsExist
<1> QED
  BY <1>1, AnyOrder

\* What a fold over a part of S comes to.
LEMMA FoldIs ==
  ASSUME NEW S, IsFiniteSet(S), NEW f \in [S -> Int], NEW g, Adds(g, f, S),
         NEW D \in SUBSET S, NEW e \in [D -> Int], \A i \in D : e[i] = f[i],
         NEW h, Unfolds(h, e, D)
  PROVE  h[D] = g[D]
<1> DEFINE Wrong == {s \in SUBSET D : h[s] # g[s]}
           Sizes == {Cardinality(s) : s \in Wrong}
<1>1. IsFiniteSet(D)
  BY FS_Subset
<1>2. ASSUME NEW s \in SUBSET D PROVE h[s] = Value(e, h, s)
  BY DEF Unfolds
<1>3. ASSUME Wrong # {} PROVE FALSE
  <2>1. \A s \in SUBSET D : Cardinality(s) \in Nat
    BY <1>1, FS_Subset, FS_CardinalityType
  <2>2. Sizes \in SUBSET Nat /\ Sizes # {}
    BY <1>3, <2>1
  <2>3. PICK n \in Sizes : \A m \in Sizes : n <= m
    <3> HIDE DEF Sizes
    <3> QED
      BY <2>2, LeastNumber
  <2>4. PICK s \in Wrong : Cardinality(s) = n
    BY <2>3
  <2>5. s \in SUBSET D /\ h[s] # g[s]
    BY <2>4
  <2>6. s # {}
    <3>1. h[{}] = 0
      BY <1>2 DEF Value
    <3> QED
      BY <2>5, <3>1 DEF Adds
  <2> DEFINE x == Pick(s)
             u == s \ {x}
  <2>7. x \in s /\ u \in SUBSET D /\ Cardinality(u) = n - 1 /\ n \in Nat
    BY <1>1, <2>4, <2>5, <2>6, Smaller
  <2>8. h[s] = e[x] + h[u]
    BY <1>2, <2>5, <2>6 DEF Value
  <2>9. u \notin Wrong
    BY <2>3, <2>7
  <2>10. h[u] = g[u] /\ e[x] = f[x]
    BY <2>5, <2>7, <2>9
  <2>11. g[s] = f[x] + g[u]
    BY <2>5, <2>7 DEF Adds
  <2> HIDE DEF x, u
  <2> QED
    BY <2>5, <2>8, <2>10, <2>11
<1>4. D \notin Wrong
  BY <1>3
<1> QED
  BY <1>4

LEMMA SumIsNat ==
  ASSUME NEW S, IsFiniteSet(S), NEW f \in [S -> Int], NEW g, Adds(g, f, S),
         NEW D \in SUBSET S, \A i \in D : f[i] >= 0
  PROVE  g[D] \in Nat
<1> DEFINE Wrong == {s \in SUBSET D : g[s] \notin Nat}
           Sizes == {Cardinality(s) : s \in Wrong}
<1>1. IsFiniteSet(D) /\ g[{}] = 0
  BY FS_Subset DEF Adds
<1>2. ASSUME Wrong # {} PROVE FALSE
  <2>1. \A s \in SUBSET D : Cardinality(s) \in Nat
    BY <1>1, FS_Subset, FS_CardinalityType
  <2>2. Sizes \in SUBSET Nat /\ Sizes # {}
    BY <1>2, <2>1
  <2>3. PICK n \in Sizes : \A m \in Sizes : n <= m
    <3> HIDE DEF Sizes
    <3> QED
      BY <2>2, LeastNumber
  <2>4. PICK s \in Wrong : Cardinality(s) = n
    BY <2>3
  <2>5. s \in SUBSET D /\ s # {} /\ g[s] \notin Nat
    BY <1>1, <2>4
  <2> DEFINE x == Pick(s)
             u == s \ {x}
  <2>6. x \in s /\ u \in SUBSET D /\ Cardinality(u) = n - 1 /\ n \in Nat
    BY <1>1, <2>4, <2>5, Smaller
  <2>7. u \notin Wrong
    <3>1. u \in Wrong => Cardinality(u) \in Sizes
      OBVIOUS
    <3> HIDE DEF Wrong, Sizes, u
    <3> QED
      BY <2>3, <2>6, <3>1
  <2>8. g[s] = f[x] + g[u]
    BY <2>5, <2>6 DEF Adds
  <2>9. g[u] \in Nat /\ f[x] \in Int /\ f[x] >= 0
    BY <2>5, <2>6, <2>7
  <2> HIDE DEF x, u
  <2> QED
    BY <2>5, <2>8, <2>9
<1>3. D \notin Wrong
  BY <1>2
<1> QED
  BY <1>3

-----------------------------------------------------------------------------
(***************************************************************************)
(* The sums of the ledger in memory: the calls that wait at the tills w,   *)
(* and the amounts of some movements S of the book b.                      *)
(***************************************************************************)
Lengths(w) == [t \in TwinTill |-> Len(w[t])]
WaitingAt(w) == Twin!MapThenSumSet(LAMBDA t : Len(w[t]), TwinTill)

NetOf(b, S) == Twin!MapThenSumSet(LAMBDA p : b[p[1]][p[2]].amount, S)

LEMMA WaitingAtIs ==
  ASSUME NEW C, NEW w \in [TwinTill -> Seq(C)]
  PROVE  /\ Lengths(w) \in [TwinTill -> Nat]
         /\ \E g : Adds(g, Lengths(w), TwinTill) /\ WaitingAt(w) = g[TwinTill]
<1> DEFINE e == Lengths(w)
           T == TwinTill
           Folds(h) == h = [s \in SUBSET T |-> IF s = {} THEN 0 ELSE Len(w[Pick(s)]) + h[s \ {Pick(s)}]]
           fold == CHOOSE h : Folds(h)
<1>1. IsFiniteSet(T)
  BY TwinAssumption
<1>2. e \in [T -> Nat] /\ \A t \in T : e[t] = Len(w[t])
  BY LenProperties DEF Lengths
<1>3. e \in [T -> Int]
  BY <1>2
<1>4. ASSUME NEW h PROVE Folds(h) <=> Unfolds(h, e, T)
  <2>1. ASSUME NEW s \in SUBSET T, s # {} PROVE e[Pick(s)] = Len(w[Pick(s)])
    BY <1>1, <1>2, <2>1, Smaller
  <2>2. ASSUME NEW s \in SUBSET T
        PROVE  Value(e, h, s) = IF s = {} THEN 0 ELSE Len(w[Pick(s)]) + h[s \ {Pick(s)}]
    BY <2>1 DEF Value
  <2> HIDE DEF e, T
  <2> QED
    BY <2>2 DEF Unfolds
<1>5. WaitingAt(w) = fold[T]
  BY DEF WaitingAt, Twin!MapThenSumSet, Twin!MapThenFoldSet, Pick, fold, Folds
<1> HIDE DEF e, T, Folds
<1>6. PICK h \in [SUBSET T -> Int] : Unfolds(h, e, T)
  BY <1>1, <1>3, SumsExist
<1>7. Folds(fold)
  <2>1. Folds(h)
    BY <1>4, <1>6
  <2> QED
    BY <2>1 DEF fold
<1>8. PICK g : Adds(g, e, T)
  BY <1>1, <1>3, SumsAreAdded
<1> HIDE DEF fold
<1>9. fold[T] = g[T]
  BY <1>1, <1>3, <1>4, <1>7, <1>8, FoldIs
<1> QED
  BY <1>2, <1>5, <1>8, <1>9 DEF e, T

LEMMA NetOfIs ==
  ASSUME NEW S, IsFiniteSet(S), NEW f \in [S -> Int], NEW g, Adds(g, f, S),
         NEW D \in SUBSET S, NEW b, \A p \in D : f[p] = b[p[1]][p[2]].amount
  PROVE  NetOf(b, D) = g[D] /\ g[D] \in Int
<1> DEFINE e == [p \in D |-> f[p]]
           A(p) == b[p[1]][p[2]].amount
           Folds(h) == h = [s \in SUBSET D |-> IF s = {} THEN 0 ELSE A(Pick(s)) + h[s \ {Pick(s)}]]
           fold == CHOOSE h : Folds(h)
<1>1. IsFiniteSet(D)
  BY FS_Subset
<1>2. e \in [D -> Int] /\ \A p \in D : e[p] = f[p] /\ e[p] = A(p)
  OBVIOUS
<1>3. NetOf(b, D) = fold[D]
  BY DEF NetOf, Twin!MapThenSumSet, Twin!MapThenFoldSet, Pick, fold, Folds, A
<1> HIDE DEF A, e
<1>4. ASSUME NEW h PROVE Folds(h) <=> Unfolds(h, e, D)
  <2>1. ASSUME NEW s \in SUBSET D, s # {} PROVE e[Pick(s)] = A(Pick(s))
    BY <1>1, <1>2, <2>1, Smaller
  <2>2. ASSUME NEW s \in SUBSET D
        PROVE  Value(e, h, s) = IF s = {} THEN 0 ELSE A(Pick(s)) + h[s \ {Pick(s)}]
    BY <2>1 DEF Value
  <2> QED
    BY <2>2 DEF Unfolds
<1> HIDE DEF Folds
<1>5. PICK h \in [SUBSET D -> Int] : Unfolds(h, e, D)
  BY <1>1, <1>2, SumsExist
<1>6. Folds(fold)
  <2>1. Folds(h)
    BY <1>4, <1>5
  <2> QED
    BY <2>1 DEF fold
<1> HIDE DEF fold
<1>7. fold[D] = g[D]
  BY <1>2, <1>4, <1>6, FoldIs
<1>8. g[D] \in Int
  BY DEF Adds
<1> QED
  BY <1>3, <1>7, <1>8

LEMMA SamePart ==
  ASSUME NEW S, IsFiniteSet(S), NEW f \in [S -> Int], NEW g, Adds(g, f, S),
         NEW e \in [S -> Int], NEW h, Adds(h, e, S),
         NEW D \in SUBSET S, \A i \in D : f[i] = e[i]
  PROVE  g[D] = h[D]
<1> DEFINE d == [i \in D |-> f[i]]
<1>1. d \in [D -> Int] /\ (\A i \in D : d[i] = f[i]) /\ (\A i \in D : d[i] = e[i])
  OBVIOUS
<1> HIDE DEF d
<1>2. IsFiniteSet(D)
  BY FS_Subset
<1>3. PICK k \in [SUBSET D -> Int] : Unfolds(k, d, D)
  BY <1>1, <1>2, SumsExist
<1>4. k[D] = g[D]
  BY <1>1, <1>3, FoldIs
<1>5. k[D] = h[D]
  BY <1>1, <1>3, FoldIs
<1> QED
  BY <1>4, <1>5

\* A till has no more calls than all tills, and one call more makes one more.
LEMMA WaitingIsNat ==
  ASSUME NEW C, NEW w \in [TwinTill -> Seq(C)]
  PROVE  WaitingAt(w) \in Nat /\ \A t \in TwinTill : Len(w[t]) <= WaitingAt(w)
<1> DEFINE T == TwinTill
           f == Lengths(w)
<1>1. IsFiniteSet(T) /\ f \in [T -> Nat] /\ \A t \in T : f[t] = Len(w[t])
  BY TwinAssumption, WaitingAtIs DEF Lengths
<1>2. PICK g : Adds(g, f, T) /\ WaitingAt(w) = g[T]
  BY WaitingAtIs
<1> HIDE DEF T, f
<1>3. ASSUME NEW D \in SUBSET T PROVE g[D] \in Nat
  BY <1>1, <1>2, SumIsNat
<1>4. ASSUME NEW t \in T PROVE Len(w[t]) <= g[T]
  <2>1. g[T] = f[t] + g[T \ {t}]
    BY <1>2 DEF Adds
  <2>2. g[T \ {t}] \in Nat /\ f[t] \in Nat
    BY <1>1, <1>3
  <2> QED
    BY <1>1, <2>1, <2>2
<1> QED
  BY <1>2, <1>3, <1>4 DEF T

LEMMA WaitingMoves ==
  ASSUME NEW C, NEW w \in [TwinTill -> Seq(C)], NEW v \in [TwinTill -> Seq(C)],
         NEW t \in TwinTill, \A u \in TwinTill \ {t} : v[u] = w[u],
         NEW d \in Int, Len(v[t]) = Len(w[t]) + d
  PROVE  WaitingAt(v) = WaitingAt(w) + d
<1> DEFINE T == TwinTill
           f == Lengths(w)
           e == Lengths(v)
           D == T \ {t}
<1>1. /\ IsFiniteSet(T)
      /\ f \in [T -> Int] /\ e \in [T -> Int]
      /\ e[t] = f[t] + d /\ \A u \in D : f[u] = e[u]
  <2>1. f \in [T -> Nat] /\ e \in [T -> Nat]
    BY WaitingAtIs
  <2>2. e[t] = f[t] + d /\ \A u \in D : f[u] = e[u]
    BY DEF Lengths
  <2> QED
    BY <2>1, <2>2, TwinAssumption
<1>2. PICK g : Adds(g, f, T) /\ WaitingAt(w) = g[T]
  BY WaitingAtIs
<1>3. PICK h : Adds(h, e, T) /\ WaitingAt(v) = h[T]
  BY WaitingAtIs
<1>4. D \in SUBSET T /\ t \in T
  OBVIOUS
<1> HIDE DEF f, e, T, D
<1>5. g[D] = h[D]
  <2>1. Adds(g, f, T) /\ Adds(h, e, T) /\ \A u \in D : f[u] = e[u]
    BY <1>1, <1>2, <1>3
  <2>2. IsFiniteSet(T) /\ f \in [T -> Int] /\ e \in [T -> Int] /\ D \in SUBSET T
    BY <1>1, <1>4
  <2> QED
    BY <2>1, <2>2, SamePart
<1>6. g[T] = f[t] + g[D] /\ h[T] = e[t] + h[D]
  BY <1>2, <1>3, <1>4 DEF Adds, D
<1>7. g[D] \in Int /\ f[t] \in Int
  BY <1>1, <1>2, <1>4 DEF Adds
<1> QED
  BY <1>1, <1>2, <1>3, <1>5, <1>6, <1>7

\* What movements come to: a number; the same in a book that has them as they
\* are; and one movement more adds its amount.
LEMMA NetIsInt ==
  ASSUME NEW S, IsFiniteSet(S), NEW b, \A p \in S : b[p[1]][p[2]].amount \in Int
  PROVE  NetOf(b, S) \in Int
<1> DEFINE f == [p \in S |-> b[p[1]][p[2]].amount]
<1>1. f \in [S -> Int] /\ \A p \in S : f[p] = b[p[1]][p[2]].amount
  OBVIOUS
<1> HIDE DEF f
<1>2. PICK g : Adds(g, f, S)
  BY <1>1, SumsAreAdded
<1>3. PICK D \in SUBSET S : D = S
  OBVIOUS
<1>4. \A p \in D : f[p] = b[p[1]][p[2]].amount
  BY <1>1, <1>3
<1>5. NetOf(b, D) = g[D] /\ g[D] \in Int
  BY <1>1, <1>2, <1>4, NetOfIs
<1> QED
  BY <1>3, <1>5

\* c has the movements S as b has them, and p besides.
OneMore(b, S, c, p) ==
  /\ IsFiniteSet(S) /\ p \notin S
  /\ \A q \in S : b[q[1]][q[2]].amount \in Int
  /\ \A q \in S : c[q[1]][q[2]].amount = b[q[1]][q[2]].amount
  /\ c[p[1]][p[2]].amount \in Int

LEMMA NetMoves ==
  ASSUME NEW S, NEW b, NEW p, NEW c, OneMore(b, S, c, p)
  PROVE  /\ NetOf(c, S) = NetOf(b, S)
         /\ NetOf(c, S \cup {p}) = NetOf(b, S) + c[p[1]][p[2]].amount
<1> DEFINE R == S \cup {p}
           f == [q \in R |-> c[q[1]][q[2]].amount]
<1> USE DEF OneMore
<1>1. IsFiniteSet(R)
  BY FS_AddElement
<1>2. /\ f \in [R -> Int] /\ S \in SUBSET R /\ R \in SUBSET R /\ p \in R /\ R \ {p} = S
      /\ \A q \in R : f[q] = c[q[1]][q[2]].amount
      /\ \A q \in S : f[q] = b[q[1]][q[2]].amount
  <2>1. \A q \in R : c[q[1]][q[2]].amount \in Int
    OBVIOUS
  <2> QED
    BY <2>1
<1> HIDE DEF f, R
<1>3. PICK g : Adds(g, f, R)
  BY <1>1, <1>2, SumsAreAdded
<1>4. NetOf(b, S) = g[S] /\ g[S] \in Int
  BY <1>1, <1>2, <1>3, NetOfIs
<1>5. NetOf(c, S) = g[S]
  <2>1. \A q \in S : f[q] = c[q[1]][q[2]].amount
    BY <1>2
  <2> QED
    BY <1>1, <1>2, <1>3, <2>1, NetOfIs
<1>6. NetOf(c, R) = g[R]
  BY <1>1, <1>2, <1>3, NetOfIs
<1>7. g[R] = f[p] + g[S]
  BY <1>2, <1>3 DEF Adds
<1>8. f[p] \in Int /\ f[p] = c[p[1]][p[2]].amount
  BY <1>2
<1> QED
  BY <1>4, <1>5, <1>6, <1>7, <1>8 DEF R

-----------------------------------------------------------------------------
(***************************************************************************)
(* The inductive invariant of the ledger in memory.  ReversedOnce is kept  *)
(* as it is; the rest says what a call that waits may rely on when its     *)
(* turn comes, and that the movements which are counted (allMovements) are *)
(* all that there are.                                                     *)
(***************************************************************************)
Kind == {"credit", "withdraw", "adjust", "open", "reverse", "post", "prime"}
AnyCall ==
  [kind: Kind, type: {"SESSION_PAYMENT", "CORRECTION", "REVERSAL", NoOne}, amount: Int,
   ref: {"session", "shift", "receipt", NoOne}, of: Nat, at: Nat, paid: BOOLEAN, target: Nat]

TwinTyped ==
  /\ test \in Twin!Tests
  /\ cash \in [TwinTill -> Int]
  /\ book \in [TwinTill -> Seq(Twin!Movement)]
  /\ assigned \in [TwinTill -> TwinStaff \cup {NoOne}]
  /\ since \in [TwinTill -> Nat \cup {NoOne}]
  /\ waiting \in [TwinTill -> Seq(AnyCall)]

RoomIsLeft ==
  /\ Twin!Pending + Cardinality(Twin!allMovements) <= TwinMovements
  /\ \A t \in TwinTill : Len(book[t]) <= TwinMovements

\* A call c for the till t, before its turn.
SoundCall(t, c) ==
  /\ c.kind = "credit" => c.amount > 0 /\ c.ref \in {"receipt", NoOne}
  /\ c.kind = "withdraw" => c.amount > 0
  /\ c.kind = "open" => c.amount >= 0
  /\ c.kind \in {"withdraw", "adjust", "open", "reverse"} => c.ref = NoOne
  /\ c.kind = "prime" => c.ref = "shift"
  /\ c.kind = "post" => c.ref = "session" /\ c.amount # 0 /\ c.type # NoOne
  /\ c.of # 0 => c.kind = "reverse"
  /\ c.kind = "reverse" => c.of \in 1 .. Len(book[t])

CallsAreSound == \A t \in TwinTill : \A i \in 1 .. Len(waiting[t]) : SoundCall(t, waiting[t][i])

OneAtATime == test.overlap \/ Twin!Pending <= 1

\* What an awaited call for the session posts still brings the session to its target.
Settles(c) ==
  c.kind = "post" /\ ~test.overlap => c.amount = c.target - Twin!Net("session")

CallsStillSettle == \A t \in TwinTill : \A i \in 1 .. Len(waiting[t]) : Settles(waiting[t][i])

TwinInv ==
  /\ TwinTyped /\ RoomIsLeft /\ CallsAreSound /\ OneAtATime /\ CallsStillSettle
  /\ Twin!ReversedOnce

-----------------------------------------------------------------------------
(***************************************************************************)
(* What is counted.                                                        *)
(***************************************************************************)
LEMMA MovementsAreFinite ==
  ASSUME TwinTyped
  PROVE  /\ IsFiniteSet(Twin!allMovements)
         /\ \A p \in Twin!allMovements : p[1] \in TwinTill /\ p[2] \in 1 .. Len(book[p[1]])
         /\ \A p \in Twin!allMovements : book[p[1]][p[2]] \in Twin!Movement
         /\ \A p \in Twin!allMovements : book[p[1]][p[2]].amount \in Int
<1>1. IsFiniteSet(TwinTill \X (1 .. TwinMovements))
  <2>1. IsFiniteSet(1 .. TwinMovements)
    BY TwinAssumption, FS_Interval
  <2> QED
    BY <2>1, TwinAssumption, FS_Product
<1>2. Twin!allMovements \in SUBSET (TwinTill \X (1 .. TwinMovements))
  BY DEF Twin!allMovements
<1>3. IsFiniteSet(Twin!allMovements)
  BY <1>1, <1>2, FS_Subset
<1>4. ASSUME NEW p \in Twin!allMovements
      PROVE  p[1] \in TwinTill /\ p[2] \in 1 .. Len(book[p[1]])
  <2>1. p \in TwinTill \X (1 .. TwinMovements) /\ p[2] <= Len(book[p[1]])
    BY <1>4 DEF Twin!allMovements
  <2>2. Len(book[p[1]]) \in Nat
    BY <2>1, LenProperties DEF TwinTyped
  <2> QED
    BY <2>1, <2>2
<1>5. ASSUME NEW p \in Twin!allMovements PROVE book[p[1]][p[2]] \in Twin!Movement
  BY <1>4, ElementOfSeq DEF TwinTyped
<1> QED
  BY <1>3, <1>4, <1>5 DEF Twin!Movement

LEMMA NetIs ==
  ASSUME TwinTyped, NEW ref
  PROVE  /\ Twin!Net(ref) = NetOf(book, Twin!Of(ref)) /\ Twin!Net(ref) \in Int
         /\ Twin!Of(ref) \in SUBSET Twin!allMovements /\ IsFiniteSet(Twin!Of(ref))
<1>1. Twin!Of(ref) \in SUBSET Twin!allMovements
  BY DEF Twin!Of
<1>2. IsFiniteSet(Twin!Of(ref)) /\ \A p \in Twin!Of(ref) : book[p[1]][p[2]].amount \in Int
  BY <1>1, MovementsAreFinite, FS_Subset
<1>3. Twin!Net(ref) = NetOf(book, Twin!Of(ref))
  BY DEF Twin!Net, NetOf
<1>4. NetOf(book, Twin!Of(ref)) \in Int
  BY <1>2, NetIsInt
<1> QED
  BY <1>1, <1>2, <1>3, <1>4

LEMMA PendingIs ==
  ASSUME TwinTyped
  PROVE  /\ Twin!Pending = WaitingAt(waiting) /\ Twin!Pending \in Nat
         /\ \A t \in TwinTill : Len(waiting[t]) \in Nat /\ Len(waiting[t]) <= Twin!Pending
<1>1. Twin!Pending = WaitingAt(waiting)
  BY DEF Twin!Pending, WaitingAt
<1>2. waiting \in [TwinTill -> Seq(AnyCall)]
  BY DEF TwinTyped
<1>3. \A t \in TwinTill : Len(waiting[t]) \in Nat
  BY <1>2, LenProperties
<1> QED
  BY <1>1, <1>2, <1>3, WaitingIsNat

\* The movements of a till are some of those of all tills.
LEMMA TillHasRoom ==
  ASSUME TwinTyped, RoomIsLeft, NEW t \in TwinTill, waiting[t] # << >>
  PROVE  /\ Len(book[t]) \in Nat /\ Len(book[t]) < TwinMovements
         /\ Twin!Pending >= 1 /\ Len(waiting[t]) >= 1
<1> DEFINE n == Len(book[t])
           M == Twin!allMovements
           f == [i \in 1 .. n |-> <<t, i>>]
<1>1. n \in Nat /\ n <= TwinMovements /\ TwinMovements \in Nat
  BY TwinAssumption, LenProperties DEF TwinTyped, RoomIsLeft
<1>2. ASSUME NEW i \in 1 .. n PROVE <<t, i>> \in M
  BY <1>1 DEF Twin!allMovements
<1>3. f \in Injection(1 .. n, M)
  BY <1>2 DEF Injection, IsInjective
<1>4. IsFiniteSet(M)
  BY MovementsAreFinite
<1> HIDE DEF M, n
<1>9. Cardinality(1 .. n) = n
  <2>1. Cardinality(1 .. n) = IF 1 > n THEN 0 ELSE n - 1 + 1
    BY <1>1, FS_Interval
  <2> QED
    BY <1>1, <2>1
<1> HIDE DEF f
<1>5. n <= Cardinality(M) /\ Cardinality(M) \in Nat
  BY <1>3, <1>4, <1>9, FS_Injection, FS_CardinalityType
<1>6. Len(waiting[t]) >= 1
  BY EmptySeq, LenProperties DEF TwinTyped
<1>7. Twin!Pending >= 1 /\ Twin!Pending \in Nat
  BY <1>6, PendingIs
<1>8. Twin!Pending + Cardinality(M) <= TwinMovements
  BY DEF RoomIsLeft, M
<1> QED
  BY <1>1, <1>5, <1>6, <1>7, <1>8 DEF n

-----------------------------------------------------------------------------
(***************************************************************************)
(* A movement m is appended to the till t.                                 *)
(***************************************************************************)
Posts(t, m) ==
  /\ m \in Twin!Movement
  /\ book' = [book EXCEPT ![t] = Append(@, m)]
  /\ Len(book[t]) < TwinMovements

LEMMA PostsIs ==
  ASSUME TwinTyped, NEW t \in TwinTill, NEW m, Posts(t, m)
  PROVE  /\ book' \in [TwinTill -> Seq(Twin!Movement)]
         /\ Len(book[t]) \in Nat /\ Len(book'[t]) = Len(book[t]) + 1
         /\ book'[t][Len(book[t]) + 1] = m
         /\ \A i \in 1 .. Len(book[t]) : book'[t][i] = book[t][i]
         /\ \A u \in TwinTill \ {t} : book'[u] = book[u]
<1>1. book \in [TwinTill -> Seq(Twin!Movement)] /\ book[t] \in Seq(Twin!Movement)
  BY DEF TwinTyped
<1>2. m \in Twin!Movement /\ book'[t] = Append(book[t], m)
  BY <1>1 DEF Posts
<1>3. \A u \in TwinTill \ {t} : book'[u] = book[u]
  BY <1>1 DEF Posts
<1>4. Append(book[t], m) \in Seq(Twin!Movement)
  BY <1>1, <1>2, AppendProperties
<1>5. book' \in [TwinTill -> Seq(Twin!Movement)]
  BY <1>1, <1>4 DEF Posts
<1> QED
  BY <1>1, <1>2, <1>3, <1>5, AppendProperties, LenProperties

LEMMA PostCounts ==
  ASSUME TwinTyped, RoomIsLeft, NEW t \in TwinTill, NEW m, Posts(t, m)
  PROVE  /\ Twin!allMovements' = Twin!allMovements \cup {<<t, Len(book[t]) + 1>>}
         /\ Cardinality(Twin!allMovements)' = Cardinality(Twin!allMovements) + 1
         /\ \A u \in TwinTill : Len(book[u])' <= TwinMovements
<1> DEFINE n == Len(book[t])
           p == <<t, n + 1>>
           M == Twin!allMovements
<1>1. n \in Nat /\ n + 1 <= TwinMovements /\ TwinMovements \in Nat
  BY PostsIs, TwinAssumption DEF Posts
<1>2. \A u \in TwinTill : Len(book[u]) \in Nat
  BY LenProperties DEF TwinTyped
<1>3. \A u \in TwinTill : Len(book'[u]) = IF u = t THEN n + 1 ELSE Len(book[u])
  BY PostsIs
<1>4. M' = M \cup {p}
  <2>1. M' = {q \in TwinTill \X (1 .. TwinMovements) : q[2] <= Len(book'[q[1]])}
    BY DEF Twin!allMovements
  <2>2. M = {q \in TwinTill \X (1 .. TwinMovements) : q[2] <= Len(book[q[1]])}
    BY DEF Twin!allMovements
  <2>3. p \in TwinTill \X (1 .. TwinMovements) /\ p[1] = t /\ p[2] = n + 1
    BY <1>1
  <2>4. ASSUME NEW q \in TwinTill \X (1 .. TwinMovements)
        PROVE  q[2] <= Len(book'[q[1]]) <=> q[2] <= Len(book[q[1]]) \/ q = p
    <3>1. q[1] \in TwinTill /\ q[2] \in Nat /\ q = <<q[1], q[2]>>
      OBVIOUS
    <3>2. CASE q[1] = t
      BY <1>1, <1>3, <3>1, <3>2
    <3>3. CASE q[1] # t
      BY <1>3, <3>1, <3>3
    <3> QED
      BY <3>2, <3>3
  <2> HIDE DEF p, M
  <2> QED
    BY <2>1, <2>2, <2>3, <2>4
<1>5. p \notin M
  BY <1>1 DEF Twin!allMovements
<1>6. IsFiniteSet(M)
  BY MovementsAreFinite
<1> HIDE DEF M, p
<1>7. Cardinality(M') = Cardinality(M) + 1
  BY <1>4, <1>5, <1>6, FS_AddElement
<1>8. \A u \in TwinTill : Len(book'[u]) <= TwinMovements
  BY <1>1, <1>3 DEF RoomIsLeft
<1> QED
  BY <1>4, <1>7, <1>8 DEF M, p, n

LEMMA NetNext ==
  ASSUME NEW ref
  PROVE  Twin!Net(ref)' = NetOf(book', Twin!Of(ref)')
BY DEF Twin!Net, NetOf, Twin!MapThenSumSet, Twin!MapThenFoldSet

LEMMA PostMovesNet ==
  ASSUME TwinTyped, RoomIsLeft, NEW t \in TwinTill, NEW m, Posts(t, m), NEW ref
  PROVE  Twin!Net(ref)' = Twin!Net(ref) + IF m.ref = ref THEN m.amount ELSE 0
<1> DEFINE p == <<t, Len(book[t]) + 1>>
           M == Twin!allMovements
           S == Twin!Of(ref)
<1>1. M' = M \cup {p}
  BY PostCounts
<1>2. Len(book[t]) \in Nat /\ p[1] = t /\ p[2] = Len(book[t]) + 1 /\ book'[p[1]][p[2]] = m
  BY PostsIs
<1>3. p \notin M
  BY <1>2 DEF Twin!allMovements
<1>4. ASSUME NEW q \in M PROVE book'[q[1]][q[2]] = book[q[1]][q[2]]
  <2>1. q[1] \in TwinTill /\ q[2] \in 1 .. Len(book[q[1]])
    BY MovementsAreFinite
  <2>2. CASE q[1] = t
    BY <2>1, <2>2, PostsIs
  <2>3. CASE q[1] # t
    BY <2>1, <2>3, PostsIs
  <2> QED
    BY <2>2, <2>3
<1>5. /\ S \in SUBSET M /\ IsFiniteSet(S) /\ Twin!Net(ref) = NetOf(book, S) /\ Twin!Net(ref) \in Int
      /\ \A q \in S : book[q[1]][q[2]].amount \in Int
  BY NetIs, MovementsAreFinite
<1>6. S' = {q \in M' : book'[q[1]][q[2]].ref = ref} /\ S = {q \in M : book[q[1]][q[2]].ref = ref}
  BY DEF Twin!Of
<1>7. Twin!Net(ref)' = NetOf(book', S')
  BY NetNext
<1>8. m.amount \in Int
  BY DEF Posts, Twin!Movement
<1> HIDE DEF p, M, S
<1>9. S' = IF m.ref = ref THEN S \cup {p} ELSE S
  BY <1>1, <1>2, <1>3, <1>4, <1>6
<1>10. /\ NetOf(book', S) = NetOf(book, S)
       /\ NetOf(book', S \cup {p}) = NetOf(book, S) + m.amount
  <2>1. p \notin S /\ \A q \in S : book'[q[1]][q[2]].amount = book[q[1]][q[2]].amount
    BY <1>3, <1>4, <1>5
  <2>2. book'[p[1]][p[2]].amount \in Int /\ book'[p[1]][p[2]].amount = m.amount
    BY <1>2, <1>8
  <2>3. OneMore(book, S, book', p)
    BY <1>5, <2>1, <2>2 DEF OneMore
  <2>4. /\ NetOf(book', S) = NetOf(book, S)
        /\ NetOf(book', S \cup {p}) = NetOf(book, S) + book'[p[1]][p[2]].amount
    BY <2>3, NetMoves
  <2> QED
    BY <2>2, <2>4
<1> QED
  BY <1>5, <1>7, <1>8, <1>9, <1>10

LEMMA SameBookSameNet ==
  ASSUME book' = book, NEW CONSTANT ref
  PROVE  Twin!Net(ref)' = Twin!Net(ref) /\ Twin!allMovements' = Twin!allMovements
<1>1. Twin!allMovements' = Twin!allMovements
  BY DEF Twin!allMovements
<1>2. Twin!Of(ref)' = Twin!Of(ref)
  BY <1>1 DEF Twin!Of
<1>3. Twin!Net(ref)' = NetOf(book, Twin!Of(ref))
  BY <1>2, NetNext
<1>4. Twin!Net(ref) = NetOf(book, Twin!Of(ref))
  BY DEF Twin!Net, NetOf
<1> QED
  BY <1>1, <1>3, <1>4

-----------------------------------------------------------------------------
(***************************************************************************)
(* A method is called: one sound call more waits, and nothing else happens.*)
(***************************************************************************)
Asks(t, c) == c \in AnyCall /\ SoundCall(t, c) /\ Settles(c) /\ Twin!withLock(t, c)

Calls(t) ==
  \/ Twin!credit(t) \/ Twin!withdraw(t) \/ Twin!adjust(t)
  \/ Twin!setInitialBalance(t) \/ Twin!reverse(t)

LEMMA ReversalIsACall ==
  ASSUME NEW i \in Nat, NEW a \in Int
  PROVE  [Twin!Call("reverse", a, NoOne) EXCEPT !.of = i] \in AnyCall
BY DEF Twin!Call, AnyCall, Kind

LEMMA CallsAsk ==
  ASSUME TwinTyped, NEW t \in TwinTill, Calls(t)
  PROVE  \E c : Asks(t, c)
<1>1. CASE Twin!credit(t)
  <2>1. PICK a \in Amount, ref \in {"receipt", NoOne} : Twin!withLock(t, Twin!Call("credit", a, ref))
    BY <1>1 DEF Twin!credit
  <2>2. a \in Int /\ a > 0
    BY AmountAssumption
  <2>3. Asks(t, Twin!Call("credit", a, ref))
    BY <2>1, <2>2 DEF Asks, Twin!Call, AnyCall, Kind, SoundCall, Settles
  <2> QED
    BY <2>3
<1>2. CASE Twin!withdraw(t)
  <2>1. PICK a \in Amount : Twin!withLock(t, Twin!Call("withdraw", a, NoOne))
    BY <1>2 DEF Twin!withdraw
  <2>2. a \in Int /\ a > 0
    BY AmountAssumption
  <2>3. Asks(t, Twin!Call("withdraw", a, NoOne))
    BY <2>1, <2>2 DEF Asks, Twin!Call, AnyCall, Kind, SoundCall, Settles
  <2> QED
    BY <2>3
<1>3. CASE Twin!adjust(t)
  <2>1. PICK d \in Desired : Twin!withLock(t, Twin!Call("adjust", d, NoOne))
    BY <1>3 DEF Twin!adjust
  <2>2. d \in Int
    BY DesiredAssumption
  <2>3. Asks(t, Twin!Call("adjust", d, NoOne))
    BY <2>1, <2>2 DEF Asks, Twin!Call, AnyCall, Kind, SoundCall, Settles
  <2> QED
    BY <2>3
<1>4. CASE Twin!setInitialBalance(t)
  <2>1. PICK a \in Counted : Twin!withLock(t, Twin!Call("open", a, NoOne))
    BY <1>4 DEF Twin!setInitialBalance
  <2>2. a \in Int /\ a >= 0
    BY CountedAssumption
  <2>3. Asks(t, Twin!Call("open", a, NoOne))
    BY <2>1, <2>2 DEF Asks, Twin!Call, AnyCall, Kind, SoundCall, Settles
  <2> QED
    BY <2>3
<1>5. CASE Twin!reverse(t)
  <2>1. PICK i \in DOMAIN book[t] :
          Twin!withLock(t, [Twin!Call("reverse", 0, NoOne) EXCEPT !.of = i])
    BY <1>5 DEF Twin!reverse
  <2>2. i \in 1 .. Len(book[t]) /\ Len(book[t]) \in Nat
    BY LenProperties DEF TwinTyped
  <2>3. i \in Nat
    BY <2>2
  <2> DEFINE c == [Twin!Call("reverse", 0, NoOne) EXCEPT !.of = i]
  <2>4. c \in [kind: {"reverse"}, type: {NoOne}, amount: {0}, ref: {NoOne}, of: {i},
               at: {0}, paid: {FALSE}, target: {0}]
    BY DEF Twin!Call
  <2>5. c \in AnyCall
    BY <2>3, ReversalIsACall
  <2> HIDE DEF c
  <2>6. SoundCall(t, c) /\ Settles(c)
    BY <2>2, <2>4 DEF SoundCall, Settles
  <2>7. Asks(t, c)
    BY <2>1, <2>5, <2>6 DEF Asks, c
  <2> QED
    BY <2>7
<1> QED
  BY <1>1, <1>2, <1>3, <1>4, <1>5 DEF Calls

LEMMA TillsAreChosen ==
  ASSUME TwinTyped, NEW ref, NEW s, NEW given \in TwinTill \cup {NoOne}
  PROVE  /\ Twin!stickyTill(ref) \in TwinTill \cup {NoOne}
         /\ Twin!resolveCashAccountForStaff(s) \in TwinTill \cup {NoOne}
<1>1. Twin!stickyTill(ref) \in TwinTill \cup {NoOne}
  <2> DEFINE tills == {p[1] : p \in Twin!Of(ref)}
  <2>1. \A t \in tills : t \in TwinTill
    BY MovementsAreFinite, NetIs
  <2>2. Twin!stickyTill(ref) =
          IF tills = {} THEN NoOne
          ELSE IF FirstTill \in tills THEN FirstTill ELSE CHOOSE t \in tills : TRUE
    BY DEF Twin!stickyTill
  <2> HIDE DEF tills
  <2>3. tills # {} => (CHOOSE t \in tills : TRUE) \in tills
    OBVIOUS
  <2> QED
    BY <2>1, <2>2, <2>3
<1>2. Twin!resolveCashAccountForStaff(s) \in TwinTill \cup {NoOne}
  BY DEF Twin!resolveCashAccountForStaff
<1> QED
  BY <1>1, <1>2

LEMMA SessionsAsk ==
  ASSUME TwinTyped, Twin!syncSessionPaid
  PROVE  \E t \in TwinTill : \E c : Asks(t, c)
<1>1. PICK given \in TwinTill \cup {NoOne}, s \in TwinStaff, target \in Target, at \in Moment :
        LET t == Twin!FirstOf(Twin!stickyTill("session"), given, Twin!resolveCashAccountForStaff(s))
            type == Twin!planSessionPaidSync(target, Twin!shouldAllowSessionCashCredit(t, at))
        IN
        /\ type # NoOne /\ t # NoOne
        /\ Twin!withLock(t, [Twin!Call("post", target - Twin!Net("session"), "session") EXCEPT
                               !.type = type, !.target = target])
  BY DEF Twin!syncSessionPaid
<1> DEFINE t == Twin!FirstOf(Twin!stickyTill("session"), given, Twin!resolveCashAccountForStaff(s))
           net == Twin!Net("session")
           type == Twin!planSessionPaidSync(target, Twin!shouldAllowSessionCashCredit(t, at))
           c == [Twin!Call("post", target - net, "session") EXCEPT !.type = type, !.target = target]
<1>2. type # NoOne /\ t # NoOne /\ Twin!withLock(t, c)
  BY <1>1
<1>3. t \in TwinTill
  BY <1>2, TillsAreChosen DEF Twin!FirstOf
<1>4. target \in Nat /\ net \in Int
  BY TwinAssumption, NetIs
<1>5. type \in {"SESSION_PAYMENT", "CORRECTION", "REVERSAL"} /\ target # net
  BY <1>2 DEF Twin!planSessionPaidSync
<1>6. c \in [kind: {"post"}, type: {type}, amount: {target - net}, ref: {"session"}, of: {0},
             at: {0}, paid: {FALSE}, target: {target}]
  BY DEF Twin!Call
<1>7. target - net \in Int /\ target - net # 0
  BY <1>4, <1>5
<1> HIDE DEF t, type, net
<1>8. c \in AnyCall
  BY <1>4, <1>5, <1>7 DEF AnyCall, Kind, Twin!Call
<1> HIDE DEF c
<1>9. SoundCall(t, c) /\ Settles(c)
  BY <1>2, <1>6, <1>7 DEF SoundCall, Settles, net
<1>10. Asks(t, c)
  BY <1>2, <1>8, <1>9 DEF Asks
<1> QED
  BY <1>3, <1>10

LEMMA PrimesAsk ==
  ASSUME TwinTyped, Twin!syncShiftPrime
  PROVE  \E t \in TwinTill : \E c : Asks(t, c)
<1>1. PICK given \in TwinTill \cup {NoOne}, s \in TwinStaff \cup {NoOne}, d \in Prime, at \in Moment,
           paid \in BOOLEAN :
        LET t == Twin!FirstOf(Twin!stickyTill("shift"), Twin!resolveCashAccountForStaff(s), given) IN
          /\ t # NoOne
          /\ Twin!withLock(t, [Twin!Call("prime", d, "shift") EXCEPT !.at = at, !.paid = paid])
  BY DEF Twin!syncShiftPrime
<1> DEFINE t == Twin!FirstOf(Twin!stickyTill("shift"), Twin!resolveCashAccountForStaff(s), given)
           c == [Twin!Call("prime", d, "shift") EXCEPT !.at = at, !.paid = paid]
<1>2. t # NoOne /\ Twin!withLock(t, c)
  BY <1>1
<1>3. t \in TwinTill
  BY <1>2, TillsAreChosen DEF Twin!FirstOf
<1>4. d \in Int /\ at \in Nat
  BY TwinAssumption
<1>5. c \in [kind: {"prime"}, type: {NoOne}, amount: {d}, ref: {"shift"}, of: {0},
             at: {at}, paid: {paid}, target: {0}]
  BY DEF Twin!Call
<1> HIDE DEF t, c
<1>6. c \in AnyCall
  BY <1>4, <1>5 DEF AnyCall, Kind
<1>7. SoundCall(t, c) /\ Settles(c)
  BY <1>5 DEF SoundCall, Settles
<1>8. Asks(t, c)
  BY <1>2, <1>6, <1>7 DEF Asks
<1> QED
  BY <1>3, <1>8

-----------------------------------------------------------------------------
LEMMA TwinCardinality == ASSUME NEW S PROVE Twin!Cardinality(S) = Cardinality(S)
BY ZenonT(30) DEF Twin!Cardinality, Cardinality

LEMMA PendingMoves ==
  ASSUME TwinTyped, NEW t \in TwinTill, NEW d \in Int,
         waiting' \in [TwinTill -> Seq(AnyCall)],
         \A u \in TwinTill \ {t} : waiting'[u] = waiting[u],
         Len(waiting'[t]) = Len(waiting[t]) + d
  PROVE  Twin!Pending' = Twin!Pending + d
<1>1. Twin!Pending' = WaitingAt(waiting')
  BY DEF Twin!Pending, WaitingAt, Twin!MapThenSumSet, Twin!MapThenFoldSet
<1>2. Twin!Pending = WaitingAt(waiting)
  BY PendingIs
<1>3. waiting \in [TwinTill -> Seq(AnyCall)]
  BY DEF TwinTyped
<1> QED
  BY <1>1, <1>2, <1>3, WaitingMoves

LEMMA SameBook ==
  ASSUME book' = book, test' = test
  PROVE  /\ \A t, c : SoundCall(t, c)' <=> SoundCall(t, c)
         /\ \A c : Settles(c)' <=> Settles(c)
         /\ Twin!allMovements' = Twin!allMovements
         /\ Twin!ReversedOnce' <=> Twin!ReversedOnce
<1>1. Twin!Net("session")' = Twin!Net("session") /\ Twin!allMovements' = Twin!allMovements
  BY SameBookSameNet
<1> QED
  BY <1>1 DEF SoundCall, Settles, Twin!ReversedOnce

LEMMA AskStep ==
  ASSUME TwinInv, NEW t \in TwinTill, NEW c, Asks(t, c)
  PROVE  TwinInv'
<1>1. /\ TwinTyped /\ RoomIsLeft /\ CallsAreSound /\ OneAtATime /\ CallsStillSettle
      /\ Twin!ReversedOnce
  BY DEF TwinInv
<1>2. /\ c \in AnyCall /\ SoundCall(t, c) /\ Settles(c)
      /\ Twin!MayCall(c.kind) /\ Twin!Pending + Cardinality(Twin!allMovements) < TwinMovements
      /\ waiting' = [waiting EXCEPT ![t] = Append(@, c)]
      /\ UNCHANGED <<test, cash, book, assigned, since>>
  BY TwinCardinality DEF Asks, Twin!withLock
<1>3. waiting \in [TwinTill -> Seq(AnyCall)] /\ waiting[t] \in Seq(AnyCall)
  BY <1>1 DEF TwinTyped
<1>4. waiting'[t] = Append(waiting[t], c) /\ \A u \in TwinTill \ {t} : waiting'[u] = waiting[u]
  BY <1>2, <1>3
<1>5. waiting' \in [TwinTill -> Seq(AnyCall)]
  BY <1>2, <1>3, AppendProperties
<1>6. /\ Len(waiting[t]) \in Nat /\ Len(waiting'[t]) = Len(waiting[t]) + 1
      /\ waiting'[t][Len(waiting[t]) + 1] = c
      /\ \A i \in 1 .. Len(waiting[t]) : waiting'[t][i] = waiting[t][i]
  BY <1>2, <1>3, <1>4, AppendProperties, LenProperties
<1>7. Twin!Pending' = Twin!Pending + 1
  BY <1>1, <1>4, <1>5, <1>6, PendingMoves
<1>8. TwinTyped'
  BY <1>1, <1>2, <1>5 DEF TwinTyped
<1>9. /\ \A u, x : SoundCall(u, x)' <=> SoundCall(u, x)
      /\ \A x : Settles(x)' <=> Settles(x)
      /\ Twin!allMovements' = Twin!allMovements
      /\ Twin!ReversedOnce'
  BY <1>1, <1>2, SameBook
<1>10. Twin!Pending \in Nat /\ Cardinality(Twin!allMovements) \in Nat
  BY <1>1, PendingIs, MovementsAreFinite, FS_CardinalityType
<1>11. RoomIsLeft'
  <2>1. Twin!Pending' + Cardinality(Twin!allMovements)' <= TwinMovements
    BY <1>2, <1>7, <1>9, <1>10, TwinAssumption
  <2> QED
    BY <1>1, <1>2, <2>1 DEF RoomIsLeft
<1>12. ASSUME NEW u \in TwinTill, NEW i \in 1 .. Len(waiting'[u])
       PROVE  \/ waiting'[u][i] = c /\ u = t
              \/ i \in 1 .. Len(waiting[u]) /\ waiting'[u][i] = waiting[u][i]
  <2>1. CASE u = t
    BY <1>6, <1>12, <2>1
  <2>2. CASE u # t
    BY <1>4, <1>12, <2>2
  <2> QED
    BY <2>1, <2>2
<1>13. CallsAreSound'
  <2>1. ASSUME NEW u \in TwinTill, NEW i \in 1 .. Len(waiting'[u])
        PROVE  SoundCall(u, waiting'[u][i])
    BY <1>1, <1>2, <1>12 DEF CallsAreSound
  <2>2. ASSUME NEW u \in TwinTill, NEW i \in 1 .. Len(waiting'[u])
        PROVE  SoundCall(u, waiting[u][i])'
    BY <1>2, <2>1 DEF SoundCall
  <2> QED
    BY <2>2 DEF CallsAreSound
<1>14. OneAtATime'
  BY <1>2, <1>7 DEF OneAtATime, Twin!MayCall
<1>15. CallsStillSettle'
  <2>1. ASSUME NEW u \in TwinTill, NEW i \in 1 .. Len(waiting'[u])
        PROVE  Settles(waiting'[u][i])
    BY <1>1, <1>2, <1>12 DEF CallsStillSettle
  <2>2. ASSUME NEW u \in TwinTill, NEW i \in 1 .. Len(waiting'[u])
        PROVE  Settles(waiting[u][i])'
    <3>1. Twin!Net("session")' = Twin!Net("session")
      BY <1>2, SameBookSameNet
    <3> QED
      BY <1>2, <2>1, <3>1 DEF Settles
  <2> QED
    BY <2>2 DEF CallsStillSettle
<1> QED
  BY <1>8, <1>9, <1>11, <1>13, <1>14, <1>15 DEF TwinInv

-----------------------------------------------------------------------------
(***************************************************************************)
(* Nothing is asked and nothing is posted.                                 *)
(***************************************************************************)
LEMMA QuietStep ==
  ASSUME TwinInv, UNCHANGED <<test, cash, book, waiting>>,
         assigned' \in [TwinTill -> TwinStaff \cup {NoOne}],
         since' \in [TwinTill -> Nat \cup {NoOne}]
  PROVE  TwinInv'
<1>1. /\ TwinTyped /\ RoomIsLeft /\ CallsAreSound /\ OneAtATime /\ CallsStillSettle
      /\ Twin!ReversedOnce
  BY DEF TwinInv
<1>2. TwinTyped'
  BY <1>1 DEF TwinTyped
<1>3. /\ Twin!allMovements' = Twin!allMovements /\ Twin!ReversedOnce'
      /\ Twin!Net("session")' = Twin!Net("session")
  BY <1>1, SameBook, SameBookSameNet
<1>4. Twin!Pending' = Twin!Pending
  BY DEF Twin!Pending, Twin!MapThenSumSet, Twin!MapThenFoldSet
<1>5. RoomIsLeft' /\ OneAtATime'
  BY <1>1, <1>3, <1>4 DEF RoomIsLeft, OneAtATime
<1>6. CallsAreSound'
  BY <1>1 DEF CallsAreSound, SoundCall
<1>7. CallsStillSettle'
  BY <1>1, <1>3 DEF CallsStillSettle, Settles
<1> QED
  BY <1>2, <1>3, <1>5, <1>6, <1>7 DEF TwinInv

LEMMA TrackStep ==
  ASSUME TwinInv, NEW t \in TwinTill, Twin!setCashTrackingStartedAt(t)
  PROVE  TwinInv'
<1>1. since \in [TwinTill -> Nat \cup {NoOne}] /\ assigned \in [TwinTill -> TwinStaff \cup {NoOne}]
  BY DEF TwinInv, TwinTyped
<1>2. PICK at \in Moment \cup {NoOne} : since' = [since EXCEPT ![t] = at]
  BY DEF Twin!setCashTrackingStartedAt
<1>3. UNCHANGED <<test, cash, book, assigned, waiting>>
  BY DEF Twin!setCashTrackingStartedAt
<1>4. at \in Nat \cup {NoOne}
  BY TwinAssumption
<1>5. since' \in [TwinTill -> Nat \cup {NoOne}]
  BY <1>1, <1>2, <1>4
<1> QED
  BY <1>1, <1>3, <1>5, QuietStep

LEMMA AssignStep ==
  ASSUME TwinInv, NEW t \in TwinTill, Twin!assignStaffToCashAccount(t)
  PROVE  TwinInv'
<1>1. since \in [TwinTill -> Nat \cup {NoOne}] /\ assigned \in [TwinTill -> TwinStaff \cup {NoOne}]
  BY DEF TwinInv, TwinTyped
<1>2. PICK s \in TwinStaff \cup {NoOne} : assigned' = [assigned EXCEPT ![t] = s]
  BY DEF Twin!assignStaffToCashAccount
<1>3. UNCHANGED <<test, cash, book, since, waiting>>
  BY DEF Twin!assignStaffToCashAccount
<1>4. assigned' \in [TwinTill -> TwinStaff \cup {NoOne}]
  BY <1>1, <1>2
<1> QED
  BY <1>1, <1>3, <1>4, QuietStep

-----------------------------------------------------------------------------
(***************************************************************************)
(* A call has its turn.                                                    *)
(***************************************************************************)
LEMMA LeavesIs ==
  ASSUME TwinTyped, NEW t \in TwinTill, Twin!Leaves(t)
  PROVE  /\ waiting[t] # << >> /\ Head(waiting[t]) = waiting[t][1] /\ 1 \in 1 .. Len(waiting[t])
         /\ Head(waiting[t]) \in AnyCall
         /\ test' = test /\ assigned' = assigned
         /\ waiting' \in [TwinTill -> Seq(AnyCall)]
         /\ \A u \in TwinTill : \A i \in 1 .. Len(waiting'[u]) :
              \E j \in 1 .. Len(waiting[u]) : waiting'[u][i] = waiting[u][j]
         /\ Twin!Pending' = Twin!Pending - 1
<1>1. /\ waiting[t] # << >> /\ waiting' = [waiting EXCEPT ![t] = Tail(@)]
      /\ test' = test /\ assigned' = assigned
  BY DEF Twin!Leaves
<1>2. waiting \in [TwinTill -> Seq(AnyCall)] /\ waiting[t] \in Seq(AnyCall)
  BY DEF TwinTyped
<1>3. /\ Len(waiting[t]) \in Nat /\ Len(waiting[t]) # 0 /\ Tail(waiting[t]) \in Seq(AnyCall)
      /\ Len(Tail(waiting[t])) = Len(waiting[t]) - 1
      /\ Head(waiting[t]) \in AnyCall
      /\ \A i \in 1 .. Len(Tail(waiting[t])) : Tail(waiting[t])[i] = waiting[t][i + 1]
  BY <1>1, <1>2, HeadTailProperties, LenProperties, EmptySeq
<1>4. waiting'[t] = Tail(waiting[t]) /\ \A u \in TwinTill \ {t} : waiting'[u] = waiting[u]
  BY <1>1, <1>2
<1>5. waiting' \in [TwinTill -> Seq(AnyCall)]
  BY <1>1, <1>2, <1>3
<1>6. ASSUME NEW u \in TwinTill, NEW i \in 1 .. Len(waiting'[u])
      PROVE  \E j \in 1 .. Len(waiting[u]) : waiting'[u][i] = waiting[u][j]
  <2>1. CASE u = t
    <3>1. i \in 1 .. Len(waiting[t]) - 1
      BY <1>3, <1>4, <1>6, <2>1
    <3>2. i + 1 \in 1 .. Len(waiting[t]) /\ waiting'[t][i] = waiting[t][i + 1]
      BY <1>3, <1>4, <3>1
    <3> QED
      BY <2>1, <3>2
  <2>2. CASE u # t
    BY <1>4, <1>6, <2>2
  <2> QED
    BY <2>1, <2>2
<1>7. Twin!Pending' = Twin!Pending - 1
  <2>1. -1 \in Int /\ Len(waiting'[t]) = Len(waiting[t]) + (-1)
    BY <1>3, <1>4
  <2>2. Twin!Pending' = Twin!Pending + (-1)
    BY <1>4, <1>5, <2>1, PendingMoves
  <2> QED
    BY <2>2, PendingIs
<1>8. Head(waiting[t]) = waiting[t][1] /\ 1 \in 1 .. Len(waiting[t])
  BY <1>2, <1>3
<1> QED
  BY <1>1, <1>3, <1>5, <1>6, <1>7, <1>8

LEMMA DropStep ==
  ASSUME TwinInv, NEW t \in TwinTill, Twin!PostsNothing(t)
  PROVE  TwinInv'
<1>1. /\ TwinTyped /\ RoomIsLeft /\ CallsAreSound /\ OneAtATime /\ CallsStillSettle
      /\ Twin!ReversedOnce
  BY DEF TwinInv
<1>2. Twin!Leaves(t) /\ UNCHANGED <<cash, book, since>>
  BY DEF Twin!PostsNothing
<1>3. /\ test' = test /\ assigned' = assigned /\ waiting' \in [TwinTill -> Seq(AnyCall)]
      /\ \A u \in TwinTill : \A i \in 1 .. Len(waiting'[u]) :
           \E j \in 1 .. Len(waiting[u]) : waiting'[u][i] = waiting[u][j]
      /\ Twin!Pending' = Twin!Pending - 1
  BY <1>1, <1>2, LeavesIs
<1>4. TwinTyped'
  BY <1>1, <1>2, <1>3 DEF TwinTyped
<1>5. /\ Twin!allMovements' = Twin!allMovements /\ Twin!ReversedOnce'
      /\ Twin!Net("session")' = Twin!Net("session")
  BY <1>1, <1>2, <1>3, SameBook, SameBookSameNet
<1>6. Twin!Pending \in Nat /\ Cardinality(Twin!allMovements) \in Nat
  BY <1>1, PendingIs, MovementsAreFinite, FS_CardinalityType
<1>7. RoomIsLeft'
  <2>1. Twin!Pending' + Cardinality(Twin!allMovements)' <= TwinMovements
    BY <1>1, <1>3, <1>5, <1>6, TwinAssumption DEF RoomIsLeft
  <2> QED
    BY <1>1, <1>2, <2>1 DEF RoomIsLeft
<1>8. OneAtATime'
  BY <1>1, <1>3, <1>6 DEF OneAtATime
<1>9. CallsAreSound'
  <2>1. ASSUME NEW u \in TwinTill, NEW i \in 1 .. Len(waiting'[u])
        PROVE  SoundCall(u, waiting'[u][i])
    BY <1>1, <1>3 DEF CallsAreSound
  <2>2. ASSUME NEW u \in TwinTill, NEW i \in 1 .. Len(waiting'[u])
        PROVE  SoundCall(u, waiting[u][i])'
    BY <1>2, <2>1 DEF SoundCall
  <2> QED
    BY <2>2 DEF CallsAreSound
<1>10. CallsStillSettle'
  <2>1. ASSUME NEW u \in TwinTill, NEW i \in 1 .. Len(waiting'[u])
        PROVE  Settles(waiting'[u][i])
    BY <1>1, <1>3 DEF CallsStillSettle
  <2>2. ASSUME NEW u \in TwinTill, NEW i \in 1 .. Len(waiting'[u])
        PROVE  Settles(waiting[u][i])'
    BY <1>3, <1>5, <2>1 DEF Settles
  <2> QED
    BY <2>2 DEF CallsStillSettle
<1> QED
  BY <1>4, <1>5, <1>7, <1>8, <1>9, <1>10 DEF TwinInv

-----------------------------------------------------------------------------
(***************************************************************************)
(* What a call of each kind posts.                                         *)
(***************************************************************************)
Types == {"INITIAL_BALANCE", "SESSION_PAYMENT", "MANUAL_INCOME", "WITHDRAWAL",
          "ADMIN_ADJUSTMENT", "CORRECTION", "REVERSAL", "PRIME_DEDUCTION"}

\* m is what the plan of c comes to: of its type, and of an amount it allows.
Planned(t, c, m) ==
  /\ m.type \in Types /\ m.amount \in Int
  /\ c.kind = "credit" => m.type = "MANUAL_INCOME" /\ m.amount > 0
  /\ c.kind = "withdraw" => m.type = "WITHDRAWAL" /\ m.amount < 0 /\ cash[t] + m.amount >= 0
  /\ c.kind = "adjust" => m.type = "ADMIN_ADJUSTMENT" /\ m.amount # 0
  /\ c.kind = "open" => m.type = "INITIAL_BALANCE" /\ m.amount >= 0 /\ book[t] = << >>
  /\ c.kind = "reverse" =>
       /\ m.type = "REVERSAL" /\ m.amount = -book[t][c.of].amount
       /\ book[t][c.of].type # "REVERSAL"
       /\ \A i \in 1 .. Len(book[t]) : book[t][i].reverses # c.of
  /\ c.kind = "prime" => m.amount = -Twin!Net("shift") - c.amount /\ m.amount # 0
  /\ c.kind = "post" => m.amount = c.amount

LEMMA PlanIs ==
  ASSUME TwinTyped, NEW t \in TwinTill, NEW c \in AnyCall, SoundCall(t, c), NEW m \in Twin!Plan(t, c)
  PROVE  Planned(t, c, m)
<1>1. /\ c.kind \in Kind /\ c.amount \in Int /\ c.of \in Nat
      /\ c.type \in {"SESSION_PAYMENT", "CORRECTION", "REVERSAL", NoOne}
      /\ cash[t] \in Int /\ Twin!Net("shift") \in Int
  BY NetIs DEF AnyCall, TwinTyped
<1>2. CASE c.kind = "credit"
  <2>1. m \in {[type |-> "MANUAL_INCOME", amount |-> c.amount]}
    BY <1>2 DEF Twin!Plan, Twin!planIdempotentCredit, Twin!Posting
  <2> QED
    BY <1>1, <1>2, <2>1 DEF Planned, SoundCall, Types
<1>3. CASE c.kind = "withdraw"
  <2>1. m \in {[type |-> "WITHDRAWAL", amount |-> -c.amount]} /\ ~(c.amount > cash[t])
    BY <1>3 DEF Twin!Plan, Twin!assertWithdrawAmount, Twin!Posting
  <2> QED
    BY <1>1, <1>3, <2>1 DEF Planned, SoundCall, Types
<1>4. CASE c.kind = "adjust"
  <2>1. m \in {[type |-> "ADMIN_ADJUSTMENT", amount |-> c.amount - cash[t]]} /\ c.amount # cash[t]
    BY <1>4 DEF Twin!Plan, Twin!planAdjustment, Twin!Posting
  <2> QED
    BY <1>1, <1>4, <2>1 DEF Planned, Types
<1>5. CASE c.kind = "open"
  <2>1. m \in {[type |-> "INITIAL_BALANCE", amount |-> c.amount]} /\ book[t] = << >>
    BY <1>5 DEF Twin!Plan, Twin!planInitialBalance, Twin!Posting
  <2> QED
    BY <1>1, <1>5, <2>1 DEF Planned, SoundCall, Types
<1>6. CASE c.kind = "reverse"
  <2>1. /\ m \in {[type |-> "REVERSAL", amount |-> -book[t][c.of].amount]}
        /\ book[t][c.of].type # "REVERSAL"
        /\ ~ \E i \in DOMAIN book[t] : book[t][i].reverses = c.of
    BY <1>6 DEF Twin!Plan, Twin!planReversal, Twin!Posting
  <2>2. c.of \in 1 .. Len(book[t])
    BY <1>6 DEF SoundCall
  <2>3. book[t][c.of] \in Twin!Movement /\ DOMAIN book[t] = 1 .. Len(book[t])
    BY <2>2, ElementOfSeq, LenProperties DEF TwinTyped
  <2>4. book[t][c.of].amount \in Int
    BY <2>3 DEF Twin!Movement
  <2> QED
    BY <1>6, <2>1, <2>3, <2>4 DEF Planned, Types
<1>7. CASE c.kind = "prime"
  <2>1. /\ m \in {[type |-> "PRIME_DEDUCTION", amount |-> -Twin!Net("shift") - c.amount]}
        /\ c.amount # -Twin!Net("shift")
    BY <1>7 DEF Twin!Plan, Twin!planShiftPrimeSync, Twin!Posting
  <2> QED
    BY <1>1, <1>7, <2>1 DEF Planned, Types
<1>8. CASE c.kind = "post"
  <2>1. m \in {[type |-> c.type, amount |-> c.amount]}
    BY <1>8 DEF Twin!Plan, Twin!Posting
  <2> QED
    BY <1>1, <1>8, <2>1 DEF Planned, SoundCall, Types
<1> QED
  BY <1>1, <1>2, <1>3, <1>4, <1>5, <1>6, <1>7, <1>8 DEF Kind

-----------------------------------------------------------------------------
\* The movement that the first call of the till t posts, when its plan is m.
Entered(t, m) ==
  [type |-> m.type, amount |-> m.amount, before |-> cash[t], after |-> cash[t] + m.amount,
   reverses |-> Head(waiting[t]).of, ref |-> Head(waiting[t]).ref]

LEMMA PostIs ==
  ASSUME TwinInv, NEW t \in TwinTill, Twin!post(t)
  PROVE  \E m : /\ Planned(t, Head(waiting[t]), m)
                /\ Posts(t, Entered(t, m))
                /\ cash' = [cash EXCEPT ![t] = @ + m.amount]
                /\ since' \in [TwinTill -> Nat \cup {NoOne}]
                /\ SoundCall(t, Head(waiting[t])) /\ Settles(Head(waiting[t]))
<1> DEFINE c == Head(waiting[t])
<1>1. TwinTyped /\ RoomIsLeft /\ CallsAreSound /\ CallsStillSettle
  BY DEF TwinInv
<1>2. /\ Twin!Leaves(t)
      /\ since' = IF c.kind = "open"
                  THEN [since EXCEPT ![t] = Twin!Cardinality(Twin!allMovements) + 1] ELSE since
  BY DEF Twin!post
<1>3. PICK m \in Twin!Plan(t, c) :
        LET after == cash[t] + m.amount IN
        /\ book' = [book EXCEPT ![t] =
             Append(@, [type |-> m.type, amount |-> m.amount, before |-> cash[t],
                        after |-> after, reverses |-> c.of, ref |-> c.ref])]
        /\ cash' = [cash EXCEPT ![t] = after]
  BY DEF Twin!post
<1>4. c = waiting[t][1] /\ 1 \in 1 .. Len(waiting[t]) /\ c \in AnyCall /\ waiting[t] # << >>
  BY <1>1, <1>2, LeavesIs
<1>5. SoundCall(t, c) /\ Settles(c)
  BY <1>1, <1>4 DEF CallsAreSound, CallsStillSettle
<1> HIDE DEF c
<1>6. Planned(t, c, m)
  BY <1>1, <1>3, <1>4, <1>5, PlanIs
<1>7. cash \in [TwinTill -> Int] /\ cash[t] \in Int
  BY <1>1 DEF TwinTyped
<1>8. m.amount \in Int /\ m.type \in Types /\ cash[t] + m.amount \in Int
  BY <1>6, <1>7 DEF Planned
<1>9. c.of \in Nat /\ c.ref \in {"session", "shift", "receipt", NoOne}
  BY <1>4 DEF AnyCall
<1>10. Entered(t, m) \in Twin!Movement
  BY <1>7, <1>8, <1>9 DEF Entered, Twin!Movement, Types, c
<1>11. Posts(t, Entered(t, m))
  <2>1. book' = [book EXCEPT ![t] = Append(@, Entered(t, m))]
    BY <1>3 DEF Entered, c
  <2>2. Len(book[t]) < TwinMovements
    BY <1>1, <1>4, TillHasRoom
  <2> QED
    BY <1>10, <2>1, <2>2 DEF Posts
<1>12. since' \in [TwinTill -> Nat \cup {NoOne}]
  <2>1. Cardinality(Twin!allMovements) \in Nat
    BY <1>1, MovementsAreFinite, FS_CardinalityType
  <2>2. Twin!Cardinality(Twin!allMovements) + 1 \in Nat
    BY <2>1, TwinCardinality
  <2>3. since \in [TwinTill -> Nat \cup {NoOne}]
    BY <1>1 DEF TwinTyped
  <2> QED
    BY <1>2, <2>2, <2>3
<1>13. cash' = [cash EXCEPT ![t] = @ + m.amount]
  BY <1>3
<1> QED
  BY <1>5, <1>6, <1>11, <1>12, <1>13 DEF c

LEMMA PendingNext ==
  ASSUME waiting' \in [TwinTill -> Seq(AnyCall)]
  PROVE  \A u \in TwinTill : Len(waiting'[u]) \in Nat /\ Len(waiting'[u]) <= Twin!Pending'
<1>1. Twin!Pending' = WaitingAt(waiting')
  BY DEF Twin!Pending, WaitingAt, Twin!MapThenSumSet, Twin!MapThenFoldSet
<1> QED
  BY <1>1, WaitingIsNat, LenProperties

LEMMA PostStep ==
  ASSUME TwinInv, NEW t \in TwinTill, Twin!post(t)
  PROVE  TwinInv'
<1> DEFINE c == Head(waiting[t])
<1>1. /\ TwinTyped /\ RoomIsLeft /\ CallsAreSound /\ OneAtATime /\ CallsStillSettle
      /\ Twin!ReversedOnce
  BY DEF TwinInv
<1>2. PICK m : /\ Planned(t, c, m) /\ Posts(t, Entered(t, m))
               /\ cash' = [cash EXCEPT ![t] = @ + m.amount]
               /\ since' \in [TwinTill -> Nat \cup {NoOne}]
               /\ SoundCall(t, c)
  BY PostIs
<1>3. Twin!Leaves(t)
  BY DEF Twin!post
<1>4. /\ test' = test /\ assigned' = assigned /\ waiting' \in [TwinTill -> Seq(AnyCall)]
      /\ \A u \in TwinTill : \A i \in 1 .. Len(waiting'[u]) :
           \E j \in 1 .. Len(waiting[u]) : waiting'[u][i] = waiting[u][j]
      /\ Twin!Pending' = Twin!Pending - 1
      /\ c \in AnyCall
  BY <1>1, <1>3, LeavesIs
<1>5. /\ book' \in [TwinTill -> Seq(Twin!Movement)]
      /\ Len(book[t]) \in Nat /\ Len(book'[t]) = Len(book[t]) + 1
      /\ book'[t][Len(book[t]) + 1] = Entered(t, m)
      /\ \A i \in 1 .. Len(book[t]) : book'[t][i] = book[t][i]
      /\ \A u \in TwinTill \ {t} : book'[u] = book[u]
  BY <1>1, <1>2, PostsIs
<1>6. /\ Cardinality(Twin!allMovements)' = Cardinality(Twin!allMovements) + 1
      /\ \A u \in TwinTill : Len(book'[u]) <= TwinMovements
  BY <1>1, <1>2, PostCounts
<1>7. Twin!Pending \in Nat /\ Cardinality(Twin!allMovements) \in Nat
  BY <1>1, PendingIs, MovementsAreFinite, FS_CardinalityType
<1>8. TwinTyped'
  <2>1. cash \in [TwinTill -> Int] /\ m.amount \in Int
    BY <1>1, <1>2 DEF TwinTyped, Planned
  <2>2. cash' \in [TwinTill -> Int]
    BY <1>2, <2>1
  <2> QED
    BY <1>1, <1>2, <1>4, <1>5, <2>2 DEF TwinTyped
<1>9. RoomIsLeft'
  <2>1. Twin!Pending' + Cardinality(Twin!allMovements)' <= TwinMovements
    BY <1>1, <1>4, <1>6, <1>7, TwinAssumption DEF RoomIsLeft
  <2> QED
    BY <1>6, <2>1 DEF RoomIsLeft
<1>10. OneAtATime'
  BY <1>1, <1>4, <1>7 DEF OneAtATime
<1>11. \A u \in TwinTill : Len(book[u]) \in Nat /\ Len(book[u]) <= Len(book'[u])
  <2>1. \A u \in TwinTill : Len(book[u]) \in Nat
    BY <1>1, LenProperties DEF TwinTyped
  <2> QED
    BY <1>5, <2>1
<1>12. CallsAreSound'
  <2>1. ASSUME NEW u \in TwinTill, NEW i \in 1 .. Len(waiting'[u])
        PROVE  SoundCall(u, waiting'[u][i])
    BY <1>1, <1>4 DEF CallsAreSound
  <2>2. ASSUME NEW u \in TwinTill, NEW i \in 1 .. Len(waiting'[u])
        PROVE  SoundCall(u, waiting[u][i])'
    <3>1. 1 .. Len(book[u]) \subseteq 1 .. Len(book'[u])
      <4>1. Len(book[u]) \in Nat /\ Len(book[u]) <= Len(book'[u]) /\ Len(book'[u]) \in Nat
        BY <1>5, <1>11, LenProperties
      <4> QED
        BY <4>1
    <3> QED
      BY <2>1, <3>1 DEF SoundCall
  <2> QED
    BY <2>2 DEF CallsAreSound
<1>13. CallsStillSettle'
  <2>1. CASE test.overlap
    BY <1>4, <2>1 DEF CallsStillSettle, Settles
  <2>2. CASE ~test.overlap
    <3>1. Twin!Pending' <= 0
      BY <1>1, <1>4, <1>7, <2>2 DEF OneAtATime
    <3>2. \A u \in TwinTill : Len(waiting'[u]) = 0
      BY <1>4, <1>7, <3>1, PendingNext
    <3>3. \A u \in TwinTill : 1 .. Len(waiting'[u]) = {}
      BY <3>2
    <3> QED
      BY <3>3 DEF CallsStillSettle
  <2> QED
    BY <2>1, <2>2
<1>14. Twin!ReversedOnce'
  <2> DEFINE n == Len(book[t])
             e == Entered(t, m)
  <2>1. e.reverses = c.of
    BY DEF Entered
  <2>2. c.of # 0 => \A i \in 1 .. n : book[t][i].reverses # c.of
    BY <1>2 DEF SoundCall, Planned
  <2>3. DOMAIN book'[t] = 1 .. n + 1 /\ \A u \in TwinTill : DOMAIN book[u] = 1 .. Len(book[u])
    BY <1>1, <1>5, LenProperties DEF TwinTyped
  <2> HIDE DEF c, e
  <2>4. ASSUME NEW i \in 1 .. n + 1, NEW j \in 1 .. n + 1,
               book'[t][i].reverses = book'[t][j].reverses, book'[t][i].reverses # 0
        PROVE  i = j
    <3>1. CASE i = n + 1 /\ j # n + 1
      <4>1. j \in 1 .. n /\ book'[t][j] = book[t][j] /\ book'[t][i] = e
        BY <1>5, <3>1 DEF e
      <4> QED
        BY <2>1, <2>2, <2>4, <4>1
    <3>2. CASE i # n + 1 /\ j = n + 1
      <4>1. i \in 1 .. n /\ book'[t][i] = book[t][i] /\ book'[t][j] = e
        BY <1>5, <3>2 DEF e
      <4> QED
        BY <2>1, <2>2, <2>4, <4>1
    <3>3. CASE i # n + 1 /\ j # n + 1
      <4>1. i \in 1 .. n /\ j \in 1 .. n /\ book'[t][i] = book[t][i] /\ book'[t][j] = book[t][j]
        BY <1>5, <3>3
      <4> QED
        BY <1>1, <2>3, <2>4, <4>1 DEF Twin!ReversedOnce
    <3> QED
      BY <3>1, <3>2, <3>3
  <2>5. ASSUME NEW u \in TwinTill, NEW i \in DOMAIN book'[u], NEW j \in DOMAIN book'[u],
               book'[u][i].reverses = book'[u][j].reverses, book'[u][i].reverses # 0
        PROVE  i = j
    <3>1. CASE u = t
      BY <2>3, <2>4, <2>5, <3>1
    <3>2. CASE u # t
      BY <1>1, <1>5, <2>5, <3>2 DEF Twin!ReversedOnce
    <3> QED
      BY <3>1, <3>2
  <2> QED
    BY <2>5 DEF Twin!ReversedOnce
<1> QED
  BY <1>8, <1>9, <1>10, <1>12, <1>13, <1>14 DEF TwinInv

-----------------------------------------------------------------------------
\* A sum of noughts.
LEMMA NothingWaits ==
  ASSUME NEW C, NEW w \in [TwinTill -> Seq(C)], \A t \in TwinTill : Len(w[t]) = 0
  PROVE  WaitingAt(w) = 0
<1> DEFINE T == TwinTill
           f == Lengths(w)
           z == [s \in SUBSET T |-> 0]
<1>1. IsFiniteSet(T) /\ f \in [T -> Int] /\ \A t \in T : f[t] = 0
  BY TwinAssumption DEF Lengths
<1>2. PICK g : Adds(g, f, T) /\ WaitingAt(w) = g[T]
  BY WaitingAtIs
<1> HIDE DEF f, T
<1>3. Adds(z, f, T)
  <2>1. z \in [SUBSET T -> Int] /\ z[{}] = 0
    OBVIOUS
  <2>2. ASSUME NEW s \in SUBSET T, NEW t \in s PROVE z[s] = f[t] + z[s \ {t}]
    <3>1. s \ {t} \in SUBSET T /\ t \in T
      OBVIOUS
    <3> QED
      BY <1>1, <3>1
  <2> QED
    BY <2>1, <2>2 DEF Adds
<1>4. PICK D \in SUBSET T : D = T
  OBVIOUS
<1>5. z[D] = 0
  OBVIOUS
<1> HIDE DEF z
<1>6. g[D] = z[D]
  BY <1>1, <1>2, <1>3, SamePart
<1> QED
  BY <1>2, <1>4, <1>5, <1>6

LEMMA TwinInvInit == Twin!Init => TwinInv
<1> SUFFICES ASSUME Twin!Init PROVE TwinInv
  OBVIOUS
<1>1. /\ test \in Twin!Tests
      /\ cash = [t \in TwinTill |-> 0] /\ book = [t \in TwinTill |-> << >>]
      /\ assigned = [t \in TwinTill |-> NoOne] /\ since = [t \in TwinTill |-> 0]
      /\ waiting = [t \in TwinTill |-> << >>]
  BY TwinAssumption DEF Twin!Init
<1>2. TwinTyped
  BY <1>1, EmptySeq DEF TwinTyped
<1>3. \A t \in TwinTill : book[t] = << >> /\ Len(book[t]) = 0 /\ waiting[t] = << >> /\ Len(waiting[t]) = 0
  BY <1>1, EmptySeq
<1>4. Twin!allMovements = {}
  BY <1>3 DEF Twin!allMovements
<1>5. Twin!Pending = 0
  <2>1. Twin!Pending = WaitingAt(waiting)
    BY <1>2, PendingIs
  <2>2. WaitingAt(waiting) = 0
    BY <1>2, <1>3, NothingWaits DEF TwinTyped
  <2> QED
    BY <2>1, <2>2
<1>6. RoomIsLeft
  BY <1>3, <1>4, <1>5, FS_EmptySet, TwinAssumption DEF RoomIsLeft
<1>7. CallsAreSound /\ CallsStillSettle
  <2>1. \A t \in TwinTill : 1 .. Len(waiting[t]) = {}
    BY <1>3
  <2> QED
    BY <2>1 DEF CallsAreSound, CallsStillSettle
<1>8. OneAtATime
  BY <1>5 DEF OneAtATime
<1>9. Twin!ReversedOnce
  BY <1>3 DEF Twin!ReversedOnce
<1> QED
  BY <1>2, <1>6, <1>7, <1>8, <1>9 DEF TwinInv

LEMMA TwinInvStep == TwinInv /\ [Twin!Next]_(Twin!vars) => TwinInv'
<1> SUFFICES ASSUME TwinInv, [Twin!Next]_(Twin!vars) PROVE TwinInv'
  OBVIOUS
<1>1. CASE UNCHANGED Twin!vars
  BY <1>1, QuietStep DEF Twin!vars, TwinInv, TwinTyped
<1>2. TwinTyped
  BY DEF TwinInv
<1>3. CASE \E t \in TwinTill : \E c : Asks(t, c)
  BY <1>3, AskStep
<1>4. CASE \E t \in TwinTill : Twin!post(t) \/ Twin!PostsNothing(t)
  BY <1>4, PostStep, DropStep
<1>5. CASE \E t \in TwinTill : Twin!setCashTrackingStartedAt(t) \/ Twin!assignStaffToCashAccount(t)
  BY <1>5, TrackStep, AssignStep
<1> QED
  BY <1>1, <1>2, <1>3, <1>4, <1>5, SessionsAsk, PrimesAsk, CallsAsk DEF Twin!Next, Calls

(***************************************************************************)
(* The ledger of the tests, whatever calls are made and whether or not     *)
(* they are awaited: a movement is reversed once, a call that waits still  *)
(* asks what its method has checked, and an awaited call for the session   *)
(* still posts what the session lacks.                                     *)
(***************************************************************************)
THEOREM TwinInvariant == Twin!Spec => []TwinInv
<1> QED
  BY TwinInvInit, TwinInvStep, PTL DEF Twin!Spec

\* The types as the model states them.
LEMMA TwinTypes == TwinInv => Twin!TypeOK /\ Twin!ReversedOnce
<1> SUFFICES ASSUME TwinInv PROVE Twin!TypeOK /\ Twin!ReversedOnce
  OBVIOUS
<1>1. TwinTyped /\ OneAtATime /\ Twin!ReversedOnce
  BY DEF TwinInv
<1>2. ASSUME NEW t \in TwinTill, NEW i \in DOMAIN book[t] PROVE book[t][i] \in Twin!Movement
  <2>1. book[t] \in Seq(Twin!Movement) /\ DOMAIN book[t] = 1 .. Len(book[t])
    BY <1>1, LenProperties DEF TwinTyped
  <2> QED
    BY <1>2, <2>1, ElementOfSeq
<1> QED
  BY <1>1, <1>2 DEF Twin!TypeOK, TwinTyped, OneAtATime

-----------------------------------------------------------------------------
(***************************************************************************)
(* Only the turn of a call changes a book, and it is that of its till.     *)
(***************************************************************************)
LEMMA OnlyTurnsPost ==
  ASSUME TwinInv, [Twin!Next]_(Twin!vars)
  PROVE  \/ \E t \in TwinTill : Twin!post(t)
         \/ book' = book /\ cash' = cash
<1>1. TwinTyped
  BY DEF TwinInv
<1>2. CASE UNCHANGED Twin!vars
  BY <1>2 DEF Twin!vars
<1>3. CASE \E t \in TwinTill : \E c : Asks(t, c)
  BY <1>3 DEF Asks, Twin!withLock
<1>4. CASE \E t \in TwinTill : Twin!setCashTrackingStartedAt(t) \/ Twin!assignStaffToCashAccount(t)
  BY <1>4 DEF Twin!setCashTrackingStartedAt, Twin!assignStaffToCashAccount
<1>5. CASE \E t \in TwinTill : Twin!PostsNothing(t)
  BY <1>5 DEF Twin!PostsNothing
<1> QED
  BY <1>1, <1>2, <1>3, <1>4, <1>5, SessionsAsk, PrimesAsk, CallsAsk DEF Twin!Next, Calls

PrimeSettled ==
  \A t \in TwinTill :
    Twin!PostsNow(t, "prime") => Twin!Net("shift")' = -Head(waiting[t]).amount

SessionSettled ==
  \A t \in TwinTill :
    ~test.overlap /\ Twin!PostsNow(t, "post")
      => Twin!Net("session")' = Head(waiting[t]).target

LEMMA TurnsSettle == TwinInv /\ [Twin!Next]_(Twin!vars) => PrimeSettled /\ SessionSettled
<1> SUFFICES ASSUME TwinInv, [Twin!Next]_(Twin!vars) PROVE PrimeSettled /\ SessionSettled
  OBVIOUS
<1>1. CASE book' = book
  BY <1>1 DEF PrimeSettled, SessionSettled, Twin!PostsNow
<1>2. ASSUME NEW t \in TwinTill, Twin!post(t) PROVE PrimeSettled /\ SessionSettled
  <2> DEFINE c == Head(waiting[t])
  <2>1. PICK m : /\ Planned(t, c, m) /\ Posts(t, Entered(t, m))
                 /\ SoundCall(t, c) /\ Settles(c)
    BY <1>2, PostIs
  <2>2. TwinTyped /\ RoomIsLeft
    BY DEF TwinInv
  <2>3. \A u \in TwinTill \ {t} : book'[u] = book[u]
    BY <2>1, <2>2, PostsIs
  <2>4. Entered(t, m).ref = c.ref /\ Entered(t, m).amount = m.amount
    BY DEF Entered
  <2>5. /\ Twin!Net("shift")' = Twin!Net("shift") + IF c.ref = "shift" THEN m.amount ELSE 0
        /\ Twin!Net("session")' = Twin!Net("session") + IF c.ref = "session" THEN m.amount ELSE 0
    BY <2>1, <2>2, <2>4, PostMovesNet
  <2>6. /\ Twin!Net("shift") \in Int /\ Twin!Net("session") \in Int
        /\ c \in AnyCall
    BY <1>2, <2>2, NetIs, LeavesIs DEF Twin!post
  <2>7. c.amount \in Int /\ c.target \in Nat
    BY <2>6 DEF AnyCall
  <2> HIDE DEF c
  <2>8. c.kind = "prime" => Twin!Net("shift")' = -c.amount
    BY <2>1, <2>5, <2>6, <2>7 DEF Planned, SoundCall
  <2>9. c.kind = "post" /\ ~test.overlap => Twin!Net("session")' = c.target
    BY <2>1, <2>5, <2>6, <2>7 DEF Planned, SoundCall, Settles
  <2>10. ASSUME NEW u \in TwinTill, NEW kind, Twin!PostsNow(u, kind) PROVE u = t /\ c.kind = kind
    BY <2>3, <2>10 DEF Twin!PostsNow, c
  <2> QED
    BY <2>8, <2>9, <2>10 DEF PrimeSettled, SessionSettled, c
<1> QED
  BY <1>1, <1>2, OnlyTurnsPost

-----------------------------------------------------------------------------
(***************************************************************************)
(* Refinement: the turn of a call that posts is one indivisible movement   *)
(* of TillAccounts, every other step leaves the tills as they are.         *)
(***************************************************************************)
\* A movement as TillAccounts has it.
ShownAs(m) ==
  [type |-> IF m.ref \in {"session", "shift"} THEN "SYNC" ELSE m.type,
   amount |-> m.amount, before |-> m.before, after |-> m.after, reverses |-> m.reverses]

Shown(b) == [i \in DOMAIN b |-> ShownAs(b[i])]

LEMMA EntriesAre ==
  /\ \A u : Twin!Entries(u) = Shown(book[u])
  /\ \A u : Twin!Entries(u)' = Shown(book'[u])
BY DEF Twin!Entries, Shown, ShownAs

LEMMA ShownIs ==
  ASSUME NEW b \in Seq(Twin!Movement)
  PROVE  /\ Len(Shown(b)) = Len(b) /\ Shown(b) \in Seq({ShownAs(m) : m \in Twin!Movement})
         /\ \A i \in 1 .. Len(b) : Shown(b)[i] = ShownAs(b[i])
<1> DEFINE C == {ShownAs(m) : m \in Twin!Movement}
<1>1. Len(b) \in Nat /\ DOMAIN b = 1 .. Len(b) /\ \A i \in 1 .. Len(b) : b[i] \in Twin!Movement
  BY LenProperties, ElementOfSeq
<1>2. \A i \in 1 .. Len(b) : ShownAs(b[i]) \in C
  BY <1>1
<1> HIDE DEF C
<1>3. Shown(b) = [i \in 1 .. Len(b) |-> ShownAs(b[i])]
  BY <1>1 DEF Shown
<1>4. Shown(b) \in [1 .. Len(b) -> C]
  BY <1>2, <1>3
<1>5. Shown(b) \in Seq(C)
  BY <1>1, <1>4, SeqDef
<1>6. Len(Shown(b)) = Len(b)
  BY <1>1, <1>4, <1>5, LenProperties
<1> QED
  BY <1>3, <1>5, <1>6 DEF C

LEMMA ShownAppends ==
  ASSUME NEW b \in Seq(Twin!Movement), NEW m \in Twin!Movement
  PROVE  Shown(Append(b, m)) = Append(Shown(b), ShownAs(m))
<1> DEFINE C == {ShownAs(k) : k \in Twin!Movement}
           n == Len(b)
           l == Shown(Append(b, m))
           r == Append(Shown(b), ShownAs(m))
<1>1. /\ Append(b, m) \in Seq(Twin!Movement) /\ Len(Append(b, m)) = n + 1
      /\ \A i \in 1 .. n : Append(b, m)[i] = b[i]
      /\ Append(b, m)[n + 1] = m /\ n \in Nat
  BY AppendProperties, LenProperties
<1>2. /\ l \in Seq(C) /\ Len(l) = n + 1
      /\ \A i \in 1 .. n + 1 : l[i] = ShownAs(Append(b, m)[i])
  BY <1>1, ShownIs
<1>3. /\ Shown(b) \in Seq(C) /\ Len(Shown(b)) = n /\ \A i \in 1 .. n : Shown(b)[i] = ShownAs(b[i])
  BY ShownIs
<1>4. ShownAs(m) \in C
  OBVIOUS
<1> HIDE DEF C
<1>5. /\ r \in Seq(C) /\ Len(r) = n + 1 /\ r[n + 1] = ShownAs(m)
      /\ \A i \in 1 .. n : r[i] = Shown(b)[i]
  BY <1>3, <1>4, AppendProperties
<1>6. ASSUME NEW i \in 1 .. n + 1 PROVE l[i] = r[i]
  <2>1. CASE i = n + 1
    BY <1>1, <1>2, <1>5, <2>1
  <2>2. CASE i # n + 1
    <3>1. i \in 1 .. n
      BY <1>1, <2>2
    <3> QED
      BY <1>1, <1>2, <1>3, <1>5, <3>1
  <2> QED
    BY <2>1, <2>2
<1> HIDE DEF l, r
<1> QED
  BY <1>2, <1>5, <1>6, SeqEqual DEF l, r

\* A call posts what the rules of TillAccounts allow.
LEMMA EnteredIsAllowed ==
  ASSUME TwinInv, NEW t \in TwinTill, NEW m, Planned(t, Head(waiting[t]), m),
         SoundCall(t, Head(waiting[t])), Head(waiting[t]) \in AnyCall,
         Entered(t, m) \in Twin!Movement
  PROVE  /\ ShownAs(Entered(t, m)) \in Twin!Tills!Entry
         /\ Twin!Tills!Allowed(t, ShownAs(Entered(t, m)))
<1> DEFINE c == Head(waiting[t])
           e == ShownAs(Entered(t, m))
           h == [u \in TwinTill |-> Twin!Entries(u)]
<1>1. book[t] \in Seq(Twin!Movement) /\ cash[t] \in Int
  BY DEF TwinInv, TwinTyped
<1>2. h[t] = Shown(book[t]) /\ Len(h[t]) = Len(book[t])
  BY <1>1, EntriesAre, ShownIs
<1>3. /\ e.type = IF c.ref \in {"session", "shift"} THEN "SYNC" ELSE m.type
      /\ e.amount = m.amount /\ e.before = cash[t] /\ e.after = cash[t] + m.amount
      /\ e.reverses = c.of
  BY DEF ShownAs, Entered
<1>4. c.kind \in Kind /\ c.amount \in Int /\ NoOne \notin {"session", "shift", "receipt"}
  BY TwinAssumption DEF AnyCall
<1>5. e \in Twin!Tills!Entry
  <2>1. e.type \in Twin!Tills!EntryType
    BY <1>3, <1>4 DEF Planned, SoundCall, Kind, Twin!Tills!EntryType
  <2>2. /\ e.amount \in Int /\ e.before \in Int /\ e.after \in Int /\ e.reverses \in Nat
        /\ e = [type |-> e.type, amount |-> e.amount, before |-> e.before, after |-> e.after,
                reverses |-> e.reverses]
    BY DEF ShownAs, Twin!Movement
  <2> HIDE DEF e
  <2> QED
    BY <2>1, <2>2 DEF Twin!Tills!Entry
<1> HIDE DEF e, h, c
<1>6. Twin!Tills!Allowed(t, e)
  <2>1. CASE c.kind = "credit"
    BY <1>3, <1>4, <2>1 DEF Planned, SoundCall, Twin!Tills!Allowed, c
  <2>2. CASE c.kind = "withdraw"
    BY <1>3, <1>4, <2>2 DEF Planned, SoundCall, Twin!Tills!Allowed, c
  <2>3. CASE c.kind = "adjust"
    BY <1>3, <1>4, <2>3 DEF Planned, SoundCall, Twin!Tills!Allowed, c
  <2>4. CASE c.kind = "open"
    <3>1. book[t] = << >> /\ m.amount >= 0 /\ e.type = "INITIAL_BALANCE"
      BY <1>3, <1>4, <2>4 DEF Planned, SoundCall, c
    <3>2. h[t] = << >>
      BY <1>2, <3>1, EmptySeq DEF Shown
    <3> QED
      BY <1>3, <3>1, <3>2 DEF Twin!Tills!Allowed, h
  <2>5. CASE c.kind = "reverse"
    <3>1. /\ c.of \in 1 .. Len(book[t]) /\ e.type = "REVERSAL"
          /\ e.amount = -book[t][c.of].amount /\ book[t][c.of].type # "REVERSAL"
      BY <1>3, <1>4, <2>5 DEF Planned, SoundCall, c
    <3>2. h[t][c.of] = ShownAs(book[t][c.of]) /\ c.of \in 1 .. Len(h[t])
      BY <1>1, <1>2, <3>1, ShownIs
    <3>3. h[t][c.of].type # "REVERSAL" /\ e.amount = -h[t][c.of].amount
      BY <3>1, <3>2 DEF ShownAs
    <3> QED
      BY <1>3, <3>1, <3>2, <3>3 DEF Twin!Tills!Allowed, h
  <2>6. CASE c.kind \in {"prime", "post"}
    BY <1>3, <1>4, <2>6 DEF Planned, SoundCall, Twin!Tills!Allowed, c
  <2> QED
    BY <1>4, <2>1, <2>2, <2>3, <2>4, <2>5, <2>6 DEF Kind
<1> QED
  BY <1>5, <1>6 DEF e

LEMMA TurnIsOnePost ==
  ASSUME TwinInv, NEW t \in TwinTill, Twin!post(t)
  PROVE  Twin!Tills!TillsNext
<1> DEFINE c == Head(waiting[t])
           h == [u \in TwinTill |-> Twin!Entries(u)]
<1>1. PICK m : /\ Planned(t, c, m) /\ Posts(t, Entered(t, m))
               /\ cash' = [cash EXCEPT ![t] = @ + m.amount]
               /\ SoundCall(t, c)
  BY PostIs
<1> DEFINE e == ShownAs(Entered(t, m))
<1>2. /\ TwinTyped /\ book[t] \in Seq(Twin!Movement) /\ Entered(t, m) \in Twin!Movement
      /\ book \in [TwinTill -> Seq(Twin!Movement)] /\ cash \in [TwinTill -> Int]
  BY <1>1 DEF TwinInv, TwinTyped, Posts
<1>3. c \in AnyCall
  BY <1>2, LeavesIs DEF Twin!post
<1>4. e \in Twin!Tills!Entry /\ Twin!Tills!Allowed(t, e)
  BY <1>1, <1>2, <1>3, EnteredIsAllowed
<1>5. e.before = cash[t] /\ e.after = cash[t] + e.amount /\ e.amount = m.amount
  BY DEF ShownAs, Entered
<1>6. h'[t] = Append(h[t], e) /\ \A u \in TwinTill \ {t} : h'[u] = h[u]
  <2>1. book'[t] = Append(book[t], Entered(t, m)) /\ \A u \in TwinTill \ {t} : book'[u] = book[u]
    BY <1>1, <1>2 DEF Posts
  <2>2. Shown(book'[t]) = Append(Shown(book[t]), e)
    BY <1>2, <2>1, ShownAppends
  <2> QED
    BY <2>1, <2>2, EntriesAre
<1>7. h[t] \in Seq({ShownAs(k) : k \in Twin!Movement})
  BY <1>2, EntriesAre, ShownIs
<1>8. e \in {ShownAs(k) : k \in Twin!Movement}
  BY <1>2
<1>9. h' = [u \in TwinTill |-> h'[u]] /\ DOMAIN h = TwinTill
  OBVIOUS
<1> HIDE DEF e, c
<1>10. Len(h'[t]) = Len(h[t]) + 1 /\ h'[t][Len(h'[t])] = e
  <2> DEFINE C == {ShownAs(k) : k \in Twin!Movement}
  <2> HIDE DEF C, h
  <2> QED
    BY <1>6, <1>7, <1>8, AppendProperties, LenProperties DEF C
<1>11. h' = [h EXCEPT ![t] = Append(@, e)]
  <2> HIDE DEF h
  <2> QED
    BY <1>6, <1>9
<1>12. cash' = [cash EXCEPT ![t] = e.after]
  BY <1>1, <1>2, <1>5
<1>13. Twin!Tills!Post(t)
  BY <1>4, <1>5, <1>10, <1>11, <1>12 DEF Twin!Tills!Post
<1> QED
  BY <1>13 DEF Twin!Tills!TillsNext

LEMMA TwinPostsOnce ==
  TwinInv /\ [Twin!Next]_(Twin!vars) => [Twin!Tills!TillsNext]_(Twin!Tills!tillVars)
<1> SUFFICES ASSUME TwinInv, [Twin!Next]_(Twin!vars)
             PROVE  [Twin!Tills!TillsNext]_(Twin!Tills!tillVars)
  OBVIOUS
<1>1. CASE book' = book /\ cash' = cash
  <2>1. [u \in TwinTill |-> Twin!Entries(u)]' = [u \in TwinTill |-> Twin!Entries(u)]
    BY <1>1, EntriesAre
  <2> QED
    BY <1>1, <2>1 DEF Twin!Tills!tillVars
<1> QED
  BY <1>1, OnlyTurnsPost, TurnIsOnePost

LEMMA TwinStartsEmpty == Twin!Init => Twin!Tills!TillsInit
<1> SUFFICES ASSUME Twin!Init PROVE Twin!Tills!TillsInit
  OBVIOUS
<1>1. cash = [t \in TwinTill |-> 0] /\ book = [t \in TwinTill |-> << >>]
  BY DEF Twin!Init
<1>2. ASSUME NEW t \in TwinTill PROVE Twin!Entries(t) = << >>
  <2>1. book[t] = << >> /\ DOMAIN book[t] = {}
    BY <1>1
  <2> QED
    BY <2>1, EntriesAre DEF Shown
<1> QED
  BY <1>1, <1>2 DEF Twin!Tills!TillsInit

(***************************************************************************)
(* The ledger that the tests run (MemoryCashLedger) promises what the      *)
(* service promises: it implements TillAccounts, a movement is reversed    *)
(* once, and a prime or an awaited session that is posted ends with what   *)
(* was asked for.                                                          *)
(***************************************************************************)
THEOREM TestsSeeTheAccounts == Twin!Spec => TwinKeepsAccounts
<1>1. [][PrimeSettled]_(Twin!vars) => Twin!PrimesAreSettled
  BY PTL DEF Twin!PrimesAreSettled, PrimeSettled
<1>2. [][SessionSettled]_(Twin!vars) => Twin!SessionsAreSettled
  BY PTL DEF Twin!SessionsAreSettled, SessionSettled
<1> QED
  BY <1>1, <1>2, TwinInvariant, TwinTypes, TurnsSettle, TwinPostsOnce, TwinStartsEmpty, PTL
     DEF Twin!Spec, TwinKeepsAccounts, Twin!TwinKeepsAccounts, Twin!Tills!TillsSpec
=============================================================================
