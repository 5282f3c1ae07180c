------------------------ MODULE SessionBillingProofs ------------------------
(***************************************************************************)
(* What TLAPS proves of SessionBilling, for any number of sessions, tills, *)
(* plans, requests and concurrent writers.                                 *)
(*                                                                         *)
(* The argument: whatever amounts a writer read before, and however stale  *)
(* they are, Synced looks at the movements themselves, under the lock of   *)
(* the session row, and keeps the ledger of the session sound              *)
(* (SyncedKeepsSound).  What is left to show is that a writer that updates *)
(* a row as ended works on one that has ended (TaskSound).                 *)
(*                                                                         *)
(* That the ledger says what the row says needs more: with two writers it  *)
(* fails, with one it is proved from the second invariant, FollowInv.      *)
(***************************************************************************)
EXTENDS SessionBilling, TLAPS

(***************************************************************************)
(* A sound ledger of session s.                                            *)
(***************************************************************************)
Sound(l, s) ==
  /\ l \in SessionLedger
  /\ l.net >= 0 /\ l.payments <= 1
  /\ l.tills = {} => l.net = 0
  /\ l.payments = 0 <=> l.tills = {}
  /\ \A t, u \in l.tills : t = u
  /\ l.tills \subseteq finish[s].covered

(***************************************************************************)
(* A completed session has ended; only ended sessions have movements.      *)
(***************************************************************************)
RowsSound ==
  \A s \in Session :
    /\ row[s].status = "COMPLETED" => row[s].ended
    /\ ledger[s].tills # {} => row[s].ended

(***************************************************************************)
(* What a writer carries is usable by its next step.                       *)
(***************************************************************************)
Applying(k) == k.step \in {"planRead", "paidRead"}

TaskSound(k) ==
  /\ k.step # "idle" => k.session \in Session
  /\ k.step \in {"correcting", "archiving", "requesting", "planRead", "paidRead"}
       => k.row \in SessionRow
  /\ k.step \in {"requesting", "approving"}
       => k.ticket \in Ticket /\ (k.plan # None \/ k.paid # None)
  /\ k.step \in {"planChecked", "planRead"} => k.plan \in Plan
  /\ k.step = "planChecked" => k.ticket = None
  /\ k.step = "paidRead" => k.paid \in Nat
  /\ Applying(k) => row[k.session].ended

TicketsSound ==
  \A q \in Ticket : ticket[q].state = "PENDING" =>
    ticket[q].session \in Session /\ (ticket[q].plan # None \/ ticket[q].paid # None)

(***************************************************************************)
(* A request that is being applied is pending, and by one worker only.     *)
(***************************************************************************)
ClaimsExclude ==
  \A w \in Worker : Applying(task[w]) /\ task[w].ticket # None =>
    /\ ticket[task[w].ticket].state = "PENDING"
    /\ \A v \in Worker : Applying(task[v]) /\ task[v].ticket = task[w].ticket => v = w

BillingInv ==
  /\ TypeOK
  /\ \A s \in Session : Sound(ledger[s], s)
  /\ RowsSound
  /\ \A w \in Worker : TaskSound(task[w])
  /\ TicketsSound
  /\ ClaimsExclude
  /\ OnePendingPerSession

-----------------------------------------------------------------------------
(***************************************************************************)
(* How one call may move the ledger of a session: not at all, into a till  *)
(* for the first time, or within the till it is in.                        *)
(***************************************************************************)
Moved(l, m) ==
  \/ m = l
  \/ l.tills # {} /\ m.tills = l.tills
  \/ l.tills = {} /\ \E t \in Till : m.tills = {t}

(***************************************************************************)
(* syncSessionCashLedgerInTx keeps a sound ledger sound, whatever previous *)
(* target the caller worked from, and never moves it to another till.      *)
(***************************************************************************)
LEMMA SyncedKeepsSound ==
  ASSUME TypeOK, NEW s \in Session, NEW l, Sound(l, s),
         NEW previous \in Nat, NEW target \in Nat, NEW ended,
         NEW m \in Synced(l, s, previous, target, ended)
  PROVE  /\ Sound(m, s)
         /\ Moved(l, m)
         /\ m.tills # {} => l.tills # {} \/ ended
<1>1. CASE m = l
  BY <1>1 DEF Moved
<1>2. CASE m # l
  <2>1. PICK t \in ProspectiveTill(l, s) :
          /\ Delta(l, previous, target) # 0
          /\ shouldAllowSessionCashCredit(l, s, t, ended)
          /\ m = planSessionPaidSync(l, t, previous, target)
    BY <1>2 DEF Synced
  <2>2. l.net \in Int /\ l.payments \in Nat /\ l.tills \in SUBSET Till
    BY DEF Sound, SessionLedger
  <2>3. m.net = target /\ m.tills = l.tills \cup {t}
        /\ m.payments = IF FirstRecording(l, target) THEN l.payments + 1 ELSE l.payments
    BY <2>1, <2>2 DEF planSessionPaidSync, Delta
  <2>4. CASE l.tills # {}
    <3>1. t \in l.tills /\ m.tills = l.tills
      BY <2>1, <2>3, <2>4 DEF ProspectiveTill
    <3>2. m.payments = l.payments
      BY <2>2, <2>3, <2>4 DEF Sound, FirstRecording
    <3>3. m \in SessionLedger
      BY <2>1, <2>2, <2>3, <3>1, <3>2 DEF SessionLedger, planSessionPaidSync
    <3> QED
      BY <2>2, <2>3, <2>4, <3>1, <3>2, <3>3 DEF Sound, Moved
  <2>5. CASE l.tills = {}
    <3>1. t # None /\ ended /\ t \in finish[s].covered
      BY <2>1, <2>5 DEF shouldAllowSessionCashCredit
    <3>2. t \in Till
      BY <3>1 DEF TypeOK, End
    <3>3. l.net = 0 /\ l.payments = 0 /\ target > 0
      BY <2>1, <2>2, <2>5 DEF Sound, Delta
    <3>4. m.tills = {t} /\ m.payments = 1
      BY <2>2, <2>3, <2>5, <3>3 DEF FirstRecording
    <3>5. m \in SessionLedger
      BY <2>1, <2>2, <2>3, <3>2, <3>4 DEF SessionLedger, planSessionPaidSync
    <3> QED
      BY <2>3, <2>5, <3>1, <3>2, <3>4, <3>5 DEF Sound, Moved
  <2> QED
    BY <2>4, <2>5
<1> QED
  BY <1>1, <1>2

(***************************************************************************)
(* What the paid amount of a session resolves to is an amount.             *)
(***************************************************************************)
LEMMA TargetIsAmount ==
  ASSUME NEW c \in Amount, NEW e \in Amount
  PROVE  resolveSessionPaidTarget(c, e) \in Nat
BY NoneAssumption DEF resolveSessionPaidTarget, Amount

-----------------------------------------------------------------------------
(***************************************************************************)
(* The first half of a writer changes what its worker carries, only.       *)
(***************************************************************************)
Carries(w, k) ==
  /\ k \in Task
  /\ TaskSound(k)
  /\ task' = [task EXCEPT ![w] = k]

LEMMA StartCarries ==
  ASSUME TypeOK, NEW w \in Worker, NEW s \in Session,
         NEW step \in Step \ {"idle", "planRead", "paidRead"},
         NEW plan \in Plan \cup {None}, NEW paid \in Amount,
         NEW q \in Ticket \cup {None},
         step = "planChecked" => plan \in Plan /\ q = None,
         step \in {"requesting", "approving"}
           => q \in Ticket /\ (plan # None \/ paid # None),
         Start(w, s, step, plan, paid, q)
  PROVE  \E k : Carries(w, k) /\ ~Applying(k)
<1> DEFINE k == [step |-> step, session |-> s, ticket |-> q, plan |-> plan, paid |-> paid,
                 row |-> IF step \in Remembering THEN row[s] ELSE None,
                 attached |-> step = "recovering" /\ shift[s].attached]
<1>1. row[s] \in SessionRow
  BY DEF TypeOK
<1>2. k \in Task
  BY <1>1 DEF Task
<1>3. TaskSound(k)
  BY <1>1 DEF TaskSound, Applying, Remembering
<1>4. task' = [task EXCEPT ![w] = k]
  BY DEF Start
<1>5. ~Applying(k)
  BY DEF Applying
<1> HIDE DEF k
<1> QED
  BY <1>2, <1>3, <1>4, <1>5 DEF Carries

LEMMA BeginStep ==
  ASSUME BillingInv, NEW w \in Worker,
         \/ \E s \in Session : Begin(w, s)
         \/ \E q \in Ticket : approveRequest(w, q)
  PROVE  /\ UNCHANGED <<world, row, ledger, shift, staffTill, finish, engine, ticket>>
         /\ \E k : Carries(w, k) /\ ~Applying(k)
<1> USE DEF BillingInv, Step, Amount
<1>1. ASSUME NEW s \in Session, EndSession(w, s) \/ recoverChairSession(w, s)
      PROVE  \E k : Carries(w, k) /\ ~Applying(k)
  <2>1. finish[s].plan \in Plan \cup {None}
    BY DEF TypeOK, End
  <2> QED
    BY <1>1, <2>1, StartCarries DEF EndSession, recoverChairSession
<1>2. ASSUME NEW s \in Session, giveUp(w, s) \/ startArchive(w, s)
      PROVE  \E k : Carries(w, k) /\ ~Applying(k)
  BY <1>2, StartCarries DEF giveUp, startArchive
<1>3. ASSUME NEW s \in Session, startCorrection(w, s)
      PROVE  \E k : Carries(w, k) /\ ~Applying(k)
  BY <1>3, StartCarries, PaidAssumption DEF startCorrection
<1>4. ASSUME NEW s \in Session, changePlanDirect(w, s)
      PROVE  \E k : Carries(w, k) /\ ~Applying(k)
  BY <1>4, StartCarries DEF changePlanDirect
<1>5. ASSUME NEW s \in Session, NEW q \in Ticket, startRequest(w, s, q)
      PROVE  \E k : Carries(w, k) /\ ~Applying(k)
  BY <1>5, StartCarries, PaidAssumption
  DEF startRequest, validateModificationRequestInput
<1>6. ASSUME NEW q \in Ticket, approveRequest(w, q)
      PROVE  \E k : Carries(w, k) /\ ~Applying(k)
  <2>1. ticket[q] \in TicketRow
    BY DEF TypeOK
  <2>2. ticket[q].session \in Session /\ (ticket[q].plan # None \/ ticket[q].paid # None)
    BY <1>6 DEF approveRequest, assertRequestStillPending, TicketsSound
  <2>3. ticket[q].plan \in Plan \cup {None} /\ ticket[q].paid \in Amount
    BY <2>1 DEF TicketRow
  <2>4. Start(w, ticket[q].session, "approving", ticket[q].plan, ticket[q].paid, q)
    BY <1>6 DEF approveRequest
  <2> QED
    BY <2>2, <2>3, <2>4, StartCarries
<1>7. UNCHANGED <<world, row, ledger, shift, staffTill, finish, engine, ticket>>
  BY DEF Begin, EndSession, recoverChairSession, giveUp, startArchive,
         startCorrection, changePlanDirect, startRequest, approveRequest
<1> QED
  BY <1>1, <1>2, <1>3, <1>4, <1>5, <1>6, <1>7 DEF Begin

(***************************************************************************)
(* The second read, before a plan or an amount is applied.  The worker has *)
(* claimed the request it applies, if there is one.                        *)
(***************************************************************************)
LEMMA ReadAgainStep ==
  ASSUME BillingInv, NEW w \in Worker, readForPlanChange(w) \/ claimRequest(w)
  PROVE  /\ UNCHANGED <<world, row, ledger, shift, staffTill, finish, engine, ticket>>
         /\ \E k : /\ Carries(w, k)
                   /\ k.ticket = None \/ (k.ticket \in Ticket /\ Claimable(k.ticket))
<1> DEFINE s == task[w].session
<1>1. task[w] \in Task /\ TaskSound(task[w])
  BY DEF BillingInv, TypeOK
<1>2. s \in Session /\ row[s] \in SessionRow
  BY <1>1 DEF readForPlanChange, claimRequest, TaskSound, BillingInv, TypeOK
<1>3. row[s].ended
  BY <1>2 DEF readForPlanChange, claimRequest, assertSessionEligibleForPlanChange,
              BillingInv, RowsSound
<1>4. CASE readForPlanChange(w)
  <2> DEFINE k == [task[w] EXCEPT !.step = "planRead", !.row = row[s]]
  <2>1. task' = [task EXCEPT ![w] = k]
    BY <1>4 DEF readForPlanChange, GoOn, BillingInv, TypeOK
  <2>2. k \in Task
    BY <1>1, <1>2 DEF Task, Step
  <2>3. TaskSound(k) /\ k.ticket = None
    BY <1>1, <1>2, <1>3, <1>4 DEF TaskSound, Task, readForPlanChange
  <2>4. UNCHANGED <<world, row, ledger, shift, staffTill, finish, engine, ticket>>
    BY <1>4 DEF readForPlanChange
  <2> HIDE DEF k
  <2> QED
    BY <2>1, <2>2, <2>3, <2>4 DEF Carries
<1>5. CASE claimRequest(w) /\ task[w].plan # None
  <2> DEFINE k == [task[w] EXCEPT !.step = "planRead", !.row = row[s]]
  <2>1. task' = [task EXCEPT ![w] = k]
    BY <1>5 DEF claimRequest, GoOn, BillingInv, TypeOK
  <2>2. k \in Task
    BY <1>1, <1>2 DEF Task, Step
  <2>3. TaskSound(k) /\ k.ticket \in Ticket /\ Claimable(k.ticket)
    BY <1>1, <1>2, <1>3, <1>5 DEF TaskSound, Task, claimRequest
  <2> QED
    BY <1>5, <2>1, <2>2, <2>3 DEF Carries, claimRequest
<1>6. CASE claimRequest(w) /\ task[w].plan = None
  <2> DEFINE k == [task[w] EXCEPT !.step = "paidRead", !.row = row[s]]
  <2>1. task' = [task EXCEPT ![w] = k]
    BY <1>6 DEF claimRequest, GoOn, BillingInv, TypeOK
  <2>2. k \in Task
    BY <1>1, <1>2 DEF Task, Step
  <2>3. TaskSound(k) /\ k.ticket \in Ticket /\ Claimable(k.ticket)
    BY <1>1, <1>2, <1>3, <1>6 DEF TaskSound, Task, Amount, claimRequest
  <2> QED
    BY <1>6, <2>1, <2>2, <2>3 DEF Carries, claimRequest
<1> QED
  BY <1>4, <1>5, <1>6

-----------------------------------------------------------------------------
(***************************************************************************)
(* The second half: a row, its ledger and perhaps a request are written.   *)
(***************************************************************************)
Writes(w, s, r, m) ==
  /\ r \in SessionRow
  /\ row' = [row EXCEPT ![s] = r]
  /\ ledger' = [ledger EXCEPT ![s] = m]
  /\ Sound(m, s)
  /\ Moved(ledger[s], m)
  /\ m.tills # {} => r.ended
  /\ row[s].ended \/ r.status = "COMPLETED" => r.ended
  /\ task' = [task EXCEPT ![w] = Idle]
  /\ engine' \in [Session -> BOOLEAN]
  /\ \/ ticket' = ticket
     \/ Applying(task[w]) /\ ticket' = Approved(task[w].ticket, row[s].stamp)
  /\ UNCHANGED <<world, shift, staffTill, finish>>

LEMMA RowAfterUpdate ==
  ASSUME BillingInv, NEW s \in Session, NEW r \in SessionRow, Update(s, r)
  PROVE  /\ [r EXCEPT !.stamp = @ + 1] \in SessionRow
         /\ row' = [row EXCEPT ![s] = [r EXCEPT !.stamp = @ + 1]]
BY DEF SessionRow, Update

LEMMA FinalizeWrites ==
  ASSUME BillingInv, NEW w \in Worker, finalizeActiveSession(w)
  PROVE  \E s \in Session : \E r, m : Writes(w, s, r, m)
<1> DEFINE s == task[w].session
           p == task[w].plan
           r == [Finalized(row[s], p) EXCEPT !.stamp = @ + 1]
<1>1. task[w] \in Task /\ s \in Session
  BY DEF BillingInv, TypeOK, TaskSound, finalizeActiveSession
<1>2. row[s] \in SessionRow /\ Sound(ledger[s], s) /\ p \in Plan \cup {None}
  BY <1>1 DEF BillingInv, TypeOK, Task
<1>3. PriceOf(p) \in Nat
  BY <1>2, PriceAssumption DEF PriceOf
<1>4. Finalized(row[s], p) \in SessionRow
  BY <1>2, <1>3 DEF SessionRow, Finalized, Amount
<1>5. r \in SessionRow /\ row' = [row EXCEPT ![s] = r]
  BY <1>1, <1>4, RowAfterUpdate DEF finalizeActiveSession
<1>6. r.ended
  BY <1>2 DEF SessionRow, Finalized
<1>7. PICK m : /\ ledger' = [ledger EXCEPT ![s] = m]
               /\ m = ledger[s] \/ m \in Synced(ledger[s], s, 0, PriceOf(p), TRUE)
  BY DEF finalizeActiveSession
<1>8. Sound(m, s) /\ Moved(ledger[s], m)
  <2>1. TypeOK /\ 0 \in Nat
    BY DEF BillingInv
  <2>2. CASE m = ledger[s]
    BY <1>2, <2>2 DEF Moved
  <2>3. CASE m \in Synced(ledger[s], s, 0, PriceOf(p), TRUE)
    <3>1. \A ended : m \in Synced(ledger[s], s, 0, PriceOf(p), ended)
                     => Sound(m, s) /\ Moved(ledger[s], m)
      BY <1>1, <1>2, <1>3, <2>1, SyncedKeepsSound
    <3> QED
      BY <2>3, <3>1
  <2> QED
    BY <1>7, <2>2, <2>3
<1>9. task' = [task EXCEPT ![w] = Idle] /\ engine' \in [Session -> BOOLEAN]
      /\ UNCHANGED <<world, shift, staffTill, finish, ticket>>
  BY DEF finalizeActiveSession, Done, BillingInv, TypeOK
<1> QED
  BY <1>1, <1>5, <1>6, <1>7, <1>8, <1>9 DEF Writes

LEMMA ReviewWrites ==
  ASSUME BillingInv, NEW w \in Worker, markSessionNeedsReview(w)
  PROVE  \E s \in Session : \E r, m : Writes(w, s, r, m)
<1> DEFINE s == task[w].session
           q == [row[s] EXCEPT !.status = "UNCERTAIN", !.billing = "DISPUTED"]
           r == [q EXCEPT !.stamp = @ + 1]
<1>1. s \in Session
  BY DEF BillingInv, TypeOK, TaskSound, markSessionNeedsReview
<1>2. row[s] \in SessionRow /\ Sound(ledger[s], s) /\ (ledger[s].tills # {} => row[s].ended)
  BY <1>1 DEF BillingInv, TypeOK, RowsSound
<1>3. q \in SessionRow
  BY <1>2 DEF SessionRow
<1>4. r \in SessionRow /\ row' = [row EXCEPT ![s] = r]
  BY <1>1, <1>3, RowAfterUpdate DEF markSessionNeedsReview
<1>5. r.ended = row[s].ended /\ r.status # "COMPLETED"
  BY <1>2 DEF SessionRow
<1>6. /\ ledger' = [ledger EXCEPT ![s] = ledger[s]] /\ engine' \in [Session -> BOOLEAN]
      /\ task' = [task EXCEPT ![w] = Idle] /\ UNCHANGED <<world, shift, staffTill, finish, ticket>>
  BY <1>1 DEF markSessionNeedsReview, Done, BillingInv, TypeOK
<1> QED
  BY <1>1, <1>2, <1>4, <1>5, <1>6 DEF Writes, Moved

LEMMA CorrectionWrites ==
  ASSUME BillingInv, NEW w \in Worker, correctSession(w)
  PROVE  \E s \in Session : \E r, m : Writes(w, s, r, m)
<1> DEFINE s == task[w].session
           read == task[w].row
           paid == task[w].paid
           q == [row[s] EXCEPT !.corrected = paid, !.billing = CorrectedBilling(read, paid)]
           r == [q EXCEPT !.stamp = @ + 1]
<1>1. task[w] \in Task /\ s \in Session /\ read \in SessionRow
  BY DEF BillingInv, TypeOK, TaskSound, correctSession
<1>2. /\ row[s] \in SessionRow /\ Sound(ledger[s], s)
      /\ (ledger[s].tills # {} => row[s].ended)
      /\ (row[s].status = "COMPLETED" => row[s].ended)
      /\ paid \in Amount /\ read.corrected \in Amount /\ read.expected \in Amount
  BY <1>1 DEF BillingInv, TypeOK, RowsSound, Task, SessionRow
<1>3. CorrectedBilling(read, paid) \in {"PENDING", "CALCULATED", "CORRECTED", "DISPUTED"}
  BY DEF CorrectedBilling
<1>4. q \in SessionRow
  BY <1>2, <1>3 DEF SessionRow
<1>5. r \in SessionRow /\ row' = [row EXCEPT ![s] = r]
  BY <1>1, <1>4, RowAfterUpdate DEF correctSession
<1>6. r.ended = row[s].ended /\ r.status = row[s].status /\ row[s].ended \in BOOLEAN
  BY <1>2 DEF SessionRow
<1>7. PICK m : /\ ledger' = [ledger EXCEPT ![s] = m]
               /\ m \in Synced(ledger[s], s,
                               resolveSessionPaidTarget(read.corrected, read.expected),
                               resolveSessionPaidTarget(paid, read.expected), row[s].ended)
  BY DEF correctSession
<1>8. Sound(m, s) /\ Moved(ledger[s], m) /\ (m.tills # {} => row[s].ended)
  BY <1>1, <1>2, <1>6, <1>7, SyncedKeepsSound, TargetIsAmount DEF BillingInv
<1>9. /\ task' = [task EXCEPT ![w] = Idle] /\ engine' \in [Session -> BOOLEAN]
      /\ UNCHANGED <<world, shift, staffTill, finish, ticket>>
  BY DEF correctSession, Done, BillingInv, TypeOK
<1> QED
  BY <1>1, <1>2, <1>5, <1>6, <1>7, <1>8, <1>9 DEF Writes

LEMMA DeletionWrites ==
  ASSUME BillingInv, NEW w \in Worker, deleteSession(w)
  PROVE  \E s \in Session : \E r, m : Writes(w, s, r, m)
<1> DEFINE s == task[w].session
           q == [row[s] EXCEPT !.archived = TRUE,
                   !.status = IF task[w].row.status = "ACTIVE" THEN "CANCELLED" ELSE @]
           r == [q EXCEPT !.stamp = @ + 1]
<1>1. s \in Session
  BY DEF BillingInv, TypeOK, TaskSound, deleteSession
<1>2. /\ row[s] \in SessionRow /\ Sound(ledger[s], s)
      /\ (ledger[s].tills # {} => row[s].ended)
      /\ (row[s].status = "COMPLETED" => row[s].ended)
  BY <1>1 DEF BillingInv, TypeOK, RowsSound
<1>3. q \in SessionRow
  BY <1>2 DEF SessionRow
<1>4. r \in SessionRow /\ row' = [row EXCEPT ![s] = r]
  BY <1>1, <1>3, RowAfterUpdate DEF deleteSession
<1>5. r.ended = row[s].ended /\ r.status \in {row[s].status, "CANCELLED"}
  BY <1>2 DEF SessionRow
<1>6. /\ ledger' = [ledger EXCEPT ![s] = ledger[s]] /\ engine' \in [Session -> BOOLEAN]
      /\ task' = [task EXCEPT ![w] = Idle] /\ UNCHANGED <<world, shift, staffTill, finish, ticket>>
  BY <1>1 DEF deleteSession, Done, BillingInv, TypeOK
<1> QED
  BY <1>1, <1>2, <1>4, <1>5, <1>6 DEF Writes, Moved

(***************************************************************************)
(* The plan, the amount, or one after the other: the ledger stays sound    *)
(* and in its till.                                                        *)
(***************************************************************************)
LEMMA PlanKeepsSound ==
  ASSUME TypeOK, NEW s \in Session, NEW l, Sound(l, s), NEW read \in SessionRow,
         NEW p \in Plan, NEW m \in LedgersAfterPlan(l, s, read, p)
  PROVE  Sound(m, s) /\ Moved(l, m)
<1> DEFINE previous == resolveSessionPaidTarget(read.corrected, read.expected)
           target == resolveSessionPaidTarget(read.corrected, Price[p])
<1>1. read.corrected \in Amount /\ read.expected \in Amount /\ Price[p] \in Amount
  BY PriceAssumption DEF SessionRow, Amount
<1>2. previous \in Nat /\ target \in Nat
  BY <1>1, TargetIsAmount
<1>3. m \in Synced(l, s, previous, target, TRUE)
  BY DEF LedgersAfterPlan
<1> HIDE DEF previous, target
<1>4. \A ended : m \in Synced(l, s, previous, target, ended) => Sound(m, s) /\ Moved(l, m)
  BY <1>2, SyncedKeepsSound
<1> QED
  BY <1>3, <1>4

LEMMA PaidKeepsSound ==
  ASSUME TypeOK, NEW s \in Session, NEW l, Sound(l, s), NEW read \in SessionRow,
         NEW a \in Nat, NEW m \in LedgersAfterPaid(l, s, read, a)
  PROVE  Sound(m, s) /\ Moved(l, m)
<1> DEFINE previous == resolveSessionPaidTarget(read.corrected, read.expected)
<1>1. read.corrected \in Amount /\ read.expected \in Amount
  BY DEF SessionRow
<1>2. previous \in Nat
  BY <1>1, TargetIsAmount
<1>3. m \in Synced(l, s, previous, a, TRUE)
  BY DEF LedgersAfterPaid
<1> HIDE DEF previous
<1>4. \A ended : m \in Synced(l, s, previous, a, ended) => Sound(m, s) /\ Moved(l, m)
  BY <1>2, SyncedKeepsSound
<1> QED
  BY <1>3, <1>4

LEMMA MovedTwice ==
  ASSUME NEW l, NEW m, NEW n, Moved(l, m), Moved(m, n)
  PROVE  Moved(l, n)
BY DEF Moved

LEMMA ApplyWrites ==
  ASSUME BillingInv, NEW w \in Worker,
         \/ applySessionPlanChangeInTx(w)
         \/ applyPaidAmountChangeInTx(w)
         \/ applyPlanThenPaid(w)
  PROVE  \E s \in Session : \E r, m : Writes(w, s, r, m)
<1> DEFINE s == task[w].session
           p == task[w].plan
           a == task[w].paid
           read == task[w].row
           between == buildPlanChangeSessionUpdate(row[s], p)
<1>1. Applying(task[w])
  BY DEF applySessionPlanChangeInTx, applyPaidAmountChangeInTx, applyPlanThenPaid, Applying
<1>2. s \in Session /\ read \in SessionRow /\ row[s].ended
  BY <1>1 DEF BillingInv, TaskSound, Applying
<1>3. row[s] \in SessionRow /\ Sound(ledger[s], s) /\ TypeOK /\ a \in Amount
  BY <1>2 DEF BillingInv, TypeOK, Task
<1>4. /\ task' = [task EXCEPT ![w] = Idle]
      /\ ticket' = Approved(task[w].ticket, row[s].stamp)
      /\ UNCHANGED <<world, shift, staffTill, finish, engine>>
  BY DEF applySessionPlanChangeInTx, applyPaidAmountChangeInTx, applyPlanThenPaid, Done
<1>5. ASSUME NEW r \in SessionRow, NEW m, Update(s, r), r.ended = row[s].ended,
             ledger' = [ledger EXCEPT ![s] = m], Sound(m, s), Moved(ledger[s], m)
      PROVE  \E q : Writes(w, s, q, m)
  <2> DEFINE q == [r EXCEPT !.stamp = @ + 1]
  <2>1. q \in SessionRow /\ row' = [row EXCEPT ![s] = q]
    BY <1>2, <1>5, RowAfterUpdate
  <2>2. q.ended
    BY <1>2, <1>5 DEF SessionRow
  <2> HIDE DEF q
  <2>3. Writes(w, s, q, m)
    BY <1>1, <1>2, <1>4, <1>5, <2>1, <2>2 DEF Writes, BillingInv, TypeOK
  <2> QED
    BY <2>3
<1>6. p \in Plan => between \in SessionRow /\ between.ended = row[s].ended
  BY <1>3, PriceAssumption DEF buildPlanChangeSessionUpdate, SessionRow, Amount
<1>7. CASE applySessionPlanChangeInTx(w)
  <2>1. p \in Plan
    BY <1>7 DEF BillingInv, TaskSound, applySessionPlanChangeInTx
  <2>2. PICK m \in LedgersAfterPlan(ledger[s], s, read, p) : ledger' = [ledger EXCEPT ![s] = m]
    BY <1>7 DEF applySessionPlanChangeInTx
  <2>3. Update(s, between)
    BY <1>7 DEF applySessionPlanChangeInTx
  <2>4. Sound(m, s) /\ Moved(ledger[s], m)
    BY <1>2, <1>3, <2>1, <2>2, PlanKeepsSound
  <2> HIDE DEF s, p, a, read, between
  <2> QED
    BY <1>2, <1>5, <1>6, <2>1, <2>2, <2>3, <2>4
<1>8. CASE applyPaidAmountChangeInTx(w)
  <2>1. a \in Nat
    BY <1>8 DEF BillingInv, TaskSound, applyPaidAmountChangeInTx
  <2>2. PICK m \in LedgersAfterPaid(ledger[s], s, read, a) : ledger' = [ledger EXCEPT ![s] = m]
    BY <1>8 DEF applyPaidAmountChangeInTx
  <2>3. Update(s, buildPaidAmountSessionUpdate(row[s], a))
    BY <1>8 DEF applyPaidAmountChangeInTx
  <2>4. buildPaidAmountSessionUpdate(row[s], a) \in SessionRow /\ buildPaidAmountSessionUpdate(row[s], a).ended = row[s].ended
    BY <1>3 DEF buildPaidAmountSessionUpdate, SessionRow
  <2>5. Sound(m, s) /\ Moved(ledger[s], m)
    BY <1>2, <1>3, <2>1, <2>2, PaidKeepsSound
  <2> HIDE DEF s, p, a, read, between
  <2> QED
    BY <1>2, <1>5, <2>2, <2>3, <2>4, <2>5
<1>9. CASE applyPlanThenPaid(w)
  <2>1. p \in Plan
    BY <1>9 DEF BillingInv, TaskSound, applyPlanThenPaid
  <2>2. a \in Nat
    BY <1>3, <1>9 DEF applyPlanThenPaid, Amount
  <2>3. PICK l \in LedgersAfterPlan(ledger[s], s, read, p) :
          \E m \in LedgersAfterPaid(l, s, between, a) : ledger' = [ledger EXCEPT ![s] = m]
    BY <1>9 DEF applyPlanThenPaid
  <2>4. PICK m \in LedgersAfterPaid(l, s, between, a) : ledger' = [ledger EXCEPT ![s] = m]
    BY <2>3
  <2>5. Update(s, buildPaidAmountSessionUpdate(between, a))
    BY <1>9 DEF applyPlanThenPaid
  <2>6. /\ buildPaidAmountSessionUpdate(between, a) \in SessionRow
        /\ buildPaidAmountSessionUpdate(between, a).ended = row[s].ended
    BY <1>3, <1>6, <2>1 DEF buildPaidAmountSessionUpdate, SessionRow
  <2>7. Sound(l, s) /\ Moved(ledger[s], l)
    BY <1>2, <1>3, <2>1, <2>3, PlanKeepsSound
  <2>8. Sound(m, s) /\ Moved(l, m)
    BY <1>2, <1>3, <1>6, <2>1, <2>2, <2>4, <2>7, PaidKeepsSound
  <2>9. Moved(ledger[s], m)
    BY <2>7, <2>8, MovedTwice
  <2> HIDE DEF s, p, a, read, between
  <2> QED
    BY <1>2, <1>5, <2>4, <2>5, <2>6, <2>8, <2>9
<1> QED
  BY <1>7, <1>8, <1>9

-----------------------------------------------------------------------------
(***************************************************************************)
(* Each kind of step keeps the invariant.                                  *)
(***************************************************************************)
LEMMA IdleIsTask == Idle \in Task /\ ~Applying(Idle) /\ TaskSound(Idle)
BY DEF Idle, Task, Step, Amount, Applying, TaskSound

(***************************************************************************)
(* A worker that takes up k leaves all else alone.  If it will apply a     *)
(* request, no other worker is applying it.                                *)
(***************************************************************************)
LEMMA CarryKeeps ==
  ASSUME BillingInv, NEW w \in Worker, NEW k, Carries(w, k),
         UNCHANGED <<world, row, ledger, shift, staffTill, finish, engine, ticket>>,
         Applying(k) /\ k.ticket # None => Claimable(k.ticket)
  PROVE  BillingInv'
<1> USE DEF BillingInv
<1>1. \A v \in Worker : task'[v] = IF v = w THEN k ELSE task[v]
  BY DEF Carries, TypeOK
<1>2. TypeOK'
  BY DEF TypeOK, Carries
<1>3. (\A t \in Session : Sound(ledger[t], t))' /\ RowsSound' /\ TicketsSound'
      /\ OnePendingPerSession'
  BY DEF Sound, RowsSound, TicketsSound, OnePendingPerSession
<1>4. ASSUME NEW v \in Worker PROVE TaskSound(task[v])'
  BY <1>1, <1>4 DEF TaskSound, Carries, Applying
<1>5. ClaimsExclude'
  <2> SUFFICES ASSUME NEW v \in Worker, Applying(task'[v]), task'[v].ticket # None
               PROVE  /\ ticket[task'[v].ticket].state = "PENDING"
                      /\ \A u \in Worker : Applying(task'[u]) /\ task'[u].ticket = task'[v].ticket
                                           => u = v
    BY DEF ClaimsExclude, Applying
  <2>1. CASE v = w
    BY <1>1, <2>1 DEF Claimable, Applying
  <2>2. CASE v # w
    BY <1>1, <2>2 DEF Claimable, Applying, ClaimsExclude
  <2> QED
    BY <2>1, <2>2
<1> QED
  BY <1>2, <1>3, <1>4, <1>5

LEMMA WriteKeeps ==
  ASSUME BillingInv, NEW w \in Worker, NEW s \in Session, NEW r, NEW m, Writes(w, s, r, m)
  PROVE  BillingInv'
<1> USE DEF BillingInv
<1> DEFINE q == task[w].ticket
<1>1. \A v \in Worker : task'[v] = IF v = w THEN Idle ELSE task[v]
  BY DEF Writes, TypeOK
<1>2. \A t \in Session : /\ row'[t] = (IF t = s THEN r ELSE row[t])
                         /\ ledger'[t] = (IF t = s THEN m ELSE ledger[t])
  BY DEF Writes, TypeOK
<1>3. \/ ticket' = ticket
      \/ /\ Applying(task[w]) /\ q \in Ticket
         /\ ticket' = [ticket EXCEPT ![q].state = "APPROVED", ![q].appliedTo = row[s].stamp]
  BY DEF Writes, Approved, TypeOK, Task
<1>4. row[s].stamp \in Nat
  BY DEF TypeOK, SessionRow
<1>5. TypeOK'
  <2>1. ASSUME q \in Ticket
        PROVE  [ticket[q] EXCEPT !.state = "APPROVED", !.appliedTo = row[s].stamp] \in TicketRow
    <3>1. ticket[q] \in TicketRow
      BY <2>1 DEF TypeOK
    <3> QED
      BY <1>4, <3>1 DEF TicketRow
  <2>2. ticket' \in [Ticket -> TicketRow]
    BY <1>3, <2>1 DEF TypeOK
  <2>3. row' \in [Session -> SessionRow] /\ ledger' \in [Session -> SessionLedger]
    BY DEF Writes, TypeOK, Sound
  <2>4. task' \in [Worker -> Task]
    BY IdleIsTask DEF Writes, TypeOK
  <2> QED
    BY <2>2, <2>3, <2>4 DEF Writes, TypeOK
<1>6. ASSUME NEW t \in Session PROVE Sound(ledger[t], t)'
  <2>1. Sound(ledger'[t], t)
    BY <1>2 DEF Writes
  <2> QED
    BY <2>1 DEF Sound, Writes
<1>7. RowsSound'
  BY <1>2 DEF RowsSound, Writes
<1>8. ASSUME NEW v \in Worker PROVE TaskSound(task[v])'
  <2>1. CASE v = w
    BY <1>1, <2>1, IdleIsTask DEF TaskSound, Applying, Idle
  <2>2. CASE v # w
    <3>1. TaskSound(task[v]) /\ task'[v] = task[v]
      BY <1>1, <2>2
    <3>2. \A t \in Session : row[t].ended => row'[t].ended
      BY <1>2 DEF Writes
    <3> QED
      BY <3>1, <3>2 DEF TaskSound, Applying
  <2> QED
    BY <2>1, <2>2
<1>9. \A u \in Ticket :
        \/ ticket'[u] = ticket[u]
        \/ u = q /\ Applying(task[w]) /\ ticket'[u].state = "APPROVED"
  BY <1>3 DEF TypeOK, TicketRow
<1>10. TicketsSound' /\ OnePendingPerSession'
  BY <1>9 DEF TicketsSound, OnePendingPerSession
<1>11. ClaimsExclude'
  <2> SUFFICES ASSUME NEW v \in Worker, Applying(task'[v]), task'[v].ticket # None
               PROVE  /\ ticket'[task'[v].ticket].state = "PENDING"
                      /\ \A u \in Worker : Applying(task'[u]) /\ task'[u].ticket = task'[v].ticket
                                           => u = v
    BY DEF ClaimsExclude, Applying
  <2>1. v # w /\ task'[v] = task[v] /\ task[v].ticket \in Ticket
    BY <1>1, IdleIsTask DEF TypeOK, Task
  <2>2. /\ ticket[task[v].ticket].state = "PENDING"
        /\ \A u \in Worker : Applying(task[u]) /\ task[u].ticket = task[v].ticket => u = v
    BY <2>1 DEF ClaimsExclude
  <2>3. ticket'[task[v].ticket] = ticket[task[v].ticket]
    BY <1>9, <2>1, <2>2
  <2> QED
    BY <1>1, <2>1, <2>2, <2>3, IdleIsTask
<1> QED
  BY <1>5, <1>6, <1>7, <1>8, <1>10, <1>11

LEMMA CreateKeeps ==
  ASSUME BillingInv, NEW w \in Worker, createRequest(w)
  PROVE  BillingInv'
<1> USE DEF BillingInv
<1> DEFINE s == task[w].session
           q == task[w].ticket
           new == [state |-> "PENDING", session |-> s, plan |-> task[w].plan,
                   paid |-> task[w].paid, atPlan |-> task[w].row.plan,
                   atStamp |-> task[w].row.stamp, appliedTo |-> None]
<1>1. /\ task[w] \in Task /\ s \in Session /\ q \in Ticket /\ task[w].row \in SessionRow
      /\ task[w].plan # None \/ task[w].paid # None
  BY DEF TypeOK, TaskSound, createRequest
<1>2. /\ ticket' = [ticket EXCEPT ![q] = new] /\ task' = [task EXCEPT ![w] = Idle]
      /\ ticket[q].state = "FREE" /\ Pending(s) = {}
      /\ UNCHANGED <<world, row, ledger, shift, staffTill, finish, engine>>
  BY DEF createRequest, Done, OnePendingIndex
<1>3. new \in TicketRow
  BY <1>1 DEF TicketRow, Task, SessionRow
<1>4. new.state = "PENDING" /\ new.session = s /\ (new.plan # None \/ new.paid # None)
  BY <1>1
<1> HIDE DEF new
<1>5. \A u \in Ticket : ticket'[u] = IF u = q THEN new ELSE ticket[u]
  BY <1>2 DEF TypeOK
<1>6. \A v \in Worker : task'[v] = IF v = w THEN Idle ELSE task[v]
  BY <1>2 DEF TypeOK
<1>7. TypeOK'
  BY <1>1, <1>2, <1>3, IdleIsTask DEF TypeOK
<1>8. (\A t \in Session : Sound(ledger[t], t))' /\ RowsSound'
  BY <1>2 DEF Sound, RowsSound
<1>9. ASSUME NEW v \in Worker PROVE TaskSound(task[v])'
  BY <1>2, <1>6, IdleIsTask DEF TaskSound, Applying, Idle
<1>10. TicketsSound'
  BY <1>1, <1>4, <1>5 DEF TicketsSound
<1>11. OnePendingPerSession'
  BY <1>1, <1>2, <1>4, <1>5 DEF OnePendingPerSession, Pending
<1>12. ClaimsExclude'
  <2> SUFFICES ASSUME NEW v \in Worker, Applying(task'[v]), task'[v].ticket # None
               PROVE  /\ ticket'[task'[v].ticket].state = "PENDING"
                      /\ \A u \in Worker : Applying(task'[u]) /\ task'[u].ticket = task'[v].ticket
                                           => u = v
    BY DEF ClaimsExclude, Applying
  <2>1. v # w /\ task'[v] = task[v] /\ task[v].ticket \in Ticket
    BY <1>6, IdleIsTask DEF TypeOK, Task
  <2>2. /\ ticket[task[v].ticket].state = "PENDING"
        /\ \A u \in Worker : Applying(task[u]) /\ task[u].ticket = task[v].ticket => u = v
    BY <2>1 DEF ClaimsExclude
  <2> QED
    BY <1>2, <1>5, <1>6, <2>1, <2>2, IdleIsTask
<1> QED
  BY <1>7, <1>8, <1>9, <1>10, <1>11, <1>12

LEMMA RollbackKeeps ==
  ASSUME BillingInv, NEW w \in Worker, Rollback(w)
  PROVE  BillingInv'
<1>1. Carries(w, Idle)
  BY IdleIsTask DEF Carries, Rollback, Done
<1> QED
  BY <1>1, IdleIsTask, CarryKeeps DEF Rollback

LEMMA RejectKeeps ==
  ASSUME BillingInv, NEW q \in Ticket, rejectRequest(q)
  PROVE  BillingInv'
<1> USE DEF BillingInv
<1>1. /\ ticket[q].state = "PENDING"
      /\ \A w \in Worker : Applying(task[w]) => task[w].ticket # q
      /\ ticket' = [ticket EXCEPT ![q].state = "REJECTED"]
      /\ UNCHANGED <<world, row, ledger, shift, staffTill, finish, engine, task>>
  BY DEF rejectRequest, Claimable, Applying
<1>2. \A u \in Ticket : /\ u # q => ticket'[u] = ticket[u]
                        /\ u = q => ticket'[u].state = "REJECTED"
  BY <1>1 DEF TypeOK, TicketRow
<1>3. TypeOK'
  <2>1. ticket[q] \in TicketRow
    BY DEF TypeOK
  <2>2. [ticket[q] EXCEPT !.state = "REJECTED"] \in TicketRow
    BY <2>1 DEF TicketRow
  <2>3. ticket' = [ticket EXCEPT ![q] = [ticket[q] EXCEPT !.state = "REJECTED"]]
    BY <1>1
  <2> QED
    BY <1>1, <2>2, <2>3 DEF TypeOK
<1>4. (\A s \in Session : Sound(ledger[s], s))' /\ RowsSound'
      /\ (\A w \in Worker : TaskSound(task[w]))'
  BY <1>1 DEF Sound, RowsSound, TaskSound, Applying
<1>5. TicketsSound' /\ OnePendingPerSession'
  BY <1>2 DEF TicketsSound, OnePendingPerSession
<1>6. ClaimsExclude'
  <2>1. \A w \in Worker : task[w].ticket \in Ticket \cup {None}
    BY DEF TypeOK, Task
  <2> QED
    BY <1>1, <1>2, <2>1 DEF ClaimsExclude, Applying
<1> QED
  BY <1>3, <1>4, <1>5, <1>6

LEMMA BesideKeeps ==
  ASSUME BillingInv,
         \/ setCashAccountAssignment
         \/ \E s \in Session : hydrateRuntimeCache(s) \/ deleteShift(s)
  PROVE  BillingInv'
<1> USE DEF BillingInv
<1>1. /\ UNCHANGED <<world, ledger, finish, ticket, task>>
      /\ \A s \in Session : /\ row'[s].status = row[s].status
                            /\ row'[s].ended = row[s].ended
  <2>1. CASE setCashAccountAssignment
    BY <2>1, Zenon DEF setCashAccountAssignment
  <2>2. ASSUME NEW s \in Session, hydrateRuntimeCache(s)
        PROVE  UNCHANGED <<world, row, ledger, finish, ticket, task>>
    BY <2>2, Zenon DEF hydrateRuntimeCache
  <2>3. ASSUME NEW s \in Session, deleteShift(s)
        PROVE  /\ UNCHANGED <<world, ledger, finish, ticket, task>>
               /\ \A u \in Session : /\ row'[u].status = row[u].status
                                     /\ row'[u].ended = row[u].ended
    BY <2>3 DEF deleteShift, Update, TypeOK, SessionRow
  <2> QED
    BY <2>1, <2>2, <2>3, Zenon
<1>2. ASSUME setCashAccountAssignment
      PROVE  TypeOK'
  <2>1. staffTill' \in Till \cup {None} /\ UNCHANGED <<world, row, ledger, shift, finish, engine, ticket, task>>
    BY <1>2 DEF setCashAccountAssignment
  <2> QED
    BY <2>1 DEF TypeOK
<1>3. ASSUME NEW s \in Session, hydrateRuntimeCache(s)
      PROVE  TypeOK'
  <2>1. engine' \in [Session -> BOOLEAN]
    <3> DEFINE inProgress == row[s].status = "ACTIVE"
    <3>1. inProgress \in BOOLEAN
      BY Zenon
    <3>2. engine \in [Session -> BOOLEAN]
      BY DEF TypeOK
    <3>3. engine' = [engine EXCEPT ![s] = inProgress]
      BY <1>3 DEF hydrateRuntimeCache
    <3> HIDE DEF inProgress
    <3> QED
      BY <3>1, <3>2, <3>3
  <2> QED
    BY <1>3, <2>1 DEF hydrateRuntimeCache, TypeOK
<1>4. ASSUME NEW s \in Session, deleteShift(s)
      PROVE  TypeOK'
  <2> DEFINE r == [row[s] EXCEPT !.stamp = @ + 1]
  <2>1. r \in SessionRow /\ row' = [row EXCEPT ![s] = r]
    BY <1>4, RowAfterUpdate DEF deleteShift, TypeOK
  <2> HIDE DEF r
  <2>2. row' \in [Session -> SessionRow]
    BY <2>1 DEF TypeOK
  <2>3. shift' \in [Session -> [attached: BOOLEAN, till: Till \cup {None}]]
    BY <1>4 DEF deleteShift, TypeOK
  <2> QED
    BY <1>1, <1>4, <2>2, <2>3 DEF deleteShift, TypeOK
<1>5. TypeOK'
  BY <1>2, <1>3, <1>4
<1>6. (\A s \in Session : Sound(ledger[s], s))' /\ RowsSound' /\ TicketsSound'
      /\ OnePendingPerSession' /\ ClaimsExclude'
  BY <1>1 DEF Sound, RowsSound, TicketsSound, OnePendingPerSession, ClaimsExclude, Applying
<1>7. ASSUME NEW w \in Worker PROVE TaskSound(task[w])'
  BY <1>1 DEF TaskSound, Applying
<1> QED
  BY <1>5, <1>6, <1>7

LEMMA StutterKeeps ==
  ASSUME BillingInv, UNCHANGED vars
  PROVE  BillingInv'
BY DEF vars, BillingInv, TypeOK, Sound, RowsSound, TaskSound, TicketsSound, ClaimsExclude,
       OnePendingPerSession, Applying

(***************************************************************************)
(* Every step is of one of these kinds.                                    *)
(***************************************************************************)
TakesUp(w, k) ==
  /\ Carries(w, k)
  /\ Applying(k) /\ k.ticket # None => Claimable(k.ticket)
  /\ UNCHANGED <<world, row, ledger, shift, staffTill, finish, engine, ticket>>

Beside ==
  \/ setCashAccountAssignment
  \/ \E s \in Session : hydrateRuntimeCache(s) \/ deleteShift(s)

LEMMA StepKinds ==
  ASSUME BillingInv, [Next]_vars
  PROVE  \/ \E w \in Worker : \E k : TakesUp(w, k)
         \/ \E w \in Worker, s \in Session : \E r, m : Writes(w, s, r, m)
         \/ \E w \in Worker : createRequest(w) \/ Rollback(w)
         \/ \E q \in Ticket : rejectRequest(q)
         \/ Beside
         \/ UNCHANGED vars
<1>1. ASSUME NEW w \in Worker,
             (\E s \in Session : Begin(w, s)) \/ (\E q \in Ticket : approveRequest(w, q))
      PROVE  \E k : TakesUp(w, k)
  BY <1>1, BeginStep DEF TakesUp
<1>2. ASSUME NEW w \in Worker, readForPlanChange(w) \/ claimRequest(w)
      PROVE  \E k : TakesUp(w, k)
  BY <1>2, ReadAgainStep DEF TakesUp
<1>3. ASSUME NEW w \in Worker,
             \/ finalizeActiveSession(w) \/ markSessionNeedsReview(w)
             \/ correctSession(w) \/ deleteSession(w)
             \/ applySessionPlanChangeInTx(w) \/ applyPaidAmountChangeInTx(w)
             \/ applyPlanThenPaid(w)
      PROVE  \E s \in Session : \E r, m : Writes(w, s, r, m)
  BY <1>3, FinalizeWrites, ReviewWrites, CorrectionWrites, DeletionWrites, ApplyWrites
<1> QED
  BY <1>1, <1>2, <1>3 DEF Next, Continue, Beside

LEMMA BillingInvInit == Init => BillingInv
<1> SUFFICES ASSUME Init PROVE BillingInv
  OBVIOUS
<1>1. NewRow \in SessionRow /\ ~NewRow.ended /\ NewRow.status = "ACTIVE"
  BY DEF NewRow, SessionRow, Amount
<1>2. FreeTicket \in TicketRow /\ FreeTicket.state = "FREE"
  BY DEF FreeTicket, TicketRow, Amount
<1>3. row \in [Session -> SessionRow] /\ ticket \in [Ticket -> TicketRow]
      /\ task \in [Worker -> Task]
  BY <1>1, <1>2, IdleIsTask DEF Init
<1>4. /\ ledger \in [Session -> SessionLedger] /\ engine \in [Session -> BOOLEAN]
      /\ staffTill \in Till \cup {None} /\ finish \in [Session -> End]
      /\ shift \in [Session -> [attached: BOOLEAN, till: Till \cup {None}]]
  <2>1. ledger \in [Session -> SessionLedger]
    BY DEF Init, SessionLedger
  <2>2. shift \in [Session -> [attached: BOOLEAN, till: Till \cup {None}]]
    BY DEF Init
  <2> QED
    BY <2>1, <2>2 DEF Init
<1>5. ASSUME NEW s \in Session PROVE Sound(ledger[s], s)
  <2>1. ledger[s] \in SessionLedger
    BY <1>4
  <2>2. ledger[s].net = 0 /\ ledger[s].payments = 0 /\ ledger[s].tills = {}
    BY DEF Init
  <2> QED
    BY <2>1, <2>2 DEF Sound
<1>6. RowsSound /\ TicketsSound /\ ClaimsExclude /\ OnePendingPerSession
  BY <1>1, <1>2, IdleIsTask DEF Init, RowsSound, TicketsSound, ClaimsExclude, OnePendingPerSession
<1>7. \A w \in Worker : TaskSound(task[w])
  BY IdleIsTask DEF Init
<1>8. world \in AllWorlds
  BY WorldAssumption DEF Init
<1> QED
  BY <1>3, <1>4, <1>5, <1>6, <1>7, <1>8 DEF BillingInv, TypeOK

LEMMA BillingInvStep == BillingInv /\ [Next]_vars => BillingInv'
<1> SUFFICES ASSUME BillingInv, [Next]_vars PROVE BillingInv'
  OBVIOUS
<1>1. ASSUME NEW w \in Worker, NEW k, TakesUp(w, k) PROVE BillingInv'
  BY <1>1, CarryKeeps DEF TakesUp
<1>2. ASSUME NEW w \in Worker, NEW s \in Session, NEW r, NEW m, Writes(w, s, r, m)
      PROVE  BillingInv'
  BY <1>2, WriteKeeps
<1>3. ASSUME NEW w \in Worker, createRequest(w) \/ Rollback(w) PROVE BillingInv'
  BY <1>3, CreateKeeps, RollbackKeeps
<1>4. ASSUME NEW q \in Ticket, rejectRequest(q) PROVE BillingInv'
  BY <1>4, RejectKeeps
<1>5. ASSUME Beside PROVE BillingInv'
  BY <1>5, BesideKeeps DEF Beside
<1>6. ASSUME UNCHANGED vars PROVE BillingInv'
  BY <1>6, StutterKeeps
<1> QED
  BY <1>1, <1>2, <1>3, <1>4, <1>5, <1>6, StepKinds

-----------------------------------------------------------------------------
(***************************************************************************)
(* The invariant holds in every reachable state.                           *)
(***************************************************************************)
THEOREM BillingInvariant == Spec => []BillingInv
BY BillingInvInit, BillingInvStep, PTL DEF Spec

(***************************************************************************)
(* Every variable keeps its type.                                          *)
(***************************************************************************)
THEOREM BillingTypes == Spec => []TypeOK
<1>1. BillingInv => TypeOK
  BY DEF BillingInv
<1> QED
  BY <1>1, BillingInvariant, PTL

(***************************************************************************)
(* A session is collected by one SESSION_PAYMENT at most, whichever        *)
(* writers of its amount run side by side.                                 *)
(***************************************************************************)
THEOREM CollectedOnce == Spec => []OnePaymentPerSession
<1>1. BillingInv => OnePaymentPerSession
  BY DEF BillingInv, Sound, OnePaymentPerSession
<1> QED
  BY <1>1, BillingInvariant, PTL

(***************************************************************************)
(* The money of a session never changes its till.                          *)
(***************************************************************************)
THEOREM StickyTill == Spec => []OneTillPerSession
<1>1. BillingInv => OneTillPerSession
  BY DEF BillingInv, Sound, OneTillPerSession
<1> QED
  BY <1>1, BillingInvariant, PTL

(***************************************************************************)
(* No interleaving of stale amounts makes a till owe money for a session.  *)
(***************************************************************************)
THEOREM NothingOwed == Spec => []NeverBelowZero
<1>1. BillingInv => NeverBelowZero
  BY DEF BillingInv, Sound, NeverBelowZero
<1> QED
  BY <1>1, BillingInvariant, PTL

(***************************************************************************)
(* A till is never credited for a session that ended before its cutover,   *)
(* nor for one that has not ended.                                         *)
(***************************************************************************)
THEOREM LegacyNeverCredited == Spec => []LegacyStaysOut
<1>1. BillingInv => LegacyStaysOut
  BY DEF BillingInv, Sound, RowsSound, LegacyStaysOut
<1> QED
  BY <1>1, BillingInvariant, PTL

(***************************************************************************)
(* No session ever has two requests waiting.                               *)
(***************************************************************************)
THEOREM OneRequestWaits == Spec => []OnePendingPerSession
<1>1. BillingInv => OnePendingPerSession
  BY DEF BillingInv
<1> QED
  BY <1>1, BillingInvariant, PTL

(***************************************************************************)
(* One payment, in one till, never below zero, never before the cutover:   *)
(* all at once.                                                            *)
(***************************************************************************)
THEOREM CollectedOnceInOneTill == Spec => []OneCollection
<1>1. OnePaymentPerSession /\ OneTillPerSession /\ NeverBelowZero /\ LegacyStaysOut
        => OneCollection
  BY DEF OneCollection
<1> QED
  BY <1>1, CollectedOnce, StickyTill, NothingOwed, LegacyNeverCredited, PTL

(***************************************************************************)
(* A decision on a request is final.                                       *)
(***************************************************************************)
LEMMA DecisionStep ==
  ASSUME BillingInv, [Next]_vars, NEW q \in Ticket, ticket[q].state \in {"APPROVED", "REJECTED"}
  PROVE  ticket'[q] = ticket[q]
<1>1. ASSUME NEW w \in Worker, NEW k, TakesUp(w, k) PROVE ticket' = ticket
  BY <1>1 DEF TakesUp
<1>2. ASSUME NEW w \in Worker, NEW s \in Session, NEW r, NEW m, Writes(w, s, r, m)
      PROVE  ticket'[q] = ticket[q]
  <2>1. Applying(task[w]) /\ task[w].ticket # None => task[w].ticket # q
    BY DEF BillingInv, ClaimsExclude
  <2> QED
    BY <1>2, <2>1 DEF Writes, Approved, BillingInv, TypeOK
<1>3. ASSUME NEW w \in Worker, createRequest(w) \/ Rollback(w) PROVE ticket'[q] = ticket[q]
  BY <1>3 DEF createRequest, Rollback, BillingInv, TypeOK
<1>4. ASSUME NEW u \in Ticket, rejectRequest(u) PROVE ticket'[q] = ticket[q]
  BY <1>4 DEF rejectRequest, Claimable, BillingInv, TypeOK
<1>5. ASSUME Beside \/ UNCHANGED vars PROVE ticket' = ticket
  BY <1>5 DEF Beside, setCashAccountAssignment, hydrateRuntimeCache, deleteShift, vars
<1> QED
  BY <1>1, <1>2, <1>3, <1>4, <1>5, StepKinds

THEOREM DecisionsAreFinal == Spec => DecidedOnce
<1>1. BillingInv /\ [Next]_vars
      => [\A q \in Ticket : ticket[q].state \in {"APPROVED", "REJECTED"}
                            => ticket'[q] = ticket[q]]_vars
  BY DecisionStep
<1> QED
  BY <1>1, BillingInvariant, PTL DEF Spec, DecidedOnce

-----------------------------------------------------------------------------
(***************************************************************************)
(* One step of the code is at most one step of the account of one session. *)
(***************************************************************************)
LEMMA LedgerStep ==
  ASSUME BillingInv, [Next]_vars
  PROVE  \/ UNCHANGED ledger
         \/ \E s \in Session : \E m : /\ ledger' = [ledger EXCEPT ![s] = m]
                                     /\ Sound(m, s)
                                     /\ Moved(ledger[s], m)
<1>1. ASSUME NEW w \in Worker, NEW k, TakesUp(w, k) PROVE ledger' = ledger
  BY <1>1 DEF TakesUp
<1>2. ASSUME NEW w \in Worker, createRequest(w) \/ Rollback(w) PROVE ledger' = ledger
  BY <1>2 DEF createRequest, Rollback
<1>3. ASSUME NEW q \in Ticket, rejectRequest(q) PROVE ledger' = ledger
  BY <1>3 DEF rejectRequest
<1>4. ASSUME Beside \/ UNCHANGED vars PROVE ledger' = ledger
  BY <1>4 DEF Beside, setCashAccountAssignment, hydrateRuntimeCache, deleteShift, vars
<1>5. ASSUME NEW w \in Worker, NEW s \in Session, NEW r, NEW m, Writes(w, s, r, m)
      PROVE  \E t \in Session : \E n : /\ ledger' = [ledger EXCEPT ![t] = n]
                                      /\ Sound(n, t)
                                      /\ Moved(ledger[t], n)
  BY <1>5 DEF Writes
<1> QED
  BY <1>1, <1>2, <1>3, <1>4, <1>5, StepKinds

(***************************************************************************)
(* The writers, with all their interleavings, implement the accounts of    *)
(* the sessions.                                                           *)
(***************************************************************************)
THEOREM BillingImplementsAccounts == Spec => ImplementsSessionAccounts
<1> DEFINE collected == [s \in Session |-> ledger[s].net]
           account == [s \in Session |-> ledger[s].tills]
<1>1. Init => Accounts!AccountsInit
  BY DEF Init, Accounts!AccountsInit
<1>2. BillingInv /\ BillingInv' /\ [Next]_vars => [Accounts!AccountsNext]_(Accounts!accountVars)
  <2> SUFFICES ASSUME BillingInv, [Next]_vars
               PROVE  [Accounts!AccountsNext]_(Accounts!accountVars)
    OBVIOUS
  <2>1. CASE UNCHANGED ledger
    BY <2>1 DEF Accounts!accountVars
  <2>2. ASSUME NEW s \in Session, NEW m, ledger' = [ledger EXCEPT ![s] = m],
               Sound(m, s), Moved(ledger[s], m)
        PROVE  [Accounts!AccountsNext]_(Accounts!accountVars)
    <3>1. /\ collected' = [collected EXCEPT ![s] = m.net]
          /\ account' = [account EXCEPT ![s] = m.tills]
      BY <2>2 DEF BillingInv, TypeOK
    <3>2. collected'[s] = m.net /\ account[s] = ledger[s].tills /\ m.net >= 0
      BY <2>2, <3>1 DEF Sound
    <3>3. CASE m = ledger[s]
      <4>1. ledger' = ledger
        BY <2>2, <3>3 DEF BillingInv, TypeOK
      <4> QED
        BY <4>1 DEF Accounts!accountVars
    <3>4. CASE ledger[s].tills # {} /\ m.tills = ledger[s].tills
      <4>1. account' = account
        BY <3>1, <3>4
      <4>2. Accounts!Change(s)
        BY <3>1, <3>2, <3>4, <4>1 DEF Accounts!Change
      <4> QED
        BY <4>2 DEF Accounts!AccountsNext
    <3>5. ASSUME NEW t \in Till, ledger[s].tills = {}, m.tills = {t}
          PROVE  Accounts!AccountsNext
      <4>1. Accounts!Collect(s, t)
        BY <3>1, <3>2, <3>5 DEF Accounts!Collect
      <4> QED
        BY <4>1 DEF Accounts!AccountsNext
    <3> QED
      BY <2>2, <3>3, <3>4, <3>5 DEF Moved
  <2> QED
    BY <2>1, <2>2, LedgerStep
<1> QED
  BY <1>1, <1>2, BillingInvariant, PTL
     DEF Spec, ImplementsSessionAccounts, Accounts!AccountsSpec

-----------------------------------------------------------------------------
(***************************************************************************)
(* With one writer at a time, the ledger follows the row.                  *)
(*                                                                         *)
(* The writer is the only one that changes what a row says, so what it has *)
(* read is what the row still says (ReadIsFresh), and a session it ends    *)
(* has not ended before.  Synced then moves the ledger from what the row   *)
(* said to what it says now (SyncedFollows).                               *)
(***************************************************************************)
Says(r, q) ==
  /\ r.corrected = q.corrected /\ r.expected = q.expected
  /\ r.status = q.status /\ r.ended = q.ended

OnlyTheWriter == \A v \in Worker : task[v].step # "idle" => v \in world.workers

ReadIsFresh(k) ==
  /\ k.step \in {"correcting", "archiving", "planRead", "paidRead"} => Says(k.row, row[k.session])
  /\ k.step = "correcting" => row[k.session].ended
  /\ k.step \in {"ending", "recovering"} => ~row[k.session].ended
  /\ k.step = "recovering" /\ shift[k.session].attached => k.attached

(***************************************************************************)
(* A session whose money is to be in a till: all tills were tracked when   *)
(* it ended, and it has its shift.                                         *)
(***************************************************************************)
Due(s) == finish[s].covered = Till /\ shift[s].attached

(***************************************************************************)
(* A row r with net in its ledger: nobody will end it again, it has its    *)
(* price once it has ended, and the money that is due is there.            *)
(***************************************************************************)
Settled(r, net, due, held) ==
  /\ held \/ r.status = "ACTIVE" => ~r.ended
  /\ IF r.ended THEN r.expected \in Nat ELSE r.corrected = None /\ r.expected = None
  /\ r.ended /\ due => net = IF r.corrected = None THEN r.expected ELSE r.corrected

FollowInv ==
  /\ OnlyTheWriter
  /\ \A w \in Worker : ReadIsFresh(task[w])
  /\ \A s \in Session : Settled(row[s], ledger[s].net, Due(s), engine[s])

(***************************************************************************)
(* For a session whose money is due, syncSessionCashLedgerInTx leaves in   *)
(* the ledger what it is told to, unless it is told that nothing was and   *)
(* nothing is due while something is there.                                *)
(***************************************************************************)
LEMMA SyncedFollows ==
  ASSUME TypeOK, NEW s \in Session, NEW l, Sound(l, s), Due(s),
         NEW previous \in Nat, NEW target \in Nat,
         previous = 0 /\ target = 0 => l.net = 0,
         NEW m \in Synced(l, s, previous, target, TRUE)
  PROVE  m.net = target
<1>1. l.net \in Int /\ (l.tills = {} => l.net = 0)
  BY DEF Sound, SessionLedger
<1>2. CASE previous = 0 /\ target = 0
  BY <1>2 DEF Synced
<1>3. CASE ~(previous = 0 /\ target = 0)
  <2>1. PICK t \in ProspectiveTill(l, s) :
          /\ assertNewSessionCashCreditAllowed(l, s, t, TRUE, target)
          /\ \/ /\ \/ Delta(l, previous, target) = 0
                   \/ ~shouldAllowSessionCashCredit(l, s, t, TRUE)
                /\ m = l
             \/ m = planSessionPaidSync(l, t, previous, target)
    BY <1>3 DEF Synced
  <2>2. CASE m = planSessionPaidSync(l, t, previous, target)
    BY <1>1, <2>2 DEF planSessionPaidSync, Delta
  <2>3. CASE m = l /\ Delta(l, previous, target) = 0
    BY <1>1, <2>3 DEF Delta
  <2>4. CASE m = l /\ ~shouldAllowSessionCashCredit(l, s, t, TRUE)
    <3>1. l.tills = {} /\ (t = None \/ t \notin Till)
      BY <2>4 DEF shouldAllowSessionCashCredit, Due
    <3>2. shift[s].till \in Till \cup {None} /\ staffTill \in Till \cup {None}
      BY DEF TypeOK
    <3>3. t \in Till \cup {None}
      BY <3>1, <3>2, <2>1 DEF ProspectiveTill
    <3>4. ~(target > 0)
      BY <2>1, <3>1, <3>3, TillAssumption DEF assertNewSessionCashCreditAllowed, Due
    <3> QED
      BY <1>1, <2>4, <3>1, <3>4
  <2> QED
    BY <2>1, <2>2, <2>3, <2>4
<1> QED
  BY <1>2, <1>3

(***************************************************************************)
(* The writer that has finished leaves nobody with a stale read.           *)
(***************************************************************************)
LEMMA WriterFinishes ==
  ASSUME TypeOK, OneWriter, OnlyTheWriter, NEW w \in Worker, task[w].step # "idle",
         task' = [task EXCEPT ![w] = Idle], world' = world
  PROVE  OnlyTheWriter' /\ (\A v \in Worker : ReadIsFresh(task[v]))'
<1>1. \A v \in Worker : task'[v].step = "idle"
  BY DEF OneWriter, OnlyTheWriter, TypeOK, Idle
<1> QED
  BY <1>1 DEF OnlyTheWriter, ReadIsFresh

LEMMA FollowWrite ==
  ASSUME TypeOK, OneWriter, FollowInv, NEW w \in Worker, NEW s \in Session,
         task[w].step # "idle", task' = [task EXCEPT ![w] = Idle],
         UNCHANGED <<world, shift, finish>>,
         \A t \in Session \ {s} : /\ row'[t] = row[t] /\ ledger'[t] = ledger[t]
                                  /\ engine'[t] = engine[t],
         Settled(row'[s], ledger'[s].net, Due(s), engine'[s])
  PROVE  FollowInv'
<1>1. OnlyTheWriter' /\ (\A v \in Worker : ReadIsFresh(task[v]))'
  BY WriterFinishes DEF FollowInv
<1>2. ASSUME NEW t \in Session PROVE Settled(row[t], ledger[t].net, Due(t), engine[t])'
  <2>1. Due(t)' <=> Due(t)
    BY DEF Due
  <2>2. CASE t = s
    BY <2>1, <2>2 DEF Settled
  <2>3. CASE t # s
    BY <2>1, <2>3 DEF Settled, FollowInv
  <2> QED
    BY <2>2, <2>3
<1> QED
  BY <1>1, <1>2 DEF FollowInv

(***************************************************************************)
(* Steps that change nothing a row says.                                   *)
(***************************************************************************)
LEMMA FollowBeside ==
  ASSUME TypeOK, FollowInv, world' = world, ledger' = ledger, finish' = finish,
         \A v \in Worker : task'[v] = task[v] \/ task'[v] = Idle,
         \A t \in Session : /\ Says(row'[t], row[t])
                            /\ shift'[t].attached => shift[t].attached
                            /\ engine'[t] => engine[t] \/ row[t].status = "ACTIVE",
         \A v \in Worker : task[v].step # "idle" => task[v].session \in Session
  PROVE  FollowInv'
<1>1. OnlyTheWriter'
  BY DEF OnlyTheWriter, FollowInv, Idle
<1>2. ASSUME NEW v \in Worker PROVE ReadIsFresh(task[v])'
  <2>1. CASE task'[v] = Idle \/ task[v].step = "idle"
    BY <2>1 DEF ReadIsFresh, Idle
  <2>2. CASE task'[v] = task[v] /\ task[v].step # "idle"
    BY <2>2 DEF ReadIsFresh, FollowInv, Says
  <2> QED
    BY <2>1, <2>2
<1>3. ASSUME NEW t \in Session PROVE Settled(row[t], ledger[t].net, Due(t), engine[t])'
  BY <1>3 DEF Settled, Says, Due, FollowInv
<1> QED
  BY <1>1, <1>2, <1>3 DEF FollowInv

-----------------------------------------------------------------------------
(***************************************************************************)
(* A session that is read is free for one writer: what that writer takes   *)
(* up is fresh.                                                            *)
(***************************************************************************)
LEMMA FollowCarry ==
  ASSUME TypeOK, FollowInv, NEW w \in Worker, w \in world.workers,
         UNCHANGED <<world, row, ledger, shift, finish, engine>>,
         NEW k, task' = [task EXCEPT ![w] = k], ReadIsFresh(k)
  PROVE  FollowInv'
<1>1. \A v \in Worker : task'[v] = IF v = w THEN k ELSE task[v]
  BY DEF TypeOK
<1>2. OnlyTheWriter'
  BY <1>1 DEF OnlyTheWriter, FollowInv
<1>3. ASSUME NEW v \in Worker PROVE ReadIsFresh(task[v])'
  BY <1>1 DEF ReadIsFresh, FollowInv, Says
<1>4. ASSUME NEW t \in Session PROVE Settled(row[t], ledger[t].net, Due(t), engine[t])'
  BY DEF Settled, Due, FollowInv
<1> QED
  BY <1>2, <1>3, <1>4 DEF FollowInv

LEMMA FollowStart ==
  ASSUME TypeOK, FollowInv, OneWriter, NEW w \in Worker, NEW s \in Session,
         NEW step \in Step \ {"planRead", "paidRead"},
         NEW plan, NEW paid, NEW q, Start(w, s, step, plan, paid, q),
         step = "correcting" => row[s].ended,
         step \in {"ending", "recovering"} => ~row[s].ended,
         UNCHANGED <<world, row, ledger, shift, finish, engine>>
  PROVE  FollowInv'
<1> DEFINE k == [step |-> step, session |-> s, ticket |-> q, plan |-> plan, paid |-> paid,
                 row |-> IF step \in Remembering THEN row[s] ELSE None,
                 attached |-> step = "recovering" /\ shift[s].attached]
<1>1. task' = [task EXCEPT ![w] = k] /\ w \in world.workers
  BY DEF Start
<1>2. k.session = s /\ k.step = step
  OBVIOUS
<1>3. step \in {"correcting", "archiving"} => k.row = row[s]
  BY DEF Remembering
<1>4. step = "recovering" /\ shift[s].attached => k.attached
  OBVIOUS
<1> HIDE DEF k
<1>5. ReadIsFresh(k)
  BY <1>2, <1>3, <1>4 DEF ReadIsFresh, Says
<1> QED
  BY <1>1, <1>5, FollowCarry

LEMMA FollowBegin ==
  ASSUME BillingInv, FollowInv, OneWriter, NEW w \in Worker,
         \/ \E s \in Session : Begin(w, s)
         \/ \E q \in Ticket : approveRequest(w, q)
  PROVE  FollowInv'
<1>0. UNCHANGED <<world, row, ledger, shift, finish, engine>> /\ TypeOK
  BY BeginStep DEF BillingInv
<1>1. ASSUME NEW s \in Session, NEW step \in Step \ {"planRead", "paidRead"},
             NEW plan, NEW paid, NEW q, Start(w, s, step, plan, paid, q),
             step = "correcting" => row[s].ended,
             step \in {"ending", "recovering"} => ~row[s].ended
      PROVE  FollowInv'
  BY <1>0, <1>1, FollowStart
<1>2. \A s \in Session : engine[s] \/ row[s].status = "ACTIVE" => ~row[s].ended
  BY DEF FollowInv, Settled
<1>3. ASSUME NEW s \in Session, EndSession(w, s) \/ recoverChairSession(w, s)
      PROVE  FollowInv'
  BY <1>1, <1>2, <1>3 DEF EndSession, recoverChairSession, Step
<1>4. ASSUME NEW s \in Session, giveUp(w, s) \/ startArchive(w, s)
      PROVE  FollowInv'
  BY <1>1, <1>4 DEF giveUp, startArchive, Step
<1>5. ASSUME NEW s \in Session, startCorrection(w, s)
      PROVE  FollowInv'
  BY <1>1, <1>5 DEF startCorrection, OneWriter, Step
<1>6. ASSUME NEW s \in Session, changePlanDirect(w, s)
      PROVE  FollowInv'
  BY <1>1, <1>6 DEF changePlanDirect, Step
<1>7. ASSUME NEW s \in Session, NEW q \in Ticket, startRequest(w, s, q)
      PROVE  FollowInv'
  BY <1>1, <1>7 DEF startRequest, Step
<1>8. ASSUME NEW q \in Ticket, approveRequest(w, q)
      PROVE  FollowInv'
  <2>1. ticket[q].session \in Session
    BY <1>8 DEF BillingInv, approveRequest, assertRequestStillPending, TicketsSound
  <2> QED
    BY <1>1, <1>8, <2>1 DEF approveRequest, Step
<1> QED
  BY <1>3, <1>4, <1>5, <1>6, <1>7, <1>8 DEF Begin

LEMMA FollowReadAgain ==
  ASSUME BillingInv, FollowInv, NEW w \in Worker, readForPlanChange(w) \/ claimRequest(w)
  PROVE  FollowInv'
<1> DEFINE s == task[w].session
<1>1. task[w] \in Task /\ task[w].step # "idle" /\ TypeOK
  BY DEF BillingInv, TypeOK, readForPlanChange, claimRequest
<1>2. PICK step \in {"planRead", "paidRead"} : GoOn(w, step)
  BY DEF readForPlanChange, claimRequest
<1>3. UNCHANGED <<world, row, ledger, shift, finish, engine>>
  BY DEF readForPlanChange, claimRequest
<1> DEFINE k == [task[w] EXCEPT !.step = step, !.row = row[s]]
<1>4. task' = [task EXCEPT ![w] = k]
  BY <1>2 DEF GoOn, BillingInv, TypeOK
<1>5. k.step = step /\ k.row = row[s] /\ k.session = s
  BY <1>1 DEF Task
<1>6. w \in world.workers
  BY <1>1 DEF FollowInv, OnlyTheWriter
<1> HIDE DEF k
<1>7. ReadIsFresh(k)
  BY <1>2, <1>5 DEF ReadIsFresh, Says
<1> QED
  BY <1>1, <1>3, <1>4, <1>6, <1>7, FollowCarry

-----------------------------------------------------------------------------
(***************************************************************************)
(* What each writer leaves behind.                                         *)
(***************************************************************************)
LEMMA FollowFinalize ==
  ASSUME BillingInv, FollowInv, OneWriter, NEW w \in Worker, finalizeActiveSession(w)
  PROVE  FollowInv'
<1> DEFINE s == task[w].session
           p == task[w].plan
           skip == task[w].step = "recovering" /\ ~task[w].attached
<1>1. /\ s \in Session /\ task[w].step # "idle" /\ TypeOK /\ task[w] \in Task
      /\ task' = [task EXCEPT ![w] = Idle] /\ UNCHANGED <<world, shift, finish>>
  BY DEF BillingInv, TypeOK, TaskSound, finalizeActiveSession, Done
<1>2. row[s] \in SessionRow /\ Sound(ledger[s], s) /\ p \in Plan \cup {None}
      /\ (ledger[s].tills # {} => row[s].ended)
  BY <1>1 DEF BillingInv, TypeOK, RowsSound, Task
<1>3. PriceOf(p) \in Nat
  BY <1>2, PriceAssumption DEF PriceOf
<1>4. ReadIsFresh(task[w]) /\ ~row[s].ended /\ row[s].corrected = None
  BY <1>1 DEF FollowInv, ReadIsFresh, Settled, finalizeActiveSession
<1>5. /\ row'[s].ended /\ row'[s].status = "COMPLETED"
      /\ row'[s].expected = PriceOf(p) /\ row'[s].corrected = None
  BY <1>1, <1>2, <1>4 DEF finalizeActiveSession, Finalized, Update, SessionRow, TypeOK
<1>6. ~engine'[s]
  BY <1>1 DEF finalizeActiveSession, PrimeRefused, OneWriter, TypeOK
<1>7. \A t \in Session \ {s} : /\ row'[t] = row[t] /\ ledger'[t] = ledger[t]
                               /\ engine'[t] = engine[t]
  BY <1>1 DEF finalizeActiveSession, Update, TypeOK
<1>8. Due(s) => ledger'[s].net = PriceOf(p)
  <2> SUFFICES ASSUME Due(s) PROVE ledger'[s].net = PriceOf(p)
    OBVIOUS
  <2>1. ~skip
    BY <1>4 DEF Due, ReadIsFresh
  <2>2. ledger'[s] \in Synced(ledger[s], s, 0, PriceOf(p), TRUE)
    BY <1>1, <2>1 DEF finalizeActiveSession, TypeOK
  <2>3. ledger[s].net = 0
    BY <1>2, <1>4 DEF Sound
  <2>4. TypeOK /\ s \in Session /\ Sound(ledger[s], s) /\ 0 \in Nat
    BY <1>1, <1>2
  <2> HIDE DEF s, p, skip
  <2> QED
    BY <1>3, <2>2, <2>3, <2>4, SyncedFollows
<1>9. Settled(row'[s], ledger'[s].net, Due(s), engine'[s])
  BY <1>3, <1>5, <1>6, <1>8 DEF Settled
<1> QED
  BY <1>1, <1>7, <1>9, FollowWrite

LEMMA FollowReview ==
  ASSUME BillingInv, FollowInv, OneWriter, NEW w \in Worker, markSessionNeedsReview(w)
  PROVE  FollowInv'
<1> DEFINE s == task[w].session
<1>1. /\ s \in Session /\ task[w].step # "idle" /\ TypeOK
      /\ task' = [task EXCEPT ![w] = Idle] /\ UNCHANGED <<world, ledger, shift, finish>>
  BY DEF BillingInv, TypeOK, TaskSound, markSessionNeedsReview, Done
<1>2. row[s] \in SessionRow
  BY <1>1 DEF TypeOK
<1>3. /\ row'[s].ended = row[s].ended /\ row'[s].status = "UNCERTAIN"
      /\ row'[s].expected = row[s].expected /\ row'[s].corrected = row[s].corrected
  BY <1>1, <1>2 DEF markSessionNeedsReview, Update, SessionRow, TypeOK
<1>4. ~engine'[s]
  BY <1>1 DEF markSessionNeedsReview, TypeOK
<1>5. \A t \in Session \ {s} : row'[t] = row[t] /\ engine'[t] = engine[t]
  BY <1>1 DEF markSessionNeedsReview, Update, TypeOK
<1>6. Settled(row'[s], ledger'[s].net, Due(s), engine'[s])
  BY <1>1, <1>3, <1>4 DEF FollowInv, Settled
<1> QED
  BY <1>1, <1>5, <1>6, FollowWrite

LEMMA FollowDeletion ==
  ASSUME BillingInv, FollowInv, OneWriter, NEW w \in Worker, deleteSession(w)
  PROVE  FollowInv'
<1> DEFINE s == task[w].session
<1>1. /\ s \in Session /\ task[w].step # "idle" /\ TypeOK
      /\ task' = [task EXCEPT ![w] = Idle] /\ UNCHANGED <<world, ledger, shift, finish, engine>>
  BY DEF BillingInv, TypeOK, TaskSound, deleteSession, Done
<1>2. row[s] \in SessionRow
  BY <1>1 DEF TypeOK
<1>3. /\ row'[s].ended = row[s].ended /\ row'[s].status \in {row[s].status, "CANCELLED"}
      /\ row'[s].expected = row[s].expected /\ row'[s].corrected = row[s].corrected
  BY <1>1, <1>2 DEF deleteSession, Update, SessionRow, TypeOK
<1>4. \A t \in Session \ {s} : row'[t] = row[t]
  BY <1>1 DEF deleteSession, Update, TypeOK
<1>5. Settled(row'[s], ledger'[s].net, Due(s), engine'[s])
  BY <1>1, <1>3 DEF FollowInv, Settled
<1> QED
  BY <1>1, <1>4, <1>5, FollowWrite

LEMMA FollowCorrection ==
  ASSUME BillingInv, FollowInv, OneWriter, NEW w \in Worker, correctSession(w)
  PROVE  FollowInv'
<1> DEFINE s == task[w].session
           read == task[w].row
           paid == task[w].paid
           previous == resolveSessionPaidTarget(read.corrected, read.expected)
           target == resolveSessionPaidTarget(paid, read.expected)
<1>1. /\ s \in Session /\ task[w].step # "idle" /\ TypeOK /\ task[w] \in Task
      /\ task' = [task EXCEPT ![w] = Idle] /\ UNCHANGED <<world, shift, finish, engine>>
  BY DEF BillingInv, TypeOK, TaskSound, correctSession, Done
<1>2. row[s] \in SessionRow /\ Sound(ledger[s], s) /\ paid \in Amount
      /\ row[s].corrected \in Amount /\ row[s].expected \in Amount
  BY <1>1 DEF BillingInv, TypeOK, Task, SessionRow
<1>3. Says(read, row[s]) /\ row[s].ended
  BY <1>1 DEF FollowInv, ReadIsFresh, correctSession
<1>4. row[s].expected \in Nat /\ row[s].status # "ACTIVE" /\ ~engine[s]
      /\ (Due(s) => ledger[s].net = IF row[s].corrected = None THEN row[s].expected
                                                                ELSE row[s].corrected)
  BY <1>1, <1>3 DEF FollowInv, Settled
<1>5. previous \in Nat /\ target \in Nat
  BY <1>2, <1>3, TargetIsAmount DEF Says
<1>6. target = IF paid = None THEN row[s].expected ELSE paid
  BY <1>3, <1>4, NoneAssumption DEF Says, resolveSessionPaidTarget
<1>7. Due(s) => ledger[s].net = previous
  BY <1>3, <1>4, NoneAssumption DEF Says, resolveSessionPaidTarget
<1>8. /\ row'[s].ended = TRUE /\ row'[s].status = row[s].status
      /\ row'[s].expected = row[s].expected /\ row'[s].corrected = paid
  BY <1>1, <1>2, <1>3 DEF correctSession, Update, SessionRow, TypeOK
<1>9. \A t \in Session \ {s} : row'[t] = row[t] /\ ledger'[t] = ledger[t]
  BY <1>1 DEF correctSession, Update, TypeOK
<1>10. ledger'[s] \in Synced(ledger[s], s, previous, target, TRUE)
  <2>1. row[s].ended = TRUE
    BY <1>2, <1>3 DEF SessionRow
  <2>2. PICK l \in Synced(ledger[s], s, previous, target, row[s].ended) :
          ledger' = [ledger EXCEPT ![s] = l]
    BY DEF correctSession
  <2>3. ledger'[s] = l
    BY <1>1, <2>2 DEF TypeOK
  <2> QED
    BY <2>1, <2>2, <2>3
<1> HIDE DEF s, read, paid, previous, target
<1>11. Due(s) => ledger'[s].net = target
  BY <1>1, <1>2, <1>5, <1>7, <1>10, SyncedFollows
<1>12. Settled(row'[s], ledger'[s].net, Due(s), engine'[s])
  BY <1>1, <1>4, <1>6, <1>8, <1>11 DEF Settled
<1> QED
  BY <1>1, <1>9, <1>12, FollowWrite DEF s

(***************************************************************************)
(* A plan, then perhaps an amount: l is the ledger the row r stands for,   *)
(* m the ledger after the change.                                          *)
(***************************************************************************)
Stands(l, r, s) == Due(s) => l.net = IF r.corrected = None THEN r.expected ELSE r.corrected

LEMMA PlanFollows ==
  ASSUME TypeOK, NEW s \in Session, NEW l, Sound(l, s), NEW r \in SessionRow,
         r.expected \in Nat, Stands(l, r, s), NEW read, Says(read, r),
         NEW p \in Plan, NEW m \in LedgersAfterPlan(l, s, read, p)
  PROVE  Stands(m, buildPlanChangeSessionUpdate(r, p), s)
<1> DEFINE previous == resolveSessionPaidTarget(read.corrected, read.expected)
           target == resolveSessionPaidTarget(read.corrected, Price[p])
           new == buildPlanChangeSessionUpdate(r, p)
<1>1. r.corrected \in Amount /\ Price[p] \in Nat /\ Price[p] \in Amount /\ r.expected \in Amount
  BY PriceAssumption DEF SessionRow, Amount
<1>2. previous \in Nat /\ target \in Nat
  BY <1>1, TargetIsAmount DEF Says
<1>3. new.corrected = r.corrected /\ new.expected = Price[p]
  BY DEF buildPlanChangeSessionUpdate, SessionRow
<1>4. target = IF new.corrected = None THEN new.expected ELSE new.corrected
  BY <1>1, <1>3, NoneAssumption DEF Says, resolveSessionPaidTarget
<1>5. Due(s) => l.net = previous
  BY NoneAssumption DEF Says, Stands, resolveSessionPaidTarget
<1>6. m \in Synced(l, s, previous, target, TRUE)
  BY DEF LedgersAfterPlan
<1> HIDE DEF previous, target, new
<1>7. Due(s) => m.net = target
  BY <1>2, <1>5, <1>6, SyncedFollows
<1> QED
  BY <1>4, <1>7 DEF Stands, new

LEMMA PaidFollows ==
  ASSUME TypeOK, NEW s \in Session, NEW l, Sound(l, s), NEW r \in SessionRow,
         r.expected \in Nat, Stands(l, r, s), NEW read, Says(read, r),
         NEW a \in Nat, NEW m \in LedgersAfterPaid(l, s, read, a)
  PROVE  Stands(m, buildPaidAmountSessionUpdate(r, a), s)
<1> DEFINE previous == resolveSessionPaidTarget(read.corrected, read.expected)
           new == buildPaidAmountSessionUpdate(r, a)
<1>1. r.corrected \in Amount /\ r.expected \in Amount
  BY DEF SessionRow, Amount
<1>2. previous \in Nat
  BY <1>1, TargetIsAmount DEF Says
<1>3. new.corrected = a /\ a # None
  BY NoneAssumption DEF buildPaidAmountSessionUpdate, SessionRow
<1>4. Due(s) => l.net = previous
  BY NoneAssumption DEF Says, Stands, resolveSessionPaidTarget
<1>5. m \in Synced(l, s, previous, a, TRUE)
  BY DEF LedgersAfterPaid
<1> HIDE DEF previous, new
<1>6. Due(s) => m.net = a
  BY <1>2, <1>4, <1>5, SyncedFollows
<1> QED
  BY <1>3, <1>6 DEF Stands, new

LEMMA FollowApply ==
  ASSUME BillingInv, FollowInv, OneWriter, NEW w \in Worker,
         \/ applySessionPlanChangeInTx(w)
         \/ applyPaidAmountChangeInTx(w)
         \/ applyPlanThenPaid(w)
  PROVE  FollowInv'
<1> DEFINE s == task[w].session
           p == task[w].plan
           a == task[w].paid
           read == task[w].row
           between == buildPlanChangeSessionUpdate(row[s], p)
<1>1. Applying(task[w]) /\ task[w].step # "idle"
  BY DEF applySessionPlanChangeInTx, applyPaidAmountChangeInTx, applyPlanThenPaid, Applying
<1>2. s \in Session /\ read \in SessionRow /\ row[s].ended /\ TypeOK
  BY <1>1 DEF BillingInv, TaskSound, Applying
<1>3. row[s] \in SessionRow /\ Sound(ledger[s], s) /\ a \in Amount
  BY <1>2 DEF BillingInv, TypeOK, Task
<1>4. Says(read, row[s])
  BY <1>1 DEF FollowInv, ReadIsFresh, Applying
<1>5. row[s].expected \in Nat /\ row[s].status # "ACTIVE" /\ ~engine[s] /\ Stands(ledger[s], row[s], s)
  BY <1>2 DEF FollowInv, Settled, Stands
<1>6. /\ task' = [task EXCEPT ![w] = Idle]
      /\ UNCHANGED <<world, shift, finish, engine>>
  BY DEF applySessionPlanChangeInTx, applyPaidAmountChangeInTx, applyPlanThenPaid, Done
<1>7. ASSUME NEW r \in SessionRow, NEW m, Update(s, r), r.ended = row[s].ended,
             r.status = row[s].status, r.expected \in Nat,
             ledger' = [ledger EXCEPT ![s] = m], Stands(m, r, s)
      PROVE  FollowInv'
  <2>1. /\ row'[s].ended = r.ended /\ row'[s].status = r.status
        /\ row'[s].expected = r.expected /\ row'[s].corrected = r.corrected
    BY <1>2, <1>7 DEF Update, SessionRow, TypeOK
  <2>2. ledger'[s] = m
    BY <1>2, <1>7 DEF TypeOK
  <2>3. \A t \in Session \ {s} : row'[t] = row[t] /\ ledger'[t] = ledger[t]
    BY <1>2, <1>7 DEF Update, TypeOK
  <2>4. engine'[s] = engine[s]
    BY <1>6
  <2> HIDE DEF s
  <2>5. Settled(row'[s], m.net, Due(s), engine'[s])
    BY <1>2, <1>5, <1>7, <2>1, <2>4 DEF Settled, Stands
  <2>6. \A t \in Session \ {s} : engine'[t] = engine[t]
    BY <1>6
  <2> QED
    BY <1>1, <1>2, <1>6, <2>2, <2>3, <2>5, <2>6, FollowWrite
<1>8. p \in Plan => /\ between \in SessionRow /\ between.ended = row[s].ended
                    /\ between.status = row[s].status /\ between.expected \in Nat
  BY <1>3, PriceAssumption DEF buildPlanChangeSessionUpdate, SessionRow, Amount
<1>9. CASE applySessionPlanChangeInTx(w)
  <2>1. p \in Plan
    BY <1>9 DEF BillingInv, TaskSound, applySessionPlanChangeInTx
  <2>2. PICK m \in LedgersAfterPlan(ledger[s], s, read, p) : ledger' = [ledger EXCEPT ![s] = m]
    BY <1>9 DEF applySessionPlanChangeInTx
  <2>3. Update(s, between)
    BY <1>9 DEF applySessionPlanChangeInTx
  <2>4. Stands(m, between, s)
    BY <1>2, <1>3, <1>4, <1>5, <2>1, <2>2, PlanFollows
  <2> HIDE DEF s, p, a, read, between
  <2> QED
    BY <1>7, <1>8, <2>1, <2>2, <2>3, <2>4
<1>10. CASE applyPaidAmountChangeInTx(w)
  <2> DEFINE after == buildPaidAmountSessionUpdate(row[s], a)
  <2>1. a \in Nat
    BY <1>10 DEF BillingInv, TaskSound, applyPaidAmountChangeInTx
  <2>2. PICK m \in LedgersAfterPaid(ledger[s], s, read, a) : ledger' = [ledger EXCEPT ![s] = m]
    BY <1>10 DEF applyPaidAmountChangeInTx
  <2>3. Update(s, after)
    BY <1>10 DEF applyPaidAmountChangeInTx
  <2>4. /\ after \in SessionRow /\ after.ended = row[s].ended
        /\ after.status = row[s].status /\ after.expected \in Nat
    BY <1>3, <1>5, <2>1 DEF buildPaidAmountSessionUpdate, SessionRow, Amount
  <2>5. Stands(m, after, s)
    BY <1>2, <1>3, <1>4, <1>5, <2>1, <2>2, PaidFollows
  <2> HIDE DEF s, p, a, read, between, after
  <2> QED
    BY <1>7, <2>2, <2>3, <2>4, <2>5
<1>11. CASE applyPlanThenPaid(w)
  <2> DEFINE after == buildPaidAmountSessionUpdate(between, a)
  <2>1. p \in Plan
    BY <1>11 DEF BillingInv, TaskSound, applyPlanThenPaid
  <2>2. a \in Nat
    BY <1>3, <1>11 DEF applyPlanThenPaid, Amount
  <2>3. PICK l \in LedgersAfterPlan(ledger[s], s, read, p) :
          \E m \in LedgersAfterPaid(l, s, between, a) : ledger' = [ledger EXCEPT ![s] = m]
    BY <1>11 DEF applyPlanThenPaid
  <2>4. PICK m \in LedgersAfterPaid(l, s, between, a) : ledger' = [ledger EXCEPT ![s] = m]
    BY <2>3
  <2>5. Update(s, after)
    BY <1>11 DEF applyPlanThenPaid
  <2>6. /\ after \in SessionRow /\ after.ended = row[s].ended
        /\ after.status = row[s].status /\ after.expected \in Nat
    BY <1>3, <1>8, <2>1, <2>2 DEF buildPaidAmountSessionUpdate, SessionRow, Amount
  <2>7. Sound(l, s) /\ Stands(l, between, s)
    BY <1>2, <1>3, <1>4, <1>5, <2>1, <2>3, PlanKeepsSound, PlanFollows
  <2>8. Says(between, between)
    BY DEF Says
  <2>9. Stands(m, after, s)
    BY <1>2, <1>8, <2>1, <2>2, <2>4, <2>7, <2>8, PaidFollows
  <2> HIDE DEF s, p, a, read, between, after
  <2> QED
    BY <1>7, <2>4, <2>5, <2>6, <2>9
<1> QED
  BY <1>9, <1>10, <1>11

(***************************************************************************)
(* What goes on beside the writers, and what ends without a write.         *)
(***************************************************************************)
LEMMA FollowOthers ==
  ASSUME BillingInv, FollowInv,
         \/ \E w \in Worker : createRequest(w) \/ Rollback(w)
         \/ \E q \in Ticket : rejectRequest(q)
         \/ Beside
         \/ UNCHANGED vars
  PROVE  FollowInv'
<1>1. TypeOK /\ \A v \in Worker : task[v].step # "idle" => task[v].session \in Session
  BY DEF BillingInv, TaskSound
<1>2. \A t \in Session : Says(row[t], row[t])
  BY DEF Says
<1>3. ASSUME NEW w \in Worker, createRequest(w) \/ Rollback(w) PROVE FollowInv'
  <2>1. /\ UNCHANGED <<world, row, ledger, shift, finish, engine>>
        /\ task' = [task EXCEPT ![w] = Idle]
    BY <1>3 DEF createRequest, Rollback, Done
  <2>2. \A v \in Worker : task'[v] = task[v] \/ task'[v] = Idle
    BY <1>1, <2>1 DEF TypeOK
  <2> QED
    BY <1>1, <1>2, <2>1, <2>2, FollowBeside
<1>4. ASSUME NEW q \in Ticket, rejectRequest(q) PROVE FollowInv'
  BY <1>1, <1>2, <1>4, FollowBeside DEF rejectRequest
<1>5. ASSUME setCashAccountAssignment PROVE FollowInv'
  BY <1>1, <1>2, <1>5, FollowBeside DEF setCashAccountAssignment
<1>6. ASSUME NEW s \in Session, hydrateRuntimeCache(s) PROVE FollowInv'
  <2>1. \A t \in Session : engine'[t] => engine[t] \/ row[t].status = "ACTIVE"
    BY <1>1, <1>6 DEF hydrateRuntimeCache, TypeOK
  <2>2. UNCHANGED <<world, row, ledger, shift, finish, task>>
    BY <1>6 DEF hydrateRuntimeCache
  <2> QED
    BY <1>1, <1>2, <2>1, <2>2, FollowBeside
<1>7. ASSUME NEW s \in Session, deleteShift(s) PROVE FollowInv'
  <2>1. \A t \in Session : Says(row'[t], row[t])
    BY <1>1, <1>7 DEF deleteShift, Update, Says, TypeOK, SessionRow
  <2>2. \A t \in Session : shift'[t].attached => shift[t].attached
    BY <1>1, <1>7 DEF deleteShift, TypeOK
  <2>3. UNCHANGED <<world, ledger, finish, engine, task>>
    BY <1>7 DEF deleteShift
  <2> QED
    BY <1>1, <2>1, <2>2, <2>3, FollowBeside
<1>8. ASSUME UNCHANGED vars PROVE FollowInv'
  BY <1>1, <1>2, <1>8, FollowBeside DEF vars
<1> QED
  BY <1>3, <1>4, <1>5, <1>6, <1>7, <1>8 DEF Beside

-----------------------------------------------------------------------------
(***************************************************************************)
(* A world of one writer stays one, so that the invariant is               *)
(* OneWriter => FollowInv.                                                 *)
(***************************************************************************)
AloneInv == OneWriter => FollowInv

LEMMA WorldIsRigid ==
  ASSUME BillingInv, [Next]_vars
  PROVE  world' = world
<1>1. ASSUME NEW w \in Worker, NEW k, TakesUp(w, k) PROVE world' = world
  BY <1>1 DEF TakesUp
<1>2. ASSUME NEW w \in Worker, NEW s \in Session, NEW r, NEW m, Writes(w, s, r, m)
      PROVE  world' = world
  BY <1>2 DEF Writes
<1>3. ASSUME NEW w \in Worker, createRequest(w) \/ Rollback(w) PROVE world' = world
  BY <1>3 DEF createRequest, Rollback
<1>4. ASSUME NEW q \in Ticket, rejectRequest(q) PROVE world' = world
  BY <1>4 DEF rejectRequest
<1>5. ASSUME Beside \/ UNCHANGED vars PROVE world' = world
  BY <1>5 DEF Beside, setCashAccountAssignment, hydrateRuntimeCache, deleteShift, vars
<1> QED
  BY <1>1, <1>2, <1>3, <1>4, <1>5, StepKinds

LEMMA AloneInvInit == Init => AloneInv
<1> SUFFICES ASSUME Init PROVE FollowInv
  BY DEF AloneInv
<1>1. \A w \in Worker : task[w].step = "idle"
  BY DEF Init, Idle
<1>2. \A s \in Session : /\ ~row[s].ended /\ row[s].corrected = None
                         /\ row[s].expected = None
  <2>1. ~NewRow.ended /\ NewRow.corrected = None /\ NewRow.expected = None
    BY DEF NewRow
  <2>2. \A s \in Session : row[s] = NewRow
    BY DEF Init
  <2> QED
    BY <2>1, <2>2
<1>3. OnlyTheWriter /\ \A w \in Worker : ReadIsFresh(task[w])
  BY <1>1 DEF OnlyTheWriter, ReadIsFresh
<1>4. ASSUME NEW s \in Session PROVE Settled(row[s], ledger[s].net, Due(s), engine[s])
  BY <1>2 DEF Settled
<1> QED
  BY <1>3, <1>4 DEF FollowInv

LEMMA AloneInvStep ==
  ASSUME BillingInv, AloneInv, [Next]_vars
  PROVE  AloneInv'
<1>1. OneWriter' => OneWriter
  BY WorldIsRigid DEF OneWriter
<1> SUFFICES ASSUME OneWriter PROVE FollowInv'
  BY <1>1 DEF AloneInv
<1>2. FollowInv
  BY DEF AloneInv
<1>3. ASSUME NEW w \in Worker,
             (\E s \in Session : Begin(w, s)) \/ (\E q \in Ticket : approveRequest(w, q))
      PROVE  FollowInv'
  BY <1>2, <1>3, FollowBegin
<1>4. ASSUME NEW w \in Worker, Continue(w) PROVE FollowInv'
  BY <1>2, <1>4, FollowFinalize, FollowReview, FollowCorrection, FollowDeletion,
     FollowReadAgain, FollowApply, FollowOthers DEF Continue
<1>5. ASSUME \/ \E q \in Ticket : rejectRequest(q)
             \/ Beside
             \/ UNCHANGED vars
      PROVE  FollowInv'
  BY <1>2, <1>5, FollowOthers
<1> QED
  BY <1>3, <1>4, <1>5 DEF Next, Beside

THEOREM AloneInvariant == Spec => []AloneInv
<1>1. BillingInv /\ AloneInv /\ [Next]_vars => AloneInv'
  BY AloneInvStep
<1> QED
  BY <1>1, AloneInvInit, BillingInvariant, PTL DEF Spec

(***************************************************************************)
(* With one writer at a time, whatever it does in whichever order, and     *)
(* wherever the staff member moves meanwhile: the ledger of a finished     *)
(* session holds what its row says.                                        *)
(***************************************************************************)
THEOREM LedgerSaysWhatTheRowSays == Spec => []AloneLedgerFollowsRow
<1>1. AloneInv => AloneLedgerFollowsRow
  BY DEF AloneInv, FollowInv, Settled, Due, AloneLedgerFollowsRow, LedgerFollowsRow
<1> QED
  BY <1>1, AloneInvariant, PTL

(***************************************************************************)
(* With one writer at a time: a change of plan leaves the ledger of a      *)
(* session whose paid amount is recorded as it is.                         *)
(***************************************************************************)
LEMMA PlanMovesNothing ==
  ASSUME BillingInv, FollowInv, NEW w \in Worker, applySessionPlanChangeInTx(w),
         NEW s \in Session, task[w].session = s, row[s].corrected # None, Due(s)
  PROVE  ledger'[s] = ledger[s]
<1> DEFINE read == task[w].row
           p == task[w].plan
           target == row[s].corrected
<1>1. task[w].step = "planRead" /\ TypeOK
  BY DEF applySessionPlanChangeInTx, BillingInv
<1>2. Says(read, row[s]) /\ row[s].ended
  BY <1>1 DEF FollowInv, ReadIsFresh, BillingInv, TaskSound, Applying
<1>3. ledger[s].net = target
  BY <1>2 DEF FollowInv, Settled
<1>4. target \in Nat /\ ledger[s].net \in Int
  BY <1>1 DEF TypeOK, SessionRow, SessionLedger, Amount
<1>5. PICK l \in LedgersAfterPlan(ledger[s], s, read, p) : ledger' = [ledger EXCEPT ![s] = l]
  BY DEF applySessionPlanChangeInTx
<1>6. l \in Synced(ledger[s], s, target, target, TRUE)
  BY <1>2, <1>5 DEF LedgersAfterPlan, Says, resolveSessionPaidTarget
<1>7. ledger'[s] = l
  BY <1>1, <1>5 DEF TypeOK
<1>8. Delta(ledger[s], target, target) = 0
  BY <1>3, <1>4 DEF Delta
<1>9. l = ledger[s]
  BY <1>6, <1>8 DEF Synced
<1> QED
  BY <1>7, <1>9

THEOREM RecordedCollectionIsKept == Spec => AlonePlanChangeKeepsCollection
<1>1. BillingInv /\ AloneInv /\ [Next]_vars
      => [\A w \in Worker, s \in Session :
            /\ OneWriter /\ applySessionPlanChangeInTx(w) /\ task[w].session = s
            /\ row[s].corrected # None /\ finish[s].covered = Till /\ shift[s].attached
            => ledger'[s] = ledger[s]]_vars
  BY PlanMovesNothing DEF AloneInv, Due
<1> QED
  BY <1>1, BillingInvariant, AloneInvariant, PTL DEF Spec, AlonePlanChangeKeepsCollection
=============================================================================
