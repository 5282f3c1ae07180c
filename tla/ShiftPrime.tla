----------------------------- MODULE ShiftPrime -----------------------------
(***************************************************************************)
(* The prime of one shift and what it takes out of the tills.              *)
(*                                                                         *)
(* Whatever may change the prime of the shift (the end or the correction   *)
(* of a massage, a bonus, the close of the shift) ends in a call of         *)
(* syncShiftPrimeDeduction, which brings the sum of the PRIME_DEDUCTION     *)
(* movements of the shift to the calculated prime.  The call is a           *)
(* transaction, but the prime is calculated on another connection before    *)
(* the till is locked, and which till is locked depends on the movements    *)
(* seen before the lock.  Other calls, the settings page and the            *)
(* assignment of the staff to another till run in between.                  *)
(*                                                                         *)
(* The movements are kept as their sum per till; a till is in touched once  *)
(* it holds a PRIME_DEDUCTION of the shift.                                 *)
(***************************************************************************)
EXTENDS PrimeRules

CONSTANTS
  Till,          \* the physical tills
  Worker,        \* the requests, and the poll, that may be served at a time
  Profile,       \* the massages that may end: [plan, expected, billing, anomaly, paid]
  Amount,        \* the amounts of a correction
  Manual,        \* the amounts of a manual bonus
  MaxMassages,   \* bound: the massages of the shift
  World          \* the worlds to explore

\* A world says what may happen: how many requests at a time, whether the
\* staff is moved to another till, whether the owner changes the rules, and
\* whether anything but the end of a massage changes the prime; ops bounds the
\* requests that are begun.
WorldAssumption == World \subseteq [workers: SUBSET Worker, reassign: BOOLEAN,
                                    settings: BOOLEAN, edits: BOOLEAN, ops: Nat]
ASSUME WorldAssumption

\* Amounts and rates are numbers, a column may be null; the tills and the
\* requests that are served at a time are finitely many.
ASSUME AmountAssumption ==
  /\ Commission \subseteq [type: {"PERCENTAGE", "FIXED_AMOUNT"}, value: Int]
  /\ Bonus \subseteq [target: Int, amount: Int]
  /\ LastInstant \in Nat
  /\ Profile \subseteq [plan: Plan \cup {None}, expected: Int \cup {None},
                       billing: {"PENDING", "CALCULATED", "CORRECTED", "DISPUTED"},
                       anomaly: {"none", "TOO_SHORT", "TOO_LONG"}, paid: BOOLEAN]
  /\ Amount \subseteq Int /\ Manual \subseteq Int
ASSUME ServedAssumption ==
  /\ IsFiniteSet(Till) /\ IsFiniteSet(Worker)
  /\ None \notin Till \cup Worker

VARIABLES
  world,
  shift,         \* the row: here, open, opened, the snapshot gross and prime, manual
  massages,      \* the completed massages of the shift that are not archived
  assigned,      \* the active till of the staff member of the shift, or None
  net,           \* per till, what the prime of the shift has taken from it
  touched,       \* the tills that hold a movement of the prime
  lock,          \* per till, the request that holds the lock of its row, or None
  call,          \* per worker, where it is and what it read
  ops            \* the requests begun so far

shiftVars == <<shift, massages>>
ledger == <<net, touched, lock>>
vars == <<now, ruleVars, world, shiftVars, assigned, ledger, call, ops>>

Idle == [at |-> "idle", close |-> FALSE, save |-> FALSE, gross |-> 0, prime |-> 0,
         till |-> None, taken |-> 0, first |-> FALSE]

\* The row of a shift that was just opened; tracked if the till was by then.
NewShift == [here: {TRUE}, open: {TRUE}, opened: {0}, gross: {None}, prime: {None},
             manual: {0}, tracked: BOOLEAN]

-----------------------------------------------------------------------------
Init ==
  /\ now = 0
  /\ world \in World
  /\ rules \in {[i \in 1 .. 1 |-> [plan |-> p, is |-> c, active |-> TRUE,
                                   from |-> 0, to |-> Forever]] : p \in Plan, c \in Commission}
  /\ bonuses = <<>>
  /\ creating = [o \in Owner |-> None]
  /\ shift \in NewShift
  /\ massages = {}
  /\ assigned \in Till \cup {None}
  /\ net = [t \in Till |-> 0]
  /\ touched = {}
  /\ lock = [t \in Till |-> None]
  /\ call = [w \in Worker |-> Idle]
  /\ ops = 0

\* The totals a calculation may return now.
Primes == calculateShiftPrimeSummary(massages, shift.opened, shift.manual)

Free(w) == call[w].at = "idle" /\ w \in world.workers /\ ops < world.ops

Begin(w, c) ==
  /\ call' = [call EXCEPT ![w] = c]
  /\ ops' = ops + 1
  /\ UNCHANGED <<now, ruleVars, world, assigned, ledger>>

Sync == [Idle EXCEPT !.at = "sync"]
Recalculation == [Idle EXCEPT !.at = "recalculate", !.save = TRUE]

-----------------------------------------------------------------------------
(* What changes the prime. *)

\* finalizeCompletedSession: the massage has ended, the sync of the prime follows.
EndMassage(w, p) ==
  /\ Free(w)
  /\ shift.here
  /\ Cardinality(massages) < MaxMassages
  /\ massages' = massages \cup
       {[no |-> ops, plan |-> p.plan, expected |-> p.expected, corrected |-> None,
         billing |-> p.billing, anomaly |-> p.anomaly, start |-> now, paid |-> p.paid]}
  /\ UNCHANGED shift
  /\ Begin(w, Sync)

\* updateSession: the correction is committed before the prime is synced.
CorrectMassage(w, m, amount) ==
  /\ world.edits
  /\ Free(w)
  /\ massages' = (massages \ {m}) \cup
                   {[m EXCEPT !.corrected = amount, !.billing = "CORRECTED"]}
  /\ UNCHANGED shift
  /\ Begin(w, Sync)

\* archiveSession does not sync the prime.
ArchiveMassage(m) ==
  /\ world.edits
  /\ massages' = massages \ {m}
  /\ UNCHANGED <<now, ruleVars, world, shift, assigned, ledger, call, ops>>

\* addBonusAdjustment: the adjustment, then the recalculation.
AddBonus(w, a) ==
  /\ world.edits
  /\ Free(w)
  /\ shift.here
  /\ shift' = [shift EXCEPT !.manual = @ + a]
  /\ UNCHANGED massages
  /\ Begin(w, Recalculation)

\* POST /shifts/:id/recalculate-prime.
Recalculate(w) ==
  /\ Free(w)
  /\ shift.here
  /\ UNCHANGED shiftVars
  /\ Begin(w, Recalculation)

\* closeShift: the status is read before the recalculation.
CloseShift(w) ==
  /\ Free(w)
  /\ shift.here
  /\ shift.open
  /\ UNCHANGED shiftVars
  /\ Begin(w, [Recalculation EXCEPT !.close = TRUE])

\* deleteShift: the massages are detached, the adjustments go with the row,
\* and the movements of the prime stay in the ledger.
DeleteShift ==
  /\ world.edits
  /\ shift.here
  /\ shift' = [shift EXCEPT !.here = FALSE, !.manual = 0]
  /\ massages' = {}
  /\ UNCHANGED <<now, ruleVars, world, assigned, ledger, call, ops>>

\* setCashAccountAssignment: the staff member of the shift gets another till, or none.
Reassign(t) ==
  /\ world.reassign
  /\ t # assigned
  /\ assigned' = t
  /\ UNCHANGED <<now, ruleVars, world, shiftVars, ledger, call, ops>>

\* The owner works on the rules meanwhile, at an instant of its own.
OnSettingsPage ==
  /\ world.settings
  /\ \A m \in massages : m.start < now
  /\ UNCHANGED <<now, world, shiftVars, assigned, ledger, call, ops>>

\* Time passes; only the rules of the owner look at it.
Tick ==
  /\ world.settings
  /\ now < LastInstant
  /\ now' = now + 1
  /\ UNCHANGED <<ruleVars, world, shiftVars, assigned, ledger, call, ops>>

-----------------------------------------------------------------------------
(* recalculateAndSaveShiftPrimeSummary and syncShiftPrimeDeduction. *)

At(w, at) == call[w].at = at

Proceed(w, c) ==
  /\ call' = [call EXCEPT ![w] = c]
  /\ UNCHANGED <<now, ruleVars, world, massages, assigned, ops>>

\* The request is over: a close writes its row, any other is answered.
After(w) == IF call[w].close THEN [Idle EXCEPT !.at = "close"] ELSE Idle

\* The summary of the recalculation is calculated...
Summarise(w) ==
  /\ At(w, "recalculate")
  /\ IF shift.here
     THEN \E s \in Primes : Proceed(w, [call[w] EXCEPT !.at = "save", !.gross = s.gross, !.prime = s.prime])
     ELSE Proceed(w, Idle)
  /\ UNCHANGED <<shift, ledger>>

\* ...and written to the row, which may be gone by now.
SaveSummary(w) ==
  /\ At(w, "save")
  /\ shift' = IF shift.here
              THEN [shift EXCEPT !.gross = call[w].gross, !.prime = call[w].prime]
              ELSE shift
  /\ Proceed(w, IF shift.here THEN [call[w] EXCEPT !.at = "sync", !.gross = 0, !.prime = 0] ELSE Idle)
  /\ UNCHANGED ledger

\* syncShiftPrimeDeduction up to the choice of the till: the till that already
\* holds a movement of the prime, else the active till of the staff member.
\* Without a till a prime is refused (422), which fails the whole request.
Calculate(w) ==
  /\ At(w, "sync")
  /\ IF ~shift.here
     THEN Proceed(w, After(w))
     ELSE \E s \in Primes, t \in IF touched # {} THEN touched ELSE {assigned} :
            Proceed(w, IF t # None
                       THEN [call[w] EXCEPT !.at = "lock", !.prime = s.prime, !.till = t]
                       ELSE IF s.prime > 0 THEN Idle ELSE After(w))
  /\ UNCHANGED <<shift, ledger>>

\* The movements of the prime, summed up over the tills.
Total(amounts) == FoldFunction(LAMBDA a, b : a + b, 0, amounts)
Taken == Total(net)

\* Mutant: the till is not locked.
LockOfNobody(w) ==
  /\ At(w, "lock")
  /\ lock' = [lock EXCEPT ![call[w].till] = w]
  /\ Proceed(w, [call[w] EXCEPT !.at = "post",
                   !.taken = Taken,
                   !.first = touched = {}])
  /\ UNCHANGED <<shift, net, touched>>

\* lockAccount, and the movements read again under the lock.
Lock(w) ==
  /\ At(w, "lock")
  /\ lock[call[w].till] = None
  /\ lock' = [lock EXCEPT ![call[w].till] = w]
  /\ Proceed(w, [call[w] EXCEPT !.at = "post",
                   !.taken = Taken,
                   !.first = touched = {}])
  /\ UNCHANGED <<shift, net, touched>>

shouldAllowShiftPrimeDeduction(w) ==
  ~call[w].first \/ shift.tracked \/ \E m \in massages : m.paid

\* planShiftPrimeSync: a negative prime is an error, which the caller logs.
planShiftPrimeSync(w) ==
  IF call[w].prime >= 0 /\ shouldAllowShiftPrimeDeduction(w)
  THEN call[w].prime - call[w].taken ELSE 0

\* Mutant: nothing is posted, and the till stays locked.
PostNoDelta(w) ==
  /\ At(w, "post")
  /\ Proceed(w, After(w))
  /\ UNCHANGED <<shift, ledger>>

\* postMovementInTx and the commit, which frees the till.
Post(w) ==
  /\ At(w, "post")
  /\ LET t == call[w].till
         delta == planShiftPrimeSync(w)
     IN  /\ net' = [net EXCEPT ![t] = @ + delta]
         /\ touched' = IF delta # 0 THEN touched \cup {t} ELSE touched
         /\ lock' = [lock EXCEPT ![t] = None]
  /\ Proceed(w, After(w))
  /\ UNCHANGED shift

\* closeShift, the update of the row, which asks nothing of the status.
CloseRow(w) ==
  /\ At(w, "close")
  /\ shift' = IF shift.here THEN [shift EXCEPT !.open = FALSE] ELSE shift
  /\ Proceed(w, Idle)
  /\ UNCHANGED ledger

-----------------------------------------------------------------------------
Next ==
  \/ \E w \in Worker, p \in Profile : EndMassage(w, p)
  \/ \E w \in Worker, m \in massages, a \in Amount : CorrectMassage(w, m, a)
  \/ \E m \in massages : ArchiveMassage(m)
  \/ \E w \in Worker, a \in Manual : AddBonus(w, a)
  \/ \E w \in Worker : Recalculate(w)
  \/ \E w \in Worker : CloseShift(w)
  \/ DeleteShift
  \/ \E t \in Till \cup {None} : Reassign(t)
  \/ \E o \in Owner, p \in Plan, c \in Commission, on \in BOOLEAN :
       BeginRule(o, p, c, on) /\ OnSettingsPage
  \/ \E o \in Owner, b \in Bonus, on \in BOOLEAN : BeginBonus(o, b, on) /\ OnSettingsPage
  \/ \E o \in Owner : SealFound(o) /\ OnSettingsPage
  \/ \E o \in Owner : InsertRow(o) /\ OnSettingsPage
  \/ \E i \in DOMAIN rules, on \in BOOLEAN : SwitchRule(i, on) /\ OnSettingsPage
  \/ \E i \in DOMAIN rules, c \in Commission, on \in BOOLEAN : ReplaceRule(i, c, on) /\ OnSettingsPage
  \/ \E i \in DOMAIN bonuses, on \in BOOLEAN : SwitchBonus(i, on) /\ OnSettingsPage
  \/ \E i \in DOMAIN bonuses, b \in Bonus, on \in BOOLEAN : ReplaceBonus(i, b, on) /\ OnSettingsPage
  \/ Tick
  \/ \E w \in Worker : Summarise(w)
  \/ \E w \in Worker : SaveSummary(w)
  \/ \E w \in Worker : Calculate(w)
  \/ \E w \in Worker : Lock(w)
  \/ \E w \in Worker : Post(w)
  \/ \E w \in Worker : CloseRow(w)

Spec == Init /\ [][Next]_vars

-----------------------------------------------------------------------------
(* Properties. *)

\* Every variable has a value of its kind, and a till is locked exactly while
\* the request that locked it is about to post (syncShiftPrimeDeduction).
TypeOK ==
  /\ now \in Instant
  /\ world \in World
  /\ \A i \in DOMAIN rules : rules[i] \in RuleRow
  /\ \A i \in DOMAIN bonuses : bonuses[i] \in BonusRow
  /\ assigned \in Till \cup {None}
  /\ net \in [Till -> Int]
  /\ touched \subseteq Till
  /\ \A t \in Till : lock[t] =
       (IF \E w \in Worker : At(w, "post") /\ call[w].till = t
        THEN CHOOSE w \in Worker : At(w, "post") /\ call[w].till = t ELSE None)

\* However many requests sync the prime of a shift at a time, as long as the
\* staff keeps its till a sync that posts leaves the tills short of exactly the
\* prime it calculated: the deductions of two syncs never add up.  The second
\* read of the movements, under the lock, is what this rests on.
DeductionsNeverAddUp ==
  [][\A w \in Worker : ~world.reassign /\ Taken' # Taken /\ At(w, "post") /\ ~At(w, "post")'
        => Taken' = call[w].prime]_vars

\* A shift that is synced by one request at a time takes its prime from one
\* till, to whichever till the staff member is assigned by then.
OneTillPerPrime == Cardinality(world.workers) = 1 => Cardinality(touched) <= 1

\* The prime of a shift is taken once: never added up over two syncs, and, one
\* request at a time, never split over two tills.
PrimeTakenOnce == DeductionsNeverAddUp /\ []OneTillPerPrime

\* While no massage is corrected or archived and no bonus is given, nothing of
\* the prime is taken back: the commission of a massage that ended under a
\* rule outlives the rule (schema.prisma:498, "historical shifts stay accurate
\* after a rule is changed or deactivated").
OldCommissionsStay == [][~world.edits => Taken' >= Taken]_vars
=============================================================================
