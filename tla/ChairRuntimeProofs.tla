------------------------- MODULE ChairRuntimeProofs -------------------------
(***************************************************************************)
(* Theorems about ChairRuntime, for any number of session rows and for     *)
(* every world.                                                            *)
(*                                                                         *)
(*   - A chair has one running session at most, whatever overlaps and      *)
(*     fails: only createSession makes a row ACTIVE, and the unique index  *)
(*     lets it do so when no other row is (OneActiveInv).                  *)
(*   - Types are kept (RuntimeTyped, which says what a poll may carry at   *)
(*     each of its steps).                                                 *)
(*   - Where one poll runs at a time and nobody disables the chair, the    *)
(*     rows lead back to a running session after every step, also after    *)
(*     one at which a call failed or the server stopped (RowInv).          *)
(*   - Where the server also keeps running with its database, the object   *)
(*     of the cache agrees with the rows between two polls, and sessions   *)
(*     start and complete when the readings have been high, or low, for    *)
(*     the whole delay (SteadyInv).                                        *)
(***************************************************************************)
EXTENDS ChairRuntime, FiniteSetTheorems, TLAPS

\* The rows have their columns, so that changing one leaves the others alone.
SessionsTyped == session \in [Session -> SessionRow]

OneActiveInv == SessionsTyped /\ OneActiveSession

(***************************************************************************)
(* What an action may do to the rows: leave them, change columns of one    *)
(* without making it ACTIVE, or start one while none is ACTIVE.            *)
(***************************************************************************)
Ends(s) ==
  \E r \in SessionRow : /\ session' = [session EXCEPT ![s] = r]
                        /\ r.status = "ACTIVE" => session[s].status = "ACTIVE"

Starts(s) ==
  \E r \in SessionRow : session' = [session EXCEPT ![s] = r] /\ Actives = {}

RowsStep ==
  \/ session' = session
  \/ \E s \in Session : Ends(s) \/ Starts(s)

LEMMA StepKeepsOne ==
  ASSUME OneActiveInv, RowsStep
  PROVE  OneActiveInv'
<1>1. CASE session' = session
  BY <1>1 DEF OneActiveInv, SessionsTyped, OneActiveSession, Actives
<1>2. ASSUME NEW s \in Session, Ends(s) PROVE OneActiveInv'
  <2>1. PICK r \in SessionRow : /\ session' = [session EXCEPT ![s] = r]
                                /\ r.status = "ACTIVE" => session[s].status = "ACTIVE"
    BY <1>2 DEF Ends
  <2>2. SessionsTyped'
    BY <2>1 DEF OneActiveInv, SessionsTyped
  <2>3. \A u \in Session : session'[u].status = "ACTIVE" => session[u].status = "ACTIVE"
    BY <2>1 DEF OneActiveInv, SessionsTyped
  <2> QED
    BY <2>2, <2>3 DEF OneActiveInv, OneActiveSession, Actives
<1>3. ASSUME NEW s \in Session, Starts(s) PROVE OneActiveInv'
  <2>1. PICK r \in SessionRow : session' = [session EXCEPT ![s] = r] /\ Actives = {}
    BY <1>3 DEF Starts
  <2>2. SessionsTyped'
    BY <2>1 DEF OneActiveInv, SessionsTyped
  <2>3. \A u \in Session : session'[u].status = "ACTIVE" => u = s
    BY <2>1 DEF OneActiveInv, SessionsTyped, Actives
  <2> QED
    BY <2>2, <2>3 DEF OneActiveInv, OneActiveSession, Actives
<1> QED
  BY <1>1, <1>2, <1>3 DEF RowsStep

-----------------------------------------------------------------------------
LEMMA StatusChange ==
  ASSUME SessionsTyped, NEW s, NEW x \in {"COMPLETED", "CANCELLED", "UNCERTAIN"},
         session' = [session EXCEPT ![s].status = x]
  PROVE  RowsStep
<1>1. CASE s \in Session
  <2> DEFINE r == [session[s] EXCEPT !.status = x]
  <2>1. r \in SessionRow /\ r.status # "ACTIVE"
    BY <1>1 DEF SessionsTyped, SessionRow
  <2>2. session' = [session EXCEPT ![s] = r]
    OBVIOUS
  <2> QED
    BY <1>1, <2>1, <2>2 DEF RowsStep, Ends
<1>2. CASE s \notin Session
  BY <1>2 DEF SessionsTyped, RowsStep
<1> QED
  BY <1>1, <1>2

LEMMA ReconciliationRows ==
  ASSUME SessionsTyped, NEW t, Reconciliation(t)
  PROVE  RowsStep
<1>1. CASE applyRecoveryDecision(t)
  BY <1>1, StatusChange DEF applyRecoveryDecision, Finalized, markSessionNeedsReview
<1>2. CASE ~applyRecoveryDecision(t)
  BY <1>2 DEF Reconciliation, RowsStep, beginFirstHydrate, flushDirtyLiveState,
     beginReconcile, hydrateRuntimeCache, recoverChairSession, forgetRecovered
<1> QED
  BY <1>1, <1>2

LEMMA WriteRows ==
  ASSUME SessionsTyped, NEW t, writeRow(t)
  PROVE  RowsStep
<1> DEFINE s == task[t].session
           r == [session[s] EXCEPT !.dipped = TRUE]
<1>1. CASE s \in Session /\ s # None
  <2>1. r \in SessionRow /\ r.status = session[s].status
    BY <1>1 DEF SessionsTyped, SessionRow
  <2>2. session' = [session EXCEPT ![s] = r]
    BY <1>1 DEF writeRow
  <2> QED
    BY <1>1, <2>1, <2>2 DEF RowsStep, Ends
<1>2. CASE s \notin Session \/ s = None
  BY <1>2, RuntimeAssumption DEF SessionsTyped, RowsStep, writeRow
<1> QED
  BY <1>1, <1>2

LEMMA ReadingRows ==
  ASSUME SessionsTyped, NEW t, Reading(t)
  PROVE  RowsStep
<1>1. CASE writeRow(t)
  BY <1>1, WriteRows
<1>2. CASE ~writeRow(t)
  BY <1>2 DEF Reading, RowsStep, Process, unknownChair, disabledChair, sampleOnly,
     idleToMaybeActive, maybeActiveToIdle, activeToMaybeFinished, maybeFinishedToActive,
     handleOffline, beginOnlineRecovery, handleOnlineRecovery
<1> QED
  BY <1>1, <1>2

LEMMA StartRows ==
  ASSUME SessionsTyped, NEW t, createSession(t)
  PROVE  RowsStep
<1>1. CASE ActiveSessionIndex /\ \E s \in Session : Started(s, task[t].open)
  <2>1. PICK s \in Session : Started(s, task[t].open)
    BY <1>1
  <2> DEFINE r == [status |-> "ACTIVE", dipped |-> FALSE, orphan |-> ~task[t].open]
  <2>2. r \in SessionRow
    BY DEF SessionRow
  <2>3. session' = [session EXCEPT ![s] = r]
    BY <2>1 DEF Started
  <2> QED
    BY <1>1, <2>2, <2>3 DEF RowsStep, Starts, ActiveSessionIndex
<1>2. CASE session' = session
  BY <1>2 DEF RowsStep
<1> QED
  BY <1>1, <1>2 DEF createSession

LEMMA StartOrEndRows ==
  ASSUME SessionsTyped, NEW t, StartOrEnd(t)
  PROVE  RowsStep
<1>1. CASE createSession(t)
  BY <1>1, StartRows
<1>2. CASE finalizeActiveSession(t)
  <2>1. CASE Finalized(task[t].session)
    BY <2>1, StatusChange DEF Finalized
  <2>2. CASE session' = session
    BY <2>2 DEF RowsStep
  <2> QED
    BY <1>2, <2>1, <2>2 DEF finalizeActiveSession
<1>3. CASE ~createSession(t) /\ ~finalizeActiveSession(t)
  BY <1>3 DEF StartOrEnd, RowsStep, Process, beginStart, adoptOrResolve,
     resolveOpenShiftForSession, blockOrCreate, bindCreated, beginEnd, seekSession, clearEnded
<1> QED
  BY <1>1, <1>2, <1>3

LEMMA HandlerRows ==
  ASSUME SessionsTyped, Request \/ Respond
  PROVE  RowsStep
<1>1. CASE recoverForHandler
  BY <1>1, StatusChange DEF recoverForHandler, Finalized, markSessionNeedsReview
<1>2. CASE deleteSession
  BY <1>2, StatusChange DEF deleteSession
<1>3. CASE ~recoverForHandler /\ ~deleteSession
  BY <1>3 DEF Request, Respond, RowsStep, forgetForHandler, checkStillActive, writeDisabled,
     syncChairDisabledInRuntime, syncChairEnabledInRuntime, clearNoShiftStartBlocks,
     closeShift, requestRuntimeReconcile, prepareChairForDisable, writeEnabled,
     beginDeleteSession, startAssistantShift, openShift, beginCloseShift
<1> QED
  BY <1>1, <1>2, <1>3

LEMMA NextRows ==
  ASSUME SessionsTyped, [Next]_vars
  PROVE  RowsStep
<1>1. ASSUME NEW t, Work(t) PROVE RowsStep
  <2>1. CASE poll(t)
    BY <2>1 DEF poll, RowsStep
  <2> QED
    BY <1>1, <2>1, ReconciliationRows, ReadingRows, StartOrEndRows DEF Work
<1>2. ASSUME NEW t, databaseFails(t) \/ fetchFails(t) PROVE RowsStep
  BY <1>2 DEF databaseFails, fetchFails, RowsStep
<1>3. ASSUME hydrateRuntimeCache(Boot) PROVE RowsStep
  BY <1>3 DEF hydrateRuntimeCache, RowsStep
<1>4. ASSUME handlerFails \/ timePasses \/ restart PROVE RowsStep
  BY <1>4 DEF handlerFails, timePasses, restart, RowsStep
<1>5. ASSUME UNCHANGED vars PROVE RowsStep
  BY <1>5 DEF vars, RowsStep
<1> QED
  BY <1>1, <1>2, <1>3, <1>4, <1>5, HandlerRows DEF Next

-----------------------------------------------------------------------------
(***************************************************************************)
(* A chair has at most one running session, whichever polls, handlers,     *)
(* reconciliations and restarts overlap (chair-state.service.ts,           *)
(* _startSession, with the unique index on ACTIVE sessions).               *)
(***************************************************************************)
THEOREM OneSessionRuns == Spec => []OneActiveSession
<1>1. Init => OneActiveInv
  BY DEF Init, OneActiveInv, SessionsTyped, SessionRow, OneActiveSession, Actives
<1>2. OneActiveInv /\ [Next]_vars => OneActiveInv'
  BY NextRows, StepKeepsOne DEF OneActiveInv
<1>3. OneActiveInv => OneActiveSession
  BY DEF OneActiveInv
<1> QED
  BY <1>1, <1>2, <1>3, PTL DEF Spec

-----------------------------------------------------------------------------
(***************************************************************************)
(* Types.  What a poll carries depends on its step: from the step at which *)
(* it takes hold of an object to the one at which it writes, it holds the  *)
(* one of the cache, which is there, or one of its own.                    *)
(***************************************************************************)
TaskField ==
  {"at", "power", "online", "holds", "own", "write", "snap", "session", "open", "then"}

HoldingStep ==
  {"writing", "restoring", "starting", "resolving", "deciding", "creating", "created",
   "seeking", "ending", "ended"}

Fits(w) ==
  /\ \A c \in {"enabled", "low", "online"} \cap DOMAIN w : w[c] \in BOOLEAN
  /\ "status" \in DOMAIN w => w["status"] \in Status
  /\ "before" \in DOMAIN w => w["before"] \in Status \cup {None}
  /\ "current" \in DOMAIN w => w["current"] \in Session \cup {None}
  /\ \A c \in {"activeSince", "since"} \cap DOMAIN w : w[c] \in Age

Carries(k) ==
  /\ k = [f \in TaskField |-> k[f]]
  /\ k.at \in TickStep /\ k.power \in Power \cup {None}
  /\ k.online \in BOOLEAN /\ k.open \in BOOLEAN
  /\ k.snap \in ChairMem \cup {None}
  /\ k.session \in Session \cup {None}
  /\ k.at \in HoldingStep => k.then \in {"upsert", "stop", "again"}
  /\ k.at = "writing" => Fits(k.write)

Holds(k, m) ==
  /\ k.holds \in {"nothing", "entry", "own"}
  /\ k.own \in ChairMem \cup {None}
  /\ k.holds = "entry" => m # None
  /\ k.holds = "own" <=> k.own # None
  /\ k.at \in HoldingStep <=> k.holds # "nothing"

TasksTyped ==
  /\ task = [t \in Tick \cup {Boot} |-> task[t]]
  /\ \A t \in Tick \cup {Boot} : Carries(task[t]) /\ Holds(task[t], mem)

ApiTyped ==
  /\ api \in [at: ApiStep, session: Session \cup {None}, then: ApiStep \cup {None}]
  /\ api.at \in {"finalizing", "reviewing", "forgetting"} => api.then \in {"checking", "closing"}

RowsTyped == chair \in ChairRow /\ session \in [Session -> SessionRow]

MemTyped == mem \in ChairMem \cup {None}

ServerTyped ==
  /\ hydrated \in BOOLEAN /\ requested \in BOOLEAN /\ shiftOpen \in BOOLEAN
  /\ streak \in [high: Age, low: Age, silent: BOOLEAN]
  /\ world \in AllWorlds

RuntimeTyped == RowsTyped /\ MemTyped /\ TasksTyped /\ ApiTyped /\ ServerTyped

LEMMA FitsRow ==
  ASSUME NEW row \in ChairRow, NEW w, Fits(w)
  PROVE  With(row, w) \in ChairRow
<1>1. row = [c \in {"enabled", "status", "before", "current", "activeSince", "since", "low", "online"}
               |-> row[c]]
  BY DEF ChairRow
<1> DEFINE new == With(row, w)
<1>2. /\ new.enabled \in BOOLEAN /\ new.low \in BOOLEAN /\ new.online \in BOOLEAN
      /\ new.status \in Status /\ new.before \in Status \cup {None}
      /\ new.current \in Session \cup {None}
      /\ new.activeSince \in Age /\ new.since \in Age
  BY <1>1 DEF With, Fits, ChairRow
<1>3. new = [enabled |-> new.enabled, status |-> new.status, before |-> new.before,
             current |-> new.current, activeSince |-> new.activeSince, since |-> new.since,
             low |-> new.low, online |-> new.online]
  BY <1>1 DEF With
<1> HIDE DEF new
<1>4. [enabled |-> new.enabled, status |-> new.status, before |-> new.before,
       current |-> new.current, activeSince |-> new.activeSince, since |-> new.since,
       low |-> new.low, online |-> new.online] \in ChairRow
  BY <1>2 DEF ChairRow
<1>5. new \in ChairRow
  BY <1>3, <1>4
<1> QED
  BY <1>5 DEF new

LEMMA TypesFollow == RuntimeTyped => TypeOK
<1> SUFFICES ASSUME RuntimeTyped PROVE TypeOK
  OBVIOUS
<1>1. DOMAIN task = Tick \cup {Boot}
  BY DEF RuntimeTyped, TasksTyped
<1>2. ASSUME NEW t \in DOMAIN task, task[t].at = "writing" PROVE With(chair, task[t].write) \in ChairRow
  BY <1>1, <1>2, FitsRow DEF RuntimeTyped, RowsTyped, TasksTyped, Carries
<1> QED
  BY <1>1, <1>2 DEF RuntimeTyped, RowsTyped, MemTyped, TasksTyped, Carries, Holds, ApiTyped,
     ServerTyped, TypeOK

(***************************************************************************)
(* Poll t goes on.                                                         *)
(***************************************************************************)
MemStays == mem # None => mem' # None

LEMMA TaskGoes ==
  ASSUME RuntimeTyped, MemTyped', MemStays, NEW t \in Tick \cup {Boot}, NEW k,
         Carries(k), Holds(k, mem'), task' = [task EXCEPT ![t] = k]
  PROVE  TasksTyped'
BY DEF RuntimeTyped, TasksTyped, MemStays, Holds

LEMMA TaskReplaces ==
  ASSUME RuntimeTyped, NEW t \in Tick \cup {Boot}, NEW m \in ChairMem \cup {None}, NEW k,
         Carries(k), Holds(k, m), Replace(m, t, k)
  PROVE  MemTyped' /\ TasksTyped'
<1>1. /\ mem' = m /\ task'[t] = k /\ task' = [u \in Tick \cup {Boot} |-> task'[u]]
      /\ \A u \in (Tick \cup {Boot}) \ {t} :
           task'[u] = IF task[u].holds = "entry" THEN [task[u] EXCEPT !.holds = "own", !.own = mem]
                      ELSE task[u]
  BY DEF Replace, RuntimeTyped, TasksTyped
<1>2. ASSUME NEW u \in (Tick \cup {Boot}) \ {t} PROVE Carries(task'[u]) /\ Holds(task'[u], mem')
  <2>1. Carries(task[u]) /\ Holds(task[u], mem) /\ mem \in ChairMem \cup {None}
    BY DEF RuntimeTyped, TasksTyped, MemTyped
  <2>2. CASE task[u].holds = "entry"
    <3>1. task'[u] = [task[u] EXCEPT !.holds = "own", !.own = mem]
      BY <1>1, <2>2
    <3>2. /\ task'[u] = [f \in TaskField |-> task'[u][f]]
          /\ task'[u].holds = "own" /\ task'[u].own = mem
          /\ \A f \in TaskField \ {"holds", "own"} : task'[u][f] = task[u][f]
      BY <2>1, <3>1 DEF Carries, TaskField
    <3>3. Carries(task'[u])
      BY <2>1, <3>2 DEF Carries, TaskField
    <3> QED
      BY <2>1, <2>2, <3>2, <3>3 DEF Holds, TaskField
  <2>3. CASE task[u].holds # "entry"
    BY <1>1, <2>1, <2>3 DEF Holds
  <2> QED
    BY <2>2, <2>3
<1> QED
  BY <1>1, <1>2 DEF MemTyped, TasksTyped

LEMMA HeldTyped ==
  ASSUME RuntimeTyped, NEW t \in Tick, task[t].at \in HoldingStep
  PROVE  Held(t) \in ChairMem /\ task[t].holds \in {"entry", "own"}
BY DEF RuntimeTyped, MemTyped, TasksTyped, Holds, Held

LEMMA HeldIsSet ==
  ASSUME RuntimeTyped, NEW t \in Tick, task[t].at \in HoldingStep, NEW m \in ChairMem, NEW k,
         Carries(k), k.at \in HoldingStep, SetHeld(t, m, k)
  PROVE  MemTyped' /\ TasksTyped'
<1>1. task[t].holds \in {"entry", "own"} /\ m # None
  BY HeldTyped, MemAssumption
<1>2. CASE task[t].holds = "entry"
  <2> DEFINE n == [k EXCEPT !.holds = "entry", !.own = None]
  <2>1. mem' = m /\ task' = [task EXCEPT ![t] = n]
    BY <1>2 DEF SetHeld
  <2>2. /\ n = [f \in TaskField |-> n[f]] /\ n.holds = "entry" /\ n.own = None
        /\ \A f \in TaskField \ {"holds", "own"} : n[f] = k[f]
    BY DEF Carries, TaskField
  <2> HIDE DEF n
  <2>3. Carries(n) /\ Holds(n, mem')
    BY <1>1, <2>1, <2>2 DEF Carries, TaskField, Holds
  <2> QED
    BY <1>1, <2>1, <2>3, TaskGoes DEF MemTyped, MemStays
<1>3. CASE task[t].holds = "own"
  <2> DEFINE n == [k EXCEPT !.holds = "own", !.own = m]
  <2>1. mem' = mem /\ task' = [task EXCEPT ![t] = n]
    BY <1>3 DEF SetHeld
  <2>2. /\ n = [f \in TaskField |-> n[f]] /\ n.holds = "own" /\ n.own = m
        /\ \A f \in TaskField \ {"holds", "own"} : n[f] = k[f]
    BY DEF Carries, TaskField
  <2> HIDE DEF n
  <2>3. Carries(n) /\ Holds(n, mem')
    BY <1>1, <2>1, <2>2 DEF Carries, TaskField, Holds
  <2> QED
    BY <2>1, <2>3, TaskGoes DEF MemTyped, MemStays, RuntimeTyped
<1> QED
  BY <1>1, <1>2, <1>3

(***************************************************************************)
(* The rows.                                                               *)
(***************************************************************************)
LEMMA StatusTyped ==
  ASSUME session \in [Session -> SessionRow], NEW s, NEW x \in {"COMPLETED", "CANCELLED", "UNCERTAIN"},
         session' = [session EXCEPT ![s].status = x]
  PROVE  session' \in [Session -> SessionRow]
<1>1. CASE s \in Session
  <2> DEFINE r == [session[s] EXCEPT !.status = x]
  <2>1. r \in SessionRow
    BY <1>1 DEF SessionRow
  <2>2. session' = [session EXCEPT ![s] = r]
    OBVIOUS
  <2> QED
    BY <2>1, <2>2
<1>2. CASE s \notin Session
  BY <1>2
<1> QED
  BY <1>1, <1>2

LEMMA FinalizedTyped ==
  ASSUME RowsTyped, NEW s, Finalized(s)
  PROVE  RowsTyped'
<1>1. session' \in [Session -> SessionRow]
  BY StatusTyped DEF RowsTyped, Finalized
<1>2. chair \in ChairRow
  BY DEF RowsTyped
<1>3. chair' \in ChairRow
  BY <1>2 DEF Finalized, ChairRow, Status, Age
<1> QED
  BY <1>1, <1>3 DEF RowsTyped

LEMMA ReviewTyped ==
  ASSUME RowsTyped, NEW s, markSessionNeedsReview(s)
  PROVE  RowsTyped'
<1>1. session' \in [Session -> SessionRow]
  BY StatusTyped DEF RowsTyped, markSessionNeedsReview
<1>2. chair \in ChairRow
  BY DEF RowsTyped
<1>3. chair' \in ChairRow
  BY <1>2 DEF markSessionNeedsReview, ChairRow, Status, Age
<1> QED
  BY <1>1, <1>3 DEF RowsTyped

LEMMA ActiveSessionTyped ==
  ActiveSession \in Session \cup {None} /\ (ActiveSession = None <=> Actives = {})
  /\ (Actives # {} => ActiveSession \in Actives)
<1>1. CASE Actives = {}
  BY <1>1 DEF ActiveSession
<1>2. CASE Actives # {}
  <2>1. ActiveSession \in Actives
    BY <1>2 DEF ActiveSession
  <2> QED
    BY <1>2, <2>1, RuntimeAssumption DEF Actives
<1> QED
  BY <1>1, <1>2

LEMMA FromRowsTyped ==
  ASSUME RowsTyped
  PROVE  FromRows \in ChairMem \cup {None}
<1>1. chair \in ChairRow
  BY DEF RowsTyped
<1>2. /\ chair.status \in Status /\ chair.current \in Session \cup {None}
      /\ chair.activeSince \in Age /\ chair.since \in Age
      /\ chair.low \in BOOLEAN /\ chair.online \in BOOLEAN
  BY <1>1 DEF ChairRow
<1> QED
  BY <1>2, ActiveSessionTyped DEF FromRows, ChairMem

(***************************************************************************)
(* The tasks that hold nothing.                                            *)
(***************************************************************************)
LEMMA Plain ==
  ASSUME NEW x \in TickStep \ HoldingStep, NEW m
  PROVE  Carries([Rest EXCEPT !.at = x]) /\ Holds([Rest EXCEPT !.at = x], m)
<1> DEFINE k == [Rest EXCEPT !.at = x]
<1>1. k = [f \in TaskField |-> k[f]]
  BY DEF Rest, TaskField
<1>2. /\ k.at = x /\ k.power = None /\ k.online = FALSE /\ k.holds = "nothing"
      /\ k.own = None /\ k.snap = None /\ k.session = None /\ k.open = FALSE
  BY DEF Rest
<1> HIDE DEF k
<1>3. Carries(k)
  BY <1>1, <1>2 DEF Carries, HoldingStep
<1>4. Holds(k, m)
  BY <1>2 DEF Holds
<1> QED
  BY <1>3, <1>4 DEF k

LEMMA RestIsPlain ==
  ASSUME NEW m
  PROVE  /\ Carries(Rest) /\ Holds(Rest, m)
         /\ Carries(Over) /\ Holds(Over, m)
         /\ Carries([Rest EXCEPT !.at = "polling"]) /\ Holds([Rest EXCEPT !.at = "polling"], m)
<1>1. Carries(Rest) /\ Holds(Rest, m)
  <2>1. Rest = [f \in TaskField |-> Rest[f]]
    BY DEF Rest, TaskField
  <2>2. /\ Rest.at = "due" /\ Rest.power = None /\ Rest.online = FALSE
        /\ Rest.holds = "nothing" /\ Rest.own = None /\ Rest.snap = None
        /\ Rest.session = None /\ Rest.open = FALSE
    BY DEF Rest
  <2> QED
    BY <2>1, <2>2 DEF Carries, Holds, HoldingStep, TickStep
<1>2. Carries(Over) /\ Holds(Over, m)
  BY Plain DEF TickStep, HoldingStep, Over
<1>3. Carries([Rest EXCEPT !.at = "polling"]) /\ Holds([Rest EXCEPT !.at = "polling"], m)
  BY Plain DEF TickStep, HoldingStep
<1> QED
  BY <1>1, <1>2, <1>3

\* The task goes on to a step without an object.
LEMMA Moved ==
  ASSUME NEW k, NEW m, NEW x \in TickStep \ HoldingStep, Carries(k), Holds(k, m),
         k.at \notin HoldingStep
  PROVE  Carries([k EXCEPT !.at = x]) /\ Holds([k EXCEPT !.at = x], m)
BY DEF Carries, Holds, TaskField, HoldingStep

\* What is left, once a task has gone on.
LEMMA WithTask ==
  ASSUME RuntimeTyped, NEW t \in Tick \cup {Boot}, NEW k, Carries(k), Holds(k, mem'),
         task' = [task EXCEPT ![t] = k], RowsTyped', MemTyped', MemStays, ApiTyped', ServerTyped'
  PROVE  RuntimeTyped'
BY TaskGoes DEF RuntimeTyped

LEMMA ApiRests == ApiTyped /\ UNCHANGED api => ApiTyped'
BY DEF ApiTyped

LEMMA ServerRests ==
  ServerTyped /\ UNCHANGED <<world, hydrated, requested, shiftOpen, streak>> => ServerTyped'
BY DEF ServerTyped

LEMMA RowsRest == RowsTyped /\ UNCHANGED <<chair, session>> => RowsTyped'
BY DEF RowsTyped

LEMMA MemRests == MemTyped /\ UNCHANGED mem => MemTyped' /\ MemStays
BY DEF MemTyped, MemStays

\* Nothing but the task of the poll changes.
LEMMA OnlyTask ==
  ASSUME RuntimeTyped, NEW t \in Tick \cup {Boot}, NEW k, Carries(k), Holds(k, mem), Goto(t, k),
         UNCHANGED <<world, chair, session, mem, hydrated, shiftOpen, api, streak>>,
         requested' \in BOOLEAN
  PROVE  RuntimeTyped'
<1>1. RowsTyped' /\ MemTyped' /\ MemStays /\ ApiTyped'
  BY RowsRest, MemRests, ApiRests DEF RuntimeTyped
<1>2. ServerTyped'
  BY DEF RuntimeTyped, ServerTyped
<1> QED
  BY <1>1, <1>2, WithTask DEF Goto

(***************************************************************************)
(* A task without an object goes on without one.                           *)
(***************************************************************************)
Follows(n, k) ==
  /\ n = [f \in TaskField |-> n[f]]
  /\ n.at \in TickStep \ HoldingStep
  /\ \A f \in {"power", "online", "holds", "own", "open"} : n[f] = k[f]
  /\ n.snap \in ChairMem \cup {None}
  /\ n.session \in Session \cup {None}

LEMMA Followed ==
  ASSUME NEW k, NEW m, NEW n, Carries(k), Holds(k, m), k.at \notin HoldingStep, Follows(n, k),
         NEW m2
  PROVE  Carries(n) /\ Holds(n, m2)
<1>1. /\ n.power = k.power /\ n.online = k.online /\ n.holds = k.holds
      /\ n.own = k.own /\ n.open = k.open
  BY DEF Follows
<1>2. Carries(n)
  BY <1>1 DEF Carries, Follows, HoldingStep
<1>3. Holds(n, m2)
  BY <1>1 DEF Holds, Follows
<1> QED
  BY <1>2, <1>3

LEMMA ReadRowsTyped ==
  ASSUME RuntimeTyped, NEW t \in Tick, task[t].at \notin HoldingStep, NEW why,
         ReadRows(t, why),
         UNCHANGED <<world, chair, session, mem, hydrated, shiftOpen, api, streak>>,
         requested' \in BOOLEAN
  PROVE  RuntimeTyped'
<1> DEFINE n == [task[t] EXCEPT !.at = "hydrating", !.snap = FromRows, !.then = why]
<1>1. Carries(task[t]) /\ Holds(task[t], mem)
  BY DEF RuntimeTyped, TasksTyped
<1>2. FromRows \in ChairMem \cup {None}
  BY FromRowsTyped DEF RuntimeTyped
<1>3. /\ n = [f \in TaskField |-> n[f]] /\ n.at = "hydrating" /\ n.snap = FromRows
      /\ \A f \in {"power", "online", "holds", "own", "open", "session"} : n[f] = task[t][f]
  BY <1>1 DEF Carries, TaskField
<1>4. Goto(t, n)
  BY DEF ReadRows
<1> HIDE DEF n
<1>5. Follows(n, task[t])
  BY <1>1, <1>2, <1>3 DEF Follows, Carries, TickStep, HoldingStep
<1>6. Carries(n) /\ Holds(n, mem)
  BY <1>1, <1>5, Followed
<1> QED
  BY <1>4, <1>6, OnlyTask

LEMMA FlushedTyped ==
  ASSUME RuntimeTyped
  PROVE  Flushed \in ChairRow
<1>1. chair \in ChairRow /\ mem \in ChairMem \cup {None}
  BY DEF RuntimeTyped, RowsTyped, MemTyped
<1>2. CASE mem = None
  BY <1>1, <1>2 DEF Flushed
<1>3. CASE mem # None
  <2>1. mem.low \in BOOLEAN /\ mem.online \in BOOLEAN
    BY <1>1, <1>3 DEF ChairMem
  <2> QED
    BY <1>1, <1>3, <2>1 DEF Flushed, ChairRow
<1> QED
  BY <1>2, <1>3

LEMMA beginFirstHydrateTyped ==
  ASSUME RuntimeTyped, NEW t \in Tick, beginFirstHydrate(t)
  PROVE  RuntimeTyped'
<1>1. task[t].at \notin HoldingStep
  BY DEF beginFirstHydrate, Due, At, HoldingStep
<1>2. requested' \in BOOLEAN
  BY DEF RuntimeTyped, ServerTyped, beginFirstHydrate
<1> QED
  BY <1>1, <1>2, ReadRowsTyped DEF beginFirstHydrate

LEMMA flushDirtyLiveStateTyped ==
  ASSUME RuntimeTyped, NEW t \in Tick, flushDirtyLiveState(t)
  PROVE  RuntimeTyped'
<1>1. RowsTyped'
  BY FlushedTyped DEF RuntimeTyped, RowsTyped, flushDirtyLiveState
<1> QED
  BY <1>1, MemRests, ApiRests, ServerRests DEF RuntimeTyped, TasksTyped, flushDirtyLiveState

LEMMA beginReconcileTyped ==
  ASSUME RuntimeTyped, NEW t \in Tick, beginReconcile(t)
  PROVE  RuntimeTyped'
<1> DEFINE why == IF requested THEN "request" ELSE "timer"
           n == [task[t] EXCEPT !.at = "hydrating", !.snap = FromRows, !.then = why]
<1>1. Carries(task[t]) /\ Holds(task[t], mem) /\ task[t].at \notin HoldingStep
  BY DEF RuntimeTyped, TasksTyped, beginReconcile, Due, At, HoldingStep
<1>2. FromRows \in ChairMem \cup {None}
  BY FromRowsTyped DEF RuntimeTyped
<1>3. /\ n = [f \in TaskField |-> n[f]] /\ n.at = "hydrating" /\ n.snap = FromRows
      /\ \A f \in {"power", "online", "holds", "own", "open", "session"} : n[f] = task[t][f]
  BY <1>1 DEF Carries, TaskField
<1>4. Goto(t, n)
  BY DEF beginReconcile, ReadRows
<1> HIDE DEF n
<1>5. Follows(n, task[t])
  BY <1>1, <1>2, <1>3 DEF Follows, Carries, TickStep, HoldingStep
<1>6. Carries(n) /\ Holds(n, mem')
  BY <1>1, <1>5, Followed
<1>7. RowsTyped' /\ MemTyped' /\ MemStays /\ ApiTyped' /\ ServerTyped'
  <2>1. RowsTyped'
    BY FlushedTyped DEF RuntimeTyped, RowsTyped, beginReconcile
  <2>2. ServerTyped'
    BY DEF RuntimeTyped, ServerTyped, beginReconcile
  <2> QED
    BY <2>1, <2>2, MemRests, ApiRests DEF RuntimeTyped, beginReconcile
<1> QED
  BY <1>4, <1>6, <1>7, WithTask DEF Goto

LEMMA CarryOverTyped ==
  ASSUME NEW prev \in ChairMem \cup {None}, NEW next \in ChairMem \cup {None}
  PROVE  carryOverRuntimeState(prev, next) \in ChairMem \cup {None}
<1>1. CASE prev = None \/ next = None
  BY <1>1 DEF carryOverRuntimeState
<1>2. CASE prev # None /\ next # None
  <2> DEFINE b == prev.blocked /\ next.status = "IDLE"
  <2>1. prev.low \in BOOLEAN /\ prev.online \in BOOLEAN /\ b \in BOOLEAN
    BY <1>2 DEF ChairMem
  <2>2. carryOverRuntimeState(prev, next) = [next EXCEPT !.low = prev.low, !.online = prev.online,
                                                         !.blocked = b]
    BY <1>2 DEF carryOverRuntimeState
  <2> HIDE DEF b
  <2>3. [next EXCEPT !.low = prev.low, !.online = prev.online, !.blocked = b] \in ChairMem
    BY <1>2, <2>1 DEF ChairMem
  <2> QED
    BY <2>2, <2>3
<1> QED
  BY <1>1, <1>2

LEMMA AfterHydrateTyped ==
  ASSUME RuntimeTyped, NEW t \in Tick \cup {Boot}, task[t].at = "hydrating", NEW m,
         NEW k \in AfterHydrate(t, m)
  PROVE  Carries(k) /\ Holds(k, m)
<1>1. Carries(task[t]) /\ Holds(task[t], mem) /\ task[t].at \notin HoldingStep
  BY DEF RuntimeTyped, TasksTyped, HoldingStep
<1>2. CASE k = Over \/ k = [Rest EXCEPT !.at = "polling"]
  BY <1>2, RestIsPlain
<1>3. CASE k = [task[t] EXCEPT !.at = "scanning", !.snap = None]
  <2>1. /\ k = [f \in TaskField |-> k[f]] /\ k.at = "scanning" /\ k.snap = None
        /\ \A f \in {"power", "online", "holds", "own", "open", "session"} : k[f] = task[t][f]
    BY <1>1, <1>3 DEF Carries, TaskField
  <2>2. Follows(k, task[t])
    BY <1>1, <2>1 DEF Follows, Carries, TickStep, HoldingStep
  <2> QED
    BY <1>1, <2>2, Followed
<1>4. CASE k = [task[t] EXCEPT !.at = "fetched", !.snap = None, !.then = None]
  <2>1. /\ k = [f \in TaskField |-> k[f]] /\ k.at = "fetched" /\ k.snap = None
        /\ \A f \in {"power", "online", "holds", "own", "open", "session"} : k[f] = task[t][f]
    BY <1>1, <1>4 DEF Carries, TaskField
  <2>2. Follows(k, task[t])
    BY <1>1, <2>1 DEF Follows, Carries, TickStep, HoldingStep
  <2> QED
    BY <1>1, <2>2, Followed
<1> QED
  BY <1>2, <1>3, <1>4 DEF AfterHydrate

LEMMA hydrateTyped ==
  ASSUME RuntimeTyped, NEW t \in Tick \cup {Boot}, hydrateRuntimeCache(t)
  PROVE  RuntimeTyped'
<1> DEFINE m == carryOverRuntimeState(mem, task[t].snap)
<1>1. PICK k \in AfterHydrate(t, m) : Replace(m, t, k)
  BY DEF hydrateRuntimeCache
<1>2. m \in ChairMem \cup {None}
  BY CarryOverTyped DEF RuntimeTyped, MemTyped, TasksTyped, Carries
<1> HIDE DEF m
<1>3. Carries(k) /\ Holds(k, m)
  BY <1>1, AfterHydrateTyped DEF hydrateRuntimeCache, At
<1>4. MemTyped' /\ TasksTyped'
  BY <1>1, <1>2, <1>3, TaskReplaces
<1>5. RowsTyped' /\ ApiTyped'
  BY RowsRest, ApiRests DEF RuntimeTyped, hydrateRuntimeCache
<1>6. ServerTyped'
  BY DEF RuntimeTyped, ServerTyped, hydrateRuntimeCache
<1> QED
  BY <1>4, <1>5, <1>6 DEF RuntimeTyped

-----------------------------------------------------------------------------
(***************************************************************************)
(* The recovery of a stale session.                                        *)
(***************************************************************************)
LEMMA AfterRecoveryTyped ==
  ASSUME NEW t, NEW m
  PROVE  Carries(AfterRecovery(t)) /\ Holds(AfterRecovery(t), m)
BY RestIsPlain DEF AfterRecovery

LEMMA recoverChairSessionTyped ==
  ASSUME RuntimeTyped, NEW t \in Tick, recoverChairSession(t)
  PROVE  RuntimeTyped'
<1>1. Carries(task[t]) /\ Holds(task[t], mem) /\ task[t].at \notin HoldingStep
  BY DEF RuntimeTyped, TasksTyped, HoldingStep, recoverChairSession, At
<1>2. requested' \in BOOLEAN
  BY DEF RuntimeTyped, ServerTyped, recoverChairSession
<1>3. CASE Goto(t, AfterRecovery(t))
  BY <1>2, <1>3, AfterRecoveryTyped, OnlyTask DEF recoverChairSession
<1>4. ASSUME NEW x \in {"recovering", "reviewing"},
             Goto(t, [task[t] EXCEPT !.at = x, !.session = ActiveSession])
      PROVE  RuntimeTyped'
  <2> DEFINE n == [task[t] EXCEPT !.at = x, !.session = ActiveSession]
  <2>1. /\ n = [f \in TaskField |-> n[f]] /\ n.at = x /\ n.session = ActiveSession
        /\ \A f \in {"power", "online", "holds", "own", "open", "snap"} : n[f] = task[t][f]
    BY <1>1 DEF Carries, TaskField
  <2> HIDE DEF n
  <2>2. Follows(n, task[t])
    BY <1>1, <2>1, ActiveSessionTyped DEF Follows, Carries, TickStep, HoldingStep
  <2>3. Carries(n) /\ Holds(n, mem)
    BY <1>1, <2>2, Followed
  <2>4. Goto(t, n)
    BY <1>4 DEF n
  <2> QED
    BY <1>2, <2>3, <2>4, OnlyTask DEF recoverChairSession
<1>5. \/ Goto(t, AfterRecovery(t))
      \/ \E x \in {"recovering", "reviewing"} :
           Goto(t, [task[t] EXCEPT !.at = x, !.session = ActiveSession])
  <2>1. CASE ActiveSession = None
    BY <2>1 DEF recoverChairSession
  <2>2. CASE ActiveSession # None
    <3>1. PICK aged \in BOOLEAN :
            LET decision == evaluateStaleSessionRecovery(ActiveSession, aged)
            IN  Goto(t, IF decision = "none" THEN AfterRecovery(t)
                        ELSE [task[t] EXCEPT !.at = IF decision = "finalize" THEN "recovering"
                                                    ELSE "reviewing",
                                             !.session = ActiveSession])
      BY <2>2 DEF recoverChairSession
    <3> QED
      BY <3>1
  <2> QED
    BY <2>1, <2>2
<1> QED
  BY <1>3, <1>4, <1>5

LEMMA applyRecoveryDecisionTyped ==
  ASSUME RuntimeTyped, NEW t \in Tick, applyRecoveryDecision(t)
  PROVE  RuntimeTyped'
<1>1. Carries(task[t]) /\ Holds(task[t], mem) /\ task[t].at \notin HoldingStep
  BY DEF RuntimeTyped, TasksTyped, HoldingStep, applyRecoveryDecision, At
<1>2. RowsTyped'
  <2>1. CASE Finalized(task[t].session)
    BY <2>1, FinalizedTyped DEF RuntimeTyped
  <2>2. CASE markSessionNeedsReview(task[t].session)
    BY <2>2, ReviewTyped DEF RuntimeTyped
  <2> QED
    BY <2>1, <2>2 DEF applyRecoveryDecision
<1>3. MemTyped' /\ MemStays /\ ApiTyped' /\ ServerTyped'
  <2>1. requested' \in BOOLEAN
    BY DEF RuntimeTyped, ServerTyped, applyRecoveryDecision, RecoveryFailed
  <2>2. ServerTyped'
    BY <2>1 DEF RuntimeTyped, ServerTyped, applyRecoveryDecision
  <2> QED
    BY <2>2, MemRests, ApiRests DEF RuntimeTyped, applyRecoveryDecision
<1>4. CASE Goto(t, [task[t] EXCEPT !.at = "forgetting"])
  <2> DEFINE n == [task[t] EXCEPT !.at = "forgetting"]
  <2>1. Carries(n) /\ Holds(n, mem')
    <3>1. "forgetting" \in TickStep \ HoldingStep
      BY DEF TickStep, HoldingStep
    <3>2. Carries(n) /\ Holds(n, mem)
      BY <1>1, <3>1, Moved
    <3> HIDE DEF n
    <3> QED
      BY <3>2 DEF applyRecoveryDecision
  <2> QED
    BY <1>2, <1>3, <1>4, <2>1, WithTask DEF Goto
<1>5. CASE Goto(t, Rest)
  <2>1. Carries(Rest) /\ Holds(Rest, mem')
    BY RestIsPlain
  <2> QED
    BY <1>2, <1>3, <1>5, <2>1, WithTask DEF Goto
<1> QED
  BY <1>4, <1>5 DEF applyRecoveryDecision, RecoveryFailed

LEMMA ForgottenTyped ==
  ASSUME NEW m \in ChairMem
  PROVE  ForgottenSession(m) \in ChairMem
BY DEF ForgottenSession, clearSessionMem, ChairMem, Status, Age

LEMMA forgetRecoveredTyped ==
  ASSUME RuntimeTyped, NEW t \in Tick, forgetRecovered(t)
  PROVE  RuntimeTyped'
<1>1. MemTyped' /\ MemStays
  BY ForgottenTyped, MemAssumption DEF RuntimeTyped, MemTyped, MemStays, forgetRecovered
<1>2. RowsTyped' /\ ApiTyped' /\ ServerTyped'
  BY RowsRest, ApiRests, ServerRests DEF RuntimeTyped, forgetRecovered
<1>3. Carries(AfterRecovery(t)) /\ Holds(AfterRecovery(t), mem')
  BY AfterRecoveryTyped
<1> QED
  BY <1>1, <1>2, <1>3, WithTask DEF forgetRecovered, Goto

LEMMA pollTyped ==
  ASSUME RuntimeTyped, NEW t \in Tick, poll(t)
  PROVE  RuntimeTyped'
<1>1. PICK reading \in [online: {TRUE}, power: Power] \cup [online: {FALSE}, power: {"low"}] :
        Goto(t, [Rest EXCEPT !.at = "fetched", !.online = reading.online, !.power = reading.power])
  BY DEF poll
<1> DEFINE n == [Rest EXCEPT !.at = "fetched", !.online = reading.online, !.power = reading.power]
<1>2. reading.online \in BOOLEAN /\ reading.power \in Power
  BY DEF Power
<1>3. n = [f \in TaskField |-> n[f]]
  BY DEF Rest, TaskField
<1>4. /\ n.at = "fetched" /\ n.power = reading.power /\ n.online = reading.online
      /\ n.holds = "nothing" /\ n.own = None /\ n.snap = None /\ n.session = None /\ n.open = FALSE
  BY DEF Rest
<1>5. Goto(t, n)
  BY <1>1
<1> HIDE DEF n
<1>6. Carries(n) /\ Holds(n, mem)
  BY <1>2, <1>3, <1>4 DEF Carries, Holds, HoldingStep, TickStep
<1>7. requested' \in BOOLEAN
  BY DEF RuntimeTyped, ServerTyped, poll
<1> QED
  BY <1>5, <1>6, <1>7, OnlyTask DEF poll

-----------------------------------------------------------------------------
(***************************************************************************)
(* A reading is processed on the object of the cache.                      *)
(***************************************************************************)
LEMMA ObservedTyped ==
  ASSUME RuntimeTyped, NEW t, Observed(t)
  PROVE  streak' \in [high: Age, low: Age, silent: BOOLEAN]
<1>1. streak \in [high: Age, low: Age, silent: BOOLEAN]
  BY DEF RuntimeTyped, ServerTyped
<1>2. Extended(streak.high, task[t].power = "high") \in Age /\ Extended(streak.low, task[t].power = "low") \in Age
  BY <1>1 DEF Extended, Age
<1> QED
  BY <1>1, <1>2 DEF Observed

LEMMA ProcessTyped ==
  ASSUME RuntimeTyped, NEW t \in Tick, NEW m \in ChairMem, NEW k, Carries(k), Holds(k, m),
         Process(t, m, k)
  PROVE  RuntimeTyped'
<1>1. MemTyped' /\ MemStays /\ mem' = m
  BY MemAssumption DEF Process, MemTyped, MemStays
<1>2. RowsTyped' /\ ApiTyped'
  BY RowsRest, ApiRests DEF RuntimeTyped, Process
<1>3. ServerTyped'
  BY ObservedTyped DEF RuntimeTyped, ServerTyped, Process
<1>4. Holds(k, mem')
  BY <1>1
<1> QED
  BY <1>1, <1>2, <1>3, <1>4, WithTask DEF Process, Goto

LEMMA SampledTyped ==
  ASSUME NEW t, mem \in ChairMem
  PROVE  Sampled(t) \in ChairMem
BY DEF Sampled, ChairMem

\* A poll that takes hold of the object of the cache.
Takes(k, at, then, power, online, write, s) ==
  /\ k = [f \in TaskField |-> k[f]]
  /\ k.at = at /\ k.then = then /\ k.power = power /\ k.online = online
  /\ k.write = write /\ k.session = s
  /\ k.holds = "entry" /\ k.own = None /\ k.snap = None /\ k.open = FALSE

LEMMA TakesTyped ==
  ASSUME NEW k, NEW at \in HoldingStep, NEW then \in {"upsert", "stop", "again"},
         NEW power \in Power \cup {None}, NEW online \in BOOLEAN, NEW write,
         NEW s \in Session \cup {None}, Takes(k, at, then, power, online, write, s),
         at = "writing" => Fits(write), NEW m \in ChairMem
  PROVE  Carries(k) /\ Holds(k, m)
<1>1. Carries(k)
  BY DEF Takes, Carries, HoldingStep, TickStep
<1>2. Holds(k, m)
  BY MemAssumption DEF Takes, Holds
<1> QED
  BY <1>1, <1>2

LEMMA HoldingTakes ==
  ASSUME NEW at
  PROVE  Takes(Holding(at), at, "upsert", None, FALSE, NoColumns, None)
BY DEF Takes, Holding, Rest, TaskField

LEMMA WritingTakes ==
  ASSUME NEW w
  PROVE  Takes(Writing(w), "writing", "upsert", None, FALSE, w, None)
BY DEF Takes, Writing, Holding, Rest, TaskField

\* The rows are left alone by a poll that goes on with the object it holds.
LEMMA HeldGoesOn ==
  ASSUME RuntimeTyped, NEW t \in Tick, task[t].at \in HoldingStep, NEW m \in ChairMem, NEW k,
         Carries(k), k.at \in HoldingStep, SetHeld(t, m, k),
         UNCHANGED <<world, chair, session, hydrated, requested, shiftOpen, api, streak>>
  PROVE  RuntimeTyped'
<1>1. MemTyped' /\ TasksTyped'
  BY HeldIsSet
<1>2. RowsTyped' /\ ApiTyped' /\ ServerTyped'
  BY RowsRest, ApiRests, ServerRests DEF RuntimeTyped
<1> QED
  BY <1>1, <1>2 DEF RuntimeTyped

LEMMA quietReadingsTyped ==
  ASSUME RuntimeTyped, NEW t \in Tick,
         unknownChair(t) \/ disabledChair(t) \/ sampleOnly(t)
  PROVE  RuntimeTyped'
<1>1. CASE unknownChair(t)
  <2>1. /\ Observed(t) /\ task[t].at \notin HoldingStep
        /\ UNCHANGED <<world, chair, session, mem, hydrated, requested, shiftOpen, api>>
    BY <1>1 DEF unknownChair, At, HoldingStep
  <2>2. RowsTyped' /\ ApiTyped' /\ MemTyped' /\ MemStays
    BY <2>1, RowsRest, ApiRests, MemRests DEF RuntimeTyped
  <2>3. ServerTyped'
    BY <2>1, ObservedTyped DEF RuntimeTyped, ServerTyped
  <2>4. CASE Goto(t, Rest)
    <3>1. Carries(Rest) /\ Holds(Rest, mem')
      BY RestIsPlain
    <3> QED
      BY <2>2, <2>3, <2>4, <3>1, WithTask DEF Goto
  <2>5. CASE ReadRows(t, "lookup")
    <3> DEFINE n == [task[t] EXCEPT !.at = "hydrating", !.snap = FromRows, !.then = "lookup"]
    <3>1. Carries(task[t]) /\ Holds(task[t], mem)
      BY DEF RuntimeTyped, TasksTyped
    <3>2. FromRows \in ChairMem \cup {None}
      BY FromRowsTyped DEF RuntimeTyped
    <3>3. /\ n = [f \in TaskField |-> n[f]] /\ n.at = "hydrating" /\ n.snap = FromRows
          /\ \A f \in {"power", "online", "holds", "own", "open", "session"} : n[f] = task[t][f]
      BY <3>1 DEF Carries, TaskField
    <3>4. Goto(t, n)
      BY <2>5 DEF ReadRows
    <3> HIDE DEF n
    <3>5. Follows(n, task[t])
      BY <3>1, <3>2, <3>3 DEF Follows, Carries, TickStep, HoldingStep
    <3>6. Carries(n) /\ Holds(n, mem')
      BY <2>1, <3>1, <3>5, Followed
    <3> QED
      BY <2>2, <2>3, <3>4, <3>6, WithTask DEF Goto
  <2> QED
    BY <1>1, <2>4, <2>5 DEF unknownChair
<1>2. CASE disabledChair(t)
  <2>1. mem \in ChairMem
    BY <1>2 DEF disabledChair, RuntimeTyped, MemTyped
  <2> QED
    BY <1>2, <2>1, RestIsPlain, ProcessTyped DEF disabledChair
<1>3. CASE sampleOnly(t)
  <2>1. mem \in ChairMem
    BY <1>3 DEF sampleOnly, Decides, RuntimeTyped, MemTyped
  <2>2. Sampled(t) \in ChairMem
    BY <2>1, SampledTyped
  <2> QED
    BY <1>3, <2>2, RestIsPlain, ProcessTyped DEF sampleOnly
<1> QED
  BY <1>1, <1>2, <1>3

LEMMA DecidesOnMem ==
  ASSUME RuntimeTyped, NEW t, NEW kinds, Decides(t, kinds)
  PROVE  mem \in ChairMem /\ Sampled(t) \in ChairMem
<1>1. mem \in ChairMem
  BY DEF Decides, RuntimeTyped, MemTyped
<1> QED
  BY <1>1, SampledTyped

\* The poll is about to write columns that fit the row.
LEMMA WritingCarries ==
  ASSUME NEW w, Fits(w), NEW m \in ChairMem
  PROVE  Carries(Writing(w)) /\ Holds(Writing(w), m)
<1>1. Takes(Writing(w), "writing", "upsert", None, FALSE, w, None)
  BY WritingTakes
<1> QED
  BY <1>1, TakesTyped DEF HoldingStep

LEMMA HoldingCarries ==
  ASSUME NEW at \in HoldingStep \ {"writing"}, NEW m \in ChairMem
  PROVE  Carries(Holding(at)) /\ Holds(Holding(at), m)
<1>1. Takes(Holding(at), at, "upsert", None, FALSE, NoColumns, None)
  BY HoldingTakes
<1> QED
  BY <1>1, TakesTyped

LEMMA startTransitionsTyped ==
  ASSUME RuntimeTyped, NEW t \in Tick,
         idleToMaybeActive(t) \/ maybeActiveToIdle(t) \/ beginStart(t)
  PROVE  RuntimeTyped'
<1>1. CASE idleToMaybeActive(t)
  <2> DEFINE m == [Sampled(t) EXCEPT !.status = "MAYBE_ACTIVE", !.activeSince = "recent"]
             w == [status |-> "MAYBE_ACTIVE", activeSince |-> "recent", low |-> FALSE, online |-> TRUE]
  <2>1. m \in ChairMem
    <3>1. Sampled(t) \in ChairMem
      BY <1>1, DecidesOnMem DEF idleToMaybeActive
    <3> QED
      BY <3>1 DEF ChairMem, Status, Age
  <2>2. Fits(w)
    <3>1. /\ DOMAIN w = {"status", "activeSince", "low", "online"}
           /\ w["status"] = "MAYBE_ACTIVE" /\ w["activeSince"] = "recent" /\ w["low"] = FALSE /\ w["online"] = TRUE
      OBVIOUS
    <3> HIDE DEF w
    <3> QED
      BY <3>1 DEF Fits, Status, Age
  <2>3. Process(t, m, Writing(w))
    BY <1>1 DEF idleToMaybeActive
  <2> HIDE DEF m, w
  <2> QED
    BY <2>1, <2>2, <2>3, WritingCarries, ProcessTyped
<1>2. CASE maybeActiveToIdle(t)
  <2> DEFINE m == [Sampled(t) EXCEPT !.status = "IDLE", !.activeSince = None]
             w == [status |-> "IDLE", activeSince |-> None, low |-> task[t].power = "low", online |-> TRUE]
  <2>1. m \in ChairMem
    <3>1. Sampled(t) \in ChairMem
      BY <1>2, DecidesOnMem DEF maybeActiveToIdle
    <3> QED
      BY <3>1 DEF ChairMem, Status, Age
  <2>2. Fits(w)
    <3>1. /\ DOMAIN w = {"status", "activeSince", "low", "online"}
           /\ w["status"] = "IDLE" /\ w["activeSince"] = None /\ w["low"] = (task[t].power = "low") /\ w["online"] = TRUE
      OBVIOUS
    <3> HIDE DEF w
    <3> QED
      BY <3>1 DEF Fits, Status, Age
  <2>3. Process(t, m, Writing(w))
    BY <1>2 DEF maybeActiveToIdle
  <2> HIDE DEF m, w
  <2> QED
    BY <2>1, <2>2, <2>3, WritingCarries, ProcessTyped
<1>3. CASE beginStart(t)
  <2>1. Sampled(t) \in ChairMem
    BY <1>3, DecidesOnMem DEF beginStart
  <2>2. Carries(Holding("starting")) /\ Holds(Holding("starting"), Sampled(t))
    BY <2>1, HoldingCarries DEF HoldingStep
  <2> QED
    BY <1>3, <2>1, <2>2, ProcessTyped DEF beginStart
<1> QED
  BY <1>1, <1>2, <1>3

LEMMA endTransitionsTyped ==
  ASSUME RuntimeTyped, NEW t \in Tick,
         activeToMaybeFinished(t) \/ maybeFinishedToActive(t) \/ beginEnd(t)
  PROVE  RuntimeTyped'
<1>1. CASE activeToMaybeFinished(t)
  <2>0. mem \in ChairMem /\ Sampled(t) \in ChairMem
    BY <1>1, DecidesOnMem DEF activeToMaybeFinished
  <2>1. CASE mem.session = None
    <3> DEFINE m == [Sampled(t) EXCEPT !.status = "IDLE", !.current = None]
               w == [status |-> "IDLE", current |-> None]
    <3>1. m \in ChairMem
      BY <2>0 DEF ChairMem, Status, Age
    <3>2. Fits(w)
      <4>1. /\ DOMAIN w = {"status", "current"}
             /\ w["status"] = "IDLE" /\ w["current"] = None
        OBVIOUS
      <4> HIDE DEF w
      <4> QED
        BY <4>1 DEF Fits, Status, Age
    <3>3. Process(t, m, Writing(w))
      BY <1>1, <2>1 DEF activeToMaybeFinished
    <3> HIDE DEF m, w
    <3> QED
      BY <3>1, <3>2, <3>3, WritingCarries, ProcessTyped
  <2>2. CASE mem.session # None
    <3> DEFINE m == [Sampled(t) EXCEPT !.status = "MAYBE_FINISHED", !.since = "recent"]
               w == [status |-> "MAYBE_FINISHED", since |-> "recent", low |-> TRUE, online |-> TRUE]
               k == [Writing(w) EXCEPT !.session = mem.session]
    <3>1. m \in ChairMem
      BY <2>0 DEF ChairMem, Status, Age
    <3>2. Fits(w)
      <4>1. /\ DOMAIN w = {"status", "since", "low", "online"}
             /\ w["status"] = "MAYBE_FINISHED" /\ w["since"] = "recent" /\ w["low"] = TRUE /\ w["online"] = TRUE
        OBVIOUS
      <4> HIDE DEF w
      <4> QED
        BY <4>1 DEF Fits, Status, Age
    <3>3. Process(t, m, k)
      BY <1>1, <2>2 DEF activeToMaybeFinished
    <3>4. mem.session \in Session \cup {None}
      BY <2>0 DEF ChairMem
    <3> HIDE DEF m, w
    <3>5. Takes(k, "writing", "upsert", None, FALSE, w, mem.session)
      BY DEF Takes, Writing, Holding, Rest, TaskField
    <3> HIDE DEF k
    <3>6. Carries(k) /\ Holds(k, m)
      BY <3>1, <3>2, <3>4, <3>5, TakesTyped DEF HoldingStep
    <3> QED
      BY <3>1, <3>3, <3>6, ProcessTyped
  <2> QED
    BY <2>1, <2>2
<1>2. CASE maybeFinishedToActive(t)
  <2> DEFINE m == [Sampled(t) EXCEPT !.status = "ACTIVE", !.since = None]
             w == [status |-> "ACTIVE", since |-> None, low |-> FALSE, online |-> TRUE]
  <2>1. m \in ChairMem
    <3>1. Sampled(t) \in ChairMem
      BY <1>2, DecidesOnMem DEF maybeFinishedToActive
    <3> QED
      BY <3>1 DEF ChairMem, Status, Age
  <2>2. Fits(w)
    <3>1. /\ DOMAIN w = {"status", "since", "low", "online"}
           /\ w["status"] = "ACTIVE" /\ w["since"] = None /\ w["low"] = FALSE /\ w["online"] = TRUE
      OBVIOUS
    <3> HIDE DEF w
    <3> QED
      BY <3>1 DEF Fits, Status, Age
  <2>3. Process(t, m, Writing(w))
    BY <1>2 DEF maybeFinishedToActive
  <2> HIDE DEF m, w
  <2> QED
    BY <2>1, <2>2, <2>3, WritingCarries, ProcessTyped
<1>3. CASE beginEnd(t)
  <2>1. mem \in ChairMem /\ Sampled(t) \in ChairMem
    BY <1>3, DecidesOnMem DEF beginEnd
  <2>2. CASE mem.session = None
    <3>1. Carries(Holding("seeking")) /\ Holds(Holding("seeking"), Sampled(t))
      BY <2>1, HoldingCarries DEF HoldingStep
    <3> QED
      BY <1>3, <2>1, <2>2, <3>1, ProcessTyped DEF beginEnd
  <2>3. CASE mem.session # None
    <3> DEFINE k == [Holding("ending") EXCEPT !.session = mem.session]
    <3>1. Process(t, Sampled(t), k)
      BY <1>3, <2>3 DEF beginEnd
    <3>2. Takes(k, "ending", "upsert", None, FALSE, NoColumns, mem.session)
      BY DEF Takes, Holding, Rest, TaskField
    <3>3. mem.session \in Session \cup {None}
      BY <2>1 DEF ChairMem
    <3> HIDE DEF k
    <3>4. Carries(k) /\ Holds(k, Sampled(t))
      BY <2>1, <3>2, <3>3, TakesTyped DEF HoldingStep
    <3> QED
      BY <2>1, <3>1, <3>4, ProcessTyped
  <2> QED
    BY <2>2, <2>3
<1> QED
  BY <1>1, <1>2, <1>3

LEMMA silenceTyped ==
  ASSUME RuntimeTyped, NEW t \in Tick, handleOffline(t) \/ beginOnlineRecovery(t)
  PROVE  RuntimeTyped'
<1>1. CASE handleOffline(t)
  <2> DEFINE m == [mem EXCEPT !.status = "OFFLINE", !.online = FALSE]
             w == [status |-> "OFFLINE", before |-> mem.status, online |-> FALSE]
             k == [Writing(w) EXCEPT !.then = "stop"]
  <2>0. mem \in ChairMem
    BY <1>1, DecidesOnMem DEF handleOffline
  <2>1. m \in ChairMem
    BY <2>0 DEF ChairMem, Status
  <2>2. Fits(w)
    <3>1. mem.status \in Status
      BY <2>0 DEF ChairMem
    <3>2. /\ DOMAIN w = {"status", "before", "online"}
          /\ w["status"] = "OFFLINE" /\ w["before"] = mem.status /\ w["online"] = FALSE
      OBVIOUS
    <3> HIDE DEF w
    <3> QED
      BY <3>1, <3>2 DEF Fits, Status
  <2>3. Process(t, m, k)
    BY <1>1 DEF handleOffline
  <2> HIDE DEF m, w
  <2>4. Takes(k, "writing", "stop", None, FALSE, w, None)
    BY DEF Takes, Writing, Holding, Rest, TaskField
  <2> HIDE DEF k
  <2>5. Carries(k) /\ Holds(k, m)
    BY <2>1, <2>2, <2>4, TakesTyped DEF HoldingStep
  <2> QED
    BY <2>1, <2>3, <2>5, ProcessTyped
<1>2. CASE beginOnlineRecovery(t)
  <2> DEFINE m == [mem EXCEPT !.blocked = @ /\ task[t].power = "high"]
             k == [Holding("restoring") EXCEPT !.power = task[t].power, !.online = TRUE]
  <2>0. mem \in ChairMem
    BY <1>2, DecidesOnMem DEF beginOnlineRecovery
  <2>1. m \in ChairMem
    BY <2>0 DEF ChairMem
  <2>2. task[t].power \in Power \cup {None}
    BY DEF RuntimeTyped, TasksTyped, Carries
  <2>3. Process(t, m, k)
    BY <1>2 DEF beginOnlineRecovery
  <2> HIDE DEF m
  <2>4. Takes(k, "restoring", "upsert", task[t].power, TRUE, NoColumns, None)
    BY DEF Takes, Holding, Rest, TaskField
  <2> HIDE DEF k
  <2>5. Carries(k) /\ Holds(k, m)
    BY <2>1, <2>2, <2>4, TakesTyped DEF HoldingStep
  <2> QED
    BY <2>1, <2>3, <2>5, ProcessTyped
<1> QED
  BY <1>1, <1>2

LEMMA UpsertTyped ==
  ASSUME RuntimeTyped, NEW t \in Tick, task[t].at \in HoldingStep, NEW m \in ChairMem,
         upsertChairMem(t, m, Rest)
  PROVE  MemTyped' /\ TasksTyped'
<1>1. Carries(Rest) /\ Holds(Rest, m)
  BY RestIsPlain
<1>2. CASE task[t].holds = "entry"
  <2>1. mem' = m /\ task' = [task EXCEPT ![t] = Rest]
    BY <1>2 DEF upsertChairMem
  <2>2. MemTyped' /\ MemStays
    BY <2>1, MemAssumption DEF MemTyped, MemStays
  <2> QED
    BY <1>1, <2>1, <2>2, TaskGoes
<1>3. CASE task[t].holds # "entry"
  BY <1>1, <1>3, TaskReplaces DEF upsertChairMem
<1> QED
  BY <1>2, <1>3

LEMMA writeRowTyped ==
  ASSUME RuntimeTyped, NEW t \in Tick, writeRow(t)
  PROVE  RuntimeTyped'
<1>1. /\ task[t].at = "writing" /\ task[t].at \in HoldingStep
      /\ Carries(task[t]) /\ Holds(task[t], mem)
  BY DEF writeRow, At, HoldingStep, RuntimeTyped, TasksTyped
<1>2. RowsTyped'
  <2>1. chair' \in ChairRow
    <3>1. chair \in ChairRow /\ Fits(task[t].write)
      BY <1>1 DEF RuntimeTyped, RowsTyped, Carries
    <3> QED
      BY <3>1, FitsRow DEF writeRow
  <2>2. session' \in [Session -> SessionRow]
    <3>1. session \in [Session -> SessionRow]
      BY DEF RuntimeTyped, RowsTyped
    <3>2. CASE task[t].session = None
      BY <3>1, <3>2 DEF writeRow
    <3>3. CASE task[t].session # None
      <4> DEFINE s == task[t].session
                 r == [session[s] EXCEPT !.dipped = TRUE]
      <4>1. s \in Session
        BY <1>1, <3>3 DEF Carries
      <4>2. r \in SessionRow
        BY <3>1, <4>1 DEF SessionRow
      <4>3. session' = [session EXCEPT ![s] = r]
        BY <3>3 DEF writeRow
      <4> HIDE DEF r, s
      <4> QED
        BY <3>1, <4>2, <4>3
    <3> QED
      BY <3>2, <3>3
  <2> QED
    BY <2>1, <2>2 DEF RowsTyped
<1>3. ApiTyped' /\ ServerTyped'
  BY ApiRests, ServerRests DEF RuntimeTyped, writeRow
<1>4. MemTyped' /\ TasksTyped'
  <2>1. CASE task[t].then = "upsert"
    <3>1. Held(t) \in ChairMem
      BY <1>1, HeldTyped
    <3>2. upsertChairMem(t, Held(t), Rest)
      BY <2>1 DEF writeRow
    <3> QED
      BY <1>1, <3>1, <3>2, UpsertTyped
  <2>2. CASE task[t].then = "stop"
    <3>1. mem' = mem /\ task' = [task EXCEPT ![t] = Rest]
      BY <2>2 DEF writeRow, Goto
    <3>2. Carries(Rest) /\ Holds(Rest, mem')
      BY RestIsPlain
    <3>3. MemTyped' /\ MemStays
      BY <3>1, MemRests DEF RuntimeTyped
    <3> QED
      BY <3>1, <3>2, <3>3, TaskGoes
  <2>3. CASE task[t].then = "again"
    <3> DEFINE n == [Rest EXCEPT !.at = "fetched", !.power = task[t].power, !.online = task[t].online]
    <3>1. mem' = mem /\ task' = [task EXCEPT ![t] = n]
      BY <2>3 DEF writeRow, Goto
    <3>2. n = [f \in TaskField |-> n[f]]
      BY DEF Rest, TaskField
    <3>3. /\ n.at = "fetched" /\ n.power = task[t].power /\ n.online = task[t].online
          /\ n.holds = "nothing" /\ n.own = None /\ n.snap = None /\ n.session = None
          /\ n.open = FALSE
      BY DEF Rest
    <3> HIDE DEF n
    <3>4. Carries(n) /\ Holds(n, mem')
      BY <1>1, <3>2, <3>3 DEF Carries, Holds, HoldingStep, TickStep
    <3>5. MemTyped' /\ MemStays
      BY <3>1, MemRests DEF RuntimeTyped
    <3> QED
      BY <3>1, <3>4, <3>5, TaskGoes
  <2> QED
    BY <1>1, <2>1, <2>2, <2>3 DEF Carries
<1> QED
  BY <1>2, <1>3, <1>4 DEF RuntimeTyped

\* The poll goes on to write columns with its object.
GoesToWrite(n, k, then, w) ==
  /\ n = [f \in TaskField |-> n[f]]
  /\ n.at = "writing" /\ n.then = then /\ n.write = w
  /\ \A f \in {"power", "online", "holds", "own", "snap", "session", "open"} : n[f] = k[f]

LEMMA GoesToWriteCarries ==
  ASSUME NEW n, NEW k, NEW then \in {"upsert", "stop", "again"}, NEW w, Carries(k), Fits(w),
         GoesToWrite(n, k, then, w)
  PROVE  Carries(n) /\ n.at \in HoldingStep
BY DEF GoesToWrite, Carries, TickStep, HoldingStep

LEMMA handleOnlineRecoveryTyped ==
  ASSUME RuntimeTyped, NEW t \in Tick, handleOnlineRecovery(t)
  PROVE  RuntimeTyped'
<1> DEFINE s == ActiveSession
           status == IF s = None THEN "IDLE"
                     ELSE IF chair.since # None \/ chair.before = "MAYBE_FINISHED"
                          THEN "MAYBE_FINISHED" ELSE "ACTIVE"
           since == IF status = "MAYBE_FINISHED" /\ chair.since # None
                    THEN chair.since ELSE Held(t).since
           m == [bindSessionMem(Held(t), s) EXCEPT !.status = status, !.online = TRUE,
                                                   !.since = since]
           late == IF status = "MAYBE_FINISHED" THEN since ELSE None
           w == [status |-> status, online |-> TRUE, before |-> None, current |-> s, since |-> late]
           k == [task[t] EXCEPT !.at = "writing", !.then = "again", !.write = w]
<1>1. task[t].at \in HoldingStep /\ Carries(task[t]) /\ Held(t) \in ChairMem
  BY HeldTyped DEF handleOnlineRecovery, At, HoldingStep, RuntimeTyped, TasksTyped
<1>2. SetHeld(t, m, k)
  BY DEF handleOnlineRecovery
<1>3. s \in Session \cup {None} /\ status \in Status /\ since \in Age /\ late \in Age
  <2>1. s \in Session \cup {None}
    BY ActiveSessionTyped
  <2>2. chair.since \in Age /\ Held(t).since \in Age
    BY <1>1 DEF RuntimeTyped, RowsTyped, ChairRow, ChairMem
  <2>3. status \in Status
    BY DEF Status
  <2> HIDE DEF status, s
  <2>4. since \in Age
    BY <2>2
  <2> HIDE DEF since
  <2>5. late \in Age
    BY <2>4 DEF Age
  <2> HIDE DEF late
  <2> QED
    BY <2>1, <2>3, <2>4, <2>5
<1> HIDE DEF s, status, since, late
<1>4. m \in ChairMem
  BY <1>1, <1>3 DEF bindSessionMem, ChairMem
<1>5. Fits(w)
  <2>1. /\ DOMAIN w = {"status", "online", "before", "current", "since"}
        /\ w["status"] = status /\ w["online"] = TRUE /\ w["before"] = None
        /\ w["current"] = s /\ w["since"] = late
    OBVIOUS
  <2> HIDE DEF w
  <2> QED
    BY <1>3, <2>1 DEF Fits
<1> HIDE DEF m, w
<1>6. GoesToWrite(k, task[t], "again", w)
  BY <1>1 DEF GoesToWrite, Carries, TaskField
<1> HIDE DEF k
<1>7. Carries(k) /\ k.at \in HoldingStep
  BY <1>1, <1>5, <1>6, GoesToWriteCarries
<1> QED
  BY <1>1, <1>2, <1>4, <1>7, HeldGoesOn DEF handleOnlineRecovery

LEMMA adoptOrResolveTyped ==
  ASSUME RuntimeTyped, NEW t \in Tick, adoptOrResolve(t)
  PROVE  RuntimeTyped'
<1>1. task[t].at \in HoldingStep /\ Carries(task[t]) /\ Held(t) \in ChairMem /\ Holds(task[t], mem)
  BY HeldTyped DEF adoptOrResolve, At, HoldingStep, RuntimeTyped, TasksTyped
<1>2. CASE ActiveSession # None
  <2> DEFINE s == ActiveSession
             m == [bindSessionMem(Held(t), s) EXCEPT !.status = "ACTIVE", !.activeSince = None]
             w == [status |-> "ACTIVE", current |-> s, activeSince |-> None]
             k == [task[t] EXCEPT !.at = "writing", !.write = w]
  <2>1. SetHeld(t, m, k)
    BY <1>2 DEF adoptOrResolve
  <2>2. s \in Session \cup {None}
    BY ActiveSessionTyped
  <2> HIDE DEF s
  <2>3. m \in ChairMem
    BY <1>1, <2>2 DEF bindSessionMem, ChairMem, Status, Age
  <2>4. Fits(w)
    <3>1. /\ DOMAIN w = {"status", "current", "activeSince"}
          /\ w["status"] = "ACTIVE" /\ w["current"] = s /\ w["activeSince"] = None
      OBVIOUS
    <3> HIDE DEF w
    <3> QED
      BY <2>2, <3>1 DEF Fits, Status, Age
  <2> HIDE DEF m, w
  <2>5. GoesToWrite(k, task[t], task[t].then, w)
    BY <1>1 DEF GoesToWrite, Carries, TaskField
  <2> HIDE DEF k
  <2>6. Carries(k) /\ k.at \in HoldingStep
    BY <1>1, <2>4, <2>5, GoesToWriteCarries DEF Carries
  <2> QED
    BY <1>1, <2>1, <2>3, <2>6, HeldGoesOn DEF adoptOrResolve
<1>3. CASE ActiveSession = None
  <2> DEFINE k == [task[t] EXCEPT !.at = "resolving"]
  <2>1. Goto(t, k)
    BY <1>3 DEF adoptOrResolve
  <2>2. /\ k = [f \in TaskField |-> k[f]] /\ k.at = "resolving"
        /\ \A f \in TaskField \ {"at"} : k[f] = task[t][f]
    BY <1>1 DEF Carries, TaskField
  <2> HIDE DEF k
  <2>3. Carries(k) /\ Holds(k, mem)
    BY <1>1, <2>2 DEF Carries, Holds, TaskField, HoldingStep, TickStep
  <2>4. requested' \in BOOLEAN
    BY DEF RuntimeTyped, ServerTyped, adoptOrResolve
  <2> QED
    BY <1>3, <2>1, <2>3, <2>4, OnlyTask DEF adoptOrResolve
<1> QED
  BY <1>2, <1>3

LEMMA resolveOpenShiftTyped ==
  ASSUME RuntimeTyped, NEW t \in Tick, resolveOpenShiftForSession(t)
  PROVE  RuntimeTyped'
<1>1. task[t].at \in HoldingStep /\ Carries(task[t]) /\ Holds(task[t], mem) /\ shiftOpen \in BOOLEAN
  BY DEF resolveOpenShiftForSession, At, HoldingStep, RuntimeTyped, TasksTyped, ServerTyped
<1> DEFINE k == [task[t] EXCEPT !.at = "deciding", !.open = shiftOpen]
<1>2. Goto(t, k)
  BY DEF resolveOpenShiftForSession
<1>3. /\ k = [f \in TaskField |-> k[f]] /\ k.at = "deciding" /\ k.open = shiftOpen
      /\ \A f \in TaskField \ {"at", "open"} : k[f] = task[t][f]
  BY <1>1 DEF Carries, TaskField
<1> HIDE DEF k
<1>4. Carries(k) /\ Holds(k, mem)
  BY <1>1, <1>3 DEF Carries, Holds, TaskField, HoldingStep, TickStep
<1>5. requested' \in BOOLEAN
  BY DEF RuntimeTyped, ServerTyped, resolveOpenShiftForSession
<1> QED
  BY <1>2, <1>4, <1>5, OnlyTask DEF resolveOpenShiftForSession

LEMMA blockOrCreateTyped ==
  ASSUME RuntimeTyped, NEW t \in Tick, blockOrCreate(t)
  PROVE  RuntimeTyped'
<1>1. task[t].at \in HoldingStep /\ Carries(task[t]) /\ Held(t) \in ChairMem /\ Holds(task[t], mem)
  BY HeldTyped DEF blockOrCreate, At, HoldingStep, RuntimeTyped, TasksTyped
<1>2. CASE world.selfStart /\ ~task[t].open
  <2> DEFINE m == [Held(t) EXCEPT !.status = "IDLE", !.activeSince = None, !.blocked = TRUE]
             w == [status |-> "IDLE", activeSince |-> None, low |-> FALSE, online |-> TRUE]
             k == [task[t] EXCEPT !.at = "writing", !.write = w]
  <2>1. SetHeld(t, m, k)
    BY <1>2 DEF blockOrCreate
  <2>3. m \in ChairMem
    BY <1>1 DEF ChairMem, Status, Age
  <2>4. Fits(w)
    <3>1. /\ DOMAIN w = {"status", "activeSince", "low", "online"}
          /\ w["status"] = "IDLE" /\ w["activeSince"] = None /\ w["low"] = FALSE
          /\ w["online"] = TRUE
      OBVIOUS
    <3> HIDE DEF w
    <3> QED
      BY <3>1 DEF Fits, Status, Age
  <2> HIDE DEF m, w
  <2>5. GoesToWrite(k, task[t], task[t].then, w)
    BY <1>1 DEF GoesToWrite, Carries, TaskField
  <2> HIDE DEF k
  <2>6. Carries(k) /\ k.at \in HoldingStep
    BY <1>1, <2>4, <2>5, GoesToWriteCarries DEF Carries
  <2> QED
    BY <1>1, <2>1, <2>3, <2>6, HeldGoesOn DEF blockOrCreate
<1>3. CASE ~(world.selfStart /\ ~task[t].open)
  <2> DEFINE k == [task[t] EXCEPT !.at = "creating"]
  <2>1. Goto(t, k) /\ mem' = mem
    BY <1>3 DEF blockOrCreate
  <2>2. /\ k = [f \in TaskField |-> k[f]] /\ k.at = "creating"
        /\ \A f \in TaskField \ {"at"} : k[f] = task[t][f]
    BY <1>1 DEF Carries, TaskField
  <2> HIDE DEF k
  <2>3. Carries(k) /\ Holds(k, mem)
    BY <1>1, <2>2 DEF Carries, Holds, TaskField, HoldingStep, TickStep
  <2>4. requested' \in BOOLEAN
    BY DEF RuntimeTyped, ServerTyped, blockOrCreate
  <2> QED
    BY <2>1, <2>3, <2>4, OnlyTask DEF blockOrCreate
<1> QED
  BY <1>2, <1>3

LEMMA createSessionTyped ==
  ASSUME RuntimeTyped, NEW t \in Tick, createSession(t)
  PROVE  RuntimeTyped'
<1>1. task[t].at \in HoldingStep /\ Carries(task[t]) /\ Holds(task[t], mem)
  BY DEF createSession, At, HoldingStep, RuntimeTyped, TasksTyped
<1>2. MemTyped' /\ MemStays /\ mem' = mem /\ ApiTyped' /\ ServerTyped'
  BY MemRests, ApiRests, ServerRests DEF RuntimeTyped, createSession
<1>3. ASSUME NEW s \in Session, Started(s, task[t].open),
             Goto(t, [task[t] EXCEPT !.at = "created", !.session = s])
      PROVE  RuntimeTyped'
  <2>1. RowsTyped'
    <3> DEFINE r == [status |-> "ACTIVE", dipped |-> FALSE, orphan |-> ~task[t].open]
    <3>1. r \in SessionRow
      BY DEF SessionRow
    <3>2. session' = [session EXCEPT ![s] = r]
      BY <1>3 DEF Started
    <3> HIDE DEF r
    <3>3. session' \in [Session -> SessionRow]
      BY <3>1, <3>2 DEF RuntimeTyped, RowsTyped
    <3>4. chair \in ChairRow
      BY DEF RuntimeTyped, RowsTyped
    <3>5. chair' \in ChairRow
      BY <1>3, <3>4 DEF Started, ChairRow, Status, Age
    <3> QED
      BY <3>3, <3>5 DEF RowsTyped
  <2> DEFINE k == [task[t] EXCEPT !.at = "created", !.session = s]
  <2>2. Goto(t, k)
    BY <1>3
  <2>3. /\ k = [f \in TaskField |-> k[f]] /\ k.at = "created" /\ k.session = s
        /\ \A f \in TaskField \ {"at", "session"} : k[f] = task[t][f]
    BY <1>1 DEF Carries, TaskField
  <2> HIDE DEF k
  <2>4. Carries(k) /\ Holds(k, mem')
    BY <1>1, <1>2, <2>3 DEF Carries, Holds, TaskField, HoldingStep, TickStep
  <2> QED
    BY <1>2, <2>1, <2>2, <2>4, WithTask DEF Goto
<1>4. CASE Goto(t, Rest) /\ UNCHANGED <<chair, session>>
  <2>1. Carries(Rest) /\ Holds(Rest, mem')
    BY RestIsPlain
  <2>2. RowsTyped'
    BY <1>4, RowsRest DEF RuntimeTyped
  <2> QED
    BY <1>2, <1>4, <2>1, <2>2, WithTask DEF Goto
<1> QED
  BY <1>3, <1>4 DEF createSession

LEMMA upsertsTyped ==
  ASSUME RuntimeTyped, NEW t \in Tick, bindCreated(t) \/ clearEnded(t)
  PROVE  RuntimeTyped'
<1>1. /\ task[t].at \in HoldingStep /\ Held(t) \in ChairMem
      /\ task[t].session \in Session \cup {None}
  BY HeldTyped DEF bindCreated, clearEnded, At, HoldingStep, RuntimeTyped, TasksTyped, Carries
<1>2. PICK m \in ChairMem : upsertChairMem(t, m, Rest)
  <2>1. CASE bindCreated(t)
    <3> DEFINE m == [bindSessionMem(Held(t), task[t].session) EXCEPT !.status = "ACTIVE",
                                                                     !.activeSince = None]
    <3>1. upsertChairMem(t, m, Rest)
      BY <2>1 DEF bindCreated
    <3>2. m \in ChairMem
      BY <1>1 DEF bindSessionMem, ChairMem, Status, Age
    <3> QED
      BY <3>1, <3>2
  <2>2. CASE clearEnded(t)
    <3> DEFINE m == [clearSessionMem(Held(t)) EXCEPT !.status = "IDLE", !.since = None,
                                                     !.activeSince = None]
    <3>1. upsertChairMem(t, m, Rest)
      BY <2>2 DEF clearEnded
    <3>2. m \in ChairMem
      BY <1>1 DEF clearSessionMem, ChairMem, Status, Age
    <3> QED
      BY <3>1, <3>2
  <2> QED
    BY <2>1, <2>2
<1>3. MemTyped' /\ TasksTyped'
  BY <1>1, <1>2, UpsertTyped
<1>4. RowsTyped' /\ ApiTyped' /\ ServerTyped'
  BY RowsRest, ApiRests, ServerRests DEF RuntimeTyped, bindCreated, clearEnded
<1> QED
  BY <1>3, <1>4 DEF RuntimeTyped

LEMMA seekSessionTyped ==
  ASSUME RuntimeTyped, NEW t \in Tick, seekSession(t)
  PROVE  RuntimeTyped'
<1>1. task[t].at \in HoldingStep /\ Carries(task[t]) /\ Held(t) \in ChairMem
  BY HeldTyped DEF seekSession, At, HoldingStep, RuntimeTyped, TasksTyped
<1> DEFINE found == {s \in Actives : Held(t).current \in {None, s}}
<1>2. CASE found = {}
  <2> DEFINE m == [Held(t) EXCEPT !.status = "IDLE", !.current = None, !.since = None]
             w == [status |-> "IDLE", current |-> None, since |-> None]
             k == [task[t] EXCEPT !.at = "writing", !.write = w]
  <2>1. SetHeld(t, m, k)
    BY <1>2 DEF seekSession
  <2>3. m \in ChairMem
    BY <1>1 DEF ChairMem, Status, Age
  <2>4. Fits(w)
    <3>1. /\ DOMAIN w = {"status", "current", "since"}
          /\ w["status"] = "IDLE" /\ w["current"] = None /\ w["since"] = None
      OBVIOUS
    <3> HIDE DEF w
    <3> QED
      BY <3>1 DEF Fits, Status, Age
  <2> HIDE DEF m, w
  <2>5. GoesToWrite(k, task[t], task[t].then, w)
    BY <1>1 DEF GoesToWrite, Carries, TaskField
  <2> HIDE DEF k
  <2>6. Carries(k) /\ k.at \in HoldingStep
    BY <1>1, <2>4, <2>5, GoesToWriteCarries DEF Carries
  <2> QED
    BY <1>1, <2>1, <2>3, <2>6, HeldGoesOn DEF seekSession
<1>3. CASE found # {}
  <2> DEFINE s == CHOOSE s \in found : TRUE
             m == bindSessionMem(Held(t), s)
             k == [task[t] EXCEPT !.at = "ending", !.session = s]
  <2>1. SetHeld(t, m, k)
    BY <1>3 DEF seekSession
  <2>2. s \in Session
    <3>1. s \in found
      BY <1>3
    <3> QED
      BY <3>1 DEF Actives
  <2> HIDE DEF s, found
  <2>3. m \in ChairMem
    BY <1>1, <2>2 DEF bindSessionMem, ChairMem
  <2> HIDE DEF m
  <2>4. /\ k = [f \in TaskField |-> k[f]] /\ k.at = "ending" /\ k.session = s
        /\ \A f \in TaskField \ {"at", "session"} : k[f] = task[t][f]
    BY <1>1 DEF Carries, TaskField
  <2> HIDE DEF k
  <2>5. Carries(k) /\ k.at \in HoldingStep
    BY <1>1, <2>2, <2>4 DEF Carries, TaskField, HoldingStep, TickStep
  <2> QED
    BY <1>1, <2>1, <2>3, <2>5, HeldGoesOn DEF seekSession
<1> QED
  BY <1>2, <1>3

LEMMA finalizeActiveSessionTyped ==
  ASSUME RuntimeTyped, NEW t \in Tick, finalizeActiveSession(t)
  PROVE  RuntimeTyped'
<1>1. task[t].at \in HoldingStep /\ Carries(task[t]) /\ Holds(task[t], mem)
  BY DEF finalizeActiveSession, At, HoldingStep, RuntimeTyped, TasksTyped
<1>2. MemTyped' /\ MemStays /\ mem' = mem /\ ApiTyped' /\ ServerTyped'
  BY MemRests, ApiRests, ServerRests DEF RuntimeTyped, finalizeActiveSession
<1>3. RowsTyped'
  <2>1. CASE Finalized(task[t].session)
    BY <2>1, FinalizedTyped DEF RuntimeTyped
  <2>2. CASE UNCHANGED <<chair, session>>
    BY <2>2, RowsRest DEF RuntimeTyped
  <2> QED
    BY <2>1, <2>2 DEF finalizeActiveSession
<1>4. CASE Goto(t, [task[t] EXCEPT !.at = "ended"])
  <2> DEFINE k == [task[t] EXCEPT !.at = "ended"]
  <2>1. /\ k = [f \in TaskField |-> k[f]] /\ k.at = "ended"
        /\ \A f \in TaskField \ {"at"} : k[f] = task[t][f]
    BY <1>1 DEF Carries, TaskField
  <2>2. Goto(t, k)
    BY <1>4
  <2> HIDE DEF k
  <2>3. Carries(k) /\ Holds(k, mem')
    BY <1>1, <1>2, <2>1 DEF Carries, Holds, TaskField, HoldingStep, TickStep
  <2> QED
    BY <1>2, <1>3, <2>2, <2>3, WithTask DEF Goto
<1>5. CASE Goto(t, Rest)
  <2>1. Carries(Rest) /\ Holds(Rest, mem')
    BY RestIsPlain
  <2> QED
    BY <1>2, <1>3, <1>5, <2>1, WithTask DEF Goto
<1> QED
  BY <1>4, <1>5 DEF finalizeActiveSession

-----------------------------------------------------------------------------
(***************************************************************************)
(* The handlers.                                                           *)
(***************************************************************************)
\* No poll moves, and the object of the cache stays if it is there.
LEMMA TasksRest ==
  ASSUME RuntimeTyped, MemStays, UNCHANGED task
  PROVE  TasksTyped'
BY DEF RuntimeTyped, TasksTyped, MemStays, Holds

LEMMA EnterTyped ==
  ASSUME NEW x \in ApiStep \ {"finalizing", "reviewing", "forgetting"}, Enter(x)
  PROVE  ApiTyped'
<1>1. api' = [at |-> x, session |-> None, then |-> None]
  BY DEF Enter, ApiRest
<1> QED
  BY <1>1 DEF ApiTyped

LEMMA EnterForTyped ==
  ASSUME NEW x \in ApiStep, NEW s \in Session \cup {None}, NEW y \in ApiStep \cup {None},
         x \in {"finalizing", "reviewing", "forgetting"} => y \in {"checking", "closing"},
         EnterFor(x, s, y)
  PROVE  ApiTyped'
<1>1. api' = [at |-> x, session |-> s, then |-> y]
  BY DEF EnterFor
<1> QED
  BY <1>1 DEF ApiTyped

LEMMA ApiRestTyped == api' = ApiRest => ApiTyped'
BY DEF ApiTyped, ApiRest, ApiStep

LEMMA RespondTyped ==
  ASSUME RuntimeTyped, Respond
  PROVE  RuntimeTyped'
<1> USE DEF RuntimeTyped
<1>1. CASE recoverForHandler
  <2>1. RowsTyped'
    <3>1. CASE Finalized(api.session)
      BY <3>1, FinalizedTyped
    <3>2. CASE markSessionNeedsReview(api.session)
      BY <3>2, ReviewTyped
    <3> QED
      BY <1>1, <3>1, <3>2 DEF recoverForHandler
  <2>2. ApiTyped'
    <3>1. api.then \in {"checking", "closing"}
      BY <1>1 DEF recoverForHandler, ApiTyped
    <3>2. CASE EnterFor("forgetting", None, api.then)
      BY <3>1, <3>2, EnterForTyped DEF ApiStep
    <3> QED
      BY <1>1, <3>2, ApiRestTyped DEF recoverForHandler
  <2> QED
    BY <1>1, <2>1, <2>2, MemRests, TasksRest, ServerRests DEF recoverForHandler
<1>2. CASE forgetForHandler
  <2>1. MemTyped' /\ MemStays
    BY <1>2, ForgottenTyped, MemAssumption DEF MemTyped, MemStays, forgetForHandler
  <2>2. ApiTyped'
    <3>1. api.then \in ApiStep \ {"finalizing", "reviewing", "forgetting"}
      BY <1>2 DEF forgetForHandler, ApiTyped, ApiStep
    <3> QED
      BY <1>2, <3>1, EnterTyped DEF forgetForHandler
  <2> QED
    BY <1>2, <2>1, <2>2, TasksRest, RowsRest, ServerRests DEF forgetForHandler
<1>3. CASE checkStillActive
  <2>1. ApiTyped'
    BY <1>3, EnterTyped, ApiRestTyped DEF checkStillActive, ApiStep
  <2> QED
    BY <1>3, <2>1, MemRests, TasksRest, RowsRest, ServerRests DEF checkStillActive
<1>4. CASE writeDisabled
  <2>1. ApiTyped'
    BY <1>4, EnterTyped DEF writeDisabled, ApiStep
  <2>2. RowsTyped'
    <3>1. chair \in ChairRow
      BY DEF RowsTyped
    <3> QED
      BY <1>4, <3>1 DEF writeDisabled, RowsTyped, ChairRow
  <2> QED
    BY <1>4, <2>1, <2>2, MemRests, TasksRest, ServerRests DEF writeDisabled
<1>5. CASE syncChairDisabledInRuntime
  <2>1. MemTyped' /\ MemStays
    <3>1. mem # None => disabledChairMemPatch(mem) \in ChairMem
      BY DEF MemTyped, ChairMem, disabledChairMemPatch, clearSessionMem, Status, Age
    <3> QED
      BY <1>5, <3>1, MemAssumption DEF MemTyped, MemStays, syncChairDisabledInRuntime
  <2>2. ApiTyped'
    BY <1>5, EnterTyped DEF syncChairDisabledInRuntime, ApiStep
  <2> QED
    BY <1>5, <2>1, <2>2, TasksRest, RowsRest, ServerRests DEF syncChairDisabledInRuntime
<1>6. CASE syncChairEnabledInRuntime
  <2>1. MemTyped' /\ MemStays
    <3>1. mem # None => [mem EXCEPT !.enabled = TRUE] \in ChairMem
      BY DEF MemTyped, ChairMem
    <3> QED
      BY <1>6, <3>1, MemAssumption DEF MemTyped, MemStays, syncChairEnabledInRuntime
  <2>2. ApiTyped'
    BY <1>6, EnterTyped DEF syncChairEnabledInRuntime, ApiStep
  <2> QED
    BY <1>6, <2>1, <2>2, TasksRest, RowsRest, ServerRests DEF syncChairEnabledInRuntime
<1>7. CASE deleteSession
  <2>1. ApiTyped'
    BY <1>7, EnterTyped DEF deleteSession, ApiStep
  <2>2. session' \in [Session -> SessionRow]
    BY <1>7, StatusTyped DEF deleteSession, RowsTyped
  <2>3. chair' \in ChairRow
    <3>1. chair \in ChairRow
      BY DEF RowsTyped
    <3> QED
      BY <1>7, <3>1 DEF deleteSession, ChairRow, Status, Age
  <2> QED
    BY <1>7, <2>1, <2>2, <2>3, MemRests, TasksRest, ServerRests DEF deleteSession, RowsTyped
<1>8. CASE clearNoShiftStartBlocks
  <2>1. MemTyped' /\ MemStays
    <3>1. mem # None => [mem EXCEPT !.blocked = FALSE] \in ChairMem
      BY DEF MemTyped, ChairMem
    <3> QED
      BY <1>8, <3>1, MemAssumption DEF MemTyped, MemStays, clearNoShiftStartBlocks
  <2>2. ApiTyped'
    BY <1>8, EnterTyped DEF clearNoShiftStartBlocks, ApiStep
  <2> QED
    BY <1>8, <2>1, <2>2, TasksRest, RowsRest, ServerRests DEF clearNoShiftStartBlocks
<1>9. CASE closeShift
  <2>1. ApiTyped'
    BY <1>9, EnterTyped DEF closeShift, ApiStep
  <2>2. ServerTyped'
    BY <1>9 DEF closeShift, ServerTyped
  <2> QED
    BY <1>9, <2>1, <2>2, MemRests, TasksRest, RowsRest DEF closeShift
<1>10. CASE requestRuntimeReconcile
  <2>1. ServerTyped'
    BY <1>10 DEF requestRuntimeReconcile, ServerTyped
  <2> QED
    BY <1>10, <2>1, ApiRestTyped, MemRests, TasksRest, RowsRest DEF requestRuntimeReconcile
<1> QED
  BY <1>1, <1>2, <1>3, <1>4, <1>5, <1>6, <1>7, <1>8, <1>9, <1>10 DEF Respond

LEMMA RequestTyped ==
  ASSUME RuntimeTyped, Request
  PROVE  RuntimeTyped'
<1> USE DEF RuntimeTyped
<1>1. CASE prepareChairForDisable
  <2>1. ApiTyped'
    <3>1. \/ Enter("disabling") \/ Enter("checking")
          \/ \E x \in {"finalizing", "reviewing"} : EnterFor(x, ActiveSession, "checking")
      BY <1>1 DEF prepareChairForDisable
    <3>2. ASSUME NEW x \in {"finalizing", "reviewing"}, EnterFor(x, ActiveSession, "checking")
          PROVE  ApiTyped'
      BY <3>2, EnterForTyped, ActiveSessionTyped DEF ApiStep
    <3> QED
      BY <3>1, <3>2, EnterTyped DEF ApiStep
  <2> QED
    BY <1>1, <2>1, MemRests, TasksRest, RowsRest, ServerRests DEF prepareChairForDisable
<1>2. CASE writeEnabled
  <2>1. ApiTyped'
    BY <1>2, EnterTyped DEF writeEnabled, ApiStep
  <2>2. RowsTyped'
    <3>1. chair \in ChairRow
      BY DEF RowsTyped
    <3> QED
      BY <1>2, <3>1 DEF writeEnabled, RowsTyped, ChairRow
  <2> QED
    BY <1>2, <2>1, <2>2, MemRests, TasksRest, ServerRests DEF writeEnabled
<1>3. CASE beginDeleteSession
  <2>1. ApiTyped'
    BY <1>3, EnterForTyped, ActiveSessionTyped DEF beginDeleteSession, ApiStep
  <2> QED
    BY <1>3, <2>1, MemRests, TasksRest, RowsRest, ServerRests DEF beginDeleteSession
<1>4. CASE startAssistantShift
  <2>1. ApiTyped'
    BY <1>4, EnterTyped DEF startAssistantShift, ApiStep
  <2>2. ServerTyped'
    BY <1>4 DEF startAssistantShift, ServerTyped
  <2> QED
    BY <1>4, <2>1, <2>2, MemRests, TasksRest, RowsRest DEF startAssistantShift
<1>5. CASE openShift
  <2>1. ApiTyped'
    BY <1>5, EnterTyped DEF openShift, ApiStep
  <2>2. ServerTyped'
    BY <1>5 DEF openShift, ServerTyped
  <2> QED
    BY <1>5, <2>1, <2>2, MemRests, TasksRest, RowsRest DEF openShift
<1>6. CASE beginCloseShift
  <2>1. ApiTyped'
    BY <1>6, EnterTyped, EnterForTyped, ActiveSessionTyped DEF beginCloseShift, ApiStep
  <2> QED
    BY <1>6, <2>1, MemRests, TasksRest, RowsRest, ServerRests DEF beginCloseShift
<1> QED
  BY <1>1, <1>2, <1>3, <1>4, <1>5, <1>6 DEF Request

-----------------------------------------------------------------------------
(***************************************************************************)
(* Failures, time and restarts.                                            *)
(***************************************************************************)
LEMMA FailuresTyped ==
  ASSUME RuntimeTyped, NEW t \in Tick \cup {Boot}, databaseFails(t) \/ fetchFails(t)
  PROVE  RuntimeTyped'
<1>1. requested' \in BOOLEAN
  BY DEF RuntimeTyped, ServerTyped, databaseFails, fetchFails, RecoveryFailed
<1>2. Goto(t, Rest) \/ Goto(t, Over) \/ Goto(t, [Rest EXCEPT !.at = "polling"])
  BY DEF databaseFails, fetchFails, RecoveryFailed
<1>3. UNCHANGED <<world, chair, session, mem, hydrated, shiftOpen, api, streak>>
  BY DEF databaseFails, fetchFails
<1> QED
  BY <1>1, <1>2, <1>3, RestIsPlain, OnlyTask

LEMMA OlderRow ==
  ASSUME NEW r \in ChairRow
  PROVE  Aging(r) \in ChairRow
<1> DEFINE o == Aging(r)
<1>1. r = [c \in {"enabled", "status", "before", "current", "activeSince", "since", "low", "online"}
             |-> r[c]]
  BY DEF ChairRow
<1>2. /\ o = [enabled |-> r.enabled, status |-> r.status, before |-> r.before,
              current |-> r.current, activeSince |-> Older(r.activeSince),
              since |-> Older(r.since), low |-> r.low, online |-> r.online]
  BY <1>1 DEF Aging
<1>3. Older(r.activeSince) \in Age /\ Older(r.since) \in Age
  BY DEF ChairRow, Older, Age
<1> HIDE DEF o
<1>4. [enabled |-> r.enabled, status |-> r.status, before |-> r.before,
       current |-> r.current, activeSince |-> Older(r.activeSince),
       since |-> Older(r.since), low |-> r.low, online |-> r.online] \in ChairRow
  BY <1>3 DEF ChairRow
<1>5. o \in ChairRow
  BY <1>2, <1>4
<1> QED
  BY <1>5 DEF o

LEMMA OlderMem ==
  ASSUME NEW r \in ChairMem \cup {None}
  PROVE  OlderSince(r) \in ChairMem \cup {None} /\ (OlderSince(r) = None <=> r = None)
<1>1. CASE r = None
  BY <1>1 DEF OlderSince
<1>2. CASE r # None
  <2> DEFINE o == OlderSince(r)
             n == [enabled |-> r.enabled, status |-> r.status, current |-> r.current,
                   session |-> r.session, activeSince |-> Older(r.activeSince),
                   since |-> Older(r.since), low |-> r.low, online |-> r.online,
                   blocked |-> r.blocked]
  <2>1. r = [c \in {"enabled", "status", "current", "session", "activeSince", "since", "low",
                    "online", "blocked"} |-> r[c]]
    BY <1>2 DEF ChairMem
  <2>2. o = n
    BY <1>2, <2>1 DEF OlderSince, Aging
  <2>3. Older(r.activeSince) \in Age /\ Older(r.since) \in Age
    BY <1>2 DEF ChairMem, Older, Age
  <2> HIDE DEF o
  <2>4. n \in ChairMem
    BY <1>2, <2>3 DEF ChairMem
  <2> HIDE DEF n
  <2>5. o \in ChairMem
    BY <2>2, <2>4
  <2> QED
    BY <1>2, <2>5, MemAssumption DEF o
<1> QED
  BY <1>1, <1>2

LEMMA OlderFits ==
  ASSUME NEW w, Fits(w)
  PROVE  Fits(Aging(w))
<1> DEFINE o == Aging(w)
<1>1. /\ DOMAIN o = DOMAIN w
      /\ \A c \in DOMAIN w : o[c] = IF c \in {"since", "activeSince"} THEN Older(w[c]) ELSE w[c]
  BY DEF Aging
<1> HIDE DEF o
<1>2. Fits(o)
  BY <1>1 DEF Fits, Older, Age
<1> QED
  BY <1>2 DEF o

LEMMA timePassesTyped ==
  ASSUME RuntimeTyped, timePasses
  PROVE  RuntimeTyped'
<1>1. RowsTyped'
  <2>1. chair \in ChairRow
    BY DEF RuntimeTyped, RowsTyped
  <2>2. chair' \in ChairRow
    BY <2>1, OlderRow DEF timePasses
  <2> QED
    BY <2>2 DEF RuntimeTyped, RowsTyped, timePasses
<1>2. MemTyped' /\ MemStays
  BY OlderMem DEF RuntimeTyped, MemTyped, MemStays, timePasses
<1>3. TasksTyped'
  <2>1. /\ task' = [t \in Tick \cup {Boot} |-> task'[t]]
        /\ \A t \in Tick \cup {Boot} :
             task'[t] = [task[t] EXCEPT !.own = OlderSince(@), !.snap = OlderSince(@),
                                        !.write = Aging(@)]
    BY DEF RuntimeTyped, TasksTyped, timePasses
  <2>2. ASSUME NEW t \in Tick \cup {Boot} PROVE Carries(task'[t]) /\ Holds(task'[t], mem')
    <3> DEFINE k == task[t]
               n == [k EXCEPT !.own = OlderSince(k.own), !.snap = OlderSince(k.snap),
                              !.write = Aging(k.write)]
    <3>1. Carries(k) /\ Holds(k, mem)
      BY DEF RuntimeTyped, TasksTyped
    <3>2. task'[t] = n
      BY <2>1
    <3> HIDE DEF k
    <3>3. /\ n = [f \in TaskField |-> n[f]]
          /\ n.own = OlderSince(k.own) /\ n.snap = OlderSince(k.snap)
          /\ n.write = Aging(k.write)
          /\ \A f \in TaskField \ {"own", "snap", "write"} : n[f] = k[f]
      BY <3>1 DEF Carries, TaskField
    <3> HIDE DEF n
    <3>4. Carries(n)
      BY <3>1, <3>3, OlderMem, OlderFits DEF Carries, TaskField
    <3>5. Holds(n, mem')
      BY <1>2, <3>1, <3>3, OlderMem DEF Holds, TaskField, MemStays
    <3> QED
      BY <3>2, <3>4, <3>5
  <2> QED
    BY <2>1, <2>2 DEF TasksTyped
<1>4. ApiTyped'
  BY ApiRests DEF RuntimeTyped, timePasses
<1>5. ServerTyped'
  <2>1. streak \in [high: Age, low: Age, silent: BOOLEAN]
    BY DEF RuntimeTyped, ServerTyped
  <2>2. streak' \in [high: Age, low: Age, silent: BOOLEAN]
    BY <2>1 DEF timePasses, Older, Age
  <2> QED
    BY <2>2 DEF RuntimeTyped, ServerTyped, timePasses
<1> QED
  BY <1>1, <1>2, <1>3, <1>4, <1>5 DEF RuntimeTyped

LEMMA BootingTyped ==
  ASSUME RowsTyped, NEW m
  PROVE  /\ Booting = [t \in Tick \cup {Boot} |-> Booting[t]]
         /\ \A t \in Tick \cup {Boot} : Carries(Booting[t]) /\ Holds(Booting[t], m)
<1>1. Booting = [t \in Tick \cup {Boot} |-> Booting[t]]
  BY DEF Booting
<1>2. ASSUME NEW t \in Tick \cup {Boot} PROVE Carries(Booting[t]) /\ Holds(Booting[t], m)
  <2>1. CASE t = Boot
    <3> DEFINE n == [Rest EXCEPT !.at = "hydrating", !.snap = FromRows, !.then = "boot"]
    <3>1. Booting[t] = n
      BY <2>1 DEF Booting
    <3>2. n = [f \in TaskField |-> n[f]]
      BY DEF Rest, TaskField
    <3>3. /\ n.at = "hydrating" /\ n.snap = FromRows /\ n.session = None
          /\ \A f \in {"power", "online", "holds", "own", "open"} : n[f] = Rest[f]
      BY DEF Rest
    <3>4. FromRows \in ChairMem \cup {None}
      BY FromRowsTyped
    <3> HIDE DEF n
    <3>5. Follows(n, Rest)
      BY <3>2, <3>3, <3>4 DEF Follows, TickStep, HoldingStep
    <3>6. Rest.at \notin HoldingStep
      BY DEF Rest, HoldingStep
    <3>7. Carries(Rest) /\ Holds(Rest, m)
      BY RestIsPlain
    <3> QED
      BY <3>1, <3>5, <3>6, <3>7, Followed
  <2>2. CASE t # Boot
    <3>1. Booting[t] = Rest
      BY <2>2 DEF Booting
    <3> QED
      BY <3>1, RestIsPlain
  <2> QED
    BY <2>1, <2>2
<1> QED
  BY <1>1, <1>2

LEMMA restartTyped ==
  ASSUME RuntimeTyped, restart
  PROVE  RuntimeTyped'
<1>1. RowsTyped'
  BY RowsRest DEF RuntimeTyped, restart
<1>2. MemTyped'
  BY DEF MemTyped, restart
<1>3. ApiTyped'
  BY ApiRestTyped DEF restart
<1>4. ServerTyped'
  BY DEF RuntimeTyped, ServerTyped, restart
<1>5. TasksTyped'
  <2>1. task' = Booting
    BY DEF restart
  <2> QED
    BY <2>1, BootingTyped DEF RuntimeTyped, TasksTyped
<1> QED
  BY <1>1, <1>2, <1>3, <1>4, <1>5 DEF RuntimeTyped

LEMMA InitTyped == Init => RuntimeTyped
<1> SUFFICES ASSUME Init PROVE RuntimeTyped
  OBVIOUS
<1>1. RowsTyped
  <2>1. chair \in ChairRow
    BY DEF Init, ChairRow, Status, Age
  <2>2. session \in [Session -> SessionRow]
    BY DEF Init, SessionRow
  <2> QED
    BY <2>1, <2>2 DEF RowsTyped
<1>2. MemTyped
  BY DEF Init, MemTyped
<1>3. TasksTyped
  BY <1>1, BootingTyped DEF Init, TasksTyped
<1>4. ApiTyped
  BY DEF Init, ApiRest, ApiTyped, ApiStep
<1>5. ServerTyped
  <2>1. streak \in [high: Age, low: Age, silent: BOOLEAN]
    BY DEF Init, Age
  <2>2. world \in AllWorlds
    BY RuntimeAssumption DEF Init
  <2> QED
    BY <2>1, <2>2 DEF Init, ServerTyped
<1> QED
  BY <1>1, <1>2, <1>3, <1>4, <1>5 DEF RuntimeTyped

LEMMA WorkTyped ==
  ASSUME RuntimeTyped, NEW t \in Tick, Work(t)
  PROVE  RuntimeTyped'
<1>1. CASE Reconciliation(t)
  BY <1>1, beginFirstHydrateTyped, flushDirtyLiveStateTyped, beginReconcileTyped, hydrateTyped,
     recoverChairSessionTyped, applyRecoveryDecisionTyped, forgetRecoveredTyped DEF Reconciliation
<1>2. CASE Reading(t)
  BY <1>2, quietReadingsTyped, startTransitionsTyped, endTransitionsTyped, silenceTyped,
     writeRowTyped, handleOnlineRecoveryTyped DEF Reading
<1>3. CASE StartOrEnd(t)
  BY <1>3, startTransitionsTyped, endTransitionsTyped, adoptOrResolveTyped, resolveOpenShiftTyped,
     blockOrCreateTyped, createSessionTyped, upsertsTyped, seekSessionTyped,
     finalizeActiveSessionTyped DEF StartOrEnd
<1>4. CASE poll(t)
  BY <1>4, pollTyped
<1> QED
  BY <1>1, <1>2, <1>3, <1>4 DEF Work

LEMMA NextTyped == RuntimeTyped /\ [Next]_vars => RuntimeTyped'
<1> SUFFICES ASSUME RuntimeTyped, [Next]_vars PROVE RuntimeTyped'
  OBVIOUS
<1>1. ASSUME NEW t \in Tick, Work(t) PROVE RuntimeTyped'
  BY <1>1, WorkTyped
<1>2. ASSUME NEW t \in Tick, databaseFails(t) \/ fetchFails(t) PROVE RuntimeTyped'
  BY <1>2, FailuresTyped
<1>3. CASE hydrateRuntimeCache(Boot)
  BY <1>3, hydrateTyped
<1>4. CASE databaseFails(Boot)
  BY <1>4, FailuresTyped
<1>5. CASE Request \/ Respond
  BY <1>5, RequestTyped, RespondTyped
<1>6. CASE handlerFails
  <2>1. ApiTyped'
    BY <1>6, ApiRestTyped DEF handlerFails
  <2> QED
    BY <1>6, <2>1, MemRests, TasksRest, RowsRest, ServerRests DEF handlerFails, RuntimeTyped
<1>7. CASE timePasses
  BY <1>7, timePassesTyped
<1>8. CASE restart
  BY <1>8, restartTyped
<1>9. CASE UNCHANGED vars
  BY <1>9, MemRests, TasksRest, RowsRest, ServerRests, ApiRests DEF vars, RuntimeTyped
<1> QED
  BY <1>1, <1>2, <1>3, <1>4, <1>5, <1>6, <1>7, <1>8, <1>9 DEF Next

-----------------------------------------------------------------------------
(***************************************************************************)
(* The rows, the object of the cache, the polls and the handler in         *)
(* progress keep their types, whatever overlaps and fails: a poll that     *)
(* works on the object of the cache has one, one that works on a replaced  *)
(* object owns it, and what a poll is about to write fits the row          *)
(* (chair-state.service.ts, chair-runtime-cache.ts).                       *)
(***************************************************************************)
THEOREM RuntimeTypes == Spec => []TypeOK
<1>1. Spec => []RuntimeTyped
  BY InitTyped, NextTyped, PTL DEF Spec
<1> QED
  BY <1>1, TypesFollow, PTL

-----------------------------------------------------------------------------
(***************************************************************************)
(* The rows lead back to a running session.  The rows, the object of the   *)
(* cache and what a poll carries change at different steps, so the         *)
(* invariant says of each of them how it is related to the running         *)
(* session, and of each step of a poll whether there can be one:           *)
(*                                                                         *)
(*   - rows about to be installed, and the object of the cache unless a    *)
(*     session was just created, are those of the running session;         *)
(*   - a poll that recovers, ends or has created a session knows the one   *)
(*     that runs, if any;                                                  *)
(*   - where a poll is about to start a session, none runs;                *)
(*   - columns about to be written leave the chair on its session;         *)
(*   - one poll at a time is at work, and while the cache is loaded at the *)
(*     start that can only be the first load of a poll and its recovery.   *)
(***************************************************************************)
Running == {"ACTIVE", "MAYBE_FINISHED", "OFFLINE"}

ObjectTracks(m, a) == m # None => m.session = a /\ m.current = a /\ m.status \in Running

WriteTracks(w, a) ==
  /\ "status" \in DOMAIN w => w["status"] \in Running
  /\ "current" \in DOMAIN w => w["current"] = a

TaskTracks(k, A) ==
  /\ k.holds # "own"
  /\ k.at = "hydrating" => \A a \in A : ObjectTracks(k.snap, a)
  /\ k.at \in {"recovering", "reviewing", "ending", "created"} => \A a \in A : a = k.session
  /\ k.at \in {"forgetting", "ended", "starting", "resolving", "deciding", "creating", "seeking"} =>
       A = {}
  /\ k.at = "writing" => "enabled" \notin DOMAIN k.write /\ \A a \in A : WriteTracks(k.write, a)

MemTracks ==
  (\E t \in Tick : task[t].at = "created") \/ (\A a \in Actives : ObjectTracks(mem, a))

LoadStep == {"due", "hydrating", "scanning", "recovering", "reviewing", "forgetting"}

\* The task may be met while the cache is loaded at the start.
AtLoad(k) == k.at \in LoadStep /\ (k.at # "due" => k.then = "first")

OneAtWork ==
  /\ \A t, u \in Tick : task[t].at # "due" /\ task[u].at # "due" => t = u
  /\ task[Boot].at \in {"hydrating", "over"}
  /\ task[Boot].at = "hydrating" => task[Boot].then = "boot" /\ \A t \in Tick : AtLoad(task[t])

QuietApi == {"idle", "archiving", "clearing", "responding"}

RowInv ==
  /\ Calm
  /\ chair.enabled
  /\ RowTracksSession
  /\ \A t \in Tick \cup {Boot} : TaskTracks(task[t], Actives)
  /\ MemTracks
  /\ api.at \in QuietApi
  /\ OneAtWork

(***************************************************************************)
(* A poll whose turn it is: it is at work, or none is.                     *)
(***************************************************************************)
Turn(t) == task[t].at # "due" \/ \A u \in Tick : task[u].at = "due"

LEMMA FewerTracks ==
  ASSUME NEW k, NEW A, NEW B, B \subseteq A, TaskTracks(k, A)
  PROVE  TaskTracks(k, B)
BY DEF TaskTracks

LEMMA OthersAreDue ==
  ASSUME RowInv, NEW t \in Tick, Turn(t), NEW u \in Tick \ {t}
  PROVE  task[u].at = "due"
BY DEF RowInv, OneAtWork, Turn

LEMMA TracksHere ==
  ASSUME RowInv, NEW t \in Tick, Turn(t), task[t].at # "created", NEW a \in Actives
  PROVE  ObjectTracks(mem, a)
<1>1. \A u \in Tick : task[u].at # "created"
  BY OthersAreDue
<1> QED
  BY <1>1 DEF RowInv, MemTracks

LEMMA BootIsOver ==
  ASSUME RowInv, NEW t \in Tick, task[t].at \notin LoadStep
  PROVE  task[Boot].at = "over"
BY DEF RowInv, OneAtWork, AtLoad

(***************************************************************************)
(* A step of poll t that starts no session.                                *)
(***************************************************************************)
LEMMA PollStep ==
  ASSUME RuntimeTyped, RowInv, NEW t \in Tick, NEW k, Turn(t), task' = [task EXCEPT ![t] = k],
         Actives' \subseteq Actives, TaskTracks(k, Actives'),
         chair'.enabled, RowTracksSession', world' = world, api'.at \in QuietApi,
         k.at = "created" \/ (\A a \in Actives' : ObjectTracks(mem', a)),
         task[Boot].at = "over" \/ AtLoad(k)
  PROVE  RowInv'
<1>1. /\ task'[t] = k
      /\ \A u \in (Tick \cup {Boot}) \ {t} : task'[u] = task[u]
  BY DEF RuntimeTyped, TasksTyped
<1>2. Boot \notin Tick
  BY RuntimeAssumption
<1>3. \A u \in Tick \cup {Boot} : TaskTracks(task'[u], Actives')
  BY <1>1, FewerTracks DEF RowInv
<1>4. MemTracks'
  BY <1>1 DEF MemTracks
<1>5. OneAtWork'
  <2>1. \A u \in Tick \ {t} : task'[u].at = "due"
    BY <1>1, OthersAreDue
  <2>2. task'[Boot] = task[Boot]
    BY <1>1, <1>2
  <2> QED
    BY <1>1, <2>1, <2>2 DEF RowInv, OneAtWork, AtLoad
<1>6. Calm'
  BY DEF RowInv, Calm
<1> QED
  BY <1>3, <1>4, <1>5, <1>6 DEF RowInv

\* A step of a handler, of the clock or of a flush, which moves no poll.
LEMMA QuietStep ==
  ASSUME RuntimeTyped, RowInv, UNCHANGED <<task, world>>, Actives' \subseteq Actives,
         chair'.enabled, RowTracksSession', api'.at \in QuietApi,
         \A a \in Actives' : ObjectTracks(mem, a) => ObjectTracks(mem', a)
  PROVE  RowInv'
<1>1. \A u \in Tick \cup {Boot} : TaskTracks(task'[u], Actives')
  BY FewerTracks DEF RowInv
<1>2. MemTracks'
  BY DEF RowInv, MemTracks
<1>3. OneAtWork'
  BY DEF RowInv, OneAtWork, AtLoad
<1>4. Calm'
  BY DEF RowInv, Calm
<1> QED
  BY <1>1, <1>2, <1>3, <1>4 DEF RowInv

\* The object of poll t is the one of the cache, and no other poll has one.
LEMMA HeldIsMem ==
  ASSUME RuntimeTyped, RowInv, NEW t \in Tick, task[t].at \in HoldingStep
  PROVE  task[t].holds = "entry" /\ Held(t) = mem /\ mem \in ChairMem
BY DEF RuntimeTyped, TasksTyped, Holds, MemTyped, RowInv, TaskTracks, Held

LEMMA ReplaceIsSet ==
  ASSUME RuntimeTyped, RowInv, NEW t \in Tick \cup {Boot}, NEW m, NEW k, Replace(m, t, k),
         t = Boot \/ Turn(t), t = Boot => \A u \in Tick : task[u].at \notin HoldingStep
  PROVE  mem' = m /\ task' = [task EXCEPT ![t] = k]
<1>1. \A u \in (Tick \cup {Boot}) \ {t} : task[u].holds # "entry"
  <2>1. ASSUME NEW u \in (Tick \cup {Boot}) \ {t} PROVE task[u].at \notin HoldingStep
    <3>1. CASE u = Boot
      BY <3>1 DEF RowInv, OneAtWork, HoldingStep
    <3>2. CASE u # Boot
      BY <3>2, OthersAreDue DEF HoldingStep
    <3> QED
      BY <3>1, <3>2
  <2> QED
    BY <2>1 DEF RuntimeTyped, TasksTyped, Holds
<1>2. DOMAIN task = Tick \cup {Boot} /\ task = [u \in DOMAIN task |-> task[u]]
  BY DEF RuntimeTyped, TasksTyped
<1>3. \A u \in DOMAIN task : (IF u = t THEN k
                              ELSE IF task[u].holds = "entry"
                                   THEN [task[u] EXCEPT !.holds = "own", !.own = mem]
                                   ELSE task[u]) = IF u = t THEN k ELSE task[u]
  BY <1>1, <1>2
<1>4. task' = [u \in DOMAIN task |-> IF u = t THEN k ELSE task[u]]
  BY <1>3 DEF Replace
<1> QED
  BY <1>2, <1>4 DEF Replace

LEMMA UpsertIsSet ==
  ASSUME RuntimeTyped, RowInv, NEW t \in Tick, task[t].at \in HoldingStep, NEW m, NEW k,
         upsertChairMem(t, m, k)
  PROVE  mem' = m /\ task' = [task EXCEPT ![t] = k]
BY HeldIsMem DEF upsertChairMem

LEMMA SetHeldIsSet ==
  ASSUME RuntimeTyped, RowInv, NEW t \in Tick, task[t].at \in HoldingStep, NEW m, NEW k,
         SetHeld(t, m, k)
  PROVE  mem' = m /\ task' = [task EXCEPT ![t] = [k EXCEPT !.holds = "entry", !.own = None]]
BY HeldIsMem DEF SetHeld

LEMMA EndedActives ==
  ASSUME RuntimeTyped, NEW s, NEW x \in {"COMPLETED", "CANCELLED", "UNCERTAIN"},
         session' = [session EXCEPT ![s].status = x]
  PROVE  Actives' = Actives \ {s}
<1>1. session \in [Session -> SessionRow]
  BY DEF RuntimeTyped, RowsTyped
<1>2. \A u \in Session : session'[u].status = IF u = s THEN x ELSE session[u].status
  BY <1>1 DEF SessionRow
<1> QED
  BY <1>2 DEF Actives

LEMMA SameActives == UNCHANGED session => Actives' = Actives
BY DEF Actives

\* With the rows of the chair, what RowTracksSession looks at stays.
LEMMA RowsStay ==
  ASSUME RowInv, UNCHANGED session, chair'.current = chair.current,
         chair'.status = chair.status, chair'.enabled = chair.enabled
  PROVE  Actives' = Actives /\ RowTracksSession' /\ chair'.enabled
<1>1. Actives' = Actives
  BY SameActives
<1> QED
  BY <1>1 DEF RowInv, RowTracksSession

LEMMA NoneRuns == Actives' = {} => RowTracksSession'
BY DEF RowTracksSession

LEMMA FromRowsTracks ==
  ASSUME RuntimeTyped, RowInv, NEW a \in Actives
  PROVE  ObjectTracks(FromRows, a)
<1>1. chair.current = a /\ chair.status \in Running /\ chair.enabled
  BY DEF RowInv, RowTracksSession, Running
<1>2. ActiveSession = a
  BY ActiveSessionTyped DEF RowInv, RowTracksSession
<1>3. a # None
  BY RuntimeAssumption DEF Actives
<1> QED
  BY <1>1, <1>2, <1>3 DEF ObjectTracks, FromRows

-----------------------------------------------------------------------------
(***************************************************************************)
(* Every step of a poll keeps RowInv.                                      *)
(***************************************************************************)
LEMMA RestTracks ==
  ASSUME NEW A
  PROVE  /\ TaskTracks(Rest, A) /\ AtLoad(Rest)
         /\ TaskTracks(Over, A) /\ TaskTracks([Rest EXCEPT !.at = "polling"], A)
BY DEF TaskTracks, AtLoad, LoadStep, Rest, Over

\* The poll comes to rest, or asks the cloud once the loading at the start is over.
LEMMA PollRests ==
  ASSUME RuntimeTyped, RowInv, NEW t \in Tick, Turn(t),
         \/ task' = [task EXCEPT ![t] = Rest]
         \/ task' = [task EXCEPT ![t] = [Rest EXCEPT !.at = "polling"]] /\ task[Boot].at = "over",
         Actives' \subseteq Actives, chair'.enabled, RowTracksSession', world' = world,
         UNCHANGED api, \A a \in Actives' : ObjectTracks(mem', a)
  PROVE  RowInv'
<1>1. api'.at \in QuietApi
  BY DEF RowInv
<1>2. CASE task' = [task EXCEPT ![t] = Rest]
  BY <1>1, <1>2, RestTracks, PollStep
<1>3. CASE task' = [task EXCEPT ![t] = [Rest EXCEPT !.at = "polling"]] /\ task[Boot].at = "over"
  BY <1>1, <1>3, RestTracks, PollStep
<1> QED
  BY <1>2, <1>3

LEMMA DueTurn ==
  ASSUME RowInv, NEW t \in Tick, Due(t)
  PROVE  Turn(t) /\ task[t].at = "due" /\ (LoadOver => task[Boot].at = "over")
BY DEF RowInv, Calm, Due, At, Turn, LoadOver

LEMMA ReadRowsTracks ==
  ASSUME RuntimeTyped, RowInv, NEW t \in Tick, Turn(t), task[t].at \in {"due", "fetched"},
         NEW why, ReadRows(t, why), why = "first" \/ task[Boot].at = "over",
         UNCHANGED <<world, session, mem, api>>,
         chair'.current = chair.current, chair'.status = chair.status,
         chair'.enabled = chair.enabled
  PROVE  RowInv'
<1> DEFINE k == [task[t] EXCEPT !.at = "hydrating", !.snap = FromRows, !.then = why]
<1>1. Carries(task[t]) /\ TaskTracks(task[t], Actives)
  BY DEF RuntimeTyped, TasksTyped, RowInv
<1>2. task' = [task EXCEPT ![t] = k]
  BY DEF ReadRows, Goto
<1>3. k.at = "hydrating" /\ k.snap = FromRows /\ k.then = why /\ k.holds = task[t].holds
  BY <1>1 DEF Carries, TaskField
<1> HIDE DEF k
<1>4. TaskTracks(k, Actives)
  BY <1>1, <1>3, FromRowsTracks DEF TaskTracks
<1>5. Actives' = Actives /\ RowTracksSession' /\ chair'.enabled
  BY RowsStay
<1>6. \A a \in Actives' : ObjectTracks(mem', a)
  BY <1>5, TracksHere
<1>7. task[Boot].at = "over" \/ AtLoad(k)
  BY <1>3 DEF AtLoad, LoadStep
<1>8. api'.at \in QuietApi
  BY DEF RowInv
<1> QED
  BY <1>2, <1>4, <1>5, <1>6, <1>7, <1>8, PollStep

LEMMA FlushedStays ==
  ASSUME RuntimeTyped
  PROVE  /\ Flushed.current = chair.current /\ Flushed.status = chair.status
         /\ Flushed.enabled = chair.enabled
<1>1. chair \in ChairRow
  BY DEF RuntimeTyped, RowsTyped
<1> QED
  BY <1>1 DEF Flushed, ChairRow

LEMMA loadsTrack ==
  ASSUME RuntimeTyped, RowInv, NEW t \in Tick,
         beginFirstHydrate(t) \/ flushDirtyLiveState(t) \/ beginReconcile(t)
  PROVE  RowInv'
<1>1. CASE beginFirstHydrate(t)
  BY <1>1, DueTurn, ReadRowsTracks DEF beginFirstHydrate
<1>2. CASE flushDirtyLiveState(t)
  <2>1. Actives' = Actives /\ RowTracksSession' /\ chair'.enabled
    BY <1>2, RowsStay, FlushedStays DEF flushDirtyLiveState
  <2>2. api'.at \in QuietApi /\ mem' = mem
    BY <1>2 DEF RowInv, flushDirtyLiveState
  <2> QED
    BY <1>2, <2>1, <2>2, QuietStep DEF flushDirtyLiveState
<1>3. CASE beginReconcile(t)
  BY <1>3, DueTurn, ReadRowsTracks, FlushedStays DEF beginReconcile
<1> QED
  BY <1>1, <1>2, <1>3

LEMMA CarryOverTracks ==
  ASSUME NEW prev, NEW next \in ChairMem \cup {None}, NEW a, ObjectTracks(next, a)
  PROVE  ObjectTracks(carryOverRuntimeState(prev, next), a)
<1>1. CASE prev = None \/ next = None
  BY <1>1 DEF carryOverRuntimeState
<1>2. CASE prev # None /\ next # None
  <2> DEFINE n == [next EXCEPT !.low = prev.low, !.online = prev.online,
                               !.blocked = prev.blocked /\ next.status = "IDLE"]
  <2>1. n.session = next.session /\ n.current = next.current /\ n.status = next.status
    BY <1>2 DEF ChairMem
  <2>2. carryOverRuntimeState(prev, next) = n
    BY <1>2 DEF carryOverRuntimeState
  <2> HIDE DEF n
  <2> QED
    BY <1>2, <2>1, <2>2 DEF ObjectTracks
<1> QED
  BY <1>1, <1>2

LEMMA hydrateTracks ==
  ASSUME RuntimeTyped, RowInv, NEW t \in Tick \cup {Boot}, hydrateRuntimeCache(t)
  PROVE  RowInv'
<1> DEFINE m == carryOverRuntimeState(mem, task[t].snap)
<1>1. PICK k \in AfterHydrate(t, m) : Replace(m, t, k)
  BY DEF hydrateRuntimeCache
<1>2. \A a \in Actives : ObjectTracks(m, a)
  <2>1. task[t].at = "hydrating" /\ task[t].snap \in ChairMem \cup {None}
    BY DEF hydrateRuntimeCache, At, RuntimeTyped, TasksTyped, Carries
  <2>2. \A a \in Actives : ObjectTracks(task[t].snap, a)
    BY <2>1 DEF RowInv, TaskTracks
  <2> QED
    BY <2>1, <2>2, CarryOverTracks
<1> HIDE DEF m
<1>3. Actives' = Actives /\ RowTracksSession' /\ chair'.enabled /\ api'.at \in QuietApi
  BY RowsStay DEF hydrateRuntimeCache, RowInv
<1>4. task[t].at = "hydrating" /\ Carries(task[t]) /\ TaskTracks(task[t], Actives)
  BY DEF hydrateRuntimeCache, At, RuntimeTyped, TasksTyped, RowInv
<1>5. CASE t = Boot
  <2>1. task[Boot].then = "boot" /\ \A u \in Tick : AtLoad(task[u])
    BY <1>4, <1>5 DEF RowInv, OneAtWork
  <2>2. k = Over
    BY <1>1, <1>5, <2>1 DEF AfterHydrate
  <2>3. mem' = m /\ task' = [task EXCEPT ![Boot] = Over]
    BY <1>1, <1>5, <2>1, <2>2, ReplaceIsSet DEF AtLoad, LoadStep, HoldingStep
  <2>4. task'[Boot] = Over /\ \A u \in Tick : task'[u] = task[u]
    BY <2>3, RuntimeAssumption DEF RuntimeTyped, TasksTyped
  <2>5. \A u \in Tick \cup {Boot} : TaskTracks(task'[u], Actives')
    BY <1>3, <2>4, RestTracks DEF RowInv
  <2>6. MemTracks'
    BY <1>2, <1>3, <2>3 DEF MemTracks
  <2>7. OneAtWork'
    BY <2>4 DEF RowInv, OneAtWork, Over
  <2>8. Calm'
    BY DEF RowInv, Calm, hydrateRuntimeCache
  <2> QED
    BY <1>3, <2>5, <2>6, <2>7, <2>8 DEF RowInv
<1>6. CASE t # Boot
  <2>1. Turn(t) /\ t \in Tick
    BY <1>4, <1>6 DEF Turn
  <2>2. mem' = m /\ task' = [task EXCEPT ![t] = k]
    BY <1>1, <1>6, <2>1, ReplaceIsSet
  <2>3. task[t].then = "first" \/ task[Boot].at = "over"
    BY <1>4, <2>1 DEF RowInv, OneAtWork, AtLoad
  <2>4. /\ k.holds # "own" /\ k.at \in {"over", "scanning", "fetched", "polling"}
        /\ task[t].then = "first" => k.at = "scanning" /\ k.then = "first"
    <3>1. CASE k = Over \/ k = [Rest EXCEPT !.at = "polling"]
      BY <1>1, <3>1 DEF AfterHydrate, Over, Rest
    <3>2. CASE k = [task[t] EXCEPT !.at = "scanning", !.snap = None]
      BY <1>4, <3>2 DEF Carries, TaskField, TaskTracks
    <3>3. CASE k = [task[t] EXCEPT !.at = "fetched", !.snap = None, !.then = None]
      <4>1. k.at = "fetched" /\ k.holds = task[t].holds
        BY <1>4, <3>3 DEF Carries, TaskField
      <4>2. task[t].then # "first"
        <5>1. ASSUME task[t].then = "first" PROVE k = [task[t] EXCEPT !.at = "scanning", !.snap = None]
          BY <1>1, <5>1 DEF AfterHydrate
        <5>2. [task[t] EXCEPT !.at = "scanning", !.snap = None].at = "scanning"
          BY <1>4 DEF Carries, TaskField
        <5> QED
          BY <4>1, <5>1, <5>2
      <4> QED
        BY <1>4, <4>1, <4>2 DEF TaskTracks
    <3> QED
      BY <1>1, <3>1, <3>2, <3>3 DEF AfterHydrate
  <2>5. TaskTracks(k, Actives') /\ (task[Boot].at = "over" \/ AtLoad(k))
    BY <2>3, <2>4 DEF TaskTracks, AtLoad, LoadStep
  <2>6. world' = world
    BY DEF hydrateRuntimeCache
  <2> QED
    BY <1>2, <1>3, <2>1, <2>2, <2>5, <2>6, PollStep
<1> QED
  BY <1>5, <1>6

LEMMA recoverChairSessionTracks ==
  ASSUME RuntimeTyped, RowInv, NEW t \in Tick, recoverChairSession(t)
  PROVE  RowInv'
<1>1. /\ task[t].at = "scanning" /\ Turn(t) /\ Carries(task[t]) /\ TaskTracks(task[t], Actives)
      /\ task[t].then = "first" \/ task[Boot].at = "over"
  BY DEF recoverChairSession, At, Turn, RuntimeTyped, TasksTyped, RowInv, OneAtWork, AtLoad
<1>2. /\ Actives' = Actives /\ RowTracksSession' /\ chair'.enabled /\ world' = world
      /\ UNCHANGED api /\ api'.at \in QuietApi
  BY RowsStay DEF recoverChairSession, RowInv
<1>3. \A a \in Actives' : ObjectTracks(mem', a)
  BY <1>1, <1>2, TracksHere DEF recoverChairSession
<1>4. CASE Goto(t, AfterRecovery(t))
  BY <1>1, <1>2, <1>3, <1>4, PollRests DEF Goto, AfterRecovery
<1>5. ASSUME NEW x \in {"recovering", "reviewing"},
             Goto(t, [task[t] EXCEPT !.at = x, !.session = ActiveSession])
      PROVE  RowInv'
  <2> DEFINE k == [task[t] EXCEPT !.at = x, !.session = ActiveSession]
  <2>1. k.at = x /\ k.session = ActiveSession /\ k.holds = task[t].holds /\ k.then = task[t].then
    BY <1>1 DEF Carries, TaskField
  <2>2. task' = [task EXCEPT ![t] = k]
    BY <1>5 DEF Goto
  <2> HIDE DEF k
  <2>3. \A a \in Actives : a = ActiveSession
    BY ActiveSessionTyped DEF RowInv, RowTracksSession
  <2>4. TaskTracks(k, Actives')
    BY <1>1, <1>2, <2>1, <2>3 DEF TaskTracks
  <2>5. task[Boot].at = "over" \/ AtLoad(k)
    BY <1>1, <2>1 DEF AtLoad, LoadStep
  <2> QED
    BY <1>1, <1>2, <1>3, <2>2, <2>4, <2>5, PollStep
<1>6. \/ Goto(t, AfterRecovery(t))
      \/ \E x \in {"recovering", "reviewing"} :
           Goto(t, [task[t] EXCEPT !.at = x, !.session = ActiveSession])
  <2>1. CASE ActiveSession = None
    BY <2>1 DEF recoverChairSession
  <2>2. CASE ActiveSession # None
    <3>1. PICK aged \in BOOLEAN :
            LET decision == evaluateStaleSessionRecovery(ActiveSession, aged)
            IN  Goto(t, IF decision = "none" THEN AfterRecovery(t)
                        ELSE [task[t] EXCEPT !.at = IF decision = "finalize" THEN "recovering"
                                                    ELSE "reviewing",
                                             !.session = ActiveSession])
      BY <2>2 DEF recoverChairSession
    <3> QED
      BY <3>1
  <2> QED
    BY <2>1, <2>2
<1> QED
  BY <1>4, <1>5, <1>6

\* The session that runs, if any, is ended with its chair.
LEMMA RecoveryEnds ==
  ASSUME RuntimeTyped, RowInv, NEW s, \A a \in Actives : a = s,
         Finalized(s) \/ markSessionNeedsReview(s)
  PROVE  Actives' = {} /\ RowTracksSession' /\ chair'.enabled
<1>1. Actives' = Actives \ {s}
  BY EndedActives DEF Finalized, markSessionNeedsReview
<1>2. chair'.enabled
  <2>1. chair \in ChairRow /\ chair.enabled
    BY DEF RuntimeTyped, RowsTyped, RowInv
  <2> QED
    BY <2>1 DEF Finalized, markSessionNeedsReview, ChairRow
<1> QED
  BY <1>1, <1>2, NoneRuns

LEMMA applyRecoveryDecisionTracks ==
  ASSUME RuntimeTyped, RowInv, NEW t \in Tick, applyRecoveryDecision(t)
  PROVE  RowInv'
<1>1. /\ task[t].at \in {"recovering", "reviewing"} /\ Turn(t) /\ Carries(task[t])
      /\ TaskTracks(task[t], Actives)
      /\ task[t].then = "first" \/ task[Boot].at = "over"
  BY DEF applyRecoveryDecision, At, Turn, RuntimeTyped, TasksTyped, RowInv, OneAtWork, AtLoad
<1>2. Actives' = {} /\ RowTracksSession' /\ chair'.enabled
  <2>1. \A a \in Actives : a = task[t].session
    BY <1>1 DEF TaskTracks
  <2> QED
    BY <2>1, RecoveryEnds DEF applyRecoveryDecision
<1>3. world' = world /\ UNCHANGED api /\ api'.at \in QuietApi
  BY DEF applyRecoveryDecision, RowInv
<1>4. CASE Goto(t, [task[t] EXCEPT !.at = "forgetting"])
  <2> DEFINE k == [task[t] EXCEPT !.at = "forgetting"]
  <2>1. k.at = "forgetting" /\ k.holds = task[t].holds /\ k.then = task[t].then
    BY <1>1 DEF Carries, TaskField
  <2>2. task' = [task EXCEPT ![t] = k]
    BY <1>4 DEF Goto
  <2> HIDE DEF k
  <2>3. TaskTracks(k, Actives') /\ (task[Boot].at = "over" \/ AtLoad(k))
    BY <1>1, <1>2, <2>1 DEF TaskTracks, AtLoad, LoadStep
  <2> QED
    BY <1>1, <1>2, <1>3, <2>2, <2>3, PollStep
<1>5. CASE Goto(t, Rest)
  BY <1>1, <1>2, <1>3, <1>5, PollRests DEF Goto
<1> QED
  BY <1>4, <1>5 DEF applyRecoveryDecision, RecoveryFailed

LEMMA forgetRecoveredTracks ==
  ASSUME RuntimeTyped, RowInv, NEW t \in Tick, forgetRecovered(t)
  PROVE  RowInv'
<1>1. /\ task[t].at = "forgetting" /\ Turn(t) /\ Actives = {}
      /\ task[t].then = "first" \/ task[Boot].at = "over"
  BY DEF forgetRecovered, At, Turn, RowInv, TaskTracks, OneAtWork, AtLoad
<1>2. Actives' = Actives /\ RowTracksSession' /\ chair'.enabled
  BY RowsStay DEF forgetRecovered
<1> QED
  BY <1>1, <1>2, PollRests DEF forgetRecovered, Goto, AfterRecovery

LEMMA pollTracks ==
  ASSUME RuntimeTyped, RowInv, NEW t \in Tick, poll(t)
  PROVE  RowInv'
<1>1. Turn(t) /\ task[Boot].at = "over" /\ task[t].at # "created"
  BY DueTurn DEF poll, At, Turn, RowInv, Calm, LoadOver
<1>2. PICK reading \in [online: {TRUE}, power: Power] \cup [online: {FALSE}, power: {"low"}] :
        Goto(t, [Rest EXCEPT !.at = "fetched", !.online = reading.online, !.power = reading.power])
  BY DEF poll
<1> DEFINE k == [Rest EXCEPT !.at = "fetched", !.online = reading.online, !.power = reading.power]
<1>3. k.at = "fetched" /\ k.holds = "nothing"
  BY DEF Rest
<1>4. task' = [task EXCEPT ![t] = k]
  BY <1>2 DEF Goto
<1> HIDE DEF k
<1>5. TaskTracks(k, Actives')
  BY <1>3 DEF TaskTracks
<1>6. /\ Actives' = Actives /\ RowTracksSession' /\ chair'.enabled /\ world' = world
      /\ api'.at \in QuietApi
  BY RowsStay DEF poll, RowInv
<1>7. \A a \in Actives' : ObjectTracks(mem', a)
  BY <1>1, <1>6, TracksHere DEF poll
<1> QED
  BY <1>1, <1>4, <1>5, <1>6, <1>7, PollStep

-----------------------------------------------------------------------------
(***************************************************************************)
(* Readings: the object of the cache and what the poll goes on with.       *)
(***************************************************************************)
LEMMA ProcessTracks ==
  ASSUME RuntimeTyped, RowInv, NEW t \in Tick, task[t].at = "fetched", NEW m, NEW k,
         Process(t, m, k), TaskTracks(k, Actives), \A a \in Actives : ObjectTracks(m, a)
  PROVE  RowInv'
<1>1. Turn(t) /\ task[Boot].at = "over"
  BY BootIsOver DEF Turn, LoadStep
<1>2. /\ Actives' = Actives /\ RowTracksSession' /\ chair'.enabled /\ world' = world
      /\ api'.at \in QuietApi
  BY RowsStay DEF Process, RowInv
<1>3. task' = [task EXCEPT ![t] = k] /\ mem' = m
  BY DEF Process, Goto
<1> QED
  BY <1>1, <1>2, <1>3, PollStep

\* The object a poll decides on: what it says of the session that runs.
LEMMA DecidedTracks ==
  ASSUME RuntimeTyped, RowInv, NEW t \in Tick, NEW kinds, Decides(t, kinds)
  PROVE  /\ task[t].at = "fetched" /\ mem \in ChairMem /\ mem # None
         /\ \A a \in Actives : mem.session = a /\ mem.current = a /\ mem.status \in Running
<1>1. task[t].at = "fetched" /\ mem # None /\ mem \in ChairMem
  BY DecidesOnMem DEF Decides, At
<1>2. \A a \in Actives : ObjectTracks(mem, a)
  BY <1>1, TracksHere DEF Turn
<1> QED
  BY <1>1, <1>2 DEF ObjectTracks

LEMMA SampledStays ==
  ASSUME NEW t, mem \in ChairMem
  PROVE  /\ Sampled(t) \in ChairMem
         /\ Sampled(t).session = mem.session /\ Sampled(t).current = mem.current
         /\ Sampled(t).status = mem.status
<1>1. Sampled(t) \in ChairMem
  BY SampledTyped
<1>2. /\ Sampled(t).session = mem.session /\ Sampled(t).current = mem.current
      /\ Sampled(t).status = mem.status
  BY DEF Sampled, ChairMem
<1> QED
  BY <1>1, <1>2

LEMMA WritingTracks ==
  ASSUME NEW w, NEW A, "enabled" \notin DOMAIN w, \A a \in A : WriteTracks(w, a)
  PROVE  TaskTracks(Writing(w), A)
BY DEF Writing, Holding, Rest, TaskTracks

LEMMA readingsTrack ==
  ASSUME RuntimeTyped, RowInv, NEW t \in Tick,
         unknownChair(t) \/ disabledChair(t) \/ sampleOnly(t)
  PROVE  RowInv'
<1>1. task[t].at = "fetched" /\ Turn(t) /\ task[Boot].at = "over"
  BY BootIsOver DEF unknownChair, disabledChair, sampleOnly, Decides, At, Turn, LoadStep
<1>2. \A a \in Actives : ObjectTracks(mem, a)
  BY <1>1, TracksHere
<1>3. CASE unknownChair(t)
  <2>1. /\ Actives' = Actives /\ RowTracksSession' /\ chair'.enabled
        /\ UNCHANGED <<world, chair, session, mem, api>>
    BY <1>3, RowsStay DEF unknownChair
  <2>2. CASE Goto(t, Rest)
    BY <1>1, <1>2, <2>1, <2>2, PollRests DEF Goto
  <2>3. CASE ReadRows(t, "lookup")
    BY <1>1, <2>1, <2>3, ReadRowsTracks
  <2> QED
    BY <1>3, <2>2, <2>3 DEF unknownChair
<1>4. CASE disabledChair(t)
  BY <1>1, <1>2, <1>4, RestTracks, ProcessTracks DEF disabledChair
<1>5. CASE sampleOnly(t)
  <2>1. mem \in ChairMem
    BY <1>5 DEF sampleOnly, Decides, RuntimeTyped, MemTyped
  <2>2. \A a \in Actives : ObjectTracks(Sampled(t), a)
    BY <1>2, <2>1, SampledStays, MemAssumption DEF ObjectTracks
  <2> QED
    BY <1>1, <1>5, <2>2, RestTracks, ProcessTracks DEF sampleOnly
<1> QED
  BY <1>3, <1>4, <1>5

LEMMA startsTrack ==
  ASSUME RuntimeTyped, RowInv, NEW t \in Tick,
         idleToMaybeActive(t) \/ maybeActiveToIdle(t) \/ beginStart(t)
  PROVE  RowInv'
<1>1. /\ mem \in ChairMem /\ mem.status \in {"IDLE", "MAYBE_ACTIVE"} /\ Actives = {}
      /\ task[t].at = "fetched"
  <2>1. \/ Decides(t, {"IDLE_TO_MAYBE_ACTIVE"}) \/ Decides(t, {"MAYBE_ACTIVE_TO_IDLE"})
        \/ Decides(t, {"MAYBE_ACTIVE_TO_ACTIVE"})
    BY DEF idleToMaybeActive, maybeActiveToIdle, beginStart
  <2>2. mem.status \in {"IDLE", "MAYBE_ACTIVE"}
    <3>1. mem.status \in Status /\ task[t].online \in BOOLEAN
      BY <2>1, DecidedTracks DEF ChairMem, RuntimeTyped, TasksTyped, Carries
    <3> QED
      BY <2>1, <3>1 DEF Decides, decideTransition, Status
  <2>3. mem.status \notin Running
    BY <2>2 DEF Running
  <2> QED
    BY <2>1, <2>2, <2>3, DecidedTracks
<1>2. TaskTracks(Holding("starting"), Actives)
  BY <1>1 DEF TaskTracks, Holding, Rest
<1>3. \A w : "enabled" \notin DOMAIN w => TaskTracks(Writing(w), Actives)
  BY <1>1, WritingTracks
<1>4. CASE idleToMaybeActive(t)
  <2> DEFINE w == [status |-> "MAYBE_ACTIVE", activeSince |-> "recent", low |-> FALSE, online |-> TRUE]
  <2>1. PICK m : Process(t, m, Writing(w))
    BY <1>4 DEF idleToMaybeActive
  <2>2. "enabled" \notin DOMAIN w
    OBVIOUS
  <2> HIDE DEF w
  <2> QED
    BY <1>1, <1>3, <2>1, <2>2, ProcessTracks
<1>5. CASE maybeActiveToIdle(t)
  <2> DEFINE w == [status |-> "IDLE", activeSince |-> None, low |-> task[t].power = "low", online |-> TRUE]
  <2>1. PICK m : Process(t, m, Writing(w))
    BY <1>5 DEF maybeActiveToIdle
  <2>2. "enabled" \notin DOMAIN w
    OBVIOUS
  <2> HIDE DEF w
  <2> QED
    BY <1>1, <1>3, <2>1, <2>2, ProcessTracks
<1>6. CASE beginStart(t)
  BY <1>1, <1>2, <1>6, ProcessTracks DEF beginStart
<1> QED
  BY <1>4, <1>5, <1>6

LEMMA endsTrack ==
  ASSUME RuntimeTyped, RowInv, NEW t \in Tick,
         activeToMaybeFinished(t) \/ maybeFinishedToActive(t) \/ beginEnd(t)
  PROVE  RowInv'
<1>1. /\ mem \in ChairMem /\ mem # None /\ task[t].at = "fetched"
      /\ \A a \in Actives : mem.session = a /\ mem.current = a /\ mem.status \in Running
  BY DecidedTracks DEF activeToMaybeFinished, maybeFinishedToActive, beginEnd
<1>2. mem.session = None => Actives = {}
  BY <1>1, RuntimeAssumption DEF Actives
<1>3. /\ Sampled(t) \in ChairMem /\ Sampled(t).session = mem.session
      /\ Sampled(t).current = mem.current /\ Sampled(t).status = mem.status
  BY <1>1, SampledStays
<1>4. CASE activeToMaybeFinished(t)
  <2>1. CASE mem.session = None
    <3> DEFINE w == [status |-> "IDLE", current |-> None]
    <3>1. PICK m : Process(t, m, Writing(w))
      BY <1>4, <2>1 DEF activeToMaybeFinished
    <3>2. "enabled" \notin DOMAIN w
      OBVIOUS
    <3> HIDE DEF w
    <3>3. TaskTracks(Writing(w), Actives)
      BY <1>2, <2>1, <3>2, WritingTracks
    <3> QED
      BY <1>1, <1>2, <2>1, <3>1, <3>3, ProcessTracks
  <2>2. CASE mem.session # None
    <3> DEFINE m == [Sampled(t) EXCEPT !.status = "MAYBE_FINISHED", !.since = "recent"]
               w == [status |-> "MAYBE_FINISHED", since |-> "recent", low |-> TRUE, online |-> TRUE]
               k == [Writing(w) EXCEPT !.session = mem.session]
    <3>1. Process(t, m, k)
      BY <1>4, <2>2 DEF activeToMaybeFinished
    <3>2. m.session = mem.session /\ m.current = mem.current /\ m.status = "MAYBE_FINISHED"
      BY <1>3 DEF ChairMem
    <3>3. (\A a \in Actives : WriteTracks(w, a)) /\ "enabled" \notin DOMAIN w
      BY DEF WriteTracks, Running
    <3> HIDE DEF m, w
    <3>4. TaskTracks(k, Actives)
      BY <3>3 DEF Writing, Holding, Rest, TaskTracks
    <3> HIDE DEF k
    <3> QED
      BY <1>1, <3>1, <3>2, <3>4, ProcessTracks DEF ObjectTracks, Running
  <2> QED
    BY <2>1, <2>2
<1>5. CASE maybeFinishedToActive(t)
  <2> DEFINE m == [Sampled(t) EXCEPT !.status = "ACTIVE", !.since = None]
             w == [status |-> "ACTIVE", since |-> None, low |-> FALSE, online |-> TRUE]
  <2>1. Process(t, m, Writing(w))
    BY <1>5 DEF maybeFinishedToActive
  <2>2. m.session = mem.session /\ m.current = mem.current /\ m.status = "ACTIVE"
    BY <1>3 DEF ChairMem
  <2>3. (\A a \in Actives : WriteTracks(w, a)) /\ "enabled" \notin DOMAIN w
    BY DEF WriteTracks, Running
  <2> HIDE DEF m, w
  <2>4. TaskTracks(Writing(w), Actives)
    BY <2>3, WritingTracks
  <2> QED
    BY <1>1, <2>1, <2>2, <2>4, ProcessTracks DEF ObjectTracks, Running
<1>6. CASE beginEnd(t)
  <2>1. \A a \in Actives : ObjectTracks(Sampled(t), a)
    BY <1>1, <1>3 DEF ObjectTracks
  <2>2. CASE mem.session = None
    <3>1. TaskTracks(Holding("seeking"), Actives)
      BY <1>2, <2>2 DEF TaskTracks, Holding, Rest
    <3> QED
      BY <1>1, <1>6, <2>1, <2>2, <3>1, ProcessTracks DEF beginEnd
  <2>3. CASE mem.session # None
    <3> DEFINE k == [Holding("ending") EXCEPT !.session = mem.session]
    <3>1. Process(t, Sampled(t), k)
      BY <1>6, <2>3 DEF beginEnd
    <3>2. k.at = "ending" /\ k.session = mem.session /\ k.holds = "entry"
      BY DEF Holding, Rest
    <3> HIDE DEF k
    <3>3. TaskTracks(k, Actives)
      BY <1>1, <3>2 DEF TaskTracks
    <3> QED
      BY <1>1, <2>1, <3>1, <3>3, ProcessTracks
  <2> QED
    BY <2>2, <2>3
<1> QED
  BY <1>4, <1>5, <1>6

LEMMA silenceTracks ==
  ASSUME RuntimeTyped, RowInv, NEW t \in Tick, handleOffline(t) \/ beginOnlineRecovery(t)
  PROVE  RowInv'
<1>1. /\ mem \in ChairMem /\ mem # None /\ task[t].at = "fetched"
      /\ \A a \in Actives : mem.session = a /\ mem.current = a /\ mem.status \in Running
  BY DecidedTracks DEF handleOffline, beginOnlineRecovery
<1>2. CASE handleOffline(t)
  <2> DEFINE m == [mem EXCEPT !.status = "OFFLINE", !.online = FALSE]
             w == [status |-> "OFFLINE", before |-> mem.status, online |-> FALSE]
             k == [Writing(w) EXCEPT !.then = "stop"]
  <2>1. Process(t, m, k)
    BY <1>2 DEF handleOffline
  <2>2. m.session = mem.session /\ m.current = mem.current /\ m.status = "OFFLINE"
    BY <1>1 DEF ChairMem
  <2>3. (\A a \in Actives : WriteTracks(w, a)) /\ "enabled" \notin DOMAIN w
    BY DEF WriteTracks, Running
  <2> HIDE DEF m, w
  <2>4. TaskTracks(k, Actives)
    BY <2>3 DEF Writing, Holding, Rest, TaskTracks
  <2> HIDE DEF k
  <2> QED
    BY <1>1, <2>1, <2>2, <2>4, ProcessTracks DEF ObjectTracks, Running
<1>3. CASE beginOnlineRecovery(t)
  <2> DEFINE m == [mem EXCEPT !.blocked = @ /\ task[t].power = "high"]
             k == [Holding("restoring") EXCEPT !.power = task[t].power, !.online = TRUE]
  <2>1. Process(t, m, k)
    BY <1>3 DEF beginOnlineRecovery
  <2>2. m.session = mem.session /\ m.current = mem.current /\ m.status = mem.status
    BY <1>1 DEF ChairMem
  <2> HIDE DEF m
  <2>3. TaskTracks(k, Actives)
    BY DEF Holding, Rest, TaskTracks
  <2> HIDE DEF k
  <2> QED
    BY <1>1, <2>1, <2>2, <2>3, ProcessTracks DEF ObjectTracks
<1> QED
  BY <1>2, <1>3

-----------------------------------------------------------------------------
(***************************************************************************)
(* The steps of a poll that holds the object of the cache.                 *)
(***************************************************************************)
LEMMA HoldingTurn ==
  ASSUME RowInv, NEW t \in Tick, task[t].at \in HoldingStep
  PROVE  Turn(t) /\ task[Boot].at = "over"
BY BootIsOver DEF Turn, HoldingStep, LoadStep

\* The poll goes on to a step at which no session runs or it knows the one that does.
LEMMA GoesOnTracks ==
  ASSUME RuntimeTyped, RowInv, NEW t \in Tick, task[t].at \in HoldingStep, NEW k,
         task' = [task EXCEPT ![t] = k], TaskTracks(k, Actives),
         UNCHANGED <<world, chair, session, api>>, \A a \in Actives : ObjectTracks(mem', a)
  PROVE  RowInv'
<1>1. Actives' = Actives /\ RowTracksSession' /\ chair'.enabled
  BY RowsStay
<1>2. api'.at \in QuietApi
  BY DEF RowInv
<1> QED
  BY <1>1, <1>2, HoldingTurn, PollStep

LEMMA HeldWrites ==
  ASSUME RuntimeTyped, RowInv, NEW t \in Tick, task[t].at \in HoldingStep, NEW m, NEW k,
         NEW w, NEW then, GoesToWrite(k, task[t], then, w), SetHeld(t, m, k),
         "enabled" \notin DOMAIN w,
         \A a \in Actives : WriteTracks(w, a) /\ ObjectTracks(m, a),
         UNCHANGED <<world, chair, session, api>>
  PROVE  RowInv'
<1> DEFINE n == [k EXCEPT !.holds = "entry", !.own = None]
<1>1. mem' = m /\ task' = [task EXCEPT ![t] = n]
  BY SetHeldIsSet
<1>2. n.at = "writing" /\ n.write = w /\ n.holds = "entry"
  BY DEF GoesToWrite, TaskField
<1> HIDE DEF n
<1>3. TaskTracks(n, Actives)
  BY <1>2 DEF TaskTracks
<1> QED
  BY <1>1, <1>3, GoesOnTracks


LEMMA DippedStays ==
  ASSUME RuntimeTyped, NEW t, writeRow(t)
  PROVE  Actives' = Actives
<1>1. session \in [Session -> SessionRow]
  BY DEF RuntimeTyped, RowsTyped
<1>2. CASE task[t].session = None
  BY <1>2, SameActives DEF writeRow
<1>3. CASE task[t].session # None
  <2> DEFINE s == task[t].session
  <2>1. \A u \in Session : session'[u].status = session[u].status
    BY <1>1, <1>3 DEF writeRow, SessionRow
  <2> QED
    BY <2>1 DEF Actives
<1> QED
  BY <1>2, <1>3

LEMMA writeRowTracks ==
  ASSUME RuntimeTyped, RowInv, NEW t \in Tick, writeRow(t)
  PROVE  RowInv'
<1>1. /\ task[t].at = "writing" /\ task[t].at \in HoldingStep /\ Carries(task[t])
      /\ TaskTracks(task[t], Actives)
  BY DEF writeRow, At, HoldingStep, RuntimeTyped, TasksTyped, RowInv
<1>2. Actives' = Actives /\ world' = world /\ UNCHANGED api
  BY DippedStays DEF writeRow
<1>3. chair'.enabled /\ RowTracksSession'
  <2> DEFINE w == task[t].write
  <2>1. chair' = With(chair, w) /\ DOMAIN chair = {"enabled", "status", "before", "current",
                                                    "activeSince", "since", "low", "online"}
    BY DEF writeRow, RuntimeTyped, RowsTyped, ChairRow
  <2>2. "enabled" \notin DOMAIN w /\ \A a \in Actives : WriteTracks(w, a)
    BY <1>1 DEF TaskTracks
  <2> HIDE DEF w
  <2>3. /\ chair'.enabled = chair.enabled
        /\ chair'.current = IF "current" \in DOMAIN w THEN w["current"] ELSE chair.current
        /\ chair'.status = IF "status" \in DOMAIN w THEN w["status"] ELSE chair.status
    BY <2>1, <2>2 DEF With
  <2> QED
    BY <1>2, <2>2, <2>3 DEF RowInv, RowTracksSession, WriteTracks, Running
<1>4. \A a \in Actives : ObjectTracks(mem, a)
  BY <1>1, HoldingTurn, TracksHere
<1>5. PICK k : /\ mem' = mem /\ task' = [task EXCEPT ![t] = k]
               /\ TaskTracks(k, Actives')
  <2>1. CASE task[t].then = "upsert"
    <3>1. upsertChairMem(t, Held(t), Rest)
      BY <2>1 DEF writeRow
    <3>2. mem' = Held(t) /\ task' = [task EXCEPT ![t] = Rest]
      BY <1>1, <3>1, UpsertIsSet
    <3> QED
      BY <1>1, <3>2, HeldIsMem, RestTracks
  <2>2. CASE task[t].then = "stop"
    <3>1. mem' = mem /\ task' = [task EXCEPT ![t] = Rest]
      BY <2>2 DEF writeRow, Goto
    <3> QED
      BY <3>1, RestTracks
  <2>3. CASE task[t].then = "again"
    <3> DEFINE n == [Rest EXCEPT !.at = "fetched", !.power = task[t].power, !.online = task[t].online]
    <3>1. mem' = mem /\ task' = [task EXCEPT ![t] = n]
      BY <2>3 DEF writeRow, Goto
    <3>2. n.at = "fetched" /\ n.holds = "nothing"
      BY DEF Rest
    <3> HIDE DEF n
    <3>3. TaskTracks(n, Actives')
      BY <3>2 DEF TaskTracks
    <3> QED
      BY <3>1, <3>3
  <2> QED
    BY <1>1, <2>1, <2>2, <2>3 DEF Carries, HoldingStep
<1>6. api'.at \in QuietApi
  BY <1>2 DEF RowInv
<1> QED
  BY <1>1, <1>2, <1>3, <1>4, <1>5, <1>6, HoldingTurn, PollStep

LEMMA handleOnlineRecoveryTracks ==
  ASSUME RuntimeTyped, RowInv, NEW t \in Tick, handleOnlineRecovery(t)
  PROVE  RowInv'
<1> DEFINE s == ActiveSession
           status == IF s = None THEN "IDLE"
                     ELSE IF chair.since # None \/ chair.before = "MAYBE_FINISHED"
                          THEN "MAYBE_FINISHED" ELSE "ACTIVE"
           since == IF status = "MAYBE_FINISHED" /\ chair.since # None
                    THEN chair.since ELSE Held(t).since
           m == [bindSessionMem(Held(t), s) EXCEPT !.status = status, !.online = TRUE,
                                                   !.since = since]
           late == IF status = "MAYBE_FINISHED" THEN since ELSE None
           w == [status |-> status, online |-> TRUE, before |-> None, current |-> s, since |-> late]
           k == [task[t] EXCEPT !.at = "writing", !.then = "again", !.write = w]
<1>1. task[t].at \in HoldingStep /\ Carries(task[t]) /\ Held(t) \in ChairMem
  BY HeldTyped DEF handleOnlineRecovery, At, HoldingStep, RuntimeTyped, TasksTyped
<1>2. SetHeld(t, m, k) /\ UNCHANGED <<world, chair, session, api>>
  BY DEF handleOnlineRecovery
<1>3. \A a \in Actives : s = a /\ status \in Running
  <2>1. \A a \in Actives : ActiveSession = a /\ a # None
    BY ActiveSessionTyped, RuntimeAssumption DEF RowInv, RowTracksSession, Actives
  <2> QED
    BY <2>1 DEF Running
<1> HIDE DEF s, status, since, late
<1>4. m.session = s /\ m.current = s /\ m.status = status
  BY <1>1 DEF bindSessionMem, ChairMem
<1>5. /\ DOMAIN w = {"status", "online", "before", "current", "since"}
      /\ w["status"] = status /\ w["current"] = s
  OBVIOUS
<1> HIDE DEF m, w
<1>6. GoesToWrite(k, task[t], "again", w)
  BY <1>1 DEF GoesToWrite, Carries, TaskField
<1> HIDE DEF k
<1>7. \A a \in Actives : WriteTracks(w, a) /\ ObjectTracks(m, a)
  BY <1>3, <1>4, <1>5 DEF WriteTracks, ObjectTracks
<1>8. "enabled" \notin DOMAIN w
  BY <1>5
<1> QED
  BY <1>1, <1>2, <1>6, <1>7, <1>8, HeldWrites

\* The steps at which no session runs.
LEMMA startingTracks ==
  ASSUME RuntimeTyped, RowInv, NEW t \in Tick,
         \/ adoptOrResolve(t) \/ resolveOpenShiftForSession(t)
         \/ blockOrCreate(t) \/ seekSession(t)
  PROVE  RowInv'
<1>1. /\ task[t].at \in {"starting", "resolving", "deciding", "seeking"}
      /\ task[t].at \in HoldingStep /\ Carries(task[t]) /\ TaskTracks(task[t], Actives)
  BY DEF adoptOrResolve, resolveOpenShiftForSession, blockOrCreate, seekSession, At, HoldingStep,
     RuntimeTyped, TasksTyped, RowInv
<1>2. Actives = {} /\ ActiveSession = None
  BY <1>1, ActiveSessionTyped DEF TaskTracks
<1>3. UNCHANGED <<world, chair, session, api>>
  BY DEF adoptOrResolve, resolveOpenShiftForSession, blockOrCreate, seekSession
<1>4. ASSUME NEW x, x \in {"resolving", "creating"}, Goto(t, [task[t] EXCEPT !.at = x])
      PROVE  RowInv'
  <2> DEFINE k == [task[t] EXCEPT !.at = x]
  <2>1. k.at = x /\ k.holds = task[t].holds
    BY <1>1 DEF Carries, TaskField
  <2>2. task' = [task EXCEPT ![t] = k]
    BY <1>4 DEF Goto
  <2> HIDE DEF k
  <2>3. TaskTracks(k, Actives)
    BY <1>1, <1>2, <1>4, <2>1 DEF TaskTracks
  <2> QED
    BY <1>1, <1>2, <1>3, <2>2, <2>3, GoesOnTracks
<1>5. ASSUME NEW m, NEW w, "enabled" \notin DOMAIN w,
             SetHeld(t, m, [task[t] EXCEPT !.at = "writing", !.write = w])
      PROVE  RowInv'
  <2> DEFINE k == [task[t] EXCEPT !.at = "writing", !.write = w]
  <2>1. GoesToWrite(k, task[t], task[t].then, w)
    BY <1>1 DEF GoesToWrite, Carries, TaskField
  <2>2. SetHeld(t, m, k)
    BY <1>5
  <2> HIDE DEF k
  <2> QED
    BY <1>1, <1>2, <1>3, <1>5, <2>1, <2>2, HeldWrites
<1>6. CASE adoptOrResolve(t)
  BY <1>2, <1>4, <1>6 DEF adoptOrResolve
<1>7. CASE resolveOpenShiftForSession(t)
  <2> DEFINE k == [task[t] EXCEPT !.at = "deciding", !.open = shiftOpen]
  <2>1. k.at = "deciding" /\ k.holds = task[t].holds
    BY <1>1 DEF Carries, TaskField
  <2>2. task' = [task EXCEPT ![t] = k]
    BY <1>7 DEF Goto, resolveOpenShiftForSession
  <2> HIDE DEF k
  <2>3. TaskTracks(k, Actives)
    BY <1>1, <1>2, <2>1 DEF TaskTracks
  <2> QED
    BY <1>1, <1>2, <1>3, <2>2, <2>3, GoesOnTracks
<1>8. CASE blockOrCreate(t)
  <2>1. CASE world.selfStart /\ ~task[t].open
    <3> DEFINE m == [Held(t) EXCEPT !.status = "IDLE", !.activeSince = None, !.blocked = TRUE]
               w == [status |-> "IDLE", activeSince |-> None, low |-> FALSE, online |-> TRUE]
    <3>1. SetHeld(t, m, [task[t] EXCEPT !.at = "writing", !.write = w])
      BY <1>8, <2>1 DEF blockOrCreate
    <3>2. "enabled" \notin DOMAIN w
      OBVIOUS
    <3> HIDE DEF m, w
    <3> QED
      BY <1>5, <3>1, <3>2
  <2>2. CASE ~(world.selfStart /\ ~task[t].open)
    BY <1>4, <1>8, <2>2 DEF blockOrCreate
  <2> QED
    BY <2>1, <2>2
<1>9. CASE seekSession(t)
  <2> DEFINE m == [Held(t) EXCEPT !.status = "IDLE", !.current = None, !.since = None]
             w == [status |-> "IDLE", current |-> None, since |-> None]
  <2>1. {s \in Actives : Held(t).current \in {None, s}} = {}
    BY <1>2
  <2>2. SetHeld(t, m, [task[t] EXCEPT !.at = "writing", !.write = w])
    BY <1>9, <2>1 DEF seekSession
  <2>3. "enabled" \notin DOMAIN w
    OBVIOUS
  <2> HIDE DEF m, w
  <2> QED
    BY <1>5, <2>2, <2>3
<1> QED
  BY <1>6, <1>7, <1>8, <1>9

LEMMA createSessionTracks ==
  ASSUME RuntimeTyped, RowInv, NEW t \in Tick, createSession(t)
  PROVE  RowInv'
<1>1. /\ task[t].at = "creating" /\ task[t].at \in HoldingStep /\ Carries(task[t])
      /\ Actives = {} /\ Turn(t) /\ task[Boot].at = "over" /\ task[t].holds # "own"
  BY HoldingTurn DEF createSession, At, HoldingStep, RuntimeTyped, TasksTyped, RowInv, TaskTracks
<1>2. mem' = mem /\ world' = world /\ UNCHANGED api /\ api'.at \in QuietApi
  BY DEF createSession, RowInv
<1>3. ASSUME NEW s \in Session, Started(s, task[t].open),
             Goto(t, [task[t] EXCEPT !.at = "created", !.session = s])
      PROVE  RowInv'
  <2> DEFINE k == [task[t] EXCEPT !.at = "created", !.session = s]
  <2>1. k.at = "created" /\ k.session = s /\ k.holds # "own"
    BY <1>1 DEF Carries, TaskField
  <2>2. task' = [task EXCEPT ![t] = k]
    BY <1>3 DEF Goto
  <2> HIDE DEF k
  <2>3. Actives' = {s}
    <3>1. session \in [Session -> SessionRow]
      BY DEF RuntimeTyped, RowsTyped
    <3>2. \A u \in Session : session'[u].status = IF u = s THEN "ACTIVE" ELSE session[u].status
      BY <1>3, <3>1 DEF Started
    <3> QED
      BY <1>1, <3>2 DEF Actives
  <2>4. chair'.enabled /\ chair'.current = s /\ chair'.status = "ACTIVE"
    <3>1. chair \in ChairRow /\ chair.enabled
      BY DEF RuntimeTyped, RowsTyped, RowInv
    <3> QED
      BY <1>3, <3>1 DEF Started, ChairRow
  <2>5. RowTracksSession'
    BY <2>3, <2>4 DEF RowTracksSession
  <2>6. /\ task'[t] = k
        /\ \A u \in (Tick \cup {Boot}) \ {t} : task'[u] = task[u]
    BY <2>2 DEF RuntimeTyped, TasksTyped
  <2>7. \A u \in Tick \ {t} : task'[u].at = "due"
    BY <1>1, <2>6, OthersAreDue
  <2>8. Boot \notin Tick /\ task'[Boot].at = "over"
    BY <1>1, <2>6, RuntimeAssumption
  <2>9. \A u \in Tick \cup {Boot} : TaskTracks(task'[u], Actives')
    <3>1. TaskTracks(k, Actives')
      BY <2>1, <2>3 DEF TaskTracks
    <3>2. ASSUME NEW u \in (Tick \cup {Boot}) \ {t} PROVE TaskTracks(task'[u], Actives')
      <4>1. task'[u].at \in {"due", "over"} /\ task'[u].holds # "own"
        BY <2>6, <2>7, <2>8 DEF RowInv, TaskTracks
      <4> QED
        BY <4>1 DEF TaskTracks
    <3> QED
      BY <2>6, <3>1, <3>2
  <2>10. MemTracks'
    BY <2>1, <2>6 DEF MemTracks
  <2>11. OneAtWork'
    BY <2>7, <2>8 DEF OneAtWork
  <2>12. Calm'
    BY <1>2 DEF RowInv, Calm
  <2> QED
    BY <1>2, <2>4, <2>5, <2>9, <2>10, <2>11, <2>12 DEF RowInv
<1>4. CASE Goto(t, Rest) /\ UNCHANGED <<chair, session>>
  BY <1>1, <1>2, <1>4, RestTracks, GoesOnTracks DEF Goto
<1> QED
  BY <1>3, <1>4 DEF createSession

LEMMA bindCreatedTracks ==
  ASSUME RuntimeTyped, RowInv, NEW t \in Tick, bindCreated(t)
  PROVE  RowInv'
<1>1. /\ task[t].at \in HoldingStep /\ Held(t) \in ChairMem
      /\ \A a \in Actives : a = task[t].session
  BY HeldTyped DEF bindCreated, At, HoldingStep, RowInv, TaskTracks
<1> DEFINE m == [bindSessionMem(Held(t), task[t].session) EXCEPT !.status = "ACTIVE",
                                                                 !.activeSince = None]
<1>2. upsertChairMem(t, m, Rest)
  BY DEF bindCreated
<1>3. m.session = task[t].session /\ m.current = task[t].session /\ m.status = "ACTIVE"
  BY <1>1 DEF bindSessionMem, ChairMem
<1> HIDE DEF m
<1>4. mem' = m /\ task' = [task EXCEPT ![t] = Rest]
  BY <1>1, <1>2, UpsertIsSet
<1>5. \A a \in Actives : ObjectTracks(mem', a)
  BY <1>1, <1>3, <1>4 DEF ObjectTracks, Running
<1> QED
  BY <1>1, <1>4, <1>5, RestTracks, GoesOnTracks DEF bindCreated

LEMMA endingTracks ==
  ASSUME RuntimeTyped, RowInv, NEW t \in Tick, finalizeActiveSession(t) \/ clearEnded(t)
  PROVE  RowInv'
<1>1. /\ task[t].at \in {"ending", "ended"} /\ task[t].at \in HoldingStep /\ Carries(task[t])
      /\ Turn(t) /\ task[Boot].at = "over" /\ TaskTracks(task[t], Actives)
  BY HoldingTurn DEF finalizeActiveSession, clearEnded, At, HoldingStep, RuntimeTyped, TasksTyped,
     RowInv
<1>2. CASE clearEnded(t)
  <2>1. Actives = {}
    BY <1>1, <1>2 DEF clearEnded, At, TaskTracks
  <2>2. PICK m : upsertChairMem(t, m, Rest)
    BY <1>2 DEF clearEnded
  <2>3. task' = [task EXCEPT ![t] = Rest]
    BY <1>1, <2>2, UpsertIsSet
  <2> QED
    BY <1>1, <1>2, <2>1, <2>3, RestTracks, GoesOnTracks DEF clearEnded
<1>3. CASE finalizeActiveSession(t)
  <2>1. \A a \in Actives : a = task[t].session
    BY <1>1, <1>3 DEF finalizeActiveSession, At, TaskTracks
  <2>2. mem' = mem /\ world' = world /\ UNCHANGED api /\ api'.at \in QuietApi
    BY <1>3 DEF finalizeActiveSession, RowInv
  <2>3. CASE Finalized(task[t].session)
    <3>1. Actives' = {} /\ RowTracksSession' /\ chair'.enabled
      BY <2>1, <2>3, RecoveryEnds
    <3>2. CASE Goto(t, [task[t] EXCEPT !.at = "ended"])
      <4> DEFINE k == [task[t] EXCEPT !.at = "ended"]
      <4>1. k.at = "ended" /\ k.holds = task[t].holds
        BY <1>1 DEF Carries, TaskField
      <4>2. task' = [task EXCEPT ![t] = k]
        BY <3>2 DEF Goto
      <4> HIDE DEF k
      <4>3. TaskTracks(k, Actives')
        BY <1>1, <3>1, <4>1 DEF TaskTracks
      <4> QED
        BY <1>1, <2>2, <3>1, <4>2, <4>3, PollStep
    <3>3. CASE Goto(t, Rest)
      BY <1>1, <2>2, <3>1, <3>3, PollRests DEF Goto
    <3> QED
      BY <1>3, <3>2, <3>3 DEF finalizeActiveSession
  <2>4. CASE Goto(t, Rest) /\ UNCHANGED <<chair, session>>
    <3>1. \A a \in Actives : ObjectTracks(mem', a)
      <4>1. task[t].at # "created"
        BY <1>1
      <4> QED
        BY <1>1, <2>2, <4>1, TracksHere
    <3> QED
      BY <1>1, <2>2, <2>4, <3>1, RestTracks, GoesOnTracks DEF Goto
  <2> QED
    BY <1>3, <2>3, <2>4 DEF finalizeActiveSession
<1> QED
  BY <1>2, <1>3

-----------------------------------------------------------------------------
(***************************************************************************)
(* Handlers, failures, time and restarts.                                  *)
(***************************************************************************)
LEMMA ArchiveTracks ==
  ASSUME RuntimeTyped, RowInv, deleteSession
  PROVE  RowInv'
<1>1. Actives' = Actives \ {api.session}
  BY EndedActives DEF deleteSession
<1>2. chair \in ChairRow /\ chair.enabled /\ RowTracksSession
  BY DEF RuntimeTyped, RowsTyped, RowInv
<1>3. chair'.enabled /\ (chair.current # api.session => chair' = chair)
  BY <1>2 DEF deleteSession, ChairRow
<1>4. RowTracksSession'
  BY <1>1, <1>2, <1>3 DEF RowTracksSession
<1>5. api'.at \in QuietApi
  BY DEF deleteSession, Enter, ApiRest, QuietApi
<1> QED
  BY <1>1, <1>3, <1>4, <1>5, QuietStep DEF deleteSession

LEMMA HandlersTrack ==
  ASSUME RuntimeTyped, RowInv, Request \/ Respond \/ handlerFails
  PROVE  RowInv'
<1>1. CASE deleteSession
  BY <1>1, ArchiveTracks
<1>2. \/ deleteSession \/ beginDeleteSession \/ startAssistantShift \/ openShift
      \/ clearNoShiftStartBlocks \/ requestRuntimeReconcile \/ handlerFails
  BY DEF RowInv, Calm, QuietApi, Handle, Request, Respond, prepareChairForDisable, writeEnabled,
     beginCloseShift, recoverForHandler, forgetForHandler, checkStillActive, writeDisabled,
     syncChairDisabledInRuntime, syncChairEnabledInRuntime, closeShift
<1>3. CASE ~deleteSession
  <2>1. UNCHANGED <<world, chair, session, task>> /\ api'.at \in QuietApi
    BY <1>2, <1>3 DEF beginDeleteSession, startAssistantShift, openShift, clearNoShiftStartBlocks,
       requestRuntimeReconcile, handlerFails, Enter, EnterFor, ApiRest, QuietApi
  <2>2. Actives' = Actives /\ RowTracksSession' /\ chair'.enabled
    BY <2>1, RowsStay
  <2>3. \A a \in Actives' : ObjectTracks(mem, a) => ObjectTracks(mem', a)
    <3>1. CASE clearNoShiftStartBlocks
      <4>1. mem # None => /\ mem'.session = mem.session /\ mem'.current = mem.current
                          /\ mem'.status = mem.status
        BY <3>1 DEF clearNoShiftStartBlocks, RuntimeTyped, MemTyped, ChairMem
      <4>2. mem = None => mem' = None
        BY <3>1 DEF clearNoShiftStartBlocks
      <4> QED
        BY <4>1, <4>2 DEF ObjectTracks
    <3>2. CASE ~clearNoShiftStartBlocks
      BY <1>2, <1>3, <3>2 DEF beginDeleteSession, startAssistantShift, openShift,
         requestRuntimeReconcile, handlerFails
    <3> QED
      BY <3>1, <3>2
  <2> QED
    BY <2>1, <2>2, <2>3, QuietStep
<1> QED
  BY <1>1, <1>3

LEMMA FailuresTrack ==
  ASSUME RuntimeTyped, RowInv, NEW t \in Tick, databaseFails(t) \/ fetchFails(t)
  PROVE  RowInv'
<1>1. /\ Turn(t) /\ task[t].at # "created"
      /\ task[Boot].at = "over" \/ AtLoad(task[t])
  BY DEF databaseFails, fetchFails, At, Turn, RowInv, OneAtWork
<1>2. UNCHANGED <<world, chair, session, mem, api>>
  BY DEF databaseFails, fetchFails
<1>3. Actives' = Actives /\ RowTracksSession' /\ chair'.enabled
  BY <1>2, RowsStay
<1>4. \A a \in Actives' : ObjectTracks(mem', a)
  BY <1>1, <1>2, <1>3, TracksHere
<1>5. \/ Goto(t, Rest)
      \/ Goto(t, [Rest EXCEPT !.at = "polling"]) /\ task[Boot].at = "over"
      \/ Goto(t, Over)
  BY <1>1 DEF databaseFails, fetchFails, RecoveryFailed, AtLoad, At
<1>6. CASE Goto(t, Over)
  <2>1. task[Boot].at = "over"
    BY <1>1, <1>6 DEF databaseFails, fetchFails, RecoveryFailed, AtLoad, At, Over, Rest, Goto,
       RuntimeTyped, TasksTyped
  <2>2. api'.at \in QuietApi
    BY <1>2 DEF RowInv
  <2> QED
    BY <1>1, <1>2, <1>3, <1>4, <1>6, <2>1, <2>2, RestTracks, PollStep DEF Goto
<1> QED
  BY <1>1, <1>2, <1>3, <1>4, <1>5, <1>6, PollRests DEF Goto

LEMMA BootFails ==
  ASSUME RuntimeTyped, RowInv, databaseFails(Boot)
  PROVE  RowInv'
<1>1. task[Boot].at = "hydrating" /\ task[Boot].then = "boot"
  BY DEF RowInv, OneAtWork, databaseFails, At
<1>2. task' = [task EXCEPT ![Boot] = Over] /\ UNCHANGED <<world, chair, session, mem, api>>
  BY <1>1 DEF databaseFails, At, Goto
<1>3. Actives' = Actives /\ RowTracksSession' /\ chair'.enabled
  BY <1>2, RowsStay
<1>4. task'[Boot] = Over /\ \A u \in Tick : task'[u] = task[u]
  BY <1>2, RuntimeAssumption DEF RuntimeTyped, TasksTyped
<1>5. \A u \in Tick \cup {Boot} : TaskTracks(task'[u], Actives')
  BY <1>3, <1>4, RestTracks DEF RowInv
<1>6. MemTracks'
  BY <1>2, <1>3, <1>4 DEF RowInv, MemTracks
<1>7. OneAtWork'
  BY <1>4 DEF RowInv, OneAtWork, Over
<1>8. Calm' /\ api'.at \in QuietApi
  BY <1>2 DEF RowInv, Calm
<1> QED
  BY <1>3, <1>5, <1>6, <1>7, <1>8 DEF RowInv

LEMMA OlderTracks ==
  ASSUME NEW m \in ChairMem \cup {None}, NEW a, ObjectTracks(m, a)
  PROVE  ObjectTracks(OlderSince(m), a)
<1>1. CASE m = None
  BY <1>1 DEF OlderSince
<1>2. CASE m # None
  <2>1. DOMAIN m = {"enabled", "status", "current", "session", "activeSince", "since", "low",
                    "online", "blocked"}
    BY <1>2 DEF ChairMem
  <2>2. /\ OlderSince(m).session = m.session /\ OlderSince(m).current = m.current
        /\ OlderSince(m).status = m.status
    BY <1>2, <2>1 DEF OlderSince, Aging
  <2> QED
    BY <1>2, <2>2 DEF ObjectTracks
<1> QED
  BY <1>1, <1>2

LEMMA OlderWrite ==
  ASSUME NEW w
  PROVE  /\ "enabled" \notin DOMAIN w => "enabled" \notin DOMAIN Aging(w)
         /\ \A a : WriteTracks(w, a) => WriteTracks(Aging(w), a)
<1> DEFINE o == Aging(w)
<1>1. /\ DOMAIN o = DOMAIN w
      /\ \A c \in DOMAIN w : o[c] = IF c \in {"since", "activeSince"} THEN Older(w[c]) ELSE w[c]
  BY DEF Aging
<1> HIDE DEF o
<1>2. /\ "enabled" \notin DOMAIN w => "enabled" \notin DOMAIN o
      /\ \A a : WriteTracks(w, a) => WriteTracks(o, a)
  BY <1>1 DEF WriteTracks
<1> QED
  BY <1>2 DEF o

LEMMA timePassesTracks ==
  ASSUME RuntimeTyped, RowInv, timePasses
  PROVE  RowInv'
<1>1. chair \in ChairRow /\ chair.enabled
  BY DEF RuntimeTyped, RowsTyped, RowInv
<1>2. Actives' = Actives /\ RowTracksSession' /\ chair'.enabled
  <2>1. DOMAIN chair = {"enabled", "status", "before", "current", "activeSince", "since", "low",
                        "online"}
    BY <1>1 DEF ChairRow
  <2>2. /\ chair'.current = chair.current /\ chair'.status = chair.status
        /\ chair'.enabled = chair.enabled
    BY <2>1 DEF timePasses, Aging
  <2> QED
    BY <2>2, RowsStay DEF timePasses
<1>3. \A u \in Tick \cup {Boot} :
        /\ task'[u].at = task[u].at /\ task'[u].then = task[u].then
        /\ TaskTracks(task'[u], Actives')
  <2>1. ASSUME NEW u \in Tick \cup {Boot}
        PROVE  /\ task'[u].at = task[u].at /\ task'[u].then = task[u].then
               /\ TaskTracks(task'[u], Actives')
    <3> DEFINE k == task[u]
               n == [k EXCEPT !.own = OlderSince(k.own), !.snap = OlderSince(k.snap),
                              !.write = Aging(k.write)]
    <3>1. Carries(k) /\ TaskTracks(k, Actives)
      BY DEF RuntimeTyped, TasksTyped, RowInv
    <3>2. task'[u] = n
      BY DEF RuntimeTyped, TasksTyped, timePasses
    <3> HIDE DEF k
    <3>3. /\ n.snap = OlderSince(k.snap) /\ n.write = Aging(k.write)
          /\ \A f \in TaskField \ {"own", "snap", "write"} : n[f] = k[f]
      BY <3>1 DEF Carries, TaskField
    <3> HIDE DEF n
    <3>4. /\ n.at = k.at /\ n.then = k.then /\ n.holds = k.holds /\ n.session = k.session
      BY <3>3 DEF TaskField
    <3>5. TaskTracks(n, Actives)
      <4>1. k.at = "hydrating" => \A a \in Actives : ObjectTracks(n.snap, a)
        BY <3>1, <3>3, OlderTracks DEF TaskTracks, Carries
      <4>2. k.at = "writing" => /\ "enabled" \notin DOMAIN n.write
                                /\ \A a \in Actives : WriteTracks(n.write, a)
        BY <3>1, <3>3, OlderWrite DEF TaskTracks
      <4> QED
        BY <3>1, <3>4, <4>1, <4>2 DEF TaskTracks
    <3> QED
      BY <1>2, <3>2, <3>4, <3>5 DEF k
  <2> QED
    BY <2>1
<1>4. MemTracks'
  <2>1. ASSUME NEW a \in Actives, ObjectTracks(mem, a) PROVE ObjectTracks(mem', a)
    BY <2>1, OlderTracks DEF RuntimeTyped, MemTyped, timePasses
  <2> QED
    BY <1>2, <1>3, <2>1 DEF RowInv, MemTracks
<1>5. OneAtWork'
  BY <1>3 DEF RowInv, OneAtWork, AtLoad
<1>6. Calm' /\ api'.at \in QuietApi
  BY DEF RowInv, Calm, timePasses
<1> QED
  BY <1>2, <1>3, <1>4, <1>5, <1>6 DEF RowInv

LEMMA BootingTracks ==
  ASSUME NEW A, \A a \in A : ObjectTracks(FromRows, a)
  PROVE  /\ \A t \in Tick \cup {Boot} : TaskTracks(Booting[t], A)
         /\ \A t \in Tick : Booting[t] = Rest
         /\ Booting[Boot].at = "hydrating" /\ Booting[Boot].then = "boot"
<1>1. \A t \in Tick : Booting[t] = Rest
  BY RuntimeAssumption DEF Booting
<1>2. /\ Booting[Boot].at = "hydrating" /\ Booting[Boot].then = "boot"
      /\ Booting[Boot].snap = FromRows /\ Booting[Boot].holds = "nothing"
  BY DEF Booting, Rest
<1>3. TaskTracks(Booting[Boot], A)
  BY <1>2 DEF TaskTracks
<1> QED
  BY <1>1, <1>2, <1>3, RestTracks

LEMMA restartTracks ==
  ASSUME RuntimeTyped, RowInv, restart
  PROVE  RowInv'
<1>1. Actives' = Actives /\ RowTracksSession' /\ chair'.enabled
  BY RowsStay DEF restart
<1>2. /\ \A t \in Tick \cup {Boot} : TaskTracks(task'[t], Actives')
      /\ \A t \in Tick : task'[t] = Rest
      /\ task'[Boot].at = "hydrating" /\ task'[Boot].then = "boot"
  BY <1>1, BootingTracks, FromRowsTracks DEF restart
<1>3. MemTracks'
  BY DEF MemTracks, ObjectTracks, restart
<1>4. OneAtWork'
  BY <1>2, RestTracks DEF OneAtWork, Rest, AtLoad
<1>5. Calm' /\ api'.at \in QuietApi
  BY DEF RowInv, Calm, restart, ApiRest, QuietApi
<1> QED
  BY <1>1, <1>2, <1>3, <1>4, <1>5 DEF RowInv

LEMMA InitTracks == Init /\ Calm => RowInv
<1> SUFFICES ASSUME Init, Calm PROVE RowInv
  OBVIOUS
<1>1. Actives = {} /\ chair.enabled /\ RowTracksSession
  BY DEF Init, Actives, RowTracksSession
<1>2. /\ \A t \in Tick \cup {Boot} : TaskTracks(task[t], Actives)
      /\ \A t \in Tick : task[t] = Rest
      /\ task[Boot].at = "hydrating" /\ task[Boot].then = "boot"
  <2>1. task = Booting
    BY DEF Init
  <2>2. \A a \in Actives : ObjectTracks(FromRows, a)
    BY <1>1
  <2> QED
    BY <2>1, <2>2, BootingTracks
<1>3. MemTracks
  BY <1>1 DEF MemTracks
<1>4. OneAtWork
  BY <1>2, RestTracks DEF OneAtWork, Rest, AtLoad
<1>5. api.at \in QuietApi
  BY DEF Init, ApiRest, QuietApi
<1> QED
  BY <1>1, <1>2, <1>3, <1>4, <1>5 DEF RowInv

LEMMA WorldStays == [Next]_vars => world' = world
<1> SUFFICES ASSUME [Next]_vars PROVE world' = world
  OBVIOUS
<1>1. ASSUME NEW t, Reconciliation(t) PROVE world' = world
  BY <1>1 DEF Reconciliation, beginFirstHydrate, flushDirtyLiveState, beginReconcile,
     hydrateRuntimeCache, recoverChairSession, applyRecoveryDecision, forgetRecovered
<1>2. ASSUME NEW t, Reading(t) PROVE world' = world
  BY <1>2 DEF Reading, Process, unknownChair, disabledChair, sampleOnly, idleToMaybeActive,
     maybeActiveToIdle, activeToMaybeFinished, maybeFinishedToActive, handleOffline,
     beginOnlineRecovery, handleOnlineRecovery, writeRow
<1>3. ASSUME NEW t, StartOrEnd(t) PROVE world' = world
  BY <1>3 DEF StartOrEnd, Process, beginStart, adoptOrResolve, resolveOpenShiftForSession,
     blockOrCreate, createSession, bindCreated, beginEnd, seekSession, finalizeActiveSession,
     clearEnded
<1>4. ASSUME NEW t, poll(t) \/ databaseFails(t) \/ fetchFails(t) \/ hydrateRuntimeCache(t)
      PROVE  world' = world
  BY <1>4 DEF poll, databaseFails, fetchFails, hydrateRuntimeCache
<1>5. ASSUME Request PROVE world' = world
  BY <1>5 DEF Request, prepareChairForDisable, writeEnabled, beginDeleteSession,
     startAssistantShift, openShift, beginCloseShift
<1>6. ASSUME Respond PROVE world' = world
  BY <1>6 DEF Respond, recoverForHandler, forgetForHandler, checkStillActive, writeDisabled,
     syncChairDisabledInRuntime, syncChairEnabledInRuntime, deleteSession,
     clearNoShiftStartBlocks, closeShift, requestRuntimeReconcile
<1>7. ASSUME handlerFails \/ timePasses \/ restart PROVE world' = world
  BY <1>7 DEF handlerFails, timePasses, restart
<1>8. ASSUME UNCHANGED vars PROVE world' = world
  BY <1>8 DEF vars
<1> QED
  BY <1>1, <1>2, <1>3, <1>4, <1>5, <1>6, <1>7, <1>8 DEF Next, Work

LEMMA NextTracks == RuntimeTyped /\ RowInv /\ [Next]_vars => RowInv'
<1> SUFFICES ASSUME RuntimeTyped, RowInv, [Next]_vars PROVE RowInv'
  OBVIOUS
<1>1. ASSUME NEW t \in Tick, Reconciliation(t) PROVE RowInv'
  BY <1>1, loadsTrack, hydrateTracks, recoverChairSessionTracks, applyRecoveryDecisionTracks,
     forgetRecoveredTracks DEF Reconciliation
<1>2. ASSUME NEW t \in Tick, Reading(t) PROVE RowInv'
  BY <1>2, readingsTrack, startsTrack, endsTrack, silenceTracks, writeRowTracks,
     handleOnlineRecoveryTracks DEF Reading
<1>3. ASSUME NEW t \in Tick, StartOrEnd(t) PROVE RowInv'
  BY <1>3, startsTrack, endsTrack, startingTracks, createSessionTracks, bindCreatedTracks,
     endingTracks DEF StartOrEnd
<1>4. ASSUME NEW t \in Tick, Work(t) PROVE RowInv'
  BY <1>1, <1>2, <1>3, <1>4, pollTracks DEF Work
<1>5. ASSUME NEW t \in Tick, databaseFails(t) \/ fetchFails(t) PROVE RowInv'
  BY <1>5, FailuresTrack
<1>6. CASE hydrateRuntimeCache(Boot)
  BY <1>6, hydrateTracks
<1>7. CASE databaseFails(Boot)
  BY <1>7, BootFails
<1>8. CASE Request \/ Respond \/ handlerFails
  BY <1>8, HandlersTrack
<1>9. CASE timePasses
  BY <1>9, timePassesTracks
<1>10. CASE restart
  BY <1>10, restartTracks
<1>11. CASE UNCHANGED vars
  BY <1>11 DEF vars, RowInv, Calm, RowTracksSession, Actives, MemTracks, OneAtWork, AtLoad
<1> QED
  BY <1>4, <1>5, <1>6, <1>7, <1>8, <1>9, <1>10, <1>11 DEF Next

-----------------------------------------------------------------------------
(***************************************************************************)
(* The rows lead back to a running session, whatever fails between two     *)
(* steps and whenever the server restarts: the chair points to it, with a  *)
(* status from which a poll or a recovery ends it (chair-state.service.ts, *)
(* chair-runtime-cache.ts, session-stale-recovery.service.ts).  For a      *)
(* chair nobody disables, whose polls do not overlap.                      *)
(***************************************************************************)
THEOREM RowsLeadBack == Spec => []RowsLeadToSession
<1> DEFINE Inv == RuntimeTyped /\ (Calm => RowInv)
<1>1. Init => Inv
  BY InitTyped, InitTracks
<1>2. Inv /\ [Next]_vars => Inv'
  <2> SUFFICES ASSUME Inv, [Next]_vars PROVE Inv'
    OBVIOUS
  <2>1. RuntimeTyped'
    BY NextTyped
  <2>2. world' = world
    BY WorldStays
  <2>3. Calm' => Calm
    BY <2>2 DEF Calm
  <2> QED
    BY <2>1, <2>3, NextTracks
<1>3. Inv => RowsLeadToSession
  BY DEF RowsLeadToSession, RowInv
<1> HIDE DEF Inv
<1> QED
  BY <1>1, <1>2, <1>3, PTL DEF Spec

-----------------------------------------------------------------------------
(***************************************************************************)
(* Where the server keeps running, the object of the cache says what the   *)
(* rows say, and a session starts and ends when the readings have said so  *)
(* for the whole delay.  Two invariants, one per property, by the step of  *)
(* the poll whose turn it is:                                              *)
(*                                                                         *)
(*   - while no handler has left a request to be made or answered, the     *)
(*     object agrees with the rows, or with what the rows will be when the *)
(*     columns in hand are written, and the rows about to be installed     *)
(*     agree with those of the database;                                   *)
(*   - always, the time stamps that a confirmation may use are no older    *)
(*     than the readings that have all been high, or low, except that of a *)
(*     low power when a reading in hand has just broken that off, and the  *)
(*     other statuses leave no such time stamp behind.                     *)
(*                                                                         *)
(* Both start from a loading at the start that finds an idle chair.        *)
(***************************************************************************)
Ready(m) == m # None /\ m.enabled

Agrees(m, c, a) ==
  /\ Ready(m)
  /\ m.session = a /\ m.status = c.status /\ m.current = c.current
  /\ m.status = "MAYBE_ACTIVE" => m.activeSince = c.activeSince
  /\ m.status = "MAYBE_FINISHED" => m.since = c.since

\* The row once poll k, if it is about to write, has written.
RowToBe(k, c) == IF k.at = "writing" THEN With(c, k.write) ELSE c

TaskAgrees(k, m, c, a, loaded) ==
  CASE k.at = "hydrating" -> Agrees(k.snap, c, a)
    [] k.at = "created" -> c.status = "ACTIVE" /\ c.current = a /\ k.session = a
    [] k.at \in {"forgetting", "ended"} -> c.status = "IDLE" /\ c.current = None
    [] k.at \in {"recovering", "reviewing"} -> TRUE
    [] OTHER -> loaded => Agrees(m, RowToBe(k, c), a)

\* No handler has changed rows since the cache was last asked to follow them.
Clean == ~requested /\ api.at \in {"idle", "archiving"}

\* A time stamp of this age, or none, is no older than readings of age x.
OldAs(age, x) == age = None \/ x = "elapsed" \/ (age = "recent" /\ x = "recent")

\* The statuses that have nothing to do with a low power.
Upright == {"IDLE", "MAYBE_ACTIVE", "ACTIVE"}

\* The poll is about to take the chair out of MAYBE_FINISHED.
Rising(k, m) ==
  /\ k.power # "low"
  /\ \/ k.at = "restoring"
     \/ k.at = "writing" /\ k.then = "again"
     \/ k.at = "fetched" /\ k.online /\ m.status = "MAYBE_FINISHED"

RowTimed(r, x, rising) ==
  /\ rising \/ OldAs(r.since, x.low)
  /\ r.status \in Upright => r.since = None
  /\ r.status = "MAYBE_ACTIVE" => OldAs(r.activeSince, x.high)

ObjectTimed(m, r, x, rising) ==
  /\ m.status \in Upright => r.since = None
  /\ m.status = "MAYBE_FINISHED" => rising \/ OldAs(m.since, x.low)
  /\ m.status = "OFFLINE" /\ r.before = "MAYBE_FINISHED" => rising \/ OldAs(m.since, x.low)
  /\ m.status = "MAYBE_ACTIVE" => OldAs(m.activeSince, x.high)
  /\ m.blocked => /\ m.status \in {"IDLE", "OFFLINE"} /\ r.since = None
                  /\ m.status = "OFFLINE" => r.before # "MAYBE_FINISHED"
  /\ r.status = "MAYBE_ACTIVE" => m.status = "MAYBE_ACTIVE"

SnapTimed(s, c, x) ==
  /\ s.status \in Upright => c.since = None
  /\ s.status \in {"MAYBE_FINISHED", "OFFLINE"} => OldAs(s.since, x.low)
  /\ s.status = "MAYBE_ACTIVE" => OldAs(s.activeSince, x.high)
  /\ c.status = "MAYBE_ACTIVE" => s.status = "MAYBE_ACTIVE"
  /\ ~s.blocked

StartStep == {"starting", "resolving", "deciding", "creating"}

StepTimed(k, m, c, x) ==
  /\ k.at = "hydrating" => SnapTimed(k.snap, c, x)
  /\ k.at \in StartStep => x.high = "elapsed"
  /\ k.at \in StartStep \cup {"created"} => m.status = "MAYBE_ACTIVE"
  /\ k.at \in StartStep \cup {"seeking"} => k.then = "upsert"
  /\ k.at = "created" => c.status # "MAYBE_ACTIVE"
  /\ k.at \in {"recovering", "ending"} => x.low = "elapsed"
  /\ k.at = "restoring" => k.online /\ m.status = "OFFLINE" /\ ~m.blocked
  /\ k.at = "writing" => "status" \in DOMAIN k.write
  /\ k.at = "writing" /\ k.then = "again" => k.online /\ m.status # "OFFLINE"
  /\ k.at \in {"forgetting", "ended"} => c.status = "IDLE" /\ c.since = None

TaskTimed(k, m, c, x) ==
  /\ RowTimed(RowToBe(k, c), x, Rising(k, m))
  /\ m # None => ObjectTimed(m, RowToBe(k, c), x, Rising(k, m))
  /\ StepTimed(k, m, c, x)

TaskReady(k, loaded) ==
  /\ k.at = "hydrating" => Ready(k.snap) /\ k.then \in {"first", "request", "timer"}
  /\ k.at \notin {"due", "hydrating"} => loaded

\* The chair is as it was when the server started.
Early ==
  /\ Actives = {}
  /\ chair.status = "IDLE" /\ chair.current = None /\ chair.since = None
  /\ Agrees(task[Boot].snap, chair, None) /\ ~task[Boot].snap.blocked
  /\ \A t \in Tick : task[t].at \in {"due", "hydrating", "scanning"}

SteadyInv ==
  /\ Steady
  /\ hydrated => Ready(mem)
  /\ task[Boot].at = "hydrating" => Early
  /\ \A t \in Tick : TaskReady(task[t], hydrated)
  /\ \A t \in Tick : Turn(t) => TaskTimed(task[t], mem, chair, streak)
  /\ Clean => \A t \in Tick : Turn(t) => TaskAgrees(task[t], mem, chair, ActiveSession, hydrated)

LEMMA PlainTimed ==
  ASSUME NEW k, k.at \notin {"restoring", "writing", "fetched"}, NEW m, NEW c, NEW x
  PROVE  TaskTimed(k, m, c, x) <=> /\ RowTimed(c, x, FALSE)
                                   /\ m # None => ObjectTimed(m, c, x, FALSE)
                                   /\ StepTimed(k, m, c, x)
<1>1. RowToBe(k, c) = c
  BY DEF RowToBe
<1>2. Rising(k, m) = FALSE
  BY DEF Rising
<1>3. /\ RowTimed(c, x, Rising(k, m)) <=> RowTimed(c, x, FALSE)
      /\ ObjectTimed(m, c, x, Rising(k, m)) <=> ObjectTimed(m, c, x, FALSE)
  BY <1>2 DEF RowTimed, ObjectTimed
<1> QED
  BY <1>1, <1>3 DEF TaskTimed

\* A poll at rest knows nothing of its own.
LEMMA DueAlike ==
  ASSUME NEW k, NEW n, k.at = "due", n.at = "due", NEW m, NEW c, NEW x, NEW a, NEW loaded
  PROVE  /\ TaskTimed(k, m, c, x) => TaskTimed(n, m, c, x)
         /\ TaskAgrees(k, m, c, a, loaded) => TaskAgrees(n, m, c, a, loaded)
<1>1. RowToBe(k, c) = c /\ RowToBe(n, c) = c
  BY DEF RowToBe
<1>2. ~Rising(k, m) /\ ~Rising(n, m)
  BY DEF Rising
<1>3. StepTimed(n, m, c, x)
  BY DEF StepTimed, StartStep
<1>4. TaskTimed(k, m, c, x) => TaskTimed(n, m, c, x)
  BY <1>1, <1>2, <1>3 DEF TaskTimed, RowTimed, ObjectTimed
<1>5. TaskAgrees(k, m, c, a, loaded) => TaskAgrees(n, m, c, a, loaded)
  BY <1>1 DEF TaskAgrees
<1> QED
  BY <1>4, <1>5

LEMMA SteadyStep ==
  ASSUME RuntimeTyped, RowInv, SteadyInv, NEW t \in Tick, NEW k, Turn(t),
         task' = [task EXCEPT ![t] = k], world' = world,
         hydrated => hydrated', hydrated' => Ready(mem'),
         task[Boot].at = "over" \/ Early',
         TaskReady(k, hydrated'), TaskTimed(k, mem', chair', streak'),
         Clean' => TaskAgrees(k, mem', chair', ActiveSession', hydrated')
  PROVE  SteadyInv'
<1>1. /\ task'[t] = k
      /\ \A u \in (Tick \cup {Boot}) \ {t} : task'[u] = task[u]
  BY DEF RuntimeTyped, TasksTyped
<1>2. Boot \notin Tick /\ task'[Boot] = task[Boot]
  BY <1>1, RuntimeAssumption
<1>3. \A u \in Tick \ {t} : task[u].at = "due" /\ task'[u] = task[u]
  BY <1>1, OthersAreDue
<1>4. ASSUME NEW u \in Tick, Turn(u)'
      PROVE  /\ TaskTimed(task'[u], mem', chair', streak')
             /\ Clean' => TaskAgrees(task'[u], mem', chair', ActiveSession', hydrated')
  <2>1. CASE u = t
    BY <1>1, <2>1
  <2>2. CASE u # t
    <3>1. task'[u].at = "due" /\ k.at = "due"
      BY <1>1, <1>3, <1>4, <2>2 DEF Turn
    <3> QED
      BY <3>1, DueAlike
  <2> QED
    BY <2>1, <2>2
<1>5. \A u \in Tick : TaskReady(task'[u], hydrated')
  BY <1>1, <1>3 DEF TaskReady
<1>6. Steady'
  BY DEF SteadyInv, Steady, Calm
<1>7. (task[Boot].at = "hydrating" => Early)'
  BY <1>2
<1> QED
  BY <1>4, <1>5, <1>6, <1>7 DEF SteadyInv

\* A step that moves no poll.
LEMMA SteadyQuiet ==
  ASSUME RuntimeTyped, RowInv, SteadyInv, UNCHANGED <<task, world, hydrated>>,
         hydrated => Ready(mem'), task[Boot].at = "hydrating" => Early',
         \A t \in Tick : Turn(t) =>
           /\ TaskTimed(task[t], mem', chair', streak')
           /\ Clean' => TaskAgrees(task[t], mem', chair', ActiveSession', hydrated)
  PROVE  SteadyInv'
<1>1. Steady'
  BY DEF SteadyInv, Steady, Calm
<1>2. \A t \in Tick : Turn(t)' => Turn(t)
  BY DEF Turn
<1>3. \A t \in Tick : TaskReady(task'[t], hydrated')
  BY DEF SteadyInv
<1> QED
  BY <1>1, <1>2, <1>3 DEF SteadyInv

LEMMA SameActiveSession == UNCHANGED session => ActiveSession' = ActiveSession
BY DEF ActiveSession, Actives

LEMMA WithFields ==
  ASSUME NEW c \in ChairRow, NEW w
  PROVE  \A f \in {"enabled", "status", "before", "current", "activeSince", "since", "low", "online"} :
           With(c, w)[f] = IF f \in DOMAIN w THEN w[f] ELSE c[f]
<1>1. DOMAIN c = {"enabled", "status", "before", "current", "activeSince", "since", "low", "online"}
  BY DEF ChairRow
<1> QED
  BY <1>1 DEF With

\* The readings that have all been high, or low, when one more is processed.
LEMMA ObservedAges ==
  ASSUME RuntimeTyped, NEW t, Observed(t)
  PROVE  /\ ~task[t].online => streak'.high = streak.high /\ streak'.low = streak.low
         /\ task[t].online /\ task[t].power = "high" =>
              /\ OldAs("recent", streak'.high)
              /\ \A a \in Age : OldAs(a, streak.high) => OldAs(a, streak'.high)
         /\ task[t].online /\ task[t].power = "low" =>
              /\ OldAs("recent", streak'.low)
              /\ \A a \in Age : OldAs(a, streak.low) => OldAs(a, streak'.low)
<1>1. streak \in [high: Age, low: Age, silent: BOOLEAN]
  BY DEF RuntimeTyped, ServerTyped
<1>2. CASE ~task[t].online
  BY <1>1, <1>2 DEF Observed
<1>3. CASE task[t].online
  <2>1. /\ streak'.high = Extended(streak.high, task[t].power = "high")
        /\ streak'.low = Extended(streak.low, task[t].power = "low")
    BY <1>3 DEF Observed
  <2>2. \A a \in Age : /\ OldAs("recent", Extended(a, TRUE))
                       /\ \A b \in Age : OldAs(b, a) => OldAs(b, Extended(a, TRUE))
    BY AgeAssumption DEF Age, OldAs, Extended
  <2> QED
    BY <1>1, <1>3, <2>1, <2>2
<1> QED
  BY <1>2, <1>3

-----------------------------------------------------------------------------
(***************************************************************************)
(* The rows are read and installed.                                        *)
(***************************************************************************)
LEMMA FromRowsSteady ==
  ASSUME RuntimeTyped, RowInv
  PROVE  /\ Agrees(FromRows, chair, ActiveSession) /\ FromRows # None
         /\ FromRows.since = chair.since /\ FromRows.activeSince = chair.activeSince
         /\ ~FromRows.blocked
<1>1. chair.enabled /\ RowTracksSession
  BY DEF RowInv
<1>2. FromRows \in ChairMem \cup {None}
  BY FromRowsTyped DEF RuntimeTyped
<1>3. chair.current # None \/ ActiveSession = None
  <2>1. ActiveSession # None => chair.current = ActiveSession
    BY <1>1, ActiveSessionTyped DEF RowTracksSession
  <2> QED
    BY <2>1
<1>4. FromRows \in ChairMem
  <2>1. /\ chair.status \in Status /\ chair.current \in Session \cup {None}
        /\ chair.activeSince \in Age /\ chair.since \in Age
        /\ chair.low \in BOOLEAN /\ chair.online \in BOOLEAN
    BY DEF RuntimeTyped, RowsTyped, ChairRow
  <2> QED
    BY <1>1, <2>1, ActiveSessionTyped DEF FromRows, ChairMem
<1>5. FromRows # None
  BY <1>4, MemAssumption
<1> QED
  BY <1>1, <1>3, <1>5 DEF FromRows, Agrees, Ready

\* What of a row counts here.
Alike(c, d) ==
  /\ d.status = c.status /\ d.before = c.before /\ d.current = c.current
  /\ d.activeSince = c.activeSince /\ d.since = c.since

LEMMA FlushedAlike ==
  ASSUME RuntimeTyped
  PROVE  Alike(chair, Flushed)
<1>1. chair \in ChairRow
  BY DEF RuntimeTyped, RowsTyped
<1> QED
  BY <1>1 DEF Alike, Flushed, ChairRow

LEMMA AlikeSteady ==
  ASSUME NEW k, k.at # "writing", NEW m, NEW c, NEW d, Alike(c, d), NEW x, NEW a, NEW loaded
  PROVE  /\ TaskTimed(k, m, c, x) => TaskTimed(k, m, d, x)
         /\ TaskAgrees(k, m, c, a, loaded) => TaskAgrees(k, m, d, a, loaded)
         /\ RowToBe(k, c) = c /\ RowToBe(k, d) = d
<1>1. RowToBe(k, c) = c /\ RowToBe(k, d) = d
  BY DEF RowToBe
<1>2. RowTimed(c, x, Rising(k, m)) => RowTimed(d, x, Rising(k, m))
  BY DEF RowTimed, Alike
<1>3. ObjectTimed(m, c, x, Rising(k, m)) => ObjectTimed(m, d, x, Rising(k, m))
  BY DEF ObjectTimed, Alike
<1>4. StepTimed(k, m, c, x) => StepTimed(k, m, d, x)
  BY DEF StepTimed, SnapTimed, Alike
<1>5. TaskAgrees(k, m, c, a, loaded) => TaskAgrees(k, m, d, a, loaded)
  BY <1>1 DEF TaskAgrees, Agrees, Alike
<1> QED
  BY <1>1, <1>2, <1>3, <1>4, <1>5 DEF TaskTimed

LEMMA ReadRowsSteady ==
  ASSUME RuntimeTyped, RowInv, SteadyInv, NEW t \in Tick, Turn(t), task[t].at = "due",
         NEW why \in {"first", "request", "timer"}, ReadRows(t, why),
         UNCHANGED <<world, session, mem, hydrated, streak>>, Alike(chair, chair')
  PROVE  SteadyInv'
<1> DEFINE k == [task[t] EXCEPT !.at = "hydrating", !.snap = FromRows, !.then = why]
<1>1. Carries(task[t]) /\ TaskTimed(task[t], mem, chair, streak)
  BY DEF RuntimeTyped, TasksTyped, SteadyInv
<1>2. k.at = "hydrating" /\ k.snap = FromRows /\ k.then = why
  BY <1>1 DEF Carries, TaskField
<1>3. task' = [task EXCEPT ![t] = k]
  BY DEF ReadRows, Goto
<1> HIDE DEF k
<1>4. /\ Agrees(FromRows, chair, ActiveSession) /\ FromRows # None
      /\ FromRows.since = chair.since /\ FromRows.activeSince = chair.activeSince
      /\ ~FromRows.blocked
  BY FromRowsSteady
<1>5. RowTimed(chair, streak, FALSE) /\ (mem # None => ObjectTimed(mem, chair, streak, FALSE))
  BY <1>1, PlainTimed
<1>6. StepTimed(k, mem, chair, streak)
  <2>1. SnapTimed(FromRows, chair, streak)
    BY <1>4, <1>5 DEF SnapTimed, RowTimed, Agrees
  <2> QED
    BY <1>2, <2>1 DEF StepTimed, StartStep
<1>7. TaskTimed(k, mem, chair, streak)
  BY <1>2, <1>5, <1>6, PlainTimed
<1>8. TaskTimed(k, mem', chair', streak')
  BY <1>2, <1>7, AlikeSteady
<1>9. TaskAgrees(k, mem', chair', ActiveSession', hydrated')
  <2>1. Agrees(FromRows, chair', ActiveSession')
    BY <1>4, SameActiveSession DEF Agrees, Alike
  <2> QED
    BY <1>2, <2>1 DEF TaskAgrees
<1>10. TaskReady(k, hydrated')
  BY <1>2, <1>4 DEF TaskReady, Agrees
<1>11. task[Boot].at = "over" \/ Early'
  <2>1. CASE task[Boot].at = "over"
    BY <2>1
  <2>2. CASE task[Boot].at # "over"
    <3>1. Early /\ task'[Boot] = task[Boot]
      BY <1>3, <2>2, RuntimeAssumption DEF RowInv, OneAtWork, SteadyInv, RuntimeTyped, TasksTyped
    <3>2. Actives' = Actives
      BY SameActives
    <3>3. \A u \in Tick : task'[u].at \in {"due", "hydrating", "scanning"}
      BY <1>2, <1>3, <3>1 DEF Early, RuntimeTyped, TasksTyped
    <3> QED
      BY <3>1, <3>2, <3>3 DEF Early, Alike, Agrees
  <2> QED
    BY <2>1, <2>2
<1> QED
  BY <1>3, <1>8, <1>9, <1>10, <1>11, SteadyStep DEF SteadyInv

LEMMA readsSteady ==
  ASSUME RuntimeTyped, RowInv, SteadyInv, NEW t \in Tick,
         beginFirstHydrate(t) \/ beginReconcile(t) \/ flushDirtyLiveState(t)
  PROVE  SteadyInv'
<1>1. CASE beginFirstHydrate(t)
  <2>1. Turn(t) /\ task[t].at = "due" /\ ReadRows(t, "first") /\ Alike(chair, chair')
    BY <1>1, DueTurn DEF beginFirstHydrate, Alike
  <2> QED
    BY <1>1, <2>1, ReadRowsSteady DEF beginFirstHydrate
<1>2. CASE beginReconcile(t)
  <2>1. Turn(t) /\ task[t].at = "due" /\ Alike(chair, chair')
    BY <1>2, DueTurn, FlushedAlike DEF beginReconcile
  <2>2. PICK why \in {"request", "timer"} : ReadRows(t, why)
    BY <1>2 DEF beginReconcile
  <2> QED
    BY <1>2, <2>1, <2>2, ReadRowsSteady DEF beginReconcile
<1>3. CASE flushDirtyLiveState(t)
  <2>1. /\ Alike(chair, chair') /\ task[Boot].at = "over"
        /\ UNCHANGED <<world, session, mem, hydrated, requested, api, task, streak>>
    BY <1>3, FlushedAlike, DueTurn, BootIsOver DEF flushDirtyLiveState, At, LoadStep
  <2>2. \A u \in Tick : Turn(u) => task[u].at \in {"due", "polling"}
    <3>1. Turn(t)
      BY <1>3, DueTurn DEF flushDirtyLiveState, At, Turn
    <3>2. \A u \in Tick : Turn(u) => u = t \/ task[u].at = "due"
      BY <3>1, OthersAreDue
    <3> QED
      BY <1>3, <3>2 DEF flushDirtyLiveState, At, Due
  <2>3. ActiveSession' = ActiveSession
    BY <2>1, SameActiveSession
  <2>4. ASSUME NEW u \in Tick, Turn(u)
        PROVE  /\ TaskTimed(task[u], mem', chair', streak')
               /\ Clean' => TaskAgrees(task[u], mem', chair', ActiveSession', hydrated)
    <3>1. task[u].at # "writing" /\ TaskTimed(task[u], mem, chair, streak)
      BY <2>2, <2>4 DEF SteadyInv
    <3>2. Clean => TaskAgrees(task[u], mem, chair, ActiveSession, hydrated)
      BY <2>4 DEF SteadyInv
    <3> QED
      BY <2>1, <2>3, <3>1, <3>2, AlikeSteady DEF Clean
  <2>5. (hydrated => Ready(mem')) /\ task[Boot].at # "hydrating"
    BY <2>1 DEF SteadyInv
  <2> QED
    BY <2>1, <2>4, <2>5, SteadyQuiet
<1> QED
  BY <1>1, <1>2, <1>3

LEMMA CarryOverSteady ==
  ASSUME NEW prev \in ChairMem \cup {None}, NEW next \in ChairMem
  PROVE  LET m == carryOverRuntimeState(prev, next)
         IN  /\ m \in ChairMem /\ m # None
             /\ m.enabled = next.enabled /\ m.status = next.status
             /\ m.session = next.session /\ m.current = next.current
             /\ m.activeSince = next.activeSince /\ m.since = next.since
             /\ m.blocked => next.blocked \/ next.status = "IDLE"
<1> DEFINE m == carryOverRuntimeState(prev, next)
<1>1. next # None
  BY MemAssumption
<1>2. CASE prev = None
  BY <1>1, <1>2 DEF carryOverRuntimeState
<1>3. CASE prev # None
  <2> DEFINE b == prev.blocked /\ next.status = "IDLE"
  <2>1. prev.low \in BOOLEAN /\ prev.online \in BOOLEAN /\ b \in BOOLEAN
    BY <1>3 DEF ChairMem
  <2>2. m = [next EXCEPT !.low = prev.low, !.online = prev.online, !.blocked = b]
    BY <1>1, <1>3 DEF carryOverRuntimeState
  <2>3. b => next.status = "IDLE"
    OBVIOUS
  <2> HIDE DEF b, m
  <2>4. m \in ChairMem
    BY <2>1, <2>2 DEF ChairMem
  <2>5. /\ m.enabled = next.enabled /\ m.status = next.status
        /\ m.session = next.session /\ m.current = next.current
        /\ m.activeSince = next.activeSince /\ m.since = next.since
        /\ m.blocked = b
    BY <2>2 DEF ChairMem
  <2> QED
    BY <2>3, <2>4, <2>5, MemAssumption DEF m
<1> QED
  BY <1>2, <1>3

\* The rows that were read become the object of the cache.
LEMMA Installed ==
  ASSUME NEW m, NEW s, m.enabled = s.enabled, m.status = s.status, m.session = s.session,
         m.current = s.current, m.activeSince = s.activeSince, m.since = s.since,
         m.blocked => s.blocked \/ s.status = "IDLE", m # None, NEW c, NEW x,
         RowTimed(c, x, FALSE), SnapTimed(s, c, x)
  PROVE  /\ ObjectTimed(m, c, x, FALSE)
         /\ Ready(s) => Ready(m)
         /\ \A a : Agrees(s, c, a) => Agrees(m, c, a)
<1>1. ObjectTimed(m, c, x, FALSE)
  BY DEF ObjectTimed, SnapTimed, Upright
<1>2. Ready(s) => Ready(m)
  BY DEF Ready
<1> QED
  BY <1>1, <1>2 DEF Agrees

LEMMA hydrateSteady ==
  ASSUME RuntimeTyped, RowInv, SteadyInv, NEW t \in Tick, hydrateRuntimeCache(t)
  PROVE  SteadyInv'
<1>1. /\ task[t].at = "hydrating" /\ Turn(t) /\ Carries(task[t])
      /\ TaskTimed(task[t], mem, chair, streak) /\ TaskReady(task[t], hydrated)
      /\ Clean => TaskAgrees(task[t], mem, chair, ActiveSession, hydrated)
  BY DEF hydrateRuntimeCache, At, Turn, RuntimeTyped, TasksTyped, SteadyInv
<1> DEFINE m == carryOverRuntimeState(mem, task[t].snap)
<1>2. PICK k \in AfterHydrate(t, m) : Replace(m, t, k)
  BY DEF hydrateRuntimeCache
<1>3. Ready(task[t].snap) /\ task[t].snap \in ChairMem /\ mem \in ChairMem \cup {None}
  BY <1>1 DEF TaskReady, Ready, Carries, RuntimeTyped, MemTyped
<1> DEFINE s == task[t].snap
<1>4. /\ m.enabled = s.enabled /\ m.status = s.status /\ m.session = s.session
      /\ m.current = s.current /\ m.activeSince = s.activeSince /\ m.since = s.since
      /\ m.blocked => s.blocked \/ s.status = "IDLE"
      /\ m # None
  BY <1>3, CarryOverSteady
<1>5. k.at \in {"scanning", "polling"}
  <2>1. task[t] = [f \in TaskField |-> task[t][f]] /\ task[t].then \in {"first", "request", "timer"}
    BY <1>1 DEF Carries, TaskReady
  <2>2. [Rest EXCEPT !.at = "polling"].at = "polling"
    BY DEF Rest
  <2>3. [task[t] EXCEPT !.at = "scanning", !.snap = None].at = "scanning"
    BY <2>1 DEF TaskField
  <2> QED
    BY <1>2, <2>1, <2>2, <2>3 DEF AfterHydrate
<1>6. mem' = m /\ task' = [task EXCEPT ![t] = k]
  BY <1>1, <1>2, RuntimeAssumption, ReplaceIsSet
<1> HIDE DEF m
<1>7. RowTimed(chair, streak, FALSE) /\ SnapTimed(s, chair, streak)
  BY <1>1, PlainTimed DEF StepTimed
<1>8. /\ ObjectTimed(m, chair, streak, FALSE) /\ Ready(m)
      /\ \A a : Agrees(s, chair, a) => Agrees(m, chair, a)
  BY <1>3, <1>4, <1>7, Installed
<1>9. UNCHANGED <<world, chair, session, requested, api, streak>> /\ hydrated' = TRUE
  BY DEF hydrateRuntimeCache
<1>10. TaskTimed(k, mem', chair', streak')
  <2>1. StepTimed(k, m, chair, streak)
    BY <1>5 DEF StepTimed, StartStep
  <2> QED
    BY <1>5, <1>6, <1>7, <1>8, <1>9, <2>1, PlainTimed
<1>11. Clean' => TaskAgrees(k, mem', chair', ActiveSession', hydrated')
  <2>1. ActiveSession' = ActiveSession
    BY <1>9, SameActiveSession
  <2>2. Clean' => Agrees(s, chair, ActiveSession)
    BY <1>1, <1>9 DEF Clean, TaskAgrees
  <2> QED
    BY <1>5, <1>6, <1>8, <1>9, <2>1, <2>2 DEF TaskAgrees, RowToBe
<1>12. task[Boot].at = "over" \/ Early'
  <2>1. CASE task[Boot].at = "over"
    BY <2>1
  <2>2. CASE task[Boot].at # "over"
    <3>1. Early /\ task'[Boot] = task[Boot] /\ task[t].then = "first"
      BY <1>1, <1>6, <2>2, RuntimeAssumption DEF RowInv, OneAtWork, SteadyInv, AtLoad, RuntimeTyped,
         TasksTyped
    <3>2. k.at = "scanning"
      <4>1. task[t] = [f \in TaskField |-> task[t][f]]
        BY <1>1 DEF Carries
      <4>2. [task[t] EXCEPT !.at = "scanning", !.snap = None].at = "scanning"
        BY <4>1 DEF TaskField
      <4> QED
        BY <1>2, <3>1, <4>2 DEF AfterHydrate
    <3>3. \A u \in Tick : task'[u].at \in {"due", "hydrating", "scanning"}
      BY <1>6, <3>1, <3>2 DEF Early, RuntimeTyped, TasksTyped
    <3>4. Actives' = Actives
      BY <1>9, SameActives
    <3> QED
      BY <1>9, <3>1, <3>3, <3>4 DEF Early
  <2> QED
    BY <2>1, <2>2
<1>13. TaskReady(k, hydrated')
  BY <1>5, <1>9 DEF TaskReady
<1> QED
  BY <1>1, <1>6, <1>8, <1>9, <1>10, <1>11, <1>12, <1>13, SteadyStep

\* The loading at the start, which may come after the first one of a poll.
LEMMA bootSteady ==
  ASSUME RuntimeTyped, RowInv, SteadyInv, hydrateRuntimeCache(Boot)
  PROVE  SteadyInv'
<1> DEFINE s == task[Boot].snap
           m == carryOverRuntimeState(mem, s)
<1>1. /\ task[Boot].at = "hydrating" /\ task[Boot].then = "boot" /\ Early
      /\ Carries(task[Boot]) /\ mem \in ChairMem \cup {None}
      /\ \A u \in Tick : task[u].at \notin HoldingStep
  BY DEF hydrateRuntimeCache, At, RowInv, OneAtWork, AtLoad, LoadStep, HoldingStep, SteadyInv,
     RuntimeTyped, TasksTyped, MemTyped
<1>2. PICK k \in AfterHydrate(Boot, m) : Replace(m, Boot, k)
  BY DEF hydrateRuntimeCache
<1>3. k = Over
  BY <1>1, <1>2 DEF AfterHydrate
<1>4. mem' = m /\ task' = [task EXCEPT ![Boot] = Over]
  BY <1>1, <1>2, <1>3, ReplaceIsSet
<1>5. s \in ChairMem /\ Agrees(s, chair, None) /\ ~s.blocked /\ chair.status = "IDLE"
      /\ chair.since = None
  BY <1>1 DEF Early, Agrees, Ready, Carries
<1>6. /\ m.enabled = s.enabled /\ m.status = s.status /\ m.session = s.session
      /\ m.current = s.current /\ m.activeSince = s.activeSince /\ m.since = s.since
      /\ m.blocked => s.blocked \/ s.status = "IDLE"
      /\ m # None
  BY <1>1, <1>5, CarryOverSteady
<1> HIDE DEF s, m
<1>7. RowTimed(chair, streak, FALSE) /\ SnapTimed(s, chair, streak)
  BY <1>5 DEF RowTimed, SnapTimed, Agrees, OldAs, Upright
<1>8. ObjectTimed(m, chair, streak, FALSE) /\ Ready(m) /\ Agrees(m, chair, None)
  BY <1>5, <1>6, <1>7, Installed DEF Agrees
<1>9. /\ UNCHANGED <<world, chair, session, requested, api, streak>> /\ hydrated' = TRUE
      /\ ActiveSession' = None /\ ActiveSession = None
  <2>1. Actives = {}
    BY <1>1 DEF Early
  <2>2. ActiveSession = None
    BY <2>1, ActiveSessionTyped
  <2> QED
    BY <2>2, SameActiveSession DEF hydrateRuntimeCache
<1>10. task'[Boot].at = "over" /\ \A u \in Tick : task'[u] = task[u]
  BY <1>4, RuntimeAssumption DEF RuntimeTyped, TasksTyped, Over, Rest
<1>11. ASSUME NEW u \in Tick, Turn(u)'
       PROVE  /\ TaskTimed(task'[u], mem', chair', streak')
              /\ Clean' => TaskAgrees(task'[u], mem', chair', ActiveSession', hydrated')
  <2>1. Turn(u) /\ task[u].at \in {"due", "hydrating", "scanning"}
    BY <1>1, <1>10, <1>11 DEF Turn, Early
  <2>2. /\ TaskTimed(task[u], mem, chair, streak)
        /\ Clean => TaskAgrees(task[u], mem, chair, ActiveSession, hydrated)
    BY <2>1 DEF SteadyInv
  <2>3. StepTimed(task[u], m, chair, streak)
    BY <2>1, <2>2, PlainTimed DEF StepTimed, StartStep
  <2>4. TaskTimed(task[u], m, chair, streak)
    BY <1>6, <1>7, <1>8, <2>1, <2>3, PlainTimed
  <2>5. Clean => TaskAgrees(task[u], m, chair, None, TRUE)
    BY <1>8, <1>9, <2>1, <2>2 DEF TaskAgrees, RowToBe
  <2> QED
    BY <1>4, <1>9, <1>10, <2>4, <2>5 DEF Clean
<1>12. Steady' /\ \A u \in Tick : TaskReady(task'[u], hydrated')
  BY <1>9, <1>10 DEF SteadyInv, Steady, Calm, TaskReady
<1> QED
  BY <1>4, <1>8, <1>9, <1>10, <1>11, <1>12 DEF SteadyInv

-----------------------------------------------------------------------------
(***************************************************************************)
(* The recovery of a stale session, and the request to the cloud.          *)
(***************************************************************************)
\* What a poll whose turn it is may rely on, away from the start of the server.
LEMMA TurnSteady ==
  ASSUME RuntimeTyped, RowInv, SteadyInv, NEW t \in Tick, task[t].at # "due"
  PROVE  /\ Turn(t) /\ Carries(task[t]) /\ TaskTimed(task[t], mem, chair, streak)
         /\ TaskReady(task[t], hydrated)
         /\ Clean => TaskAgrees(task[t], mem, chair, ActiveSession, hydrated)
         /\ task[t].at \notin {"hydrating", "scanning"} => task[Boot].at = "over"
         /\ task[t].at # "hydrating" => hydrated /\ mem \in ChairMem /\ Ready(mem)
<1>1. Turn(t) /\ Carries(task[t])
  BY DEF Turn, RuntimeTyped, TasksTyped
<1>2. task[t].at \notin {"hydrating", "scanning"} => task[Boot].at = "over"
  BY DEF SteadyInv, Early, RowInv, OneAtWork
<1>3. task[t].at # "hydrating" => hydrated /\ mem \in ChairMem /\ Ready(mem)
  BY DEF SteadyInv, TaskReady, Ready, RuntimeTyped, MemTyped
<1> QED
  BY <1>1, <1>2, <1>3 DEF SteadyInv

\* A poll that goes on to a step with nothing in hand.
LEMMA GoesOnSteady ==
  ASSUME RuntimeTyped, RowInv, SteadyInv, NEW t \in Tick, task[t].at # "due", NEW k,
         task' = [task EXCEPT ![t] = k], k.at \in {"due", "polling"},
         UNCHANGED <<world, hydrated, requested, api, streak>>, hydrated,
         Ready(mem'), task[Boot].at = "over",
         RowTimed(chair', streak, FALSE), ObjectTimed(mem', chair', streak, FALSE),
         Clean => Agrees(mem', chair', ActiveSession')
  PROVE  SteadyInv'
<1>1. Turn(t)
  BY DEF Turn
<1>2. StepTimed(k, mem', chair', streak')
  BY DEF StepTimed, StartStep
<1>3. TaskTimed(k, mem', chair', streak')
  BY <1>2, PlainTimed
<1>4. Clean' => TaskAgrees(k, mem', chair', ActiveSession', hydrated')
  BY DEF Clean, TaskAgrees, RowToBe
<1>5. TaskReady(k, hydrated')
  BY DEF TaskReady
<1> QED
  BY <1>1, <1>3, <1>4, <1>5, SteadyStep

LEMMA recoverChairSessionSteady ==
  ASSUME RuntimeTyped, RowInv, SteadyInv, NEW t \in Tick, recoverChairSession(t)
  PROVE  SteadyInv'
<1>1. task[t].at = "scanning"
  BY DEF recoverChairSession, At
<1>2. /\ Turn(t) /\ Carries(task[t]) /\ TaskTimed(task[t], mem, chair, streak)
      /\ Clean => TaskAgrees(task[t], mem, chair, ActiveSession, hydrated)
      /\ hydrated /\ Ready(mem) /\ mem # None
  BY <1>1, TurnSteady DEF Ready
<1>3. RowTimed(chair, streak, FALSE) /\ ObjectTimed(mem, chair, streak, FALSE)
  BY <1>1, <1>2, PlainTimed
<1>4. Clean => Agrees(mem, chair, ActiveSession)
  BY <1>1, <1>2 DEF TaskAgrees, RowToBe
<1>5. /\ UNCHANGED <<world, chair, session, mem, hydrated, requested, api, streak>>
      /\ ActiveSession' = ActiveSession
  BY SameActiveSession DEF recoverChairSession
<1>6. CASE Goto(t, AfterRecovery(t))
  <2> DEFINE k == AfterRecovery(t)
  <2>1. k.at \in {"due", "polling"} /\ (task[t].then = "first" => k.at = "due")
    BY DEF AfterRecovery, Rest
  <2>2. task' = [task EXCEPT ![t] = k]
    BY <1>6 DEF Goto
  <2> HIDE DEF k
  <2>3. CASE task[Boot].at = "over"
    BY <1>1, <1>2, <1>3, <1>4, <1>5, <2>1, <2>2, <2>3, GoesOnSteady
  <2>4. CASE task[Boot].at # "over"
    <3>1. Early /\ task'[Boot] = task[Boot] /\ task[t].then = "first"
      BY <1>1, <2>2, <2>4, RuntimeAssumption DEF RowInv, OneAtWork, SteadyInv, AtLoad,
         RuntimeTyped, TasksTyped
    <3>2. \A u \in Tick : task'[u].at \in {"due", "hydrating", "scanning"}
      BY <2>1, <2>2, <3>1 DEF Early, RuntimeTyped, TasksTyped
    <3>3. Actives' = Actives
      BY <1>5, SameActives
    <3>4. Early'
      BY <1>5, <3>1, <3>2, <3>3 DEF Early
    <3>5. StepTimed(k, mem, chair, streak)
      BY <2>1 DEF StepTimed, StartStep
    <3>6. TaskTimed(k, mem', chair', streak')
      BY <1>2, <1>3, <1>5, <2>1, <3>5, PlainTimed
    <3>7. Clean' => TaskAgrees(k, mem', chair', ActiveSession', hydrated')
      BY <1>4, <1>5, <2>1 DEF Clean, TaskAgrees, RowToBe
    <3>8. TaskReady(k, hydrated')
      BY <1>2, <1>5, <2>1 DEF TaskReady
    <3> QED
      BY <1>2, <1>5, <2>2, <3>4, <3>6, <3>7, <3>8, SteadyStep
  <2> QED
    BY <2>3, <2>4
<1>7. ASSUME NEW x \in {"recovering", "reviewing"}, ActiveSession # None,
             x = "recovering" => chair.since = "elapsed",
             Goto(t, [task[t] EXCEPT !.at = x, !.session = ActiveSession])
      PROVE  SteadyInv'
  <2> DEFINE k == [task[t] EXCEPT !.at = x, !.session = ActiveSession]
  <2>1. k.at = x
    BY <1>2 DEF Carries, TaskField
  <2>2. task' = [task EXCEPT ![t] = k]
    BY <1>7 DEF Goto
  <2> HIDE DEF k
  <2>3. x = "recovering" => streak.low = "elapsed"
    BY <1>3, <1>7, AgeAssumption DEF RowTimed, OldAs
  <2>4. StepTimed(k, mem, chair, streak)
    BY <2>1, <2>3 DEF StepTimed, StartStep
  <2>5. TaskTimed(k, mem', chair', streak')
    BY <1>2, <1>3, <1>5, <2>1, <2>4, PlainTimed
  <2>6. TaskAgrees(k, mem', chair', ActiveSession', hydrated')
    BY <2>1 DEF TaskAgrees
  <2>7. task[Boot].at = "over"
    <3>1. Actives # {}
      BY <1>7, ActiveSessionTyped
    <3> QED
      BY <3>1 DEF RowInv, OneAtWork, SteadyInv, Early
  <2>8. TaskReady(k, hydrated')
    BY <1>2, <1>5, <2>1 DEF TaskReady
  <2> QED
    BY <1>2, <1>5, <2>2, <2>5, <2>6, <2>7, <2>8, SteadyStep
<1>8. CASE ActiveSession = None
  BY <1>6, <1>8 DEF recoverChairSession
<1>9. CASE ActiveSession # None
  <2>1. PICK aged \in BOOLEAN :
          LET decision == evaluateStaleSessionRecovery(ActiveSession, aged)
          IN  Goto(t, IF decision = "none" THEN AfterRecovery(t)
                      ELSE [task[t] EXCEPT !.at = IF decision = "finalize" THEN "recovering"
                                                  ELSE "reviewing",
                                           !.session = ActiveSession])
    BY <1>9 DEF recoverChairSession
  <2> DEFINE decision == evaluateStaleSessionRecovery(ActiveSession, aged)
  <2>2. decision = "finalize" => chair.since = "elapsed"
    BY DEF evaluateStaleSessionRecovery
  <2>3. CASE decision = "none"
    BY <1>6, <2>1, <2>3
  <2>4. CASE decision = "finalize"
    BY <1>7, <1>9, <2>1, <2>2, <2>4
  <2>5. CASE decision \notin {"none", "finalize"}
    BY <1>7, <1>9, <2>1, <2>5
  <2> QED
    BY <2>3, <2>4, <2>5
<1> QED
  BY <1>8, <1>9

\* The chair is idle, and its session forgotten, once a session has ended.
LEMMA EndedRow ==
  ASSUME RuntimeTyped, NEW s, Finalized(s) \/ markSessionNeedsReview(s)
  PROVE  /\ chair'.status = "IDLE" /\ chair'.current = None /\ chair'.since = None
         /\ chair'.before = chair.before
BY DEF RuntimeTyped, RowsTyped, ChairRow, Finalized, markSessionNeedsReview

LEMMA EndedTimed ==
  ASSUME NEW m, NEW c, NEW d, NEW x, ObjectTimed(m, c, x, FALSE),
         d.status = "IDLE", d.since = None, d.before = c.before
  PROVE  RowTimed(d, x, FALSE) /\ ObjectTimed(m, d, x, FALSE)
<1>1. RowTimed(d, x, FALSE)
  BY DEF RowTimed, OldAs
<1>2. ObjectTimed(m, d, x, FALSE)
  BY DEF ObjectTimed
<1> QED
  BY <1>1, <1>2

LEMMA applyRecoveryDecisionSteady ==
  ASSUME RuntimeTyped, RowInv, SteadyInv, NEW t \in Tick, applyRecoveryDecision(t)
  PROVE  SteadyInv'
<1>1. task[t].at \in {"recovering", "reviewing"}
  BY DEF applyRecoveryDecision, At
<1>2. /\ Turn(t) /\ Carries(task[t]) /\ TaskTimed(task[t], mem, chair, streak)
      /\ task[Boot].at = "over" /\ hydrated /\ Ready(mem) /\ mem # None
  BY <1>1, TurnSteady DEF Ready
<1>3. /\ chair'.status = "IDLE" /\ chair'.current = None /\ chair'.since = None
      /\ chair'.before = chair.before
  BY EndedRow DEF applyRecoveryDecision
<1>4. /\ Goto(t, [task[t] EXCEPT !.at = "forgetting"])
      /\ UNCHANGED <<world, mem, hydrated, requested, api, streak>>
  <2>1. ~PrimeRefused(task[t].session)
    BY DEF SteadyInv, Steady, PrimeRefused
  <2> QED
    BY <2>1 DEF applyRecoveryDecision
<1> DEFINE k == [task[t] EXCEPT !.at = "forgetting"]
<1>5. k.at = "forgetting"
  BY <1>2 DEF Carries, TaskField
<1>6. task' = [task EXCEPT ![t] = k]
  BY <1>4 DEF Goto
<1> HIDE DEF k
<1>7. TaskTimed(k, mem', chair', streak')
  <2>1. ObjectTimed(mem, chair, streak, FALSE)
    BY <1>1, <1>2, PlainTimed
  <2>2. RowTimed(chair', streak, FALSE) /\ ObjectTimed(mem, chair', streak, FALSE)
    BY <1>3, <2>1, EndedTimed
  <2>3. StepTimed(k, mem, chair', streak)
    BY <1>3, <1>5 DEF StepTimed, StartStep
  <2> QED
    BY <1>4, <1>5, <2>2, <2>3, PlainTimed
<1>8. TaskAgrees(k, mem', chair', ActiveSession', hydrated')
  BY <1>3, <1>5 DEF TaskAgrees
<1>9. TaskReady(k, hydrated')
  BY <1>2, <1>4, <1>5 DEF TaskReady
<1> QED
  BY <1>2, <1>4, <1>6, <1>7, <1>8, <1>9, SteadyStep

LEMMA forgetRecoveredSteady ==
  ASSUME RuntimeTyped, RowInv, SteadyInv, NEW t \in Tick, forgetRecovered(t)
  PROVE  SteadyInv'
<1>1. task[t].at = "forgetting"
  BY DEF forgetRecovered, At
<1>2. /\ TaskTimed(task[t], mem, chair, streak)
      /\ Clean => TaskAgrees(task[t], mem, chair, ActiveSession, hydrated)
      /\ task[Boot].at = "over" /\ hydrated /\ Ready(mem) /\ mem # None /\ mem \in ChairMem
  BY <1>1, TurnSteady DEF Ready
<1>3. chair.status = "IDLE" /\ chair.since = None /\ (Clean => chair.current = None)
  BY <1>1, <1>2 DEF TaskTimed, StepTimed, TaskAgrees
<1> DEFINE m == ForgottenSession(mem)
<1>4. /\ m # None /\ m.enabled = mem.enabled /\ m.status = "IDLE"
      /\ m.current = None /\ m.session = None
  BY <1>2, ForgottenTyped, MemAssumption DEF ForgottenSession, clearSessionMem, ChairMem
<1>5. mem' = m
  BY <1>2 DEF forgetRecovered
<1> HIDE DEF m
<1>6. Actives = {} /\ ActiveSession = None
  <2>1. TaskTracks(task[t], Actives)
    BY DEF RowInv
  <2>2. Actives = {}
    BY <1>1, <2>1 DEF TaskTracks
  <2> QED
    BY <2>2, ActiveSessionTyped
<1>7. /\ UNCHANGED <<world, chair, session, hydrated, requested, api, streak>>
      /\ ActiveSession' = None
  BY <1>6, SameActiveSession DEF forgetRecovered
<1>8. RowTimed(chair, streak, FALSE) /\ ObjectTimed(m, chair, streak, FALSE)
  BY <1>3, <1>4 DEF RowTimed, ObjectTimed, OldAs
<1>9. Ready(m) /\ (Clean => Agrees(m, chair, None))
  BY <1>2, <1>3, <1>4 DEF Ready, Agrees
<1>10. PICK k : task' = [task EXCEPT ![t] = k] /\ k.at \in {"due", "polling"}
  <2>1. AfterRecovery(t).at \in {"due", "polling"}
    BY DEF AfterRecovery, Rest
  <2> QED
    BY <2>1 DEF forgetRecovered, Goto
<1> QED
  BY <1>1, <1>2, <1>5, <1>7, <1>8, <1>9, <1>10, GoesOnSteady

-----------------------------------------------------------------------------
(***************************************************************************)
(* The request to the cloud, and what the reading asks for.                *)
(***************************************************************************)
LEMMA Weakly ==
  ASSUME NEW k, NEW m, NEW r, NEW x
  PROVE  /\ RowTimed(r, x, FALSE) => RowTimed(r, x, Rising(k, m))
         /\ ObjectTimed(m, r, x, FALSE) => ObjectTimed(m, r, x, Rising(k, m))
BY DEF RowTimed, ObjectTimed, Rising

LEMMA pollSteady ==
  ASSUME RuntimeTyped, RowInv, SteadyInv, NEW t \in Tick, poll(t)
  PROVE  SteadyInv'
<1>1. Turn(t) /\ task[Boot].at = "over" /\ task[t].at \in {"due", "polling"} /\ hydrated
  BY DueTurn DEF poll, At, Turn, RowInv, Calm, LoadOver
<1>2. /\ TaskTimed(task[t], mem, chair, streak) /\ Ready(mem)
      /\ Clean => TaskAgrees(task[t], mem, chair, ActiveSession, hydrated)
  BY <1>1 DEF SteadyInv
<1>3. PICK reading \in [online: {TRUE}, power: Power] \cup [online: {FALSE}, power: {"low"}] :
        Goto(t, [Rest EXCEPT !.at = "fetched", !.online = reading.online, !.power = reading.power])
  BY DEF poll
<1> DEFINE k == [Rest EXCEPT !.at = "fetched", !.online = reading.online, !.power = reading.power]
<1>4. k.at = "fetched"
  BY DEF Rest
<1>5. task' = [task EXCEPT ![t] = k]
  BY <1>3 DEF Goto
<1> HIDE DEF k
<1>6. UNCHANGED <<world, chair, mem, hydrated, requested, api, streak>> /\ ActiveSession' = ActiveSession
  BY SameActiveSession DEF poll
<1>7. TaskTimed(k, mem, chair, streak)
  <2>1. RowTimed(chair, streak, FALSE) /\ ObjectTimed(mem, chair, streak, FALSE)
    BY <1>1, <1>2, PlainTimed DEF Ready
  <2>2. RowTimed(chair, streak, Rising(k, mem)) /\ ObjectTimed(mem, chair, streak, Rising(k, mem))
    BY <2>1, Weakly
  <2>3. RowToBe(k, chair) = chair /\ StepTimed(k, mem, chair, streak)
    BY <1>4 DEF RowToBe, StepTimed, StartStep
  <2> QED
    BY <2>2, <2>3 DEF TaskTimed
<1>8. Clean => TaskAgrees(k, mem, chair, ActiveSession, hydrated)
  BY <1>1, <1>2, <1>4 DEF TaskAgrees, RowToBe
<1>9. TaskReady(k, hydrated)
  BY <1>1, <1>4 DEF TaskReady
<1> QED
  BY <1>1, <1>2, <1>5, <1>6, <1>7, <1>8, <1>9, SteadyStep DEF Clean

LEMMA fetchFailsSteady ==
  ASSUME RuntimeTyped, RowInv, SteadyInv, NEW t \in Tick, fetchFails(t)
  PROVE  SteadyInv'
<1>1. task[t].at = "polling"
  BY DEF fetchFails, At
<1>2. /\ TaskTimed(task[t], mem, chair, streak)
      /\ Clean => TaskAgrees(task[t], mem, chair, ActiveSession, hydrated)
      /\ task[Boot].at = "over" /\ hydrated /\ Ready(mem) /\ mem # None
  BY <1>1, TurnSteady DEF Ready
<1>3. RowTimed(chair, streak, FALSE) /\ ObjectTimed(mem, chair, streak, FALSE)
  BY <1>1, <1>2, PlainTimed
<1>4. Clean => Agrees(mem, chair, ActiveSession)
  BY <1>1, <1>2 DEF TaskAgrees, RowToBe
<1>5. /\ UNCHANGED <<world, chair, session, mem, hydrated, requested, api, streak>>
      /\ ActiveSession' = ActiveSession
  BY SameActiveSession DEF fetchFails
<1>6. task' = [task EXCEPT ![t] = Rest] /\ Rest.at = "due"
  BY DEF fetchFails, Goto, Rest
<1> QED
  BY <1>1, <1>2, <1>3, <1>4, <1>5, <1>6, GoesOnSteady

\* What a poll decides on.
LEMMA FetchedSteady ==
  ASSUME RuntimeTyped, RowInv, SteadyInv, NEW t \in Tick, task[t].at = "fetched"
  PROVE  /\ Turn(t) /\ Carries(task[t]) /\ task[Boot].at = "over" /\ hydrated
         /\ mem \in ChairMem /\ mem # None /\ Ready(mem) /\ chair \in ChairRow
         /\ streak \in [high: Age, low: Age, silent: BOOLEAN]
         /\ Clean => Agrees(mem, chair, ActiveSession)
         /\ RowTimed(chair, streak, Rising(task[t], mem))
         /\ ObjectTimed(mem, chair, streak, Rising(task[t], mem))
         /\ ~task[t].online \/ task[t].power = "low" \/ mem.status # "MAYBE_FINISHED" =>
              RowTimed(chair, streak, FALSE) /\ ObjectTimed(mem, chair, streak, FALSE)
<1>1. /\ Turn(t) /\ Carries(task[t]) /\ TaskTimed(task[t], mem, chair, streak)
      /\ Clean => TaskAgrees(task[t], mem, chair, ActiveSession, hydrated)
      /\ task[Boot].at = "over" /\ hydrated /\ mem \in ChairMem /\ Ready(mem)
  BY TurnSteady
<1>2. mem # None /\ chair \in ChairRow /\ streak \in [high: Age, low: Age, silent: BOOLEAN]
  BY <1>1 DEF Ready, RuntimeTyped, RowsTyped, ServerTyped
<1>3. RowToBe(task[t], chair) = chair
  BY DEF RowToBe
<1>4. /\ RowTimed(chair, streak, Rising(task[t], mem))
      /\ ObjectTimed(mem, chair, streak, Rising(task[t], mem))
  BY <1>1, <1>2, <1>3 DEF TaskTimed
<1>5. Clean => Agrees(mem, chair, ActiveSession)
  BY <1>1, <1>3 DEF TaskAgrees
<1>6. ASSUME ~task[t].online \/ task[t].power = "low" \/ mem.status # "MAYBE_FINISHED"
      PROVE  RowTimed(chair, streak, FALSE) /\ ObjectTimed(mem, chair, streak, FALSE)
  <2>1. Rising(task[t], mem) = FALSE
    BY <1>6 DEF Rising
  <2> QED
    BY <1>4, <2>1
<1> QED
  BY <1>1, <1>2, <1>4, <1>5, <1>6

LEMMA ProcessSteady ==
  ASSUME RuntimeTyped, RowInv, SteadyInv, NEW t \in Tick, task[t].at = "fetched", NEW m, NEW k,
         Process(t, m, k), Ready(m), k.at # "hydrating",
         TaskTimed(k, m, chair, streak'),
         Clean => TaskAgrees(k, m, chair, ActiveSession, TRUE)
  PROVE  SteadyInv'
<1>1. Turn(t) /\ task[Boot].at = "over" /\ hydrated
  BY FetchedSteady
<1>2. /\ UNCHANGED <<world, chair, session, hydrated, requested, api>>
      /\ mem' = m /\ task' = [task EXCEPT ![t] = k] /\ ActiveSession' = ActiveSession
  BY SameActiveSession DEF Process, Goto
<1>3. hydrated = TRUE
  BY <1>1 DEF RuntimeTyped, ServerTyped
<1>4. TaskReady(k, hydrated')
  BY <1>2, <1>3 DEF TaskReady
<1>5. Clean' => TaskAgrees(k, mem', chair', ActiveSession', hydrated')
  BY <1>2, <1>3 DEF Clean
<1> QED
  BY <1>1, <1>2, <1>4, <1>5, SteadyStep

\* A poll that is about to write the row.
LEMMA WritingSteady ==
  ASSUME NEW k, NEW m, NEW c, NEW x, NEW a, NEW w, NEW loaded,
         k.at = "writing", k.write = w, k.then # "again", "status" \in DOMAIN w
  PROVE  /\ RowTimed(With(c, w), x, FALSE) /\ ObjectTimed(m, With(c, w), x, FALSE) =>
              TaskTimed(k, m, c, x)
         /\ Agrees(m, With(c, w), a) => TaskAgrees(k, m, c, a, loaded)
<1>1. RowToBe(k, c) = With(c, w)
  BY DEF RowToBe
<1>2. Rising(k, m) = FALSE
  BY DEF Rising
<1>3. StepTimed(k, m, c, x)
  BY DEF StepTimed, StartStep
<1>4. Agrees(m, With(c, w), a) => TaskAgrees(k, m, c, a, loaded)
  BY <1>1 DEF TaskAgrees
<1> QED
  BY <1>1, <1>2, <1>3, <1>4 DEF TaskTimed

LEMMA SampledFields ==
  ASSUME NEW t, mem \in ChairMem
  PROVE  /\ Sampled(t).enabled = mem.enabled /\ Sampled(t).status = mem.status
         /\ Sampled(t).session = mem.session /\ Sampled(t).current = mem.current
         /\ Sampled(t).since = mem.since /\ Sampled(t).activeSince = mem.activeSince
         /\ Sampled(t).blocked => mem.blocked
         /\ Sampled(t) \in ChairMem
<1>1. Sampled(t) \in ChairMem
  BY SampledTyped
<1>2. /\ Sampled(t).enabled = mem.enabled /\ Sampled(t).status = mem.status
      /\ Sampled(t).session = mem.session /\ Sampled(t).current = mem.current
      /\ Sampled(t).since = mem.since /\ Sampled(t).activeSince = mem.activeSince
      /\ Sampled(t).blocked => mem.blocked
  BY DEF Sampled, ChairMem
<1> QED
  BY <1>1, <1>2

\* What has been read, by what it asks for.
LEMMA Decided ==
  ASSUME RuntimeTyped, NEW t \in Tick, NEW kind, Decides(t, {kind})
  PROVE  /\ task[t].at = "fetched" /\ mem \in ChairMem
         /\ mem.blocked /\ task[t].online => task[t].power # "high"
         /\ kind = "NONE" =>
              \/ ~task[t].online /\ mem.status = "OFFLINE"
              \/ task[t].online /\ mem.status = "IDLE"
              \/ task[t].online /\ mem.status = "MAYBE_ACTIVE" /\ task[t].power = "high"
              \/ task[t].online /\ mem.status = "ACTIVE"
              \/ task[t].online /\ mem.status = "MAYBE_FINISHED" /\ task[t].power = "low"
         /\ kind = "OFFLINE" => ~task[t].online /\ mem.status # "OFFLINE"
         /\ kind = "ONLINE_RECOVERY" => task[t].online /\ mem.status = "OFFLINE"
         /\ kind = "IDLE_TO_MAYBE_ACTIVE" =>
              task[t].online /\ mem.status = "IDLE" /\ task[t].power = "high"
         /\ kind = "MAYBE_ACTIVE_TO_IDLE" => task[t].online /\ mem.status = "MAYBE_ACTIVE"
         /\ kind = "MAYBE_ACTIVE_TO_ACTIVE" =>
              /\ task[t].online /\ mem.status = "MAYBE_ACTIVE" /\ task[t].power = "high"
              /\ mem.activeSince = "elapsed"
         /\ kind = "ACTIVE_TO_MAYBE_FINISHED" =>
              task[t].online /\ mem.status = "ACTIVE" /\ task[t].power = "low"
         /\ kind = "MAYBE_FINISHED_TO_ACTIVE" => task[t].online /\ mem.status = "MAYBE_FINISHED"
         /\ kind = "MAYBE_FINISHED_TO_IDLE" =>
              /\ task[t].online /\ mem.status = "MAYBE_FINISHED" /\ task[t].power = "low"
              /\ mem.since = "elapsed"
<1>1. task[t].at = "fetched" /\ mem \in ChairMem /\ ~shouldSuppressBusinessTransition(t)
  BY DecidesOnMem DEF Decides, At
<1>2. mem.status \in Status /\ task[t].online \in BOOLEAN
  BY <1>1 DEF ChairMem, RuntimeTyped, TasksTyped, Carries
<1>3. decideTransition(mem, task[t].power, task[t].online) = kind
  BY DEF Decides
<1>4. CASE ~task[t].online
  BY <1>1, <1>2, <1>3, <1>4 DEF decideTransition, shouldSuppressBusinessTransition
<1>5. CASE task[t].online
  BY <1>1, <1>2, <1>3, <1>5
  DEF decideTransition, shouldSuppressBusinessTransition, Status, Confirmed
<1> QED
  BY <1>2, <1>4, <1>5

\* A poll that comes to rest, or goes on to a step that says nothing of the ages.
LEMMA RestSteady ==
  ASSUME NEW m, NEW c, NEW x, NEW a, NEW loaded, RowTimed(c, x, FALSE), ObjectTimed(m, c, x, FALSE)
  PROVE  /\ TaskTimed(Rest, m, c, x)
         /\ Agrees(m, c, a) => TaskAgrees(Rest, m, c, a, loaded)
<1>1. Rest.at = "due"
  BY DEF Rest
<1>2. StepTimed(Rest, m, c, x)
  BY <1>1 DEF StepTimed, StartStep
<1>3. TaskTimed(Rest, m, c, x)
  BY <1>1, <1>2, PlainTimed
<1>4. Agrees(m, c, a) => TaskAgrees(Rest, m, c, a, loaded)
  BY <1>1 DEF TaskAgrees, RowToBe
<1> QED
  BY <1>3, <1>4

\* A reading that changes nothing: it goes on with the readings before it.
LEMMA SameStatusTimed ==
  ASSUME NEW m, NEW s, s.status = m.status, s.since = m.since, s.activeSince = m.activeSince,
         s.blocked => m.blocked,
         m.status \in Status, NEW c, NEW x, NEW y,
         RowTimed(c, x, FALSE), ObjectTimed(m, c, x, FALSE),
         c.since \in Age, m.since \in Age, m.activeSince \in Age, c.activeSince \in Age,
         \/ m.status \in {"IDLE", "ACTIVE"}
         \/ m.status = "MAYBE_ACTIVE" /\ \A a \in Age : OldAs(a, x.high) => OldAs(a, y.high)
         \/ m.status = "OFFLINE" /\ c.since = None /\ c.before # "MAYBE_FINISHED"
         \/ \A a \in Age : OldAs(a, x.low) => OldAs(a, y.low)
            /\ m.status \in {"MAYBE_FINISHED", "OFFLINE"}
  PROVE  RowTimed(c, y, FALSE) /\ ObjectTimed(s, c, y, FALSE)
<1>1. m.status \in Upright => c.since = None
  BY DEF ObjectTimed
<1>2. c.status = "MAYBE_ACTIVE" => m.status = "MAYBE_ACTIVE" /\ OldAs(c.activeSince, x.high)
  BY DEF ObjectTimed, RowTimed
<1>3. RowTimed(c, y, FALSE)
  BY <1>1, <1>2 DEF RowTimed, OldAs, Upright, Status
<1>4. ObjectTimed(s, c, y, FALSE)
  BY <1>1, <1>2 DEF ObjectTimed, OldAs, Upright, Status
<1> QED
  BY <1>3, <1>4

LEMMA sampleOnlySteady ==
  ASSUME RuntimeTyped, RowInv, SteadyInv, NEW t \in Tick, sampleOnly(t)
  PROVE  SteadyInv'
<1>1. task[t].at = "fetched" /\ Process(t, Sampled(t), Rest) /\ Observed(t)
  BY DEF sampleOnly, Decides, At, Process
<1>2. /\ mem \in ChairMem /\ mem # None /\ Ready(mem) /\ chair \in ChairRow
      /\ Clean => Agrees(mem, chair, ActiveSession)
  BY <1>1, FetchedSteady
<1>3. /\ Sampled(t).enabled = mem.enabled /\ Sampled(t).status = mem.status
      /\ Sampled(t).session = mem.session /\ Sampled(t).current = mem.current
      /\ Sampled(t).since = mem.since /\ Sampled(t).activeSince = mem.activeSince
      /\ Sampled(t).blocked => mem.blocked
      /\ Sampled(t) \in ChairMem
  BY <1>2, SampledFields
<1>4. Ready(Sampled(t)) /\ \A a : Agrees(mem, chair, a) => Agrees(Sampled(t), chair, a)
  BY <1>2, <1>3, MemAssumption DEF Ready, Agrees
<1>5. /\ mem.status \in Status /\ mem.since \in Age /\ mem.activeSince \in Age
      /\ chair.since \in Age /\ chair.activeSince \in Age
  BY <1>2 DEF ChairMem, ChairRow
<1>6. /\ ~task[t].online => streak'.high = streak.high /\ streak'.low = streak.low
      /\ task[t].online /\ task[t].power = "high" =>
           \A a \in Age : OldAs(a, streak.high) => OldAs(a, streak'.high)
      /\ task[t].online /\ task[t].power = "low" =>
           \A a \in Age : OldAs(a, streak.low) => OldAs(a, streak'.low)
  BY <1>1, ObservedAges
<1>7. RowTimed(chair, streak', FALSE) /\ ObjectTimed(Sampled(t), chair, streak', FALSE)
  <2>1. CASE Decides(t, {"NONE"})
    <3>1. \/ ~task[t].online /\ mem.status = "OFFLINE"
          \/ task[t].online /\ mem.status = "IDLE"
          \/ task[t].online /\ mem.status = "MAYBE_ACTIVE" /\ task[t].power = "high"
          \/ task[t].online /\ mem.status = "ACTIVE"
          \/ task[t].online /\ mem.status = "MAYBE_FINISHED" /\ task[t].power = "low"
      BY <2>1, Decided
    <3>2. RowTimed(chair, streak, FALSE) /\ ObjectTimed(mem, chair, streak, FALSE)
      BY <1>1, <3>1, FetchedSteady
    <3>3. \/ mem.status \in {"IDLE", "ACTIVE"}
          \/ mem.status = "MAYBE_ACTIVE" /\ \A a \in Age : OldAs(a, streak.high) => OldAs(a, streak'.high)
          \/ \A a \in Age : OldAs(a, streak.low) => OldAs(a, streak'.low)
             /\ mem.status \in {"MAYBE_FINISHED", "OFFLINE"}
      BY <1>6, <3>1
    <3> QED
      BY <1>3, <1>5, <3>2, <3>3, SameStatusTimed
  <2>2. CASE shouldSuppressBusinessTransition(t)
    <3>1. mem.blocked /\ mem.status \in {"IDLE", "OFFLINE"} /\ chair.since = None
          /\ (mem.status = "OFFLINE" => chair.before # "MAYBE_FINISHED")
      BY <1>1, <2>2, FetchedSteady DEF ObjectTimed, shouldSuppressBusinessTransition
    <3>2. RowTimed(chair, streak, FALSE) /\ ObjectTimed(mem, chair, streak, FALSE)
      BY <1>1, <3>1, FetchedSteady
    <3> QED
      BY <1>3, <1>5, <3>1, <3>2, SameStatusTimed
  <2> QED
    BY <2>1, <2>2 DEF sampleOnly
<1>8. /\ TaskTimed(Rest, Sampled(t), chair, streak')
      /\ Clean => TaskAgrees(Rest, Sampled(t), chair, ActiveSession, TRUE)
  BY <1>2, <1>4, <1>7, RestSteady
<1>9. Rest.at # "hydrating"
  BY DEF Rest
<1> QED
  BY <1>1, <1>4, <1>8, <1>9, ProcessSteady

LEMMA TransitionSteady ==
  ASSUME RuntimeTyped, RowInv, SteadyInv, NEW t \in Tick, task[t].at = "fetched", NEW m, NEW k,
         NEW w, Process(t, m, k), k.at = "writing", k.write = w, k.then # "again",
         "status" \in DOMAIN w, Ready(m),
         RowTimed(With(chair, w), streak', FALSE), ObjectTimed(m, With(chair, w), streak', FALSE),
         Clean => Agrees(m, With(chair, w), ActiveSession)
  PROVE  SteadyInv'
<1>1. TaskTimed(k, m, chair, streak')
  BY WritingSteady
<1>2. Clean => TaskAgrees(k, m, chair, ActiveSession, TRUE)
  BY WritingSteady
<1> QED
  BY <1>1, <1>2, ProcessSteady

LEMMA WritingFields ==
  ASSUME NEW w
  PROVE  Writing(w).at = "writing" /\ Writing(w).write = w /\ Writing(w).then = "upsert"
BY DEF Writing, Holding, Rest

LEMMA idleToMaybeActiveSteady ==
  ASSUME RuntimeTyped, RowInv, SteadyInv, NEW t \in Tick, idleToMaybeActive(t)
  PROVE  SteadyInv'
<1> DEFINE m == [Sampled(t) EXCEPT !.status = "MAYBE_ACTIVE", !.activeSince = "recent"]
           w == [status |-> "MAYBE_ACTIVE", activeSince |-> "recent", low |-> FALSE, online |-> TRUE]
           r == With(chair, w)
<1>1. Decides(t, {"IDLE_TO_MAYBE_ACTIVE"}) /\ Process(t, m, Writing(w)) /\ Observed(t)
  BY DEF idleToMaybeActive, Process
<1>2. /\ task[t].at = "fetched" /\ mem \in ChairMem /\ mem.status = "IDLE" /\ ~mem.blocked
      /\ task[t].online /\ task[t].power = "high"
  BY <1>1, Decided
<1>3. /\ mem # None /\ Ready(mem) /\ chair \in ChairRow
      /\ Clean => Agrees(mem, chair, ActiveSession)
      /\ RowTimed(chair, streak, FALSE) /\ ObjectTimed(mem, chair, streak, FALSE)
  BY <1>2, FetchedSteady
<1>4. /\ Sampled(t).enabled = mem.enabled /\ Sampled(t).session = mem.session
      /\ Sampled(t).current = mem.current /\ ~Sampled(t).blocked
      /\ Sampled(t) \in ChairMem
  BY <1>2, SampledFields
<1>5. /\ m.enabled = mem.enabled /\ m.session = mem.session /\ m.current = mem.current
      /\ m.status = "MAYBE_ACTIVE" /\ m.activeSince = "recent" /\ ~m.blocked /\ m # None
  <2>1. m \in ChairMem
    BY <1>4 DEF ChairMem, Age, Status
  <2> QED
    BY <1>4, <2>1, MemAssumption DEF ChairMem
<1>6. /\ r.status = "MAYBE_ACTIVE" /\ r.activeSince = "recent" /\ r.since = chair.since
      /\ r.current = chair.current /\ r.before = chair.before
      /\ "status" \in DOMAIN w
  BY <1>3, WithFields
<1> HIDE DEF m, r, w
<1>7. OldAs("recent", streak'.high) /\ chair.since = None
  BY <1>1, <1>2, <1>3, ObservedAges DEF ObjectTimed, Upright
<1>8. RowTimed(r, streak', FALSE) /\ ObjectTimed(m, r, streak', FALSE)
  BY <1>5, <1>6, <1>7 DEF RowTimed, ObjectTimed, OldAs
<1>9. Ready(m) /\ (Clean => Agrees(m, r, ActiveSession))
  BY <1>3, <1>5, <1>6 DEF Ready, Agrees
<1> QED
  BY <1>1, <1>2, <1>8, <1>9, <1>6, WritingFields, TransitionSteady DEF r

LEMMA maybeActiveToIdleSteady ==
  ASSUME RuntimeTyped, RowInv, SteadyInv, NEW t \in Tick, maybeActiveToIdle(t)
  PROVE  SteadyInv'
<1> DEFINE m == [Sampled(t) EXCEPT !.status = "IDLE", !.activeSince = None]
           w == [status |-> "IDLE", activeSince |-> None, low |-> task[t].power = "low", online |-> TRUE]
           r == With(chair, w)
<1>1. Decides(t, {"MAYBE_ACTIVE_TO_IDLE"}) /\ Process(t, m, Writing(w))
  BY DEF maybeActiveToIdle, Process
<1>2. task[t].at = "fetched" /\ mem \in ChairMem /\ mem.status = "MAYBE_ACTIVE"
  BY <1>1, Decided
<1>3. /\ mem # None /\ Ready(mem) /\ chair \in ChairRow
      /\ Clean => Agrees(mem, chair, ActiveSession)
      /\ RowTimed(chair, streak, FALSE) /\ ObjectTimed(mem, chair, streak, FALSE)
  BY <1>2, FetchedSteady
<1>4. /\ Sampled(t).enabled = mem.enabled /\ Sampled(t).session = mem.session
      /\ Sampled(t).current = mem.current /\ Sampled(t) \in ChairMem
  BY <1>2, SampledFields
<1>5. /\ m.enabled = mem.enabled /\ m.session = mem.session /\ m.current = mem.current
      /\ m.status = "IDLE" /\ m # None
  <2>1. m \in ChairMem
    BY <1>4 DEF ChairMem, Age, Status
  <2> QED
    BY <1>4, <2>1, MemAssumption DEF ChairMem
<1>6. /\ r.status = "IDLE" /\ r.since = chair.since /\ r.current = chair.current
      /\ "status" \in DOMAIN w
  BY <1>3, WithFields
<1> HIDE DEF m, r, w
<1>7. chair.since = None
  BY <1>2, <1>3 DEF ObjectTimed, Upright
<1>8. RowTimed(r, streak', FALSE) /\ ObjectTimed(m, r, streak', FALSE)
  BY <1>5, <1>6, <1>7 DEF RowTimed, ObjectTimed, OldAs
<1>9. Ready(m) /\ (Clean => Agrees(m, r, ActiveSession))
  BY <1>3, <1>5, <1>6 DEF Ready, Agrees
<1> QED
  BY <1>1, <1>2, <1>8, <1>9, <1>6, WritingFields, TransitionSteady DEF r

LEMMA activeToMaybeFinishedSteady ==
  ASSUME RuntimeTyped, RowInv, SteadyInv, NEW t \in Tick, activeToMaybeFinished(t)
  PROVE  SteadyInv'
<1>1. Decides(t, {"ACTIVE_TO_MAYBE_FINISHED"})
  BY DEF activeToMaybeFinished
<1>2. /\ task[t].at = "fetched" /\ mem \in ChairMem /\ mem.status = "ACTIVE"
      /\ task[t].online /\ task[t].power = "low"
  BY <1>1, Decided
<1>3. /\ mem # None /\ Ready(mem) /\ chair \in ChairRow
      /\ Clean => Agrees(mem, chair, ActiveSession)
      /\ RowTimed(chair, streak, FALSE) /\ ObjectTimed(mem, chair, streak, FALSE)
  BY <1>2, FetchedSteady
<1>4. /\ Sampled(t).enabled = mem.enabled /\ Sampled(t).session = mem.session
      /\ Sampled(t).current = mem.current /\ (Sampled(t).blocked => mem.blocked)
      /\ Sampled(t) \in ChairMem
  BY <1>2, SampledFields
<1>5. chair.since = None /\ ~mem.blocked
  BY <1>2, <1>3 DEF ObjectTimed, Upright
<1>6. CASE mem.session = None
  <2> DEFINE m == [Sampled(t) EXCEPT !.status = "IDLE", !.current = None]
             w == [status |-> "IDLE", current |-> None]
             r == With(chair, w)
  <2>1. Process(t, m, Writing(w))
    BY <1>6 DEF activeToMaybeFinished
  <2>2. /\ m.enabled = mem.enabled /\ m.session = None /\ m.current = None
        /\ m.status = "IDLE" /\ m # None
    <3>1. m \in ChairMem
      BY <1>4 DEF ChairMem, Status
    <3> QED
      BY <1>4, <1>6, <3>1, MemAssumption DEF ChairMem
  <2>3. r.status = "IDLE" /\ r.since = chair.since /\ r.current = None /\ "status" \in DOMAIN w
    BY <1>3, WithFields
  <2> HIDE DEF m, r, w
  <2>4. RowTimed(r, streak', FALSE) /\ ObjectTimed(m, r, streak', FALSE)
    BY <1>5, <2>2, <2>3 DEF RowTimed, ObjectTimed, OldAs
  <2>5. Ready(m) /\ (Clean => Agrees(m, r, ActiveSession))
    BY <1>3, <1>6, <2>2, <2>3 DEF Ready, Agrees
  <2> QED
    BY <1>2, <2>1, <2>4, <2>5, <2>3, WritingFields, TransitionSteady DEF r
<1>7. CASE mem.session # None
  <2> DEFINE m == [Sampled(t) EXCEPT !.status = "MAYBE_FINISHED", !.since = "recent"]
             w == [status |-> "MAYBE_FINISHED", since |-> "recent", low |-> TRUE, online |-> TRUE]
             k == [Writing(w) EXCEPT !.session = mem.session]
             r == With(chair, w)
  <2>1. Process(t, m, k) /\ Observed(t)
    BY <1>7 DEF activeToMaybeFinished, Process
  <2>2. /\ m.enabled = mem.enabled /\ m.session = mem.session /\ m.current = mem.current
        /\ m.status = "MAYBE_FINISHED" /\ m.since = "recent" /\ ~m.blocked /\ m # None
    <3>1. m \in ChairMem
      BY <1>4 DEF ChairMem, Status, Age
    <3> QED
      BY <1>4, <1>5, <3>1, MemAssumption DEF ChairMem
  <2>3. r.status = "MAYBE_FINISHED" /\ r.since = "recent" /\ r.current = chair.current /\ "status" \in DOMAIN w
    BY <1>3, WithFields
  <2>4. k.at = "writing" /\ k.write = w /\ k.then = "upsert"
    BY DEF Writing, Holding, Rest
  <2> HIDE DEF m, r, w, k
  <2>5. OldAs("recent", streak'.low)
    BY <1>2, <2>1, ObservedAges
  <2>6. RowTimed(r, streak', FALSE) /\ ObjectTimed(m, r, streak', FALSE)
    BY <2>2, <2>3, <2>5 DEF RowTimed, ObjectTimed, Upright
  <2>7. Ready(m) /\ (Clean => Agrees(m, r, ActiveSession))
    BY <1>3, <2>2, <2>3 DEF Ready, Agrees
  <2> QED
    BY <1>2, <2>1, <2>4, <2>6, <2>7, <2>3, TransitionSteady DEF r
<1> QED
  BY <1>6, <1>7

LEMMA maybeFinishedToActiveSteady ==
  ASSUME RuntimeTyped, RowInv, SteadyInv, NEW t \in Tick, maybeFinishedToActive(t)
  PROVE  SteadyInv'
<1> DEFINE m == [Sampled(t) EXCEPT !.status = "ACTIVE", !.since = None]
           w == [status |-> "ACTIVE", since |-> None, low |-> FALSE, online |-> TRUE]
           r == With(chair, w)
<1>1. Decides(t, {"MAYBE_FINISHED_TO_ACTIVE"}) /\ Process(t, m, Writing(w))
  BY DEF maybeFinishedToActive, Process
<1>2. task[t].at = "fetched" /\ mem \in ChairMem /\ mem.status = "MAYBE_FINISHED"
  BY <1>1, Decided
<1>3. /\ mem # None /\ Ready(mem) /\ chair \in ChairRow
      /\ Clean => Agrees(mem, chair, ActiveSession)
      /\ ObjectTimed(mem, chair, streak, Rising(task[t], mem))
  BY <1>2, FetchedSteady
<1>4. /\ Sampled(t).enabled = mem.enabled /\ Sampled(t).session = mem.session
      /\ Sampled(t).current = mem.current /\ (Sampled(t).blocked => mem.blocked)
      /\ Sampled(t) \in ChairMem
  BY <1>2, SampledFields
<1>5. /\ m.enabled = mem.enabled /\ m.session = mem.session /\ m.current = mem.current
      /\ m.status = "ACTIVE" /\ (m.blocked => mem.blocked) /\ m # None
  <2>1. m \in ChairMem
    BY <1>4 DEF ChairMem, Age, Status
  <2> QED
    BY <1>4, <2>1, MemAssumption DEF ChairMem
<1>6. r.status = "ACTIVE" /\ r.since = None /\ r.current = chair.current /\ "status" \in DOMAIN w
  BY <1>3, WithFields
<1> HIDE DEF m, r, w
<1>7. ~m.blocked
  BY <1>2, <1>3, <1>5 DEF ObjectTimed
<1>8. RowTimed(r, streak', FALSE) /\ ObjectTimed(m, r, streak', FALSE)
  BY <1>5, <1>6, <1>7 DEF RowTimed, ObjectTimed, OldAs
<1>9. Ready(m) /\ (Clean => Agrees(m, r, ActiveSession))
  BY <1>3, <1>5, <1>6 DEF Ready, Agrees
<1> QED
  BY <1>1, <1>2, <1>8, <1>9, <1>6, WritingFields, TransitionSteady DEF r

LEMMA handleOfflineSteady ==
  ASSUME RuntimeTyped, RowInv, SteadyInv, NEW t \in Tick, handleOffline(t)
  PROVE  SteadyInv'
<1> DEFINE m == [mem EXCEPT !.status = "OFFLINE", !.online = FALSE]
           w == [status |-> "OFFLINE", before |-> mem.status, online |-> FALSE]
           k == [Writing(w) EXCEPT !.then = "stop"]
           r == With(chair, w)
<1>1. Decides(t, {"OFFLINE"}) /\ Process(t, m, k) /\ Observed(t)
  BY DEF handleOffline, Process
<1>2. /\ task[t].at = "fetched" /\ mem \in ChairMem /\ mem.status # "OFFLINE"
      /\ ~task[t].online
  BY <1>1, Decided
<1>3. /\ mem # None /\ Ready(mem) /\ chair \in ChairRow
      /\ Clean => Agrees(mem, chair, ActiveSession)
      /\ RowTimed(chair, streak, FALSE) /\ ObjectTimed(mem, chair, streak, FALSE)
  BY <1>2, FetchedSteady
<1>4. /\ m.enabled = mem.enabled /\ m.session = mem.session /\ m.current = mem.current
      /\ m.since = mem.since /\ m.blocked = mem.blocked /\ m.status = "OFFLINE" /\ m # None
  <2>1. m \in ChairMem
    BY <1>2 DEF ChairMem, Status
  <2> QED
    BY <1>2, <2>1, MemAssumption DEF ChairMem
<1>5. /\ r.status = "OFFLINE" /\ r.since = chair.since /\ r.current = chair.current
      /\ r.before = mem.status
      /\ "status" \in DOMAIN w
  BY <1>3, WithFields
<1>6. k.at = "writing" /\ k.write = w /\ k.then = "stop"
  BY DEF Writing, Holding, Rest
<1> HIDE DEF m, r, w, k
<1>7. streak'.low = streak.low
  BY <1>1, <1>2, ObservedAges
<1>8. RowTimed(r, streak', FALSE) /\ ObjectTimed(m, r, streak', FALSE)
  BY <1>2, <1>3, <1>4, <1>5, <1>7 DEF RowTimed, ObjectTimed, Upright
<1>9. Ready(m) /\ (Clean => Agrees(m, r, ActiveSession))
  BY <1>3, <1>4, <1>5 DEF Ready, Agrees
<1> QED
  BY <1>1, <1>2, <1>6, <1>8, <1>9, <1>5, TransitionSteady DEF r

LEMMA beginOnlineRecoverySteady ==
  ASSUME RuntimeTyped, RowInv, SteadyInv, NEW t \in Tick, beginOnlineRecovery(t)
  PROVE  SteadyInv'
<1> DEFINE m == [mem EXCEPT !.blocked = @ /\ task[t].power = "high"]
           k == [Holding("restoring") EXCEPT !.power = task[t].power, !.online = TRUE]
<1>1. Decides(t, {"ONLINE_RECOVERY"}) /\ Process(t, m, k) /\ Observed(t)
  BY DEF beginOnlineRecovery, Process
<1>2. /\ task[t].at = "fetched" /\ mem \in ChairMem /\ mem.status = "OFFLINE" /\ task[t].online
      /\ (mem.blocked /\ task[t].online => task[t].power # "high")
  BY <1>1, Decided
<1>3. /\ mem # None /\ Ready(mem) /\ chair \in ChairRow
      /\ Clean => Agrees(mem, chair, ActiveSession)
      /\ RowTimed(chair, streak, FALSE) /\ ObjectTimed(mem, chair, streak, FALSE)
  BY <1>2, FetchedSteady
<1>4. /\ m.enabled = mem.enabled /\ m.session = mem.session /\ m.current = mem.current
      /\ m.since = mem.since /\ m.status = "OFFLINE" /\ m # None /\ m.blocked = FALSE
  <2>1. m \in ChairMem
    BY <1>2 DEF ChairMem
  <2>2. m.blocked = FALSE
    BY <1>2 DEF ChairMem
  <2> QED
    BY <1>2, <2>1, <2>2, MemAssumption DEF ChairMem
<1>5. k.at = "restoring" /\ k.power = task[t].power /\ k.online = TRUE
  BY DEF Holding, Rest
<1>6. chair.since \in Age /\ mem.since \in Age
  BY <1>2, <1>3 DEF ChairMem, ChairRow
<1> HIDE DEF m, k
<1>7. TaskTimed(k, m, chair, streak')
  <2>1. Rising(k, m) <=> k.power # "low"
    BY <1>5 DEF Rising
  <2>2. k.power # "low" \/ \A a \in Age : OldAs(a, streak.low) => OldAs(a, streak'.low)
    BY <1>1, <1>2, <1>5, ObservedAges
  <2>3. RowTimed(chair, streak', Rising(k, m)) /\ ObjectTimed(m, chair, streak', Rising(k, m))
    BY <1>2, <1>3, <1>4, <1>6, <2>1, <2>2 DEF RowTimed, ObjectTimed, Upright
  <2>4. StepTimed(k, m, chair, streak') /\ RowToBe(k, chair) = chair
    BY <1>4, <1>5 DEF StepTimed, StartStep, RowToBe
  <2> QED
    BY <2>3, <2>4 DEF TaskTimed
<1>8. Clean => TaskAgrees(k, m, chair, ActiveSession, TRUE)
  BY <1>2, <1>3, <1>4, <1>5 DEF TaskAgrees, Agrees, Ready, RowToBe
<1>9. Ready(m)
  BY <1>3, <1>4 DEF Ready
<1> QED
  BY <1>1, <1>2, <1>5, <1>7, <1>8, <1>9, ProcessSteady

\* A reading that confirms a start or an end: the delay has passed on both sides.
LEMMA ConfirmedSteady ==
  ASSUME RuntimeTyped, RowInv, SteadyInv, NEW t \in Tick, task[t].at = "fetched", NEW k,
         Process(t, Sampled(t), k),
         k.then = "upsert", k.at \in StartStep \/ k.at \in {"seeking", "ending"},
         task[t].online, mem.status \in {"MAYBE_ACTIVE", "MAYBE_FINISHED"},
         mem.status = "MAYBE_ACTIVE" => task[t].power = "high" /\ k.at \in StartStep,
         mem.status = "MAYBE_FINISHED" => task[t].power = "low" /\ k.at \notin StartStep,
         k.at \in StartStep => mem.activeSince = "elapsed",
         k.at \notin StartStep => mem.since = "elapsed"
  PROVE  SteadyInv'
<1>1. /\ mem \in ChairMem /\ mem # None /\ Ready(mem) /\ chair \in ChairRow
      /\ streak \in [high: Age, low: Age, silent: BOOLEAN]
      /\ Clean => Agrees(mem, chair, ActiveSession)
      /\ RowTimed(chair, streak, FALSE) /\ ObjectTimed(mem, chair, streak, FALSE)
  BY FetchedSteady
<1>2. /\ Sampled(t).enabled = mem.enabled /\ Sampled(t).status = mem.status
      /\ Sampled(t).session = mem.session /\ Sampled(t).current = mem.current
      /\ Sampled(t).since = mem.since /\ Sampled(t).activeSince = mem.activeSince
      /\ Sampled(t).blocked => mem.blocked
      /\ Sampled(t) \in ChairMem
  BY <1>1, SampledFields
<1>3. /\ mem.status \in Status /\ mem.since \in Age /\ mem.activeSince \in Age
      /\ chair.since \in Age /\ chair.activeSince \in Age
  BY <1>1 DEF ChairMem, ChairRow
<1>4. Observed(t)
  BY DEF Process
<1>5. /\ task[t].power = "high" => \A a \in Age : OldAs(a, streak.high) => OldAs(a, streak'.high)
      /\ task[t].power = "low" => \A a \in Age : OldAs(a, streak.low) => OldAs(a, streak'.low)
  BY <1>4, ObservedAges
<1>6. RowTimed(chair, streak', FALSE) /\ ObjectTimed(Sampled(t), chair, streak', FALSE)
  BY <1>1, <1>2, <1>3, <1>5, SameStatusTimed
<1>7. StepTimed(k, Sampled(t), chair, streak')
  <2>1. k.at \in StartStep => streak'.high = "elapsed" /\ mem.status = "MAYBE_ACTIVE"
    BY <1>1, <1>2, <1>6, AgeAssumption DEF ObjectTimed, OldAs
  <2>2. k.at \notin StartStep => streak'.low = "elapsed"
    BY <1>1, <1>2, <1>6, AgeAssumption DEF ObjectTimed, OldAs
  <2> QED
    BY <1>2, <2>1, <2>2 DEF StepTimed, StartStep
<1>8. TaskTimed(k, Sampled(t), chair, streak')
  BY <1>6, <1>7, PlainTimed DEF StartStep
<1>9. Ready(Sampled(t)) /\ (Clean => TaskAgrees(k, Sampled(t), chair, ActiveSession, TRUE))
  BY <1>1, <1>2, MemAssumption DEF Ready, Agrees, TaskAgrees, RowToBe, StartStep
<1> QED
  BY <1>8, <1>9, ProcessSteady DEF StartStep

LEMMA beginStartSteady ==
  ASSUME RuntimeTyped, RowInv, SteadyInv, NEW t \in Tick, beginStart(t)
  PROVE  SteadyInv'
<1>1. Decides(t, {"MAYBE_ACTIVE_TO_ACTIVE"}) /\ Process(t, Sampled(t), Holding("starting"))
  BY DEF beginStart
<1>2. /\ task[t].at = "fetched" /\ task[t].online /\ mem.status = "MAYBE_ACTIVE"
      /\ task[t].power = "high" /\ mem.activeSince = "elapsed"
  BY <1>1, Decided
<1>3. Holding("starting").at = "starting" /\ Holding("starting").then = "upsert"
  BY DEF Holding, Rest
<1> QED
  BY <1>1, <1>2, <1>3, ConfirmedSteady DEF StartStep

LEMMA beginEndSteady ==
  ASSUME RuntimeTyped, RowInv, SteadyInv, NEW t \in Tick, beginEnd(t)
  PROVE  SteadyInv'
<1>1. Decides(t, {"MAYBE_FINISHED_TO_IDLE"})
  BY DEF beginEnd
<1>2. /\ task[t].at = "fetched" /\ task[t].online /\ mem.status = "MAYBE_FINISHED"
      /\ task[t].power = "low" /\ mem.since = "elapsed"
  BY <1>1, Decided
<1> DEFINE k == IF mem.session = None THEN Holding("seeking")
                ELSE [Holding("ending") EXCEPT !.session = mem.session]
<1>3. Process(t, Sampled(t), k)
  BY DEF beginEnd
<1>4. k.at \in {"seeking", "ending"} /\ k.then = "upsert"
  BY DEF Holding, Rest
<1> HIDE DEF k
<1> QED
  BY <1>2, <1>3, <1>4, ConfirmedSteady DEF StartStep

-----------------------------------------------------------------------------
(***************************************************************************)
(* The steps of a poll that holds the object of the cache.                 *)
(***************************************************************************)
LEMMA HoldingSteady ==
  ASSUME RuntimeTyped, RowInv, SteadyInv, NEW t \in Tick, task[t].at \in HoldingStep
  PROVE  /\ Turn(t) /\ Carries(task[t]) /\ TaskTimed(task[t], mem, chair, streak)
         /\ task[Boot].at = "over" /\ hydrated /\ Ready(mem) /\ mem # None
         /\ Held(t) = mem /\ mem \in ChairMem /\ chair \in ChairRow
         /\ Clean => TaskAgrees(task[t], mem, chair, ActiveSession, hydrated)
         /\ StepTimed(task[t], mem, chair, streak)
BY TurnSteady, HeldIsMem DEF HoldingStep, Ready, RuntimeTyped, RowsTyped, TaskTimed

LEMMA ActiveSessionFollows == Actives' = Actives => ActiveSession' = ActiveSession
BY DEF ActiveSession

LEMMA writeRowSteady ==
  ASSUME RuntimeTyped, RowInv, SteadyInv, NEW t \in Tick, writeRow(t)
  PROVE  SteadyInv'
<1>1. task[t].at = "writing" /\ task[t].at \in HoldingStep
  BY DEF writeRow, At, HoldingStep
<1>2. /\ Turn(t) /\ Carries(task[t]) /\ TaskTimed(task[t], mem, chair, streak)
      /\ task[Boot].at = "over" /\ hydrated /\ Ready(mem) /\ mem # None /\ Held(t) = mem
      /\ Clean => TaskAgrees(task[t], mem, chair, ActiveSession, hydrated)
  BY <1>1, HoldingSteady
<1>3. chair' = RowToBe(task[t], chair)
  BY <1>1 DEF writeRow, RowToBe
<1>4. /\ RowTimed(chair', streak, Rising(task[t], mem))
      /\ ObjectTimed(mem, chair', streak, Rising(task[t], mem))
      /\ Clean => Agrees(mem, chair', ActiveSession)
  BY <1>1, <1>2, <1>3 DEF TaskTimed, TaskAgrees
<1>5. /\ UNCHANGED <<world, hydrated, requested, api, streak>> /\ ActiveSession' = ActiveSession
  BY DippedStays, ActiveSessionFollows DEF writeRow
<1>6. CASE task[t].then \in {"upsert", "stop"}
  <2>1. mem' = mem /\ task' = [task EXCEPT ![t] = Rest]
    <3>1. CASE task[t].then = "upsert"
      <4>1. upsertChairMem(t, Held(t), Rest)
        BY <3>1 DEF writeRow
      <4> QED
        BY <1>1, <1>2, <4>1, UpsertIsSet
    <3>2. CASE task[t].then = "stop"
      BY <3>2 DEF writeRow, Goto
    <3> QED
      BY <1>6, <3>1, <3>2
  <2>2. Rising(task[t], mem) = FALSE
    BY <1>1, <1>6 DEF Rising
  <2>3. RowTimed(chair', streak, FALSE) /\ ObjectTimed(mem, chair', streak, FALSE)
    BY <1>4, <2>2
  <2>4. Rest.at = "due"
    BY DEF Rest
  <2> QED
    BY <1>1, <1>2, <1>4, <1>5, <2>1, <2>3, <2>4, GoesOnSteady
<1>7. CASE task[t].then = "again"
  <2> DEFINE k == [Rest EXCEPT !.at = "fetched", !.power = task[t].power, !.online = task[t].online]
  <2>1. mem' = mem /\ task' = [task EXCEPT ![t] = k]
    BY <1>7 DEF writeRow, Goto
  <2>2. k.at = "fetched" /\ k.power = task[t].power /\ k.online = task[t].online
    BY DEF Rest
  <2> HIDE DEF k
  <2>3. task[t].online /\ mem.status # "OFFLINE"
    BY <1>1, <1>2, <1>7 DEF TaskTimed, StepTimed
  <2>4. Rising(task[t], mem) <=> k.power # "low"
    BY <1>1, <1>7, <2>2 DEF Rising
  <2>5. Rising(k, mem) <=> k.power # "low" /\ mem.status = "MAYBE_FINISHED"
    BY <2>2, <2>3 DEF Rising
  <2>6. mem.status \in Status
    BY <1>2 DEF Ready, RuntimeTyped, MemTyped, ChairMem
  <2>7. RowTimed(chair', streak, Rising(k, mem)) /\ ObjectTimed(mem, chair', streak, Rising(k, mem))
    BY <1>4, <2>3, <2>4, <2>5, <2>6 DEF RowTimed, ObjectTimed, OldAs, Upright, Status
  <2>8. TaskTimed(k, mem', chair', streak')
    <3>1. RowToBe(k, chair') = chair' /\ StepTimed(k, mem, chair', streak)
      BY <2>2 DEF RowToBe, StepTimed, StartStep
    <3> QED
      BY <1>5, <2>1, <2>7, <3>1 DEF TaskTimed
  <2>9. Clean' => TaskAgrees(k, mem', chair', ActiveSession', hydrated')
    BY <1>4, <1>5, <2>1, <2>2 DEF Clean, TaskAgrees, RowToBe
  <2>10. TaskReady(k, hydrated') /\ Ready(mem')
    BY <1>2, <1>5, <2>1, <2>2 DEF TaskReady
  <2> QED
    BY <1>2, <1>5, <2>1, <2>8, <2>9, <2>10, SteadyStep
<1> QED
  BY <1>1, <1>2, <1>6, <1>7 DEF Carries

\* A poll that goes on to write the row.
LEMMA GoesToWriteSteady ==
  ASSUME RuntimeTyped, RowInv, SteadyInv, NEW t \in Tick, task[t].at \in HoldingStep, NEW m, NEW k,
         NEW w, NEW then, GoesToWrite(k, task[t], then, w), SetHeld(t, m, k),
         UNCHANGED <<world, chair, session, hydrated, requested, api, streak>>, Ready(m),
         "status" \in DOMAIN w, then = "again" => task[t].online /\ m.status # "OFFLINE",
         LET rising == then = "again" /\ task[t].power # "low"
         IN  RowTimed(With(chair, w), streak, rising) /\ ObjectTimed(m, With(chair, w), streak, rising),
         Clean => Agrees(m, With(chair, w), ActiveSession)
  PROVE  SteadyInv'
<1> DEFINE n == [k EXCEPT !.holds = "entry", !.own = None]
<1>1. mem' = m /\ task' = [task EXCEPT ![t] = n]
  BY SetHeldIsSet
<1>2. /\ n.at = "writing" /\ n.write = w /\ n.then = then
      /\ n.power = task[t].power /\ n.online = task[t].online
  BY DEF GoesToWrite, TaskField
<1> HIDE DEF n
<1>3. Turn(t) /\ task[Boot].at = "over" /\ hydrated
  BY HoldingSteady
<1>4. RowToBe(n, chair) = With(chair, w)
  BY <1>2 DEF RowToBe
<1>5. Rising(n, m) <=> then = "again" /\ task[t].power # "low"
  BY <1>2 DEF Rising
<1>6. RowTimed(With(chair, w), streak, Rising(n, m)) /\ ObjectTimed(m, With(chair, w), streak, Rising(n, m))
  BY <1>5 DEF RowTimed, ObjectTimed
<1>7. StepTimed(n, m, chair, streak)
  BY <1>2 DEF StepTimed, StartStep
<1>8. TaskTimed(n, mem', chair', streak')
  BY <1>1, <1>4, <1>6, <1>7 DEF TaskTimed
<1>9. Clean' => TaskAgrees(n, mem', chair', ActiveSession', hydrated')
  BY <1>1, <1>2, <1>4, SameActiveSession DEF Clean, TaskAgrees
<1>10. TaskReady(n, hydrated')
  BY <1>2, <1>3 DEF TaskReady
<1> QED
  BY <1>1, <1>3, <1>8, <1>9, <1>10, SteadyStep

LEMMA handleOnlineRecoverySteady ==
  ASSUME RuntimeTyped, RowInv, SteadyInv, NEW t \in Tick, handleOnlineRecovery(t)
  PROVE  SteadyInv'
<1> DEFINE s == ActiveSession
           status == IF s = None THEN "IDLE"
                     ELSE IF chair.since # None \/ chair.before = "MAYBE_FINISHED"
                          THEN "MAYBE_FINISHED" ELSE "ACTIVE"
           since == IF status = "MAYBE_FINISHED" /\ chair.since # None
                    THEN chair.since ELSE Held(t).since
           m == [bindSessionMem(Held(t), s) EXCEPT !.status = status, !.online = TRUE,
                                                   !.since = since]
           late == IF status = "MAYBE_FINISHED" THEN since ELSE None
           w == [status |-> status, online |-> TRUE, before |-> None, current |-> s, since |-> late]
           k == [task[t] EXCEPT !.at = "writing", !.then = "again", !.write = w]
           r == With(chair, w)
           rising == task[t].power # "low"
<1>1. task[t].at = "restoring" /\ task[t].at \in HoldingStep
  BY DEF handleOnlineRecovery, At, HoldingStep
<1>2. /\ Carries(task[t]) /\ TaskTimed(task[t], mem, chair, streak) /\ Ready(mem)
      /\ Held(t) = mem /\ mem \in ChairMem /\ mem # None /\ chair \in ChairRow
      /\ task[t].online /\ mem.status = "OFFLINE" /\ ~mem.blocked
  BY <1>1, HoldingSteady DEF StepTimed
<1>3. SetHeld(t, m, k)
      /\ UNCHANGED <<world, chair, session, hydrated, requested, api, streak>>
  BY DEF handleOnlineRecovery
<1>4. Rising(task[t], mem) <=> rising
  BY <1>1 DEF Rising
<1>5. /\ RowTimed(chair, streak, Rising(task[t], mem))
      /\ ObjectTimed(mem, chair, streak, Rising(task[t], mem))
  <2>1. RowToBe(task[t], chair) = chair
    BY <1>1 DEF RowToBe
  <2> QED
    BY <1>2, <2>1 DEF TaskTimed
<1>6. /\ status \in {"IDLE", "MAYBE_FINISHED", "ACTIVE"}
      /\ status # "MAYBE_FINISHED" => late = None
      /\ status = "MAYBE_FINISHED" => late = since
      /\ status = "MAYBE_FINISHED" => rising \/ OldAs(since, streak.low)
  <2>1. status = "MAYBE_FINISHED" /\ chair.since # None => rising \/ OldAs(since, streak.low)
    BY <1>4, <1>5 DEF RowTimed
  <2>2. status = "MAYBE_FINISHED" /\ chair.since = None => rising \/ OldAs(since, streak.low)
    <3>1. status = "MAYBE_FINISHED" /\ chair.since = None =>
            chair.before = "MAYBE_FINISHED" /\ since = mem.since
      BY <1>2
    <3> QED
      BY <1>2, <1>4, <1>5, <3>1 DEF ObjectTimed
  <2> QED
    BY <2>1, <2>2
<1> HIDE DEF s, status, since, late
<1>7. /\ m.session = s /\ m.current = s /\ m.status = status /\ m.since = since
      /\ m.enabled = mem.enabled /\ m.blocked = FALSE
  <2>1. mem.blocked = FALSE
    BY <1>2 DEF ChairMem
  <2> QED
    BY <1>2, <2>1 DEF bindSessionMem, ChairMem
<1>8. r.status = status /\ r.before = None /\ r.current = s /\ r.since = late /\ "status" \in DOMAIN w
  BY <1>2, WithFields
<1>9. m # None
  <2>1. s \in Session \cup {None} /\ status \in Status /\ since \in Age
    <3>1. s \in Session \cup {None}
      BY ActiveSessionTyped DEF s
    <3>2. chair.since \in Age /\ mem.since \in Age
      BY <1>2 DEF ChairRow, ChairMem
    <3> QED
      BY <1>2, <1>6, <3>1, <3>2 DEF since, Status
  <2>2. m \in ChairMem
    BY <1>2, <2>1 DEF bindSessionMem, ChairMem
  <2> QED
    BY <2>2, MemAssumption
<1> HIDE DEF m, w, r
<1>10. GoesToWrite(k, task[t], "again", w)
  BY <1>2 DEF GoesToWrite, Carries, TaskField
<1> HIDE DEF k
<1>11. RowTimed(r, streak, rising) /\ ObjectTimed(m, r, streak, rising)
  <2>1. rising \/ OldAs(late, streak.low)
    BY <1>6 DEF OldAs
  <2>2. rising \in BOOLEAN
    OBVIOUS
  <2> HIDE DEF rising
  <2>3. RowTimed(r, streak, rising)
    BY <1>6, <1>8, <2>1, <2>2 DEF RowTimed, Upright
  <2>4. ObjectTimed(m, r, streak, rising)
    BY <1>6, <1>7, <1>8, <2>2 DEF ObjectTimed, Upright
  <2> QED
    BY <2>3, <2>4
<1>12. Ready(m) /\ Agrees(m, r, ActiveSession)
  BY <1>2, <1>6, <1>7, <1>8, <1>9 DEF Ready, Agrees, s
<1> QED
  BY <1>1, <1>2, <1>3, <1>6, <1>7, <1>10, <1>11, <1>12, <1>8, GoesToWriteSteady DEF r

\* A poll that goes on with the object, and nothing in hand to write.
LEMMA HoldsOnSteady ==
  ASSUME RuntimeTyped, RowInv, SteadyInv, NEW t \in Tick, task[t].at \in StartStep, NEW k,
         task' = [task EXCEPT ![t] = k], k.at \in StartStep, k.then = task[t].then,
         UNCHANGED <<world, chair, session, mem, hydrated, requested, api, streak>>
  PROVE  SteadyInv'
<1>1. task[t].at \in HoldingStep
  BY DEF StartStep, HoldingStep
<1>2. /\ Turn(t) /\ TaskTimed(task[t], mem, chair, streak)
      /\ task[Boot].at = "over" /\ hydrated /\ Ready(mem) /\ mem # None
      /\ Clean => TaskAgrees(task[t], mem, chair, ActiveSession, hydrated)
  BY <1>1, HoldingSteady
<1>3. TaskTimed(k, mem, chair, streak)
  <2>1. RowTimed(chair, streak, FALSE) /\ ObjectTimed(mem, chair, streak, FALSE)
        /\ StepTimed(task[t], mem, chair, streak)
    BY <1>2, PlainTimed DEF StartStep
  <2>2. StepTimed(k, mem, chair, streak)
    BY <2>1 DEF StepTimed, StartStep
  <2> QED
    BY <2>1, <2>2, PlainTimed DEF StartStep
<1>4. Clean => TaskAgrees(k, mem, chair, ActiveSession, hydrated)
  BY <1>2 DEF TaskAgrees, RowToBe, StartStep
<1>5. TaskReady(k, hydrated) /\ ActiveSession' = ActiveSession
  BY <1>2, SameActiveSession DEF TaskReady, StartStep
<1> QED
  BY <1>2, <1>3, <1>4, <1>5, SteadyStep DEF Clean

LEMMA startingSteady ==
  ASSUME RuntimeTyped, RowInv, SteadyInv, NEW t \in Tick,
         adoptOrResolve(t) \/ resolveOpenShiftForSession(t) \/ blockOrCreate(t)
  PROVE  SteadyInv'
<1>1. /\ task[t].at \in {"starting", "resolving", "deciding"}
      /\ task[t].at \in HoldingStep /\ task[t].at \in StartStep
  BY DEF adoptOrResolve, resolveOpenShiftForSession, blockOrCreate, At, HoldingStep, StartStep
<1>2. Actives = {} /\ ActiveSession = None
  BY <1>1, ActiveSessionTyped DEF RowInv, TaskTracks
<1>3. UNCHANGED <<world, chair, session, hydrated, requested, api, streak>>
  BY DEF adoptOrResolve, resolveOpenShiftForSession, blockOrCreate
<1>4. /\ Carries(task[t]) /\ TaskTimed(task[t], mem, chair, streak) /\ Ready(mem) /\ mem # None
      /\ Held(t) = mem /\ mem \in ChairMem /\ chair \in ChairRow
      /\ Clean => TaskAgrees(task[t], mem, chair, ActiveSession, hydrated)
      /\ hydrated /\ StepTimed(task[t], mem, chair, streak)
  BY <1>1, HoldingSteady
<1>5. CASE adoptOrResolve(t)
  <2> DEFINE k == [task[t] EXCEPT !.at = "resolving"]
  <2>1. mem' = mem /\ task' = [task EXCEPT ![t] = k]
    BY <1>2, <1>5 DEF adoptOrResolve, Goto
  <2>2. k.at = "resolving" /\ k.then = task[t].then
    BY <1>4 DEF Carries, TaskField
  <2> HIDE DEF k
  <2> QED
    BY <1>1, <1>3, <2>1, <2>2, HoldsOnSteady DEF StartStep
<1>6. CASE resolveOpenShiftForSession(t)
  <2> DEFINE k == [task[t] EXCEPT !.at = "deciding", !.open = shiftOpen]
  <2>1. mem' = mem /\ task' = [task EXCEPT ![t] = k]
    BY <1>6 DEF resolveOpenShiftForSession, Goto
  <2>2. k.at = "deciding" /\ k.then = task[t].then
    BY <1>4 DEF Carries, TaskField
  <2> HIDE DEF k
  <2> QED
    BY <1>1, <1>3, <2>1, <2>2, HoldsOnSteady DEF StartStep
<1>7. CASE blockOrCreate(t)
  <2>1. CASE world.selfStart /\ ~task[t].open
    <3> DEFINE m == [Held(t) EXCEPT !.status = "IDLE", !.activeSince = None, !.blocked = TRUE]
               w == [status |-> "IDLE", activeSince |-> None, low |-> FALSE, online |-> TRUE]
               k == [task[t] EXCEPT !.at = "writing", !.write = w]
               r == With(chair, w)
    <3>1. SetHeld(t, m, k)
      BY <1>7, <2>1 DEF blockOrCreate
    <3>2. /\ m.enabled = mem.enabled /\ m.session = mem.session /\ m.current = mem.current
          /\ m.status = "IDLE" /\ m # None
      <4>1. m \in ChairMem
        BY <1>4 DEF ChairMem, Status, Age
      <4> QED
        BY <1>4, <4>1, MemAssumption DEF ChairMem
    <3>3. r.status = "IDLE" /\ r.since = chair.since /\ r.current = chair.current /\ "status" \in DOMAIN w
      BY <1>4, WithFields
    <3>4. GoesToWrite(k, task[t], task[t].then, w)
      BY <1>4 DEF GoesToWrite, Carries, TaskField
    <3> HIDE DEF m, w, k, r
    <3>5. task[t].then = "upsert" /\ mem.status = "MAYBE_ACTIVE"
      BY <1>1, <1>4 DEF StepTimed
    <3>6. chair.since = None
      BY <1>1, <1>4, <3>5, PlainTimed DEF ObjectTimed, Upright
    <3>7. RowTimed(r, streak, FALSE) /\ ObjectTimed(m, r, streak, FALSE)
      BY <3>2, <3>3, <3>6 DEF RowTimed, ObjectTimed, OldAs
    <3>8. Ready(m) /\ (Clean => Agrees(m, r, ActiveSession))
      <4>1. Clean => Agrees(mem, chair, ActiveSession)
        BY <1>1, <1>4 DEF TaskAgrees, RowToBe
      <4> QED
        BY <1>4, <3>2, <3>3, <4>1 DEF Ready, Agrees
    <3> QED
      BY <1>1, <1>3, <3>1, <3>4, <3>5, <3>7, <3>8, <3>3, GoesToWriteSteady DEF r
  <2>2. CASE ~(world.selfStart /\ ~task[t].open)
    <3> DEFINE k == [task[t] EXCEPT !.at = "creating"]
    <3>1. mem' = mem /\ task' = [task EXCEPT ![t] = k]
      BY <1>7, <2>2 DEF blockOrCreate, Goto
    <3>2. k.at = "creating" /\ k.then = task[t].then
      BY <1>4 DEF Carries, TaskField
    <3> HIDE DEF k
    <3> QED
      BY <1>1, <1>3, <3>1, <3>2, HoldsOnSteady DEF StartStep
  <2> QED
    BY <2>1, <2>2
<1> QED
  BY <1>5, <1>6, <1>7

\* A session created where none runs is the running one.
LEMMA StartedSession ==
  ASSUME RuntimeTyped, Actives = {}, NEW s \in Session, NEW open, Started(s, open)
  PROVE  ActiveSession' = s
<1>1. session \in [Session -> SessionRow]
  BY DEF RuntimeTyped, RowsTyped
<1>2. \A u \in Session : session'[u].status = IF u = s THEN "ACTIVE" ELSE session[u].status
  BY <1>1 DEF Started
<1>3. Actives' = {s}
  BY <1>2 DEF Actives
<1>4. (IF {s} = {} THEN None ELSE CHOOSE u \in {s} : TRUE) = s
  OBVIOUS
<1> QED
  BY <1>3, <1>4 DEF ActiveSession

LEMMA createSessionSteady ==
  ASSUME RuntimeTyped, RowInv, SteadyInv, NEW t \in Tick, createSession(t)
  PROVE  SteadyInv'
<1>1. task[t].at = "creating" /\ task[t].at \in HoldingStep
  BY DEF createSession, At, HoldingStep
<1>2. /\ Turn(t) /\ Carries(task[t]) /\ TaskTimed(task[t], mem, chair, streak) /\ Ready(mem)
      /\ mem # None /\ chair \in ChairRow /\ hydrated /\ task[Boot].at = "over"
      /\ StepTimed(task[t], mem, chair, streak)
  BY <1>1, HoldingSteady
<1>3. Actives = {}
  BY <1>1 DEF RowInv, TaskTracks
<1>4. PICK s \in Session : /\ Started(s, task[t].open)
                           /\ Goto(t, [task[t] EXCEPT !.at = "created", !.session = s])
  BY <1>3 DEF createSession, ActiveSessionIndex
<1> DEFINE k == [task[t] EXCEPT !.at = "created", !.session = s]
<1>5. k.at = "created" /\ k.session = s
  BY <1>2 DEF Carries, TaskField
<1>6. task' = [task EXCEPT ![t] = k]
  BY <1>4 DEF Goto
<1> HIDE DEF k
<1>7. ActiveSession' = s
  BY <1>3, <1>4, StartedSession
<1>8. UNCHANGED <<world, mem, hydrated, requested, api, streak>>
  BY DEF createSession
<1>9. chair'.status = "ACTIVE" /\ chair'.current = s /\ chair'.since = chair.since
  BY <1>2, <1>4 DEF Started, ChairRow
<1>10. TaskTimed(k, mem', chair', streak')
  <2>1. ObjectTimed(mem, chair, streak, FALSE) /\ mem.status = "MAYBE_ACTIVE"
    BY <1>1, <1>2, PlainTimed DEF StepTimed, StartStep
  <2>2. chair.since = None
    BY <2>1 DEF ObjectTimed, Upright
  <2>3. RowTimed(chair', streak, FALSE) /\ ObjectTimed(mem, chair', streak, FALSE)
    BY <1>9, <2>1, <2>2 DEF RowTimed, ObjectTimed, OldAs
  <2>4. StepTimed(k, mem, chair', streak)
    BY <1>5, <1>9, <2>1 DEF StepTimed, StartStep
  <2> QED
    BY <1>5, <1>8, <2>3, <2>4, PlainTimed
<1>11. TaskAgrees(k, mem', chair', ActiveSession', hydrated')
  BY <1>5, <1>7, <1>9 DEF TaskAgrees
<1>12. TaskReady(k, hydrated')
  BY <1>2, <1>5, <1>8 DEF TaskReady
<1> QED
  BY <1>2, <1>6, <1>8, <1>10, <1>11, <1>12, SteadyStep

LEMMA bindCreatedSteady ==
  ASSUME RuntimeTyped, RowInv, SteadyInv, NEW t \in Tick, bindCreated(t)
  PROVE  SteadyInv'
<1>1. task[t].at = "created" /\ task[t].at \in HoldingStep
  BY DEF bindCreated, At, HoldingStep
<1>2. /\ Turn(t) /\ Carries(task[t]) /\ TaskTimed(task[t], mem, chair, streak) /\ Ready(mem)
      /\ mem # None /\ mem \in ChairMem /\ Held(t) = mem /\ hydrated /\ task[Boot].at = "over"
      /\ StepTimed(task[t], mem, chair, streak)
      /\ Clean => TaskAgrees(task[t], mem, chair, ActiveSession, hydrated)
  BY <1>1, HoldingSteady
<1> DEFINE m == [bindSessionMem(Held(t), task[t].session) EXCEPT !.status = "ACTIVE",
                                                                 !.activeSince = None]
<1>3. upsertChairMem(t, m, Rest)
  BY DEF bindCreated
<1>4. /\ m.session = task[t].session /\ m.current = task[t].session /\ m.status = "ACTIVE"
      /\ m.enabled = mem.enabled /\ m.blocked = mem.blocked
  BY <1>2 DEF bindSessionMem, ChairMem
<1>5. m # None
  <2>1. m \in ChairMem
    BY <1>2 DEF bindSessionMem, ChairMem, Status, Age, Carries
  <2> QED
    BY <2>1, MemAssumption
<1> HIDE DEF m
<1>6. mem' = m /\ task' = [task EXCEPT ![t] = Rest] /\ Rest.at = "due"
  BY <1>1, <1>3, UpsertIsSet DEF Rest
<1>7. /\ UNCHANGED <<world, chair, session, hydrated, requested, api, streak>>
      /\ ActiveSession' = ActiveSession
  BY SameActiveSession DEF bindCreated
<1>8. /\ RowTimed(chair, streak, FALSE) /\ ObjectTimed(mem, chair, streak, FALSE)
      /\ mem.status = "MAYBE_ACTIVE" /\ chair.status # "MAYBE_ACTIVE"
  BY <1>1, <1>2, PlainTimed DEF StepTimed
<1>9. ObjectTimed(m, chair, streak, FALSE)
  BY <1>4, <1>8 DEF ObjectTimed, Upright
<1>10. Ready(m) /\ (Clean => Agrees(m, chair, ActiveSession))
  BY <1>1, <1>2, <1>4, <1>5 DEF Ready, Agrees, TaskAgrees
<1> QED
  BY <1>1, <1>2, <1>6, <1>7, <1>8, <1>9, <1>10, GoesOnSteady

LEMMA seekSessionSteady ==
  ASSUME RuntimeTyped, RowInv, SteadyInv, NEW t \in Tick, seekSession(t)
  PROVE  SteadyInv'
<1> DEFINE m == [Held(t) EXCEPT !.status = "IDLE", !.current = None, !.since = None]
           w == [status |-> "IDLE", current |-> None, since |-> None]
           k == [task[t] EXCEPT !.at = "writing", !.write = w]
           r == With(chair, w)
<1>1. task[t].at = "seeking" /\ task[t].at \in HoldingStep
  BY DEF seekSession, At, HoldingStep
<1>2. /\ Carries(task[t]) /\ Ready(mem) /\ mem # None /\ mem \in ChairMem /\ Held(t) = mem
      /\ chair \in ChairRow /\ hydrated /\ StepTimed(task[t], mem, chair, streak)
      /\ Clean => TaskAgrees(task[t], mem, chair, ActiveSession, hydrated)
  BY <1>1, HoldingSteady
<1>3. {s \in Actives : Held(t).current \in {None, s}} = {}
  BY <1>1 DEF RowInv, TaskTracks
<1>4. SetHeld(t, m, k)
      /\ UNCHANGED <<world, chair, session, hydrated, requested, api, streak>>
  BY <1>3 DEF seekSession
<1>5. /\ m.enabled = mem.enabled /\ m.session = mem.session /\ m.current = None
      /\ m.status = "IDLE" /\ m # None
  <2>1. m \in ChairMem
    BY <1>2 DEF ChairMem, Status, Age
  <2> QED
    BY <1>2, <2>1, MemAssumption DEF ChairMem
<1>6. r.status = "IDLE" /\ r.since = None /\ r.current = None /\ "status" \in DOMAIN w
  BY <1>2, WithFields
<1>7. GoesToWrite(k, task[t], task[t].then, w) /\ task[t].then = "upsert"
  BY <1>1, <1>2 DEF GoesToWrite, Carries, TaskField, StepTimed
<1> HIDE DEF m, w, k, r
<1>8. RowTimed(r, streak, FALSE) /\ ObjectTimed(m, r, streak, FALSE)
  BY <1>5, <1>6 DEF RowTimed, ObjectTimed, OldAs
<1>9. Ready(m) /\ (Clean => Agrees(m, r, ActiveSession))
  <2>1. Clean => Agrees(mem, chair, ActiveSession)
    BY <1>1, <1>2 DEF TaskAgrees, RowToBe
  <2> QED
    BY <1>2, <1>5, <1>6, <2>1 DEF Ready, Agrees
<1> QED
  BY <1>1, <1>4, <1>7, <1>8, <1>9, <1>6, GoesToWriteSteady DEF r

LEMMA finalizeActiveSessionSteady ==
  ASSUME RuntimeTyped, RowInv, SteadyInv, NEW t \in Tick, finalizeActiveSession(t)
  PROVE  SteadyInv'
<1>1. task[t].at = "ending" /\ task[t].at \in HoldingStep
  BY DEF finalizeActiveSession, At, HoldingStep
<1>2. /\ Turn(t) /\ Carries(task[t]) /\ TaskTimed(task[t], mem, chair, streak) /\ Ready(mem)
      /\ mem # None /\ hydrated /\ task[Boot].at = "over"
      /\ Clean => TaskAgrees(task[t], mem, chair, ActiveSession, hydrated)
  BY <1>1, HoldingSteady
<1>3. UNCHANGED <<world, mem, hydrated, requested, api, streak>>
  BY DEF finalizeActiveSession
<1>4. RowTimed(chair, streak, FALSE) /\ ObjectTimed(mem, chair, streak, FALSE)
  BY <1>1, <1>2, PlainTimed
<1>5. CASE Finalized(task[t].session) /\ Goto(t, [task[t] EXCEPT !.at = "ended"])
  <2> DEFINE k == [task[t] EXCEPT !.at = "ended"]
  <2>1. k.at = "ended"
    BY <1>2 DEF Carries, TaskField
  <2>2. task' = [task EXCEPT ![t] = k]
    BY <1>5 DEF Goto
  <2> HIDE DEF k
  <2>3. /\ chair'.status = "IDLE" /\ chair'.current = None /\ chair'.since = None
        /\ chair'.before = chair.before
    BY <1>5, EndedRow
  <2>4. TaskTimed(k, mem', chair', streak')
    <3>1. RowTimed(chair', streak, FALSE) /\ ObjectTimed(mem, chair', streak, FALSE)
      BY <1>4, <2>3, EndedTimed
    <3>2. StepTimed(k, mem, chair', streak)
      BY <2>1, <2>3 DEF StepTimed, StartStep
    <3> QED
      BY <1>3, <2>1, <3>1, <3>2, PlainTimed
  <2>5. TaskAgrees(k, mem', chair', ActiveSession', hydrated')
    BY <2>1, <2>3 DEF TaskAgrees
  <2>6. TaskReady(k, hydrated')
    BY <1>2, <1>3, <2>1 DEF TaskReady
  <2> QED
    BY <1>2, <1>3, <2>2, <2>4, <2>5, <2>6, SteadyStep
<1>6. CASE Goto(t, Rest) /\ UNCHANGED <<chair, session>>
  <2>1. task' = [task EXCEPT ![t] = Rest] /\ Rest.at = "due" /\ ActiveSession' = ActiveSession
    BY <1>6, SameActiveSession DEF Goto, Rest
  <2>2. Clean => Agrees(mem, chair, ActiveSession)
    BY <1>1, <1>2 DEF TaskAgrees, RowToBe
  <2> QED
    BY <1>1, <1>2, <1>3, <1>4, <1>6, <2>1, <2>2, GoesOnSteady
<1>7. ~PrimeRefused(task[t].session)
  BY DEF SteadyInv, Steady, PrimeRefused
<1> QED
  BY <1>5, <1>6, <1>7 DEF finalizeActiveSession

LEMMA clearEndedSteady ==
  ASSUME RuntimeTyped, RowInv, SteadyInv, NEW t \in Tick, clearEnded(t)
  PROVE  SteadyInv'
<1>1. task[t].at = "ended" /\ task[t].at \in HoldingStep
  BY DEF clearEnded, At, HoldingStep
<1>2. /\ Turn(t) /\ Carries(task[t]) /\ TaskTimed(task[t], mem, chair, streak) /\ Ready(mem)
      /\ mem # None /\ mem \in ChairMem /\ Held(t) = mem /\ hydrated /\ task[Boot].at = "over"
      /\ StepTimed(task[t], mem, chair, streak)
      /\ Clean => TaskAgrees(task[t], mem, chair, ActiveSession, hydrated)
  BY <1>1, HoldingSteady
<1> DEFINE m == [clearSessionMem(Held(t)) EXCEPT !.status = "IDLE", !.since = None,
                                                 !.activeSince = None]
<1>3. upsertChairMem(t, m, Rest)
  BY DEF clearEnded
<1>4. /\ m.session = None /\ m.current = None /\ m.status = "IDLE" /\ m.enabled = mem.enabled
  BY <1>2 DEF clearSessionMem, ChairMem
<1>5. m # None
  <2>1. m \in ChairMem
    BY <1>2 DEF clearSessionMem, ChairMem, Status, Age
  <2> QED
    BY <2>1, MemAssumption
<1> HIDE DEF m
<1>6. mem' = m /\ task' = [task EXCEPT ![t] = Rest] /\ Rest.at = "due"
  BY <1>1, <1>3, UpsertIsSet DEF Rest
<1>7. ActiveSession = None
  <2>1. Actives = {}
    BY <1>1 DEF RowInv, TaskTracks
  <2> QED
    BY <2>1, ActiveSessionTyped
<1>8. /\ UNCHANGED <<world, chair, session, hydrated, requested, api, streak>>
      /\ ActiveSession' = None
  BY <1>7, SameActiveSession DEF clearEnded
<1>9. RowTimed(chair, streak, FALSE) /\ chair.status = "IDLE" /\ chair.since = None
  BY <1>1, <1>2, PlainTimed DEF StepTimed
<1>10. ObjectTimed(m, chair, streak, FALSE)
  BY <1>4, <1>9 DEF ObjectTimed
<1>11. Ready(m) /\ (Clean => Agrees(m, chair, None))
  BY <1>1, <1>2, <1>4, <1>5, <1>9 DEF Ready, Agrees, TaskAgrees
<1> QED
  BY <1>1, <1>2, <1>6, <1>8, <1>9, <1>10, <1>11, GoesOnSteady

-----------------------------------------------------------------------------
(***************************************************************************)
(* Handlers, failures and time.                                            *)
(***************************************************************************)
\* The chair has been reset with its session, or is as it was.
Reset(c, d) ==
  \/ d = c
  \/ /\ d.status = "IDLE" /\ d.current = None /\ d.since = None /\ d.activeSince = None
     /\ d.before = c.before /\ d \in ChairRow

LEMMA ResetTimed ==
  ASSUME NEW k, NEW m, NEW c \in ChairRow, NEW d, NEW x, Reset(c, d), TaskTimed(k, m, c, x)
  PROVE  TaskTimed(k, m, d, x)
<1>1. CASE d = c
  BY <1>1
<1>2. CASE d # c
  <2> DEFINE r == RowToBe(k, c)
             q == RowToBe(k, d)
  <2>1. /\ d.status = "IDLE" /\ d.since = None /\ d.activeSince = None /\ d.before = c.before
        /\ d \in ChairRow
    BY <1>2 DEF Reset
  <2>2. /\ q.status = r.status \/ q.status = "IDLE"
        /\ q.status \in Upright => q.since = r.since \/ q.since = None
        /\ q.since = r.since \/ q.since = None
        /\ q.status # "IDLE" => q.status = r.status
        /\ q.activeSince = r.activeSince \/ q.activeSince = None
        /\ q.before = r.before
        /\ r.status # q.status => q.since = None
    <3>1. CASE k.at = "writing"
      <4>1. \A f \in {"status", "before", "activeSince", "since"} :
              /\ r[f] = IF f \in DOMAIN k.write THEN k.write[f] ELSE c[f]
              /\ q[f] = IF f \in DOMAIN k.write THEN k.write[f] ELSE d[f]
        BY <2>1, <3>1, WithFields DEF RowToBe
      <4>2. "status" \in DOMAIN k.write
        BY <3>1 DEF TaskTimed, StepTimed
      <4> HIDE DEF r, q
      <4> QED
        BY <2>1, <4>1, <4>2
    <3>2. CASE k.at # "writing"
      <4>1. r = c /\ q = d
        BY <3>2 DEF RowToBe
      <4> QED
        BY <2>1, <4>1
    <3> QED
      BY <3>1, <3>2
  <2>3. /\ RowTimed(r, x, Rising(k, m)) /\ (m # None => ObjectTimed(m, r, x, Rising(k, m)))
        /\ StepTimed(k, m, c, x)
    BY DEF TaskTimed
  <2> HIDE DEF r, q
  <2>4. RowTimed(q, x, Rising(k, m))
    BY <2>2, <2>3 DEF RowTimed, OldAs, Upright
  <2>5. m # None => ObjectTimed(m, q, x, Rising(k, m))
    BY <2>2, <2>3 DEF ObjectTimed
  <2>6. StepTimed(k, m, d, x)
    BY <2>1, <2>3 DEF StepTimed, SnapTimed
  <2> QED
    BY <2>4, <2>5, <2>6 DEF TaskTimed, q
<1> QED
  BY <1>1, <1>2

LEMMA deleteSessionSteady ==
  ASSUME RuntimeTyped, RowInv, SteadyInv, deleteSession
  PROVE  SteadyInv'
<1>1. chair \in ChairRow
  BY DEF RuntimeTyped, RowsTyped
<1>2. Reset(chair, chair')
  <2>1. CASE chair.current # api.session
    BY <2>1 DEF deleteSession, Reset
  <2>2. CASE chair.current = api.session
    BY <1>1, <2>2 DEF deleteSession, Reset, ChairRow, Status, Age
  <2> QED
    BY <2>1, <2>2
<1>3. UNCHANGED <<world, task, mem, hydrated, requested, streak>> /\ ~Clean'
  BY DEF deleteSession, Clean, Enter, ApiRest
<1>4. \A t \in Tick : Turn(t) => TaskTimed(task[t], mem', chair', streak')
  BY <1>1, <1>2, <1>3, ResetTimed DEF SteadyInv
<1>5. task[Boot].at = "hydrating" => Early'
  <2>1. Actives' \subseteq Actives
    BY EndedActives DEF deleteSession
  <2> QED
    BY <1>2, <1>3, <2>1 DEF SteadyInv, Early, Reset, Agrees
<1>6. hydrated => Ready(mem')
  BY <1>3 DEF SteadyInv
<1> QED
  BY <1>3, <1>4, <1>5, <1>6, SteadyQuiet

\* The end of the start blocks.
LEMMA UnblockedSteady ==
  ASSUME NEW k, NEW m \in ChairMem, NEW n, NEW c, NEW x, n = [m EXCEPT !.blocked = FALSE],
         TaskTimed(k, m, c, x)
  PROVE  TaskTimed(k, n, c, x)
<1>1. /\ n.status = m.status /\ n.since = m.since /\ n.activeSince = m.activeSince
      /\ n.blocked = FALSE /\ n # None /\ m # None
  <2>1. n \in ChairMem
    BY DEF ChairMem
  <2> QED
    BY <2>1, MemAssumption DEF ChairMem
<1>2. Rising(k, n) <=> Rising(k, m)
  BY <1>1 DEF Rising
<1>3. /\ RowTimed(RowToBe(k, c), x, Rising(k, m)) /\ ObjectTimed(m, RowToBe(k, c), x, Rising(k, m))
      /\ StepTimed(k, m, c, x)
  BY <1>1 DEF TaskTimed
<1>4. RowTimed(RowToBe(k, c), x, Rising(k, n))
  BY <1>2, <1>3 DEF RowTimed
<1>5. ObjectTimed(n, RowToBe(k, c), x, Rising(k, n))
  BY <1>1, <1>2, <1>3 DEF ObjectTimed
<1>6. StepTimed(k, n, c, x)
  BY <1>1, <1>3 DEF StepTimed
<1> QED
  BY <1>4, <1>5, <1>6 DEF TaskTimed

LEMMA clearNoShiftStartBlocksSteady ==
  ASSUME RuntimeTyped, RowInv, SteadyInv, clearNoShiftStartBlocks
  PROVE  SteadyInv'
<1>1. /\ UNCHANGED <<world, chair, session, task, hydrated, requested, streak>> /\ ~Clean'
  BY DEF clearNoShiftStartBlocks, Clean, Enter, ApiRest
<1>2. mem \in ChairMem \cup {None}
  BY DEF RuntimeTyped, MemTyped
<1>3. mem # None => mem' = [mem EXCEPT !.blocked = FALSE] /\ mem' \in ChairMem
  BY <1>2 DEF clearNoShiftStartBlocks, ChairMem
<1>4. hydrated => Ready(mem')
  BY <1>2, <1>3, MemAssumption DEF SteadyInv, Ready, ChairMem
<1>5. \A t \in Tick : Turn(t) => TaskTimed(task[t], mem', chair', streak')
  <2>1. CASE mem = None
    BY <1>1, <2>1 DEF SteadyInv, clearNoShiftStartBlocks
  <2>2. CASE mem # None
    BY <1>1, <1>2, <1>3, <2>2, UnblockedSteady DEF SteadyInv
  <2> QED
    BY <2>1, <2>2
<1>6. task[Boot].at = "hydrating" => Early'
  BY <1>1, SameActives DEF SteadyInv, Early
<1> QED
  BY <1>1, <1>4, <1>5, <1>6, SteadyQuiet

LEMMA handlersSteady ==
  ASSUME RuntimeTyped, RowInv, SteadyInv, Request \/ Respond \/ handlerFails
  PROVE  SteadyInv'
<1>1. \/ deleteSession \/ beginDeleteSession \/ startAssistantShift \/ openShift
      \/ clearNoShiftStartBlocks \/ requestRuntimeReconcile \/ handlerFails
  BY DEF RowInv, Calm, QuietApi, Handle, Request, Respond, prepareChairForDisable, writeEnabled,
     beginCloseShift, recoverForHandler, forgetForHandler, checkStillActive, writeDisabled,
     syncChairDisabledInRuntime, syncChairEnabledInRuntime, closeShift
<1>2. ASSUME \/ beginDeleteSession \/ startAssistantShift \/ openShift
             \/ requestRuntimeReconcile \/ handlerFails
      PROVE  SteadyInv'
  <2>1. UNCHANGED <<world, chair, session, mem, hydrated, task, streak>> /\ (Clean' => Clean)
    <3>1. UNCHANGED <<world, chair, session, mem, hydrated, task, streak>>
      BY <1>2 DEF beginDeleteSession, startAssistantShift, openShift, requestRuntimeReconcile,
         handlerFails
    <3>2. CASE beginDeleteSession \/ startAssistantShift \/ openShift
      BY <3>2 DEF beginDeleteSession, startAssistantShift, openShift, Clean, Handle, Enter, EnterFor,
         ApiRest
    <3>3. CASE requestRuntimeReconcile
      BY <3>3 DEF requestRuntimeReconcile, Clean
    <3>4. CASE handlerFails
      BY <3>4 DEF handlerFails, Clean, RowInv, QuietApi
    <3> QED
      BY <1>2, <3>1, <3>2, <3>3, <3>4
  <2>2. ActiveSession' = ActiveSession /\ Actives' = Actives
    BY <2>1, SameActiveSession, SameActives
  <2>3. task[Boot].at = "hydrating" => Early'
    BY <2>1, <2>2 DEF SteadyInv, Early
  <2> QED
    BY <2>1, <2>2, <2>3, SteadyQuiet DEF SteadyInv
<1> QED
  BY <1>1, <1>2, deleteSessionSteady, clearNoShiftStartBlocksSteady

-----------------------------------------------------------------------------
(***************************************************************************)
(* The clock: the time stamps of the rows, of the objects and of the       *)
(* readings grow old together.                                             *)
(***************************************************************************)
RowAges(r, q) ==
  /\ q.status = r.status /\ q.before = r.before /\ q.current = r.current
  /\ q.since = Older(r.since) /\ q.activeSince = Older(r.activeSince)

ObjectAges(m, n) ==
  \/ m = None /\ n = None
  \/ /\ m # None /\ n # None
     /\ n.enabled = m.enabled /\ n.status = m.status /\ n.current = m.current
     /\ n.session = m.session /\ n.blocked = m.blocked
     /\ n.since = Older(m.since) /\ n.activeSince = Older(m.activeSince)

ReadingsAge(x, y) == y.low = Older(x.low) /\ y.high = Older(x.high)

TaskAges(k, n) ==
  /\ n.at = k.at /\ n.then = k.then /\ n.power = k.power /\ n.online = k.online
  /\ n.session = k.session /\ n.write = Aging(k.write) /\ n.snap = OlderSince(k.snap)

LEMMA OldStaysOld ==
  /\ \A a, x : OldAs(a, x) => OldAs(Older(a), Older(x))
  /\ Older(None) = None /\ Older("elapsed") = "elapsed"
BY AgeAssumption DEF OldAs, Older

LEMMA AgingRow ==
  ASSUME NEW c \in ChairRow
  PROVE  RowAges(c, Aging(c)) /\ Aging(c) \in ChairRow
<1>1. DOMAIN c = {"enabled", "status", "before", "current", "activeSince", "since", "low", "online"}
  BY DEF ChairRow
<1>2. RowAges(c, Aging(c))
  BY <1>1 DEF RowAges, Aging
<1> QED
  BY <1>2, OlderRow

LEMMA AgingObject ==
  ASSUME NEW m \in ChairMem \cup {None}
  PROVE  ObjectAges(m, OlderSince(m))
<1>1. CASE m = None
  BY <1>1 DEF ObjectAges, OlderSince
<1>2. CASE m # None
  <2>1. DOMAIN m = {"enabled", "status", "current", "session", "activeSince", "since", "low",
                    "online", "blocked"}
    BY <1>2 DEF ChairMem
  <2> DEFINE o == Aging(m)
  <2>2. /\ o.enabled = m.enabled /\ o.status = m.status /\ o.current = m.current
        /\ o.session = m.session /\ o.blocked = m.blocked
        /\ o.since = Older(m.since) /\ o.activeSince = Older(m.activeSince)
    BY <2>1 DEF Aging
  <2>3. OlderSince(m) = o /\ OlderSince(m) # None
    BY <1>2, OlderMem DEF OlderSince
  <2> HIDE DEF o
  <2> QED
    BY <1>2, <2>2, <2>3 DEF ObjectAges
<1> QED
  BY <1>1, <1>2

LEMMA AgingRowToBe ==
  ASSUME NEW k, NEW n, TaskAges(k, n), NEW c \in ChairRow
  PROVE  RowAges(RowToBe(k, c), RowToBe(n, Aging(c))) /\ DOMAIN n.write = DOMAIN k.write
<1> DEFINE w == k.write
           v == Aging(w)
           d == Aging(c)
<1>1. /\ DOMAIN v = DOMAIN w
      /\ \A f \in DOMAIN w : v[f] = IF f \in {"since", "activeSince"} THEN Older(w[f]) ELSE w[f]
  BY DEF Aging
<1>2. n.write = v /\ n.at = k.at
  BY DEF TaskAges
<1>3. RowAges(c, d) /\ d \in ChairRow
  BY AgingRow
<1> HIDE DEF d, v
<1>4. RowAges(With(c, w), With(d, v))
  <2> DEFINE p == With(c, w)
             q == With(d, v)
             Col == {"enabled", "status", "before", "current", "activeSince", "since", "low", "online"}
  <2>1. /\ \A f \in Col : p[f] = IF f \in DOMAIN w THEN w[f] ELSE c[f]
        /\ \A f \in Col : q[f] = IF f \in DOMAIN v THEN v[f] ELSE d[f]
    BY <1>3, WithFields
  <2> HIDE DEF p, q, w
  <2> QED
    <3>1. /\ q.status = p.status /\ q.before = p.before /\ q.current = p.current
      BY <1>1, <1>3, <2>1 DEF RowAges
    <3>2. /\ q.since = Older(p.since) /\ q.activeSince = Older(p.activeSince)
      BY <1>1, <1>3, <2>1 DEF RowAges
    <3> QED
      BY <3>1, <3>2 DEF RowAges, p, q
<1>5. RowAges(RowToBe(k, c), RowToBe(n, d))
  BY <1>2, <1>3, <1>4 DEF RowToBe
<1> QED
  BY <1>1, <1>2, <1>5 DEF d

LEMMA TimedAges ==
  ASSUME NEW k, NEW n, TaskAges(k, n), NEW c \in ChairRow, k.snap \in ChairMem \cup {None},
         k.at = "hydrating" => Ready(k.snap),
         NEW m, NEW o, ObjectAges(m, o), NEW x, NEW y, ReadingsAge(x, y),
         TaskTimed(k, m, c, x), k.at \notin {"due", "hydrating"} => m # None
  PROVE  TaskTimed(n, o, Aging(c), y)
<1> DEFINE r == RowToBe(k, c)
           d == Aging(c)
           q == RowToBe(n, d)
           rising == Rising(k, m)
<1>1. RowAges(r, q) /\ DOMAIN n.write = DOMAIN k.write
  BY AgingRowToBe
<1>2. Rising(n, o) = rising
  <2>1. CASE k.at \in {"due", "hydrating"}
    BY <2>1 DEF Rising, TaskAges
  <2>2. CASE k.at \notin {"due", "hydrating"}
    BY <2>2 DEF Rising, TaskAges, ObjectAges
  <2> QED
    BY <2>1, <2>2
<1>3. /\ RowTimed(r, x, rising) /\ (m # None => ObjectTimed(m, r, x, rising))
      /\ StepTimed(k, m, c, x)
  BY DEF TaskTimed
<1>4. RowAges(c, d)
  BY AgingRow
<1> HIDE DEF r, q, d, rising
<1>5. RowTimed(q, y, rising)
  BY <1>1, <1>3, OldStaysOld DEF RowTimed, RowAges, ReadingsAge
<1>6. o # None => ObjectTimed(o, q, y, rising)
  <2> SUFFICES ASSUME o # None PROVE ObjectTimed(o, q, y, rising)
    OBVIOUS
  <2>1. /\ m # None /\ o.status = m.status /\ o.blocked = m.blocked
        /\ o.since = Older(m.since) /\ o.activeSince = Older(m.activeSince)
    BY DEF ObjectAges
  <2>2. /\ q.status = r.status /\ q.before = r.before /\ q.since = Older(r.since)
    BY <1>1 DEF RowAges
  <2>3. ObjectTimed(m, r, x, rising)
    BY <1>3, <2>1
  <2> QED
    BY <2>1, <2>2, <2>3, OldStaysOld DEF ObjectTimed, ReadingsAge
<1>7. StepTimed(n, o, d, y)
  <2>1. k.at = "hydrating" => SnapTimed(n.snap, d, y)
    <3> SUFFICES ASSUME k.at = "hydrating" PROVE SnapTimed(n.snap, d, y)
      OBVIOUS
    <3> DEFINE s == k.snap
    <3>1. s # None /\ SnapTimed(s, c, x) /\ ObjectAges(s, n.snap)
      BY <1>3, AgingObject DEF StepTimed, TaskAges, Ready
    <3> HIDE DEF s
    <3>2. /\ n.snap.status = s.status /\ n.snap.blocked = s.blocked
          /\ n.snap.since = Older(s.since) /\ n.snap.activeSince = Older(s.activeSince)
      BY <3>1 DEF ObjectAges
    <3> QED
      BY <1>4, <3>1, <3>2, OldStaysOld DEF SnapTimed, RowAges, ReadingsAge
  <2>2. x.high = "elapsed" => y.high = "elapsed"
    BY OldStaysOld DEF ReadingsAge
  <2>3. x.low = "elapsed" => y.low = "elapsed"
    BY OldStaysOld DEF ReadingsAge
  <2>4. k.at \notin {"due", "hydrating"} => o.status = m.status /\ o.blocked = m.blocked
    BY DEF ObjectAges
  <2>5. d.status = c.status /\ (c.since = None => d.since = None)
    BY <1>4, OldStaysOld DEF RowAges
  <2>6. /\ n.at = k.at /\ n.then = k.then /\ n.online = k.online
    BY DEF TaskAges
  <2> QED
    BY <1>1, <1>3, <2>1, <2>2, <2>3, <2>4, <2>5, <2>6 DEF StepTimed, StartStep
<1> QED
  BY <1>2, <1>5, <1>6, <1>7 DEF TaskTimed, q, d

LEMMA AgreesAges ==
  ASSUME NEW m, NEW o, ObjectAges(m, o), NEW c, NEW d, RowAges(c, d), NEW a, Agrees(m, c, a)
  PROVE  Agrees(o, d, a)
BY DEF Agrees, Ready, ObjectAges, RowAges

LEMMA TaskAgreesAges ==
  ASSUME NEW k, NEW n, TaskAges(k, n), NEW c \in ChairRow, k.snap \in ChairMem \cup {None},
         NEW m, NEW o, ObjectAges(m, o), NEW a, NEW loaded,
         TaskAgrees(k, m, c, a, loaded)
  PROVE  TaskAgrees(n, o, Aging(c), a, loaded)
<1> DEFINE d == Aging(c)
<1>1. RowAges(RowToBe(k, c), RowToBe(n, d)) /\ RowAges(c, d)
  BY AgingRowToBe, AgingRow
<1>2. n.at = k.at /\ n.session = k.session
  BY DEF TaskAges
<1> HIDE DEF d
<1>3. CASE k.at = "hydrating"
  <2>1. ObjectAges(k.snap, n.snap) /\ Agrees(k.snap, c, a)
    BY <1>3, AgingObject DEF TaskAges, TaskAgrees
  <2>2. Agrees(n.snap, d, a)
    BY <1>1, <2>1, AgreesAges
  <2> QED
    BY <1>2, <1>3, <2>2 DEF TaskAgrees, d
<1>4. CASE k.at = "created"
  BY <1>1, <1>2, <1>4 DEF TaskAgrees, RowAges, d
<1>5. CASE k.at \in {"forgetting", "ended"}
  BY <1>1, <1>2, <1>5 DEF TaskAgrees, RowAges, d
<1>6. CASE k.at \in {"recovering", "reviewing"}
  BY <1>2, <1>6 DEF TaskAgrees
<1>7. CASE k.at \notin {"hydrating", "created", "forgetting", "ended", "recovering", "reviewing"}
  <2>1. loaded => Agrees(m, RowToBe(k, c), a)
    BY <1>7 DEF TaskAgrees
  <2>2. loaded => Agrees(o, RowToBe(n, d), a)
    BY <1>1, <2>1, AgreesAges
  <2> QED
    BY <1>2, <1>7, <2>2 DEF TaskAgrees, d
<1> QED
  BY <1>3, <1>4, <1>5, <1>6, <1>7

LEMMA timePassesSteady ==
  ASSUME RuntimeTyped, RowInv, SteadyInv, timePasses
  PROVE  SteadyInv'
<1>1. /\ chair \in ChairRow /\ mem \in ChairMem \cup {None}
      /\ UNCHANGED <<world, session, hydrated, requested, api>>
      /\ chair' = Aging(chair) /\ mem' = OlderSince(mem)
  BY DEF RuntimeTyped, RowsTyped, MemTyped, timePasses
<1>2. RowAges(chair, chair') /\ ObjectAges(mem, mem')
  BY <1>1, AgingRow, AgingObject
<1>3. ReadingsAge(streak, streak')
  BY DEF RuntimeTyped, ServerTyped, ReadingsAge, timePasses
<1>4. \A u \in Tick \cup {Boot} :
        TaskAges(task[u], task'[u]) /\ task[u].snap \in ChairMem \cup {None}
  <2>1. ASSUME NEW u \in Tick \cup {Boot}
        PROVE  TaskAges(task[u], task'[u]) /\ task[u].snap \in ChairMem \cup {None}
    <3> DEFINE k == task[u]
               n == [k EXCEPT !.own = OlderSince(k.own), !.snap = OlderSince(k.snap),
                              !.write = Aging(k.write)]
    <3>1. Carries(k)
      BY DEF RuntimeTyped, TasksTyped
    <3>2. task'[u] = n
      BY DEF RuntimeTyped, TasksTyped, timePasses
    <3> HIDE DEF k
    <3>3. /\ n.snap = OlderSince(k.snap) /\ n.write = Aging(k.write)
          /\ \A f \in TaskField \ {"own", "snap", "write"} : n[f] = k[f]
      BY <3>1 DEF Carries, TaskField
    <3> HIDE DEF n
    <3>4. TaskAges(k, n) /\ k.snap \in ChairMem \cup {None}
      BY <3>1, <3>3 DEF TaskAges, TaskField, Carries
    <3> QED
      BY <3>2, <3>4 DEF k
  <2> QED
    BY <2>1
<1>5. ActiveSession' = ActiveSession /\ Actives' = Actives
  BY <1>1, SameActiveSession, SameActives
<1>6. Steady' /\ (Clean' => Clean) /\ (hydrated' => Ready(mem'))
  BY <1>1, <1>2 DEF SteadyInv, Steady, Calm, Clean, Ready, ObjectAges
<1>7. \A u \in Tick : task'[u].at = task[u].at /\ (Turn(u)' => Turn(u))
  BY <1>4 DEF TaskAges, Turn
<1>8. \A u \in Tick : TaskReady(task'[u], hydrated')
  <2>1. ASSUME NEW u \in Tick PROVE TaskReady(task'[u], hydrated')
    <3> DEFINE k == task[u]
               n == task'[u]
    <3>1. TaskReady(k, hydrated) /\ TaskAges(k, n) /\ k.snap \in ChairMem \cup {None}
      BY <1>4 DEF SteadyInv
    <3>2. ObjectAges(k.snap, n.snap)
      BY <3>1, AgingObject DEF TaskAges
    <3> HIDE DEF k, n
    <3>3. TaskReady(n, hydrated)
      BY <3>1, <3>2 DEF TaskReady, TaskAges, Ready, ObjectAges
    <3> QED
      BY <1>1, <3>3 DEF n
  <2> QED
    BY <2>1
<1>9. \A u \in Tick : Turn(u)' => TaskTimed(task'[u], mem', chair', streak')
  <2>1. ASSUME NEW u \in Tick, Turn(u)' PROVE TaskTimed(task'[u], mem', chair', streak')
    <3>1. /\ TaskTimed(task[u], mem, chair, streak) /\ TaskReady(task[u], hydrated)
          /\ TaskAges(task[u], task'[u]) /\ task[u].snap \in ChairMem \cup {None}
      BY <1>4, <1>7, <2>1 DEF SteadyInv
    <3>2. /\ task[u].at \notin {"due", "hydrating"} => mem # None
          /\ task[u].at = "hydrating" => Ready(task[u].snap)
      BY <3>1 DEF SteadyInv, TaskReady, Ready
    <3>3. TaskTimed(task'[u], mem', Aging(chair), streak')
      BY <1>1, <1>2, <1>3, <3>1, <3>2, TimedAges
    <3> QED
      BY <1>1, <3>3
  <2> QED
    BY <2>1
<1>10. Clean' => \A u \in Tick : Turn(u)' =>
                   TaskAgrees(task'[u], mem', chair', ActiveSession', hydrated')
  <2>1. ASSUME Clean', NEW u \in Tick, Turn(u)'
        PROVE  TaskAgrees(task'[u], mem', chair', ActiveSession', hydrated')
    <3>1. /\ TaskAgrees(task[u], mem, chair, ActiveSession, hydrated)
          /\ TaskAges(task[u], task'[u]) /\ task[u].snap \in ChairMem \cup {None}
      BY <1>4, <1>6, <1>7, <2>1 DEF SteadyInv
    <3>2. TaskAgrees(task'[u], mem', Aging(chair), ActiveSession, hydrated)
      BY <1>1, <1>2, <3>1, TaskAgreesAges
    <3> QED
      BY <1>1, <1>5, <3>2
  <2> QED
    BY <2>1
<1>11. (task[Boot].at = "hydrating" => Early)'
  <2> SUFFICES ASSUME task'[Boot].at = "hydrating" PROVE Early'
    OBVIOUS
  <2>1. TaskAges(task[Boot], task'[Boot]) /\ task[Boot].snap \in ChairMem \cup {None}
    BY <1>4
  <2>2. task[Boot].at = "hydrating" /\ Early
    BY <2>1 DEF TaskAges, SteadyInv
  <2>3. /\ chair'.status = "IDLE" /\ chair'.current = None /\ chair'.since = None
    BY <1>2, <2>2, OldStaysOld DEF Early, RowAges
  <2>4. ObjectAges(task[Boot].snap, task'[Boot].snap)
    BY <2>1, AgingObject DEF TaskAges
  <2>5. Agrees(task'[Boot].snap, chair', None)
    BY <1>2, <2>2, <2>4, AgreesAges DEF Early
  <2>6. ~task'[Boot].snap.blocked
    BY <2>2, <2>4 DEF Early, ObjectAges, Agrees, Ready
  <2>7. \A u \in Tick : task'[u].at \in {"due", "hydrating", "scanning"}
    BY <1>7, <2>2 DEF Early
  <2> QED
    BY <1>5, <2>2, <2>3, <2>5, <2>6, <2>7 DEF Early
<1> QED
  BY <1>6, <1>8, <1>9, <1>10, <1>11 DEF SteadyInv

-----------------------------------------------------------------------------
(***************************************************************************)
(* What cannot happen here: a reading of a chair the cache does not have,  *)
(* or has as disabled; a failing call; a restart.                          *)
(***************************************************************************)
LEMMA excludedSteady ==
  ASSUME SteadyInv
  PROVE  ~restart /\ \A t : ~databaseFails(t)
BY DEF SteadyInv, Steady, restart, databaseFails

LEMMA unknownSteady ==
  ASSUME RuntimeTyped, RowInv, SteadyInv, NEW t \in Tick
  PROVE  ~unknownChair(t) /\ ~disabledChair(t)
<1>1. task[t].at = "fetched" => mem # None /\ Ready(mem)
  BY FetchedSteady
<1> QED
  BY <1>1 DEF unknownChair, disabledChair, At, Ready

LEMMA InitSteady ==
  ASSUME RuntimeTyped, RowInv, Init, Steady
  PROVE  SteadyInv
<1>1. Actives = {} /\ ActiveSession = None
  BY DEF Init, Actives, ActiveSession
<1>2. /\ chair.status = "IDLE" /\ chair.current = None /\ chair.since = None
      /\ mem = None /\ hydrated = FALSE /\ task = Booting
  BY DEF Init
<1>3. \A t \in Tick : task[t] = Rest
  BY <1>2, RuntimeAssumption DEF Booting
<1>4. task[Boot].snap = FromRows
  BY <1>2 DEF Booting, Rest
<1>5. Early
  <2>1. Agrees(FromRows, chair, None) /\ ~FromRows.blocked
    BY <1>1, FromRowsSteady
  <2>2. Rest.at = "due"
    BY DEF Rest
  <2> QED
    BY <1>1, <1>2, <1>3, <1>4, <2>1, <2>2 DEF Early
<1>6. TaskReady(Rest, hydrated)
  BY DEF TaskReady, Rest
<1>7. TaskTimed(Rest, mem, chair, streak)
  <2>1. RowTimed(chair, streak, FALSE)
    BY <1>2 DEF RowTimed, OldAs
  <2>2. Rest.at = "due"
    BY DEF Rest
  <2>3. StepTimed(Rest, mem, chair, streak)
    BY <2>2 DEF StepTimed, StartStep
  <2> QED
    BY <1>2, <2>1, <2>2, <2>3, PlainTimed
<1>8. TaskAgrees(Rest, mem, chair, ActiveSession, hydrated)
  BY <1>2 DEF TaskAgrees, Rest
<1> QED
  BY <1>2, <1>3, <1>5, <1>6, <1>7, <1>8 DEF SteadyInv

LEMMA NextSteady ==
  ASSUME RuntimeTyped, RowInv, SteadyInv, [Next]_vars
  PROVE  SteadyInv'
<1>1. ASSUME NEW t \in Tick, Reconciliation(t) PROVE SteadyInv'
  BY <1>1, readsSteady, hydrateSteady, recoverChairSessionSteady, applyRecoveryDecisionSteady,
     forgetRecoveredSteady DEF Reconciliation
<1>2. ASSUME NEW t \in Tick, Reading(t) PROVE SteadyInv'
  BY <1>2, unknownSteady, sampleOnlySteady, idleToMaybeActiveSteady, maybeActiveToIdleSteady,
     activeToMaybeFinishedSteady, maybeFinishedToActiveSteady, handleOfflineSteady,
     beginOnlineRecoverySteady, handleOnlineRecoverySteady, writeRowSteady DEF Reading
<1>3. ASSUME NEW t \in Tick, StartOrEnd(t) PROVE SteadyInv'
  BY <1>3, beginStartSteady, startingSteady, createSessionSteady, bindCreatedSteady,
     beginEndSteady, seekSessionSteady, finalizeActiveSessionSteady, clearEndedSteady
     DEF StartOrEnd
<1>4. ASSUME NEW t \in Tick, Work(t) PROVE SteadyInv'
  BY <1>1, <1>2, <1>3, <1>4, pollSteady DEF Work
<1>5. ASSUME NEW t \in Tick, fetchFails(t) PROVE SteadyInv'
  BY <1>5, fetchFailsSteady
<1>6. CASE hydrateRuntimeCache(Boot)
  BY <1>6, bootSteady
<1>7. CASE Request \/ Respond \/ handlerFails
  BY <1>7, handlersSteady
<1>8. CASE timePasses
  BY <1>8, timePassesSteady
<1>9. CASE UNCHANGED vars
  <2>1. UNCHANGED <<task, world, hydrated, mem, chair, session, streak, requested, api>>
    BY <1>9 DEF vars
  <2>2. ActiveSession' = ActiveSession /\ Actives' = Actives
    BY <2>1, SameActiveSession, SameActives
  <2>3. (Clean' => Clean) /\ (task[Boot].at = "hydrating" => Early')
    BY <2>1, <2>2 DEF Clean, SteadyInv, Early
  <2> QED
    BY <2>1, <2>2, <2>3, SteadyQuiet DEF SteadyInv
<1> QED
  BY <1>4, <1>5, <1>6, <1>7, <1>8, <1>9, excludedSteady DEF Next

(***************************************************************************)
(* All of it, in any world.                                                *)
(***************************************************************************)
ServerInv == RuntimeTyped /\ (Calm => RowInv) /\ (Steady => SteadyInv)

LEMMA ServerInvHolds == Spec => []ServerInv
<1>1. Init => ServerInv
  BY InitTyped, InitTracks, InitSteady DEF ServerInv, Steady
<1>2. ServerInv /\ [Next]_vars => ServerInv'
  <2> SUFFICES ASSUME ServerInv, [Next]_vars PROVE ServerInv'
    OBVIOUS
  <2>1. RuntimeTyped'
    BY NextTyped DEF ServerInv
  <2>2. world' = world
    BY WorldStays
  <2>3. (Calm' => Calm) /\ (Steady' => Steady) /\ (Steady => Calm)
    BY <2>2 DEF Calm, Steady
  <2>4. Calm' => RowInv'
    BY <2>3, NextTracks DEF ServerInv
  <2>5. Steady' => SteadyInv'
    BY <2>3, NextSteady DEF ServerInv
  <2> QED
    BY <2>1, <2>4, <2>5 DEF ServerInv
<1> QED
  BY <1>1, <1>2, PTL DEF Spec

LEMMA SteadyAgrees ==
  ASSUME RuntimeTyped, RowInv, SteadyInv
  PROVE  MemoryAgrees
<1> SUFFICES ASSUME Quiet PROVE chair.enabled /\ Agrees(mem, chair, ActiveSession)
  BY DEF MemoryAgrees, Agrees, Ready
<1>1. chair.enabled
  BY DEF RowInv
<1>2. \A t \in Tick : task[t].at \in {"due", "over"}
  BY DEF Quiet, RuntimeTyped, TasksTyped
<1>3. Tick # {}
  BY RuntimeAssumption, FS_EmptySet
<1>4. PICK t \in Tick : Turn(t)
  BY <1>3 DEF Turn
<1>5. TaskAgrees(task[t], mem, chair, ActiveSession, hydrated) /\ hydrated
  BY <1>4 DEF SteadyInv, Clean, Quiet
<1>6. Agrees(mem, chair, ActiveSession)
  BY <1>2, <1>5 DEF TaskAgrees, RowToBe
<1> QED
  BY <1>1, <1>6

-----------------------------------------------------------------------------
(***************************************************************************)
(* Which steps change the status of a session, and what they find.         *)
(***************************************************************************)
Debounced ==
  \A s \in Session : Steady /\ session'[s].status # session[s].status =>
    /\ session'[s].status = "ACTIVE" => streak.high = "elapsed"
    /\ session'[s].status = "COMPLETED" => streak.low = "elapsed"

LEMMA SessionsStay == UNCHANGED session => Debounced
BY DEF Debounced

LEMMA EndsDebounced ==
  ASSUME RuntimeTyped, NEW s, NEW x \in {"COMPLETED", "CANCELLED", "UNCERTAIN"},
         x = "COMPLETED" => streak.low = "elapsed",
         session' = [session EXCEPT ![s].status = x]
  PROVE  Debounced
<1>1. session \in [Session -> SessionRow]
  BY DEF RuntimeTyped, RowsTyped
<1>2. \A u \in Session : session'[u].status \in {x, session[u].status}
  BY <1>1 DEF SessionRow
<1> QED
  BY <1>2 DEF Debounced

LEMMA recoveryDebounced ==
  ASSUME RuntimeTyped, RowInv, SteadyInv, NEW t \in Tick,
         applyRecoveryDecision(t) \/ finalizeActiveSession(t)
  PROVE  Debounced
<1>1. /\ task[t].at \in {"recovering", "reviewing", "ending"}
      /\ StepTimed(task[t], mem, chair, streak)
  BY TurnSteady DEF applyRecoveryDecision, finalizeActiveSession, At, TaskTimed
<1>2. task[t].at # "reviewing" => streak.low = "elapsed"
  BY <1>1 DEF StepTimed
<1>3. CASE Finalized(task[t].session) /\ task[t].at # "reviewing"
  BY <1>2, <1>3, EndsDebounced DEF Finalized
<1>4. CASE markSessionNeedsReview(task[t].session)
  BY <1>4, EndsDebounced DEF markSessionNeedsReview
<1>5. CASE UNCHANGED session
  BY <1>5, SessionsStay
<1> QED
  BY <1>3, <1>4, <1>5 DEF applyRecoveryDecision, finalizeActiveSession, At

LEMMA createDebounced ==
  ASSUME RuntimeTyped, RowInv, SteadyInv, NEW t \in Tick, createSession(t)
  PROVE  Debounced
<1>1. task[t].at = "creating" /\ StepTimed(task[t], mem, chair, streak)
  BY TurnSteady DEF createSession, At, TaskTimed
<1>2. streak.high = "elapsed"
  BY <1>1 DEF StepTimed, StartStep
<1>3. CASE UNCHANGED session
  BY <1>3, SessionsStay
<1>4. ASSUME NEW s \in Session, Started(s, task[t].open) PROVE Debounced
  <2>1. session \in [Session -> SessionRow]
    BY DEF RuntimeTyped, RowsTyped
  <2>2. \A u \in Session : session'[u].status \in {"ACTIVE", session[u].status}
    BY <1>4, <2>1 DEF Started
  <2> QED
    BY <1>2, <2>2 DEF Debounced
<1> QED
  BY <1>3, <1>4 DEF createSession

LEMMA writeDebounced ==
  ASSUME RuntimeTyped, NEW t, writeRow(t)
  PROVE  Debounced
<1>1. session \in [Session -> SessionRow]
  BY DEF RuntimeTyped, RowsTyped
<1>2. \A u \in Session : session'[u].status = session[u].status
  BY <1>1 DEF writeRow, SessionRow
<1> QED
  BY <1>2 DEF Debounced

LEMMA handlersDebounced ==
  ASSUME RuntimeTyped, RowInv, Request \/ Respond \/ handlerFails
  PROVE  Debounced
<1>1. CASE deleteSession
  BY <1>1, EndsDebounced DEF deleteSession
<1>2. CASE recoverForHandler
  BY <1>2 DEF recoverForHandler, RowInv, QuietApi
<1>3. CASE ~deleteSession /\ ~recoverForHandler
  <2>1. UNCHANGED session
    BY <1>3 DEF Request, Respond, handlerFails, forgetForHandler, checkStillActive,
       writeDisabled, syncChairDisabledInRuntime, syncChairEnabledInRuntime,
       clearNoShiftStartBlocks, closeShift, requestRuntimeReconcile, prepareChairForDisable,
       writeEnabled, beginDeleteSession, startAssistantShift, openShift, beginCloseShift
  <2> QED
    BY <2>1, SessionsStay
<1> QED
  BY <1>1, <1>2, <1>3

LEMMA NextDebounced ==
  ASSUME RuntimeTyped, RowInv, SteadyInv, [Next]_vars
  PROVE  Debounced
<1>1. ASSUME NEW t \in Tick, Reconciliation(t), ~applyRecoveryDecision(t) PROVE UNCHANGED session
  BY <1>1 DEF Reconciliation, beginFirstHydrate, flushDirtyLiveState, beginReconcile,
     hydrateRuntimeCache, recoverChairSession, forgetRecovered
<1>2. ASSUME NEW t \in Tick, Reading(t), ~writeRow(t) PROVE UNCHANGED session
  BY <1>2 DEF Reading, Process, unknownChair, disabledChair, sampleOnly, idleToMaybeActive,
     maybeActiveToIdle, activeToMaybeFinished, maybeFinishedToActive, handleOffline,
     beginOnlineRecovery, handleOnlineRecovery
<1>3. ASSUME NEW t \in Tick, StartOrEnd(t), ~createSession(t), ~finalizeActiveSession(t)
      PROVE  UNCHANGED session
  BY <1>3 DEF StartOrEnd, Process, beginStart, adoptOrResolve, resolveOpenShiftForSession,
     blockOrCreate, bindCreated, beginEnd, seekSession, clearEnded
<1>4. ASSUME NEW t \in Tick, Work(t) PROVE Debounced
  <2>1. CASE poll(t)
    BY <2>1, SessionsStay DEF poll
  <2> QED
    BY <1>1, <1>2, <1>3, <1>4, <2>1, SessionsStay, recoveryDebounced, writeDebounced,
       createDebounced DEF Work
<1>5. ASSUME NEW t \in Tick, fetchFails(t) PROVE Debounced
  BY <1>5, SessionsStay DEF fetchFails
<1>6. CASE hydrateRuntimeCache(Boot) \/ timePasses \/ UNCHANGED vars
  BY <1>6, SessionsStay DEF hydrateRuntimeCache, timePasses, vars
<1>7. CASE Request \/ Respond \/ handlerFails
  BY <1>7, handlersDebounced
<1> QED
  BY <1>4, <1>5, <1>6, <1>7, excludedSteady DEF Next

-----------------------------------------------------------------------------
(***************************************************************************)
(* Between two polls, with no request waiting, the object of the cache     *)
(* says the same as the rows of the chair and of its session, though polls *)
(* change the object before the row, handlers and recoveries the rows      *)
(* before the object, and reconciliations replace the object while a       *)
(* handler is at work (chair-runtime-cache.ts, hydrateRuntimeCache;        *)
(* chair-state.service.ts).  For a chair nobody disables, on a server that *)
(* keeps running with its database.                                        *)
(***************************************************************************)
THEOREM CacheKeepsUp == Spec => []CacheAgrees
<1>1. ServerInv => CacheAgrees
  BY SteadyAgrees DEF ServerInv, CacheAgrees, Steady
<1> QED
  BY <1>1, ServerInvHolds, PTL

(***************************************************************************)
(* No session starts before the readings have been high for the whole      *)
(* start delay, and none completes before they have been low for the whole *)
(* stop delay, be it a poll or the recovery of a stale session that ends   *)
(* it, and whatever reconciliations, archived sessions, blocked starts and *)
(* silent plugs come in between (chair-state.service.ts,                   *)
(* decideTransition; session-stale-recovery.service.ts).  In the same      *)
(* worlds as CacheKeepsUp.                                                 *)
(***************************************************************************)
THEOREM SessionsDebounce == Spec => PollsDebounce
<1>1. ServerInv /\ [Next]_vars => Debounced
  BY NextDebounced DEF ServerInv, Debounced, Steady
<1>2. ServerInv /\ [Next]_vars => [Debounced]_vars
  BY <1>1
<1>3. Spec => [][Debounced]_vars
  BY <1>2, ServerInvHolds, PTL DEF Spec
<1> QED
  BY <1>3 DEF PollsDebounce, Debounced
=============================================================================
