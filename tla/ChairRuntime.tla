---------------------------- MODULE ChairRuntime ----------------------------
(***************************************************************************)
(* One massage chair as the server follows it: the readings of its smart   *)
(* plug, polled every few seconds, drive a debounced state machine that    *)
(* starts and ends sessions (modules/chairs, jobs/shelly-sync.job.ts,      *)
(* modules/sessions/session-stale-recovery.service.ts).  The machine runs  *)
(* on an object in memory and writes to the database only when the status  *)
(* changes, so the same chair lives in two places:                         *)
(*                                                                         *)
(*   - the row of the chair and the rows of its sessions, which the HTTP   *)
(*     handlers and the jobs change as well, and                           *)
(*   - the object in the runtime cache, replaced by every reconciliation.  *)
(*                                                                         *)
(* The server is one process: an action is what runs between two awaits.   *)
(* A database call and the code after it are one action, except where a    *)
(* value that was read is used after another await.  The timer starts a    *)
(* poll whether or not the last one is over, so polls overlap.  A poll     *)
(* that still works on an object the cache has replaced owns a copy.       *)
(***************************************************************************)
EXTENDS FiniteSets

CONSTANTS
  Session,    \* identities of session rows; one nobody refers to is reused
  Tick,       \* polls that may be in progress at the same time
  Boot,       \* the loading of the cache when the server starts
  None,       \* a null column or reference
  World       \* the worlds to look at, see AllWorlds

AllHandlers == {"disable", "archive", "assistantShift", "adminShift", "closeShift"}

AllFaults ==
  {"database",  \* a call of a poll fails, and the poll with it
   "cloud",     \* the cloud of the plugs does not answer, and a poll ends without a reading
   "handler",   \* a call of an HTTP handler fails, and the handler with it
   "crash",     \* the server stops and starts again
   "slowLoad",  \* the loading at the start outlasts the first poll
   "overlap",   \* a poll outlasts the interval between two ticks
   "slowPoll",  \* a poll, or the loading at the start, outlasts a confirmation delay
   "slowHandler", \* an HTTP handler does
   "till",      \* the ledger refuses the payment of a session without a shift
   "prime"}     \* the prime of the shift is refused after the session ended

(***************************************************************************)
(* A world: whether SELF_START_SHIFT_ENABLED is set, so that no session    *)
(* starts without an open shift, what users and jobs do, what may fail.    *)
(***************************************************************************)
AllWorlds == [selfStart: BOOLEAN, handlers: SUBSET AllHandlers, faults: SUBSET AllFaults]

ASSUME RuntimeAssumption ==
  /\ IsFiniteSet(Session) /\ IsFiniteSet(Tick) /\ Cardinality(Tick) \in {1, 2}
  /\ Boot \notin Tick
  /\ None \notin Session
  /\ World \subseteq AllWorlds

VARIABLES
  world,      \* the world this is; rigid
  chair,      \* row of the chair
  session,    \* rows of its sessions
  mem,        \* object of the chair in the runtime cache, None if it has none
  hydrated,   \* the cache has been loaded
  requested,  \* reconcileRequested
  shiftOpen,  \* a shift of the shop is OPEN
  task,       \* where each poll, and the loading at start, has got to
  api,        \* where the HTTP handler in progress has got to
  streak      \* of the readings processed: how long they have all been high, or
              \* all low, and whether the last one said that the plug is silent

vars == <<world, chair, session, mem, hydrated, requested, shiftOpen, task, api, streak>>

------------------------------------------------------------------------------
Status == {"IDLE", "MAYBE_ACTIVE", "ACTIVE", "MAYBE_FINISHED", "OFFLINE"}

\* Below the stop threshold, from the start threshold on, or in between.
Power == {"low", "mid", "high"}

(***************************************************************************)
(* Age of a time stamp: shorter or longer than the confirmation delay it   *)
(* is compared with.  TimePasses makes the recent ones old.                *)
(***************************************************************************)
Age == {None, "recent", "elapsed"}

ChairRow ==
  [enabled: BOOLEAN, status: Status, before: Status \cup {None},
   current: Session \cup {None}, activeSince: Age, since: Age,
   low: BOOLEAN, online: BOOLEAN]

SessionRow ==
  [status: {"NONE", "ACTIVE", "COMPLETED", "CANCELLED", "UNCERTAIN"},
   orphan: BOOLEAN, dipped: BOOLEAN]

ChairMem ==
  [enabled: BOOLEAN, status: Status, current: Session \cup {None},
   session: Session \cup {None}, activeSince: Age, since: Age,
   low: BOOLEAN, online: BOOLEAN, blocked: BOOLEAN]

\* None is no object, and no age of a time stamp.
ASSUME MemAssumption == None \notin ChairMem
ASSUME AgeAssumption == None \notin {"recent", "elapsed"}

TickStep ==
  {"due", "over", "hydrating", "scanning", "recovering", "reviewing", "forgetting",
   "polling", "fetched", "writing", "restoring", "starting", "resolving",
   "deciding", "creating", "created", "seeking", "ending", "ended"}

(***************************************************************************)
(* What a poll carries: the reading, whether the chair object it works on  *)
(* is the one in the cache or one it owns, what it is about to write or    *)
(* install, the session it handles and what comes after (then).            *)
(***************************************************************************)
\* Nothing to write.
NoColumns == [c \in {} |-> None]

Rest == [at |-> "due", power |-> None, online |-> FALSE, holds |-> "nothing", own |-> None,
         write |-> NoColumns, snap |-> None, session |-> None, open |-> FALSE, then |-> None]

Over == [Rest EXCEPT !.at = "over"]

ApiRest == [at |-> "idle", session |-> None, then |-> None]

ApiStep == {"idle", "finalizing", "reviewing", "forgetting", "checking", "disabling",
            "disabled", "enabling", "archiving", "clearing", "closing", "responding"}

\* A row with the columns that are written.
With(row, columns) ==
  [c \in DOMAIN row |-> IF c \in DOMAIN columns THEN columns[c] ELSE row[c]]

TypeOK ==
  /\ chair \in ChairRow
  /\ session \in [Session -> SessionRow]
  /\ mem \in ChairMem \cup {None}
  /\ hydrated \in BOOLEAN /\ requested \in BOOLEAN /\ shiftOpen \in BOOLEAN
  /\ DOMAIN task = Tick \cup {Boot}
  /\ \A t \in DOMAIN task :
       /\ task[t].at \in TickStep
       /\ task[t].power \in Power \cup {None}
       /\ task[t].holds \in {"nothing", "entry", "own"}
       /\ task[t].holds = "entry" => mem # None
       /\ task[t].holds = "own" <=> task[t].own # None
       /\ task[t].own \in ChairMem \cup {None}
       /\ task[t].snap \in ChairMem \cup {None}
       /\ task[t].session \in Session \cup {None}
       /\ task[t].at = "writing" => With(chair, task[t].write) \in ChairRow
  /\ api \in [at: ApiStep, session: Session \cup {None}, then: ApiStep \cup {None}]
  /\ streak \in [high: Age, low: Age, silent: BOOLEAN]
  /\ world \in AllWorlds

------------------------------------------------------------------------------
Actives == {s \in Session : session[s].status = "ACTIVE"}

ActiveSession == IF Actives = {} THEN None ELSE CHOOSE s \in Actives : TRUE

FromRowsUnstamped ==                                        \* mutant of FromRows
  IF chair.enabled
  THEN [enabled |-> TRUE, status |-> chair.status,
        current |-> IF chair.current # None THEN chair.current ELSE ActiveSession,
        session |-> ActiveSession, activeSince |-> None, since |-> None,
        low |-> chair.low, online |-> chair.online, blocked |-> FALSE]
  ELSE None

\* The object hydrateRuntimeCache makes from the rows: none for a disabled chair.
FromRows ==
  IF chair.enabled
  THEN [enabled |-> TRUE, status |-> chair.status,
        current |-> IF chair.current # None THEN chair.current ELSE ActiveSession,
        session |-> ActiveSession, activeSince |-> chair.activeSince,
        since |-> chair.since, low |-> chair.low, online |-> chair.online,
        blocked |-> FALSE]
  ELSE None

(***************************************************************************)
(* carryOverRuntimeState: the live power and the start block survive the   *)
(* replacement.                                                            *)
(***************************************************************************)
carryOverRuntimeState(prev, next) ==
  IF prev = None \/ next = None THEN next
  ELSE [next EXCEPT !.low = prev.low, !.online = prev.online,
                    !.blocked = prev.blocked /\ next.status = "IDLE"]

\* The object poll t works on.
Held(t) == IF task[t].holds = "entry" THEN mem ELSE task[t].own

\* Poll t goes on as k after setting its object to m.
SetHeld(t, m, k) ==
  IF task[t].holds = "entry"
  THEN mem' = m /\ task' = [task EXCEPT ![t] = [k EXCEPT !.holds = "entry", !.own = None]]
  ELSE mem' = mem /\ task' = [task EXCEPT ![t] = [k EXCEPT !.holds = "own", !.own = m]]

\* The other polls keep the object that m replaces in the cache.
Replace(m, t, k) ==
  /\ mem' = m
  /\ task' = [u \in DOMAIN task |->
                IF u = t THEN k
                ELSE IF task[u].holds = "entry"
                     THEN [task[u] EXCEPT !.holds = "own", !.own = mem]
                     ELSE task[u]]

\* upsertChairMem: the object of poll t, now m, is the one of the cache.
upsertChairMem(t, m, k) ==
  IF task[t].holds = "entry" THEN mem' = m /\ task' = [task EXCEPT ![t] = k]
  ELSE Replace(m, t, k)

bindSessionMem(m, s) == [m EXCEPT !.current = s, !.session = s]

clearSessionMem(m) == [m EXCEPT !.current = None, !.session = None]

disabledChairMemPatch(m) ==
  [clearSessionMem(m) EXCEPT !.enabled = FALSE, !.blocked = FALSE, !.status = "IDLE",
                             !.since = None, !.activeSince = None]

\* finalizeActiveSession, its transaction: whatever the status of the session was.
Finalized(s) ==
  /\ session' = [session EXCEPT ![s].status = "COMPLETED"]
  /\ chair' = [chair EXCEPT !.status = "IDLE", !.current = None, !.since = None,
                            !.activeSince = None, !.online = TRUE]

MarkedUnknownStatus(s) ==                                   \* mutant of markSessionNeedsReview
  /\ session' = [session EXCEPT ![s].status = "NEEDS_REVIEW"]
  /\ chair' = [chair EXCEPT !.status = "IDLE", !.current = None, !.since = None,
                            !.activeSince = None]

markSessionNeedsReview(s) ==
  /\ session' = [session EXCEPT ![s].status = "UNCERTAIN"]
  /\ chair' = [chair EXCEPT !.status = "IDLE", !.current = None, !.since = None,
                            !.activeSince = None]

------------------------------------------------------------------------------
(***************************************************************************)
(* Stale recovery judges an ACTIVE session by the row of its chair and the *)
(* live power (of the cache if the chair is in it).                        *)
(***************************************************************************)
livePowerIsLow == IF mem # None THEN mem.low ELSE chair.low

isBlockingActiveSession ==
  \/ chair.status = "MAYBE_ACTIVE"
  \/ chair.status \in {"ACTIVE", "MAYBE_FINISHED"} /\ ~livePowerIsLow

hasReliableEnd(s) == chair.since # None \/ session[s].dipped

\* aged: the session began hours ago (1 for the second rule, 12 for the third).
evaluateStaleSessionRecovery(s, aged) ==
  LET orphaned == session[s].orphan /\ ~shiftOpen
  IN  IF ~session[s].orphan /\ isBlockingActiveSession THEN "none"
      ELSE IF \/ /\ chair.status = "MAYBE_FINISHED"
                 /\ chair.since = "elapsed"
                 /\ livePowerIsLow \/ session[s].dipped
              \/ orphaned /\ aged /\ livePowerIsLow /\ chair.since = "elapsed"
           THEN "finalize"
           ELSE IF orphaned /\ aged /\ ~hasReliableEnd(s) THEN "review" ELSE "none"

\* The cache is patched after a recovery, through whatever object it has by then.
ForgottenSession(m) == [clearSessionMem(m) EXCEPT !.status = "IDLE", !.since = None]

runtimeNeedsStaleRecovery(m) ==
  /\ m # None
  /\ \/ m.session # None \/ m.current # None
     \/ m.status \in {"ACTIVE", "MAYBE_FINISHED"}

------------------------------------------------------------------------------
Booting ==
  [t \in Tick \cup {Boot} |->
     IF t = Boot THEN [Rest EXCEPT !.at = "hydrating", !.snap = FromRows, !.then = "boot"] ELSE Rest]

\* Nothing is running but the loading of the cache; the chair is switched off.
Init ==
  /\ chair = [enabled |-> TRUE, status |-> "IDLE", before |-> None, current |-> None,
              activeSince |-> None, since |-> None, low |-> TRUE, online |-> TRUE]
  /\ session = [s \in Session |-> [status |-> "NONE", orphan |-> FALSE, dipped |-> FALSE]]
  /\ world \in World
  /\ mem = None /\ hydrated = FALSE /\ requested = FALSE
  /\ shiftOpen \in BOOLEAN
  /\ task = Booting
  /\ api = ApiRest
  /\ streak = [high |-> None, low |-> None, silent |-> FALSE]

At(t, step) == task[t].at = step

Goto(t, k) == task' = [task EXCEPT ![t] = k]

------------------------------------------------------------------------------
(***************************************************************************)
(* Loading the cache: at the start, by the first poll if that has not      *)
(* happened yet, and for every reconciliation, which first flushes the     *)
(* live fields and forgets the request it answers.  The rows are read,     *)
(* and installed when the answer arrives.                                  *)
(***************************************************************************)
\* The loading at the start has come to an end, or outlasts the first poll.
LoadOver == task[Boot].at = "over" \/ "slowLoad" \in world.faults

\* The interval starts the next poll, when the one before is over or is slow.
Due(t) == At(t, "due") /\ ("overlap" \in world.faults \/ \A u \in Tick : At(u, "due"))

ReadRows(t, why) ==
  Goto(t, [task[t] EXCEPT !.at = "hydrating", !.snap = FromRows, !.then = why])

beginFirstHydrate(t) ==
  /\ Due(t) /\ ~hydrated
  /\ ReadRows(t, "first")
  /\ UNCHANGED <<world, chair, session, mem, hydrated, requested, shiftOpen, api, streak>>

\* The live fields of the object are written to the row, every few minutes.
Flushed == IF mem = None THEN chair ELSE [chair EXCEPT !.low = mem.low, !.online = mem.online]

flushDirtyLiveState(t) ==
  /\ hydrated
  /\ At(t, "polling") \/ (Due(t) /\ LoadOver)
  /\ chair' = Flushed
  /\ UNCHANGED <<world, session, mem, hydrated, requested, shiftOpen, task, api, streak>>

beginReconcile(t) ==
  /\ Due(t) /\ hydrated /\ LoadOver
  /\ ReadRows(t, IF requested THEN "request" ELSE "timer")
  /\ requested' = FALSE
  /\ chair' = Flushed
  /\ UNCHANGED <<world, session, mem, hydrated, shiftOpen, api, streak>>

\* Recovery follows at once, unless the last one is less than 30 s ago.
AfterHydrate(t, m) ==
  CASE task[t].then = "boot"   -> {Over}
    [] task[t].then = "first"  -> {[task[t] EXCEPT !.at = "scanning", !.snap = None]}
    [] task[t].then = "lookup" -> {[task[t] EXCEPT !.at = "fetched", !.snap = None, !.then = None]}
    [] OTHER -> {[Rest EXCEPT !.at = "polling"]} \cup
                IF runtimeNeedsStaleRecovery(m)
                THEN {[task[t] EXCEPT !.at = "scanning", !.snap = None]} ELSE {}

hydrateRuntimeCache(t) ==
  /\ At(t, "hydrating")
  /\ LET m == carryOverRuntimeState(mem, task[t].snap)
     IN  \E k \in AfterHydrate(t, m) : Replace(m, t, k)
  /\ hydrated' = TRUE
  /\ UNCHANGED <<world, chair, session, requested, shiftOpen, api, streak>>

(***************************************************************************)
(* runStaleSessionRecovery, for the ACTIVE session of the chair.           *)
(***************************************************************************)
AfterRecovery(t) == IF task[t].then = "first" THEN Rest ELSE [Rest EXCEPT !.at = "polling"]

recoverChairSession(t) ==
  /\ At(t, "scanning")
  /\ IF ActiveSession = None
     THEN Goto(t, AfterRecovery(t))
     ELSE \E aged \in BOOLEAN :
            LET decision == evaluateStaleSessionRecovery(ActiveSession, aged)
            IN  Goto(t, IF decision = "none" THEN AfterRecovery(t)
                        ELSE [task[t] EXCEPT !.at = IF decision = "finalize" THEN "recovering"
                                                    ELSE "reviewing",
                                             !.session = ActiveSession])
  /\ UNCHANGED <<world, chair, session, mem, hydrated, requested, shiftOpen, api, streak>>

\* The cash of a session without a shift is left alone, and so is its prime.
PrimeRefused(s) == "prime" \in world.faults /\ ~session[s].orphan

(***************************************************************************)
(* An error of recovery is logged at the first load; later it restores the *)
(* request, and the poll goes on only if the database was the reason.      *)
(***************************************************************************)
RecoveryFailed(t, k) ==
  /\ requested' = (requested \/ task[t].then = "request")
  /\ Goto(t, k)

applyRecoveryDecision(t) ==
  /\ \/ At(t, "recovering") /\ Finalized(task[t].session)
     \/ At(t, "reviewing") /\ markSessionNeedsReview(task[t].session)
  /\ \/ Goto(t, [task[t] EXCEPT !.at = "forgetting"]) /\ UNCHANGED requested
     \/ At(t, "recovering") /\ PrimeRefused(task[t].session) /\ RecoveryFailed(t, Rest)
  /\ UNCHANGED <<world, mem, hydrated, shiftOpen, api, streak>>

forgetRecovered(t) ==
  /\ At(t, "forgetting")
  /\ mem' = IF mem = None THEN None ELSE ForgottenSession(mem)
  /\ Goto(t, AfterRecovery(t))
  /\ UNCHANGED <<world, chair, session, hydrated, requested, shiftOpen, api, streak>>

------------------------------------------------------------------------------
(***************************************************************************)
(* fetchDeviceStates, then processChairReading on the object the cache has *)
(* when the answer arrives.  A plug that does not answer reads 0 W.        *)
(***************************************************************************)
poll(t) ==
  /\ hydrated /\ LoadOver
  /\ \/ At(t, "polling")
     \/ Due(t) /\ (~requested \/ "database" \in world.faults)
  /\ \E reading \in [online: {TRUE}, power: Power] \cup [online: {FALSE}, power: {"low"}] :
       Goto(t, [Rest EXCEPT !.at = "fetched", !.online = reading.online, !.power = reading.power])
  /\ UNCHANGED <<world, chair, session, mem, hydrated, requested, shiftOpen, api, streak>>

\* Has the confirmation delay passed since the time stamp?
ConfirmedAtOnce(age) == age # None                          \* mutant of Confirmed
Confirmed(age) == age = "elapsed"

decideTransition(m, power, online) ==
  CASE ~online /\ m.status # "OFFLINE" -> "OFFLINE"
    [] ~online /\ m.status = "OFFLINE" -> "NONE"
    [] online /\ m.status = "OFFLINE"  -> "ONLINE_RECOVERY"
    [] online /\ m.status = "IDLE" ->
         IF power = "high" THEN "IDLE_TO_MAYBE_ACTIVE" ELSE "NONE"
    [] online /\ m.status = "MAYBE_ACTIVE" ->
         IF power # "high" THEN "MAYBE_ACTIVE_TO_IDLE"
         ELSE IF Confirmed(m.activeSince) THEN "MAYBE_ACTIVE_TO_ACTIVE" ELSE "NONE"
    [] online /\ m.status = "ACTIVE" ->
         IF power = "low" THEN "ACTIVE_TO_MAYBE_FINISHED" ELSE "NONE"
    [] online /\ m.status = "MAYBE_FINISHED" ->
         IF power # "low" THEN "MAYBE_FINISHED_TO_ACTIVE"
         ELSE IF Confirmed(m.since) THEN "MAYBE_FINISHED_TO_IDLE" ELSE "NONE"

\* A chair whose start was blocked waits for the power to drop.
shouldSuppressBusinessTransition(t) == mem.blocked /\ task[t].online /\ task[t].power = "high"

\* The reading is processed, and this is what it asks for.
Decides(t, kinds) ==
  /\ At(t, "fetched") /\ mem # None
  /\ mem.enabled /\ ~shouldSuppressBusinessTransition(t)
  /\ decideTransition(mem, task[t].power, task[t].online) \in kinds

Extended(age, holds) == IF ~holds THEN None ELSE IF age = None THEN "recent" ELSE age

Observed(t) ==
  streak' = IF ~task[t].online THEN [streak EXCEPT !.silent = TRUE]
            ELSE [high |-> Extended(streak.high, task[t].power = "high"),
                  low  |-> Extended(streak.low, task[t].power = "low"), silent |-> FALSE]

\* The live fields after a reading, whose power is 0 W when the plug is silent.
Sampled(t) == [mem EXCEPT !.low = task[t].power = "low", !.online = TRUE,
                          !.blocked = @ /\ ~(task[t].online /\ task[t].power # "high")]

\* Poll t sets the object of the cache to m and goes on to a step.
Process(t, m, k) ==
  /\ Observed(t)
  /\ mem' = m /\ Goto(t, k)
  /\ UNCHANGED <<world, chair, session, hydrated, requested, shiftOpen, api>>

\* A step of a poll that holds the object of the cache.
Holding(step) == [Rest EXCEPT !.at = step, !.holds = "entry", !.then = "upsert"]

Writing(columns) == [Holding("writing") EXCEPT !.write = columns]

\* Nothing in the cache: the reading is dropped, or the cache loaded once more.
unknownChair(t) ==
  /\ At(t, "fetched") /\ mem = None
  /\ Observed(t)
  /\ \/ Goto(t, Rest)
     \/ chair.enabled /\ ReadRows(t, "lookup")
  /\ UNCHANGED <<world, chair, session, mem, hydrated, requested, shiftOpen, api>>

disabledChair(t) ==
  /\ At(t, "fetched") /\ mem # None /\ ~mem.enabled
  /\ Process(t, mem, Rest)

sampleOnly(t) ==
  /\ \/ Decides(t, {"NONE"})
     \/ At(t, "fetched") /\ mem # None /\ mem.enabled /\ shouldSuppressBusinessTransition(t)
  /\ Process(t, Sampled(t), Rest)

(***************************************************************************)
(* The transitions.  The object changes at once, the row when the database *)
(* has answered.                                                           *)
(***************************************************************************)
idleToMaybeActive(t) ==
  /\ Decides(t, {"IDLE_TO_MAYBE_ACTIVE"})
  /\ Process(t, [Sampled(t) EXCEPT !.status = "MAYBE_ACTIVE", !.activeSince = "recent"],
       Writing([status |-> "MAYBE_ACTIVE", activeSince |-> "recent",
                   low |-> FALSE, online |-> TRUE]))

maybeActiveToIdle(t) ==
  /\ Decides(t, {"MAYBE_ACTIVE_TO_IDLE"})
  /\ Process(t, [Sampled(t) EXCEPT !.status = "IDLE", !.activeSince = None],
       Writing([status |-> "IDLE", activeSince |-> None,
                   low |-> task[t].power = "low", online |-> TRUE]))

activeToMaybeFinished(t) ==
  /\ Decides(t, {"ACTIVE_TO_MAYBE_FINISHED"})
  /\ IF mem.session = None
     THEN Process(t, [Sampled(t) EXCEPT !.status = "IDLE", !.current = None],
            Writing([status |-> "IDLE", current |-> None]))
     ELSE Process(t, [Sampled(t) EXCEPT !.status = "MAYBE_FINISHED", !.since = "recent"],
            [Writing([status |-> "MAYBE_FINISHED", since |-> "recent",
                         low |-> TRUE, online |-> TRUE]) EXCEPT !.session = mem.session])

maybeFinishedToActive(t) ==
  /\ Decides(t, {"MAYBE_FINISHED_TO_ACTIVE"})
  /\ Process(t, [Sampled(t) EXCEPT !.status = "ACTIVE", !.since = None],
       Writing([status |-> "ACTIVE", since |-> None, low |-> FALSE, online |-> TRUE]))

handleOffline(t) ==
  /\ Decides(t, {"OFFLINE"})
  /\ Process(t, [mem EXCEPT !.status = "OFFLINE", !.online = FALSE],
       [Writing([status |-> "OFFLINE", before |-> mem.status, online |-> FALSE])
          EXCEPT !.then = "stop"])

beginStart(t) ==
  /\ Decides(t, {"MAYBE_ACTIVE_TO_ACTIVE"})
  /\ Process(t, Sampled(t), Holding("starting"))

beginEnd(t) ==
  /\ Decides(t, {"MAYBE_FINISHED_TO_IDLE"})
  /\ Process(t, Sampled(t),
       IF mem.session = None THEN Holding("seeking")
       ELSE [Holding("ending") EXCEPT !.session = mem.session])

beginOnlineRecovery(t) ==
  /\ Decides(t, {"ONLINE_RECOVERY"})
  /\ Process(t, [mem EXCEPT !.blocked = @ /\ task[t].power = "high"],
       [Holding("restoring") EXCEPT !.power = task[t].power, !.online = TRUE])

(***************************************************************************)
(* The write of the columns, with the LOW_POWER_DETECTED event of the      *)
(* session that dipped; then upsertChairMem, or the reading once more.     *)
(***************************************************************************)
writeRow(t) ==
  /\ At(t, "writing")
  /\ chair' = With(chair, task[t].write)
  /\ session' = IF task[t].session = None THEN session
                ELSE [session EXCEPT ![task[t].session].dipped = TRUE]
  /\ CASE task[t].then = "upsert" -> upsertChairMem(t, Held(t), Rest)
       [] task[t].then = "stop"   -> mem' = mem /\ Goto(t, Rest)
       [] task[t].then = "again"  ->
            /\ mem' = mem
            /\ Goto(t, [Rest EXCEPT !.at = "fetched", !.power = task[t].power,
                                    !.online = task[t].online])
  /\ UNCHANGED <<world, hydrated, requested, shiftOpen, api, streak>>

\* _handleOnlineRecovery: the status comes from the rows.
handleOnlineRecovery(t) ==
  /\ At(t, "restoring")
  /\ LET s == ActiveSession
         status == IF s = None THEN "IDLE"
                   ELSE IF chair.since # None \/ chair.before = "MAYBE_FINISHED"
                        THEN "MAYBE_FINISHED" ELSE "ACTIVE"
         since == IF status = "MAYBE_FINISHED" /\ chair.since # None
                  THEN chair.since ELSE Held(t).since
     IN  SetHeld(t, [bindSessionMem(Held(t), s) EXCEPT !.status = status, !.online = TRUE,
                                                       !.since = since],
           [task[t] EXCEPT !.at = "writing", !.then = "again",
              !.write = [status |-> status, online |-> TRUE, before |-> None, current |-> s,
                         since |-> IF status = "MAYBE_FINISHED" THEN since ELSE None]])
  /\ UNCHANGED <<world, chair, session, hydrated, requested, shiftOpen, api, streak>>

------------------------------------------------------------------------------
(***************************************************************************)
(* _startSession: an ACTIVE session the rows already have is adopted;      *)
(* otherwise the open shift is looked up, the start blocked if there has   *)
(* to be one, and the session created.                                     *)
(***************************************************************************)
adoptOrResolve(t) ==
  /\ At(t, "starting")
  /\ IF ActiveSession # None
     THEN SetHeld(t, [bindSessionMem(Held(t), ActiveSession) EXCEPT !.status = "ACTIVE",
                                                                   !.activeSince = None],
            [task[t] EXCEPT !.at = "writing",
               !.write = [status |-> "ACTIVE", current |-> ActiveSession,
                          activeSince |-> None]])
     ELSE mem' = mem /\ Goto(t, [task[t] EXCEPT !.at = "resolving"])
  /\ UNCHANGED <<world, chair, session, hydrated, requested, shiftOpen, api, streak>>

resolveOpenShiftForSession(t) ==
  /\ At(t, "resolving")
  /\ Goto(t, [task[t] EXCEPT !.at = "deciding", !.open = shiftOpen])
  /\ UNCHANGED <<world, chair, session, mem, hydrated, requested, shiftOpen, api, streak>>

blockOrCreate(t) ==
  /\ At(t, "deciding")
  /\ IF world.selfStart /\ ~task[t].open
     THEN SetHeld(t, [Held(t) EXCEPT !.status = "IDLE", !.activeSince = None, !.blocked = TRUE],
            [task[t] EXCEPT !.at = "writing",
               !.write = [status |-> "IDLE", activeSince |-> None,
                          low |-> FALSE, online |-> TRUE]])
     ELSE mem' = mem /\ Goto(t, [task[t] EXCEPT !.at = "creating"])
  /\ UNCHANGED <<world, chair, session, hydrated, requested, shiftOpen, api, streak>>

\* A row nobody refers to stands for a new one.
Unused(s) ==
  /\ session[s].status # "ACTIVE" /\ chair.current # s /\ api.session # s
  /\ mem # None => s \notin {mem.current, mem.session}
  /\ \A t \in DOMAIN task :
       /\ task[t].session # s
       /\ task[t].own # None => s \notin {task[t].own.current, task[t].own.session}
       /\ task[t].snap # None => s \notin {task[t].snap.current, task[t].snap.session}

\* The database has a unique index on the chair of ACTIVE sessions.
NoActiveIndex == TRUE                                       \* mutant of ActiveSessionIndex
ActiveSessionIndex == Actives = {}

StartedWithoutChair(s, open) ==                             \* mutant of Started
  /\ session' = [session EXCEPT ![s] = [status |-> "ACTIVE", dipped |-> FALSE, orphan |-> ~open]]
  /\ chair' = chair

Started(s, open) ==
  /\ session' = [session EXCEPT ![s] = [status |-> "ACTIVE", dipped |-> FALSE, orphan |-> ~open]]
  /\ chair' = [chair EXCEPT !.status = "ACTIVE", !.current = s, !.activeSince = None,
                            !.low = FALSE, !.online = TRUE]

createSession(t) ==
  /\ At(t, "creating")
  /\ \/ /\ ActiveSessionIndex
        /\ \E s \in Session :
             /\ Unused(s)
             /\ Started(s, task[t].open)
             /\ Goto(t, [task[t] EXCEPT !.at = "created", !.session = s])
     \/ ~ActiveSessionIndex /\ Goto(t, Rest) /\ UNCHANGED <<chair, session>>
  /\ UNCHANGED <<world, mem, hydrated, requested, shiftOpen, api, streak>>

bindCreated(t) ==
  /\ At(t, "created")
  /\ upsertChairMem(t, [bindSessionMem(Held(t), task[t].session) EXCEPT !.status = "ACTIVE",
                                                                        !.activeSince = None], Rest)
  /\ UNCHANGED <<world, chair, session, hydrated, requested, shiftOpen, api, streak>>

(***************************************************************************)
(* _endSession: the session of the object, or the one of the rows if the   *)
(* object has none; finalizeActiveSession, with the cash whatever shift    *)
(* the session has; then the object.                                       *)
(***************************************************************************)
seekSession(t) ==
  /\ At(t, "seeking")
  /\ LET found == {s \in Actives : Held(t).current \in {None, s}}
     IN  IF found = {}
         THEN SetHeld(t, [Held(t) EXCEPT !.status = "IDLE", !.current = None, !.since = None],
                [task[t] EXCEPT !.at = "writing",
                   !.write = [status |-> "IDLE", current |-> None, since |-> None]])
         ELSE LET s == CHOOSE s \in found : TRUE
              IN  SetHeld(t, bindSessionMem(Held(t), s),
                          [task[t] EXCEPT !.at = "ending", !.session = s])
  /\ UNCHANGED <<world, chair, session, hydrated, requested, shiftOpen, api, streak>>

TillRefused(s) == "till" \in world.faults /\ session[s].orphan

finalizeActiveSession(t) ==
  /\ At(t, "ending")
  /\ \/ /\ ~TillRefused(task[t].session)
        /\ Finalized(task[t].session)
        /\ \/ Goto(t, [task[t] EXCEPT !.at = "ended"])
           \/ PrimeRefused(task[t].session) /\ Goto(t, Rest)
     \/ TillRefused(task[t].session) /\ Goto(t, Rest) /\ UNCHANGED <<chair, session>>
  /\ UNCHANGED <<world, mem, hydrated, requested, shiftOpen, api, streak>>

clearEnded(t) ==
  /\ At(t, "ended")
  /\ upsertChairMem(t, [clearSessionMem(Held(t)) EXCEPT !.status = "IDLE", !.since = None,
                                                        !.activeSince = None], Rest)
  /\ UNCHANGED <<world, chair, session, hydrated, requested, shiftOpen, api, streak>>

------------------------------------------------------------------------------
(***************************************************************************)
(* The HTTP handlers.  A successful one asks for a reconciliation when its *)
(* response is sent (responding).                                          *)
(***************************************************************************)
Enter(step) == api' = [ApiRest EXCEPT !.at = step]

EnterFor(step, s, next) == api' = [at |-> step, session |-> s, then |-> next]

Handle(handler) == handler \in world.handlers /\ api.at = "idle"

(***************************************************************************)
(* updateChair, switching the chair off: prepareChairForDisable refuses a  *)
(* running massage and recovers a stale session, and the chair is disabled *)
(* if none is ACTIVE then.                                                 *)
(***************************************************************************)
prepareChairForDisable ==
  /\ Handle("disable") /\ chair.enabled
  /\ IF ActiveSession = None
     THEN Enter("disabling")
     ELSE /\ ~isBlockingActiveSession
          /\ \E aged \in BOOLEAN :
               CASE evaluateStaleSessionRecovery(ActiveSession, aged) = "finalize" ->
                      EnterFor("finalizing", ActiveSession, "checking")
                 [] evaluateStaleSessionRecovery(ActiveSession, aged) = "review" ->
                      EnterFor("reviewing", ActiveSession, "checking")
                 [] OTHER -> Enter("checking")
  /\ UNCHANGED <<world, chair, session, mem, hydrated, requested, shiftOpen, task, streak>>

recoverForHandler ==
  /\ \/ api.at = "finalizing" /\ Finalized(api.session)
     \/ api.at = "reviewing" /\ markSessionNeedsReview(api.session)
  /\ \/ EnterFor("forgetting", None, api.then)
     \/ api.at = "finalizing" /\ PrimeRefused(api.session) /\ api' = ApiRest
  /\ UNCHANGED <<world, mem, hydrated, requested, shiftOpen, task, streak>>

forgetForHandler ==
  /\ api.at = "forgetting"
  /\ mem' = IF mem = None THEN None ELSE ForgottenSession(mem)
  /\ Enter(api.then)
  /\ UNCHANGED <<world, chair, session, hydrated, requested, shiftOpen, task, streak>>

checkStillActive ==
  /\ api.at = "checking"
  /\ IF ActiveSession = None THEN Enter("disabling") ELSE api' = ApiRest
  /\ UNCHANGED <<world, chair, session, mem, hydrated, requested, shiftOpen, task, streak>>

writeDisabled ==
  /\ api.at = "disabling"
  /\ chair' = [chair EXCEPT !.enabled = FALSE]
  /\ Enter("disabled")
  /\ UNCHANGED <<world, session, mem, hydrated, requested, shiftOpen, task, streak>>

syncChairDisabledInRuntime ==
  /\ api.at = "disabled"
  /\ mem' = IF mem = None THEN None ELSE disabledChairMemPatch(mem)
  /\ Enter("responding")
  /\ UNCHANGED <<world, chair, session, hydrated, requested, shiftOpen, task, streak>>

\* updateChair, switching the chair on again.
writeEnabled ==
  /\ Handle("disable") /\ ~chair.enabled
  /\ chair' = [chair EXCEPT !.enabled = TRUE]
  /\ Enter("enabling")
  /\ UNCHANGED <<world, session, mem, hydrated, requested, shiftOpen, task, streak>>

syncChairEnabledInRuntime ==
  /\ api.at = "enabling"
  /\ mem' = IF mem = None THEN None ELSE [mem EXCEPT !.enabled = TRUE]
  /\ Enter("responding")
  /\ UNCHANGED <<world, chair, session, hydrated, requested, shiftOpen, task, streak>>

(***************************************************************************)
(* deleteSession of a session read as ACTIVE: it is cancelled, and the     *)
(* chair reset if it is still the current one.                             *)
(***************************************************************************)
beginDeleteSession ==
  /\ Handle("archive") /\ ActiveSession # None
  /\ EnterFor("archiving", ActiveSession, None)
  /\ UNCHANGED <<world, chair, session, mem, hydrated, requested, shiftOpen, task, streak>>

deleteSession ==
  /\ api.at = "archiving"
  /\ session' = [session EXCEPT ![api.session].status = "CANCELLED"]
  /\ chair' = IF chair.current # api.session THEN chair
              ELSE [chair EXCEPT !.current = None, !.status = "IDLE", !.activeSince = None,
                                 !.since = None]
  /\ Enter("responding")
  /\ UNCHANGED <<world, mem, hydrated, requested, shiftOpen, task, streak>>

(***************************************************************************)
(* A shift opened by the assistant ends the start blocks, one opened by an *)
(* admin (openShift) does not.  Before a shift is closed a session of it   *)
(* that has ended in fact is finalized; an ACTIVE session may also be of   *)
(* an earlier shift.                                                       *)
(***************************************************************************)
startAssistantShift ==
  /\ Handle("assistantShift") /\ world.selfStart /\ ~shiftOpen
  /\ shiftOpen' = TRUE
  /\ Enter("clearing")
  /\ UNCHANGED <<world, chair, session, mem, hydrated, requested, task, streak>>

clearNoShiftStartBlocks ==
  /\ api.at = "clearing"
  /\ mem' = IF mem = None THEN None ELSE [mem EXCEPT !.blocked = FALSE]
  /\ Enter("responding")
  /\ UNCHANGED <<world, chair, session, hydrated, requested, shiftOpen, task, streak>>

openShift ==
  /\ Handle("adminShift") /\ ~shiftOpen
  /\ shiftOpen' = TRUE
  /\ Enter("responding")
  /\ UNCHANGED <<world, chair, session, mem, hydrated, requested, task, streak>>

beginCloseShift ==
  /\ Handle("closeShift") /\ shiftOpen
  /\ \/ Enter("closing")
     \/ /\ ActiveSession # None /\ ~session[ActiveSession].orphan
        /\ evaluateStaleSessionRecovery(ActiveSession, FALSE) = "finalize"
        /\ EnterFor("finalizing", ActiveSession, "closing")
  /\ UNCHANGED <<world, chair, session, mem, hydrated, requested, shiftOpen, task, streak>>

closeShift ==
  /\ api.at = "closing"
  /\ shiftOpen' = FALSE
  /\ Enter("responding")
  /\ UNCHANGED <<world, chair, session, mem, hydrated, requested, task, streak>>

ReconcileNeverAsked ==                                      \* mutant of requestRuntimeReconcile
  /\ api.at = "responding"
  /\ api' = ApiRest
  /\ UNCHANGED <<world, chair, session, mem, hydrated, requested, shiftOpen, task, streak>>

requestRuntimeReconcile ==
  /\ api.at = "responding"
  /\ requested' = TRUE
  /\ api' = ApiRest
  /\ UNCHANGED <<world, chair, session, mem, hydrated, shiftOpen, task, streak>>

------------------------------------------------------------------------------
(***************************************************************************)
(* The clock, and what may fail.                                           *)
(***************************************************************************)
Older(age) == IF age = "recent" THEN "elapsed" ELSE age

\* A row, or the columns of one to be written, with its time stamps grown old.
Aging(columns) ==
  [c \in DOMAIN columns |->
     IF c \in {"since", "activeSince"} THEN Older(columns[c]) ELSE columns[c]]

OlderSince(m) == IF m = None THEN None ELSE Aging(m)

timePasses ==
  /\ (\A t \in DOMAIN task : task[t].at \in {"due", "over"}) \/ "slowPoll" \in world.faults
  /\ api.at = "idle" \/ "slowHandler" \in world.faults
  /\ chair' = Aging(chair)
  /\ mem' = OlderSince(mem)
  /\ task' = [t \in DOMAIN task |->
                [task[t] EXCEPT !.own = OlderSince(@), !.snap = OlderSince(@),
                                !.write = Aging(@)]]
  /\ streak' = [streak EXCEPT !.high = Older(@), !.low = Older(@)]
  /\ UNCHANGED <<world, session, hydrated, requested, shiftOpen, api>>
  /\ vars # vars'

\* A call of the database fails, before it has had an effect.
databaseFails(t) ==
  /\ "database" \in world.faults
  /\ CASE At(t, "hydrating") /\ task[t].then = "boot" -> Goto(t, Over) /\ UNCHANGED requested
       [] \/ At(t, "hydrating") /\ task[t].then \in {"request", "timer"}
          \/ /\ task[t].at \in {"scanning", "recovering", "reviewing"}
             /\ task[t].then # "first" -> RecoveryFailed(t, [Rest EXCEPT !.at = "polling"])
       [] OTHER ->
            /\ task[t].at \in {"hydrating", "scanning", "recovering", "reviewing", "writing",
                               "restoring", "starting", "resolving", "creating", "seeking",
                               "ending"}
            /\ Goto(t, Rest) /\ UNCHANGED requested
  /\ UNCHANGED <<world, chair, session, mem, hydrated, shiftOpen, api, streak>>

\* fetchDeviceStates throws: nothing is known of any plug, and nothing changes.
fetchFails(t) ==
  /\ "cloud" \in world.faults
  /\ At(t, "polling")
  /\ Goto(t, Rest)
  /\ UNCHANGED <<world, chair, session, mem, hydrated, requested, shiftOpen, api, streak>>

handlerFails ==
  /\ "handler" \in world.faults
  /\ api.at \in {"finalizing", "reviewing", "checking", "disabling", "archiving",
                "closing"}
  /\ api' = ApiRest
  /\ UNCHANGED <<world, chair, session, mem, hydrated, requested, shiftOpen, task, streak>>

\* The server starts again with an empty memory.
restart ==
  /\ "crash" \in world.faults
  /\ mem' = None /\ hydrated' = FALSE /\ requested' = FALSE
  /\ task' = Booting
  /\ api' = ApiRest
  /\ UNCHANGED <<world, chair, session, shiftOpen, streak>>

------------------------------------------------------------------------------
Reconciliation(t) ==
  \/ beginFirstHydrate(t) \/ flushDirtyLiveState(t) \/ beginReconcile(t) \/ hydrateRuntimeCache(t)
  \/ recoverChairSession(t) \/ applyRecoveryDecision(t) \/ forgetRecovered(t)

Reading(t) ==
  \/ unknownChair(t) \/ disabledChair(t) \/ sampleOnly(t)
  \/ idleToMaybeActive(t) \/ maybeActiveToIdle(t)
  \/ activeToMaybeFinished(t) \/ maybeFinishedToActive(t)
  \/ handleOffline(t) \/ beginOnlineRecovery(t) \/ handleOnlineRecovery(t) \/ writeRow(t)

StartOrEnd(t) ==
  \/ beginStart(t) \/ adoptOrResolve(t) \/ resolveOpenShiftForSession(t)
  \/ blockOrCreate(t) \/ createSession(t) \/ bindCreated(t)
  \/ beginEnd(t) \/ seekSession(t) \/ finalizeActiveSession(t) \/ clearEnded(t)

Work(t) == Reconciliation(t) \/ poll(t) \/ Reading(t) \/ StartOrEnd(t)

Respond ==
  \/ recoverForHandler \/ forgetForHandler \/ checkStillActive \/ writeDisabled
  \/ syncChairDisabledInRuntime \/ syncChairEnabledInRuntime \/ deleteSession
  \/ clearNoShiftStartBlocks \/ closeShift \/ requestRuntimeReconcile

Request ==
  \/ prepareChairForDisable \/ writeEnabled \/ beginDeleteSession
  \/ startAssistantShift \/ openShift \/ beginCloseShift

Next ==
  \/ \E t \in Tick : Work(t) \/ databaseFails(t) \/ fetchFails(t)
  \/ hydrateRuntimeCache(Boot) \/ databaseFails(Boot)
  \/ Request \/ Respond \/ handlerFails
  \/ timePasses \/ restart

Spec == Init /\ [][Next]_vars

(***************************************************************************)
(* The timer starts a poll every few seconds and every call is answered;   *)
(* the users owe nothing.                                                  *)
(***************************************************************************)
Fairness ==
  /\ \A t \in Tick : WF_vars(Work(t))
  /\ WF_vars(hydrateRuntimeCache(Boot)) /\ WF_vars(Respond) /\ WF_vars(timePasses)

FairSpec == Spec /\ Fairness

------------------------------------------------------------------------------
(***************************************************************************)
(* A chair has at most one running session, also when two polls start one  *)
(* at the same time.                                                       *)
(***************************************************************************)
OneActiveSession == \A s, u \in Actives : s = u

(***************************************************************************)
(* The rows lead back to a running session whatever fails between two      *)
(* steps: the chair points to it and its status is one that a poll, an     *)
(* online recovery or a stale recovery takes the session from.             *)
(***************************************************************************)
RowTracksSession ==
  \A s \in Actives : /\ chair.current = s
                     /\ chair.status \in {"ACTIVE", "MAYBE_FINISHED", "OFFLINE"}

(***************************************************************************)
(* RowTracksSession where polls follow each other, for a chair that nobody *)
(* disables and whose sessions are not closed with the shift: with         *)
(* archived sessions, calls that fail or take long, and restarts.          *)
(***************************************************************************)
Calm ==
  /\ {"disable", "closeShift"} \cap world.handlers = {}
  /\ {"overlap", "slowLoad"} \cap world.faults = {}

RowsLeadToSession == Calm => RowTracksSession

(***************************************************************************)
(* Between two polls, with no request waiting, the object in the cache and *)
(* the rows say the same of the chair and of its session, though polls     *)
(* change the object first and handlers the rows first.  Of the two time   *)
(* stamps, only the one the status makes use of counts.                    *)
(***************************************************************************)
Quiet ==
  /\ hydrated /\ ~requested /\ api.at = "idle"
  /\ \A t \in DOMAIN task : task[t].at \in {"due", "over"}

MemoryAgrees ==
  Quiet => IF chair.enabled
           THEN /\ mem # None /\ mem.enabled
                /\ mem.session = ActiveSession
                /\ <<mem.status, mem.current>> = <<chair.status, chair.current>>
                /\ mem.status = "MAYBE_ACTIVE" => mem.activeSince = chair.activeSince
                /\ mem.status = "MAYBE_FINISHED" => mem.since = chair.since
           ELSE mem = None

(***************************************************************************)
(* Worlds where, besides, the server keeps running, no call of a poll is   *)
(* lost to the database and no prime is refused after the row was written. *)
(***************************************************************************)
Steady == Calm /\ {"crash", "database", "prime"} \cap world.faults = {}

(***************************************************************************)
(* MemoryAgrees in these worlds: nothing a poll or a handler does leaves   *)
(* the object of the cache behind the rows without a request waiting.      *)
(***************************************************************************)
CacheAgrees == Steady => MemoryAgrees

(***************************************************************************)
(* A session starts when the readings have been high for the whole start   *)
(* delay, and one that completes has had low readings for the whole stop   *)
(* delay, also across reconciliations, archived sessions and readings of a *)
(* silent plug: for a chair that nobody disables and whose time stamps     *)
(* survive.                                                                *)
(***************************************************************************)
PollsDebounce ==
  [][\A s \in Session : Steady /\ session'[s].status # session[s].status =>
        /\ session'[s].status = "ACTIVE" => streak.high = "elapsed"
        /\ session'[s].status = "COMPLETED" => streak.low = "elapsed"]_vars

(***************************************************************************)
(* Customers are served and billed: a chair that stays on gets a session,  *)
(* and another one when recovery takes that away; one that stays off       *)
(* loses it for good.                                                      *)
(***************************************************************************)
SessionsStart == <>[](streak.high # None /\ ~streak.silent) => []<>(Actives # {})

SessionsEnd == <>[](streak.low # None /\ ~streak.silent) => <>[](Actives = {})

SessionsFollowPower == SessionsStart /\ SessionsEnd
=============================================================================
