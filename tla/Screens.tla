------------------------------ MODULE Screens ------------------------------
(***************************************************************************)
(* What the owner sees.  The page of the owner has two live parts: the      *)
(* chairs with the totals of the day (useDashboard), fed by a web socket    *)
(* and by GET /api/dashboard/state, and the figures behind a set of filters *)
(* (useHomeDashboard), fed by GET /api/dashboard/home.  The server answers  *)
(* from a short-lived cache that every change empties; a read of the        *)
(* database that is under way when the cache is emptied fills it again with *)
(* what it read.  A circuit breaker keeps the server from the database      *)
(* after a few failures.                                                    *)
(*                                                                         *)
(* Data are versions: chairs counts the changes of the memory of the        *)
(* chairs, meta those of the database.  The two parts of the page meet only *)
(* in the server, so that a behaviour follows one of them (page).           *)
(***************************************************************************)
EXTENDS Naturals, Sequences, FiniteSets

CONSTANTS
  Fetch,         \* the HTTP requests of the page that may be in flight
  Filter,        \* the sets of filters the owner may choose
  Threshold,     \* FAILURE_THRESHOLD
  MaxChanges,    \* bound: the changes of the data
  MaxTroubles,   \* bound, per page: the failures, the lost connections, the clicks
  MaxWire,       \* bound: the messages on the socket
  Push,          \* the ticks and connections that may be waiting for the state
  Zero,          \* the totals of an empty day without a shift
  Unavailable,   \* dashboard:unavailable
  None

ASSUME ScreenAssumption ==
  /\ Threshold \in Nat \ {0}
  /\ MaxChanges \in Nat
  /\ None \notin Fetch

Page == {"live", "home"}
Reader == Fetch \cup Push

VARIABLES
  page,          \* the part of the page that is followed
  chairs, meta,  \* the versions of the data
  unfinished,    \* changes that are committed and whose response is not sent
  cache,         \* META_CACHE_KEY: the version it holds, or None
  homeCache,     \* per set of filters, the version it holds, or None
  dbUp,
  circuit,       \* the breaker: [state, failures]
  reader,        \* per getState or get in flight: its step and what it read
  wire,          \* the socket, from the server to the page
  conn,          \* the socket is connected
  visible,       \* the tab is visible
  flight,        \* inFlightRef: the fetch of the page that is not aborted, or None
  debounce,      \* the update that waits for SOCKET_DEBOUNCE_MS, or None
  poll, backoff, \* the interval and the backoff timer are set
  filters,       \* the filters of the owner
  loading, failed,
  screen,        \* what is shown, or None
  troubles       \* the troubles so far

serverVars == <<chairs, meta, unfinished, cache, homeCache>>
dbVars == <<dbUp, circuit>>
pageVars == <<visible, flight, debounce, poll, backoff, filters, loading, failed, screen>>
vars == <<page, serverVars, dbVars, reader, wire, conn, pageVars, troubles>>

Version == 0 .. MaxChanges
State == [chairs: Version, meta: Version \cup {Zero}]
Resting == [step |-> "idle", chairs |-> 0, meta |-> 0, filters |-> None, polled |-> FALSE]

-----------------------------------------------------------------------------
Init ==
  /\ page \in Page
  /\ chairs = 0 /\ meta = 0
  /\ unfinished = 0
  /\ cache = None
  /\ homeCache = [f \in Filter |-> None]
  /\ dbUp = TRUE
  /\ circuit = [state |-> "closed", failures |-> 0]
  /\ reader = [r \in Reader |-> Resting]
  /\ wire = <<>>
  /\ conn = FALSE
  /\ visible = TRUE
  /\ flight = None
  /\ debounce = None
  /\ poll = (page = "home")
  /\ backoff = TRUE                 \* the first load of the page is yet to come
  /\ filters \in (IF page = "home" THEN Filter ELSE {None})
  /\ loading = (page = "home")
  /\ failed = FALSE
  /\ screen = None
  /\ troubles = 0

Idle(r) == reader[r].step = "idle"

-----------------------------------------------------------------------------
(* Changes, and the invalidation of the caches. *)

invalidateCache ==
  /\ cache' = None
  /\ homeCache' = [f \in Filter |-> None]

\* A poll of the plugs moves a chair: the row is written, the memory follows
\* and the caches are emptied in one go; the tick then broadcasts.
ChairMoves ==
  /\ chairs < MaxChanges /\ meta < MaxChanges
  /\ dbUp
  /\ chairs' = chairs + 1
  /\ meta' = meta + 1
  /\ invalidateCache
  /\ UNCHANGED <<page, unfinished, dbVars, reader, wire, conn, pageVars, troubles>>

\* A request of somebody changes the database...
Commit ==
  /\ meta < MaxChanges
  /\ dbUp
  /\ meta' = meta + 1
  /\ unfinished' = unfinished + 1
  /\ UNCHANGED <<page, chairs, cache, homeCache, dbVars, reader, wire, conn, pageVars, troubles>>

\* ...and empties the caches when its response has been sent.
Finish ==
  /\ unfinished > 0
  /\ unfinished' = unfinished - 1
  /\ invalidateCache
  /\ UNCHANGED <<page, chairs, meta, dbVars, reader, wire, conn, pageVars, troubles>>

\* Mutant of Expire: cacheGet never looks at expiresAt.
ExpireNever ==
  /\ cache # None
  /\ cache' = cache
  /\ UNCHANGED <<page, chairs, meta, unfinished, homeCache, dbVars, reader, wire, conn, pageVars, troubles>>

\* cacheGet finds the entry expired (DASHBOARD_META_CACHE_TTL_MS).
Expire ==
  /\ cache # None
  /\ cache' = None
  /\ UNCHANGED <<page, chairs, meta, unfinished, homeCache, dbVars, reader, wire, conn, pageVars, troubles>>

ExpireHome(f) ==
  /\ homeCache[f] # None
  /\ homeCache' = [homeCache EXCEPT ![f] = None]
  /\ UNCHANGED <<page, chairs, meta, unfinished, cache, dbVars, reader, wire, conn, pageVars, troubles>>

-----------------------------------------------------------------------------
(* db-circuit-breaker.ts *)

allowDbAttempt == circuit.state # "open"

recordDbSuccess == circuit' = [state |-> "closed", failures |-> 0]

recordDbFailure ==
  circuit' = IF circuit.failures + 1 >= Threshold
             THEN [state |-> "open", failures |-> Threshold]
             ELSE [circuit EXCEPT !.failures = @ + 1]

\* getCircuitState, once DB_ERROR_BACKOFF_MAX_MS are over.
HalfOpen ==
  /\ circuit.state = "open"
  /\ circuit' = [circuit EXCEPT !.state = "half-open"]
  /\ UNCHANGED <<page, serverVars, dbUp, reader, wire, conn, pageVars, troubles>>

Trouble == troubles < MaxTroubles[page] /\ troubles' = troubles + 1

DatabaseFails ==
  /\ Trouble
  /\ dbUp
  /\ dbUp' = FALSE
  /\ UNCHANGED <<page, serverVars, circuit, reader, wire, conn, pageVars>>

DatabaseReturns ==
  /\ ~dbUp
  /\ dbUp' = TRUE
  /\ UNCHANGED <<page, serverVars, circuit, reader, wire, conn, pageVars, troubles>>

-----------------------------------------------------------------------------
(* The page takes an answer in. *)

applyState(s) ==
  /\ screen' = [data |-> s, filters |-> None]
  /\ failed' = FALSE

\* Mutant of applyHome: whatever is answered is shown.
applyHomeAlways(r, version) ==
  /\ screen' = [data |-> version, filters |-> reader[r].filters]
  /\ loading' = FALSE
  /\ failed' = FALSE
  /\ flight' = IF flight = r THEN None ELSE flight

\* useHomeDashboard, load: an answer of a superseded request is ignored.
applyHome(r, version) ==
  IF flight = r
  THEN /\ screen' = [data |-> version, filters |-> reader[r].filters]
       /\ loading' = FALSE
       /\ failed' = FALSE
       /\ flight' = None
  ELSE UNCHANGED <<screen, loading, failed, flight>>

\* Mutant of applyFetch: inFlightRef is not reset.
applyFetchInFlight(r, s) ==
  /\ IF flight = r THEN applyState(s) ELSE UNCHANGED <<screen, failed>>
  /\ UNCHANGED <<loading, flight>>

\* useDashboard, fetchState: an answer that was aborted is ignored.
applyFetch(r, s) ==
  /\ IF flight = r
     THEN applyState(s) /\ flight' = None
     ELSE UNCHANGED <<screen, failed, flight>>
  /\ UNCHANGED loading

\* A message for a connection that is gone is lost.
Emit(m) == wire' = IF conn' THEN Append(wire, m) ELSE wire

Room(r) == r \in Fetch \/ Len(wire) < MaxWire

\* An answer of getState reaches whoever asked.
Reply(r, s) ==
  IF r \in Fetch
  THEN applyFetch(r, s) /\ UNCHANGED wire
  ELSE Emit(s) /\ UNCHANGED <<screen, failed, flight, loading>>

ReplyHome(r, version) == applyHome(r, version) /\ UNCHANGED wire

\* No answer: the page tries again later.  Only the figures say so: the error
\* that getDashboardState throws is never of the kind "unavailable".
GiveUp ==
  /\ backoff' = TRUE
  /\ failed' = (failed \/ page = "home")
  /\ loading' = FALSE
  /\ flight' = None

\* The database is unavailable.
Refuse(r) ==
  /\ UNCHANGED screen
  /\ IF r \in Fetch THEN UNCHANGED wire ELSE Emit(Unavailable)
  /\ IF flight = r THEN GiveUp ELSE UNCHANGED <<backoff, failed, loading, flight>>

-----------------------------------------------------------------------------
(* getState and get: from the memory and the cache, else from the database. *)

\* The chairs are copied from the memory before the totals are read.  While
\* the circuit is open the totals are those of an empty day.
getState(r) ==
  IF cache # None \/ ~allowDbAttempt
  THEN /\ Reply(r, [chairs |-> chairs, meta |-> IF cache # None THEN cache ELSE Zero])
       /\ reader' = [reader EXCEPT ![r] = Resting]
  ELSE /\ reader' = [reader EXCEPT ![r].step = "query", ![r].chairs = chairs]
       /\ UNCHANGED <<wire, screen, failed, flight, loading>>

GetState(r) ==
  /\ reader[r].step = "asked"
  /\ page = "live"
  /\ UNCHANGED conn
  /\ getState(r)
  /\ UNCHANGED <<page, serverVars, dbVars, visible, debounce, poll, backoff, filters, troubles>>

GetHome(r) ==
  /\ reader[r].step = "asked"
  /\ UNCHANGED conn
  /\ page = "home"
  /\ IF homeCache[reader[r].filters] # None
     THEN /\ ReplyHome(r, homeCache[reader[r].filters])
          /\ reader' = [reader EXCEPT ![r] = Resting]
          /\ UNCHANGED backoff
     ELSE IF allowDbAttempt
     THEN /\ reader' = [reader EXCEPT ![r].step = "query"]
          /\ UNCHANGED <<wire, screen, failed, flight, loading, backoff>>
     ELSE /\ Refuse(r)
          /\ reader' = [reader EXCEPT ![r] = Resting]
  /\ UNCHANGED <<page, serverVars, dbVars, visible, debounce, poll, filters, troubles>>

\* withDbCircuit: the read of the database.
Query(r) ==
  /\ reader[r].step = "query"
  /\ dbUp
  /\ reader' = [reader EXCEPT ![r].step = "read", ![r].meta = meta]
  /\ recordDbSuccess
  /\ UNCHANGED <<page, serverVars, dbUp, wire, conn, pageVars, troubles>>

QueryFails(r) ==
  /\ reader[r].step = "query"
  /\ UNCHANGED conn
  /\ Room(r)
  /\ ~dbUp
  /\ recordDbFailure
  /\ Refuse(r)
  /\ reader' = [reader EXCEPT ![r] = Resting]
  /\ UNCHANGED <<page, serverVars, dbUp, visible, debounce, poll, filters, troubles>>

\* What was read goes to the cache, whatever happened to the cache meanwhile.
Answer(r) ==
  /\ reader[r].step = "read"
  /\ UNCHANGED conn
  /\ Room(r)
  /\ IF page = "live"
     THEN /\ cache' = reader[r].meta
          /\ Reply(r, [chairs |-> reader[r].chairs, meta |-> reader[r].meta])
          /\ UNCHANGED homeCache
     ELSE /\ homeCache' = [homeCache EXCEPT ![reader[r].filters] = reader[r].meta]
          /\ ReplyHome(r, reader[r].meta)
          /\ UNCHANGED cache
  /\ reader' = [reader EXCEPT ![r] = Resting]
  /\ UNCHANGED <<page, chairs, meta, unfinished, dbVars,
                 visible, debounce, poll, backoff, filters, troubles>>

-----------------------------------------------------------------------------
(* The socket. *)

\* The tick of the realtime job broadcasts after a transition, and now and
\* then in any case, when a client is connected.
Broadcast(p) ==
  /\ page = "live"
  /\ Idle(p)
  /\ conn
  /\ Room(p)
  /\ UNCHANGED conn
  /\ getState(p)
  /\ UNCHANGED <<page, serverVars, dbVars, visible, debounce, poll, backoff, filters, troubles>>

\* A client that connects is sent the state; the fallback poll stops.
Connect(p) ==
  /\ page = "live"
  /\ ~conn
  /\ Idle(p)
  /\ conn' = TRUE
  /\ poll' = FALSE
  /\ getState(p)
  /\ UNCHANGED <<page, serverVars, dbVars, visible, debounce, backoff, filters, troubles>>

Disconnect ==
  /\ Trouble
  /\ conn
  /\ conn' = FALSE
  /\ wire' = <<>>
  /\ poll' = (poll \/ visible)
  /\ UNCHANGED <<page, serverVars, dbVars, reader, visible, flight, debounce, backoff,
                 filters, loading, failed, screen>>

\* connect_error: an attempt to connect again fails.
ConnectError ==
  /\ page = "live"
  /\ ~conn
  /\ visible
  /\ ~poll
  /\ poll' = TRUE
  /\ UNCHANGED <<page, serverVars, dbVars, reader, wire, conn, visible, flight, debounce,
                 backoff, filters, loading, failed, screen, troubles>>

\* dashboard:update waits for the debounce and replaces the one that waits;
\* a hidden tab drops it.
Receive ==
  /\ wire # <<>>
  /\ wire' = Tail(wire)
  /\ IF Head(wire) = Unavailable
     THEN failed' = TRUE /\ UNCHANGED debounce
     ELSE debounce' = (IF visible THEN Head(wire) ELSE debounce) /\ UNCHANGED failed
  /\ UNCHANGED <<page, serverVars, dbVars, reader, conn, visible, flight, poll, backoff,
                 filters, loading, screen, troubles>>

DebounceFires ==
  /\ debounce # None
  /\ applyState(debounce)
  /\ debounce' = None
  /\ UNCHANGED <<page, serverVars, dbVars, reader, wire, conn, visible, flight, poll, backoff,
                 filters, loading, troubles>>

-----------------------------------------------------------------------------
(* The page asks. *)

\* fetchState starts no second request; load aborts the one in flight.
MayFetch == visible /\ (page = "home" \/ flight = None)

Request(r, polled) ==
  /\ Idle(r)
  /\ reader' = [reader EXCEPT ![r] = [Resting EXCEPT !.step = "asked", !.polled = polled,
                  !.filters = IF page = "home" THEN filters' ELSE None]]
  /\ flight' = r

Ask(r) == Request(r, FALSE)

\* The backoff timer, also the first load of the page: a hidden tab, or a
\* fetch in flight, lets it go by.
BackoffFires ==
  /\ backoff
  /\ backoff' = FALSE
  /\ UNCHANGED filters
  /\ IF MayFetch THEN \E r \in Fetch : Ask(r) ELSE UNCHANGED <<reader, flight>>
  /\ UNCHANGED <<page, serverVars, dbVars, wire, conn, visible, debounce, poll,
                 loading, failed, screen, troubles>>

\* The interval.  A request times out (API_TIMEOUT_MS) long before the next
\* FALLBACK_POLL_MS are over, so that no poll meets the request of a poll.
PollFires ==
  /\ poll
  /\ MayFetch
  /\ flight # None => ~reader[flight].polled
  /\ UNCHANGED filters
  /\ \E r \in Fetch : Request(r, TRUE)
  /\ UNCHANGED <<page, serverVars, dbVars, wire, conn, visible, debounce, poll, backoff,
                 loading, failed, screen, troubles>>

\* setFilters and the effect it triggers, which React runs before anything else:
\* the timer of the old effect is cleared and its request aborted.
SetFilters(f) ==
  /\ page = "home"
  /\ visible
  /\ f # filters
  /\ Trouble
  /\ filters' = f
  /\ loading' = TRUE
  /\ failed' = FALSE
  /\ backoff' = FALSE
  /\ \E r \in Fetch : Ask(r)
  /\ UNCHANGED <<page, serverVars, dbVars, wire, conn, visible, debounce, poll, screen>>

\* refetch, the button of the page, or a refetch because liveSignal has changed.
Refetch ==
  /\ page = "home"
  /\ visible
  /\ Trouble
  /\ \/ loading' = TRUE /\ failed' = FALSE
     \/ UNCHANGED <<loading, failed>>
  /\ UNCHANGED filters
  /\ \E r \in Fetch : Ask(r)
  /\ UNCHANGED <<page, serverVars, dbVars, wire, conn, visible, debounce, poll, backoff, screen>>

\* A tab that is hidden aborts the fetch of the chairs and stops the poll;
\* the figures are left alone.
Hide ==
  /\ Trouble
  /\ visible
  /\ visible' = FALSE
  /\ IF page = "live"
     THEN poll' = FALSE /\ flight' = None
     ELSE UNCHANGED <<poll, flight>>
  /\ UNCHANGED <<page, serverVars, dbVars, reader, wire, conn, debounce, backoff,
                 filters, loading, failed, screen>>

\* A tab that is shown again loads.
Show ==
  /\ ~visible
  /\ visible' = TRUE
  /\ UNCHANGED filters
  /\ IF page = "home" \/ flight = None
     THEN \E r \in Fetch : Ask(r) ELSE UNCHANGED <<reader, flight>>
  /\ UNCHANGED <<page, serverVars, dbVars, wire, conn, debounce, poll, backoff,
                 loading, failed, screen, troubles>>

\* AbortSignal.timeout: the answer does not come in time.
Timeout ==
  /\ Trouble
  /\ flight # None
  /\ GiveUp
  /\ UNCHANGED <<page, serverVars, dbVars, reader, wire, conn, visible, debounce, poll,
                 filters, screen>>

-----------------------------------------------------------------------------
Next ==
  \/ ChairMoves
  \/ Commit
  \/ Finish
  \/ Expire
  \/ \E f \in Filter : ExpireHome(f)
  \/ HalfOpen
  \/ DatabaseFails
  \/ DatabaseReturns
  \/ \E r \in Reader : GetState(r)
  \/ \E r \in Reader : GetHome(r)
  \/ \E r \in Reader : Query(r)
  \/ \E r \in Reader : QueryFails(r)
  \/ \E r \in Reader : Answer(r)
  \/ \E p \in Push : Broadcast(p)
  \/ \E p \in Push : Connect(p)
  \/ Disconnect
  \/ ConnectError
  \/ Receive
  \/ DebounceFires
  \/ BackoffFires
  \/ PollFires
  \/ \E f \in Filter : SetFilters(f)
  \/ Refetch
  \/ Hide
  \/ Show
  \/ Timeout

Spec == Init /\ [][Next]_vars

\* Timers fire, messages arrive and requests are answered: the server and the
\* page never stop working on what they have begun.
Fairness ==
  /\ WF_vars(Finish)
  /\ WF_vars(Expire) /\ \A f \in Filter : WF_vars(ExpireHome(f))
  /\ WF_vars(HalfOpen)
  /\ \A r \in Reader : /\ WF_vars(GetState(r)) /\ WF_vars(GetHome(r)) /\ WF_vars(Query(r))
                       /\ WF_vars(QueryFails(r)) /\ WF_vars(Answer(r))
  /\ (\A p \in Push : WF_vars(Broadcast(p))) /\ WF_vars((\E p \in Push : Connect(p)) \/ ConnectError)
  /\ WF_vars(Receive) /\ WF_vars(DebounceFires)
  /\ WF_vars(BackoffFires) /\ WF_vars(PollFires)

FairSpec == Spec /\ Fairness

-----------------------------------------------------------------------------
(* Properties. *)

\* The variables have values of their kinds, and the page waits for a request
\* that is under way (inFlightRef).
TypeOK ==
  /\ page \in Page
  /\ {chairs, meta} \subseteq Version
  /\ cache \in Version \cup {None}
  /\ homeCache \in [Filter -> Version \cup {None}]
  /\ circuit \in [state: {"closed", "open", "half-open"}, failures: 0 .. Threshold]
  /\ debounce \in State \cup {None}
  /\ flight # None => ~Idle(flight)
  /\ screen = None \/ (page = "live" /\ screen.data \in State) \/ (page = "home" /\ screen.data \in Version)

\* The figures that are shown as loaded are those of the filters that are set:
\* an answer to earlier filters, to a poll or to a backoff never overwrites
\* them (useHomeDashboard.ts, "so a newer filter change always wins").
FiltersWin ==
  page = "home" /\ ~loading /\ ~failed /\ screen # None => screen.filters = filters

Current ==
  screen # None /\ (IF page = "live" THEN screen.data = [chairs |-> chairs, meta |-> meta]
                    ELSE screen.data = meta /\ screen.filters = filters)

\* The screen catches up: once the tab stays visible and the database up, and
\* nothing changes any more, the screen comes to show the data as they are and
\* keeps doing so, whatever an old read left in a cache, a lost message or a
\* late answer showed before.
ScreenCatchesUp == <>[](visible /\ dbUp) => <>[]Current
=============================================================================
