---------------------------- MODULE ScreensProofs ----------------------------
(***************************************************************************)
(* What TLAPS proves of Screens, for any number of requests in flight,     *)
(* filters, changes and troubles.                                          *)
(*                                                                         *)
(* The page never shows, as loaded, figures of other filters than those    *)
(* that are set.  The argument is about requests: the request that is not  *)
(* aborted carries the filters that are set, because whatever changes the  *)
(* filters replaces that request in the same step; and the only way out of *)
(* loading or of an error is an answer to that request, or an error.  The  *)
(* socket takes no part in it: a page of figures has no connection.        *)
(***************************************************************************)
EXTENDS Screens, SequenceTheorems, TLAPS

Read == [step: {"idle", "asked", "query", "read"}, chairs: Version, meta: Version,
         filters: Filter \cup {None}, polled: BOOLEAN]

\* The variables of the server and of the socket.
ServerTyped ==
  /\ page \in Page
  /\ chairs \in Version /\ meta \in Version
  /\ cache \in Version \cup {None}
  /\ homeCache \in [Filter -> Version \cup {None}]
  /\ circuit \in [state: {"closed", "open", "half-open"}, failures: 0 .. Threshold]
  /\ reader \in [Reader -> Read]
  /\ wire \in Seq(State \cup {Unavailable})

\* The variables of the page; only a page of chairs uses the socket.
PageTyped ==
  /\ debounce \in State \cup {None}
  /\ flight \in Fetch \cup {None}
  /\ page = "home" => wire = <<>> /\ debounce = None /\ \A p \in Reader \ Fetch : Idle(p)

\* The request that is not aborted is under way.
FlightUnderWay == flight # None => ~Idle(flight)

Shows(s) == \/ s = None
            \/ page = "live" /\ s.data \in State
            \/ page = "home" /\ s.data \in Version

ScreensTyped == ServerTyped /\ PageTyped /\ FlightUnderWay /\ Shows(screen)

\* On a page of figures, requests ask for filters, and the one that is not
\* aborted for those that are set.
AsksForFilters ==
  page = "home" =>
    /\ filters \in Filter
    /\ \A r \in Reader : ~Idle(r) => reader[r].filters \in Filter
    /\ flight # None => reader[flight].filters = filters

ScreensInv == ScreensTyped /\ AsksForFilters /\ FiltersWin

-----------------------------------------------------------------------------
(***************************************************************************)
(* Facts about requests and answers.                                       *)
(***************************************************************************)
LEMMA RestingIsRead == Resting \in Read
  BY ScreenAssumption DEF Resting, Read, Version

\* A request rests again, and is no longer waited for.
LEMMA Rests ==
  ASSUME ScreensTyped, NEW r \in Reader, reader' = [reader EXCEPT ![r] = Resting],
         flight' \in {flight, None}, flight = r => flight' = None
  PROVE  /\ reader' \in [Reader -> Read]
         /\ flight' \in Fetch \cup {None}
         /\ FlightUnderWay'
         /\ \A p \in Reader : Idle(p) => Idle(p)'
         /\ \A q \in Reader : q # r => reader'[q] = reader[q]
<1>1. reader \in [Reader -> Read] /\ flight \in Fetch \cup {None}
  BY DEF ScreensTyped, ServerTyped, PageTyped
<1>2. reader' \in [Reader -> Read] /\ \A q \in Reader : q # r => reader'[q] = reader[q]
  BY <1>1, RestingIsRead
<1>3. Idle(r)'
  BY <1>1 DEF Idle, Resting
<1>4. \A p \in Reader : Idle(p) => Idle(p)'
  BY <1>2, <1>3 DEF Idle
<1>5. FlightUnderWay'
  <2>1. SUFFICES ASSUME flight' # None PROVE ~Idle(flight)'
    BY DEF FlightUnderWay
  <2>2. flight' = flight /\ flight # r /\ flight \in Reader /\ ~Idle(flight)
    BY <1>1, <2>1 DEF ScreensTyped, FlightUnderWay, Reader
  <2> QED
    BY <1>2, <2>2 DEF Idle
<1> QED
  BY <1>1, <1>2, <1>4, <1>5

\* The database is asked for what a request wants.
LEMMA Queries ==
  ASSUME ScreensTyped, NEW r \in Reader, NEW k \in Read, k.step # "idle",
         reader' = [reader EXCEPT ![r] = k], UNCHANGED flight
  PROVE  /\ reader' \in [Reader -> Read]
         /\ FlightUnderWay'
         /\ \A q \in Reader : q # r => reader'[q] = reader[q]
<1>1. reader \in [Reader -> Read] /\ flight \in Fetch \cup {None}
  BY DEF ScreensTyped, ServerTyped, PageTyped
<1>2. /\ reader' \in [Reader -> Read]
      /\ reader'[r] = k
      /\ \A q \in Reader : q # r => reader'[q] = reader[q]
  BY <1>1
<1>3. FlightUnderWay'
  BY <1>1, <1>2 DEF ScreensTyped, FlightUnderWay, Reader, Idle
<1> QED
  BY <1>2, <1>3

\* A message is sent on the socket.
LEMMA Emits ==
  ASSUME wire \in Seq(State \cup {Unavailable}), NEW m \in State \cup {Unavailable}, Emit(m)
  PROVE  wire' \in Seq(State \cup {Unavailable})
  BY DEF Emit

\* The chairs and the totals are a state of the dashboard.
LEMMA TotalsAreState ==
  ASSUME NEW c \in Version, NEW m \in Version \cup {Zero}
  PROVE  [chairs |-> c, meta |-> m] \in State
  BY DEF State

\* An answer of getState, to a page of chairs.
LEMMA Replies ==
  ASSUME ScreensInv, page = "live", UNCHANGED page, NEW r \in Reader, NEW s \in State, Reply(r, s),
         reader' = [reader EXCEPT ![r] = Resting]
  PROVE  /\ reader' \in [Reader -> Read]
         /\ wire' \in Seq(State \cup {Unavailable})
         /\ flight' \in Fetch \cup {None}
         /\ FlightUnderWay'
         /\ Shows(screen)'
<1>1. wire \in Seq(State \cup {Unavailable}) /\ flight \in Fetch \cup {None} /\ Shows(screen)
  BY DEF ScreensInv, ScreensTyped, ServerTyped, PageTyped
<1>2. wire' \in Seq(State \cup {Unavailable})
  BY <1>1, Emits DEF Reply
<1>3. flight' \in {flight, None} /\ (flight = r => flight' = None)
  BY <1>1, ScreenAssumption DEF Reply, applyFetch
<1>4. Shows(screen)'
  <2>1. CASE UNCHANGED screen
    BY <1>1, <2>1 DEF Shows
  <2>2. CASE screen' = [data |-> s, filters |-> None]
    BY <2>2 DEF Shows
  <2> QED
    BY <2>1, <2>2 DEF Reply, applyFetch, applyState
<1> QED
  BY <1>2, <1>3, <1>4, Rests DEF ScreensInv

\* A request is sent, with the filters that are set by then.
LEMMA Asks ==
  ASSUME ScreensInv, UNCHANGED page, NEW r \in Fetch, NEW polled \in BOOLEAN,
         page = "home" => filters' \in Filter, Request(r, polled)
  PROVE  /\ reader' \in [Reader -> Read]
         /\ flight' \in Fetch \cup {None}
         /\ FlightUnderWay' /\ AsksForFilters'
         /\ \A p \in Reader \ Fetch : reader'[p] = reader[p]
<1> DEFINE k == [Resting EXCEPT !.step = "asked", !.polled = polled,
                   !.filters = IF page = "home" THEN filters' ELSE None]
<1>1. reader \in [Reader -> Read] /\ r \in Reader
  BY DEF ScreensInv, ScreensTyped, ServerTyped, Reader
<1>2. k \in Read /\ k.step = "asked" /\ (page = "home" => k.filters = filters')
  BY RestingIsRead DEF Read, Resting
<1>3. reader' = [reader EXCEPT ![r] = k] /\ flight' = r
  BY DEF Request
<1> HIDE DEF k
<1>4. reader' \in [Reader -> Read] /\ reader'[r] = k /\ \A p \in Reader \ Fetch : reader'[p] = reader[p]
  BY <1>1, <1>2, <1>3
<1>5. FlightUnderWay'
  BY <1>2, <1>3, <1>4 DEF FlightUnderWay, Idle
<1>6. AsksForFilters'
  <2>1. \A q \in Reader : q # r => reader'[q] = reader[q]
    BY <1>1, <1>3
  <2> QED
    BY <1>2, <1>3, <1>4, <2>1 DEF ScreensInv, AsksForFilters, Idle
<1> QED
  BY <1>3, <1>4, <1>5, <1>6

-----------------------------------------------------------------------------
(***************************************************************************)
(* Steps that leave the requests and the screen alone, and steps of a page *)
(* of chairs, whose filters do not matter.                                 *)
(***************************************************************************)
LEMMA QuietStep ==
  ASSUME ScreensInv, UNCHANGED <<page, reader, flight, filters, loading, failed, screen>>,
         ServerTyped', debounce' \in State \cup {None},
         page = "home" => wire' = <<>> /\ debounce' = None
  PROVE  ScreensInv'
<1>1. PageTyped'
  BY DEF ScreensInv, ScreensTyped, PageTyped, Idle
<1>2. FlightUnderWay' /\ Shows(screen)'
  BY DEF ScreensInv, ScreensTyped, FlightUnderWay, Shows, Idle
<1>3. AsksForFilters' /\ FiltersWin'
  BY DEF ScreensInv, AsksForFilters, FiltersWin, Idle
<1> QED
  BY <1>1, <1>2, <1>3 DEF ScreensInv, ScreensTyped

LEMMA ChairsStep ==
  ASSUME page = "live", UNCHANGED page, ScreensTyped'
  PROVE  ScreensInv'
  BY DEF ScreensInv, AsksForFilters, FiltersWin

\* On a page of chairs, only the types of the variables are left to show.
LEMMA LiveTyped ==
  ASSUME ScreensInv, page = "live", UNCHANGED <<page, filters>>,
         {chairs', meta'} \subseteq Version, cache' \in Version \cup {None},
         UNCHANGED homeCache,
         circuit' \in [state: {"closed", "open", "half-open"}, failures: 0 .. Threshold],
         reader' \in [Reader -> Read],
         wire' \in Seq(State \cup {Unavailable}),
         debounce' \in State \cup {None},
         flight' \in Fetch \cup {None}, FlightUnderWay', Shows(screen)'
  PROVE  ScreensInv'
<1>1. ServerTyped'
  BY DEF ScreensInv, ScreensTyped, ServerTyped
<1>2. PageTyped'
  BY DEF ScreensInv, ScreensTyped, PageTyped
<1> QED
  BY <1>1, <1>2, ChairsStep DEF ScreensTyped

-----------------------------------------------------------------------------
(***************************************************************************)
(* The data and the caches.                                                *)
(***************************************************************************)
LEMMA DataKeepInv ==
  ASSUME ScreensInv, ChairMoves \/ Commit \/ Finish \/ Expire \/ \E f \in Filter : ExpireHome(f)
  PROVE  ScreensInv'
<1>1. ServerTyped
  BY DEF ScreensInv, ScreensTyped
<1>2. chairs' \in Version /\ meta' \in Version
  BY <1>1, ScreenAssumption DEF ServerTyped, Version, ChairMoves, Commit, Finish, Expire, ExpireHome
<1>3. cache' \in Version \cup {None} /\ homeCache' \in [Filter -> Version \cup {None}]
  BY <1>1 DEF ServerTyped, ChairMoves, Commit, Finish, Expire, ExpireHome, invalidateCache
<1>4. UNCHANGED <<page, reader, wire, pageVars, circuit>>
  BY DEF ChairMoves, Commit, Finish, Expire, ExpireHome, dbVars
<1>5. ServerTyped'
  BY <1>1, <1>2, <1>3, <1>4 DEF ServerTyped
<1> QED
  BY <1>4, <1>5, QuietStep DEF pageVars, ScreensInv, ScreensTyped, PageTyped

LEMMA DatabaseKeepsInv ==
  ASSUME ScreensInv, HalfOpen \/ DatabaseFails \/ DatabaseReturns
  PROVE  ScreensInv'
<1>1. ServerTyped
  BY DEF ScreensInv, ScreensTyped
<1>2. circuit' \in [state: {"closed", "open", "half-open"}, failures: 0 .. Threshold]
  BY <1>1 DEF ServerTyped, HalfOpen, DatabaseFails, DatabaseReturns
<1>3. UNCHANGED <<page, serverVars, reader, wire, pageVars>>
  BY DEF HalfOpen, DatabaseFails, DatabaseReturns
<1>4. ServerTyped'
  BY <1>1, <1>2, <1>3 DEF ServerTyped, serverVars
<1> QED
  BY <1>3, <1>4, QuietStep DEF pageVars, ScreensInv, ScreensTyped, PageTyped

-----------------------------------------------------------------------------
(***************************************************************************)
(* The server answers.                                                     *)
(***************************************************************************)
\* The state is asked for by a request or by the socket.
LEMMA GetStateKeepsInv ==
  ASSUME ScreensInv, page = "live", NEW r \in Reader,
         Idle(r) \/ reader[r].step = "asked", getState(r),
         UNCHANGED <<page, serverVars, dbVars, debounce, filters>>
  PROVE  ScreensInv'
<1>1. ServerTyped /\ PageTyped /\ Shows(screen)
  BY DEF ScreensInv, ScreensTyped
<1>2. CASE cache # None \/ ~allowDbAttempt
  <2> DEFINE s == [chairs |-> chairs, meta |-> IF cache # None THEN cache ELSE Zero]
  <2>1. s \in State
    BY <1>1, TotalsAreState DEF ServerTyped
  <2>2. Reply(r, s) /\ reader' = [reader EXCEPT ![r] = Resting]
    BY <1>2 DEF getState
  <2> HIDE DEF s
  <2>3. /\ reader' \in [Reader -> Read]
        /\ wire' \in Seq(State \cup {Unavailable})
        /\ flight' \in Fetch \cup {None}
        /\ FlightUnderWay' /\ Shows(screen)'
    BY <2>1, <2>2, Replies
  <2> QED
    BY <1>1, <2>3, LiveTyped DEF serverVars, dbVars, ServerTyped, PageTyped
<1>3. CASE ~(cache # None \/ ~allowDbAttempt)
  <2> DEFINE k == [reader[r] EXCEPT !.step = "query", !.chairs = chairs]
  <2>1. k \in Read /\ k.step = "query"
    BY <1>1 DEF ServerTyped, Read
  <2>2. reader' = [reader EXCEPT ![r] = k] /\ UNCHANGED <<wire, screen, failed, flight, loading>>
    BY <1>3 DEF getState
  <2> HIDE DEF k
  <2>3. reader' \in [Reader -> Read] /\ FlightUnderWay'
    BY <2>1, <2>2, Queries DEF ScreensInv
  <2>4. Shows(screen)'
    BY <1>1, <2>2 DEF Shows
  <2> QED
    BY <1>1, <2>2, <2>3, <2>4, LiveTyped DEF serverVars, dbVars, ServerTyped, PageTyped
<1> QED
  BY <1>2, <1>3

LEMMA FiguresStep ==
  ASSUME ScreensInv, page = "home", UNCHANGED <<page, debounce, wire>>, ServerTyped',
         flight' \in Fetch \cup {None},
         \A p \in Reader \ Fetch : Idle(p) => Idle(p)',
         FlightUnderWay', AsksForFilters', Shows(screen)', FiltersWin'
  PROVE  ScreensInv'
<1>1. PageTyped'
  BY DEF ScreensInv, ScreensTyped, PageTyped
<1> QED
  BY <1>1 DEF ScreensInv, ScreensTyped

\* A request of the figures that has been answered or refused rests; the one
\* that is not aborted still asks for the filters that are set.
LEMMA FiguresRest ==
  ASSUME ScreensInv, page = "home", UNCHANGED <<page, filters>>, NEW r \in Reader,
         reader' = [reader EXCEPT ![r] = Resting],
         flight' \in {flight, None}, flight = r => flight' = None
  PROVE  /\ reader' \in [Reader -> Read]
         /\ flight' \in Fetch \cup {None}
         /\ FlightUnderWay' /\ AsksForFilters'
         /\ \A p \in Reader \ Fetch : Idle(p) => Idle(p)'
<1>1. /\ reader' \in [Reader -> Read]
      /\ flight' \in Fetch \cup {None}
      /\ FlightUnderWay'
      /\ \A p \in Reader : Idle(p) => Idle(p)'
      /\ \A q \in Reader : q # r => reader'[q] = reader[q]
  BY Rests DEF ScreensInv
<1>2. AsksForFilters'
  <2>1. Idle(r)'
    BY DEF Idle, Resting, ScreensInv, ScreensTyped, ServerTyped
  <2> QED
    BY <1>1, <2>1 DEF ScreensInv, AsksForFilters, Reader, Idle
<1> QED
  BY <1>1, <1>2

\* On a page of figures, only the page asks.
LEMMA FiguresAreFetched ==
  ASSUME ScreensInv, page = "home", NEW r \in Reader, ~Idle(r)
  PROVE  r \in Fetch /\ r # None
  BY ScreenAssumption DEF ScreensInv, ScreensTyped, PageTyped

\* An answer with figures.
LEMMA FiguresAnswered ==
  ASSUME ScreensInv, page = "home", NEW r \in Reader, ~Idle(r), NEW v \in Version,
         ReplyHome(r, v), reader' = [reader EXCEPT ![r] = Resting],
         UNCHANGED <<page, chairs, meta, cache, circuit, debounce, filters>>,
         homeCache' \in [Filter -> Version \cup {None}]
  PROVE  ScreensInv'
<1>1. r \in Fetch /\ r # None
  BY FiguresAreFetched
<1>2. /\ reader' \in [Reader -> Read]
      /\ flight' \in Fetch \cup {None}
      /\ FlightUnderWay' /\ AsksForFilters'
      /\ \A p \in Reader \ Fetch : Idle(p) => Idle(p)'
  BY FiguresRest DEF ReplyHome, applyHome
<1>3. ServerTyped'
  BY <1>2 DEF ScreensInv, ScreensTyped, ServerTyped, ReplyHome
<1>4. Shows(screen)' /\ FiltersWin'
  <2>1. CASE flight = r
    <3>1. /\ screen' = [data |-> v, filters |-> reader[r].filters]
          /\ reader[r].filters = filters
      BY <1>1, <2>1 DEF ReplyHome, applyHome, ScreensInv, AsksForFilters
    <3> QED
      BY <3>1 DEF Shows, FiltersWin
  <2>2. CASE flight # r
    <3>1. UNCHANGED <<screen, loading, failed>>
      BY <2>2 DEF ReplyHome, applyHome
    <3> QED
      BY <3>1 DEF ScreensInv, ScreensTyped, Shows, FiltersWin
  <2> QED
    BY <2>1, <2>2
<1> QED
  BY <1>2, <1>3, <1>4, FiguresStep DEF ReplyHome

\* The database is unavailable.
LEMMA FiguresRefused ==
  ASSUME ScreensInv, page = "home", NEW r \in Reader, ~Idle(r),
         Refuse(r), reader' = [reader EXCEPT ![r] = Resting],
         UNCHANGED <<page, chairs, meta, cache, homeCache, debounce, filters>>,
         circuit' \in [state: {"closed", "open", "half-open"}, failures: 0 .. Threshold]
  PROVE  ScreensInv'
<1>1. r \in Fetch /\ r # None
  BY FiguresAreFetched
<1>2. /\ reader' \in [Reader -> Read]
      /\ flight' \in Fetch \cup {None}
      /\ FlightUnderWay' /\ AsksForFilters'
      /\ \A p \in Reader \ Fetch : Idle(p) => Idle(p)'
  BY FiguresRest DEF Refuse, GiveUp
<1>3. UNCHANGED wire
  BY <1>1 DEF Refuse
<1>4. ServerTyped'
  BY <1>2, <1>3 DEF ScreensInv, ScreensTyped, ServerTyped
<1>5. Shows(screen)'
  BY DEF ScreensInv, ScreensTyped, Shows, Refuse
<1>6. FiltersWin'
  <2>1. CASE flight = r
    BY <2>1 DEF Refuse, GiveUp, FiltersWin
  <2>2. CASE flight # r
    BY <2>2 DEF Refuse, ScreensInv, FiltersWin
  <2> QED
    BY <2>1, <2>2
<1> QED
  BY <1>2, <1>3, <1>4, <1>5, <1>6, FiguresStep

LEMMA ChairsRefused ==
  ASSUME ScreensInv, page = "live", NEW r \in Reader,
         Refuse(r), reader' = [reader EXCEPT ![r] = Resting],
         UNCHANGED <<page, chairs, meta, cache, homeCache, debounce, filters>>,
         circuit' \in [state: {"closed", "open", "half-open"}, failures: 0 .. Threshold]
  PROVE  ScreensInv'
<1>1. ServerTyped /\ PageTyped
  BY DEF ScreensInv, ScreensTyped
<1>2. reader' \in [Reader -> Read] /\ flight' \in Fetch \cup {None} /\ FlightUnderWay'
  BY Rests DEF Refuse, GiveUp, ScreensInv
<1>3. wire' \in Seq(State \cup {Unavailable})
  BY <1>1, Emits DEF Refuse, ServerTyped
<1>4. Shows(screen)'
  BY DEF ScreensInv, ScreensTyped, Shows, Refuse
<1> QED
  BY <1>1, <1>2, <1>3, <1>4, LiveTyped DEF ServerTyped, PageTyped
\* The database is asked, or has answered, for the filters of the request.
LEMMA FiguresQueried ==
  ASSUME ScreensInv, page = "home", NEW r \in Reader, ~Idle(r),
         NEW k \in Read, k.step # "idle", k.filters = reader[r].filters,
         reader' = [reader EXCEPT ![r] = k],
         UNCHANGED <<page, chairs, meta, cache, homeCache, wire, debounce, filters,
                     flight, loading, failed, screen>>,
         circuit' \in [state: {"closed", "open", "half-open"}, failures: 0 .. Threshold]
  PROVE  ScreensInv'
<1>1. r \in Fetch
  BY FiguresAreFetched
<1>2. ServerTyped /\ PageTyped
  BY DEF ScreensInv, ScreensTyped
<1>3. /\ reader' \in [Reader -> Read]
      /\ FlightUnderWay'
      /\ \A q \in Reader : q # r => reader'[q] = reader[q]
  BY Queries DEF ScreensInv
<1>4. reader'[r] = k
  BY <1>2 DEF ServerTyped
<1>5. AsksForFilters'
  BY <1>3, <1>4 DEF ScreensInv, AsksForFilters, Idle
<1>6. \A p \in Reader \ Fetch : Idle(p) => Idle(p)'
  BY <1>1, <1>3 DEF Idle
<1>7. ServerTyped'
  BY <1>2, <1>3 DEF ServerTyped
<1>8. Shows(screen)' /\ FiltersWin'
  BY DEF ScreensInv, ScreensTyped, Shows, FiltersWin
<1> QED
  BY <1>2, <1>3, <1>5, <1>6, <1>7, <1>8, FiguresStep DEF PageTyped

LEMMA GetHomeKeepsInv ==
  ASSUME ScreensInv, NEW r \in Reader, GetHome(r)
  PROVE  ScreensInv'
<1>1. /\ page = "home" /\ reader[r].step = "asked"
      /\ UNCHANGED <<page, chairs, meta, cache, homeCache, circuit, debounce, filters>>
  BY DEF GetHome, serverVars, dbVars
<1>2. ~Idle(r)
  BY <1>1 DEF Idle
<1>3. r \in Fetch /\ r # None
  BY <1>1, <1>2, FiguresAreFetched
<1>4. ServerTyped /\ PageTyped
  BY DEF ScreensInv, ScreensTyped
<1>5. CASE homeCache[reader[r].filters] # None
  <2> DEFINE v == homeCache[reader[r].filters]
  <2>1. ReplyHome(r, v) /\ reader' = [reader EXCEPT ![r] = Resting]
    BY <1>5 DEF GetHome
  <2>2. v \in Version
    BY <1>1, <1>2, <1>4, <1>5 DEF ServerTyped, ScreensInv, AsksForFilters
  <2> HIDE DEF v
  <2> QED
    BY <1>1, <1>2, <1>4, <2>1, <2>2, FiguresAnswered DEF ServerTyped
<1>6. CASE homeCache[reader[r].filters] = None /\ allowDbAttempt
  <2> DEFINE k == [reader[r] EXCEPT !.step = "query"]
  <2>1. k \in Read /\ k.step = "query" /\ k.filters = reader[r].filters
    BY <1>4 DEF ServerTyped, Read
  <2>2. /\ reader' = [reader EXCEPT ![r] = k]
        /\ UNCHANGED <<wire, screen, failed, flight, loading>>
    BY <1>6 DEF GetHome
  <2> HIDE DEF k
  <2> QED
    BY <1>1, <1>2, <1>4, <2>1, <2>2, FiguresQueried DEF ServerTyped
<1>7. CASE homeCache[reader[r].filters] = None /\ ~allowDbAttempt
  <2>1. Refuse(r) /\ reader' = [reader EXCEPT ![r] = Resting]
    BY <1>7 DEF GetHome
  <2> QED
    BY <1>1, <1>2, <1>4, <2>1, FiguresRefused DEF ServerTyped
<1> QED
  BY <1>5, <1>6, <1>7

\* The database answers or fails.
LEMMA QueryKeepsInv ==
  ASSUME ScreensInv, NEW r \in Reader, Query(r)
  PROVE  ScreensInv'
<1> DEFINE k == [reader[r] EXCEPT !.step = "read", !.meta = meta]
<1>1. ServerTyped /\ PageTyped /\ Shows(screen)
  BY DEF ScreensInv, ScreensTyped
<1>2. /\ reader' = [reader EXCEPT ![r] = k]
      /\ UNCHANGED <<page, chairs, meta, cache, homeCache, wire, flight, debounce, filters,
                     loading, failed, screen>>
      /\ ~Idle(r)
  BY DEF Query, serverVars, pageVars, Idle
<1>3. k \in Read /\ k.step # "idle" /\ k.filters = reader[r].filters
  BY <1>1 DEF ServerTyped, Read
<1>4. circuit' \in [state: {"closed", "open", "half-open"}, failures: 0 .. Threshold]
  BY ScreenAssumption DEF Query, recordDbSuccess
<1> HIDE DEF k
<1>5. CASE page = "home"
  BY <1>2, <1>3, <1>4, <1>5, FiguresQueried
<1>6. CASE page = "live"
  <2>1. reader' \in [Reader -> Read] /\ FlightUnderWay'
    BY <1>2, <1>3, Queries DEF ScreensInv
  <2>2. Shows(screen)'
    BY <1>1, <1>2 DEF Shows
  <2> QED
    BY <1>1, <1>2, <1>4, <1>6, <2>1, <2>2, LiveTyped DEF ServerTyped, PageTyped
<1> QED
  BY <1>1, <1>5, <1>6 DEF ServerTyped, Page

LEMMA QueryFailsKeepsInv ==
  ASSUME ScreensInv, NEW r \in Reader, QueryFails(r)
  PROVE  ScreensInv'
<1>1. page \in Page /\ circuit \in [state: {"closed", "open", "half-open"}, failures: 0 .. Threshold]
  BY DEF ScreensInv, ScreensTyped, ServerTyped
<1>2. /\ Refuse(r) /\ reader' = [reader EXCEPT ![r] = Resting] /\ ~Idle(r)
      /\ UNCHANGED <<page, chairs, meta, cache, homeCache, debounce, filters>>
  BY DEF QueryFails, serverVars, Idle
<1>3. circuit' \in [state: {"closed", "open", "half-open"}, failures: 0 .. Threshold]
  BY <1>1, ScreenAssumption DEF QueryFails, recordDbFailure
<1> QED
  BY <1>1, <1>2, <1>3, FiguresRefused, ChairsRefused DEF Page

LEMMA AnswerKeepsInv ==
  ASSUME ScreensInv, NEW r \in Reader, Answer(r)
  PROVE  ScreensInv'
<1>1. ServerTyped /\ PageTyped
  BY DEF ScreensInv, ScreensTyped
<1>2. /\ UNCHANGED <<page, chairs, meta, circuit, debounce, filters>>
      /\ reader' = [reader EXCEPT ![r] = Resting]
      /\ ~Idle(r)
  BY DEF Answer, dbVars, Idle
<1>3. /\ reader[r].chairs \in Version /\ reader[r].meta \in Version
      /\ reader[r] \in Read
  BY <1>1 DEF ServerTyped, Read
<1>4. CASE page = "live"
  <2>1. [chairs |-> reader[r].chairs, meta |-> reader[r].meta] \in State
    BY <1>3, TotalsAreState
  <2>2. /\ Reply(r, [chairs |-> reader[r].chairs, meta |-> reader[r].meta])
        /\ cache' \in Version /\ UNCHANGED homeCache
    BY <1>3, <1>4 DEF Answer
  <2>3. /\ reader' \in [Reader -> Read]
        /\ wire' \in Seq(State \cup {Unavailable})
        /\ flight' \in Fetch \cup {None}
        /\ FlightUnderWay' /\ Shows(screen)'
    BY <1>2, <1>4, <2>1, <2>2, Replies
  <2> QED
    BY <1>1, <1>2, <1>4, <2>2, <2>3, LiveTyped DEF ServerTyped, PageTyped
<1>5. CASE page = "home"
  <2>1. /\ ReplyHome(r, reader[r].meta) /\ UNCHANGED cache
        /\ homeCache' = [homeCache EXCEPT ![reader[r].filters] = reader[r].meta]
    BY <1>5 DEF Answer
  <2>2. homeCache' \in [Filter -> Version \cup {None}]
    BY <1>1, <1>3, <2>1 DEF ServerTyped
  <2> QED
    BY <1>2, <1>3, <1>5, <2>1, <2>2, FiguresAnswered
<1> QED
  BY <1>1, <1>4, <1>5 DEF ServerTyped, Page

LEMMA GettingKeepsInv ==
  ASSUME ScreensInv,
         \/ \E r \in Reader : GetState(r) \/ GetHome(r)
         \/ \E p \in Push : Broadcast(p) \/ Connect(p)
  PROVE  ScreensInv'
<1>1. CASE \E r \in Reader : GetHome(r)
  BY <1>1, GetHomeKeepsInv
<1>2. ASSUME NEW r \in Reader, GetState(r) \/ (r \in Push /\ (Broadcast(r) \/ Connect(r)))
      PROVE  ScreensInv'
  <2>1. /\ page = "live" /\ (Idle(r) \/ reader[r].step = "asked") /\ getState(r)
        /\ UNCHANGED <<page, serverVars, dbVars, debounce, filters>>
    BY <1>2 DEF GetState, Broadcast, Connect
  <2> QED
    BY <2>1, GetStateKeepsInv
<1> QED
  BY <1>1, <1>2 DEF Reader

-----------------------------------------------------------------------------
(***************************************************************************)
(* The socket.                                                             *)
(***************************************************************************)
LEMMA SocketKeepsInv ==
  ASSUME ScreensInv, Disconnect \/ ConnectError
  PROVE  ScreensInv'
<1>1. ServerTyped /\ PageTyped
  BY DEF ScreensInv, ScreensTyped
<1>2. /\ wire' \in {wire, <<>>}
      /\ UNCHANGED <<page, chairs, meta, cache, homeCache, circuit, reader, debounce,
                     flight, filters, loading, failed, screen>>
  BY DEF Disconnect, ConnectError, serverVars, dbVars
<1>3. <<>> \in Seq(State \cup {Unavailable})
  OBVIOUS
<1>4. ServerTyped'
  BY <1>1, <1>2, <1>3 DEF ServerTyped
<1> QED
  BY <1>1, <1>2, <1>4, QuietStep DEF PageTyped

LEMMA MessagesKeepInv ==
  ASSUME ScreensInv, Receive \/ DebounceFires
  PROVE  ScreensInv'
<1>1. ServerTyped /\ PageTyped /\ FlightUnderWay /\ Shows(screen)
  BY DEF ScreensInv, ScreensTyped
<1>2. page = "live"
  BY <1>1 DEF ServerTyped, PageTyped, Page, Receive, DebounceFires
<1>3. UNCHANGED <<page, chairs, meta, cache, homeCache, circuit, reader, flight, filters>>
  BY DEF Receive, DebounceFires, serverVars, dbVars
<1>4. wire' \in Seq(State \cup {Unavailable}) /\ debounce' \in State \cup {None}
  <2>1. CASE Receive
    <3>1. wire \in Seq(State \cup {Unavailable}) /\ wire # <<>> /\ wire' = Tail(wire)
      BY <1>1, <2>1 DEF ServerTyped, Receive
    <3>2. wire' \in Seq(State \cup {Unavailable}) /\ Head(wire) \in State \cup {Unavailable}
      BY <3>1, HeadTailProperties
    <3> QED
      BY <1>1, <2>1, <3>2 DEF PageTyped, Receive
  <2>2. CASE DebounceFires
    BY <1>1, <2>2 DEF ServerTyped, PageTyped, DebounceFires
  <2> QED
    BY <2>1, <2>2
<1>5. Shows(screen)'
  <2>1. CASE Receive
    BY <1>1, <2>1 DEF Shows, Receive
  <2>2. CASE DebounceFires
    <3>1. screen' = [data |-> debounce, filters |-> None] /\ debounce \in State
      BY <1>1, <2>2 DEF PageTyped, DebounceFires, applyState
    <3> QED
      BY <1>2, <1>3, <3>1 DEF Shows
  <2> QED
    BY <2>1, <2>2
<1>6. FlightUnderWay'
  BY <1>1, <1>3 DEF FlightUnderWay, Idle
<1> QED
  BY <1>1, <1>2, <1>3, <1>4, <1>5, <1>6, LiveTyped DEF ServerTyped, PageTyped

-----------------------------------------------------------------------------
(***************************************************************************)
(* The page asks.                                                          *)
(***************************************************************************)
\* A request is sent; the page has not begun to show its figures as loaded.
LEMMA AskingKeepsInv ==
  ASSUME ScreensInv, NEW r \in Fetch, NEW polled \in BOOLEAN, Request(r, polled),
         UNCHANGED <<page, serverVars, circuit, wire, debounce, screen>>,
         page = "home" => filters' \in Filter,
         page = "live" => UNCHANGED filters,
         \/ UNCHANGED <<filters, loading, failed>>
         \/ loading' = TRUE
  PROVE  ScreensInv'
<1>1. ServerTyped /\ PageTyped /\ Shows(screen)
  BY DEF ScreensInv, ScreensTyped
<1>2. /\ reader' \in [Reader -> Read]
      /\ flight' \in Fetch \cup {None}
      /\ FlightUnderWay' /\ AsksForFilters'
      /\ \A p \in Reader \ Fetch : reader'[p] = reader[p]
  BY Asks
<1>3. ServerTyped' /\ Shows(screen)'
  BY <1>1, <1>2 DEF ServerTyped, serverVars, Shows
<1>4. FiltersWin'
  BY DEF ScreensInv, FiltersWin
<1>5. PageTyped'
  BY <1>1, <1>2 DEF PageTyped, Idle
<1> QED
  BY <1>2, <1>3, <1>4, <1>5 DEF ScreensInv, ScreensTyped

\* Nothing is asked.
LEMMA NotAskingKeepsInv ==
  ASSUME ScreensInv,
         UNCHANGED <<page, serverVars, circuit, wire, debounce, reader, filters, screen>>,
         \/ UNCHANGED <<flight, loading, failed>>
         \/ page = "live" /\ flight' = None
         \/ flight' = None /\ failed' = TRUE
  PROVE  ScreensInv'
<1>1. ServerTyped' /\ Shows(screen)' /\ PageTyped'
  BY DEF ScreensInv, ScreensTyped, ServerTyped, serverVars, Shows, PageTyped, Idle
<1>2. FlightUnderWay' /\ AsksForFilters' /\ FiltersWin'
  BY DEF ScreensInv, ScreensTyped, FlightUnderWay, AsksForFilters, FiltersWin, Idle
<1> QED
  BY <1>1, <1>2 DEF ScreensInv, ScreensTyped

LEMMA PageKeepsInv ==
  ASSUME ScreensInv, \/ BackoffFires \/ PollFires \/ (\E f \in Filter : SetFilters(f))
                     \/ Refetch \/ Hide \/ Show \/ Timeout
  PROVE  ScreensInv'
<1>1. UNCHANGED <<page, serverVars, circuit, wire, debounce, screen>>
  BY DEF BackoffFires, PollFires, SetFilters, Refetch, Hide, Show, Timeout, dbVars
<1>2. page = "home" => filters \in Filter
  BY DEF ScreensInv, AsksForFilters
<1>3. page \in Page
  BY DEF ScreensInv, ScreensTyped, ServerTyped
<1>4. CASE BackoffFires \/ Show
  <2>1. UNCHANGED <<filters, loading, failed>>
    BY <1>4 DEF BackoffFires, Show
  <2>2. (\E r \in Fetch : Ask(r)) \/ UNCHANGED <<reader, flight>>
    BY <1>4 DEF BackoffFires, Show
  <2> QED
    BY <1>1, <1>2, <2>1, <2>2, AskingKeepsInv, NotAskingKeepsInv DEF Ask
<1>5. CASE PollFires
  <2>1. UNCHANGED <<filters, loading, failed>> /\ \E r \in Fetch : Request(r, TRUE)
    BY <1>5 DEF PollFires
  <2> QED
    BY <1>1, <1>2, <2>1, AskingKeepsInv
<1>6. ASSUME NEW f \in Filter, SetFilters(f) PROVE ScreensInv'
  <2>1. /\ page = "home" /\ filters' \in Filter /\ loading' = TRUE
        /\ \E r \in Fetch : Request(r, FALSE)
    BY <1>6 DEF SetFilters, Ask
  <2> QED
    BY <1>1, <2>1, AskingKeepsInv
<1>7. CASE Refetch
  <2>1. /\ UNCHANGED filters /\ \E r \in Fetch : Request(r, FALSE)
        /\ loading' = TRUE \/ UNCHANGED <<loading, failed>>
    BY <1>7 DEF Refetch, Ask
  <2> QED
    BY <1>1, <1>2, <2>1, AskingKeepsInv
<1>8. CASE Hide
  BY <1>1, <1>8, NotAskingKeepsInv DEF Hide
<1>9. CASE Timeout
  <2>1. flight' = None /\ failed' = (failed \/ page = "home") /\ UNCHANGED <<reader, filters>>
    BY <1>9 DEF Timeout, GiveUp
  <2>2. page = "live" \/ failed' = TRUE
    BY <1>3, <2>1 DEF Page
  <2> QED
    BY <1>1, <2>1, <2>2, NotAskingKeepsInv
<1> QED
  BY <1>4, <1>5, <1>6, <1>7, <1>8, <1>9

-----------------------------------------------------------------------------
(***************************************************************************)
(* The theorems.                                                           *)
(***************************************************************************)
LEMMA InitScreens == Init => ScreensInv
<1> SUFFICES ASSUME Init PROVE ScreensInv
  OBVIOUS
<1>1. ServerTyped
  BY RestingIsRead, ScreenAssumption DEF Init, ServerTyped, Version, Page
<1>2. PageTyped /\ FlightUnderWay /\ Shows(screen)
  BY DEF Init, PageTyped, FlightUnderWay, Shows, Idle, Resting
<1>3. AsksForFilters /\ FiltersWin
  BY DEF Init, AsksForFilters, FiltersWin, Idle, Resting
<1> QED
  BY <1>1, <1>2, <1>3 DEF ScreensInv, ScreensTyped

LEMMA NextScreens == ScreensInv /\ [Next]_vars => ScreensInv'
<1> SUFFICES ASSUME ScreensInv, [Next]_vars PROVE ScreensInv'
  OBVIOUS
<1>1. CASE ChairMoves \/ Commit \/ Finish \/ Expire \/ \E f \in Filter : ExpireHome(f)
  BY <1>1, DataKeepInv
<1>2. CASE HalfOpen \/ DatabaseFails \/ DatabaseReturns
  BY <1>2, DatabaseKeepsInv
<1>3. CASE \/ \E r \in Reader : GetState(r) \/ GetHome(r)
           \/ \E p \in Push : Broadcast(p) \/ Connect(p)
  BY <1>3, GettingKeepsInv
<1>4. CASE \E r \in Reader : Query(r) \/ QueryFails(r) \/ Answer(r)
  BY <1>4, QueryKeepsInv, QueryFailsKeepsInv, AnswerKeepsInv
<1>5. CASE Disconnect \/ ConnectError \/ Receive \/ DebounceFires
  BY <1>5, SocketKeepsInv, MessagesKeepInv
<1>6. CASE \/ BackoffFires \/ PollFires \/ (\E f \in Filter : SetFilters(f))
           \/ Refetch \/ Hide \/ Show \/ Timeout
  BY <1>6, PageKeepsInv
<1>7. CASE UNCHANGED vars
  BY <1>7, NotAskingKeepsInv DEF vars, serverVars, dbVars, pageVars
<1> QED
  BY <1>1, <1>2, <1>3, <1>4, <1>5, <1>6, <1>7 DEF Next

\* The requests, the caches, the socket and the page keep to their kinds, and
\* the request that is not aborted carries the filters that are set.
THEOREM ScreensInvariant == Spec => []ScreensInv
<1>1. Init => ScreensInv
  BY InitScreens
<1>2. ScreensInv /\ [Next]_vars => ScreensInv'
  BY NextScreens
<1> QED
  BY <1>1, <1>2, PTL DEF Spec

\* The variables have values of their kinds, and inFlightRef never holds a
\* request that has been answered: a page that waits, waits for something.
THEOREM ScreensTypes == Spec => []TypeOK
<1>1. ScreensInv => TypeOK
  BY DEF ScreensInv, ScreensTyped, ServerTyped, PageTyped, FlightUnderWay, Shows, TypeOK
<1> QED
  BY <1>1, ScreensInvariant, PTL

\* The figures shown as loaded are those of the filters that are set, whatever
\* answers to earlier filters, polls and retries are still on their way
\* (useHomeDashboard.ts, load).
THEOREM NewerFiltersWin == Spec => []FiltersWin
<1>1. ScreensInv => FiltersWin
  BY DEF ScreensInv
<1> QED
  BY <1>1, ScreensInvariant, PTL
=============================================================================
