------------------------------- MODULE Roster -------------------------------
(***************************************************************************)
(* The people of the shop: staff members, the accounts that log in, the    *)
(* types of shifts and the weekly planning.  Every handler of the settings *)
(* reads and checks first and writes later, outside a transaction (only an *)
(* archived staff member takes its account and its planning along in one), *)
(* so that a handler is two steps and the rows may change between them.    *)
(* The database keeps unique indexes, foreign keys and the CHECK of the    *)
(* users.                                                                  *)
(*                                                                         *)
(* One day of the week stands for all: no handler relates two days.        *)
(* OWNER and ADMIN are one role: these handlers treat them alike.          *)
(***************************************************************************)
EXTENDS Integers, FiniteSets, Functions

CONSTANTS
  Staff, Account, ShiftType, Entry,   \* ids of the rows
  Request,     \* the requests that may be under way
  Hours,       \* the hours a type of shift may have, as pairs of times
  World,       \* the worlds to look at
  None

AllHandlers ==
  {"createStaff", "reviveStaff", "archiveStaff", "restoreStaff", "deleteStaff",
   "createUser", "updateUser", "disableUser",
   "createType", "updateType", "toggleType", "archiveType", "restoreType", "deleteType",
   "createEntry", "updateEntry", "archiveEntry", "restoreEntry", "deleteEntry", "shift"}

(***************************************************************************)
(* A world: the handlers that are used, and whether requests overlap.      *)
(***************************************************************************)
AllWorlds == [handlers: SUBSET AllHandlers, overlap: BOOLEAN]

ASSUME RosterAssumption ==
  /\ World \subseteq AllWorlds
  /\ Hours \subseteq Int \X Int
  /\ \A h \in Hours : h[1] < h[2]
  /\ None \notin Staff \cup Account \cup ShiftType \cup Entry
  /\ Staff \cap Entry = {}

VARIABLES
  world,     \* rigid
  staff, account, type, entry,     \* the rows, None where there is none
  worked,    \* the entries, and their staff, that a shift refers to
  request    \* per request, the write that its checks have allowed, or None

vars == <<world, staff, account, type, entry, worked, request>>

StaffRow == [isActive: BOOLEAN, archived: BOOLEAN]
AccountRow ==
  [role: {"ADMIN"}, isActive: BOOLEAN, staff: {None}] \cup
  [role: {"ASSISTANT"}, isActive: BOOLEAN, staff: Staff]
TypeRow == [hours: Hours, isActive: BOOLEAN, archived: BOOLEAN]
EntryRow == [staff: Staff, type: ShiftType \cup {None}, isOff: BOOLEAN,
             isActive: BOOLEAN, archived: BOOLEAN]

\* None is none of the values that a field or a request may have.
ASSUME NoneAssumption ==
  /\ None \notin StaffRow \cup AccountRow \cup TypeRow \cup EntryRow
  /\ None \notin BOOLEAN /\ None \notin {"ADMIN", "ASSISTANT"}

Rows(table) == {id \in DOMAIN table : table[id] # None}

\* A row with the fields that a request gives.
With(row, fields) == [f \in DOMAIN row |-> IF f \in DOMAIN fields THEN fields[f] ELSE row[f]]
Put(table, id, fields) == [table EXCEPT ![id] = With(@, fields)]

OnDuty == {e \in Rows(entry) : entry[e].isActive /\ ~entry[e].isOff}

-----------------------------------------------------------------------------
(* What the database refuses. *)

\* users_role_staff_member_check, and one account per staff member.
AccountAllowed(u, row) ==
  /\ row \in AccountRow
  /\ row.staff # None => staff[row.staff] # None
  /\ \A v \in Rows(account) \ {u} : row.staff # None => account[v].staff # row.staff

\* unique_active_staff_schedule_per_day_period, unique_active_staff_off_per_day.
EntryAllowed(e, row) ==
  /\ staff[row.staff] # None
  /\ row.type # None => type[row.type] # None
  /\ row.isActive =>
       \A f \in Rows(entry) \ {e} :
          entry[f].isActive /\ entry[f].staff = row.staff /\ entry[f].isOff = row.isOff =>
            ~row.isOff /\ (row.type = None \/ entry[f].type # row.type)

-----------------------------------------------------------------------------
Init ==
  /\ world \in World
  /\ staff = [s \in Staff |-> None]
  /\ \E u \in Account :
       account = [v \in Account |->
                    IF v = u THEN [role |-> "ADMIN", isActive |-> TRUE, staff |-> None] ELSE None]
  /\ type = [t \in ShiftType |-> None]
  /\ entry = [e \in Entry |-> None]
  /\ worked = {}
  /\ request = [r \in Request |-> None]

\* A handler has checked, and will write; requests overlap in some worlds only.
Begin(r, handler, write) ==
  /\ handler \in world.handlers
  /\ request[r] = None
  /\ world.overlap \/ \A q \in Request : request[q] = None
  /\ request' = [request EXCEPT ![r] = write]
  /\ UNCHANGED <<world, staff, account, type, entry, worked>>

Update(table, id, fields) == [do |-> "update", table |-> table, id |-> id, fields |-> fields]

-----------------------------------------------------------------------------
(* Staff members: settings.service, archive.service. *)

createStaff(r) == \E s \in Staff :
  /\ staff[s] = None
  /\ Begin(r, "createStaff",
       [do |-> "create", table |-> "staff", id |-> s,
        fields |-> [isActive |-> TRUE, archived |-> FALSE]])

\* updateStaff writes isActive whatever archivedAt is.
updateStaff(r) == \E s \in Rows(staff) :
  Begin(r, "reviveStaff", Update("staff", s, [isActive |-> ~staff[s].isActive]))

LinkedAccount(s) == {u \in Rows(account) : account[u].staff = s}

archiveStaffMember(r) == \E s \in Rows(staff) :
  /\ ~staff[s].archived
  /\ Begin(r, "archiveStaff", [do |-> "archiveStaff", id |-> s, accounts |-> LinkedAccount(s)])

restoreStaffMember(r) == \E s \in Rows(staff), reactivate \in BOOLEAN :
  /\ staff[s].archived
  /\ Begin(r, "restoreStaff",
       [do |-> "restoreStaff", id |-> s,
        accounts |-> IF reactivate THEN LinkedAccount(s) ELSE {}])

canHardDeleteStaffMember(s) ==
  /\ LinkedAccount(s) = {}
  /\ \A e \in Rows(entry) : entry[e].staff # s
  /\ s \notin worked

hardDeleteStaffMember(r) == \E s \in Rows(staff) :
  /\ canHardDeleteStaffMember(s)
  /\ Begin(r, "deleteStaff", [do |-> "delete", table |-> "staff", id |-> s])

-----------------------------------------------------------------------------
(* Accounts: user-settings.service. *)

assertStaffMemberUsable(s) == staff[s] # None /\ staff[s].isActive

\* Mutant of assertNotLastActiveOwnerAdmin: disabled accounts count.
NotLastOwnerAdmin(u) == \E v \in Rows(account) \ {u} : account[v].role = "ADMIN"

assertNotLastActiveOwnerAdmin(u) ==
  \E v \in Rows(account) \ {u} : account[v].role = "ADMIN" /\ account[v].isActive

createUser(r) == \E u \in Account, s \in Staff \cup {None} :
  /\ account[u] = None
  /\ s # None => assertStaffMemberUsable(s)
  /\ Begin(r, "createUser",
       [do |-> "create", table |-> "account", id |-> u,
        fields |-> [role |-> IF s = None THEN "ADMIN" ELSE "ASSISTANT",
                    isActive |-> TRUE, staff |-> s]])

\* A PATCH gives any of role, staffMemberId and isActive; None is not given.
updateUser(r) ==
  \E u \in Rows(account), role \in {"ADMIN", "ASSISTANT", None},
     s \in Staff \cup {None}, active \in BOOLEAN \cup {None} :
    LET effectiveRole == IF role = None THEN account[u].role ELSE role
        effectiveStaff ==
          IF effectiveRole = "ADMIN" THEN None ELSE IF s = None THEN account[u].staff ELSE s
        effectiveActive == IF active = None THEN account[u].isActive ELSE active
        given == (IF role = None THEN {} ELSE {"role", "staff"}) \cup
                 (IF s = None THEN {} ELSE {"staff"}) \cup
                 (IF active = None THEN {} ELSE {"isActive"})
    IN  /\ effectiveRole = "ASSISTANT" =>
             effectiveStaff # None /\ assertStaffMemberUsable(effectiveStaff)
        /\ account[u].role = "ADMIN" /\ (effectiveRole # "ADMIN" \/ ~effectiveActive) =>
             assertNotLastActiveOwnerAdmin(u)
        /\ Begin(r, "updateUser", Update("account", u,
             Restrict([role |-> effectiveRole, staff |-> effectiveStaff,
                       isActive |-> effectiveActive], given)))

disableUser(r) == \E u \in Rows(account) :
  /\ account[u].isActive
  /\ account[u].role = "ADMIN" => assertNotLastActiveOwnerAdmin(u)
  /\ Begin(r, "disableUser", Update("account", u, [isActive |-> FALSE]))

\* getUserById: who may go on.
HasAccess(u) ==
  /\ account[u] # None
  /\ account[u].isActive
  /\ account[u].role = "ASSISTANT" => staff[account[u].staff].isActive

-----------------------------------------------------------------------------
(* Types of shifts: prime-settings.service.  There are two allowed names,  *)
(* so that ShiftType stands for Matin and Soir.                            *)

rangesOverlap(a, b) == a[1] < b[2] /\ b[1] < a[2]

assertNoOverlapWithActiveTypes(t, hours) ==
  \A u \in Rows(type) \ {t} :
    type[u].isActive /\ ~type[u].archived => ~rangesOverlap(hours, type[u].hours)

createShiftType(r) == \E t \in ShiftType, hours \in Hours, active \in BOOLEAN :
  /\ type[t] = None
  /\ assertNoOverlapWithActiveTypes(t, hours)
  /\ Begin(r, "createType",
       [do |-> "create", table |-> "type", id |-> t,
        fields |-> [hours |-> hours, isActive |-> active, archived |-> FALSE]])

updateShiftType(r) == \E t \in Rows(type) :
  \/ \E hours \in Hours :
       /\ assertNoOverlapWithActiveTypes(t, hours)
       /\ Begin(r, "updateType", Update("type", t, [hours |-> hours]))
  \/ Begin(r, "toggleType", Update("type", t, [isActive |-> ~type[t].isActive]))

archiveShiftType(r) == \E t \in Rows(type) :
  /\ ~type[t].archived
  /\ Begin(r, "archiveType", Update("type", t, [archived |-> TRUE, isActive |-> FALSE]))

restoreShiftType(r) == \E t \in Rows(type) :
  /\ type[t].archived
  /\ Begin(r, "restoreType", Update("type", t, [archived |-> FALSE, isActive |-> TRUE]))

hardDeleteShiftType(r) == \E t \in Rows(type) :
  /\ \A e \in Rows(entry) : entry[e].type # t
  /\ Begin(r, "deleteType", [do |-> "delete", table |-> "type", id |-> t])

-----------------------------------------------------------------------------
(* The planning: shift-settings.service. *)

assertAllowedShiftType(t) == type[t] # None /\ type[t].isActive

assertNoDuplicatePeriod(e, s, t) ==
  \A f \in OnDuty \ {e} : ~(entry[f].staff = s /\ entry[f].type = t)

\* Somebody else is planned for hours that overlap.
SomebodyElse(e, s, hours) ==
  \E f \in OnDuty \ {e} :
    /\ entry[f].staff # s
    /\ entry[f].type # None
    /\ rangesOverlap(hours, type[entry[f].type].hours)

createScheduleEntry(r) == \E e \in Entry, s \in Rows(staff), t \in ShiftType \cup {None} :
  /\ entry[e] = None
  /\ ~staff[s].archived
  /\ t # None =>
       /\ assertAllowedShiftType(t)
       /\ assertNoDuplicatePeriod(e, s, t)
       /\ ~SomebodyElse(e, s, type[t].hours)
  /\ Begin(r, "createEntry",
       [do |-> "replace", table |-> "entry", id |-> e,
        fields |-> [staff |-> s, type |-> t, isOff |-> t = None,
                    isActive |-> TRUE, archived |-> FALSE]])

\* Mutant of MayServe: the hours of the row are checked, not those it gets.
MayServeAsBefore(e, t) ==
  /\ assertAllowedShiftType(t)
  /\ assertNoDuplicatePeriod(e, entry[e].staff, t)
  /\ entry[e].type # None => ~SomebodyElse(e, entry[e].staff, type[entry[e].type].hours)

MayServe(e, t) ==
  /\ assertAllowedShiftType(t)
  /\ assertNoDuplicatePeriod(e, entry[e].staff, t)
  /\ ~SomebodyElse(e, entry[e].staff, type[t].hours)

\* A PATCH gives any of shiftTypeId, isOff and isActive; None is not given.
\* The staff member is not looked at, nor archivedAt.
updateScheduleEntry(r) ==
  \E e \in Rows(entry), t \in ShiftType \cup {None}, off \in BOOLEAN \cup {None},
     active \in BOOLEAN \cup {None} :
    LET mergedOff == IF off = None THEN entry[e].isOff ELSE off
        merged == IF t = None THEN entry[e].type ELSE t
        given == (IF t = None THEN {} ELSE {"type"}) \cup (IF off = None THEN {} ELSE {"isOff"}) \cup
                 (IF active = None THEN {} ELSE {"isActive"})
    IN  /\ IF mergedOff THEN t # None => type[t] # None ELSE merged # None /\ MayServe(e, merged)
        /\ Begin(r, "updateEntry", Update("entry", e,
             Restrict([type |-> t, isOff |-> off, isActive |-> active], given)))

archiveStaffSchedule(r) == \E e \in Rows(entry) :
  /\ ~entry[e].archived
  /\ Begin(r, "archiveEntry", Update("entry", e, [archived |-> TRUE, isActive |-> FALSE]))

\* Neither the type nor what others do by now is looked at.
restoreStaffSchedule(r) == \E e \in Rows(entry) :
  /\ entry[e].archived \/ ~entry[e].isActive
  /\ ~staff[entry[e].staff].archived
  /\ Begin(r, "restoreEntry", Update("entry", e, [archived |-> FALSE, isActive |-> TRUE]))

hardDeleteStaffSchedule(r) == \E e \in Rows(entry) :
  /\ e \notin worked
  /\ Begin(r, "deleteEntry", [do |-> "delete", table |-> "entry", id |-> e])

\* A shift is opened from the planning, of visible staff only.
autoOpen ==
  /\ "shift" \in world.handlers
  /\ \E e \in OnDuty :
       /\ ~entry[e].archived
       /\ staff[entry[e].staff].isActive /\ ~staff[entry[e].staff].archived
       /\ worked' = worked \cup {e, entry[e].staff}
  /\ UNCHANGED <<world, staff, account, type, entry, request>>

-----------------------------------------------------------------------------
(* The writes. *)

Done(r) == request' = [request EXCEPT ![r] = None]

Table(w) ==
  CASE w.table = "staff" -> staff [] w.table = "account" -> account
    [] w.table = "type" -> type [] w.table = "entry" -> entry

\* Mutant of Allowed: the planning without its unique indexes.
PlanningUnindexed(w, row) ==
  w.table = "account" => AccountAllowed(w.id, row)

Allowed(w, row) ==
  CASE w.table = "account" -> AccountAllowed(w.id, row)
    [] w.table = "entry" -> EntryAllowed(w.id, row)
    [] OTHER -> TRUE

\* One table gets new rows.
Write(w, rows) ==
  /\ staff' = IF w.table = "staff" THEN rows ELSE staff
  /\ account' = IF w.table = "account" THEN rows ELSE account
  /\ type' = IF w.table = "type" THEN rows ELSE type
  /\ entry' = IF w.table = "entry" THEN rows ELSE entry

Same == UNCHANGED <<staff, account, type, entry>>

\* create and update: a row that the database refuses, and a row that is gone,
\* fail the request.
Store(r) ==
  LET w == request[r]
      row == IF w.do = "create" THEN w.fields ELSE With(Table(w)[w.id], w.fields)
  IN  /\ w # None
      /\ w.do \in {"create", "update"}
      /\ Done(r)
      /\ IF (w.do = "create") = (Table(w)[w.id] = None) /\ Allowed(w, row)
         THEN Write(w, [Table(w) EXCEPT ![w.id] = row]) ELSE Same
      /\ UNCHANGED <<world, worked>>

\* createScheduleEntry switches off the rows of the same slot, then creates.
Replace(r) ==
  LET w == request[r]
      sameSlot == {f \in Rows(entry) :
                     /\ entry[f].isActive
                     /\ entry[f].staff = w.fields.staff
                     /\ entry[f].isOff = w.fields.isOff
                     /\ w.fields.isOff \/ entry[f].type = w.fields.type}
  IN  /\ w # None
      /\ w.do = "replace"
      /\ entry' = [f \in Entry |->
                     IF f \in sameSlot THEN [entry[f] EXCEPT !.isActive = FALSE] ELSE entry[f]]
      /\ request' = [request EXCEPT ![r].do = "create"]
      /\ UNCHANGED <<world, staff, account, type, worked>>

\* The rows that refer to a deleted type forget it; a staff member that is
\* referred to stays.  An entry a shift refers to may go: the shift forgets it.
Delete(r) ==
  LET w == request[r]
  IN  /\ w # None
      /\ w.do = "delete"
      /\ Done(r)
      /\ IF w.table = "staff" /\ ~canHardDeleteStaffMember(w.id)
         THEN Same /\ UNCHANGED worked
         ELSE /\ staff' = IF w.table = "staff" THEN [staff EXCEPT ![w.id] = None] ELSE staff
              /\ type' = IF w.table = "type" THEN [type EXCEPT ![w.id] = None] ELSE type
              /\ entry' = IF w.table = "entry" THEN [entry EXCEPT ![w.id] = None]
                          ELSE [e \in Entry |->
                                  IF w.table = "type" /\ e \in Rows(entry) /\ entry[e].type = w.id
                                  THEN [entry[e] EXCEPT !.type = None] ELSE entry[e]]
              /\ worked' = worked \ {w.id}
              /\ UNCHANGED account
      /\ UNCHANGED world

\* The transactions of archive.service, with the account they have read before.
ArchiveStaff(r) ==
  LET w == request[r]
  IN  /\ w # None
      /\ w.do = "archiveStaff"
      /\ Done(r)
      /\ IF staff[w.id] = None THEN Same
         ELSE /\ staff' = Put(staff, w.id, [archived |-> TRUE, isActive |-> FALSE])
              /\ account' = [u \in Account |->
                   IF u \in w.accounts THEN [account[u] EXCEPT !.isActive = FALSE] ELSE account[u]]
              /\ entry' = [e \in Entry |->
                   IF e \in Rows(entry) /\ entry[e].staff = w.id /\ entry[e].isActive /\ ~entry[e].archived
                   THEN [entry[e] EXCEPT !.isActive = FALSE, !.archived = TRUE] ELSE entry[e]]
              /\ UNCHANGED type
      /\ UNCHANGED <<world, worked>>

RestoreStaff(r) ==
  LET w == request[r]
  IN  /\ w # None
      /\ w.do = "restoreStaff"
      /\ Done(r)
      /\ IF staff[w.id] = None THEN Same
         ELSE /\ staff' = Put(staff, w.id, [archived |-> FALSE, isActive |-> TRUE])
              /\ account' = [u \in Account |->
                   IF u \in w.accounts THEN [account[u] EXCEPT !.isActive = TRUE] ELSE account[u]]
              /\ UNCHANGED <<type, entry>>
      /\ UNCHANGED <<world, worked>>

-----------------------------------------------------------------------------
Handle(r) ==
  \/ createStaff(r) \/ updateStaff(r) \/ archiveStaffMember(r)
  \/ restoreStaffMember(r) \/ hardDeleteStaffMember(r)
  \/ createUser(r) \/ updateUser(r) \/ disableUser(r)
  \/ createShiftType(r) \/ updateShiftType(r) \/ archiveShiftType(r)
  \/ restoreShiftType(r) \/ hardDeleteShiftType(r)
  \/ createScheduleEntry(r) \/ updateScheduleEntry(r) \/ archiveStaffSchedule(r)
  \/ restoreStaffSchedule(r) \/ hardDeleteStaffSchedule(r)

Finish(r) == Store(r) \/ Replace(r) \/ Delete(r) \/ ArchiveStaff(r) \/ RestoreStaff(r)

Next == autoOpen \/ \E r \in Request : Handle(r) \/ Finish(r)

Spec == Init /\ [][Next]_vars

-----------------------------------------------------------------------------
(* Properties. *)

\* Rows are of their kinds, and whatever overlaps, the indexes and the foreign
\* keys hold.
TypeOK ==
  /\ staff \in [Staff -> StaffRow \cup {None}]
  /\ account \in [Account -> AccountRow \cup {None}]
  /\ type \in [ShiftType -> TypeRow \cup {None}]
  /\ entry \in [Entry -> EntryRow \cup {None}]
  /\ \A u \in Rows(account) : AccountAllowed(u, account[u])
  /\ \A e \in Rows(entry) : EntryAllowed(e, entry[e])
  /\ worked \cap Staff \subseteq Rows(staff)

\* Where requests do not overlap, somebody can always administer: neither a
\* disabled nor a demoted account, nor an archived staff member, takes the last
\* one away.
SomebodyAdministers ==
  ~world.overlap => \E u \in Account : HasAccess(u) /\ account[u].role = "ADMIN"

\* Where requests do not overlap and nobody revives an archived staff member
\* with updateStaff, its account stays disabled: it can be neither enabled, nor
\* linked, nor created before the staff member is restored.
ArchivedStaffIsLockedOut ==
  ~world.overlap /\ "reviveStaff" \notin world.handlers =>
    \A u \in Rows(account) :
      account[u].staff # None /\ staff[account[u].staff].archived => ~account[u].isActive

\* One request at a time, the people who may get in are the right ones: an
\* administrator is always left, and whoever was archived stays out.
AccessIsRight == SomebodyAdministers /\ ArchivedStaffIsLockedOut

\* Where requests do not overlap and rows are not brought back (restored
\* entries and types, types switched on again, are not checked), two people are
\* never planned for hours that overlap.
RotaDoesNotClash ==
  ~world.overlap /\ {"restoreEntry", "restoreType", "toggleType"} \cap world.handlers = {} =>
    \A e, f \in OnDuty :
      /\ entry[e].staff # entry[f].staff
      /\ entry[e].type # None /\ entry[f].type # None
      => LET t == type[entry[e].type]  u == type[entry[f].type]
         IN  t.isActive /\ u.isActive => ~rangesOverlap(t.hours, u.hours)
=============================================================================
