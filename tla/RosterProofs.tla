---------------------------- MODULE RosterProofs ----------------------------
(***************************************************************************)
(* What TLAPS proves of Roster, for any number of people, accounts, types  *)
(* of shifts, entries and requests.                                        *)
(*                                                                         *)
(* RosterInv: a request carries a write that its table can take (it keeps  *)
(* nothing of what the checks have read), and the database keeps the rows  *)
(* together.  That holds however requests overlap.                         *)
(*                                                                         *)
(* AccessInv, RotaInv: where one request runs at a time, the one that has  *)
(* passed its checks carries what they have found, and finds it still so   *)
(* when it writes.                                                         *)
(***************************************************************************)
EXTENDS Roster, TLAPS

(***************************************************************************)
(* What a request carries from its checks to its write is a write that the *)
(* tables can take: rows are never taken away from under an account that   *)
(* an archiving request has read.                                          *)
(***************************************************************************)
EntryWrite == [do: {"create", "replace"}, table: {"entry"}, id: Entry, fields: EntryRow]

Creates(w) ==
  /\ w.do = "create"
  /\ \/ w.table = "staff" /\ w.id \in Staff /\ w.fields \in StaffRow
     \/ w.table = "account" /\ w.id \in Account
     \/ w.table = "type" /\ w.id \in ShiftType /\ w.fields \in TypeRow

Updates(w) ==
  /\ w.do = "update"
  /\ \/ w.table = "staff" /\ w.id \in Staff /\ \A row \in StaffRow : With(row, w.fields) \in StaffRow
     \/ w.table = "account" /\ w.id \in Account
     \/ w.table = "type" /\ w.id \in ShiftType /\ \A row \in TypeRow : With(row, w.fields) \in TypeRow
     \/ w.table = "entry" /\ w.id \in Entry /\ \A row \in EntryRow : With(row, w.fields) \in EntryRow

Deletes(w) ==
  /\ w.do = "delete"
  /\ \/ w.table = "staff" /\ w.id \in Staff
     \/ w.table = "type" /\ w.id \in ShiftType
     \/ w.table = "entry" /\ w.id \in Entry

MovesStaff(w, accounts) ==
  /\ w.do \in {"archiveStaff", "restoreStaff"}
  /\ w.id \in Staff
  /\ \A u \in w.accounts : u \in Account /\ accounts[u] # None

WriteSound(w, accounts) ==
  w \in EntryWrite \/ Creates(w) \/ Updates(w) \/ Deletes(w) \/ MovesStaff(w, accounts)

RequestsSound ==
  /\ request = [r \in Request |-> request[r]]
  /\ \A r \in Request : request[r] # None => WriteSound(request[r], account)

RosterInv == TypeOK /\ RequestsSound

-----------------------------------------------------------------------------
(***************************************************************************)
(* One row is written.                                                     *)
(***************************************************************************)
LEMMA StaffStored ==
  ASSUME TypeOK, NEW s \in Staff, NEW row \in StaffRow, staff' = [staff EXCEPT ![s] = row],
         UNCHANGED <<account, type, entry, worked>>
  PROVE  TypeOK'
<1>1. \A p \in Staff : staff[p] # None => staff'[p] # None
  BY NoneAssumption DEF TypeOK
<1> QED
  BY <1>1, NoneAssumption DEF TypeOK, Rows, AccountAllowed, EntryAllowed, AccountRow, EntryRow

LEMMA AccountStored ==
  ASSUME TypeOK, NEW u \in Account, NEW row, AccountAllowed(u, row),
         account' = [account EXCEPT ![u] = row], UNCHANGED <<staff, type, entry, worked>>
  PROVE  TypeOK'
<1>1. account' \in [Account -> AccountRow \cup {None}]
  BY DEF TypeOK, AccountAllowed
<1>2. ASSUME NEW v \in Rows(account)' PROVE AccountAllowed(v, account[v])'
  <2>1. CASE v = u
    BY <1>2, <2>1 DEF TypeOK, AccountAllowed, Rows
  <2>2. CASE v # u
    BY <1>2, <2>2, NoneAssumption DEF TypeOK, AccountAllowed, Rows
  <2> QED
    BY <2>1, <2>2
<1>3. \A e \in Rows(entry)' : EntryAllowed(e, entry[e])'
  BY DEF TypeOK, EntryAllowed, Rows
<1> QED
  BY <1>1, <1>2, <1>3 DEF TypeOK, Rows

LEMMA TypeStored ==
  ASSUME TypeOK, NEW t \in ShiftType, NEW row \in TypeRow, type' = [type EXCEPT ![t] = row],
         UNCHANGED <<staff, account, entry, worked>>
  PROVE  TypeOK'
<1>1. \A p \in ShiftType : type[p] # None => type'[p] # None
  BY NoneAssumption DEF TypeOK
<1> QED
  BY <1>1, NoneAssumption DEF TypeOK, Rows, AccountAllowed, EntryAllowed, AccountRow, EntryRow

LEMMA EntryStored ==
  ASSUME TypeOK, NEW e \in Entry, NEW row \in EntryRow, EntryAllowed(e, row),
         entry' = [entry EXCEPT ![e] = row], UNCHANGED <<staff, account, type, worked>>
  PROVE  TypeOK'
<1>1. entry' \in [Entry -> EntryRow \cup {None}]
  BY DEF TypeOK
<1>2. ASSUME NEW f \in Rows(entry)' PROVE EntryAllowed(f, entry[f])'
  <2>1. CASE f = e
    BY <1>2, <2>1 DEF TypeOK, EntryAllowed, Rows
  <2>2. CASE f # e
    BY <1>2, <2>2, NoneAssumption DEF TypeOK, EntryAllowed, Rows
  <2> QED
    BY <2>1, <2>2
<1>3. \A u \in Rows(account)' : AccountAllowed(u, account[u])'
  BY DEF TypeOK, AccountAllowed, Rows
<1> QED
  BY <1>1, <1>2, <1>3 DEF TypeOK, Rows

(***************************************************************************)
(* Fields of entries change without any becoming active.                   *)
(***************************************************************************)
LEMMA EntriesCalmed ==
  ASSUME TypeOK, UNCHANGED <<staff, account, type, worked>>,
         entry' \in [Entry -> EntryRow \cup {None}],
         \A e \in Entry :
           \/ entry'[e] = entry[e]
           \/ /\ entry[e] # None /\ entry'[e] # None /\ ~entry'[e].isActive
              /\ entry'[e].staff = entry[e].staff /\ entry'[e].type = entry[e].type
  PROVE  TypeOK'
<1>1. ASSUME NEW f \in Rows(entry)' PROVE EntryAllowed(f, entry[f])'
  <2>1. f \in Rows(entry) /\ entry'[f].staff = entry[f].staff /\ entry'[f].type = entry[f].type
    BY <1>1 DEF Rows, TypeOK
  <2>2. EntryAllowed(f, entry[f])
    BY <2>1 DEF TypeOK
  <2>3. ASSUME entry'[f].isActive, NEW g \in Rows(entry)' \ {f},
               entry'[g].isActive, entry'[g].staff = entry'[f].staff, entry'[g].isOff = entry'[f].isOff
        PROVE  ~entry'[f].isOff /\ (entry'[f].type = None \/ entry'[g].type # entry'[f].type)
    <3>1. g \in Rows(entry) /\ entry'[g] = entry[g] /\ entry'[f] = entry[f]
      BY <1>1, <2>1, <2>3 DEF Rows, TypeOK
    <3> QED
      BY <2>2, <2>3, <3>1 DEF EntryAllowed
  <2> QED
    BY <2>1, <2>2, <2>3 DEF EntryAllowed
<1>2. \A u \in Rows(account)' : AccountAllowed(u, account[u])'
  BY DEF TypeOK, AccountAllowed, Rows
<1> QED
  BY <1>1, <1>2 DEF TypeOK, Rows

-----------------------------------------------------------------------------
(***************************************************************************)
(* The requests under way.                                                 *)
(***************************************************************************)
AccountsStay == \A u \in Account : account[u] # None => account'[u] # None

LEMMA WriteStaysSound ==
  ASSUME NEW w, WriteSound(w, account), AccountsStay
  PROVE  WriteSound(w, account')
BY DEF WriteSound, MovesStaff, AccountsStay

LEMMA RequestStep ==
  ASSUME RequestsSound, AccountsStay, NEW r \in Request, NEW w,
         w # None => WriteSound(w, account), request' = [request EXCEPT ![r] = w]
  PROVE  RequestsSound'
<1>1. \A q \in Request : request'[q] = IF q = r THEN w ELSE request[q]
  BY DEF RequestsSound
<1>2. request' = [q \in Request |-> request'[q]]
  BY DEF RequestsSound
<1> QED
  BY <1>1, <1>2, WriteStaysSound DEF RequestsSound

LEMMA BeginStep ==
  ASSUME RosterInv, NEW r \in Request, NEW handler, NEW w, WriteSound(w, account),
         Begin(r, handler, w)
  PROVE  RosterInv'
<1>1. UNCHANGED <<staff, account, type, entry, worked>> /\ request' = [request EXCEPT ![r] = w]
  BY DEF Begin
<1>2. TypeOK'
  BY <1>1 DEF RosterInv, TypeOK, Rows, AccountAllowed, EntryAllowed
<1>3. RequestsSound'
  BY <1>1, RequestStep DEF RosterInv, AccountsStay
<1> QED
  BY <1>2, <1>3 DEF RosterInv

-----------------------------------------------------------------------------
(***************************************************************************)
(* The handlers' checks.                                                   *)
(***************************************************************************)
LEMMA UpdateIs ==
  ASSUME NEW table, NEW id, NEW fields
  PROVE  LET w == Update(table, id, fields) IN
         w.do = "update" /\ w.table = table /\ w.id = id /\ w.fields = fields
BY DEF Update

LEMMA StaffHandlers ==
  ASSUME RosterInv, NEW r \in Request,
         \/ createStaff(r) \/ updateStaff(r) \/ archiveStaffMember(r)
         \/ restoreStaffMember(r) \/ hardDeleteStaffMember(r)
  PROVE  RosterInv'
<1>1. CASE createStaff(r)
  <2>1. PICK s \in Staff : Begin(r, "createStaff",
          [do |-> "create", table |-> "staff", id |-> s,
           fields |-> [isActive |-> TRUE, archived |-> FALSE]])
    BY <1>1 DEF createStaff
  <2> QED
    BY <2>1, BeginStep DEF WriteSound, Creates, StaffRow
<1>2. CASE updateStaff(r)
  <2>1. PICK s \in Rows(staff) :
          Begin(r, "reviveStaff", Update("staff", s, [isActive |-> ~staff[s].isActive]))
    BY <1>2 DEF updateStaff
  <2> DEFINE w == Update("staff", s, [isActive |-> ~staff[s].isActive])
  <2>2. s \in Staff
    BY DEF RosterInv, TypeOK, Rows
  <2>3. \A row \in StaffRow : With(row, [isActive |-> ~staff[s].isActive]) \in StaffRow
    BY DEF StaffRow, With
  <2>4. WriteSound(w, account)
    BY <2>2, <2>3 DEF WriteSound, Updates, Update
  <2> QED
    BY <2>1, <2>4, BeginStep
<1>3. CASE archiveStaffMember(r)
  <2>1. PICK s \in Rows(staff) :
          Begin(r, "archiveStaff", [do |-> "archiveStaff", id |-> s, accounts |-> LinkedAccount(s)])
    BY <1>3 DEF archiveStaffMember
  <2>2. s \in Staff /\ \A u \in LinkedAccount(s) : u \in Account /\ account[u] # None
    BY DEF RosterInv, TypeOK, Rows, LinkedAccount
  <2>3. WriteSound([do |-> "archiveStaff", id |-> s, accounts |-> LinkedAccount(s)], account)
    BY <2>2 DEF WriteSound, MovesStaff
  <2> QED
    BY <2>1, <2>3, BeginStep
<1>4. CASE restoreStaffMember(r)
  <2>1. PICK s \in Rows(staff), reactivate \in BOOLEAN :
          Begin(r, "restoreStaff",
            [do |-> "restoreStaff", id |-> s,
             accounts |-> IF reactivate THEN LinkedAccount(s) ELSE {}])
    BY <1>4 DEF restoreStaffMember
  <2> DEFINE a == IF reactivate THEN LinkedAccount(s) ELSE {}
  <2>2. s \in Staff /\ \A u \in a : u \in Account /\ account[u] # None
    BY DEF RosterInv, TypeOK, Rows, LinkedAccount
  <2>3. WriteSound([do |-> "restoreStaff", id |-> s, accounts |-> a], account)
    BY <2>2 DEF WriteSound, MovesStaff
  <2> QED
    BY <2>1, <2>3, BeginStep
<1>5. CASE hardDeleteStaffMember(r)
  <2>1. PICK s \in Rows(staff) :
          Begin(r, "deleteStaff", [do |-> "delete", table |-> "staff", id |-> s])
    BY <1>5 DEF hardDeleteStaffMember
  <2>2. s \in Staff
    BY DEF RosterInv, TypeOK, Rows
  <2> QED
    BY <2>1, <2>2, BeginStep DEF WriteSound, Deletes
<1> QED
  BY <1>1, <1>2, <1>3, <1>4, <1>5

LEMMA AccountHandlers ==
  ASSUME RosterInv, NEW r \in Request, createUser(r) \/ updateUser(r) \/ disableUser(r)
  PROVE  RosterInv'
<1>1. ASSUME NEW u \in Account, NEW fields PROVE WriteSound(Update("account", u, fields), account)
  BY UpdateIs DEF WriteSound, Updates
<1>2. CASE createUser(r)
  BY <1>2, BeginStep DEF createUser, WriteSound, Creates
<1>3. CASE updateUser(r)
  <2>1. PICK u \in Account : \E fields : Begin(r, "updateUser", Update("account", u, fields))
    BY <1>3 DEF updateUser, Rows, RosterInv, TypeOK
  <2> QED
    BY <1>1, <2>1, BeginStep
<1>4. CASE disableUser(r)
  <2>1. PICK u \in Account : \E fields : Begin(r, "disableUser", Update("account", u, fields))
    BY <1>4 DEF disableUser, Rows, RosterInv, TypeOK
  <2> QED
    BY <1>1, <2>1, BeginStep
<1> QED
  BY <1>2, <1>3, <1>4

LEMMA TypeHandlers ==
  ASSUME RosterInv, NEW r \in Request,
         \/ createShiftType(r) \/ updateShiftType(r) \/ archiveShiftType(r)
         \/ restoreShiftType(r) \/ hardDeleteShiftType(r)
  PROVE  RosterInv'
<1>1. \A t \in Rows(type) : t \in ShiftType
  BY DEF RosterInv, TypeOK, Rows
<1>2. ASSUME NEW t \in ShiftType, NEW fields, \A row \in TypeRow : With(row, fields) \in TypeRow
      PROVE  WriteSound(Update("type", t, fields), account)
  BY <1>2, UpdateIs DEF WriteSound, Updates
<1>3. CASE createShiftType(r)
  <2>1. PICK t \in ShiftType, hours \in Hours, active \in BOOLEAN : Begin(r, "createType",
          [do |-> "create", table |-> "type", id |-> t,
           fields |-> [hours |-> hours, isActive |-> active, archived |-> FALSE]])
    BY <1>3 DEF createShiftType
  <2> QED
    BY <2>1, BeginStep DEF WriteSound, Creates, TypeRow
<1>4. CASE updateShiftType(r)
  <2>1. PICK t \in Rows(type) :
          \/ \E hours \in Hours : Begin(r, "updateType", Update("type", t, [hours |-> hours]))
          \/ Begin(r, "toggleType", Update("type", t, [isActive |-> ~type[t].isActive]))
    BY <1>4 DEF updateShiftType
  <2>2. \A hours \in Hours : \A row \in TypeRow : With(row, [hours |-> hours]) \in TypeRow
    BY DEF TypeRow, With
  <2>3. \A row \in TypeRow : With(row, [isActive |-> ~type[t].isActive]) \in TypeRow
    BY DEF TypeRow, With
  <2> QED
    BY <1>1, <1>2, <2>1, <2>2, <2>3, BeginStep
<1>5. CASE archiveShiftType(r) \/ restoreShiftType(r)
  <2>1. \A a, b \in BOOLEAN, row \in TypeRow : With(row, [archived |-> a, isActive |-> b]) \in TypeRow
    BY DEF TypeRow, With
  <2>2. PICK t \in Rows(type), a \in BOOLEAN, b \in BOOLEAN : \E h :
          Begin(r, h, Update("type", t, [archived |-> a, isActive |-> b]))
    BY <1>5 DEF archiveShiftType, restoreShiftType
  <2> QED
    BY <1>1, <1>2, <2>1, <2>2, BeginStep
<1>6. CASE hardDeleteShiftType(r)
  <2>1. PICK t \in Rows(type) : Begin(r, "deleteType", [do |-> "delete", table |-> "type", id |-> t])
    BY <1>6 DEF hardDeleteShiftType
  <2> QED
    BY <1>1, <2>1, BeginStep DEF WriteSound, Deletes
<1> QED
  BY <1>3, <1>4, <1>5, <1>6

LEMMA EntryFields ==
  ASSUME NEW row \in EntryRow, NEW t, NEW off, NEW active, NEW given,
         given \subseteq {"type", "isOff", "isActive"}, "type" \in given => t \in ShiftType,
         "isOff" \in given => off \in BOOLEAN, "isActive" \in given => active \in BOOLEAN
  PROVE  With(row, Restrict([type |-> t, isOff |-> off, isActive |-> active], given)) \in EntryRow
BY DEF EntryRow, With, Restrict

LEMMA EntryHandlers ==
  ASSUME RosterInv, NEW r \in Request,
         \/ createScheduleEntry(r) \/ updateScheduleEntry(r) \/ archiveStaffSchedule(r)
         \/ restoreStaffSchedule(r) \/ hardDeleteStaffSchedule(r)
  PROVE  RosterInv'
<1>1. \A e \in Rows(entry) : e \in Entry
  BY DEF RosterInv, TypeOK, Rows
<1>2. ASSUME NEW e \in Entry, NEW fields, \A row \in EntryRow : With(row, fields) \in EntryRow
      PROVE  WriteSound(Update("entry", e, fields), account)
  BY <1>2, UpdateIs DEF WriteSound, Updates
<1>3. CASE createScheduleEntry(r)
  <2>1. PICK e \in Entry, s \in Staff, t \in ShiftType \cup {None} : Begin(r, "createEntry",
          [do |-> "replace", table |-> "entry", id |-> e,
           fields |-> [staff |-> s, type |-> t, isOff |-> t = None,
                       isActive |-> TRUE, archived |-> FALSE]])
    BY <1>3 DEF createScheduleEntry, Rows, RosterInv, TypeOK
  <2>2. [staff |-> s, type |-> t, isOff |-> t = None, isActive |-> TRUE, archived |-> FALSE] \in EntryRow
    BY DEF EntryRow
  <2>3. [do |-> "replace", table |-> "entry", id |-> e,
         fields |-> [staff |-> s, type |-> t, isOff |-> t = None,
                     isActive |-> TRUE, archived |-> FALSE]] \in EntryWrite
    BY <2>2 DEF EntryWrite
  <2> QED
    BY <2>1, <2>3, BeginStep DEF WriteSound
<1>4. CASE updateScheduleEntry(r)
  <2>1. PICK e \in Rows(entry), t \in ShiftType \cup {None}, off \in BOOLEAN \cup {None},
             active \in BOOLEAN \cup {None} :
          Begin(r, "updateEntry", Update("entry", e,
            Restrict([type |-> t, isOff |-> off, isActive |-> active],
              (IF t = None THEN {} ELSE {"type"}) \cup (IF off = None THEN {} ELSE {"isOff"}) \cup
              (IF active = None THEN {} ELSE {"isActive"}))))
    BY <1>4 DEF updateScheduleEntry
  <2> DEFINE given == (IF t = None THEN {} ELSE {"type"}) \cup (IF off = None THEN {} ELSE {"isOff"}) \cup
                      (IF active = None THEN {} ELSE {"isActive"})
             fields == Restrict([type |-> t, isOff |-> off, isActive |-> active], given)
  <2>2. /\ given \subseteq {"type", "isOff", "isActive"}
        /\ "type" \in given => t \in ShiftType
        /\ "isOff" \in given => off \in BOOLEAN
        /\ "isActive" \in given => active \in BOOLEAN
    OBVIOUS
  <2> HIDE DEF given
  <2>3. \A row \in EntryRow : With(row, fields) \in EntryRow
    BY <2>2, EntryFields
  <2> HIDE DEF fields
  <2>4. WriteSound(Update("entry", e, fields), account)
    BY <1>1, <1>2, <2>3
  <2> QED
    BY <2>1, <2>4, BeginStep DEF fields, given
<1>5. CASE archiveStaffSchedule(r) \/ restoreStaffSchedule(r)
  <2>1. \A a, b \in BOOLEAN, row \in EntryRow : With(row, [archived |-> a, isActive |-> b]) \in EntryRow
    BY DEF EntryRow, With
  <2>2. PICK e \in Rows(entry), a \in BOOLEAN, b \in BOOLEAN : \E h :
          Begin(r, h, Update("entry", e, [archived |-> a, isActive |-> b]))
    BY <1>5 DEF archiveStaffSchedule, restoreStaffSchedule
  <2> QED
    BY <1>1, <1>2, <2>1, <2>2, BeginStep
<1>6. CASE hardDeleteStaffSchedule(r)
  <2>1. PICK e \in Rows(entry) :
          Begin(r, "deleteEntry", [do |-> "delete", table |-> "entry", id |-> e])
    BY <1>6 DEF hardDeleteStaffSchedule
  <2> QED
    BY <1>1, <2>1, BeginStep DEF WriteSound, Deletes
<1> QED
  BY <1>3, <1>4, <1>5, <1>6

-----------------------------------------------------------------------------
(***************************************************************************)
(* The writes.                                                             *)
(***************************************************************************)
LEMMA DoneStep ==
  ASSUME RosterInv, NEW r \in Request, Done(r), AccountsStay, TypeOK'
  PROVE  RosterInv'
BY RequestStep DEF RosterInv, Done

LEMMA SameRows ==
  ASSUME TypeOK, Same, UNCHANGED worked
  PROVE  TypeOK' /\ AccountsStay
BY DEF TypeOK, Same, Rows, AccountAllowed, EntryAllowed, AccountsStay

LEMMA StoreStep ==
  ASSUME RosterInv, NEW r \in Request, Store(r)
  PROVE  RosterInv'
<1> DEFINE w   == request[r]
           row == IF w.do = "create" THEN w.fields ELSE With(Table(w)[w.id], w.fields)
<1>1. /\ TypeOK /\ WriteSound(w, account) /\ w.do \in {"create", "update"} /\ Done(r)
      /\ UNCHANGED worked
      /\ \/ /\ (w.do = "create") = (Table(w)[w.id] = None) /\ Allowed(w, row)
            /\ Write(w, [Table(w) EXCEPT ![w.id] = row])
         \/ Same
  BY DEF Store, RosterInv, RequestsSound
<1>2. CASE Same
  BY <1>1, <1>2, SameRows, DoneStep
<1>3. CASE ~Same
  <2> DEFINE rows == [Table(w) EXCEPT ![w.id] = row]
  <2>1. /\ (w.do = "create") = (Table(w)[w.id] = None)
        /\ Allowed(w, row) /\ Write(w, rows)
        /\ w \in EntryWrite \/ Creates(w) \/ Updates(w)
    BY <1>1, <1>3 DEF WriteSound, Deletes, MovesStaff
  <2>2. CASE w.table = "staff"
    <3>1. /\ staff' = [staff EXCEPT ![w.id] = row] /\ UNCHANGED <<account, type, entry>>
          /\ (w.do = "create") = (staff[w.id] = None)
      BY <2>1, <2>2 DEF Write, Table
    <3>2. w.id \in Staff /\ row \in StaffRow
      <4>1. CASE w.do = "create"
        BY <2>1, <2>2, <4>1 DEF EntryWrite, Creates, Updates
      <4>2. CASE w.do = "update"
        <5>1. /\ w.id \in Staff /\ row = With(staff[w.id], w.fields)
              /\ \A x \in StaffRow : With(x, w.fields) \in StaffRow
          BY <2>1, <2>2, <4>2 DEF EntryWrite, Creates, Updates, Table
        <5>2. staff[w.id] \in StaffRow
          BY <1>1, <3>1, <4>2, <5>1 DEF TypeOK
        <5> QED
          BY <5>1, <5>2
      <4> QED
        BY <1>1, <4>1, <4>2
    <3> HIDE DEF w, row
    <3> QED
      BY <1>1, <3>1, <3>2, StaffStored, DoneStep DEF AccountsStay
  <2>3. CASE w.table = "account"
    <3>1. /\ account' = [account EXCEPT ![w.id] = row] /\ UNCHANGED <<staff, type, entry>>
          /\ w.id \in Account /\ AccountAllowed(w.id, row)
      BY <2>1, <2>3 DEF Write, Table, Allowed, EntryWrite, Creates, Updates
    <3>2. TypeOK'
      BY <1>1, <3>1, AccountStored
    <3>3. AccountsStay
      BY <1>1, <3>1, NoneAssumption DEF AccountsStay, AccountAllowed, TypeOK
    <3> QED
      BY <1>1, <3>2, <3>3, DoneStep
  <2>4. CASE w.table = "type"
    <3>1. /\ type' = [type EXCEPT ![w.id] = row] /\ UNCHANGED <<account, staff, entry>>
          /\ (w.do = "create") = (type[w.id] = None)
      BY <2>1, <2>4 DEF Write, Table
    <3>2. w.id \in ShiftType /\ row \in TypeRow
      <4>1. CASE w.do = "create"
        BY <2>1, <2>4, <4>1 DEF EntryWrite, Creates, Updates
      <4>2. CASE w.do = "update"
        <5>1. /\ w.id \in ShiftType /\ row = With(type[w.id], w.fields)
              /\ \A x \in TypeRow : With(x, w.fields) \in TypeRow
          BY <2>1, <2>4, <4>2 DEF EntryWrite, Creates, Updates, Table
        <5>2. type[w.id] \in TypeRow
          BY <1>1, <3>1, <4>2, <5>1 DEF TypeOK
        <5> QED
          BY <5>1, <5>2
      <4> QED
        BY <1>1, <4>1, <4>2
    <3> HIDE DEF w, row
    <3> QED
      BY <1>1, <3>1, <3>2, TypeStored, DoneStep DEF AccountsStay
  <2>5. CASE w.table = "entry"
    <3>1. /\ entry' = [entry EXCEPT ![w.id] = row] /\ UNCHANGED <<account, staff, type>>
          /\ (w.do = "create") = (entry[w.id] = None) /\ EntryAllowed(w.id, row)
      BY <2>1, <2>5 DEF Write, Table, Allowed
    <3>2. w.id \in Entry /\ row \in EntryRow
      <4>1. CASE w.do = "create"
        BY <2>1, <2>5, <4>1 DEF EntryWrite, Creates, Updates
      <4>2. CASE w.do = "update"
        <5>1. /\ w.id \in Entry /\ row = With(entry[w.id], w.fields)
              /\ \A x \in EntryRow : With(x, w.fields) \in EntryRow
          BY <2>1, <2>5, <4>2 DEF EntryWrite, Creates, Updates, Table
        <5>2. entry[w.id] \in EntryRow
          BY <1>1, <3>1, <4>2, <5>1 DEF TypeOK
        <5> QED
          BY <5>1, <5>2
      <4> QED
        BY <1>1, <4>1, <4>2
    <3> HIDE DEF w, row
    <3> QED
      BY <1>1, <3>1, <3>2, EntryStored, DoneStep DEF AccountsStay
  <2> QED
    BY <2>1, <2>2, <2>3, <2>4, <2>5 DEF EntryWrite, Creates, Updates
<1> QED
  BY <1>2, <1>3

LEMMA ReplaceStep ==
  ASSUME RosterInv, NEW r \in Request, Replace(r)
  PROVE  RosterInv'
<1> DEFINE w == request[r]
<1>1. /\ TypeOK /\ w # None /\ w.do = "replace" /\ w \in EntryWrite
      /\ request' = [request EXCEPT ![r].do = "create"]
      /\ UNCHANGED <<staff, account, type, worked>>
  BY DEF Replace, RosterInv, RequestsSound, WriteSound, Creates, Updates, Deletes, MovesStaff
<1>2. PICK off \in SUBSET Rows(entry) : entry' = [f \in Entry |->
        IF f \in off THEN [entry[f] EXCEPT !.isActive = FALSE] ELSE entry[f]]
  BY DEF Replace
<1>3. TypeOK'
  <2>1. ASSUME NEW f \in off
        PROVE  /\ f \in Entry /\ entry[f] \in EntryRow /\ entry'[f] \in EntryRow
               /\ ~entry'[f].isActive
               /\ entry'[f].staff = entry[f].staff /\ entry'[f].type = entry[f].type
    <3>1. f \in Entry /\ entry[f] \in EntryRow
      BY <1>1, <1>2 DEF Rows, TypeOK
    <3>2. entry'[f] = [entry[f] EXCEPT !.isActive = FALSE]
      BY <1>2, <3>1
    <3> QED
      BY <3>1, <3>2 DEF EntryRow
  <2>2. \A f \in Entry \ off : entry'[f] = entry[f]
    BY <1>2
  <2>3. entry' \in [Entry -> EntryRow \cup {None}]
    BY <1>1, <1>2, <2>1, <2>2 DEF TypeOK
  <2> QED
    BY <1>1, <2>1, <2>2, <2>3, EntriesCalmed, NoneAssumption
<1>4. RequestsSound'
  <2>1. request' = [request EXCEPT ![r] = [w EXCEPT !.do = "create"]]
    BY <1>1
  <2>2. [w EXCEPT !.do = "create"] \in EntryWrite
    BY <1>1 DEF EntryWrite
  <2> QED
    BY <1>1, <2>1, <2>2, RequestStep DEF RosterInv, AccountsStay, WriteSound
<1> QED
  BY <1>3, <1>4 DEF RosterInv

LEMMA DeleteStep ==
  ASSUME RosterInv, NEW r \in Request, Delete(r)
  PROVE  RosterInv'
<1> DEFINE w == request[r]
<1>1. TypeOK /\ Deletes(w) /\ Done(r)
  BY DEF Delete, RosterInv, RequestsSound, WriteSound, EntryWrite, Creates, Updates, MovesStaff
<1>2. CASE Same /\ UNCHANGED worked
  BY <1>1, <1>2, SameRows, DoneStep DEF Delete
<1>3. CASE ~(Same /\ UNCHANGED worked)
  <2>1. /\ w.table = "staff" => canHardDeleteStaffMember(w.id)
        /\ staff' = IF w.table = "staff" THEN [staff EXCEPT ![w.id] = None] ELSE staff
        /\ type' = IF w.table = "type" THEN [type EXCEPT ![w.id] = None] ELSE type
        /\ entry' = IF w.table = "entry" THEN [entry EXCEPT ![w.id] = None]
                    ELSE [e \in Entry |->
                            IF w.table = "type" /\ e \in Rows(entry) /\ entry[e].type = w.id
                            THEN [entry[e] EXCEPT !.type = None] ELSE entry[e]]
        /\ worked' = worked \ {w.id}
        /\ UNCHANGED account
    BY <1>3 DEF Delete
  <2>2. CASE w.table = "staff"
    <3>1. /\ w.id \in Staff /\ staff' = [staff EXCEPT ![w.id] = None] /\ UNCHANGED <<account, type>>
          /\ entry' = [e \in Entry |-> entry[e]] /\ worked' = worked \ {w.id}
          /\ \A u \in Rows(account) : account[u].staff # w.id
          /\ \A e \in Rows(entry) : entry[e].staff # w.id
      BY <1>1, <2>1, <2>2 DEF Deletes, canHardDeleteStaffMember, LinkedAccount
    <3>2. entry' = entry
      BY <1>1, <3>1 DEF TypeOK
    <3> HIDE DEF w
    <3> QED
      BY <1>1, <3>1, <3>2, DoneStep DEF TypeOK, Rows, AccountAllowed, EntryAllowed, AccountsStay
  <2>3. CASE w.table = "type"
    <3>1. /\ w.id \in ShiftType /\ type' = [type EXCEPT ![w.id] = None] /\ UNCHANGED <<account, staff>>
          /\ worked' \subseteq worked
      BY <1>1, <2>1, <2>3 DEF Deletes
    <3>2. ASSUME NEW e \in Rows(entry)
          PROVE  /\ e \in Entry /\ entry'[e] \in EntryRow
                 /\ entry'[e].staff = entry[e].staff /\ entry'[e].isOff = entry[e].isOff
                 /\ entry'[e].isActive = entry[e].isActive
                 /\ entry'[e].type = IF entry[e].type = w.id THEN None ELSE entry[e].type
      <4>1. e \in Entry /\ entry[e] \in EntryRow
        BY <1>1, <3>2 DEF TypeOK, Rows
      <4>2. entry'[e] = IF entry[e].type = w.id THEN [entry[e] EXCEPT !.type = None] ELSE entry[e]
        BY <2>1, <2>3, <4>1
      <4> QED
        BY <4>1, <4>2 DEF EntryRow
    <3>3. /\ \A e \in Entry \ Rows(entry) : entry'[e] = None
          /\ DOMAIN entry' = Entry /\ entry' = [e \in Entry |-> entry'[e]]
      BY <1>1, <2>1, <2>3 DEF Rows, TypeOK
    <3>4. entry' \in [Entry -> EntryRow \cup {None}] /\ Rows(entry)' = Rows(entry)
      BY <3>2, <3>3, NoneAssumption DEF Rows
    <3>5. ASSUME NEW e \in Rows(entry) PROVE EntryAllowed(e, entry[e])'
      <4>1. EntryAllowed(e, entry[e])
        BY <1>1 DEF TypeOK
      <4> HIDE DEF w
      <4> QED
        BY <1>1, <3>1, <3>2, <3>4, <4>1, RosterAssumption DEF EntryAllowed, Rows, TypeOK
    <3>6. TypeOK'
      <4> HIDE DEF w
      <4> QED
        BY <1>1, <3>1, <3>4, <3>5 DEF TypeOK, Rows, AccountAllowed
    <3> QED
      BY <1>1, <3>1, <3>6, DoneStep DEF AccountsStay
  <2>4. CASE w.table = "entry"
    <3>1. /\ w.id \in Entry /\ entry' = [entry EXCEPT ![w.id] = None]
          /\ UNCHANGED <<account, type, staff>> /\ worked' \subseteq worked
      BY <1>1, <2>1, <2>4 DEF Deletes
    <3> HIDE DEF w
    <3> QED
      BY <1>1, <3>1, DoneStep DEF TypeOK, Rows, AccountAllowed, EntryAllowed, AccountsStay
  <2> QED
    BY <1>1, <2>2, <2>3, <2>4 DEF Deletes
<1> QED
  BY <1>2, <1>3

(***************************************************************************)
(* The accounts of a staff member are switched, and its planning off.      *)
(***************************************************************************)
LEMMA AccountsSwitched ==
  ASSUME RosterInv, NEW r \in Request, MovesStaff(request[r], account), NEW b \in BOOLEAN,
         account' = [u \in Account |-> IF u \in request[r].accounts
                       THEN [account[u] EXCEPT !.isActive = b] ELSE account[u]]
  PROVE  /\ account' \in [Account -> AccountRow \cup {None}]
         /\ Rows(account)' = Rows(account)
         /\ \A u \in Rows(account) : account'[u].staff = account[u].staff
<1>1. TypeOK /\ \A u \in request[r].accounts : u \in Account /\ account[u] # None
  BY DEF RosterInv, MovesStaff
<1>2. ASSUME NEW u \in request[r].accounts
      PROVE  account'[u] \in AccountRow /\ account'[u].staff = account[u].staff
  <2>1. account[u] \in AccountRow /\ account'[u] = [account[u] EXCEPT !.isActive = b]
    BY <1>1, <1>2 DEF TypeOK
  <2> QED
    BY <2>1 DEF AccountRow
<1>3. \A u \in Account \ request[r].accounts : account'[u] = account[u]
  OBVIOUS
<1>4. account' = [u \in Account |-> account'[u]]
  OBVIOUS
<1>5. account' \in [Account -> AccountRow \cup {None}]
  BY <1>1, <1>2, <1>3, <1>4 DEF TypeOK
<1>6. Rows(account)' = Rows(account)
  BY <1>1, <1>2, <1>3, <1>5, NoneAssumption DEF TypeOK, Rows
<1> QED
  BY <1>2, <1>3, <1>5, <1>6 DEF Rows, TypeOK

LEMMA PutStaff ==
  ASSUME TypeOK, NEW s \in Staff, staff[s] # None, NEW a \in BOOLEAN, NEW b \in BOOLEAN,
         staff' = Put(staff, s, [archived |-> a, isActive |-> b])
  PROVE  /\ staff' = [staff EXCEPT ![s] = [archived |-> a, isActive |-> b]]
         /\ staff' \in [Staff -> StaffRow \cup {None}] /\ Rows(staff)' = Rows(staff)
<1>1. staff[s] \in StaffRow /\ staff \in [Staff -> StaffRow \cup {None}]
  BY DEF TypeOK
<1>2. With(staff[s], [archived |-> a, isActive |-> b]) = [archived |-> a, isActive |-> b]
  BY <1>1 DEF StaffRow, With
<1>3. [archived |-> a, isActive |-> b] \in StaffRow
  BY DEF StaffRow
<1>4. staff' = [staff EXCEPT ![s] = [archived |-> a, isActive |-> b]]
  BY <1>1, <1>2 DEF Put
<1> QED
  BY <1>1, <1>3, <1>4, NoneAssumption DEF Rows

LEMMA MovedStaffTyped ==
  ASSUME RosterInv, NEW r \in Request, MovesStaff(request[r], account),
         staff[request[r].id] # None, NEW a \in BOOLEAN, NEW b \in BOOLEAN,
         staff' = Put(staff, request[r].id, [archived |-> a, isActive |-> b]),
         account' = [u \in Account |-> IF u \in request[r].accounts
                       THEN [account[u] EXCEPT !.isActive = b] ELSE account[u]],
         entry' \in [Entry -> EntryRow \cup {None}],
         \A e \in Entry :
           \/ entry'[e] = entry[e]
           \/ /\ entry[e] # None /\ entry'[e] # None /\ ~entry'[e].isActive
              /\ entry'[e].staff = entry[e].staff /\ entry'[e].type = entry[e].type,
         UNCHANGED <<type, worked>>, Done(r)
  PROVE  RosterInv'
<1>1. TypeOK /\ request[r].id \in Staff
  BY DEF RosterInv, MovesStaff
<1>2. /\ account' \in [Account -> AccountRow \cup {None}] /\ Rows(account)' = Rows(account)
      /\ \A u \in Rows(account) : account'[u].staff = account[u].staff
  BY AccountsSwitched
<1>3. staff' \in [Staff -> StaffRow \cup {None}] /\ Rows(staff)' = Rows(staff)
  BY <1>1, PutStaff
<1>4. \A p \in Staff : staff[p] # None => staff'[p] # None
  BY <1>1, <1>3 DEF Rows, TypeOK
<1>5. ASSUME NEW u \in Rows(account)' PROVE AccountAllowed(u, account[u])'
  <2>1. u \in Rows(account) /\ AccountAllowed(u, account[u])
    BY <1>1, <1>2, <1>5 DEF TypeOK
  <2>2. account'[u] \in AccountRow /\ account'[u].staff \in Staff \cup {None}
    BY <1>2, <1>5 DEF Rows, AccountRow
  <2> QED
    BY <1>2, <1>4, <2>1, <2>2 DEF AccountAllowed
<1>6. ASSUME NEW f \in Rows(entry)' PROVE EntryAllowed(f, entry[f])'
  <2>1. f \in Rows(entry) /\ entry'[f].staff = entry[f].staff /\ entry'[f].type = entry[f].type
    BY <1>1, <1>6 DEF Rows, TypeOK
  <2>2. EntryAllowed(f, entry[f]) /\ entry[f].staff \in Staff
    BY <1>1, <2>1 DEF TypeOK, EntryRow, Rows
  <2>3. ASSUME entry'[f].isActive, NEW g \in Rows(entry)' \ {f},
               entry'[g].isActive, entry'[g].staff = entry'[f].staff, entry'[g].isOff = entry'[f].isOff
        PROVE  ~entry'[f].isOff /\ (entry'[f].type = None \/ entry'[g].type # entry'[f].type)
    <3>1. g \in Rows(entry) /\ entry'[g] = entry[g] /\ entry'[f] = entry[f]
      BY <1>1, <1>6, <2>1, <2>3 DEF Rows, TypeOK
    <3> QED
      BY <2>2, <2>3, <3>1 DEF EntryAllowed
  <2> QED
    BY <1>4, <2>1, <2>2, <2>3 DEF EntryAllowed
<1>7. TypeOK'
  BY <1>1, <1>2, <1>3, <1>5, <1>6 DEF TypeOK
<1>8. AccountsStay
  BY <1>1, <1>2 DEF AccountsStay, Rows, TypeOK
<1> QED
  BY <1>7, <1>8, DoneStep

LEMMA ArchiveStaffStep ==
  ASSUME RosterInv, NEW r \in Request, ArchiveStaff(r)
  PROVE  RosterInv'
<1> DEFINE w == request[r]
<1>1. TypeOK /\ MovesStaff(w, account) /\ Done(r) /\ UNCHANGED worked
  BY DEF ArchiveStaff, RosterInv, RequestsSound, WriteSound, EntryWrite, Creates, Updates, Deletes
<1>2. CASE staff[w.id] = None
  BY <1>1, <1>2, SameRows, DoneStep DEF ArchiveStaff
<1>3. CASE staff[w.id] # None
  <2>1. /\ staff' = Put(staff, w.id, [archived |-> TRUE, isActive |-> FALSE])
        /\ account' = [u \in Account |->
             IF u \in w.accounts THEN [account[u] EXCEPT !.isActive = FALSE] ELSE account[u]]
        /\ entry' = [e \in Entry |->
             IF e \in Rows(entry) /\ entry[e].staff = w.id /\ entry[e].isActive /\ ~entry[e].archived
             THEN [entry[e] EXCEPT !.isActive = FALSE, !.archived = TRUE] ELSE entry[e]]
        /\ UNCHANGED type
    BY <1>3 DEF ArchiveStaff
  <2>2. ASSUME NEW e \in Entry
        PROVE  /\ entry'[e] \in EntryRow \cup {None}
               /\ \/ entry'[e] = entry[e]
                  \/ /\ entry[e] # None /\ entry'[e] # None /\ ~entry'[e].isActive
                     /\ entry'[e].staff = entry[e].staff /\ entry'[e].type = entry[e].type
    <3>1. CASE entry'[e] = entry[e]
      BY <1>1, <3>1 DEF TypeOK
    <3>2. CASE entry'[e] # entry[e]
      <4>1. /\ entry[e] \in EntryRow
            /\ entry'[e] = [entry[e] EXCEPT !.isActive = FALSE, !.archived = TRUE]
        BY <1>1, <2>1, <3>2 DEF TypeOK, Rows
      <4>2. /\ entry'[e] \in EntryRow /\ ~entry'[e].isActive
            /\ entry'[e].staff = entry[e].staff /\ entry'[e].type = entry[e].type
        BY <4>1 DEF EntryRow
      <4> QED
        BY <4>1, <4>2, NoneAssumption
    <3> QED
      BY <3>1, <3>2
  <2>3. entry' \in [Entry -> EntryRow \cup {None}]
    BY <2>1, <2>2
  <2> QED
    BY <1>1, <1>3, <2>1, <2>2, <2>3, MovedStaffTyped
<1> QED
  BY <1>2, <1>3

LEMMA RestoreStaffStep ==
  ASSUME RosterInv, NEW r \in Request, RestoreStaff(r)
  PROVE  RosterInv'
<1> DEFINE w == request[r]
<1>1. TypeOK /\ MovesStaff(w, account) /\ Done(r) /\ UNCHANGED worked
  BY DEF RestoreStaff, RosterInv, RequestsSound, WriteSound, EntryWrite, Creates, Updates, Deletes
<1>2. CASE staff[w.id] = None
  BY <1>1, <1>2, SameRows, DoneStep DEF RestoreStaff
<1>3. CASE staff[w.id] # None
  BY <1>1, <1>3, MovedStaffTyped DEF RestoreStaff, TypeOK
<1> QED
  BY <1>2, <1>3

LEMMA AutoOpenStep ==
  ASSUME RosterInv, autoOpen
  PROVE  RosterInv'
<1>1. PICK e \in OnDuty : worked' = worked \cup {e, entry[e].staff}
  BY DEF autoOpen
<1>2. UNCHANGED <<staff, account, type, entry, request>>
  BY DEF autoOpen
<1>3. e \in Entry /\ entry[e].staff \in Rows(staff)
  BY DEF OnDuty, Rows, RosterInv, TypeOK, EntryRow, EntryAllowed
<1>4. worked' \cap Staff \subseteq Rows(staff)
  BY <1>1, <1>3, RosterAssumption DEF RosterInv, TypeOK
<1> QED
  BY <1>2, <1>4 DEF RosterInv, RequestsSound, TypeOK, Rows, AccountAllowed, EntryAllowed

LEMMA RosterInit == Init => RosterInv
<1> SUFFICES ASSUME Init PROVE RosterInv
  OBVIOUS
<1>1. PICK u \in Account : account = [v \in Account |->
        IF v = u THEN [role |-> "ADMIN", isActive |-> TRUE, staff |-> None] ELSE None]
  BY DEF Init
<1>2. [role |-> "ADMIN", isActive |-> TRUE, staff |-> None] \in AccountRow
  BY DEF AccountRow
<1>3. Rows(account) = {u} /\ AccountAllowed(u, account[u])
  BY <1>1, <1>2, NoneAssumption DEF Rows, AccountAllowed
<1> QED
  BY <1>1, <1>2, <1>3 DEF Init, RosterInv, TypeOK, RequestsSound, Rows

LEMMA RosterStep == RosterInv /\ [Next]_vars => RosterInv'
<1> SUFFICES ASSUME RosterInv, [Next]_vars PROVE RosterInv'
  OBVIOUS
<1>1. CASE UNCHANGED vars
  BY <1>1 DEF vars, RosterInv, RequestsSound, TypeOK, Rows, AccountAllowed, EntryAllowed
<1>2. ASSUME NEW r \in Request, Handle(r) PROVE RosterInv'
  BY <1>2, StaffHandlers, AccountHandlers, TypeHandlers, EntryHandlers DEF Handle
<1>3. ASSUME NEW r \in Request, Finish(r) PROVE RosterInv'
  BY <1>3, StoreStep, ReplaceStep, DeleteStep, ArchiveStaffStep, RestoreStaffStep DEF Finish
<1> QED
  BY <1>1, <1>2, <1>3, AutoOpenStep DEF Next

(***************************************************************************)
(* However requests overlap, the rows are sound and so is every write that *)
(* a request has been allowed.                                             *)
(***************************************************************************)
THEOREM RosterInvariant == Spec => []RosterInv
BY RosterInit, RosterStep, PTL DEF Spec

(***************************************************************************)
(* However requests overlap, rows are of their kinds, no account and no    *)
(* entry refers to a row that is gone, and the unique indexes hold: the    *)
(* checks of the handlers read rows that may have changed by the time they *)
(* write, and it is the database that keeps the tables together.           *)
(***************************************************************************)
THEOREM RosterTyped == Spec => []TypeOK
BY RosterInvariant, PTL DEF RosterInv

-----------------------------------------------------------------------------
(***************************************************************************)
(* Who may get in, one request at a time.  What the checks have found      *)
(* still holds when the request writes: the account that is written leaves *)
(* an administrator and, unless updateStaff may revive people, belongs to  *)
(* a staff member that is usable; the accounts that go with an archived    *)
(* staff member are all of its accounts.                                   *)
(***************************************************************************)
IsAdmin(row) == row.role = "ADMIN" /\ row.isActive

NobodyRevives == "reviveStaff" \notin world.handlers

MayBeActive(row) ==
  NobodyRevives /\ row.staff # None /\ row.isActive => assertStaffMemberUsable(row.staff)

AdminWith(u, row) == IsAdmin(row) \/ \E v \in Rows(account) \ {u} : IsAdmin(account[v])

KeepsAccess(w) ==
  /\ w.do = "update" /\ w.table = "account" =>
       /\ w.id \in Rows(account)
       /\ AdminWith(w.id, With(account[w.id], w.fields))
       /\ MayBeActive(With(account[w.id], w.fields))
  /\ w.do = "create" /\ w.table = "account" => MayBeActive(w.fields)
  /\ w.do = "create" /\ w.table = "staff" => ~w.fields.archived
  /\ w.do = "update" /\ w.table = "staff" => ~NobodyRevives
  /\ w.do = "archiveStaff" => w.accounts = LinkedAccount(w.id)
  /\ w.do = "restoreStaff" => w.accounts \subseteq LinkedAccount(w.id)

AdminLeft == \E u \in Rows(account) : IsAdmin(account[u])

Archived(s) == s \in Rows(staff) /\ staff[s].archived

ArchivedStayOut ==
  NobodyRevives =>
    /\ \A s \in Staff : Archived(s) => ~staff[s].isActive
    /\ \A u \in Rows(account) : Archived(account[u].staff) => ~account[u].isActive

Alone == \A q, r \in Request : request[q] # None /\ request[r] # None => q = r

AccessInv ==
  ~world.overlap =>
    /\ AdminLeft /\ ArchivedStayOut /\ Alone
    /\ \A r \in Request : request[r] # None => KeepsAccess(request[r])

LEMMA BeginsAlone ==
  ASSUME RequestsSound, NEW r \in Request, NEW handler, NEW w, Begin(r, handler, w), ~world.overlap
  PROVE  \A q \in Request : request'[q] = IF q = r THEN w ELSE None
BY DEF Begin, RequestsSound

LEMMA AccessBegin ==
  ASSUME RosterInv, AccessInv, NEW r \in Request, NEW handler, NEW w,
         ~world.overlap => KeepsAccess(w), Begin(r, handler, w)
  PROVE  AccessInv'
<1>1. UNCHANGED <<world, staff, account, type, entry, worked>>
  BY DEF Begin
<1>2. SUFFICES ASSUME ~world.overlap PROVE AccessInv'
  BY <1>1 DEF AccessInv
<1>3. \A q \in Request : request'[q] = IF q = r THEN w ELSE None
  BY <1>2, BeginsAlone DEF RosterInv
<1>4. AdminLeft' /\ ArchivedStayOut' /\ Alone'
  BY <1>1, <1>2, <1>3 DEF AccessInv, AdminLeft, ArchivedStayOut, Alone, Rows, Archived, NobodyRevives
<1>5. \A q \in Request : request'[q] # None => KeepsAccess(request[q])'
  BY <1>1, <1>2, <1>3 DEF KeepsAccess, Rows, AdminWith, MayBeActive, NobodyRevives,
     assertStaffMemberUsable, LinkedAccount
<1> QED
  BY <1>4, <1>5 DEF AccessInv

(***************************************************************************)
(* The handlers begin.                                                     *)
(***************************************************************************)
LEMMA StaffAccess ==
  ASSUME RosterInv, AccessInv, NEW r \in Request,
         \/ createStaff(r) \/ updateStaff(r) \/ archiveStaffMember(r)
         \/ restoreStaffMember(r) \/ hardDeleteStaffMember(r)
  PROVE  AccessInv'
<1>1. CASE createStaff(r)
  BY <1>1, AccessBegin DEF createStaff, KeepsAccess
<1>2. CASE updateStaff(r)
  BY <1>2, AccessBegin DEF updateStaff, KeepsAccess, Update, NobodyRevives, Begin
<1>3. CASE archiveStaffMember(r)
  BY <1>3, AccessBegin DEF archiveStaffMember, KeepsAccess
<1>4. CASE restoreStaffMember(r)
  BY <1>4, AccessBegin DEF restoreStaffMember, KeepsAccess
<1>5. CASE hardDeleteStaffMember(r)
  BY <1>5, AccessBegin DEF hardDeleteStaffMember, KeepsAccess
<1> QED
  BY <1>1, <1>2, <1>3, <1>4, <1>5

LEMMA PlanningAccess ==
  ASSUME RosterInv, AccessInv, NEW r \in Request,
         \/ createShiftType(r) \/ updateShiftType(r) \/ archiveShiftType(r)
         \/ restoreShiftType(r) \/ hardDeleteShiftType(r)
         \/ createScheduleEntry(r) \/ updateScheduleEntry(r) \/ archiveStaffSchedule(r)
         \/ restoreStaffSchedule(r) \/ hardDeleteStaffSchedule(r)
  PROVE  AccessInv'
<1>1. ASSUME NEW t \in {"type", "entry"}, NEW id, NEW fields PROVE KeepsAccess(Update(t, id, fields))
  BY <1>1 DEF KeepsAccess, Update
<1>2. ASSUME NEW w, w.do \in {"create", "replace", "delete"}, w.table \in {"type", "entry"}
      PROVE  KeepsAccess(w)
  BY <1>2 DEF KeepsAccess
<1>3. CASE createShiftType(r) \/ hardDeleteShiftType(r)
  <2>1. \E w : w.do \in {"create", "delete"} /\ w.table = "type" /\ \E h : Begin(r, h, w)
    BY <1>3 DEF createShiftType, hardDeleteShiftType
  <2> QED
    BY <1>2, <2>1, AccessBegin
<1>4. CASE updateShiftType(r) \/ archiveShiftType(r) \/ restoreShiftType(r)
  BY <1>1, <1>4, AccessBegin DEF updateShiftType, archiveShiftType, restoreShiftType
<1>5. CASE createScheduleEntry(r) \/ hardDeleteStaffSchedule(r)
  <2>1. \E w : w.do \in {"replace", "delete"} /\ w.table = "entry" /\ \E h : Begin(r, h, w)
    BY <1>5 DEF createScheduleEntry, hardDeleteStaffSchedule
  <2> QED
    BY <1>2, <2>1, AccessBegin
<1>6. CASE archiveStaffSchedule(r) \/ restoreStaffSchedule(r)
  BY <1>1, <1>6, AccessBegin DEF archiveStaffSchedule, restoreStaffSchedule
<1>7. CASE updateScheduleEntry(r)
  <2>1. \E e, fields : Begin(r, "updateEntry", Update("entry", e, fields))
    BY <1>7 DEF updateScheduleEntry
  <2> QED
    BY <1>1, <2>1, AccessBegin
<1> QED
  BY <1>3, <1>4, <1>5, <1>6, <1>7

(***************************************************************************)
(* The other administrators.                                               *)
(***************************************************************************)
LEMMA OtherAdmin ==
  ASSUME TypeOK, AdminLeft, NEW u \in Rows(account),
         account[u].role = "ADMIN" => assertNotLastActiveOwnerAdmin(u)
  PROVE  \E v \in Rows(account) \ {u} : IsAdmin(account[v])
BY DEF AdminLeft, IsAdmin, assertNotLastActiveOwnerAdmin

LEMMA DisableAccess ==
  ASSUME RosterInv, AccessInv, NEW r \in Request, disableUser(r)
  PROVE  AccessInv'
<1>1. PICK u \in Rows(account) :
        /\ account[u].role = "ADMIN" => assertNotLastActiveOwnerAdmin(u)
        /\ Begin(r, "disableUser", Update("account", u, [isActive |-> FALSE]))
  BY DEF disableUser
<1> DEFINE w == Update("account", u, [isActive |-> FALSE])
<1>2. ASSUME ~world.overlap PROVE KeepsAccess(w)
  <2>1. account[u] \in AccountRow
    BY DEF RosterInv, TypeOK, Rows
  <2>2. ~With(account[u], [isActive |-> FALSE]).isActive
    BY <2>1 DEF With, AccountRow
  <2>3. \E v \in Rows(account) \ {u} : IsAdmin(account[v])
    BY <1>1, <1>2, OtherAdmin DEF RosterInv, AccessInv
  <2> QED
    BY <2>2, <2>3 DEF KeepsAccess, Update, AdminWith, MayBeActive
<1> QED
  BY <1>1, <1>2, AccessBegin

LEMMA CreateAccess ==
  ASSUME RosterInv, AccessInv, NEW r \in Request, createUser(r)
  PROVE  AccessInv'
<1>1. PICK u \in Account, s \in Staff \cup {None} :
        /\ s # None => assertStaffMemberUsable(s)
        /\ Begin(r, "createUser",
             [do |-> "create", table |-> "account", id |-> u,
              fields |-> [role |-> IF s = None THEN "ADMIN" ELSE "ASSISTANT",
                          isActive |-> TRUE, staff |-> s]])
  BY DEF createUser
<1> QED
  BY <1>1, AccessBegin DEF KeepsAccess, MayBeActive

LEMMA UpdateAccess ==
  ASSUME RosterInv, AccessInv, NEW r \in Request, updateUser(r)
  PROVE  AccessInv'
<1>1. PICK u \in Rows(account), role \in {"ADMIN", "ASSISTANT", None},
           s \in Staff \cup {None}, active \in BOOLEAN \cup {None} :
    LET effectiveRole == IF role = None THEN account[u].role ELSE role
        effectiveStaff ==
          IF effectiveRole = "ADMIN" THEN None ELSE IF s = None THEN account[u].staff ELSE s
        effectiveActive == IF active = None THEN account[u].isActive ELSE active
        given == (IF role = None THEN {} ELSE {"role", "staff"}) \cup
                 (IF s = None THEN {} ELSE {"staff"}) \cup
                 (IF active = None THEN {} ELSE {"isActive"})
    IN  /\ effectiveRole = "ASSISTANT" =>
             effectiveStaff # None /\ assertStaffMemberUsable(effectiveStaff)
        /\ account[u].role = "ADMIN" /\ (effectiveRole # "ADMIN" \/ ~effectiveActive) =>
             assertNotLastActiveOwnerAdmin(u)
        /\ Begin(r, "updateUser", Update("account", u,
             Restrict([role |-> effectiveRole, staff |-> effectiveStaff,
                       isActive |-> effectiveActive], given)))
  BY DEF updateUser
<1> DEFINE effectiveRole == IF role = None THEN account[u].role ELSE role
           effectiveStaff ==
             IF effectiveRole = "ADMIN" THEN None ELSE IF s = None THEN account[u].staff ELSE s
           effectiveActive == IF active = None THEN account[u].isActive ELSE active
           given == (IF role = None THEN {} ELSE {"role", "staff"}) \cup
                    (IF s = None THEN {} ELSE {"staff"}) \cup
                    (IF active = None THEN {} ELSE {"isActive"})
           full == [role |-> effectiveRole, staff |-> effectiveStaff, isActive |-> effectiveActive]
           row == With(account[u], Restrict(full, given))
<1>2. account[u] \in AccountRow
  BY DEF RosterInv, TypeOK, Rows
<1>3. /\ account[u].role = "ADMIN" => account[u].staff = None
      /\ account[u].role \in {"ADMIN", "ASSISTANT"}
  BY <1>2 DEF AccountRow
<1>4. effectiveRole \in {"ADMIN", "ASSISTANT"}
  BY <1>3
<1>5. row.role = effectiveRole /\ row.staff = effectiveStaff /\ row.isActive = effectiveActive
  <2>1. /\ "role" \in given <=> role # None
        /\ "staff" \in given <=> role # None \/ s # None
        /\ "isActive" \in given <=> active # None
        /\ given \subseteq {"role", "staff", "isActive"}
    <3>1. "role" \in given <=> role # None
      OBVIOUS
    <3>2. "staff" \in given <=> role # None \/ s # None
      OBVIOUS
    <3>3. "isActive" \in given <=> active # None
      OBVIOUS
    <3>4. given \subseteq {"role", "staff", "isActive"}
      OBVIOUS
    <3> QED
      BY <3>1, <3>2, <3>3, <3>4
  <2>2. DOMAIN account[u] = {"role", "staff", "isActive"}
    BY <1>2 DEF AccountRow
  <2> HIDE DEF given, full
  <2>3. \A f \in {"role", "staff", "isActive"} :
          row[f] = IF f \in given THEN full[f] ELSE account[u][f]
    BY <2>1, <2>2 DEF With, Restrict
  <2>4. row.role = IF role = None THEN account[u].role ELSE effectiveRole
    BY <2>1, <2>3 DEF full
  <2>5. row.staff = IF role = None /\ s = None THEN account[u].staff ELSE effectiveStaff
    BY <2>1, <2>3 DEF full
  <2>6. row.isActive = IF active = None THEN account[u].isActive ELSE effectiveActive
    BY <2>1, <2>3 DEF full
  <2> HIDE DEF row
  <2> QED
    BY <1>3, <2>4, <2>5, <2>6
<1>6. ASSUME ~world.overlap
      PROVE  KeepsAccess(Update("account", u, Restrict(full, given)))
  <2> HIDE DEF row, effectiveRole, effectiveStaff, effectiveActive, given, full
  <2>1. MayBeActive(row)
    <3>1. effectiveRole = "ADMIN" => effectiveStaff = None
      BY DEF effectiveStaff
    <3> QED
      BY <1>1, <1>4, <1>5, <3>1 DEF MayBeActive, effectiveRole, effectiveStaff
  <2>2. AdminWith(u, row)
    <3>1. CASE account[u].role = "ADMIN" => assertNotLastActiveOwnerAdmin(u)
      BY <1>6, <3>1, OtherAdmin DEF RosterInv, AccessInv, AdminWith
    <3>2. CASE effectiveRole = "ADMIN" /\ effectiveActive
      BY <1>5, <3>2 DEF AdminWith, IsAdmin
    <3> QED
      BY <1>1, <3>1, <3>2 DEF effectiveRole, effectiveActive
  <2> QED
    BY <2>1, <2>2 DEF KeepsAccess, Update, row
<1> QED
  BY <1>1, <1>6, AccessBegin

(***************************************************************************)
(* The writes.  The request that writes was the only one.                  *)
(***************************************************************************)
LEMMA AccessDone ==
  ASSUME RosterInv, AccessInv, NEW r \in Request, request[r] # None, Done(r), UNCHANGED world,
         ~world.overlap => AdminLeft' /\ ArchivedStayOut'
  PROVE  AccessInv'
<1> SUFFICES ASSUME ~world.overlap PROVE AccessInv'
  BY DEF AccessInv
<1>1. \A q \in Request : request'[q] = None
  BY DEF Done, AccessInv, Alone, RosterInv, RequestsSound
<1> QED
  BY <1>1 DEF AccessInv, Alone

LEMMA AccessUntouched ==
  ASSUME AdminLeft, ArchivedStayOut, UNCHANGED <<world, staff, account>>
  PROVE  AdminLeft' /\ ArchivedStayOut'
BY DEF AdminLeft, ArchivedStayOut, Archived, Rows, NobodyRevives

LEMMA AccountWritten ==
  ASSUME RosterInv, AdminLeft, ArchivedStayOut, NEW u \in Account, NEW row,
         AdminWith(u, row), MayBeActive(row), AccountAllowed(u, row),
         account' = [account EXCEPT ![u] = row], UNCHANGED <<world, staff>>
  PROVE  AdminLeft' /\ ArchivedStayOut'
<1>1. account'[u] = row /\ row # None /\ \A v \in Account \ {u} : account'[v] = account[v]
  BY NoneAssumption DEF RosterInv, TypeOK, AccountAllowed
<1>2. AdminLeft'
  BY <1>1 DEF AdminLeft, AdminWith, Rows, RosterInv, TypeOK
<1>3. NobodyRevives /\ Archived(row.staff) => ~row.isActive
  <2>1. Archived(row.staff) => row.staff \in Staff /\ row.staff # None
    BY RosterAssumption DEF Archived, Rows, RosterInv, TypeOK
  <2> QED
    BY <2>1 DEF MayBeActive, assertStaffMemberUsable, ArchivedStayOut
<1>4. ArchivedStayOut'
  BY <1>1, <1>3 DEF ArchivedStayOut, Archived, Rows, RosterInv, TypeOK, NobodyRevives
<1> QED
  BY <1>2, <1>4

LEMMA StoreAccess ==
  ASSUME RosterInv, AccessInv, NEW r \in Request, Store(r)
  PROVE  AccessInv'
<1> DEFINE w   == request[r]
           row == IF w.do = "create" THEN w.fields ELSE With(Table(w)[w.id], w.fields)
<1>1. /\ TypeOK /\ w # None /\ WriteSound(w, account) /\ w.do \in {"create", "update"} /\ Done(r)
      /\ UNCHANGED world
      /\ \/ /\ (w.do = "create") = (Table(w)[w.id] = None) /\ Allowed(w, row)
            /\ Write(w, [Table(w) EXCEPT ![w.id] = row])
         \/ Same
  BY DEF Store, RosterInv, RequestsSound
<1>2. SUFFICES ASSUME ~world.overlap PROVE AdminLeft' /\ ArchivedStayOut'
  BY <1>1, AccessDone
<1>3. AdminLeft /\ ArchivedStayOut /\ KeepsAccess(w)
  BY <1>1, <1>2 DEF AccessInv
<1>4. CASE Same
  BY <1>1, <1>3, <1>4, AccessUntouched DEF Same
<1>5. CASE ~Same
  <2> DEFINE rows == [Table(w) EXCEPT ![w.id] = row]
  <2>1. /\ (w.do = "create") = (Table(w)[w.id] = None)
        /\ Allowed(w, row) /\ Write(w, rows)
        /\ w \in EntryWrite \/ Creates(w) \/ Updates(w)
    BY <1>1, <1>5 DEF WriteSound, Deletes, MovesStaff
  <2>2. CASE w.table = "staff"
    <3>1. /\ staff' = [staff EXCEPT ![w.id] = row] /\ UNCHANGED account
          /\ w.id \in Staff
      BY <2>1, <2>2 DEF Write, Table, EntryWrite, Creates, Updates
    <3>2. NobodyRevives => ~row.archived
      BY <1>1, <1>3, <2>2 DEF KeepsAccess
    <3> HIDE DEF w, row
    <3>3. AdminLeft'
      BY <1>3, <3>1 DEF AdminLeft, Rows
    <3>4. ASSUME NobodyRevives, NEW s \in Staff, Archived(s)' PROVE Archived(s) /\ staff'[s] = staff[s]
      BY <1>1, <3>1, <3>2, <3>4 DEF Archived, Rows, TypeOK
    <3>5. ArchivedStayOut'
      <4>1. NobodyRevives' = NobodyRevives
        BY <1>1 DEF NobodyRevives
      <4>2. \A s : Archived(s)' => s \in Staff
        BY <1>1, <3>1 DEF Archived, Rows, TypeOK
      <4> QED
        BY <1>3, <3>1, <3>4, <4>1, <4>2 DEF ArchivedStayOut, Rows
    <3> QED
      BY <3>3, <3>5
  <2>3. CASE w.table = "account"
    <3>1. /\ account' = [account EXCEPT ![w.id] = row] /\ UNCHANGED staff
          /\ (w.do = "create") = (account[w.id] = None)
          /\ w.id \in Account /\ AccountAllowed(w.id, row)
      BY <2>1, <2>3 DEF Write, Table, Allowed, EntryWrite, Creates, Updates
    <3>2. AdminWith(w.id, row) /\ MayBeActive(row)
      <4>1. CASE w.do = "create"
        BY <1>3, <2>3, <3>1, <4>1 DEF KeepsAccess, AdminWith, AdminLeft, Rows
      <4>2. CASE w.do = "update"
        BY <1>3, <2>3, <4>2 DEF KeepsAccess, Table
      <4> QED
        BY <1>1, <4>1, <4>2
    <3> HIDE DEF w, row
    <3> QED
      BY <1>1, <1>3, <3>1, <3>2, AccountWritten
  <2>4. CASE w.table \notin {"staff", "account"}
    BY <1>1, <1>3, <2>1, <2>4, AccessUntouched DEF Write
  <2> QED
    BY <2>2, <2>3, <2>4
<1> QED
  BY <1>4, <1>5

LEMMA ReplaceAccess ==
  ASSUME RosterInv, AccessInv, NEW r \in Request, Replace(r)
  PROVE  AccessInv'
<1> DEFINE w == request[r]
<1>1. /\ w # None /\ w \in EntryWrite /\ request' = [request EXCEPT ![r].do = "create"]
      /\ UNCHANGED <<world, staff, account>>
  BY DEF Replace, RosterInv, RequestsSound, WriteSound, Creates, Updates, Deletes, MovesStaff
<1> SUFFICES ASSUME ~world.overlap PROVE AccessInv'
  BY <1>1 DEF AccessInv
<1>2. AdminLeft' /\ ArchivedStayOut'
  BY <1>1, AccessUntouched DEF AccessInv
<1>3. \A q \in Request \ {r} : request'[q] = None
  BY <1>1 DEF AccessInv, Alone, RosterInv, RequestsSound
<1>4. KeepsAccess(request[r])'
  <2>1. request'[r] = [w EXCEPT !.do = "create"]
    BY <1>1 DEF RosterInv, RequestsSound
  <2>2. request'[r].do = "create" /\ request'[r].table = "entry"
    BY <1>1, <2>1 DEF EntryWrite
  <2> QED
    BY <2>2 DEF KeepsAccess
<1> QED
  BY <1>2, <1>3, <1>4 DEF AccessInv, Alone

LEMMA DeleteAccess ==
  ASSUME RosterInv, AccessInv, NEW r \in Request, Delete(r)
  PROVE  AccessInv'
<1> DEFINE w == request[r]
<1>1. /\ w # None /\ Deletes(w) /\ Done(r) /\ UNCHANGED <<world, account>>
      /\ staff' = staff \/ (w.id \in Staff /\ staff' = [staff EXCEPT ![w.id] = None])
  <2>1. w # None /\ w.do = "delete" /\ Done(r) /\ UNCHANGED <<world, account>>
    BY DEF Delete, Same
  <2>2. Deletes(w)
    BY <2>1 DEF RosterInv, RequestsSound, WriteSound, EntryWrite, Creates, Updates, MovesStaff
  <2>3. staff' = staff \/ staff' = IF w.table = "staff" THEN [staff EXCEPT ![w.id] = None] ELSE staff
    BY DEF Delete, Same
  <2>4. w.table = "staff" => w.id \in Staff
    BY <2>2 DEF Deletes
  <2> HIDE DEF w
  <2>5. CASE w.table = "staff"
    BY <2>1, <2>2, <2>3, <2>4, <2>5
  <2>6. CASE w.table # "staff"
    BY <2>1, <2>2, <2>3, <2>6
  <2> QED
    BY <2>5, <2>6
<1>2. SUFFICES ASSUME ~world.overlap PROVE AdminLeft' /\ ArchivedStayOut'
  BY <1>1, AccessDone
<1> HIDE DEF w
<1>3. \A s \in Staff : staff'[s] = None \/ staff'[s] = staff[s]
  BY <1>1 DEF RosterInv, TypeOK
<1>4. \A s : Archived(s)' => s \in Staff /\ Archived(s) /\ staff'[s] = staff[s]
  BY <1>1, <1>3 DEF Archived, Rows, RosterInv, TypeOK
<1> QED
  BY <1>1, <1>2, <1>4 DEF AccessInv, AdminLeft, ArchivedStayOut, Rows, NobodyRevives

(***************************************************************************)
(* The accounts of one staff member are switched: an administrator is no   *)
(* staff member.                                                           *)
(***************************************************************************)
LEMMA AdminsKept ==
  ASSUME TypeOK, AdminLeft, NEW s \in Staff, NEW accounts, accounts \subseteq LinkedAccount(s),
         NEW b \in BOOLEAN,
         account' = [u \in Account |->
           IF u \in accounts THEN [account[u] EXCEPT !.isActive = b] ELSE account[u]]
  PROVE  AdminLeft'
<1>1. PICK u \in Rows(account) : IsAdmin(account[u])
  BY DEF AdminLeft
<1>2. account[u] \in AccountRow /\ u \in Account
  BY DEF TypeOK, Rows
<1>3. account[u].staff = None
  BY <1>1, <1>2 DEF IsAdmin, AccountRow
<1>4. u \notin accounts
  BY <1>3, RosterAssumption DEF LinkedAccount
<1>5. account'[u] = account[u]
  BY <1>2, <1>4
<1> QED
  BY <1>1, <1>2, <1>5 DEF AdminLeft, Rows

LEMMA ArchiveStaffAccess ==
  ASSUME RosterInv, AccessInv, NEW r \in Request, ArchiveStaff(r)
  PROVE  AccessInv'
<1> DEFINE w == request[r]
<1>1. TypeOK /\ w # None /\ w.do = "archiveStaff" /\ MovesStaff(w, account) /\ Done(r) /\ UNCHANGED world
  BY DEF ArchiveStaff, RosterInv, RequestsSound, WriteSound, EntryWrite, Creates, Updates, Deletes
<1>2. SUFFICES ASSUME ~world.overlap PROVE AdminLeft' /\ ArchivedStayOut'
  BY <1>1, AccessDone
<1>3. AdminLeft /\ ArchivedStayOut /\ w.accounts = LinkedAccount(w.id) /\ w.id \in Staff
  BY <1>1, <1>2 DEF AccessInv, KeepsAccess, MovesStaff
<1>4. CASE staff[w.id] = None
  BY <1>1, <1>3, <1>4, AccessUntouched DEF ArchiveStaff, Same
<1>5. CASE staff[w.id] # None
  <2>1. /\ staff' = Put(staff, w.id, [archived |-> TRUE, isActive |-> FALSE])
        /\ account' = [u \in Account |->
             IF u \in w.accounts THEN [account[u] EXCEPT !.isActive = FALSE] ELSE account[u]]
    BY <1>5 DEF ArchiveStaff
  <2>2. /\ staff' = [staff EXCEPT ![w.id] = [archived |-> TRUE, isActive |-> FALSE]]
        /\ Rows(staff)' = Rows(staff)
    BY <1>1, <1>3, <1>5, <2>1, PutStaff
  <2>3. AdminLeft'
    BY <1>1, <1>3, <2>1, AdminsKept
  <2>4. ASSUME NEW s \in Staff, Archived(s)'
        PROVE  (s = w.id /\ ~staff'[s].isActive) \/ (Archived(s) /\ staff'[s] = staff[s])
    <3>1. CASE s = w.id
      <4>1. staff'[s] = [archived |-> TRUE, isActive |-> FALSE]
        BY <1>1, <2>2, <3>1 DEF TypeOK
      <4> QED
        BY <3>1, <4>1
    <3>2. CASE s # w.id
      <4> HIDE DEF w
      <4>1. staff'[s] = staff[s]
        BY <1>1, <2>2, <3>2 DEF TypeOK
      <4>2. s \in Rows(staff)' /\ staff'[s].archived
        BY <2>4 DEF Archived
      <4> QED
        BY <2>2, <4>1, <4>2 DEF Archived
    <3> QED
      BY <3>1, <3>2
  <2>5. \A u \in Rows(account)' : u \in Rows(account) /\ account'[u].staff = account[u].staff
    BY <1>1, <2>1, AccountsSwitched DEF RosterInv
  <2>6. ASSUME NEW u \in Rows(account), account[u].staff = w.id PROVE ~account'[u].isActive
    <3>1. u \in w.accounts /\ u \in Account /\ account[u] \in AccountRow
      BY <1>1, <1>3, <2>6 DEF LinkedAccount, Rows, TypeOK
    <3>2. account'[u] = [account[u] EXCEPT !.isActive = FALSE]
      BY <2>1, <3>1
    <3> QED
      BY <3>1, <3>2 DEF AccountRow
  <2>7. \A u \in Rows(account) : account[u].staff # w.id => account'[u] = account[u]
    BY <1>1, <1>3, <2>1 DEF LinkedAccount, Rows, TypeOK
  <2>8. ASSUME NobodyRevives, NEW u \in Rows(account)', Archived(account[u].staff)'
        PROVE  ~account'[u].isActive
    <3>1. account[u].staff \in Staff \/ account[u].staff = None
      BY <1>1, <2>5, <2>8 DEF TypeOK, Rows, AccountRow
    <3>2. account[u].staff \in Staff
      BY <1>1, <2>2, <2>5, <2>8, <3>1, RosterAssumption DEF Archived, Rows, TypeOK
    <3> QED
      BY <1>3, <2>4, <2>5, <2>6, <2>7, <2>8, <3>2 DEF ArchivedStayOut
  <2>9. ArchivedStayOut'
    BY <1>1, <1>3, <2>4, <2>8 DEF ArchivedStayOut, NobodyRevives
  <2> QED
    BY <2>3, <2>9
<1> QED
  BY <1>4, <1>5

LEMMA RestoreStaffAccess ==
  ASSUME RosterInv, AccessInv, NEW r \in Request, RestoreStaff(r)
  PROVE  AccessInv'
<1> DEFINE w == request[r]
<1>1. TypeOK /\ w # None /\ w.do = "restoreStaff" /\ MovesStaff(w, account) /\ Done(r) /\ UNCHANGED world
  BY DEF RestoreStaff, RosterInv, RequestsSound, WriteSound, EntryWrite, Creates, Updates, Deletes
<1>2. SUFFICES ASSUME ~world.overlap PROVE AdminLeft' /\ ArchivedStayOut'
  BY <1>1, AccessDone
<1>3. AdminLeft /\ ArchivedStayOut /\ w.accounts \subseteq LinkedAccount(w.id) /\ w.id \in Staff
  BY <1>1, <1>2 DEF AccessInv, KeepsAccess, MovesStaff
<1>4. CASE staff[w.id] = None
  BY <1>1, <1>3, <1>4, AccessUntouched DEF RestoreStaff, Same
<1>5. CASE staff[w.id] # None
  <2>1. /\ staff' = Put(staff, w.id, [archived |-> FALSE, isActive |-> TRUE])
        /\ account' = [u \in Account |->
             IF u \in w.accounts THEN [account[u] EXCEPT !.isActive = TRUE] ELSE account[u]]
    BY <1>5 DEF RestoreStaff
  <2>2. /\ staff' = [staff EXCEPT ![w.id] = [archived |-> FALSE, isActive |-> TRUE]]
        /\ Rows(staff)' = Rows(staff)
    BY <1>1, <1>3, <1>5, <2>1, PutStaff
  <2>3. AdminLeft'
    BY <1>1, <1>3, <2>1, AdminsKept
  <2>4. \A s : Archived(s)' => s \in Staff /\ s # w.id /\ Archived(s) /\ staff'[s] = staff[s]
    BY <1>1, <2>2 DEF Archived, TypeOK, Rows
  <2>5. \A u \in Rows(account)' : u \in Rows(account) /\ account'[u].staff = account[u].staff
    BY <1>1, <2>1, AccountsSwitched DEF RosterInv
  <2>6. \A u \in Rows(account) : account[u].staff # w.id => account'[u] = account[u]
    BY <1>1, <1>3, <2>1 DEF LinkedAccount, Rows, TypeOK
  <2>7. ArchivedStayOut'
    BY <1>1, <1>3, <2>4, <2>5, <2>6 DEF ArchivedStayOut, NobodyRevives
  <2> QED
    BY <2>3, <2>7
<1> QED
  BY <1>4, <1>5

LEMMA AccessInit == Init => AccessInv
<1> SUFFICES ASSUME Init PROVE AccessInv
  OBVIOUS
<1>1. PICK u \in Account : account = [v \in Account |->
        IF v = u THEN [role |-> "ADMIN", isActive |-> TRUE, staff |-> None] ELSE None]
  BY DEF Init
<1>2. [role |-> "ADMIN", isActive |-> TRUE, staff |-> None] # None
  <2>1. [role |-> "ADMIN", isActive |-> TRUE, staff |-> None] \in AccountRow
    BY DEF AccountRow
  <2> QED
    BY <2>1, NoneAssumption
<1>3. u \in Rows(account) /\ IsAdmin(account[u])
  BY <1>1, <1>2 DEF Rows, IsAdmin
<1>4. Rows(staff) = {} /\ \A r \in Request : request[r] = None
  BY DEF Init, Rows
<1> QED
  BY <1>3, <1>4 DEF AccessInv, AdminLeft, ArchivedStayOut, Archived, Alone, Init, Rows

LEMMA AccessStep == RosterInv /\ AccessInv /\ [Next]_vars => AccessInv'
<1> SUFFICES ASSUME RosterInv, AccessInv, [Next]_vars PROVE AccessInv'
  OBVIOUS
<1>1. CASE UNCHANGED <<world, staff, account, request>>
  BY <1>1 DEF AccessInv, AdminLeft, ArchivedStayOut, Archived, Alone, Rows, NobodyRevives,
     KeepsAccess, AdminWith, MayBeActive, assertStaffMemberUsable, LinkedAccount
<1>2. CASE autoOpen \/ UNCHANGED vars
  BY <1>1, <1>2 DEF autoOpen, vars
<1>3. ASSUME NEW r \in Request, Handle(r) PROVE AccessInv'
  BY <1>3, StaffAccess, CreateAccess, UpdateAccess, DisableAccess, PlanningAccess DEF Handle
<1>4. ASSUME NEW r \in Request, Finish(r) PROVE AccessInv'
  BY <1>4, StoreAccess, ReplaceAccess, DeleteAccess, ArchiveStaffAccess, RestoreStaffAccess DEF Finish
<1> QED
  BY <1>2, <1>3, <1>4 DEF Next

LEMMA AccessFollows == TypeOK /\ AccessInv => AccessIsRight
<1> SUFFICES ASSUME TypeOK, AccessInv, ~world.overlap PROVE AccessIsRight
  BY DEF AccessIsRight, SomebodyAdministers, ArchivedStaffIsLockedOut
<1>1. SomebodyAdministers
  BY DEF AccessInv, AdminLeft, IsAdmin, SomebodyAdministers, HasAccess, Rows, TypeOK
<1>2. ArchivedStaffIsLockedOut
  <2>1. ASSUME NEW u \in Rows(account), account[u].staff # None, staff[account[u].staff].archived
        PROVE  Archived(account[u].staff)
    <3>1. account[u] \in AccountRow /\ staff[account[u].staff] # None
      BY <2>1 DEF TypeOK, Rows, AccountAllowed
    <3>2. account[u].staff \in Staff
      BY <2>1, <3>1 DEF AccountRow
    <3> QED
      BY <2>1, <3>1, <3>2 DEF Archived, Rows, TypeOK
  <2> QED
    BY <2>1 DEF AccessInv, ArchivedStayOut, ArchivedStaffIsLockedOut, NobodyRevives
<1> QED
  BY <1>1, <1>2 DEF AccessIsRight

(***************************************************************************)
(* One request at a time, an administrator who may get in is always left,  *)
(* and the account of an archived staff member stays disabled until the    *)
(* staff member is restored, for any number of people and accounts.        *)
(***************************************************************************)
THEOREM AccessStaysRight == Spec => []AccessIsRight
<1>1. Spec => [](RosterInv /\ AccessInv)
  BY RosterInit, RosterStep, AccessInit, AccessStep, PTL DEF Spec
<1>2. RosterInv /\ AccessInv => AccessIsRight
  BY AccessFollows DEF RosterInv
<1> QED
  BY <1>1, <1>2, PTL

-----------------------------------------------------------------------------
(***************************************************************************)
(* The planning, one request at a time and nothing brought back unchecked. *)
(* The types in use have hours apart and two people never have the same    *)
(* one; what the checks of a request have found still holds when it        *)
(* writes.  A type that is out of use stays so.                            *)
(***************************************************************************)
Checked ==
  ~world.overlap /\ {"restoreEntry", "restoreType", "toggleType"} \cap world.handlers = {}

InUse(t) == t \in Rows(type) /\ type[t].isActive

Apart(t, hours) == \A u \in Rows(type) \ {t} : InUse(u) => ~rangesOverlap(hours, type[u].hours)

Free(e, row) ==
  row.isActive /\ ~row.isOff /\ InUse(row.type) =>
    \A f \in OnDuty \ {e} : entry[f].staff # row.staff => entry[f].type # row.type

TypeFits(t, row) == row.isActive => ~row.archived /\ Apart(t, row.hours)

RotaRows ==
  /\ \A t \in Rows(type) : TypeFits(t, type[t])
  /\ \A e \in OnDuty : Free(e, entry[e])

KeepsRota(w) ==
  /\ w.do \in {"create", "replace"} /\ w.table = "entry" => Free(w.id, w.fields)
  /\ w.do = "update" /\ w.table = "entry" =>
       w.id \in Rows(entry) /\ Free(w.id, With(entry[w.id], w.fields))
  /\ w.do = "create" /\ w.table = "type" => TypeFits(w.id, w.fields)
  /\ w.do = "update" /\ w.table = "type" =>
       /\ w.id \in Rows(type)
       /\ TypeFits(w.id, With(type[w.id], w.fields))
       /\ With(type[w.id], w.fields).isActive => InUse(w.id)

RotaInv ==
  Checked =>
    /\ RotaRows /\ Alone
    /\ \A r \in Request : request[r] # None => KeepsRota(request[r])

LEMMA RotaBegin ==
  ASSUME RosterInv, RotaInv, NEW r \in Request, NEW handler, NEW w,
         Checked => KeepsRota(w), Begin(r, handler, w)
  PROVE  RotaInv'
<1>1. UNCHANGED <<world, staff, account, type, entry, worked>>
  BY DEF Begin
<1>2. SUFFICES ASSUME Checked PROVE RotaInv'
  BY <1>1 DEF RotaInv, Checked
<1>3. \A q \in Request : request'[q] = IF q = r THEN w ELSE None
  BY <1>2, BeginsAlone DEF RosterInv, Checked
<1>4. RotaRows' /\ Alone'
  BY <1>1, <1>2, <1>3 DEF RotaInv, RotaRows, Alone, Rows, TypeFits, Apart, InUse, Free, OnDuty
<1>5. \A q \in Request : request'[q] # None => KeepsRota(request[q])'
  BY <1>1, <1>2, <1>3 DEF KeepsRota, Rows, TypeFits, Apart, InUse, Free, OnDuty
<1> QED
  BY <1>4, <1>5 DEF RotaInv

(***************************************************************************)
(* The handlers begin.                                                     *)
(***************************************************************************)
LEMMA PeopleRota ==
  ASSUME RosterInv, RotaInv, NEW r \in Request,
         \/ createStaff(r) \/ updateStaff(r) \/ archiveStaffMember(r)
         \/ restoreStaffMember(r) \/ hardDeleteStaffMember(r)
         \/ createUser(r) \/ updateUser(r) \/ disableUser(r)
  PROVE  RotaInv'
<1>1. ASSUME NEW t \in {"staff", "account"}, NEW id, NEW fields PROVE KeepsRota(Update(t, id, fields))
  BY <1>1 DEF KeepsRota, Update
<1>2. ASSUME NEW w, w.do \in {"create", "delete"}, w.table \in {"staff", "account"} PROVE KeepsRota(w)
  BY <1>2 DEF KeepsRota
<1>3. ASSUME NEW w, w.do \in {"archiveStaff", "restoreStaff"} PROVE KeepsRota(w)
  BY <1>3 DEF KeepsRota
<1>4. CASE createStaff(r) \/ hardDeleteStaffMember(r) \/ createUser(r)
  <2>1. \E w : w.do \in {"create", "delete"} /\ w.table \in {"staff", "account"} /\ \E h : Begin(r, h, w)
    BY <1>4 DEF createStaff, hardDeleteStaffMember, createUser
  <2> QED
    BY <1>2, <2>1, RotaBegin
<1>5. CASE archiveStaffMember(r) \/ restoreStaffMember(r)
  <2>1. archiveStaffMember(r) => \E w : w.do = "archiveStaff" /\ \E h : Begin(r, h, w)
    BY DEF archiveStaffMember
  <2>2. restoreStaffMember(r) => \E w : w.do = "restoreStaff" /\ \E h : Begin(r, h, w)
    BY DEF restoreStaffMember
  <2> QED
    BY <1>3, <1>5, <2>1, <2>2, RotaBegin
<1>6. CASE updateStaff(r)
  <2>1. \E id, fields : Begin(r, "reviveStaff", Update("staff", id, fields))
    BY <1>6 DEF updateStaff
  <2> QED
    BY <1>1, <2>1, RotaBegin
<1>7. CASE updateUser(r)
  <2>1. \E id, fields : Begin(r, "updateUser", Update("account", id, fields))
    BY <1>7 DEF updateUser
  <2> QED
    BY <1>1, <2>1, RotaBegin
<1>8. CASE disableUser(r)
  <2>1. \E id, fields : Begin(r, "disableUser", Update("account", id, fields))
    BY <1>8 DEF disableUser
  <2> QED
    BY <1>1, <2>1, RotaBegin
<1> QED
  BY <1>4, <1>5, <1>6, <1>7, <1>8

LEMMA TypesApart ==
  ASSUME RotaRows, NEW t, NEW hours, assertNoOverlapWithActiveTypes(t, hours)
  PROVE  Apart(t, hours)
BY DEF RotaRows, TypeFits, Apart, InUse, assertNoOverlapWithActiveTypes

LEMMA TypesRota ==
  ASSUME RosterInv, RotaInv, NEW r \in Request,
         \/ createShiftType(r) \/ updateShiftType(r) \/ archiveShiftType(r)
         \/ restoreShiftType(r) \/ hardDeleteShiftType(r)
  PROVE  RotaInv'
<1>1. CASE createShiftType(r)
  <2>1. PICK t \in ShiftType, hours \in Hours, active \in BOOLEAN :
          /\ assertNoOverlapWithActiveTypes(t, hours)
          /\ Begin(r, "createType",
               [do |-> "create", table |-> "type", id |-> t,
                fields |-> [hours |-> hours, isActive |-> active, archived |-> FALSE]])
    BY <1>1 DEF createShiftType
  <2>2. ASSUME Checked PROVE Apart(t, hours)
    BY <2>1, <2>2, TypesApart DEF RotaInv
  <2> QED
    BY <2>1, <2>2, RotaBegin DEF KeepsRota, TypeFits
<1>2. ASSUME NEW t \in Rows(type), NEW hours \in Hours, assertNoOverlapWithActiveTypes(t, hours),
             Begin(r, "updateType", Update("type", t, [hours |-> hours]))
      PROVE  RotaInv'
  <2> DEFINE row == With(type[t], [hours |-> hours])
  <2>1. type[t] \in TypeRow
    BY DEF RosterInv, TypeOK, Rows
  <2>2. row.hours = hours /\ row.isActive = type[t].isActive /\ row.archived = type[t].archived
    BY <2>1 DEF With, TypeRow
  <2> HIDE DEF row
  <2>3. ASSUME Checked PROVE TypeFits(t, row) /\ (row.isActive => InUse(t))
    BY <1>2, <2>2, <2>3, TypesApart DEF RotaInv, RotaRows, TypeFits, InUse
  <2>4. Checked => KeepsRota(Update("type", t, [hours |-> hours]))
    BY <2>3 DEF KeepsRota, Update, row
  <2> QED
    BY <1>2, <2>4, RotaBegin
<1>3. CASE updateShiftType(r)
  BY <1>2, <1>3, RotaBegin DEF updateShiftType, Begin, Checked
<1>4. CASE archiveShiftType(r)
  <2>1. PICK t \in Rows(type) :
          Begin(r, "archiveType", Update("type", t, [archived |-> TRUE, isActive |-> FALSE]))
    BY <1>4 DEF archiveShiftType
  <2> DEFINE fields == [archived |-> TRUE, isActive |-> FALSE]
  <2>2. type[t] \in TypeRow
    BY DEF RosterInv, TypeOK, Rows
  <2>3. ~With(type[t], [archived |-> TRUE, isActive |-> FALSE]).isActive
    BY <2>2 DEF With, TypeRow
  <2> HIDE DEF fields
  <2>4. KeepsRota(Update("type", t, fields))
    BY <2>3 DEF KeepsRota, Update, TypeFits, fields
  <2> QED
    BY <2>1, <2>4, RotaBegin DEF fields
<1>5. CASE restoreShiftType(r)
  BY <1>5, RotaBegin DEF restoreShiftType, Begin, Checked
<1>6. CASE hardDeleteShiftType(r)
  BY <1>6, RotaBegin DEF hardDeleteShiftType, KeepsRota
<1> QED
  BY <1>1, <1>3, <1>4, <1>5, <1>6

LEMMA SlotIsFree ==
  ASSUME RosterInv, NEW e, NEW s, NEW t \in Rows(type), ~SomebodyElse(e, s, type[t].hours)
  PROVE  \A f \in OnDuty \ {e} : entry[f].staff # s => entry[f].type # t
<1>1. type[t] \in TypeRow /\ t # None
  BY RosterAssumption DEF RosterInv, TypeOK, Rows
<1>2. type[t].hours \in Hours
  BY <1>1 DEF TypeRow
<1>3. type[t].hours[1] < type[t].hours[2]
  BY <1>2, RosterAssumption
<1>4. rangesOverlap(type[t].hours, type[t].hours)
  BY <1>3 DEF rangesOverlap
<1> QED
  BY <1>1, <1>4 DEF SomebodyElse

LEMMA EntriesRota ==
  ASSUME RosterInv, RotaInv, NEW r \in Request,
         \/ createScheduleEntry(r) \/ archiveStaffSchedule(r)
         \/ restoreStaffSchedule(r) \/ hardDeleteStaffSchedule(r)
  PROVE  RotaInv'
<1>1. CASE createScheduleEntry(r)
  <2>1. PICK e \in Entry, s \in Rows(staff), t \in ShiftType \cup {None} :
          /\ t # None => assertAllowedShiftType(t) /\ ~SomebodyElse(e, s, type[t].hours)
          /\ Begin(r, "createEntry",
               [do |-> "replace", table |-> "entry", id |-> e,
                fields |-> [staff |-> s, type |-> t, isOff |-> t = None,
                            isActive |-> TRUE, archived |-> FALSE]])
    BY <1>1 DEF createScheduleEntry
  <2> DEFINE row == [staff |-> s, type |-> t, isOff |-> t = None, isActive |-> TRUE, archived |-> FALSE]
  <2>2. Free(e, row)
    BY <2>1, SlotIsFree DEF Free, InUse
  <2>3. KeepsRota([do |-> "replace", table |-> "entry", id |-> e, fields |-> row])
    BY <2>2 DEF KeepsRota
  <2> QED
    BY <2>1, <2>3, RotaBegin
<1>2. CASE archiveStaffSchedule(r)
  <2>1. PICK e \in Rows(entry) :
          Begin(r, "archiveEntry", Update("entry", e, [archived |-> TRUE, isActive |-> FALSE]))
    BY <1>2 DEF archiveStaffSchedule
  <2> DEFINE fields == [archived |-> TRUE, isActive |-> FALSE]
  <2>2. entry[e] \in EntryRow
    BY DEF RosterInv, TypeOK, Rows
  <2>3. ~With(entry[e], fields).isActive
    BY <2>2 DEF With, EntryRow
  <2> HIDE DEF fields
  <2>4. KeepsRota(Update("entry", e, fields))
    BY <2>3 DEF KeepsRota, Update, Free
  <2> QED
    BY <2>1, <2>4, RotaBegin DEF fields
<1>3. CASE restoreStaffSchedule(r)
  BY <1>3, RotaBegin DEF restoreStaffSchedule, Begin, Checked
<1>4. CASE hardDeleteStaffSchedule(r)
  BY <1>4, RotaBegin DEF hardDeleteStaffSchedule, KeepsRota
<1> QED
  BY <1>1, <1>2, <1>3, <1>4

LEMMA EntryUpdateRota ==
  ASSUME RosterInv, RotaInv, NEW r \in Request, updateScheduleEntry(r)
  PROVE  RotaInv'
<1>1. PICK e \in Rows(entry), t \in ShiftType \cup {None}, off \in BOOLEAN \cup {None},
           active \in BOOLEAN \cup {None} :
    LET mergedOff == IF off = None THEN entry[e].isOff ELSE off
        merged == IF t = None THEN entry[e].type ELSE t
        given == (IF t = None THEN {} ELSE {"type"}) \cup (IF off = None THEN {} ELSE {"isOff"}) \cup
                 (IF active = None THEN {} ELSE {"isActive"})
    IN  /\ IF mergedOff THEN t # None => type[t] # None ELSE merged # None /\ MayServe(e, merged)
        /\ Begin(r, "updateEntry", Update("entry", e,
             Restrict([type |-> t, isOff |-> off, isActive |-> active], given)))
  BY DEF updateScheduleEntry
<1> DEFINE mergedOff == IF off = None THEN entry[e].isOff ELSE off
           merged == IF t = None THEN entry[e].type ELSE t
           given == (IF t = None THEN {} ELSE {"type"}) \cup (IF off = None THEN {} ELSE {"isOff"}) \cup
                    (IF active = None THEN {} ELSE {"isActive"})
           full == [type |-> t, isOff |-> off, isActive |-> active]
           fields == Restrict(full, given)
           row == With(entry[e], fields)
<1>2. entry[e] \in EntryRow
  BY DEF RosterInv, TypeOK, Rows
<1>3. row.staff = entry[e].staff /\ row.type = merged /\ row.isOff = mergedOff
  <2>1. given \subseteq {"type", "isOff", "isActive"}
    OBVIOUS
  <2>2. "type" \in given <=> t # None
    OBVIOUS
  <2>3. "isOff" \in given <=> off # None
    OBVIOUS
  <2> HIDE DEF given, full
  <2>4. /\ \A f \in DOMAIN entry[e] : row[f] = IF f \in given THEN full[f] ELSE entry[e][f]
        /\ DOMAIN entry[e] = {"staff", "type", "isOff", "isActive", "archived"}
    BY <1>2, <2>1 DEF EntryRow, With, Restrict
  <2> HIDE DEF row
  <2>5. row.type = IF "type" \in given THEN t ELSE entry[e].type
    BY <2>4 DEF full
  <2>6. row.isOff = IF "isOff" \in given THEN off ELSE entry[e].isOff
    BY <2>4 DEF full
  <2>7. row.staff = entry[e].staff
    BY <2>1, <2>4
  <2> QED
    BY <2>2, <2>3, <2>5, <2>6, <2>7
<1> HIDE DEF mergedOff, merged, given, full, fields, row
<1>4. mergedOff \/ MayServe(e, merged)
  BY <1>1 DEF mergedOff, merged
<1>5. Free(e, row)
  BY <1>3, <1>4, SlotIsFree DEF Free, InUse, MayServe
<1>6. KeepsRota(Update("entry", e, fields))
  BY <1>5 DEF KeepsRota, Update, row
<1> QED
  BY <1>1, <1>6, RotaBegin DEF fields, full, given

(***************************************************************************)
(* The writes.                                                             *)
(***************************************************************************)
LEMMA RotaDone ==
  ASSUME RosterInv, RotaInv, NEW r \in Request, request[r] # None, Done(r), UNCHANGED world,
         Checked => RotaRows'
  PROVE  RotaInv'
<1> SUFFICES ASSUME Checked PROVE RotaInv'
  BY DEF RotaInv, Checked
<1>1. \A q \in Request : request'[q] = None
  BY DEF Done, RotaInv, Alone, RosterInv, RequestsSound
<1> QED
  BY <1>1 DEF RotaInv, Alone

(***************************************************************************)
(* Types go out of use, entries go off duty or forget their type.          *)
(***************************************************************************)
Fewer ==
  /\ \A t \in Rows(type)' : type'[t] = type[t] /\ t \in Rows(type)
  /\ \A e \in OnDuty' :
       /\ e \in OnDuty /\ entry'[e].staff = entry[e].staff
       /\ entry'[e].type = entry[e].type \/ entry'[e].type = None

LEMMA FewerFree ==
  ASSUME RosterInv, Fewer, NEW e, NEW row, Free(e, row)
  PROVE  Free(e, row)'
<1> SUFFICES ASSUME row.isActive, ~row.isOff, InUse(row.type)', NEW f \in OnDuty' \ {e},
                    entry'[f].staff # row.staff, entry'[f].type = row.type
             PROVE  FALSE
  BY DEF Free
<1>1. row.type \in Rows(type)' /\ type'[row.type] = type[row.type] /\ row.type \in Rows(type)
  BY DEF InUse, Fewer
<1>2. InUse(row.type)
  BY <1>1 DEF InUse
<1>3. row.type # None
  BY <1>1, RosterAssumption DEF Rows, RosterInv, TypeOK
<1> QED
  BY <1>2, <1>3 DEF Free, Fewer

LEMMA FewerRota ==
  ASSUME RosterInv, RotaRows, Fewer
  PROVE  RotaRows'
<1>1. ASSUME NEW t \in Rows(type)' PROVE TypeFits(t, type[t])'
  BY <1>1 DEF RotaRows, Fewer, TypeFits, Apart, InUse
<1>2. ASSUME NEW e \in OnDuty' PROVE Free(e, entry[e])'
  <2>1. Free(e, entry[e])
    BY <1>2 DEF RotaRows, Fewer
  <2> SUFFICES ASSUME InUse(entry[e].type)', NEW f \in OnDuty' \ {e},
                      entry'[f].staff # entry'[e].staff, entry'[f].type = entry'[e].type
               PROVE  FALSE
    BY DEF Free
  <2>3. entry'[e].type \in Rows(type)' /\ InUse(entry'[e].type)
    BY DEF InUse, Fewer
  <2>4. entry'[e].type # None
    BY <2>3, RosterAssumption DEF InUse, Rows, RosterInv, TypeOK
  <2>5. entry'[e].type = entry[e].type /\ entry'[f].type = entry[f].type /\ e \in OnDuty
        /\ entry'[e].staff = entry[e].staff /\ entry'[f].staff = entry[f].staff /\ f \in OnDuty
    BY <1>2, <2>4 DEF Fewer
  <2>6. entry[e].isActive /\ ~entry[e].isOff
    BY <2>5 DEF OnDuty
  <2> QED
    BY <2>1, <2>3, <2>5, <2>6 DEF Free
<1> QED
  BY <1>1, <1>2 DEF RotaRows

LEMMA RotaUntouched ==
  ASSUME RosterInv, UNCHANGED <<type, entry>>
  PROVE  Fewer
BY DEF Fewer, OnDuty, Rows

LEMMA TypeWrittenRota ==
  ASSUME RosterInv, RotaRows, NEW t \in ShiftType, NEW row \in TypeRow,
         type' = [type EXCEPT ![t] = row], UNCHANGED entry, TypeFits(t, row),
         type[t] = None \/ (row.isActive => InUse(t))
  PROVE  RotaRows'
<1>1. /\ type'[t] = row /\ row # None /\ \A u \in ShiftType \ {t} : type'[u] = type[u]
      /\ \A u \in Rows(type)' : u = t \/ u \in Rows(type)
      /\ DOMAIN type' = ShiftType /\ DOMAIN type = ShiftType
  BY NoneAssumption DEF RosterInv, TypeOK, Rows
<1>2. \A a, b : rangesOverlap(a, b) <=> rangesOverlap(b, a)
  BY DEF rangesOverlap
<1>3. ASSUME NEW u \in Rows(type)' PROVE TypeFits(u, type[u])'
  <2>1. CASE u = t
    BY <1>1, <2>1 DEF TypeFits, Apart, InUse, Rows
  <2>2. CASE u # t
    <3>1. u \in Rows(type) /\ type'[u] = type[u] /\ TypeFits(u, type[u])
      BY <1>1, <1>3, <2>2 DEF RotaRows, Rows
    <3>2. type[u].isActive /\ row.isActive => ~rangesOverlap(type[u].hours, row.hours)
      BY <1>2, <2>2, <3>1 DEF TypeFits, Apart, InUse
    <3> QED
      BY <1>1, <2>2, <3>1, <3>2 DEF TypeFits, Apart, InUse, Rows
  <2> QED
    BY <2>1, <2>2
<1>4. ASSUME NEW e \in OnDuty' PROVE Free(e, entry[e])'
  <2>1. e \in OnDuty /\ Free(e, entry[e])
    BY <1>4 DEF OnDuty, Rows, RotaRows
  <2>2. entry[e].type = None \/ type[entry[e].type] # None
    BY <2>1 DEF OnDuty, RosterInv, TypeOK, EntryAllowed
  <2>3. InUse(entry[e].type)' => InUse(entry[e].type)
    <3>1. None \notin ShiftType
      BY RosterAssumption
    <3> QED
      BY <1>1, <2>2, <3>1 DEF InUse, Rows
  <2> QED
    BY <2>1, <2>3 DEF Free, OnDuty, Rows
<1> QED
  BY <1>3, <1>4 DEF RotaRows

LEMMA EntryWrittenRota ==
  ASSUME RosterInv, RotaRows, NEW e \in Entry, NEW row \in EntryRow,
         entry' = [entry EXCEPT ![e] = row], UNCHANGED type, Free(e, row)
  PROVE  RotaRows'
<1>1. /\ entry'[e] = row /\ row # None /\ \A f \in Entry \ {e} : entry'[f] = entry[f]
      /\ \A f \in OnDuty' : f = e \/ f \in OnDuty
      /\ DOMAIN entry' = Entry /\ DOMAIN entry = Entry
  BY NoneAssumption DEF RosterInv, TypeOK, Rows, OnDuty
<1>2. \A t \in Rows(type)' : TypeFits(t, type[t])'
  BY DEF RotaRows, TypeFits, Apart, InUse, Rows
<1>3. ASSUME NEW f \in OnDuty' PROVE Free(f, entry[f])'
  <2> SUFFICES ASSUME InUse(entry'[f].type), NEW g \in OnDuty' \ {f},
                      entry'[g].staff # entry'[f].staff, entry'[g].type = entry'[f].type
               PROVE  FALSE
    BY DEF Free, InUse, Rows
  <2>1. /\ f \in Entry /\ g \in Entry /\ entry'[f].isActive /\ ~entry'[f].isOff
        /\ entry'[g].isActive /\ ~entry'[g].isOff
    BY <1>1 DEF OnDuty, Rows
  <2>2. CASE f = e
    BY <1>1, <2>1, <2>2 DEF Free
  <2>3. CASE g = e
    BY <1>1, <2>1, <2>3 DEF Free
  <2>4. CASE f # e /\ g # e
    BY <1>1, <2>1, <2>4 DEF Free, RotaRows
  <2> QED
    BY <2>2, <2>3, <2>4
<1> QED
  BY <1>2, <1>3 DEF RotaRows

LEMMA StoreRota ==
  ASSUME RosterInv, RotaInv, NEW r \in Request, Store(r)
  PROVE  RotaInv'
<1> DEFINE w   == request[r]
           row == IF w.do = "create" THEN w.fields ELSE With(Table(w)[w.id], w.fields)
<1>1. /\ TypeOK /\ w # None /\ WriteSound(w, account) /\ w.do \in {"create", "update"} /\ Done(r)
      /\ UNCHANGED world
      /\ \/ /\ (w.do = "create") = (Table(w)[w.id] = None) /\ Allowed(w, row)
            /\ Write(w, [Table(w) EXCEPT ![w.id] = row])
         \/ Same
  BY DEF Store, RosterInv, RequestsSound
<1>2. SUFFICES ASSUME Checked PROVE RotaRows'
  BY <1>1, RotaDone
<1>3. RotaRows /\ KeepsRota(w)
  BY <1>1, <1>2 DEF RotaInv
<1>4. CASE UNCHANGED <<type, entry>>
  BY <1>3, <1>4, RotaUntouched, FewerRota
<1>5. CASE ~UNCHANGED <<type, entry>>
  <2> DEFINE rows == [Table(w) EXCEPT ![w.id] = row]
  <2>1. /\ (w.do = "create") = (Table(w)[w.id] = None)
        /\ Allowed(w, row) /\ Write(w, rows)
        /\ w \in EntryWrite \/ Creates(w) \/ Updates(w)
    BY <1>1, <1>5 DEF WriteSound, Deletes, MovesStaff, Same
  <2>2. w.table \in {"type", "entry"}
    BY <1>5, <2>1 DEF Write
  <2>3. CASE w.table = "type"
    <3>1. /\ type' = [type EXCEPT ![w.id] = row] /\ UNCHANGED entry
          /\ (w.do = "create") = (type[w.id] = None)
      BY <2>1, <2>3 DEF Write, Table
    <3>2. w.id \in ShiftType /\ row \in TypeRow
      <4>1. CASE w.do = "create"
        BY <2>1, <2>3, <4>1 DEF EntryWrite, Creates, Updates
      <4>2. CASE w.do = "update"
        <5>1. /\ w.id \in ShiftType /\ row = With(type[w.id], w.fields)
              /\ \A x \in TypeRow : With(x, w.fields) \in TypeRow
          BY <2>1, <2>3, <4>2 DEF EntryWrite, Creates, Updates, Table
        <5>2. type[w.id] \in TypeRow
          BY <1>1, <3>1, <4>2, <5>1 DEF TypeOK
        <5> QED
          BY <5>1, <5>2
      <4> QED
        BY <1>1, <4>1, <4>2
    <3>3. TypeFits(w.id, row) /\ (type[w.id] = None \/ (row.isActive => InUse(w.id)))
      BY <1>1, <1>3, <2>3, <3>1 DEF KeepsRota, Table
    <3> HIDE DEF w, row
    <3> QED
      BY <1>3, <3>1, <3>2, <3>3, TypeWrittenRota
  <2>4. CASE w.table = "entry"
    <3>1. /\ entry' = [entry EXCEPT ![w.id] = row] /\ UNCHANGED type
          /\ (w.do = "create") = (entry[w.id] = None)
      BY <2>1, <2>4 DEF Write, Table
    <3>2. w.id \in Entry /\ row \in EntryRow
      <4>1. CASE w.do = "create"
        BY <2>1, <2>4, <4>1 DEF EntryWrite, Creates, Updates
      <4>2. CASE w.do = "update"
        <5>1. /\ w.id \in Entry /\ row = With(entry[w.id], w.fields)
              /\ \A x \in EntryRow : With(x, w.fields) \in EntryRow
          BY <2>1, <2>4, <4>2 DEF EntryWrite, Creates, Updates, Table
        <5>2. entry[w.id] \in EntryRow
          BY <1>1, <3>1, <4>2, <5>1 DEF TypeOK
        <5> QED
          BY <5>1, <5>2
      <4> QED
        BY <1>1, <4>1, <4>2
    <3>3. Free(w.id, row)
      BY <1>1, <1>3, <2>4, <3>1 DEF KeepsRota, Table
    <3> HIDE DEF w, row
    <3> QED
      BY <1>3, <3>1, <3>2, <3>3, EntryWrittenRota
  <2> QED
    BY <2>2, <2>3, <2>4
<1> QED
  BY <1>4, <1>5

(***************************************************************************)
(* Entries change as little as Fewer lets them.                            *)
(***************************************************************************)
LEMMA OffDuty ==
  ASSUME TypeOK, UNCHANGED type,
         entry' \in [Entry -> EntryRow \cup {None}],
         \A e \in Entry :
           \/ entry'[e] = entry[e]
           \/ entry[e] # None /\ entry'[e] # None /\ ~entry'[e].isActive
  PROVE  Fewer
BY DEF Fewer, OnDuty, Rows, TypeOK

LEMMA ReplaceRota ==
  ASSUME RosterInv, RotaInv, NEW r \in Request, Replace(r)
  PROVE  RotaInv'
<1> DEFINE w == request[r]
<1>1. /\ TypeOK /\ w # None /\ w.do = "replace" /\ w \in EntryWrite
      /\ request' = [request EXCEPT ![r].do = "create"]
      /\ UNCHANGED <<world, type>>
  BY DEF Replace, RosterInv, RequestsSound, WriteSound, Creates, Updates, Deletes, MovesStaff
<1>2. PICK off \in SUBSET Rows(entry) : entry' = [f \in Entry |->
        IF f \in off THEN [entry[f] EXCEPT !.isActive = FALSE] ELSE entry[f]]
  BY DEF Replace
<1>3. ASSUME NEW f \in off
      PROVE  f \in Entry /\ entry[f] # None /\ entry'[f] \in EntryRow /\ ~entry'[f].isActive
  <2>1. f \in Entry /\ entry[f] \in EntryRow /\ entry[f] # None
    BY <1>1, <1>2 DEF Rows, TypeOK
  <2>2. entry'[f] = [entry[f] EXCEPT !.isActive = FALSE]
    BY <1>2, <2>1
  <2> QED
    BY <2>1, <2>2 DEF EntryRow
<1>4. \A f \in Entry \ off : entry'[f] = entry[f]
  BY <1>2
<1>5. entry' \in [Entry -> EntryRow \cup {None}]
  BY <1>1, <1>2, <1>3, <1>4 DEF TypeOK
<1>6. Fewer
  BY <1>1, <1>3, <1>4, <1>5, OffDuty, NoneAssumption
<1> SUFFICES ASSUME Checked PROVE RotaInv'
  BY <1>1 DEF RotaInv, Checked
<1>7. RotaRows'
  BY <1>6, FewerRota DEF RotaInv
<1>8. \A q \in Request \ {r} : request'[q] = None
  BY <1>1 DEF RotaInv, Alone, RosterInv, RequestsSound
<1>9. KeepsRota(request[r])'
  <2>1. request'[r] = [w EXCEPT !.do = "create"]
    BY <1>1 DEF RosterInv, RequestsSound
  <2>2. /\ request'[r].do = "create" /\ request'[r].table = "entry"
        /\ request'[r].id = w.id /\ request'[r].fields = w.fields
    BY <1>1, <2>1 DEF EntryWrite
  <2>3. PICK id, row : id = w.id /\ row = w.fields /\ Free(id, row)
    BY <1>1 DEF RotaInv, KeepsRota, EntryWrite
  <2>4. Free(id, row)'
    BY <1>6, <2>3, FewerFree
  <2> QED
    BY <2>2, <2>3, <2>4 DEF KeepsRota
<1> QED
  BY <1>7, <1>8, <1>9 DEF RotaInv, Alone

LEMMA DeleteRota ==
  ASSUME RosterInv, RotaInv, NEW r \in Request, Delete(r)
  PROVE  RotaInv'
<1> DEFINE w == request[r]
<1>1. TypeOK /\ w # None /\ Deletes(w) /\ Done(r) /\ UNCHANGED world
  BY DEF Delete, RosterInv, RequestsSound, WriteSound, EntryWrite, Creates, Updates, MovesStaff
<1>2. SUFFICES ASSUME Checked PROVE RotaRows'
  BY <1>1, RotaDone
<1>3. SUFFICES Fewer
  BY <1>2, FewerRota DEF RotaInv
<1>4. CASE Same
  BY <1>4, RotaUntouched DEF Same
<1>5. CASE ~Same
  <2>1. /\ type' = IF w.table = "type" THEN [type EXCEPT ![w.id] = None] ELSE type
        /\ entry' = IF w.table = "entry" THEN [entry EXCEPT ![w.id] = None]
                    ELSE [e \in Entry |->
                            IF w.table = "type" /\ e \in Rows(entry) /\ entry[e].type = w.id
                            THEN [entry[e] EXCEPT !.type = None] ELSE entry[e]]
    BY <1>5 DEF Delete
  <2>2. CASE w.table = "staff"
    <3>1. type' = type /\ entry' = [e \in Entry |-> entry[e]]
      BY <2>1, <2>2
    <3> QED
      BY <1>1, <3>1, RotaUntouched DEF TypeOK
  <2>3. CASE w.table = "type"
    <3>1. w.id \in ShiftType /\ type' = [type EXCEPT ![w.id] = None]
      BY <1>1, <2>1, <2>3 DEF Deletes
    <3>2. ASSUME NEW e \in Rows(entry)
          PROVE  /\ entry'[e].staff = entry[e].staff /\ entry'[e].isOff = entry[e].isOff
                 /\ entry'[e].isActive = entry[e].isActive
                 /\ entry'[e].type = entry[e].type \/ entry'[e].type = None
      <4>1. e \in Entry /\ entry[e] \in EntryRow
        BY <1>1, <3>2 DEF TypeOK, Rows
      <4>2. entry'[e] = IF entry[e].type = w.id THEN [entry[e] EXCEPT !.type = None] ELSE entry[e]
        BY <2>1, <2>3, <4>1
      <4> QED
        BY <4>1, <4>2 DEF EntryRow
    <3>3. \A e \in Rows(entry)' : e \in Rows(entry)
      BY <1>1, <2>1, <2>3 DEF Rows, TypeOK
    <3> HIDE DEF w
    <3>4. \A t \in Rows(type)' : type'[t] = type[t] /\ t \in Rows(type)
      BY <1>1, <3>1 DEF Rows, TypeOK
    <3> QED
      BY <3>2, <3>3, <3>4 DEF Fewer, OnDuty
  <2>4. CASE w.table = "entry"
    <3>1. w.id \in Entry /\ entry' = [entry EXCEPT ![w.id] = None] /\ UNCHANGED type
      BY <1>1, <2>1, <2>4 DEF Deletes
    <3> HIDE DEF w
    <3>2. \A e \in Rows(entry)' : e \in Rows(entry) /\ entry'[e] = entry[e]
      BY <1>1, <3>1 DEF Rows, TypeOK
    <3> QED
      BY <3>1, <3>2 DEF Fewer, OnDuty, Rows
  <2> QED
    BY <1>1, <2>2, <2>3, <2>4 DEF Deletes
<1> QED
  BY <1>4, <1>5

LEMMA ArchiveStaffRota ==
  ASSUME RosterInv, RotaInv, NEW r \in Request, ArchiveStaff(r)
  PROVE  RotaInv'
<1> DEFINE w == request[r]
<1>1. TypeOK /\ w # None /\ Done(r) /\ UNCHANGED <<world, type>>
  BY DEF ArchiveStaff, RosterInv, Same
<1>2. SUFFICES ASSUME Checked PROVE RotaRows'
  BY <1>1, RotaDone
<1>3. SUFFICES Fewer
  BY <1>2, FewerRota DEF RotaInv
<1>4. CASE staff[w.id] = None
  BY <1>4, RotaUntouched DEF ArchiveStaff, Same
<1>5. CASE staff[w.id] # None
  <2>1. entry' = [e \in Entry |->
          IF e \in Rows(entry) /\ entry[e].staff = w.id /\ entry[e].isActive /\ ~entry[e].archived
          THEN [entry[e] EXCEPT !.isActive = FALSE, !.archived = TRUE] ELSE entry[e]]
    BY <1>5 DEF ArchiveStaff
  <2>2. ASSUME NEW e \in Entry, entry'[e] # entry[e]
        PROVE  entry'[e] \in EntryRow /\ entry[e] # None /\ ~entry'[e].isActive
    <3>1. entry[e] \in EntryRow /\ entry[e] # None
      BY <1>1, <2>1, <2>2 DEF TypeOK, Rows
    <3>2. entry'[e] = [entry[e] EXCEPT !.isActive = FALSE, !.archived = TRUE]
      BY <2>1, <2>2
    <3> QED
      BY <3>1, <3>2 DEF EntryRow
  <2>3. entry' = [e \in Entry |-> entry'[e]]
    BY <2>1
  <2>4. entry' \in [Entry -> EntryRow \cup {None}]
    BY <1>1, <2>2, <2>3 DEF TypeOK
  <2> QED
    BY <1>1, <2>2, <2>4, OffDuty, NoneAssumption
<1> QED
  BY <1>4, <1>5

LEMMA RestoreStaffRota ==
  ASSUME RosterInv, RotaInv, NEW r \in Request, RestoreStaff(r)
  PROVE  RotaInv'
<1>1. request[r] # None /\ Done(r) /\ UNCHANGED <<world, type, entry>>
  BY DEF RestoreStaff, Same
<1> QED
  BY <1>1, RotaDone, RotaUntouched, FewerRota DEF RotaInv

LEMMA RotaInit == Init => RotaInv
<1> SUFFICES ASSUME Init PROVE RotaInv
  OBVIOUS
<1>1. Rows(type) = {} /\ OnDuty = {} /\ \A r \in Request : request[r] = None
  BY DEF Init, Rows, OnDuty
<1> QED
  BY <1>1 DEF RotaInv, RotaRows, Alone

LEMMA RotaStep == RosterInv /\ RotaInv /\ [Next]_vars => RotaInv'
<1> SUFFICES ASSUME RosterInv, RotaInv, [Next]_vars PROVE RotaInv'
  OBVIOUS
<1>1. CASE UNCHANGED <<world, type, entry, request>>
  BY <1>1 DEF RotaInv, Checked, RotaRows, Alone, KeepsRota, Rows, TypeFits, Apart, InUse, Free, OnDuty
<1>2. CASE autoOpen \/ UNCHANGED vars
  BY <1>1, <1>2 DEF autoOpen, vars
<1>3. ASSUME NEW r \in Request, Handle(r) PROVE RotaInv'
  BY <1>3, PeopleRota, TypesRota, EntriesRota, EntryUpdateRota DEF Handle
<1>4. ASSUME NEW r \in Request, Finish(r) PROVE RotaInv'
  BY <1>4, StoreRota, ReplaceRota, DeleteRota, ArchiveStaffRota, RestoreStaffRota DEF Finish
<1> QED
  BY <1>2, <1>3, <1>4 DEF Next

LEMMA RotaFollows == RosterInv /\ RotaInv => RotaDoesNotClash
<1> SUFFICES ASSUME RosterInv, RotaInv, Checked, NEW e \in OnDuty, NEW f \in OnDuty,
                    entry[e].staff # entry[f].staff, entry[e].type # None, entry[f].type # None,
                    type[entry[e].type].isActive, type[entry[f].type].isActive
             PROVE  ~rangesOverlap(type[entry[e].type].hours, type[entry[f].type].hours)
  BY DEF RotaDoesNotClash, Checked
<1>1. InUse(entry[e].type) /\ InUse(entry[f].type)
  <2>1. ASSUME NEW g \in OnDuty, entry[g].type # None PROVE entry[g].type \in Rows(type)
    BY <2>1 DEF OnDuty, Rows, RosterInv, TypeOK, EntryAllowed, EntryRow
  <2> QED
    BY <2>1 DEF InUse
<1>2. entry[f].type # entry[e].type
  BY <1>1 DEF RotaInv, RotaRows, Free, OnDuty
<1> QED
  BY <1>1, <1>2 DEF RotaInv, RotaRows, TypeFits, Apart, InUse

(***************************************************************************)
(* One request at a time and nothing brought back unchecked, two people    *)
(* are never planned for hours that overlap, for any number of people,     *)
(* types of shifts, entries and hours.                                     *)
(***************************************************************************)
THEOREM RotaNeverClashes == Spec => []RotaDoesNotClash
<1>1. Spec => [](RosterInv /\ RotaInv)
  BY RosterInit, RosterStep, RotaInit, RotaStep, PTL DEF Spec
<1> QED
  BY <1>1, RotaFollows, PTL
=============================================================================
