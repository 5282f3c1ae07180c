------------------------------ MODULE MCRoster ------------------------------
(***************************************************************************)
(* Worlds for Roster: the accounts, the planning, the types of shifts, and *)
(* a world of requests that overlap.                                       *)
(***************************************************************************)
EXTENDS Roster, TLC

MCHours == {<<1, 2>>, <<2, 3>>, <<1, 3>>}

Accounts == [overlap |-> FALSE, handlers |->
  {"createStaff", "archiveStaff", "restoreStaff", "deleteStaff",
   "createUser", "updateUser", "disableUser"}]

Planning == [overlap |-> FALSE, handlers |->
  {"createStaff", "createType", "createEntry", "updateEntry"}]

Types == [overlap |-> FALSE, handlers |->
  {"createStaff", "createType", "updateType", "archiveType", "deleteType", "createEntry"}]

Worked == [overlap |-> FALSE, handlers |->
  {"createStaff", "archiveStaff", "deleteStaff", "createType", "createEntry", "archiveEntry", "restoreEntry",
   "deleteEntry", "shift"}]

AccountRaces == [overlap |-> TRUE, handlers |->
  {"createStaff", "reviveStaff", "archiveStaff", "createUser", "updateUser"}]

PlanningRaces == [overlap |-> TRUE, handlers |->
  {"createStaff", "deleteStaff", "createType", "deleteType", "createEntry", "restoreEntry"}]

TypeRaces == [overlap |-> TRUE, handlers |->
  {"createType", "toggleType", "archiveType", "restoreType"}]

EachWorld == {Accounts, Planning, Types, Worked, AccountRaces, PlanningRaces, TypeRaces}

Symmetry ==
  Permutations(Staff) \cup Permutations(Account) \cup Permutations(ShiftType) \cup
  Permutations(Entry) \cup Permutations(Request)
=============================================================================
