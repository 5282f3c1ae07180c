---------------------------- MODULE MCShiftPrime ----------------------------
(***************************************************************************)
(* A shift with one plan: a massage of 10.00 that is billed, one that is    *)
(* too short, a commission of a tenth or of 2.00 a massage, and a bonus of   *)
(* 5.00 from 20.00 on.                                                      *)
(***************************************************************************)
EXTENDS ShiftPrime, TLC

CONSTANTS w1, w2, plan

Billed == [plan |-> plan, expected |-> 1000, billing |-> "CALCULATED", anomaly |-> "none", paid |-> TRUE]
TooShort == [plan |-> None, expected |-> 0, billing |-> "DISPUTED", anomaly |-> "TOO_SHORT", paid |-> FALSE]
BothKinds == {Billed, TooShort}
OneKind == {Billed}

Tenth == [type |-> "PERCENTAGE", value |-> 10]
Fixed == [type |-> "FIXED_AMOUNT", value |-> 200]
Rates == {Tenth, Fixed}
FromTwenty == {[target |-> 2000, amount |-> 500]}
Manuals == {-100}

Concurrent == [workers |-> {w1, w2}, reassign |-> FALSE, settings |-> FALSE, edits |-> TRUE, ops |-> 3]
Moving == [workers |-> {w1}, reassign |-> TRUE, settings |-> FALSE, edits |-> TRUE, ops |-> 3]
Ruled == [workers |-> {w1}, reassign |-> FALSE, settings |-> TRUE, edits |-> FALSE, ops |-> 2]
EachWorld == {Concurrent, Moving, Ruled}
RuledWorld == {Ruled}

(***************************************************************************)
(* Bound: the owner changes one of the two tables, a new commission is not   *)
(* the first one again, and the requests of that world are about massages   *)
(* that are billed.                                                         *)
(***************************************************************************)
FirstOnly == DOMAIN rules = {1} /\ rules[1].active

OneTable ==
  /\ rules' # rules => bonuses = <<>>
  /\ bonuses' # bonuses => FirstOnly
  /\ \A i \in DOMAIN rules' \ {1} : rules'[i].is # rules[1].is
  /\ \A o \in Owner : creating'[o] # None =>
       IF creating'[o].table = "bonuses" THEN FirstOnly
       ELSE bonuses = <<>> /\ creating'[o].row.is # rules[1].is
  /\ world.settings => \A m \in massages' : m.plan # None
Symmetry == Permutations(Worker) \cup Permutations(Till)
=============================================================================
