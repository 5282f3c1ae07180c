------------------------------ MODULE MCShifts ------------------------------
(***************************************************************************)
(* A small shop: a day of four slots, closed, morning, evening, closed.    *)
(* The morning is planned on the first two days, the evening on the first. *)
(***************************************************************************)
EXTENDS Shifts, TLC

CONSTANTS morning, evening, monday, mondayNight

MCWindow == morning :> [start |-> 1, end |-> 2] @@ evening :> [start |-> 2, end |-> 3]
MCRota == monday :> [type |-> morning, days |-> {0, 1}]
          @@ mondayNight :> [type |-> evening, days |-> {0}]

(***************************************************************************)
(* Bound: a massage starts while no request is being served, and nobody    *)
(* makes a request from then on.                                           *)
(***************************************************************************)
PeopleFirst ==
  /\ starting'.on => \A h \in Handler : task'[h].step = "idle"
  /\ \A h \in Handler : At(h, "idle") /\ task'[h].step # "idle" =>
       ~starting.on /\ \A m \in Massage : massage[m].state = "free"
=============================================================================
