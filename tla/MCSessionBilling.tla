-------------------------- MODULE MCSessionBilling --------------------------
(***************************************************************************)
(* Small instances of SessionBilling for TLC: two plans of different       *)
(* price.                                                                  *)
(***************************************************************************)
EXTENDS SessionBilling, TLC

CONSTANTS p1, p2

MCPlan == {p1, p2}

MCPrice == (p1 :> 2) @@ (p2 :> 3)

Symmetry == Permutations(Worker) \cup Permutations(Ticket) \cup Permutations(Till)

(***************************************************************************)
(* Racing: two writers at a time, no requests.  Reviewed: two requests,    *)
(* made and reviewed at the same time.  Single: one writer at a time, who  *)
(* corrects amounts only once the session has ended.                       *)
(***************************************************************************)
Racing == [earlyCorrections |-> TRUE, primeRefusals |-> TRUE, workers |-> Worker,
           tickets |-> {}, updates |-> 3]

Reviewed == [earlyCorrections |-> FALSE, primeRefusals |-> TRUE, workers |-> Worker,
             tickets |-> Ticket, updates |-> 2]

Single(w, q) == [earlyCorrections |-> FALSE, primeRefusals |-> FALSE, workers |-> {w},
                 tickets |-> {q}, updates |-> 4]

Alone == {Single(w, q) : w \in Worker, q \in Ticket}

EachWorld == {Racing, Reviewed} \cup Alone

StaleWorld == {[Reviewed EXCEPT !.updates = 3]}

(***************************************************************************)
(* Bounds.  Under review amounts are not corrected to zero, and the staff  *)
(* member holds one till; among racing writers a session does not end on   *)
(* the dearer plan.                                                        *)
(***************************************************************************)
Bounds ==
  /\ world = Reviewed => /\ staffTill' = staffTill
                         /\ \A w \in Worker : task'[w].paid # 0
  /\ world = Racing => \A s \in Session : finish[s].plan # p2
=============================================================================
