--------------------------- MODULE MCChairRuntime ---------------------------
(***************************************************************************)
(* Small instances of ChairRuntime for TLC.                                *)
(***************************************************************************)
EXTENDS ChairRuntime, TLC

Symmetry == Permutations(Session) \cup Permutations(Tick)

(***************************************************************************)
(* Polls: sessions are archived while polls run, everything may be slow,   *)
(* handlers fail and the cloud does not answer.  Shifted: besides, starts  *)
(* are blocked without a shift, which is opened both ways, and the ledger  *)
(* refuses a payment.  Handled: the chair is disabled and enabled, shifts  *)
(* are opened both ways and closed.  Faulty: calls of polls fail, the      *)
(* server restarts, the ledger refuses.                                    *)
(***************************************************************************)
Polls == [selfStart |-> FALSE, handlers |-> {"archive"},
          faults |-> {"slowPoll", "slowHandler", "handler", "cloud"}]

Shifted == [selfStart |-> TRUE, handlers |-> {"archive", "assistantShift", "adminShift"},
            faults |-> Polls.faults \cup {"till"}]

Handled == [selfStart |-> TRUE, faults |-> {"slowPoll"},
            handlers |-> {"disable", "assistantShift", "adminShift", "closeShift"}]

Faulty == [selfStart |-> FALSE, handlers |-> {},
           faults |-> {"slowPoll", "database", "crash", "till", "prime"}]

Alone       == [selfStart |-> FALSE, handlers |-> {}, faults |-> {"slowPoll"}]
Overlapping == [selfStart |-> FALSE, handlers |-> {}, faults |-> {"slowLoad", "overlap"}]

EachWorld       == {Polls, Shifted, Handled, Faulty, Overlapping}
AloneWorld      == {Alone}

(***************************************************************************)
(* What is left of a state without what nothing reads: the rows that stand *)
(* for new ones, and the history variable where no property looks at it.   *)
(***************************************************************************)
ServerState ==
  <<world, chair, [s \in Session |-> IF Unused(s) THEN None ELSE session[s]], mem,
    hydrated, requested, shiftOpen, task, api, IF Steady THEN streak ELSE None>>

(***************************************************************************)
(* Bounds.  Where polls overlap, the plug answers with a power that is not *)
(* between the thresholds, a shift is open and a session is spare.  In the *)
(* others one session at a time has a row, but for the world of the polls; *)
(* among the handlers the power is not between the thresholds either.      *)
(***************************************************************************)
Spare == \E s \in Session : Unused(s)

OnOrOff == \A t \in DOMAIN task : At(t, "fetched") => task[t].power # "mid"

Answering ==
  /\ shiftOpen
  /\ OnOrOff
  /\ \A t \in DOMAIN task : At(t, "fetched") => task[t].online
  /\ Spare

Bounds ==
  CASE world = Overlapping -> Answering
    [] world = Handled -> Spare /\ OnOrOff
    [] Steady -> TRUE
    [] OTHER -> Spare

(***************************************************************************)
(* MemoryAgrees for a chair that is disabled and enabled while shifts open *)
(* and close, when a poll may outlast a confirmation delay but a handler   *)
(* is answered before one is over.                                         *)
(***************************************************************************)
SwitchedCacheAgrees == world = Handled => MemoryAgrees
=============================================================================
