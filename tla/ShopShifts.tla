----------------------------- MODULE ShopShifts -----------------------------
(***************************************************************************)
(* What the shifts promise the rest of the shop: at any time at most one   *)
(* is open, so that a massage that starts belongs to one shift or to none. *)
(* A shift that has ended may be opened again or deleted; a deleted one    *)
(* never comes back.                                                       *)
(***************************************************************************)
CONSTANT Shift

VARIABLES
  open,           \* the shifts that are open
  ended           \* the shifts that have ended and are still on record

vars == <<open, ended>>

Init == open = {} /\ ended = {}

Begin(s) ==
  /\ open = {}
  /\ s \notin ended
  /\ open' = {s}
  /\ UNCHANGED ended

End(s) ==
  /\ open = {s}
  /\ open' = {}
  /\ ended' = ended \cup {s}

Resume(s) ==
  /\ open = {}
  /\ s \in ended
  /\ open' = {s}
  /\ ended' = ended \ {s}

Remove(s) ==
  /\ s \in open \cup ended
  /\ open' = open \ {s}
  /\ ended' = ended \ {s}

Next == \E s \in Shift : Begin(s) \/ End(s) \/ Resume(s) \/ Remove(s)

Spec == Init /\ [][Next]_vars
=============================================================================
