---------------------------- MODULE MassagePages ----------------------------
(***************************************************************************)
(* What the pages make of the massages: the figures they show (Figures)    *)
(* and the changes they ask for (RequestPages), side by side.  The figures *)
(* know a massage by its amounts, the requests by the plan and the stamp   *)
(* of its row, so that each keeps its own rows; only Plan is shared.       *)
(***************************************************************************)
EXTENDS Figures

CONSTANTS
  Session, Reviewer, Amount, PlanPrice, MaxRequests, MaxStamp, MaxOrders,
  PagesWorld     \* the worlds of the requests; see RequestPages

VARIABLES pagesWorld, session, plan, filed, assistant, reviewer, order

Pages == INSTANCE RequestPages WITH
  world <- pagesWorld, request <- filed, World <- PagesWorld

-----------------------------------------------------------------------------
(***************************************************************************)
(* What the pages show and keep.  None is none of it.                      *)
(***************************************************************************)
Status == {"PENDING", "APPROVED", "REJECTED"}
Stage == {"asking", "ready", "saving", "done"}

SeenSession == [plan: Plan \cup {None}, corrected: Amount \cup {None},
                latest: Status \cup {None}]
SeenRequest == [session: Session, status: Status, plan: Plan \cup {None},
                price: PlanPrice \cup {None}, paid: Amount \cup {None},
                expected: PlanPrice \cup {0}, corrected: Amount \cup {None}]
FileDialog == [of: Session, shown: SeenSession, do: {"file"}, stage: Stage]
ReviewDialog == [of: Pages!Request, shown: SeenRequest, do: {"approve", "reject"},
                 stage: Stage]
ReadRow == [plan: Plan \cup {None}, stamp: 0 .. MaxStamp]

ASSUME PagesAssumption ==
  /\ PagesWorld \subseteq Pages!AllWorlds
  /\ MaxRequests \in Nat /\ MaxStamp \in Nat
  /\ "assistant" \notin Reviewer
  /\ None \notin Amount /\ None \notin PlanPrice
  /\ None \notin Status \cup {"ok", "error"}
  /\ None \notin SeenSession /\ None \notin SeenRequest
  /\ None \notin FileDialog /\ None \notin ReviewDialog
  /\ None \notin ReadRow /\ None \notin Pages!RequestRow

-----------------------------------------------------------------------------
(***************************************************************************)
(* Each part keeps its types.                                              *)
(***************************************************************************)
PartsTypeOK == TypeOK /\ Pages!TypeOK

(***************************************************************************)
(* An approved request does what its reviewer's dialog announced, and what *)
(* was asked for once is done once (approveRequest, createRequest); see    *)
(* RequestPages.                                                           *)
(***************************************************************************)
ChangesAreMadeAsShown == Pages!ChangesAreMadeAsShown
=============================================================================
