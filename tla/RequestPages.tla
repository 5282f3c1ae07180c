---------------------------- MODULE RequestPages ----------------------------
(***************************************************************************)
(* Changes of a massage that an assistant asks for and an owner reviews,   *)
(* from the pages' side: the page of the assistant with its dialog         *)
(* (assistant/page.tsx, AssistantPlanChangeRequestModal), the page of the  *)
(* requests with its dialog (plan-change-requests/page.tsx,                *)
(* PlanChangeReviewModal), one for each reviewer, and the dialogs of the   *)
(* home page that change a massage at once.                                *)
(*                                                                         *)
(* A page shows what it has loaded, which may be old; a dialog keeps the   *)
(* row it was opened with.  A dialog may be dismissed while its order is   *)
(* under way, and an answer may be lost after the order was carried out.   *)
(* The server reads the session, then carries the order out in a second    *)
(* step; the rest of its inside, and the cash, are SessionBilling's.       *)
(***************************************************************************)
EXTENDS Integers, FiniteSets, FiniteSetsExt

CONSTANTS
  Session, Plan, Reviewer,
  Amount,       \* the amounts that may be asked for as paid
  PlanPrice,        \* the prices a plan may have
  MaxRequests,  \* bound: requests filed
  MaxStamp,     \* bound: changes of a session
  MaxOrders,    \* bound: orders under way
  World,        \* the worlds to look at
  None

Request == 1 .. MaxRequests  \* in the order they are filed

\* A world: who reviews, which plans are asked for and edited, what else happens
\* to sessions and plans, whether dialogs are dismissed and answers lost.
AllWorlds ==
  [reviewers: SUBSET Reviewer, wanted: SUBSET Plan,
   events: SUBSET {"reject", "correct", "plan", "archive", "prices", "dismiss", "lose"}]

VARIABLES
  world,      \* rigid
  session,    \* the rows of the sessions, all COMPLETED
  plan,       \* the plans: price, active
  request,    \* the rows of the requests, None where there is none
  assistant,  \* the page of the assistant
  reviewer,   \* the pages of the reviewers
  order       \* the POSTs under way

rows == <<session, plan, request>>
vars == <<world, session, plan, request, assistant, reviewer, order>>

-----------------------------------------------------------------------------
(* Rows, and how the pages get to see them. *)

SessionRow ==
  [plan: Plan \cup {None}, expected: PlanPrice \cup {0}, corrected: Amount \cup {None},
   archived: BOOLEAN, stamp: 0 .. MaxStamp]

\* requestedExpectedAmount is the price of the plan when it was asked for.
\* "applied" is what the session's stamp is after an approval.
RequestRow ==
  [session: Session, plan: Plan \cup {None}, price: PlanPrice \cup {None},
   paid: Amount \cup {None}, atPlan: Plan \cup {None}, atStamp: 0 .. MaxStamp,
   status: {"PENDING", "APPROVED", "REJECTED"}, applied: 0 .. MaxStamp]

Rows == {q \in Request : request[q] # None}
Of(s) == {q \in Rows : request[q].session = s}
Pending(s) == {q \in Of(s) : request[q].status = "PENDING"}

\* A request in a list comes with the amounts its session has then.
mapRequestResponse(r) ==
  [session |-> r.session, status |-> r.status, plan |-> r.plan, price |-> r.price,
   paid |-> r.paid, expected |-> session[r.session].expected,
   corrected |-> session[r.session].corrected]

listRequests == [q \in Request |-> IF q \in Rows THEN mapRequestResponse(request[q]) ELSE None]

\* The latest request of a session is the one the assistant's page looks at.
latestBySession(s) == IF Of(s) = {} THEN None ELSE request[Max(Of(s))].status

getAssistantToday ==
  [s \in Session |->
     IF session[s].archived THEN None
     ELSE [plan |-> session[s].plan, corrected |-> session[s].corrected,
           latest |-> latestBySession(s)]]

\* A page: the rows it shows, its dialog,
\* and how many dialogs have succeeded and are about to close.
EmptyPage(list) == [list |-> list, dialog |-> None, closing |-> 0]

Init ==
  /\ world \in World
  /\ plan \in [Plan -> [price: PlanPrice, active: {TRUE}]]
  /\ session \in [Session -> {r \in SessionRow :
       /\ r.corrected = None /\ ~r.archived /\ r.stamp = 0
       /\ r.expected = IF r.plan = None THEN 0 ELSE plan[r.plan].price}]
  /\ request = [q \in Request |-> None]
  /\ assistant = EmptyPage(getAssistantToday)
  /\ reviewer = [v \in Reviewer |-> EmptyPage(listRequests)]
  /\ order = {}

-----------------------------------------------------------------------------
(* Pages.  Page and SetPage let the two kinds share their actions. *)

Pages == {"assistant"} \cup world.reviewers
Page(v) == IF v = "assistant" THEN assistant ELSE reviewer[v]

SetPage(v, p) ==
  IF v = "assistant" THEN assistant' = p /\ UNCHANGED reviewer
  ELSE reviewer' = [reviewer EXCEPT ![v] = p] /\ UNCHANGED assistant

(***************************************************************************)
(* load: on opening the page, at its button, and after a success.  The     *)
(* rows stay as they were read until the next load.                        *)
(***************************************************************************)
Read(v) == IF v = "assistant" THEN getAssistantToday ELSE listRequests

load(v) ==
  /\ Page(v).list # Read(v)
  /\ SetPage(v, [Page(v) EXCEPT !.list = Read(v)])
  /\ UNCHANGED <<world, session, plan, request, order>>

(***************************************************************************)
(* Dialogs.  The assistant opens one for a session without a pending       *)
(* request, a reviewer for a pending request, to approve or to reject it;  *)
(* approving takes one more click.                                         *)
(***************************************************************************)
Dialog(of, shown, do, stage) == [of |-> of, shown |-> shown, do |-> do, stage |-> stage]

openRequest == \E s \in Session :
  LET row == assistant.list[s] IN
    /\ assistant.dialog = None
    /\ row # None /\ row.latest # "PENDING"
    /\ assistant' = [assistant EXCEPT !.dialog = Dialog(s, row, "file", "ready")]
    /\ UNCHANGED <<world, session, plan, request, reviewer, order>>

setReview(v) == \E q \in Request, do \in {"approve", "reject"} :
  LET row == reviewer[v].list[q] IN
    /\ v \in world.reviewers
    /\ reviewer[v].dialog = None
    /\ row # None /\ row.status = "PENDING"
    /\ do = "reject" => "reject" \in world.events
    /\ reviewer' = [reviewer EXCEPT ![v].dialog =
         Dialog(q, row, do, IF do = "approve" THEN "asking" ELSE "ready")]
    /\ UNCHANGED <<world, session, plan, request, assistant, order>>

setConfirming(v) ==
  /\ v \in world.reviewers
  /\ reviewer[v].dialog # None /\ reviewer[v].dialog.stage = "asking"
  /\ reviewer' = [reviewer EXCEPT ![v].dialog.stage = "ready"]
  /\ UNCHANGED <<world, session, plan, request, assistant, order>>

\* What an order waited for by the open dialog becomes when that dialog goes.
Unmounted(v) ==
  {IF o.page = v /\ o.waits = "dialog" THEN [o EXCEPT !.waits = "timer"] ELSE o : o \in order}

\* The overlay and the cross dismiss a dialog at any time.
onClose(v) ==
  /\ "dismiss" \in world.events
  /\ Page(v).dialog # None
  /\ SetPage(v, [Page(v) EXCEPT !.dialog = None])
  /\ order' = Unmounted(v)
  /\ UNCHANGED <<world, session, plan, request>>

-----------------------------------------------------------------------------
(* Sending. *)

Order(v, plan_, paid) ==
  [page |-> v, do |-> Page(v).dialog.do, of |-> Page(v).dialog.of, plan |-> plan_, paid |-> paid,
   shown |-> Page(v).dialog.shown, read |-> None, waits |-> "dialog", answer |-> None]

Send(v, o) ==
  /\ Page(v).dialog # None /\ Page(v).dialog.stage = "ready"
  /\ Cardinality(order) < MaxOrders
  /\ SetPage(v, [Page(v) EXCEPT !.dialog.stage = "saving"])
  /\ order' = order \cup {o}
  /\ UNCHANGED <<world, session, plan, request>>

\* The dialog compares with the row it shows.
validateModificationSelection(shown, p, a) ==
  /\ p # None \/ a # None
  /\ p # None => p # shown.plan
  /\ a # None => a # shown.corrected

handleSubmit == \E p \in world.wanted \cup {None}, a \in Amount \cup {None} :
  /\ assistant.dialog # None
  /\ validateModificationSelection(assistant.dialog.shown, p, a)
  /\ Send("assistant", Order("assistant", p, a))

submit(v) ==
  /\ v \in world.reviewers
  /\ reviewer[v].dialog # None
  /\ Send(v, Order(v, None, None))

-----------------------------------------------------------------------------
(***************************************************************************)
(* The server.  createRequest reads the session and checks it, then looks  *)
(* for a pending request and inserts; approveRequest reads and checks,     *)
(* then claims the request and reads the session again.                    *)
(***************************************************************************)
SessionOf(o) == IF o.do = "file" THEN o.of ELSE request[o.of].session

assertSessionEligibleForPlanChange(s) == ~session[s].archived

assertPlanIsDifferent(s, p) == p # session[s].plan

assertPaidAmountIsDifferent(s, a) == a # session[s].corrected

Different(s, p, a) ==
  /\ p # None => assertPlanIsDifferent(s, p)
  /\ a # None => assertPaidAmountIsDifferent(s, a)

\* assertPlanEligibleForAssignment
Assignable(p) == p # None => plan[p].active

\* Mutant of assertRequestNotStale: only the plan is compared.
SamePlanOnly(q) == request[q].atPlan # None => session[request[q].session].plan = request[q].atPlan

assertRequestNotStale(q) ==
  LET row == session[request[q].session] IN
    /\ request[q].atPlan # None => row.plan = request[q].atPlan
    /\ row.stamp = request[q].atStamp

assertRequestStillPending(q) == request[q].status = "PENDING"

Checks(o) ==
  /\ assertSessionEligibleForPlanChange(SessionOf(o))
  /\ o.do = "file" => Different(o.of, o.plan, o.paid)
  /\ o.do = "approve" => assertRequestStillPending(o.of) /\ assertRequestNotStale(o.of)

Reads(o) == o.do # "reject" /\ o.read = None

findSession == \E o \in order :
  LET row == session[SessionOf(o)] IN
    /\ o.answer = None
    /\ Reads(o) /\ Checks(o)
    /\ order' = (order \ {o}) \cup {[o EXCEPT !.read = [plan |-> row.plan, stamp |-> row.stamp]]}
    /\ UNCHANGED <<world, session, plan, request, assistant, reviewer>>

MayCarry(o) ==
  \/ o.do = "file" /\ Pending(o.of) = {} /\ Assignable(o.plan)
  \/ o.do = "reject" /\ assertRequestStillPending(o.of)
  \/ /\ o.do = "approve" /\ assertRequestStillPending(o.of)
     /\ LET r == request[o.of] IN
          /\ assertSessionEligibleForPlanChange(r.session)
          /\ Assignable(r.plan)
          /\ Different(r.session, r.plan, r.paid)

Changed(s, fields) ==
  session' = [session EXCEPT ![s] = [fields EXCEPT !.stamp = @ + 1]]

createRequest(o) ==
  /\ o.do = "file"
  /\ Cardinality(Rows) < MaxRequests
  /\ request' = [request EXCEPT ![Cardinality(Rows) + 1] =
       [session |-> o.of, plan |-> o.plan,
        price |-> IF o.plan = None THEN None ELSE plan[o.plan].price, paid |-> o.paid,
        atPlan |-> o.read.plan, atStamp |-> o.read.stamp,
        status |-> "PENDING", applied |-> 0]]
  /\ UNCHANGED session

\* The plan gives its price of today, not the one the request recorded.
approveRequest(o) ==
  LET r == request[o.of]
      row == session[r.session]
      planned == IF r.plan = None THEN row
                 ELSE [row EXCEPT !.plan = r.plan, !.expected = plan[r.plan].price]
  IN  /\ o.do = "approve"
      /\ row.stamp < MaxStamp
      /\ Changed(r.session,
           IF r.paid = None THEN planned ELSE [planned EXCEPT !.corrected = r.paid])
      /\ request' = [request EXCEPT ![o.of].status = "APPROVED",
                                    ![o.of].applied = row.stamp + 1]

rejectRequest(o) ==
  /\ o.do = "reject"
  /\ request' = [request EXCEPT ![o.of].status = "REJECTED"]
  /\ UNCHANGED session

\* An order that nobody waits for any more leaves nothing behind.
Answered(o, answer) ==
  order' = (order \ {o}) \cup
             (IF o.waits = "nobody" THEN {} ELSE {[o EXCEPT !.answer = answer]})

carryOut == \E o \in order :
  /\ o.answer = None
  /\ ~Reads(o) /\ MayCarry(o)
  /\ createRequest(o) \/ approveRequest(o) \/ rejectRequest(o)
  /\ Answered(o, "ok")
  /\ UNCHANGED <<world, plan, assistant, reviewer>>

handleError == \E o \in order :
  /\ o.answer = None
  /\ IF Reads(o) THEN ~Checks(o) ELSE ~MayCarry(o)
  /\ Answered(o, "error")
  /\ UNCHANGED <<world, session, plan, request, assistant, reviewer>>

-----------------------------------------------------------------------------
(***************************************************************************)
(* The answer.  A success shows in the dialog, if it is still there, and   *)
(* starts the timer that closes the dialog in any case.  An error, or no   *)
(* answer in time, lets the dialog send again.                             *)
(***************************************************************************)
setDone == \E o \in order :
  LET p == Page(o.page) IN
    /\ o.answer = "ok"
    /\ order' = order \ {o}
    /\ SetPage(o.page,
         IF o.waits = "dialog" THEN [p EXCEPT !.dialog.stage = "done", !.closing = @ + 1]
         ELSE [p EXCEPT !.closing = @ + 1])
    /\ UNCHANGED <<world, session, plan, request>>

Back(o) ==
  IF o.waits = "dialog"
  THEN SetPage(o.page, [Page(o.page) EXCEPT !.dialog.stage = "ready"])
  ELSE UNCHANGED <<assistant, reviewer>>

setError == \E o \in order :
  /\ o.answer = "error"
  /\ order' = order \ {o}
  /\ Back(o)
  /\ UNCHANGED <<world, session, plan, request>>

giveUp == \E o \in order :
  /\ "lose" \in world.events
  /\ o.waits # "nobody"
  /\ order' = (order \ {o}) \cup
                (IF o.answer = None THEN {[o EXCEPT !.waits = "nobody"]} ELSE {})
  /\ Back(o)
  /\ UNCHANGED <<world, session, plan, request>>

\* onSuccess and onClose, 700 ms later: whatever dialog is open goes.
close(v) ==
  /\ Page(v).closing > 0
  /\ SetPage(v, [Page(v) EXCEPT !.dialog = None, !.closing = @ - 1])
  /\ order' = Unmounted(v)
  /\ UNCHANGED <<world, session, plan, request>>

-----------------------------------------------------------------------------
(* What else changes the rows: the dialogs of the home page, the settings. *)

May(event, s) ==
  event \in world.events /\ ~session[s].archived /\ session[s].stamp < MaxStamp

Only(s, fields) ==
  /\ Changed(s, fields)
  /\ UNCHANGED <<world, plan, request, assistant, reviewer, order>>

\* SessionCorrectionModal: an amount, or none any more.
correctSession(s) == \E a \in Amount \cup {None} :
  May("correct", s) /\ Only(s, [session[s] EXCEPT !.corrected = a])

\* OwnerDirectPlanChangeModal: not while a request is pending.
changeSessionPlan(s) == \E p \in Plan :
  /\ May("plan", s) /\ Pending(s) = {}
  /\ plan[p].active /\ assertPlanIsDifferent(s, p)
  /\ Only(s, [session[s] EXCEPT !.plan = p, !.expected = plan[p].price])

deleteSession(s) ==
  May("archive", s) /\ Only(s, [session[s] EXCEPT !.archived = TRUE])

updatePricingPlan == \E p \in world.wanted, form \in [price: PlanPrice, active: BOOLEAN] :
  /\ "prices" \in world.events
  /\ form # plan[p]
  /\ plan' = [plan EXCEPT ![p] = form]
  /\ UNCHANGED <<world, session, request, assistant, reviewer, order>>

Next ==
  \/ \E v \in Pages : load(v) \/ onClose(v) \/ close(v)
  \/ \E v \in Reviewer : setReview(v) \/ setConfirming(v) \/ submit(v)
  \/ openRequest \/ handleSubmit
  \/ findSession \/ carryOut \/ handleError \/ setDone \/ setError \/ giveUp
  \/ \E s \in Session : correctSession(s) \/ changeSessionPlan(s) \/ deleteSession(s)
  \/ updatePricingPlan

Spec == Init /\ [][Next]_vars

-----------------------------------------------------------------------------
(***************************************************************************)
(* The rows have their types, and a dialog is saving exactly while one     *)
(* order is under way for it, so that no click sends a second one.         *)
(***************************************************************************)
TypeOK ==
  /\ world \in AllWorlds
  /\ session \in [Session -> SessionRow]
  /\ plan \in [Plan -> [price: PlanPrice, active: BOOLEAN]]
  /\ request \in [Request -> RequestRow \cup {None}]
  /\ \A v \in Pages :
       LET saving == Page(v).dialog # None /\ Page(v).dialog.stage = "saving" IN
         Cardinality({o \in order : o.page = v /\ o.waits = "dialog"}) = IF saving THEN 1 ELSE 0

\* What the review dialog announces: the price, and what will have been paid.
newAmt(shown) == IF shown.plan # None THEN shown.price ELSE shown.expected
newPaid(shown) == IF shown.paid # None THEN shown.paid ELSE shown.corrected

Repriced(shown) == shown.plan # None /\ plan[shown.plan].price # shown.price

(***************************************************************************)
(* An approval that goes through does what the reviewer's dialog announced,*)
(* however old the list it was opened from, and whatever other reviewers,  *)
(* the dialogs of the home page and retries have done before its check.    *)
(* Two exceptions: the price is that of today if the plan was repriced     *)
(* since it was asked for, and a change that falls between the check and   *)
(* the write goes unseen (the run billing_stale).                          *)
(***************************************************************************)
ApprovedAsShown ==
  \A o \in order : LET s == o.shown.session IN
    /\ o.do = "approve" /\ o.read # None
    /\ request[o.of].status = "PENDING" /\ request'[o.of].status = "APPROVED"
    /\ o.answer = None /\ o.read.stamp = session[s].stamp
    => /\ session'[s].corrected = newPaid(o.shown)
       /\ Repriced(o.shown) \/ session'[s].expected = newAmt(o.shown)

(***************************************************************************)
(* A dialog that sends again because an answer was lost files nothing that *)
(* could be approved a second time: a request that asks for what has been  *)
(* approved meanwhile was made for an older row.                           *)
(***************************************************************************)
AskedOnce ==
  \A q, r \in Rows' :
    /\ request'[q].session = request'[r].session /\ q # r
    /\ request'[q].plan = request'[r].plan /\ request'[q].paid = request'[r].paid
    /\ request'[r].status = "APPROVED"
    => request'[q].atStamp # request'[r].applied

(***************************************************************************)
(* The pages show old rows and lose answers, and still a change is made as *)
(* announced, and only once for being asked for once.                      *)
(***************************************************************************)
ChangesAreMadeAsShown == [][ApprovedAsShown /\ AskedOnce]_vars
=============================================================================
