-------------------------------- MODULE Desk ----------------------------------
(***************************************************************************)
(* What one user sees of one request: the counters of the dashboard, the      *)
(* previews behind its cards, and the buttons of the request's page; and what  *)
(* the server lets the user do.  The request moves meanwhile.                 *)
(***************************************************************************)
EXTENDS Naturals, FiniteSets

CONSTANTS
  Rooms,     \* the locations
  Origin,    \* where the request's transfer leaves
  Target,    \* where it arrives
  LineRooms, \* the sets of locations the adjustment may have lines at
  Limit      \* the rows of a preview

ASSUME DeskAssumption ==
  Origin \in Rooms /\ Target \in Rooms /\ Origin # Target /\ Limit \in Nat \ {0}

VARIABLES
  kind,    \* "transfer" or "adjustment"
  status,  \* the request's
  lines,   \* the locations of the adjustment's lines
  me,      \* the user: administrator, creator, role at each location
  counts,  \* the dashboard being read
  moved,   \* whether the request moved since the dashboard began to be read
  newer,   \* newer requests that the query of a preview finds as well, up to Limit
  page     \* the request's page

deskVars == <<kind, status, lines, me, counts, moved, newer, page>>

Pending == {"SUBMITTED", "APPROVED", "ORIGIN_MANAGER_APPROVED", "READY_TO_FINALIZE"}
Over    == {"FINALIZED", "CANCELLED", "REJECTED", "DELETED"}
Roles   == {"NONE", "OPERATOR", "MANAGER"}
Ops     == {"submit", "delete", "approveOrigin", "approveDestination", "approve",
            "reject", "finalize", "cancel"}

\* locationIds, managerLocationIds, operatorLocationIds.
Mine     == {l \in Rooms : me.role[l] # "NONE"}
Managed  == {l \in Rooms : me.role[l] = "MANAGER"}
Operated == {l \in Rooms : me.role[l] = "OPERATOR"}
Access(S)   == me.admin \/ Mine \cap S # {}
ManagerOf(S) == me.admin \/ Managed \cap S # {}

-----------------------------------------------------------------------------
(* The server: status and role of each operation. *)

AcceptsTransfer(op) ==
  \/ op = "submit" /\ status = "DRAFT" /\ me.creator /\ Access({Origin})
  \/ op = "delete" /\ status = "DRAFT" /\ me.creator
  \/ op = "approveOrigin" /\ status = "SUBMITTED" /\ ManagerOf({Origin})
  \/ op = "approveDestination" /\ status = "ORIGIN_MANAGER_APPROVED" /\ Access({Target})
  \/ op = "reject" /\ status = "SUBMITTED" /\ ManagerOf({Origin})
  \/ op = "reject" /\ status = "ORIGIN_MANAGER_APPROVED" /\ Access({Target})
  \/ op = "finalize" /\ status = "READY_TO_FINALIZE" /\ Access({Target})
  \/ op = "cancel" /\ status \in Pending /\ (me.creator \/ Access({Origin, Target}))

\* Approving and rejecting take a MANAGER of any location with a role at a line's.
AcceptsAdjustment(op) ==
  \/ op \in {"submit", "delete"} /\ status = "DRAFT" /\ me.creator
  \/ op \in {"approve", "reject"} /\ status = "SUBMITTED" /\ ManagerOf(Rooms) /\ Access(lines)
  \/ op = "finalize" /\ status = "APPROVED" /\ Access(lines)
  \/ op = "cancel" /\ status \notin Over /\ (me.creator \/ ManagerOf(lines))

Accepts(op) == IF kind = "transfer" THEN AcceptsTransfer(op) ELSE AcceptsAdjustment(op)

Outcome(op) ==
  CASE op = "submit" -> "SUBMITTED"
    [] op = "delete" -> "DELETED"
    [] op = "approveOrigin" -> "ORIGIN_MANAGER_APPROVED"
    [] op = "approveDestination" -> "READY_TO_FINALIZE"
    [] op = "approve" -> "APPROVED"
    [] op = "reject" -> "REJECTED"
    [] op = "finalize" -> "FINALIZED"
    [] op = "cancel" -> "CANCELLED"

\* Another user's operation: any the status allows.
NextStatus ==
  IF kind = "transfer"
  THEN [s \in {"DRAFT", "SUBMITTED", "ORIGIN_MANAGER_APPROVED", "READY_TO_FINALIZE"} |->
          CASE s = "DRAFT" -> {"SUBMITTED", "DELETED"}
            [] s = "SUBMITTED" -> {"ORIGIN_MANAGER_APPROVED", "REJECTED", "CANCELLED"}
            [] s = "ORIGIN_MANAGER_APPROVED" -> {"READY_TO_FINALIZE", "REJECTED", "CANCELLED"}
            [] s = "READY_TO_FINALIZE" -> {"FINALIZED", "CANCELLED"}]
  ELSE [s \in {"DRAFT", "SUBMITTED", "APPROVED"} |->
          CASE s = "DRAFT" -> {"SUBMITTED", "DELETED", "CANCELLED"}
            [] s = "SUBMITTED" -> {"APPROVED", "REJECTED", "CANCELLED"}
            [] s = "APPROVED" -> {"FINALIZED", "CANCELLED"}]

OthersMove ==
  /\ status \in DOMAIN NextStatus
  /\ status' \in NextStatus[status]
  /\ moved' = TRUE
  /\ UNCHANGED <<kind, lines, me, counts, newer, page>>

\* Newer requests are made, and moved on.
OthersCome ==
  /\ newer' \in 0..Limit
  /\ UNCHANGED <<kind, status, lines, me, counts, moved, page>>

-----------------------------------------------------------------------------
(* The dashboard: seven counters, each a query of its own. *)

AdjustmentCards == {"needsApproval", "adjustmentReady", "inProgress"}
TransferCards   == {"needsOrigin", "needsDestination", "incoming", "transferReady"}
ActionCards     == {"needsApproval", "adjustmentReady", "needsOrigin", "needsDestination",
                    "transferReady"}

\* Mutant: the transfers ready to finalize are looked for at their source.
CountsAtSource(card) == IF card = "transferReady"
                        THEN status = "READY_TO_FINALIZE" /\ Origin \in Operated
                        ELSE card = "needsOrigin" /\ status = "SUBMITTED" /\ Origin \in Managed

\* Whether a counter's query finds the request; an administrator's dashboard is zeros.
Counts(card) ==
  /\ ~me.admin
  /\ IF kind = "adjustment"
     THEN \/ card = "needsApproval" /\ status = "SUBMITTED" /\ lines \cap Managed # {}
          \/ card = "adjustmentReady" /\ status = "APPROVED" /\ lines \cap Operated # {}
          \/ card = "inProgress" /\ status \in {"SUBMITTED", "APPROVED"} /\ lines \cap Mine # {}
     ELSE \/ card = "needsOrigin" /\ status = "SUBMITTED" /\ Origin \in Managed
          \/ card = "needsDestination" /\ status = "ORIGIN_MANAGER_APPROVED" /\ Target \in Operated
          \/ card = "incoming" /\ Target \in Mine
               /\ status \in {"ORIGIN_MANAGER_APPROVED", "READY_TO_FINALIZE"}
          \/ card = "transferReady" /\ status = "READY_TO_FINALIZE" /\ Target \in Operated

\* What the query behind a preview's filter asks for.
Matches(filter) ==
  IF kind = "adjustment"
  THEN \/ filter = "REQUIRING_ACTION" /\ status = "SUBMITTED" /\ ManagerOf(lines)
       \/ filter = "IN_PROGRESS" /\ status \in {"SUBMITTED", "APPROVED"} /\ Access(lines)
       \/ filter = "READY_TO_FINALIZE" /\ status = "APPROVED" /\ (me.admin \/ lines \cap Operated # {})
  ELSE \/ filter = "REQUIRING_ACTION" /\ status = "SUBMITTED" /\ ManagerOf({Origin})
       \/ filter = "REQUIRING_ACTION" /\ status = "ORIGIN_MANAGER_APPROVED"
            /\ (me.admin \/ Target \in Operated)
       \/ filter = "IN_PROGRESS" /\ status \in {"SUBMITTED", "ORIGIN_MANAGER_APPROVED"}
            /\ Access({Origin, Target})
       \/ filter = "READY_TO_FINALIZE" /\ status = "READY_TO_FINALIZE"
            /\ (me.admin \/ Target \in Operated)
       \/ filter = "ARRIVING" /\ status = "ORIGIN_MANAGER_APPROVED" /\ Access({Target})

\* The newest of them, "take: limit".
Previews(filter) == Matches(filter) /\ newer < Limit

\* The filter a card of the page opens.
FilterOf(card) ==
  CASE card \in {"needsApproval", "needsOrigin", "needsDestination"} -> "REQUIRING_ACTION"
    [] card \in {"adjustmentReady", "transferReady"} -> "READY_TO_FINALIZE"
    [] card = "inProgress" -> "IN_PROGRESS"
    [] card = "incoming" -> "ARRIVING"

NotRead == [c \in AdjustmentCards \cup TransferCards |-> "unread"]

\* The page is opened, or its answer has become stale.
BeginDashboard ==
  /\ counts' = NotRead /\ moved' = FALSE
  /\ UNCHANGED <<kind, status, lines, me, newer, page>>

\* One query; the transfers' begin when the adjustments' are answered.
ReadCount(card) ==
  /\ counts[card] = "unread"
  /\ card \in TransferCards => \A c \in AdjustmentCards : counts[c] # "unread"
  /\ counts' = [counts EXCEPT ![card] = IF Counts(card) THEN "one" ELSE "zero"]
  /\ UNCHANGED <<kind, status, lines, me, moved, newer, page>>

-----------------------------------------------------------------------------
(* The request's page, computed from the status it last fetched. *)

\* Mutant: any role at either location offers the approval at the destination.
OffersToEither(op, s) == op = "approveDestination" /\ s = "ORIGIN_MANAGER_APPROVED"
                         /\ Access({Origin, Target})

\* Where Approve and Reject are shown, Cancel is not.
OffersTransfer(op, s) ==
  LET deciding == (s = "SUBMITTED" /\ ManagerOf({Origin}))
                  \/ (s = "ORIGIN_MANAGER_APPROVED" /\ Access({Target}))
  IN
  \/ op \in {"submit", "delete"} /\ s = "DRAFT" /\ me.creator
  \/ op = "approveOrigin" /\ s = "SUBMITTED" /\ deciding
  \/ op = "approveDestination" /\ s = "ORIGIN_MANAGER_APPROVED" /\ deciding
  \/ op = "reject" /\ deciding
  \/ op = "finalize" /\ s = "READY_TO_FINALIZE" /\ Access({Target})
  \/ op = "cancel" /\ s \notin Over \cup {"DRAFT"} /\ ~deciding
       /\ (me.creator \/ Access({Origin, Target}))

\* isManager: MANAGER of some location, wherever the lines are.
OffersAdjustment(op, s) ==
  LET isManager == ManagerOf(Rooms) IN
  \/ op \in {"submit", "delete"} /\ s = "DRAFT" /\ me.creator
  \/ op \in {"approve", "reject"} /\ s = "SUBMITTED" /\ isManager
  \/ op = "finalize" /\ s = "APPROVED" /\ isManager
  \/ op = "cancel" /\ s \notin Over \cup {"DRAFT"} /\ (me.creator \/ isManager)
       /\ ~(s = "SUBMITTED" /\ isManager)

Offers(op, s) == IF kind = "transfer" THEN OffersTransfer(op, s) ELSE OffersAdjustment(op, s)

\* Opened, or fetched again.
Fetch ==
  /\ status # "DELETED"
  /\ page' = status
  /\ UNCHANGED <<kind, status, lines, me, counts, moved, newer>>

\* A button and its dialog; a success is fetched again at once, a refusal is not.
Click(op) ==
  /\ page # "closed" /\ Offers(op, page)
  /\ IF Accepts(op)
     THEN /\ status' = Outcome(op) /\ moved' = TRUE
          /\ page' = IF op = "delete" THEN "closed" ELSE Outcome(op)
     ELSE UNCHANGED <<status, moved, page>>
  /\ UNCHANGED <<kind, lines, me, counts, newer>>

-----------------------------------------------------------------------------
\* A creator has a role at the transfer's source: create asserts it.
DeskInit ==
  /\ kind \in {"transfer", "adjustment"} /\ status = "DRAFT"
  /\ lines \in LineRooms
  /\ me \in [admin : BOOLEAN, creator : BOOLEAN, role : [Rooms -> Roles]]
  /\ me.admin => Mine = {}
  /\ me.creator /\ kind = "transfer" => Access({Origin})
  /\ counts = NotRead /\ moved = FALSE
  /\ newer = 0
  /\ page = "closed"

DeskNext ==
  \/ OthersMove \/ OthersCome \/ BeginDashboard \/ Fetch
  \/ \E card \in AdjustmentCards \cup TransferCards : ReadCount(card)
  \/ \E op \in Ops : Click(op)

DeskSpec == DeskInit /\ [][DeskNext]_deskVars

-----------------------------------------------------------------------------
\* The shape of the request and of what is shown of it.
DeskTypeOK ==
  /\ status \in Pending \cup Over \cup {"DRAFT"}
  /\ page \in Pending \cup Over \cup {"DRAFT", "closed"}
  /\ counts \in [AdjustmentCards \cup TransferCards -> {"unread", "zero", "one"}]
  /\ newer \in 0..Limit

Waiting == {card \in ActionCards : counts[card] = "one"}

\* A button the page shows for the request's present status works for this user, of
\* those a user with a role at the request's locations sees: a MANAGER of another
\* location is offered decisions on every adjustment.
OfferedIsAccepted ==
  page = status /\ (kind = "transfer" \/ me.creator \/ ManagerOf(lines)) =>
    \A op \in Ops : Offers(op, page) /\ (kind = "adjustment" => me.admin \/ Mine \cap lines # {})
                    => Accepts(op)

Onward == Ops \ {"cancel", "reject"}

\* The counters are read one after another.  Of a request that did not move meanwhile, at
\* most one action card counts it, and the server takes a step towards the end from this
\* user.  The user finds the request in the card's preview unless newer ones fill it, and
\* the button on its page unless it is an adjustment to finalize and the user is a MANAGER
\* nowhere: the card counts for operators what the page offers to managers alone.
PendingIsActionable ==
  ~moved =>
    /\ Cardinality(Waiting) <= 1
    /\ \A card \in Waiting :
         /\ Previews(FilterOf(card)) <=> newer < Limit
         /\ \E op \in Onward : Accepts(op)
         /\ (\E op \in Onward : Accepts(op) /\ Offers(op, status))
              <=> ~(card = "adjustmentReady" /\ Managed = {})
=============================================================================
