-------------------------------- MODULE Guards --------------------------------
(***************************************************************************)
(* Roles, locations and registrations against the requests that depend on   *)
(* them.  An administrator closes a location, closes the registration of a  *)
(* product at a location or deactivates a user after testing that no        *)
(* pending request needs it; the test and the write are separate queries,   *)
(* and requests are created, edited and moved on meanwhile.                 *)
(*                                                                          *)
(* Quantities and stock are left to TransferWorkflow and                    *)
(* AdjustmentWorkflow; here are the tests those modules leave out.  What    *)
(* one call reads before its first write is read in one step; a call that   *)
(* dies before its write is one that stays in flight.                       *)
(***************************************************************************)
EXTENDS Naturals, FiniteSets

CONSTANTS
  Users,        \* non-administrators
  Admin,        \* any administrator
  Products,
  Locations,
  Transfers,    \* ids of the transfer requests ever created
  Adjustments,  \* ids of the adjustment requests ever created
  Calls,        \* the HTTP calls in flight at one time
  Routes,       \* the <<source, destination>> pairs clients ask for
  Assignments,  \* the role assignments administrators give a user
  FirstRoles,   \* the assignments at the start
  MaxRequests,  \* bound: requests created
  MaxDown       \* bound: what is closed, inactive or reassigned at one time

ASSUME GuardsAssumption ==
  /\ Admin \notin Users
  /\ Transfers \cap Adjustments = {}
  /\ Routes \subseteq Locations \X Locations
  /\ FirstRoles \in [Users -> Assignments]
  /\ MaxRequests \in Nat /\ MaxDown \in Nat

VARIABLES
  userActive,  \* User.isActive
  roleAt,      \* UserLocationRole: the role of a user at a location
  open,        \* Location.isActive
  registered,  \* ProductLocation.isActive
  state,       \* status of a request
  route,       \* source and destination of a transfer
  items,       \* the <<product, location>> pairs its lines name
  call,        \* the calls in flight
  excused      \* history: requests written behind a test that a closing overtook, or that
               \* an update by id brought back, or whose line was moved by updateItem

registryVars == <<userActive, roleAt, open, registered>>
workVars     == <<state, route, items, excused>>
guardVars    == <<registryVars, workVars, call>>

Requests == Transfers \cup Adjustments
Actors   == Users \cup {Admin}
Pairs    == Products \X Locations
Quiet    == [op |-> "none"]

TerminalStates == {"FINALIZED", "CANCELLED", "REJECTED"}
PendingStates  == {"DRAFT", "SUBMITTED", "APPROVED",
                   "ORIGIN_MANAGER_APPROVED", "READY_TO_FINALIZE"}
Pending(q)     == state[q] \in PendingStates

\* Where the lines of a transfer are looked up: the product counts at both ends.
Names(q, p, l) ==
  IF q \in Transfers
  THEN l \in {route[q][1], route[q][2]} /\ \E x \in items[q] : x[1] = p
  ELSE <<p, l>> \in items[q]

LineLocations(q) == {x[2] : x \in items[q]}

Touches(q, l) ==
  IF q \in Transfers THEN l \in {route[q][1], route[q][2]} ELSE l \in LineLocations(q)

-----------------------------------------------------------------------------
\* Who may do what.

RoleOf(u, l)    == IF u = Admin THEN "MANAGER" ELSE roleAt[u][l]
HasAccess(u, l) == RoleOf(u, l) # "NONE"
IsManager(u, l) == RoleOf(u, l) = "MANAGER"
ManagesAny(u)   == \E l \in Locations : IsManager(u, l)
AssignedTo(u)   == IF u = Admin THEN {} ELSE {l \in Locations : roleAt[u][l] # "NONE"}

\* The caller of an operation is any actor the operation lets through.
Someone(May(_)) == {u \in Actors : May(u)} # {}

\* The users who can take the next step of a request in status s.
AdjustmentEligible(s, where) ==
  {u \in Users : userActive[u] /\ \E l \in where :
     \/ s = "SUBMITTED" /\ roleAt[u][l] = "MANAGER"
     \/ s = "APPROVED" /\ roleAt[u][l] # "NONE"}

TransferEligible(s, from, to) ==
  {u \in Users : userActive[u] /\
     \/ s = "SUBMITTED" /\ roleAt[u][from] = "MANAGER"
     \/ s \in {"ORIGIN_MANAGER_APPROVED", "READY_TO_FINALIZE"} /\ roleAt[u][to] # "NONE"}

EligibleFor(q, s) ==
  IF q \in Transfers THEN TransferEligible(s, route[q][1], route[q][2])
  ELSE AdjustmentEligible(s, LineLocations(q))

\* Mutant: users who were deactivated are counted.
HasRoleEver(l, r) == \E u \in Users : roleAt[u][l] = r

\* evaluateLocationReadiness: somebody active holds the role.
HasRole(l, r)    == \E u \in Users : userActive[u] /\ roleAt[u][l] = r
OutboundReady(l) == HasRole(l, "MANAGER")
InboundReady(l)  == HasRole(l, "OPERATOR") \/ HasRole(l, "MANAGER")

\* The dialog that creates a transfer warns that one of its ends lacks users.
Warns(q) == ~OutboundReady(route[q][1]) \/ ~InboundReady(route[q][2])

AllOpen(where)    == \A l \in where : open[l]
LinesActive(q)    == \A x \in items[q] : registered[x]

-----------------------------------------------------------------------------
GuardInit ==
  /\ userActive = [u \in Users |-> TRUE]
  /\ roleAt = FirstRoles
  /\ open = [l \in Locations |-> TRUE]
  /\ registered = [x \in Pairs |-> TRUE]
  /\ state = [q \in Requests |-> "ABSENT"]
  /\ route \in [Transfers -> Routes]
  /\ items = [q \in Requests |-> {}]
  /\ call = [c \in Calls |-> Quiet]
  /\ excused = {}

At(c, op, pc) == call[c] # Quiet /\ call[c].op = op /\ call[c].pc = pc

\* The calls that test whether a user is needed, after somebody else's write.
Disturbed(c) ==
  [d \in Calls |-> IF d # c /\ call[d] # Quiet /\ call[d].op = "toggleUser"
                   THEN [call[d] EXCEPT !.alone = FALSE] ELSE call[d]]

Return(c)        == call' = [call EXCEPT ![c] = Quiet]
ReturnWriting(c) == call' = [Disturbed(c) EXCEPT ![c] = Quiet]

\* A call that has counted the requests at l, or at l for p, and found none.
LocationClosing(l) == \E d \in Calls : At(d, "toggleLocation", "counted") /\ call[d].on = l
PairClosing(x) ==
  \E d \in Calls : At(d, "toggleRegistration", "counted") /\ call[d].on = x

-----------------------------------------------------------------------------
\* Deactivations.

\* The bound MaxDown, on the state after the step.
DownWithinBound ==
  Cardinality({l \in Locations : ~open'[l]}) + Cardinality({x \in Pairs : ~registered'[x]})
    + Cardinality({u \in Users : ~userActive'[u] \/ roleAt'[u] # FirstRoles[u]}) <= MaxDown

\* Mutant: countPendingRequests looks at the source of a transfer only.
CountAtSource(l) ==
  {q \in Requests : Pending(q) /\ IF q \in Transfers THEN route[q][1] = l ELSE Touches(q, l)}

PendingAtLocation(l) == {q \in Requests : Pending(q) /\ Touches(q, l)}

\* adminToggleActive up to its write; an activation counts nothing.
CountAtLocation(c, l) ==
  /\ call[c] = Quiet
  /\ open[l] => PendingAtLocation(l) = {}
  /\ call' = [call EXCEPT ![c] =
       [op |-> "toggleLocation", pc |-> "counted", on |-> l, active |-> ~open[l]]]
  /\ UNCHANGED <<registryVars, workVars>>

ToggleLocation(c) ==
  /\ At(c, "toggleLocation", "counted")
  /\ open' = [open EXCEPT ![call[c].on] = call[c].active]
  /\ Return(c)
  /\ UNCHANGED <<userActive, roleAt, registered, workVars>>
  /\ DownWithinBound

PendingAtPair(x) == {q \in Requests : Pending(q) /\ Names(q, x[1], x[2])}

\* update, up to its write; clients ask for a change of the flag.  bulkToggle does the same for one row after the other.
CountAtPair(c, x, active) ==
  /\ call[c] = Quiet
  /\ active # registered[x]
  /\ registered[x] /\ ~active => PendingAtPair(x) = {}
  /\ call' = [call EXCEPT ![c] =
       [op |-> "toggleRegistration", pc |-> "counted", on |-> x, active |-> active]]
  /\ UNCHANGED <<registryVars, workVars>>

ToggleRegistration(c) ==
  /\ At(c, "toggleRegistration", "counted")
  /\ registered' = [registered EXCEPT ![call[c].on] = call[c].active]
  /\ Return(c)
  /\ UNCHANGED <<userActive, roleAt, open, workVars>>
  /\ DownWithinBound

\* Mutant: requests that only wait to be finalized are not looked at.
ListWithoutReady(q) ==
  IF q \in Transfers THEN state[q] \in {"SUBMITTED", "ORIGIN_MANAGER_APPROVED"}
  ELSE state[q] = "SUBMITTED"

\* The requests toggleActive looks at.
Listed(q) ==
  IF q \in Transfers
  THEN state[q] \in {"SUBMITTED", "ORIGIN_MANAGER_APPROVED", "READY_TO_FINALIZE"}
  ELSE state[q] \in {"SUBMITTED", "APPROVED"}

\* toggleActive up to its write: the eligible users of each request on the list.
\* "alone" is history: nothing has been written since.
TestUser(c, u) ==
  /\ call[c] = Quiet
  /\ userActive[u] => \A q \in Requests : Listed(q) => u \notin EligibleFor(q, state[q])
  /\ call' = [call EXCEPT ![c] =
       [op |-> "toggleUser", pc |-> "tested", on |-> u, active |-> ~userActive[u], alone |-> TRUE]]
  /\ UNCHANGED <<registryVars, workVars>>

ToggleUser(c) ==
  /\ At(c, "toggleUser", "tested")
  /\ userActive' = [userActive EXCEPT ![call[c].on] = call[c].active]
  /\ ReturnWriting(c)
  /\ UNCHANGED <<roleAt, open, registered, workVars>>
  /\ DownWithinBound

\* update with locationIds: deleteMany and createMany in one transaction, without
\* a look at what the old roles were needed for.
ReplaceRoles(u, as) ==
  /\ roleAt' = [roleAt EXCEPT ![u] = as]
  /\ call' = [d \in Calls |-> IF call[d] # Quiet /\ call[d].op = "toggleUser"
                              THEN [call[d] EXCEPT !.alone = FALSE] ELSE call[d]]
  /\ UNCHANGED <<userActive, open, registered, workVars>>
  /\ DownWithinBound

-----------------------------------------------------------------------------
\* Requests.  Begin* is what a call reads and tests, the action after it the write.
\* "clear" is history: the call found its locations open and its pair registered.

BeginWork(c, op, q, arg, clear) ==
  /\ call[c] = Quiet
  /\ call' = [call EXCEPT ![c] = [op |-> op, pc |-> "read", on |-> q, arg |-> arg, clear |-> clear]]
  /\ UNCHANGED <<registryVars, workVars>>

\* The bound MaxRequests counts the creates under way, which hold their id.
Coming == {call[d].on : d \in {e \in Calls : At(e, "create", "read")}}

Fresh(q) ==
  /\ state[q] = "ABSENT" /\ q \notin Coming
  /\ Cardinality({r \in Requests : state[r] # "ABSENT"} \cup Coming) < MaxRequests

\* create: the source is accessible, both ends are open.
BeginTransfer(c, q) ==
  /\ Fresh(q)
  /\ Someone(LAMBDA u : HasAccess(u, route[q][1]))
  /\ AllOpen({route[q][1], route[q][2]})
  /\ BeginWork(c, "create", q, "none", AllOpen({route[q][1], route[q][2]}))

\* create: only the location of the first role found is tested, if there is one.
BeginAdjustment(c, q) ==
  /\ Fresh(q)
  /\ Someone(LAMBDA u : AssignedTo(u) = {} \/ \E l \in AssignedTo(u) : open[l])
  /\ BeginWork(c, "create", q, "none", TRUE)

\* History: what a call found open has been closed since, or is about to be.
LocationShut(c, l) == call[c].clear /\ (~open[l] \/ LocationClosing(l))
PairShut(c, x)     == call[c].clear /\ (~registered[x] \/ PairClosing(x))

Insert(c) ==
  LET q == call[c].on IN
  /\ At(c, "create", "read")
  /\ state' = [state EXCEPT ![q] = "DRAFT"]
  /\ excused' = IF q \in Transfers /\ \E l \in Locations : Touches(q, l) /\ LocationShut(c, l)
                THEN excused \cup {q} ELSE excused
  /\ ReturnWriting(c)
  /\ UNCHANGED <<registryVars, route, items>>

\* addItem: the registration at the location of the line (a transfer's source).
BeginAddItem(c, q, x) ==
  /\ state[q] = "DRAFT"
  /\ IF q \in Transfers THEN x[2] = route[q][1] ELSE open[x[2]]
  /\ Someone(LAMBDA u : HasAccess(u, x[2]))
  /\ registered[x]
  /\ BeginWork(c, "addItem", q, x, registered[x] /\ (q \in Transfers \/ open[x[2]]))

AddItem(c) ==
  LET q == call[c].on
      x == call[c].arg
  IN
  /\ At(c, "addItem", "read")
  /\ state[q] # "DELETED"
  /\ items' = [items EXCEPT ![q] = @ \cup {x}]
  /\ excused' = IF (q \in Adjustments /\ LocationShut(c, x[2])) \/ PairShut(c, x)
                THEN excused \cup {q} ELSE excused
  /\ ReturnWriting(c)
  /\ UNCHANGED <<registryVars, state, route>>

\* updateItem of an adjustment: access to the old location is tested, the new
\* location and its flags are not.
BeginMoveItem(c, q, x) ==
  /\ q \in Adjustments
  /\ state[q] = "DRAFT"
  /\ x \in items[q]
  /\ Someone(LAMBDA u : HasAccess(u, x[2]))
  /\ BeginWork(c, "updateItem", q, x, TRUE)

MoveItem(c, y) ==
  LET q == call[c].on IN
  /\ At(c, "updateItem", "read")
  /\ call[c].arg \in items[q]
  /\ items' = [items EXCEPT ![q] = (@ \ {call[c].arg}) \cup {y}]
  /\ excused' = excused \cup {q}
  /\ ReturnWriting(c)
  /\ UNCHANGED <<registryVars, state, route>>

\* The tests of the steps that follow, for a user u on a request q.
MaySubmit(u, q) ==
  /\ state[q] = "DRAFT"
  /\ items[q] # {}
  /\ q \in Transfers => HasAccess(u, route[q][1])

MayApproveOrigin(u, q) ==
  /\ q \in Transfers
  /\ state[q] = "SUBMITTED"
  /\ items[q] # {}
  /\ IsManager(u, route[q][1])
  /\ open[route[q][1]]

MayApproveDestination(u, q) ==
  /\ q \in Transfers
  /\ state[q] = "ORIGIN_MANAGER_APPROVED"
  /\ HasAccess(u, route[q][2])
  /\ open[route[q][2]]

MayApprove(u, q) ==
  /\ q \in Adjustments
  /\ state[q] = "SUBMITTED"
  /\ items[q] # {}
  /\ ManagesAny(u)
  /\ \E l \in LineLocations(q) : HasAccess(u, l)
  /\ AllOpen(LineLocations(q))

MayReject(u, q) ==
  \/ q \in Transfers /\ state[q] = "SUBMITTED" /\ IsManager(u, route[q][1])
  \/ q \in Transfers /\ state[q] = "ORIGIN_MANAGER_APPROVED" /\ HasAccess(u, route[q][2])
  \/ q \in Adjustments /\ state[q] = "SUBMITTED" /\ ManagesAny(u)
       /\ (items[q] = {} \/ \E l \in LineLocations(q) : HasAccess(u, l))

\* A transfer's products must be registered at its destination, an adjustment's
\* lines where they are; somebody active must be able to finalize.
MayFinalize(u, q) ==
  /\ items[q] # {}
  /\ EligibleFor(q, state[q]) # {}
  /\ \/ /\ q \in Transfers
        /\ state[q] = "READY_TO_FINALIZE"
        /\ HasAccess(u, route[q][2])
        /\ AllOpen({route[q][1], route[q][2]})
        /\ \A x \in items[q] : registered[<<x[1], route[q][2]>>]
     \/ /\ q \in Adjustments
        /\ state[q] = "APPROVED"
        /\ \E l \in LineLocations(q) : HasAccess(u, l)
        /\ AllOpen(LineLocations(q))
        /\ LinesActive(q)

\* CANCELLABLE_STATUSES; an adjustment is cancelled unless it is over.
Cancellable(q) ==
  IF q \in Transfers THEN {"SUBMITTED", "ORIGIN_MANAGER_APPROVED", "READY_TO_FINALIZE"}
  ELSE PendingStates

\* The creator may cancel as well; any actor can be the creator.
MayCancel(u, q) == state[q] \in Cancellable(q)

Step(u, q, op) ==
  \/ op = "submit" /\ MaySubmit(u, q)
  \/ op = "approveOrigin" /\ MayApproveOrigin(u, q)
  \/ op = "approveDestination" /\ MayApproveDestination(u, q)
  \/ op = "approve" /\ MayApprove(u, q)
  \/ op = "reject" /\ MayReject(u, q)
  \/ op = "finalize" /\ MayFinalize(u, q)
  \/ op = "cancel" /\ MayCancel(u, q)
  \/ op = "deleteRequest" /\ state[q] = "DRAFT"

Steps == {"submit", "approveOrigin", "approveDestination", "approve", "reject",
          "finalize", "cancel", "deleteRequest"}

BeginStep(c, q, op) == Someone(LAMBDA u : Step(u, q, op)) /\ BeginWork(c, op, q, state[q], TRUE)

Outcome(op) ==
  CASE op = "submit"             -> "SUBMITTED"
    [] op = "approveOrigin"      -> "ORIGIN_MANAGER_APPROVED"
    [] op = "approveDestination" -> "READY_TO_FINALIZE"
    [] op = "approve"            -> "APPROVED"
    [] op = "reject"             -> "REJECTED"
    [] op = "finalize"           -> "FINALIZED"
    [] op = "cancel"             -> "CANCELLED"
    [] op = "deleteRequest"      -> "DELETED"

\* The statuses the write accepts: a claim names them, an update by id does not.
Accepts(q, op, seen) ==
  CASE op = "deleteRequest" -> TerminalStates \cup PendingStates
    [] op \in {"submit", "approve"} /\ q \in Adjustments -> TerminalStates \cup PendingStates
    [] op = "reject" /\ q \in Transfers -> {"SUBMITTED", "ORIGIN_MANAGER_APPROVED"}
    [] op = "cancel" /\ q \in Transfers -> Cancellable(q)
    [] OTHER -> {seen}

\* An update by id may bring a finished request back.
TakeStep(c) ==
  LET q  == call[c].on
      op == call[c].op
  IN
  /\ call[c] # Quiet /\ op \in Steps
  /\ IF state[q] \in Accepts(q, op, call[c].arg)
     THEN /\ state' = [state EXCEPT ![q] = Outcome(op)]
          /\ excused' = IF ~Pending(q) THEN excused \cup {q} ELSE excused
          /\ ReturnWriting(c)
     ELSE Return(c) /\ UNCHANGED <<state, excused>>
  /\ UNCHANGED <<registryVars, route, items>>

-----------------------------------------------------------------------------
AdminNext(c) ==
  \/ \E l \in Locations : CountAtLocation(c, l)
  \/ ToggleLocation(c)
  \/ \E x \in Pairs, active \in BOOLEAN : CountAtPair(c, x, active)
  \/ ToggleRegistration(c)
  \/ \E u \in Users : TestUser(c, u)
  \/ ToggleUser(c)

WorkNext(c) ==
  \/ /\ call[c] = Quiet
     /\ \/ \E q \in Transfers : BeginTransfer(c, q)
        \/ \E q \in Adjustments : BeginAdjustment(c, q)
        \/ \E q \in Requests, x \in Pairs : BeginAddItem(c, q, x) \/ BeginMoveItem(c, q, x)
        \/ \E q \in Requests, op \in Steps : BeginStep(c, q, op)
  \/ Insert(c)
  \/ AddItem(c)
  \/ \E y \in Pairs : MoveItem(c, y)
  \/ TakeStep(c)

GuardNext ==
  \/ \E c \in Calls : AdminNext(c) \/ WorkNext(c)
  \/ \E u \in Users, as \in Assignments : ReplaceRoles(u, as)

GuardSpec == GuardInit /\ [][GuardNext]_guardVars

-----------------------------------------------------------------------------
States == {"ABSENT", "DELETED"} \cup TerminalStates \cup PendingStates

\* The shape of the tables.
GuardTypeOK ==
  /\ userActive \in [Users -> BOOLEAN]
  /\ roleAt \in [Users -> Assignments]
  /\ open \in [Locations -> BOOLEAN]
  /\ registered \in [Pairs -> BOOLEAN]
  /\ state \in [Requests -> States]
  /\ route \in [Transfers -> Routes]
  /\ items \in [Requests -> SUBSET Pairs]
  /\ excused \subseteq Requests

\* No pending request is left at a closed location or on a closed registration, except
\* one whose create or addItem had tested the door before it closed and wrote behind
\* it, or that an update by id brought back, or whose line updateItem moved: the counts
\* look at both ends, at every status and at every line.  (A transfer's products need
\* no registration at the destination until it is finalized.)
NoneStranded ==
  \A q \in Requests \ excused : Pending(q) =>
    /\ \A l \in Locations : Touches(q, l) => open[l]
    /\ \A x \in items[q] : registered[x]

Served(May(_, _), q) == \E u \in Users : userActive[u] /\ May(u, q)

\* What the readiness of a location promises when a transfer is created is what the
\* handlers demand later: as long as the dialog would not warn of its ends, and they
\* are open, an active user can take the transfer's next step.
ReadyMeansServed ==
  \A q \in Transfers : items[q] # {} /\ ~Warns(q) /\ AllOpen({route[q][1], route[q][2]}) =>
    /\ state[q] = "SUBMITTED" => Served(MayApproveOrigin, q)
    /\ state[q] = "ORIGIN_MANAGER_APPROVED" => Served(MayApproveDestination, q)
    /\ state[q] = "READY_TO_FINALIZE"
         /\ (\A x \in items[q] : registered[<<x[1], route[q][2]>>]) => Served(MayFinalize, q)

\* toggleActive deactivates nobody whom a request under way waits for, as long as
\* no other call wrote between its reads and its write.
DeactivatedNotNeeded ==
  [][\A c \in Calls :
       (At(c, "toggleUser", "tested") /\ ToggleUser(c) /\ ~call[c].active /\ call[c].alone)
         => \A q \in Requests : call[c].on \notin EligibleFor(q, state[q])]_guardVars
=============================================================================
