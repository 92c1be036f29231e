------------------------------- MODULE Accounts -------------------------------
(***************************************************************************)
(* Users and their roles at locations.  A user is created first and given    *)
(* roles next; an update writes the user's fields first and replaces the      *)
(* roles next.  An update that names no role keeps the one of the first       *)
(* location it read before.                                                   *)
(***************************************************************************)
EXTENDS Naturals, FiniteSets

CONSTANTS
  People,    \* the non-administrators
  Places,    \* the locations there are
  NoPlace,   \* a location id that does not exist
  Managers   \* the calls of administrators in flight at one time

ASSUME AccountsAssumption == NoPlace \notin Places

VARIABLES
  present,   \* the users
  roles,     \* UserLocationRole
  task       \* the calls

accountVars == <<present, roles, task>>

RoleNames == {"OPERATOR", "MANAGER"}
NoTask    == [pc |-> "none"]
Assigned(u) == {l \in Places : roles[u][l] # "NONE"}
Busy(u)   == \E c \in Managers : task[c] # NoTask /\ task[c].user = u

Receive(c, t) ==
  /\ task[c] = NoTask
  /\ task' = [task EXCEPT ![c] = t]
  /\ UNCHANGED <<present, roles>>

\* create: the role is named.
BeginCreateUser(c, u, asked, role) ==
  /\ u \notin present /\ ~Busy(u)
  /\ Receive(c, [pc |-> "create", user |-> u, asked |-> asked, role |-> role])

\* The row is inserted before the locations are looked up; with none asked for, create is
\* over.
InsertUser(c) ==
  /\ task[c] # NoTask /\ task[c].pc = "create"
  /\ present' = present \cup {task[c].user}
  /\ task' = [task EXCEPT ![c] = IF @.asked = {} THEN NoTask ELSE [@ EXCEPT !.pc = "assign"]]
  /\ UNCHANGED roles

\* The role of one of the locations the user had when the call read it.
RoleBefore(u) == {roles[u][l] : l \in Assigned(u)}

\* update, up to its first write; "NONE": the body names no role.
BeginUpdateUser(c, u, asked, named) ==
  /\ u \in present
  /\ \E role \in RoleNames :
       /\ role \in IF named # "NONE" THEN {named}
                   ELSE IF RoleBefore(u) = {} THEN {"OPERATOR"} ELSE RoleBefore(u)
       /\ Receive(c, [pc |-> "assign", user |-> u, asked |-> asked, role |-> role])

\* Mutant: the old assignments are not deleted first.
ReplacedOnto(u, asked, role) == [l \in Places |-> IF l \in asked THEN role ELSE roles[u][l]]

\* replaceLocationRoles: deleteMany and createMany in one transaction.
Replaced(u, asked, role) == [l \in Places |-> IF l \in asked THEN role ELSE "NONE"]

\* validateLocationsExist, and the write; an update to no location takes all roles.
AssignRoles(c) ==
  LET t == task[c] IN
  /\ t # NoTask /\ t.pc = "assign"
  /\ roles' = IF t.asked \subseteq Places
              THEN [roles EXCEPT ![t.user] = Replaced(t.user, t.asked, t.role)]
              ELSE roles
  /\ task' = [task EXCEPT ![c] = NoTask]
  /\ UNCHANGED present

\* The server stops, or a query fails: the user stays without the roles asked for.
LoseTask(c) ==
  /\ task[c] # NoTask
  /\ task' = [task EXCEPT ![c] = NoTask]
  /\ UNCHANGED <<present, roles>>

AccountInit ==
  /\ present = {}
  /\ roles = [u \in People |-> [l \in Places |-> "NONE"]]
  /\ task = [c \in Managers |-> NoTask]

AccountNext ==
  \E c \in Managers :
    \/ \E u \in People, asked \in SUBSET (Places \cup {NoPlace}), role \in RoleNames :
         BeginCreateUser(c, u, asked, role) \/ BeginUpdateUser(c, u, asked, role)
    \/ \E u \in People, asked \in SUBSET (Places \cup {NoPlace}) :
         BeginUpdateUser(c, u, asked, "NONE")
    \/ InsertUser(c) \/ AssignRoles(c) \/ LoseTask(c)

AccountSpec == AccountInit /\ [][AccountNext]_accountVars

\* The shape of the tables; roles are only held by users there are.
AccountTypeOK ==
  /\ present \subseteq People
  /\ roles \in [People -> [Places -> RoleNames \cup {"NONE"}]]
  /\ \A u \in People \ present : Assigned(u) = {}

\* A user has one role at all locations: update and the administration page take the
\* first location's role for the role of the user.
OneRoleEach == \A u \in present : Cardinality(RoleBefore(u)) <= 1
=============================================================================
