------------------------------- MODULE Listings -------------------------------
(***************************************************************************)
(* The paged lists: transfers, adjustments, the ledger, audit logs,           *)
(* registrations and products.  A page of a list is a request of its own,     *)
(* answered from a query of what the user may see, a query of the rows        *)
(* (skip, take) and a query of their number, while rows come, change and go.  *)
(*                                                                           *)
(* A reader turns the pages forwards.  Pages that are shown again from the    *)
(* query cache, and the fetches of a page already shown, are Client's.        *)
(***************************************************************************)
EXTENDS Integers, Sequences, FiniteSets, SequencesExt

CONSTANTS
  Halls,       \* the locations (the categories, in the list of products)
  Spans,       \* the source and destination of a transfer, as a set
  Wanted,      \* the locations (categories) asked for; the reader's at first
  RolesGiven,  \* the sets of locations a user may have roles at
  Limits,      \* the numbers of rows on a page that are offered
  MaxListed,   \* bound: rows ever in the table
  MaxChanges   \* bound: changes of the tables

ASSUME ListingsAssumption ==
  /\ Limits \subseteq Nat \ {0} /\ Limits # {} /\ MaxListed \in Nat \ {0, 1} /\ MaxChanges \in Nat
  /\ Wanted \subseteq Halls /\ RolesGiven \subseteq SUBSET Halls

VARIABLES
  book,     \* which list
  listing,  \* its rows, in the order the list has
  born,     \* how many rows there ever were
  changes,  \* how often the tables changed
  reader,   \* the user: administrator, the locations of the roles
  applied,  \* the filter of the list
  limit,    \* rows per page
  request,  \* the request for a page under way
  leaf,     \* the page on the screen
  reading   \* history of the read-through: the rows listed when it began, those
            \* shown, how many have come, gone or moved, whether the roles stayed

tableVars == <<listing, born, changes>>
leafVars  == <<applied, limit, request, leaf>>
listVars  == <<book, tableVars, reader, leafVars, reading>>

Everything == "all"
NoFilter   == [mark |-> Everything, hall |-> Everything]
NoRequest  == [pc |-> "none"]
NotShown   == [rows |-> {}, total |-> -1, page |-> 0]
Books      == {"transfers", "adjustments", "ledger", "audit", "registrations", "products"}

\* The status of a request or registration, the entity of an audit log.
Marks == CASE book \in {"transfers", "adjustments"} -> {"DRAFT", "SUBMITTED"}
           [] book = "audit" -> {"TRANSFER", "ADJUSTMENT"}
           [] book = "registrations" -> {"ACTIVE", "INACTIVE"}
           [] OTHER -> {"ROW"}

\* A request is created a draft, a registration usually active.
FirstMark == CASE book \in {"transfers", "adjustments"} -> "DRAFT"
               [] book = "audit" -> "TRANSFER"
               [] book = "registrations" -> "ACTIVE"
               [] OTHER -> "ROW"

\* The locations a row is found by: both ends of a transfer, the lines of an adjustment.
PlacesOf ==
  CASE book = "transfers" -> Spans
    [] book = "adjustments" -> {{}} \cup {{h} : h \in Halls}
    [] OTHER -> {{h} : h \in Halls}

-----------------------------------------------------------------------------
(* What each list queries for.  "scope" is what an earlier query has found. *)

Marked(r, f)  == f.mark \in {Everything, r.mark}
Within(r, f)  == f.hall = Everything \/ f.hall \in r.places

\* An explicit location takes the place of the roles; only an administrator's counts.
TransferListed(r, f, scope) ==
  Marked(r, f) /\ IF reader.admin THEN Within(r, f) ELSE r.places \cap scope # {}

\* A draft without lines is listed for its creator.
AdjustmentListed(r, f, scope) ==
  Marked(r, f) /\ IF reader.admin THEN Within(r, f) ELSE r.places \cap scope # {} \/ r.mine

LedgerListed(r, f, scope) == r.places \subseteq scope

\* The log names its request; the requests at the location were read before.
AuditListed(r, f, scope) == Marked(r, f) /\ (f.hall = Everything \/ r.id \in scope)

RegistrationListed(r, f, scope) == Marked(r, f) /\ Within(r, f)
ProductListed(r, f, scope)      == Within(r, f)

IsListed(r, f, scope) ==
  CASE book = "transfers"     -> TransferListed(r, f, scope)
    [] book = "adjustments"   -> AdjustmentListed(r, f, scope)
    [] book = "ledger"        -> LedgerListed(r, f, scope)
    [] book = "audit"         -> AuditListed(r, f, scope)
    [] book = "registrations" -> RegistrationListed(r, f, scope)
    [] book = "products"      -> ProductListed(r, f, scope)

RequestScope  == reader.at
Visible       == IF reader.admin THEN Halls ELSE reader.at
LedgerScope(f) == IF f.hall = Everything THEN Visible ELSE {f.hall}
AuditScope(f) == {listing[k].id : k \in {j \in DOMAIN listing : f.hall \in listing[j].places}}

ScopeOf(f) == CASE book = "ledger" -> LedgerScope(f)
                [] book = "audit"  -> AuditScope(f)
                [] OTHER           -> RequestScope

\* The positions of the rows a query finds, and the number of one among them.
RowsFor(f, scope) == {k \in DOMAIN listing : IsListed(listing[k], f, scope)}
Rank(rows, k)     == Cardinality({j \in rows : j <= k})
IdsOf(rows)       == {listing[k].id : k \in rows}

RowsNow(f)   == RowsFor(f, ScopeOf(f))
ListedNow(f) == IdsOf(RowsNow(f))
OrderNow(f)  == {<<listing[k].id, Rank(RowsNow(f), k)>> : k \in RowsNow(f)}

-----------------------------------------------------------------------------
(* The tables.  A row that comes, or comes into the list, moves those after it. *)

\* The newest first; registrations are ordered by their product's name, products by SKU.
Slots == IF book \in {"registrations", "products"} THEN 1..Len(listing) + 1 ELSE {1}

Newborn(places, mark, mine) == [id |-> born + 1, places |-> places, mark |-> mark, mine |-> mine]

Insertion(places, mark, mine) ==
  /\ born < MaxListed
  /\ \E k \in Slots : listing' = InsertAt(listing, k, Newborn(places, mark, mine))
  /\ born' = born + 1
  /\ UNCHANGED reader

\* A request submitted, a registration switched.
Remark(k, mark) ==
  /\ book \in {"transfers", "adjustments", "registrations"}
  /\ book # "registrations" => listing[k].mark = "DRAFT"
  /\ listing' = [listing EXCEPT ![k].mark = mark]
  /\ UNCHANGED <<born, reader>>

\* A draft's lines edited (the request a log names edited, or deleted), a product
\* given another category.
Replace(k, places) ==
  /\ book \in {"adjustments", "audit", "products"}
  /\ book = "adjustments" => listing[k].mark = "DRAFT"
  /\ listing' = [listing EXCEPT ![k].places = places]
  /\ UNCHANGED <<born, reader>>

\* A draft deleted.
Removal(k) ==
  /\ book \in {"transfers", "adjustments"} /\ listing[k].mark = "DRAFT"
  /\ listing' = RemoveAt(listing, k)
  /\ UNCHANGED <<born, reader>>

\* A product renamed, given another SKU or retired: its row takes another place.
Reorder(k, j) ==
  /\ book \in {"registrations", "products"} /\ j # k
  /\ listing' = InsertAt(RemoveAt(listing, k), j, listing[k])
  /\ UNCHANGED <<born, reader>>

\* An administrator replaces the reader's roles.
Reassign(halls) ==
  /\ ~reader.admin /\ halls # reader.at
  /\ reader' = [reader EXCEPT !.at = halls]
  /\ UNCHANGED <<listing, born>>

\* Rows of the list that come, leave, or take another place.
Disturbance(f) ==
  Cardinality((ListedNow(f) \cup ListedNow(f)') \ (ListedNow(f) \cap ListedNow(f)'))
    + IF ListedNow(f) = ListedNow(f)' /\ OrderNow(f) # OrderNow(f)' THEN 1 ELSE 0

\* Any of them, by anybody.
Change ==
  /\ changes < MaxChanges /\ changes' = changes + 1
  /\ \/ \E places \in PlacesOf, mark \in Marks, mine \in BOOLEAN :
          (mine => book = "adjustments") /\ Insertion(places, mark, mine)
     \/ \E k \in DOMAIN listing, mark \in Marks : Remark(k, mark)
     \/ \E k \in DOMAIN listing, places \in {{}} \cup PlacesOf : Replace(k, places)
     \/ \E k \in DOMAIN listing : Removal(k)
     \/ \E k, j \in DOMAIN listing : Reorder(k, j)
     \/ \E halls \in RolesGiven : Reassign(halls)
  /\ UNCHANGED <<book, leafVars>>
  /\ reading' = [reading EXCEPT
       !.moved = @ + Disturbance(applied),
       !.steady = @ /\ reader' = reader]

-----------------------------------------------------------------------------
(* The page. *)

\* Registrations and products are queried for at once.
ToFetch(p) == [pc |-> IF book \in {"registrations", "products"} THEN "reading" ELSE "asked",
               page |-> p, scope |-> {}, got |-> {}, rows |-> {}, total |-> -1]
Anew(f)    == [base |-> ListedNow(f), seen |-> {}, moved |-> 0, steady |-> TRUE]

\* Mutant: the page is kept when the filter changes.
ApplyOnPage(f) ==
  /\ f # applied
  /\ applied' = f
  /\ request' = ToFetch(leaf.page) /\ leaf' = [NotShown EXCEPT !.page = leaf.page]
  /\ reading' = Anew(f)
  /\ UNCHANGED <<book, tableVars, reader, limit>>

\* Apply takes the filter that was staged, Clear takes none; both go to the first page.
Apply(f) ==
  /\ f # applied
  /\ applied' = f
  /\ request' = ToFetch(0) /\ leaf' = NotShown
  /\ reading' = Anew(f)
  /\ UNCHANGED <<book, tableVars, reader, limit>>

LastPage == (leaf.page + 1) * limit >= leaf.total

Turn ==
  /\ leaf.total # -1 /\ ~LastPage
  /\ request' = ToFetch(leaf.page + 1) /\ leaf' = [NotShown EXCEPT !.page = leaf.page + 1]
  /\ UNCHANGED <<book, tableVars, reader, applied, limit, reading>>

Resize(n) ==
  /\ book \notin {"ledger", "products"}
  /\ leaf.total # -1 /\ n # limit /\ limit' = n
  /\ request' = ToFetch(0) /\ leaf' = NotShown
  /\ reading' = Anew(applied)
  /\ UNCHANGED <<book, tableVars, reader, applied>>

-----------------------------------------------------------------------------
(* The answer: first what may be listed, then rows and number side by side. *)

\* The ledger of a location where the reader has no role.
Forbidden == book = "ledger" /\ applied.hall \notin Visible \cup {Everything}

Refuse ==
  /\ request.pc = "asked" /\ Forbidden
  /\ request' = NoRequest
  /\ UNCHANGED <<book, tableVars, reader, applied, limit, leaf, reading>>

FindScope ==
  /\ request.pc = "asked" /\ ~Forbidden
  /\ request' = [request EXCEPT !.pc = "reading", !.scope = ScopeOf(applied)]
  /\ UNCHANGED <<book, tableVars, reader, applied, limit, leaf, reading>>

Skip == request.page * limit

FindMany ==
  /\ request.pc = "reading" /\ "rows" \notin request.got
  /\ LET rows == RowsFor(applied, request.scope) IN
     request' = [request EXCEPT
       !.got = @ \cup {"rows"},
       !.rows = IdsOf({k \in rows : Skip < Rank(rows, k) /\ Rank(rows, k) <= Skip + limit})]
  /\ UNCHANGED <<book, tableVars, reader, applied, limit, leaf, reading>>

CountRows ==
  /\ request.pc = "reading" /\ "total" \notin request.got
  /\ request' = [request EXCEPT !.got = @ \cup {"total"},
                                !.total = Cardinality(RowsFor(applied, request.scope))]
  /\ UNCHANGED <<book, tableVars, reader, applied, limit, leaf, reading>>

Display ==
  /\ request.pc = "reading" /\ request.got = {"rows", "total"}
  /\ leaf' = [rows |-> request.rows, total |-> request.total, page |-> request.page]
  /\ request' = NoRequest
  /\ reading' = [reading EXCEPT !.seen = @ \cup request.rows]
  /\ UNCHANGED <<book, tableVars, reader, applied, limit>>

-----------------------------------------------------------------------------
ListInit ==
  /\ book \in Books
  /\ \E places \in {p \in PlacesOf : p # {}} :
       listing = [k \in 1..2 |-> [id |-> 3 - k, places |-> places, mark |-> FirstMark, mine |-> FALSE]]
  /\ born = 2 /\ changes = 0
  /\ reader \in [admin : BOOLEAN, at : {Wanted}]
  /\ book \in {"audit", "registrations", "products"} => reader.admin
  /\ applied \in {NoFilter} \cup {[NoFilter EXCEPT !.hall = h] : h \in Wanted}
  /\ applied # NoFilter => book = "ledger"
  /\ limit = Min(Limits)
  /\ request = ToFetch(0) /\ leaf = NotShown
  /\ reading = Anew(applied)

Filters == [mark : {Everything, FirstMark}, hall : {Everything} \cup Wanted]

ListNext ==
  \/ Change
  \/ book # "ledger" /\ \E f \in Filters : Apply(f)
  \/ Turn
  \/ \E n \in Limits : Resize(n)
  \/ Refuse \/ FindScope \/ FindMany \/ CountRows \/ Display

ListSpec == ListInit /\ [][ListNext]_listVars

ListTypeOK ==
  /\ book \in Books /\ born <= MaxListed /\ changes <= MaxChanges
  /\ Cardinality({listing[k].id : k \in DOMAIN listing}) = Len(listing)
  /\ applied \in Filters /\ limit \in Limits
  /\ leaf.total >= -1 /\ leaf.page >= 0

\* A reader who has turned all the pages of a list, and kept their roles, has been
\* shown every row that was listed when they began and still is, except at most as
\* many as have come into the list, left it or taken another place in it meanwhile:
\* skip counts rows from the front, and the number comes from another query.
ReadThroughMissesFew ==
  leaf.total # -1 /\ LastPage /\ reading.steady =>
    Cardinality((reading.base \cap ListedNow(applied)) \ reading.seen) <= reading.moved
=============================================================================
