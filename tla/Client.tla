-------------------------------- MODULE Client --------------------------------
(***************************************************************************)
(* One browser tab: its page, the query cache the pages share, and the        *)
(* writing call a page has under way.  The cache is followed for one table of  *)
(* the database at a time, of which only the version counts.                    *)
(***************************************************************************)
EXTENDS Services, Integers, Sequences, TLC

CONSTANTS
  Tracked,    \* the tables followed, one per behaviour
  MaxWrites,  \* bound on the writes to it
  MaxTurns    \* bound, for a table, on how often the user turns to a page, a filter or the window

VARIABLES
  table,    \* the table followed
  version,  \* how often it was written
  turns,    \* how often the user turned to something
  place,    \* the page on the screen
  setting,  \* which of two filter settings its list has
  cache,    \* the cached answers
  call,     \* the call under way
  floor     \* history: the version an answer must not fall behind

clientVars == <<table, version, turns, place, setting, cache, call, floor>>

-----------------------------------------------------------------------------
(* The pages: the queries whose answers they show, and the calls they make.    *)

\* A query on key k that shows these tables; the lists have the page's filters in their key.
List(k, tables)   == [key |-> k, of |-> tables, filtered |-> TRUE]
Lookup(k, tables) == [key |-> k, of |-> tables, filtered |-> FALSE]

\* A call posts what writes these tables, one request after the other; when all were
\* accepted it refreshes the keys and may open another page.  A loop that catches each
\* request's error goes on, and refreshes at the end whatever failed.
Call(posts, keys)     == [posts |-> posts, refresh |-> keys, opens |-> "", goesOn |-> FALSE]
Then(c, p)            == [c EXCEPT !.opens = p]
GoingOn(c)            == [c EXCEPT !.goesOn = TRUE]
Screen(queries, calls) == [queries |-> queries, calls |-> calls]

\* The presets of one list: shown on its page, and saved or deleted there.
PresetKeys == [PRODUCTS |-> "saved-filters PRODUCTS", STOCK |-> "saved-filters STOCK",
               PRODUCT_REGISTRATION |-> "saved-filters PRODUCT_REGISTRATION"]

PresetQuery(m) == Lookup(PresetKeys[m], savedFiltersService(m).getAll)
Presets(m)     == {Call(<<savedFiltersService(m).create>>, {PresetKeys[m]}),
                   Call(<<savedFiltersService(m).delete>>, {PresetKeys[m]})}

AdminLocationsPage == LET s == adminLocationsService IN Screen(
  {List("admin-locations", s.getAll)},
  {Call(<<posts>>, {"admin-locations"}) : posts \in {s.create, s.update, s.toggleActive}})

\* Mutant: a user changed is not looked up again.
AdminUsersPageUnrefreshed ==
  Screen({List("admin-users", {"users"}), Lookup("admin-locations", {"locations"})},
         {Call(<<{"users"}>>, {})})

AdminUsersPage == LET s == adminUsersService IN Screen(
  {List("admin-users", s.getAll), Lookup("admin-locations", adminLocationsService.getAll)},
  {Call(<<posts>>, {"admin-users"}) : posts \in {s.create, s.update, s.toggleActive}}
    \cup {Call(<<s.resetPassword>>, {})})

VendorsPage == LET s == vendorsService IN Screen(
  {Lookup("vendors", s.getAll)}, {Call(<<posts>>, {"vendors"}) : posts \in {s.create, s.update}})
UomsPage == LET s == uomsService IN Screen(
  {Lookup("uoms", s.getAll)}, {Call(<<s.create>>, {"uoms"})})
CategoriesPage == LET s == categoriesService IN Screen(
  {Lookup("categories", s.getAll)}, {Call(<<posts>>, {"categories"}) : posts \in {s.create, s.update}})

\* renameSku, and then update; a refused update leaves the renamed product unrefreshed.
EditProduct == Call(<<productsService.renameSku, productsService.update>>, {"products"})
\* handleMultiSubmit, with two rows.
CreateMany  == GoingOn(Call(<<productsService.create, productsService.create>>, {"products"}))
Upload      == Call(<<productsService.uploadBulkProducts>>, {"products"})

ProductsPage == LET s == productsService IN Screen(
  {Lookup("categories", categoriesService.getAll), Lookup("vendors", vendorsService.getAll),
   Lookup("uoms", uomsService.getAll), List("products", s.getAll),
   PresetQuery("PRODUCTS")},
  Presets("PRODUCTS") \cup {EditProduct, CreateMany, Upload}
    \cup {Call(<<posts>>, {"products"}) : posts \in {s.create, s.retire}})

ProductRegistrationsPage == LET s == productRegistrationsService IN Screen(
  {Lookup("categories", categoriesService.getAll), Lookup("products", productsService.getAll),
   Lookup("all-locations", stockService.getAllLocations), List("product-registrations", s.getAll),
   PresetQuery("PRODUCT_REGISTRATION"),
   Lookup("check-deactivate", s.checkDeactivation)},
  Presets("PRODUCT_REGISTRATION")
    \cup {Call(<<posts>>, {"product-registrations"}) : posts \in {s.create, s.update, s.bulkToggle}})

\* The files of a request, on its page: two uploaded, or one deleted.
AttachmentQueries == {Lookup("attachments", attachmentsService.list)}
AttachmentCalls   == LET s == attachmentsService
                     IN {Call(<<s.upload, s.upload>>, {"attachments"}), Call(<<s.delete>>, {"attachments"})}

StockTransfersPage == Screen(
  {Lookup("locations-mine", stockService.getVisibleLocations),
   Lookup("locations-all", stockService.getAllLocations),
   Lookup("location-readiness", stockService.getLocationReadiness),
   Lookup("location-readiness-trf-list", stockService.getLocationReadiness),
   List("stock-transfers", stockTransfersService.getAll)},
  {Then(Call(<<stockTransfersService.create>>, {"stock-transfers"}), "transfer")})

StockTransferDetailPage == LET s == stockTransfersService IN Screen(
  {Lookup("stock-transfer", s.getById), Lookup("locations-mine", stockService.getVisibleLocations),
   Lookup("registered-products-dest", stockService.getRegisteredProducts),
   Lookup("location-readiness", stockService.getLocationReadiness)} \cup AttachmentQueries,
  {Call(<<posts>>, {"stock-transfer", "stock-transfers"}) :
     posts \in {s.addItem, s.updateItem, s.deleteItem, s.submit, s.approveOrigin, s.approveDestination,
                s.finalize, s.reject, s.cancel}}
    \cup {Then(Call(<<s.deleteRequest>>, {"stock-transfers"}), "transfers")} \cup AttachmentCalls)

StockAdjustmentsPage == Screen(
  {Lookup("locations-mine", stockService.getVisibleLocations),
   Lookup("locations-all", stockService.getAllLocations),
   Lookup("location-readiness-adj-list", stockService.getLocationReadiness),
   List("stock-adjustments", stockAdjustmentsService.getAll)},
  {Then(Call(<<stockAdjustmentsService.create>>, {"stock-adjustments"}), "adjustment")})

StockAdjustmentDetailPage == LET s == stockAdjustmentsService IN Screen(
  {Lookup("stock-adjustment", s.getById), Lookup("locations-mine", stockService.getVisibleLocations),
   Lookup("location-readiness-adj", stockService.getLocationReadiness),
   Lookup("locations-simple", stockService.getVisibleLocations),
   Lookup("registered-products", stockService.getRegisteredProducts)} \cup AttachmentQueries,
  {Call(<<posts>>, {"stock-adjustment", "stock-adjustments"}) :
     posts \in {s.addItem, s.updateItem, s.deleteItem, s.submit, s.approve, s.finalize, s.reject, s.cancel}}
    \cup {Then(Call(<<s.deleteRequest>>, {"stock-adjustments"}), "adjustments")} \cup AttachmentCalls)

StockDashboardPage == LET s == stockService IN Screen(
  {Lookup("categories", categoriesService.getAll), Lookup("stock-filter-products", s.getFilterProducts),
   Lookup("stock-visible-locations", s.getVisibleLocations), Lookup("stock-ledger", s.getLedger),
   PresetQuery("STOCK"), List("stock-overview", s.getStockOverview)},
  Presets("STOCK"))

AuditLogsPage == Screen(
  {Lookup("locations-all", stockService.getAllLocations), List("audit-logs", auditLogsService.getAll)}, {})
DashboardPage == Screen(
  {Lookup("dashboard", dashboardService.getMyDashboard), List("dashboard-preview", dashboardService.getPreview)}, {})

\* The router's pages.
Places == {"locations", "users", "vendors", "uoms", "categories", "products", "registrations",
           "transfers", "transfer", "adjustments", "adjustment", "stock", "audit", "dashboard"}

Screens == [p \in Places |->
  CASE p = "locations"     -> AdminLocationsPage
    [] p = "users"         -> AdminUsersPage
    [] p = "vendors"       -> VendorsPage
    [] p = "uoms"          -> UomsPage
    [] p = "categories"    -> CategoriesPage
    [] p = "products"      -> ProductsPage
    [] p = "registrations" -> ProductRegistrationsPage
    [] p = "transfers"     -> StockTransfersPage
    [] p = "transfer"      -> StockTransferDetailPage
    [] p = "adjustments"   -> StockAdjustmentsPage
    [] p = "adjustment"    -> StockAdjustmentDetailPage
    [] p = "stock"         -> StockDashboardPage
    [] p = "audit"         -> AuditLogsPage
    [] p = "dashboard"     -> DashboardPage]

Writes(c) == UNION {c.posts[i] : i \in DOMAIN c.posts}

Tables == UNION {UNION {Writes(c) : c \in Screens[p].calls} : p \in Places}

ASSUME ClientAssumption ==
  Tracked \subseteq Tables /\ MaxWrites \in Nat /\ MaxTurns \in [Tracked -> Nat]

\* The keys a page that writes the table shows it under; the others cannot be behind an
\* own write.  The pages of the table, and the dashboard for anywhere else.
Writers == [t \in Tables |-> {p \in Places : \E c \in Screens[p].calls : t \in Writes(c)}]
Keys    == [t \in Tables |-> UNION {{q.key : q \in {r \in Screens[p].queries : t \in r.of}} : p \in Writers[t]}]
Pages   == [t \in Tables |-> {"dashboard"} \cup Writers[t] \cup
             {p \in Places : \E q \in Screens[p].queries : t \in q.of /\ q.key \in Keys[t]}]

\* The cache entries a page shows a table from, under a filter setting (0: no filters).
ShownOf == [t \in Tables |-> [p \in Places |-> [f \in {1, 2} |->
             {<<q.key, IF q.filtered THEN f ELSE 0>> :
                q \in {r \in Screens[p].queries : t \in r.of /\ r.key \in Keys[t]}}]]]
Shown(p, f) == ShownOf[table][p][f]
Entries     == [t \in Tables |-> UNION {ShownOf[t][p][f] : p \in Places, f \in {1, 2}}]

-----------------------------------------------------------------------------
(* The query cache (the library, as App sets it up).                            *)

Empty == [seen |-> -1, fresh |-> FALSE, error |-> FALSE, fetch |-> "idle", got |-> 0]
Asked(e) == [e EXCEPT !.fetch = "asked", !.got = 0]

\* What a page does with the entries it begins to show: those without an answer, or with
\* one that is stale, are asked for, unless they are being asked for already.
Observe(c, es) == [e \in DOMAIN c |->
  IF e \in es /\ ~c[e].fresh /\ c[e].fetch = "idle" THEN Asked(c[e]) ELSE c[e]]

\* invalidateQueries: stale, and what is on the screen is asked for again.  A question in
\* flight is dropped if there was an answer before it, and is kept if there was none.
Invalidate(c, keys, es) == [e \in DOMAIN c |->
  IF e[1] \notin keys THEN c[e]
  ELSE IF e \in es /\ (c[e].seen >= 0 \/ c[e].fetch = "idle") THEN Asked([c[e] EXCEPT !.fresh = FALSE])
  ELSE [c[e] EXCEPT !.fresh = FALSE]]

Open(p) ==
  /\ turns < MaxTurns[table] /\ turns' = turns + 1
  /\ place' = p /\ setting' = 1
  /\ cache' = Observe(cache, Shown(p, 1))
  /\ UNCHANGED <<table, version, call, floor>>

ApplyFilter ==
  /\ turns < MaxTurns[table] /\ turns' = turns + 1
  /\ setting' = 3 - setting
  /\ cache' = Observe(cache, Shown(place, setting'))
  /\ UNCHANGED <<table, version, place, call, floor>>

\* The window is focused again.
Focus ==
  /\ turns < MaxTurns[table] /\ turns' = turns + 1
  /\ cache' = Observe(cache, Shown(place, setting))
  /\ UNCHANGED <<table, version, place, setting, call, floor>>

\* staleTime is over.
Expire(e) ==
  /\ cache[e].fresh
  /\ cache' = [cache EXCEPT ![e].fresh = FALSE]
  /\ UNCHANGED <<table, version, turns, place, setting, call, floor>>

Read(e) ==
  /\ cache[e].fetch = "asked"
  /\ cache' = [cache EXCEPT ![e].fetch = "read", ![e].got = version]
  /\ UNCHANGED <<table, version, turns, place, setting, call, floor>>

Land(e) ==
  /\ cache[e].fetch = "read"
  /\ cache' = [cache EXCEPT ![e] = [Empty EXCEPT !.seen = cache[e].got,
                                                 !.fresh = (e[1] # "stock-overview")]]
  /\ UNCHANGED <<table, version, turns, place, setting, call, floor>>

\* The retry failed too: the page says so instead of showing the answer it has.
Fail(e) ==
  /\ cache[e].fetch # "idle"
  /\ cache' = [cache EXCEPT ![e].fetch = "idle", ![e].got = 0, ![e].error = TRUE]
  /\ UNCHANGED <<table, version, turns, place, setting, call, floor>>

-----------------------------------------------------------------------------
(* Calls. *)

NoCall == [pc |-> "none"]

Submit(c) ==
  /\ call = NoCall
  /\ table \in Writes(c)
  /\ call' = [pc |-> "sent", of |-> c, post |-> 1, wrote |-> 0]
  /\ UNCHANGED <<table, version, turns, place, setting, cache, floor>>

\* The server carries out the request, or refuses it; the answer is under way.
Serve ==
  /\ call.pc = "sent"
  /\ \/ call' = [call EXCEPT !.pc = "refused"] /\ UNCHANGED version
     \/ IF table \in call.of.posts[call.post]
        THEN /\ version < MaxWrites
             /\ version' = version + 1
             /\ call' = [call EXCEPT !.pc = "accepted", !.wrote = version + 1]
        ELSE call' = [call EXCEPT !.pc = "accepted"] /\ UNCHANGED version
  /\ UNCHANGED <<table, turns, place, setting, cache, floor>>

\* The answer gets lost on its way: to the page the same as a refusal.
LoseAnswer ==
  /\ call.pc = "accepted"
  /\ call' = [call EXCEPT !.pc = "refused", !.wrote = 0]
  /\ UNCHANGED <<table, version, turns, place, setting, cache, floor>>

\* The request was answered, and the call goes on after it.
GoesOn == call.pc = "accepted" \/ (call.pc = "refused" /\ call.of.goesOn)
More   == call.post < Len(call.of.posts)

NextPost ==
  /\ GoesOn /\ More
  /\ call' = [call EXCEPT !.pc = "sent", !.post = @ + 1]
  /\ UNCHANGED <<table, version, turns, place, setting, cache, floor>>

\* onError: the dialog stays open, and nothing is refreshed.
GiveUp ==
  /\ call.pc = "refused" /\ ~call.of.goesOn
  /\ call' = NoCall
  /\ UNCHANGED <<table, version, turns, place, setting, cache, floor>>

\* The entries that ought to show a call's writes: those of the pages that make it, and of
\* the page it opens.
Concerned(c) ==
  UNION {Shown(p, f) : p \in {s \in Places : c \in Screens[s].calls \/ c.opens = s}, f \in {1, 2}}

\* onSuccess, wherever the user has gone since.  A call that opens another page creates or
\* deletes a request: the cache of a detail page is then that of another request.
Settle ==
  /\ GoesOn /\ ~More
  /\ LET c     == call.of
         moves == c.opens # ""
         shown == Shown(place, setting)
         gone  == IF moves THEN {e \in DOMAIN cache : e[1] \in {"stock-transfer", "stock-adjustment"}} ELSE {}
         due   == {e \in Concerned(c) :
                     cache[e].seen >= 0 /\ (e \in shown \/ cache[e].fetch = "idle")}
         kept  == Invalidate(cache, c.refresh, shown)
         inv   == [e \in DOMAIN cache |-> IF e \in gone THEN Empty ELSE kept[e]]
     IN /\ place' = IF moves THEN c.opens ELSE place
        /\ setting' = IF moves THEN 1 ELSE setting
        /\ cache' = IF moves THEN Observe(inv, Shown(c.opens, 1)) ELSE inv
        /\ floor' = [e \in DOMAIN floor |->
                       IF e \in gone THEN 0
                       ELSE IF e \in due /\ call.wrote > floor[e] THEN call.wrote ELSE floor[e]]
  /\ call' = NoCall
  /\ UNCHANGED <<table, version, turns>>

\* Somebody else's write.
WriteElsewhere ==
  /\ version < MaxWrites
  /\ version' = version + 1
  /\ UNCHANGED <<table, turns, place, setting, cache, call, floor>>

-----------------------------------------------------------------------------
ClientInit ==
  /\ table \in Tracked
  /\ version = 0 /\ turns = 0 /\ place = "dashboard" /\ setting = 1
  /\ cache = [e \in Entries[table] |-> Empty]
  /\ call = NoCall
  /\ floor = [e \in Entries[table] |-> 0]

ClientNext ==
  \/ \E p \in Pages[table] : Open(p)
  \/ ApplyFilter \/ Focus
  \/ \E e \in DOMAIN cache : Expire(e) \/ Read(e) \/ Land(e) \/ Fail(e)
  \/ \E c \in Screens[place].calls : Submit(c)
  \/ Serve \/ LoseAnswer \/ NextPost \/ GiveUp \/ Settle
  \/ WriteElsewhere

ClientSpec == ClientInit /\ [][ClientNext]_clientVars

-----------------------------------------------------------------------------
\* The shape of the tab.
ClientTypeOK ==
  /\ table \in Tracked /\ version \in 0..MaxWrites /\ turns \in 0..MaxTurns[table]
  /\ place \in Places /\ setting \in {1, 2}
  /\ \A e \in DOMAIN cache : /\ cache[e].seen \in -1..version
                             /\ cache[e].fetch \in {"idle", "asked", "read"}
                             /\ floor[e] \in 0..version

\* After a call of a page succeeded, no list that the page showed before, under either
\* filter, appears on the screen without what the call wrote, unless it is being asked for
\* again: however long before the answer the list was cached, and whatever was in flight.
OwnWritesShown ==
  \A e \in Shown(place, setting) :
    cache[e].seen >= 0 /\ cache[e].fetch = "idle" /\ ~cache[e].error => cache[e].seen >= floor[e]
=============================================================================
