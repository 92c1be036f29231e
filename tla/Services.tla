------------------------------- MODULE Services -------------------------------
(***************************************************************************)
(* The front end's service objects: for each function, the tables of the      *)
(* database the request it makes reads and shows, or writes.                    *)
(***************************************************************************)
EXTENDS Sequences

adminLocationsService == [getAll |-> {"locations"}, create |-> {"locations", "registrations"},
                          update |-> {"locations"}, toggleActive |-> {"locations"}]

\* A password is shown nowhere.
adminUsersService == [getAll |-> {"users"}, create |-> {"users"}, update |-> {"users"},
                      toggleActive |-> {"users"}, resetPassword |-> {}]

\* A file at a time: the page awaits each upload before the next.
attachmentsService == [list |-> {"attachments"}, upload |-> {"attachments"}, delete |-> {"attachments"}]

auditLogsService  == [getAll |-> {"audit"}]

categoriesService == [getAll |-> {"categories"}, create |-> {"categories"}, update |-> {"categories"}]

vendorsService == [getAll |-> {"vendors"}, create |-> {"vendors"}, update |-> {"vendors"}]

uomsService    == [getAll |-> {"uoms"}, create |-> {"uoms"}]

\* A product is created with a row for every location.
productsService == [getAll |-> {"products"}, create |-> {"products", "registrations"},
                    update |-> {"products"}, retire |-> {"products"}, renameSku |-> {"products"},
                    uploadBulkProducts |-> {"products", "registrations"}]

productRegistrationsService == [getAll |-> {"registrations", "products"}, create |-> {"registrations"},
                                update |-> {"registrations"}, bulkToggle |-> {"registrations"},
                                checkDeactivation |-> {"transfers", "adjustments"}]

\* The presets of one list, a table for each list.
PresetsOf == [PRODUCTS |-> "product presets", STOCK |-> "stock presets",
              PRODUCT_REGISTRATION |-> "registration presets"]

savedFiltersService(m) == LET presets == {PresetsOf[m]}
                          IN [getAll |-> presets, create |-> presets, delete |-> presets]

\* Readiness is about who may do what at a location.
stockService == [getVisibleLocations |-> {"locations"}, getAllLocations |-> {"locations"},
                 getRegisteredProducts |-> {"registrations"}, getFilterProducts |-> {"products"},
                 getLocationReadiness |-> {"users"}, getStockOverview |-> {"stock"}, getLedger |-> {"stock"}]

stockTransfersService ==
  LET transfers == {"transfers"}
  IN [getAll |-> transfers, getById |-> transfers, create |-> transfers, deleteRequest |-> transfers,
      addItem |-> transfers, updateItem |-> transfers, deleteItem |-> transfers, submit |-> transfers,
      approveOrigin |-> transfers, approveDestination |-> transfers, reject |-> transfers,
      cancel |-> transfers, finalize |-> transfers \cup {"stock"}]

stockAdjustmentsService ==
  LET adjustments == {"adjustments"}
  IN [getAll |-> adjustments, getById |-> adjustments, create |-> adjustments, deleteRequest |-> adjustments,
      addItem |-> adjustments, updateItem |-> adjustments, deleteItem |-> adjustments, submit |-> adjustments,
      approve |-> adjustments, reject |-> adjustments, cancel |-> adjustments,
      finalize |-> adjustments \cup {"stock"}]

\* The counters and the previews below them.
dashboardService == [getMyDashboard |-> {"transfers", "adjustments"}, getPreview |-> {"transfers", "adjustments"}]
=============================================================================
