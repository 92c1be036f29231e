------------------------------- MODULE Filters --------------------------------
(***************************************************************************)
(* The filters of a list page: the dropdowns and the modal in which they are     *)
(* prepared, the applied filters of useAdvancedFilters that the query is made     *)
(* of, the chips that remove them and the presets that bring them back.  The      *)
(* stock page and the registrations page share the hook but not the handlers.     *)
(***************************************************************************)
EXTENDS Naturals, FiniteSets

CONSTANTS
  Categories, Products, Locations,
  CategoryOf,   \* a function: the category of every product
  MaxChips,     \* MAX_INDIVIDUAL_CHIPS: more values of a dimension than this share a chip
  MaxPage       \* bound on the page number

VARIABLES
  list,      \* the page: "stock" or "registrations"
  loaded,    \* the products the page and the modal have loaded
  staged,    \* the product and the location of the dropdowns, or {}
  modal,     \* the selection of the open modal, or NoModal
  filters,   \* the applied filters; an absent one is the empty set
  extra,     \* "all", or a status (registrations) or a date range (stock) is applied
  pageNo,    \* the page of the list
  ticked,    \* the rows selected for the bulk action
  preset     \* the saved preset, or NoModal

filterVars == <<list, loaded, staged, modal, filters, extra, pageNo, ticked, preset>>

NoFilters == [categories |-> {}, products |-> {}, locations |-> {}]
NoModal   == [categories |-> {"none"}]
NoStaged  == [product |-> {}, location |-> {}]
Values    == [categories |-> Categories, products |-> Products, locations |-> Locations]
Dimensions == DOMAIN Values

\* The loaded products of some categories.
Within(ps, cs) == {p \in ps \cap loaded : CategoryOf[p] \in cs}

\* applyCategoryFilter: products of no chosen category are dropped.
WithCategories(f, cs) ==
  [f EXCEPT !.categories = cs, !.products = IF cs = {} THEN @ ELSE Within(@, cs)]

\* What a change of the filters does to the page number and to the ticked rows.
FirstPage == pageNo' = 0
Untick    == ticked' = {}

-----------------------------------------------------------------------------
(* The toolbar. *)

Load ==
  /\ loaded # Products
  /\ loaded' = Products
  /\ modal' = IF modal = NoModal \/ modal.categories = {} THEN modal
              ELSE [modal EXCEPT !.products = {p \in @ : CategoryOf[p] \in modal.categories}]
  /\ UNCHANGED <<list, staged, filters, extra, pageNo, ticked, preset>>

\* handleCategoryChange: applied at once, and the staged product is put back.
ChooseCategory(cs) ==
  /\ filters' = WithCategories(filters, cs)
  /\ staged' = [staged EXCEPT !.product = {}]
  /\ FirstPage
  /\ UNCHANGED <<list, loaded, modal, extra, ticked, preset>>

\* The dropdown offers the loaded products of the applied categories.
StageProduct(p) ==
  /\ p \in loaded /\ (filters.categories = {} \/ CategoryOf[p] \in filters.categories)
  /\ staged' = [staged EXCEPT !.product = {p}]
  /\ UNCHANGED <<list, loaded, modal, filters, extra, pageNo, ticked, preset>>

StageLocation(l) ==
  /\ staged' = [staged EXCEPT !.location = {l}]
  /\ UNCHANGED <<list, loaded, modal, filters, extra, pageNo, ticked, preset>>

\* handleApplySimple: both dropdowns, the empty one too.
ApplySimple ==
  /\ filters' = [filters EXCEPT !.products = staged.product, !.locations = staged.location]
  /\ FirstPage
  /\ IF list = "registrations" THEN Untick ELSE UNCHANGED ticked
  /\ UNCHANGED <<list, loaded, staged, modal, extra, preset>>

\* handleClearAll.
ClearAll ==
  /\ filters' = NoFilters /\ staged' = NoStaged /\ extra' = "all"
  /\ FirstPage
  /\ IF list = "registrations" THEN Untick ELSE UNCHANGED ticked
  /\ UNCHANGED <<list, loaded, modal, preset>>

\* The status dropdown, applied at once; the date range, applied by its own button.
SetExtra(x) ==
  /\ extra' = x
  /\ FirstPage
  /\ IF list = "registrations" THEN Untick ELSE UNCHANGED ticked
  /\ UNCHANGED <<list, loaded, staged, modal, filters, preset>>

\* The chip of the status or of the dates.
RemoveExtra ==
  /\ extra # "all"
  /\ extra' = "all"
  /\ FirstPage
  /\ UNCHANGED <<list, loaded, staged, modal, filters, ticked, preset>>

TurnPage(n) ==
  /\ pageNo' = n
  /\ IF list = "registrations" THEN Untick ELSE UNCHANGED ticked
  /\ UNCHANGED <<list, loaded, staged, modal, filters, extra, preset>>

\* handleSelectRow, for a row (product, location) that the filters let through.
Tick(p, l) ==
  /\ list = "registrations"
  /\ filters.products = {} \/ p \in filters.products
  /\ filters.locations = {} \/ l \in filters.locations
  /\ filters.categories = {} \/ CategoryOf[p] \in filters.categories
  /\ ticked' = IF <<p, l>> \in ticked THEN ticked \ {<<p, l>>} ELSE ticked \cup {<<p, l>>}
  /\ UNCHANGED <<list, loaded, staged, modal, filters, extra, pageNo, preset>>

-----------------------------------------------------------------------------
(* The advanced filter modal. *)

\* The modal is seeded with the applied filters; its effect drops the products that are not
\* loaded or are of no chosen category.
Seed(f) == IF f.categories = {} THEN f ELSE [f EXCEPT !.products = Within(@, f.categories)]

OpenModal ==
  /\ modal = NoModal
  /\ modal' = Seed(filters)
  /\ UNCHANGED <<list, loaded, staged, filters, extra, pageNo, ticked, preset>>

Toggle(d, v) ==
  /\ modal # NoModal /\ v \in Values[d]
  /\ d = "products" => v \in loaded /\ (modal.categories = {} \/ CategoryOf[v] \in modal.categories)
  /\ modal' = Seed([modal EXCEPT ![d] = IF v \in @ THEN @ \ {v} ELSE @ \cup {v}])
  /\ UNCHANGED <<list, loaded, staged, filters, extra, pageNo, ticked, preset>>

CloseModal ==
  /\ modal # NoModal
  /\ modal' = NoModal
  /\ UNCHANGED <<list, loaded, staged, filters, extra, pageNo, ticked, preset>>

\* applyAdvancedFilters; what is staged in the dropdowns stays, and so do the ticked rows.
ApplyModal ==
  /\ modal # NoModal
  /\ filters' = modal /\ modal' = NoModal
  /\ FirstPage
  /\ UNCHANGED <<list, loaded, staged, extra, ticked, preset>>

-----------------------------------------------------------------------------
(* The chips. *)

\* handleRemoveCategory, -Product, -Location, from the filters the page was drawn with.
Without(f, d, v) ==
  IF d = "categories" THEN WithCategories(f, filters.categories \ {v})
                      ELSE [f EXCEPT ![d] = filters[d] \ {v}]

RemoveOne(d, v) ==
  /\ v \in filters[d]
  /\ Cardinality(filters[d]) <= MaxChips \/ (list = "registrations" /\ d = "categories")
  /\ filters' = Without(filters, d, v)
  /\ IF list = "registrations" /\ d = "categories" THEN FirstPage ELSE UNCHANGED pageNo
  /\ UNCHANGED <<list, loaded, staged, modal, extra, ticked, preset>>

\* The chip for many values.  On the stock page that of the categories calls the handler of
\* one category for each of them in turn, last the value v.  Every call computes from the
\* categories the page was drawn with, so that only v is gone in the end, while the calls
\* between them drop every product.  The chips of products and locations clear everything.
\* The registrations page draws no such chip for categories.
RemoveAggregated(d) ==
  /\ Cardinality(filters[d]) > MaxChips
  /\ list = "stock" /\ d = "categories" =>
       \E v \in filters.categories :
         filters' = [filters EXCEPT !.categories = @ \ {v}, !.products = {}]
  /\ list = "stock" /\ d # "categories" => filters' = NoFilters
  /\ list = "registrations" => d # "categories" /\ filters' = [filters EXCEPT ![d] = {}]
  /\ IF list = "stock" /\ d # "categories"
     THEN staged' = NoStaged /\ extra' = "all" /\ pageNo' = 0
     ELSE UNCHANGED <<staged, extra, pageNo>>
  /\ UNCHANGED <<list, loaded, modal, ticked, preset>>

-----------------------------------------------------------------------------
(* Presets. *)

\* The stock page saves no dates, the registrations page saves the status.
SavePreset ==
  /\ preset' = [filters |-> filters, extra |-> IF list = "stock" THEN "all" ELSE extra]
  /\ UNCHANGED <<list, loaded, staged, modal, filters, extra, pageNo, ticked>>

DeletePreset ==
  /\ preset # NoModal
  /\ preset' = NoModal
  /\ UNCHANGED <<list, loaded, staged, modal, filters, extra, pageNo, ticked>>

ApplyPreset ==
  /\ preset # NoModal
  /\ filters' = preset.filters
  /\ extra' = IF list = "stock" THEN extra ELSE preset.extra
  /\ FirstPage
  /\ UNCHANGED <<list, loaded, staged, modal, ticked, preset>>

-----------------------------------------------------------------------------
FiltersInit ==
  /\ list \in {"stock", "registrations"} /\ loaded = {}
  /\ staged = NoStaged /\ modal = NoModal /\ filters = NoFilters /\ extra = "all"
  /\ pageNo = 0 /\ ticked = {} /\ preset = NoModal

FiltersNext ==
  \/ \E d \in Dimensions : RemoveAggregated(d) \/ \E v \in Values[d] : RemoveOne(d, v) \/ Toggle(d, v)
  \/ Load \/ ApplySimple \/ ClearAll \/ RemoveExtra
  \/ OpenModal \/ CloseModal \/ ApplyModal
  \/ SavePreset \/ DeletePreset \/ ApplyPreset
  \/ \E c \in Categories : ChooseCategory({c})
  \/ ChooseCategory({}) \/ SetExtra("some")
  \/ \E p \in Products : StageProduct(p) \/ \E l \in Locations : Tick(p, l)
  \/ \E l \in Locations : StageLocation(l)
  \/ \E n \in 0..MaxPage : TurnPage(n)

FiltersSpec == FiltersInit /\ [][FiltersNext]_filterVars

-----------------------------------------------------------------------------
\* docs/ux/filters-and-presets.md: removing an aggregated chip clears all selected values of
\* its dimension at once.
AggregatedChipClears ==
  [][\A d \in Dimensions : RemoveAggregated(d) => filters'[d] = {}]_filterVars
=============================================================================
