\* Two categories with a product each, one location, and a chip of its own for one value
\* of a dimension.
CONSTANTS
  c1 = c1
  c2 = c2
  p1 = p1
  p2 = p2
  Categories = {c1, c2}
  Products = {p1, p2}
  Locations = {A}
  CategoryOf <- OneEach
  MaxChips = 1
  MaxPage = 1
SPECIFICATION FiltersSpec
CHECK_DEADLOCK FALSE

PROPERTIES AggregatedChipClears
