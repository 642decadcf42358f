\* Four pictures in two categories, a wall of three slots, two removals while the page loads.
CONSTANTS
  f1 = f1
  f2 = f2
  f3 = f3
  f4 = f4
  cars = cars
  food = food
  Files = {f1, f2, f3, f4}
  Slots = 3
  MaxRemovals = 2
  CategoryList <- TwoCategories
  CategoryOf <- TwoEach
SPECIFICATION MainSpec
SYMMETRY Symmetry
CHECK_DEADLOCK FALSE
INVARIANTS BlankIsExplained OlderMeansRemoved CoverIsNewest BlankCoverIsExplained
