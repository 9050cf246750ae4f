SPECIFICATION Spec
CONSTANTS
  Route = {textarea, sitemap}
  Schedule = {hourly}
  Wrong = {wrong}
  Empty = Empty
  MaxVisits = 2
  MaxEdits = 2
  MaxSaves = 2
SYMMETRY MCSymmetry
INVARIANTS TypeOK GreenMeansSet
CHECK_DEADLOCK FALSE
