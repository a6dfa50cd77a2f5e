\* Two handlers, three Adds, room for two files, one crash.
CONSTANTS
  Handlers = {h1, h2}
  Lister = lister
  FileLimit = 2
  MaxAdds = 3
  MaxStamp = 3
  MaxCrashes = 1
SPECIFICATION Spec
SYMMETRY Symmetry
INVARIANTS TypeOK BoundedAtRest RecentSurvives ListComplete
CHECK_DEADLOCK FALSE
