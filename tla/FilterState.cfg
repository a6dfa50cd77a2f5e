\* Two threads, three identifiers of which two can be used, two resets.
CONSTANTS
  Threads = {t1, t2}
  MaxId = 3
  MaxRegister = 4
  MaxReset = 2
SPECIFICATION Spec
SYMMETRY Symmetry
INVARIANTS TypeOK Ownership
