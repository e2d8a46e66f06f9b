\* Two sweeps, one after the other or at the same time, among the life of an
\* avatar and a leftover, with every kind of failure.
SPECIFICATION Spec
CONSTANTS
  Sweepers = {s1, s2}
  leftover = leftover
  payment = payment
  avatar = avatar
  Files <- FewFiles
  Home <- FewHome
  Leftovers = {leftover}
  MinimumAge = 3
  RequestTime = 1
  ReadTime = 1
  Faults = {"db", "delete", "kill"}
  MaxClock = 4
SYMMETRY Symmetry
INVARIANTS
  SweepIsSafe
  SweepIsThorough
