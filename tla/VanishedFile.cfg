\* A request deletes a file that the sweep has just found to exist.
SPECIFICATION Spec
CONSTANTS
  Sweepers = {s1}
  leftover = leftover
  payment = payment
  avatar = avatar
  Files <- MCFiles
  Home <- MCHome
  Leftovers = {leftover}
  MinimumAge = 3
  RequestTime = 1
  ReadTime = 1
  Faults = {}
  MaxClock = 5
INVARIANT
  RemovingTwiceSucceeds
