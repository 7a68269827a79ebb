SPECIFICATION Spec
CONSTANTS
  a = a
  b = b
  x = x
  ours = ours
  theirs = theirs
  Firms = {ours, theirs}
  DefaultFirm = ours
  Clients = {a, b, x}
  Home <- HomeOf
  Stored <- StoredIn
  Demo = {d}
  Names = {n}
  Copies = {k1, k2}
  Screens = {s1, s2}
  Threads = {t1}
  Codes = {code}
  Values = {"", "typed", "read"}
  Typed = {"", "typed"}
  Read = {"read"}
  NULL = NULL
  MaxDeeds = 3
  MaxCrashes = 1
SYMMETRY Symmetry
INVARIANTS
  ClientsKept
  OthersUntouched
  HistoryExplains
  ClaimsAccounted
CHECK_DEADLOCK FALSE
