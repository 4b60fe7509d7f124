SPECIFICATION Spec
CONSTANTS
  Socks = {s1, s2}
  Peers = {x}
  MaxBytes = 1
  MaxIds = 2
  Capacity = 2
  SimOpen = FALSE
  Absent = Absent
  Pollers = {tick, scrape}
  Ticker = tick
  LocalPeers = {}
  MaxResets = 1
SYMMETRY Symmetry
INVARIANTS TypeOK NeverOvercounts ClosedAccounted ActiveHasSocket
