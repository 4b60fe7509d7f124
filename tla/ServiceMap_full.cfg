SPECIFICATION FairSpec
CONSTANTS
  Socks = {s1, s2}
  Peers = {x}
  MaxBytes = 0
  MaxIds = 2
  Capacity = 1
  SimOpen = TRUE
  Absent = Absent
  Pollers = {tick, scrape}
  Ticker = tick
  LocalPeers = {}
  MaxResets = 1
PROPERTIES InactiveIsFolded
