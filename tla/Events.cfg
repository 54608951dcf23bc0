SPECIFICATION EventsFairSpec
CONSTANTS
  Writers = {g1, g2}
  Clients = {c1}
  Capacity = 2
  Settings <- MCSettings
INVARIANTS EventsInv
PROPERTIES SeesRunning NotHeldUp
