SPECIFICATION FairFaultyUpdSpec
CONSTANTS
  Passes = {u1}
  Checkouts = {co1}
  NoCheckout = NoCheckout
  BuiltFrom = NoCheckout
  WorkingDir = NoCheckout
  Registered = co1
  Interval = 2
  LastCommit = 2
  UpdHazards = {"installFails"}
PROPERTY UpdateReaches
