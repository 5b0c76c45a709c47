SPECIFICATION BillSpec
CONSTANTS
  Skus = {a, b}
  NoCard = NoCard
  Unset = Unset
  MaxTasks = 2
  MaxFaults = 0
  MaxReloads = 0
  MaxHolds = 1
INVARIANT WhatYouSeeIsWhatYouSign
CHECK_DEADLOCK FALSE
