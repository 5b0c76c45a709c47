SPECIFICATION BillFairSpec
CONSTANTS
  Skus = {a, b}
  NoCard = NoCard
  Unset = Unset
  MaxTasks = 2
  MaxFaults = 1
  MaxReloads = 1
  MaxHolds = 2
INVARIANT OneHoldOneCart
PROPERTIES AnswersAreCurrent PaidBillSaysSo
CHECK_DEADLOCK FALSE
