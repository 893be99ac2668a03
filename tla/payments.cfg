SPECIFICATION FairSpec
CHECK_DEADLOCK FALSE
CONSTANTS
  Requests = {p1, p2}
  Amount = 2
  MaxRefunds = 2
  MaxDeliver = 1
  MaxFaults = 1
INVARIANTS TypeOK TakenNeverWrittenOff CreditIsBacked RefundsWithinPayment OrderTellsRefunds
PROPERTIES TakenIsCredited OrderLeavesScan
