SPECIFICATION FairSpec
CONSTANTS
  r1 = r1
  o1 = o1
  Proposals <- AllRefunds
  Refunds <- AllRefunds
  OrderOf <- OrderOfRefund
  Attempts = {a1, a2}
  MaxTries = 3
  MaxRounds = 2
  MaxFaults = 3
  Nobody = nobody
INVARIANTS SuccessIsTrue
PROPERTIES RecordedIsNotResubmitted ActionEnds
