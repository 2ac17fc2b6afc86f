SPECIFICATION FairSpec
CONSTANTS
  Users = {u1}
  Workers = {w1}
  Modes = {"POST_NOW", "SCHEDULE"}
  MaxTries = 2
  MaxFaults = 1
  Nobody = nobody
INVARIANTS PublishedIsTrue CancelledIsNeverSubmitted
PROPERTIES PublicationEnds
