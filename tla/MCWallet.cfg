\* One member logging in and out, three requests at a time, points at price 1.
SPECIFICATION FairSpec
CONSTANTS
  Users = {u1}
  Nobody = Nobody
  NoPoints = NoPoints
  Price = 1
  Slots = {1, 2, 3}
  MaxTaps = 2
  MaxFailures = 1
  Start = 0
  MaxEarned = 1
INVARIANTS TypeOK NoOverdraft CouponsPaid ActsForMember
PROPERTIES Settles
CHECK_DEADLOCK FALSE
