\* Nothing happens any more to a household that was purged.
SPECIFICATION FairSpec
CONSTANTS
  ann = ann
  bob = bob
  Person = {ann, bob}
  Stub = {address}
  Claims <- MCClaims
  Founder = ann
  Request = {r1, r2}
  None = None
  Window = 1
INVARIANTS
  TypeOK
  NoOrphanMembers
PROPERTIES
  RestoredStays
  ExpiredIsPurged
CHECK_DEADLOCK FALSE
