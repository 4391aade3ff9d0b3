\* Nothing happens any more to a household that was purged.
SPECIFICATION Spec
CONSTANTS
  ann = ann
  bob = bob
  Person = {ann, bob}
  Stub = {}
  Claims <- MCClaims
  Founder = ann
  Request = {r1, r2}
  None = None
  Window = 1
INVARIANTS
  OwnerExists
CHECK_DEADLOCK FALSE
