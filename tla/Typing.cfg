SPECIFICATION Spec
CONSTANTS
  m1 = m1  m2 = m2
  Members = {m1, m2}
  Keep = 2
  MaxEntries = 5
  MaxMessages = 4
  MaxSaid = 2
  Messages <- SmallMessages
  Nobody = Nobody
INVARIANTS TypeOK OrderIsKept  FileIsBounded
PROPERTIES CreditIsEarned
SYMMETRY Alike
CHECK_DEADLOCK FALSE
