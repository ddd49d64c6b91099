SPECIFICATION Spec
CONSTANTS
  s1 = s1
  s2 = s2
  Senders = {s1, s2}
  OutCap = 1
  MaxFrames = 3
INVARIANTS
  TypeOK
  WritesSerialized
  NumbersUnique
  NoGaps
  NoEmptyFrame
CHECK_DEADLOCK FALSE
