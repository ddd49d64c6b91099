SPECIFICATION Spec
CONSTANTS
  s1 = s1
  s2 = s2
  Senders = {s1, s2}
  OutCap = 2
  MaxFrames = 3
INVARIANTS
  SpeechIsInterruptible
CHECK_DEADLOCK FALSE
