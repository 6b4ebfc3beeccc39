SPECIFICATION Spec
CONSTANTS
  s1 = s1
  s2 = s2
  Senders = {s1, s2}
  Apps = {s1, s2}
  AppOf <- AppPerSender
  MaxNonce <- GapOfOne
  MaxTracked = 3
  MaxBlocks = 2
INVARIANTS TypeOK CountsMatch CompositionAddsUp StalledBehindGap IncludedIsReleased
CHECK_DEADLOCK FALSE
