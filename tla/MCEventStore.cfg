SPECIFICATION Spec
CONSTANTS
  Streams = {s1, s2}
  Registered = {s1}
  Writers = {w1, w2, w3}
  Versions = {0, 1}
  Batches = {1, 2}
  NoRow = NoRow
  Nobody = Nobody
  NoCall = NoCall
INVARIANTS
  OneWinnerPerVersion
PROPERTIES
  ReadersMissNothing
  AppendsFinish
  ImplementsLog
CHECK_DEADLOCK FALSE
