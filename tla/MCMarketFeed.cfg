SPECIFICATION Spec
CONSTANTS
  Limit = 2
  MaxCandles = 3
  MaxMinute = 6
  MaxChannel = 2
INVARIANTS
  TypeOK
  BufferOrdered
  PollComplete
  GapsAreLosses
  StreamHeals
  OnePartialAtMost
