SPECIFICATION Spec
CONSTANTS
  Users = {u1, u2}
  Agios = agios
  Main = main
  Free = free
  HashAlgs = {SJF, MLF}
  TimelineAlgs = {TO}
  NoSched = null
  NLines = 2
INVARIANTS TypeOK AdequateLock Exclusive LockOrder
PROPERTIES StableInside AccessSpec
