SPECIFICATION Spec
CONSTANTS
  Nil = Nil
  Permanent = Permanent
  Threads = {t}
  Users = {ann}
  Requests = {r1,r2}
  Days = {0,1,2}
  DayTicks = 4
  DurationBits = 4
  Base = 2
  Digits = 2
  ChangeAt = 4
  MayFail = TRUE
  MaxEntries = 2
  MaxNow = 6
SYMMETRY ConsoleSymmetry
INVARIANTS
  TypeOK
  ReadInOrder
  LogExplainsState
  MuteLastsAsAsked
