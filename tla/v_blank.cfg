SPECIFICATION DispatchSpec
CONSTANTS
  d1 = d1
  d2 = d2
  m2 = m2
  p1 = p1
  p2 = p2
  t1 = t1
  t2 = t2
  t3 = t3
  t4 = t4
  t5 = t5
  t6 = t6
  t7 = t7
  WorkDir = {d1, d2}
  Model = {m1, m2}
  ApiKey = {k1}
  Blank = Blank
  Absent = Absent
  NoConfig = NoConfig
  Error = Error
  EnvWorkDir = d1
  EnvModel = m1
  EnvApiKey = k1
  MaxCached = 4
  MaxStrays = 1
  TaskId = {t1, t2, t3, t4, t5, t6, t7}
  EmptyTasks = {t4, t7}
  None = None
  Project = {p1, p2}
  Place <- MCPlace
  Unreadable <- MCUnreadable
  ProjectOf <- MCProjectOf
  RequestOf <- MCRequestOf
INVARIANT BlankFallsBack
