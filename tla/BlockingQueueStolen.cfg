\* Two takers, as when two workers of one radiator wait for answers.
SPECIFICATION Spec
CONSTANTS
  Adders = {a1}
  Takers = {t1, t2}
  Digesters = {}
  Values = {v1}
  NULL = NULL
  NoThread = NoThread
  MaxAdds = 2
  SpuriousWakeups = FALSE
INVARIANT NoNullDereference
CHECK_DEADLOCK FALSE
