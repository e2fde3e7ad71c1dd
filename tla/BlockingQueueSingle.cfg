\* One taker and no spurious wake-ups: the data queue of one Vim process.
SPECIFICATION FairSpec
CONSTANTS
  Adders = {a1, a2}
  Takers = {t1}
  Digesters = {}
  Values = {v1, v2}
  NULL = NULL
  NoThread = NoThread
  MaxAdds = 4
  SpuriousWakeups = FALSE
INVARIANTS NoNullDereference NoStrandedTaker
PROPERTY CallsReturn
