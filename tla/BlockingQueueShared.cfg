\* Several takers, spurious wake-ups, a digester: what the queue guarantees
\* to any set of threads.  It may really stop: a null dereference kills it.
SPECIFICATION Spec
CONSTANTS
  Adders = {a1, a2}
  Takers = {t1, t2}
  Digesters = {d1}
  Values = {v1, v2}
  NULL = NULL
  NoThread = NoThread
  MaxAdds = 3
  SpuriousWakeups = TRUE
SYMMETRY Symmetry
INVARIANTS TypeOK AssertsHold HeapSafe IInv
PROPERTY ImplementsFifo
CHECK_DEADLOCK FALSE
