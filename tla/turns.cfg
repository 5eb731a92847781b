SPECIFICATION Spec
CONSTANTS
  t1 = t1
  t2 = t2
  q = q
  hello = hello
  Tools = {t1, t2, q}
  Asking = {q}
  Texts = {hello}
  None = None
  MaxEvents = 6
  MaxSends = 1
SYMMETRY Symmetry
INVARIANTS TypeOK TurnShown CallsShown AsksShown ReplayMatches
CHECK_DEADLOCK FALSE
