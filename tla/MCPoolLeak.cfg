CONSTANTS
  c1 = c1  c2 = c2  c3 = c3  c4 = c4
  i1 = i1  i2 = i2
  NoItem = NoItem  NoCall = NoCall
  Items = {i1, i2}
  Calls = {c1, c2, c3}
  Async = {c1, c2}
  Droppable = {c1}
  MaxExtra = 1
SPECIFICATION Spec
INVARIANT NoSlotLost
