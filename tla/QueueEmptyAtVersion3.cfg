SPECIFICATION Spec
CONSTANTS
  Grace = 1
  Prices = {1, 2}
  ParamSets = {0, 1}
  SmallSset = {}
  MaxBlock = 4
INVARIANT QueueEmptyAtVersion3
