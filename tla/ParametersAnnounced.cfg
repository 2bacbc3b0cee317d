SPECIFICATION Spec
CONSTANTS
  Grace = 1
  Prices = {1}
  ParamSets = {0, 1, 2}
  SmallSset = {}
  MaxBlock = 4
INVARIANT ParametersAnnounced
