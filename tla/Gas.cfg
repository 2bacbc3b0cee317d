SPECIFICATION Spec
CONSTANTS
  Grace = 1
  Prices = {1, 2}
  ParamSets = {0, 1}
  SmallSset = {1}
  MaxBlock = 4
INVARIANTS
  TypeOK NoChangeHidden ImpossibleChecksPass Version3HasStoragePrice
  NoCutFromVersion1 SsetAboveMinimum
PROPERTIES NoticeGiven OneHeaderPerBlock VersionNeverDecreases
VIEW View
