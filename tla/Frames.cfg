CONSTANTS
  Nil = Nil
  NaN = NaN
  MaxSeconds = 100
  Milli = 10
  Numerals <- MCNumerals
  Shortened <- MCShortened
  Precision = 16777216
  Configs <- MCConfigs
  Certificates <- MCCertificates
  Arrivals <- MCArrivals
  ModelOf <- MCModelOf
  Now = 9
SPECIFICATION Spec
INVARIANTS SenderIDSplits RawKeepsMessage ReplyNamesMessage ValuesSurvive AlertsSurvive GearNotConfused
CHECK_DEADLOCK FALSE
