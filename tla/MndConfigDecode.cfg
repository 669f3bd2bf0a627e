CONSTANTS
  SizeofItem <- ItemSize
  NameLens <- NameLenSet
  StrLens <- StrLenSet
  IntVals <- IntValSet
  FloatDigits <- FloatDigitSet
  NULL = NULL
  GlobalCfg <- GlobalItems
  Dnodes <- OneDnode
  Versions <- TwoVersions
SPECIFICATION Spec
INVARIANT DecodeInvertsEncode
