SPECIFICATION DatapathSpec
CONSTANTS
  Gprs = {0}
  Sets = {0, 1}
  Modes = {0, 1, 3}
  Values <- MCValues
  Up <- MCUp
  Down <- MCDown
  RedReset = 1
  W = 4
  SwabClearsV = TRUE
  ExpBits = 4
  SingleBits = 3
  DoubleBits = 5
  Guard = 3
  IntBits = 4
  ShortBits = 2
  FpValues <- MCFpValues
  Exponents <- MCExponents
  Settings <- MCSettings
INVARIANTS AluArithmeticExact AluExtendedExact FpSumsFaithful FpProductsRounded FpConversionsExact FpExceptionsReported
PROPERTIES ImplementsModeRegs
