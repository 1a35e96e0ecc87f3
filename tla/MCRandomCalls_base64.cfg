\* Base64 strings of up to six bytes, in a buffer that holds them.
CONSTANTS
  IntMax = 63
  SizeMax = 127
  Maxima = {}
  Draws = {}
  TextCalls <- MCBase64Calls
  ShuffleCalls = {}
  FetchLens = {}
SPECIFICATION CallsSpec
INVARIANT StringCarriesItsBytes
