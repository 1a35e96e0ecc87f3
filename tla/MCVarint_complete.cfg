\* Two 16-bit values in one buffer.
CONSTANTS
  Types <- MCTypes16
  Values <- MCValues
  Foreign = {}
  Fills = {{}}
  Capacity = 8
  MaxValues = 2
SPECIFICATION VarintSpec
INVARIANT CompleteIsRead
