\* The stub's receiver over a connection that splits packets.
SPECIFICATION Spec
CONSTANTS
    Length <- Lengths
    Size = 8
PROPERTIES DeliversOnlyData
CHECK_DEADLOCK FALSE
