\* Every reading of the 12-bit converter.
SPECIFICATION ConvSpec
CONSTANTS
    ConvTable <- conv_table
    Tolerance = 10
    MaxAdc = 4095
    Garbage <- MCGarbage
INVARIANTS
    InterpolationWhereItFits
    ScanBrackets
CHECK_DEADLOCK FALSE
