CONSTANTS
    Operands = {0, 1, 2, 5, 6, 7, 8, 9, 10, 15, 16, 17, 25, 37, 48, 73, 88, 96, 127, 128, 129, 144, 149, 153, 160, 240, 249, 255}
SPECIFICATION AluSpec
INVARIANTS DecimalAdjust OperationsAgree
