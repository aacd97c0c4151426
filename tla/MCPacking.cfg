CONSTANTS Symbol <- MCSymbol  Blank = 32  Caret = 94
          MAX_CODED = 6  MAX_UNCODED = 1  PCKTSIZE = 18  FLAGS = 8
          Inputs <- MCInputs
SPECIFICATION Spec
INVARIANTS TypeOK TokensDecodable LosslessIfRoom
CHECK_DEADLOCK FALSE
