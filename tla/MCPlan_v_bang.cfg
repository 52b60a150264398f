SPECIFICATION Spec
CONSTANTS
    NaN = NaN
    MaxChangedPaths = 1
    MaxKey = 3
    MinMaskLen = 2
    Characters <- MCCharacters
    Globs = {}
    Operands <- MCOperands
    Context <- MCContext
    Workflows = {}
    Matrices = {}
    MaxIndex = 20
    Logs = {}
    Prefix <- MCPrefix
INVARIANT BangBindsTightest
CHECK_DEADLOCK FALSE
