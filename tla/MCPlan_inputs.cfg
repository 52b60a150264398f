SPECIFICATION Spec
CONSTANTS
    NaN = NaN
    MaxChangedPaths = 1
    MaxKey = 3
    MinMaskLen = 2
    Characters <- MCCharacters
    Globs <- MCGlobs
    Operands <- MCOperands
    Context <- MCContext
    Workflows <- MCWorkflows
    Matrices <- MCMatrices
    MaxIndex = 20
    Logs <- MCLogs
    Prefix <- MCPrefix
INVARIANTS GlobIsTiling ConditionsMeanWhatTheySay CyclesAreRejected PlansAreRunnable MatrixIsExact MaskedTextHidesSecrets
CHECK_DEADLOCK FALSE
