SPECIFICATION MatrixSpec
CONSTANTS
    NULL = NULL
    Asked <- MCAsked
    Extra <- MCExtra
    MaxEdits = 2
INVARIANT MatrixResolved
