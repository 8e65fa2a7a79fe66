CONSTANTS
    Users = {u1}
    Requests = {t1, t2}
    MaxTokens = 3
    MaxCodes = 1
    MaxStamp = 1
SYMMETRY Interchangeable
SPECIFICATION Spec
PROPERTY IssuedTokenResolves
