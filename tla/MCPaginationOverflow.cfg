CONSTANTS
    x1 = x1
    x2 = x2
    x3 = x3
    x4 = x4
    x5 = x5
    IdVal <- MCIdVal
    Trap = Trap
    Modulus = 8
    MaxLen = 4
SPECIFICATION Spec
PROPERTIES
    PageSaturates
