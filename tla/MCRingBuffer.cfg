SPECIFICATION Spec
CONSTANTS
    Byte = {0, 1}
    Capacity = 3
    MaxLen = 4
INVARIANTS TypeOK IndicesAgree
PROPERTIES ImplementsFifo
