SPECIFICATION Spec
CONSTANTS
    arrA = arrA
    objO = objO
    objP = objP
    Null = Null
CHECK_DEADLOCK FALSE
INVARIANTS
    ObjectsExact ProxiesExact
