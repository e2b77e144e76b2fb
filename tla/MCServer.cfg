SPECIFICATION Spec
CONSTANTS
    Client = {c1, c2, c3}
    c1 = c1
    c2 = c2
    c3 = c3
    MaxEvents = 7
CHECK_DEADLOCK FALSE
INVARIANTS ServesOne
PROPERTIES ServesEveryone
