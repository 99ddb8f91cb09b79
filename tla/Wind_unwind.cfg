CONSTANTS MaxWindings = 3 MaxConts = 2 MaxJumps = 2 MaxFrames = 4 MaxFails = 1
SPECIFICATION Spec
INVARIANTS WindingsOfStack PopsEndAtFirst
CHECK_DEADLOCK FALSE
