SPECIFICATION Spec
CONSTANTS
    MaxSlots = 3
    Workers = {w1, w2}
INVARIANT HandlerAfterExecution
