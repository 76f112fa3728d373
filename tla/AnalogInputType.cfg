\* Two scripts; the type of an input is set as well.
SPECIFICATION Spec
CONSTANTS
    Scripts = {a, b}
    Nodes = {}
    Values = {2, 5, 15, 25}
    InputTypes = {1, 2}
    Refusals = {}
INVARIANT EveryOutputInRange
CHECK_DEADLOCK FALSE
