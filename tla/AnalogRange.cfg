\* A script and a node; on channel 2 the input's type is set too and DRFL may
\* refuse a mode.
SPECIFICATION Spec
CONSTANTS
    Scripts = {a}
    Nodes = {n}
    Values = {2, 15}
    InputTypes = {2}
    Refusals = {2}
INVARIANTS TypeOK OutputInRange MemoryIsTrue
CHECK_DEADLOCK FALSE
