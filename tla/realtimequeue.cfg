CONSTANTS
    Items = {a, b}
    None = None
    Size = 4
    Wrap = 8
SPECIFICATION Spec
INVARIANT NoRace
PROPERTY ImplementsFifo
