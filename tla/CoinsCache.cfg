\* Two coins that an outpoint can hold, so that a wrong one is seen.
SPECIFICATION Spec
CONSTANTS
    OutPoint = {o1, o2}
    Coin = {c1, c2}
    None = none
    Untouched = untouched
INVARIANTS
    TombstonesHide
PROPERTIES
    ImplementsCoinSet
