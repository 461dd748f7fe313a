SPECIFICATION Spec
CONSTANTS
    KeyIds = {k1, k2}
    SeSlots = {s1, s2}
    None = None
SYMMETRY Symmetry
INVARIANTS
    JournalCoversDamage
    DurableKeysStay
