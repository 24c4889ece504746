SPECIFICATION Spec
CONSTANTS
    Media = {m1, m2}
    Artwork = {a}
    None = None
    MaxChanges = 1
    MaxRemovals = 1
    MaxFaults = 2
INVARIANT FreePlace
PROPERTY InventoryAtomic NoneForgotten Converges
