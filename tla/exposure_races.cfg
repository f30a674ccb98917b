\* Two methods overlapping, any call failing, methods cut short anywhere.
CONSTANTS
    Events = {e1, e2}
    Tasks = {t1, t2}
SPECIFICATION Spec
SYMMETRY Symmetry
INVARIANTS TypeOK KeysAgree ErasedAreGone ShownIsIndexed
