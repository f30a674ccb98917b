\* The same instance, against the promise of deleteAll.
CONSTANTS
    Events = {e1, e2}
    Tasks = {t1, t2}
SPECIFICATION Spec
SYMMETRY Symmetry
INVARIANTS NothingOfErasedIsLeft
