SPECIFICATION Spec
CONSTANTS
    a = a
    b = b
    x = x
    y = y
    Paths = {a, b}
    Places = {1, 2}
    Texts = {x, y}
    Absent = Absent
    Changes = 2
    Calls = 3
    Patches <- MCPatches
    Outside <- MCOutside
INVARIANTS OnlyKnownReplaced PatchIsWhole
CHECK_DEADLOCK FALSE
