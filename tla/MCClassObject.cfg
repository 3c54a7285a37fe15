SPECIFICATION Spec
CONSTANTS
    o1 = o1
    o2 = o2
    o3 = o3
    Objs = {o1, o2, o3}
    Ids = {1, 2, 3}
    UniMax = 4
    Lists <- MCLists
SYMMETRY MCSymmetry
INVARIANTS
    RefsExact
    TextAgrees
PROPERTY ValuesSpec
