SPECIFICATION Spec
CONSTANTS
    Selectors = {cut, s1, s2}
    Facets = {this, f1, f2, eoa}
    HasCode = {this, f1, f2}
    This = this
    Zero = zero
    CutSelector = cut
SYMMETRY Symmetry
INVARIANTS
    TypeOK
    TableConsistent
PROPERTY ImplementsRouter
CHECK_DEADLOCK FALSE
