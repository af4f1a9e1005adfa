CONSTANTS
    Node = {t1, t2, t3, t4}
SPECIFICATION Spec
SYMMETRY TypeSymmetry
INVARIANTS TypeOK Acyclic AllWritten OrderIsTopological
PROPERTIES RefusesOnlyCycles DependenciesFirst
