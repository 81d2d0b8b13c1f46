CONSTANTS
    h1 = h1
    h2 = h2
    t1 = t1
    t2 = t2
    t3 = t3
    c1 = c1
    c2 = c2
    None = None
    Handlers = {h1, h2}
    Seeds = {t1, t2}
    TriggerSeeds = {t1}
    Others = {t3}
    Contents = {c1, c2}
    Faults = {"seed", "create", "update", "restore", "delete", "rule", "drop"}
SPECIFICATION Spec
SYMMETRY Symmetry
INVARIANTS TypeOK RulesResolve
PROPERTY TextStaysVersioned
