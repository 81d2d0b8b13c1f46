CONSTANTS
    h1 = h1
    h2 = h2
    s1 = s1
    s2 = s2
    b1 = b1
    b2 = b2
    b3 = b3
    None = None
    Handlers = {h1}
    SessionIds = {s1, s2}
    BookingIds = {b1, b2, b3}
    Times = {1, 2, 3}
    Caps = {1, 2}
    Kinds = {"create_session", "resize", "edit", "delete_session", "book", "reschedule", "update", "rewrite", "cancel"}
SPECIFICATION Spec
SYMMETRY Symmetry
INVARIANTS TypeOK SessionsDisjoint SessionNotOverfull BookingInSession
CHECK_DEADLOCK FALSE
