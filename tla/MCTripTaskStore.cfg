\* Two submissions under arbitrary callers: two workers, every operation any time.
CONSTANTS
    Tasks = {t1, t2}
    Workers = {w1, w2}
    Users = {u1, u2}
    Keys = {k1, k2}
    Requests = {r1, r2}
    Marks = {10, 100}
    Backend = "mysql"
    None = None
    MaxLog = 6
    MaxAttempts = 2
SPECIFICATION Spec
CONSTRAINT Bounded
SYMMETRY Symmetry
CHECK_DEADLOCK FALSE
INVARIANTS TypeOK TerminalLogged ProgressMonotone WritesFenced CreationIdempotent
PROPERTY TerminalFinal
