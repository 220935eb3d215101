\* Two calls and a refresher, over two lifetimes of a token, and a
\* revocation.
SPECIFICATION Spec
CONSTANTS
    c1 = c1  c2 = c2  u1 = u1
    Calls = {c1, c2}
    Refreshers = {u1}
    Lifetime = 4
    Window = 2
    Delay = 1
    MaxTime = 8
    NoToken = NoToken
SYMMETRY TwinCalls
INVARIANTS NeverUnauthorised OutageEnds
CHECK_DEADLOCK FALSE
