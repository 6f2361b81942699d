SPECIFICATION Spec
CONSTANTS
    b1 = b1
    b2 = b2
    u1 = u1
    low1 = low1
    low2 = low2
    mid = mid
    high = high
    core = core
    Builtin = {b1, b2}
    User = {u1}
    Callbacks = {low1, low2, mid, high, core}
    Script <- MCScript
    Priority <- MCPriority
    Nameless = {low2}
    Dispatchers = {d1}
    Threads = 4
    MaxBuffered = 5
INVARIANTS TypeOK CacheFresh DispatchSeesWhole
