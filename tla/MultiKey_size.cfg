SPECIFICATION Spec
CONSTANTS
    k1 = k1
    k2 = k2
    k3 = k3
    Keys = {k1, k2, k3}
    Text <- MCText
    Channels <- MCChannels
    Requests = {r1, r2}
    Handlers = {h1}
    Loop = loop
INVARIANTS SizeIsKeys
CHECK_DEADLOCK FALSE
