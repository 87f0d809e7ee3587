SPECIFICATION Spec
CONSTANTS
    r1 = r1
    a1 = a1
    a2 = a2
    a3 = a3
    s1 = s1
    t1 = t1
    t2 = t2
    f1 = f1
    Requests = {r1}
    Appends = {a1, a2, a3}
    Streams = {s1}
    Transports = {t1, t2}
    RequestOf <- OneRequest
    Frames = {f1}
    EndFrame = EndFrame
    Disconnect = Disconnect
    NoTransport = NoTransport
    MaxFrames = 1
INVARIANTS SleepersAreTold OpenTransportsAreMapped
PROPERTY StreamsReadAll
SYMMETRY Alike
CHECK_DEADLOCK FALSE
