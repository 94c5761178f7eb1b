CONSTANTS
    Parts = {"key", "bind", "rpc", "stream", "perm", "snap", "rot"}
    Thread = {t1, t2}
    User = {u1, u2, u3}
    u1 = u1
    u2 = u2
    u3 = u3
    DomainOwner = {u2}
    Suffixed <- MCSuffixed
    KeySettings <- MCKeySettings
    Caller = {c1, c2, c3}
    Key = {kk, d1, d2}
    kk = kk
    d1 = d1
    d2 = d2
    KeyServerKey = kk
    BindSettings <- MCBindSettings
    Invoker = {i1, i2, i3}
    TokenDuration = 4
    Freshness = 2
    Latency = 1
    Sessions = 2
    RpcSettings <- MCRpcSettings
    Wire = 2
    StreamSettings <- MCStreamSettings
    Writer = {w1, w2, w3}
    w1 = w1
    w2 = w2
    w3 = w3
    domainOf <- MCDomainOf
    PermSettings <- MCPermSettings
    Asker = {a1, a2}
    Day = 6
    Interval = 3
    Period = 1
    SnapSettings <- MCSnapSettings
    KeyUser = {u1, u2}
    owner = u1
    File = {"Access", "f", "g"}
    RotSettings <- MCRotSettings
SPECIFICATION MCSpec
INVARIANT KeyServerIsRight
INVARIANT BindKeepsTrack
INVARIANT RpcIsRight
INVARIANT SnapshotsSpaced
INVARIANT RotationIsSafe
PROPERTY WritersSettle
PROPERTY ServicesReturn
CHECK_DEADLOCK FALSE
