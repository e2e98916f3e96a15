SPECIFICATION ClientSpec
CONSTANTS
    th1 = th1 th2 = th2 m1 = m1 m2 = m2 m3 = m3 l1 = l1 l2 = l2
    e1 = e1 e2 = e2 c1 = c1 c2 = c2
    p1 = p1 wr1 = wr1 wr2 = wr2 rd1 = rd1 rd2 = rd2 none = none
    r1 = r1 r2 = r2 w1 = w1 w2 = w2
    Mutation = {wr1} Query = {rd1, rd2} Happens = {"ws", "dropped", "failed", "late"}
    MaxPending = 2 MaxRetry = 1 MaxSocket = 1 Nobody = none
    Scene = {"turns", "switches", "stops", "troubles", "restarts", "archives",
             "web", "desktop", "rejoins",
             "bridge", "bridge, ws", "sse", "ws", "rpc", "rpc, sockets"}
INVARIANTS
    TurnsInOrder
    NothingStuck
    LiveMeansSubscribed
    NothingStale
    ConnectionsHeld
    FramesArriveOnce
    AtMostOnce
    OneReadAtATime
CHECK_DEADLOCK FALSE
