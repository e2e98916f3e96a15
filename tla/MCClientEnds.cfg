SPECIFICATION FairClientSpec
CONSTANTS
    th1 = th1 th2 = th2 m1 = m1 m2 = m2 m3 = m3 l1 = l1 l2 = l2 e1 = e1 e2 = e2 c1 = c1 c2 = c2
    wr1 = wr1 rd1 = rd1 none = none
    Run = {r1} Workspace = {w1} NoWs = none View = {th1, th2}
    MaxVersion = 3 MayFail = TRUE Hints = "home" Rejoins = FALSE
    Scene = {"turns", "live", "remount", "probe", "desktop", "truth", "bridge", "rpc"}
INVARIANTS
    FreshWhenQuiet
    SubscriptionsRight
PROPERTIES
    ThreadsSettle
    ViewsCatchUp
    TransportRecovers
CHECK_DEADLOCK FALSE
