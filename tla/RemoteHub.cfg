SPECIFICATION FairSpec
CONSTANTS
    k1 = k1
    k2 = k2
    Devices = {"laptop"}
    Conns <- MCConns
    DeviceOf <- MCDeviceOf
    Browsers = {b1, b2}
    MaxBrowsers = 2
    MaxSessions = 1
    None = None
PROPERTY
    LoginEndClosesSessions
INVARIANTS
    SessionsHaveBrowsers
    OfferedSessionsFollowAgent
