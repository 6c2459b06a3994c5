SPECIFICATION Spec
CONSTANTS
    Infos = {near, far}
    Local = {near}
    Home = near
    Junk <- SmallJunk
    MaxPools = 2
    MaxConns = 2
    MaxInfos = 2
INVARIANTS ListsExact HandlersLive
PROPERTY NoStarvation
