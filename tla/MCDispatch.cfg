CONSTANTS
    AlpnNames = {host_alpn, other}
    Claimants = {s1, s2, l1}
    Sessions = {s1, s2}
    HostAlpn = host_alpn
    Dials = {d1}
    NoOne = none
SPECIFICATION DispatchSpec
INVARIANTS
    HolderIsRegistered
    RoutedByAlpn
CHECK_DEADLOCK FALSE
