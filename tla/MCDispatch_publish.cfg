CONSTANTS
    AlpnNames = {host_alpn, other}
    Claimants = {s1, l1}
    Sessions = {s1}
    HostAlpn = host_alpn
    Dials = {}
    NoOne = none
SPECIFICATION DispatchSpec
INVARIANTS
    PublishedIsRegistry
CHECK_DEADLOCK FALSE
