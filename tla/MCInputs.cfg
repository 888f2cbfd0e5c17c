SPECIFICATION Spec
CONSTANTS
    Lengths = {0, 4, 13, 14, 18, 19, 33, 34, 38, 42, 54, 62, 74}
    EtherTypes = {2048, 33024, 2054}
    Versions = {4, 6, 5}
    Ihls = {4, 5, 6}
    Protocols = {1, 6, 17, 58}
    DataOffsets = {0, 5, 15}
    Ports = {53, 80}
    Bytes = {0, 1, 2, 64, 192}
    MaxMessage = 5
    Signatures <- MCSignatures
    Letters = {"a", "A", "b", "c"}
    Folded <- MCFolded
    MaxText = 6
    AddrBits = 3
    IpLines <- MCIpLines
    MaxLines = 3
    BloomBits <- MCBloomBits
    Checkers = {w1}
    w1 = w1
    Domains = {"Bad.example.", "bad.example", "other.example"}
    Canonical <- MCCanonical
    MaxStarts = 4
INVARIANTS
    ReadsAreInside
    PayloadIsBehindHeaders
    NameIsOnTheWire
    OnlyOverlappedIsMissed
    CheckAgreesWithList
    RunningHasIdentity
PROPERTIES
    IdentityIsKept
CHECK_DEADLOCK FALSE
