CONSTANTS
    Admins = {a1, a2}
    Instances = {i1, i2}
    Lower = lower
    Upper = upper
    HwidLower = hwidlower
    HwidUpper = hwidupper
    Address = address
    AddressLong = addresslong
    Hostnames <- HostSpellings
    HWIDs <- HwidSpellings
    IPs <- AddressForms
    ToLower <- LowerCase
    Rendered <- ParsedAddress
    Collation <- CaseInsensitive
    MaxId = 2
    MaxRestarts = 1
    NoInstance = NoInstance
SPECIFICATION MCSpec
INVARIANTS
    IInv
PROPERTIES
    CreatedBanInForce
    EveryInstanceConverges
CHECK_DEADLOCK FALSE
