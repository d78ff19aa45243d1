CONSTANTS
    Admins = {a1}
    Instances = {i1}
    Lower = lower
    Upper = upper
    HwidLower = hwidlower
    HwidUpper = hwidupper
    Address = address
    AddressLong = addresslong
    Hostnames <- HostSpellings
    HWIDs <- HwidSpellings
    IPs <- AddressForms
    ToLower <- LowerCase
    Rendered <- ParsedAddress
    Collation <- CaseInsensitive
    MaxId = 1
    MaxRestarts = 0
    NoInstance = NoInstance
INIT MCInit
NEXT MCNext
PROPERTIES
    BanStaysInForce
CHECK_DEADLOCK FALSE
