----------------------------- MODULE MCBanList ------------------------------
(***************************************************************************)
(* Two operators and two instances.  A hostname, a HWID and an address     *)
(* have two spellings each: the key takes the first two for equal, and     *)
(* normalizeBanValue the addresses.  Bans of one type meet at a time; an   *)
(* instance restarts with hostnames only, and addresses, which behave as   *)
(* HWIDs do, are banned by one request at a time.                          *)
(***************************************************************************)
EXTENDS BanList

CONSTANTS Lower, Upper, HwidLower, HwidUpper, Address, AddressLong

VARIABLE scenario

HostSpellings == {Lower, Upper}
HwidSpellings == {HwidLower, HwidUpper}
AddressForms == {Address, AddressLong}

LowerCase == [v \in HostSpellings |-> Lower]
ParsedAddress == [v \in AddressForms |-> Address]
CaseInsensitive ==
    [v \in HostSpellings \cup HwidSpellings \cup AddressForms |->
        IF v \in HostSpellings THEN "host" ELSE IF v \in HwidSpellings THEN "hwid" ELSE v]

MCInit == Init /\ scenario \in {HostSpellings, HwidSpellings, AddressForms}

WithinBounds ==
    /\ Banned \subseteq scenario
    /\ scenario # HostSpellings => restarts = 0
    /\ scenario = AddressForms =>
           \A a, b \in Admins : a = b \/ pc[a] = "idle" \/ pc[b] = "idle"

MCNext == Next /\ UNCHANGED scenario /\ WithinBounds'
MCSpec == MCInit /\ [][MCNext]_<<vars, scenario>> /\ Fairness
=============================================================================
