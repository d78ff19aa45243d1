------------------------------ MODULE MCConfig ------------------------------
(***************************************************************************)
(* Two scenarios, one of which a behaviour keeps to.  In "revisions" the   *)
(* primary and one mirror are at work: two administrators at the same      *)
(* time, up to three revision numbers, two contents.  In "preview" a       *)
(* document with up to two overrides is previewed for one of four hosts.   *)
(* The mirror's fairness means something in the first only; the second is  *)
(* there for its invariants.                                               *)
(***************************************************************************)
EXTENDS ConfigMirror, ConfigDocuments

VARIABLE scenario

Tree(updater, logging) ==
    RoundTrip(PatchableDoc, Object([updater |-> updater, logging |-> logging,
                                    defaultServer |-> Str("s1")]))

Trees ==
    {Tree(Object([resolver |-> Object([attempts |-> Num(3)])]), Null),
     Tree(Null, Object([maxSizeMB |-> Num(10)]))}

\* Valid and invalid ones, deletions and a value of the wrong type.
Patches ==
    {[updater |-> Object([resolver |-> Object([baseBackoffSeconds |-> Num(5)])])],
     [updater |-> Object([resolver |-> Null])],
     [updater |-> Object([pollIntervalMinutes |-> Num(0)])],
     [updater |-> Null, logging |-> Object([backups |-> Num(5)])],
     [logging |-> Object([backups |-> Num(51), maxSizeMB |-> Num(20)])],
     [logging |-> Num(1)],
     [control |-> Object([app |-> Object([mode |-> Str("readonly")])]),
      defaultServer |-> Str("s2"), clientWs |-> Object([enabled |-> Bool(TRUE)])],
     [defaultServer |-> Null, clientWs |-> Null]}

All == [all |-> "true", lists |-> << >>]
One(key, value) == [all |-> "absent", lists |-> [k \in {key} |-> {value}]]
AtSite == [all |-> "absent", lists |-> [dcs |-> {"dc1"}, subnets |-> {{"i1", "i2"}}]]

Selections ==
    {[match |-> All, except |-> NoSelector, until |-> 0],
     [match |-> AtSite, except |-> One("hwids", "h2"), until |-> 0],
     [match |-> One("hwids", "h1"), except |-> NoSelector, until |-> 1]}

Overrides ==
    {[id |-> i, match |-> s.match, except |-> s.except, until |-> s.until, patch |-> p] :
        i \in {"o1", "o2"}, s \in Selections, p \in Patches}

Lists == {<< >>} \cup {<<o>> : o \in Overrides}
         \cup {<<o1, o2>> : o1 \in {o \in Overrides : o.id = "o1"}, o2 \in Overrides}

Site1 == [dc |-> "dc1", subnets |-> {{"i1", "i2"}}, base |-> "s2", backup |-> <<"s1">>, enabled |-> TRUE]
Site2 == [dc |-> "dc1", subnets |-> {{"i2", "i3"}}, base |-> "s1", backup |-> << >>, enabled |-> TRUE]

SomeDocs ==
    {[tree |-> t, servers |-> {"s1", "s2"}, sites |-> {Site1, Site2}, overrides |-> l] :
        t \in Trees, l \in Lists}

Host(hwid, dc, ip, now) == [hwids |-> hwid, dcs |-> dc, ips |-> {ip}, now |-> now]

SomeHosts ==
    {Host("h1", "dc1", "i1", 1), Host("h1", "dc2", "i1", 2),
     Host("h2", "dc1", "i2", 1), Host("h3", "dc1", "i3", 1)}

MCInit == Init /\ DocInit /\ scenario \in {"revisions", "preview"}

MCNext ==
    /\ UNCHANGED scenario
    /\ \/ scenario = "revisions" /\ Next /\ UNCHANGED preview
       \/ scenario = "preview" /\ DocNext /\ UNCHANGED vars

MCSpec == MCInit /\ [][MCNext]_<<vars, preview, scenario>> /\ Fairness
=============================================================================
