-------------------------- MODULE ConfigDocuments ---------------------------
(***************************************************************************)
(* The policy document: what Parse accepts, and what POST                  *)
(* /v2/config/preview computes for one host from a document that was       *)
(* accepted: the global document with the patch of every override that     *)
(* applies to the host merged in, in list order, and the host's chain of   *)
(* servers.                                                                *)
(*                                                                         *)
(* A document is its patchable part as the JSON tree encoding/json writes  *)
(* for the Go struct, next to its servers, sites and overrides.  Each of   *)
(* the patchable sections keeps the fields that differ in kind: a plain    *)
(* number, an optional one, a toggle, a nested struct, an optional struct. *)
(* The names compared case-insensitively, the short names of domain        *)
(* controllers and the addresses of subnets are compared as classes: a     *)
(* value stands for all its spellings, a subnet for the set of its         *)
(* addresses.                                                              *)
(***************************************************************************)
EXTENDS Integers, Sequences, FiniteSets, SequencesExt, FiniteSetsExt

CONSTANTS
    PreviewDocs,     \* the documents administrators submit
    PreviewHosts     \* the hosts they ask about

VARIABLE preview     \* the request being answered

-----------------------------------------------------------------------------
(* JSON values, and the Go types they are decoded into.                     *)

Null == <<"null">>
Num(n) == <<"int", n>>
Str(s) == <<"string", s>>
Bool(b) == <<"bool", b>>
Object(f) == <<"object", f>>

IsObject(v) == v[1] = "object"
Field(v, k) == IF k \in DOMAIN v[2] THEN v[2][k] ELSE Null

Number == <<"int">>
Text == <<"string">>
Toggle == <<"bool">>
Ptr(t) == <<"ptr", t>>
Struct(f) == <<"struct", f>>

ResolverTuning == Struct([attempts |-> Number, baseBackoffSeconds |-> Number])
UpdaterTuning == Struct([pollIntervalMinutes |-> Ptr(Number), resolver |-> Ptr(ResolverTuning)])
Logging == Struct([maxSizeMB |-> Number, backups |-> Number])
Control == Struct([app |-> Struct([mode |-> Text])])
ToggleOnly == Struct([enabled |-> Toggle])

\* The part of Document that AllowedPatchKeys lets a patch touch.  (clientWs is
\* left out of the JSON when it is nil, which reads as null.)
PatchableDoc ==
    Struct([control |-> Ptr(Control), updater |-> Ptr(UpdaterTuning),
            logging |-> Ptr(Logging), defaultServer |-> Text, clientWs |-> Ptr(ToggleOnly)])

AllowedPatchKeys == DOMAIN PatchableDoc[2]

\* json.Unmarshal into a type: null leaves the zero value, an unknown key is
\* dropped, and a value of another type is an error.
RECURSIVE Decodes(_, _)
Decodes(t, v) ==
    \/ v = Null
    \/ t[1] = "ptr" /\ Decodes(t[2], v)
    \/ t[1] = "struct" /\ IsObject(v) /\ \A k \in DOMAIN t[2] : Decodes(t[2][k], Field(v, k))
    \/ t[1] \in {"int", "string", "bool"} /\ v[1] = t[1]

\* What json.Marshal writes for the decoded value: every field is there.
RECURSIVE RoundTrip(_, _)
RoundTrip(t, v) ==
    CASE t[1] = "int" -> IF v = Null THEN Num(0) ELSE v
      [] t[1] = "string" -> IF v = Null THEN Str("") ELSE v
      [] t[1] = "bool" -> IF v = Null THEN Bool(FALSE) ELSE v
      [] t[1] = "ptr" -> IF v = Null THEN Null ELSE RoundTrip(t[2], v)
      [] t[1] = "struct" ->
            Object([k \in DOMAIN t[2] |->
                      RoundTrip(t[2][k], IF v = Null THEN Null ELSE Field(v, k))])

-----------------------------------------------------------------------------
(* JSON merge patch.                                                        *)

\* Faulty variant: an object replaces the target as a scalar does.
FaultyMergePatch(target, patch) == patch

\* A null in an object deletes the key; what is not an object replaces.
RECURSIVE mergePatch(_, _)
mergePatch(target, patch) ==
    IF ~IsObject(patch) THEN patch
    ELSE LET t == IF IsObject(target) THEN target[2] ELSE << >>
             kept == {k \in DOMAIN t : ~(k \in DOMAIN patch[2] /\ patch[2][k] = Null)}
             set == {k \in DOMAIN patch[2] : patch[2][k] # Null}
         IN Object([k \in kept \cup set |->
                      IF k \in set
                      THEN mergePatch(IF k \in DOMAIN t THEN t[k] ELSE Null, patch[2][k])
                      ELSE t[k]])

Merged(tree, patch) ==
    Object([k \in DOMAIN tree[2] |->
              IF k \in DOMAIN patch THEN mergePatch(tree[2][k], patch[k]) ELSE tree[2][k]])

\* applyPatchToDocument: the patch merged into the tree, if that decodes.
Applicable(tree, patch) == Decodes(PatchableDoc, Merged(tree, patch))
Patched(tree, patch) == RoundTrip(PatchableDoc, Merged(tree, patch))

-----------------------------------------------------------------------------
(* What Parse checks.                                                       *)

At2(tree, k, f) == Field(Field(tree, k), f)[2]

validateControl(c) == c # Null => At2(c, "app", "mode") \in {"", "normal", "readonly", "maintenance"}

validateUpdater(u) ==
    u # Null =>
        LET poll == Field(u, "pollIntervalMinutes") resolver == Field(u, "resolver")
        IN /\ poll # Null => poll[2] >= 1
           /\ resolver # Null => /\ Field(resolver, "attempts")[2] >= 1
                                 /\ Field(resolver, "baseBackoffSeconds")[2] >= 0

validateLogging(l) ==
    l # Null => /\ Field(l, "maxSizeMB")[2] \in 0..100
                /\ Field(l, "backups")[2] \in 0..50

validateSections(tree) ==
    /\ validateControl(Field(tree, "control"))
    /\ validateUpdater(Field(tree, "updater"))
    /\ validateLogging(Field(tree, "logging"))

DefaultServer(tree) == Field(tree, "defaultServer")[2]

validateServers(doc) == doc.servers # {} /\ DefaultServer(doc.tree) \in doc.servers

validateDCLookupMap(doc) ==
    \A site \in doc.sites :
        /\ site.subnets # {}
        /\ site.base \in doc.servers
        /\ ToSet(site.backup) \subseteq doc.servers

\* "lists" holds the keys of a selector that are not empty.
validateSelector(sel, allowAll) ==
    IF sel.all = "absent" THEN DOMAIN sel.lists # {}
    ELSE allowAll /\ sel.all = "true" /\ DOMAIN sel.lists = {}

\* The absent "except" of an override: a selector that selects no host.
NoSelector == [all |-> "absent", lists |-> << >>]

validateOverridesShape(doc) ==
    \A i \in DOMAIN doc.overrides :
        LET ov == doc.overrides[i] IN
        /\ ov.id # ""
        /\ \A j \in DOMAIN doc.overrides : doc.overrides[j].id = ov.id => j = i
        /\ validateSelector(ov.match, TRUE)
        /\ ov.except # NoSelector => validateSelector(ov.except, FALSE)
        /\ DOMAIN ov.patch \subseteq AllowedPatchKeys

\* Faulty variant: the patched sections are not validated again.
FaultyDryRun(doc) ==
    \A i \in DOMAIN doc.overrides :
        LET patch == doc.overrides[i].patch
        IN /\ Applicable(doc.tree, patch)
           /\ DefaultServer(Patched(doc.tree, patch)) \in doc.servers \cup {""}

\* Every override alone, on top of the global document.
dryRunOverrides(doc) ==
    \A i \in DOMAIN doc.overrides :
        LET patch == doc.overrides[i].patch
            patched == Patched(doc.tree, patch)
        IN /\ Applicable(doc.tree, patch)
           /\ DefaultServer(patched) \in doc.servers \cup {""}
           /\ validateSections(patched)

Accepted(doc) ==
    /\ validateServers(doc) /\ validateDCLookupMap(doc) /\ validateSections(doc.tree)
    /\ validateOverridesShape(doc)
    /\ dryRunOverrides(doc)

-----------------------------------------------------------------------------
(* Which overrides apply to a host, and its chain of servers.               *)

\* One non-empty list of a selector against the host; a name the host does not
\* report matches nothing.
ListMatches(key, values, h) ==
    IF key = "subnets" THEN \E net \in values : net \cap h.ips # {}
    ELSE h[key] # "" /\ h[key] \in values

Match(sel, h) ==
    \/ sel.all = "true"
    \/ /\ DOMAIN sel.lists # {}
       /\ \A key \in DOMAIN sel.lists : ListMatches(key, sel.lists[key], h)

\* 0 is no expiry.
untilExpired(until, now) == until # 0 /\ now > until

Applies(ov, h) ==
    /\ ~untilExpired(ov.until, h.now)
    /\ Match(ov.match, h)
    /\ ~Match(ov.except, h)

SitesOf(doc, h) ==
    {site \in doc.sites : /\ site.enabled
                          /\ h.dcs # "" /\ site.dc = h.dcs
                          /\ \E net \in site.subnets : net \cap h.ips # {}}

\* ResolveSite: when several sites match, map iteration order picks one.
Chains(doc, tree, h) ==
    IF SitesOf(doc, h) = {} THEN {<<DefaultServer(tree)>>}
    ELSE {<<site.base>> \o site.backup : site \in SitesOf(doc, h)}

-----------------------------------------------------------------------------
(* The handler of POST /v2/config/preview.                                  *)

Idle == [status |-> "idle"]

DocInit == preview = Idle

\* The request is decoded and its document parsed: 422 unless it is accepted.
PreviewConfig ==
    /\ preview = Idle
    /\ \E doc \in PreviewDocs, h \in PreviewHosts :
        preview' = [status |-> IF Accepted(doc) THEN "merging" ELSE "refused",
                    doc |-> doc, host |-> h, at |-> 1,
                    effective |-> doc.tree, applied |-> << >>, chain |-> << >>]

Override == preview.doc.overrides[preview.at]

Merging == preview.status = "merging" /\ preview.at <= Len(preview.doc.overrides)

\* One turn of Effective's loop: the patch goes on top of what came before.
ApplyOverride ==
    /\ Merging
    /\ Applies(Override, preview.host) /\ Applicable(preview.effective, Override.patch)
    /\ preview' = [preview EXCEPT !.at = @ + 1, !.applied = Append(@, preview.at),
                                  !.effective = Patched(@, Override.patch)]

SkipOverride ==
    /\ Merging
    /\ ~(Applies(Override, preview.host) /\ Applicable(preview.effective, Override.patch))
    /\ preview' = [preview EXCEPT !.at = @ + 1]

\* The site is resolved on the effective document, and the answer is sent.
Answer ==
    /\ preview.status = "merging" /\ preview.at > Len(preview.doc.overrides)
    /\ \E chain \in Chains(preview.doc, preview.effective, preview.host) :
        preview' = [preview EXCEPT !.status = "answered", !.chain = chain]

DocNext == PreviewConfig \/ ApplyOverride \/ SkipOverride \/ Answer

-----------------------------------------------------------------------------
(* Properties.                                                              *)

\* The value a JSON tree gives a path: what stands above it stands for it.
RECURSIVE Speaks(_, _)
Speaks(v, path) ==
    IF path = << >> THEN TRUE
    ELSE ~IsObject(v) \/ (Head(path) \in DOMAIN v[2] /\ Speaks(v[2][Head(path)], Tail(path)))

RECURSIVE Says(_, _)
Says(v, path) ==
    IF path = << >> THEN v
    ELSE IF IsObject(v) THEN Says(Field(v, Head(path)), Tail(path)) ELSE Null

\* The leaves, with the value that stands for an absent one.
Leaves ==
    {[path |-> <<"updater", "pollIntervalMinutes">>, zero |-> Null],
     [path |-> <<"updater", "resolver", "attempts">>, zero |-> Num(0)],
     [path |-> <<"updater", "resolver", "baseBackoffSeconds">>, zero |-> Num(0)],
     [path |-> <<"logging", "maxSizeMB">>, zero |-> Num(0)],
     [path |-> <<"logging", "backups">>, zero |-> Num(0)],
     [path |-> <<"control", "app", "mode">>, zero |-> Str("")],
     [path |-> <<"clientWs", "enabled">>, zero |-> Bool(FALSE)],
     [path |-> <<"defaultServer">>, zero |-> Str("")]}

OrZero(v, leaf) == IF v = Null THEN leaf.zero ELSE v

LastWord(leaf) ==
    LET writers == {i \in ToSet(preview.applied) :
                      Speaks(Object(preview.doc.overrides[i].patch), leaf.path)}
    IN IF writers = {} THEN Says(preview.doc.tree, leaf.path)
       ELSE Says(Object(preview.doc.overrides[Max(writers)].patch), leaf.path)

\* Merging whole patches one after the other, each through a JSON round trip,
\* gives every field of the document the value of the last override applied
\* that speaks of the field, of a section around it or of its deletion, and
\* the global value when none does (Effective over applyPatchToDocument and
\* mergePatch): no patch undoes what an earlier one said about another field.
LastOverrideWins ==
    preview.status = "answered" =>
        \A leaf \in Leaves :
            OrZero(Says(preview.effective, leaf.path), leaf) = OrZero(LastWord(leaf), leaf)

\* A patch that takes a section, a field or the default server away.
RECURSIVE HasNull(_)
HasNull(v) == v = Null \/ (IsObject(v) /\ \E k \in DOMAIN v[2] : HasNull(v[2][k]))

Deletes(i) == HasNull(Object(preview.doc.overrides[i].patch))

EmptiesDefault(i) ==
    LET patch == preview.doc.overrides[i].patch
    IN "defaultServer" \in DOMAIN patch /\ patch["defaultServer"] \in {Null, Str("")}

\* Parse tries each override alone on the global document; the host gets all
\* that apply to it, one on top of the other.  As long as no override leaves
\* the default server empty, and those that delete something apply alone, what
\* the host gets is still a document Parse would take, and its chain names
\* servers that exist.
EffectiveStaysValid ==
    /\ preview.status = "answered"
    /\ \A i \in ToSet(preview.applied) : ~EmptiesDefault(i)
    /\ (\E i \in ToSet(preview.applied) : Deletes(i)) => Len(preview.applied) = 1
    => /\ validateSections(preview.effective)
       /\ ToSet(preview.chain) # {} /\ ToSet(preview.chain) \subseteq preview.doc.servers
=============================================================================
