----------------------------- MODULE MCReleases -----------------------------
(***************************************************************************)
(* Two requests at a time on two versions that share a file name, so that  *)
(* uploads overwrite each other.  The slots are the two EMLy ones that a   *)
(* create and an update clear in opposite orders; beta goes with stable,   *)
(* and the updater's one slot is the case where the requests keep to one   *)
(* of them.                                                                *)
(***************************************************************************)
EXTENDS Releases, TLC

CreateOrder == [s \in Slots |-> IF s = "critical" THEN 1 ELSE 2]
UpdateOrder == [s \in Slots |-> IF s = "critical" THEN 2 ELSE 1]

Symmetry == Permutations(Requests) \cup Permutations(Versions)
                \cup Permutations(Filenames) \cup Permutations(Contents)
=============================================================================
