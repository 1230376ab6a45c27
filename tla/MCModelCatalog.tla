--------------------------- MODULE MCModelCatalog ---------------------------
(***************************************************************************)
(* Three parts of the model catalog, each on a small instance: its way to   *)
(* the disk and back, what each account is answered from it, and the        *)
(* operator's edits.  They have no variable in common, so a behaviour moves *)
(* one of them and leaves the others where they began.                      *)
(***************************************************************************)
EXTENDS CatalogStore, ModelServing, ModelOverlay, TLC

CONSTANTS a1, b1, m1, m2

VARIABLE part

(* a1 gained a window and lost m2; b1, of the other region, has no default   *)
(* for m1 at first.                                                          *)
Fact(tiers, default) == [tiers |-> tiers, default |-> default]
PublishedHere ==
  a1 :> {m1 :> Fact({1, 2}, 1), m1 :> Fact({1}, 1) @@ m2 :> Fact({}, 1)}
  @@ b1 :> {m1 :> Fact({2, 3}, 2), m1 :> Fact({2, 3}, 0) @@ m2 :> Fact({3}, 3)}

Symmetry ==
  Permutations(Refreshers) \cup Permutations(Askers) \cup Permutations(Panels)

PartInit ==
  /\ part \in {"store", "serving", "overlay"}
  /\ CatalogInit /\ ServingInit /\ OverlayInit
  /\ part # "store" => ~windows

PartNext ==
  /\ UNCHANGED part
  /\ \/ part = "store" /\ CatalogNext /\ UNCHANGED <<servingVars, overlayVars>>
     \/ part = "serving" /\ ServingNext /\ UNCHANGED <<catalogVars, overlayVars>>
     \/ part = "overlay" /\ OverlayNext /\ UNCHANGED <<catalogVars, servingVars>>

PartSpec == PartInit /\ [][PartNext]_<<part, catalogVars, servingVars, overlayVars>>
=============================================================================
