---------------------------- MODULE ModelOverlay ----------------------------
(***************************************************************************)
(* model_config.go, and what usage_config.go does of it at a configure: the *)
(* operator's edits of the model catalog.  The overlay is in memory; only   *)
(* the panel makes an edit last, by a PATCH of the host's config that       *)
(* follows the edit as a request of its own.  The host hands the config     *)
(* over at the next configure, whenever that is, and at a start.            *)
(*                                                                         *)
(* An action of the panel loads a copy of the overlay, edits it and stores  *)
(* it whole; the revision is counted and never compared.  The order of the  *)
(* pinned models is left out: the list is the set of them.                  *)
(***************************************************************************)
EXTENDS Integers, FiniteSets

CONSTANTS
  ModelIds,     \* model ids
  BaseModels,   \* the ids that upstream's catalog has
  Panels,       \* browsers with the panel open
  MaxEdits,     \* bound: edits in all
  MaxFailures,  \* bound: PUTs and PATCHes that fail
  MaxReloads    \* bound: configures without a change, and restarts

ASSUME OverlayAssumption ==
  /\ IsFiniteSet(ModelIds) /\ "none" \notin ModelIds /\ BaseModels \subseteq ModelIds
  /\ {MaxEdits, MaxFailures, MaxReloads} \subseteq Nat

VARIABLES
  overlay,   \* currentModelOverlayState
  config,    \* hidden_models and model_order of the host's config
  unloaded,  \* the config was patched since the last configure
  panel,     \* per panel the edit under way
  wish,      \* history: the ids that the last edit of them hid
  unsure,    \* history: ids whose last edit met another, or a configure,
             \* or was not patched
  crossed,   \* history: ids hidden when an order was saved, and not edited since
  edits, failures, reloads   \* the counters that bound the model

overlayVars == <<overlay, config, unloaded, panel, wish, unsure, crossed,
                 edits, failures, reloads>>

Actions == {"hide", "restore", "add", "move"}
Lasting == {"hide", "restore"}
NoOverlay == [hide |-> {}, order |-> {}, add |-> {}]
Idle == [step |-> "idle", action |-> "none", id |-> "none", copy |-> NoOverlay]

OverlayInit ==
  /\ overlay = NoOverlay
  /\ config = [hidden |-> {}, ordered |-> FALSE, order |-> {}]
  /\ unloaded = FALSE
  /\ panel = [p \in Panels |-> Idle]
  /\ wish = {} /\ unsure = {} /\ crossed = {}
  /\ edits = 0 /\ failures = 0 /\ reloads = 0

-----------------------------------------------------------------------------
(* Mutant: the list answered is of the one model hidden. *)
HiddenAlone(o, id) == {id}

Hidden(o, id) == o.hide \cup {id}

(* The four actions, on the copy that was loaded. *)
Edited(o, action, id) ==
  CASE action = "hide" -> [hide |-> Hidden(o, id), order |-> o.order \ {id},
                           add |-> o.add \ {id}]
    [] action = "restore" -> [o EXCEPT !.hide = @ \ {id}]
    [] action = "add" -> [o EXCEPT !.add = @ \cup {id}, !.hide = @ \ {id}]
    [] action = "move" -> [o EXCEPT !.order = @ \cup {id}]

(* applyModelOverlayForAdmin: what the panel lists and orders. *)
Listed(o) == BaseModels \cup (o.add \ o.hide)

Busy(p) == panel[p] # Idle

(* For the histories: the models of the edits under way. *)
InFlight == {panel[p].id : p \in Panels} \cap ModelIds

(* handleModelOverlayAction: the copy is loaded ... *)
LoadOverlay(p, action, id) ==
  /\ ~Busy(p)
  /\ edits < MaxEdits /\ edits' = edits + 1
  /\ panel' = [panel EXCEPT ![p] =
                 [step |-> "edit", action |-> action, id |-> id, copy |-> overlay]]
  /\ LET settled == IF action \in Lasting THEN {id} ELSE {}
         met == IF \E q \in Panels : Busy(q) THEN {id} \cup InFlight ELSE {}
     IN  unsure' = (unsure \ settled) \cup met /\ crossed' = crossed \ settled
  /\ UNCHANGED <<overlay, config, unloaded, wish, failures, reloads>>

(* ... and stored as edited; hide and restore answer the list that the panel *)
(* is to PATCH, an addition or a move is for this process only.              *)
StoreOverlay(p) ==
  LET job == panel[p]
      next == Edited(job.copy, job.action, job.id)
  IN  /\ job.step = "edit"
      /\ overlay' = next
      /\ wish' = IF job.action = "hide" THEN wish \cup {job.id}
                 ELSE IF job.action = "restore" THEN wish \ {job.id} ELSE wish
      /\ unsure' = IF job.action = "add" /\ job.id \in job.copy.hide
                   THEN unsure \cup {job.id} ELSE unsure
      /\ panel' = [panel EXCEPT ![p] =
                     IF job.action \in Lasting
                     THEN [job EXCEPT !.step = "patch", !.copy = next] ELSE Idle]
      /\ UNCHANGED <<config, unloaded, crossed, edits, failures, reloads>>

(* saveModelOrder: a PUT of the order of all that is listed; the overlay is  *)
(* replaced whole, by one that has nothing else.  If the PUT fails, the      *)
(* PATCH follows all the same.                                               *)
SaveOrder(p) ==
  LET ordered == [NoOverlay EXCEPT !.order = Listed(overlay)]
  IN  /\ ~Busy(p)
      /\ edits < MaxEdits /\ edits' = edits + 1
      /\ \/ overlay' = ordered /\ UNCHANGED failures
         \/ /\ failures < MaxFailures /\ failures' = failures + 1
            /\ UNCHANGED overlay
      /\ panel' = [panel EXCEPT ![p] = [Idle EXCEPT !.step = "patchOrder", !.copy = ordered]]
      /\ crossed' = crossed \cup overlay.hide \cup wish
      /\ unsure' = unsure \cup InFlight
      /\ UNCHANGED <<config, unloaded, wish, reloads>>

(* The host's PATCH of one field; the next configure is due. *)
PatchConfig(p) ==
  /\ panel[p].step \in {"patch", "patchOrder"}
  /\ config' = IF panel[p].step = "patch"
               THEN [config EXCEPT !.hidden = panel[p].copy.hide]
               ELSE [config EXCEPT !.ordered = TRUE, !.order = panel[p].copy.order]
  /\ unloaded' = TRUE
  /\ panel' = [panel EXCEPT ![p] = Idle]
  /\ UNCHANGED <<overlay, wish, unsure, crossed, edits, failures, reloads>>

(* The PATCH fails, and the operator is told. *)
PatchFails(p) ==
  /\ panel[p].step \in {"patch", "patchOrder"}
  /\ failures < MaxFailures /\ failures' = failures + 1
  /\ panel' = [panel EXCEPT ![p] = Idle]
  /\ unsure' = unsure \cup ({panel[p].id} \cap ModelIds)
  /\ UNCHANGED <<overlay, config, unloaded, wish, crossed, edits, reloads>>

(* syncOverlayHiddenModels and syncOverlayModelOrder: an order that is not   *)
(* in the config leaves that of memory alone, hidden models are replaced.    *)
Synced(o) ==
  [o EXCEPT !.hide = config.hidden,
            !.order = IF config.ordered THEN config.order ELSE @]

Configure ==
  /\ \/ unloaded /\ UNCHANGED reloads
     \/ reloads < MaxReloads /\ reloads' = reloads + 1
  /\ overlay' = Synced(overlay)
  /\ unloaded' = FALSE
  /\ unsure' = unsure \cup InFlight
  /\ UNCHANGED <<config, panel, wish, crossed, edits, failures>>

Restart ==
  /\ reloads < MaxReloads /\ reloads' = reloads + 1
  /\ overlay' = Synced(NoOverlay)
  /\ unloaded' = FALSE
  /\ panel' = [p \in Panels |-> IF panel[p].step = "edit" THEN Idle ELSE panel[p]]
  /\ unsure' = unsure \cup InFlight
  /\ UNCHANGED <<config, wish, crossed, edits, failures>>

OverlayNext ==
  \/ Configure \/ Restart
  \/ \E p \in Panels :
       \/ \E action \in Actions : \E id \in ModelIds : LoadOverlay(p, action, id)
       \/ StoreOverlay(p) \/ SaveOrder(p) \/ PatchConfig(p) \/ PatchFails(p)

OverlaySpec == OverlayInit /\ [][OverlayNext]_overlayVars

-----------------------------------------------------------------------------
Quiet == \A p \in Panels : ~Busy(p)
Kept(id) ==
  /\ id \in config.hidden <=> id \in wish
  /\ ~unloaded => (id \in overlay.hide <=> id \in wish)

(* An edit that was patched, and that no other edit and no configure met     *)
(* before it was, lasts: whatever edits of other models follow, singly or at *)
(* once, whatever fails of them, and whenever the process is configured or   *)
(* restarted, the config and, once it has been handed over, the overlay hide *)
(* the model or show it as the operator last said ("Hide is persisted        *)
(* through the plugin's `hidden_models` config").                            *)
EditsKept == Quiet => \A id \in ModelIds \ (unsure \cup crossed) : Kept(id)

(* Saving an order does no more than that: what the operator had hidden      *)
(* remains hidden (panel.html of saveModelOrder: only model_order is written, *)
(* as carrying other settings along would quietly change what the operator   *)
(* has just hidden).                                                         *)
OrderSparesHidden ==
  Quiet => \A id \in ModelIds \ unsure : id \in wish => id \in config.hidden
=============================================================================
