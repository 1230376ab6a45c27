---------------------------- MODULE ModelServing ----------------------------
(***************************************************************************)
(* models.go, context_override.go and the part of body.go that asks for a   *)
(* context window: what the host is told an account serves, and the window  *)
(* that a request of the account asks for.                                  *)
(*                                                                         *)
(* Per account dynamicModelsCache keeps the last catalog that was           *)
(* discovered, with the windows of each model; it goes stale and is never   *)
(* removed.  The operator's override of a window is one for all accounts:   *)
(* the panel has it validated against all catalogs known, and commits the   *)
(* whole map that it was answered by a later configure.  The gateways of    *)
(* the two regions publish different windows under the same model name.     *)
(*                                                                         *)
(* A catalog maps the models of it to their windows (ContextTiers) and the  *)
(* one marked as default, or None.  CatalogStore has its way to the disk    *)
(* and back, ModelOverlay the operator's list of models, Cooldown the       *)
(* models withheld; they come after what is answered here.                  *)
(***************************************************************************)
EXTENDS Integers

CONSTANTS
  Subscribers,   \* accounts
  Nameless,      \* those without a uid, known by their token
  ModelKeys,     \* model ids
  Published,     \* per account the catalogs that its gateway may answer
  Askers,        \* goroutines that discover or answer
  Windows,       \* numbers of tokens an override may name
  NoCatalog,
  MaxRenewals,   \* bound: token refreshes
  MaxAsks,       \* bound: calls of the models API
  MaxOverrides   \* bound: overrides proposed or configured

(* A catalog without a model is an error, and none is stored (models.go:505). *)
ASSUME ServingAssumption ==
  /\ Nameless \subseteq Subscribers
  /\ \A a \in Subscribers : \A catalog \in Published[a] :
       catalog # NoCatalog /\ DOMAIN catalog # {}
  /\ Windows \subseteq Nat \ {0}
  /\ {MaxRenewals, MaxAsks, MaxOverrides} \subseteq Nat

VARIABLES
  known,      \* dynamicModelsCache.byAccount: the catalogs
  fresh,      \* keys discovered within dynamicModelsCacheTTL
  epoch,      \* per account the number of its token
  override,   \* contextOverrides; 0 for a model that has none
  proposals,  \* maps answered to the panel and not committed yet
  asker,      \* per goroutine what it is about
  asks, overrides   \* the counters that bound the model

servingVars == <<known, fresh, epoch, override, proposals, asker, asks, overrides>>

AccountKeys == Subscribers \X (0 .. MaxRenewals)

(* accountCacheKey: the uid, or the digest of the token. *)
AccountCacheKey(a, n) == <<a, IF a \in Nameless THEN n ELSE 0>>

NoAsker == [step |-> "idle", account |-> NoCatalog, key |-> NoCatalog,
            answer |-> NoCatalog, had |-> FALSE]

ServingInit ==
  /\ known = [k \in AccountKeys |-> NoCatalog]
  /\ fresh = {}
  /\ epoch = [a \in Subscribers |-> 0]
  /\ override = [m \in ModelKeys |-> 0]
  /\ proposals = {}
  /\ asker = [r \in Askers |-> NoAsker]
  /\ asks = 0 /\ overrides = 0

-----------------------------------------------------------------------------
(* Mutant: the override is believed. *)
EffectiveBelieved(m, fact) ==
  IF override[m] # 0 THEN override[m] ELSE fact.default

(* contextDefaultTokens and effectiveContextFacts: the operator's window if *)
(* this account publishes it, else the one marked as default; 0 is unknown. *)
EffectiveWindow(m, fact) ==
  IF override[m] \in fact.tiers THEN override[m] ELSE fact.default

(* effectiveModelsForAccount: the models of one discovery with the facts of *)
(* the last one, which may be later.                                        *)
EffectiveModels(catalog, facts) ==
  [m \in DOMAIN catalog |->
     IF m \in DOMAIN facts THEN EffectiveWindow(m, facts[m]) ELSE 0]

(* Catalogs discovered, and those that serve a model. *)
KnownKeys == {k \in AccountKeys : known[k] # NoCatalog}
Serving(m) == {k \in KnownKeys : m \in DOMAIN known[k]}

(* supportedContextTiersFor: the windows that all of them publish.          *)
SupportedContextTiers(m) ==
  {w \in Windows : Serving(m) # {} /\ \A k \in Serving(m) : w \in known[k][m].tiers}

-----------------------------------------------------------------------------
(* handleModelForAuth, with the credential as the host has it: a fresh      *)
(* catalog is answered at once, else the gateway is asked.                  *)
Answered(r, answer) ==
  asker' = [asker EXCEPT ![r].step = "answered", ![r].answer = answer]

ModelForAuth(r, a) ==
  LET k == AccountCacheKey(a, epoch[a])
      begun == [NoAsker EXCEPT !.account = a, !.key = k, !.had = known[k] # NoCatalog]
  IN  /\ asker[r].step = "idle"
      /\ \/ /\ k \in fresh
            /\ asker' = [asker EXCEPT ![r] =
                 [begun EXCEPT !.step = "answered",
                               !.answer = EffectiveModels(known[k], known[k])]]
            /\ UNCHANGED asks
         \/ /\ k \notin fresh /\ asks < MaxAsks
            /\ asker' = [asker EXCEPT ![r] = [begun EXCEPT !.step = "asking"]]
            /\ asks' = asks + 1
      /\ UNCHANGED <<known, fresh, epoch, override, proposals, overrides>>

(* The panel's refresh of one or all accounts asks whatever is fresh. *)
Refresh(r, a) ==
  /\ asker[r].step = "idle"
  /\ asks < MaxAsks /\ asks' = asks + 1
  /\ asker' = [asker EXCEPT ![r] = [NoAsker EXCEPT !.step = "refreshing", !.account = a,
                                      !.key = AccountCacheKey(a, epoch[a])]]
  /\ UNCHANGED <<known, fresh, epoch, override, proposals, overrides>>

(* callModelsAPI: the catalog is stored under the account's own key. *)
CallModelsAPI(r) ==
  /\ asker[r].step \in {"asking", "refreshing"}
  /\ \E catalog \in Published[asker[r].account] :
       /\ known' = [known EXCEPT ![asker[r].key] = catalog]
       /\ asker' = IF asker[r].step = "asking"
                   THEN [asker EXCEPT ![r].step = "stored", ![r].answer = catalog]
                   ELSE [asker EXCEPT ![r] = NoAsker]
  /\ fresh' = fresh \cup {asker[r].key}
  /\ UNCHANGED <<epoch, override, proposals, asks, overrides>>

(* Then its models are answered with the facts that are stored by now. *)
AnswerDiscovered(r) ==
  /\ asker[r].step = "stored"
  /\ Answered(r, EffectiveModels(asker[r].answer, known[asker[r].key]))
  /\ UNCHANGED <<known, fresh, epoch, override, proposals, asks, overrides>>

(* Mutant: unless it is too old. *)
LastFresh(k) == IF k \notin fresh THEN << >> ELSE EffectiveModels(known[k], known[k])

(* What is answered when the gateway fails: the account's catalog of before, *)
(* however old.                                                             *)
LastGood(k) == IF known[k] = NoCatalog THEN << >> ELSE EffectiveModels(known[k], known[k])

CallFails(r) ==
  /\ \/ asker[r].step = "asking" /\ Answered(r, LastGood(asker[r].key))
     \/ asker[r].step = "refreshing" /\ asker' = [asker EXCEPT ![r] = NoAsker]
  /\ UNCHANGED <<known, fresh, epoch, override, proposals, asks, overrides>>

(* contextTierForModel and withModelContext: what a chat request asks for,  *)
(* by the last catalog of its own account; 0 leaves the template's default. *)
ChatRequest(r, a, m) ==
  LET k == AccountCacheKey(a, epoch[a])
      facts == IF known[k] = NoCatalog THEN << >> ELSE known[k]
  IN  /\ asker[r].step = "idle"
      /\ asker' = [asker EXCEPT ![r] =
           [NoAsker EXCEPT !.step = "answered", !.account = a, !.key = k,
              !.answer = [x \in {m} |-> IF m \in DOMAIN facts
                                        THEN EffectiveWindow(m, facts[m]) ELSE 0]]]
      /\ UNCHANGED <<known, fresh, epoch, override, proposals, asks, overrides>>

Done(r) ==
  /\ asker[r].step = "answered"
  /\ asker' = [asker EXCEPT ![r] = NoAsker]
  /\ UNCHANGED <<known, fresh, epoch, override, proposals, asks, overrides>>

Expire(k) ==
  /\ k \in fresh /\ fresh' = fresh \ {k}
  /\ UNCHANGED <<known, epoch, override, proposals, asker, asks, overrides>>

(* A token refresh; it moves the key of a nameless account. *)
RenewToken(a) ==
  /\ epoch[a] < MaxRenewals
  /\ epoch' = [epoch EXCEPT ![a] = @ + 1]
  /\ UNCHANGED <<known, fresh, override, proposals, asker, asks, overrides>>

-----------------------------------------------------------------------------
(* handleModelContextWrite: validates, and answers the map as it would be.  *)
ProposeOverride(m, w) ==
  /\ overrides < MaxOverrides /\ overrides' = overrides + 1
  /\ w \in SupportedContextTiers(m) \cup {0}
  /\ proposals' = proposals \cup {[override EXCEPT ![m] = w]}
  /\ UNCHANGED <<known, fresh, epoch, override, asker, asks>>

(* replaceContextOverrides: the panel's PATCH has reached configure, or the  *)
(* operator has written the config by hand.                                 *)
ReplaceContextOverrides(next) ==
  /\ override' = next
  /\ proposals' = proposals \ {next}
  /\ UNCHANGED <<known, fresh, epoch, asker, asks>>

CommitProposal(next) ==
  next \in proposals /\ ReplaceContextOverrides(next) /\ UNCHANGED overrides

WriteConfig(m, w) ==
  /\ overrides < MaxOverrides /\ overrides' = overrides + 1
  /\ ReplaceContextOverrides([override EXCEPT ![m] = w])

ServingNext ==
  \/ \E r \in Askers :
       \/ \E a \in Subscribers :
            \/ ModelForAuth(r, a) \/ Refresh(r, a)
            \/ \E m \in ModelKeys : ChatRequest(r, a, m)
       \/ CallModelsAPI(r) \/ AnswerDiscovered(r) \/ CallFails(r) \/ Done(r)
  \/ \E k \in AccountKeys : Expire(k)
  \/ \E a \in Subscribers : RenewToken(a)
  \/ \E m \in ModelKeys, w \in Windows \cup {0} : ProposeOverride(m, w) \/ WriteConfig(m, w)
  \/ \E next \in proposals : CommitProposal(next)

ServingSpec == ServingInit /\ [][ServingNext]_servingVars

-----------------------------------------------------------------------------
PublishedModels(a) == UNION {DOMAIN catalog : catalog \in Published[a]}
PublishedWindows(a, m) ==
  UNION {catalog[m].tiers \cup {catalog[m].default} :
           catalog \in {c \in Published[a] : m \in DOMAIN c}}

(* An account is answered from its own catalog and from all of it: however  *)
(* discoveries overlap, fail and go stale, tokens are refreshed and         *)
(* overrides are proposed and committed against other catalogs than today's, *)
(* neither the host nor the gateway is told of a model or of a window that  *)
(* the account's own gateway never published for it, and an account whose   *)
(* catalog was known when the host asked is not answered with an empty one. *)
OwnCatalog ==
  \A r \in Askers : asker[r].step = "answered" =>
    LET told == asker[r].answer
    IN  /\ asker[r].had => DOMAIN told # {}
        /\ \A m \in DOMAIN told :
             told[m] = 0 \/ /\ m \in PublishedModels(asker[r].account)
                            /\ told[m] \in PublishedWindows(asker[r].account, m)
=============================================================================
