------------------------ MODULE CooldownTableProofs -------------------------
(***************************************************************************)
(* Lemmas about the operators of CooldownTable, for every set of accounts  *)
(* and models, every TTL and capacity.  UpstreamProofs and ExecutorProofs  *)
(* use them.                                                               *)
(***************************************************************************)
EXTENDS CooldownTable, FiniteSetTheorems, TLAPS

-----------------------------------------------------------------------------
(* The operators of CooldownTable keep a table a table.                    *)

(* Keys is what the Go map may be keyed by: finite, because accounts and   *)
(* models are.                                                             *)
LEMMA KeysFinite == IsFiniteSet(Keys)
<1>1. IsFiniteSet(ModelNames)
  BY CooldownAssumption, FS_AddElement DEF ModelNames
<1>. QED
  BY <1>1, CooldownAssumption, FS_Product DEF Keys

(* A sweep only forgets entries.                                           *)
LEMMA SweepTable ==
  ASSUME NEW t \in Tables, NEW at \in Nat
  PROVE  /\ Sweep(t, at) \in Tables
         /\ \A k \in Keys : /\ Sweep(t, at)[k] \in {t[k], None}
                            /\ Sweep(t, at)[k] # None <=> Live(t, k, at)
BY NoneAssumption DEF Sweep, Tables, Live

(* A fresh failure entry is an entry.                                      *)
LEMMA FailureEntryType ==
  ASSUME NEW reason \in {"rate_limit", "upstream_error"}, NEW at \in Nat
  PROVE  FailureEntry(reason, at) \in Entries
<1>1. TTL(reason) \in Nat
  BY CooldownAssumption DEF TTL
<1>. QED
  BY <1>1 DEF FailureEntry, Entries, Reasons

(* So is a fresh quota entry.                                              *)
LEMMA QuotaEntryType ==
  ASSUME NEW reason \in QuotaReasons, NEW hint \in Nat, NEW at \in Nat
  PROVE  QuotaEntry(reason, hint, at) \in Entries
BY CooldownAssumption DEF QuotaEntry, Entries, Reasons

(* What markModelCooldown may leave: the table, its sweep, or its sweep    *)
(* with one entry replaced, after one eviction when it was full.           *)
LEMMA MarkShape ==
  ASSUME NEW t \in Tables, NEW a \in Auths, NEW m \in ModelNames,
         NEW reason \in {"rate_limit", "upstream_error"}, NEW at \in Nat,
         NEW u \in MarkModelCooldown(t, a, m, reason, at)
  PROVE  LET k == <<a, m>>
             s == Sweep(t, at)
             e == FailureEntry(reason, at)
         IN  \/ u = t
             \/ u = s
             \/ /\ m \in Models
                /\ ~(s[k] # None /\ s[k].reason \in QuotaReasons)
                /\ \/ ~Full(s) /\ u = [s EXCEPT ![k] = e]
                   \/ /\ Full(s)
                      /\ \E v \in Oldest(s) :
                           u = [s EXCEPT ![v] = None, ![k] = e]
BY DEF MarkModelCooldown, ModelNames

(* Every result of markModelCooldown is a table.                           *)
LEMMA MarkTable ==
  ASSUME NEW t \in Tables, NEW a \in Auths, NEW m \in ModelNames,
         NEW reason \in {"rate_limit", "upstream_error"}, NEW at \in Nat,
         NEW u \in MarkModelCooldown(t, a, m, reason, at)
  PROVE  u \in Tables
<1>1. Sweep(t, at) \in Tables
  BY SweepTable
<1>2. FailureEntry(reason, at) \in Entries
  BY FailureEntryType
<1>3. ASSUME NEW v \in Keys, NEW k \in Keys
      PROVE  /\ [Sweep(t, at) EXCEPT ![k] = FailureEntry(reason, at)] \in Tables
             /\ [Sweep(t, at) EXCEPT ![v] = None,
                                     ![k] = FailureEntry(reason, at)] \in Tables
  BY <1>1, <1>2 DEF Tables
<1>4. <<a, m>> \in Keys
  BY DEF Keys
<1>5. \/ u \in {t, Sweep(t, at)}
      \/ u = [Sweep(t, at) EXCEPT ![<<a, m>>] = FailureEntry(reason, at)]
      \/ \E v \in Keys : u = [Sweep(t, at) EXCEPT ![v] = None,
                              ![<<a, m>>] = FailureEntry(reason, at)]
  BY MarkShape DEF Oldest, Present
<1>. QED
  BY <1>1, <1>3, <1>4, <1>5

(* So is that of recordCooldownHint ...                                    *)
LEMMA HintTable ==
  ASSUME NEW t \in Tables, NEW a \in Auths, NEW m \in ModelNames,
         NEW hint \in Nat, NEW at \in Nat
  PROVE  RecordCooldownHint(t, a, m, hint, at) \in Tables
<1>. DEFINE k == <<a, m>>
<1>1. k \in Keys
  BY DEF Keys
<1>2. CASE hint > at /\ t[k] # None /\ t[k].reason = "rate_limit"
  <2>1. t[k] \in Entries
    BY <1>1, <1>2 DEF Tables
  <2>2. [t[k] EXCEPT !.until = hint, !.hint = hint] \in Entries
    BY <2>1 DEF Entries
  <2>. QED
    BY <1>1, <1>2, <2>2 DEF RecordCooldownHint, Tables
<1>. QED
  BY <1>2 DEF RecordCooldownHint

(* ... of recordQuotaObservation ...                                       *)
LEMMA QuotaTable ==
  ASSUME NEW t \in Tables, NEW a \in Auths, NEW m \in ModelNames,
         NEW reason \in QuotaReasons, NEW hint \in Nat, NEW at \in Nat
  PROVE  RecordQuotaObservation(t, a, m, reason, hint, at) \in Tables
<1>1. Sweep(t, at) \in Tables
  BY SweepTable
<1>2. QuotaEntry(reason, hint, at) \in Entries
  BY QuotaEntryType
<1>3. QuotaKey(a, m, reason) \in Keys
  BY DEF QuotaKey, Keys, ModelNames
<1>. QED
  BY <1>1, <1>2, <1>3 DEF RecordQuotaObservation, Tables

(* ... and of the operations that only delete.                             *)
LEMMA DeletionTables ==
  ASSUME NEW t \in Tables, NEW a \in Auths, NEW m \in ModelNames,
         NEW at \in Nat
  PROVE  /\ ClearModelCooldown(t, a, m) \in Tables
         /\ ObservePositiveCredits(t, a, at) \in Tables
         /\ PruneAccount(t, a, at) \in Tables
         /\ PruneGuard(t, a, m, at) \in Tables
BY DEF ClearModelCooldown, ObservePositiveCredits, PruneAccount, PruneGuard,
       Tables

=============================================================================
