---------------------------- MODULE RefusalPolicy ----------------------------
(***************************************************************************)
(* policy.go, daily_quota.go, queue_error.go and quota_observation.go: what *)
(* a refusal of the gateway means.  The same refusal reaches the code as an *)
(* HTTP status or as an envelope inside an HTTP 200 stream, on three paths  *)
(* of the executor; each decides whether to try again, what the cooldown    *)
(* table records, what status crosses to the host and whether the credits   *)
(* are read again.  Some decide on the body, some on the text of the error  *)
(* the body was rendered into.                                              *)
(*                                                                         *)
(* A body is the set of the markers found in it, in its first 200           *)
(* characters, which is what truncateRedacted keeps of a body it renders.   *)
(* CooldownTable says what becomes of a recorded reason, Executor how the   *)
(* attempts of several requests interleave.  The account is known and the   *)
(* lifecycle is switched on.                                                *)
(***************************************************************************)
EXTENDS Integers, FiniteSets

CONSTANTS
  Statuses,     \* statuses the gateway refuses with
  MaxAttempts,  \* upstreamRetryMaxAttempts
  MaxMarkers    \* bound: markers in one body

ASSUME RefusalAssumption ==
  /\ Statuses \subseteq 400..599
  /\ MaxAttempts \in Nat \ {0} /\ MaxMarkers \in Nat

(* Markers of a body.  "credit", "noCredit" and "spent" are credit wordings: *)
(* known to both classifiers, to hardCreditMarkers only ("no credits"), and *)
(* to classifyQuotaReason only (the Chinese "credits spent").  "shared"      *)
(* stands for the wordings of shared exhaustion ("insufficient shared        *)
(* credits") that hardCreditMarkers does not have.                           *)
Markers == {"dailyCount", "isQueued", "credit", "noCredit", "spent", "shared",
            "scope", "quota", "rate", "empty"}

(* Markers of the texts of the plugin's own errors, and business codes.      *)
Typed == {"typedDaily", "typedShared", "typedModel"}
CodeMarkers == {"code110", "code10605"}
QuotaKinds == {"daily", "shared", "modelCredit", "modelQuota"}
NoReason == "none"

Paths == {"execute", "sync", "async"}
Carriers == {"http", "envelope"}

(* A refusal: the status it declares (0: none), its body's numeric code and  *)
(* markers.                                                                  *)
Refusals == [status : Statuses \cup {0}, code : {0, 110, 429, 10605},
             markers : {s \in SUBSET Markers : Cardinality(s) <= MaxMarkers}]

Body(r) ==
  r.markers \cup (IF r.code = 110 THEN {"code110"} ELSE {})
            \cup (IF r.code = 10605 THEN {"code10605"} ELSE {})

VARIABLES
  path,      \* how the request came in
  carrier,   \* how refusals come back
  attempt,
  phase,     \* "sending", "refused", "ended"
  refusal,   \* the refusal at hand
  outcome    \* what the last refusal came to

policyVars == <<path, carrier, attempt, phase, refusal, outcome>>

-----------------------------------------------------------------------------
(* The classifiers. *)

IsDailyCountLimit(status, body) ==
  \/ "typedDaily" \in body
  \/ status = 403 /\ {"code110", "dailyCount"} \subseteq body

IsQueueAdmission(status, body) ==
  status = 403 /\ body \cap {"code10605", "isQueued"} # {}

IsHardCreditError(status, body) ==
  status = 402 \/ body \cap {"credit", "noCredit", "quota"} # {}

(* Mutants of isSoftRateLimit: the credit gate comes first; a daily cap is    *)
(* throttling like any other.                                                *)
SoftCreditFirst(status, body) ==
  /\ ~IsDailyCountLimit(status, body) /\ ~IsHardCreditError(status, body)
  /\ IsQueueAdmission(status, body) \/ status = 429 \/ "rate" \in body

IsSoftRateLimit(status, body) ==
  /\ ~IsDailyCountLimit(status, body)
  /\ \/ IsQueueAdmission(status, body)
     \/ /\ ~IsHardCreditError(status, body)
        /\ status = 429 \/ "rate" \in body

SaysCredit(body) == body \cap {"credit", "spent"} # {}
SaysShared(body) ==
  "shared" \in body \/ (SaysCredit(body) /\ "scope" \in body)

(* The part of classifyQuotaReason that reads the gateway's own wording.     *)
Wording(body) ==
  IF SaysShared(body) THEN "shared"
  ELSE IF SaysCredit(body) THEN "modelCredit"
  ELSE IF "quota" \in body THEN "modelQuota"
  ELSE NoReason

Readable(status, body) ==
  status \in 400..599 /\ status # 401 /\ "code110" \notin body

ClassifyQuotaReason(status, body) ==
  IF IsDailyCountLimit(status, body) THEN "daily"
  ELSE IF IsQueueAdmission(status, body) THEN NoReason
  ELSE IF "typedShared" \in body THEN "shared"
  ELSE IF "typedModel" \in body THEN "modelQuota"
  ELSE IF Readable(status, body) THEN Wording(body)
  ELSE NoReason

-----------------------------------------------------------------------------
(* Statuses and errors. *)

(* Mutant: code 110 is a 403 whatever it says. *)
BusinessEnvelopeForbidden(r) == IF r.code \in {110, 10605} THEN 403 ELSE 0

BusinessEnvelopeStatus(r) ==
  CASE r.code = 110 -> IF IsDailyCountLimit(403, Body(r)) THEN 502 ELSE 403
    [] r.code = 10605 -> 403
    [] OTHER -> 0

UpstreamEnvelopeStatus(r) ==
  IF r.status >= 400 THEN r.status
  ELSE IF r.code \in 400..599 THEN r.code
  ELSE BusinessEnvelopeStatus(r)

Status(c, r) == IF c = "http" THEN r.status ELSE UpstreamEnvelopeStatus(r)

(* Error() of the typed errors, as the markers that can be found in it: all  *)
(* quota errors say "quota exceeded", the shared one in Chinese that shared  *)
(* credits are spent, the queue error "rate limit".                          *)
TypedText(kind) ==
  CASE kind = "daily" -> {"quota", "typedDaily"}
    [] kind = "shared" -> {"quota", "typedShared", "shared", "spent"}
    [] kind = "queue" -> {"rate"}
    [] OTHER -> {"quota", "typedModel"}

(* chatUpstreamError and upstreamEnvelopeError. *)
ErrorOf(status, body) ==
  LET reason == ClassifyQuotaReason(status, body)
      kind == IF reason # NoReason THEN reason
              ELSE IF IsQueueAdmission(status, body) THEN "queue"
              ELSE "plain"
  IN  [kind |-> kind, text |-> IF kind = "plain" THEN body ELSE TypedText(kind)]

-----------------------------------------------------------------------------
(* The decisions. *)

(* The execute and the async path judge an HTTP refusal by its body, all     *)
(* else is judged by the text of the error.                                  *)
ByBody(p, c) == c = "http" /\ p # "sync"

Judged(p, c, r) ==
  IF ByBody(p, c) THEN Body(r) ELSE ErrorOf(Status(c, r), Body(r)).text

IsRetryable(p, c, r) == IsSoftRateLimit(Status(c, r), Judged(p, c, r))

RecordUpstreamFailureLegacy(status, body) ==
  IF ~IsQueueAdmission(status, body) /\ IsHardCreditError(status, body) THEN NoReason
  ELSE IF status = 429 \/ IsSoftRateLimit(status, body) THEN "rateLimit"
  ELSE IF "empty" \in body THEN "unknown"
  ELSE NoReason

RecordUpstreamFailure(status, body) ==
  LET reason == ClassifyQuotaReason(status, body)
  IN  IF reason # NoReason THEN reason ELSE RecordUpstreamFailureLegacy(status, body)

(* Mutant: the type of the error is not looked at. *)
RecordUpstreamErrorText(status, err) == RecordUpstreamFailure(status, err.text)

RecordUpstreamError(status, err) ==
  IF err.kind \in QuotaKinds THEN err.kind ELSE RecordUpstreamFailure(status, err.text)

Recorded(p, c, r) ==
  LET status == Status(c, r)
  IN  IF ByBody(p, c) THEN RecordUpstreamFailure(status, Body(r))
      ELSE RecordUpstreamError(status, ErrorOf(status, Body(r)))

(* upstreamStatusError on the HTTP refusals; an envelope's statusError is    *)
(* only stripped of typed errors (queueErrorForClient).  The async path has  *)
(* a text only.                                                              *)
Passthrough == {401, 402, 429}

UpstreamStatusError(status, err) ==
  IF err.kind = "plain" /\ status \in Passthrough THEN status ELSE 0

(* Mutant: the envelope's status crosses whatever it wraps. *)
ErrorEnvelopeWrapped(status, err) == status

ErrorEnvelopeFor(status, err) == IF err.kind = "plain" THEN status ELSE 0

Crossing(p, c, r) ==
  LET status == Status(c, r)
      err == ErrorOf(status, Body(r))
  IN  CASE p = "async" -> 0
        [] p # "async" /\ c = "http" -> UpstreamStatusError(status, err)
        [] p # "async" /\ c = "envelope" -> ErrorEnvelopeFor(status, err)

(* reconcileByUID, on the async path; reconcileAfterExecutorError returns in *)
(* every case, and the sync path calls neither.                              *)
ReconcileByUID(status, body) ==
  /\ ~IsDailyCountLimit(status, body) /\ ~IsQueueAdmission(status, body)
  /\ IsHardCreditError(status, body)

Reconciles(p, c, r) == p = "async" /\ ReconcileByUID(Status(c, r), Judged(p, c, r))

-----------------------------------------------------------------------------
NoRefusal == [status |-> 0, code |-> 0, markers |-> {}]
NoOutcome == [recorded |-> NoReason, told |-> "plain", crossed |-> 0, reread |-> FALSE]

PolicyInit ==
  /\ path \in Paths /\ carrier \in Carriers
  /\ attempt = 1 /\ phase = "sending"
  /\ refusal = NoRefusal /\ outcome = NoOutcome

Refuse(r) ==
  /\ phase = "sending"
  /\ Status(carrier, r) >= 400
  /\ phase' = "refused" /\ refusal' = r
  /\ UNCHANGED <<path, carrier, attempt, outcome>>

Retry ==
  /\ phase = "refused"
  /\ attempt < MaxAttempts /\ IsRetryable(path, carrier, refusal)
  /\ attempt' = attempt + 1 /\ phase' = "sending" /\ refusal' = NoRefusal
  /\ UNCHANGED <<path, carrier, outcome>>

Fail ==
  /\ phase = "refused"
  /\ attempt = MaxAttempts \/ ~IsRetryable(path, carrier, refusal)
  /\ phase' = "ended"
  /\ outcome' = [recorded |-> Recorded(path, carrier, refusal),
                 told |-> ErrorOf(Status(carrier, refusal), Body(refusal)).kind,
                 crossed |-> Crossing(path, carrier, refusal),
                 reread |-> Reconciles(path, carrier, refusal)]
  /\ UNCHANGED <<path, carrier, attempt, refusal>>

PolicyNext == (\E r \in Refusals : Refuse(r)) \/ Retry \/ Fail

PolicySpec == PolicyInit /\ [][PolicyNext]_policyVars

-----------------------------------------------------------------------------
Queued == IsQueueAdmission(Status(carrier, refusal), Body(refusal))
          /\ ~IsDailyCountLimit(Status(carrier, refusal), Body(refusal))
Ended == phase = "ended"

(* Rendering loses nothing: whichever path and carrier a refusal takes, the  *)
(* table records what its own status and body call for, although half of the *)
(* paths classify it again from the text of an error (recordUpstreamError).  *)
RenderingLosesNothing ==
  Ended => outcome.recorded =
             RecordUpstreamFailure(Status(carrier, refusal), Body(refusal))

(* A business refusal (a quota or a queue) never looks like a bad key: the   *)
(* client is told of the very freeze that the table records, and no status   *)
(* crosses to the host, which would cool the whole credential.               *)
BusinessBlamesNoKey ==
  Ended =>
    /\ outcome.recorded \in QuotaKinds => outcome.told = outcome.recorded
    /\ outcome.told \in QuotaKinds => outcome.recorded = outcome.told
    /\ outcome.told # "plain" => outcome.crossed = 0

(* The 403 of the queue and the 403 of the daily cap are told apart.  A      *)
(* queued request was accepted: whatever else its body says, it is tried     *)
(* until the budget is spent, cools its model for the short time only, and   *)
(* does not send the account to be reconciled.  The cap is believed only if  *)
(* the gateway itself declares a 403: code and message alone, in an envelope *)
(* with no status, freeze nothing.                                           *)
ForbiddenToldApart ==
  Ended =>
    /\ Queued => /\ attempt = MaxAttempts
                 /\ outcome.recorded = "rateLimit" /\ ~outcome.reread
    /\ outcome.recorded = "daily" => refusal.status = 403

(* A spent day is not hammered: no refusal for the daily count is followed   *)
(* by another attempt of the request, on no path.                            *)
DailyNotRetried ==
  [][Retry => ~IsDailyCountLimit(Status(carrier, refusal), Body(refusal))]_policyVars
=============================================================================
