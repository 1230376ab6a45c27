----------------------------- MODULE MCCheckin -----------------------------
(* Checkin.tla on small instances. *)
EXTENDS Checkin, TLC

(* One retry a day, a tick after the failure. *)
OneRetry == <<1>>
=============================================================================
