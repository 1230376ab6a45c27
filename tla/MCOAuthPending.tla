--------------------------- MODULE MCOAuthPending ---------------------------
(* Instances of OAuthPending. *)
EXTENDS OAuthPending, TLC

LoginsAndGoroutines == Permutations(Logins) \cup Permutations(Polls)
=============================================================================
