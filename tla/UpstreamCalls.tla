---------------------------- MODULE UpstreamCalls ----------------------------
(***************************************************************************)
(* proxy.go, host_bridge.go, billing_cookie.go and cosy_session.go: what    *)
(* every call upstream shares with the others, whichever goroutine makes    *)
(* it.  The route all of them leave by; per account a jar of the cookies    *)
(* that the billing surface wants, filled by one handshake; per account the *)
(* session that inference requests are signed with, built for one token and *)
(* replaced when the token is refreshed.                                    *)
(*                                                                         *)
(* A call takes the credential as the host hands it over, and the host may  *)
(* not have read the last refresh yet.  A token is its file and its number, *)
(* so a session is known by the token it was built for, and the cookies in  *)
(* a jar by the file whose token fetched them.  Reading the route and       *)
(* handing the request over to it are one step.                             *)
(***************************************************************************)
EXTENDS Integers, Sequences

CONSTANTS
  Files,         \* credential files
  Uids,          \* account ids; two files may be of one account
  CallSlots,     \* goroutines that call upstream
  NoUid, Missing,
  HostBridge,    \* does the host offer host.http.*
  MaxCalls,      \* bound: calls in all
  MaxRefreshes,  \* bound: refreshes in all
  MaxConfigs     \* bound: changes of the proxy setting

ASSUME CallsAssumption ==
  /\ HostBridge \in BOOLEAN /\ NoUid \notin Uids /\ Missing \notin Files
  /\ {MaxCalls, MaxRefreshes, MaxConfigs} \subseteq Nat

Regions == {"intl", "cn"}
Settings == {"inherit", "explicit", "blocked"}
JarKeys == Regions \X (Uids \cup {NoUid})

VARIABLES
  account,    \* per file its uid and region
  route,      \* qoderProxyState
  token,      \* per file the number of its token
  refreshed,  \* files saved whose session is not invalidated yet
  jar,        \* billingJars
  session,    \* cosySessionCache: the token each session was built for
  call,       \* per goroutine its call
  handshakes, \* history: handshakes sent, per jar
  calls, refreshes, configs   \* the counters that bound the model

callVars == <<account, route, token, refreshed, jar, session, call,
              handshakes, calls, refreshes, configs>>
callCounters == <<calls, refreshes, configs>>

(* Keys without a uid are a token's first characters: 8 for a jar, 16 for a *)
(* session.  At worst all tokens begin alike.                               *)
JarKey(f) == <<account[f].region, account[f].uid>>
SessionKey(f) == account[f].uid

NoCall == [phase |-> "idle", token |-> Missing, cookies |-> Missing,
           signed |-> Missing, sent |-> <<>>]
FileOf(c) == call[c].token[1]
At(c, phase) == call[c].phase = phase

CallsInit ==
  /\ account \in [Files -> [uid : Uids \cup {NoUid}, region : Regions]]
  /\ route = "inherit"
  /\ token = [f \in Files |-> 0] /\ refreshed = {}
  /\ jar = [k \in JarKeys |-> [bootstrapped |-> FALSE, cookies |-> Missing]]
  /\ session = [u \in Uids \cup {NoUid} |-> Missing]
  /\ call = [c \in CallSlots |-> NoCall]
  /\ handshakes = [k \in JarKeys |-> 0]
  /\ calls = 0 /\ refreshes = 0 /\ configs = 0

-----------------------------------------------------------------------------
(* configureQoderProxyRequest, first in every configure: a setting that     *)
(* cannot be read blocks all HTTP.                                          *)
ConfigureProxy(setting) ==
  /\ configs < MaxConfigs /\ configs' = configs + 1
  /\ route' = setting
  /\ UNCHANGED <<account, token, refreshed, jar, session, call, handshakes, calls, refreshes>>

(* A refresh saves the new token pair, then drops the session.  Of an       *)
(* account without a uid it drops nothing: the key is empty.                *)
RefreshToken(f) ==
  /\ f \notin refreshed
  /\ refreshes < MaxRefreshes /\ refreshes' = refreshes + 1
  /\ token' = [token EXCEPT ![f] = @ + 1]
  /\ refreshed' = refreshed \cup {f}
  /\ UNCHANGED <<account, route, jar, session, call, handshakes, calls, configs>>

InvalidateCosySession(f) ==
  /\ f \in refreshed
  /\ refreshed' = refreshed \ {f}
  /\ session' = IF account[f].uid = NoUid THEN session
                ELSE [session EXCEPT ![account[f].uid] = Missing]
  /\ UNCHANGED <<account, route, token, jar, call, handshakes, callCounters>>

-----------------------------------------------------------------------------
(* A call of the billing surface begins at its jar, one to the gateway at   *)
(* its session.  The host may still hand over the token of before.          *)
BeginCall(c, f, phase) ==
  /\ At(c, "idle")
  /\ calls < MaxCalls /\ calls' = calls + 1
  /\ \E n \in {token[f] - 1, token[f]} \cap Nat :
       call' = [call EXCEPT ![c] = [NoCall EXCEPT !.phase = phase, !.token = <<f, n>>]]
  /\ UNCHANGED <<account, route, token, refreshed, jar, session, handshakes, refreshes, configs>>

Goes(c, phase) == call' = [call EXCEPT ![c].phase = phase]

(* Mutant: the jar is marked when the answer is in. *)
BootstrapUnmarked(c) ==
  LET k == JarKey(FileOf(c))
  IN  /\ At(c, "jar")
      /\ Goes(c, IF jar[k].cookies # Missing THEN "cookies" ELSE "handshake")
      /\ UNCHANGED <<account, route, token, refreshed, jar, session, handshakes, callCounters>>

(* bootstrapBillingSession: the first call of a jar marks it, and does so   *)
(* before it asks.                                                          *)
Bootstrap(c) ==
  LET k == JarKey(FileOf(c))
  IN  /\ At(c, "jar")
      /\ Goes(c, IF jar[k].bootstrapped THEN "cookies" ELSE "handshake")
      /\ jar' = [jar EXCEPT ![k].bootstrapped = TRUE]
      /\ UNCHANGED <<account, route, token, refreshed, session, handshakes, callCounters>>

Way == IF route = "explicit" THEN "proxy" ELSE IF HostBridge THEN "host" ELSE "direct"

(* hostHTTPDo and hostHTTPDoStream up to the request's leaving. *)
Leaves(c, purpose, phase) ==
  /\ route # "blocked"
  /\ call' = [call EXCEPT ![c].sent = Append(@, <<purpose, Way>>), ![c].phase = phase]

Handshake(c) ==
  /\ At(c, "handshake")
  /\ \/ /\ Leaves(c, "handshake", "answering")
        /\ handshakes' = [handshakes EXCEPT ![JarKey(FileOf(c))] = @ + 1]
     \/ route = "blocked" /\ Goes(c, "cookies") /\ UNCHANGED handshakes
  /\ UNCHANGED <<account, route, token, refreshed, jar, session, callCounters>>

(* The handshake's cookies are absorbed; or it fails, or brings none.       *)
HandshakeAnswer(c) ==
  /\ At(c, "answering") /\ Goes(c, "cookies")
  /\ jar' \in {jar, [jar EXCEPT ![JarKey(FileOf(c))].cookies = FileOf(c)]}
  /\ UNCHANGED <<account, route, token, refreshed, session, handshakes, callCounters>>

TakeCookies(c) ==
  /\ At(c, "cookies")
  /\ call' = [call EXCEPT ![c].cookies = jar[JarKey(FileOf(c))].cookies, ![c].phase = "ready"]
  /\ UNCHANGED <<account, route, token, refreshed, jar, session, handshakes, callCounters>>

(* Mutant: any session found under the account's key will do. *)
ServesAny(found, wanted) == found # Missing

(* cosySessionFor: a session serves the token that it was built for. *)
Serves(found, wanted) == found = wanted

CosySession(c) ==
  LET found == session[SessionKey(FileOf(c))]
  IN  /\ At(c, "session")
      /\ IF Serves(found, call[c].token)
         THEN call' = [call EXCEPT ![c].signed = found, ![c].phase = "ready"]
         ELSE Goes(c, "building")
      /\ UNCHANGED <<account, route, token, refreshed, jar, session, handshakes, callCounters>>

(* A new session is stored over whatever is there by now. *)
BuildSession(c) ==
  /\ At(c, "building")
  /\ session' = [session EXCEPT ![SessionKey(FileOf(c))] = call[c].token]
  /\ call' = [call EXCEPT ![c].signed = call[c].token, ![c].phase = "ready"]
  /\ UNCHANGED <<account, route, token, refreshed, jar, handshakes, callCounters>>

BuildFails(c) ==
  /\ At(c, "building")
  /\ call' = [call EXCEPT ![c] = NoCall]
  /\ UNCHANGED <<account, route, token, refreshed, jar, session, handshakes, callCounters>>

Depart(c) ==
  /\ At(c, "ready")
  /\ \/ Leaves(c, "request", "waiting")
     \/ route = "blocked" /\ call' = [call EXCEPT ![c] = NoCall]
  /\ UNCHANGED <<account, route, token, refreshed, jar, session, handshakes, callCounters>>

(* The answer, a refusal, a stream that ends or breaks off, or a failure of *)
(* the transport: each of them is returned to the caller.                   *)
Conclude(c) ==
  /\ At(c, "waiting")
  /\ call' = [call EXCEPT ![c] = NoCall]
  /\ UNCHANGED <<account, route, token, refreshed, jar, session, handshakes, callCounters>>

CallStep(c) ==
  \/ \E f \in Files : \E phase \in {"jar", "session"} : BeginCall(c, f, phase)
  \/ Bootstrap(c) \/ Handshake(c) \/ HandshakeAnswer(c) \/ TakeCookies(c)
  \/ CosySession(c) \/ BuildSession(c) \/ BuildFails(c)
  \/ Depart(c) \/ Conclude(c)

CallsNext ==
  \/ \E setting \in Settings : ConfigureProxy(setting)
  \/ \E f \in Files : RefreshToken(f) \/ InvalidateCosySession(f)
  \/ \E c \in CallSlots : CallStep(c)

CallsSpec == CallsInit /\ [][CallsNext]_callVars

-----------------------------------------------------------------------------
SameAccount(f, g) == account[f] = account[g]

(* What goes out under an account's name is that account's: a request is    *)
(* signed with the session of the very token that it came with, although    *)
(* requests with the old token and refreshes overlap and sessions of one    *)
(* uid share a place; and of accounts that know their uid, no cookies are   *)
(* sent that another account's handshake fetched (billing_cookie.go: "never *)
(* shared, so multi-account deployments cannot cross-contaminate sessions").*)
OwnIdentity ==
  \A c \in CallSlots :
    /\ call[c].signed \in {Missing, call[c].token}
    /\ call[c].cookies # Missing =>
         \/ account[FileOf(c)].uid = NoUid
         \/ SameAccount(FileOf(c), call[c].cookies)

(* Nothing is sent twice.  A jar has one handshake in the life of the       *)
(* process, however many calls find it unfilled at once and whatever the    *)
(* handshake came to ("bootstrap once per account"); and a request or       *)
(* handshake leaves by one route and, should that fail after the setting    *)
(* has changed or the bridge has broken off, by no other (host_bridge.go:   *)
(* "A failed bridge call is NEVER retried direct").                         *)
SentOnce ==
  /\ \A k \in JarKeys : handshakes[k] <= 1
  /\ \A c \in CallSlots : \A i, j \in DOMAIN call[c].sent :
       call[c].sent[i][1] = call[c].sent[j][1] => i = j
=============================================================================
