----------------------------- MODULE TokenRotation -----------------------------
(***************************************************************************)
(* The life of a user's token pairs: issued by login and by refresh,       *)
(* presented with requests, revoked by logout (app/services/               *)
(* auth_service.py, app/core/security.py, get_current_user of              *)
(* app/dependencies.py).                                                   *)
(*                                                                         *)
(* Tokens are signed and kept nowhere: what the service knows about them   *)
(* are two Redis keys per token, written and read by requests that overlap *)
(* between any two calls.  Any call may fail; only the blacklist check of  *)
(* get_current_user goes on without Redis.                                 *)
(*                                                                         *)
(* Whether the user may log in and act at all is modelled by Accounts: a   *)
(* request refused for that reason is one that fails here.                 *)
(*                                                                         *)
(* A token or key is kept as the ticks it has left.  A token is still      *)
(* accepted in the tick it expires in (exp < now is what jose refuses), a  *)
(* key is not there any more when it has none left.                        *)
(***************************************************************************)
EXTENDS Rows, Integers, FiniteSets

CONSTANTS Requests,     \* how many requests can be open at once
          Tokens,       \* token pairs; the jti of a pair is used again once
                        \*   nothing knows of it any more
          AccessLife,   \* JWT_ACCESS_EXPIRE_MINUTES, in ticks
          RefreshLife,  \* JWT_REFRESH_EXPIRE_DAYS, in ticks
          BlacklistTtl  \* TOKEN_BLACKLIST_TTL, in ticks; a constant of the code
                        \*   while the two lives are settings

ASSUME TokenConstants ==
    /\ AccessLife \in Nat \ {0}
    /\ RefreshLife \in Nat
    /\ AccessLife <= RefreshLife
    /\ BlacklistTtl \in Nat \ {0}
    /\ IsFiniteSet(Requests)
    /\ NULL \notin Tokens

VARIABLES
    access,     \* access tokens: ticks until exp, -1 when expired or not issued
    refresh,    \* refresh tokens: likewise
    blacklist,  \* keys blacklist:<jti>: time left
    used,       \* keys rt_used:<jti>: time left
    request,    \* the open requests: where each is and the pair it presented
    loggedOut,  \* history: the unexpired access tokens that were logged out
    exchanged   \* history: how often an unexpired refresh token was exchanged

keys == <<blacklist, used>>
history == <<loggedOut, exchanged>>
vars == <<access, refresh, blacklist, used, request, loggedOut, exchanged>>

Stage == {"IDLE",
          "TOKEN_CHECKED", "TOKEN_UNCHECKED",    \* get_current_user
          "REFRESH_UNUSED", "REFRESH_MARKED"}    \* refresh_tokens

Idle == [at |-> "IDLE", token |-> NULL]

TypeOK ==
    /\ access \in [Tokens -> -1..AccessLife]
    /\ refresh \in [Tokens -> -1..RefreshLife]
    /\ blacklist \in [Tokens -> 0..BlacklistTtl]
    /\ used \in [Tokens -> 0..RefreshLife]
    /\ request \in [Requests -> [at: Stage, token: Tokens \cup {NULL}]]
    /\ \A r \in Requests : request[r].token = NULL <=> request[r].at = "IDLE"
    /\ loggedOut \subseteq Tokens
    /\ exchanged \in [Tokens -> Nat]

Arrives(r, at, k) ==
    /\ request[r].at = "IDLE"
    /\ request' = [request EXCEPT ![r] = [at |-> at, token |-> k]]

Moves(r, from, to, k) ==
    /\ request[r] = [at |-> from, token |-> k]
    /\ request' = [request EXCEPT ![r].at = to]

Ends(r, from, k) ==
    /\ request[r] = [at |-> from, token |-> k]
    /\ request' = [request EXCEPT ![r] = Idle]

\* No token, key or request has this jti.
Unknown(k) ==
    /\ access[k] = -1 /\ refresh[k] = -1 /\ blacklist[k] = 0 /\ used[k] = 0
    /\ \A r \in Requests : request[r].token # k

-----------------------------------------------------------------------------
(***************************************************************************)
(* Mutations a careless edit could introduce.                              *)
(***************************************************************************)

\* The key expires a tick early ...
BlacklistedForLess(k) == [blacklist EXCEPT ![k] = BlacklistTtl - 1]

\* ... and so does the mark.
MarkedForLess(k) == [used EXCEPT ![k] = RefreshLife - 1]

-----------------------------------------------------------------------------
(***************************************************************************)
(* _create_token_pair: both tokens get their full life.                    *)
(***************************************************************************)
Issued(k) ==
    /\ Unknown(k)
    /\ access' = [access EXCEPT ![k] = AccessLife]
    /\ refresh' = [refresh EXCEPT ![k] = RefreshLife]
    /\ loggedOut' = loggedOut \ {k}

\* login with the right password
Login(k) ==
    /\ Issued(k)
    /\ exchanged' = [exchanged EXCEPT ![k] = 0]
    /\ UNCHANGED <<blacklist, used, request>>

(***************************************************************************)
(* get_current_user: the token is not expired and not blacklisted as far   *)
(* as Redis answers.                                                       *)
(***************************************************************************)
CheckToken(r, k) ==
    /\ access[k] >= 0
    /\ blacklist[k] = 0
    /\ Arrives(r, "TOKEN_CHECKED", k)
    /\ UNCHANGED <<access, refresh, keys, history>>

\* "Redis is optional in degraded mode"
SkipCheck(r, k) ==
    /\ access[k] >= 0
    /\ Arrives(r, "TOKEN_UNCHECKED", k)
    /\ UNCHANGED <<access, refresh, keys, history>>

\* The user is loaded and some handler other than logout runs.
Serve(r, k) ==
    /\ Ends(r, "TOKEN_CHECKED", k) \/ Ends(r, "TOKEN_UNCHECKED", k)
    /\ UNCHANGED <<access, refresh, keys, history>>

Blacklisted(k) == [blacklist EXCEPT ![k] = BlacklistTtl]

\* logout decodes the token once more.
Logout(r, k) ==
    /\ access[k] >= 0
    /\ Ends(r, "TOKEN_CHECKED", k) \/ Ends(r, "TOKEN_UNCHECKED", k)
    /\ blacklist' = Blacklisted(k)
    /\ loggedOut' = loggedOut \cup {k}
    /\ UNCHANGED <<access, refresh, used, exchanged>>

(***************************************************************************)
(* refresh_tokens: read the mark, set it, load the user, issue.  The user  *)
(* has to exist.                                                           *)
(***************************************************************************)
CheckUnused(r, k) ==
    /\ refresh[k] >= 0
    /\ used[k] = 0
    /\ Arrives(r, "REFRESH_UNUSED", k)
    /\ UNCHANGED <<access, refresh, keys, history>>

Marked(k) == [used EXCEPT ![k] = RefreshLife]

MarkUsed(r, k) ==
    /\ Moves(r, "REFRESH_UNUSED", "REFRESH_MARKED", k)
    /\ used' = Marked(k)
    /\ UNCHANGED <<access, refresh, blacklist, history>>

Exchange(r, k, new) ==
    /\ Ends(r, "REFRESH_MARKED", k)
    /\ Issued(new)
    /\ exchanged' = [exchanged EXCEPT ![new] = 0, ![k] = @ + 1]
    /\ UNCHANGED <<keys>>

\* The request is refused or one of its calls fails: what it did stays done.
Fail(r) ==
    /\ request[r].at # "IDLE"
    /\ request' = [request EXCEPT ![r] = Idle]
    /\ UNCHANGED <<access, refresh, keys, history>>

Tick ==
    /\ access' = [k \in Tokens |-> IF access[k] = -1 THEN -1 ELSE access[k] - 1]
    /\ refresh' = [k \in Tokens |-> IF refresh[k] = -1 THEN -1 ELSE refresh[k] - 1]
    /\ blacklist' = [k \in Tokens |-> IF blacklist[k] = 0 THEN 0 ELSE blacklist[k] - 1]
    /\ used' = [k \in Tokens |-> IF used[k] = 0 THEN 0 ELSE used[k] - 1]
    /\ loggedOut' = {k \in loggedOut : access'[k] >= 0}
    /\ exchanged' = [k \in Tokens |-> IF refresh'[k] = -1 THEN 0 ELSE exchanged[k]]
    /\ UNCHANGED request

-----------------------------------------------------------------------------
Init ==
    /\ access = [k \in Tokens |-> -1]
    /\ refresh = [k \in Tokens |-> -1]
    /\ blacklist = [k \in Tokens |-> 0]
    /\ used = [k \in Tokens |-> 0]
    /\ request = [r \in Requests |-> Idle]
    /\ loggedOut = {}
    /\ exchanged = [k \in Tokens |-> 0]

Next ==
    \/ \E k \in Tokens : Login(k)
    \/ \E r \in Requests, k \in Tokens :
         \/ CheckToken(r, k) \/ SkipCheck(r, k)
         \/ Serve(r, k) \/ Logout(r, k)
         \/ CheckUnused(r, k) \/ MarkUsed(r, k)
         \/ \E new \in Tokens : Exchange(r, k, new)
    \/ \E r \in Requests : Fail(r)
    \/ Tick

Spec == Init /\ [][Next]_vars

-----------------------------------------------------------------------------
(***************************************************************************)
(* Properties.                                                             *)
(***************************************************************************)

\* A token that was logged out passes no check made later that Redis answers,
\* except in the part of its life by which that life exceeds TOKEN_BLACKLIST_TTL:
\* the key is set when some of the life is over (logout; auth_service.py:39
\* "match access token expiry", which holds for the default of the setting only).
LoggedOutStaysOut ==
    [][\A r \in Requests, k \in Tokens :
        /\ request[r].at = "IDLE"
        /\ request'[r] = [at |-> "TOKEN_CHECKED", token |-> k]
        /\ k \in loggedOut
        => access[k] + BlacklistTtl <= AccessLife]_vars

\* What the text says: it passes none until the tick it expires in (logout, "The
\* token remains invalid until it naturally expires").  True when the setting is
\* no longer than the constant.
LoggedOutForGood ==
    [][\A r \in Requests, k \in Tokens :
        /\ request[r].at = "IDLE"
        /\ request'[r] = [at |-> "TOKEN_CHECKED", token |-> k]
        /\ k \in loggedOut
        => access[k] = 0]_vars

\* A refresh token that was exchanged is not accepted by a request that comes
\* later, until the tick it expires in: the mark, set when some of the token's
\* life is over, outlives it (refresh_tokens, "Check if the old refresh token was
\* already used").
ExchangedStaysUsed ==
    [][\A r \in Requests, k \in Tokens :
        /\ request[r].at = "IDLE"
        /\ request'[r] = [at |-> "REFRESH_UNUSED", token |-> k]
        /\ exchanged[k] > 0
        => refresh[k] = 0]_vars
=============================================================================
