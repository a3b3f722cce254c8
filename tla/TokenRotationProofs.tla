-------------------------- MODULE TokenRotationProofs --------------------------
(***************************************************************************)
(* Proofs about TokenRotation, for any lifetimes, any number of pairs and  *)
(* any number of overlapping requests.                                     *)
(***************************************************************************)
EXTENDS TokenRotation, TLAPS

USE DEF keys, history

-----------------------------------------------------------------------------
(***************************************************************************)
(* Types.                                                                  *)
(***************************************************************************)
KeysTyped ==
    /\ access \in [Tokens -> -1..AccessLife]
    /\ refresh \in [Tokens -> -1..RefreshLife]
    /\ blacklist \in [Tokens -> 0..BlacklistTtl]
    /\ used \in [Tokens -> 0..RefreshLife]

HistoryTyped == loggedOut \subseteq Tokens /\ exchanged \in [Tokens -> Nat]

RequestTyped ==
    /\ request \in [Requests -> [at: Stage, token: Tokens \cup {NULL}]]
    /\ \A r \in Requests : request[r].token = NULL <=> request[r].at = "IDLE"

LEMMA ArrivesWhere ==
    ASSUME RequestTyped, NEW r \in Requests, NEW at, NEW k, Arrives(r, at, k)
    PROVE  /\ request[r].at = "IDLE"
           /\ request'[r].at = at /\ request'[r].token = k
           /\ \A q \in Requests \ {r} : request'[q] = request[q]
BY DEF RequestTyped, Arrives

LEMMA MovesWhere ==
    ASSUME RequestTyped, NEW r \in Requests, NEW from, NEW to, NEW k, Moves(r, from, to, k)
    PROVE  /\ request[r].at = from /\ request[r].token = k
           /\ request'[r].at = to /\ request'[r].token = k
           /\ \A q \in Requests \ {r} : request'[q] = request[q]
BY DEF RequestTyped, Moves

LEMMA EndsWhere ==
    ASSUME RequestTyped, NEW r \in Requests, NEW from, NEW k, Ends(r, from, k)
    PROVE  /\ request[r].at = from /\ request[r].token = k
           /\ request'[r].at = "IDLE"
           /\ \A q \in Requests \ {r} : request'[q] = request[q]
BY DEF RequestTyped, Ends, Idle

\* The five kinds of steps a request takes.
LEMMA Steps ==
    ASSUME RequestTyped, Next
    PROVE  \/ request' = request
           \/ \E r \in Requests, k \in Tokens :
                \/ CheckToken(r, k) \/ SkipCheck(r, k) \/ CheckUnused(r, k) \/ MarkUsed(r, k)
                \/ Serve(r, k) \/ Logout(r, k)
                \/ \E new \in Tokens : Exchange(r, k, new)
           \/ \E r \in Requests : Fail(r)
BY DEF Next, Login, Tick

LEMMA InitType == Init => TypeOK
BY TokenConstants DEF Init, TypeOK, Idle, Stage

LEMMA IssuedTyped ==
    ASSUME KeysTyped, NEW k \in Tokens, Issued(k)
    PROVE  /\ access' \in [Tokens -> -1..AccessLife]
           /\ refresh' \in [Tokens -> -1..RefreshLife]
BY TokenConstants DEF Issued, KeysTyped

LEMMA NextKeys == KeysTyped /\ [Next]_vars => KeysTyped'
<1> SUFFICES ASSUME KeysTyped, [Next]_vars PROVE KeysTyped'
  OBVIOUS
<1>1. ASSUME NEW k \in Tokens, Login(k) PROVE KeysTyped'
  BY <1>1, IssuedTyped DEF Login, KeysTyped
<1>2. ASSUME NEW r \in Requests, NEW k \in Tokens, NEW new \in Tokens, Exchange(r, k, new)
      PROVE  KeysTyped'
  BY <1>2, IssuedTyped DEF Exchange, KeysTyped
<1>3. ASSUME NEW r \in Requests, NEW k \in Tokens, Logout(r, k) PROVE KeysTyped'
  BY <1>3, TokenConstants DEF Logout, Blacklisted, KeysTyped
<1>4. ASSUME NEW r \in Requests, NEW k \in Tokens, MarkUsed(r, k) PROVE KeysTyped'
  BY <1>4, TokenConstants DEF MarkUsed, Marked, KeysTyped
<1>5. CASE Tick
  <2>1. access' \in [Tokens -> -1..AccessLife] /\ refresh' \in [Tokens -> -1..RefreshLife]
    BY <1>5, TokenConstants DEF Tick, KeysTyped
  <2>2. blacklist' \in [Tokens -> 0..BlacklistTtl] /\ used' \in [Tokens -> 0..RefreshLife]
    BY <1>5, TokenConstants DEF Tick, KeysTyped
  <2>3. QED
    BY <2>1, <2>2 DEF KeysTyped
<1>6. CASE UNCHANGED <<access, refresh, blacklist, used>>
  BY <1>6 DEF KeysTyped
<1>7. QED
  BY <1>1, <1>2, <1>3, <1>4, <1>5, <1>6
     DEF Next, vars, CheckToken, SkipCheck, Serve, CheckUnused, Fail

LEMMA NextHistory == HistoryTyped /\ [Next]_vars => HistoryTyped'
<1> SUFFICES ASSUME HistoryTyped, [Next]_vars PROVE HistoryTyped'
  OBVIOUS
<1>1. ASSUME NEW k \in Tokens, Login(k) PROVE HistoryTyped'
  BY <1>1 DEF Login, Issued, HistoryTyped
<1>2. ASSUME NEW r \in Requests, NEW k \in Tokens, NEW new \in Tokens, Exchange(r, k, new)
      PROVE  HistoryTyped'
  BY <1>2 DEF Exchange, Issued, HistoryTyped
<1>3. ASSUME NEW r \in Requests, NEW k \in Tokens, Logout(r, k) PROVE HistoryTyped'
  BY <1>3 DEF Logout, HistoryTyped
<1>4. CASE Tick
  BY <1>4 DEF Tick, HistoryTyped
<1>5. CASE UNCHANGED <<loggedOut, exchanged>>
  BY <1>5 DEF HistoryTyped
<1>6. QED
  BY <1>1, <1>2, <1>3, <1>4, <1>5
     DEF Next, vars, CheckToken, SkipCheck, Serve, CheckUnused, MarkUsed, Fail

LEMMA NextRequest == RequestTyped /\ [Next]_vars => RequestTyped'
<1> SUFFICES ASSUME RequestTyped, [Next]_vars PROVE RequestTyped'
  OBVIOUS
<1>1. ASSUME NEW r \in Requests, NEW k \in Tokens, NEW at \in Stage \ {"IDLE"},
             Arrives(r, at, k)
      PROVE  RequestTyped'
  BY <1>1, TokenConstants DEF RequestTyped, Arrives
<1>2. ASSUME NEW r \in Requests, NEW k \in Tokens, NEW from, NEW to \in Stage \ {"IDLE"},
             Moves(r, from, to, k)
      PROVE  RequestTyped'
  BY <1>2, TokenConstants DEF RequestTyped, Moves
<1>3. ASSUME NEW r \in Requests, request' = [request EXCEPT ![r] = Idle]
      PROVE  RequestTyped'
  BY <1>3 DEF RequestTyped, Idle, Stage
<1>4. CASE request' = request
  BY <1>4 DEF RequestTyped
<1>5. CASE Next
  <2>1. ASSUME NEW r \in Requests, NEW k \in Tokens,
               CheckToken(r, k) \/ SkipCheck(r, k) \/ CheckUnused(r, k)
        PROVE  RequestTyped'
    BY <1>1, <2>1 DEF CheckToken, SkipCheck, CheckUnused, Stage
  <2>2. ASSUME NEW r \in Requests, NEW k \in Tokens, MarkUsed(r, k) PROVE RequestTyped'
    BY <1>2, <2>2 DEF MarkUsed, Stage
  <2>3. ASSUME NEW r \in Requests, NEW k \in Tokens, Serve(r, k) \/ Logout(r, k)
        PROVE  RequestTyped'
    BY <1>3, <2>3 DEF Serve, Logout, Ends
  <2>4. ASSUME NEW r \in Requests, NEW k \in Tokens, NEW new \in Tokens, Exchange(r, k, new)
        PROVE  RequestTyped'
    BY <1>3, <2>4 DEF Exchange, Ends
  <2>5. ASSUME NEW r \in Requests, Fail(r) PROVE RequestTyped'
    BY <1>3, <2>5 DEF Fail
  <2>6. QED
    BY <1>4, <1>5, <2>1, <2>2, <2>3, <2>4, <2>5, Steps
<1>6. QED
  BY <1>4, <1>5 DEF vars

\* Tokens, keys and requests are what they are said to be.
THEOREM TypeCorrect == Spec => []TypeOK
<1>1. TypeOK <=> KeysTyped /\ HistoryTyped /\ RequestTyped
  BY DEF TypeOK, KeysTyped, HistoryTyped, RequestTyped
<1>2. TypeOK' <=> KeysTyped' /\ HistoryTyped' /\ RequestTyped'
  BY DEF TypeOK, KeysTyped, HistoryTyped, RequestTyped
<1>3. TypeOK /\ [Next]_vars => TypeOK'
  BY <1>1, <1>2, NextKeys, NextHistory, NextRequest
<1>4. QED
  BY InitType, <1>3, PTL DEF Spec

-----------------------------------------------------------------------------
(***************************************************************************)
(* Logging out.  The key of a token that was logged out lives on until the *)
(* token has no more life left than its life is longer than the key's.     *)
(***************************************************************************)
Covered(k) == access[k] + BlacklistTtl <= AccessLife + blacklist[k]

KeyOutlives == \A k \in loggedOut : Covered(k)

LEMMA NextKeyOutlives == TypeOK /\ KeyOutlives /\ [Next]_vars => KeyOutlives'
<1> SUFFICES ASSUME TypeOK, KeyOutlives, [Next]_vars, NEW k \in loggedOut'
             PROVE  Covered(k)'
  BY DEF KeyOutlives
<1>0. /\ KeysTyped /\ HistoryTyped
      /\ loggedOut \subseteq Tokens
  BY DEF TypeOK, KeysTyped, HistoryTyped
<1>1. ASSUME NEW n \in Tokens, Issued(n), blacklist' = blacklist
      PROVE  Covered(k)'
  <2>1. k \in loggedOut /\ k # n
    BY <1>1 DEF Issued
  <2>2. access'[k] = access[k]
    BY <1>0, <1>1, <2>1 DEF Issued, KeysTyped
  <2>3. QED
    BY <1>1, <2>1, <2>2 DEF KeyOutlives, Covered
<1>2. ASSUME NEW r \in Requests, NEW n \in Tokens, Logout(r, n)
      PROVE  Covered(k)'
  <2>1. CASE k = n
    <3>1. blacklist'[k] = BlacklistTtl /\ access'[k] = access[k]
      BY <1>0, <1>2, <2>1 DEF Logout, Blacklisted, KeysTyped
    <3>2. access[k] \in -1..AccessLife
      BY <1>0, <2>1 DEF KeysTyped
    <3>3. QED
      BY <3>1, <3>2, TokenConstants DEF Covered
  <2>2. CASE k # n
    <3>1. k \in loggedOut
      BY <1>2, <2>2 DEF Logout
    <3>2. blacklist'[k] = blacklist[k] /\ access'[k] = access[k]
      BY <1>0, <1>2, <2>2, <3>1 DEF Logout, Blacklisted, KeysTyped
    <3>3. QED
      BY <3>1, <3>2 DEF KeyOutlives, Covered
  <2>3. QED
    BY <2>1, <2>2
<1>3. CASE Tick
  <2>1. k \in loggedOut /\ k \in Tokens
    BY <1>0, <1>3 DEF Tick
  <2>2. access[k] \in Int /\ blacklist[k] \in Nat /\ Covered(k)
    BY <1>0, <2>1, TokenConstants DEF KeysTyped, KeyOutlives
  <2>3. /\ access'[k] = IF access[k] = -1 THEN -1 ELSE access[k] - 1
        /\ blacklist'[k] = IF blacklist[k] = 0 THEN 0 ELSE blacklist[k] - 1
    BY <1>3, <2>1 DEF Tick
  <2>4. access'[k] = access[k] - 1
    <3>1. access'[k] >= 0
      BY <1>3 DEF Tick
    <3>2. QED
      BY <2>2, <2>3, <3>1
  <2>5. QED
    BY <2>2, <2>3, <2>4, TokenConstants DEF Covered
<1>4. CASE UNCHANGED <<access, blacklist, loggedOut>>
  BY <1>4 DEF KeyOutlives, Covered
<1>5. QED
  BY <1>1, <1>2, <1>3, <1>4
     DEF Next, vars, Login, CheckToken, SkipCheck, Serve, CheckUnused, MarkUsed, Exchange, Fail

\* Only the check against the blacklist takes a request to TOKEN_CHECKED.
LEMMA CheckedBy ==
    ASSUME RequestTyped, [Next]_vars, NEW r \in Requests, NEW k \in Tokens,
           request[r].at = "IDLE", request'[r].at = "TOKEN_CHECKED", request'[r].token = k
    PROVE  access[k] >= 0 /\ blacklist[k] = 0
<1>0. request' # request
  OBVIOUS
<1>1. ASSUME NEW q \in Requests, NEW n \in Tokens, CheckToken(q, n)
      PROVE  access[k] >= 0 /\ blacklist[k] = 0
  <2>0. Arrives(q, "TOKEN_CHECKED", n)
    BY <1>1 DEF CheckToken
  <2>1. q = r /\ n = k
    BY <2>0, ArrivesWhere
  <2>2. QED
    BY <1>1, <2>1 DEF CheckToken
<1>2. ASSUME NEW q \in Requests, NEW n \in Tokens, SkipCheck(q, n) PROVE FALSE
  <2>1. Arrives(q, "TOKEN_UNCHECKED", n)
    BY <1>2 DEF SkipCheck
  <2>2. QED
    BY <2>1, ArrivesWhere
<1>6. ASSUME NEW q \in Requests, NEW n \in Tokens, CheckUnused(q, n) PROVE FALSE
  <2>1. Arrives(q, "REFRESH_UNUSED", n)
    BY <1>6 DEF CheckUnused
  <2>2. QED
    BY <2>1, ArrivesWhere
<1>3. ASSUME NEW q \in Requests, NEW n \in Tokens, MarkUsed(q, n) PROVE FALSE
  <2>1. Moves(q, "REFRESH_UNUSED", "REFRESH_MARKED", n)
    BY <1>3 DEF MarkUsed
  <2>2. QED
    BY <2>1, MovesWhere
<1>4. ASSUME NEW q \in Requests, request' = [request EXCEPT ![q] = Idle] PROVE FALSE
  BY <1>4 DEF RequestTyped, Idle
<1>5. QED
  <2>1. Next
    BY <1>0 DEF vars
  <2>2. QED
    BY <1>0, <1>1, <1>2, <1>3, <1>4, <1>6, <2>1, Steps
       DEF Serve, Logout, Exchange, Ends, Fail

\* What a check that a logged-out token passes says of the token.
LEMMA PassedLate ==
    ASSUME TypeOK, KeyOutlives, [Next]_vars,
           NEW r \in Requests, NEW k \in Tokens, request[r].at = "IDLE",
           request'[r] = [at |-> "TOKEN_CHECKED", token |-> k], k \in loggedOut
    PROVE  access[k] >= 0 /\ access[k] + BlacklistTtl <= AccessLife
<1>1. RequestTyped /\ access[k] \in Int
  BY TokenConstants DEF TypeOK, RequestTyped
<1>2. access[k] >= 0 /\ blacklist[k] = 0
  BY <1>1, CheckedBy
<1>3. Covered(k)
  BY DEF KeyOutlives
<1>4. QED
  BY <1>1, <1>2, <1>3, TokenConstants DEF Covered

\* The key of a logged-out token always lives long enough.
THEOREM LogoutCovered == Spec => []KeyOutlives
<1>1. Init => KeyOutlives
  BY DEF Init, KeyOutlives
<1>2. QED
  BY <1>1, TypeCorrect, NextKeyOutlives, PTL DEF Spec

\* Whatever the two settings and the constant are: a token that was logged out
\* passes a check at most in the part of its life by which that life is longer
\* than the key's.
THEOREM LogoutHolds == Spec => LoggedOutStaysOut
<1> DEFINE Checked == \A r \in Requests, k \in Tokens :
                        /\ request[r].at = "IDLE"
                        /\ request'[r] = [at |-> "TOKEN_CHECKED", token |-> k]
                        /\ k \in loggedOut
                        => access[k] + BlacklistTtl <= AccessLife
<1>1. TypeOK /\ KeyOutlives /\ [Next]_vars => [Checked]_vars
  BY PassedLate
<1>2. QED
  BY <1>1, TypeCorrect, LogoutCovered, PTL DEF Spec, LoggedOutStaysOut

\* With a setting that is no longer than the constant, as its default is: a token
\* that was logged out passes no check but in the tick it expires in.
THEOREM LogoutIsFinal ==
    ASSUME AccessLife <= BlacklistTtl
    PROVE  Spec => LoggedOutForGood
<1> DEFINE Checked == \A r \in Requests, k \in Tokens :
                        /\ request[r].at = "IDLE"
                        /\ request'[r] = [at |-> "TOKEN_CHECKED", token |-> k]
                        /\ k \in loggedOut
                        => access[k] = 0
<1>1. TypeOK /\ KeyOutlives /\ [Next]_vars => [Checked]_vars
  <2> SUFFICES ASSUME TypeOK, KeyOutlives, [Next]_vars,
                      NEW r \in Requests, NEW k \in Tokens, request[r].at = "IDLE",
                      request'[r] = [at |-> "TOKEN_CHECKED", token |-> k], k \in loggedOut
               PROVE  access[k] = 0
    OBVIOUS
  <2>1. access[k] >= 0 /\ access[k] + BlacklistTtl <= AccessLife
    BY PassedLate
  <2>2. access[k] \in Int
    BY TokenConstants DEF TypeOK
  <2>3. QED
    BY <2>1, <2>2, TokenConstants
<1>2. QED
  BY <1>1, TypeCorrect, LogoutCovered, PTL DEF Spec, LoggedOutForGood

-----------------------------------------------------------------------------
(***************************************************************************)
(* Refreshing.  The mark of a refresh token lives at least as long as the  *)
(* token from the moment it is set, which is before the exchange.          *)
(***************************************************************************)
Outlived(k) == refresh[k] <= used[k]

MarkOutlives ==
    /\ \A k \in Tokens : exchanged[k] > 0 => Outlived(k)
    /\ \A r \in Requests : request[r].at = "REFRESH_MARKED" => Outlived(request[r].token)

\* What leaves the two counters of a pair alone keeps the mark.
LEMMA OutlivedKept ==
    ASSUME NEW k, Outlived(k), refresh'[k] = refresh[k], used'[k] = used[k]
    PROVE  Outlived(k)'
BY DEF Outlived

LEMMA MarkedOutlived ==
    ASSUME KeysTyped, NEW r \in Requests, NEW n \in Tokens, MarkUsed(r, n),
           NEW k \in Tokens, k = n \/ Outlived(k)
    PROVE  Outlived(k)'
<1>1. refresh' = refresh /\ refresh[k] \in -1..RefreshLife
  BY DEF MarkUsed, KeysTyped
<1>2. used'[k] = IF k = n THEN RefreshLife ELSE used[k]
  BY DEF MarkUsed, Marked, KeysTyped
<1>3. QED
  BY <1>1, <1>2, TokenConstants DEF Outlived

LEMMA TickOutlived ==
    ASSUME KeysTyped, Tick, NEW k \in Tokens, Outlived(k)
    PROVE  Outlived(k)'
<1>1. refresh[k] \in Int /\ refresh[k] >= -1 /\ used[k] \in Nat
  BY TokenConstants DEF KeysTyped
<1>2. /\ refresh'[k] = IF refresh[k] = -1 THEN -1 ELSE refresh[k] - 1
      /\ used'[k] = IF used[k] = 0 THEN 0 ELSE used[k] - 1
  BY DEF Tick
<1>3. QED
  BY <1>1, <1>2 DEF Outlived

LEMMA IssuedOutlived ==
    ASSUME KeysTyped, NEW n \in Tokens, Issued(n), used' = used,
           NEW k \in Tokens, k # n, Outlived(k)
    PROVE  Outlived(k)'
BY DEF Issued, KeysTyped, Outlived

\* A request that is at REFRESH_MARKED holds a pair.
LEMMA MarkedHolds ==
    ASSUME RequestTyped, NEW r \in Requests, request[r].at = "REFRESH_MARKED"
    PROVE  request[r].token \in Tokens
BY DEF RequestTyped

LEMMA NextMarkOutlives ==
    TypeOK /\ TypeOK' /\ MarkOutlives /\ [Next]_vars => MarkOutlives'
<1> SUFFICES ASSUME TypeOK, TypeOK', MarkOutlives, [Next]_vars PROVE MarkOutlives'
  OBVIOUS
<1>0. KeysTyped /\ HistoryTyped /\ RequestTyped
  BY DEF TypeOK, KeysTyped, HistoryTyped, RequestTyped
\* It suffices that what was exchanged, or marked, or just is, is outlived.
<1>1. ASSUME \A k \in Tokens : exchanged'[k] > 0 => exchanged[k] > 0,
             \A r \in Requests : request'[r].at = "REFRESH_MARKED"
                => request'[r] = request[r],
             \A k \in Tokens : Outlived(k) => Outlived(k)'
      PROVE  MarkOutlives'
  BY <1>0, <1>1, MarkedHolds DEF MarkOutlives
<1>2. ASSUME UNCHANGED <<refresh, used, exchanged>>,
             \A r \in Requests : request'[r].at = "REFRESH_MARKED"
                => request'[r] = request[r]
      PROVE  MarkOutlives'
  BY <1>1, <1>2, OutlivedKept
<1>3. ASSUME NEW n \in Tokens, Login(n) PROVE MarkOutlives'
  <2>1. ASSUME NEW k \in Tokens, exchanged'[k] > 0 PROVE Outlived(k)'
    <3>1. k # n /\ exchanged[k] > 0
      BY <1>0, <1>3, <2>1 DEF Login, HistoryTyped
    <3>2. QED
      BY <1>0, <1>3, <3>1, IssuedOutlived DEF Login, MarkOutlives
  <2>2. ASSUME NEW r \in Requests, request'[r].at = "REFRESH_MARKED"
        PROVE  Outlived(request[r].token)' /\ request'[r].token = request[r].token
    <3>1. request' = request
      BY <1>3 DEF Login
    <3>2. request[r].token \in Tokens /\ request[r].token # n /\ Outlived(request[r].token)
      BY <1>0, <1>3, <2>2, <3>1, MarkedHolds DEF Login, Issued, Unknown, MarkOutlives
    <3>3. refresh'[request[r].token] = refresh[request[r].token] /\ used' = used
      BY <1>0, <1>3, <3>2 DEF Login, Issued, KeysTyped
    <3>4. QED
      BY <3>1, <3>2, <3>3 DEF Outlived
  <2>3. QED
    BY <2>1, <2>2 DEF MarkOutlives, Outlived
<1>4. ASSUME NEW q \in Requests, NEW n \in Tokens, NEW new \in Tokens, Exchange(q, n, new)
      PROVE  MarkOutlives'
  <2>1. request[q].at = "REFRESH_MARKED" /\ request[q].token = n /\ n # new
    BY <1>0, <1>4, EndsWhere DEF Exchange, Issued, Unknown
  <2>2. Outlived(n)
    BY <2>1 DEF MarkOutlives
  <2>3. ASSUME NEW k \in Tokens, exchanged'[k] > 0 PROVE Outlived(k)'
    <3>1. k # new /\ (k = n \/ exchanged[k] > 0)
      BY <1>0, <1>4, <2>1, <2>3 DEF Exchange, HistoryTyped
    <3>2. QED
      BY <1>0, <1>4, <2>2, <3>1, IssuedOutlived DEF Exchange, MarkOutlives
  <2>4. ASSUME NEW r \in Requests, request'[r].at = "REFRESH_MARKED"
        PROVE  Outlived(request[r].token)' /\ request'[r].token = request[r].token
    <3>1. request'[r] = request[r]
      <4>1. Ends(q, "REFRESH_MARKED", n)
        BY <1>4 DEF Exchange
      <4>2. QED
        BY <1>0, <2>4, <4>1, EndsWhere
    <3>2. request[r].token \in Tokens /\ request[r].token # new /\ Outlived(request[r].token)
      BY <1>0, <1>4, <2>4, <3>1, MarkedHolds DEF Exchange, Issued, Unknown, MarkOutlives
    <3>3. refresh'[request[r].token] = refresh[request[r].token] /\ used' = used
      BY <1>0, <1>4, <3>2 DEF Exchange, Issued, KeysTyped
    <3>4. QED
      BY <3>1, <3>2, <3>3 DEF Outlived
  <2>5. QED
    BY <2>3, <2>4 DEF MarkOutlives, Outlived
<1>5. ASSUME NEW q \in Requests, NEW n \in Tokens, MarkUsed(q, n) PROVE MarkOutlives'
  <2>1. ASSUME NEW k \in Tokens, exchanged'[k] > 0 PROVE Outlived(k)'
    BY <1>0, <1>5, <2>1, MarkedOutlived DEF MarkUsed, MarkOutlives
  <2>2. ASSUME NEW r \in Requests, request'[r].at = "REFRESH_MARKED"
        PROVE  request'[r].token \in Tokens
               /\ (request'[r].token = n \/ Outlived(request'[r].token))
    <3>0. Moves(q, "REFRESH_UNUSED", "REFRESH_MARKED", n)
      BY <1>5 DEF MarkUsed
    <3>1. CASE r = q
      BY <1>0, <3>0, <3>1, MovesWhere
    <3>2. CASE r # q
      <4>1. request'[r] = request[r]
        BY <1>0, <3>0, <3>2, MovesWhere
      <4>2. QED
        BY <1>0, <2>2, <4>1, MarkedHolds DEF MarkOutlives
    <3>3. QED
      BY <3>1, <3>2
  <2>3. ASSUME NEW r \in Requests, request'[r].at = "REFRESH_MARKED"
        PROVE  refresh'[request'[r].token] <= used'[request'[r].token]
    <3>1. PICK k \in Tokens : k = request'[r].token /\ (k = n \/ Outlived(k))
      BY <2>2, <2>3
    <3>2. Outlived(k)'
      BY <1>0, <1>5, <3>1, MarkedOutlived
    <3>3. QED
      BY <3>1, <3>2 DEF Outlived
  <2>4. QED
    BY <2>1, <2>3 DEF MarkOutlives, Outlived
<1>6. CASE Tick
  <2>1. \A k \in Tokens : exchanged'[k] > 0 => exchanged[k] > 0
    BY <1>6 DEF Tick
  <2>2. QED
    BY <1>0, <1>1, <1>6, <2>1, TickOutlived DEF Tick
<1>7. ASSUME NEW q \in Requests, NEW n \in Tokens,
             CheckToken(q, n) \/ SkipCheck(q, n) \/ CheckUnused(q, n)
      PROVE  MarkOutlives'
  <2>1. \A r \in Requests : request'[r].at = "REFRESH_MARKED" => request'[r] = request[r]
    <3>1. PICK at : Arrives(q, at, n) /\ at # "REFRESH_MARKED"
      BY <1>7 DEF CheckToken, SkipCheck, CheckUnused
    <3>2. QED
      BY <1>0, <3>1, ArrivesWhere
  <2>2. QED
    BY <1>2, <1>7, <2>1 DEF CheckToken, SkipCheck, CheckUnused
<1>8. ASSUME NEW q \in Requests, request' = [request EXCEPT ![q] = Idle],
             UNCHANGED <<refresh, used, exchanged>>
      PROVE  MarkOutlives'
  <2>1. \A r \in Requests : request'[r].at = "REFRESH_MARKED" => request'[r] = request[r]
    BY <1>0, <1>8 DEF RequestTyped, Idle
  <2>2. QED
    BY <1>2, <1>8, <2>1
<1>9. CASE UNCHANGED vars
  BY <1>2, <1>9 DEF vars
<1>10. QED
  BY <1>3, <1>4, <1>5, <1>6, <1>7, <1>8, <1>9
     DEF Next, Serve, Logout, Fail, Ends

\* Only the check of the mark takes a request to REFRESH_UNUSED.
LEMMA UnusedBy ==
    ASSUME RequestTyped, [Next]_vars, NEW r \in Requests, NEW k \in Tokens,
           request[r].at = "IDLE", request'[r].at = "REFRESH_UNUSED", request'[r].token = k
    PROVE  refresh[k] >= 0 /\ used[k] = 0
<1>0. request' # request
  OBVIOUS
<1>1. ASSUME NEW q \in Requests, NEW n \in Tokens, CheckUnused(q, n)
      PROVE  refresh[k] >= 0 /\ used[k] = 0
  <2>0. Arrives(q, "REFRESH_UNUSED", n)
    BY <1>1 DEF CheckUnused
  <2>1. q = r /\ n = k
    BY <2>0, ArrivesWhere
  <2>2. QED
    BY <1>1, <2>1 DEF CheckUnused
<1>2. ASSUME NEW q \in Requests, NEW n \in Tokens, SkipCheck(q, n) PROVE FALSE
  <2>1. Arrives(q, "TOKEN_UNCHECKED", n)
    BY <1>2 DEF SkipCheck
  <2>2. QED
    BY <2>1, ArrivesWhere
<1>6. ASSUME NEW q \in Requests, NEW n \in Tokens, CheckToken(q, n) PROVE FALSE
  <2>1. Arrives(q, "TOKEN_CHECKED", n)
    BY <1>6 DEF CheckToken
  <2>2. QED
    BY <2>1, ArrivesWhere
<1>3. ASSUME NEW q \in Requests, NEW n \in Tokens, MarkUsed(q, n) PROVE FALSE
  <2>1. Moves(q, "REFRESH_UNUSED", "REFRESH_MARKED", n)
    BY <1>3 DEF MarkUsed
  <2>2. QED
    BY <2>1, MovesWhere
<1>4. ASSUME NEW q \in Requests, request' = [request EXCEPT ![q] = Idle] PROVE FALSE
  BY <1>4 DEF RequestTyped, Idle
<1>5. QED
  <2>1. Next
    BY <1>0 DEF vars
  <2>2. QED
    BY <1>0, <1>1, <1>2, <1>3, <1>4, <1>6, <2>1, Steps
       DEF Serve, Logout, Exchange, Ends, Fail

\* A refresh token that was exchanged is not accepted but in the tick it expires in.
THEOREM ExchangeHolds == Spec => ExchangedStaysUsed
<1> DEFINE Accepted == \A r \in Requests, k \in Tokens :
                        /\ request[r].at = "IDLE"
                        /\ request'[r] = [at |-> "REFRESH_UNUSED", token |-> k]
                        /\ exchanged[k] > 0
                        => refresh[k] = 0
<1>1. Init => MarkOutlives
  BY DEF Init, MarkOutlives, Idle
<1>2. TypeOK /\ MarkOutlives /\ [Next]_vars => [Accepted]_vars
  <2> SUFFICES ASSUME TypeOK, MarkOutlives, [Next]_vars,
                      NEW r \in Requests, NEW k \in Tokens, request[r].at = "IDLE",
                      request'[r] = [at |-> "REFRESH_UNUSED", token |-> k], exchanged[k] > 0
               PROVE  refresh[k] = 0
    OBVIOUS
  <2>1. RequestTyped /\ refresh[k] \in Int
    BY TokenConstants DEF TypeOK, RequestTyped
  <2>2. refresh[k] >= 0 /\ used[k] = 0
    BY <2>1, UnusedBy
  <2>3. refresh[k] <= used[k]
    BY DEF MarkOutlives, Outlived
  <2>4. QED
    BY <2>1, <2>2, <2>3
<1>3. QED
  BY <1>1, <1>2, TypeCorrect, NextMarkOutlives, PTL DEF Spec, ExchangedStaysUsed
=============================================================================
