------------------------------- MODULE OtpLogin -------------------------------
(***************************************************************************)
(* Getting an account and logging in with a one-time code, for one phone   *)
(* number: send_otp, verify_otp and register of app/services/              *)
(* auth_service.py.                                                        *)
(*                                                                         *)
(* The code and its rate counter are Redis keys with an expiry, the        *)
(* account is a row of users.  A request suspends at every await, so that  *)
(* requests overlap between any two of their Redis and database calls: an  *)
(* action is one such call.  Any call may fail (Redis or the SMS gateway   *)
(* not answering, the instance stopped), which ends the request and leaves *)
(* in place what it has already done to Redis.                             *)
(*                                                                         *)
(* Keys are kept with the time they have left, so that time has no bound.  *)
(***************************************************************************)
EXTENDS Rows, Naturals, FiniteSets

CONSTANTS Requests,     \* how many requests can be open at once
          Codes,        \* values generate_otp may return
          OtpRateLimit, \* OTP_RATE_LIMIT
          OtpTtl,       \* OTP_TTL_SECONDS, in ticks
          RateWindow    \* the 3600 seconds of the rate counter, in ticks

ASSUME OtpConstants ==
    /\ OtpRateLimit \in Nat \ {0}
    /\ OtpTtl \in Nat \ {0}
    /\ RateWindow \in Nat \ {0}
    /\ IsFiniteSet(Requests)
    /\ NULL \notin Codes

VARIABLES
    otp,       \* key otp:<phone>: code (NULL without the key) and time left
    rate,      \* key otp_rate:<phone>: count and time left
    accounts,  \* how many rows of users have the phone
    request,   \* the open requests: where each is and the code it deals with
    redeemed   \* history: how often each code was used since it was last sent

vars == <<otp, rate, accounts, request, redeemed>>

\* Where a request is suspended: before its first call, ...
Stage == {"IDLE",
          "SEND_ALLOWED", "OTP_STORED", "OTP_COUNTED",   \* send_otp
          "OTP_MATCHED", "OTP_REDEEMED",                 \* verify_otp
          "USER_KNOWN", "USER_UNKNOWN",                  \*   having looked it up
          "PHONE_FREE"}                                  \* register

Idle == [at |-> "IDLE", code |-> NULL]

NoCode  == [code |-> NULL, ttl |-> 0]
NoCount == [count |-> 0, ttl |-> 0]

TypeOK ==
    /\ otp \in [code: Codes \cup {NULL}, ttl: 0..OtpTtl]
    /\ otp.ttl = 0 <=> otp.code = NULL
    /\ rate \in [count: Nat, ttl: 0..RateWindow]
    /\ rate.ttl = 0 <=> rate.count = 0
    /\ accounts \in Nat
    /\ request \in [Requests -> [at: Stage, code: Codes \cup {NULL}]]
    /\ redeemed \in [Codes -> Nat]

Moves(r, from, to, c) ==
    /\ request[r].at = from
    /\ request' = [request EXCEPT ![r] = [at |-> to, code |-> c]]

-----------------------------------------------------------------------------
(***************************************************************************)
(* Mutations a careless edit could introduce.                              *)
(***************************************************************************)

\* The window restarts with every attempt, refused ones included.
RearmingSendCheck(r) ==
    /\ \/ rate.count < OtpRateLimit /\ Moves(r, "IDLE", "SEND_ALLOWED", NULL)
       \/ rate.count >= OtpRateLimit /\ request[r].at = "IDLE" /\ UNCHANGED request
    /\ rate' = IF rate.count > 0 THEN [rate EXCEPT !.ttl = RateWindow] ELSE rate
    /\ UNCHANGED <<otp, accounts, redeemed>>

\* The limit is an inclusive one.
SendCheckInclusive(r) ==
    /\ rate.count <= OtpRateLimit
    /\ Moves(r, "IDLE", "SEND_ALLOWED", NULL)
    /\ UNCHANGED <<otp, rate, accounts, redeemed>>

\* The code stays until its time is up.
VerifyKept(r) ==
    /\ Moves(r, "OTP_MATCHED", "OTP_REDEEMED", NULL)
    /\ redeemed' = [redeemed EXCEPT ![request[r].code] = @ + 1]
    /\ UNCHANGED <<otp, rate, accounts>>

-----------------------------------------------------------------------------
(***************************************************************************)
(* send_otp                                                                *)
(***************************************************************************)
SendCheck(r) ==
    /\ rate.count < OtpRateLimit
    /\ Moves(r, "IDLE", "SEND_ALLOWED", NULL)
    /\ UNCHANGED <<otp, rate, accounts, redeemed>>

Stored(c) == [code |-> c, ttl |-> OtpTtl]

SendStore(r, c) ==
    /\ Moves(r, "SEND_ALLOWED", "OTP_STORED", c)
    /\ otp' = Stored(c)
    /\ redeemed' = [redeemed EXCEPT ![c] = 0]
    /\ UNCHANGED <<rate, accounts>>

\* incr and expire are one pipeline: the window restarts with every code.
SendCount(r) ==
    /\ Moves(r, "OTP_STORED", "OTP_COUNTED", request[r].code)
    /\ rate' = [count |-> rate.count + 1, ttl |-> RateWindow]
    /\ UNCHANGED <<otp, accounts, redeemed>>

SendText(r) ==
    /\ Moves(r, "OTP_COUNTED", "IDLE", NULL)
    /\ UNCHANGED <<otp, rate, accounts, redeemed>>

(***************************************************************************)
(* verify_otp.  The delete is of whatever code the key holds by then.      *)
(***************************************************************************)
VerifyRead(r) ==
    /\ otp.ttl > 0
    /\ Moves(r, "IDLE", "OTP_MATCHED", otp.code)
    /\ UNCHANGED <<otp, rate, accounts, redeemed>>

VerifyDelete(r) ==
    /\ Moves(r, "OTP_MATCHED", "OTP_REDEEMED", NULL)
    /\ otp' = NoCode
    /\ redeemed' = [redeemed EXCEPT ![request[r].code] = @ + 1]
    /\ UNCHANGED <<rate, accounts>>

VerifyLookup(r) ==
    /\ accounts <= 1
    /\ Moves(r, "OTP_REDEEMED",
             IF accounts = 1 THEN "USER_KNOWN" ELSE "USER_UNKNOWN", NULL)
    /\ UNCHANGED <<otp, rate, accounts, redeemed>>

\* Only last_login_at is written.
VerifyKnown(r) ==
    /\ Moves(r, "USER_KNOWN", "IDLE", NULL)
    /\ UNCHANGED <<otp, rate, accounts, redeemed>>

(***************************************************************************)
(* register checks the phone, then inserts; verify_otp inserts as well.    *)
(* The phone column is unique: an insert waits for others that are not yet *)
(* committed and fails once one of them is.                                *)
(***************************************************************************)
RegisterCheck(r) ==
    /\ accounts = 0
    /\ Moves(r, "IDLE", "PHONE_FREE", NULL)
    /\ UNCHANGED <<otp, rate, accounts, redeemed>>

InsertUser == accounts = 0 /\ accounts' = 1

SignUp(r) ==
    /\ Moves(r, "USER_UNKNOWN", "IDLE", NULL) \/ Moves(r, "PHONE_FREE", "IDLE", NULL)
    /\ InsertUser
    /\ UNCHANGED <<otp, rate, redeemed>>

\* A call of the request fails, or the insert meets the unique phone.
Fail(r) ==
    /\ request[r].at # "IDLE"
    /\ request' = [request EXCEPT ![r] = Idle]
    /\ UNCHANGED <<otp, rate, accounts, redeemed>>

-----------------------------------------------------------------------------
(***************************************************************************)
(* Time.  A key whose time is up is gone.                                  *)
(***************************************************************************)
Tick ==
    /\ otp' = IF otp.ttl <= 1 THEN NoCode ELSE [otp EXCEPT !.ttl = @ - 1]
    /\ rate' = IF rate.ttl <= 1 THEN NoCount ELSE [rate EXCEPT !.ttl = @ - 1]
    /\ UNCHANGED <<accounts, request, redeemed>>

Init ==
    /\ otp = NoCode
    /\ rate = NoCount
    /\ accounts \in {0, 1}
    /\ request = [r \in Requests |-> Idle]
    /\ redeemed = [c \in Codes |-> 0]

Begin(r) == SendCheck(r) \/ VerifyRead(r) \/ RegisterCheck(r)

\* What an open request does next.
Continue(r) ==
    \/ \E c \in Codes : SendStore(r, c)
    \/ SendCount(r) \/ SendText(r)
    \/ VerifyDelete(r) \/ VerifyLookup(r) \/ VerifyKnown(r) \/ SignUp(r)
    \/ Fail(r)

Next == Tick \/ \E r \in Requests : Begin(r) \/ Continue(r)

\* Time passes, and the event loop resumes every open request until it ends:
\* no call is awaited for ever.  Nobody has to make a request.
Fairness == WF_vars(Tick) /\ \A r \in Requests : WF_vars(Continue(r))

Spec == Init /\ [][Next]_vars /\ Fairness

-----------------------------------------------------------------------------
(***************************************************************************)
(* Properties.                                                             *)
(***************************************************************************)

\* send_otp reads the counter long before it increments it, so that requests
\* open at once pass the limit together; they exceed it by no more than one
\* code each, whatever fails in between ("Rate-limited to 5 requests per phone
\* per hour").
RateBounded == rate.count < OtpRateLimit + Cardinality(Requests)

\* What the text says; TLC refutes it as soon as two requests overlap.
RateLimitKept == rate.count <= OtpRateLimit

\* verify_otp reads the code long before it deletes it, so that requests open at
\* once log in with the same code; but however codes are sent, read and deleted in
\* between, a code is used by no more requests than can overlap ("Delete OTP after
\* successful verification").
RedeemedByOverlapOnly ==
    \A c \in Codes : redeemed[c] <= Cardinality(Requests)

\* Every code restarts the hour of the counter, which yet runs out: a phone that
\* has reached the limit can ask for a code again, however often it tries.
RateLimitLifts == rate.count >= OtpRateLimit ~> rate.count < OtpRateLimit
=============================================================================
