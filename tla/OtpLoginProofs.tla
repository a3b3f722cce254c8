---------------------------- MODULE OtpLoginProofs ----------------------------
(***************************************************************************)
(* Proofs about OtpLogin, for any limit, any lifetimes and any number of   *)
(* overlapping requests.                                                   *)
(***************************************************************************)
EXTENDS OtpLogin, FiniteSetTheorems, TLAPS

-----------------------------------------------------------------------------
(***************************************************************************)
(* Types.                                                                  *)
(***************************************************************************)
CodeTyped == otp \in [code: Codes \cup {NULL}, ttl: 0..OtpTtl]
             /\ (otp.ttl = 0 <=> otp.code = NULL)
RateTyped == rate \in [count: Nat, ttl: 0..RateWindow]
             /\ (rate.ttl = 0 <=> rate.count = 0)
RequestTyped == request \in [Requests -> [at: Stage, code: Codes \cup {NULL}]]
RedeemedTyped == redeemed \in [Codes -> Nat]

LEMMA TypeParts ==
    TypeOK <=> /\ CodeTyped /\ RateTyped /\ accounts \in Nat
               /\ RequestTyped /\ RedeemedTyped
BY DEF TypeOK, CodeTyped, RateTyped, RequestTyped, RedeemedTyped

\* A request moves on, and no other one does.
LEMMA MovesTyped ==
    ASSUME RequestTyped, NEW r \in Requests, NEW from, NEW to \in Stage,
           NEW c \in Codes \cup {NULL}, Moves(r, from, to, c)
    PROVE  RequestTyped'
BY DEF RequestTyped, Moves

LEMMA MovesWhere ==
    ASSUME RequestTyped, NEW r \in Requests, NEW from, NEW to, NEW c, Moves(r, from, to, c)
    PROVE  /\ request[r].at = from
           /\ request'[r].at = to
           /\ \A q \in Requests \ {r} : request'[q] = request[q]
BY DEF RequestTyped, Moves

LEMMA InitType == Init => TypeOK
BY OtpConstants DEF Init, TypeOK, NoCode, NoCount, Idle, Stage

LEMMA NextRequest == RequestTyped /\ CodeTyped /\ [Next]_vars => RequestTyped'
<1> SUFFICES ASSUME RequestTyped, CodeTyped, [Next]_vars PROVE RequestTyped'
  OBVIOUS
<1>1. ASSUME NEW r \in Requests, Begin(r) PROVE RequestTyped'
  BY <1>1, MovesTyped
     DEF Begin, SendCheck, VerifyRead, RegisterCheck, CodeTyped, Stage
<1>2. ASSUME NEW r \in Requests, NEW c \in Codes, SendStore(r, c) PROVE RequestTyped'
  BY <1>2, MovesTyped DEF SendStore, Stage
<1>3. ASSUME NEW r \in Requests, SendCount(r) PROVE RequestTyped'
  <2>1. request[r].code \in Codes \cup {NULL}
    BY DEF RequestTyped
  <2>2. QED
    BY <1>3, <2>1, MovesTyped DEF SendCount, Stage
<1>4. ASSUME NEW r \in Requests,
             SendText(r) \/ VerifyDelete(r) \/ VerifyLookup(r) \/ VerifyKnown(r) \/ SignUp(r)
      PROVE  RequestTyped'
  BY <1>4, MovesTyped
     DEF SendText, VerifyDelete, VerifyLookup, VerifyKnown, SignUp, Stage
<1>5. ASSUME NEW r \in Requests, Fail(r) PROVE RequestTyped'
  BY <1>5 DEF Fail, RequestTyped, Idle, Stage
<1>6. CASE Tick \/ UNCHANGED vars
  BY <1>6 DEF Tick, vars, RequestTyped
<1>7. QED
  BY <1>1, <1>2, <1>3, <1>4, <1>5, <1>6 DEF Next, Continue

LEMMA NextCode == CodeTyped /\ [Next]_vars => CodeTyped'
<1> SUFFICES ASSUME CodeTyped, [Next]_vars PROVE CodeTyped'
  OBVIOUS
<1>1. ASSUME NEW r \in Requests, NEW c \in Codes, SendStore(r, c) PROVE CodeTyped'
  BY <1>1, OtpConstants DEF SendStore, Stored, CodeTyped
<1>2. ASSUME NEW r \in Requests, VerifyDelete(r) PROVE CodeTyped'
  BY <1>2, OtpConstants DEF VerifyDelete, NoCode, CodeTyped
<1>3. CASE Tick
  BY <1>3, OtpConstants DEF Tick, NoCode, CodeTyped
<1>4. CASE UNCHANGED otp
  BY <1>4 DEF CodeTyped
<1>5. QED
  BY <1>1, <1>2, <1>3, <1>4
     DEF Next, vars, Begin, Continue, SendCheck, VerifyRead, RegisterCheck, SendCount,
         SendText, VerifyLookup, VerifyKnown, SignUp, Fail

LEMMA NextRate == RateTyped /\ [Next]_vars => RateTyped'
<1> SUFFICES ASSUME RateTyped, [Next]_vars PROVE RateTyped'
  OBVIOUS
<1>1. ASSUME NEW r \in Requests, SendCount(r) PROVE RateTyped'
  BY <1>1, OtpConstants DEF SendCount, RateTyped
<1>2. CASE Tick
  BY <1>2, OtpConstants DEF Tick, NoCount, RateTyped
<1>3. CASE UNCHANGED rate
  BY <1>3 DEF RateTyped
<1>4. QED
  BY <1>1, <1>2, <1>3
     DEF Next, vars, Begin, Continue, SendCheck, VerifyRead, RegisterCheck, SendStore,
         SendText, VerifyDelete, VerifyLookup, VerifyKnown, SignUp, Fail

\* A row is inserted only when there is none.
LEMMA NextAccounts == [Next]_vars => accounts' = accounts \/ accounts' = 1
BY DEF Next, vars, Tick, Begin, Continue, SendCheck, VerifyRead, RegisterCheck,
       SendStore, SendCount, SendText, VerifyDelete, VerifyLookup, VerifyKnown, SignUp,
       InsertUser, Fail

\* A code is redeemed once more or sent anew.
LEMMA NextRedeemed == RedeemedTyped /\ [Next]_vars => RedeemedTyped'
<1> SUFFICES ASSUME RedeemedTyped, [Next]_vars PROVE RedeemedTyped'
  OBVIOUS
<1>1. ASSUME NEW r \in Requests, NEW c \in Codes, SendStore(r, c) PROVE RedeemedTyped'
  BY <1>1 DEF SendStore, RedeemedTyped
<1>2. ASSUME NEW r \in Requests, VerifyDelete(r) PROVE RedeemedTyped'
  <2>1. redeemed' = [c \in Codes |-> IF c = request[r].code
                                     THEN redeemed[c] + 1 ELSE redeemed[c]]
    BY <1>2 DEF VerifyDelete, RedeemedTyped
  <2>2. QED
    BY <2>1 DEF RedeemedTyped
<1>3. CASE UNCHANGED redeemed
  BY <1>3 DEF RedeemedTyped
<1>4. QED
  BY <1>1, <1>2, <1>3
     DEF Next, vars, Tick, Begin, Continue, SendCheck, VerifyRead, RegisterCheck, SendCount,
         SendText, VerifyLookup, VerifyKnown, SignUp, Fail

\* Keys, counter and requests are what they are said to be.
THEOREM TypeCorrect == Spec => []TypeOK
<1>1. TypeOK /\ [Next]_vars => TypeOK'
  <2> SUFFICES ASSUME TypeOK, [Next]_vars
               PROVE  /\ CodeTyped' /\ RateTyped' /\ accounts' \in Nat
                      /\ RequestTyped' /\ RedeemedTyped'
    BY TypeParts DEF TypeOK, CodeTyped, RateTyped, RequestTyped, RedeemedTyped
  <2>1. QED
    BY TypeParts, NextCode, NextRate, NextRequest, NextAccounts, NextRedeemed
<1>2. QED
  BY InitType, <1>1, PTL DEF Spec

-----------------------------------------------------------------------------
(***************************************************************************)
(* The rate limit.  The requests that have passed the check and are not    *)
(* counted yet are counted in advance: one of them moves the bound by      *)
(* nothing when it is counted, and there are no more of them than there    *)
(* can be requests.                                                        *)
(***************************************************************************)
Uncounted == {r \in Requests : request[r].at \in {"SEND_ALLOWED", "OTP_STORED"}}

RateInv == rate.count + Cardinality(Uncounted) < OtpRateLimit + Cardinality(Requests)

LEMMA UncountedFinite ==
    /\ IsFiniteSet(Uncounted)
    /\ Cardinality(Uncounted) \in Nat
    /\ Cardinality(Requests) \in Nat
    /\ Cardinality(Uncounted) <= Cardinality(Requests)
<1>1. Uncounted \in SUBSET Requests
  BY DEF Uncounted
<1>2. QED
  BY <1>1, OtpConstants, FS_Subset, FS_CardinalityType

LEMMA UncountedFinitePrime ==
    /\ Cardinality(Uncounted') \in Nat
    /\ Cardinality(Uncounted') <= Cardinality(Requests)
<1>1. Uncounted' \in SUBSET Requests
  BY DEF Uncounted
<1>2. QED
  BY <1>1, OtpConstants, FS_Subset, FS_CardinalityType

\* What counts nothing and lets nobody pass the check keeps the bound.
LEMMA RateKept ==
    ASSUME RateTyped, RateTyped', RateInv, rate'.count <= rate.count, Uncounted' \subseteq Uncounted
    PROVE  RateInv'
<1>1. Cardinality(Uncounted') <= Cardinality(Uncounted)
  BY UncountedFinite, FS_Subset
<1>2. rate.count \in Nat /\ rate'.count \in Nat
  BY DEF RateTyped
<1>3. QED
  BY <1>1, <1>2, OtpConstants, UncountedFinite, UncountedFinitePrime DEF RateInv

LEMMA InitRate == Init => RateInv
<1> SUFFICES ASSUME Init PROVE RateInv
  OBVIOUS
<1>1. Uncounted = {}
  BY DEF Init, Idle, Uncounted
<1>2. Cardinality(Uncounted) = 0
  BY <1>1, FS_EmptySet
<1>3. rate.count = 0
  BY DEF Init, NoCount
<1>4. QED
  BY <1>2, <1>3, OtpConstants, UncountedFinite DEF RateInv

LEMMA NextRateInv == TypeOK /\ TypeOK' /\ RateInv /\ [Next]_vars => RateInv'
<1> SUFFICES ASSUME TypeOK, TypeOK', RateInv, [Next]_vars PROVE RateInv'
  OBVIOUS
<1>0. RequestTyped /\ RateTyped /\ RateTyped' /\ rate.count \in Nat
  BY DEF TypeOK, RequestTyped, RateTyped
<1>1. ASSUME NEW r \in Requests, SendCheck(r) PROVE RateInv'
  <2>1. rate' = rate /\ rate.count < OtpRateLimit
    BY <1>1 DEF SendCheck
  <2>2. QED
    BY <1>0, <2>1, OtpConstants, UncountedFinitePrime, UncountedFinite DEF RateInv
<1>2. ASSUME NEW r \in Requests, SendCount(r) PROVE RateInv'
  <2>1. r \in Uncounted
    BY <1>2 DEF SendCount, Moves, Uncounted
  <2>2. Uncounted' = Uncounted \ {r}
    BY <1>0, <1>2, MovesWhere DEF SendCount, Uncounted
  <2>3. Cardinality(Uncounted') = Cardinality(Uncounted) - 1
    BY <2>1, <2>2, UncountedFinite, FS_RemoveElement
  <2>4. rate'.count = rate.count + 1
    BY <1>2 DEF SendCount
  <2>5. QED
    BY <1>0, <2>3, <2>4, OtpConstants, UncountedFinite DEF RateInv
<1>3. ASSUME NEW r \in Requests, NEW c \in Codes, SendStore(r, c) PROVE RateInv'
  <2>1. Uncounted' \subseteq Uncounted
    BY <1>0, <1>3, MovesWhere DEF SendStore, Uncounted
  <2>2. QED
    BY <1>0, <1>3, <2>1, RateKept DEF SendStore
<1>4. ASSUME NEW r \in Requests, VerifyRead(r) \/ RegisterCheck(r) \/ SendText(r)
                \/ VerifyDelete(r) \/ VerifyLookup(r) \/ VerifyKnown(r)
      PROVE  RateInv'
  <2>1. Uncounted' \subseteq Uncounted
    <3>1. PICK from, to, c : Moves(r, from, to, c) /\ to \notin {"SEND_ALLOWED", "OTP_STORED"}
      BY <1>4
         DEF VerifyRead, RegisterCheck, SendText, VerifyDelete, VerifyLookup, VerifyKnown
    <3>2. QED
      BY <1>0, <3>1, MovesWhere DEF Uncounted
  <2>2. rate' = rate
    BY <1>4
       DEF VerifyRead, RegisterCheck, SendText, VerifyDelete, VerifyLookup, VerifyKnown
  <2>3. QED
    BY <1>0, <2>1, <2>2, RateKept
<1>5. ASSUME NEW r \in Requests, SignUp(r) PROVE RateInv'
  <2>1. Uncounted' \subseteq Uncounted
    BY <1>0, <1>5, MovesWhere DEF SignUp, Uncounted
  <2>2. QED
    BY <1>0, <1>5, <2>1, RateKept DEF SignUp
<1>6. ASSUME NEW r \in Requests, Fail(r) PROVE RateInv'
  <2>1. Uncounted' \subseteq Uncounted
    BY <1>0, <1>6 DEF Fail, Idle, RequestTyped, Uncounted
  <2>2. QED
    BY <1>0, <1>6, <2>1, RateKept DEF Fail
<1>7. CASE Tick \/ UNCHANGED vars
  <2>1. Uncounted' \subseteq Uncounted
    BY <1>7 DEF Tick, vars, Uncounted
  <2>2. rate'.count <= rate.count
    BY <1>0, <1>7 DEF Tick, vars, NoCount, RateTyped
  <2>3. QED
    BY <1>0, <2>1, <2>2, RateKept
<1>8. QED
  BY <1>1, <1>2, <1>3, <1>4, <1>5, <1>6, <1>7 DEF Next, Begin, Continue

\* Requests that are open at once exceed the limit by one code each at most.
THEOREM RateCorrect == Spec => []RateBounded
<1>1. TypeOK /\ RateInv => RateBounded
  <2> SUFFICES ASSUME TypeOK, RateInv PROVE RateBounded
    OBVIOUS
  <2>1. rate.count \in Nat
    BY DEF TypeOK
  <2>2. QED
    BY <2>1, OtpConstants, UncountedFinite DEF RateInv, RateBounded
<1>2. QED
  BY <1>1, TypeCorrect, InitRate, NextRateInv, PTL DEF Spec

-----------------------------------------------------------------------------
(***************************************************************************)
(* The one-time codes.  As long as the key holds a code nobody has used    *)
(* it; once somebody has, only those requests can that have read it        *)
(* before.                                                                 *)
(***************************************************************************)
Matched(c) == {r \in Requests : request[r].at = "OTP_MATCHED" /\ request[r].code = c}

StoredIsFresh == \A c \in Codes : otp.code = c => redeemed[c] = 0

CodesBounded ==
    \A c \in Codes : redeemed[c] + Cardinality(Matched(c)) <= Cardinality(Requests)

LEMMA MatchedFinite ==
    ASSUME NEW c
    PROVE  /\ IsFiniteSet(Matched(c))
           /\ Cardinality(Matched(c)) \in Nat
           /\ Cardinality(Matched(c)) <= Cardinality(Requests)
           /\ Cardinality(Requests) \in Nat
<1>1. Matched(c) \in SUBSET Requests
  BY DEF Matched
<1>2. QED
  BY <1>1, OtpConstants, FS_Subset, FS_CardinalityType

LEMMA MatchedFinitePrime ==
    ASSUME NEW c
    PROVE  /\ Cardinality(Matched(c)') \in Nat
           /\ Cardinality(Matched(c)') <= Cardinality(Requests)
<1>1. Matched(c)' \in SUBSET Requests
  BY DEF Matched
<1>2. QED
  BY <1>1, OtpConstants, FS_Subset, FS_CardinalityType

\* What redeems no code and lets nobody match one keeps the bound.
LEMMA CodesKept ==
    ASSUME RedeemedTyped, CodesBounded, UNCHANGED redeemed,
           \A c \in Codes : Matched(c)' \subseteq Matched(c)
    PROVE  CodesBounded'
<1> SUFFICES ASSUME NEW c \in Codes
             PROVE  redeemed'[c] + Cardinality(Matched(c)') <= Cardinality(Requests)
  BY DEF CodesBounded
<1>1. Cardinality(Matched(c)') <= Cardinality(Matched(c))
  BY MatchedFinite, FS_Subset
<1>2. redeemed[c] \in Nat /\ redeemed[c] + Cardinality(Matched(c)) <= Cardinality(Requests)
  BY DEF RedeemedTyped, CodesBounded
<1>3. QED
  BY <1>1, <1>2, MatchedFinite, MatchedFinitePrime

LEMMA InitCodes == Init => StoredIsFresh /\ CodesBounded
<1> SUFFICES ASSUME Init PROVE StoredIsFresh /\ CodesBounded
  OBVIOUS
<1>1. \A c \in Codes : redeemed[c] = 0
  BY DEF Init
<1>2. QED
  BY <1>1, MatchedFinite DEF StoredIsFresh, CodesBounded

LEMMA NextCodes ==
    TypeOK /\ StoredIsFresh /\ CodesBounded /\ [Next]_vars => StoredIsFresh' /\ CodesBounded'
<1> SUFFICES ASSUME TypeOK, StoredIsFresh, CodesBounded, [Next]_vars
             PROVE  StoredIsFresh' /\ CodesBounded'
  OBVIOUS
<1>0. RequestTyped /\ CodeTyped /\ RedeemedTyped
  BY TypeParts
<1>1. ASSUME NEW r \in Requests, NEW c \in Codes, SendStore(r, c)
      PROVE  StoredIsFresh' /\ CodesBounded'
  <2>1. otp'.code = c /\ redeemed' = [redeemed EXCEPT ![c] = 0]
    BY <1>1 DEF SendStore, Stored
  <2>2. redeemed'[c] = 0 /\ \A d \in Codes \ {c} : redeemed'[d] = redeemed[d]
    BY <1>0, <2>1 DEF RedeemedTyped
  <2>3. \A d \in Codes : Matched(d)' \subseteq Matched(d)
    BY <1>0, <1>1, MovesWhere DEF SendStore, Matched
  <2>4. ASSUME NEW d \in Codes
        PROVE  redeemed'[d] + Cardinality(Matched(d)') <= Cardinality(Requests)
    <3>1. CASE d = c
      BY <2>2, <3>1, MatchedFinitePrime, MatchedFinite
    <3>2. CASE d # c
      <4>1. Cardinality(Matched(d)') <= Cardinality(Matched(d))
        BY <2>3, MatchedFinite, FS_Subset
      <4>2. redeemed'[d] \in Nat
            /\ redeemed'[d] + Cardinality(Matched(d)) <= Cardinality(Requests)
        BY <1>0, <2>2, <3>2 DEF RedeemedTyped, CodesBounded
      <4>3. QED
        BY <4>1, <4>2, MatchedFinite, MatchedFinitePrime
    <3>3. QED
      BY <3>1, <3>2
  <2>5. QED
    BY <2>1, <2>2, <2>4 DEF StoredIsFresh, CodesBounded
<1>2. ASSUME NEW r \in Requests, VerifyRead(r) PROVE StoredIsFresh' /\ CodesBounded'
  <2>1. otp' = otp /\ redeemed' = redeemed /\ Moves(r, "IDLE", "OTP_MATCHED", otp.code)
    BY <1>2 DEF VerifyRead
  <2>2. ASSUME NEW d \in Codes
        PROVE  redeemed'[d] + Cardinality(Matched(d)') <= Cardinality(Requests)
    <3>1. CASE d = otp.code
      BY <2>1, <3>1, MatchedFinitePrime, MatchedFinite DEF StoredIsFresh
    <3>2. CASE d # otp.code
      <4>1. Matched(d)' \subseteq Matched(d)
        BY <1>0, <2>1, <3>2, MovesWhere DEF Matched, Moves, RequestTyped
      <4>2. Cardinality(Matched(d)') <= Cardinality(Matched(d))
        BY <4>1, MatchedFinite, FS_Subset
      <4>3. redeemed[d] \in Nat
            /\ redeemed[d] + Cardinality(Matched(d)) <= Cardinality(Requests)
        BY <1>0 DEF RedeemedTyped, CodesBounded
      <4>4. QED
        BY <2>1, <4>2, <4>3, MatchedFinite, MatchedFinitePrime
    <3>3. QED
      BY <3>1, <3>2
  <2>3. QED
    BY <2>1, <2>2 DEF StoredIsFresh, CodesBounded
<1>3. ASSUME NEW r \in Requests, VerifyDelete(r) PROVE StoredIsFresh' /\ CodesBounded'
  <2>0. PICK c : c = request[r].code
    OBVIOUS
  <2>1. /\ Moves(r, "OTP_MATCHED", "OTP_REDEEMED", NULL)
        /\ otp'.code = NULL
        /\ redeemed' = [redeemed EXCEPT ![c] = @ + 1]
    BY <1>3, <2>0 DEF VerifyDelete, NoCode
  <2>2. r \in Matched(c) /\ Matched(c)' = Matched(c) \ {r}
    BY <1>0, <2>0, <2>1, MovesWhere DEF Matched
  <2>3. Cardinality(Matched(c)') = Cardinality(Matched(c)) - 1
    BY <2>2, MatchedFinite, FS_RemoveElement
  <2>4. ASSUME NEW d \in Codes
        PROVE  redeemed'[d] + Cardinality(Matched(d)') <= Cardinality(Requests)
    <3>1. redeemed[d] \in Nat
          /\ redeemed[d] + Cardinality(Matched(d)) <= Cardinality(Requests)
      BY <1>0 DEF RedeemedTyped, CodesBounded
    <3>2. CASE d = c
      <4>1. redeemed'[d] = redeemed[d] + 1
        BY <1>0, <2>1, <3>2 DEF RedeemedTyped
      <4>2. QED
        BY <2>3, <3>1, <3>2, <4>1, MatchedFinite
    <3>3. CASE d # c
      <4>1. redeemed'[d] = redeemed[d]
        BY <1>0, <2>1, <3>3 DEF RedeemedTyped
      <4>2. Matched(d)' \subseteq Matched(d)
        BY <1>0, <2>1, MovesWhere DEF Matched
      <4>3. Cardinality(Matched(d)') <= Cardinality(Matched(d))
        BY <4>2, MatchedFinite, FS_Subset
      <4>4. QED
        BY <3>1, <4>1, <4>3, MatchedFinite, MatchedFinitePrime
    <3>4. QED
      BY <3>2, <3>3
  <2>5. QED
    BY <2>1, <2>4, OtpConstants DEF StoredIsFresh, CodesBounded
<1>4. ASSUME NEW r \in Requests,
             \/ SendCheck(r) \/ RegisterCheck(r) \/ SendCount(r) \/ SendText(r)
             \/ VerifyLookup(r) \/ VerifyKnown(r) \/ SignUp(r)
      PROVE  StoredIsFresh' /\ CodesBounded'
  <2>1. PICK from, to, c : Moves(r, from, to, c) /\ to # "OTP_MATCHED"
    BY <1>4 DEF SendCheck, RegisterCheck, SendCount, SendText, VerifyLookup, VerifyKnown,
                SignUp
  <2>2. \A d \in Codes : Matched(d)' \subseteq Matched(d)
    BY <1>0, <2>1, MovesWhere DEF Matched
  <2>3. otp' = otp /\ redeemed' = redeemed
    BY <1>4 DEF SendCheck, RegisterCheck, SendCount, SendText, VerifyLookup, VerifyKnown,
                SignUp
  <2>4. QED
    BY <1>0, <2>2, <2>3, CodesKept DEF StoredIsFresh
<1>5. ASSUME NEW r \in Requests, Fail(r) PROVE StoredIsFresh' /\ CodesBounded'
  <2>1. \A d \in Codes : Matched(d)' \subseteq Matched(d)
    BY <1>0, <1>5 DEF Fail, Idle, RequestTyped, Matched
  <2>2. QED
    BY <1>0, <1>5, <2>1, CodesKept DEF Fail, StoredIsFresh
<1>6. CASE Tick \/ UNCHANGED vars
  <2>1. \A d \in Codes : Matched(d)' \subseteq Matched(d)
    BY <1>6 DEF Tick, vars, Matched
  <2>2. redeemed' = redeemed /\ (otp'.code = otp.code \/ otp'.code = NULL)
    BY <1>0, <1>6 DEF Tick, vars, NoCode, CodeTyped
  <2>3. QED
    BY <1>0, <2>1, <2>2, CodesKept, OtpConstants DEF StoredIsFresh
<1>7. QED
  BY <1>1, <1>2, <1>3, <1>4, <1>5, <1>6 DEF Next, Begin, Continue

\* Whatever is sent, deleted and redeemed meanwhile, a code is used by no more
\* requests than were open at once.
THEOREM CodesCorrect == Spec => []RedeemedByOverlapOnly
<1>1. TypeOK /\ CodesBounded => RedeemedByOverlapOnly
  <2> SUFFICES ASSUME TypeOK, CodesBounded, NEW c \in Codes
               PROVE  redeemed[c] <= Cardinality(Requests)
    BY DEF RedeemedByOverlapOnly
  <2>1. redeemed[c] \in Nat
    BY DEF TypeOK
  <2>2. QED
    BY <2>1, MatchedFinite DEF CodesBounded
<1>2. QED
  BY <1>1, TypeCorrect, InitCodes, NextCodes, PTL DEF Spec
=============================================================================
