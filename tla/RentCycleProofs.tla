---------------------------- MODULE RentCycleProofs ----------------------------
(***************************************************************************)
(* Proofs about RentCycle, for any number of overlapping runs, tenants,    *)
(* agreements and months.                                                  *)
(***************************************************************************)
EXTENDS RentCycle, FiniteSetTheorems, TLAPS

USE DEF Idle, Running, Agreements

-----------------------------------------------------------------------------
(***************************************************************************)
(* Types.                                                                  *)
(***************************************************************************)
LEMMA RunningFields ==
    ASSUME TypeOK, NEW r \in Requests, Running(r)
    PROVE  /\ run[r].label \in 1..Months
           /\ run[r].listed \subseteq Agreements
           /\ run[r].todo \subseteq Agreements
           /\ run[r].bills \subseteq Tenants
BY DEF TypeOK, RunState

LEMMA RunningTyped ==
    ASSUME NEW m \in 1..Months, NEW listed \in SUBSET Agreements,
           NEW todo \in SUBSET Agreements, NEW bills \in SUBSET Tenants
    PROVE  LET new == Going(m, listed, todo, bills) IN
           /\ new \in RunState
           /\ new.at = "RUNNING" /\ new.label = m
           /\ new.listed = listed /\ new.todo = todo /\ new.bills = bills
BY DEF RunState, Going

LEMMA TenantTyped ==
    ASSUME NEW g \in Agreements
    PROVE  TenantOf(g) \in Tenants
BY DEF TenantOf

\* What a run looks like once it has dealt with an agreement.
LEMMA BillRun ==
    ASSUME TypeOK, NEW r \in Requests, NEW g \in Agreements, Bill(r, g)
    PROVE  /\ run'[r] \in RunState
           /\ run'[r].at = "RUNNING"
           /\ run'[r].label = run[r].label
           /\ run'[r].listed = run[r].listed
           /\ run'[r].todo = run[r].todo \ {g}
           /\ run'[r].bills =
                run[r].bills \cup {t \in {TenantOf(g)} : Found(r, t) = 0}
           /\ \A q \in Requests \ {r} : run'[q] = run[q]
<1> DEFINE bills == run[r].bills \cup {t \in {TenantOf(g)} : Found(r, t) = 0}
<1>1. bills \in SUBSET Tenants
  BY RunningFields, TenantTyped DEF Bill
<1>2. run' = [run EXCEPT ![r] = Going(run[r].label, run[r].listed, run[r].todo \ {g}, bills)]
  BY DEF Bill
<1>3. /\ run'[r] = Going(run[r].label, run[r].listed, run[r].todo \ {g}, bills)
      /\ \A q \in Requests \ {r} : run'[q] = run[q]
  BY <1>2 DEF TypeOK
<1> HIDE DEF bills
<1>4. /\ run[r].label \in 1..Months /\ run[r].listed \in SUBSET Agreements
      /\ run[r].todo \ {g} \in SUBSET Agreements
  BY RunningFields DEF Bill
<1>5. QED
  BY <1>1, <1>3, <1>4, RunningTyped DEF bills

\* What is committed: a record for each tenant of the run, for its month.
LEMMA CommitBills ==
    ASSUME TypeOK, NEW r \in Requests, Commit(r), NEW t \in Tenants, NEW m \in 1..Months
    PROVE  /\ billed[t][m] \in Nat
           /\ billed'[t][m] = IF run[r].label = m /\ t \in run[r].bills
                              THEN billed[t][m] + 1 ELSE billed[t][m]
<1>1. billed[t] \in [1..Months -> Nat]
  BY DEF TypeOK
<1>2. billed'[t] = [billed[t] EXCEPT ![run[r].label] = @ + Own(r, t)]
  BY DEF Commit
<1>3. run[r].label \in 1..Months
  BY RunningFields DEF Commit
<1>4. billed'[t][m] = IF run[r].label = m THEN billed[t][m] + Own(r, t) ELSE billed[t][m]
  BY <1>1, <1>2, <1>3
<1>5. billed[t][m] \in Nat
  BY <1>1
<1>6. QED
  BY <1>4, <1>5 DEF Own

LEMMA InitType == Init => TypeOK
BY RentConstants DEF Init, TypeOK, RunState

LEMMA NextType == TypeOK /\ [Next]_vars => TypeOK'
<1> SUFFICES ASSUME TypeOK, [Next]_vars PROVE TypeOK'
  OBVIOUS
<1>1. ASSUME NEW g \in Agreements, Activate(g) PROVE TypeOK'
  BY <1>1 DEF Activate, TypeOK
<1>2. ASSUME NEW r \in Requests, Start(r) PROVE TypeOK'
  BY <1>2, RunningTyped DEF Start, TypeOK
<1>3. ASSUME NEW r \in Requests, Commit(r) PROVE TypeOK'
  <2>1. run[r].label \in 1..Months
    BY <1>3, RunningFields DEF Commit
  <2>2. billed' \in [Tenants -> [1..Months -> Nat]]
    <3>1. ASSUME NEW t \in Tenants
          PROVE  [billed[t] EXCEPT ![run[r].label] = @ + Own(r, t)] \in [1..Months -> Nat]
      <4>1. billed[t] \in [1..Months -> Nat]
        BY DEF TypeOK
      <4>2. billed[t][run[r].label] \in Nat
        BY <2>1, <4>1
      <4>3. Own(r, t) \in Nat
        BY DEF Own
      <4>4. billed[t][run[r].label] + Own(r, t) \in Nat
        BY <4>2, <4>3
      <4>5. QED
        BY <4>1, <4>4
    <3>2. QED
      BY <1>3, <3>1 DEF Commit
  <2>3. run' \in [Requests -> RunState]
    BY <1>3 DEF Commit, TypeOK, RunState
  <2>4. QED
    BY <1>3, <2>2, <2>3 DEF Commit, TypeOK
<1>4. ASSUME NEW r \in Requests, Fail(r) PROVE TypeOK'
  BY <1>4 DEF Fail, TypeOK, RunState
<1>5. ASSUME NEW r \in Requests, NEW g \in Agreements, Bill(r, g) PROVE TypeOK'
  <2>1. run'[r] \in RunState
    BY <1>5, BillRun
  <2>2. QED
    BY <1>5, <2>1 DEF Bill, TypeOK
<1>6. CASE NextMonth
  BY <1>6, RentConstants DEF NextMonth, TypeOK
<1>7. CASE UNCHANGED vars
  BY <1>7 DEF vars, TypeOK
<1>8. QED
  BY <1>1, <1>2, <1>3, <1>4, <1>5, <1>6, <1>7 DEF Next

\* Runs, records and agreements are what they are said to be.
THEOREM TypeCorrect == Spec => []TypeOK
BY InitType, NextType, PTL DEF Spec

-----------------------------------------------------------------------------
(***************************************************************************)
(* Nobody is billed twice but by runs that overlap: the records there are  *)
(* and those that are still to be committed are no more than the runs.     *)
(***************************************************************************)
Billing(t, m) == {r \in Requests : Running(r) /\ run[r].label = m /\ t \in run[r].bills}

BillsBounded ==
    \A t \in Tenants, m \in 1..Months :
        billed[t][m] + Cardinality(Billing(t, m)) <= Cardinality(Requests)

LEMMA BillingFinite ==
    ASSUME NEW t \in Tenants, NEW m \in 1..Months
    PROVE  /\ IsFiniteSet(Billing(t, m))
           /\ Cardinality(Billing(t, m)) \in Nat
           /\ Cardinality(Requests) \in Nat
           /\ Cardinality(Billing(t, m)) <= Cardinality(Requests)
<1>1. Billing(t, m) \in SUBSET Requests
  BY DEF Billing
<1>2. QED
  BY <1>1, RentConstants, FS_Subset, FS_CardinalityType

LEMMA BillingFinitePrime ==
    ASSUME NEW t \in Tenants, NEW m \in 1..Months
    PROVE  /\ IsFiniteSet(Billing(t, m)')
           /\ Cardinality(Billing(t, m)') \in Nat
           /\ Cardinality(Billing(t, m)') <= Cardinality(Requests)
<1>1. Billing(t, m)' \in SUBSET Requests
  BY DEF Billing
<1>2. QED
  BY <1>1, RentConstants, FS_Subset, FS_CardinalityType

\* Whatever lets billed alone and takes no tenant on keeps the bound.
LEMMA BoundKept ==
    ASSUME TypeOK, BillsBounded, billed' = billed,
           NEW t \in Tenants, NEW m \in 1..Months, Billing(t, m)' \subseteq Billing(t, m)
    PROVE  billed'[t][m] + Cardinality(Billing(t, m)') <= Cardinality(Requests)
<1>1. Cardinality(Billing(t, m)') <= Cardinality(Billing(t, m))
  BY BillingFinite, FS_Subset
<1>2. billed[t][m] \in Nat
  BY DEF TypeOK
<1>3. QED
  BY <1>1, <1>2, BillingFinite, BillingFinitePrime DEF BillsBounded

LEMMA InitBills == Init => BillsBounded
<1> SUFFICES ASSUME Init, NEW t \in Tenants, NEW m \in 1..Months
             PROVE  billed[t][m] + Cardinality(Billing(t, m)) <= Cardinality(Requests)
  BY DEF BillsBounded
<1>1. billed[t][m] = 0
  BY DEF Init
<1>2. QED
  BY <1>1, BillingFinite

LEMMA NextBills == TypeOK /\ BillsBounded /\ [Next]_vars => BillsBounded'
<1> SUFFICES ASSUME TypeOK, BillsBounded, [Next]_vars,
                    NEW t \in Tenants, NEW m \in 1..Months
             PROVE  billed'[t][m] + Cardinality(Billing(t, m)') <= Cardinality(Requests)
  BY DEF BillsBounded
<1>1. ASSUME NEW r \in Requests, Start(r) PROVE Billing(t, m)' \subseteq Billing(t, m)
  BY <1>1 DEF Start, Going, Billing, TypeOK
<1>2. ASSUME NEW r \in Requests, Fail(r) PROVE Billing(t, m)' \subseteq Billing(t, m)
  BY <1>2 DEF Fail, Billing, TypeOK
<1>3. ASSUME NEW r \in Requests, Commit(r)
      PROVE  billed'[t][m] + Cardinality(Billing(t, m)') <= Cardinality(Requests)
  <2>1. Billing(t, m)' = Billing(t, m) \ {r}
    BY <1>3 DEF Commit, Billing, TypeOK
  <2>2. Cardinality(Billing(t, m)') =
            IF r \in Billing(t, m) THEN Cardinality(Billing(t, m)) - 1
            ELSE Cardinality(Billing(t, m))
    BY <2>1, BillingFinite, FS_RemoveElement
  <2>3. billed'[t][m] = IF r \in Billing(t, m) THEN billed[t][m] + 1 ELSE billed[t][m]
    <3>1. Running(r)
      BY <1>3 DEF Commit
    <3>2. r \in Billing(t, m) <=> run[r].label = m /\ t \in run[r].bills
      BY <3>1 DEF Billing
    <3>3. billed'[t][m] = IF run[r].label = m /\ t \in run[r].bills
                          THEN billed[t][m] + 1 ELSE billed[t][m]
      BY <1>3, CommitBills
    <3>4. QED
      BY <3>2, <3>3
  <2>4. billed[t][m] \in Nat
    BY DEF TypeOK
  <2>5. QED
    BY <2>2, <2>3, <2>4, BillingFinite DEF BillsBounded
<1>4. ASSUME NEW r \in Requests, NEW g \in Agreements, Bill(r, g)
      PROVE  billed'[t][m] + Cardinality(Billing(t, m)') <= Cardinality(Requests)
  <2>1. CASE Found(r, TenantOf(g)) = 0 /\ TenantOf(g) = t /\ run[r].label = m
    <3>1. billed[t][m] = 0
    <4>1. billed[t][m] \in Nat
      BY DEF TypeOK
    <4>2. QED
      BY <2>1, <4>1 DEF Found, Existing, Own
    <3>2. billed'[t][m] = 0
      BY <1>4, <3>1 DEF Bill
    <3>3. QED
      BY <3>2, BillingFinitePrime, BillingFinite
  <2>2. CASE ~ (Found(r, TenantOf(g)) = 0 /\ TenantOf(g) = t /\ run[r].label = m)
    <3>1. ASSUME NEW q \in Billing(t, m)' PROVE q \in Billing(t, m)
      <4>1. q \in Requests /\ run'[q].at = "RUNNING" /\ run'[q].label = m
            /\ t \in run'[q].bills
        BY <3>1 DEF Billing
      <4>2. CASE q = r
        <5>1. run[r].label = m /\ t \in run[r].bills
          BY <1>4, <2>2, <4>1, <4>2, BillRun
        <5>2. QED
          BY <1>4, <4>1, <4>2, <5>1 DEF Billing, Bill
      <4>3. CASE q # r
        <5>1. run'[q] = run[q]
          BY <1>4, <4>1, <4>3, BillRun
        <5>2. QED
          BY <4>1, <5>1 DEF Billing
      <4>4. QED
        BY <4>2, <4>3
    <3>2. QED
      <4>1. Billing(t, m)' \subseteq Billing(t, m)
        BY <3>1
      <4>2. QED
        BY <1>4, <4>1, BoundKept DEF Bill
  <2>3. QED
    BY <2>1, <2>2
<1>5. ASSUME UNCHANGED run PROVE Billing(t, m)' = Billing(t, m)
  BY <1>5 DEF Billing
<1>6. QED
  BY <1>1, <1>2, <1>3, <1>4, <1>5, BoundKept
     DEF Next, vars, Activate, NextMonth, Start, Fail

\* A tenant has at most as many records for a month as runs can be open at once.
THEOREM BilledCorrect == Spec => []BilledByOverlapOnly
<1>1. TypeOK /\ BillsBounded => BilledByOverlapOnly
  <2> SUFFICES ASSUME TypeOK, BillsBounded, NEW t \in Tenants, NEW m \in 1..Months
               PROVE  billed[t][m] <= Cardinality(Requests)
    BY DEF BilledByOverlapOnly
  <2>1. billed[t][m] \in Nat
    BY DEF TypeOK
  <2>2. QED
    BY <2>1, BillingFinite DEF BillsBounded
<1>2. QED
  BY <1>1, TypeCorrect, InitBills, NextBills, PTL DEF Spec

-----------------------------------------------------------------------------
(***************************************************************************)
(* Nobody is forgotten: whom a run has dealt with has a record it can see. *)
(***************************************************************************)
DealtWith ==
    \A r \in Requests : Running(r) =>
        \A g \in run[r].listed \ run[r].todo : Existing(r, TenantOf(g)) > 0

\* Records are never taken away.
LEMMA ExistingKept ==
    ASSUME TypeOK, TypeOK', NEW r \in Requests, Running(r), run'[r] = run[r],
           NEW t \in Tenants, Existing(r, t) > 0,
           billed'[t][run[r].label] >= billed[t][run[r].label]
    PROVE  Existing(r, t)' > 0
<1>1. /\ billed[t][run[r].label] \in Nat
      /\ billed'[t][run[r].label] \in Nat
  BY RunningFields DEF TypeOK
<1>2. QED
  BY <1>1 DEF Existing, Own

LEMMA BilledGrows ==
    ASSUME TypeOK, [Next]_vars, NEW t \in Tenants, NEW m \in 1..Months
    PROVE  billed'[t][m] >= billed[t][m]
<1>1. billed[t][m] \in Nat
  BY DEF TypeOK
<1>2. ASSUME NEW r \in Requests, Commit(r) PROVE billed'[t][m] >= billed[t][m]
  BY <1>1, <1>2, CommitBills
<1>3. billed' = billed \/ \E r \in Requests : Commit(r)
  BY DEF Next, vars, Activate, Start, Fail, Bill, NextMonth
<1>4. QED
  BY <1>1, <1>2, <1>3

LEMMA NextDealt == TypeOK /\ TypeOK' /\ DealtWith /\ [Next]_vars => DealtWith'
<1> SUFFICES ASSUME TypeOK, TypeOK', DealtWith, [Next]_vars,
                    NEW r \in Requests, Running(r)',
                    NEW g \in run'[r].listed \ run'[r].todo
             PROVE  Existing(r, TenantOf(g))' > 0
  BY DEF DealtWith
<1>0. g \in Agreements /\ TenantOf(g) \in Tenants
  <2>1. run'[r].listed \subseteq Agreements
    BY DEF TypeOK, RunState
  <2>2. QED
    BY <2>1, TenantTyped
<1>1. CASE run'[r] = run[r]
  <2>1. Existing(r, TenantOf(g)) > 0
    BY <1>1 DEF DealtWith
  <2>2. QED
    BY <1>0, <1>1, <2>1, ExistingKept, BilledGrows, RunningFields
<1>2. ASSUME Start(r) PROVE FALSE
  BY <1>2 DEF Start, Going, TypeOK
<1>3. ASSUME NEW h \in Agreements, Bill(r, h) PROVE Existing(r, TenantOf(g))' > 0
  <2> DEFINE t == TenantOf(g)
             u == TenantOf(h)
             bills == run[r].bills \cup {v \in {u} : Found(r, v) = 0}
  <2>1. /\ run'[r].label = run[r].label
        /\ run'[r].listed = run[r].listed
        /\ run'[r].todo = run[r].todo \ {h}
        /\ run'[r].bills = bills
    BY <1>3, BillRun
  <2>2. Running(r) /\ billed' = billed
    BY <1>3 DEF Bill
  <2>3. billed[t][run[r].label] \in Nat /\ billed[u][run[r].label] \in Nat
    BY <1>0, <2>2, RunningFields, TenantTyped DEF TypeOK
  <2>4. CASE g = h
    <3>1. Found(r, t) = 0 => t \in run'[r].bills
      BY <2>1, <2>4
    <3>2. Found(r, t) # 0 => Existing(r, t)' = Existing(r, t)
      BY <2>1, <2>2, <2>4 DEF Existing, Own
    <3>3. QED
      BY <2>1, <2>2, <2>3, <3>1, <3>2 DEF Existing, Found, Own
  <2>5. CASE g # h
    <3>1. Existing(r, t) > 0
      BY <2>1, <2>2, <2>5 DEF DealtWith
    <3>2. t \in run[r].bills => t \in run'[r].bills
      BY <2>1
    <3>3. QED
      BY <2>1, <2>2, <2>3, <3>1, <3>2 DEF Existing, Own
  <2>6. QED
    BY <2>4, <2>5
<1>4. ASSUME NEW q \in Requests, Start(q) \/ Commit(q) \/ Fail(q), q # r
      PROVE  run'[r] = run[r]
  BY <1>4 DEF Start, Commit, Fail, TypeOK
<1>8. ASSUME NEW q \in Requests, NEW h \in Agreements, Bill(q, h), q # r
      PROVE  run'[r] = run[r]
  BY <1>8, BillRun
<1>5. ASSUME Commit(r) \/ Fail(r) PROVE FALSE
  <2>1. run'[r] = Idle
    BY <1>5 DEF Commit, Fail, TypeOK
  <2>2. QED
    BY <2>1
<1>6. ASSUME UNCHANGED run PROVE run'[r] = run[r]
  BY <1>6
<1>7. QED
  BY <1>1, <1>2, <1>3, <1>4, <1>5, <1>6, <1>8 DEF Next, vars, Activate, NextMonth

\* A run that is through with its list leaves nobody on it without a record; runs
\* that raise on the way are not through.
THEOREM NobodyForgotten == Spec => []NobodyIsForgotten
<1>1. Init => DealtWith
  BY DEF Init, DealtWith
<1>2. DealtWith => NobodyIsForgotten
  BY DEF DealtWith, NobodyIsForgotten
<1>3. QED
  BY <1>1, <1>2, TypeCorrect, NextDealt, PTL DEF Spec
=============================================================================
