------------------------------ MODULE Onboarding ------------------------------
(***************************************************************************)
(* The whole way from the first visit request to the tenancy: the visits   *)
(* of VisitNegotiation and the leases of LeaseActivation over the same     *)
(* tracker and agreement rows.  LeaseActivation replaces the visits by     *)
(* VisitStep; LeaseImplemented says that the visits do to the shared rows  *)
(* nothing VisitStep does not.                                             *)
(***************************************************************************)
EXTENDS VisitNegotiation, Naturals, FiniteSets

CONSTANTS Documents, MaxStays   \* as in LeaseActivation

ASSUME OnboardingConstants ==
    /\ Documents \subseteq {"police", "original"}
    /\ MaxStays \in Nat
    /\ NULL \notin PaymentRows(Users)
    /\ IsFiniteSet(Visits) /\ IsFiniteSet(Agreements)

VARIABLES payment, occupant, openStays   \* as in LeaseActivation

Lease == INSTANCE LeaseActivation

onboardingVars == <<vars, payment, occupant, openStays>>

OnboardingInit == Init /\ Lease!Init

\* A request of the visit service, or of the property and user services.
VisitRequestStep ==
    /\ Next
    /\ UNCHANGED <<payment, occupant, openStays>>

\* The notifications of the lease requests are left out.
LeaseRequestStep ==
    /\ Lease!LeaseStep
    /\ notified' = {}
    /\ UNCHANGED <<visit, proposal, managers, activeRole>>

OnboardingNext == VisitRequestStep \/ LeaseRequestStep

OnboardingSpec == OnboardingInit /\ [][OnboardingNext]_onboardingVars

-----------------------------------------------------------------------------
\* The composition implements LeaseActivation: every negotiation step is, on
\* the rows it shares with the leases, a VisitStep or nothing at all.
LeaseImplemented == Lease!Spec

\* An agreement exists only for a tenant whose visit was approved, one for each
\* approval at most, whatever happened to the first one since
\* (auto_generate_agreement, "after admin approves a visit").
AgreementsFollowApprovals ==
    \A t \in Users :
        Cardinality({g \in Agreements : agreement[g] # NULL /\ agreement[g].tenant_id = t})
            <= Cardinality({v \in Visits : Made(v) /\ visit[v].tenant_id = t
                                           /\ visit[v].visit_result = "APPROVED"})

\* "An active or pending agreement already exists for this property and tenant"
\* (auto_generate_agreement refuses a second one): no tenant has two.
NoSecondAgreement ==
    \A g1, g2 \in Agreements :
        /\ agreement[g1] # NULL /\ agreement[g2] # NULL
        /\ agreement[g1].tenant_id = agreement[g2].tenant_id
        => g1 = g2
=============================================================================
