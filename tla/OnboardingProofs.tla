--------------------------- MODULE OnboardingProofs ---------------------------
(***************************************************************************)
(* What holds of the negotiation and the leases together.  First that the  *)
(* visits implement Appointment, then that the visits change the shared    *)
(* rows as VisitStep of LeaseActivation does, then an invariant of the     *)
(* composition that carries the invariants of both parts over, and the     *)
(* theorems that follow from it.                                           *)
(***************************************************************************)
EXTENDS VisitNegotiationProofs, Onboarding, FiniteSetTheorems

\* The theorems about the leases, over the tables of the composition.
LP == INSTANCE LeaseActivationProofs

Phases   == [v \in Visits |-> PhaseOf(v)]
Offers   == [v \in Visits |-> OfferOf(v)]
Meetings == [v \in Visits |-> MeetingOf(v)]

Kept(w) == PhaseOf(w)' = PhaseOf(w) /\ OfferOf(w)' = OfferOf(w) /\ MeetingOf(w)' = MeetingOf(w)

\* The appointment of v becomes ph, of and me; the others stay.
Moved(v, ph, of, me) ==
    /\ \A w \in Visits \ {v} : Kept(w)
    /\ PhaseOf(v)' = ph
    /\ OfferOf(v)' = of
    /\ MeetingOf(v)' = me

-----------------------------------------------------------------------------
(***************************************************************************)
(* The steps of an appointment, by what becomes of one visit.              *)
(***************************************************************************)
LEMMA MovedFunctions ==
    ASSUME NEW v \in Visits, NEW ph, NEW of, NEW me, Moved(v, ph, of, me)
    PROVE  /\ Phases' = [Phases EXCEPT ![v] = ph]
           /\ Offers' = [Offers EXCEPT ![v] = of]
           /\ Meetings' = [Meetings EXCEPT ![v] = me]
<1>1. Phases' = [Phases EXCEPT ![v] = ph]
  BY DEF Moved, Kept, Phases
<1>2. Offers' = [Offers EXCEPT ![v] = of]
  BY DEF Moved, Kept, Offers
<1>3. Meetings' = [Meetings EXCEPT ![v] = me]
  BY DEF Moved, Kept, Meetings
<1> QED BY <1>1, <1>2, <1>3

LEMMA OfferStep ==
    ASSUME NEW v \in Visits, NEW side \in {"TENANT", "STAFF"}, NEW s \in Slots,
           \/ PhaseOf(v) = NULL /\ side = "TENANT"
           \/ PhaseOf(v) = "NEGOTIATING" /\ OfferOf(v).by # side
           \/ PhaseOf(v) = "CONFIRMED",
           Moved(v, "NEGOTIATING", [slot |-> s, by |-> side], NULL)
    PROVE  Promise!Next
<1>1. Phases[v] = PhaseOf(v) /\ Offers[v] = OfferOf(v)
  BY DEF Phases, Offers
<1>2. /\ Phases' = [Phases EXCEPT ![v] = "NEGOTIATING"]
      /\ Offers' = [Offers EXCEPT ![v] = [slot |-> s, by |-> side]]
      /\ Meetings' = [Meetings EXCEPT ![v] = NULL]
  BY MovedFunctions
<1>3. Promise!Offer(v, side, s)
  BY <1>1, <1>2 DEF Promise!Offer, Phases, Offers, Meetings
<1> QED BY <1>3 DEF Promise!Next, Promise!Side

LEMMA AgreeStep ==
    ASSUME NEW v \in Visits, NEW side \in {"TENANT", "STAFF"},
           OfferOf(v) # NULL,
           \/ PhaseOf(v) = "NEGOTIATING" /\ OfferOf(v).by # side
           \/ PhaseOf(v) = "CANCELLED",
           Moved(v, "CONFIRMED", NULL,
                 [slot |-> OfferOf(v).slot, offered |-> OfferOf(v).by, agreed |-> side])
    PROVE  Promise!Next
<1>1. Phases[v] = PhaseOf(v) /\ Offers[v] = OfferOf(v)
  BY DEF Phases, Offers
<1>2. /\ Phases' = [Phases EXCEPT ![v] = "CONFIRMED"]
      /\ Offers' = [Offers EXCEPT ![v] = NULL]
      /\ Meetings' = [Meetings EXCEPT ![v] = [slot |-> Offers[v].slot, offered |-> Offers[v].by, agreed |-> side]]
  BY <1>1, MovedFunctions
<1>3. Promise!Agree(v, side)
  BY <1>1, <1>2 DEF Promise!Agree, Phases, Offers, Meetings
<1> QED BY <1>3 DEF Promise!Next, Promise!Side

LEMMA RejectStep ==
    ASSUME NEW v \in Visits, PhaseOf(v) # NULL, Moved(v, "REJECTED", NULL, NULL)
    PROVE  Promise!Next
<1>1. Phases[v] = PhaseOf(v)
  BY DEF Phases
<1>2. /\ Phases' = [Phases EXCEPT ![v] = "REJECTED"]
      /\ Offers' = [Offers EXCEPT ![v] = NULL]
      /\ Meetings' = [Meetings EXCEPT ![v] = NULL]
  BY MovedFunctions
<1>3. Promise!Reject(v)
  BY <1>1, <1>2 DEF Promise!Reject, Phases, Offers, Meetings
<1> QED BY <1>3 DEF Promise!Next

LEMMA CancelStep ==
    ASSUME NEW v \in Visits, PhaseOf(v) \in {"NEGOTIATING", "CONFIRMED"},
           Moved(v, "CANCELLED", OfferOf(v), NULL)
    PROVE  Promise!Next
<1>1. Phases[v] = PhaseOf(v) /\ Offers' = Offers
  BY DEF Phases, Offers, Moved, Kept
<1>2. /\ Phases' = [Phases EXCEPT ![v] = "CANCELLED"]
      /\ Meetings' = [Meetings EXCEPT ![v] = NULL]
  BY MovedFunctions
<1>3. Promise!Cancel(v)
  BY <1>1, <1>2 DEF Promise!Cancel, Phases, Offers, Meetings
<1> QED BY <1>3 DEF Promise!Next

LEMMA TakePlaceStep ==
    ASSUME NEW v \in Visits, PhaseOf(v) = "CONFIRMED",
           Moved(v, "COMPLETED", OfferOf(v), MeetingOf(v))
    PROVE  Promise!Next
<1>1. Phases[v] = PhaseOf(v) /\ Offers' = Offers /\ Meetings' = Meetings
  BY DEF Phases, Offers, Meetings, Moved, Kept
<1>2. Promise!TakePlace(v)
  BY <1>1, MovedFunctions DEF Promise!TakePlace, Phases, Offers, Meetings
<1> QED BY <1>2 DEF Promise!Next

-----------------------------------------------------------------------------
(***************************************************************************)
(* What the requests do to the appointment of their visit.                 *)
(***************************************************************************)

\* Visits whose rows and proposals stay are seen as before.
LEMMA OthersKept ==
    ASSUME IInv, NEW v \in Visits,
           \A w \in Visits \ {v} : visit'[w] = visit[w],
           \A q \in Proposals : proposal[q] # NULL /\ proposal[q].visit_request_id # v
                => proposal'[q] = proposal[q]
    PROVE  \A w \in Visits \ {v} : Kept(w)
<1> SUFFICES ASSUME NEW w \in Visits \ {v} PROVE Kept(w)
  OBVIOUS
<1>1. visit'[w] = visit[w]
  OBVIOUS
<1>2. CASE visit[w] = NULL
  BY <1>1, <1>2 DEF Kept, PhaseOf, OfferOf, MeetingOf, Made
<1>3. CASE visit[w] # NULL
  <2>1. /\ Current(w) \in Proposals /\ proposal[Current(w)] # NULL
        /\ proposal[Current(w)].visit_request_id = w
    BY <1>3, OfOneVisit
  <2>2. Current(w)' = Current(w) /\ proposal'[Current(w)] = proposal[Current(w)]
    BY <1>1, <2>1 DEF Current
  <2> QED BY <1>1, <1>3, <2>2 DEF Kept, PhaseOf, OfferOf, MeetingOf, Made
<1> QED BY <1>2, <1>3

\* What the two sides see of a visit, from its row and its current proposal.
LEMMA SeenAfter ==
    ASSUME NEW v \in Visits, visit'[v] # NULL, NEW p, visit'[v].current_proposal_id = p
    PROVE  /\ PhaseOf(v)' = visit'[v].status
           /\ proposal'[p].response = "PENDING" =>
                OfferOf(v)' = [slot |-> proposal'[p].slot,
                               by |-> SideOf(proposal'[p].proposed_by_role)]
           /\ proposal'[p].response # "PENDING" => OfferOf(v)' = NULL
           /\ visit'[v].status \in {"CONFIRMED", "COMPLETED"} =>
                MeetingOf(v)' =
                    [slot |-> visit'[v].scheduled,
                     offered |-> SideOf(proposal'[p].proposed_by_role),
                     agreed |-> IF proposal'[p].responded_by = visit'[v].tenant_id
                                THEN "TENANT" ELSE "STAFF"]
           /\ visit'[v].status \notin {"CONFIRMED", "COMPLETED"} => MeetingOf(v)' = NULL
BY DEF PhaseOf, OfferOf, MeetingOf, Made, Current

LEMMA SeenBefore ==
    ASSUME NEW v \in Visits, visit[v] # NULL
    PROVE  /\ PhaseOf(v) = visit[v].status
           /\ proposal[Current(v)].response = "PENDING" =>
                OfferOf(v) = [slot |-> proposal[Current(v)].slot,
                              by |-> SideOf(proposal[Current(v)].proposed_by_role)]
           /\ proposal[Current(v)].response # "PENDING" => OfferOf(v) = NULL
           /\ visit[v].status \in {"CONFIRMED", "COMPLETED"} =>
                MeetingOf(v) =
                    [slot |-> visit[v].scheduled,
                     offered |-> SideOf(proposal[Current(v)].proposed_by_role),
                     agreed |-> IF proposal[Current(v)].responded_by = visit[v].tenant_id
                                THEN "TENANT" ELSE "STAFF"]
BY DEF PhaseOf, OfferOf, MeetingOf, Made

\* The side of who has the turn is not the side of the offer.
LEMMA TurnSide ==
    ASSUME IInv, NEW v \in Visits, visit[v] # NULL, visit[v].status = "NEGOTIATING",
           NEW role, HasTurn(visit[v], role)
    PROVE  SideOf(role) # SideOf(proposal[Current(v)].proposed_by_role)
<1>1. Consistent(visit[v], proposal[Current(v)])
  BY OfOneVisit
<1>2. SideOf(proposal[Current(v)].proposed_by_role) # SideOf(visit[v].pending_with)
  BY <1>1 DEF Consistent
<1>3. visit[v].pending_with # NULL
  BY <1>1 DEF Consistent
<1>4. SideOf(role) = SideOf(visit[v].pending_with)
  BY <1>3 DEF HasTurn, ActorMatchesPending, SideOf, StaffRole
<1> QED BY <1>2, <1>4

LEMMA SideTyped ==
    ASSUME NEW role \in ProposalRole
    PROVE  SideOf(role) \in {"TENANT", "STAFF"}
BY DEF SideOf, StaffRole, ProposalRole

LEMMA CreateOffers ==
    ASSUME IInv, NEW t \in Users, NEW v \in Visits, NEW p \in Proposals,
           NEW s \in Slots, Create(t, v, p, s)
    PROVE  Promise!Next
<1> DEFINE row  == NewVisit(t, p, Counterparty)
           prow == NewProposal(v, t, "TENANT", s)
<1>1. TypeOK
  BY DEF IInv
<1>2. /\ visit'[v] = row
      /\ proposal'[p] = prow
      /\ \A w \in Visits \ {v} : visit'[w] = visit[w]
      /\ \A q \in Proposals \ {p} : proposal'[q] = proposal[q]
      /\ visit[v] = NULL
      /\ proposal[p] = NULL
  BY <1>1 DEF Create, TypeOK
<1>3. row # NULL /\ row.status = "NEGOTIATING" /\ row.current_proposal_id = p
  BY NewVisitRow, CounterpartyTyped, StaffAreParties, NullIsNoValue
<1>4. prow.slot = s /\ prow.proposed_by_role = "TENANT" /\ prow.response = "PENDING"
  BY DEF NewProposal
<1> HIDE DEF row, prow
<1>5. /\ PhaseOf(v)' = "NEGOTIATING"
      /\ OfferOf(v)' = [slot |-> s, by |-> "TENANT"]
      /\ MeetingOf(v)' = NULL
  BY <1>2, <1>3, <1>4, SeenAfter DEF SideOf, StaffRole
<1>6. \A w \in Visits \ {v} : Kept(w)
  BY <1>2, OthersKept
<1>7. PhaseOf(v) = NULL
  BY <1>2 DEF PhaseOf, Made
<1> QED BY <1>5, <1>6, <1>7, OfferStep DEF Moved

LEMMA StatusNotNull ==
    ASSUME NEW row \in VisitRow
    PROVE  row.status # NULL
BY NullIsNoValue DEF VisitRow

\* An offer on a visit there is: Propose or Reschedule.
LEMMA CounterOffers ==
    ASSUME IInv, NEW u \in Users, NEW v \in Visits, NEW p \in Proposals, NEW s \in Slots,
           Propose(u, v, p, s) \/ Reschedule(u, v, p, s)
    PROVE  Promise!Next
<1> DEFINE role == RoleIn(v, u)
           c    == Current(v)
           prow == NewProposal(v, u, role, s)
<1>1. TypeOK /\ visit[v] # NULL /\ proposal[p] = NULL
  BY DEF IInv, Propose, Reschedule
<1>2. /\ visit[v] \in VisitRow /\ c \in Proposals
      /\ proposal[c] # NULL /\ proposal[c].visit_request_id = v
      /\ Consistent(visit[v], proposal[c])
  BY <1>1, OfOneVisit
<1>3. role \in ProposalRole
  BY <1>1, RoleInTyped DEF Propose, CanPropose, HasTurn, Reschedule, CanReschedule
<1>4. /\ visit'[v] # NULL /\ visit'[v].status = "NEGOTIATING"
      /\ visit'[v].current_proposal_id = p
  <2>1. CASE Propose(u, v, p, s)
    <3>1. visit'[v] = Proposed(visit[v], u, role, p, Counterparty)
      BY <1>1, <2>1 DEF Propose, TypeOK
    <3> QED BY <1>2, <1>3, <3>1, ProposedRow, CounterpartyTyped, NullIsNoValue
  <2>2. CASE Reschedule(u, v, p, s)
    <3>1. visit'[v] = Rescheduled(visit[v], role, p, Counterparty)
      BY <1>1, <2>2 DEF Reschedule, TypeOK
    <3> QED BY <1>2, <1>3, <3>1, RescheduledRow, CounterpartyTyped, NullIsNoValue
  <2> QED BY <2>1, <2>2
<1>5. /\ proposal'[p] = prow
      /\ \A q \in Proposals \ {p, c} : proposal'[q] = proposal[q]
  <2>1. CASE Propose(u, v, p, s)
    <3>1. proposal' = [Answer(c, "SUPERSEDED", u) EXCEPT ![p] = prow]
      BY <2>1 DEF Propose
    <3>2. /\ Answer(c, "SUPERSEDED", u) \in [Proposals -> ProposalRow \cup {NULL}]
          /\ \A q \in Proposals \ {c} : Answer(c, "SUPERSEDED", u)[q] = proposal[q]
      BY <1>1, <1>2, AnswerEffect DEF Response
    <3> HIDE DEF prow, c
    <3> QED BY <3>1, <3>2
  <2>2. CASE Reschedule(u, v, p, s)
    BY <1>1, <2>2 DEF Reschedule, TypeOK
  <2> QED BY <2>1, <2>2
<1>6. prow.slot = s /\ prow.proposed_by_role = role /\ prow.response = "PENDING"
  BY DEF NewProposal
<1>7. \/ PhaseOf(v) = "NEGOTIATING" /\ OfferOf(v).by # SideOf(role)
     \/ PhaseOf(v) = "CONFIRMED"
  <2>1. CASE visit[v].status = "NEGOTIATING"
    <3>1. HasTurn(visit[v], role)
      BY <2>1 DEF Propose, CanPropose, Reschedule, CanReschedule
    <3>2. SideOf(role) # SideOf(proposal[c].proposed_by_role)
      BY <1>1, <2>1, <3>1, TurnSide
    <3>3. proposal[c].response = "PENDING"
      BY <1>2, <2>1 DEF Consistent
    <3>4. OfferOf(v).by = SideOf(proposal[c].proposed_by_role)
      BY <1>1, <3>3, SeenBefore
    <3> QED BY <1>1, <2>1, <3>2, <3>4, SeenBefore
  <2>2. CASE visit[v].status # "NEGOTIATING"
    <3>1. visit[v].status = "CONFIRMED"
      BY <1>2, <2>2 DEF Propose, CanPropose, Reschedule, CanReschedule, Consistent,
                        ClosedStatus, VisitRow, VisitStatus
    <3> QED BY <1>1, <3>1, SeenBefore
  <2> QED BY <2>1, <2>2
<1>8. \A w \in Visits \ {v} : visit'[w] = visit[w]
  BY <1>1, OtherVisitsKept
<1> HIDE DEF role, c, prow
<1>9. /\ PhaseOf(v)' = "NEGOTIATING"
      /\ OfferOf(v)' = [slot |-> s, by |-> SideOf(role)]
      /\ MeetingOf(v)' = NULL
  BY <1>4, <1>5, <1>6, SeenAfter
<1>10. \A w \in Visits \ {v} : Kept(w)
  BY <1>1, <1>2, <1>5, <1>8, OthersKept
<1> QED BY <1>3, <1>7, <1>9, <1>10, SideTyped, OfferStep DEF Moved

LEMMA AcceptAgrees ==
    ASSUME IInv, NEW u \in Users, NEW v \in Visits, Accept(u, v)
    PROVE  Promise!Next
<1> DEFINE role == RoleIn(v, u)
           c    == Current(v)
<1>1. TypeOK /\ visit[v] # NULL
  BY DEF IInv, Accept
<1>2. /\ visit[v] \in VisitRow /\ visit[v].current_proposal_id = c /\ c \in Proposals
      /\ proposal[c] # NULL /\ proposal[c] \in ProposalRow
      /\ proposal[c].visit_request_id = v
      /\ Consistent(visit[v], proposal[c])
  BY <1>1, OfOneVisit
<1>3. HasTurn(visit[v], role) /\ proposal[c].response = "PENDING"
  BY DEF Accept, CanAccept
<1>4. role \in ProposalRole /\ (u = visit[v].tenant_id <=> role = "TENANT")
  BY <1>1, <1>3, RoleInTyped DEF HasTurn
<1>5. /\ visit'[v] # NULL /\ visit'[v].status = "CONFIRMED"
      /\ visit'[v].tenant_id = visit[v].tenant_id
      /\ visit'[v].current_proposal_id = c
      /\ visit'[v].scheduled = proposal[c].slot
  <2>1. visit'[v] = Accepted(visit[v], u, role, proposal[c].slot)
    BY <1>1 DEF Accept, TypeOK
  <2>2. proposal[c].slot \in Slots
    BY <1>2 DEF ProposalRow
  <2> QED BY <1>2, <1>4, <2>1, <2>2, AcceptedRow, NullIsNoValue
<1>6. /\ proposal'[c].response = "ACCEPTED"
      /\ proposal'[c].responded_by = u
      /\ proposal'[c].proposed_by_role = proposal[c].proposed_by_role
      /\ \A q \in Proposals \ {c} : proposal'[q] = proposal[q]
  BY <1>1, <1>2, <1>3, AnswerEffect DEF Accept, Response
<1>7. \A w \in Visits \ {v} : visit'[w] = visit[w]
  BY <1>1, OtherVisitsKept
<1>8. visit[v].status \in {"NEGOTIATING", "CANCELLED"}
  BY <1>2, <1>3 DEF Consistent, VisitRow, VisitStatus
<1>9. visit[v].status = "NEGOTIATING" => SideOf(proposal[c].proposed_by_role) # SideOf(role)
  BY <1>1, <1>3, TurnSide
<1>10. SideOf(role) = IF u = visit[v].tenant_id THEN "TENANT" ELSE "STAFF"
  BY <1>4 DEF SideOf, StaffRole, ProposalRole
<1>11. /\ PhaseOf(v) = visit[v].status
       /\ OfferOf(v) = [slot |-> proposal[c].slot, by |-> SideOf(proposal[c].proposed_by_role)]
  BY <1>1, <1>3, SeenBefore
<1> HIDE DEF role, c
<1>12. /\ PhaseOf(v)' = "CONFIRMED" /\ OfferOf(v)' = NULL
       /\ MeetingOf(v)' = [slot |-> proposal[c].slot,
                           offered |-> SideOf(proposal[c].proposed_by_role),
                           agreed |-> SideOf(role)]
  BY <1>5, <1>6, <1>10, SeenAfter
<1>13. \A w \in Visits \ {v} : Kept(w)
  BY <1>2, <1>6, <1>7, OthersKept
<1>14. Moved(v, "CONFIRMED", NULL,
             [slot |-> OfferOf(v).slot, offered |-> OfferOf(v).by, agreed |-> SideOf(role)])
  BY <1>11, <1>12, <1>13 DEF Moved
<1>15. OfferOf(v) # NULL
  <2>1. proposal[c].slot \in Slots /\ proposal[c].proposed_by_role \in ProposalRole
    BY <1>2 DEF ProposalRow
  <2>2. OfferOf(v) \in [slot: Slots, by: {"TENANT", "STAFF"}]
    BY <1>11, <2>1, SideTyped
  <2> QED BY <2>2, NullIsNoValue
<1>16. \/ PhaseOf(v) = "NEGOTIATING" /\ OfferOf(v).by # SideOf(role)
       \/ PhaseOf(v) = "CANCELLED"
  BY <1>8, <1>9, <1>11
<1>17. SideOf(role) \in {"TENANT", "STAFF"}
  BY <1>4, SideTyped
<1> QED BY <1>14, <1>15, <1>16, <1>17, AgreeStep

LEMMA RejectRejects ==
    ASSUME IInv, NEW u \in Users, NEW v \in Visits, Reject(u, v)
    PROVE  Promise!Next
<1> DEFINE c == Current(v)
<1>1. TypeOK /\ visit[v] # NULL
  BY DEF IInv, Reject
<1>2. /\ visit[v] \in VisitRow /\ visit[v].current_proposal_id = c /\ c \in Proposals
      /\ proposal[c] # NULL /\ proposal[c].visit_request_id = v
  BY <1>1, OfOneVisit
<1>3. visit'[v] # NULL /\ visit'[v].status = "REJECTED" /\ visit'[v].current_proposal_id = c
  <2>1. visit'[v] = Rejected(visit[v])
    BY <1>1 DEF Reject, TypeOK
  <2> QED BY <1>2, <2>1, RejectedRow, NullIsNoValue
<1>4. /\ proposal'[c].response # "PENDING"
      /\ \A q \in Proposals \ {c} : proposal'[q] = proposal[q]
  BY <1>1, <1>2, AnswerEffect DEF Reject, Response
<1>5. \A w \in Visits \ {v} : visit'[w] = visit[w]
  BY <1>1, OtherVisitsKept
<1>6. PhaseOf(v) # NULL
  BY <1>1, <1>2, SeenBefore, StatusNotNull
<1> HIDE DEF c
<1>7. PhaseOf(v)' = "REJECTED" /\ OfferOf(v)' = NULL /\ MeetingOf(v)' = NULL
  BY <1>3, <1>4, SeenAfter
<1>8. \A w \in Visits \ {v} : Kept(w)
  BY <1>2, <1>4, <1>5, OthersKept
<1> QED BY <1>6, <1>7, <1>8, RejectStep DEF Moved

LEMMA CancelCancels ==
    ASSUME IInv, NEW u \in Users, NEW v \in Visits, Cancel(u, v)
    PROVE  Promise!Next
<1> DEFINE c == Current(v)
<1>1. TypeOK /\ visit[v] # NULL /\ proposal' = proposal
  BY DEF IInv, Cancel
<1>2. /\ visit[v] \in VisitRow /\ visit[v].current_proposal_id = c
      /\ Consistent(visit[v], proposal[c])
  BY <1>1, OfOneVisit
<1>3. visit'[v] # NULL /\ visit'[v].status = "CANCELLED" /\ visit'[v].current_proposal_id = c
  <2>1. visit'[v] = Cancelled(visit[v])
    BY <1>1 DEF Cancel, TypeOK
  <2> QED BY <1>2, <2>1, CancelledRow, NullIsNoValue
<1>4. \A w \in Visits \ {v} : visit'[w] = visit[w]
  BY <1>1, OtherVisitsKept
<1>5. PhaseOf(v) \in {"NEGOTIATING", "CONFIRMED"}
  <2>1. visit[v].status \in {"NEGOTIATING", "CONFIRMED"}
    BY <1>2 DEF Cancel, CanCancel, ClosedStatus, Consistent, VisitRow, VisitStatus
  <2> QED BY <1>1, <2>1, SeenBefore
<1> HIDE DEF c
<1>6. PhaseOf(v)' = "CANCELLED" /\ MeetingOf(v)' = NULL
  BY <1>3, SeenAfter
<1>7. OfferOf(v)' = OfferOf(v)
  BY <1>1, <1>2, <1>3 DEF OfferOf, Made, Current
<1>8. \A w \in Visits \ {v} : Kept(w)
  BY <1>1, <1>4, OthersKept
<1> QED BY <1>5, <1>6, <1>7, <1>8, CancelStep DEF Moved

LEMMA CompleteTakesPlace ==
    ASSUME IInv, NEW u \in Users, NEW v \in Visits,
           CompleteRejecting(u, v) \/ CompleteApprovingAgain(u, v)
               \/ \E g \in Agreements : CompleteApproving(u, v, g)
    PROVE  Promise!Next
<1> DEFINE c == Current(v)
<1>1. TypeOK /\ visit[v] # NULL /\ proposal' = proposal
  BY DEF IInv, CompleteRejecting, CompleteApprovingAgain, CompleteApproving
<1>2. /\ visit[v] \in VisitRow /\ visit[v].current_proposal_id = c
      /\ Consistent(visit[v], proposal[c])
  BY <1>1, OfOneVisit
<1>3. PICK ok \in BOOLEAN : visit'[v] = Completed(visit[v], ok)
  BY <1>1 DEF CompleteRejecting, CompleteApprovingAgain, CompleteApproving, TypeOK
<1>4. /\ visit'[v] # NULL /\ visit'[v].status = "COMPLETED"
      /\ visit'[v].current_proposal_id = c
      /\ visit'[v].tenant_id = visit[v].tenant_id
      /\ visit'[v].scheduled = visit[v].scheduled
  BY <1>2, <1>3, CompletedRow, NullIsNoValue
<1>5. \A w \in Visits \ {v} : visit'[w] = visit[w]
  BY <1>1, OtherVisitsKept
<1>6. visit[v].status = "CONFIRMED"
  BY <1>2 DEF CompleteRejecting, CompleteApprovingAgain, CompleteApproving, CanComplete,
              Consistent
<1> HIDE DEF c
<1>7. PhaseOf(v)' = "COMPLETED" /\ PhaseOf(v) = "CONFIRMED"
  BY <1>1, <1>4, <1>6, SeenAfter, SeenBefore
<1>8. OfferOf(v)' = OfferOf(v)
  BY <1>1, <1>2, <1>4 DEF OfferOf, Made, Current
<1>9. MeetingOf(v)' = MeetingOf(v)
  BY <1>1, <1>2, <1>4, <1>6 DEF MeetingOf, Made, Current
<1>10. \A w \in Visits \ {v} : Kept(w)
  BY <1>1, <1>5, OthersKept
<1> QED BY <1>7, <1>8, <1>9, <1>10, TakePlaceStep DEF Moved

-----------------------------------------------------------------------------
\* Nothing has been asked for yet.
LEMMA PromiseInit == Init => Promise!Init
BY DEF Init, Promise!Init, PhaseOf, OfferOf, MeetingOf, Made

\* A request is a step of the appointment of its visit, or none.
LEMMA PromiseNext == IInv /\ [Next]_vars => [Promise!Next]_(Promise!vars)
<1> SUFFICES ASSUME IInv, [Next]_vars PROVE Promise!Next \/ UNCHANGED Promise!vars
  OBVIOUS
<1>1. CASE UNCHANGED <<visit, proposal>>
  <2>1. \A w \in Visits : Kept(w)
    BY <1>1 DEF Kept, PhaseOf, OfferOf, MeetingOf, Made, Current
  <2> QED BY <2>1 DEF Kept, Promise!vars
<1>2. CASE NegotiationStep
  <2>1. ASSUME NEW t \in Users, NEW v \in Visits, NEW p \in Proposals, NEW s \in Slots,
               Create(t, v, p, s) \/ Propose(t, v, p, s) \/ Reschedule(t, v, p, s)
        PROVE  Promise!Next
    BY <2>1, CreateOffers, CounterOffers
  <2>2. ASSUME NEW u \in Users, NEW v \in Visits,
               Accept(u, v) \/ Reject(u, v) \/ Cancel(u, v)
        PROVE  Promise!Next
    BY <2>2, AcceptAgrees, RejectRejects, CancelCancels
  <2>3. ASSUME NEW u \in Users, NEW v \in Visits,
               CompleteRejecting(u, v) \/ CompleteApprovingAgain(u, v)
                   \/ \E g \in Agreements : CompleteApproving(u, v, g)
        PROVE  Promise!Next
    BY <2>3, CompleteTakesPlace
  <2> QED BY <1>2, <2>1, <2>2, <2>3 DEF NegotiationStep
<1>3. CASE StaffingStep
  BY <1>1, <1>3 DEF StaffingStep, AssignManagers, ReplaceManagers, RemoveManager, SwitchRole
<1>4. CASE UNCHANGED vars
  BY <1>1, <1>4 DEF vars
<1> QED BY <1>2, <1>3, <1>4 DEF Next

\* Whatever requests are made, in whatever order and by whichever users, what the
\* tenant and the staff see of their visits is an Appointment: offers alternate,
\* and a meeting is what one side offered and the other agreed to.
THEOREM Implements == Spec => AppointmentImplemented
BY PromiseInit, PromiseNext, Invariance, PTL DEF Spec, AppointmentImplemented, Promise!Spec

-----------------------------------------------------------------------------
(***************************************************************************)
(* The tables of the leases are the tables of the visits: the definitions of *)
(* LeaseActivation mean the same for both.                                 *)
(***************************************************************************)
LEMMA SameRows ==
    /\ LP!WorkflowRow = WorkflowRow
    /\ LP!AgreementRow = AgreementRow
    /\ LP!PaymentRow = PaymentRows(Users)
<1>1. LP!WorkflowRow = WorkflowRow
  BY DEF LP!WorkflowRow, WorkflowRow, LP!WorkflowRows, WorkflowRows, LP!WorkflowState,
         WorkflowState, LP!ChecklistStatus, ChecklistStatus
<1>2. LP!AgreementRow = AgreementRow
  BY DEF LP!AgreementRow, AgreementRow, LP!AgreementRows, AgreementRows,
         LP!AgreementStatus, AgreementStatus
<1>3. LP!PaymentRow = PaymentRows(Users)
  BY DEF LP!PaymentRow, LP!PaymentRows, PaymentRows, LP!PaymentStatus, PaymentStatus
<1>4. QED
  BY <1>1, <1>2, <1>3

\* What LeaseActivation assumes of its constants holds of those it is given here.
LEMMA LeaseAssumptions == LP!LeaseConstants /\ LP!LeaseNullIsNoValue
<1>1. LP!LeaseConstants
  BY OnboardingConstants DEF LP!LeaseConstants, Users
<1>2. LP!LeaseNullIsNoValue
  BY OnboardingConstants, NullIsNoValue, SameRows DEF LP!LeaseNullIsNoValue
<1>3. QED
  BY <1>1, <1>2

LEMMA LeaseInvNext == LP!IInv /\ [LP!Next]_LP!vars => LP!IInv'
<1>1. LP!LeaseConstants /\ LP!LeaseNullIsNoValue
        /\ LP!IInv /\ [LP!Next]_LP!vars => LP!IInv'
  BY LP!InvNext
<1>2. QED
  BY <1>1, LeaseAssumptions

\* A lease request keeps what tracker and agreement rows point at.
LEMMA LeaseLinks ==
    LP!IInv /\ LP!LeaseStep => /\ LP!TrackersKept(workflow, workflow')
                               /\ LP!AgreementsKept(agreement, agreement')
<1>1. LP!LeaseConstants /\ LP!LeaseNullIsNoValue /\ LP!IInv /\ LP!LeaseStep
        => /\ LP!TrackersKept(workflow, workflow')
           /\ LP!AgreementsKept(agreement, agreement')
  BY LP!LeaseKeeps
<1>2. QED
  BY <1>1, LeaseAssumptions

\* Onboarding and LP are two instances of the same definitions over the same
\* tables: each step of the one is that step of the other.
LEMMA SameVisits == Lease!VisitStep <=> LP!VisitStep
BY DEF Lease!VisitStep, LP!VisitStep, Lease!VisitBooked, LP!VisitBooked,
       Lease!VisitConfirmed, LP!VisitConfirmed, Lease!VisitTurnedDown, LP!VisitTurnedDown,
       Lease!VisitApproved, LP!VisitApproved,
       Lease!BlockingAgreementsOf, LP!BlockingAgreementsOf, Lease!Blocks, LP!Blocks,
       Lease!NewAgreement, LP!NewAgreement, Lease!NewWorkflow, LP!NewWorkflow,
       Lease!GetOrCreate, LP!GetOrCreate, Lease!EarlyState, LP!EarlyState,
       Lease!MarkVisitBooked, LP!MarkVisitBooked,
       Lease!MarkVisitScheduled, LP!MarkVisitScheduled,
       Lease!MarkVisitResult, LP!MarkVisitResult,
       Lease!MarkAgreementGenerated, LP!MarkAgreementGenerated

LEMMA SameSigning ==
    ASSUME NEW u \in Users, NEW g \in Agreements
    PROVE  /\ Lease!SignFirst(u, g) <=> LP!SignFirst(u, g)
           /\ \A p \in Payments : Lease!SignAndOwe(u, g, p) <=> LP!SignAndOwe(u, g, p)
BY DEF Lease!SignFirst, LP!SignFirst, Lease!SignAndOwe, LP!SignAndOwe,
       Lease!CanSign, LP!CanSign, Lease!Signed, LP!Signed,
       Lease!Owing, LP!Owing, Lease!NewAdvance, LP!NewAdvance, Lease!OneOrNone, LP!OneOrNone,
       Lease!TrackedBy, LP!TrackedBy, Lease!MarkTenantSigned, LP!MarkTenantSigned

LEMMA SameActivation ==
    ASSUME NEW g \in Agreements
    PROVE  Lease!Activate(g) <=> LP!Activate(g)
BY DEF Lease!Activate, LP!Activate, Lease!OneOrNone, LP!OneOrNone,
       Lease!TrackedBy, LP!TrackedBy, Lease!Activated, LP!Activated,
       Lease!MarkAdvanceApproved, LP!MarkAdvanceApproved,
       Lease!TryActivateTenant, LP!TryActivateTenant

LEMMA SamePaying ==
    ASSUME NEW p \in Payments
    PROVE  /\ Lease!UploadReceipt(p) <=> LP!UploadReceipt(p)
           /\ Lease!VerifyPayment(p) <=> LP!VerifyPayment(p)
           /\ Lease!RejectReceipt(p) <=> LP!RejectReceipt(p)
           /\ Lease!MarkPaid(p) <=> LP!MarkPaid(p)
<1>1. Lease!VerifyPayment(p) <=> LP!VerifyPayment(p)
  <2>1. Lease!ToActivate(p) = LP!ToActivate(p) /\ Lease!DepositOf(p) = LP!DepositOf(p)
    BY DEF Lease!ToActivate, LP!ToActivate, Lease!DepositOf, LP!DepositOf
  <2>2. \A g \in Lease!ToActivate(p) : Lease!Activate(g) <=> LP!Activate(g)
    BY SameActivation DEF Lease!ToActivate, Lease!DepositOf
  <2>3. QED
    BY <2>1, <2>2 DEF Lease!VerifyPayment, LP!VerifyPayment,
       Lease!PaymentNow, LP!PaymentNow, Lease!OneOrNone, LP!OneOrNone
<1>2. QED
  BY <1>1 DEF Lease!UploadReceipt, LP!UploadReceipt, Lease!RejectReceipt, LP!RejectReceipt,
     Lease!MarkPaid, LP!MarkPaid, Lease!CanUpload, LP!CanUpload,
     Lease!CanMarkPaid, LP!CanMarkPaid, Lease!PaymentNow, LP!PaymentNow,
     Lease!MarkAdvanceSubmitted, LP!MarkAdvanceSubmitted

LEMMA SameConfirming ==
    ASSUME NEW g \in Agreements
    PROVE  Lease!ConfirmAdvance(g) <=> LP!ConfirmAdvance(g)
BY SameActivation DEF Lease!ConfirmAdvance, LP!ConfirmAdvance,
   Lease!CanMarkPaid, LP!CanMarkPaid, Lease!PaymentNow, LP!PaymentNow

LEMMA SameChecklist ==
    ASSUME NEW t \in Tenants
    PROVE  /\ \A doc \in Documents : Lease!Submit(t, doc) <=> LP!Submit(t, doc)
           /\ \A doc \in Documents, approve \in BOOLEAN :
                Lease!Review(t, doc, approve) <=> LP!Review(t, doc, approve)
           /\ Lease!CancelOnboarding(t) <=> LP!CancelOnboarding(t)
BY DEF Lease!Submit, LP!Submit, Lease!Review, LP!Review,
       Lease!CancelOnboarding, LP!CancelOnboarding,
       Lease!SubmitPolice, LP!SubmitPolice, Lease!SubmitOriginal, LP!SubmitOriginal,
       Lease!ReviewPolice, LP!ReviewPolice, Lease!ReviewOriginal, LP!ReviewOriginal,
       Lease!TryActivateTenant, LP!TryActivateTenant,
       Lease!CanCancelWorkflow, LP!CanCancelWorkflow, Lease!CancelWorkflow, LP!CancelWorkflow

LEMMA SameTenancy ==
    /\ \A u \in Users : Lease!AssignTenant(u) <=> LP!AssignTenant(u)
    /\ Lease!RemoveTenant <=> LP!RemoveTenant
BY DEF Lease!AssignTenant, LP!AssignTenant, Lease!RemoveTenant, LP!RemoveTenant

LEMMA SameLeases == Lease!LeaseStep => LP!LeaseStep
<1>1. ASSUME NEW u \in Users, NEW g \in Agreements,
             Lease!SignFirst(u, g) \/ \E p \in Payments : Lease!SignAndOwe(u, g, p)
      PROVE  LP!LeaseStep
  BY <1>1, SameSigning DEF LP!LeaseStep
<1>2. ASSUME NEW p \in Payments,
             \/ Lease!UploadReceipt(p) \/ Lease!VerifyPayment(p)
             \/ Lease!RejectReceipt(p) \/ Lease!MarkPaid(p)
      PROVE  LP!LeaseStep
  BY <1>2, SamePaying DEF LP!LeaseStep
<1>3. ASSUME NEW g \in Agreements, Lease!ConfirmAdvance(g) PROVE LP!LeaseStep
  BY <1>3, SameConfirming DEF LP!LeaseStep
<1>4. ASSUME NEW t \in Tenants, NEW doc \in Documents,
             Lease!Submit(t, doc) \/ \E approve \in BOOLEAN : Lease!Review(t, doc, approve)
      PROVE  LP!LeaseStep
  BY <1>4, SameChecklist DEF LP!LeaseStep
<1>5. ASSUME NEW t \in Tenants, Lease!CancelOnboarding(t) PROVE LP!LeaseStep
  BY <1>5, SameChecklist DEF LP!LeaseStep
<1>6. CASE (\E u \in Users : Lease!AssignTenant(u)) \/ Lease!RemoveTenant
  BY <1>6, SameTenancy DEF LP!LeaseStep
<1>7. QED
  BY <1>1, <1>2, <1>3, <1>4, <1>5, <1>6 DEF Lease!LeaseStep

-----------------------------------------------------------------------------
\* switch_role only takes on a role the user holds.
RolesHeld == \A u \in Users : activeRole[u] \in HeldRoles(u)

\* Every visit belongs to a user who holds the tenant role.
VisitorsAreTenants == \A v \in Visits : Made(v) => visit[v].tenant_id \in Tenants

\* The tenant of a visit stays, and an approval is never taken back.
LEMMA VisitStays ==
    ASSUME IInv, [Next]_vars, NEW w \in Visits, visit[w] # NULL
    PROVE  /\ visit'[w] # NULL
           /\ visit'[w].tenant_id = visit[w].tenant_id
           /\ visit[w].visit_result = "APPROVED" => visit'[w].visit_result = "APPROVED"
<1>0. TypeOK /\ visit[w] \in VisitRow
  BY OfOneVisit DEF IInv
<1>1. visit[w].visit_result = "APPROVED" => visit'[w].visit_result = "APPROVED"
  BY SettledStep DEF KeepsSettled
<1>2. visit'[w].tenant_id = visit[w].tenant_id /\ visit'[w] # NULL
  <2>1. CASE visit'[w] = visit[w]
    BY <2>1
  <2>2. CASE visit'[w] # visit[w]
    <3>1. NegotiationStep
      BY <2>2 DEF Next, StaffingStep, AssignManagers, ReplaceManagers, RemoveManager, SwitchRole, vars
    <3>2. ASSUME NEW u \in Users, NEW p \in Proposals, NEW s \in Slots,
                 Propose(u, w, p, s) \/ Reschedule(u, w, p, s)
          PROVE  visit'[w].tenant_id = visit[w].tenant_id /\ visit'[w] \in VisitRow
      <4>1. RoleIn(w, u) \in ProposalRole
        BY <1>0, <3>2, RoleInTyped DEF Propose, CanPropose, HasTurn, Reschedule, CanReschedule
      <4>2. visit'[w] \in {Proposed(visit[w], u, RoleIn(w, u), p, Counterparty),
                           Rescheduled(visit[w], RoleIn(w, u), p, Counterparty)}
        BY <1>0, <3>2 DEF Propose, Reschedule, TypeOK
      <4>3. QED
        BY <1>0, <4>1, <4>2, ProposedRow, RescheduledRow, CounterpartyTyped
    <3>3. ASSUME NEW u \in Users, Accept(u, w)
          PROVE  visit'[w].tenant_id = visit[w].tenant_id /\ visit'[w] \in VisitRow
      <4>1. RoleIn(w, u) \in ProposalRole /\ proposal[Current(w)].slot \in Slots
        BY <1>0, <3>3, OfOneVisit, RoleInTyped DEF Accept, CanAccept, HasTurn, ProposalRow
      <4>2. visit'[w] = Accepted(visit[w], u, RoleIn(w, u), proposal[Current(w)].slot)
        BY <1>0, <3>3 DEF Accept, TypeOK
      <4>3. QED
        BY <1>0, <4>1, <4>2, AcceptedRow
    <3>4. ASSUME NEW u \in Users, Reject(u, w) \/ Cancel(u, w)
          PROVE  visit'[w].tenant_id = visit[w].tenant_id /\ visit'[w] \in VisitRow
      <4>1. visit'[w] \in {Rejected(visit[w]), Cancelled(visit[w])}
        BY <1>0, <3>4 DEF Reject, Cancel, TypeOK
      <4>2. QED
        BY <1>0, <4>1, RejectedRow, CancelledRow
    <3>5. ASSUME NEW u \in Users,
                 CompleteRejecting(u, w) \/ CompleteApprovingAgain(u, w)
                   \/ \E g \in Agreements : CompleteApproving(u, w, g)
          PROVE  visit'[w].tenant_id = visit[w].tenant_id /\ visit'[w] \in VisitRow
      <4>1. PICK ok \in BOOLEAN : visit'[w] = Completed(visit[w], ok)
        BY <1>0, <3>5 DEF CompleteRejecting, CompleteApprovingAgain, CompleteApproving, TypeOK
      <4>2. QED
        BY <1>0, <4>1, CompletedRow
    <3>6. \A u \in Users, p \in Proposals, s \in Slots : ~ Create(u, w, p, s)
      BY DEF Create
    <3>7. visit'[w].tenant_id = visit[w].tenant_id /\ visit'[w] \in VisitRow
      BY <1>0, <2>2, <3>1, <3>2, <3>3, <3>4, <3>5, <3>6, OtherVisitsKept DEF NegotiationStep
    <3>8. QED
      BY <3>7, NullIsNoValue
  <2>3. QED
    BY <2>1, <2>2
<1>3. QED
  BY <1>1, <1>2

\* Only create_visit_request inserts one, for a user acting as tenant.
LEMMA VisitMade ==
    ASSUME IInv, RolesHeld, [Next]_vars, NEW w \in Visits, visit[w] = NULL, visit'[w] # NULL
    PROVE  /\ visit'[w].tenant_id \in Tenants
           /\ visit'[w].visit_result = "PENDING"
<1>0. TypeOK
  BY DEF IInv
<1>1. NegotiationStep
  BY DEF Next, StaffingStep, AssignManagers, ReplaceManagers, RemoveManager, SwitchRole, vars
<1>2. PICK t \in Users, p \in Proposals, s \in Slots : Create(t, w, p, s)
  <2>1. ASSUME NEW u \in Users, NEW v \in Visits,
               \/ \E p \in Proposals, s \in Slots :
                    Create(u, v, p, s) \/ Propose(u, v, p, s) \/ Reschedule(u, v, p, s)
               \/ Accept(u, v) \/ Reject(u, v) \/ Cancel(u, v)
               \/ CompleteRejecting(u, v) \/ CompleteApprovingAgain(u, v)
               \/ \E g \in Agreements : CompleteApproving(u, v, g)
        PROVE  v = w
    BY <1>0, <2>1, OtherVisitsKept
  <2>2. ASSUME NEW u \in Users
        PROVE  /\ \A p \in Proposals, s \in Slots : ~ Propose(u, w, p, s) /\ ~ Reschedule(u, w, p, s)
               /\ ~ Accept(u, w) /\ ~ Reject(u, w) /\ ~ Cancel(u, w)
               /\ ~ CompleteRejecting(u, w) /\ ~ CompleteApprovingAgain(u, w)
               /\ \A g \in Agreements : ~ CompleteApproving(u, w, g)
    BY DEF Propose, Reschedule, Accept, Reject, Cancel, CompleteRejecting,
           CompleteApprovingAgain, CompleteApproving
  <2>3. QED
    BY <1>1, <2>1, <2>2 DEF NegotiationStep
<1>3. t \in Tenants
  BY <1>2 DEF Create, RolesHeld, HeldRoles
<1>4. visit'[w] = NewVisit(t, p, Counterparty)
  BY <1>0, <1>2 DEF Create, TypeOK
<1>5. QED
  BY <1>3, <1>4 DEF NewVisit

\* The marks of the visits are the same in both modules.
LEMMA SameMarks ==
    ASSUME NEW w, NEW v, NEW g
    PROVE  /\ LP!MarkVisitBooked(w, v) = MarkVisitBooked(w, v)
           /\ LP!MarkVisitScheduled(w, v) = MarkVisitScheduled(w, v)
           /\ LP!MarkVisitResult(w, v, TRUE) = MarkVisitResult(w, v, TRUE)
           /\ LP!MarkVisitResult(w, v, FALSE) = MarkVisitResult(w, v, FALSE)
           /\ LP!MarkAgreementGenerated(w, g) = MarkAgreementGenerated(w, g)
           /\ LP!GetOrCreate(w) = GetOrCreate(w)
BY DEF LP!MarkVisitBooked, MarkVisitBooked, LP!MarkVisitScheduled, MarkVisitScheduled,
       LP!EarlyState, EarlyState, LP!MarkVisitResult, MarkVisitResult,
       LP!MarkAgreementGenerated, MarkAgreementGenerated, LP!GetOrCreate, GetOrCreate,
       LP!NewWorkflow, NewWorkflow

\* What each visit request does to tracker and agreements is a VisitStep, or nothing.
LEMMA VisitsRefine ==
    ASSUME IInv, TrackInv, RolesHeld, VisitorsAreTenants, Next,
           UNCHANGED <<payment, occupant, openStays>>
    PROVE  LP!VisitStep \/ UNCHANGED LP!vars
<1>0. \A v \in Visits : visit[v] # NULL =>
        /\ visit[v].tenant_id \in Tenants
        /\ workflow[visit[v].tenant_id] # NULL
        /\ GetOrCreate(workflow[visit[v].tenant_id]) = workflow[visit[v].tenant_id]
  BY DEF VisitorsAreTenants, Made, TrackInv, Tracked, VisitTracked, GetOrCreate
<1>1. ASSUME UNCHANGED <<workflow, agreement>> PROVE UNCHANGED LP!vars
  BY <1>1 DEF LP!vars
<1>2. ASSUME NEW t \in Users, NEW v \in Visits, NEW p \in Proposals, NEW s \in Slots,
             Create(t, v, p, s)
      PROVE  LP!VisitStep
  <2>1. t \in Tenants
    BY <1>2 DEF Create, RolesHeld, HeldRoles
  <2>2. LP!VisitBooked(t, v)
    BY <1>2, SameMarks DEF Create, LP!VisitBooked
  <2>3. QED
    BY <2>1, <2>2 DEF LP!VisitStep
<1>3. ASSUME NEW u \in Users, NEW v \in Visits, Accept(u, v)
      PROVE  LP!VisitStep
  <2>1. LP!VisitConfirmed(visit[v].tenant_id, v)
    BY <1>0, <1>3, SameMarks DEF Accept, LP!VisitConfirmed
  <2>2. QED
    BY <1>0, <1>3, <2>1 DEF Accept, LP!VisitStep
<1>4. ASSUME NEW u \in Users, NEW v \in Visits, CompleteRejecting(u, v)
      PROVE  LP!VisitStep
  <2>1. LP!VisitTurnedDown(visit[v].tenant_id, v)
    BY <1>0, <1>4, SameMarks DEF CompleteRejecting, LP!VisitTurnedDown
  <2>2. QED
    BY <1>0, <1>4, <2>1 DEF CompleteRejecting, LP!VisitStep
<1>5. ASSUME NEW u \in Users, NEW v \in Visits, NEW g \in Agreements,
             CompleteApproving(u, v, g)
      PROVE  LP!VisitStep
  <2> DEFINE t == visit[v].tenant_id
  <2>1. LP!BlockingAgreementsOf(t) = BlockingAgreementsOf(t)
        /\ LP!NewAgreement(t) = NewAgreement(t)
    BY DEF LP!BlockingAgreementsOf, BlockingAgreementsOf, LP!Blocks, Blocks,
           LP!NewAgreement, NewAgreement
  <2>2. MarkAgreementGenerated(MarkVisitResult(
            MarkAgreementGenerated(workflow[t], g), v, TRUE), g)
        = LP!MarkAgreementGenerated(LP!MarkVisitResult(
            LP!MarkAgreementGenerated(workflow[t], g), v, TRUE), g)
    BY SameMarks
  <2>3. workflow[t] # NULL /\ GetOrCreate(workflow[t]) = workflow[t]
    BY <1>0, <1>5 DEF CompleteApproving
  <2>4. workflow' = [workflow EXCEPT ![t] =
            LP!MarkAgreementGenerated(LP!MarkVisitResult(
                LP!MarkAgreementGenerated(workflow[t], g), v, TRUE), g)]
    BY <1>5, <2>2, <2>3 DEF CompleteApproving
  <2>5. LP!VisitApproved(t, v, g)
    BY <1>5, <2>1, <2>3, <2>4 DEF CompleteApproving, LP!VisitApproved
  <2>6. QED
    BY <1>0, <1>5, <2>5 DEF CompleteApproving, LP!VisitStep
<1>6. CASE NegotiationStep
  <2>1. ASSUME NEW u \in Users, NEW v \in Visits,
               \/ \E p \in Proposals, s \in Slots : Propose(u, v, p, s) \/ Reschedule(u, v, p, s)
               \/ Reject(u, v) \/ Cancel(u, v) \/ CompleteApprovingAgain(u, v)
        PROVE  UNCHANGED LP!vars
    BY <1>1, <2>1 DEF Propose, Reschedule, Reject, Cancel, CompleteApprovingAgain
  <2>2. QED
    BY <1>2, <1>3, <1>4, <1>5, <1>6, <2>1 DEF NegotiationStep
<1>7. CASE StaffingStep
  BY <1>1, <1>7 DEF StaffingStep, AssignManagers, ReplaceManagers, RemoveManager, SwitchRole
<1>8. QED
  BY <1>6, <1>7 DEF Next

-----------------------------------------------------------------------------
(***************************************************************************)
(* Agreements and approvals.                                               *)
(***************************************************************************)
AgreementsOf(A, t) == {g \in Agreements : A[g] # NULL /\ A[g].tenant_id = t}

ApprovalsOf(V, t) ==
    {v \in Visits : V[v] # NULL /\ V[v].tenant_id = t /\ V[v].visit_result = "APPROVED"}

\* No more agreements than approvals, tenant by tenant.
Fewer(A, V) == \A t \in Users : Cardinality(AgreementsOf(A, t)) <= Cardinality(ApprovalsOf(V, t))

FewerInv == Fewer(agreement, visit)

LEMMA FiniteRows ==
    ASSUME NEW A, NEW V, NEW t
    PROVE  /\ IsFiniteSet(AgreementsOf(A, t)) /\ Cardinality(AgreementsOf(A, t)) \in Nat
           /\ IsFiniteSet(ApprovalsOf(V, t)) /\ Cardinality(ApprovalsOf(V, t)) \in Nat
<1>1. AgreementsOf(A, t) \in SUBSET Agreements /\ ApprovalsOf(V, t) \in SUBSET Visits
  BY DEF AgreementsOf, ApprovalsOf
<1>2. IsFiniteSet(AgreementsOf(A, t)) /\ IsFiniteSet(ApprovalsOf(V, t))
  BY <1>1, OnboardingConstants, FS_Subset
<1>3. QED
  BY <1>2, FS_CardinalityType

\* Approvals only come, so that a step without a new agreement keeps the order.
\* One more approval for each further agreement, and no approval lost.
LEMMA FewerKept ==
    ASSUME NEW A, NEW B, NEW V, NEW Y, Fewer(A, V),
           \A t \in Users : AgreementsOf(B, t) = AgreementsOf(A, t),
           \A t \in Users : ApprovalsOf(V, t) \subseteq ApprovalsOf(Y, t)
    PROVE  Fewer(B, Y)
<1> SUFFICES ASSUME NEW t \in Users
             PROVE  Cardinality(AgreementsOf(B, t)) <= Cardinality(ApprovalsOf(Y, t))
  BY DEF Fewer
<1>1. Cardinality(ApprovalsOf(V, t)) <= Cardinality(ApprovalsOf(Y, t))
  BY FiniteRows, FS_Subset
<1>2. Cardinality(AgreementsOf(A, t)) <= Cardinality(ApprovalsOf(V, t))
  BY DEF Fewer
<1>3. QED
  BY <1>1, <1>2, FiniteRows

LEMMA ApprovalsStay ==
    ASSUME IInv, [Next]_vars, NEW t \in Users
    PROVE  ApprovalsOf(visit, t) \subseteq ApprovalsOf(visit', t)
BY VisitStays DEF ApprovalsOf

LEMMA FewerApproving ==
    ASSUME IInv, FewerInv, NEW u \in Users, NEW v \in Visits, NEW g \in Agreements,
           CompleteApproving(u, v, g)
    PROVE  FewerInv'
<1> SUFFICES ASSUME NEW t \in Users
             PROVE  Cardinality(AgreementsOf(agreement', t)) <= Cardinality(ApprovalsOf(visit', t))
  BY DEF FewerInv, Fewer
<1>1. /\ visit[v] # NULL /\ visit[v] \in VisitRow /\ TypeOK
      /\ visit[v].status = "CONFIRMED" /\ visit[v].visit_result # "APPROVED"
  BY OfOneVisit DEF CompleteApproving, CanComplete, Consistent, IInv
<1>2. Next
  BY DEF Next, NegotiationStep
<1>3. Cardinality(AgreementsOf(agreement, t)) <= Cardinality(ApprovalsOf(visit, t))
  BY DEF FewerInv, Fewer
<1>4. CASE t # visit[v].tenant_id
  <2>1. AgreementsOf(agreement', t) = AgreementsOf(agreement, t)
    BY <1>1, <1>4, NullIsNoValue DEF AgreementsOf, CompleteApproving, NewAgreement, TypeOK
  <2>2. Cardinality(ApprovalsOf(visit, t)) <= Cardinality(ApprovalsOf(visit', t))
    BY <1>2, ApprovalsStay, FiniteRows, FS_Subset
  <2>3. QED
    BY <1>3, <2>1, <2>2, FiniteRows
<1>5. CASE t = visit[v].tenant_id
  <2>1. AgreementsOf(agreement', t) = AgreementsOf(agreement, t) \cup {g}
        /\ g \notin AgreementsOf(agreement, t)
    BY <1>1, <1>5, NewAgreementRow, NullIsNoValue DEF AgreementsOf, CompleteApproving, TypeOK
  <2>2. Cardinality(AgreementsOf(agreement', t)) = Cardinality(AgreementsOf(agreement, t)) + 1
    BY <2>1, FiniteRows, FS_AddElement
  <2>3. visit'[v] = Completed(visit[v], TRUE)
    BY <1>1 DEF CompleteApproving, TypeOK
  <2>4. v \in ApprovalsOf(visit', t) /\ v \notin ApprovalsOf(visit, t)
    BY <1>1, <1>2, <1>5, <2>3, VisitStays DEF ApprovalsOf, Completed, VisitRow
  <2>5. ApprovalsOf(visit, t) \cup {v} \in SUBSET ApprovalsOf(visit', t)
    BY <1>2, <2>4, ApprovalsStay
  <2>6. Cardinality(ApprovalsOf(visit, t)) + 1 <= Cardinality(ApprovalsOf(visit', t))
    BY <2>4, <2>5, FiniteRows, FS_AddElement, FS_Subset
  <2>7. QED
    BY <1>3, <2>2, <2>6, FiniteRows
<1>6. QED
  BY <1>4, <1>5

LEMMA FewerNext == IInv /\ FewerInv /\ [Next]_vars => FewerInv'
<1> SUFFICES ASSUME IInv, FewerInv, [Next]_vars PROVE FewerInv'
  OBVIOUS
<1>1. CASE UNCHANGED agreement
  <2>1. \A t \in Users : AgreementsOf(agreement', t) = AgreementsOf(agreement, t)
    BY <1>1
  <2>2. QED
    BY <2>1, ApprovalsStay, FewerKept DEF FewerInv
<1>2. CASE agreement' # agreement
  BY <1>2, FewerApproving DEF Next, NegotiationStep, StaffingStep, vars, Create, Propose,
     Reschedule, Accept, Reject, Cancel, CompleteRejecting, CompleteApprovingAgain,
     AssignManagers, ReplaceManagers, RemoveManager, SwitchRole
<1>3. QED
  BY <1>1, <1>2

-----------------------------------------------------------------------------
(***************************************************************************)
(* The composition.                                                        *)
(***************************************************************************)
\* The invariants of the visits and of the leases, with what ties them together.
OnboardingInv ==
    /\ IInv /\ TrackInv
    /\ LP!IInv
    /\ RolesHeld /\ VisitorsAreTenants
    /\ FewerInv

LEMMA SameInit == Lease!Init <=> LP!Init
BY DEF Lease!Init, LP!Init

\* Nothing has happened: the empty tables satisfy the invariant.
LEMMA OnboardingInvInit == OnboardingInit => OnboardingInv
<1> SUFFICES ASSUME OnboardingInit PROVE OnboardingInv
  OBVIOUS
<1>1. IInv /\ TrackInv
  BY InvInit DEF OnboardingInit, Init, TrackInv, Tracked
<1>2. LP!IInv
  <2>1. LP!LeaseConstants /\ LP!LeaseNullIsNoValue /\ LP!Init => LP!IInv
    BY LP!InvInit
  <2>2. QED
    BY <2>1, LeaseAssumptions, SameInit DEF OnboardingInit
<1>3. RolesHeld /\ VisitorsAreTenants
  BY DEF OnboardingInit, Init, RolesHeld, VisitorsAreTenants, Made
<1>4. FewerInv
  <2>1. \A t \in Users : AgreementsOf(agreement, t) = {} /\ ApprovalsOf(visit, t) = {}
    BY DEF OnboardingInit, Init, AgreementsOf, ApprovalsOf
  <2>2. QED
    BY <2>1, FS_EmptySet DEF FewerInv, Fewer
<1>5. QED
  BY <1>1, <1>2, <1>3, <1>4 DEF OnboardingInv

\* A visit request keeps it: the visit part by its own proof, the lease part
\* because the request is a VisitStep.
LEMMA VisitsKeepInv ==
    ASSUME OnboardingInv, VisitRequestStep
    PROVE  OnboardingInv'
<1>1. IInv /\ TrackInv /\ RolesHeld /\ VisitorsAreTenants /\ FewerInv /\ LP!IInv
      /\ Next /\ UNCHANGED <<payment, occupant, openStays>>
  BY DEF OnboardingInv, VisitRequestStep
<1>2. IInv' /\ TrackInv' /\ FewerInv'
  BY <1>1, InvNext, TrackNext, FewerNext
<1>3. LP!IInv'
  BY <1>1, VisitsRefine, LeaseInvNext DEF LP!Next
<1>4. RolesHeld'
  <2>1. CASE UNCHANGED activeRole
    BY <1>1, <2>1 DEF RolesHeld, HeldRoles
  <2>2. ASSUME NEW u \in Users, NEW r \in UserRole, SwitchRole(u, r) PROVE RolesHeld'
    BY <1>1, <2>2 DEF RolesHeld, HeldRoles, SwitchRole, IInv, TypeOK
  <2>3. QED
    BY <1>1, <2>1, <2>2 DEF Next, NegotiationStep, StaffingStep, Create, Propose, Reschedule,
       Accept, Reject, Cancel, CompleteRejecting, CompleteApproving, CompleteApprovingAgain,
       AssignManagers, ReplaceManagers, RemoveManager
<1>5. VisitorsAreTenants'
  <2> SUFFICES ASSUME NEW v \in Visits, visit'[v] # NULL PROVE visit'[v].tenant_id \in Tenants
    BY DEF VisitorsAreTenants, Made
  <2>1. CASE visit[v] = NULL
    BY <1>1, <2>1, VisitMade
  <2>2. CASE visit[v] # NULL
    BY <1>1, <2>2, VisitStays DEF VisitorsAreTenants, Made
  <2>3. QED
    BY <2>1, <2>2
<1>6. QED
  BY <1>2, <1>3, <1>4, <1>5 DEF OnboardingInv

\* A lease request keeps it: the lease part by its own proof, the visit part
\* because the links of the shared rows are kept.
LEMMA LeasesKeepInv ==
    ASSUME OnboardingInv, LeaseRequestStep
    PROVE  OnboardingInv'
<1>1. IInv /\ TrackInv /\ RolesHeld /\ VisitorsAreTenants /\ FewerInv /\ LP!IInv
      /\ UNCHANGED <<visit, proposal, managers, activeRole>> /\ notified' = {}
  BY DEF OnboardingInv, LeaseRequestStep
<1>2. LP!LeaseStep
  BY SameLeases DEF LeaseRequestStep
<1>3. LP!IInv'
  BY <1>1, <1>2, LeaseInvNext DEF LP!Next
<1>4. LP!TrackersKept(workflow, workflow') /\ LP!AgreementsKept(agreement, agreement')
  BY <1>1, <1>2, LeaseLinks
<1>5. IInv'
  <2>1. workflow' \in [Users -> WorkflowRow \cup {NULL}]
        /\ agreement' \in [Agreements -> AgreementRow \cup {NULL}]
    BY <1>3, SameRows DEF LP!IInv, LP!TablesTrue, LP!Workflows, LP!AllAgreements
  <2>2. TypeOK'
    BY <1>1, <2>1 DEF IInv, TypeOK
  <2>3. QED
    BY <1>1, <2>2, InvFrame
<1>6. TrackInv'
  <2>1. ASSUME NEW t \in Users, workflow'[t] # NULL
        PROVE  PointsRight(t, workflow'[t], visit', agreement')
    <3>1. workflow[t] # NULL /\ PointsRight(t, workflow[t], visit, agreement)
          /\ LP!LinksKept(workflow[t], workflow'[t])
      BY <1>1, <1>4, <2>1 DEF LP!TrackersKept, TrackInv, Tracked
    <3>2. workflow[t].agreement_id \in Agreements \cup {NULL}
      BY <1>1, <3>1 DEF IInv, TypeOK, WorkflowRow, WorkflowRows
    <3>3. QED
      BY <1>1, <1>4, <3>1, <3>2 DEF PointsRight, LP!LinksKept, LP!AgreementsKept
  <2>2. ASSUME NEW t \in Users
        PROVE  /\ workflow[t] # NULL => workflow'[t] # NULL
               /\ Knows(workflow[t]) => Knows(workflow'[t])
    <3>1. workflow[t] # NULL => LP!LinksKept(workflow[t], workflow'[t])
      BY <1>4 DEF LP!TrackersKept
    <3>2. NULL \notin LP!WorkflowRow
      BY SameRows, NullIsNoValue
    <3>3. QED
      BY <3>1, <3>2 DEF LP!LinksKept, Knows
  <2>3. ASSUME NEW v \in Visits, visit'[v] # NULL
        PROVE  VisitTracked(visit'[v], workflow')
    <3>1. visit[v].tenant_id \in Users /\ VisitTracked(visit[v], workflow)
      BY <1>1, <2>3, TrackedTables DEF TrackInv, Tracked
    <3>2. QED
      BY <1>1, <2>2, <3>1 DEF VisitTracked
  <2>4. ASSUME NEW g \in Agreements, agreement'[g] # NULL
        PROVE  Knows(workflow'[agreement'[g].tenant_id])
    <3>1. agreement[g] # NULL /\ agreement'[g].tenant_id = agreement[g].tenant_id
      BY <1>4, <2>4 DEF LP!AgreementsKept
    <3>2. agreement[g].tenant_id \in Users /\ Knows(workflow[agreement[g].tenant_id])
      BY <1>1, <3>1, TrackedTables DEF TrackInv, Tracked
    <3>3. QED
      BY <2>2, <3>1, <3>2
  <2>5. QED
    BY <2>1, <2>3, <2>4 DEF TrackInv, Tracked
<1>7. RolesHeld' /\ VisitorsAreTenants'
  BY <1>1 DEF RolesHeld, HeldRoles, VisitorsAreTenants, Made
<1>8. FewerInv'
  <2>1. \A t \in Users : AgreementsOf(agreement', t) = AgreementsOf(agreement, t)
    BY <1>4 DEF AgreementsOf, LP!AgreementsKept
  <2>2. \A t \in Users : ApprovalsOf(visit, t) \subseteq ApprovalsOf(visit', t)
    BY <1>1
  <2>3. QED
    BY <1>1, <2>1, <2>2, FewerKept DEF FewerInv
<1>9. QED
  BY <1>3, <1>5, <1>6, <1>7, <1>8 DEF OnboardingInv

LEMMA OnboardingInvNext ==
    OnboardingInv /\ [OnboardingNext]_onboardingVars => OnboardingInv'
<1> SUFFICES ASSUME OnboardingInv, [OnboardingNext]_onboardingVars PROVE OnboardingInv'
  OBVIOUS
<1>1. CASE OnboardingNext
  BY <1>1, VisitsKeepInv, LeasesKeepInv DEF OnboardingNext
<1>2. CASE UNCHANGED onboardingVars
  <2>1. UNCHANGED vars /\ UNCHANGED <<payment, occupant, openStays>>
    BY <1>2 DEF onboardingVars
  <2>2. IInv' /\ TrackInv' /\ FewerInv'
    BY <2>1, InvNext, TrackNext, FewerNext DEF OnboardingInv
  <2>3. UNCHANGED LP!vars
    BY <2>1 DEF vars, LP!vars
  <2>4. LP!IInv'
    BY <2>3, LeaseInvNext DEF OnboardingInv
  <2>5. RolesHeld' /\ VisitorsAreTenants'
    BY <2>1 DEF vars, OnboardingInv, RolesHeld, HeldRoles, VisitorsAreTenants, Made
  <2>6. QED
    BY <2>2, <2>4, <2>5 DEF OnboardingInv
<1>3. QED
  BY <1>1, <1>2

LEMMA OnboardingInvariance == OnboardingSpec => []OnboardingInv
BY OnboardingInvInit, OnboardingInvNext, PTL DEF OnboardingSpec

\* The composition implements LeaseActivation: whatever the visit service does to
\* tracker and agreements, the leases were modelled to expect.
THEOREM LeasesImplemented == OnboardingSpec => LeaseImplemented
<1>1. OnboardingInit => Lease!Init
  BY DEF OnboardingInit
<1>2. OnboardingInv /\ [OnboardingNext]_onboardingVars => [Lease!Next]_(Lease!vars)
  <2> SUFFICES ASSUME OnboardingInv, [OnboardingNext]_onboardingVars
               PROVE  Lease!Next \/ UNCHANGED Lease!vars
    OBVIOUS
  <2>1. CASE VisitRequestStep
    BY <2>1, VisitsRefine, SameVisits DEF OnboardingInv, VisitRequestStep, Lease!Next, Lease!vars, LP!vars
  <2>2. CASE LeaseRequestStep
    BY <2>2 DEF LeaseRequestStep, Lease!Next
  <2>3. CASE UNCHANGED onboardingVars
    BY <2>3 DEF onboardingVars, vars, Lease!vars
  <2>4. QED
    BY <2>1, <2>2, <2>3 DEF OnboardingNext
<1>3. QED
  BY <1>1, <1>2, OnboardingInvariance, PTL DEF OnboardingSpec, LeaseImplemented, Lease!Spec

\* The visits of the composition implement Appointment, whatever the leases do to
\* the tenant's tracker and agreement in between.
THEOREM AppointmentsImplemented == OnboardingSpec => AppointmentImplemented
<1>1. OnboardingInit => Promise!Init
  BY PromiseInit DEF OnboardingInit
<1>2. OnboardingInv /\ [OnboardingNext]_onboardingVars => [Promise!Next]_(Promise!vars)
  <2> SUFFICES ASSUME OnboardingInv, [OnboardingNext]_onboardingVars
               PROVE  [Promise!Next]_(Promise!vars)
    OBVIOUS
  <2>1. CASE VisitRequestStep
    BY <2>1, PromiseNext DEF OnboardingInv, VisitRequestStep
  <2>2. CASE UNCHANGED <<visit, proposal>>
    <3>1. \A w \in Visits : Kept(w)
      BY <2>2 DEF Kept, PhaseOf, OfferOf, MeetingOf, Made, Current
    <3>2. QED
      BY <3>1 DEF Kept, Promise!vars
  <2>3. QED
    BY <2>1, <2>2 DEF OnboardingNext, LeaseRequestStep, onboardingVars, vars
<1>3. QED
  BY <1>1, <1>2, OnboardingInvariance, PTL
  DEF OnboardingSpec, AppointmentImplemented, Promise!Spec

\* A confirmed or completed visit takes place at the slot of its accepted proposal,
\* with lease requests in between.
THEOREM AppointmentsKept == OnboardingSpec => []AppointmentIsAccepted
<1>1. OnboardingInv => AppointmentIsAccepted
  BY ConsistentMeans DEF OnboardingInv, IInv
<1>2. QED
  BY <1>1, OnboardingInvariance, PTL

\* A tracker row points at a visit of its own tenant also when signatures, payments
\* and documents change it between the visit requests.
THEOREM TrackersFollow == OnboardingSpec => []TrackerFollowsVisit
<1>1. OnboardingInv => TrackerFollowsVisit
  BY TrackMeans DEF OnboardingInv
<1>2. QED
  BY <1>1, OnboardingInvariance, PTL

\* The agreement of an approved visit's tenant is still the one the tracker row
\* points at when the lease has moved on.
THEOREM ApprovalsKept == OnboardingSpec => []ApprovedHasAgreement
<1>1. OnboardingInv => ApprovedHasAgreement
  BY TrackMeans DEF OnboardingInv
<1>2. QED
  BY <1>1, OnboardingInvariance, PTL

\* A tenant never has more agreements than approved visits, whatever became of the
\* first agreement since.
THEOREM ApprovalsFirst == OnboardingSpec => []AgreementsFollowApprovals
<1>1. OnboardingInv => AgreementsFollowApprovals
  <2>1. \A t \in Users :
          ApprovalsOf(visit, t) = {v \in Visits : Made(v) /\ visit[v].tenant_id = t
                                         /\ visit[v].visit_result = "APPROVED"}
    BY DEF ApprovalsOf, Made
  <2>2. QED
    BY <2>1 DEF OnboardingInv, FewerInv, Fewer, AgreementsOf, AgreementsFollowApprovals
<1>2. QED
  BY <1>1, OnboardingInvariance, PTL

\* A confirmation does not move a tracker back, whichever of the visit and the lease
\* services has moved it on.
THEOREM TrackersNotMovedBack == OnboardingSpec => ConfirmNeverRegressesTracker
<1>1. OnboardingInv /\ [OnboardingNext]_onboardingVars =>
        [\A v \in Visits :
            Made(v) /\ visit[v].status # "CONFIRMED" /\ visit'[v].status = "CONFIRMED" =>
                LET t == visit[v].tenant_id IN
                workflow[t].state \notin EarlyState =>
                    workflow'[t].state = workflow[t].state]_vars
  <2> SUFFICES ASSUME OnboardingInv, [OnboardingNext]_onboardingVars, NEW v \in Visits, Made(v),
                      visit[v].status # "CONFIRMED", visit'[v].status = "CONFIRMED",
                      workflow[visit[v].tenant_id].state \notin EarlyState
               PROVE  workflow'[visit[v].tenant_id].state = workflow[visit[v].tenant_id].state
    OBVIOUS
  <2>1. [Next]_vars
    BY DEF OnboardingNext, VisitRequestStep, LeaseRequestStep, onboardingVars, vars
  <2>2. QED
    BY <2>1, ConfirmedKeepsTracker DEF OnboardingInv
<1>2. QED
  BY <1>1, OnboardingInvariance, PTL DEF OnboardingSpec, ConfirmNeverRegressesTracker

-----------------------------------------------------------------------------
(***************************************************************************)
(* The properties of the visits, with lease requests in between: these     *)
(* write neither visits nor proposals and notify nobody of a turn.         *)
(***************************************************************************)
LEMMA OnboardingStep ==
    [OnboardingNext]_onboardingVars =>
        [Next]_vars \/ UNCHANGED <<visit, proposal, managers, activeRole>>
BY DEF OnboardingNext, VisitRequestStep, LeaseRequestStep, onboardingVars, vars

LEMMA OnboardingSides == OnboardingSpec => [](OnboardingInv /\ SidesInv)
<1>1. OnboardingInit => SidesInv
  BY DEF OnboardingInit, Init, SidesInv, NotSelfConducted, Made
<1>2. OnboardingInv /\ SidesInv /\ [OnboardingNext]_onboardingVars => SidesInv'
  <2> SUFFICES ASSUME OnboardingInv, SidesInv, [OnboardingNext]_onboardingVars
               PROVE  SidesInv'
    OBVIOUS
  <2>1. CASE [Next]_vars
    BY <2>1, SidesNext DEF OnboardingInv
  <2>2. CASE UNCHANGED <<visit, proposal>>
    BY <2>2 DEF SidesInv, NotSelfConducted, AttributedRight, Made
  <2>3. QED
    BY <2>1, <2>2, OnboardingStep
<1>3. QED
  BY <1>1, <1>2, OnboardingInvInit, OnboardingInvNext, PTL DEF OnboardingSpec

\* However lease and visit requests alternate: one side has the turn and it is the
\* other's offer that is open, at most one proposal is, the status tells what
\* happened, and no tenant acts for the staff.
THEOREM VisitsKept ==
    OnboardingSpec => [](/\ TurnIsOtherSides
                         /\ OnlyCurrentIsOpen
                         /\ StatusReflectsHistory
                         /\ TenantNeverActsAsStaff)
<1>1. OnboardingInv => TurnIsOtherSides /\ OnlyCurrentIsOpen /\ StatusReflectsHistory
  BY ConsistentMeans DEF OnboardingInv, IInv
<1>2. OnboardingInv /\ SidesInv => TenantNeverActsAsStaff
  BY SidesMeans DEF OnboardingInv
<1>3. QED
  BY <1>1, <1>2, OnboardingSides, PTL

\* No lease request reopens a visit that is rejected or took place.
THEOREM SettledKept == OnboardingSpec => SettledStaysSettled
<1>1. OnboardingInv /\ [OnboardingNext]_onboardingVars =>
        [\A v \in Visits : Made(v) =>
            /\ visit[v].status = "REJECTED" => visit'[v].status = "REJECTED"
            /\ visit[v].status = "COMPLETED" => visit'[v].status \in {"COMPLETED", "REJECTED"}
            /\ visit[v].status \in ClosedStatus => visit'[v].status # "NEGOTIATING"
            /\ visit[v].visit_result # "PENDING" =>
                   visit'[v].visit_result = visit[v].visit_result]_vars
  <2> SUFFICES ASSUME OnboardingInv, [OnboardingNext]_onboardingVars, NEW v \in Visits, Made(v)
               PROVE  KeepsSettled(visit[v], visit'[v])
    BY DEF KeepsSettled
  <2>1. CASE [Next]_vars
    BY <2>1, SettledStep DEF OnboardingInv, Made
  <2>2. CASE UNCHANGED visit
    BY <2>2 DEF KeepsSettled, ClosedStatus
  <2>3. QED
    BY <2>1, <2>2, OnboardingStep
<1>2. QED
  BY <1>1, OnboardingInvariance, PTL DEF OnboardingSpec, SettledStaysSettled

\* No lease request confirms a visit, and nobody confirms an own proposal.
THEOREM ConfirmationsKept == OnboardingSpec => ConfirmedByOtherSide
<1>1. OnboardingInv /\ SidesInv /\ [OnboardingNext]_onboardingVars =>
        [\A v \in Visits :
            /\ Made(v)
            /\ visit[v].status \notin {"CONFIRMED", "CANCELLED"}
            /\ visit'[v].status = "CONFIRMED"
            => LET p == proposal'[visit'[v].current_proposal_id] IN
               (p.proposed_by = visit[v].tenant_id)
                   # (p.responded_by = visit[v].tenant_id)]_vars
  <2> SUFFICES ASSUME OnboardingInv, SidesInv, [OnboardingNext]_onboardingVars,
                      NEW v \in Visits, Made(v),
                      visit[v].status \notin {"CONFIRMED", "CANCELLED"},
                      visit'[v].status = "CONFIRMED"
               PROVE  AgreedBySides(v)
    BY DEF AgreedBySides
  <2>1. [Next]_vars
    BY OnboardingStep
  <2>2. QED
    BY <2>1, OnlyAcceptConfirms, AcceptedByOtherSide DEF OnboardingInv, Made
<1>2. QED
  BY <1>1, OnboardingSides, PTL DEF OnboardingSpec, ConfirmedByOtherSide

\* A turn is handed over by visit requests only, and announced.
THEOREM AnnouncementsKept == OnboardingSpec => TurnHandedOverIsAnnounced
<1>1. OnboardingInv /\ [OnboardingNext]_onboardingVars =>
        [\A v \in Visits :
            /\ visit'[v] # NULL
            /\ visit'[v] # visit[v]
            /\ TurnHolders(visit'[v]) # {}
            => notified' \cap TurnHolders(visit'[v]) # {}]_vars
  <2> SUFFICES ASSUME OnboardingInv, [OnboardingNext]_onboardingVars, NEW v \in Visits,
                      visit'[v] # NULL, visit'[v] # visit[v], TurnHolders(visit'[v]) # {}
               PROVE  notified' \cap TurnHolders(visit'[v]) # {}
    OBVIOUS
  <2>1. [Next]_vars
    BY OnboardingStep
  <2>2. QED
    BY <2>1, AnnouncedStep DEF OnboardingInv
<1>2. QED
  BY <1>1, OnboardingInvariance, PTL DEF OnboardingSpec, TurnHandedOverIsAnnounced

-----------------------------------------------------------------------------
(***************************************************************************)
(* The properties of the leases, with the visits as they are in place of   *)
(* VisitStep.                                                              *)
(***************************************************************************)
LEMMA SameLeaseProperties ==
    /\ Lease!GateMatchesAgreement <=> LP!GateMatchesAgreement
    /\ Lease!TrackerTellsTruth <=> LP!TrackerTellsTruth
    /\ Lease!LastApprovalActivates <=> LP!LastApprovalActivates
    /\ Lease!AdvancePerSignedAgreement <=> LP!AdvancePerSignedAgreement
    /\ Lease!OneAgreementToSign <=> LP!OneAgreementToSign
BY DEF Lease!GateMatchesAgreement, LP!GateMatchesAgreement,
       Lease!TrackerTellsTruth, LP!TrackerTellsTruth,
       Lease!LastApprovalActivates, LP!LastApprovalActivates,
       Lease!AdvancePerSignedAgreement, LP!AdvancePerSignedAgreement,
       Lease!DepositOf, LP!DepositOf,
       Lease!OneAgreementToSign, LP!OneAgreementToSign

LEMMA LeaseInvMeans ==
    LP!IInv => /\ LP!GateMatchesAgreement
               /\ LP!TrackerTellsTruth
               /\ LP!LastApprovalActivates
               /\ LP!AdvancePerSignedAgreement
               /\ LP!OneAgreementToSign
<1>1. LP!LeaseConstants /\ LP!LeaseNullIsNoValue /\ LP!IInv =>
            /\ LP!GateMatchesAgreement
            /\ LP!TrackerTellsTruth
            /\ LP!LastApprovalActivates
            /\ LP!AdvancePerSignedAgreement
            /\ LP!OneAgreementToSign
  BY LP!IInvMeans
<1>2. QED
  BY <1>1, LeaseAssumptions

\* Whatever the visits do: the advance gate is true of the agreement the tracker
\* points at, the state it shows is so, the last approval activates, advances and
\* signed agreements correspond, and there is one agreement to sign at most.
THEOREM LeasesKept ==
    OnboardingSpec => [](/\ Lease!GateMatchesAgreement
                         /\ Lease!TrackerTellsTruth
                         /\ Lease!LastApprovalActivates
                         /\ Lease!AdvancePerSignedAgreement
                         /\ Lease!OneAgreementToSign)
<1>1. OnboardingInv => /\ Lease!GateMatchesAgreement
                       /\ Lease!TrackerTellsTruth
                       /\ Lease!LastApprovalActivates
                       /\ Lease!AdvancePerSignedAgreement
                       /\ Lease!OneAgreementToSign
  BY LeaseInvMeans, SameLeaseProperties DEF OnboardingInv
<1>2. QED
  BY <1>1, OnboardingInvariance, PTL

\* No visit activates an agreement: it becomes active only in the request that has
\* its advance paid, and the property gets its tenant in the same request.
THEOREM ActivationsPaid == OnboardingSpec => Lease!ActivationIsPaid
<1>1. OnboardingInv /\ [OnboardingNext]_onboardingVars =>
        [\A g \in Agreements :
            /\ agreement'[g] # agreement[g]
            /\ agreement'[g] # NULL
            /\ agreement'[g].status = "ACTIVE"
            => /\ payment'[agreement'[g].deposit_payment_id].status = "PAID"
               /\ occupant' = agreement'[g].tenant_id]_(Lease!vars)
  <2> SUFFICES ASSUME OnboardingInv, [OnboardingNext]_onboardingVars, NEW g \in Agreements
               PROVE  LP!Paid(g)
    BY DEF LP!Paid
  <2>1. [LP!Next]_LP!vars
    <3>1. CASE VisitRequestStep
      BY <3>1, VisitsRefine DEF OnboardingInv, VisitRequestStep, LP!Next, LP!vars
    <3>2. CASE LeaseRequestStep
      BY <3>2, SameLeases DEF LeaseRequestStep, LP!Next
    <3>3. CASE UNCHANGED onboardingVars
      BY <3>3 DEF onboardingVars, vars, LP!vars
    <3>4. QED
      BY <3>1, <3>2, <3>3 DEF OnboardingNext
  <2>2. LP!LeaseConstants /\ LP!LeaseNullIsNoValue /\ LP!IInv /\ [LP!Next]_LP!vars
            => LP!Paid(g)
    BY LP!StepPaid
  <2>3. QED
    BY <2>1, <2>2, LeaseAssumptions DEF OnboardingInv
<1>2. QED
  BY <1>1, OnboardingInvariance, PTL DEF OnboardingSpec, Lease!ActivationIsPaid

\* Nobody gets through onboarding unseen: who has an agreement at all, and so who
\* has the advance gate open, was approved after a visit to the property.
THEOREM NobodyUnseen ==
    OnboardingSpec =>
        [](\A t \in Users :
              \/ \E g \in Agreements : agreement[g] # NULL /\ agreement[g].tenant_id = t
              \/ workflow[t] # NULL /\ workflow[t].advance_approved
              => \E v \in Visits : /\ Made(v) /\ visit[v].tenant_id = t
                                   /\ visit[v].visit_result = "APPROVED")
<1>1. ASSUME OnboardingInv, NEW t \in Users,
             NEW g \in Agreements, agreement[g] # NULL, agreement[g].tenant_id = t
      PROVE  \E v \in Visits : /\ Made(v) /\ visit[v].tenant_id = t
                               /\ visit[v].visit_result = "APPROVED"
  <2>1. Cardinality(AgreementsOf(agreement, t)) <= Cardinality(ApprovalsOf(visit, t))
    BY <1>1 DEF OnboardingInv, FewerInv, Fewer
  <2>2. AgreementsOf(agreement, t) # {}
    BY <1>1 DEF AgreementsOf
  <2>3. Cardinality(AgreementsOf(agreement, t)) # 0
    BY <2>2, FiniteRows, FS_EmptySet
  <2>4. ApprovalsOf(visit, t) # {}
    BY <2>1, <2>3, FiniteRows, FS_EmptySet
  <2>5. QED
    BY <2>4 DEF ApprovalsOf, Made
<1>2. ASSUME OnboardingInv, NEW t \in Users, workflow[t] # NULL, workflow[t].advance_approved
      PROVE  \E g \in Agreements : agreement[g] # NULL /\ agreement[g].tenant_id = t
  <2>1. LP!GateMatchesAgreement
    BY <1>2, LeaseInvMeans DEF OnboardingInv
  <2>2. workflow[t].agreement_id \in Agreements \cup {NULL}
    BY <1>2 DEF OnboardingInv, IInv, TypeOK, WorkflowRow, WorkflowRows
  <2>3. QED
    BY <1>2, <2>1, <2>2 DEF LP!GateMatchesAgreement
<1>3. OnboardingInv =>
        \A t \in Users :
              \/ \E g \in Agreements : agreement[g] # NULL /\ agreement[g].tenant_id = t
              \/ workflow[t] # NULL /\ workflow[t].advance_approved
              => \E v \in Visits : /\ Made(v) /\ visit[v].tenant_id = t
                                   /\ visit[v].visit_result = "APPROVED"
  BY <1>1, <1>2
<1>4. QED
  BY <1>3, OnboardingInvariance, PTL
=============================================================================
