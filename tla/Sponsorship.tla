----------------------------- MODULE Sponsorship -----------------------------
(***************************************************************************)
(* One sponsorship inquiry, from its review to the sponsors it becomes, a  *)
(* deliverable of a sponsor, and a lead that the sponsor captured from a   *)
(* participant, with the participant's consent.  No handler locks the row  *)
(* it decides on: each reads it, and writes it later.                      *)
(***************************************************************************)
EXTENDS StaleCopy, FiniteSets

CONSTANTS
    Events,   \* events linked to the inquiry
    Kinds,    \* engagement types, "lead_capture" among them
    Sessions  \* requests that run concurrently

\* ALLOWED_INQUIRY_TRANSITIONS
InquiryMoves ==
    {<<"new", "reviewing">>, <<"approved", "confirmed">>, <<"confirmed", "closed">>,
     <<"rejected", "closed">>}
    \cup ({"new", "reviewing"} \X {"approved", "rejected", "closed"})
    \cup ({"approved"} \X {"rejected", "closed"})
InquiryStatus == {"new", "reviewing", "approved", "confirmed", "rejected", "closed"}

SponsorMoves ==
    {<<"confirmed", "active">>, <<"confirmed", "cancelled">>, <<"active", "completed">>,
     <<"active", "cancelled">>, <<"completed", "active">>, <<"cancelled", "confirmed">>}
SponsorStatus == {"none", "confirmed", "active", "completed", "cancelled"}

DeliverableMoves ==
    {<<"pending", "in_progress">>, <<"pending", "cancelled">>, <<"in_progress", "completed">>,
     <<"in_progress", "cancelled">>, <<"in_progress", "pending">>,
     <<"completed", "in_progress">>, <<"cancelled", "pending">>}
DeliverableStatus == {"none", "pending", "in_progress", "completed", "cancelled"}

\* ALLOWED_LEAD_STATUS_TRANSITIONS
Working == {"captured", "qualified", "contacted"}
LeadMoves ==
    {<<"captured", "qualified">>, <<"qualified", "contacted">>, <<"contacted", "converted">>}
    \cup (Working \X {"dismissed", "unsubscribed"}) \cup {<<"converted", "unsubscribed">>}
LeadStatus == Working \cup {"converted", "dismissed", "unsubscribed"}
Consent == {"not_given", "given", "withdrawn"}

NoLead == [kind |-> "none", status |-> "none", consent |-> "not_given"]
Lead == {NoLead} \cup [kind : Kinds, status : LeadStatus, consent : Consent]
Deliverable == [status : DeliverableStatus, dated : BOOLEAN]
Idle == [op |-> "idle"]

VARIABLES
    inquiry,     \* status of the inquiry
    sponsor,     \* status of the sponsor of each event, unique per inquiry
    deliverable, \* a deliverable of the sponsors; dated: completed_at is set
    lead,        \* a sponsor_engagement
    late,        \* history: rows written from a copy that was out of date
    sess         \* what each request has read

vars == <<inquiry, sponsor, deliverable, lead, late, sess>>

TypeOK ==
    /\ inquiry \in InquiryStatus
    /\ sponsor \in [Events -> SponsorStatus]
    /\ deliverable \in Deliverable
    /\ lead \in Lead
    /\ late \subseteq {"inquiry", "sponsor", "deliverable", "lead"}
    /\ \A s \in Sessions :
          \/ sess[s] = Idle
          \/ sess[s].op = "inquiry" /\ sess[s] \in [op : {"inquiry"}, copy : InquiryStatus]
          \/ sess[s].op = "sponsor" /\ sess[s] \in [op : {"sponsor"}, on : Events, copy : SponsorStatus]
          \/ sess[s].op = "deliverable" /\ sess[s] \in [op : {"deliverable"}, copy : Deliverable]
          \/ sess[s].op = "lead" /\ sess[s] \in [op : {"lead"}, copy : Lead]

Init ==
    /\ inquiry = "new"
    /\ sponsor = [e \in Events |-> "none"]
    /\ deliverable = [status |-> "none", dated |-> FALSE]
    /\ lead = NoLead
    /\ late = {}
    /\ sess = [s \in Sessions |-> Idle]

Begin(s, copy) ==
    /\ sess[s] = Idle
    /\ sess' = [sess EXCEPT ![s] = copy]
    /\ UNCHANGED <<inquiry, sponsor, deliverable, lead, late>>

\* The request s ends; what it wrote was decided on a copy of row.
Finish(s, row) ==
    /\ late' = IF sess[s].copy # row THEN late \cup {sess[s].op} ELSE late
    /\ sess' = [sess EXCEPT ![s] = Idle]
----------------------------------------------------------------------------
(* The inquiry and its sponsors.                                           *)

LoadInquiry(s) == Begin(s, [op |-> "inquiry", copy |-> inquiry])

\* update_status
Review(s, to) ==
    /\ sess[s].op = "inquiry"
    /\ to # "confirmed"
    /\ <<sess[s].copy, to>> \in InquiryMoves
    /\ inquiry' = to
    /\ Finish(s, inquiry)
    /\ UNCHANGED <<sponsor, deliverable, lead>>

MayAssign(status) == status = "approved"

AssignSponsor(s, e) ==
    /\ sess[s].op = "inquiry"
    /\ MayAssign(sess[s].copy)
    /\ sponsor[e] = "none"
    /\ sponsor' = [sponsor EXCEPT ![e] = "confirmed"]
    /\ inquiry' = "confirmed"
    /\ Finish(s, inquiry)
    /\ UNCHANGED <<deliverable, lead>>

LoadSponsor(s, e) ==
    /\ sponsor[e] # "none"
    /\ Begin(s, [op |-> "sponsor", on |-> e, copy |-> sponsor[e]])

UpdateSponsor(s, to) ==
    /\ sess[s].op = "sponsor"
    /\ <<sess[s].copy, to>> \in SponsorMoves
    /\ sponsor' = [sponsor EXCEPT ![sess[s].on] = to]
    /\ Finish(s, sponsor[sess[s].on])
    /\ UNCHANGED <<inquiry, deliverable, lead>>
----------------------------------------------------------------------------
(* The deliverable.                                                        *)

CreateDeliverable(e) ==
    /\ sponsor[e] # "none"
    /\ deliverable.status = "none"
    /\ deliverable' = [status |-> "pending", dated |-> FALSE]
    /\ UNCHANGED <<inquiry, sponsor, lead, late, sess>>

LoadDeliverable(s) ==
    /\ deliverable.status # "none"
    /\ Begin(s, [op |-> "deliverable", copy |-> deliverable])

UpdateDeliverable(s, to) ==
    /\ sess[s].op = "deliverable"
    /\ <<sess[s].copy.status, to>> \in DeliverableMoves
    /\ deliverable' = Written(deliverable, sess[s].copy, [status |-> to, dated |-> to = "completed"])
    /\ Finish(s, deliverable)
    /\ UNCHANGED <<inquiry, sponsor, lead>>
----------------------------------------------------------------------------
(* The lead.  A sponsor that is neither confirmed nor active has no access; *)
(* the participant may always withdraw.                                    *)

Engaged == \E e \in Events : sponsor[e] \in {"confirmed", "active"}

\* Mutant: a lead is captured without consent.
CaptureFreely(kind, consent) == kind \in Kinds /\ consent \in Consent \ {"withdrawn"}
MayCapture(kind, consent) ==
    /\ consent \in {"not_given", "given"}
    /\ kind = "lead_capture" => consent = "given"

Capture(kind, consent) ==
    /\ Engaged
    /\ lead = NoLead   \* unique, whatever became of the earlier engagement
    /\ MayCapture(kind, consent)
    /\ lead' = [kind |-> kind, status |-> "captured", consent |-> consent]
    /\ UNCHANGED <<inquiry, sponsor, deliverable, late, sess>>

LoadLead(s) ==
    /\ lead # NoLead
    /\ Begin(s, [op |-> "lead", copy |-> lead])

WriteLead(s, new) ==
    /\ lead' = Written(lead, sess[s].copy, new)
    /\ Finish(s, lead)
    /\ UNCHANGED <<inquiry, sponsor, deliverable>>

UpdateLeadStatus(s, to) ==
    /\ sess[s].op = "lead"
    /\ Engaged
    /\ <<sess[s].copy.status, to>> \in LeadMoves
    /\ WriteLead(s, [sess[s].copy EXCEPT !.status = to,
                         !.consent = IF to = "unsubscribed" THEN "withdrawn" ELSE @])

GiveConsent(s) ==
    /\ sess[s].op = "lead"
    /\ Engaged
    /\ WriteLead(s, [sess[s].copy EXCEPT !.consent = "given"])

WithdrawConsent(s) ==
    /\ sess[s].op = "lead"
    /\ WriteLead(s, [sess[s].copy EXCEPT !.consent = "withdrawn", !.status = "unsubscribed"])

\* A request that is refused or fails.
Abort(s) ==
    /\ sess[s] # Idle
    /\ sess' = [sess EXCEPT ![s] = Idle]
    /\ UNCHANGED <<inquiry, sponsor, deliverable, lead, late>>

Next ==
    \/ \E s \in Sessions :
          \/ LoadInquiry(s) \/ LoadDeliverable(s) \/ LoadLead(s)
          \/ \E to \in InquiryStatus : Review(s, to)
          \/ \E e \in Events : AssignSponsor(s, e) \/ LoadSponsor(s, e)
          \/ \E to \in SponsorStatus : UpdateSponsor(s, to)
          \/ \E to \in DeliverableStatus : UpdateDeliverable(s, to)
          \/ \E to \in LeadStatus : UpdateLeadStatus(s, to)
          \/ GiveConsent(s) \/ WithdrawConsent(s) \/ Abort(s)
    \/ \E e \in Events : CreateDeliverable(e)
    \/ \E k \in Kinds, c \in Consent : Capture(k, c)

Spec == Init /\ [][Next]_vars
----------------------------------------------------------------------------
(* Properties, of the rows that no request overwrote from an old copy.     *)

\* An inquiry becomes the sponsor of one event, and then only closes.
SponsoredOnce ==
    "inquiry" \notin late =>
        /\ \A e, f \in Events : sponsor[e] # "none" /\ sponsor[f] # "none" => e = f
        /\ \A e \in Events : sponsor[e] # "none" => inquiry \in {"confirmed", "closed"}

\* Consent that was withdrawn leaves an unsubscribed lead, and a captured lead
\* that is still worked on has the participant's consent.
ConsentRespected ==
    "lead" \notin late =>
        /\ lead.consent = "withdrawn" => lead.status = "unsubscribed"
        /\ lead.kind = "lead_capture" /\ lead.status # "unsubscribed" => lead.consent = "given"

\* completed_at is set exactly while a deliverable is completed.
CompletionDated ==
    "deliverable" \notin late => (deliverable.dated <=> deliverable.status = "completed")

SponsorshipAgrees == SponsoredOnce /\ ConsentRespected /\ CompletionDated
=============================================================================
