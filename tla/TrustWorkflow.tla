----------------------------- MODULE TrustWorkflow -----------------------------
(***************************************************************************)
(* Trust assessments and what operators do with them (backend/app/api/     *)
(* trust.py, trust_events.py, services/trust_assessment.py,                *)
(* trust_persistence.py).                                                  *)
(*                                                                         *)
(* An assessment reads the evidence in two parts, with the question to the *)
(* external source between them; the evidence changes meanwhile.  Requests *)
(* for an action run in threads: what one of them checks may be inserted   *)
(* by another before it inserts itself.  A client repeats a request whose  *)
(* answer it did not get.                                                  *)
(***************************************************************************)
EXTENDS Integers, FiniteSets, Bags

CONSTANTS
    Evidence,      \* what the tables and the external source may show:
                   \* [pair, window, local, corroboration, station]
    Operators,     \* users with the role
    ActionIds,     \* client-made ids
    Contents,      \* type and stripped note of an action
    MaxAssessed    \* bound: assessments that are committed

VARIABLES
    evidence,      \* now
    assessing,     \* of each operator: what its assessment read before it asked
    assessments,   \* table trust_assessments; a row is its content
    actions,       \* table trust_operator_actions
    request,       \* of each operator: its request for an action, and how far it is
    confirmed,     \* requests answered with success
    audits         \* table audit_events, a bag

trustVars == <<evidence, assessing, assessments, actions, request, confirmed, audits>>

\* evaluate_station_record and the evaluators that fill the tables are other
\* components: here evidence comes in.
EvidenceChanges ==
    /\ evidence' \in Evidence \ {evidence}
    /\ UNCHANGED <<assessing, assessments, actions, request, confirmed, audits>>

-----------------------------------------------------------------------------
(* The decision (trust_assessment.py)                                      *)

Contradicts(e) == "FLAGGED" \in {e.pair, e.window} \/ e.corroboration = "CONFLICTING"

Missing(e) == \/ {e.pair, e.window} \cap {"NONE", "INSUFFICIENT_DATA"} # {}
              \/ e.corroboration = "NONE" \/ e.station = "NONE"

Weak(e) == \/ e.corroboration \in {"LOCAL_ONLY", "EXTERNAL_ONLY", "STALE", "UNAVAILABLE"}
           \/ e.station # "HEALTHY"

TrustOf(e) ==
    CASE Contradicts(e)                                     -> "QUESTIONABLE"
      [] ~Contradicts(e) /\ Missing(e)                      -> "INSUFFICIENT_DATA"
      [] ~Contradicts(e) /\ ~Missing(e) /\ Weak(e)          -> "LOW_CONFIDENCE"
      [] ~Contradicts(e) /\ ~Missing(e) /\ ~Weak(e)         -> "TRUSTED"

-----------------------------------------------------------------------------
(* create_trust_assessment                                                 *)

\* _evaluate_trust up to the await.
BeginAssessment(o) ==
    /\ assessing[o] = {}
    /\ assessing' = [assessing EXCEPT ![o] = {evidence}]
    /\ UNCHANGED <<evidence, assessments, actions, request, confirmed, audits>>

\* Only a local observation can be corroborated.
CorroborationComponent(read) == IF read.local THEN evidence.corroboration ELSE "NONE"

\* The station is that of the source of the evaluation that was read.
StationComponent(read) ==
    IF {read.pair, read.window} = {"NONE"} THEN "NONE" ELSE evidence.station

Assembled(read) == [read EXCEPT !.corroboration = CorroborationComponent(read),
                                !.station = StationComponent(read)]

\* create_snapshot: the id of a row is derived from its content, without ages and
\* times, so that the same content is the same row.
AssessmentRow(seen) == [seen |-> seen, state |-> TrustOf(seen)]

Audited(what) == audits' = audits (+) SetToBag({what})

\* insert_snapshot does nothing on a conflict; inserted or not, the request is
\* audited, in the same transaction.
FinishAssessment(o) ==
    /\ BagCardinality(audits) < MaxAssessed
    /\ \E read \in assessing[o] :
         LET row == AssessmentRow(Assembled(read)) IN
         /\ assessments' = assessments \cup {row}
         /\ Audited([event |-> "assessment", of |-> row, inserted |-> row \notin assessments])
    /\ assessing' = [assessing EXCEPT ![o] = {}]
    /\ UNCHANGED <<evidence, actions, request, confirmed>>

-----------------------------------------------------------------------------
(* create_operator_action                                                  *)

Wanted(o) == [id |-> request[o].id, assessment |-> request[o].assessment,
              content |-> request[o].content, actor |-> o]
Stored(id) == {a \in actions : a.id = id}

Becomes(o, step) == request' = [request EXCEPT ![o].step = step]

\* An answer may get lost; the client then still has the request.
Confirm(o) ==
    \/ confirmed' = confirmed \cup {Wanted(o)} /\ Becomes(o, "none")
    \/ UNCHANGED confirmed /\ Becomes(o, "wanted")

Refuse(o) == UNCHANGED confirmed /\ Becomes(o, "none")

WantAction(o, id, row, c) ==
    /\ request[o].step = "none"
    /\ request' = [request EXCEPT ![o] = [step |-> "wanted", id |-> id, assessment |-> row,
                                          content |-> c]]
    /\ UNCHANGED <<evidence, assessing, assessments, actions, confirmed, audits>>

\* The id is looked up: new, known with this content, or known with another.
CheckAction(o) ==
    /\ request[o].step = "wanted"
    /\ \/ Stored(request[o].id) = {} /\ Becomes(o, "checked") /\ UNCHANGED confirmed
       \/ Stored(request[o].id) = {Wanted(o)} /\ Confirm(o)
       \/ Stored(request[o].id) \notin {{}, {Wanted(o)}} /\ Refuse(o)
    /\ UNCHANGED <<evidence, assessing, assessments, actions, audits>>

\* action_values and insert_action: nothing on a conflict of the id.
WithAction(row) == IF Stored(row.id) = {} THEN actions \cup {row} ELSE actions

\* insert ... on conflict do nothing, audited if it inserted, committed.
InsertAction(o) ==
    /\ request[o].step = "checked"
    /\ actions' = WithAction(Wanted(o))
    /\ \/ /\ Stored(request[o].id) = {}
          /\ Audited([event |-> "action", of |-> Wanted(o), inserted |-> TRUE])
          /\ Confirm(o)
       \/ /\ Stored(request[o].id) # {}
          /\ Becomes(o, "conflict")
          /\ UNCHANGED <<audits, confirmed>>
    /\ UNCHANGED <<evidence, assessing, assessments>>

\* Mutant: whoever came second is told that the action exists.
ConfirmConflict(o) ==
    /\ request[o].step = "conflict"
    /\ Confirm(o)
    /\ UNCHANGED <<evidence, assessing, assessments, actions, audits>>

\* What the other request inserted is read and compared.
AfterConflict(o) ==
    /\ request[o].step = "conflict"
    /\ \/ Stored(request[o].id) = {Wanted(o)} /\ Confirm(o)
       \/ Stored(request[o].id) # {Wanted(o)} /\ Refuse(o)
    /\ UNCHANGED <<evidence, assessing, assessments, actions, audits>>

-----------------------------------------------------------------------------
TrustInit ==
    /\ evidence \in Evidence
    /\ assessing = [o \in Operators |-> {}]
    /\ assessments = {} /\ actions = {} /\ confirmed = {}
    /\ request = [o \in Operators |-> [step |-> "none"]]
    /\ audits = EmptyBag

TrustNext ==
    \/ EvidenceChanges
    \/ \E o \in Operators :
         \/ BeginAssessment(o) \/ FinishAssessment(o)
         \/ \E id \in ActionIds, row \in assessments, c \in Contents : WantAction(o, id, row, c)
         \/ CheckAction(o) \/ InsertAction(o) \/ AfterConflict(o)

TrustSpec == TrustInit /\ [][TrustNext]_trustVars

-----------------------------------------------------------------------------
(* Properties                                                              *)

AuditedOnce(what) == BagIn(what, audits) /\ audits[what] = 1

\* However requests cross and are repeated, an operator who was told that an
\* action is recorded finds it under its id with what was asked for, and every
\* action and every assessment has exactly one audit record of its insertion.
ActionsAreRecordedOnce ==
    /\ confirmed \subseteq actions
    /\ \A a, b \in actions : a.id = b.id => a = b
    /\ \A a \in actions : AuditedOnce([event |-> "action", of |-> a, inserted |-> TRUE])
    /\ \A row \in assessments :
         AuditedOnce([event |-> "assessment", of |-> row, inserted |-> TRUE])
=============================================================================
