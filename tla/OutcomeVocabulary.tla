--------------------------- MODULE OutcomeVocabulary ---------------------------
(***************************************************************************)
(* The registered vocabulary of refund outcome events and the part of the  *)
(* structural verifier that judges one event by it                         *)
(* (packages/core/src/vocabulary.mjs, verify-bundle.mjs and the registry   *)
(* spec/outcome-event-vocabulary-v0.1.json).                               *)
(*                                                                         *)
(* Event types are written without their prefix commerce.refund.; the type *)
(* "extension" stands for any well-formed type outside the reserved        *)
(* namespaces.  What is left out of an event (identifiers, digests, actor, *)
(* subject, claim) has no influence on the verdict of a valid bundle.      *)
(***************************************************************************)
EXTENDS Naturals

CONSTANT Issuers  \* the issuers a bundle declares

Phases == {"INTENT", "AUTHORIZATION", "DISPATCH", "ACCEPTANCE", "EFFECT",
           "SETTLEMENT", "TERMINATION"}
Statuses == {"PENDING", "SUCCEEDED", "FAILED", "PARTIAL", "CANCELLED",
             "REVERSED", "EXPIRED"}
SourceClasses == {"SELF_CLAIMED", "GATEWAY_OBSERVED", "RECEIVER_ATTESTED",
                  "SYSTEM_OF_RECORD", "INDEPENDENTLY_SETTLED"}

\* The statuses a phase admits (registry member "phases").
PhaseStatuses(phase) ==
    CASE phase \in {"INTENT", "AUTHORIZATION", "DISPATCH"} ->
            {"PENDING", "SUCCEEDED", "FAILED"}
      [] phase \in {"ACCEPTANCE", "EFFECT", "SETTLEMENT"} ->
            {"PENDING", "SUCCEEDED", "FAILED", "PARTIAL"}
      [] OTHER -> {"SUCCEEDED", "FAILED", "CANCELLED", "REVERSED", "EXPIRED"}

\* The phases a source class can speak about (member "source_phase_rules").
SourcePhases(source) ==
    CASE source = "RECEIVER_ATTESTED" -> Phases \ {"INTENT"}
      [] source = "SYSTEM_OF_RECORD" -> Phases \ {"INTENT", "DISPATCH"}
      [] source = "INDEPENDENTLY_SETTLED" -> {"SETTLEMENT", "TERMINATION"}
      [] OTHER -> Phases

\* The registered refund events: <<type, phase, status>> (member "event_types").
RegisteredEvents ==
    {<<"requested", "INTENT", "SUCCEEDED">>,
     <<"authorized", "AUTHORIZATION", "SUCCEEDED">>,
     <<"authorization_failed", "AUTHORIZATION", "FAILED">>,
     <<"dispatched", "DISPATCH", "SUCCEEDED">>,
     <<"dispatch_failed", "DISPATCH", "FAILED">>,
     <<"accepted", "ACCEPTANCE", "SUCCEEDED">>,
     <<"rejected", "ACCEPTANCE", "FAILED">>,
     <<"created", "EFFECT", "SUCCEEDED">>,
     <<"creation_failed", "EFFECT", "FAILED">>,
     <<"settlement_pending", "SETTLEMENT", "PENDING">>,
     <<"settled", "SETTLEMENT", "SUCCEEDED">>,
     <<"settlement_failed", "SETTLEMENT", "FAILED">>,
     <<"cancelled", "TERMINATION", "CANCELLED">>,
     <<"expired", "TERMINATION", "EXPIRED">>,
     <<"reversed", "TERMINATION", "REVERSED">>}

RegisteredTypes == {r[1] : r \in RegisteredEvents}

\* "settlement_reversed" is evaluated by the verdict engine but not registered.
EventTypes == RegisteredTypes \cup {"settlement_reversed", "extension"}

OutcomeEvents ==
    [type : EventTypes, phase : Phases, status : Statuses,
     source : SourceClasses, issuer : Issuers, occurred : Nat, recorded : Nat]

\* validateEventVocabulary reports no issue.
InVocabulary(e) ==
    /\ e.status \in PhaseStatuses(e.phase)
    /\ e.phase \in SourcePhases(e.source)
    /\ \/ e.type = "extension"
       \/ <<e.type, e.phase, e.status>> \in RegisteredEvents

\* verifyEvent reports no issue.
EventValid(e) ==
    /\ e.occurred <= e.recorded
    /\ InVocabulary(e)
================================================================================
