----------------------------- MODULE BundleVerifier -----------------------------
(***************************************************************************)
(* The structural verifier of Evidence Bundles and the proofs in them      *)
(* (packages/core/src/verify-bundle.mjs, proofs.mjs, digest.mjs), and the  *)
(* verdict engine on top of it.                                            *)
(*                                                                         *)
(* A bundle is [legible, payload, proofs]: legible when its text parses    *)
(* and has the members of a bundle and of a payload with their types.  The *)
(* payload holds sequences of issuers, events, evidence and relationships, *)
(* and predecessor digests.  An object is a record whose members are what  *)
(* other objects refer to; all the members only the object itself is       *)
(* judged by (formats, enumerations, non-empty strings) are one: sound.    *)
(*                                                                         *)
(* Hashing is ideal: a digest is the content it was calculated from.  A    *)
(* signature is its key and its input (signature-input.mjs; the profile    *)
(* and the version in the input are the same in every bundle that passes). *)
(* The codes say which check failed.                                       *)
(***************************************************************************)
EXTENDS OutcomeVocabulary, SequencesExt

Rules == INSTANCE RefundVerdict

-----------------------------------------------------------------------------
(* Digests.                                                                *)

\* What stands where a well-formed digest should: no content has it.
Malformed == [malformed |-> TRUE]

\* calculateObjectDigest: the object without its own digest.
ObjectDigest(o) == [member \in DOMAIN o \ {"digest"} |-> o[member]]

\* withObjectDigest: seals an object.
WithObjectDigest(o) == [o EXCEPT !.digest = ObjectDigest(o)]

\* Mutant of PayloadDigest: the proofs are part of what is digested.
PayloadDigestWithProofs(b) == [payload |-> b.payload, proofs |-> b.proofs]

\* calculatePayloadDigest: the proofs are not part of it.
PayloadDigest(b) == [payload |-> b.payload]

-----------------------------------------------------------------------------
(* The checks of one object.                                               *)

Issue(code, found) == IF found THEN {code} ELSE {}

Ids(objects) == [i \in DOMAIN objects |-> objects[i].id]

DuplicateId(objects) == ~IsInjective(Ids(objects))

\* Array.find: the first of the objects with an identifier that one of them has.
First(objects, id) == objects[SelectInSeq(objects, LAMBDA o : o.id = id)]

IssuerIds(b) == Range(Ids(b.payload.issuers))

\* Mutant of ObjectDigestIssues: the declared digest is believed.
ObjectDigestIssuesFormat(o) == Issue("OBJECT_DIGEST_INVALID", o.digest = Malformed)

ObjectDigestIssues(o) ==
    IF o.digest = Malformed THEN {"OBJECT_DIGEST_INVALID"}
    ELSE Issue("OBJECT_DIGEST_MISMATCH", o.digest # ObjectDigest(o))

\* valid_from 0 and an unreachable valid_until stand for members left out.
IssuerIssues(issuer) ==
    Issue("ISSUER_MALFORMED", ~issuer.sound)
        \cup Issue("DUPLICATE_KEY_ID", DuplicateId(issuer.keys))
        \cup Issue("KEY_VALIDITY_INTERVAL_INVALID",
                   \E k \in Range(issuer.keys) : k.until <= k.from)

EventIssues(b, e) ==
    Issue("EVENT_MALFORMED", ~e.sound)
        \cup Issue("EVENT_RECORDED_BEFORE_OCCURRED", e.facts.recorded < e.facts.occurred)
        \cup Issue("EVENT_VOCABULARY", ~InVocabulary(e.facts))
        \cup Issue("EVENT_ISSUER_NOT_FOUND", e.facts.issuer \notin IssuerIds(b))
        \cup Issue("DUPLICATE_PARENT_DIGEST", ~IsInjective(e.parents))
        \cup ObjectDigestIssues(e)

EvidenceIssues(b, item) ==
    Issue("EVIDENCE_MALFORMED", ~item.sound)
        \cup Issue("EVIDENCE_ISSUER_NOT_FOUND", item.issuer \notin IssuerIds(b))
        \cup ObjectDigestIssues(item)

\* validateRelationshipVocabulary: what kinds of objects a relationship joins.
EndpointsPermitted(r) ==
    LET from == r.from[1]
        to == r.to[1]
    IN CASE r.type = "SUPPORTS" -> from \in {"evidence", "event"} /\ to = "event"
         [] r.type = "CONTRADICTS" -> {from, to} \subseteq {"evidence", "event"}
         [] r.type \in {"SUPERSEDES", "REVERSES"} -> {from, to} = {"event"}
         [] OTHER -> TRUE

RelationshipIssues(r) ==
    Issue("RELATIONSHIP_MALFORMED", ~r.sound)
        \cup Issue("RELATIONSHIP_SELF_REFERENCE", r.from = r.to)
        \cup Issue("RELATIONSHIP_ENDPOINT_TYPES_INVALID", ~EndpointsPermitted(r))
        \cup ObjectDigestIssues(r)

-----------------------------------------------------------------------------
(* The checks between objects.                                             *)

\* Mutant of ParentIssues: a parent that is not in the bundle is accepted.
ParentIssuesLoose(b, e) == Issue("PARENT_DIGEST_INVALID", Malformed \in Range(e.parents))

\* Parents are looked up among the digests that events declare.
ParentIssues(b, e) ==
    LET declared == {f.digest : f \in Range(b.payload.events)}
    IN UNION {IF d = Malformed THEN {"PARENT_DIGEST_INVALID"}
              ELSE IF d \notin declared THEN {"PARENT_EVENT_NOT_FOUND"}
              ELSE Issue("EVENT_SELF_PARENT", d = e.digest) : d \in Range(e.parents)}

EvidenceRefIssues(b, e) ==
    Issue("EVENT_EVIDENCE_NOT_FOUND",
          ~(e.evidence \subseteq Range(Ids(b.payload.evidence))))

Refs(kind, objects) == {<<kind, id>> : id \in Range(Ids(objects))}

EndpointIssues(b, r) ==
    LET resolvable == Refs("event", b.payload.events)
                        \cup Refs("evidence", b.payload.evidence)
                        \cup Refs("issuer", b.payload.issuers)
    IN Issue("RELATIONSHIP_FROM_NOT_FOUND", r.from \notin resolvable)
         \cup Issue("RELATIONSHIP_TO_NOT_FOUND", r.to \notin resolvable)

\* Events, evidence and relationships share one namespace.
ObjectIdIssues(b) ==
    Issue("DUPLICATE_OBJECT_ID",
          DuplicateId(b.payload.events \o b.payload.evidence \o b.payload.relationships))

PredecessorIssues(b) ==
    Issue("PREDECESSOR_DIGEST_INVALID", Malformed \in Range(b.payload.predecessors))
        \cup Issue("DUPLICATE_PREDECESSOR_DIGEST", ~IsInjective(b.payload.predecessors))

PayloadIssues(b) ==
    LET p == b.payload
    IN (UNION {IssuerIssues(i) : i \in Range(p.issuers)})
         \cup Issue("DUPLICATE_ISSUER_ID", DuplicateId(p.issuers))
         \cup (UNION {EventIssues(b, e) \cup ParentIssues(b, e) \cup EvidenceRefIssues(b, e) :
                         e \in Range(p.events)})
         \cup (UNION {EvidenceIssues(b, item) : item \in Range(p.evidence)})
         \cup (UNION {RelationshipIssues(r) \cup EndpointIssues(b, r) :
                         r \in Range(p.relationships)})
         \cup ObjectIdIssues(b)
         \cup PredecessorIssues(b)

-----------------------------------------------------------------------------
(* Proofs.                                                                 *)

TargetTypes == {"BUNDLE_PAYLOAD", "OUTCOME_EVENT", "EVIDENCE_ITEM", "RELATIONSHIP"}

Collection(b, type) ==
    [OUTCOME_EVENT |-> b.payload.events,
     EVIDENCE_ITEM |-> b.payload.evidence,
     RELATIONSHIP |-> b.payload.relationships][type]

\* resolveTarget finds something, and the digest it returns: of an object the
\* one it declares.
Resolves(b, type, id) ==
    type # "BUNDLE_PAYLOAD" => id \in Range(Ids(Collection(b, type)))

TargetDigest(b, type, id) ==
    IF type = "BUNDLE_PAYLOAD" THEN PayloadDigest(b)
    ELSE First(Collection(b, type), id).digest

\* The payload has no identifier (<<>>), and a proof of it names none.
TargetFormed(type, id) == type = "BUNDLE_PAYLOAD" => id = <<>>

\* createSignatureProof of a target that resolves; nothing else is looked at, so
\* a proof of the payload keeps an identifier it is given.
SignatureProof(b, type, id, issuer, keyId, key, proofId, now) ==
    [id |-> proofId, sound |-> TargetFormed(type, id), type |-> type, target |-> id,
     digest |-> TargetDigest(b, type, id), issuer |-> issuer,
     method |-> <<issuer, keyId>>, created |-> now,
     signature |-> [key |-> key, type |-> type, digest |-> TargetDigest(b, type, id)]]

\* verifySignatureProof with the key found: the proof's date, then its value.
KeyFailure(key, proof) ==
    IF proof.created < key.from THEN "PROOF_CREATED_BEFORE_KEY_VALIDITY"
    ELSE IF proof.created > key.until THEN "PROOF_CREATED_AFTER_KEY_VALIDITY"
    ELSE IF proof.signature = [key |-> key.public, type |-> proof.type, digest |-> proof.digest]
    THEN "none"
    ELSE "SIGNATURE_INVALID"

\* verifySignatureProof; find takes the first issuer and the first key.
ProofFailure(b, proof) ==
    LET issuer == First(b.payload.issuers, proof.issuer)
    IN IF ~Resolves(b, proof.type, proof.target) THEN "PROOF_TARGET_NOT_FOUND"
       ELSE IF proof.digest # TargetDigest(b, proof.type, proof.target)
       THEN "PROOF_TARGET_DIGEST_MISMATCH"
       ELSE IF proof.method[1] # proof.issuer \/ proof.issuer \notin IssuerIds(b)
       THEN "PROOF_ISSUER_MISMATCH"
       ELSE IF proof.method[2] \notin Range(Ids(issuer.keys)) THEN "VERIFICATION_KEY_NOT_FOUND"
       ELSE KeyFailure(First(issuer.keys, proof.method[2]), proof)

\* verifyProofShape, the verification, and the uniqueness of identifiers.
ProofIssues(b) ==
    (UNION {Issue("PROOF_MALFORMED", ~p.sound)
              \cup Issue("PROOF_ISSUER_NOT_FOUND", p.issuer \notin IssuerIds(b))
              \cup ({ProofFailure(b, p)} \ {"none"}) : p \in Range(b.proofs)})
        \cup Issue("DUPLICATE_PROOF_ID", DuplicateId(b.proofs))

\* The member valid_proofs, reported whatever else is wrong.
ValidProofs(b) ==
    IF b.legible THEN {p \in Range(b.proofs) : ProofFailure(b, p) = "none"} ELSE {}

-----------------------------------------------------------------------------
\* The member errors: nothing is looked at in what is not a bundle.
Issues(b) ==
    IF b.legible THEN PayloadIssues(b) \cup ProofIssues(b) ELSE {"BUNDLE_ILLEGIBLE"}

\* The member status.
Status(b) ==
    IF Issues(b) # {} THEN "INVALID"
    ELSE IF <<>> \in {b.payload.events, b.payload.evidence, b.proofs} THEN "INCOMPLETE"
    ELSE "VALID"

\* Mutant of ProofCoversEvent: any issuer's proof will do.
ProofCoversEventOfAny(b, e) ==
    \E p \in ValidProofs(b) : p.type = "OUTCOME_EVENT" /\ p.target = e.id

ProofCoversEvent(b, e) ==
    \E p \in ValidProofs(b) :
        p.issuer = e.facts.issuer /\ p.type = "OUTCOME_EVENT" /\ p.target = e.id

\* evaluateRefund: the rules see the events, and of the proofs which events
\* they cover.
Verdict(b) ==
    LET events == Range(b.payload.events)
        covered == {e.facts : e \in {f \in events : ProofCoversEvent(b, f)}}
    IN IF Status(b) = "INVALID" THEN "UNPROVABLE"
       ELSE Rules!Verdict([events |-> {e.facts : e \in events},
                           proofs |-> {[issuer |-> f.issuer, target |-> f, sound |-> TRUE] :
                                          f \in covered}])
================================================================================
