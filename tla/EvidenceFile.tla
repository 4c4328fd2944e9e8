------------------------------ MODULE EvidenceFile ------------------------------
(***************************************************************************)
(* The life of an Evidence Bundle: the Relay builds and signs revisions    *)
(* (packages/relay/src/service.mjs, with the builders of packages/core),   *)
(* somebody downloads the current one, and the file is then extended,      *)
(* signed with the command line (packages/cli) and edited by hand.         *)
(*                                                                         *)
(* Each request may find the Relay restarted with another issuer           *)
(* identifier or on another key file.  Requests are served one at a time.  *)
(* After a download the Relay takes no more steps: it does not know of the *)
(* file, so its steps and those on the file do not influence each other.   *)
(***************************************************************************)
EXTENDS BundleVerifier

CONSTANTS
    RelayIssuers,   \* identifiers the Relay is configured with
    RelayKeys,      \* keys on its disk
    Auditor,        \* an issuer who adds an observation of its own
    AuditorKey,
    StripeEvents,   \* the Stripe events that arrive
    Windows,        \* validities the auditor's key is declared with
    NoFile,
    MaxRevisions,   \* bound on the revisions of the action
    MaxChanges      \* bound on revisions and changes to the file together

ASSUME FileAssumption ==
    /\ RelayIssuers \cup {Auditor} \subseteq Issuers
    /\ Auditor \notin RelayIssuers /\ AuditorKey \notin RelayKeys
    /\ \A e \in StripeEvents : e.created \in Nat
    /\ Windows \subseteq Nat \X Nat
    /\ MaxRevisions \in Nat /\ MaxChanges \in Nat

VARIABLES
    current,  \* the current bundle, NoFile before the action is created
    seen,     \* the identifiers of the upstream events recorded
    spoilt,   \* ghost: what has gone wrong with the relay's bundles
    file,     \* the downloaded copy, NoFile before the download
    edits     \* how many changes were made to it

vars == <<current, seen, spoilt, file, edits>>

Stripe == INSTANCE StripeConnector WITH Tolerance <- 0

\* The configured issuer identifier and the key on disk.
Configurations == [issuer : RelayIssuers, key : RelayKeys]

Now == 2          \* the clock does not move: nothing here depends on delays
Later == Now + 1
Forever == 9      \* no valid_until

Init ==
    /\ current = NoFile
    /\ seen = {}
    /\ spoilt = {}
    /\ file = NoFile
    /\ edits = 0

-----------------------------------------------------------------------------
(* What the Relay builds.                                                  *)

RelayKeyId == "relay-ed25519-01"

\* relayIssuer: the descriptor of the configured issuer.
RelayIssuer(r) ==
    [id |-> r.issuer, sound |-> TRUE,
     keys |-> <<[id |-> RelayKeyId, public |-> r.key, from |-> 0, until |-> Forever]>>]

Event(id, facts, evidence, parents, sound) ==
    WithObjectDigest([kind |-> "event", id |-> id, facts |-> facts, evidence |-> evidence,
                      parents |-> parents, sound |-> sound, digest |-> Malformed])

EvidenceItem(id, issuer, sound) ==
    WithObjectDigest([kind |-> "evidence", id |-> id, issuer |-> issuer, sound |-> sound,
                      digest |-> Malformed])

\* The relationship by which a piece of evidence supports an event.
Support(id, item, event) ==
    WithObjectDigest([kind |-> "relationship", id |-> id, type |-> "SUPPORTS",
                      from |-> <<"evidence", item>>, to |-> <<"event", event>>,
                      sound |-> TRUE, digest |-> Malformed])

\* signTargets: proofs of a piece of evidence and of the events on it.
SignTargets(b, r, item, events, prefix) ==
    LET targets == <<<<"EVIDENCE_ITEM", item.id>>>>
                     \o [i \in DOMAIN events |-> <<"OUTCOME_EVENT", events[i].id>>]
    IN [b EXCEPT !.proofs = @ \o
           [i \in DOMAIN targets |->
              SignatureProof(b, targets[i][1], targets[i][2], r.issuer, RelayKeyId, r.key,
                             prefix \o <<i>>, Now)]]

\* createAction's bundle: the agent's claim, dated and described by the client.
FirstBundle(r, occurred, sound) ==
    LET claim == [type |-> "requested", phase |-> "INTENT", status |-> "SUCCEEDED",
                  source |-> "SELF_CLAIMED", issuer |-> r.issuer,
                  occurred |-> occurred, recorded |-> Now]
        item == EvidenceItem(<<"tpev", "claim">>, r.issuer, TRUE)
        event == Event(<<"tpe", "claim">>, claim, {item.id}, <<>>, sound)
        payload == [revision |-> 1, issuers |-> <<RelayIssuer(r)>>, events |-> <<event>>,
                    evidence |-> <<item>>,
                    relationships |-> <<Support(<<"tpr", "claim", 1>>, item.id, event.id)>>,
                    predecessors |-> <<>>]
    IN SignTargets([legible |-> TRUE, payload |-> payload, proofs |-> <<>>], r,
                   item, <<event>>, <<"tpp", "claim">>)

\* The digest a new event is built on, if there is an event before it.
LastDigest(events) == IF events = <<>> THEN <<>> ELSE <<Last(events).digest>>

\* The outcome events of a Stripe event of which these are the facts, one or
\* none, after those that are there.
Linked(e, facts, before) ==
    SetToSeq({Event(<<"tpe", "stripe", e.id, f.type>>, f, {<<"tpev", "stripe", e.id>>},
                    LastDigest(before), TRUE) : f \in facts})

\* The outcome events of a Stripe event, each built on the one before it: the
\* creation of a refund, and then what its status says.
Observed(r, e, before) ==
    LET facts == Stripe!Normalize(e, r.issuer, Now)
        creation == Linked(e, {f \in facts : f.type = "created"}, before)
    IN creation \o Linked(e, {f \in facts : f.type # "created"}, before \o creation)

\* Mutant of NextIssuers: the relay's own descriptor.
NextIssuersOwn(b, r) == <<RelayIssuer(r)>>

\* The next revision declares the issuers the previous one declares.
NextIssuers(b, r) == b.payload.issuers

\* ingestStripeWebhook's bundle.
NextBundle(b, r, e) ==
    LET p == b.payload
        events == Observed(r, e, p.events)
        item == EvidenceItem(<<"tpev", "stripe", e.id>>, r.issuer, TRUE)
        payload == [revision |-> p.revision + 1, issuers |-> NextIssuers(b, r),
                    events |-> p.events \o events,
                    evidence |-> Append(p.evidence, item),
                    relationships |-> p.relationships \o
                       [i \in DOMAIN events |->
                          Support(<<"tpr", "stripe", e.id, i>>, item.id, events[i].id)],
                    predecessors |-> <<PayloadDigest(b)>>]
    IN SignTargets([b EXCEPT !.payload = payload], r, item, events, <<"tpp", "stripe", e.id>>)

-----------------------------------------------------------------------------
(* The Relay.                                                              *)

CreateAction(r, occurred, sound) ==
    /\ current = NoFile
    /\ current' = FirstBundle(r, occurred, sound)
    /\ spoilt' = (IF occurred > Now THEN {"claim dated ahead"} ELSE {})
                   \cup (IF sound THEN {} ELSE {"claim malformed"})
    /\ UNCHANGED <<seen, file, edits>>

\* Mutant of Unrecorded: a repeated delivery is recorded again.
UnrecordedNever(e) == TRUE

\* seen_upstream_event_ids: a repeated delivery changes nothing.
Unrecorded(e) == e.id \notin seen

IngestWebhook(r, e) ==
    /\ current # NoFile /\ file = NoFile
    /\ current.payload.revision < MaxRevisions
    /\ Stripe!Supported(e)
    /\ Unrecorded(e)
    /\ current' = NextBundle(current, r, e)
    /\ seen' = seen \cup {e.id}
    /\ spoilt' = spoilt
           \cup (IF e.created > Now THEN {"relay clock behind"} ELSE {})
           \cup (IF RelayIssuer(r) # current.payload.issuers[1]
                 THEN {"issuer or key changed"} ELSE {})
    /\ UNCHANGED <<file, edits>>

-----------------------------------------------------------------------------
(* The file.                                                               *)

Download ==
    /\ current # NoFile /\ file = NoFile
    /\ file' = current
    /\ UNCHANGED <<current, seen, spoilt, edits>>

Change(b) ==
    /\ file.payload.revision + edits < MaxChanges
    /\ file' = b
    /\ edits' = edits + 1
    /\ UNCHANGED <<current, seen, spoilt>>

\* timeproofs sign: the proof is added and the bundle not verified, before or
\* after.  A target that does not resolve is refused.
Sign(type, id, issuer, keyId, key, proofId) ==
    /\ file.legible
    /\ Resolves(file, type, id)
    /\ Change([file EXCEPT !.proofs =
          Append(@, SignatureProof(file, type, id, issuer, keyId, key, proofId, Now))])

Operator == file.payload.issuers[1]

\* The target that the command line is given: the payload or an event.  Whoever
\* names an event and leaves out the type signs the payload.
CommandTargets ==
    {<<"BUNDLE_PAYLOAD", <<>>>>}
      \cup {<<type, e.id>> : type \in {"BUNDLE_PAYLOAD", "OUTCOME_EVENT"},
                             e \in Range(file.payload.events)}

\* The auditor, the operator of the Relay, and somebody who names the operator
\* and holds another key, sign under a proof identifier that is new or taken.
SignSomething ==
    \E signer \in {<<Auditor, "auditor", AuditorKey>>, <<Operator.id, RelayKeyId, AuditorKey>>,
                   <<Operator.id, RelayKeyId, Operator.keys[1].public>>},
       target \in CommandTargets,
       proofId \in {<<"tpp", "cli", edits>>, <<"tpp", "claim", 1>>} :
        Sign(target[1], target[2], signer[1], signer[2], signer[3], proofId)

DeclareAuditor(window) ==
    Change([file EXCEPT !.payload.issuers =
        Append(@, [id |-> Auditor, sound |-> TRUE,
                   keys |-> <<[id |-> "auditor", public |-> AuditorKey,
                               from |-> window[1], until |-> window[2]]>>])])

\* The auditor's own observation, on top of the last event, or a second event
\* under an identifier that is taken.
AddObservation(id) ==
    LET facts == [type |-> "settled", phase |-> "SETTLEMENT", status |-> "SUCCEEDED",
                  source |-> "INDEPENDENTLY_SETTLED", issuer |-> Auditor,
                  occurred |-> Now, recorded |-> Now]
    IN Change([file EXCEPT !.payload.events =
                  Append(@, Event(id, facts, {}, LastDigest(@), TRUE))])

\* An event made to have happened earlier, its digest adjusted or not.
Redate(i, sealed) ==
    LET e == [file.payload.events[i] EXCEPT !.facts.occurred = 1]
    IN Change([file EXCEPT !.payload.events[i] = IF sealed THEN WithObjectDigest(e) ELSE e])

\* What is at some places of a sequence, in its order.
At(s, places) ==
    [n \in 1..Cardinality(places) |->
        s[CHOOSE i \in places : Cardinality({j \in places : j <= i}) = n]]

\* An object is left out, with the relationships and proofs that name it.
Redact(kind, id) ==
    LET Keep(objects) == At(objects, {i \in DOMAIN objects : objects[i].id # id})
        Elsewhere(rels) == At(rels, {i \in DOMAIN rels : <<kind, id>> \notin {rels[i].from, rels[i].to}})
        Other(proofs) == At(proofs, {i \in DOMAIN proofs : proofs[i].target # id})
    IN Change([file EXCEPT
          !.payload.events = Keep(@), !.payload.evidence = Keep(@),
          !.payload.relationships = Elsewhere(@), !.proofs = Other(@)])

DropProof(i) == Change([file EXCEPT !.proofs = RemoveAt(@, i)])

\* A proof pointed at another event, its digest adjusted, as if moved there.
MoveProof(i, e) ==
    Change([file EXCEPT !.proofs[i] =
        [@ EXCEPT !.type = "OUTCOME_EVENT", !.target = e.id, !.digest = e.digest]])

Garble == Change([file EXCEPT !.legible = FALSE])

Edit ==
    \/ SignSomething
    \/ \E window \in Windows : DeclareAuditor(window)
    \/ \E id \in {<<"tpe", "audit">>} \cup Range(Ids(file.payload.events)) : AddObservation(id)
    \/ \E i \in DOMAIN file.payload.events, sealed \in BOOLEAN : Redate(i, sealed)
    \/ \E e \in Range(file.payload.events) : Redact("event", e.id)
    \/ \E item \in Range(file.payload.evidence) : Redact("evidence", item.id)
    \/ \E i \in DOMAIN file.proofs : DropProof(i)
    \/ \E i \in DOMAIN file.proofs, e \in Range(file.payload.events) : MoveProof(i, e)
    \/ Garble

Next ==
    \/ \E r \in Configurations, occurred \in {Now, Later}, sound \in BOOLEAN :
          CreateAction(r, occurred, sound)
    \/ \E r \in Configurations, e \in StripeEvents : IngestWebhook(r, e)
    \/ Download
    \/ file # NoFile /\ Edit

Spec == Init /\ [][Next]_vars

-----------------------------------------------------------------------------
(* The bundles of the Relay.                                               *)

\* Every bundle the Relay stores passes the verifier, in any order of the
\* webhooks and with each repeated, except for four reasons: the client dated
\* its claim ahead or described it badly, Stripe's clock was ahead, or the
\* relay came back with another issuer or key, and each spoils it for good.
RelayBundlesValid ==
    current # NoFile => (Status(current) = "VALID" <=> spoilt = {})

\* Whatever happens to the relay's configuration, a new revision keeps every
\* proof of the previous one verifiable and names it as its predecessor.
RevisionsKeepProofs ==
    [][current # NoFile /\ current' # current =>
          /\ ValidProofs(current) \subseteq ValidProofs(current')
          /\ current'.payload.predecessors = <<PayloadDigest(current)>>]_vars

-----------------------------------------------------------------------------
(* The file.                                                               *)

Passes(b) == Status(b) # "INVALID"

PublicKeys(b, issuer) ==
    {k.public : k \in UNION {Range(i.keys) : i \in {j \in Range(b.payload.issuers) : j.id = issuer}}}

\* In a file that passes, every proof is a signature, by a key of the issuer it
\* names, over what the one object it points at (or the payload) says now.
ProofsCoverContent ==
    file # NoFile /\ Passes(file) =>
        \A p \in Range(file.proofs) :
            /\ p.signature.key \in PublicKeys(file, p.issuer)
            /\ p.signature.type = p.type
            /\ IF p.type = "BUNDLE_PAYLOAD" THEN p.signature.digest = PayloadDigest(file)
               ELSE {ObjectDigest(o) : o \in {u \in Range(Collection(file, p.type)) : u.id = p.target}}
                      = {p.signature.digest}

\* The verdict on a file that passes is the one the rules give to its events
\* and the signatures their own issuers made over them.
VerdictRestsOnSignatures ==
    LET events == Range(file.payload.events)
        signed == {e \in events : \E p \in Range(file.proofs) :
                       /\ p.signature.key \in PublicKeys(file, e.facts.issuer)
                       /\ p.signature.type = "OUTCOME_EVENT"
                       /\ p.signature.digest = ObjectDigest(e)}
    IN file # NoFile /\ Passes(file) =>
          Verdict(file) = Rules!Verdict([events |-> {e.facts : e \in events},
                                         proofs |-> {[issuer |-> e.facts.issuer,
                                                      target |-> e.facts,
                                                      sound |-> TRUE] : e \in signed}])

\* In a file that passes, whatever an event was built on is still there as it
\* was then: nothing but an end of the chain can be left out unnoticed.
LineageComplete ==
    file # NoFile /\ Passes(file) =>
        \A e \in Range(file.payload.events) :
            /\ Range(e.parents) \subseteq {ObjectDigest(f) : f \in Range(file.payload.events)}
            /\ \A id \in e.evidence : \E item \in Range(file.payload.evidence) : item.id = id

Signs(b, c) == c.payload = b.payload /\ Len(c.proofs) = Len(b.proofs) + 1 /\ c.legible

\* The proof was made as the command line asks: of an object, or of the payload
\* without naming one; with the key that its issuer declares under that name,
\* while the key is valid, under a new identifier.
ProperlyMade(b, p) ==
    /\ TargetFormed(p.type, p.target)
    /\ p.id \notin Range(Ids(b.proofs))
    /\ \E i \in Range(b.payload.issuers) : \E k \in Range(i.keys) :
          /\ <<i.id, k.id>> = p.method
          /\ k.public = p.signature.key
          /\ p.created \in k.from..k.until

\* Signing a file that passes, properly, leaves it passing, with all its proofs
\* and the new one valid, whatever the proofs are of; and no signature repairs
\* a file that does not pass.
SigningAddsOnly ==
    [][file # NoFile /\ Signs(file, file') =>
          IF Passes(file) /\ ProperlyMade(file, Last(file'.proofs))
          THEN Passes(file') /\ ValidProofs(file') = Range(file'.proofs)
          ELSE Passes(file') => Passes(file)]_vars
================================================================================
