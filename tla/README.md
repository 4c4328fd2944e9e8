# TimeProofs Protocol: TLA+ models, checks and proofs

TimeProofs turns what happened to an agent's action (here: a refund at Stripe)
into a signed *Evidence Bundle* from which anybody recalculates one of four
verdicts. This directory holds TLA+ models of the reference implementation,
TLC configurations that check them and proofs checked by TLAPS.

Paths below are relative to the repository root.

## 1. The system

| Part | Code | State | Operations |
| --- | --- | --- | --- |
| Relay HTTP server | `packages/relay/src/server.mjs`, `bin/` | requests in progress | create an action, ingest a webhook, get an action / bundle / packet, list revisions |
| Relay service | `packages/relay/src/service.mjs` | none of its own; builds and signs bundles | `createAction`, `ingestStripeWebhook`, `getAction`, `getPacket`, `listRevisions` |
| Relay store | `packages/relay/src/store.mjs` | per action: revision files, `current.json`, `metadata.json`; the refund index file; a map of in-memory locks | `createAction`, `appendRevision`, `registerStripeRefund`, `findByStripeRefundId`, `getAction`, `listRevisions` |
| Relay signing key | `packages/relay/src/keys.mjs` | one key file | `loadOrCreateRelayKey` |
| Stripe connector | `packages/stripe-connector/src/index.mjs` | none | verify a delivery's signature and age, turn a Stripe event into outcome events |
| Verdict engine | `packages/verdict-engine/src/index.mjs` | none | `evaluateRefund` |
| Event vocabulary | `packages/core/src/vocabulary.mjs`, `spec/outcome-event-vocabulary-v0.1.json` | a table | `validateEventVocabulary` |
| Bundle verifier | `packages/core/src/verify-bundle.mjs`, `proofs.mjs` | none | `verifyBundle`, `createSignatureProof`, `verifySignatureProof` |
| Bundle builders | `packages/core/src/builders.mjs` | none | create issuers, events, evidence, relationships, bundles |
| Canonical JSON, digests, strict JSON | `packages/core/src/canonicalize.mjs`, `digest.mjs`, `strict-json.mjs` | none | `parseJsonStrict`, `canonicalize`, digests of objects and payloads |
| Command line | `packages/cli/bin/timeproofs.mjs` | the files it is given | `verify`, `verdict`, `sign`, `digest`, `canonicalize` |
| Outcome packet, scripts, website | see `PROJECT.json` | none | formatting and tooling |

How they meet. A client posts an action; the service builds revision 1 (the
agent's self-claimed request) and the store writes it. Stripe posts events about
the refund, repeatedly and in any order. The connector accepts or refuses a
delivery; the service looks the refund up in the index, reads the action's
current bundle, adds what the connector made of the event, signs the new events,
and the store appends a revision. Every reader, the relay included, calls the
verdict engine, which calls the verifier, on the bundle it has. A bundle leaves
the relay as a file: whoever has it may extend it, sign it with the command line,
and pass it on; what it then proves is the verifier's business alone.

What is hard in it:

* **Concurrency.** One Node.js event loop, many requests; a handler is
  interrupted at every `await` of a file operation. Writers hold a per-action
  lock, and a nested one for the index; readers hold none, and a webhook
  *reads the previous revision before it asks for the lock*.
* **Failure.** A revision is three files, written one after the other, and a
  creation is four. An operation can fail, or the process stop, between any two.
* **Delivery.** Stripe repeats, delays and reorders events; a `202` can be lost.
* **Ordering.** The verdict must not depend on the order events arrived in, and
  must not retreat when evidence is added.
* **Two clocks.** Events are dated by Stripe and recorded by the relay.
* **Starts and restarts.** Several processes may start on one directory, be stopped
  while the key file is being written, and come back with another issuer or key.
* **Promises.** The lock is a chain of promises in a map; whether it is a lock
  depends on the order in which the engine runs their reactions.
* **Data that travels.** Proofs stay in a bundle whose content others change;
  digests must not depend on how JSON was spelled or ordered.

What makes each part correct is stated in section 4 with the runs, and the
hazards with their lines are in `PROJECT.json`.

## 2. Modules

| Module | What it is |
| --- | --- |
| `EvidenceLedger` | Abstract specification of the Relay: append-only histories and write-once links. |
| `RelayStore` | The files and the locks: state and one operator per file operation. |
| `Relay` | The request handlers over the store: one action per awaited operation, `IOError`, `Crash`; specifications with and without fairness. |
| `RelayProperties` | What must hold of the Relay, its refinements of `EvidenceLedger`, and what the documents say of it. |
| `RelayInvariant` | The inductive invariant `Inv`. |
| `RelayProofs` | TLAPS proofs about the Relay: locks, files, immutability. |
| `RelayHistory` | The rest of the inductive invariant, `HInv`: contents of files, memories and answers; and `SerialInv`, for webhooks that do not overlap. |
| `RelayHistoryProofs` | TLAPS proofs: lineage, durability, reads, and that the Relay implements `EvidenceLedger`, in two senses. |
| `OutcomeVocabulary` | The refund part of the event registry; whether one event is valid. |
| `RefundVerdict` | Bundles, proofs, `BundleValid` and `evaluateRefund` as operators. |
| `RefundEvidence` | A bundle that grows by any events and proofs; properties of the verdict along the way. |
| `RefundEvidenceProofs` | TLAPS proofs about the verdict. |
| `StripeConnector` | Which deliveries are accepted by age; the outcome events of a Stripe event. |
| `RefundOutcome` | Composition: a refund at Stripe, two clocks, late and repeated deliveries, connector, bundle, verdict. |
| `RefundOutcomeProofs` | TLAPS proofs about the composition. |
| `RelayStart` | Processes starting, stopping and restarting on one directory: key file, index file. |
| `RelayStartProofs` | TLAPS proofs about the start. |
| `LockQueue` | Abstract specification of a lock: a queue whose head runs. |
| `PromiseLock` | `withLock` as promises and the engine's jobs; shown to implement `LockQueue`. |
| `PromiseLockProofs` | TLAPS proofs about the lock: refinement, wake-ups, the map's entry. |
| `StrictJson` | The parser as an automaton: operators, one symbol per step. |
| `JsonReader` | The parser at work on any text, and its inductive invariant. |
| `CanonicalJson` | The values `canonicalize` takes and their canonical text, composed with the parser: what was accepted is written canonically. |
| `CanonicalJsonProofs` | TLAPS proofs about the parser and the canonical text. |
| `BundleVerifier` | `verifyBundle`, proofs and digests over whole bundles; the verdict on top. |
| `EvidenceFile` | Composition: the relay's builders and revisions, a downloaded bundle, `sign`, edits; verifier, connector and rules. |
| `EvidenceFileProofs` | TLAPS proofs about bundles, the relay's and others'. |
| `MCRelay`, `MCRefundEvidence`, `MCRefundOutcome`, `MCEvidenceFile` | Instances for TLC. |

`Relay` and `RefundOutcome` look at the same webhooks from two sides: `Relay`
has every interleaving and failure and keeps of a bundle only which Stripe
events it carries; `RefundOutcome` has the contents and serves one request at a
time. `EvidenceFile` looks at the same webhooks once more, for the structure of
the bundle: identifiers, digests, parents, proofs and keys.

An operator whose comment says *Mutant of X* is what a plausible bug would make
of `X`, which follows it; no specification uses it. `PROJECT.json` pairs each
checked property with a mutant it must detect.

### State and actions of the Relay

| TLA+ | Code |
| --- | --- |
| `revisions[a][n]` | `actions/<a>/revisions/<n>.bundle.json`: number of the revision it was built as, the Stripe events carried, the predecessor's digest |
| `metadata[a]` | `metadata.json`: `current_revision`, `correlations.stripe_refund_id`, `processed_event_ids`; the action exists when the file does |
| `current[a]` | `current.json`, as the digest of the bundle it summarises |
| `index[r]` | `indexes/stripe-refunds.json` |
| `locks[k]` | the promise chain of `withLock(k, ...)`: a FIFO queue of tickets, the head holds |
| `pc[p]`, `req[p]`, `mem[p]` | the operation a handler awaits, its request, its local variables |
| `accepted`, `opened` | ghosts: webhooks answered 200/202 and creations answered 201 |

`writeJsonAtomic` writes a temporary file and renames it, so a write is one step;
a stray temporary file is never read (`listRevisions` filters names). One step
stands for one file operation and the synchronous code after it, up to the next
one. Reads made *inside* the action's lock by `appendRevision` are one step,
since nothing else writes that action's files then. A handler that asks for a
lock queues at once and takes its next step when it is at the head.
`Leave` is the `finally` of `withLock`. `IOError` is any failing operation
except "no such file": the exception leaves all callbacks, releases the locks
and is answered 500. `Crash` clears memory, locks and requests and keeps the
files. Requests refused before any file is touched are left out; a creation that
is refused with 400 *after* its three files are written, since its refund is linked
elsewhere or is not a string (`InvalidRefunds`), is not. An answer is its status: a
webhook found to be a duplicate in the lock is answered with a packet of the bundle
it had built and did not save, which the model does not tell apart.

A digest is modelled as the number and the log of a bundle. The identifier of a
bundle is derived from the action and the number of the revision, so bundles with
the same events and number differ in the code only in their dates.

### The verdict

An event has type, phase, status, source class, issuer, and the two dates; a
proof has an issuer, a target event and whether its signature is sound.
`BundleValid` is what of `verifyBundle` the verdict depends on: every event in
the vocabulary and not recorded before it occurred, every proof sound: one fault
spoils the bundle. `Verdict` translates `evaluateRefund` case by case. Events
of other registered profiles are one type, `extension`.

### The start and the lock

`RelayStart` has one step per awaited file operation of `loadOrCreateRelayKey` and
`RelayStore.init`. `keyFile` is `Absent`, a key, or `Torn`: the exclusive open
creates it empty under its final name. Every exception of the start ends the
process. `Serve` is what a served request does to key and index.

`PromiseLock` is one key of the map `locks`. For each call, `released` says that its
promise `current` is resolved and `settled` that `queued` is; `jobs` is the
engine's queue. A callback runs between `Continue` and `End`, and everything else
may happen in between; new calls arrive between any two jobs. `LockQueue` is what
`RelayStore` (module) takes for granted with `Enter`, `Holds` and `Leave`.

### Bundles and JSON

In `BundleVerifier` a bundle is a record like the JSON: issuers with keys, events
with parents and evidence, evidence, relationships, predecessors, proofs. An
event's `facts` are what `OutcomeVocabulary` and `RefundVerdict` judge. Checks of a
member that nothing else depends on (formats, enumerations, empty strings) are the
object's `sound`. Hashing is ideal: the digest of an object *is* the object
without its digest. `Issues` are the error codes, one class per check between
objects. `EvidenceFile` starts with the relay: `FirstBundle` and `NextBundle` are
`createAction` and `ingestStripeWebhook` as far as they build and sign. Each request
may find the relay with another issuer identifier or key. `Download` takes a copy,
which is then edited and signed; `Sign` is the command line's, which adds a proof
without verifying. `spoilt` records what made the relay's bundles invalid.

`StrictJson` reads one symbol at a time: a character, an escape sequence or a
keyword; `stack` holds the open containers and stands for the recursion.
`CanonicalJson` writes a value as such symbols, so that its text can be parsed again.
`Value` is the set of values `canonicalize` does not throw on, up to `MaxDepth` levels of
containers; the canonical text, the sorted value and the like are functions on it. `Rank`
is the place a member gets from `sort`.

## 3. Assumptions, bounds and fairness

* **Relay bounds.** `MaxFaults` bounds failed operations plus restarts.
  `MCRelay.cfg` has two handlers on two actions, a refund and what is no refund's
  identifier (`r2`), two events and one fault: two writers, a writer and a reader, or two creations competing for a
  refund, with a fault at every point of either. All events are about one refund,
  the case in which handlers meet. Three in a row (an event whose evidence two
  later revisions build on) needs more events and is in `MCRelaySerial.cfg`, with
  two faults: the second is needed to fail while repairing the first. The
  theorems of section 5 hold for any number of handlers, actions, refunds,
  events and faults.
* **Evidence bounds.** Two batches of events in a bundle, up to `MaxEvents = 2`
  events, over two issuers, a strong and a weak source and every registered
  refund event the rules tell apart. Two suffice to find a conflict because the
  rules compare classes of events pairwise; the theorems have no such bound.
* **Outcome bounds.** `MaxStripeEvents = 4` covers the longest life of a refund
  (`requires_action`, `pending`, `succeeded`, `failed`); `MaxTime = 3` and
  `Tolerance = 1`, with `Skew = 1`, make a fresh delivery exactly as old as the
  tolerance and every delayed one older, the worst case the relay must survive.
  Claims are dated now or one second ahead of the relay's clock.
* **Start bounds.** Two processes, two keys, two refunds, `MaxStops = 2`: one stop
  for each process or two for one. More processes add no new kind of race, and the
  theorems hold for any number.
* **Lock bounds.** Five calls: a hand-over takes three jobs, so that four calls
  can be queued while the fifth arrives at each stage of it.
* **JSON bounds.** Texts of any length (whitespace may repeat) with `MaxValues = 3`
  values, `MaxDepth = 2` open containers and `MaxUnits = 3` units in all strings:
  two members whose names share a beginning, an object within an array, a name
  that is a surrogate pair followed by a third unit.
* **Bundle bounds.** `MaxRevisions = 3` and `MaxChanges = 4` revisions and changes
  together: three revisions give a chain with an event whose parent is in the
  middle, two changes to a bundle with two revisions are an edit and its covering
  up, three to the first one an auditor declared, observing and signing.
* **Symmetry** (handlers, actions, events, issuers, keys) is used only in runs
  without liveness.
* **Deadlock** is checked except where the system stops: a full bundle
  (`RefundEvidence`), the end of a refund's life with a bounded clock
  (`RefundOutcome`), all calls ended (`PromiseLock`), a file changed as often as
  the bound allows (`EvidenceFile`), the end of a text (`CanonicalJson`).
* **Fairness of the Relay.** `WF(Progress(p))`: the event loop completes every
  operation it started and runs the continuation; a handler waiting for a lock is
  not enabled, so nothing about the fairness of locks is assumed. `SF(Redeliver(e))`:
  Stripe delivers again until an answer is 2xx, so although handlers are now and
  then all busy, deliveries reach a free one infinitely often.
* **Fairness of the outcome.** `WF` of the delivery of each Stripe event: Stripe
  repeats a delivery freshly signed until accepted. Creating the action is *not*
  fair: properties are conditional on it.
* **Fairness of the start.** `WF(Start(p))`: `compose.yaml` restarts what ended
  (`restart: unless-stopped`). `WF(Starting(p))`: the event loop completes the
  operations of a process that runs.
* **Fairness of the lock.** `WF(Job)`: the engine runs its queue. `WF(End(c))`: a
  callback returns or throws, since it consists of file operations; one that asks
  for its own lock is the exception described in section 4.

## 4. Runs

| Run | Shows |
| --- | --- |
| `relay_concurrent` | With two concurrent requests and a fault: every event recorded exactly once in gapless revisions (`ExactlyOnce`); every revision extends an earlier committed one by its event (`Lineage`); an event answered 2xx stays on disk (`AckedDurable`); links are sound (`IndexSound`); a GET or listing made without a lock shows committed revisions only (`ReadsCommitted`); the files agree when no one writes and nothing failed (`SettledFilesAgree`); a busy handler runs or waits, over at most two locks, for one that does (`NoDeadlock`); committed revisions never change (`CommittedImmutable`); the Relay implements `EvidenceLedger` with the recorded events (`RecordedSpec`). |
| `relay_serial` | Served one at a time, with two faults, the stronger promises hold: immediate predecessors, and the Relay implements `EvidenceLedger` with the *evidence* (`EvidenceSpec`), so that none is missing from the current bundle. |
| `relay_live` | Every request is answered (no lock is kept or awaited forever), and an event of a linked refund is accepted in the end, whatever fails. |
| `evidence` | The verdict never retreats while a bundle stays valid; weak evidence only turns UNPROVABLE into PENDING; VERIFIED and CONTRADICTED rest on proved strong events; decisive events alone give the verdict. |
| `outcome` | In whatever order events arrive the verdict ends as documented for the refund's status, never runs ahead of Stripe, and no delivery spoils a bundle, with the relay's clock ahead by the whole tolerance. |
| `relay_start` | Any number of stops and races leaves one key in use (`OneIssuerKey`), links survive restarts (`LinksSurvive`), and every process serves in the end (`EveryProcessServes`), the one that lost the race after a restart. |
| `lock` | The chain of promises implements the queue (`ImplementsQueue`), the map's entry is there exactly while somebody holds or waits (`EntryExact`), whoever waits has a wake-up under way or a running callback that will send it (`NobodyForgotten`), and every call ends. |
| `json` | Names are unique as decoded (`NamesUnique`); `canonicalize` cannot throw on what was parsed, which has valid Unicode, finite numbers and different names down to its innermost part (`AcceptedIsCanonical`); the canonical text parses to the same value (`RoundTrip`) and is independent of the order of members (`OrderIrrelevant`). |
| `bundle` | What the relay stores is VALID but for four named reasons (`RelayBundlesValid`) and each revision keeps the proofs of the previous one verifiable (`RevisionsKeepProofs`); in a file that passes every proof covers what its target says now (`ProofsCoverContent`), the verdict is that of the signed events (`VerdictRestsOnSignatures`), and everything built upon is there (`LineageComplete`); a proper signature spoils nothing and none repairs anything (`SigningAddsOnly`). |

Three runs are expected to end in a violation: each checks one statement of the
repository's documents that the code does not meet.

| Run | Statement | What happens |
| --- | --- | --- |
| `relay_lost` | `integrations/RELAY_HTTP_API.md:39`, append-only, current history survives | the later of two concurrent webhooks replaces the current bundle by one without the evidence of the earlier; its redelivery is a duplicate |
| `relay_unlinked` | `integrations/RELAY_HTTP_API.md:74`, linked through the correlation | a failure before the index is written leaves an action that can be neither linked nor created again |
| `outcome_skew` | `governance/GLOBAL_ROADMAP.md:106`, every bundle verifies | with the relay's clock behind Stripe's an accepted event is recorded before it occurred, and the bundle is invalid for good |

What else the modelling showed, without a run of its own:

* `registerStripeRefund` takes the lock `'__stripe_refund_index__'` from the map
  that holds the actions' locks, inside the lock of the action. An action with that
  identifier, created with a refund, waits for itself, and later creations with a
  refund behind it. No assumption keeps `IndexKey` out of `Actions`; giving both
  the same value in `MCRelayLive.cfg` makes `EveryRequestAnswered` fail. The safety
  theorems hold all the same.
* The action of `relay_unlinked`, committed but never linked, needs no failure:
  `createAction` does not look at the type of the refund's identifier, and
  `registerStripeRefund` refuses one that is not a string when the action is already
  written. The answer is 400, a second attempt gets 409.
* `ImmediatePredecessor` (`governance/NEXT_ACTION.md:21`) holds served one at a time
  (`relay_serial`) and fails in the instance of `relay_lost`: two webhooks build on
  one revision, and the later names the one before the last. Section 5 proves that such
  an overlap of two webhooks of one action is the only way either promise fails.
* A failure between the revision file and `metadata.json` leaves a file that the next
  append replaces, although revisions are called immutable (`README.md:96`). What
  has been committed is never replaced (`CommittedImmutable`).
* `accepted` in the verdict engine includes events of any source, so a weak
  acceptance or creation alone is PENDING where `spec/VERDICT_RULES_V0_1.md:44` says
  UNPROVABLE; a failed settlement alone is CONTRADICTED where line 36 asks for both
  outcomes (the API document agrees with the code).
* After a stop in the middle of writing the key file no process starts again
  until the file is removed by hand, and with it the issuer's key: the promise of a
  preserved key (`governance/NEXT_ACTION.md:18`) then holds only in the sense of
  `OneIssuerKey`. `EveryProcessServes` is conditional on that not happening.
* Two processes that start on one fresh directory at once can initialise the index
  over each other's links; `LinksSurvive` is conditional on no overlap.
* Each of these makes every bundle of an action invalid for good: a claim that the
  client dated ahead of the relay's clock or described with an empty identifier
  (`createAction` does not validate what the verifier will), an event from
  Stripe's future, and a webhook after the issuer identifier or key changed.
* `verifyBundle` reports `valid_proofs` also of an INVALID bundle (the verdict engine
  does not use them then), and throws a `TypeError` where it could report, for
  example when an event's parents are not an array; the model looks only at bundles
  it reports on. INCOMPLETE bundles are evaluated.
* The end of a chain of events can be left out unnoticed: `LineageComplete`
  protects what something is built on. The payload's proof, which would show it, is
  optional.
* `sign --target-id` without `--target-type` writes a proof of the payload that names
  a target, which the verifier refuses: the file that passed does not any more.
  `SigningAddsOnly` counts it as not properly made.
* Identifiers of Stripe's events are taken as they are. The connector replaces
  characters in the identifiers it makes of them, so that two could in principle become
  one, and an event without an identifier would not be recognised when it is
  repeated; Stripe sends neither, and the model has neither.
* The parser checks a string's surrogates while reading it and once more at its end.
  Both are modelled; either alone is enough for `AcceptedIsCanonical` as far as
  surrogates go.
* `-0` and `0` are one number to the canonical form, and one in `StrictJson`. Actions
  are posted through `JSON.parse`, not through the strict parser.

## 5. Proofs

`RelayProofs` proves, for every value of the constants:

* `Invariant`: `Spec => []Inv`. `ExactlyOnce` alone is not inductive: that an
  append writes the right revision depends on what the handler learnt three steps
  before still being true. `Inv` therefore says, per handler and step: it holds
  its locks (`LockInv`), its request fits (`RequestInv`), the metadata it read
  was and stays committed (`ReaderInv`), past its second check the metadata it
  holds *is* the one on disk and lacks the event (`AppenderInv`), a creator's
  action has no metadata yet (`CreatorInv`), a linker's copy of the index is exact
  (`LinkerInv`); and per action what the files look like (`FilesInv`). The proof
  has a step per action. Its lemmas say that only the holder of a lock changes
  what the lock guards, and that a step of one handler keeps the facts of another.
* `TypeCorrect`, `RecordedOnce`, `IndexIsSound`: consequences of `Inv`.
* `CommittedRevisionsImmutable`: an action property, from `Inv` before the step.

`RelayHistoryProofs` builds on it, again for every value of the constants:

* `HistoryInvariant`: `Spec => []HInv`. `Inv` says that files and locks fit together,
  not what is in the files, so it cannot show where a revision comes from. `HInv`
  adds: the metadata a handler has read outside the lock is a prefix of the one on
  disk and the bundle is the revision it names (`SourceInv`); the bundle built from
  them extends a committed revision, and is what the writer has put into the files
  so far (`DraftInv`); a listing has read a gapless beginning of the files
  (`ListingInv`); a webhook's action is the one its refund is linked to
  (`LinkedInv`), and one about to be answered 2xx is recorded (`AcceptedInv`). The
  argument: histories, committed revisions and links only grow, so what was read
  without the lock stays a past state; what is written in the lock stays as it is.
  TLC checks `HInv` on the instances of `relay_concurrent` and `relay_serial` (add it
  to their INVARIANTS; `MCRelay` extends `RelayHistory`).
* `EveryRevisionDescends`, `AcceptedIsDurable`, `AnswersAreCommitted`, `FilesSettle`:
  the four content properties of `relay_concurrent`. That an accepted event's evidence
  is in a committed revision follows from its being recorded and from the lineage of
  the revision recorded with it. `FilesSettle` needs `faults = 0` only because a
  failed or cut-off write leaves files behind.
* `NestedLocksNeverDeadlock`: `Spec => []NoDeadlock`, for constants with `IndexKey` not
  in `Actions` (with it in there the property is false, see section 4). `HInv` knows the
  holders of locks but nothing of those behind them: that the head of a queue will come
  to give the lock back needs that *every* ticket in a queue belongs to a handler that
  wants that lock, and is there once. `LocksInv` says so; it is inductive for all
  constants. The order action before index does the rest. What it leaves to the run
  `relay_live` is that the one that runs is eventually scheduled.
* `ImplementsLedger`: `Spec => RecordedSpec`. The creation of metadata.json opens a
  history, its rewriting records an event, the index's rewriting links a refund or
  changes nothing; every other step, `IOError` and `Crash` included, is a stutter.

`RefundOutcomeProofs` proves, for any clocks, bounds and orders of deliveries:

* `OutcomeInvariant`: `Spec => []IInv`. The verdict is computed from the bundle, the
  promise is about the refund; `IInv` ties them through Stripe's events: what the
  emitted ones say of the refund (`Life`), that every event of the bundle is the
  claim or said by a recorded one (`Provenance`), and that everything a recorded one
  says is in the bundle and qualifies (`Completeness`).
* `OutcomeTypeCorrect`, `VerdictIsJustified` (from `Life` and `Provenance`),
  `VerdictCatchesUp` (from `Life` and `Completeness`): consequences of it.
* `DeliveriesKeepValid`: `Spec => ClaimDateDecides`, assuming `Skew >= 0`: the
  relay's clock is not behind Stripe's. Without that assumption it is false, which
  is what the run `outcome_skew` shows.

`RefundEvidenceProofs` proves, for any issuers and any batches of events:

* `TypeCorrect`: the bundle's proofs are about its own events.
* `NeverRetreats`, `WeakEvidence`: each class of events the verdict looks at
  only grows with the bundle, and the order of `evaluateRefund`'s cases is one in
  which growth moves the verdict up.
* `StrongVerdicts`: by cases on the verdict.
* `DecisiveEventsSuffice`: each class of events of the excerpt is the class of
  the bundle cut down to the decisive events, so the same case applies.

`RelayStartProofs` proves, for any processes, keys, refunds and stops:

* `StartInvariant`: `Spec => []IInv`. That signatures agree with the key file needs
  that at most one process is past the exclusive open and not yet done, that the file
  is torn exactly then or after a stop, and that whoever is past the key holds what
  is in the file.
* `StartTypeCorrect`, `OneKeyForEver`, `LinksAreKept`: consequences of it.

`PromiseLockProofs` proves, for any calls made at any moments:

* `LockInvariant`: `Spec => []IInv`. `IInv` says what the engine's queue is for: each
  call's place in the chain and the promise it waits for (`ChainInv`), what the map's
  entry is (`EntryInv`), and that a job is in the queue exactly once when the promise
  it reacts to is resolved and its reaction has not run, and not otherwise
  (`JobsInv`). Without the last one a callback could be started twice, or never.
* `LockIsQueue` (`Spec => ImplementsQueue`): a call enters the queue when it is made,
  starts when its predecessor's promise has reached it, and leaves when it settles; all
  other jobs are stutters. That a started callback is at the head needs the chain.
* `NobodyIsForgotten` and `EntryIsExact`: consequences of `IInv`. The first looks for
  the first call of the chain that has not settled: the least of a set of numbers.

`EvidenceFileProofs` proves, for any issuers, keys, tolerances, revisions and changes:

* `BundlesHaveShape`: both bundles keep their types, and issuers of different
  identifiers have different keys.
* `RelayInvariant`: `Spec => []RelayInv`. That a bundle is VALID is a statement about a
  dozen checks on it, and the next revision's is not a consequence of it: its events
  name the *last* event of the one before, its proofs its issuers. `BuiltBy` says how
  the relay's bundles are made (identifiers, digests, parents, evidence, proofs, the
  predecessor), and `RelayInv` adds that a bundle is clean exactly while `spoilt` is empty.
* `RelayBundlesAreValid`: from `RelayInv`, check by check of `verifyBundle`.
* `ProofsAreKept`: what a revision adds leaves the resolution of every target alone.
* `ProofsCover`, `VerdictRests`, `LineageIsComplete`: about *any* bundle that passes,
  so they need at most its shape. `LineageIsComplete` needs no induction along parents,
  because the verifier checks every event of the bundle.
* `SigningOnlyAdds`: an action property, by cases on what is signed.

`CanonicalJsonProofs` proves, for texts of any length and width and any `MaxDepth`:

* `ReaderInvariant`: the parser builds a value bottom up. At any time there is a set of
  sound values, each made of others of the set (`SoundSet`), from which everything on
  the stack is taken, and it grows by each value that is completed. Besides, the mode fits
  the innermost container (`PlaceInv`), a string that could end now is valid Unicode
  (`BufferInv`), and every open object knows a name that is new for the value it awaits
  (`NamesInv`). `PlacesAndNames` is the part of it that TLC can evaluate (`IInv`).
* `NamesAreUnique`: from `NamesInv`. The pending key matters: it is checked when its
  string ends and used when its value does, with any number of containers in between.
* `AcceptedIsTaken`: an accepted value is in `Value`. `Value` is bounded in depth, so the
  invariant of the reader does not suffice: `DepthInvariant` adds that a value inside
  `k` open containers is at most `MaxDepth - k` levels deep, which is inductive because no
  more than `MaxDepth` containers are ever open. `AcceptedIsSound` says the same of values
  of any depth, by membership in a set.
* `CanonicalReads`: in whatever containers the parser is, the canonical text of a value
  takes it to where that value, members sorted, is complete. The argument is an induction
  over the parts of the value, and along a list of parts over their number.
  `CanonicalAccepted` is the case of no containers, `CanonicalRoundTrip` that of what was
  accepted.
* `CanonicalDistinguishes`: values of one canonical text are the same value, sorted; it
  follows from `CanonicalAccepted`, since one text is parsed in one way.
* `CanonicalOrder` and `OrderIsIrrelevant`: the order of names is strict and total, so the
  members of an object have different ranks, which do not depend on where they stood.

Both the values and the functions on them are recursive. The induction over values is not
the library's, which takes an operator as a parameter: `Value` has levels, the set of
levels with a value that lacks the property has a least element, and there is none. That a
recursive function satisfies its equation is proved too, by building it level by level.

About overlapping webhooks, `RelayHistoryProofs` proves two theorems of the form
`Spec /\ []Serial => ...`. `Serial` says that no two webhooks *of one action* are between
reading its metadata and writing at once; creations, reads, webhooks of other actions,
failures and restarts may interleave as they like. The code does not guarantee it: the
run `relay_lost` is such an overlap.

* `SerialInvariant`: what such a webhook has read outside the lock is still on disk when it
  writes (`FreshInv`), so committed revisions are a chain, the last carrying all that is
  recorded (`ChainInv`). TLC checks it with two handlers, `Serial` as a state constraint.
* `PredecessorIsImmediate`, and `ImplementsEvidence`: `EvidenceSpec`, the refinement that
  fails in general. So an overlap is the only cause of lost evidence, and a relay that built
  the bundle inside the lock would have neither problem.
* `OneRequestAtATime`: with one handler `Serial` is always true; this is the run
  `relay_serial` for any actions, events and faults.

Assumptions are the typing of constants (`RefundOfAssumption`,
`InvalidRefundsAssumption`, `MaxFaultsAssumption`, `AbsentAssumption`, `BatchesAssumption`,
`MaxEventsAssumption`, `OutcomeAssumption`, `StartAssumption`, `LockAssumption`,
`FileAssumption`, `JsonAssumption`), which TLC evaluates in the runs.

Only model-checked:

* the liveness properties (`EveryRequestAnswered` and its like): fairness and ENABLED are
  out of the prover's reach. `NobodyForgotten` is the part of the lock's liveness that is a
  safety property;
* the three statements that are false (runs that end in a violation).

Every safety property of the passing runs is stated by a theorem. Where an argument would
be an induction over numbers or data (the first event of a chain, the first call waiting,
the parts of a value) the proofs take the least element of a set instead.

## 6. Not modelled

* Cryptography: hashing is ideal, a signature is its key and its input.
* The verifier's checks of single members (formats, enumerations, member names),
  which are one flag per object, and the tables of member names and error codes.
* HTTP routing and bodies, the Stripe signature header's syntax and its HMAC.
* Two relay processes *serving* one directory: the locks live in memory, and the code
  does not claim to support it. Their starts are modelled.
* The outcome packet, a report without state, and the CLI's arguments, printing and
  exit codes; the development scripts and the website, which are not part of the
  running system.

## 7. Plan

In this order; all but the last step are done.

1. `RelayStore`, `Relay`, `RelayProperties`, `EvidenceLedger`: the store under
   concurrency and failure.
2. `OutcomeVocabulary`, `RefundVerdict`, `RefundEvidence`: the verdict.
3. `StripeConnector`, `RefundOutcome`: the composition from Stripe to verdict.
4. `RelayInvariant`, `RelayProofs`, `RefundEvidenceProofs`.
5. `LockQueue`, `PromiseLock`: the lock the relay's models take for granted.
6. `RelayStart`, `RelayStartProofs`: key and index across starts.
7. `BundleVerifier`, `EvidenceFile`: the structure of bundles, the relay's and others'.
8. `StrictJson`, `CanonicalJson`.
9. `RelayHistory`, `RelayHistoryProofs`, `RefundOutcomeProofs`: contents, refinement
   and verdicts proved.
10. `PromiseLockProofs`, `EvidenceFileProofs`, `CanonicalJsonProofs`, and webhooks that do not
    overlap in `RelayHistoryProofs`: every safety property of the passing runs is proved.
11. The concurrent Relay composed with the verdict: which verdicts a lost update
    can lose.
