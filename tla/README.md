# Formal model of scitt-verifier

`scitt-verifier` decides, from files and optionally from the network, whether a
signed transparent statement (a COSE_Sign1 with transparency-service receipts)
may pass a deployment gate. Its whole output is a verdict, a record and an exit
code, and the point of the program is what exit 0 means. These modules model the
program as state machines and pure functions, check them with TLC on small
instances and prove the central properties with TLAPS for every instance.

Line numbers refer to `src/`; the file `PROJECT.json` maps every modelling
definition to the lines it stands for.

## 1. Inventory

| Component | State | Operations | Hard behaviour | What makes it correct |
|---|---|---|---|---|
| Command line (`cli.rs`) | none | `parse` | a dozen flags that constrain each other; output paths that point through links | an accepted command line leaves nothing undone and reaches the network only with `--online` |
| Pipeline (`main.rs` `evaluate`, `resolve_trust`, `check_binding`, `run_adapter`) | the assessment under construction | one stage after the other, each with early returns | order of early returns, vacuous truths, partial failure | exit 0 establishes everything that was asked; an adapter only narrows; a receipt has no veto |
| Verdict (`outcome.rs`, `decide`, `narrow_for_resource`) | none | pure functions | many combinations | see above |
| Diagnosis (`diagnose*`, `choose_primary`, `gaps`, `classify_core_error`) | none | pure functions | a reason chosen far from the decision | a failure names a reason of its own; a pass declares what it did not check |
| Acquisition (`scitt-network`, `external_roots.rs`, `resolve_online`) | a deadline, one request at a time, results so far | ask a ledger for its identity and key set, ask a root endpoint, read a configuration | time, silent peers, rotation of a service identity between two requests, partial failure | the deadline holds, keys are the service's own, optional work never starves required work, nobody is lost from the account, the phase ends |
| Selection and scoping (`online.rs`) | none | `select`, `verify_scoped`, `pick` | one verification pass per ledger merged receipt by receipt | a receipt is decided only by the keys of the ledger it names |
| Receipt core (`scitt-receipt`) | none | signature, receipts, chain, binding | "not known" against "false" | three-valued facts are never confused |
| Policy (`scitt-policy`) | none | one result per assertion | clocks, absent facts, empty lists | a rule that could not be evaluated is not a pass |
| Evidence adapters (`src/adapters/*`, and the heads in `scitt-verifier/src/adapters`) | none | appraise a ledger's fleet, an attestation service's key set, a rebuild, a device | rules of the form "all agreed" over empty or repeated evidence; evidence that is missing against evidence that contradicts | a pass rests on all of the evidence; what was never authenticated is no finding on identity or policy |
| Live collection (`live.rs`, `scitt-network` `acl.rs`, `maa.rs`) | a deadline, one request at a time | identity, quotes, nodes; or one key set | a service that changes between requests, silent peers | what is appraised is the pinned service's, in time |
| Evidence directory (`load.rs`, `bundle` in `adapters/maa.rs`) | files shared by runs | `save`, `load`, one file at a time | two runs saving, a run killed half-way, ids that become one file name | a replay is one collection, and agrees with the run that saved it |
| Outputs (`emit`, `save_trust`, `demote`) | the file system | snapshot, facts, record, stdout | writes that fail part-way, paths that collide | exit 0 leaves everything on disk; record, stdout and exit code agree; evidence is not overwritten |
| Inspect, WASM build, tools, action | none | - | - | not modelled |

Interaction: `main` parses the command line, `evaluate` runs the stages. In the
online form it calls `online::select`, then `scitt-network` once per ledger, root
endpoint and configuration, then `online::verify_scoped`; offline it reads one
key set. `scitt-receipt` reports facts, `scitt-policy` a list of assertion
results, `decide` a verdict, an adapter a list of checks that
`narrow_for_resource` may take the pass away with. `emit` writes the outputs and
may still demote the verdict; its return value is the exit code. Everything runs
on one thread: the concurrency of this system is with time, with remote services,
with the file system, and with other runs of itself that use one evidence directory.

The hazards (what is hard to test here) are listed line by line in
`PROJECT.json` with the properties that watch them.

## 2. Modules

| Module | Models | Kind |
|---|---|---|
| `Outcome` | verdicts, exit codes, facts, `decide`, `narrow_for_resource`, `required_checks_pass`, the acquisition block | vocabulary and pure functions |
| `Diagnosis` | `diagnose`, `diagnose_resource`, `choose_primary`, `classify_core_error`, `gaps` | pure functions |
| `Cli` | `cli::parse` for `verify` | predicate on a command line |
| `Verify` | `evaluate` with every stage and early return | state machine, extends the three above |
| `MCVerify` | instance of `Verify`, two documented statements | model |
| `Gate` | what a pipeline is promised about the end of a run | abstract specification |
| `Emit` | `emit`, `save_trust`, `demote`, `write_json` over a file system | state machine, implements `Gate` |
| `MCEmit` | instance of `Emit`, two documented statements | model |
| `Acquisition` | the network phase: key sets, roots, configurations, time, rotations | state machine with fairness |
| `MCAcquisition` | instance of `Acquisition` | model |
| `Scoping` | `online.rs` (which ledgers are asked, the passes and their merge) over receipt evaluation, key lookup and `valid_at_registrations` of `scitt-receipt` | state machine |
| `MCScoping` | instance of `Scoping`, one documented statement | model |
| `Chain` | `chain.rs` (the shortlist of anchors, each path, the outcome) and the reader of the root file | state machine |
| `MCChain` | instance of `Chain` | model |
| `Policy` | `scitt-policy`: reading a policy document and answering each assertion over the facts of a statement | state machine |
| `MCPolicy` | instance of `Policy` | model |
| `Adapter` | the checks of each adapter, which are required, what is answered when nothing was appraised | vocabulary and pure functions |
| `Fleet`, `Attestation`, `Rebuild`, `Device` | the appraisal of Azure Confidential Ledger, Azure Attestation, image-reproduction and amd-snp-device evidence | pure functions, extend `Adapter` |
| `Appraisal` | `run_adapter`, live collection and the evidence directory, for several runs at once | state machine with fairness, composes the four above |
| `MCAppraisal` | instance of `Appraisal`, two documented statements | model |
| `OutcomeProofs` | lemmas on the pure functions | proofs |
| `VerifyProofs`, `EmitProofs`, `ScopingProofs`, `AcquisitionProofs`, `ChainProofs`, `PolicyProofs`, `AppraisalProofs` | theorems on the module each is named after | proofs |

### State and actions against the code

*Verify.* `pc` is the stage of `evaluate`; `args` the parsed command line,
`policy` what validation reads of the policy documents, `acquisition` the
record's acquisition block, `facts`, `binding`, `decision`, `resource` the local
variables of the same purpose, `base` the verdict of `decide`, `assessment` the
value returned. One action per stage: `Parse` (`main`, 37), `ReadInputs` (287),
`CheckRequest` (380), `ReadTrustedRoots` (419), `ResolveLocal` (764),
`SelectLedgers` (826), `VerifyScoped` (1010), `CheckBinding` (488, 2500),
`EvaluatePolicy` (546), `SkipAdapter` / `RunAdapter` (588, 2563), `Assess` (618).
Each early return of the code is a disjunct that ends in `Abort`, which builds
`Assessment::incomplete`. A diagnostic is its code, category and severity, with
the position at which the code pushes it (`phase`, `index`), because
`choose_primary` takes the first of a category. What the environment supplies -
files, statement, policy results, adapter reports - is chosen from constants, so
the theorems hold for all of them; `Reportable` keeps the facts to those
`verify_statement_with` can produce under the given options.

*Acquisition.* One request is on the wire at a time (`flight`), with the instant
its timeout fires; `clock` moves by `Tick` but never past that instant. A service
certificate is named by its generation: `serving[i]` is the generation the ledger
presents now, and `Rotate` moves it at any time. The public identity service may
lag, so it answers with any generation up to the current one. A pinned connection
succeeds only when the peer presents the pinned generation (`Pinned`). The results
of the three phases accumulate in `outcomes`, `roots` and `observations`; `InOrder` is
`online::partition`, `Unread` the acquired ledgers the loop of `observe_configurations` has
still to visit (`Read` the next of them) and `ByIssuer` its final `sort_by`.
`Block` is the acquisition block that `Verify` is given: `EveryoneIsAccountedFor`
checks that it is one (`AcquisitionBlocks`).

*Scoping.* A receipt is what it claims (`issuer`, `kid`, `at`) and what is true of
it (which key signed it, whether it commits to this statement, whether it parses).
`SelectLedgers` is `online::select` with the three arms of `resolve_online`,
`AskLedger` one round of `acquire_all_before` (how a ledger answers is
`Acquisition`'s subject: here any key set or none), `VerifyScoped` the whole of
`verify_scoped`. `Evaluate` is `verify_receipt`, in the order of its early returns
and errors; `Pass` and `Drops` are what `verify_statement_with` makes of it. Which
receipts a pass drops depends on its keys, so the merge (`MergeReceipt`, `Scoped`)
works on sets of facts that carry their place in the envelope, as the code's `index`
does. `live` is the set of times at which the validated chain holds; the case of a
chain that is not valid gives `None` in the code and is `Verify`'s.

*Chain.* A certificate is the facts a path is decided by; two certificates with the same
facts are the same bytes. `ReadLine` and `EndFile` are `parse_pem_certificates`
(`line`, `body`, `roots`), `CheckMaterial` the returns of `validate_chain` before a path
is looked for, `TryAnchor` one turn of its loop and `Conclude` its end. A path is
written anchor first, as the backend is given it; `Attempted` is `try_anchor`:
`path_window`, `choose_time`, `capability_gap`, `verify_path_with_leaf_eku` with the
checks of the backend that it mirrors, and `check_leaf_eku`. `Allowance` is the running
pathLenConstraint count of the code, a recursive function; the properties say with `Holds`
what it should amount to (no certificate has more others below it than its limit). An
explicit time (`options.timed`) is an option of the library that no shipped caller sets;
only there can the time be before 1970, because the certificate parser refuses such
dates.

*Policy.* `policy`, `facts`, `sources` and `now` are the arguments of `evaluate` (or of
`evaluate_statement`, when `whole` is false); `turn` is the place in `Order`, the order in
which the code goes through the assertions, and `results` the list it returns. `Load` is
`from_json` with all that it refuses, `Evaluate` answers the next assertion that is
present (`Answers`, one arm per assertion) and `Finish` adds the `cannotEvaluate` results
of the required adapters. A fact or a field that is absent is the empty set where a known
one is a singleton, so an arm that reads an absent fact shows. A criterion is the set of
values it accepts. CBOR and JSON values are trees whose keys and scalars are numbers:
`Descend` is one step of `resolve_path`, `DescendJson` of `resolve_json_path`, `Follow` the
loop of either, and `First`
the `opt_int_key` by which the claims of the header are read. What the cryptography says of an
external signature is part of its node (`check`, `material`, `chain`); the order in which
`check_chain` and `evaluate_signature` use it is `CheckChain`, `CheckPath` and
`Signature`. `Cutoff` is computed in the wrapping `i64` arithmetic of a release build.

*Adapter and the four appraisals.* Each module follows one adapter crate and the head of
it in the verifier: the order of its early returns, what each of them reports
(`NotAttempted`, `Disagreed`, or a partial list of checks) and how findings roll up into
checks. Certificates, keys, digests and identifiers are numbers, 0 one that is absent or
all zeros. What the attestation library decides is part of the evidence: a report is
authentic when it is signed by the chip its AMD chain names (`Authenticates`), an UVM
endorsement is one of six kinds. `Roll` is the rule that `aggregate` and the attestation
adapter share: one failure fails the check, and it passes only when there are findings and
all pass. Outcome's `Narrow` reads the assessment; in `Verify` it stays a choice of report.

*Appraisal.* `run[r]` is one execution of `run_adapter` (`main.rs`, 2563) by one process,
`files` the evidence directory they share, `serving` the state the service is in, one of
`work.worlds`. `BeginLedger`, `BeginAttestation` and `BeginSupplied` are everything before
evidence is sought. Collection is `Ask` (`budget`, 249), `Tick`, `Expire`, `RequestFails`
and one action per answer: `IdentityAnswered` (`bootstrap`), `QuotesAnswered`,
`NodesAnswered` (with `assemble`) and `CertsAnswered`. Saving writes one file per two
steps, `OpenFile` (which truncates it: `fs::write`) and `WriteFile`, in the code's order -
each node's report, AMD chain, endorsement and certificate, `service.pem`, `snapshot.json`
last; `SaveFails` and `Kill` may come between any two. Loading is `ReadManifest`,
`ReadService` and `ReadPart` per file. A file is `whole` or cut short, and what a reader
gets of a damaged one that has no digest is `Damaged`. The digest of a file is its value:
the manifest holds the nodes as saved, and `Disturbed` compares. `Judge` is the appraisal.
`after` remembers, for a replay, which runs were over when it began; no action reads it.

*Emit.* `fs` maps the files of the model to what they hold; `torn` is a file that
was begun. `todo` is what `save_trust` still has to write, group by group, and
`checked` that the first group was found free. `trustFiles` is the value
`save_trust` returned, which is all that `collides` compares with, and `produced`
what was really written: the difference is a finding. A path carries whether it
was a dangling link when the command line was parsed, because `cli::within` then
places it elsewhere than `emit` does.

## 3. Runs

| Run | Instance | States | Shows |
|---|---|---|---|
| `verify` | 960 flag combinations (two adapters of the four), 8 policies, 61 statements, 6 decisions, 3 acquisitions, 5 reports | 62 478 | what exit 0 establishes, that receipts have no veto, that adapters only narrow, that failures name a reason |
| `emit` | two ledgers (one with a configuration), two root endpoints (one failed), every subset of outputs, paths in four places, four earlier snapshots | 123 468 | exit 0 leaves everything, record and exit code agree, snapshots are final, `emit` implements `Gate` including that it ends |
| `acquisition` | one or two ledgers, at most one root endpoint, 5 key sets, one rotation per ledger | 247 194 | deadline, identity of keys and configurations, completeness, termination |
| `scoping` | four services (one unroutable), limit 2, 5 allowlists, `--ledger` or not, statements of up to two of 13 receipts or one of each of three services, 4 key sets | 112 081 | the statement never chooses where the run connects, each receipt is decided by its own ledger's keys, an appended receipt is inert, a replay of saved keys agrees |
| `chain` | 27 chains over two roots, namesakes, renewals, rollovers and intermediates with limits; files of one or two of 7 roots, eight malformed ones and one with text outside its block; 8 requests | 68 652 | a valid chain has a path and reports its window, one that has a path is found whatever else is in the file, nobody is accused for what this build cannot check |
| `policy` | 44 policies over every kind of assertion, the refused ones included, 103 statements, six lists of root sources, both entry points | 197 760 | an input that is missing changes no answer to the contrary, a receipt that does not verify changes none, a root counts only by the one acquisition of its URL and a purpose only under an authority, known failures are not hidden, acceptance has asked everything, header rules pass on what every reader finds, ages and validity hold for each registration |
| `appraisal` | fleets of one or two nodes in 21 variations of the second, 8 policies, 4 claims; every file of a bundle missing, cut short or exchanged; 12 histories of a service; two runs saving while a third replays; 36 pairs of keys; records, rebuilds and devices that differ in one field each | 131 660 | what a pass of each adapter rests on, what a failed check must have as its grounds, that a live run appraises what the pinned service listed, that a replay is one collection and agrees with the saved run, the deadline, that every run ends |
| `primary_decided` | as `verify` | - | violated: see below |
| `configuration_fault` | as `verify` | - | violated: see below |
| `unevaluable_reported` | as `scoping` | - | violated: see below |
| `anchor_same_collection` | one run saves over an earlier bundle, one replays | - | violated: see below |
| `uncovered_is_not_a_fault` | as `appraisal` | - | violated: see below |

Each passing property has a mutant in `PROJECT.json`: a plausible bug in one
mapped definition (`Mut...`, kept beside the definition) that makes TLC find the
property violated.

Type correctness is a theorem of every state machine. So are `NetworkNeedsOnline`, `PassNamesItsClaim`,
`NotSoughtIsNotUnknown`, `ExactCopyIsTheAnchor`, `BundleOrderIsImmaterial` and
`NothingIsOmitted`. The runs leave these to the proofs and check what needs TLC.

### Bounds

- `verify` has no unbounded counter; the only bounds are the inputs. Receipts are
  none, one, or a good one with a useless one appended, which is every case
  `decide` tells apart; decisions have at most two results so that a failure and
  an unevaluable rule meet; adapter reports have two checks so that one can pass
  and another not, and one name can appear twice. Flags that only print are left
  out, `--keys` and `--online` and the evidence flags take all values, accepted or
  not.
- `emit`: two ledgers are needed for a failure after a complete group, a failed
  root before an acquired one so that indices differ, and prior snapshots that
  collide with the first, a middle and the last group.
- `acquisition`: `TotalDeadline` = 3 and `RequestTimeout` = 2 replace 60 s and
  20 s: less than two full requests fit, so budgets are cut at every position.
  `Horizon` is one past the deadline; later instants behave the same because
  `Remaining` is 0. `MaxRotations` = 1 gives a rotation between any two requests;
  a second one meets the same guards. The code's `MAX_LEDGERS` and
  `MAX_ROOT_SOURCES` (8 each) are not approached: no guard of this phase reads
  them.
- `chain`: two roots in a file make every pair of an exact copy, a namesake, a renewal, a
  root with an unsupported feature and a stranger, in both orders; chains reach five
  certificates so that a limit is exceeded two levels up and by a certificate that is
  issued by its own descendant; each leaf has one defect, so that its outcome has one
  cause; times lie in 0..9 with windows that meet, are nested and do not meet.
- `scoping`: two receipts are enough for two passes that drop different ones (the
  merge by position then goes wrong), a third service for a selection above
  `MaxLedgers` = 2 (8 in the code) and below it. Two services serve different keys
  under one kid, one key set holds a kid twice with an unusable first entry, and one
  does not hold the kid. The property about appended receipts appends each of the
  thirteen to each statement.
- `policy`: each assertion alone and those that read one another's input together (issuer
  with the times, `requireEku` with each authority), each fact known and unknown; statements
  with none, one or two registrations, one of them unverified or without a time. `Half` =
  128 and `Day` = 2 stand for 2^63 and 86 400, so that a number of days in 0..127 can wrap;
  `MaxDepth` = 2 for 8. One instant `now` = 100 suffices, since registrations lie before,
  at and behind each boundary: only differences are compared.
- `appraisal`: each workload varies one thing from good evidence, so that an outcome has one
  cause, and pairs of variations are pairs of node and policy. Two nodes are needed for
  repeated keys and for ids that share a file name (`MCStem` gives two ids one stem and one
  id none), a third to exceed `MaxNodes` = `MaxSavedNodes` = 2 (128 and 1024 in the code).
  Two runs saving and one replaying is the least in which a file is replaced between two
  reads; there the fleet has one node, two runs and two service states. `TotalDeadline` = 3
  and `RequestTimeout` = 2 cut the budget of the second and third request. Histories have
  two states of the service, which puts a change between any two of the three requests.

### Fairness

- `Emit`: `WF(Next)`. One thread runs from `emit` to the exit; each file operation
  returns with success or an error.
- `Acquisition`: `WF(Program)` (the thread runs when it can) and `WF(Tick)` (time
  passes). There is no fairness on any answer: a peer may stay silent for ever,
  and the phase still ends because `http.rs` gives every agent a timeout. Nor on
  `Rotate`.
- `Appraisal`: weak fairness on the disjunction of `Program` and `Tick` over all runs: some
  process is scheduled while one of them can go on, and time passes for it. Nobody has to
  answer, no write has to succeed. `EveryRunEnds` holds because each request is bounded by
  `budget` and no step of a run waits for another run.
- `Verify`, `Scoping`, `Chain` and `Policy` have safety properties only, so they state no fairness.

### Findings

1. `primary_decided` - `docs/output.md:268` says the primary diagnostic "names the
   one that decided the verdict". `choose_primary` picks by category and position.
   For `cannot-evaluate` a fetch failure of a ledger that played no part comes
   before the policy rule or adapter check that was left unanswered; for
   `untrusted` an error of category crypto or binding wins over the chain that
   indicted the statement.
2. `configuration_fault` - `docs/output.md:368` says configuration faults "are
   usage errors". An `UnsupportedPlatform` host gives every ledger that fault; the
   run ends as `cannot-evaluate`, exit 3, with the fault only filed under `input`.
3. `unevaluable_reported` - `docs/output.md:653` says a receipt that cannot be
   evaluated "is reported as `ReceiptUnevaluable`", with an action that follows the
   reason. Online, `mark_unevaluable` (`online.rs:261`) keeps the facts of the pass
   without keys: the lookup says unknown kid, and the list of unevaluable receipts is
   that pass's. A receipt with an algorithm this build lacks is then reported as one
   whose key is not in the set. The verdict is the same.
4. `anchor_same_collection` - a comment in `load.rs` (258) says that the digests "are written
   for every file" and let a later replay say "this was disturbed". `service.pem` has none.
   When a run saves over an earlier bundle and is killed after `service.pem`, before
   `snapshot.json`, a replay reads the earlier nodes with the later anchor and reports a
   failed `ledger-identity-binding` (the nodes are of a foreign service) for evidence that
   was disturbed. With one service identity nothing shows, and `LoadedIsOneCollection`, which
   is about the nodes, holds and is proved: their files have digests and the manifest is
   written last.
5. `uncovered_is_not_a_fault` - `docs/adapters.md:277` says a node whose generation no floor
   names is "reported as cannot-evaluate. Nothing about that node is at fault".
   `enforce_floor_covers_this_node` returns an error, `appraise_with` reports every error of
   `verify_node` as a failed attestation and `aggregate` as a coverage gap: the run is
   `resource-failed`, exit 2, instead of exit 3.

Smaller observations, not runs: `docs/architecture.md:201` says the issuer is checked
before the kid, "so a key that is legitimate for a different transparency service can
never satisfy this receipt"; online this is what `DecidedByOwnLedger` checks, offline
a key set is not tied to an issuer (the comment at `keys.rs:55` says why). `docs/output.md:397` says `AcquisitionNotConfigured`
"appears with `selected` empty and `notAttempted`", but the refusal carries no
acquisition block at all. `--facts` and `--result` may be one path: the record then
replaces the facts document (`ExitZeroLeavesEverything` excludes it). When only
standard output is lost the record on disk keeps saying pass while the exit code is
4, as a comment in `emit` accepts (`RecordAgreesWithExit` excludes it). The comment
on `decide` reserves untrusted for "two findings"; an invalid chain is a third. A
request cut short by the deadline is reported `transport`, because its timeout is a
timeout to `http::classify`. Selecting more allowlisted ledgers than `MAX_LEDGERS`
refuses the run, so receipts appended by somebody else can turn a pass into a usage
error; `NoVetoByReceipt` speaks of `decide`, after the selection.

In the policy: a claim that the header carries twice is read as the first
(`cbor.rs:63`), while `protectedHeaders` refuses a repeated label because "there is no safe
choice between them" (`docs/policy.md:828`, which speaks of header rules only);
`statementSubject`, `statementIssuer` and `minSvn` are outside `HeadersReadAlike`. A large
`maxAgeDays` overflows: a release build wraps and can only refuse what is recent, a debug
build panics. A registration later than `now` satisfies `maxAgeDays`. A malformed
`requireChainToRootSha256` of the statement's own chain is accepted when the policy is
read (that of an external signature is not) and then never matches.
`signerSubjectContains` with an empty text accepts every certificate. With `issuer` and
`registeredBefore`, the time may be that of a verified receipt of another service than
the one that answered `issuer`: `docs/policy.md` promises the earliest of the verified
receipts, no more. No caller ever fills `revoked_kids`, so `KeyLookup::Revoked` cannot
arise from `find`; `Outcome` keeps the value, `Scoping` does not produce it.

In the outputs: `docs/trust-material.md:83` says `--save-trust` refuses an output "over a file
it produced in the same run"; after a partial failure of `save_trust` the list compared with
is empty, and a path that was a dangling link when the command line was parsed then leads to
a produced file. `docs/adapters.md:320` says an output inside the `--save-evidence` directory
is refused; a dangling link into it is not recognised (`cli.rs:797`). The verdict of the first
is already demoted (`SnapshotIsFinal` holds).

In the adapters: a live collection takes at most 128 nodes and a saved bundle 1024. A live
field above the size of a file that `load` accepts is saved and cannot be read again, and a
live node may have an empty certificate, which is saved as none; `SavedReplays` excludes the
first. Distinct stems that differ in case only are one file on some file systems. A key set
saved under `--maa-endpoint` replays only where the policy's `target.host` is spelled as the
endpoint was. A failed save of a key set removes what is at its path, even if another run put
it there. Several certificates that carry one report pass `maa-certificate-coverage`. A payload that
is not JSON is a failure for `image-reproduction` and not evaluable for `amd-snp-device`. Nodes in
the ledger's node list that it has no quote of are in no check; `expectNodeCount` is what
notices them. A certificate whose signature algorithm is not supported fails the identity
binding, although its message (`identity.rs:135`) says "not checked either way".

## 4. Proofs

All constants are arbitrary sets within the assumptions that their modules name.

*VerifyProofs.* The properties of `Verify` are about its last state and need what
earlier stages established, so none is inductive. `IInv` adds to `TypeOK` one
conjunct per stage, each true from that stage on: `LineAccepted` (the command line
was accepted, so its flags agree), `AdapterAgreed` (policy and command line name the
same adapter), `FactsReported` (the facts are ones that can be reported under these
options), `ArtifactBound` (the comparison is there exactly when an artifact is),
`BaseDecided` (`base` is what `decide` says), `ResourceMatches` (an adapter ran
exactly when one was named, and for an unaccepted statement only `NotAttempted`),
`PassIsNarrowed` (what the final assessment was made from) and `OnlineAsked`. TLC
checked `IInv` on the `verify` instance before the proof. `StagesEstablish` proves
that it is an invariant, one lemma per action; `PassIsEarned`, `PassIsNamed`,
`NetworkIsAskedFor`, `ReceiptsHaveNoVeto`, `AdapterNarrows` and `FailuresAreNamed`
follow from it and from the lemmas of `OutcomeProofs` (what a pass of `Decide` and
`Narrow` implies, that an appended receipt changes neither, that each non-pass has a
diagnostic of a wanted category).

*EmitProofs.* `EmitInv` is `Shape` (types of the plan left to write),
`NotSavedYet` (nothing is returned before the end of `save_trust`),
`LinksLeadNowhere` (a path that was dangling does not lead to an earlier snapshot),
`GroupIsClear` (the files left of a checked group are free), `RecordSaysVerdict`,
`MissedIsNoPass` (a missed output leaves no pass) and `ExitIsVerdict`. It gives
`RecordIsTheExit` and `SavedIsFinal`. `ExitZeroLeaves` adds `LeavesInv`: as long as the
verdict is a pass, every planned file is written or still on the list of those to write
(`WholeOrLeft`), once the snapshot is over all of it is there (`SnapshotWhole`), and so is
the facts document from its stage on (`FactsWhole`). That a later document does not
overwrite the snapshot (`DocumentKeepsSnapshot`) rests on `collides`, which compares with
all of the snapshot as long as the verdict is a pass. `EmitKeepsTheContract` proves the step
simulation to `Gate` (every step is a `GateNext` step or a stutter), with
`MissedInTurn` - an output is missed only once its stage is over - as the extra
invariant; `ExitZeroDelivers` is the gate's own theorem carried over.

*ScopingProofs.* The central lemma, `MergeIsLocal`, says that what becomes of a receipt
depends on the receipt, its place and the key set of the ledger it names (`Decided`) and
on nothing else; it holds because facts carry their place and the pass without keys
drops no receipt that another pass evaluates (`EvaluationReports`). `EvaluationIsExact`
says when the early returns of `verify_receipt` leave a verified receipt; it needs that
the first entry with a kid exists (`LeastIn`). The inductive invariant `IInv` is
`RequestTyped`, `ChoiceAuthorised` (what `select` returned is what the policy
authorises), `OnlyChosenAnswer` and `ResultIsTheMerge`. The four properties of the run
`scoping` and `NotSoughtIsNotUnknown` follow.

*AcquisitionProofs.* `TimeKept` (the request on the wire ends before the deadline and the
clock does not pass its end) is inductive because every step but `Tick` leaves the clock
and asks only with time left (`AsksInTime`). `LedgersTyped` and `AllGenuine` give
`KeysAreTheServices`: a connection that answers was pinned to the certificate the
outcome is filed under. `TypesAreKept` adds `PhaseTyped`: a certificate is held only while
its ledger is due, because each way a ledger ends drops it and `EndStage` waits for all.
The record is the subject of `PhaseInv`, which adds `Progress` (each stage begins when the one
before has dealt with everything, and a request belongs to the stage it was made in) and
`Account` (each observation is of a selected ledger and agrees with its outcome, no ledger has
two, every ledger that failed has one from the stage of configurations on, all have one at the
end and in the order of the issuers). TLC checked both before the proof. It gives
`ConfigurationsAreTheSame`, and `EveryoneIsInTheRecord` with three lemmas on data:
`PartitionIsWhole` (the two lists of `online::partition` are together the selection),
`SelectionIsSorted`, and `IncreasingOntoIsIdentity` (a sorted list of as many distinct issuers
as were selected is the selection itself).

*ChainProofs.* `SearchInvariant`: the candidates already tried are those the order
`Ahead` puts first, `failure` and `gap` are what their attempts came to, and none was
valid. At the end that makes the outcome a function of the set of candidates
(`OrderIsImmaterial`) and a root equal to the chain's top the anchor reported whenever
its path holds (`ExactCopyAnchors`). `RootsAreWhole` is about the reader: an invariant
relates the blocks begun in the lines read to the roots so far and the open block, for
files of any length. The other four properties compare what the code computes along a path with
what a path should be. `AllowanceMeetsLimits` is the central one: the running pathLenConstraint
count is never exceeded exactly when no certificate has more others below it than its limit. It
is a minimum over all earlier certificates, of which one is the tight one (`Tight`,
`TightStep`); each certificate costs one of the allowance unless it is self-issued
(`SpentGrows`). `WindowIsLife` says that the intersection of validities is when all are live, `AcceptedHolds` and
`HeldIsAccepted` that an attempt accepts a path that holds and no other. `RouteHasCandidate`
gives each way from an anchor to the leaf a candidate of the shortlist whose path holds as well:
that way itself, or the one in which the operator's copy stands in the place of the statement's
top (`InPlaceIsEnough`).

*PolicyProofs.* The invariant `PolicyInv` is `Typed`; that each assertion before `turn` that was
asked is answered in full; that every result is one of an assertion or of an adapter; and
that a finished evaluation has no assertion left. The last needs that a non-empty set of
places has a least one (`AllAsked`), or an assertion could be asked and never be next.
The rest is about `Answers`, for all statements: `AnswersFromTheVerified` (all
assertions but `receiptCount` read receipts only through `Verified`), `WeakerAnswers`
(withholding an input weakens each answer, one lemma per withheld input and kind of
assertion) and `PublishedByOne`. For `RecentEverywhere`, `WrapIsCongruent` says that a wrapped
number differs from the true one by a multiple of the modulus, and `CutoffIsTheAge` that the
cutoff is the instant that many days ago, unless that instant is before every time there is:
wrapping can only refuse. For `EveryoneReadsTheSame`, `ResolveAgrees` compares the resolution by
the code with the set of all readings, step by step along the path: where the code finds a node
it is the only reading, where it finds none there is none, and otherwise it refuses. All nine properties of the run
follow.

*AppraisalProofs.* The properties of what a run appraised are about its end, so the invariant
`IInv` says what holds at each point, by `pc`: `Underway` (a run in progress has an accepted
statement, a usable claim and, for a ledger, a pin that is met, and is at a step of its own
adapter), `Settled` (a finished run's result is the assessment of what it kept), `Timely` (the
request on the wire ends within the deadline), `Placed` (the place in the list of files is
one of the bundle), `Gathered` (what a live run has is the nodes of one state of the service,
or of one and the quotes of a later one; what a replay has read is what its manifest lists)
and `Kept` (a manifest in the directory lists the nodes of one collection, or of the bundle
found there). The last two make `ReplayIsOneCollection` go through: they hold across the steps
of all other runs because the digest is compared on the bytes in hand, whatever happens to
the file later. The four
theorems on passes follow from `Settled` and one lemma per adapter that unfolds a passing
assessment check by check; `FailuresAreGrounded` likewise, with a lemma that `Roll` fails
only if a finding does. A failed check of identity, policy, freshness or a comparison has
evidence that says otherwise. The platform check and the coverage are weaker, because the code
turns every error of a node's verification into one failed attestation, absent evidence included:
`OutcomeGrounds` shows that a failed attestation has a node that cannot be verified, or one that
runs the policy and is below its requirements, and `CoverageGrounds` that failed coverage has a
node that cannot be verified or two that attested one key (as many keys as nodes leave no key
twice). Everything is for any number of runs, nodes and states, any
directory and any `Stem`.

`SavedReplays` compares two runs across a whole directory and needs a second invariant,
`SaveInv`, about the one run that saves there. `Saving`: the files it has written so far are in
place and whole, counted by its node and part; when it is over, all of them are. Nothing that
run writes later falls on an earlier file, since a save refuses a node whose stem an earlier node has
(`Apart`), and the manifest and the service file are not a node's. `Begun`: the one open file is its next
one, truncated. `Appraising`: what a live run keeps is something a replay accepts, because a
live collection refuses an empty, unnamed or repeated node list before it saves (`Savable`).
`Reads`: at each step of a replay begun afterwards, what it has read is the saver's bundle up to
that step, so it takes no early return and ends in the assessment of the same evidence
(`SavingInvariant`, `SavedIsReplayed`). The premise that only one run saves is the property's
own: with two, only `LoadedIsOneCollection` holds.

*Recursion.* Four results are about recursive functions: `InOrder`, `Allowance`, `Follow` and
`Readings`. Each is first shown to exist with its recursive equation (`ListsExist`,
`LoweringExists`, `FollowedExists`, `ReadExists`), and then what it computes, both by a least
counterexample: a non-empty set of numbers has a least one, which is `WFMin` of the library applied
to the order of the naturals and takes no operator as a parameter.

*Model-checked only.* Liveness (`Terminates`, `EveryRunEnds`, the fairness part of
`ImplementsGate`), because TLAPS is used for safety only. Every invariant and every action
property that a passing run checks is a theorem.

## 5. Not modelled

Parsers of CBOR, DER, base64, JSON and PEM (unbounded data; a choice of outcome in
the models), signatures and hashes, the layout of the record, report and transcript. Of `Policy`: the notation of a path
(`parse_path`), the matching inside strings, the algorithm names, and `claim.rs`, which
extracts a value for `inspect`. Of `Chain`: other extensions than basicConstraints, keyUsage and EKU are one flag
(`beyond`), names are compared as wholes, and a root renewed under its own key is not
substituted for the statement's copy of the older one, as in the code. `inspect`, the
WASM wrapper, scripts and the CI action. Of the adapters: what the attestation library
verifies is a field of the evidence, the decoding of hex or base64 is part of whether a
response assembles, and progress events are left out. Of the evidence directory: paths in a
manifest that leave it, the total read allowance (a file that cannot be read again is
"Oversized"), and what unsynced files hold after a power loss; a killed process leaves what it
wrote. Two runs sharing one trust directory (`--save-trust`). Response size limits (`http.rs`)
are one of the faults a request may end in.

## 6. Plan

The core, the network phase, the chain, the policy and the adapters are done. What is left, in
this order:

1. Two runs that save trust material into one directory (`Emit`).
2. The rest of `scitt-receipt`: `external.rs` and the resolution of a `did:x509` issuer.
3. The parsers of CBOR and DER, as functions over short byte strings.
