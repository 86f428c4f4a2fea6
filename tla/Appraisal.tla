----------------------------- MODULE Appraisal -----------------------------
(***************************************************************************)
(* Runs that appraise evidence: main.rs run_adapter, adapters/mod.rs, the  *)
(* live collection (live.rs, scitt-network acl.rs and maa.rs) and the      *)
(* evidence directory (load.rs, and the bundle of adapters/maa.rs).        *)
(* Several runs may share one directory, each reading or writing one file  *)
(* at a time, and may be killed while they write; meanwhile time passes    *)
(* and the service moves on.                                               *)
(***************************************************************************)
EXTENDS Fleet, Attestation, Rebuild, Device

CONSTANTS
    Workloads,       \* what the runs are asked, the directory, and the service's states
    Stem,            \* the filename stem each node id reduces to; NoStem is none
    MaxNodes,        \* MAX_NODES of a live response
    MaxSavedNodes,   \* limits::NODES of a saved bundle
    TotalDeadline, RequestTimeout

NoStem == 0

(* A state of the service: the identity it presents, its nodes as each of  *)
(* its two endpoints lists them, and its key set.                          *)
Listings == [id : Nat, cert : NodeCertificates \cup {Unlisted}]
Worlds   == [service : Nat, quotes : Seq(Nodes), listing : Seq(Listings), keys : Seq(Keys)]

(* The command line gives an endpoint to live runs, and a place to save to *)
(* only to them.                                                           *)
LedgerRequests  == [adapter : {ACL}, accepted : BOOLEAN, live : BOOLEAN, save : BOOLEAN,
                    policy : LedgerPolicies, claim : PolicyClaims]
KeysRequests    == [adapter : {MAA}, accepted : BOOLEAN, live : BOOLEAN, save : BOOLEAN,
                    policy : [target : Hosts], endpoint : Hosts, claim : PolicyClaims]
RebuildRequests == [adapter : {REPRO}, accepted : BOOLEAN, policy : RebuildPolicies,
                    claim : Claims, published : Records, rebuilt : Records]
DeviceRequests  == [adapter : {SNP}, accepted : BOOLEAN, policy : DevicePolicies,
                    bom : Boms, report : SnpReports, vcek : Vceks, chain : Chains,
                    nonce : Nonces]
Requests == {q \in LedgerRequests : q.save => q.live}
            \cup {q \in KeysRequests : (q.save => q.live) /\ (q.live <=> q.endpoint # NoHost)}
            \cup RebuildRequests \cup DeviceRequests

(* The evidence directory.  A file is named <<stem, part>>, and the part   *)
(* says what it holds: a field of a node, the service's certificate, the   *)
(* manifest or a key set.                                                  *)
Manifests == [current : BOOLEAN, ledger : Hosts, service : BOOLEAN, digested : BOOLEAN,
              nodes : Seq(Nodes)]
Contents  == [report |-> Reports, amd |-> AmdChains, uvm |-> UvmEndorsements,
              cert |-> NodeCertificates, service |-> Nat, manifest |-> Manifests,
              keys |-> KeySets]
Directory(fs) ==
    \A n \in DOMAIN fs : /\ n[2] \in DOMAIN Contents
                         /\ fs[n].whole \in BOOLEAN
                         /\ fs[n].value \in Contents[n[2]]

Parts        == <<"report", "amd", "uvm", "cert">>
ServiceFile  == <<NoStem, "service">>      \* service.pem
ManifestFile == <<NoStem, "manifest">>     \* snapshot.json
KeysFile     == <<NoStem, "keys">>         \* maa-evidence.json

ASSUME WorkloadsAssumption ==
    \A w \in Workloads : /\ \A r \in DOMAIN w.requests : w.requests[r] \in Requests
                         /\ w.worlds \in Seq(Worlds) /\ w.worlds # <<>>
                         /\ Directory(w.files)
ASSUME BoundsAssumption == /\ MaxNodes \in Nat \ {0} /\ MaxSavedNodes \in Nat \ {0}
                           /\ TotalDeadline \in Nat \ {0} /\ RequestTimeout \in Nat \ {0}

VARIABLES
    work,       \* the workload this history is about
    serving,    \* which of its states the service is in
    files,      \* the evidence directory: a file is [whole, value]
    run         \* what each run holds

vars == <<work, serving, files, run>>

Asked(r) == work.requests[r]
Service  == work.worlds[serving]

NoBundle   == [ledger |-> NoHost, service |-> 0, nodes |-> <<>>]
NoKeySet   == [current |-> FALSE, target |-> NoHost, object |-> FALSE, keys |-> <<>>]
NoManifest == [current |-> FALSE, ledger |-> NoHost, service |-> FALSE, digested |-> FALSE,
               nodes |-> <<>>]
Fresh == [pc |-> "Start", clock |-> 0, until |-> 0, node |-> 1, part |-> 1, open |-> FALSE,
          bundle |-> NoBundle, manifest |-> NoManifest, keyset |-> NoKeySet,
          result |-> NoResource, after |-> {}]

Init == /\ work \in Workloads
        /\ serving = 1
        /\ files = work.files
        /\ run = [r \in DOMAIN work.requests |-> Fresh]

PCs == {"Start", "Identity", "Quotes", "Nodes", "Certs", "Save", "Manifest", "Service",
        "Load", "KeySet", "Judge", "Done", "Killed"}
RunStates == [pc : PCs, clock : Nat, until : Nat, node : Nat, part : Nat, open : BOOLEAN,
              bundle : Bundles, manifest : Manifests, keyset : KeySets,
              result : Assessments, after : SUBSET DOMAIN work.requests]

TypeOK == /\ work \in Workloads
          /\ serving \in DOMAIN work.worlds
          /\ Directory(files)
          /\ run \in [DOMAIN work.requests -> RunStates]

Is(r, pc)   == run[r].pc = pc
Becomes(r, s) == run' = [run EXCEPT ![r] = s]

(* A run that has its assessment keeps what it appraised and nothing else. *)
Conclude(r, result, bundle, keyset) ==
    Becomes(r, [Fresh EXCEPT !.pc = "Done", !.result = result, !.bundle = bundle,
                             !.keyset = keyset, !.after = run[r].after])

Refuse(r) == Conclude(r, NotAttempted(Asked(r).adapter), NoBundle, NoKeySet)

-----------------------------------------------------------------------------
(* run_adapter and the head of each adapter.  "after" remembers, for a     *)
(* replay, the runs that were over when it began.                          *)
Over == {q \in DOMAIN run : run[q].pc \in {"Done", "Killed"}}

Enter(r, pc) == Becomes(r, [Fresh EXCEPT !.pc = pc,
                                         !.after = IF Asked(r).live THEN {} ELSE Over])

(* A statement that was not accepted is an authority on no policy.         *)
Accepted(r) == Asked(r).accepted

BeginLedger(r) ==
    LET q == Asked(r)
    IN  /\ Is(r, "Start") /\ q.adapter = ACL
        /\ IF ~Accepted(r) THEN Refuse(r)
           ELSE IF ~ClaimUsable(q.claim) \/ ~PinMet(q.policy, q.claim)
           THEN Conclude(r, BeforeEvidence(q.policy, q.claim), NoBundle, NoKeySet)
           ELSE IF ~q.live THEN Enter(r, "Manifest")
           ELSE IF Routable(q.policy.host) THEN Enter(r, "Identity") ELSE Refuse(r)
        /\ UNCHANGED <<work, serving, files>>

(* The policy's target is never where a live run goes.                     *)
BeginAttestation(r) ==
    LET q == Asked(r)
    IN  /\ Is(r, "Start") /\ q.adapter = MAA
        /\ IF \/ ~Accepted(r) \/ ~ClaimUsable(q.claim)
              \/ IF q.live THEN ~Routable(q.endpoint) ELSE q.policy.target = NoHost
           THEN Refuse(r)
           ELSE Enter(r, IF q.live THEN "Certs" ELSE "KeySet")
        /\ UNCHANGED <<work, serving, files>>

(* These two have nothing to collect: the command line refuses a live run, *)
(* and what they are given is read at once.                                *)
AppraiseGiven(q) ==
    IF q.adapter = REPRO
    THEN AppraiseRebuild(q.policy, q.claim, q.published, q.rebuilt)
    ELSE AppraiseDevice(q.policy, q.bom, q.report, q.vcek, q.chain, q.nonce)

BeginSupplied(r) ==
    /\ Is(r, "Start") /\ Asked(r).adapter \in {REPRO, SNP}
    /\ IF Accepted(r) THEN Conclude(r, AppraiseGiven(Asked(r)), NoBundle, NoKeySet)
       ELSE Refuse(r)
    /\ UNCHANGED <<work, serving, files>>

-----------------------------------------------------------------------------
(* Collection: three requests under one deadline for a ledger, one request *)
(* with its own limit for an attestation service.                          *)
Collecting(r) == run[r].pc \in {"Identity", "Quotes", "Nodes", "Certs"}
InFlight(r)   == run[r].until # 0

(* Mutant: each request has its own allowance.                             *)
MutBudget(r) == RequestTimeout

(* budget, recomputed before each request.                                 *)
Budget(r) ==
    LET left == TotalDeadline - run[r].clock
    IN  IF Is(r, "Certs") \/ RequestTimeout < left THEN RequestTimeout ELSE left

Ask(r) ==
    /\ Collecting(r) /\ ~InFlight(r)
    /\ IF Budget(r) <= 0 THEN Refuse(r)
       ELSE Becomes(r, [run[r] EXCEPT !.until = run[r].clock + Budget(r)])
    /\ UNCHANGED <<work, serving, files>>

Tick(r) ==
    /\ InFlight(r) /\ run[r].clock < run[r].until
    /\ Becomes(r, [run[r] EXCEPT !.clock = @ + 1])
    /\ UNCHANGED <<work, serving, files>>

(* Mutant: a request has no timeout.                                       *)
MutTimedOut(r) == FALSE

TimedOut(r) == run[r].clock >= run[r].until

Expire(r) == /\ InFlight(r) /\ TimedOut(r)
             /\ Refuse(r)
             /\ UNCHANGED <<work, serving, files>>

(* A transport fault, a redirect, too many bytes, a document of another    *)
(* shape, or a peer that is not who the connection is pinned to.           *)
RequestFails(r) == /\ InFlight(r)
                   /\ Refuse(r)
                   /\ UNCHANGED <<work, serving, files>>

(* bootstrap: the identity service may lag behind the ledger, and is what  *)
(* the connections that follow accept.                                     *)
IdentityAnswered(r) ==
    /\ Is(r, "Identity") /\ InFlight(r)
    /\ \E published \in 1..serving :
          Becomes(r, [run[r] EXCEPT !.pc = "Quotes", !.until = 0,
              !.bundle = [NoBundle EXCEPT !.ledger = Asked(r).policy.host,
                                          !.service = work.worlds[published].service]])
    /\ UNCHANGED <<work, serving, files>>

(* Mutant: whoever answers is believed.                                    *)
MutPinned(r) == TRUE

Pinned(r) == Service.service = run[r].bundle.service

QuotesAnswered(r) ==
    /\ Is(r, "Quotes") /\ InFlight(r) /\ Pinned(r)
    /\ Becomes(r, [run[r] EXCEPT !.pc = "Nodes", !.until = 0, !.bundle.nodes = Service.quotes])
    /\ UNCHANGED <<work, serving, files>>

(* assemble: a ledger that lists a node twice keeps its last certificate,  *)
(* and one that attests a node without a certificate for it is refused.    *)
Certified(listing, id) ==
    {i \in DOMAIN listing : listing[i].id = id /\ listing[i].cert # Unlisted}
CertificateOf(listing, id) ==
    listing[CHOOSE i \in Certified(listing, id) :
                \A j \in Certified(listing, id) : j <= i].cert

Distinct(nodes) == \A i, j \in DOMAIN nodes : nodes[i].id = nodes[j].id => i = j
AllNamed(nodes) == \A i \in DOMAIN nodes : nodes[i].id # 0

(* The last conjunct is the decoding of the report and its endorsements.   *)
Assembles(quotes, listing) ==
    /\ Len(quotes) \in 1..MaxNodes
    /\ AllNamed(quotes) /\ Distinct(quotes)
    /\ \A i \in DOMAIN quotes : Certified(listing, quotes[i].id) # {}
    /\ \A i \in DOMAIN quotes : quotes[i].amd.count # 0

Joined(quotes, listing) ==
    [i \in DOMAIN quotes |->
        [quotes[i] EXCEPT !.cert = IF Certified(listing, quotes[i].id) = {} THEN @
                                   ELSE CertificateOf(listing, quotes[i].id)]]

AfterCollection(r) == IF Asked(r).save THEN "Save" ELSE "Judge"

NodesAnswered(r) ==
    LET quotes == run[r].bundle.nodes
    IN  /\ Is(r, "Nodes") /\ InFlight(r) /\ Pinned(r)
        /\ IF ~Assembles(quotes, Service.listing) THEN Refuse(r)
           ELSE Becomes(r, [run[r] EXCEPT !.pc = AfterCollection(r), !.until = 0, !.clock = 0,
                                          !.bundle.nodes = Joined(quotes, Service.listing)])
        /\ UNCHANGED <<work, serving, files>>

CertsAnswered(r) ==
    /\ Is(r, "Certs") /\ InFlight(r)
    /\ Becomes(r, [run[r] EXCEPT !.pc = AfterCollection(r), !.until = 0, !.clock = 0,
           !.keyset = [current |-> TRUE, target |-> Asked(r).endpoint, object |-> TRUE,
                       keys |-> Service.keys]])
    /\ UNCHANGED <<work, serving, files>>

(* The ledger replaces its nodes, or its service identity.                 *)
Advance == /\ serving < Len(work.worlds)
           /\ serving' = serving + 1
           /\ UNCHANGED <<work, files, run>>

-----------------------------------------------------------------------------
(* The evidence directory, file by file.                                   *)
Torn(value)  == [whole |-> FALSE, value |-> value]
Whole(value) == [whole |-> TRUE,  value |-> value]
Put(name, f) == files' = [n \in DOMAIN files \cup {name} |-> IF n = name THEN f ELSE files[n]]

(* What load reads of the manifest that save writes: every file of a node  *)
(* has a digest (here, its value), the service certificate has none.       *)
ManifestOf(bundle) ==
    [current |-> TRUE, ledger |-> bundle.ledger, service |-> bundle.service # 0,
     digested |-> TRUE, nodes |-> bundle.nodes]

AtNode(r)     == run[r].node <= Len(run[r].bundle.nodes)
ThisNode(r)   == run[r].bundle.nodes[run[r].node]
LastPart(node) == IF node.cert.kind = "None" THEN 3 ELSE 4

(* The files of each node in turn; then, on saving, the service's          *)
(* certificate when there is one, and the manifest.                        *)
Forward(s) ==
    IF s.node > Len(s.bundle.nodes) \/ s.part < LastPart(s.bundle.nodes[s.node])
    THEN [s EXCEPT !.part = @ + 1, !.open = FALSE]
    ELSE [s EXCEPT !.node = @ + 1, !.part = 1, !.open = FALSE]
Ready(s) == [s EXCEPT !.pc = "Judge", !.node = 1, !.part = 1, !.open = FALSE,
                      !.manifest = NoManifest]

NodeFile(r) == [name |-> <<Stem[ThisNode(r).id], Parts[run[r].part]>>,
                value |-> ThisNode(r)[Parts[run[r].part]]]

Writing(r) ==
    IF Asked(r).adapter = MAA THEN [name |-> KeysFile, value |-> run[r].keyset]
    ELSE IF AtNode(r)         THEN NodeFile(r)
    ELSE IF run[r].part = 1 /\ run[r].bundle.service # 0
         THEN [name |-> ServiceFile, value |-> run[r].bundle.service]
    ELSE [name |-> ManifestFile, value |-> ManifestOf(run[r].bundle)]

(* Two ids may reduce to one stem, and the later node's files would then   *)
(* replace the earlier's.  Mutant: the stems are not compared.             *)
MutNameable(r) == AtNode(r) => Stem[ThisNode(r).id] # NoStem

Nameable(r) ==
    AtNode(r) => /\ Stem[ThisNode(r).id] # NoStem
                 /\ \A i \in 1..(run[r].node - 1) :
                       Stem[run[r].bundle.nodes[i].id] # Stem[ThisNode(r).id]

(* A ledger's files are truncated and written anew, an attestation         *)
(* service's must not exist.                                               *)
MayOpen(r) == IF Asked(r).adapter = MAA THEN KeysFile \notin DOMAIN files ELSE Nameable(r)

OpenFile(r) ==
    /\ Is(r, "Save") /\ ~run[r].open
    /\ IF ~MayOpen(r) THEN Refuse(r) /\ UNCHANGED files
       ELSE Put(Writing(r).name, Torn(Writing(r).value))
            /\ Becomes(r, [run[r] EXCEPT !.open = TRUE])
    /\ UNCHANGED <<work, serving>>

(* A file another run completed since this one truncated it may be left    *)
(* with some bytes of each.                                                *)
Mixed(r) == /\ files[Writing(r).name].whole
            /\ files[Writing(r).name].value # Writing(r).value

WriteFile(r) ==
    /\ Is(r, "Save") /\ run[r].open
    /\ \/ Put(Writing(r).name, Whole(Writing(r).value))
       \/ Mixed(r) /\ Put(Writing(r).name, Torn(Writing(r).value))
    /\ Becomes(r, IF Writing(r).name \in {ManifestFile, KeysFile}
                  THEN Ready(run[r]) ELSE Forward(run[r]))
    /\ UNCHANGED <<work, serving>>

(* A partial key set is removed, if it can be; a partial bundle stays.     *)
SaveFails(r) ==
    /\ Is(r, "Save")
    /\ Refuse(r)
    /\ \/ UNCHANGED files
       \/ /\ Asked(r).adapter = MAA /\ run[r].open
          /\ files' = [n \in DOMAIN files \ {KeysFile} |-> files[n]]
    /\ UNCHANGED <<work, serving>>

Kill(r) ==
    /\ Is(r, "Save")
    /\ Becomes(r, [Fresh EXCEPT !.pc = "Killed", !.bundle = run[r].bundle,
                                !.keyset = run[r].keyset, !.after = run[r].after])
    /\ UNCHANGED <<work, serving, files>>

-----------------------------------------------------------------------------
(* load.  A directory that cannot be read is an inability, never a finding.*)
Found(name)    == name \in DOMAIN files
Readable(name) == Found(name) /\ files[name].whole

UsableManifest(m) == /\ m.current
                     /\ m.ledger # NoHost
                     /\ Len(m.nodes) \in 1..MaxSavedNodes
                     /\ AllNamed(m.nodes) /\ Distinct(m.nodes)

ReadManifest(r) ==
    /\ Is(r, "Manifest")
    /\ IF ~Readable(ManifestFile) \/ ~UsableManifest(files[ManifestFile].value) THEN Refuse(r)
       ELSE LET m == files[ManifestFile].value
            IN  Becomes(r, [run[r] EXCEPT
                    !.pc = "Service", !.manifest = m,
                    !.bundle = [ledger |-> m.ledger, service |-> 0, nodes |-> m.nodes]])
    /\ UNCHANGED <<work, serving, files>>

(* Nothing says what the service's certificate was when it was captured;   *)
(* one that does not parse is one that is missing.                         *)
ReadService(r) ==
    /\ Is(r, "Service")
    /\ IF run[r].manifest.service /\ ~Found(ServiceFile) THEN Refuse(r)
       ELSE Becomes(r, [run[r] EXCEPT !.pc = "Load",
                !.bundle.service = IF run[r].manifest.service /\ Readable(ServiceFile)
                                   THEN files[ServiceFile].value ELSE 0])
    /\ UNCHANGED <<work, serving, files>>

(* Mutant: the digest of a file is not checked.                            *)
MutDisturbed(r, file, expected) == FALSE

Disturbed(r, file, expected) ==
    run[r].manifest.digested /\ (~file.whole \/ file.value # expected)

(* What is left of a file without a digest that was cut short.             *)
Damaged(part, value) ==
    CASE part = "report" -> {[value EXCEPT !.signer = 0]}
      [] part = "uvm"    -> {"Forged", "Empty"}
      [] part = "cert"   -> {[value EXCEPT !.kind = k] : k \in {"None", "Other"}}
      [] part = "amd"    -> {[value EXCEPT !.count = 0]}

Bytes(part, file) == IF file.whole THEN {file.value} ELSE Damaged(part, file.value)

Unloadable(part, value) == \/ part = "uvm" /\ value = "Oversized"
                           \/ part = "amd" /\ value.count = 0

AfterPart(r, value) ==
    LET s    == [run[r] EXCEPT !.bundle.nodes[run[r].node][Parts[run[r].part]] = value]
        last == IF run[r].manifest.nodes[run[r].node].cert.kind = "None" THEN 3 ELSE 4
    IN  IF s.part < last                     THEN [s EXCEPT !.part = @ + 1]
        ELSE IF s.node < Len(s.bundle.nodes) THEN [s EXCEPT !.node = @ + 1, !.part = 1]
        ELSE Ready(s)

ReadPart(r) ==
    LET part == Parts[run[r].part]
        node == run[r].manifest.nodes[run[r].node]
        name == <<Stem[node.id], part>>
    IN  /\ Is(r, "Load")
        /\ IF ~Found(name) THEN Refuse(r)
           ELSE IF Disturbed(r, files[name], node[part]) THEN Refuse(r)
           ELSE \E value \in Bytes(part, files[name]) :
                   IF Unloadable(part, value) THEN Refuse(r)
                   ELSE Becomes(r, AfterPart(r, value))
        /\ UNCHANGED <<work, serving, files>>

ReadKeys(r) ==
    /\ Is(r, "KeySet")
    /\ IF ~Readable(KeysFile) THEN Refuse(r)
       ELSE Becomes(r, Ready([run[r] EXCEPT !.keyset = files[KeysFile].value]))
    /\ UNCHANGED <<work, serving, files>>

-----------------------------------------------------------------------------
(* The appraisal of what was collected or loaded.                          *)
Assess(r) ==
    LET q == Asked(r)
    IN  IF q.adapter = ACL THEN AppraiseLedger(q.policy, q.claim, run[r].bundle)
        ELSE AppraiseAttestation(Target(q.policy, q.endpoint), q.claim, run[r].keyset, ~q.live)

Judge(r) ==
    /\ Is(r, "Judge")
    /\ Conclude(r, Assess(r), run[r].bundle, run[r].keyset)
    /\ UNCHANGED <<work, serving, files>>

AllOver == /\ Over = DOMAIN run
           /\ UNCHANGED vars

(* What the process does of its own; the rest is the network, the file     *)
(* system's failures and whoever ends the process.                         *)
Program(r) == \/ BeginLedger(r) \/ BeginAttestation(r) \/ BeginSupplied(r)
              \/ Ask(r) \/ Expire(r)
              \/ OpenFile(r) \/ WriteFile(r)
              \/ ReadManifest(r) \/ ReadService(r) \/ ReadPart(r) \/ ReadKeys(r)
              \/ Judge(r)
Peers(r) == \/ RequestFails(r) \/ IdentityAnswered(r) \/ QuotesAnswered(r)
            \/ NodesAnswered(r) \/ CertsAnswered(r)

Next == \/ \E r \in DOMAIN run :
              Program(r) \/ Tick(r) \/ Peers(r) \/ SaveFails(r) \/ Kill(r)
        \/ Advance
        \/ AllOver

(* Some process is scheduled while one can go on, and its clock runs;      *)
(* nobody has to answer.                                                   *)
Fairness == WF_vars(\E r \in DOMAIN run : Program(r) \/ Tick(r))

Spec == Init /\ [][Next]_vars /\ Fairness

-----------------------------------------------------------------------------
(* What an accepted run that passed was about.                             *)
Passed(r)  == Is(r, "Done") /\ Narrow("StatementTransparent", run[r].result) = "ResourceTransparent"
About(r, adapter) == Asked(r).adapter = adapter

(* Everything one node has to show, in terms of its evidence alone.        *)
Endorses(node, service, digest, floors) ==
    /\ node.amd.count = 3 /\ node.report.signer = node.amd.chip /\ node.amd.chip # 0
    /\ node.uvm \in {"Endorsed", "Oversized"}
    /\ node.report.generation \in {floors[i].generation : i \in DOMAIN floors}
    /\ \A i \in DOMAIN floors :
          floors[i].generation = node.report.generation =>
              \A c \in DOMAIN floors[i].tcb : node.report.tcb[c] >= floors[i].tcb[c]
    /\ node.report.hostData = digest
    /\ service # 0
    /\ node.cert.kind = "One"
    /\ node.cert.key = node.report.key /\ node.cert.issuer = service

(* A ledger passes only if every node shown is a different machine, signed *)
(* for by AMD, at the floor of its generation, running the policy of an    *)
(* accepted statement, with a key its service certified; and they are as   *)
(* many as the policy expects, of the ledger it names.                     *)
FleetPassIsEarned ==
    \A r \in DOMAIN run : Passed(r) /\ About(r, ACL) =>
        LET q == Asked(r)
            b == run[r].bundle
        IN  /\ q.accepted /\ q.claim.readable /\ ~q.claim.oversized
            /\ q.policy.pin \in {0, q.claim.digest}
            /\ b.ledger.name = q.policy.host.name
            /\ b.nodes # <<>> /\ q.policy.count \in {0, Len(b.nodes)}
            /\ \A i \in DOMAIN b.nodes :
                  Endorses(b.nodes[i], b.service, q.claim.digest, q.policy.floors)
            /\ \A i, j \in DOMAIN b.nodes :
                  b.nodes[i].report.key = b.nodes[j].report.key => i = j

(* An attestation service passes only if some certificate carries a report *)
(* and every one that carries evidence carries a genuine report of the     *)
(* statement's policy, recorded from the target asked about.               *)
AttestationPassIsEarned ==
    \A r \in DOMAIN run : Passed(r) /\ About(r, MAA) =>
        LET q == Asked(r)
            k == run[r].keyset
        IN  /\ q.accepted /\ q.claim.readable /\ ~q.claim.oversized
            /\ k.target = IF q.live THEN q.endpoint ELSE q.policy.target
            /\ Len(k.keys) <= MaxKeys
            /\ \E i \in DOMAIN k.keys : k.keys[i].kind = "Report"
            /\ \A i \in DOMAIN k.keys :
                  \/ k.keys[i].kind = "Ordinary"
                  \/ /\ k.keys[i].kind = "Report" /\ k.keys[i].genuine
                     /\ k.keys[i].hostData = q.claim.digest

(* A reproduction passes only if the record is the one the accepted        *)
(* statement committed to, says what the statement says, and names the     *)
(* inputs and, in order, the layers of the supplied rebuild record.  Who   *)
(* made that record, or from what, is not part of it: a copy passes.       *)
RebuildPassIsEarned ==
    \A r \in DOMAIN run : Passed(r) /\ About(r, REPRO) =>
        LET q == Asked(r)
        IN  /\ q.accepted /\ q.policy.profile
            /\ q.claim.payload = "Json" /\ q.claim.shape = "WellFormed"
            /\ q.claim.component  = q.policy.component
            /\ q.claim.repository = q.policy.repository
            /\ q.published.bytes = q.claim.record
            /\ q.published.layers # <<>> /\ q.published.layers = q.rebuilt.layers
            /\ q.published.claimed = q.claim.inputs /\ q.rebuilt.claimed = q.claim.inputs
            /\ q.published.other = q.rebuilt.other
            /\ 0 \notin {q.claim.inputs, q.published.other}

(* A device passes only if one chip, named by the statement and by its own *)
(* certificate, signed a report over a nonce that is not all zeros.        *)
DevicePassIsEarned ==
    \A r \in DOMAIN run : Passed(r) /\ About(r, SNP) =>
        LET q == Asked(r)
        IN  /\ q.accepted /\ q.policy.profile
            /\ q.bom.payload = "Json" /\ q.bom.graph
            /\ q.bom.serials = <<q.vcek.id>> /\ q.vcek.hwid = "Id" /\ q.vcek.id # 0
            /\ q.report.genuine /\ q.report.matches /\ q.report.data = q.nonce.value
            /\ q.nonce.form = "Fits" /\ q.nonce.value # 0
            /\ \E i \in DOMAIN q.policy.floors :
                  /\ q.policy.floors[i].generation = q.report.generation
                  /\ \A c \in DOMAIN q.policy.floors[i].tcb :
                        q.report.tcb[c] >= q.policy.floors[i].tcb[c]

-----------------------------------------------------------------------------
Failed(r, check) == StateOf(run[r].result, check) = "Fail"
SignedNodes(r)   == {i \in DOMAIN run[r].bundle.nodes : Authenticates(run[r].bundle.nodes[i])}
SignedKeys(r)    == {i \in DOMAIN run[r].keyset.keys : Authentic(run[r].keyset.keys[i])}

(* AMD signed for the node, the policy has a floor for it, and its UVM     *)
(* endorsement has the required role: what is absent is not verifiable.    *)
Verifiable(node, floors) ==
    /\ Authenticates(node) /\ UsableFloor(floors)
    /\ FloorCovers(node.report.generation, floors)
    /\ EndorsedRole(node.uvm)

(* A ledger is said to be another one, or to run another policy, only by   *)
(* an authenticated report that says so, or by the name on the evidence    *)
(* or the pinned digest.  The platform check and the coverage also fail on *)
(* a node that cannot be verified, if only because its evidence is absent; *)
(* of verifiable nodes one that runs the policy is below its requirements, *)
(* or two attested one key.                                                *)
LedgerFailureHasGrounds(r) ==
    LET q == Asked(r)
        b == run[r].bundle
    IN  /\ Failed(r, "ledger-identity-binding") =>
              \/ b # NoBundle /\ b.ledger.name # q.policy.host.name
              \/ \E i \in SignedNodes(r) :
                    /\ b.service # 0 /\ b.nodes[i].cert.kind # "None"
                    /\ \/ b.nodes[i].cert.kind = "Other"
                       \/ b.nodes[i].cert.key # b.nodes[i].report.key
                       \/ b.nodes[i].cert.issuer # b.service
        /\ Failed(r, "cce-policy-host-data") =>
              \/ q.claim.readable /\ q.policy.pin \notin {0, q.claim.digest}
              \/ \E i \in SignedNodes(r) : b.nodes[i].report.hostData # q.claim.digest
        /\ Failed(r, "snp-uvm-validation") =>
              \E i \in DOMAIN b.nodes :
                 \/ ~Verifiable(b.nodes[i], q.policy.floors)
                 \/ /\ b.nodes[i].report.hostData = q.claim.digest
                    /\ \/ b.nodes[i].uvm = "Outdated"
                       \/ ~MeetsFloor(b.nodes[i].report, q.policy.floors)
        /\ Failed(r, "node-coverage") =>
              \/ \E i \in DOMAIN b.nodes : ~Verifiable(b.nodes[i], q.policy.floors)
              \/ \E i, j \in DOMAIN b.nodes :
                    i # j /\ b.nodes[i].report.key = b.nodes[j].report.key

(* An attestation service's, by genuine reports, by evidence that does not *)
(* verify, or by a key set that lists nothing or too much.                 *)
KeysFailureHasGrounds(r) ==
    LET keys == run[r].keyset.keys
        refuted == \E i \in DOMAIN keys : keys[i].kind # "Ordinary" /\ i \notin SignedKeys(r)
    IN  /\ Failed(r, "cce-policy-host-data") =>
              \E i \in SignedKeys(r) : keys[i].hostData # Asked(r).claim.digest
        /\ Failed(r, "snp-validation") => refuted
        /\ Failed(r, "maa-certificate-coverage") =>
              /\ run[r].keyset # NoKeySet
              /\ refuted \/ Len(keys) \notin 1..MaxKeys

(* A rebuild's, by a record that is the committed one and a rebuild record *)
(* that can be read and says something else.                               *)
RebuildFailureHasGrounds(r) ==
    LET q == Asked(r)
    IN  /\ Failed(r, "rebuild-layers") => q.published.layers # q.rebuilt.layers
        /\ Failed(r, "rebuild-inputs") =>
              <<q.published.claimed, q.published.other>> # <<q.rebuilt.claimed, q.rebuilt.other>>
        /\ Failed(r, "rebuild-layers") \/ Failed(r, "rebuild-inputs") =>
              /\ q.published.bytes = q.claim.record
              /\ q.rebuilt.form = "Record" /\ 0 \notin {q.rebuilt.claimed, q.rebuilt.other}
        /\ Failed(r, "record-binding") => q.published.form # "Absent"

(* A device's, by a genuine report, or by one that is not although all of  *)
(* the evidence was there.                                                 *)
DeviceFailureHasGrounds(r) ==
    LET q == Asked(r)
    IN  /\ (\E check \in {"tcb-floor", "freshness", "device-binding"} : Failed(r, check)) =>
              q.report.file = "Given" /\ q.report.genuine /\ q.vcek.file = "Given"
        /\ Failed(r, "freshness") => q.nonce.form = "Fits" /\ q.nonce.value # 0
        /\ Failed(r, "snp-report") => "Missing" \notin {q.report.file, q.vcek.file}

(* A check that failed has its grounds in what the run appraised, and      *)
(* nothing fails for a statement that was not accepted.                    *)
FailureHasGrounds ==
    \A r \in DOMAIN run : Is(r, "Done") =>
        /\ About(r, ACL)   => LedgerFailureHasGrounds(r)
        /\ About(r, MAA)   => KeysFailureHasGrounds(r)
        /\ About(r, REPRO) => RebuildFailureHasGrounds(r)
        /\ About(r, SNP)   => DeviceFailureHasGrounds(r)
        /\ ~Asked(r).accepted => ~AnyFail(run[r].result)

-----------------------------------------------------------------------------
(* What two of the ledger's states list, taken together as a run saw them. *)
Collection(i, j) == Joined(work.worlds[i].quotes, work.worlds[j].listing)
Collections == {Collection(i, j) : i \in DOMAIN work.worlds, j \in DOMAIN work.worlds}
Recorded    == IF ManifestFile \in DOMAIN work.files
               THEN {work.files[ManifestFile].value} ELSE {}
Appraised(r) == Is(r, "Done") /\ About(r, ACL) /\ run[r].bundle # NoBundle

(* A live run appraises what the service it pinned listed, and whatever    *)
(* the ledger does meanwhile the nodes are never older than the quotes.    *)
CollectedFromThePinned ==
    \A r \in DOMAIN run : Appraised(r) /\ Asked(r).live =>
        \E i \in DOMAIN work.worlds : \E j \in i..Len(work.worlds) :
            /\ work.worlds[i].service = run[r].bundle.service
            /\ work.worlds[j].service = run[r].bundle.service
            /\ run[r].bundle.nodes = Collection(i, j)

(* However the runs that save into a directory interleave, fail or are     *)
(* killed, a replay appraises the nodes of one collection or of none.      *)
LoadedIsOneCollection ==
    (\A m \in Recorded : m.digested) =>
        \A r \in DOMAIN run : Appraised(r) /\ ~Asked(r).live =>
            run[r].bundle.nodes \in Collections \cup {m.nodes : m \in Recorded}

(* Who saves and who replays, and when they ask the same.                  *)
Saver(r)  == Asked(r).adapter \in {ACL, MAA} /\ Asked(r).live /\ Asked(r).save
Replay(r) == Asked(r).adapter \in {ACL, MAA} /\ ~Asked(r).live

SameQuestion(q, r) ==
    /\ Asked(q).adapter = Asked(r).adapter
    /\ Asked(q).accepted /\ Asked(r).accepted
    /\ Asked(q).claim = Asked(r).claim
    /\ IF Asked(q).adapter = MAA THEN Asked(q).endpoint = Asked(r).policy.target
       ELSE Asked(q).policy = Asked(r).policy

(* A live run takes a field of any size, a replay does not.                *)
Rereadable(bundle) == \A i \in DOMAIN bundle.nodes : bundle.nodes[i].uvm # "Oversized"

(* A saved copy of a live run, replayed later, reaches the same checks.    *)
(* Left out are the bundles for which the code does not keep this promise  *)
(* of save: one with a field larger than a file that is read again, and,   *)
(* if MaxNodes were above MaxSavedNodes, one of more nodes than a manifest *)
(* may list (the code has 128 and 1024).                                   *)
SavedReplays ==
    \A q, r \in DOMAIN run :
        ( /\ Saver(q) /\ Replay(r) /\ SameQuestion(q, r)
          /\ q \in run[r].after /\ Is(q, "Done") /\ Is(r, "Done")
          /\ <<run[q].bundle, run[q].keyset>> # <<NoBundle, NoKeySet>>
          /\ \A s \in DOMAIN run : Saver(s) => s = q
          /\ Rereadable(run[q].bundle) /\ Len(run[q].bundle.nodes) <= MaxSavedNodes )
        => run[r].result.checks = run[q].result.checks

-----------------------------------------------------------------------------
(* Three requests, however slow each answer is, stay within one deadline,  *)
(* and an attestation service's one within its own limit.                  *)
CollectionInDeadline ==
    \A r \in DOMAIN run : Collecting(r) =>
        run[r].clock <= IF Is(r, "Certs") THEN RequestTimeout ELSE TotalDeadline

(* A peer that never answers and a directory in use hold no run forever.   *)
EveryRunEnds == <>(Over = DOMAIN run)
=============================================================================
