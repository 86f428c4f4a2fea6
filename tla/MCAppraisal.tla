----------------------------- MODULE MCAppraisal -----------------------------
(***************************************************************************)
(* Appraisal on fleets of up to two nodes that differ from good evidence   *)
(* in one field each, on records, rebuilds and devices that differ in one  *)
(* field each, and on directories that two runs write while one reads.     *)
(***************************************************************************)
EXTENDS Appraisal, TLC

MCStem == <<1, 2, 2, NoStem>>     \* nodes 2 and 3 share a stem, 4 has none

Host(name, form) == [name |-> name, form |-> form]
Ledger == Host(1, "Plain")

Node(id, k) == [id |-> id,
                report |-> [signer |-> k, generation |-> "milan", tcb |-> <<2, 2>>,
                            hostData |-> 7, key |-> k],
                amd |-> [count |-> 3, chip |-> k], uvm |-> "Endorsed",
                cert |-> [kind |-> "One", key |-> k, issuer |-> 5]]
Node1 == Node(1, 1)
Node2 == Node(2, 2)

Variants(n) ==
    {n, [n EXCEPT !.id = 0],
        [n EXCEPT !.report.signer = 0, !.amd.chip = 0],
        [n EXCEPT !.report.signer = 9], [n EXCEPT !.report.tcb = <<3, 0>>],
        [n EXCEPT !.report.generation = "genoa"],
        [n EXCEPT !.report.hostData = 8], [n EXCEPT !.report.key = 9],
        [n EXCEPT !.report.hostData = 8, !.uvm = "Outdated"],
        [n EXCEPT !.report.key = 1, !.cert.key = 1],
        [n EXCEPT !.amd.count = 2], [n EXCEPT !.amd.count = 0],
        [n EXCEPT !.cert.kind = "None"], [n EXCEPT !.cert.kind = "Other"],
        [n EXCEPT !.cert.issuer = 6]}
    \cup {[n EXCEPT !.uvm = u] : u \in UvmEndorsements}

Floor(generation, tcb) == [generation |-> generation, tcb |-> tcb]
LedgerPolicy == [host |-> Ledger, floors |-> <<Floor("milan", <<2, 1>>)>>, pin |-> 0, count |-> 0]
PolicyVariants ==
    {LedgerPolicy, [LedgerPolicy EXCEPT !.host.form = "Spelled"],
     [LedgerPolicy EXCEPT !.host.name = 2], [LedgerPolicy EXCEPT !.pin = 7],
     [LedgerPolicy EXCEPT !.pin = 8], [LedgerPolicy EXCEPT !.count = 2],
     [LedgerPolicy EXCEPT !.floors = <<Floor("milan", <<2, 1>>), Floor("genoa", <<3, 1>>)>>],
     [LedgerPolicy EXCEPT !.floors = <<Floor("milan", <<2, 1>>), Floor("other", <<1, 1>>)>>]}

Claim == [readable |-> TRUE, oversized |-> FALSE, digest |-> 7]
ClaimVariants == {Claim, [Claim EXCEPT !.readable = FALSE], [Claim EXCEPT !.oversized = TRUE],
                  [Claim EXCEPT !.digest = 8]}

Replaying == [adapter |-> ACL, accepted |-> TRUE, live |-> FALSE, save |-> FALSE,
              policy |-> LedgerPolicy, claim |-> Claim]
Observing == [Replaying EXCEPT !.live = TRUE]
Recording == [Observing EXCEPT !.save = TRUE]

Written(bundle, digested) ==
    [name \in {ServiceFile, ManifestFile}
              \cup {<<MCStem[bundle.nodes[i].id], part>> :
                       i \in {k \in DOMAIN bundle.nodes : bundle.nodes[k].id # 0},
                       part \in {"report", "amd", "uvm", "cert"}} |->
        IF name = ServiceFile THEN Whole(bundle.service)
        ELSE IF name = ManifestFile
        THEN Whole([ManifestOf(bundle) EXCEPT !.digested = digested])
        ELSE LET i == CHOOSE k \in DOMAIN bundle.nodes : MCStem[bundle.nodes[k].id] = name[1]
             IN  Whole(bundle.nodes[i][name[2]])]

World(service, quotes, listing) ==
    [service |-> service, quotes |-> quotes, listing |-> listing, keys |-> <<>>]
Still == <<World(5, <<>>, <<>>)>>
Work(requests, files0, worlds) == [requests |-> requests, files |-> files0, worlds |-> worlds]

Bundle == [ledger |-> Host(1, "Spelled"), service |-> 5, nodes |-> <<Node1, Node2>>]

(* Evidence written by hand, without digests, in every variation.          *)
Fleets ==
    {Work(<<[Replaying EXCEPT !.policy = p]>>,
          Written([Bundle EXCEPT !.nodes = <<Node1, n>>], FALSE), Still) :
        p \in PolicyVariants, n \in Variants(Node2)}
    \cup {Work(<<[Replaying EXCEPT !.claim = c, !.accepted = a]>>,
               Written([Bundle EXCEPT !.nodes = <<n>>, !.service = s], FALSE), Still) :
            c \in ClaimVariants, a \in BOOLEAN, n \in Variants(Node1), s \in {0, 5}}

(* One file of a good bundle is missing, cut short or another's, or its    *)
(* manifest is not one.                                                    *)
Other(name) == IF name = ServiceFile THEN 6 ELSE Node(9, 9)[name[2]]
Disturb(d, name) ==
    {[n \in DOMAIN d \ {name} |-> d[n]], [d EXCEPT ![name] = Torn(d[name].value)]}
    \cup (IF name = ManifestFile
          THEN {[d EXCEPT ![name].value = m] :
                   m \in {[d[name].value EXCEPT !.current = FALSE],
                          [d[name].value EXCEPT !.ledger = NoHost],
                          [d[name].value EXCEPT !.service = FALSE],
                          [d[name].value EXCEPT !.nodes = <<>>],
                          [d[name].value EXCEPT !.nodes = <<Node1, Node1>>],
                          [d[name].value EXCEPT !.nodes = <<Node1, Node2, Node1>>]}}
          ELSE {[d EXCEPT ![name] = Whole(Other(name))]})
Disturbances ==
    UNION {{Work(<<Replaying>>, d, Still) : d \in Disturb(Written(Bundle, g), name)} :
              name \in DOMAIN Written(Bundle, TRUE), g \in BOOLEAN}

(* What a live ledger may answer, and change while it is asked.            *)
Listing(nodes) == [i \in DOMAIN nodes |-> [id |-> nodes[i].id, cert |-> nodes[i].cert]]
Quotes(nodes)  == [i \in DOMAIN nodes |-> [nodes[i] EXCEPT !.cert.kind = "None",
                                                           !.cert.key = 0, !.cert.issuer = 0]]
Serves(service, nodes) == World(service, Quotes(nodes), Listing(nodes))
Reissued(nodes, service) == [i \in DOMAIN nodes |-> [nodes[i] EXCEPT !.cert.issuer = service]]

Good == Serves(5, <<Node1>>)
Next2 == Serves(5, <<[Node1 EXCEPT !.report.key = 3, !.cert.key = 3, !.uvm = "Outdated"]>>)
Moved == Serves(6, Reissued(<<Node1>>, 6))
Histories ==
    {<<Good, Next2>>, <<Good, Moved>>,
     <<Serves(5, <<Node1, Node2>>), Serves(5, <<Node2, Node(3, 3)>>)>>,
     <<World(5, Quotes(<<Node1, Node2>>), Listing(<<Node1>>))>>,
     <<World(5, Quotes(<<Node1>>), <<[id |-> 1, cert |-> Unlisted]>>)>>,
     <<World(5, Quotes(<<Node1>>), Listing(<<[Node1 EXCEPT !.cert.key = 9], Node1, Node2>>))>>,
     <<Serves(5, <<>>)>>, <<Serves(5, <<Node1, Node1>>)>>,
     <<Serves(5, <<Node1, Node2, Node(3, 3)>>)>>,
     <<Serves(5, <<[Node1 EXCEPT !.id = 0]>>)>>,
     <<Serves(5, <<[Node1 EXCEPT !.amd.count = 0]>>)>>,
     <<Serves(5, <<[Node1 EXCEPT !.cert.kind = "None"]>>)>>}
Live == {Work(<<Observing>>, <<>>, h) : h \in Histories}
        \cup {Work(<<[Observing EXCEPT !.policy.host.form = f]>>, <<>>, <<Good>>) : f \in HostForms}

(* One run saves and another replays: ids that cannot be file names, ids   *)
(* that share one, a file too large to read again, a certificate less.     *)
Saved ==
    {Work(<<Recording, Replaying>>, <<>>, <<Serves(5, ns)>>) :
        ns \in {<<Node1, Node2>>, <<Node2, Node(3, 3)>>, <<Node1, Node(4, 2)>>,
                <<[Node1 EXCEPT !.uvm = "Oversized"]>>, <<[Node1 EXCEPT !.uvm = "Empty"]>>,
                <<[Node1 EXCEPT !.cert.kind = "None"]>>}}
    \cup {Work(<<Recording, Replaying>>, Written(Bundle, TRUE), <<Good>>)}

(* Two runs save while the ledger changes, and a third replays.            *)
Uncertified(nodes) == [i \in DOMAIN nodes |-> [nodes[i] EXCEPT !.cert.kind = "None"]]
Shared == {Work(<<Recording, Recording, Replaying>>, <<>>,
                <<Serves(5, Uncertified(<<Node1>>)),
                  Serves(5, Uncertified(<<[Node1 EXCEPT !.report.key = 3, !.uvm = "Outdated"]>>))>>)}

-----------------------------------------------------------------------------
Key(kind, genuine, hostData) == [kind |-> kind, genuine |-> genuine, hostData |-> hostData]
SomeKeys == {Key("Report", TRUE, 7), Key("Report", TRUE, 8), Key("Report", FALSE, 7), Key("Report", FALSE, 8),
             Key("Malformed", FALSE, 7), Key("Ordinary", FALSE, 0)}
Target0   == Host(3, "Plain")
AskKeys == [adapter |-> MAA, accepted |-> TRUE, live |-> FALSE, save |-> FALSE,
            policy |-> [target |-> Target0], endpoint |-> NoHost, claim |-> Claim]
LiveKeys == [AskKeys EXCEPT !.live = TRUE, !.endpoint = Target0]
KeySet(keys) == [current |-> TRUE, target |-> Target0, object |-> TRUE, keys |-> keys]
Has(keyset)  == (KeysFile :> Whole(keyset))
Offers(keys) == [Good EXCEPT !.keys = keys]

KeyWork ==
    {Work(<<AskKeys>>, Has(KeySet(<<a, b>>)), Still) : a \in SomeKeys, b \in SomeKeys}
    \cup {Work(<<[AskKeys EXCEPT !.policy.target = t, !.claim = c]>>,
               Has([KeySet(<<Key("Report", TRUE, 7)>>) EXCEPT !.current = u, !.object = o]),
               Still) :
            t \in {Target0, Host(3, "Spelled"), Host(4, "Plain"), NoHost},
            c \in ClaimVariants, u \in BOOLEAN, o \in BOOLEAN}
    \cup {Work(<<AskKeys>>, Has(KeySet(ks)), Still) :
            ks \in {<<>>, [i \in 1..(MaxKeys + 1) |-> Key("Report", TRUE, 7)]}}
    \cup {Work(<<AskKeys>>, f, Still) :
            f \in {<<>>, (KeysFile :> Torn(KeySet(<<>>)))}}
    \cup {Work(<<[LiveKeys EXCEPT !.endpoint = e]>>, <<>>, <<Offers(<<Key("Report", TRUE, 7)>>)>>) :
            e \in {Target0, Host(3, "Spelled"), Host(4, "Plain")}}
    \cup {Work(<<[LiveKeys EXCEPT !.save = TRUE], AskKeys>>, f,
               <<Offers(<<Key("Report", TRUE, 7)>>), Offers(<<Key("Report", TRUE, 8)>>)>>) :
            f \in {<<>>, Has(KeySet(<<>>))}}

-----------------------------------------------------------------------------
Record == [bytes |-> 1, claimed |-> 2, other |-> 3, builder |-> <<4, 4, 4>>, layers |-> <<1, 2>>,
           form |-> "Record"]
RecordVariants ==
    {Record, [Record EXCEPT !.bytes = 9], [Record EXCEPT !.claimed = 9],
     [Record EXCEPT !.claimed = 0], [Record EXCEPT !.other = 0], [Record EXCEPT !.other = 9],
     [Record EXCEPT !.builder = <<9, 4, 9>>], [Record EXCEPT !.layers = <<>>],
     [Record EXCEPT !.layers = <<2, 1>>], [Record EXCEPT !.layers = <<1, 2, 2>>]}
    \cup {[Record EXCEPT !.form = f] : f \in {"NotRecord", "OtherSchema", "Absent", "Unusable"}}
Said == [payload |-> "Json", shape |-> "WellFormed", component |-> 1, repository |-> 1,
         inputs |-> 2, record |-> 1]
SaidVariants ==
    {Said, [Said EXCEPT !.payload = "NotJson"], [Said EXCEPT !.payload = "Unavailable"],
     [Said EXCEPT !.shape = "Malformed"], [Said EXCEPT !.shape = "OtherVersion"],
     [Said EXCEPT !.component = 9], [Said EXCEPT !.repository = 9], [Said EXCEPT !.inputs = 9],
     [Said EXCEPT !.inputs = 0], [Said EXCEPT !.record = 9]}
RebuildWork ==
    {Work(<<[adapter |-> REPRO, accepted |-> a, claim |-> c, published |-> p, rebuilt |-> b,
             policy |-> [profile |-> f, component |-> 1, repository |-> 1]]>>, <<>>, Still) :
        a \in BOOLEAN, f \in BOOLEAN, c \in SaidVariants, p \in RecordVariants,
        b \in {Record, [Record EXCEPT !.form = "Unusable"]}}
    \cup {Work(<<[adapter |-> REPRO, accepted |-> TRUE, claim |-> c, published |-> p, rebuilt |-> b,
             policy |-> [profile |-> TRUE, component |-> 1, repository |-> 1]]>>, <<>>, Still) :
        c \in {Said, [Said EXCEPT !.repository = 9]}, p \in RecordVariants, b \in RecordVariants}

BomVariants ==
    {[payload |-> "Json", graph |-> TRUE, serials |-> s] :
        s \in {<<3>>, <<4>>, <<NotHex>>, <<3, 4>>, <<3, 3>>, <<>>}}
    \cup {[payload |-> p, graph |-> FALSE, serials |-> <<3>>] : p \in {"Json", "NotJson"}}
Signed == [file |-> "Given", genuine |-> TRUE, generation |-> "milan", tcb |-> <<2>>,
           data |-> 6, matches |-> TRUE]
SignedVariants ==
    {Signed, [Signed EXCEPT !.file = "Missing"], [Signed EXCEPT !.file = "Unusable"],
     [Signed EXCEPT !.genuine = FALSE], [Signed EXCEPT !.generation = "other"],
     [Signed EXCEPT !.generation = "turin"], [Signed EXCEPT !.tcb = <<1>>],
     [Signed EXCEPT !.data = 0], [Signed EXCEPT !.matches = FALSE]}
Vcek == [file |-> "Given", readable |-> TRUE, hwid |-> "Id", id |-> 3]
VcekVariants ==
    {Vcek, [Vcek EXCEPT !.file = "Missing"], [Vcek EXCEPT !.readable = FALSE],
     [Vcek EXCEPT !.hwid = "None"], [Vcek EXCEPT !.hwid = "WrongLength"], [Vcek EXCEPT !.id = 0]}
NonceVariants == {[form |-> "Fits", value |-> v] : v \in {0, 5, 6}}
                 \cup {[form |-> f, value |-> 6] : f \in {"NotHex", "Short", "Long", "Missing"}}
DeviceWork ==
    {Work(<<[adapter |-> SNP, accepted |-> TRUE, bom |-> b, report |-> s, vcek |-> v,
             chain |-> c, nonce |-> n,
             policy |-> [profile |-> f, floors |-> <<Floor("milan", <<2>>)>>]]>>, <<>>, Still) :
        b \in BomVariants, s \in SignedVariants, v \in VcekVariants, n \in NonceVariants,
        c \in {"Two"}, f \in {TRUE}}
    \cup {Work(<<[adapter |-> SNP, accepted |-> a, bom |-> b, report |-> s, vcek |-> Vcek,
             chain |-> c, nonce |-> [form |-> "Fits", value |-> 6],
             policy |-> [profile |-> f, floors |-> fs]]>>, <<>>, Still) :
        a \in BOOLEAN, f \in BOOLEAN, b \in BomVariants, s \in SignedVariants, c \in Chains,
        fs \in {<<Floor("milan", <<2>>)>>, <<Floor("genoa", <<2>>)>>,
                <<Floor("milan", <<3>>), Floor("turin", <<0>>)>>}}

MCWorkloads == Fleets \cup Disturbances \cup Live \cup Saved \cup Shared
               \cup KeyWork \cup RebuildWork \cup DeviceWork

-----------------------------------------------------------------------------
(* A second collection is saved over an earlier one and may be cut short.  *)
MCRecovery == {Work(<<Recording, Replaying>>,
                    Written([Bundle EXCEPT !.nodes = <<Node1>>], TRUE),
                    <<Serves(6, Reissued(<<Node2>>, 6))>>)}

(* load.rs, of the digests: "they are what lets a later replay say this    *)
(* was disturbed instead of appraising altered bytes", and "The digests    *)
(* are written for every file".  The anchor and the nodes a replay         *)
(* appraises are therefore of one collection, or of the directory found.   *)
AnchorIsOfTheSameCollection ==
    \A r \in DOMAIN run : Appraised(r) /\ ~Asked(r).live /\ run[r].bundle.service # 0 =>
        <<run[r].bundle.service, run[r].bundle.nodes>> \in
            {<<w.service, Joined(w.quotes, w.listing)>> :
                 w \in {work.worlds[i] : i \in DOMAIN work.worlds}}
            \cup {<<work.files[ServiceFile].value, m.nodes>> : m \in Recorded}

(* docs/adapters.md: a node whose generation the floor does not name is    *)
(* "reported as cannot-evaluate.  Nothing about that node is at fault".    *)
AtFault(node, floors) ==
    \/ ~Authenticates(node)
    \/ node.uvm \notin {"Endorsed", "Oversized"}
    \/ FloorCovers(node.report.generation, floors) /\ ~MeetsFloor(node.report, floors)

UncoveredIsNotAFault ==
    \A r \in DOMAIN run : Appraised(r) /\ Failed(r, "snp-uvm-validation") =>
        \E i \in DOMAIN run[r].bundle.nodes :
            AtFault(run[r].bundle.nodes[i], Asked(r).policy.floors)
=============================================================================
