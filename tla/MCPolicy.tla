------------------------------ MODULE MCPolicy ------------------------------
(***************************************************************************)
(* Policy over one statement and its variants.                             *)
(***************************************************************************)
EXTENDS Policy

Text(n)      == [type |-> "Text", value |-> n]
Number(n)    == [type |-> "Int", value |-> n]
Bool(n)      == [type |-> "Bool", value |-> n]
Entry(k, n)  == [key |-> k, value |-> n]
Map(entries) == [type |-> "Map", entries |-> entries]
List(items)  == [type |-> "Array", items |-> items]

Path(root)   == [kind |-> "Valid", root |-> root, from |-> 10, to |-> 80]
NoPath(kind) == [kind |-> kind]

Signed(convention, check, material, path) ==
    [type |-> "Signed", convention |-> convention, check |-> check, subject |-> {1},
     issuer |-> {2}, material |-> material, chain |-> path]

Supplier == Signed("Payload", "Valid", "Present", Path(2))

Claims == Map(<<Entry(Label(1), Text(1)), Entry(Label(2), Text(2)),
                Entry(TextLabel(1), Number(3))>>)
Tier   == Entry(Label(7), Text(5))
Json   == Entry(Label(3), Text(6))
Doc    == Map(<<Entry(TextLabel(1), Bool(1)), Entry(TextLabel(2), List(<<Number(4)>>))>>)

Extra(node) == Entry(TextLabel(2), node)
Header1(entries) == Map(<<Entry(Label(15), Claims)>> \o entries)
Usual == Header1(<<Json, Tier, Extra(List(<<Supplier>>))>>)

Receipt(verified, issuer, at, bound) ==
    [verified |-> verified, issuer |-> issuer, at |-> at, bound |-> bound]
Early  == Receipt(TRUE, {1}, {40}, {TRUE})
Recent == Receipt(TRUE, {2}, {99}, {FALSE})
Mute   == Receipt(TRUE, {}, {}, {TRUE})
Junk   == Receipt(FALSE, {1}, {5}, {})

Chained(kind, anchored, root, eku) ==
    [kind |-> kind, anchored |-> anchored, root |-> root, eku |-> eku, from |-> 10, to |-> 80]
Anchored == Chained("Valid", TRUE, 1, {{1, 2}})

Statement(protected, receipts, chain) ==
    [protected |-> protected, payload |-> "Present", document |-> {Doc},
     leaf |-> {[subject |-> {1}, issuer |-> {2}]}, chain |-> chain,
     receipts |-> receipts, present |-> Len(receipts)]
Base == Statement({Usual}, <<Early>>, Anchored)

ReceiptLists == {<<>>, <<Early>>, <<Recent>>, <<Early, Recent>>, <<Junk, Early>>, <<Mute>>}
OwnChains == {Anchored, Chained("Valid", FALSE, 1, {{1}}), Chained("Valid", FALSE, 3, {{1, 2}}),
              Chained("Valid", TRUE, 1, {}), NoPath("Invalid"), NoPath("Insufficient"),
              NoPath("Unsupported"), NoPath("NotRun")}
Headers ==
    {Header1(<<Json, Tier, Tier>>), Header1(<<Json, Tier, Entry(Label(7), Text(8))>>),
     Header1(<<Json, Entry(Label(7), Number(5))>>),
     Header1(<<Json, Entry(Label(7), List(<<Text(5)>>))>>),
     Header1(<<Json, Entry(Label(258), Number(1))>>), Header1(<<Entry(Label(3), Number(6))>>),
     Header1(<<>>), Map(<<Json, Tier>>),
     Map(<<Entry(Label(15), Map(<<Entry(Label(2), Text(2)), Entry(Label(2), Text(9))>>))>>),
     Map(<<Entry(Label(15), Map(<<Entry(Label(1), Text(9)), Entry(Label(2), Number(2)),
                                  Entry(TextLabel(1), Number(2))>>))>>)}
Descriptors ==
    {Signed("CoseSign1", "Valid", "Present", Path(2)),
     Signed("Payload", "Invalid", "Present", Path(2)),
     Signed("Payload", "Valid", "Present", Path(3)),
     Signed("Payload", "Unusable", "Present", Path(2)),
     Signed("Payload", "Valid", "Malformed", NoPath("Error")),
     Signed("Payload", "Unusable", "Unavailable", NoPath("Error")), Text(1)}
    \cup {Signed("Payload", "Valid", "Present", NoPath(k)) :
             k \in {"Invalid", "Insufficient", "Unsupported", "Error", "Crypto"}}
    \cup {Signed("Payload", "Unusable", "Present", NoPath("Error"))}

MCStatements ==
    {Statement({Usual}, r, c) : r \in ReceiptLists, c \in OwnChains}
    \cup {Statement({h}, <<Early>>, Anchored) : h \in Headers}
    \cup {Statement({Header1(<<Extra(List(<<d>>))>>)}, r, Anchored) :
             d \in Descriptors, r \in {<<>>, <<Early>>, <<Recent>>}}
    \cup {Statement({}, <<>>, NoPath("NotRun")), [Base EXCEPT !.leaf = {}],
          [Base EXCEPT !.payload = "Detached"], [Base EXCEPT !.document = {}],
          [Base EXCEPT !.document = {List(<<Bool(1)>>)}], [Base EXCEPT !.present = 2]}

Source(url, roots) == [url |-> url, roots |-> roots]
MCSources == {<<>>, <<Source(1, {1, 2})>>, <<Source(1, {9})>>, <<Source(1, {})>>,
              <<Source(2, {1, 2})>>, <<Source(1, {1, 2}), Source(1, {9})>>}

Rule(path, kind, accepts) == [path |-> path, matchers |-> {[kind |-> kind, accepts |-> accepts]}]
Exists(path, wanted) == [path |-> path, matchers |-> {[kind |-> "exists", wanted |-> wanted]}]
Signer(convention, pin, url, valid) ==
    [path |-> <<TextLabel(2), Label(0)>>, signedOver |-> convention, subject |-> {1},
     issuer |-> {2}, pin |-> pin, url |-> url, valid |-> valid]
Plain == Signer("Payload", {}, {}, {})

Assertions ==
    {[issuer |-> {1}, registeredAfter |-> 30, registeredBefore |-> 50],
     [issuer |-> {2}, receiptCount |-> 1, requireKidBoundToKey |-> TRUE],
     [requireKidBoundToKey |-> FALSE], [minSvn |-> 3, requireKidBoundToKey |-> FALSE],
     [statementSubject |-> {2, 3}, statementIssuer |-> {1}], [statementSubject |-> {2}],
     [protectedHeaders |-> <<Rule(<<Label(7)>>, "text", {5}), Exists(<<Label(258)>>, FALSE)>>],
     [protectedHeaders |-> <<Rule(<<Label(7), Label(0)>>, "text", {5})>>],
     [protectedHeaders |-> <<Exists(<<Label(15), Label(2)>>, TRUE)>>],
     [protectedHeaders |-> <<Rule(<<Label(7)>>, "alg", {5})>>],
     [payloadJson |-> <<Rule(<<TextLabel(1)>>, "bool", {1}), Exists(<<TextLabel(9)>>, FALSE)>>],
     [payloadJson |-> <<Rule(<<TextLabel(2), Label(0)>>, "int", {4})>>],
     [payloadJson |-> <<Rule(<<TextLabel(2), TextLabel(0)>>, "int", {4})>>],
     [externalSignatures |-> <<Plain>>],
     [externalSignatures |-> <<Signer("CoseSign1", {2}, {}, {})>>],
     [externalSignatures |-> <<Signer("Payload", {2}, {1}, {TRUE})>>],
     [externalSignatures |-> <<Signer("Payload", {}, {1}, {FALSE}),
                               Signer("Payload", {2}, {}, {})>>],
     [externalSignatures |-> <<[Plain EXCEPT !.subject = {9}]>>],
     [signerSubjectContains |-> 1, signerIssuerContains |-> 2, certificateChainValidated |-> TRUE],
     [certificateChainValidated |-> FALSE], [requireChainToRootSha256 |-> 1, requireEku |-> {1, 2}],
     [requireEku |-> {1, 2}], [requireChainToRootFromHttps |-> 1, requireEku |-> {1}],
     [requireChainToRootFromHttps |-> 1, certificateValidAtSigningTime |-> TRUE],
     [certificateValidAtSigningTime |-> FALSE], [maxAgeDays |-> 3], [maxAgeDays |-> 40],
     [maxAgeDays |-> 120], [maxAgeDays |-> -1],
     \* refused when it is read
     [issuer |-> {}], [statementIssuer |-> {}], [requireChainToRootFromHttps |-> 0],
     [requireEku |-> {}], [requireEku |-> {0, 1}], [protectedHeaders |-> <<>>],
     [receiptCount |-> 2],
     [payloadJson |-> <<Rule(<<>>, "bool", {1})>>],
     [externalSignatures |-> <<Signer("Payload", {0}, {}, {})>>],
     [protectedHeaders |-> <<[path |-> <<Label(7)>>, matchers |-> {}]>>],
     [protectedHeaders |-> <<Rule(<<Label(7), Label(0), Label(0)>>, "text", {5})>>]}

Document(a, adapters, valid) == [assertions |-> a, adapters |-> adapters, adaptersValid |-> valid]
None == [x \in {} |-> 0]

MCPolicies == {Document(a, {}, TRUE) : a \in Assertions}
              \cup {Document(None, {}, TRUE), Document(None, {"acl"}, TRUE),
                    Document([minSvn |-> 3], {"acl", "maa"}, TRUE),
                    Document([minSvn |-> 3], {"acl"}, FALSE)}
MCReceipts == {Junk, Receipt(FALSE, {9}, {99}, {FALSE}), Receipt(FALSE, {}, {}, {})}
=============================================================================
