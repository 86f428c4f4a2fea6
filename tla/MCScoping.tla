----------------------------- MODULE MCScoping -----------------------------
(***************************************************************************)
(* Scoping on four services, of which the last cannot be routed and the    *)
(* others may serve keys under one kid, with at most two to be asked, and  *)
(* statements of up to two receipts or one of each service; and what the   *)
(* documentation says of a receipt that cannot be evaluated.               *)
(***************************************************************************)
EXTENDS Scoping, TLC

MCAllowlists == {{}, {1}, {1, 2}, {1, 4}, {1, 2, 3}}

Receipt(form, issuer, kid, signer, supported, bound, at) ==
    [form |-> form, issuer |-> issuer, kid |-> kid, signer |-> signer,
     supported |-> supported, bound |-> bound, at |-> at]

(* Sound receipts of two services under one kid, one of another statement, *)
(* one signed by the wrong service, an algorithm this build lacks, no kid, *)
(* no issuer, two issuers seldom listed and four that do not evaluate.     *)
MCReceipts ==
    {Receipt("Well", 1, 1, 1, TRUE, TRUE, 1), Receipt("Well", 2, 1, 2, TRUE, TRUE, 2),
     Receipt("Well", 1, 1, 1, TRUE, FALSE, 2), Receipt("Well", 2, 1, 1, TRUE, TRUE, 1),
     Receipt("Well", 1, 1, 1, FALSE, TRUE, 1), Receipt("Well", 1, 0, 1, TRUE, TRUE, 1),
     Receipt("Well", 0, 1, 1, TRUE, TRUE, 1), Receipt("Well", 3, 1, 1, TRUE, TRUE, 1),
     Receipt("Well", 4, 1, 1, TRUE, TRUE, 1),
     Receipt("Unparseable", 2, 1, 2, TRUE, TRUE, 1), Receipt("Malformed", 2, 1, 2, TRUE, TRUE, 1),
     Receipt("UnsupportedStructure", 1, 1, 1, TRUE, TRUE, 1),
     Receipt("NoAlgorithm", 1, 1, 1, TRUE, TRUE, 1)}

MCStatements == {<<>>} \cup {<<a>> : a \in MCReceipts} \cup {<<a, b>> : a, b \in MCReceipts}
                      \cup {[i \in 1..3 |-> Receipt("Well", i, 1, i, TRUE, TRUE, i)]}

Entry(kid, key, usable) == [kid |-> kid, key |-> key, usable |-> usable]
MCKeySets == {<<Entry(1, 1, TRUE)>>, <<Entry(1, 2, TRUE)>>,
              <<Entry(1, 1, FALSE), Entry(1, 1, TRUE)>>, <<Entry(2, 1, TRUE)>>}

-----------------------------------------------------------------------------
(* docs/output.md: "A receipt that is present but cannot be evaluated is   *)
(* reported as ReceiptUnevaluable", with the kind that says why, and a     *)
(* diagnostic of an unknown key means that no key has the receipt's kid.   *)
UnevaluableIsReported ==
    stage = "Done" =>
        \A i \in DOMAIN statement :
            statement[i].issuer \in DOMAIN acquired =>
                LET own == Evaluate(statement[i], acquired[statement[i].issuer])
                IN  ~own.facts => [index |-> i, kind |-> own.kind] \in unevaluable
=============================================================================
