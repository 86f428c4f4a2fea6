------------------------------ MODULE MCChain ------------------------------
(***************************************************************************)
(* Chain over a small hierarchy: a root, its namesake of a rotation, the   *)
(* root renewed and its two rollovers, a stranger; intermediates with and  *)
(* without a limit; and leaves that fail for one reason each.              *)
(***************************************************************************)
EXTENDS Chain

Cert(name, issuer, key, signer, from, to) ==
    [name |-> name, issuer |-> issuer, key |-> key, signer |-> signer, from |-> from,
     to |-> to, ca |-> TRUE, pathLen |-> {}, readable |-> TRUE, supported |-> TRUE,
     beyond |-> FALSE, eku |-> {}, ekuCritical |-> FALSE]

Limited(c, n) == [c EXCEPT !.pathLen = {n}]
Ended(c)      == [c EXCEPT !.ca = FALSE]

\* Names: 1 the authority, 2 and 3 intermediates, 4 a signer, 5 a stranger.
Root     == Limited(Cert(1, 1, 1, 1, 0, 9), 1)
Namesake == Cert(1, 1, 6, 6, 0, 9)
Renewed  == Cert(1, 1, 1, 1, 5, 9)
Brief    == Cert(1, 1, 1, 1, 0, 1)
Rollover == Cert(1, 1, 6, 1, 2, 9)
Stranger == Cert(5, 5, 5, 5, 0, 9)
OldRoot  == [Root EXCEPT !.supported = FALSE]
OddRoot  == [Root EXCEPT !.beyond = TRUE]
Issuing  == Limited(Cert(2, 1, 2, 1, 1, 8), 0)
Under6   == Cert(2, 1, 2, 6, 3, 8)
Odd      == [Issuing EXCEPT !.supported = FALSE]
Sub      == Cert(3, 2, 3, 2, 2, 7)
Deep     == Cert(2, 3, 2, 3, 2, 7)
Free     == Cert(2, 1, 2, 1, 1, 8)
Leaf     == Ended(Cert(4, 2, 4, 2, 3, 6))
SubLeaf  == Ended(Cert(4, 3, 4, 3, 3, 6))
Forged   == [Leaf EXCEPT !.signer = 5]
Late     == [Leaf EXCEPT !.from = 9, !.to = 9]
Purposed == [Leaf EXCEPT !.eku = {1}, !.ekuCritical = TRUE]
Beyond   == [Leaf EXCEPT !.beyond = TRUE]
ByLeaf   == Ended(Cert(7, 4, 7, 4, 3, 6))
Broken   == [Leaf EXCEPT !.readable = FALSE]

MCCertificates ==
    {Root, Namesake, Renewed, Brief, Rollover, Stranger, OldRoot, OddRoot, Issuing, Under6,
     Odd, Sub, Deep, Free, Leaf, SubLeaf, Forged, Late, Purposed, Beyond, ByLeaf, Broken}

Leaves == {Leaf, Forged, Late, Purposed, Beyond, Broken}

MCChains ==
    {<<>>, <<Leaf>>, <<Root>>, <<SubLeaf, Sub, Issuing, Root>>, <<SubLeaf, Sub, Free, Root>>,
     <<SubLeaf, Sub, Deep, Sub, Free>>, <<Leaf, Under6>>, <<Leaf, Under6, Rollover>>,
     <<Leaf, Under6, Rollover, Root>>, <<Leaf, Odd>>, <<Leaf, Odd, Root>>,
     <<ByLeaf, Leaf, Issuing>>, <<ByLeaf, Leaf, Issuing, Root>>, <<ByLeaf, Leaf, Free, Renewed>>,
     <<Leaf, Issuing, Stranger>>}
    \cup {<<l, Issuing>> : l \in Leaves} \cup {<<l, Issuing, Root>> : l \in Leaves}

Begin    == [mark |-> "Begin"]
Stop     == [mark |-> "End"]
Text(c)  == [mark |-> "Text", cert |-> c]
Block(c) == <<Begin, Text(c), Stop>>

Trusted == {Root, Namesake, Renewed, Brief, OldRoot, OddRoot, Stranger}

MCFiles ==
    {Block(c) : c \in Trusted} \cup {Block(c) \o Block(d) : c, d \in Trusted}
    \cup {Block(Root) \o <<[mark |-> "BeginOther"], Text(Broken), Stop>>,
          <<Begin, [mark |-> "BeginOther"], Text(Root), Stop>>,
          <<Text(Broken)>> \o Block(Root), Block(Broken), <<>>, <<Stop>>, <<Begin, Text(Root)>>,
          <<Begin, Text(Root), Text(Root), Stop>>,
          <<Begin, Text(Root), Begin, Text(Root), Stop>>}

Ask(rooted, timed, at, purposes) ==
    [rooted |-> rooted, timed |-> timed, at |-> at, purposes |-> purposes]
MCRequests == {Ask(r, FALSE, 0, p) : r \in BOOLEAN, p \in {{}, {1}}}
              \cup {Ask(r, TRUE, t, {}) : r \in BOOLEAN, t \in {-1, 4}}
=============================================================================
