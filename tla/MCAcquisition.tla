---------------------------- MODULE MCAcquisition ----------------------------
(***************************************************************************)
(* Acquisition on one or two ledgers and at most one root endpoint, with   *)
(* room for every request to be cut short by the deadline.                 *)
(***************************************************************************)
EXTENDS Acquisition

MCSelections   == {<<1>>, <<1, 2>>}
MCSourceCounts == {0, 1}

Key(kid, bound) == [kid |-> kid, bound |-> bound]

(* The honest sets before and after a rotation, the service's kid on other *)
(* material, the service's key beside an impostor, and an old kid twice.   *)
MCKeySets == {<<Key(1, TRUE)>>, <<Key(1, TRUE), Key(2, TRUE)>>, <<Key(1, FALSE)>>,
              <<Key(1, TRUE), Key(1, FALSE)>>, <<Key(1, TRUE), Key(1, TRUE), Key(2, TRUE)>>}
=============================================================================
