----------------------------- MODULE MCEthProxy -----------------------------
(***************************************************************************)
(* Instances of EthProxy for TLC: two forks that part after block 1, peers *)
(* on either of them, and requests of every kind.                          *)
(***************************************************************************)
EXTENDS EthProxy

CONSTANTS a1, a2, a3, b2

MCBlock == {a1, a2, a3, b2}
MCNumberOf == (a1 :> 1) @@ (a2 :> 2) @@ (a3 :> 3) @@ (b2 :> 2)
MCViews == {(1 :> a1) @@ (2 :> a2) @@ (3 :> a3), (1 :> a1) @@ (2 :> b2)}

headers(start, limit, skip, rising) ==
    [kind |-> "headers", start |-> start, limit |-> limit, skip |-> skip, rising |-> rising]
bodies(hashes) == [kind |-> "bodies", hashes |-> hashes]

HeaderRequests ==
    {headers([number |-> 2], 3, 0, FALSE), headers([number |-> 1], 3, 1, TRUE),
     headers([hash |-> a2], 2, 0, TRUE)}

MCRequests ==
    HeaderRequests \cup {bodies(<<a1, a2>>), bodies(<<a1, b2, a1>>), [kind |-> "receipts"],
                         [kind |-> "node_data"]}
BodyRequests == {bodies(<<a1, a2>>), bodies(<<a2, b2, a1>>)}
=============================================================================
