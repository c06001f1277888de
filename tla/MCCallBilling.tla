--------------------------- MODULE MCCallBilling ---------------------------
(***************************************************************************)
(* The billing of three calls: one is analysed on request while it is hung *)
(* up twice, one is used twice, one deleted twice.  `call` says which: the *)
(* handlers that take part, the prices, and how many handlers may fail.    *)
(***************************************************************************)
EXTENDS CallBilling, TLC

VARIABLE call

\* A usage report, two hangups and an analysis on request, all overlapping, and a
\* fault; two usage reports, a hangup and the analysis it fires; one usage report,
\* a hangup, the analysis it fires and two deletions of the report.
Calls == {
    [part |-> {"u1", "h1", "h2", "a1"}, prices |-> {2}, faults |-> 1],
    [part |-> {"u1", "u2", "h1", "a2"}, prices |-> {-1, 0, 2}, faults |-> 0],
    [part |-> {"n1", "h1", "a2", "d1", "d2"}, prices |-> {-1, 2}, faults |-> 0]}

Engines  == ("u1" :> "realtime") @@ ("u2" :> "realtime") @@ ("n1" :> "non-realtime")
Used     == ("u1" :> 2) @@ ("u2" :> 1) @@ ("n1" :> 2) @@ ("a1" :> 3) @@ ("a2" :> 3)
Triggers == ("a1" :> "nobody") @@ ("a2" :> "h1")
Unpriced == -1
PriceRows == {0, 2, Unpriced}

MCInit ==
    /\ Init
    /\ call \in Calls
    /\ price \in call.prices

MCNext ==
    /\ Next
    /\ UNCHANGED call
    /\ \A p \in Handlers \ call.part : pc'[p] = pc[p]
    /\ Cardinality(faulty') <= call.faults

MCSpec == MCInit /\ [][MCNext]_<<vars, call>>
=============================================================================
