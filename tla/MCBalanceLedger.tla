-------------------------- MODULE MCBalanceLedger --------------------------
(***************************************************************************)
(* Two tenants, one of them with a sub-user; a key shared by calls for     *)
(* both tenants (a payment webhook delivered with different owners), a     *)
(* debit of nothing, and amounts that do not fit four decimals.            *)
(***************************************************************************)
EXTENDS BalanceLedger, TLC

CONSTANTS a1, a2, s1, k1, k2

MCUsers   == {a1, a2, s1}
MCAccounts == {a1, a2}
MCOwnerOf == (a1 :> a1) @@ (a2 :> a2) @@ (s1 :> a1)
MCOpening == (a1 :> 20) @@ (a2 :> 14)

Call(dir, user, amount, key) ==
    [dir |-> dir, user |-> user, amount |-> amount, key |-> key]

MCOperations ==
    {Call("debit", s1, 24, k1),       \* to below zero, or from the credit to critical
     Call("credit", a1, 15, k2),
     Call("debit", a2, 14, k1),       \* the key of the first call, another tenant
     Call("debit", a1, 0, NoKey)}     \* refused
=============================================================================
