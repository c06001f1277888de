---------------------------- MODULE AtomicLedger ----------------------------
(***************************************************************************)
(* What the balance service promises its callers, with no transaction, no  *)
(* lock and no index in sight: each request is settled in one step, a      *)
(* request whose idempotency key is already in the ledger changes nothing, *)
(* and every other settled request moves the balance and adds one row.     *)
(***************************************************************************)
EXTENDS Integers, Sequences

CONSTANTS Accounts,     \* tenant owners: the users rows whose balance is charged
          OwnerOf,      \* a user's tenant owner
          Requests,     \* calls of the service
          NoKey,        \* a call without an externalId
          Opening       \* the balance an account starts with

VARIABLES accounts,     \* the accounts that still have a users row
          balance,
          ledger,       \* the balance_ledger rows of each account, oldest first
          op,           \* the arguments of each request
          outcome       \* what the service has answered

vars == <<accounts, balance, ledger, op, outcome>>

-----------------------------------------------------------------------------
\* The balance column has no fixed scale; one step of the model's scale is a
\* tenth of what the DECIMAL(14,4) columns of the ledger can tell apart.
Grain == 10

\* Number.prototype.toFixed(4), in ledger units: nearest, ties away from zero.
Fixed4(x) == IF x < 0 THEN -((-x + 5) \div Grain) ELSE (x + 5) \div Grain

Signed(o) == IF o.dir = "credit" THEN o.amount ELSE -o.amount

\* The ledger row a request writes, given the balance it found. req is not a
\* column: it remembers which call wrote the row.
Row(r, o, before) ==
    [dir    |-> o.dir,
     amount |-> Fixed4(o.amount),
     before |-> Fixed4(before),
     after  |-> Fixed4(before + Signed(o)),
     key    |-> o.key,
     req    |-> r]

KeyTaken(k) == \E a \in Accounts : \E i \in 1..Len(ledger[a]) : ledger[a][i].key = k

-----------------------------------------------------------------------------
Apply(r) ==
    LET a == OwnerOf[op[r].user] IN
    /\ outcome[r] = "pending"
    /\ a \in accounts
    /\ op[r].key = NoKey \/ ~KeyTaken(op[r].key)
    /\ balance' = [balance EXCEPT ![a] = @ + Signed(op[r])]
    /\ ledger' = [ledger EXCEPT ![a] = Append(@, Row(r, op[r], balance[a]))]
    /\ outcome' = [outcome EXCEPT ![r] = "applied"]
    /\ UNCHANGED <<accounts, op>>

Recognise(r) ==
    /\ outcome[r] = "pending"
    /\ op[r].key # NoKey
    /\ KeyTaken(op[r].key)
    /\ outcome' = [outcome EXCEPT ![r] = "duplicate"]
    /\ UNCHANGED <<accounts, balance, ledger, op>>

\* Answering false, or throwing, leaves no trace in the database.
Refuse(r) ==
    /\ outcome[r] = "pending"
    /\ outcome' \in {[outcome EXCEPT ![r] = v] : v \in {"refused", "failed"}}
    /\ UNCHANGED <<accounts, balance, ledger, op>>

\* A deleted account is gone for good; rows written while it was being deleted
\* may outlive it.
Close(a) ==
    /\ a \in accounts
    /\ accounts' = accounts \ {a}
    /\ \E n \in 0..Len(ledger[a]) :
          ledger' = [ledger EXCEPT ![a] = SubSeq(@, n + 1, Len(@))]
    /\ UNCHANGED <<balance, op, outcome>>

Init ==
    /\ accounts = Accounts
    /\ balance = Opening
    /\ ledger = [a \in Accounts |-> <<>>]
    /\ outcome = [r \in Requests |-> "pending"]

Next ==
    \/ \E r \in Requests : Apply(r) \/ Recognise(r) \/ Refuse(r)
    \/ \E a \in Accounts : Close(a)

Spec == Init /\ [][Next]_vars
=============================================================================
