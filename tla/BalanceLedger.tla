--------------------------- MODULE BalanceLedger ---------------------------
(***************************************************************************)
(* The balance of a tenant and the balance_ledger table:                   *)
(* UsersService.updateUserBalance and decrementUserBalance run by          *)
(* concurrent requests, against the deletion of the tenant.                *)
(*                                                                         *)
(* A request resolves the owner outside the transaction, then locks the    *)
(* owner's users row, looks its idempotency key up, writes the balance and *)
(* the ledger row, sends the mails a debit calls for, and commits.  Until  *)
(* the commit its writes are visible to nobody; an error anywhere, or a    *)
(* restart of the process, rolls it back.                                  *)
(***************************************************************************)
EXTENDS Integers, Sequences, FiniteSets

CONSTANTS Users,         \* ids a caller may pass
          Accounts,      \* the users with no vpbx_user_id: tenant owners
          OwnerOf,       \* resolveOwnerId: vpbx_user_id ?? id
          Requests,      \* calls of the two operations
          Operations,    \* the arguments a call may be made with
          NoKey,         \* opts.externalId absent
          Opening,       \* users.balance when the account was created
          CriticalLevel  \* the 3 USD below which a critical mail is due

Keys == {o.key : o \in Operations}

ASSUME LedgerConstants ==
    /\ Accounts \subseteq Users
    /\ OwnerOf \in [Users -> Accounts]
    /\ \A o \in Operations :
          /\ o = [dir |-> o.dir, user |-> o.user, amount |-> o.amount, key |-> o.key]
          /\ o.dir \in {"credit", "debit"}
          /\ o.user \in Users
          /\ o.amount \in Nat
    /\ Opening \in [Accounts -> Int]
    /\ CriticalLevel \in Nat

VARIABLES accounts,   \* the accounts whose users row exists
          balance,    \* users.balance, committed
          ledger,     \* committed balance_ledger rows of each account, in id order
          pc,         \* how far each request is
          op,         \* its arguments
          before,     \* the balance it read under the row lock
          mails,      \* balance mails handed to the mailer, and crossings reported
          purge       \* deleteUser: rows destroyed so far, or NotPurging

vars == <<accounts, balance, ledger, pc, op, before, mails, purge>>

-----------------------------------------------------------------------------
NotPurging == -1

Grain == 10

\* Number.prototype.toFixed(4): what the DECIMAL(14,4) ledger columns keep of a
\* balance, which has one more digit here; nearest, ties away from zero.
Fixed4(x) == IF x < 0 THEN -((-x + 5) \div Grain) ELSE (x + 5) \div Grain

Owner(r) == OwnerOf[op[r].user]
Key(r)   == op[r].key
After(r) == IF op[r].dir = "credit" THEN before[r] + op[r].amount
                                    ELSE before[r] - op[r].amount

\* Requests that hold the FOR UPDATE lock on their owner's row, and those of
\* them that have inserted a ledger row they have not committed.
Open     == {"locked", "checked", "written", "announced"}
Inserted == {"written", "announced"}
Finished == {"applied", "duplicate", "refused", "failed"}

Locked(a) == \E q \in Requests : pc[q] \in Open /\ Owner(q) = a

KeyTaken(k) == \E a \in Accounts : \E i \in 1..Len(ledger[a]) : ledger[a][i].key = k

\* row.req is no column: it remembers which request wrote the row.
Row(r) ==
    [dir    |-> op[r].dir,
     amount |-> Fixed4(op[r].amount),
     before |-> Fixed4(before[r]),
     after  |-> Fixed4(After(r)),
     key    |-> Key(r),
     req    |-> r]

Goto(r, label) == pc' = [pc EXCEPT ![r] = label]

-----------------------------------------------------------------------------
\* The early return on missing arguments (a debit of 0 counts as missing), then
\* resolveOwnerId, which throws when the user is not there.
Resolve(r) ==
    /\ pc[r] = "idle"
    /\ \/ op[r].dir = "debit" /\ op[r].amount = 0 /\ Goto(r, "refused")
       \/ /\ op[r].dir = "credit" \/ op[r].amount # 0
          /\ Goto(r, IF Owner(r) \in accounts THEN "resolved" ELSE "failed")
    /\ UNCHANGED <<accounts, balance, ledger, op, before, mails, purge>>

\* Mutant: findByPk without lock.
LockRowUnlocked(r) ==
    /\ pc[r] = "resolved"
    /\ Goto(r, IF Owner(r) \in accounts THEN "locked" ELSE "refused")
    /\ before' = [before EXCEPT ![r] = balance[Owner(r)]]
    /\ UNCHANGED <<accounts, balance, ledger, op, mails, purge>>

\* Mutant: the null a deleted row yields is not handled.
LockRowOfExisting(r) ==
    /\ pc[r] = "resolved"
    /\ ~Locked(Owner(r))
    /\ Owner(r) \in accounts
    /\ Goto(r, "locked")
    /\ before' = [before EXCEPT ![r] = balance[Owner(r)]]
    /\ UNCHANGED <<accounts, balance, ledger, op, mails, purge>>

\* SELECT ... FOR UPDATE waits for the lock; a row deleted meanwhile is null.
LockRow(r) ==
    /\ pc[r] = "resolved"
    /\ ~Locked(Owner(r))
    /\ \/ /\ Owner(r) \in accounts
          /\ Goto(r, "locked")
          /\ before' = [before EXCEPT ![r] = balance[Owner(r)]]
       \/ /\ Owner(r) \notin accounts
          /\ Goto(r, "refused")
          /\ UNCHANGED before
    /\ UNCHANGED <<accounts, balance, ledger, op, mails, purge>>

\* Mutant: the idempotency lookup is left out.
LookUpNothing(r) ==
    /\ pc[r] = "locked"
    /\ Goto(r, "checked")
    /\ UNCHANGED <<accounts, balance, ledger, op, before, mails, purge>>

\* A row with this (source, externalId) means the call was already applied.
LookUpKey(r) ==
    /\ pc[r] = "locked"
    /\ Goto(r, IF Key(r) # NoKey /\ KeyTaken(Key(r)) THEN "duplicate" ELSE "checked")
    /\ UNCHANGED <<accounts, balance, ledger, op, before, mails, purge>>

\* Mutant: no unique index behind the insert.
InsertWithoutIndex(r) ==
    /\ pc[r] = "checked"
    /\ Goto(r, "written")
    /\ UNCHANGED <<accounts, balance, ledger, op, before, mails, purge>>

\* user.update and balanceLedgerRepository.create.  The lock is per account but
\* the unique index idx_balance_ledger_idem is global: an insert waits for
\* another open transaction with its key, and fails on a committed one.
Insert(r) ==
    /\ pc[r] = "checked"
    /\ \A q \in Requests \ {r} :
          pc[q] \in Inserted => Key(r) = NoKey \/ Key(q) # Key(r)
    /\ Goto(r, IF Key(r) # NoKey /\ KeyTaken(Key(r)) THEN "failed" ELSE "written")
    /\ UNCHANGED <<accounts, balance, ledger, op, before, mails, purge>>

Depleted(b) == b <= 0

Notices == {"crossing", "critical", "zero"}

\* Mutant: a debit that lands on exactly zero is not a depletion.
DueAtZero(r, notice) ==
    \/ notice = "crossing" /\ ~Depleted(before[r]) /\ ~Depleted(After(r))
    \/ notice = "zero" /\ ~Depleted(before[r]) /\ After(r) < 0

\* What a debit reports: a crossing to the threshold alerts while the balance
\* stays positive, a critical mail at 3 USD, a zero mail when it is used up.
Due(r, notice) ==
    \/ notice = "crossing" /\ ~Depleted(before[r]) /\ ~Depleted(After(r))
    \/ /\ notice = "critical" /\ ~Depleted(before[r]) /\ ~Depleted(After(r))
       /\ before[r] > CriticalLevel /\ After(r) <= CriticalLevel
    \/ notice = "zero" /\ ~Depleted(before[r]) /\ Depleted(After(r))

\* The mails leave before the transaction commits.
Announce(r) ==
    /\ pc[r] = "written"
    /\ op[r].dir = "debit"
    /\ mails' = mails \cup {m \in [kind : Notices, req : {r}] : Due(r, m.kind)}
    /\ Goto(r, "announced")
    /\ UNCHANGED <<accounts, balance, ledger, op, before, purge>>

\* Mutant: the row of the calling user is charged, not the tenant owner's.
CommitToCaller(r) ==
    /\ pc[r] = "announced" \/ (pc[r] = "written" /\ op[r].dir = "credit")
    /\ balance' = [u \in Accounts \cup {op[r].user} |->
                      IF u = op[r].user THEN After(r) ELSE balance[u]]
    /\ ledger' = [ledger EXCEPT ![Owner(r)] = Append(@, Row(r))]
    /\ Goto(r, "applied")
    /\ UNCHANGED <<accounts, op, before, mails, purge>>

Commit(r) ==
    /\ pc[r] = "announced" \/ (pc[r] = "written" /\ op[r].dir = "credit")
    /\ balance' = [balance EXCEPT ![Owner(r)] = After(r)]
    /\ ledger' = [ledger EXCEPT ![Owner(r)] = Append(@, Row(r))]
    /\ Goto(r, "applied")
    /\ UNCHANGED <<accounts, op, before, mails, purge>>

\* An error in a statement, in the caller's outer transaction, or a restart.
Abort(r) ==
    /\ pc[r] \in Open \cup {"resolved"}
    /\ Goto(r, "failed")
    /\ UNCHANGED <<accounts, balance, ledger, op, before, mails, purge>>

\* deleteUser of an owner: cascadeDeleteTenantData destroys the ledger rows it
\* sees, and only the last statement destroys the users row.
PurgeRows(a) ==
    /\ a \in accounts
    /\ purge[a] = NotPurging
    /\ purge' = [purge EXCEPT ![a] = Len(ledger[a])]
    /\ UNCHANGED <<accounts, balance, ledger, pc, op, before, mails>>

\* Mutant: the users row goes although a request holds its lock.
DropAccountUnlocked(a) ==
    /\ a \in accounts
    /\ purge[a] # NotPurging
    /\ accounts' = accounts \ {a}
    /\ ledger' = [ledger EXCEPT ![a] = SubSeq(@, purge[a] + 1, Len(@))]
    /\ UNCHANGED <<balance, pc, op, before, mails, purge>>

\* DELETE of the users row waits for its lock, then the transaction commits.
DropAccount(a) ==
    /\ a \in accounts
    /\ purge[a] # NotPurging
    /\ ~Locked(a)
    /\ accounts' = accounts \ {a}
    /\ ledger' = [ledger EXCEPT ![a] = SubSeq(@, purge[a] + 1, Len(@))]
    /\ UNCHANGED <<balance, pc, op, before, mails, purge>>

-----------------------------------------------------------------------------
Init ==
    /\ accounts = Accounts
    /\ balance = Opening
    /\ ledger = [a \in Accounts |-> <<>>]
    /\ pc = [r \in Requests |-> "idle"]
    /\ op \in [Requests -> Operations]
    /\ before = [r \in Requests |-> 0]
    /\ mails = {}
    /\ purge = [a \in Accounts |-> NotPurging]

Advance(r) == \/ Resolve(r) \/ LockRow(r) \/ LookUpKey(r) \/ Insert(r)
              \/ Announce(r) \/ Commit(r)

Next ==
    \/ \E r \in Requests : Advance(r) \/ Abort(r)
    \/ \E a \in Accounts : PurgeRows(a) \/ DropAccount(a)

Spec == Init /\ [][Next]_vars

\* The event loop and the database keep serving a request that can proceed;
\* nothing makes anybody call deleteUser or a transaction fail.
FairSpec == Spec /\ \A r \in Requests : WF_vars(Advance(r))

-----------------------------------------------------------------------------
Rows(a) == 1..Len(ledger[a])

LedgerRow == [dir : {"credit", "debit"}, amount : Int, before : Int, after : Int,
              key : Keys, req : Requests]

\* Every variable keeps the shape its column or its local has in the code.
TypeOK ==
    /\ accounts \subseteq Accounts
    /\ balance \in [Accounts -> Int]
    /\ ledger \in [Accounts -> Seq(LedgerRow)]
    /\ pc \in [Requests -> Open \cup Finished \cup {"idle", "resolved"}]
    /\ op \in [Requests -> Operations]
    /\ before \in [Requests -> Int]
    /\ mails \subseteq [kind : Notices, req : Requests]
    /\ purge \in [Accounts -> Nat \cup {NotPurging}]

\* The ledger of an account is one unbroken chain from its opening balance to
\* the balance in users: no concurrent debit or credit is ever lost
\* (updateUserBalance and decrementUserBalance under the row lock).
LedgerChain ==
    \A a \in accounts :
       /\ Rows(a) = {} => balance[a] = Opening[a]
       /\ Rows(a) # {} => /\ ledger[a][1].before = Fixed4(Opening[a])
                          /\ ledger[a][Len(ledger[a])].after = Fixed4(balance[a])
       /\ \A i \in Rows(a) : i > 1 => ledger[a][i].before = ledger[a][i - 1].after

\* An idempotency key is applied once, whichever accounts the calls that carry
\* it resolve to (the lookup under the lock, and idx_balance_ledger_idem).
AppliedOnce ==
    \A a, b \in Accounts : \A i \in Rows(a), j \in Rows(b) :
       ledger[a][i].key # NoKey /\ ledger[a][i].key = ledger[b][j].key
          => a = b /\ i = j

\* A retried call for the same tenant is recognised by the lookup and answered
\* true; the unique index never turns it into an error, because nothing adds a
\* row to a tenant's ledger between the lookup and the insert.
RetryRecognised ==
    \A r \in Requests : pc[r] = "checked" /\ Key(r) # NoKey =>
       \A i \in Rows(Owner(r)) : ledger[Owner(r)][i].key # Key(r)

\* The ledger a tenant can rely on: a chain without gaps that ends in the balance, every
\* key applied once, and every retry known for one.
LedgerSound == LedgerChain /\ AppliedOnce /\ RetryRecognised

\* No debit uses up a balance silently: when the chain of rows steps from above
\* zero to zero or below, that request's zero mail was sent.
DepletionAnnounced ==
    \A r \in Requests :
       /\ pc[r] = "applied" /\ op[r].dir = "debit"
       /\ before[r] > 0 /\ After(r) <= 0
       => [kind |-> "zero", req |-> r] \in mails

\* Only a commit moves a balance, and it moves only the balance of an account
\* that exists: a charge is never written to a tenant that is being removed
\* after its row is gone (deleteUser against a request that passed resolveOwnerId).
NoWriteAfterClose ==
    [][\A a \in Accounts : a \notin accounts =>
          /\ balance'[a] = balance[a]
          /\ ledger'[a] = ledger[a]]_vars

\* No request waits for ever: the row locks and the unique index cannot make
\* two balance operations wait for each other.
EveryRequestFinishes ==
    \A r \in Requests : pc[r] = "idle" ~> pc[r] \in Finished

-----------------------------------------------------------------------------
\* Every interleaving of the transactions looks to the callers like requests
\* settled one at a time.
Outcome == [r \in Requests |-> IF pc[r] \in Finished THEN pc[r] ELSE "pending"]

Atomic == INSTANCE AtomicLedger WITH outcome <- Outcome

RefinesAtomicLedger == Atomic!Spec
=============================================================================
