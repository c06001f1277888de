------------------------ MODULE BalanceLedgerProofs ------------------------
(***************************************************************************)
(* The ledger invariants of BalanceLedger, for any number of tenants,      *)
(* requests and keys.  LedgerChain and AppliedOnce are not inductive: what *)
(* makes them hold is who may hold which lock, and what an open            *)
(* transaction knows while it holds it (LockInv, KeyInv).                  *)
(***************************************************************************)
EXTENDS BalanceLedger, SequenceTheorems, TLAPS

\* One open transaction per account, and it knows the account's balance.
LockInv ==
    /\ \A r, q \in Requests :
          pc[r] \in Open /\ pc[q] \in Open /\ Owner(r) = Owner(q) => r = q
    /\ \A r \in Requests :
          pc[r] \in Open => Owner(r) \in accounts /\ before[r] = balance[Owner(r)]

\* An inserted key is new, and no two open transactions have inserted it.
KeyInv ==
    /\ \A r \in Requests :
          pc[r] \in Inserted /\ Key(r) # NoKey => ~KeyTaken(Key(r))
    /\ \A r, q \in Requests :
          /\ pc[r] \in Inserted /\ pc[q] \in Inserted
          /\ Key(r) # NoKey /\ Key(r) = Key(q)
          => r = q

------------------------
LEMMA Fixed4Type == ASSUME NEW x \in Int PROVE Fixed4(x) \in Int
  BY DEF Fixed4, Grain

LEMMA OwnerType == ASSUME TypeOK, NEW r \in Requests
                   PROVE  /\ op[r] \in Operations
                          /\ op[r].user \in Users /\ op[r].amount \in Nat
                          /\ op[r].dir \in {"credit", "debit"}
                          /\ Owner(r) \in Accounts /\ Key(r) \in Keys
                          /\ before[r] \in Int /\ After(r) \in Int
                          /\ r \in DOMAIN pc /\ DOMAIN pc = Requests
  <1>1. op[r] \in Operations /\ before[r] \in Int /\ r \in DOMAIN pc /\ DOMAIN pc = Requests BY DEF TypeOK
  <1>2. op[r].user \in Users /\ op[r].amount \in Nat /\ op[r].dir \in {"credit", "debit"} BY <1>1, LedgerConstants
  <1>3. Owner(r) \in Accounts BY <1>2, LedgerConstants DEF Owner
  <1>4. Key(r) \in Keys BY <1>1 DEF Key, Keys
  <1>5. After(r) \in Int BY <1>1, <1>2 DEF After
  <1> QED BY <1>1, <1>2, <1>3, <1>4, <1>5

LEMMA RowType == ASSUME TypeOK, NEW r \in Requests
                 PROVE  Row(r) \in LedgerRow
  <1>1. op[r].amount \in Int /\ before[r] \in Int /\ After(r) \in Int BY OwnerType
  <1>2. Fixed4(op[r].amount) \in Int /\ Fixed4(before[r]) \in Int /\ Fixed4(After(r)) \in Int BY <1>1, Fixed4Type
  <1> QED BY <1>2, OwnerType DEF Row, LedgerRow

\* What is left of a ledger after a purge: its rows from the n-th on.
LEMMA SuffixOfLedger ==
  ASSUME NEW S, NEW s \in Seq(S), NEW n \in Nat
  PROVE  /\ SubSeq(s, n + 1, Len(s)) \in Seq(S)
         /\ Len(SubSeq(s, n + 1, Len(s))) \in Nat
         /\ \A i \in 1..Len(SubSeq(s, n + 1, Len(s))) :
               /\ n + i \in 1..Len(s)
               /\ SubSeq(s, n + 1, Len(s))[i] = s[n + i]
  <1>1. \A i \in n + 1 .. Len(s) : s[i] \in S BY ElementOfSeq
  <1>2. CASE n + 1 > Len(s)
    <2>1. SubSeq(s, n + 1, Len(s)) = <<>> BY <1>2, SubSeqProperties
    <2> QED BY <2>1
  <1>3. CASE n + 1 <= Len(s)
    <2>1. /\ SubSeq(s, n + 1, Len(s)) \in Seq(S)
          /\ Len(SubSeq(s, n + 1, Len(s))) = Len(s) - n
      BY <1>1, <1>3, SubSeqProperties, LenProperties
    <2>2. \A i \in 1 .. Len(s) - n : SubSeq(s, n + 1, Len(s))[i] = s[n + i]
      BY <1>1, <1>3, SubSeqProperties, LenProperties
    <2> QED BY <2>1, <2>2, <1>3, LenProperties
  <1> QED BY <1>2, <1>3, LenProperties

------------------------
LEMMA InitType == Init => TypeOK
  BY LedgerConstants, EmptySeq
  DEF Init, TypeOK, NotPurging, Open, Finished

LEMMA StepType == TypeOK /\ [Next]_vars => TypeOK'
  <1> SUFFICES ASSUME TypeOK, [Next]_vars PROVE TypeOK' OBVIOUS
  <1> USE DEF Open, Finished
  <1>1. ASSUME NEW r \in Requests, Resolve(r) PROVE TypeOK' BY <1>1 DEF TypeOK, Resolve, Goto
  <1>2. ASSUME NEW r \in Requests, LockRow(r) PROVE TypeOK' BY <1>2, OwnerType DEF TypeOK, LockRow, Goto
  <1>3. ASSUME NEW r \in Requests, LookUpKey(r) PROVE TypeOK' BY <1>3 DEF TypeOK, LookUpKey, Goto
  <1>4. ASSUME NEW r \in Requests, Insert(r) PROVE TypeOK' BY <1>4 DEF TypeOK, Insert, Goto
  <1>5. ASSUME NEW r \in Requests, Announce(r) PROVE TypeOK' BY <1>5 DEF TypeOK, Announce, Goto
  <1>6. ASSUME NEW r \in Requests, Commit(r) PROVE TypeOK'
    <2>1. balance' \in [Accounts -> Int] /\ accounts' \subseteq Accounts BY <1>6, OwnerType DEF TypeOK, Commit
    <2>2. ledger' \in [Accounts -> Seq(LedgerRow)]
      <3>1. Append(ledger[Owner(r)], Row(r)) \in Seq(LedgerRow) BY OwnerType, RowType, AppendProperties DEF TypeOK
      <3> QED BY <1>6, <3>1, OwnerType DEF TypeOK, Commit
    <2>3. pc' \in [Requests -> Open \cup Finished \cup {"idle", "resolved"}] BY <1>6 DEF TypeOK, Commit, Goto
    <2> QED BY <1>6, <2>1, <2>2, <2>3 DEF TypeOK, Commit
  <1>7. ASSUME NEW r \in Requests, Abort(r) PROVE TypeOK' BY <1>7 DEF TypeOK, Abort, Goto
  <1>8. ASSUME NEW a \in Accounts, PurgeRows(a) PROVE TypeOK'
    <2>1. Len(ledger[a]) \in Nat BY LenProperties DEF TypeOK
    <2> QED BY <1>8, <2>1 DEF TypeOK, PurgeRows
  <1>9. ASSUME NEW a \in Accounts, DropAccount(a) PROVE TypeOK'
    <2>1. purge[a] \in Nat /\ ledger[a] \in Seq(LedgerRow) BY <1>9 DEF TypeOK, DropAccount
    <2>2. SubSeq(ledger[a], purge[a] + 1, Len(ledger[a])) \in Seq(LedgerRow) BY <2>1, SuffixOfLedger
    <2> QED BY <1>9, <2>2 DEF TypeOK, DropAccount
  <1>10. CASE UNCHANGED vars BY <1>10 DEF TypeOK, vars
  <1> QED BY <1>1, <1>2, <1>3, <1>4, <1>5, <1>6, <1>7, <1>8, <1>9, <1>10 DEF Next, Advance

\* TypeOK: the variables of BalanceLedger keep their types, for any constants.
THEOREM LedgerTypeCorrect == Spec => []TypeOK
  BY InitType, StepType, PTL DEF Spec

------------------------
\* A request that moves on without taking a lock disturbs no lock.
LEMMA LockFrame ==
  ASSUME TypeOK, LockInv, NEW r \in Requests, NEW label,
         Goto(r, label), label \in Open => pc[r] \in Open,
         UNCHANGED <<accounts, balance, op, before>>
  PROVE  LockInv'
  <1>1. \A q \in Requests : /\ pc'[q] \in Open => pc[q] \in Open
                            /\ Owner(q)' = Owner(q)
    BY DEF TypeOK, Goto, Owner
  <1> QED BY <1>1 DEF LockInv

\* The FOR UPDATE lock does what it is for.
LEMMA LockStep == TypeOK /\ LockInv /\ [Next]_vars => LockInv'
  <1> SUFFICES ASSUME TypeOK, LockInv, [Next]_vars PROVE LockInv' OBVIOUS
  <1>1. ASSUME NEW r \in Requests, Resolve(r) PROVE LockInv'
    <2>1. \E label \in {"refused", "resolved", "failed"} : Goto(r, label) BY <1>1 DEF Resolve
    <2> QED BY <1>1, <2>1, LockFrame DEF Resolve, Open
  <1>2. ASSUME NEW r \in Requests, LockRow(r) PROVE LockInv'
    <2>1. CASE Owner(r) \in accounts
      <3>1. /\ pc' = [pc EXCEPT ![r] = "locked"]
            /\ before' = [before EXCEPT ![r] = balance[Owner(r)]]
            /\ UNCHANGED <<accounts, balance, op>>
        BY <1>2, <2>1 DEF LockRow, Goto
      <3>2. \A q \in Requests : pc[q] \in Open => Owner(q) # Owner(r) /\ q # r BY <1>2 DEF LockRow, Locked
      <3>3. \A q \in Requests : q # r => pc'[q] = pc[q] /\ before'[q] = before[q] BY <3>1 DEF TypeOK
      <3>4. before'[r] = balance[Owner(r)] BY <3>1 DEF TypeOK
      <3>5. \A q \in Requests : Owner(q)' = Owner(q) BY <3>1 DEF Owner
      <3> QED BY <2>1, <3>1, <3>2, <3>3, <3>4, <3>5 DEF LockInv
    <2>2. CASE Owner(r) \notin accounts BY <1>2, <2>2, LockFrame DEF LockRow, Open
    <2> QED BY <2>1, <2>2
  <1>3. ASSUME NEW r \in Requests, LookUpKey(r) PROVE LockInv' BY <1>3, LockFrame DEF LookUpKey, Open
  <1>4. ASSUME NEW r \in Requests, Insert(r) PROVE LockInv' BY <1>4, LockFrame DEF Insert, Open
  <1>5. ASSUME NEW r \in Requests, Announce(r) PROVE LockInv' BY <1>5, LockFrame DEF Announce, Open
  <1>6. ASSUME NEW r \in Requests, Commit(r) PROVE LockInv'
    <2>1. /\ pc' = [pc EXCEPT ![r] = "applied"] /\ pc[r] \in Open
          /\ UNCHANGED <<accounts, op, before>>
          /\ balance' = [balance EXCEPT ![Owner(r)] = After(r)]
      BY <1>6 DEF Commit, Goto, Open
    <2>2. \A q \in Requests : pc'[q] \in Open => pc[q] \in Open /\ Owner(q) # Owner(r)
      BY <2>1 DEF TypeOK, LockInv, Open
    <2> QED BY <2>1, <2>2, OwnerType DEF TypeOK, LockInv, Owner
  <1>7. ASSUME NEW r \in Requests, Abort(r) PROVE LockInv' BY <1>7, LockFrame DEF Abort, Open
  <1>8. ASSUME NEW a \in Accounts, PurgeRows(a) PROVE LockInv' BY <1>8 DEF TypeOK, LockInv, PurgeRows, Owner
  <1>9. ASSUME NEW a \in Accounts, DropAccount(a) PROVE LockInv'
    BY <1>9 DEF TypeOK, LockInv, DropAccount, Owner, Locked
  <1>10. CASE UNCHANGED vars BY <1>10 DEF TypeOK, LockInv, vars, Owner
  <1> QED BY <1>1, <1>2, <1>3, <1>4, <1>5, <1>6, <1>7, <1>8, <1>9, <1>10 DEF Next, Advance

------------------------
\* Only a commit and the end of a deletion touch accounts, balances or ledgers.
LEMMA LedgerMoves ==
  ASSUME [Next]_vars
  PROVE  \/ UNCHANGED <<accounts, balance, ledger>>
         \/ \E r \in Requests : Commit(r)
         \/ \E a \in Accounts : DropAccount(a)
  BY DEF Next, Advance, vars, Resolve, LockRow, LookUpKey, Insert, Announce, Abort,
         PurgeRows

\* What a commit does to its account's ledger, row by row.
LEMMA CommitRows ==
  ASSUME TypeOK, NEW r \in Requests, Commit(r)
  PROVE  /\ Owner(r) \in Accounts
         /\ Len(ledger[Owner(r)]) \in Nat
         /\ Len(ledger'[Owner(r)]) = Len(ledger[Owner(r)]) + 1
         /\ \A i \in Rows(Owner(r)) : ledger'[Owner(r)][i] = ledger[Owner(r)][i]
         /\ ledger'[Owner(r)][Len(ledger[Owner(r)]) + 1] = Row(r)
         /\ \A a \in Accounts : a # Owner(r) => ledger'[a] = ledger[a]
  <1>1. Owner(r) \in Accounts /\ ledger[Owner(r)] \in Seq(LedgerRow) /\ Row(r) \in LedgerRow
    BY OwnerType, RowType DEF TypeOK
  <1>2. /\ ledger'[Owner(r)] = Append(ledger[Owner(r)], Row(r))
        /\ \A a \in Accounts : a # Owner(r) => ledger'[a] = ledger[a]
    BY <1>1 DEF Commit, TypeOK
  <1> QED BY <1>1, <1>2, AppendProperties, LenProperties DEF Rows

\* The rows of b that the deletion of a removes.
Removed(a, b) == IF b = a THEN purge[a] ELSE 0

\* What a deletion leaves of each ledger: the rows after the removed ones.
LEMMA DropRows ==
  ASSUME TypeOK, NEW a \in Accounts, DropAccount(a), NEW b \in Accounts
  PROVE  /\ Removed(a, b) \in Nat
         /\ Len(ledger'[b]) \in Nat
         /\ \A i \in 1..Len(ledger'[b]) :
               /\ Removed(a, b) + i \in Rows(b)
               /\ ledger'[b][i] = ledger[b][Removed(a, b) + i]
  <1>1. CASE b = a
    <2>1. purge[a] \in Nat /\ ledger[a] \in Seq(LedgerRow) BY DEF TypeOK, DropAccount
    <2>2. ledger'[a] = SubSeq(ledger[a], purge[a] + 1, Len(ledger[a])) BY DEF TypeOK, DropAccount
    <2> DEFINE t == SubSeq(ledger[a], purge[a] + 1, Len(ledger[a]))
    <2>3. /\ Len(t) \in Nat
          /\ \A i \in 1..Len(t) : purge[a] + i \in 1..Len(ledger[a]) /\ t[i] = ledger[a][purge[a] + i]
      BY <2>1, SuffixOfLedger
    <2>4. ledger'[b] = t BY <1>1, <2>2
    <2> HIDE DEF t
    <2> QED BY <1>1, <2>1, <2>3, <2>4 DEF Rows, Removed
  <1>2. CASE b # a
    <2>1. ledger'[b] = ledger[b] /\ Len(ledger[b]) \in Nat BY <1>2, LenProperties DEF TypeOK, DropAccount
    <2> QED BY <1>2, <2>1 DEF Rows, Removed
  <1> QED BY <1>1, <1>2

------------------------
LEMMA ChainStep == TypeOK /\ LockInv /\ LedgerChain /\ [Next]_vars => LedgerChain'
  <1> SUFFICES ASSUME TypeOK, LockInv, LedgerChain, [Next]_vars PROVE LedgerChain' OBVIOUS
  <1>1. CASE UNCHANGED <<accounts, balance, ledger>> BY <1>1 DEF LedgerChain, Rows
  <1>2. ASSUME NEW r \in Requests, Commit(r) PROVE LedgerChain'
    <2> DEFINE n == Len(ledger[Owner(r)])
    <2> DEFINE new == ledger'[Owner(r)]
    <2>0. /\ n \in Nat /\ Len(new) = n + 1 /\ new[n + 1] = Row(r)
          /\ \A i \in 1..n : new[i] = ledger[Owner(r)][i]
      BY <1>2, CommitRows DEF Rows
    <2>1. /\ Owner(r) \in accounts /\ before[r] = balance[Owner(r)] BY <1>2 DEF LockInv, Commit, Open
    <2>2. /\ accounts' = accounts
          /\ balance'[Owner(r)] = After(r)
          /\ \A a \in Accounts : a # Owner(r) => balance'[a] = balance[a]
      BY <1>2, OwnerType DEF Commit, TypeOK
    <2>3. Row(r).before = Fixed4(balance[Owner(r)]) /\ Row(r).after = Fixed4(After(r)) BY <2>1 DEF Row
    <2>4. ASSUME NEW a \in accounts, a # Owner(r)
          PROVE  ledger'[a] = ledger[a] /\ balance'[a] = balance[a]
      BY <1>2, <2>2, <2>4, CommitRows DEF TypeOK
    <2>5. /\ n = 0 => balance[Owner(r)] = Opening[Owner(r)]
          /\ n # 0 => /\ ledger[Owner(r)][1].before = Fixed4(Opening[Owner(r)])
                      /\ ledger[Owner(r)][n].after = Fixed4(balance[Owner(r)])
          /\ \A i \in 1..n : i > 1 => ledger[Owner(r)][i].before = ledger[Owner(r)][i - 1].after
      BY <2>0, <2>1 DEF LedgerChain, Rows
    <2> HIDE DEF n, new
    <2>6. /\ new[1].before = Fixed4(Opening[Owner(r)])
          /\ new[n + 1].after = Fixed4(balance'[Owner(r)])
      <3>1. CASE n = 0 BY <2>0, <2>2, <2>3, <2>5, <3>1
      <3>2. CASE n # 0 BY <2>0, <2>2, <2>3, <2>5, <3>2
      <3> QED BY <3>1, <3>2
    <2>7. ASSUME NEW i \in 1 .. n + 1, i > 1
          PROVE  new[i].before = new[i - 1].after
      <3>1. CASE i = n + 1
        <4>1. n # 0 /\ new[i - 1] = ledger[Owner(r)][n] BY <2>0, <2>7, <3>1
        <4> QED BY <2>0, <2>3, <2>5, <3>1, <4>1
      <3>2. CASE i # n + 1 BY <2>0, <2>5, <2>7, <3>2
      <3> QED BY <3>1, <3>2
    <2>8. ASSUME NEW a \in accounts'
          PROVE  /\ 1..Len(ledger'[a]) = {} => balance'[a] = Opening[a]
                 /\ 1..Len(ledger'[a]) # {} =>
                       /\ ledger'[a][1].before = Fixed4(Opening[a])
                       /\ ledger'[a][Len(ledger'[a])].after = Fixed4(balance'[a])
                 /\ \A i \in 1..Len(ledger'[a]) :
                       i > 1 => ledger'[a][i].before = ledger'[a][i - 1].after
      <3>1. CASE a = Owner(r)
        <4>1. ledger'[a] = new /\ 1..Len(new) = 1..n + 1 /\ n + 1 \in 1..n + 1 BY <2>0, <3>1 DEF new
        <4> QED BY <2>0, <2>6, <2>7, <3>1, <4>1
      <3>2. CASE a # Owner(r) BY <2>2, <2>4, <3>2 DEF LedgerChain, Rows
      <3> QED BY <3>1, <3>2
    <2> QED BY <2>8 DEF LedgerChain, Rows
  <1>3. ASSUME NEW a \in Accounts, DropAccount(a) PROVE LedgerChain'
    <2>1. /\ accounts' = accounts \ {a} /\ balance' = balance
          /\ \A b \in Accounts : b # a => ledger'[b] = ledger[b]
      BY <1>3 DEF DropAccount, TypeOK
    <2>2. \A b \in accounts' : /\ b \in accounts /\ ledger'[b] = ledger[b]
                               /\ balance'[b] = balance[b]
      BY <2>1 DEF TypeOK
    <2> QED BY <2>2 DEF LedgerChain, Rows
  <1> QED BY <1>1, <1>2, <1>3, LedgerMoves

\* LedgerChain: every tenant's ledger is an unbroken chain ending in its balance.
THEOREM LedgerIsChain == Spec => []LedgerChain
  <1> DEFINE IInv == TypeOK /\ LockInv /\ LedgerChain
  <1>1. Init => IInv
    <2> SUFFICES ASSUME Init PROVE LockInv /\ LedgerChain BY InitType
    <2>1. LockInv BY DEF Init, LockInv, Open
    <2>2. \A a \in Accounts : Len(ledger[a]) = 0 BY EmptySeq DEF Init
    <2> QED BY <2>1, <2>2 DEF Init, LedgerChain, Rows
  <1>2. IInv /\ [Next]_vars => IInv' BY StepType, LockStep, ChainStep
  <1>3. IInv => LedgerChain OBVIOUS
  <1> QED BY <1>1, <1>2, <1>3, PTL DEF Spec

------------------------
\* A request that moves on without inserting, while the ledgers stand still.
LEMMA KeyFrame ==
  ASSUME TypeOK, KeyInv, NEW r \in Requests, NEW label,
         Goto(r, label), label \in Inserted => pc[r] \in Inserted,
         UNCHANGED <<ledger, op>>
  PROVE  KeyInv'
  <1>1. \A q \in Requests : /\ pc'[q] \in Inserted => pc[q] \in Inserted
                            /\ Key(q)' = Key(q)
    BY DEF TypeOK, Goto, Key
  <1>2. \A k : KeyTaken(k)' = KeyTaken(k) BY DEF KeyTaken
  <1> QED BY <1>1, <1>2 DEF KeyInv

\* The wait at the unique index, and its refusal of a committed key, do what
\* they are for.
LEMMA KeyStep == TypeOK /\ KeyInv /\ [Next]_vars => KeyInv'
  <1> SUFFICES ASSUME TypeOK, KeyInv, [Next]_vars PROVE KeyInv' OBVIOUS
  <1>1. ASSUME NEW r \in Requests, Resolve(r) PROVE KeyInv'
    <2>1. \E label \in {"refused", "resolved", "failed"} : Goto(r, label) BY <1>1 DEF Resolve
    <2> QED BY <1>1, <2>1, KeyFrame DEF Resolve, Inserted
  <1>2. ASSUME NEW r \in Requests, LockRow(r) PROVE KeyInv' BY <1>2, KeyFrame DEF LockRow, Inserted
  <1>3. ASSUME NEW r \in Requests, LookUpKey(r) PROVE KeyInv' BY <1>3, KeyFrame DEF LookUpKey, Inserted
  <1>4. ASSUME NEW r \in Requests, Insert(r) PROVE KeyInv'
    <2>1. CASE Key(r) # NoKey /\ KeyTaken(Key(r)) BY <1>4, <2>1, KeyFrame DEF Insert, Inserted
    <2>2. CASE ~(Key(r) # NoKey /\ KeyTaken(Key(r)))
      <3>1. /\ pc' = [pc EXCEPT ![r] = "written"]
            /\ \A q \in Requests \ {r} :
                  pc[q] \in Inserted => Key(r) = NoKey \/ Key(q) # Key(r)
            /\ UNCHANGED <<ledger, op>>
        BY <1>4, <2>2 DEF Insert, Goto
      <3>2. \A q \in Requests : /\ q # r => pc'[q] = pc[q]
                                /\ Key(q)' = Key(q)
        BY <3>1 DEF TypeOK, Key
      <3>3. \A k : KeyTaken(k)' = KeyTaken(k) BY <3>1 DEF KeyTaken
      <3> QED BY <2>2, <3>1, <3>2, <3>3 DEF KeyInv
    <2> QED BY <2>1, <2>2
  <1>5. ASSUME NEW r \in Requests, Announce(r) PROVE KeyInv' BY <1>5, KeyFrame DEF Announce, Inserted
  <1>6. ASSUME NEW r \in Requests, Commit(r) PROVE KeyInv'
    <2>1. /\ pc[r] \in Inserted /\ op' = op
          /\ pc' = [pc EXCEPT ![r] = "applied"]
      BY <1>6 DEF Commit, Goto, Inserted
    <2>2. \A q \in Requests : /\ pc'[q] \in Inserted => q # r /\ pc[q] \in Inserted
                              /\ Key(q)' = Key(q)
      BY <2>1 DEF TypeOK, Key, Inserted
    <2>3. ASSUME NEW k, KeyTaken(k)'
          PROVE  KeyTaken(k) \/ k = Key(r)
      <3>0. PICK a \in Accounts : \E i \in 1..Len(ledger'[a]) : ledger'[a][i].key = k BY <2>3 DEF KeyTaken
      <3>1. PICK i \in 1..Len(ledger'[a]) : ledger'[a][i].key = k BY <3>0
      <3>2. CASE a # Owner(r) BY <1>6, <3>1, <3>2, CommitRows DEF KeyTaken
      <3>3. CASE a = Owner(r) /\ i \in Rows(a) BY <1>6, <3>1, <3>3, CommitRows DEF KeyTaken, Rows
      <3>4. CASE a = Owner(r) /\ i \notin Rows(a)
        <4>1. ledger'[a][i] = Row(r) BY <1>6, <3>4, CommitRows DEF Rows
        <4> QED BY <3>1, <4>1 DEF Row
      <3> QED BY <3>2, <3>3, <3>4
    <2> QED BY <2>1, <2>2, <2>3 DEF KeyInv
  <1>7. ASSUME NEW r \in Requests, Abort(r) PROVE KeyInv' BY <1>7, KeyFrame DEF Abort, Inserted
  <1>8. ASSUME NEW a \in Accounts, PurgeRows(a) PROVE KeyInv' BY <1>8 DEF KeyInv, PurgeRows, Key, KeyTaken
  <1>9. ASSUME NEW a \in Accounts, DropAccount(a) PROVE KeyInv'
    <2>1. pc' = pc /\ op' = op BY <1>9 DEF DropAccount
    <2>2. ASSUME NEW k, KeyTaken(k)' PROVE KeyTaken(k) BY <1>9, <2>2, DropRows DEF KeyTaken, Rows
    <2> QED BY <2>1, <2>2 DEF KeyInv, Key
  <1>10. CASE UNCHANGED vars BY <1>10 DEF KeyInv, vars, Key, KeyTaken
  <1> QED BY <1>1, <1>2, <1>3, <1>4, <1>5, <1>6, <1>7, <1>8, <1>9, <1>10 DEF Next, Advance

LEMMA AppliedOnceStep == TypeOK /\ KeyInv /\ AppliedOnce /\ [Next]_vars => AppliedOnce'
  <1> SUFFICES ASSUME TypeOK, KeyInv, AppliedOnce, [Next]_vars PROVE AppliedOnce' OBVIOUS
  <1>1. CASE UNCHANGED <<accounts, balance, ledger>> BY <1>1 DEF AppliedOnce, Rows
  <1>2. ASSUME NEW r \in Requests, Commit(r) PROVE AppliedOnce'
    <2> DEFINE n == Len(ledger[Owner(r)])
    <2>1. n \in Nat /\ Owner(r) \in Accounts BY <1>2, CommitRows
    <2>2. \A a \in Accounts : \A i \in 1..Len(ledger'[a]) :
             \/ i \in Rows(a) /\ ledger'[a][i] = ledger[a][i]
             \/ a = Owner(r) /\ i = n + 1 /\ ledger'[a][i].key = Key(r)
      <3>1. Row(r).key = Key(r) BY DEF Row
      <3> QED BY <1>2, <3>1, CommitRows DEF Rows
    <2>3. \A a \in Accounts : \A i \in Rows(a) :
             Key(r) # NoKey => ledger[a][i].key # Key(r)
      <3>1. pc[r] \in Inserted BY <1>2 DEF Commit, Inserted
      <3> QED BY <3>1 DEF KeyInv, KeyTaken, Rows
    <2> HIDE DEF n
    <2>4. ASSUME NEW a \in Accounts, NEW b \in Accounts,
                 NEW i \in 1..Len(ledger'[a]), NEW j \in 1..Len(ledger'[b]),
                 ledger'[a][i].key # NoKey, ledger'[a][i].key = ledger'[b][j].key
          PROVE  a = b /\ i = j
      <3>1. CASE i \in Rows(a) /\ ledger'[a][i] = ledger[a][i]
        <4>1. CASE j \in Rows(b) /\ ledger'[b][j] = ledger[b][j] BY <2>4, <3>1, <4>1 DEF AppliedOnce
        <4>2. CASE ledger'[b][j].key = Key(r) BY <2>3, <2>4, <3>1, <4>2
        <4> QED BY <2>2, <4>1, <4>2
      <3>2. CASE a = Owner(r) /\ i = n + 1 /\ ledger'[a][i].key = Key(r) BY <2>2, <2>3, <2>4, <3>2
      <3> QED BY <2>2, <3>1, <3>2
    <2> QED BY <2>4 DEF AppliedOnce, Rows
  <1>3. ASSUME NEW a \in Accounts, DropAccount(a) PROVE AppliedOnce'
    <2>1. ASSUME NEW b \in Accounts, NEW c \in Accounts,
                 NEW i \in 1..Len(ledger'[b]), NEW j \in 1..Len(ledger'[c]),
                 ledger'[b][i].key # NoKey, ledger'[b][i].key = ledger'[c][j].key
          PROVE  b = c /\ i = j
      <3> DEFINE m == Removed(a, b) + i
                 n == Removed(a, c) + j
      <3>1. m \in Rows(b) /\ ledger'[b][i] = ledger[b][m] BY <1>3, DropRows
      <3>2. n \in Rows(c) /\ ledger'[c][j] = ledger[c][n] BY <1>3, DropRows
      <3>3. b = c /\ m = n
        <4> HIDE DEF m, n
        <4> QED BY <2>1, <3>1, <3>2 DEF AppliedOnce
      <3> QED BY <1>3, <3>3, DropRows
    <2> QED BY <2>1 DEF AppliedOnce, Rows
  <1> QED BY <1>1, <1>2, <1>3, LedgerMoves

\* AppliedOnce: however many calls carry an idempotency key, for whichever
\* tenants, the ledgers hold at most one row with it.
THEOREM KeysAppliedOnce == Spec => []AppliedOnce
  <1> DEFINE IInv == TypeOK /\ KeyInv /\ AppliedOnce
  <1>1. Init => IInv
    <2> SUFFICES ASSUME Init PROVE KeyInv /\ AppliedOnce BY InitType
    <2>1. KeyInv BY DEF Init, KeyInv, Inserted
    <2>2. \A a \in Accounts : Len(ledger[a]) = 0 BY EmptySeq DEF Init
    <2> QED BY <2>1, <2>2 DEF AppliedOnce, Rows
  <1>2. IInv /\ [Next]_vars => IInv' BY StepType, KeyStep, AppliedOnceStep
  <1> QED BY <1>1, <1>2, PTL DEF Spec

------------------------
LEMMA RetryStep == TypeOK /\ LockInv /\ RetryRecognised /\ [Next]_vars => RetryRecognised'
  <1> SUFFICES ASSUME TypeOK, LockInv, RetryRecognised, [Next]_vars,
                      NEW r \in Requests, pc'[r] = "checked", Key(r)' # NoKey,
                      NEW i \in 1..Len(ledger'[Owner(r)'])
               PROVE  ledger'[Owner(r)'][i].key # Key(r)'
    BY DEF RetryRecognised, Rows
  <1>1. op' = op /\ Owner(r)' = Owner(r) /\ Key(r)' = Key(r) /\ Owner(r) \in Accounts
    BY OwnerType DEF Next, Advance, vars, Resolve, LockRow, LookUpKey, Insert, Announce,
                     Commit, Abort, PurgeRows, DropAccount, Owner, Key
  <1>2. pc[r] = "checked" \/ (LookUpKey(r) /\ ~KeyTaken(Key(r)))
    BY <1>1 DEF Next, Advance, vars, Resolve, LockRow, LookUpKey, Insert, Announce,
                Commit, Abort, PurgeRows, DropAccount, Goto, TypeOK
  <1>3. CASE LookUpKey(r) /\ ~KeyTaken(Key(r)) BY <1>1, <1>3 DEF LookUpKey, KeyTaken
  <1>4. CASE pc[r] = "checked"
    <2>1. CASE UNCHANGED <<accounts, balance, ledger>> BY <1>1, <1>4, <2>1 DEF RetryRecognised, Rows
    <2>2. ASSUME NEW q \in Requests, Commit(q)
          PROVE  ledger'[Owner(r)] = ledger[Owner(r)]
      <3>1. pc[q] \in Open /\ pc[r] \in Open /\ q # r BY <1>4, <2>2 DEF Commit, Open
      <3>2. Owner(q) # Owner(r) BY <3>1 DEF LockInv
      <3> QED BY <1>1, <2>2, <3>2, CommitRows
    <2>3. ASSUME NEW a \in Accounts, DropAccount(a)
          PROVE  ledger'[Owner(r)] = ledger[Owner(r)]
      BY <1>1, <1>4, <2>3 DEF DropAccount, Locked, Open, TypeOK
    <2>4. ledger'[Owner(r)] = ledger[Owner(r)] BY <2>1, <2>2, <2>3, LedgerMoves
    <2> QED BY <1>1, <1>4, <2>4 DEF RetryRecognised, Rows
  <1> QED BY <1>2, <1>3, <1>4

\* RetryRecognised: under the row lock, a lookup that found no row for a key
\* stays true of the tenant's ledger until the insert.
THEOREM RetriesRecognised == Spec => []RetryRecognised
  <1> DEFINE IInv == TypeOK /\ LockInv /\ RetryRecognised
  <1>1. Init => IInv BY InitType DEF Init, LockInv, Open, RetryRecognised
  <1>2. IInv /\ [Next]_vars => IInv' BY StepType, LockStep, RetryStep
  <1> QED BY <1>1, <1>2, PTL DEF Spec

\* LedgerSound: the ledger is a chain that applies every key once and knows every retry.
THEOREM LedgerIsSound == Spec => []LedgerSound
  BY LedgerIsChain, KeysAppliedOnce, RetriesRecognised, PTL DEF LedgerSound

------------------------
\* NoWriteAfterClose: the lock a commit holds keeps its account's row in place.
THEOREM ClosedAccountsStayPut == Spec => NoWriteAfterClose
  <1> DEFINE IInv == TypeOK /\ LockInv
  <1>1. Init => IInv BY InitType DEF Init, LockInv, Open
  <1>2. IInv /\ [Next]_vars => IInv' BY StepType, LockStep
  <1>3. ASSUME IInv, [Next]_vars, NEW a \in Accounts, a \notin accounts
        PROVE  balance'[a] = balance[a] /\ ledger'[a] = ledger[a]
    <2>1. ASSUME NEW r \in Requests, Commit(r)
          PROVE  balance'[a] = balance[a] /\ ledger'[a] = ledger[a]
      <3>1. a # Owner(r) BY <1>3, <2>1 DEF LockInv, Commit, Open
      <3>2. ledger'[a] = ledger[a] BY <1>3, <2>1, <3>1, CommitRows
      <3> QED BY <1>3, <2>1, <3>1, <3>2 DEF Commit, TypeOK
    <2>2. ASSUME NEW b \in Accounts, DropAccount(b)
          PROVE  balance'[a] = balance[a] /\ ledger'[a] = ledger[a]
      BY <1>3, <2>2 DEF DropAccount, TypeOK
    <2> QED BY <1>3, <2>1, <2>2, LedgerMoves
  <1>4. IInv /\ [Next]_vars =>
          [\A a \in Accounts : a \notin accounts =>
              /\ balance'[a] = balance[a]
              /\ ledger'[a] = ledger[a]]_vars
    BY <1>3
  <1> QED BY <1>1, <1>2, <1>4, PTL DEF Spec, NoWriteAfterClose
------------------------
\* The zero mail of a debit that uses the balance up leaves before it can commit.
MailInv ==
    \A r \in Requests :
       /\ pc[r] \in {"announced", "applied"} /\ op[r].dir = "debit"
       /\ before[r] > 0 /\ After(r) <= 0
       => [kind |-> "zero", req |-> r] \in mails

LEMMA MailStep == TypeOK /\ MailInv /\ [Next]_vars => MailInv'
  <1> SUFFICES ASSUME TypeOK, MailInv, [Next]_vars,
                      NEW r \in Requests, pc'[r] \in {"announced", "applied"},
                      op'[r].dir = "debit", before'[r] > 0, After(r)' <= 0
               PROVE  [kind |-> "zero", req |-> r] \in mails'
    BY DEF MailInv
  <1>1. op' = op /\ mails \subseteq mails'
    BY DEF Next, Advance, vars, Resolve, LockRow, LookUpKey, Insert, Announce, Commit,
           Abort, PurgeRows, DropAccount
  <1>2. before'[r] = before[r]
    BY DEF Next, Advance, vars, Resolve, LockRow, LookUpKey, Insert, Announce, Commit,
           Abort, PurgeRows, DropAccount, Goto, TypeOK
  <1>3. op[r].dir = "debit" /\ before[r] > 0 /\ After(r) <= 0 BY <1>1, <1>2 DEF After
  <1>4. pc[r] \in {"announced", "applied"} \/ Announce(r)
    BY <1>3 DEF Next, Advance, vars, Resolve, LockRow, LookUpKey, Insert, Announce, Commit,
                Abort, PurgeRows, DropAccount, Goto, TypeOK
  <1>5. CASE Announce(r)
    <2>1. Due(r, "zero") BY <1>3, OwnerType DEF Due, Depleted
    <2>2. [kind |-> "zero", req |-> r] \in [kind : Notices, req : {r}] BY DEF Notices
    <2> QED BY <1>5, <2>1, <2>2 DEF Announce
  <1> QED BY <1>1, <1>3, <1>4, <1>5 DEF MailInv

\* DepletionAnnounced: no debit uses a balance up without its mail.
THEOREM DepletionsAreAnnounced == Spec => []DepletionAnnounced
  <1> DEFINE IInv == TypeOK /\ MailInv
  <1>1. Init => IInv BY InitType DEF Init, MailInv
  <1>2. IInv /\ [Next]_vars => IInv' BY StepType, MailStep
  <1>3. IInv => DepletionAnnounced BY DEF MailInv, DepletionAnnounced
  <1> QED BY <1>1, <1>2, <1>3, PTL DEF Spec

------------------------
\* The rows a deletion has destroyed are rows there were.
PurgeInv == \A a \in accounts : purge[a] <= Len(ledger[a])

LEMMA PurgeStep == TypeOK /\ PurgeInv /\ [Next]_vars => PurgeInv'
  <1> SUFFICES ASSUME TypeOK, PurgeInv, [Next]_vars, NEW a \in accounts'
               PROVE  purge'[a] <= Len(ledger'[a])
    BY DEF PurgeInv
  <1>0. a \in Accounts /\ a \in accounts /\ Len(ledger[a]) \in Nat
        /\ purge[a] \in Nat \cup {NotPurging} /\ purge[a] <= Len(ledger[a])
    <2>1. a \in accounts
      BY DEF Next, Advance, vars, Resolve, LockRow, LookUpKey, Insert, Announce, Commit,
             Abort, PurgeRows, DropAccount
    <2> QED BY <2>1, LenProperties DEF TypeOK, PurgeInv
  <1>1. ASSUME NEW r \in Requests, Commit(r) PROVE purge'[a] <= Len(ledger'[a])
    <2>1. Len(ledger'[a]) = Len(ledger[a]) \/ Len(ledger'[a]) = Len(ledger[a]) + 1 BY <1>0, <1>1, CommitRows
    <2>2. purge' = purge BY <1>1 DEF Commit
    <2> QED BY <1>0, <2>1, <2>2 DEF NotPurging
  <1>2. ASSUME NEW b \in Accounts, DropAccount(b) PROVE purge'[a] <= Len(ledger'[a])
    BY <1>0, <1>2 DEF DropAccount, TypeOK
  <1>3. ASSUME NEW b \in Accounts, PurgeRows(b) PROVE purge'[a] <= Len(ledger'[a])
    BY <1>0, <1>3 DEF PurgeRows, TypeOK
  <1>4. CASE UNCHANGED <<ledger, purge>> BY <1>0, <1>4
  <1> QED BY <1>1, <1>2, <1>3, <1>4
          DEF Next, Advance, vars, Resolve, LockRow, LookUpKey, Insert, Announce, Abort

\* A request that moves on unseen, or is answered without a trace.
LEMMA OutcomeFrame ==
  ASSUME TypeOK, NEW r \in Requests, NEW label, Goto(r, label), pc[r] \notin Finished
  PROVE  /\ Outcome[r] = "pending"
         /\ label \notin Finished => Outcome' = Outcome
         /\ label \in Finished => Outcome' = [Outcome EXCEPT ![r] = label]
  <1>1. pc' = [pc EXCEPT ![r] = label] /\ DOMAIN pc = Requests BY DEF Goto, TypeOK
  <1>2. \A q \in Requests : pc'[q] = IF q = r THEN label ELSE pc[q] BY <1>1
  <1> QED BY <1>2 DEF Outcome

\* A step that answers false, throws or rolls back is Refuse; one before that is none.
LEMMA QuietStep ==
  ASSUME TypeOK, NEW r \in Requests, NEW label, Goto(r, label), pc[r] \notin Finished,
         label \notin {"applied", "duplicate"}, UNCHANGED <<accounts, balance, ledger, op>>
  PROVE  [Atomic!Next]_(Atomic!vars)
  <1>1. CASE label \notin Finished BY <1>1, OutcomeFrame DEF Atomic!vars
  <1>2. CASE label \in {"refused", "failed"}
    <2>1. Outcome[r] = "pending" /\ Outcome' = [Outcome EXCEPT ![r] = label] BY <1>2, OutcomeFrame DEF Finished
    <2>2. Atomic!Refuse(r) BY <1>2, <2>1 DEF Atomic!Refuse
    <2> QED BY <2>2 DEF Atomic!Next
  <1> QED BY <1>1, <1>2 DEF Finished

\* Every step of a transaction, a deletion or the service is one of AtomicLedger's, or
\* none that anybody can see.
LEMMA AtomicStep ==
  TypeOK /\ LockInv /\ KeyInv /\ PurgeInv /\ [Next]_vars => [Atomic!Next]_(Atomic!vars)
  <1> SUFFICES ASSUME TypeOK, LockInv, KeyInv, PurgeInv, [Next]_vars
               PROVE  [Atomic!Next]_(Atomic!vars)
    OBVIOUS
  <1>1. ASSUME NEW r \in Requests, Resolve(r) PROVE [Atomic!Next]_(Atomic!vars)
    <2>1. \E label \in {"refused", "resolved", "failed"} : Goto(r, label) BY <1>1 DEF Resolve
    <2> QED BY <1>1, <2>1, QuietStep DEF Resolve, Finished
  <1>2. ASSUME NEW r \in Requests, LockRow(r) PROVE [Atomic!Next]_(Atomic!vars)
    <2>1. \E label \in {"locked", "refused"} : Goto(r, label) BY <1>2 DEF LockRow
    <2> QED BY <1>2, <2>1, QuietStep DEF LockRow, Finished
  <1>3. ASSUME NEW r \in Requests, LookUpKey(r) PROVE [Atomic!Next]_(Atomic!vars)
    <2>1. CASE ~(Key(r) # NoKey /\ KeyTaken(Key(r))) BY <1>3, <2>1, QuietStep DEF LookUpKey, Finished
    <2>2. CASE Key(r) # NoKey /\ KeyTaken(Key(r))
      <3>1. Outcome[r] = "pending" /\ Outcome' = [Outcome EXCEPT ![r] = "duplicate"]
        BY <1>3, <2>2, OutcomeFrame DEF LookUpKey, Finished
      <3>2. Atomic!Recognise(r)
        BY <1>3, <2>2, <3>1
        DEF LookUpKey, KeyTaken, Key, Atomic!Recognise, Atomic!KeyTaken
      <3> QED BY <3>2 DEF Atomic!Next
    <2> QED BY <2>1, <2>2
  <1>4. ASSUME NEW r \in Requests, Insert(r) PROVE [Atomic!Next]_(Atomic!vars)
    <2>1. \E label \in {"written", "failed"} : Goto(r, label) BY <1>4 DEF Insert
    <2> QED BY <1>4, <2>1, QuietStep DEF Insert, Finished
  <1>5. ASSUME NEW r \in Requests, Announce(r) PROVE [Atomic!Next]_(Atomic!vars)
    BY <1>5, QuietStep DEF Announce, Finished
  <1>6. ASSUME NEW r \in Requests, Commit(r) PROVE [Atomic!Next]_(Atomic!vars)
    <2> DEFINE a == Owner(r)
    <2>1. pc[r] \in Inserted /\ pc[r] \in Open /\ pc[r] \notin Finished BY <1>6 DEF Commit, Inserted, Open, Finished
    <2>2. /\ a = OwnerOf[op[r].user] /\ a \in accounts /\ a \in Accounts
          /\ before[r] = balance[a]
      BY <2>1, OwnerType DEF LockInv, Owner
    <2>3. op[r].key = NoKey \/ ~Atomic!KeyTaken(op[r].key) BY <2>1 DEF KeyInv, Key, KeyTaken, Atomic!KeyTaken
    <2>4. After(r) = balance[a] + Atomic!Signed(op[r]) BY <2>2, OwnerType DEF After, Atomic!Signed, TypeOK
    <2>5. Row(r) = Atomic!Row(r, op[r], balance[a])
      BY <2>2, <2>4 DEF Row, Key, Fixed4, Grain, Atomic!Row, Atomic!Fixed4, Atomic!Grain
    <2>6. Outcome[r] = "pending" /\ Outcome' = [Outcome EXCEPT ![r] = "applied"]
      BY <1>6, <2>1, OutcomeFrame DEF Commit, Finished
    <2>7. /\ balance' = [balance EXCEPT ![a] = After(r)]
          /\ ledger' = [ledger EXCEPT ![a] = Append(@, Row(r))]
          /\ UNCHANGED <<accounts, op>>
      BY <1>6 DEF Commit
    <2>8. /\ balance' = [balance EXCEPT ![a] = @ + Atomic!Signed(op[r])]
          /\ ledger' = [ledger EXCEPT ![a] = Append(@, Atomic!Row(r, op[r], balance[a]))]
      BY <2>4, <2>5, <2>7
    <2>9. Atomic!Apply(r)
      <3> HIDE DEF a
      <3>1. OwnerOf[op[r].user] = a BY <2>2
      <3> QED BY <2>2, <2>3, <2>6, <2>7, <2>8, <3>1 DEF Atomic!Apply
    <2> QED BY <2>9 DEF Atomic!Next
  <1>7. ASSUME NEW r \in Requests, Abort(r) PROVE [Atomic!Next]_(Atomic!vars)
    BY <1>7, QuietStep DEF Abort, Open, Finished
  <1>8. ASSUME NEW a \in Accounts, PurgeRows(a) PROVE [Atomic!Next]_(Atomic!vars)
    BY <1>8 DEF PurgeRows, Atomic!vars, Outcome
  <1>9. ASSUME NEW a \in Accounts, DropAccount(a) PROVE [Atomic!Next]_(Atomic!vars)
    <2>1. purge[a] \in 0..Len(ledger[a]) BY <1>9, LenProperties DEF DropAccount, TypeOK, PurgeInv
    <2>2. Outcome' = Outcome BY <1>9 DEF DropAccount, Outcome
    <2>3. Atomic!Close(a) BY <1>9, <2>1, <2>2 DEF DropAccount, Atomic!Close
    <2> QED BY <2>3 DEF Atomic!Next
  <1>10. CASE UNCHANGED vars BY <1>10 DEF vars, Atomic!vars, Outcome
  <1> QED BY <1>1, <1>2, <1>3, <1>4, <1>5, <1>6, <1>7, <1>8, <1>9, <1>10 DEF Next, Advance

\* RefinesAtomicLedger: however the transactions of updateUserBalance,
\* decrementUserBalance and deleteUser interleave, abort and wait, their callers see
\* requests settled one at a time.
THEOREM LedgerIsAtomic == Spec => RefinesAtomicLedger
  <1> DEFINE IInv == TypeOK /\ LockInv /\ KeyInv /\ PurgeInv
  <1>1. Init => IInv
    <2> SUFFICES ASSUME Init PROVE LockInv /\ KeyInv /\ PurgeInv BY InitType
    <2>1. LockInv /\ KeyInv BY DEF Init, LockInv, KeyInv, Open, Inserted
    <2>2. PurgeInv BY EmptySeq DEF Init, PurgeInv, NotPurging
    <2> QED BY <2>1, <2>2
  <1>2. IInv /\ [Next]_vars => IInv' BY StepType, LockStep, KeyStep, PurgeStep
  <1>3. Init => Atomic!Init BY DEF Init, Atomic!Init, Outcome, Finished
  <1>4. IInv /\ [Next]_vars => [Atomic!Next]_(Atomic!vars) BY AtomicStep
  <1> QED BY <1>1, <1>2, <1>3, <1>4, PTL DEF Spec, RefinesAtomicLedger, Atomic!Spec
=============================================================================
