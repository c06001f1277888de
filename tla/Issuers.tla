------------------------------- MODULE Issuers -------------------------------
(***************************************************************************)
(* Our own organizations, one of which is the primary one: it issues the   *)
(* documents of tenants that have none assigned.  Each change is a few     *)
(* statements without a transaction.                                       *)
(***************************************************************************)
EXTENDS FiniteSets, Integers

CONSTANTS Edits,     \* requests of administrators
          MaxOrgs    \* bound: organizations ever made; they are numbered as they come

IssuerConstants == MaxOrgs \in Nat

Orgs == 1..MaxOrgs
New == 0             \* the id of an organization that is to be made

VARIABLES rows,      \* every organization: "none", "plain" or "primary"
          last,      \* the newest id
          op,        \* every request: [at, id, primary, alone]
          doubtful   \* history: requests overlapped, one failed halfway or the primary one
                     \* was demoted, and none was made primary since by a request on its own

vars == <<rows, last, op, doubtful>>

There == {i \in Orgs : rows[i] # "none"}
Primaries == {i \in Orgs : rows[i] = "primary"}
Live(p) == op[p].at \notin {"idle", "over"}
Alone(p) == \A q \in Edits \ {p} : ~Live(q)
Goto(p, at) == op' = [op EXCEPT ![p].at = at]
Begin(p, at, id, primary) ==
    /\ op[p].at = "idle"
    /\ op' = [q \in Edits |-> IF q = p THEN [at |-> at, id |-> id, primary |-> primary, alone |-> Alone(p)]
                              ELSE [op[q] EXCEPT !.alone = @ /\ ~Live(q)]]
    /\ doubtful' = (doubtful \/ ~Alone(p))
    /\ UNCHANGED <<rows, last>>

-----------------------------------------------------------------------------
\* create: the first organization is primary anyway.
BeginCreate(p, wanted) ==
    LET primary == wanted \/ There = {} IN Begin(p, IF primary THEN "clear" ELSE "insert", New, primary)

\* update: the row is loaded; a primary one that is to be plain stays primary when it is
\* the only one.
BeginUpdate(p, i, wanted) ==
    /\ i \in There
    /\ Begin(p, IF wanted THEN "clear" ELSE "save", i, wanted \/ (rows[i] = "primary" /\ There = {i}))

\* delete: the row is loaded.
BeginDelete(p, i) == i \in There /\ Begin(p, "destroy", i, rows[i] = "primary")

\* Mutant: every organization that is not the edited one loses it, except the newest.
ClearOlder(p) ==
    /\ op[p].at = "clear"
    /\ rows' = [i \in Orgs |-> IF rows[i] = "primary" /\ i < op[p].id THEN "plain" ELSE rows[i]]
    /\ Goto(p, IF op[p].id = New THEN "insert" ELSE "save")
    /\ UNCHANGED <<last, doubtful>>

-----------------------------------------------------------------------------
\* The others are no longer primary;
Clear(p) ==
    /\ op[p].at = "clear"
    /\ rows' = [i \in Orgs |-> IF rows[i] = "primary" /\ i # op[p].id THEN "plain" ELSE rows[i]]
    /\ Goto(p, IF op[p].id = New THEN "insert" ELSE "save")
    /\ UNCHANGED <<last, doubtful>>

\* then a new one is made,
Insert(p) ==
    /\ op[p].at = "insert" /\ last < MaxOrgs
    /\ last' = last + 1
    /\ rows' = [rows EXCEPT ![last'] = IF op[p].primary THEN "primary" ELSE "plain"]
    /\ doubtful' = (doubtful /\ ~(op[p].primary /\ op[p].alone))
    /\ Goto(p, "over")

\* or the row is saved, if it is still there.  Demoting the primary one leaves none.
Save(p) ==
    /\ op[p].at = "save"
    /\ LET i == op[p].id IN
       /\ rows' = IF rows[i] = "none" THEN rows
                  ELSE [rows EXCEPT ![i] = IF op[p].primary THEN "primary" ELSE "plain"]
       /\ doubtful' = IF op[p].primary THEN doubtful /\ ~op[p].alone ELSE doubtful \/ rows[i] = "primary"
    /\ Goto(p, "over")
    /\ UNCHANGED last

Destroy(p) ==
    /\ op[p].at = "destroy"
    /\ rows' = [rows EXCEPT ![op[p].id] = "none"]
    /\ Goto(p, IF op[p].primary THEN "promote" ELSE "over")
    /\ UNCHANGED <<last, doubtful>>

\* After the primary one was deleted the oldest of the others takes its place.
Promote(p) ==
    /\ op[p].at = "promote"
    /\ rows' = [i \in Orgs |-> IF i \in There /\ \A j \in There : i <= j THEN "primary" ELSE rows[i]]
    /\ Goto(p, "over")
    /\ UNCHANGED <<last, doubtful>>

\* The next statement fails and the request with it, with what it did before in place: a
\* primary one may be cleared or deleted by then, and none of the others made primary.
Halfway(p) ==
    \/ op[p].at = "promote"
    \/ op[p].at = "insert" /\ op[p].primary
    \/ op[p].at = "save" /\ op[p].primary /\ rows[op[p].id] # "primary"

Fail(p) ==
    /\ Live(p)
    /\ doubtful' = (doubtful \/ Halfway(p))
    /\ Goto(p, "over")
    /\ UNCHANGED <<rows, last>>

-----------------------------------------------------------------------------
Init ==
    /\ rows = [i \in Orgs |-> "none"] /\ last = 0 /\ doubtful = FALSE
    /\ op = [p \in Edits |-> [at |-> "idle", id |-> New, primary |-> FALSE, alone |-> FALSE]]

Next == \E p \in Edits :
    \/ \E wanted \in BOOLEAN : BeginCreate(p, wanted) \/ \E i \in Orgs : BeginUpdate(p, i, wanted)
    \/ \E i \in Orgs : BeginDelete(p, i)
    \/ Clear(p) \/ Insert(p) \/ Save(p) \/ Destroy(p) \/ Promote(p) \/ Fail(p)

Spec == Init /\ [][Next]_vars

-----------------------------------------------------------------------------
TypeOK ==
    /\ rows \in [Orgs -> {"none", "plain", "primary"}] /\ last \in 0..MaxOrgs /\ doubtful \in BOOLEAN
    /\ op \in [Edits -> [at : {"idle", "clear", "insert", "save", "destroy", "promote", "over"},
                         id : 0..MaxOrgs, primary : BOOLEAN, alone : BOOLEAN]]

\* While nobody is changing them, exactly one of the organizations is primary, unless
\* changes overlapped, one failed halfway or the primary one was demoted; and then the next
\* organization that is made primary by a change of its own puts that right.  A change
\* that fails in any other place does no harm.
OnePrimary ==
    ~doubtful /\ There # {} /\ (\A p \in Edits : ~Live(p)) => Cardinality(Primaries) = 1

-----------------------------------------------------------------------------
\* What else holds in every state, as the proof of OnePrimary needs it.  Ids are used in
\* turn, and a request that is alone has company of nobody;
Numbered == \A i \in Orgs : i > last => rows[i] = "none"
Apart ==
    \A p \in Edits : Live(p) /\ (op[p].alone \/ ~doubtful) => op[p].alone /\ Alone(p)

\* such a request finds the rows as it left them;
Aimed ==
    \A p \in Edits : op[p].alone =>
        /\ op[p].at = "clear" => op[p].primary /\ (op[p].id # New => op[p].id \in There)
        /\ op[p].at = "insert" => IF op[p].primary THEN Primaries = {} ELSE There # {}
        /\ op[p].at = "save" =>
              op[p].id \in There /\ (op[p].primary => Primaries \subseteq {op[p].id})
        /\ op[p].at = "destroy" =>
              op[p].id \in There /\ (op[p].primary <=> rows[op[p].id] = "primary")

\* and one organization is primary except while such a request is about to say which.
Sparing(p) ==
    op[p].at \in {"clear", "destroy"} \/ (op[p].at \in {"insert", "save"} /\ ~op[p].primary)
Single == There # {} => \E i \in Orgs : Primaries = {i}
SingleInTurn ==
    ~doubtful => /\ (\A p \in Edits : Live(p) => Sparing(p)) => Single
                 /\ \A p \in Edits : op[p].at = "promote" => Primaries = {}

IInv == TypeOK /\ Numbered /\ Apart /\ Aimed /\ SingleInTurn
=============================================================================
