------------------------------- MODULE Tenants -------------------------------
(***************************************************************************)
(* The tree of tenants: an owner is a user without a parent, a sub-user    *)
(* names its owner in vpbx_user_id, and no foreign key guards that name.   *)
(* Creating, moving and deleting users each read rows, check them and      *)
(* write later, so that two of them may cross.                             *)
(***************************************************************************)
EXTENDS Integers, FiniteSets

CONSTANTS Creates,    \* requests to create a user (POST /users, sign-ups)
          SubCreates, \* requests to create a sub-user
          Moves,      \* an administrator gives a user another parent
          Deletes,    \* requests to delete a user
          Casts,      \* bound: the sets of requests that come together
          MaxUsers,   \* bound: identifiers the table hands out
          MaxFaults   \* bound: statements that fail

TenantConstants == MaxUsers \in Nat /\ MaxUsers >= 3 /\ MaxFaults \in Nat

Nobody == 0           \* vpbx_user_id IS NULL; as a requester, an administrator
Ids == 1..MaxUsers
Ops == Creates \cup SubCreates \cup Moves \cup Deletes

VARIABLES rows,    \* identifiers of the users that exist
          parent,  \* vpbx_user_id of every identifier
          manages, \* users with canManageUsers
          tokens,  \* users that hold a token without a parent, good for 14 days
          priced,  \* users with a row of prices
          next,    \* the next identifier
          op,      \* every request: [at, user, owner, was, by, subs]
          cast,    \* the requests that come in this behaviour
          faults,
          stale,   \* history: requests whose reads another request has overwritten
          crossed, \* history: a request has written on such reads
          cut      \* history: users whose creation an error ended without removing them

vars == <<rows, parent, manages, tokens, priced, next, op, cast, faults, stale, crossed, cut>>

IsOwner(u) == parent[u] = Nobody
Subs(o) == {u \in rows : parent[u] = o}
Goto(p, at) == op' = [op EXCEPT ![p].at = at]

\* The users whose rows the checks of a request were made on.
Watched(p) == {op[p].user, op[p].owner} \ {Nobody}
\* A write about these users makes the reads of the requests under way stale.
Overwrites(p, users) ==
    /\ stale' = stale \cup {q \in Ops \ {p} : op[q].at \notin {"idle", "over"} /\ Watched(q) \cap users # {}}
    /\ crossed' = (crossed \/ p \in stale)
ReadsOnly == UNCHANGED <<rows, parent, manages, tokens, priced, next, faults, stale, crossed, cut>>
Faulty == faults < MaxFaults /\ faults' = faults + 1

-----------------------------------------------------------------------------
\* resolveTenantParentId: empty, or a user that exists and is an owner.
MayBeParent(raw) == raw = Nobody \/ (raw \in rows /\ IsOwner(raw))

\* POST /users: an administrator names the parent; a new owner has none.
BeginCreate(p, raw) ==
    /\ op[p].at = "idle" /\ p \in cast /\ MayBeParent(raw)
    /\ op' = [op EXCEPT ![p] = [@ EXCEPT !.at = "insert", !.owner = raw]]
    /\ ReadsOnly

\* Another user than an administrator attaches the new one to itself, on its token's
\* word that it has no parent: that may have been overwritten since.
BeginOwnCreate(p, r) ==
    /\ op[p].at = "idle" /\ p \in cast /\ r \in tokens
    /\ op' = [op EXCEPT ![p] = [@ EXCEPT !.at = "insert", !.owner = r]]
    /\ stale' = IF r \in rows /\ IsOwner(r) THEN stale ELSE stale \cup {p}
    /\ UNCHANGED <<rows, parent, manages, tokens, priced, next, faults, crossed, cut>>

\* The row itself; only sub-users may be managers.
Insert(p, manager) ==
    /\ op[p].at = "insert" /\ next \in Ids
    /\ rows' = rows \cup {next}
    /\ parent' = [parent EXCEPT ![next] = op[p].owner]
    /\ manages' = IF manager /\ op[p].owner # Nobody THEN manages \cup {next} ELSE manages
    /\ tokens' = IF op[p].owner = Nobody THEN tokens \cup {next} ELSE tokens
    /\ next' = next + 1
    /\ op' = [op EXCEPT ![p].at = "role", ![p].user = next]
    /\ Overwrites(p, {op[p].owner})
    /\ UNCHANGED <<priced, faults, cut>>

\* $set of the roles, which a sub-user's creation may skip.
SetRole(p) ==
    /\ op[p].at = "role"
    /\ Goto(p, "price")
    /\ ReadsOnly

\* The price refers to the user by a foreign key.
SetPrice(p) ==
    /\ op[p].at = "price" /\ op[p].user \in rows
    /\ priced' = priced \cup {op[p].user}
    /\ Goto(p, "over")
    /\ UNCHANGED <<rows, parent, manages, tokens, next, faults, stale, crossed, cut>>

\* A role or a price that cannot be written: create removes the user again,
\* createSubUser leaves it as it is.
FailCreation(p) ==
    /\ \/ op[p].at \in {"role", "price"} /\ Faulty
       \/ op[p].at = "price" /\ op[p].user \notin rows /\ UNCHANGED faults
    /\ IF p \in Creates
       THEN Goto(p, "undo") /\ UNCHANGED cut
       ELSE Goto(p, "over") /\ cut' = cut \cup {op[p].user}
    /\ UNCHANGED <<rows, parent, manages, tokens, priced, next, stale, crossed>>

\* Mutant: the error is answered before the user is removed.
UndoNothing(p) ==
    /\ op[p].at = "undo"
    /\ Goto(p, "over")
    /\ ReadsOnly

\* The cleanup after a creation that failed: the user alone is destroyed, and an
\* error of the cleanup is logged.
Undo(p) ==
    /\ op[p].at = "undo"
    /\ Goto(p, "over")
    /\ \/ /\ rows' = rows \ {op[p].user} /\ priced' = priced \ {op[p].user}
          /\ Overwrites(p, {op[p].user})
          /\ UNCHANGED <<parent, manages, tokens, next, faults, cut>>
       \/ /\ Faulty /\ cut' = cut \cup {op[p].user}
          /\ UNCHANGED <<rows, parent, manages, tokens, priced, next, stale, crossed>>

-----------------------------------------------------------------------------
\* assertCanManageTenantUsers: whose tenant the requester may manage.
Managed(r) == IF IsOwner(r) THEN r ELSE IF r \in manages THEN parent[r] ELSE Nobody

\* POST /users/sub-user.
BeginSubCreate(p, r) ==
    /\ op[p].at = "idle" /\ p \in cast /\ r \in rows /\ Managed(r) # Nobody
    /\ op' = [op EXCEPT ![p] = [@ EXCEPT !.at = "owner", !.owner = Managed(r)]]
    /\ ReadsOnly

\* createSubUser reads the owner again.
CheckOwner(p) ==
    /\ op[p].at = "owner"
    /\ Goto(p, IF op[p].owner \in rows /\ IsOwner(op[p].owner) THEN "insert" ELSE "over")
    /\ ReadsOnly

-----------------------------------------------------------------------------
\* updateUser by an administrator: the user is loaded,
LoadMoved(p, u, raw) ==
    /\ op[p].at = "idle" /\ p \in cast /\ u \in rows /\ raw \in rows \cup {Nobody}
    /\ op' = [op EXCEPT ![p] = [@ EXCEPT !.at = "parent", !.user = u, !.owner = raw, !.was = parent[u]]]
    /\ ReadsOnly

\* its new parent is looked up, and it may not be the user itself,
ResolveParent(p) ==
    /\ op[p].at = "parent"
    /\ LET o == op[p] IN
       Goto(p, IF ~MayBeParent(o.owner) \/ o.owner = o.user THEN "over"
               ELSE IF o.was = Nobody /\ o.owner # Nobody THEN "count" ELSE "move")
    /\ ReadsOnly

\* Mutant: an owner is demoted whoever names it.
CountNone(p) ==
    /\ op[p].at = "count"
    /\ Goto(p, "move")
    /\ ReadsOnly

\* an owner that becomes a sub-user must have none of its own,
CountSubs(p) ==
    /\ op[p].at = "count"
    /\ Goto(p, IF Subs(op[p].user) = {} THEN "move" ELSE "over")
    /\ ReadsOnly

\* and the fields that differ from the loaded row are written.
Move(p) ==
    /\ op[p].at = "move"
    /\ LET o == op[p] IN
       /\ IF o.owner # o.was /\ o.user \in rows
          THEN /\ parent' = [parent EXCEPT ![o.user] = o.owner]
               /\ tokens' = IF o.owner = Nobody THEN tokens \cup {o.user} ELSE tokens
               /\ Overwrites(p, {o.user, o.owner, o.was})
          ELSE UNCHANGED <<parent, tokens, stale, crossed>>
       /\ manages' = IF o.owner = Nobody THEN manages \ {o.user} ELSE manages
    /\ Goto(p, "over")
    /\ UNCHANGED <<rows, priced, next, faults, cut>>

-----------------------------------------------------------------------------
\* deleteUser: the user is loaded; Nobody stands for an administrator.
LoadDeleted(p, u, r) ==
    /\ op[p].at = "idle" /\ p \in cast /\ u \in rows /\ r \in rows \cup {Nobody}
    /\ op' = [op EXCEPT ![p] = [@ EXCEPT !.at = "permit", !.user = u, !.was = parent[u], !.by = r]]
    /\ ReadsOnly

\* A manager deletes the sub-users of its owner, and anyone deletes itself.
Permitted(o) ==
    \/ o.by = Nobody
    \/ /\ o.by \in rows /\ Managed(o.by) # Nobody
       /\ o.user = o.by \/ (o.was = Managed(o.by) /\ o.was # Nobody)

Permit(p) ==
    /\ op[p].at = "permit"
    /\ Goto(p, IF Permitted(op[p]) THEN "list" ELSE "over")
    /\ ReadsOnly

\* Mutant: the sub-users of an owner are left behind.
ListNone(p) ==
    /\ op[p].at = "list"
    /\ op' = [op EXCEPT ![p].at = "destroy", ![p].subs = {}]
    /\ ReadsOnly

\* The transaction lists the sub-users of what was loaded as an owner,
ListSubs(p) ==
    /\ op[p].at = "list"
    /\ op' = [op EXCEPT ![p].at = "destroy", ![p].subs = IF op[p].was = Nobody THEN Subs(op[p].user) ELSE {}]
    /\ ReadsOnly

\* cascadeDeleteTenantData: what they and the user own goes, of which the prices are kept here,
Cascade(gone) == priced' = priced \ gone

\* and then they and the user.
Destroy(p) ==
    /\ op[p].at = "destroy"
    /\ LET gone == op[p].subs \cup {op[p].user} IN
       /\ rows' = rows \ gone /\ Cascade(gone)
       /\ Overwrites(p, gone \cup {op[p].was})
    /\ Goto(p, "over")
    /\ UNCHANGED <<parent, manages, tokens, next, faults, cut>>

\* An error anywhere in it rolls the transaction back.
Rollback(p) ==
    /\ op[p].at \in {"list", "destroy"} /\ Faulty
    /\ Goto(p, "over")
    /\ UNCHANGED <<rows, parent, manages, tokens, priced, next, stale, crossed, cut>>

-----------------------------------------------------------------------------
\* An owner with a manager, and another owner.
Init ==
    /\ rows = {1, 2, 3} /\ priced = {1, 2, 3} /\ manages = {2} /\ tokens = {1, 3} /\ next = 4
    /\ parent = [u \in Ids |-> IF u = 2 THEN 1 ELSE Nobody]
    /\ op = [p \in Ops |-> [at |-> "idle", user |-> Nobody, owner |-> Nobody, was |-> Nobody,
                            by |-> Nobody, subs |-> {}]]
    /\ cast \in Casts /\ faults = 0 /\ stale = {} /\ crossed = FALSE /\ cut = {}

Next ==
    /\ UNCHANGED cast
    /\ \/ \E p \in Creates : \/ \E raw \in Ids \cup {Nobody} : BeginCreate(p, raw)
                             \/ \E r \in Ids : BeginOwnCreate(p, r)
                             \/ Undo(p)
       \/ \E p \in SubCreates : CheckOwner(p) \/ \E r \in Ids : BeginSubCreate(p, r)
       \/ \E p \in Creates \cup SubCreates : \/ \E manager \in BOOLEAN : Insert(p, manager)
                                             \/ SetRole(p) \/ SetPrice(p) \/ FailCreation(p)
       \/ \E p \in Moves : \/ \E u \in Ids, raw \in Ids \cup {Nobody} : LoadMoved(p, u, raw)
                           \/ ResolveParent(p) \/ CountSubs(p) \/ Move(p)
       \/ \E p \in Deletes : \/ \E u \in Ids, r \in Ids \cup {Nobody} : LoadDeleted(p, u, r)
                             \/ Permit(p) \/ ListSubs(p) \/ Destroy(p) \/ Rollback(p)

Spec == Init /\ [][Next]_vars

-----------------------------------------------------------------------------
TypeOK ==
    /\ rows \subseteq Ids /\ priced \subseteq Ids /\ manages \subseteq Ids /\ tokens \subseteq Ids /\ cut \subseteq Ids
    /\ parent \in [Ids -> Ids \cup {Nobody}] /\ next \in 1..(MaxUsers + 1)
    /\ op \in [Ops -> [at : {"idle", "insert", "role", "price", "undo", "owner", "parent", "count",
                             "move", "permit", "list", "destroy", "over"},
                       user : Ids \cup {Nobody}, owner : Ids \cup {Nobody}, was : Ids \cup {Nobody},
                       by : Ids \cup {Nobody}, subs : SUBSET Ids]]
    /\ faults \in 0..MaxFaults /\ stale \subseteq Ops /\ crossed \in BOOLEAN

\* The tree has two levels: as long as no request wrote on reads that another had
\* overwritten, the parent of every sub-user exists and is an owner, whatever was
\* created, moved and deleted.  The balance of a call is looked up through it.
TreeIsFlat ==
    ~crossed => \A u \in rows : ~IsOwner(u) => parent[u] \in rows /\ IsOwner(parent[u])

\* A user without prices is being made, or its creation failed where nothing removes
\* it: a sub-user's, or one whose cleanup failed too.
PricedOrCut ==
    \A u \in rows \ (priced \cup cut) :
        \E p \in Creates \cup SubCreates : op[p].user = u /\ op[p].at \in {"role", "price", "undo"}
-----------------------------------------------------------------------------
\* What else holds in every state, as the proof of the tree's shape needs it.
\* Identifiers are handed out in turn, so that nothing names one that is yet to come;
Issued(o) == o.user < next /\ o.owner < next /\ o.was < next /\ \A s \in o.subs : s < next
InTurn ==
    /\ \A u \in rows \cup tokens : u < next
    /\ \A u \in Ids : parent[u] < next
    /\ \A p \in Ops : Issued(op[p])

\* a request that is past its first reads is about some user;
Creating == {"role", "price", "undo"}
Changing == {"parent", "count", "move", "permit", "list", "destroy"}
AboutSome == \A p \in Ops : op[p].at \in Creating \cup Changing => op[p].user \in Ids

\* and as long as nobody has overwritten what it read, that is still so.
StillSo(o) ==
    /\ o.at = "insert" => MayBeParent(o.owner)
    /\ o.at \in Creating => Subs(o.user) = {}
    /\ o.at \in Changing => parent[o.user] = o.was
    /\ o.at \in {"count", "move"} => MayBeParent(o.owner) /\ o.owner # o.user
    /\ o.at = "move" /\ o.was = Nobody /\ o.owner # Nobody => Subs(o.user) = {}
    /\ o.at = "destroy" /\ o.was = Nobody =>
          Subs(o.user) \subseteq o.subs /\ \A s \in o.subs \cap rows : parent[s] = o.user
    /\ o.at = "destroy" /\ o.was # Nobody => o.subs = {}
ReadsHold == ~crossed => \A p \in Ops \ stale : StillSo(op[p])

IInv == TypeOK /\ InTurn /\ AboutSome /\ ReadsHold /\ TreeIsFlat /\ PricedOrCut
=============================================================================
