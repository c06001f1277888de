--------------------------- MODULE EdoInvitations ---------------------------
(***************************************************************************)
(* An organization of a tenant and its EDO route: invitations are sent to  *)
(* SBIS, and what SBIS says of them is copied into the organization's row  *)
(* whenever somebody asks.  Every request works on the row as it loaded    *)
(* it, and saves the fields it changed.                                    *)
(***************************************************************************)
EXTENDS Integers, Sequences

CONSTANTS Parties,   \* requisites an organization may have
          Issuers,   \* our organizations
          Home,      \* the issuer of the tenant the organization belongs to
          Sends, Syncs, Checks, \* requests
          Casts,     \* bound: the sets of requests that come together
          MaxInvites,\* bound: invitations
          MaxFaults, \* bound: calls of SBIS that fail
          MaxEdits   \* bound: edits of the requisites

EdoConstants == Home \in Issuers /\ {MaxInvites, MaxFaults, MaxEdits} \subseteq Nat

Ops == Sends \cup Syncs \cup Checks
None == 0         \* no invitation, no state
Sent == 2  Ready == 7  Broken == 9

VARIABLES org,     \* the row: [who, inv, state]
          invites, \* the invitations SBIS knows: [from, to, state]
          direct,  \* pairs that SBIS connects without an invitation
          op,      \* every request: [at, issuer, seen, inv, state]
          cast, faults, edits,
          routes   \* history: every pair that ever had a route

vars == <<org, invites, direct, op, cast, faults, edits, routes>>

Row == [who : Parties, inv : 0..MaxInvites, state : {None, Sent, Ready, Broken}]
NoRow == [who |-> CHOOSE w \in Parties : TRUE, inv |-> None, state |-> None]
Goto(p, at) == op' = [op EXCEPT ![p].at = at]
Answered(p, at, inv, state) ==
    op' = [op EXCEPT ![p].at = at, ![p].inv = inv, ![p].state = state]
Still == UNCHANGED <<org, direct, cast, edits>>

-----------------------------------------------------------------------------
\* A request loads the row; an administrator's is made for the issuer of the
\* administrator's own tenant.
Begin(p, i) ==
    /\ op[p].at = "idle" /\ p \in cast
    /\ op' = [op EXCEPT ![p].issuer = i, ![p].seen = org,
                        ![p].at = IF p \in Sends THEN "send"
                                  ELSE IF org.inv # None THEN "read" ELSE "list"]
    /\ UNCHANGED <<invites, faults, routes>> /\ Still

\* SBIS.SendInvitation: it makes an invitation, or refuses since there is a route.
Invite(p) ==
    /\ op[p].at = "send"
    /\ LET pair == <<op[p].issuer, op[p].seen.who>> IN
       IF pair \in direct
       THEN Answered(p, "save", op[p].seen.inv, Ready) /\ UNCHANGED invites
       ELSE /\ Len(invites) < MaxInvites
            /\ invites' = Append(invites, [from |-> pair[1], to |-> pair[2], state |-> Sent])
            /\ Answered(p, "peek", Len(invites) + 1, Sent)
    /\ UNCHANGED <<faults, routes>> /\ Still

\* The state of a new invitation is read at once; if that fails it counts as sent.  One
\* that is accepted by then makes a route, and its id is not saved.
Peek(p) ==
    /\ op[p].at = "peek"
    /\ \/ LET read == invites[op[p].inv].state IN
          Answered(p, "save", IF read = Ready THEN op[p].seen.inv ELSE op[p].inv, read)
          /\ UNCHANGED faults
       \/ faults < MaxFaults /\ faults' = faults + 1 /\ Goto(p, "save")
    /\ UNCHANGED <<invites, routes>> /\ Still

\* syncInvitation of a row that has an invitation reads that one.
Read(p) ==
    /\ op[p].at = "read"
    /\ Answered(p, "save", op[p].seen.inv, invites[op[p].seen.inv].state)
    /\ UNCHANGED <<invites, faults, routes>> /\ Still

\* SBIS is out of reach: the request ends.
CallFails(p) ==
    /\ op[p].at \in {"send", "read", "list"} /\ faults < MaxFaults
    /\ faults' = faults + 1
    /\ Goto(p, "over")
    /\ UNCHANGED <<invites, routes>> /\ Still

\* Mutant: the first invitation in the list is taken.
MatchesAny(p, k) == invites[k].from = op[p].issuer
\* Mutant: a row without an invitation gets the state only.
FoundWithoutId(p, k) == Answered(p, "save", op[p].seen.inv, invites[k].state)

-----------------------------------------------------------------------------
\* matchInvitationToOrg: the invitation is one to these requisites.
Matches(p, k) == invites[k].from = op[p].issuer /\ invites[k].to = op[p].seen.who
Found(p, k) == Answered(p, "save", k, invites[k].state)

\* Nothing in the list: a check tries an invitation, a sync gives up.
Unmatched(p) == Goto(p, IF p \in Checks THEN "send" ELSE "over")

\* A row without an invitation is looked for in the list of the issuer's, of which the
\* first that matches counts.
List(p) ==
    /\ op[p].at = "list"
    /\ LET hits == {k \in 1..Len(invites) : Matches(p, k)} IN
       \/ \E k \in hits : Found(p, k)
       \/ hits = {} /\ Unmatched(p)
    /\ UNCHANGED <<invites, faults, routes>> /\ Still

\* Only the fields that differ from what was loaded are written.
Changed(old, new, now) == IF new = old THEN now ELSE new
Save(p) ==
    /\ op[p].at = "save"
    /\ org' = [org EXCEPT !.inv = Changed(op[p].seen.inv, op[p].inv, @),
                          !.state = Changed(op[p].seen.state, op[p].state, @)]
    /\ Goto(p, "over")
    /\ UNCHANGED <<invites, direct, cast, edits, faults, routes>>

-----------------------------------------------------------------------------
\* OrganizationsService.update: other requisites, the same route.
Edit(w) ==
    /\ edits < MaxEdits /\ edits' = edits + 1
    /\ w # org.who /\ org' = [org EXCEPT !.who = w]
    /\ UNCHANGED <<invites, direct, op, cast, faults, routes>>

\* One of the issuers invites another organization.
InviteOther(i, w) ==
    /\ w # org.who /\ Len(invites) < MaxInvites
    /\ invites' = Append(invites, [from |-> i, to |-> w, state |-> Sent])
    /\ UNCHANGED <<op, faults, routes>> /\ Still

\* The counterparty accepts an invitation, or breaks the route.
Accept(k) ==
    /\ invites[k].state = Sent
    /\ invites' = [invites EXCEPT ![k].state = Ready]
    /\ routes' = routes \cup {<<invites[k].from, invites[k].to>>}
    /\ UNCHANGED <<op, faults>> /\ Still

Break(k) ==
    /\ invites[k].state = Ready
    /\ invites' = [invites EXCEPT ![k].state = Broken]
    /\ UNCHANGED <<op, faults, routes>> /\ Still

-----------------------------------------------------------------------------
Init ==
    /\ org \in {r \in Row : r.inv = None /\ r.state = None}
    /\ invites = <<>> /\ direct \in {{}, {<<Home, org.who>>}} /\ routes = direct
    /\ cast \in Casts /\ faults = 0 /\ edits = 0
    /\ op = [p \in Ops |-> [at |-> "idle", issuer |-> Home, seen |-> NoRow, inv |-> None, state |-> None]]

Next ==
    \/ \E p \in Ops : \/ \E i \in Issuers : Begin(p, i)
                      \/ Invite(p) \/ Peek(p) \/ Read(p) \/ CallFails(p) \/ List(p) \/ Save(p)
    \/ \E w \in Parties : Edit(w) \/ \E i \in Issuers : InviteOther(i, w)
    \/ \E k \in 1..Len(invites) : Accept(k) \/ Break(k)

Spec == Init /\ [][Next]_vars

-----------------------------------------------------------------------------
TypeOK ==
    /\ org \in Row /\ direct \subseteq Issuers \X Parties /\ routes \subseteq Issuers \X Parties
    /\ invites \in Seq([from : Issuers, to : Parties, state : {Sent, Ready, Broken}])
    /\ Len(invites) <= MaxInvites
    /\ op \in [Ops -> [at : {"idle", "send", "peek", "read", "list", "save", "over"}, issuer : Issuers,
                       seen : Row, inv : 0..MaxInvites, state : {None, Sent, Ready, Broken}]]
    /\ faults \in 0..MaxFaults /\ edits \in 0..MaxEdits

\* An organization that is ready for exchange had a route at some time, from one of our
\* organizations to the requisites it has, unless the requisites were edited, which keeps
\* the state; and one that waits for its invitation names an invitation, without which
\* syncPendingForTenant would pass it over for ever.  Requests may overlap at will.
RouteKnown ==
    /\ org.state = Ready /\ edits = 0 => \E i \in Issuers : <<i, org.who>> \in routes
    /\ org.state = Sent => org.inv # None

-----------------------------------------------------------------------------
\* What else holds in every state, as the proof of RouteKnown needs it.  What SBIS says is
\* so, had a route, or names an invitation;
Routed(w) == \E i \in Issuers : <<i, w>> \in routes
Known ==
    /\ direct \subseteq routes
    /\ \A k \in 1..Len(invites) :
          invites[k].state \in {Ready, Broken} => <<invites[k].from, invites[k].to>> \in routes
Names(inv, state) == inv <= Len(invites) /\ (state = Sent => inv # None)

\* an invitation once found is not lost again;
Held ==
    /\ Names(org.inv, org.state)
    /\ \A p \in Ops :
          /\ Names(op[p].seen.inv, op[p].seen.state) /\ Names(op[p].inv, op[p].state)
          /\ op[p].at = "peek" => op[p].inv # None
          /\ op[p].seen.inv # None =>
                org.inv # None /\ (op[p].at \in {"peek", "save"} => op[p].inv # None)
          /\ op[p].at = "read" => op[p].seen.inv # None

\* and until the requisites are edited all of it is about the party they name.
Apt(inv, state) ==
    (inv # None => invites[inv].to = org.who) /\ (state = Ready => Routed(org.who))
About ==
    edits = 0 => /\ Apt(org.inv, org.state)
                 /\ \A p \in Ops :
                      /\ op[p].at # "idle" => op[p].seen.who = org.who
                      /\ Apt(op[p].seen.inv, op[p].seen.state) /\ Apt(op[p].inv, op[p].state)

IInv == TypeOK /\ Known /\ Held /\ About
=============================================================================
