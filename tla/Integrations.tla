---------------------------- MODULE Integrations ----------------------------
(***************************************************************************)
(* A tenant's integrations: Gmail through Composio, where the tenant's     *)
(* consent makes an account; Telegram, through Composio with a bot token   *)
(* or directly by chat; Bitrix24 by webhook.  Each has a row of            *)
(* mcp_servers, and the tools a conversation calls find what they act on   *)
(* by the toolkit, not by the row they came from.                          *)
(***************************************************************************)
EXTENDS Integers, FiniteSets

CONSTANTS Consents,  \* OAuth connections
          Keyed,     \* connections of Telegram with the bot's token
          Direct,    \* connections of Telegram by chat, of Bitrix24 by webhook
          Removals,  \* deletions of a row
          Calls,     \* tool calls
          Casts,     \* who takes part in a behaviour: sets of the above
          MaxRows,   \* bound: rows ever inserted
          MaxEdits,  \* bound: rows switched or synchronised, accounts removed by hand
          None

VARIABLES account,   \* external: Composio's accounts, named after the connections that made them
          rows,      \* [id, kit, account, place, active, tools] of mcp_servers
          last,      \* the id given last
          pc,
          held,      \* what a process holds: a row, what to act on, a tool
          edits,
          stray,     \* history: accounts whose row was not made, or not dropped with them
          twice,     \* history: accounts whose callback came again
          acted      \* history: [on, known] of the calls

vars == <<account, rows, last, pc, held, edits, stray, twice, acted>>

Makers == Consents \cup Keyed
Processes == Makers \cup Direct \cup Removals \cup Calls

-----------------------------------------------------------------------------
Goto(p, label) == pc' = [pc EXCEPT ![p] = label]

\* What a row's kit may act on: its account, chat or webhook.
On(kit) == {IF kit = "gmail" THEN r.account ELSE r.place : r \in {x \in rows : x.kit = kit}}

\* Accounts whose rows are about to be made.
Pending == {a \in Makers : pc[a] \in {"back", "creating"}}

\* createServer, active from the start and without tools.
Row(kit, a, place) ==
    [id |-> last + 1, kit |-> kit, account |-> a, place |-> place, active |-> TRUE, tools |-> "none"]

CreateServer(p, row) ==
    /\ last < MaxRows
    /\ rows' = rows \cup {row} /\ last' = last + 1
    /\ held' = [held EXCEPT ![p].row = last + 1]

\* saveComposioTools for the row a request holds, unless it has gone.
SaveTools(p, tools) ==
    rows' = {IF r.id = held[p].row THEN [r EXCEPT !.tools = tools] ELSE r : r \in rows}

-----------------------------------------------------------------------------
\* composioConnect: an auth config of the toolkit, and a link that names an account.
Initiate(c) ==
    /\ pc[c] = "idle"
    /\ account' = [account EXCEPT ![c] = "initiated"]
    /\ Goto(c, "away")
    /\ UNCHANGED <<rows, last, held, edits, stray, twice, acted>>

\* The user consents, and the browser will be sent back; or it never is.
Consent(c) ==
    /\ pc[c] = "away" /\ account[c] = "initiated"
    /\ account' = [account EXCEPT ![c] = "active"]
    /\ Goto(c, "back")
    /\ UNCHANGED <<rows, last, held, edits, stray, twice, acted>>

\* composioCallback, which a browser may open again; without the row the popup is told.
Callback(c) ==
    /\ pc[c] \in {"back", "done"}
    /\ twice' = IF pc[c] = "done" THEN twice \cup {c} ELSE twice
    /\ \/ /\ CreateServer(c, Row("gmail", c, None))
          /\ Goto(c, "discovering") /\ UNCHANGED stray
       \/ /\ stray' = IF pc[c] = "back" THEN stray \cup {c} ELSE stray
          /\ Goto(c, "done")
          /\ UNCHANGED <<rows, last, held>>
    /\ UNCHANGED <<account, edits, acted>>

\* composioConnectApiKey: the account, with the chat in the row made next.
ConnectWithApiKey(k) ==
    /\ pc[k] = "idle"
    /\ account' = [account EXCEPT ![k] = "active"]
    /\ Goto(k, "creating")
    /\ UNCHANGED <<rows, last, held, edits, stray, twice, acted>>

CreateKeyed(k) ==
    /\ pc[k] = "creating"
    /\ \/ /\ CreateServer(k, Row("telegram", k, k))
          /\ Goto(k, "discovering") /\ UNCHANGED stray
       \/ /\ stray' = stray \cup {k} /\ Goto(k, "done")
          /\ UNCHANGED <<rows, last, held>>
    /\ UNCHANGED <<account, edits, twice, acted>>

\* discoverActions and the tools; a failure is not fatal.
Discover(p) ==
    /\ pc[p] = "discovering"
    /\ SaveTools(p, "composio") \/ UNCHANGED rows
    /\ Goto(p, "done")
    /\ UNCHANGED <<account, last, held, edits, stray, twice, acted>>

\* telegramConnect and bitrix24Connect, once the chat or webhook has been tried.
ConnectDirectly(d) ==
    /\ pc[d] = "idle"
    /\ \E kit \in {"telegram", "bitrix24"} : CreateServer(d, Row(kit, None, d))
    /\ Goto(d, "saving")
    /\ UNCHANGED <<account, edits, stray, twice, acted>>

\* Their own tools; a failure leaves the row.
SaveOwn(d) ==
    /\ pc[d] = "saving"
    /\ SaveTools(d, "own") \/ UNCHANGED rows
    /\ Goto(d, "done")
    /\ UNCHANGED <<account, last, held, edits, stray, twice, acted>>

-----------------------------------------------------------------------------
\* deleteServer reads the row.
Load(e) ==
    /\ pc[e] = "idle"
    /\ \E r \in rows : held' = [held EXCEPT ![e] = [@ EXCEPT !.row = r.id, !.on = r.account]]
    /\ Goto(e, "dropping")
    /\ UNCHANGED <<account, rows, last, edits, stray, twice, acted>>

\* Mutant: the account is left to its row.
DropNothing(e) ==
    /\ pc[e] = "dropping" /\ Goto(e, "destroying")
    /\ UNCHANGED <<account, rows, last, held, edits, stray, twice, acted>>

\* deleteConnection of its account; that it has gone already is as good, and that it
\* cannot be deleted is logged.
DropAccount(e) ==
    /\ pc[e] = "dropping"
    /\ LET a == held[e].on IN
       \/ /\ a # None /\ account' = [account EXCEPT ![a] = "deleted"]
          /\ UNCHANGED stray
       \/ /\ a # None /\ stray' = stray \cup {a}
          /\ UNCHANGED account
       \/ a = None /\ UNCHANGED <<account, stray>>
    /\ Goto(e, "destroying")
    /\ UNCHANGED <<rows, last, held, edits, twice, acted>>

Destroy(e) ==
    /\ pc[e] = "destroying"
    /\ rows' = {r \in rows : r.id # held[e].row}
    /\ Goto(e, "done")
    /\ UNCHANGED <<account, last, held, edits, stray, twice, acted>>

Edit == edits < MaxEdits /\ edits' = edits + 1

\* deleteComposioConnection: the account by hand, the row stays.
DeleteConnection(a) ==
    /\ Edit /\ account[a] = "active"
    /\ account' = [account EXCEPT ![a] = "deleted"]
    /\ stray' = stray \cup {a}
    /\ UNCHANGED <<rows, last, pc, held, twice, acted>>

\* disconnectServer.
Disconnect(r) ==
    /\ Edit /\ r.active
    /\ rows' = (rows \ {r}) \cup {[r EXCEPT !.active = FALSE]}
    /\ UNCHANGED <<account, last, pc, held, stray, twice, acted>>

\* connectServer asks Composio for the tools of every integration.
Reconnect(r) ==
    /\ Edit
    /\ \E tools \in {r.tools} \cup (IF r.kit = "bitrix24" THEN {} ELSE {"composio"}) :
          rows' = (rows \ {r}) \cup {[r EXCEPT !.active = TRUE, !.tools = tools]}
    /\ UNCHANGED <<account, last, pc, held, stray, twice, acted>>

\* syncTools gives Telegram and Bitrix24 their own; for the others it has no server to ask.
SyncTools(r) ==
    /\ Edit /\ r.kit # "gmail"
    /\ rows' = (rows \ {r}) \cup {[r EXCEPT !.tools = "own"]}
    /\ UNCHANGED <<account, last, pc, held, stray, twice, acted>>

-----------------------------------------------------------------------------
\* A conversation has the tools of the rows that were active when it began; execute
\* takes the toolkit from the tool's name.
Route(c) ==
    /\ pc[c] = "idle"
    /\ \E r \in {x \in rows : x.active /\ x.tools # "none"} :
          held' = [held EXCEPT ![c].kit = r.kit, ![c].tools = r.tools]
    /\ Goto(c, "routed")
    /\ UNCHANGED <<account, rows, last, edits, stray, twice, acted>>

\* getTelegramChatId, getBitrix24WebhookUrl: of any active row; findConnectedAccountForTool:
\* the first of the active accounts Composio lists.
Found(kit) ==
    IF kit = "gmail" THEN {c \in Consents : account[c] = "active"}
    ELSE {r.place : r \in {x \in rows : x.kit = kit /\ x.active}}

\* What is found is acted on, which Composio's tools cannot under the name of a Telegram
\* tool; the account may have gone meanwhile.
Find(c) ==
    /\ pc[c] = "routed"
    /\ LET kit == held[c].kit
           found == IF kit = "telegram" /\ held[c].tools = "composio" THEN {} ELSE Found(kit)
       IN \/ \E on \in found :
                /\ held' = [held EXCEPT ![c].on = on, ![c].known = on \in On(kit) \cup Pending]
                /\ Goto(c, "acting")
          \/ found = {} /\ Goto(c, "done") /\ UNCHANGED held
    /\ UNCHANGED <<account, rows, last, edits, stray, twice, acted>>

Act(c) ==
    /\ pc[c] = "acting"
    /\ acted' = IF held[c].kit = "gmail" /\ account[held[c].on] # "active" THEN acted
                ELSE acted \cup {[on |-> held[c].on, known |-> held[c].known]}
    /\ Goto(c, "done")
    /\ UNCHANGED <<account, rows, last, held, edits, stray, twice>>

-----------------------------------------------------------------------------
Init ==
    /\ account = [a \in Makers |-> "none"] /\ rows = {} /\ last = 0
    /\ \E cast \in Casts : pc = [p \in Processes |-> IF p \in cast THEN "idle" ELSE "absent"]
    /\ held = [p \in Processes |-> [row |-> 0, on |-> None, known |-> FALSE,
                               kit |-> "none", tools |-> "none"]]
    /\ edits = 0 /\ stray = {} /\ twice = {} /\ acted = {}

Next ==
    \/ \E c \in Consents : Initiate(c) \/ Consent(c) \/ Callback(c)
    \/ \E k \in Keyed : ConnectWithApiKey(k) \/ CreateKeyed(k)
    \/ \E p \in Makers : Discover(p) \/ DeleteConnection(p)
    \/ \E d \in Direct : ConnectDirectly(d) \/ SaveOwn(d)
    \/ \E e \in Removals : Load(e) \/ DropAccount(e) \/ Destroy(e)
    \/ \E r \in rows : Disconnect(r) \/ Reconnect(r) \/ SyncTools(r)
    \/ \E c \in Calls : Route(c) \/ Find(c) \/ Act(c)

Spec == Init /\ [][Next]_vars

-----------------------------------------------------------------------------
TypeOK ==
    /\ account \in [Makers -> {"none", "initiated", "active", "deleted"}]
    /\ rows \subseteq [id : 1 .. MaxRows, kit : {"gmail", "telegram", "bitrix24"},
                       account : Makers \cup {None}, place : Keyed \cup Direct \cup {None},
                       active : BOOLEAN, tools : {"none", "own", "composio"}]
    /\ stray \cup twice \subseteq Makers

\* An account that can be acted with is one its tenant sees and can remove, or the
\* request that makes its row is not over; unless that request, or a removal, failed.
NoHiddenAccount ==
    \A a \in Makers :
        account[a] = "active" /\ a \notin stray =>
            a \in Pending \/ \E r \in rows : r.account = a

\* A row stands for an account that is there, unless it was removed by hand, its callback
\* came twice, or its removal has begun.
RowsBacked ==
    \A r \in rows : r.account # None /\ r.account \notin stray \cup twice =>
        account[r.account] = "active"
        \/ \E e \in Removals : pc[e] = "destroying" /\ held[e].row = r.id

\* What a tool acted on was a row's when it was found, or about to be, whatever row the tool came from.
ActsOnConnected ==
    \A x \in acted : x.known \/ x.on \in stray

IntegrationsSound == NoHiddenAccount /\ RowsBacked /\ ActsOnConnected

-----------------------------------------------------------------------------
IntegrationConstants ==
    /\ Consents \cap (Keyed \cup Direct \cup Removals \cup Calls) = {}
    /\ Keyed \cap (Direct \cup Removals \cup Calls) = {}
    /\ Direct \cap (Removals \cup Calls) = {} /\ Removals \cap Calls = {}
    /\ None \notin Processes
    /\ MaxRows \in Nat /\ MaxEdits \in Nat

Kinds ==
    /\ last \in 0 .. MaxRows /\ edits \in Nat
    /\ \A r \in rows : r.id <= last /\ (r.kit = "gmail" <=> r.account \in Consents)
    /\ \A r, q \in rows : r.id = q.id => r = q
    /\ pc \in [Processes -> {"absent", "idle", "away", "back", "creating", "discovering", "saving",
                             "dropping", "destroying", "routed", "acting", "done"}]
    /\ held \in [Processes -> [row : 0 .. last, on : Makers \cup Direct \cup {None}, known : BOOLEAN,
                               kit : {"none", "gmail", "telegram", "bitrix24"},
                               tools : {"none", "own", "composio"}]]
    /\ acted \subseteq [on : Makers \cup Direct \cup {None}, known : BOOLEAN]

\* An account comes with the request that makes it, and its row after both.
Made ==
    \A a \in Makers :
        /\ pc[a] \in {"absent", "idle"} => account[a] = "none"
        /\ pc[a] = "away" => account[a] = "initiated"
        /\ a \in Pending => account[a] = "active" \/ a \in stray
        /\ pc[a] \notin {"discovering", "done"} =>
              /\ \A r \in rows : r.account # a
              /\ \A e \in Removals : held[e].on # a

\* The row a removal has read is that of the account it drops, and unless its callback
\* came twice the account has no other.
Removing ==
    /\ \A r, q \in rows : r.account = q.account /\ r.account # None /\ r.account \notin twice => r = q
    /\ \A e \in Removals : held[e].on \in Makers \cup {None}
    /\ \A e \in Removals : pc[e] \in {"dropping", "destroying"} =>
          /\ \A r \in rows : r.id = held[e].row => r.account = held[e].on
          /\ \A r \in rows : r.account = held[e].on /\ r.account # None /\ r.account \notin twice =>
                r.id = held[e].row
          /\ pc[e] = "destroying" /\ held[e].on # None =>
                account[held[e].on] # "active" \/ held[e].on \in stray

\* What a call acts on is known, or an account that was left behind.
Acting == \A c \in Calls : pc[c] = "acting" => held[c].known \/ held[c].on \in stray

IInv == TypeOK /\ Kinds /\ Made /\ Removing /\ Acting /\ IntegrationsSound
=============================================================================
