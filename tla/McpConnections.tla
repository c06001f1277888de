--------------------------- MODULE McpConnections ---------------------------
(***************************************************************************)
(* The WebSocket connection to one MCP server: users connect, disconnect   *)
(* and delete the server while assistants call its tools.                  *)
(*                                                                         *)
(* A socket enters the connection map only once it is initialised; a       *)
(* socket that closes schedules the dialling of another, and that timer is *)
(* never cancelled.  The new socket counts its attempts from zero, so the  *)
(* limit on attempts is reached only by closeWs, which sets it.  Calls     *)
(* over HTTP keep no state and are not modelled.                           *)
(***************************************************************************)
EXTENDS Integers, FiniteSets

CONSTANTS Connects,     \* requests to connect
          Disconnects,  \* requests to disconnect
          Deletes,      \* requests to delete the server
          Calls,        \* tool calls
          Casts,        \* who takes part in a behaviour: sets of the above
          MaxAttempts,  \* MAX_RECONNECT_ATTEMPTS
          MaxSockets    \* bound: sockets ever dialled

VARIABLES status,   \* of the row; gone when it was deleted
          sock,     \* the sockets: [state, attempts]
          entry,    \* connections.get(serverId); 0 when there is none
          dialled,  \* sockets used
          timers,   \* sockets that have scheduled a reconnect
          pending,  \* pending[i]: calls that wait for an answer on socket i
          pc,       \* of the requests and calls
          held,     \* what a request has loaded, and the socket it waits for
          raced     \* history: a socket was dialled or dropped while another was on its way

vars == <<status, sock, entry, dialled, timers, pending, pc, held, raced>>
table == <<sock, entry, dialled, timers, pending, raced>>

-----------------------------------------------------------------------------
Sockets == 1 .. MaxSockets
Users == Connects \cup Disconnects \cup Deletes
Goto(p, label) == pc' = [pc EXCEPT ![p] = label]
InState(states) == {i \in Sockets : sock[i].state \in states}
Underway == InState({"connecting", "initializing", "closing"})
IsOpen(i) == i # 0 /\ sock[i].state = "open"

\* server.update: nothing is written when the value is the one that was loaded.
Write(r, value) ==
    status' = IF status = "gone" \/ held[r].status = value THEN status ELSE value

-----------------------------------------------------------------------------
\* getServerById.
Load(r) ==
    /\ pc[r] = "idle" /\ status # "gone"
    /\ held' = [held EXCEPT ![r].status = status]
    /\ Goto(r, IF r \in Calls THEN "calling" ELSE IF r \in Connects THEN "connecting" ELSE "dropping")
    /\ UNCHANGED <<status, table>>

\* wsConnect, after closeWs of a socket that is not open; the waiting calls of a
\* socket that has closed were rejected when it closed.
Dial == sock' = [i \in Sockets |->
                   IF i = dialled + 1 THEN [state |-> "connecting", attempts |-> 0]
                   ELSE IF i = entry THEN [state |-> "closed", attempts |-> MaxAttempts]
                   ELSE sock[i]]
        /\ dialled' = dialled + 1

\* Mutant: whatever the map holds.
ConnectAnyway(r) ==
    /\ pc[r] = "connecting" /\ dialled < MaxSockets
    /\ sock' = [sock EXCEPT ![dialled + 1] = [state |-> "connecting", attempts |-> 0]]
    /\ dialled' = dialled + 1
    /\ held' = [held EXCEPT ![r].socket = dialled + 1]
    /\ Goto(r, "waiting")
    /\ raced' = (raced \/ Underway # {} \/ timers # {})
    /\ UNCHANGED <<status, entry, timers, pending>>

Connect(r) ==
    /\ pc[r] = "connecting"
    /\ IF IsOpen(entry) THEN Goto(r, "connected") /\ UNCHANGED <<table, held>>
       ELSE /\ dialled < MaxSockets
            /\ Dial
            /\ pending' = IF entry = 0 THEN pending ELSE [pending EXCEPT ![entry] = {}]
            /\ entry' = 0
            /\ held' = [held EXCEPT ![r].socket = dialled + 1]
            /\ pc' = [p \in DOMAIN pc |-> IF p = r THEN "waiting"
                                          ELSE IF entry # 0 /\ p \in pending[entry] THEN "done" ELSE pc[p]]
            /\ raced' = (raced \/ Underway # {} \/ timers # {})
            /\ UNCHANGED timers
    /\ UNCHANGED status

\* connectServer: the row, then syncTools, which is a call like the others.
Connected(r) ==
    /\ pc[r] \in {"connected", "refused"}
    /\ Write(r, IF pc[r] = "connected" THEN "active" ELSE "error")
    /\ Goto(r, "done")
    /\ UNCHANGED <<table, held>>

\* Mutant: the calls that wait are dropped instead of rejected.
DropSilently(r) ==
    /\ pc[r] = "dropping"
    /\ IF entry = 0 THEN UNCHANGED <<sock, pending, entry, raced>>
       ELSE /\ sock' = [sock EXCEPT ![entry] = [state |-> "closed", attempts |-> MaxAttempts]]
            /\ pending' = [pending EXCEPT ![entry] = {}]
            /\ entry' = 0
            /\ raced' = (raced \/ Underway # {} \/ timers # {})
    /\ Goto(r, "dropped")
    /\ UNCHANGED <<status, dialled, timers, held>>

\* closeWs of what the map holds, whoever dials meanwhile.
Drop(r) ==
    /\ pc[r] = "dropping"
    /\ IF entry = 0
       THEN Goto(r, "dropped") /\ UNCHANGED <<sock, pending, entry>>
       ELSE /\ sock' = [sock EXCEPT ![entry] = [state |-> "closed", attempts |-> MaxAttempts]]
            /\ pc' = [p \in DOMAIN pc |-> IF p = r THEN "dropped"
                                          ELSE IF p \in pending[entry] THEN "done" ELSE pc[p]]
            /\ pending' = [pending EXCEPT ![entry] = {}]
            /\ entry' = 0
    /\ raced' = (raced \/ Underway # {} \/ timers # {})
    /\ UNCHANGED <<status, dialled, timers, held>>

\* disconnectServer marks the row, deleteServer destroys it.
Dropped(r) ==
    /\ pc[r] = "dropped"
    /\ IF r \in Deletes THEN status' = "gone" ELSE Write(r, "inactive")
    /\ Goto(r, "done")
    /\ UNCHANGED <<table, held>>

-----------------------------------------------------------------------------
\* The requests that wait for socket i get their answer.
Tell(i, label) == pc' = [p \in DOMAIN pc |->
    IF p \in Connects /\ pc[p] = "waiting" /\ held[p].socket = i THEN label ELSE pc[p]]

Opens(i) ==
    /\ sock[i].state = "connecting"
    /\ sock' = [sock EXCEPT ![i].state = "initializing"]
    /\ UNCHANGED <<status, entry, dialled, timers, pending, pc, held, raced>>

Initialized(i) ==
    /\ sock[i].state = "initializing"
    /\ sock' = [sock EXCEPT ![i].state = "open", ![i].attempts = 0]
    /\ entry' = i
    /\ Tell(i, "connected")
    /\ UNCHANGED <<status, dialled, timers, pending, held, raced>>

\* The initialisation fails or the connection takes too long: ws.close().
GiveUp(i) ==
    /\ sock[i].state \in {"connecting", "initializing"}
    /\ sock' = [sock EXCEPT ![i].state = "closing"]
    /\ Tell(i, "refused")
    /\ UNCHANGED <<status, entry, dialled, timers, pending, held, raced>>

\* Mutant: only a socket that was in use is dialled again.
ClosesForGood(i) ==
    /\ sock[i].state \in {"connecting", "initializing", "open", "closing"}
    /\ sock' = [sock EXCEPT ![i].state = "closed"]
    /\ pc' = [p \in DOMAIN pc |->
                IF p \in pending[i] THEN "done"
                ELSE IF p \in Connects /\ pc[p] = "waiting" /\ held[p].socket = i THEN "refused" ELSE pc[p]]
    /\ pending' = [pending EXCEPT ![i] = {}]
    /\ timers' = IF sock[i].state = "open" THEN timers \cup {i} ELSE timers
    /\ UNCHANGED <<status, entry, dialled, held, raced>>

\* The close event: the calls that wait are rejected, and scheduleReconnect.
Closes(i) ==
    /\ sock[i].state \in {"connecting", "initializing", "open", "closing"}
    /\ LET again == sock[i].attempts < MaxAttempts IN
       /\ sock' = [sock EXCEPT ![i].state = "closed",
                               ![i].attempts = IF again THEN @ + 1 ELSE @]
       /\ timers' = IF again THEN timers \cup {i} ELSE timers
       /\ entry' = IF again THEN entry ELSE 0
    /\ pc' = [p \in DOMAIN pc |->
                IF p \in pending[i] THEN "done"
                ELSE IF p \in Connects /\ pc[p] = "waiting" /\ held[p].socket = i THEN "refused" ELSE pc[p]]
    /\ pending' = [pending EXCEPT ![i] = {}]
    /\ UNCHANGED <<status, dialled, held, raced>>

\* The timer of scheduleReconnect dials without looking at the map.
Reconnect(i) ==
    /\ i \in timers /\ dialled < MaxSockets
    /\ timers' = timers \ {i}
    /\ sock' = [sock EXCEPT ![dialled + 1] = [state |-> "connecting", attempts |-> 0]]
    /\ dialled' = dialled + 1
    /\ raced' = (raced \/ Underway # {} \/ InState({"open"}) # {})
    /\ UNCHANGED <<status, entry, pending, pc, held>>

-----------------------------------------------------------------------------
\* executeTool: a call with no open socket throws, and is logged as an error.
Call(c) ==
    /\ pc[c] = "calling"
    /\ IF IsOpen(entry)
       THEN pending' = [pending EXCEPT ![entry] = @ \cup {c}] /\ Goto(c, "asked")
       ELSE Goto(c, "done") /\ UNCHANGED pending
    /\ UNCHANGED <<status, sock, entry, dialled, timers, held, raced>>

Settle(c, i) ==
    /\ pending' = [pending EXCEPT ![i] = @ \ {c}]
    /\ Goto(c, "done")
    /\ UNCHANGED <<status, sock, entry, dialled, timers, held, raced>>

Answer(c) == \E i \in Sockets : c \in pending[i] /\ sock[i].state = "open" /\ Settle(c, i)
Timeout(c) == \E i \in Sockets : c \in pending[i] /\ Settle(c, i)

-----------------------------------------------------------------------------
Init ==
    /\ status = "inactive"
    /\ sock = [i \in Sockets |-> [state |-> "none", attempts |-> 0]]
    /\ entry = 0 /\ dialled = 0 /\ timers = {} /\ raced = FALSE
    /\ pending = [i \in Sockets |-> {}]
    /\ \E cast \in Casts : pc = [p \in Users \cup Calls |-> IF p \in cast THEN "idle" ELSE "absent"]
    /\ held = [p \in Users \cup Calls |-> [status |-> "inactive", socket |-> 0]]

Next ==
    \/ \E r \in Users \cup Calls : Load(r)
    \/ \E r \in Connects : Connect(r) \/ Connected(r)
    \/ \E r \in Disconnects \cup Deletes : Drop(r) \/ Dropped(r)
    \/ \E i \in Sockets : Opens(i) \/ Initialized(i) \/ GiveUp(i) \/ Closes(i) \/ Reconnect(i)
    \/ \E c \in Calls : Call(c) \/ Answer(c) \/ Timeout(c)

Spec == Init /\ [][Next]_vars

-----------------------------------------------------------------------------
TypeOK ==
    /\ status \in {"inactive", "active", "error", "gone"}
    /\ sock \in [Sockets -> [state : {"none", "connecting", "initializing", "open", "closing", "closed"},
                             attempts : 0 .. MaxAttempts]]
    /\ entry \in 0 .. MaxSockets /\ dialled \in 0 .. MaxSockets
    /\ timers \subseteq Sockets
    /\ pending \in [Sockets -> SUBSET Calls]

\* Connections that come one after the other never leave two sockets open, nor one
\* that the map does not know: what a disconnect cannot reach was dialled while
\* another socket was on its way.
OneSocketInTurn ==
    ~raced => /\ Cardinality(InState({"open"})) <= 1
              /\ InState({"open"}) \subseteq {entry}

\* A closed socket in the map is being replaced: a reconnect is scheduled or underway,
\* unless the bound on sockets was reached.
DeadEntryHeals ==
    entry # 0 /\ sock[entry].state = "closed" =>
        timers # {} \/ Underway # {} \/ dialled = MaxSockets

\* Whoever drops a socket settles the calls that wait on it: a call that waits for
\* its answer is known to a socket that is open, and so to its timer.
NoCallForgotten ==
    \A c \in Calls : pc[c] = "asked" => \E i \in Sockets : c \in pending[i] /\ sock[i].state = "open"

-----------------------------------------------------------------------------
ConnectionConstants ==
    /\ MaxAttempts \in Nat /\ MaxSockets \in Nat
    /\ Connects \cap (Disconnects \cup Deletes \cup Calls) = {}
    /\ Calls \cap (Disconnects \cup Deletes) = {}

Rest ==
    /\ pc \in [Users \cup Calls -> {"absent", "idle", "calling", "connecting", "dropping", "waiting",
                                    "connected", "refused", "dropped", "asked", "done"}]
    /\ held \in [Users \cup Calls -> [status : {"inactive", "active", "error", "gone"},
                                      socket : 0 .. MaxSockets]]
    /\ raced \in BOOLEAN

\* Nothing is known of a socket that has not been dialled.
Fresh == /\ entry <= dialled
         /\ \A i \in Sockets : i > dialled => sock[i].state = "none" /\ pending[i] = {} /\ i \notin timers

\* In turn, one socket is on its way or open, and when it is open the map has it.
OneLives ==
    ~raced => \A i \in Underway \cup InState({"open"}) :
                 /\ \A j \in Underway \cup InState({"open"}) : i = j
                 /\ sock[i].state = "open" => entry = i

IInv == TypeOK /\ Rest /\ Fresh /\ OneLives /\ DeadEntryHeals /\ NoCallForgotten
=============================================================================
