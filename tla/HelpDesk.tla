-------------------------------- MODULE HelpDesk --------------------------------
(***************************************************************************)
(* Tickets of the help desk: made by an operator or by the voice agent,    *)
(* edited, taken from the pool, answered; the history of their status, the *)
(* notice of a ticket nobody owns, and the summary of a client's tickets   *)
(* that is kept for the model.                                             *)
(*                                                                         *)
(* A request awaits the database between two steps.  It answers without    *)
(* waiting for the event that rebuilds the client's summary, which is a    *)
(* process of its own.  The description an operator opens a ticket with is *)
(* a message like another.                                                 *)
(***************************************************************************)
EXTENDS Integers, Sequences, SequencesExt, FiniteSets

CONSTANTS Tickets, Keys, Agents, NoAgent,
          Key,          \* [Tickets -> Keys]: resolveClientKeyFromTicket
          Updates, Claims, Messages, Overrides,   \* requests
          About,        \* [requests -> Tickets]
          Casts,        \* bound: sets of tickets made and requests that occur together
          MaxFaults     \* bound: statements that fail

VARIABLES tickets, history,
          contexts,     \* helpdesk_client_context: the statuses told of by key
          override,     \* contextMarkdownOverride by key
          notices,      \* notices of a new ticket sent
          pc, held,
          events,       \* [processes -> state of its event]
          taken,        \* history: claims of a ticket since its owner was last edited
          crossed, tangled,   \* history: tickets with overlapping requests, keys
                              \* with overlapping events
          faults

vars == <<tickets, history, contexts, override, notices, pc, held, events, taken,
          crossed, tangled, faults>>

-----------------------------------------------------------------------------
Statuses == {"new", "in_progress", "closed"}
Absent   == [status |-> "absent", owner |-> NoAgent]
Copy(t)  == [status |-> t.status, owner |-> t.owner, to |-> "none"]
NoEvent  == [at |-> "none", seen |-> <<>>, row |-> FALSE]
NoContext == [t \in Tickets |-> "absent"]

Requests  == Updates \cup Claims \cup Messages
Processes == Tickets \cup Requests \cup Overrides      \* a creation is named after its ticket
Of(q) == IF q \in Tickets THEN q ELSE About[q]
Busy(q) == pc[q] \notin {"idle", "done"}

Goto(q, label) == pc' = [pc EXCEPT ![q] = label]
Begins(q) == crossed' = IF \E p \in Processes \ {q} : Busy(p) /\ Of(p) = Of(q)
                        THEN crossed \cup {Of(q)} ELSE crossed
Stored(k) == \E t \in Tickets : contexts[k][t] # "absent"

\* void afterTicketEvent(...)
Raise(q) == events' = [events EXCEPT ![q] = [NoEvent EXCEPT !.at = "read"]]

\* recordStatusChange
Record(t, from, to) == history' = [history EXCEPT ![t] = Append(@, <<from, to>>)]

Init == /\ tickets = [t \in Tickets |-> Absent]
        /\ history = [t \in Tickets |-> <<>>]
        /\ contexts = [k \in Keys |-> NoContext]
        /\ override = [k \in Keys |-> "none"]
        /\ notices = [t \in Tickets |-> 0]
        /\ \E cast \in Casts : pc = [q \in Processes |-> IF q \in cast THEN "idle" ELSE "done"]
        /\ held = [q \in Processes |-> Copy(Absent)]
        /\ events = [q \in Processes |-> NoEvent]
        /\ taken = [t \in Tickets |-> 0]
        /\ crossed = {} /\ tangled = {} /\ faults = 0

-----------------------------------------------------------------------------
\* create: the operator's own tickets are taken at once, the voice agent's are not.
Create(t) ==
  /\ t \in Tickets /\ pc[t] = "idle"
  /\ \E a \in Agents \cup {NoAgent} :
       tickets' = [tickets EXCEPT ![t] =
                     [status |-> IF a = NoAgent THEN "new" ELSE "in_progress", owner |-> a]]
  /\ held' = [held EXCEPT ![t] = Copy(tickets'[t])]
  /\ Goto(t, "first")
  /\ UNCHANGED <<history, contexts, override, notices, events, taken, crossed, tangled, faults>>

First(t) ==
  /\ t \in Tickets /\ pc[t] = "first"
  /\ Record(t, "absent", held[t].status)
  /\ Goto(t, "reload")
  /\ UNCHANGED <<tickets, contexts, override, notices, held, events, taken, crossed, tangled, faults>>

\* The ticket is read again for the answer, and the event starts from that.
Reload(q) ==
  /\ pc[q] = "reload"
  /\ held' = [held EXCEPT ![q] = Copy(tickets[Of(q)])]
  /\ Raise(q)
  /\ Goto(q, "done")
  /\ UNCHANGED <<tickets, history, contexts, override, notices, taken, crossed, tangled, faults>>

\* findById; a ticket that is not there is an error, and so is a claim of one that
\* has an owner.
\* Mutant: a claim does not look at the owner.
LoadAny(q) ==
  /\ q \in Requests /\ pc[q] = "idle" /\ tickets[Of(q)] # Absent
  /\ held' = [held EXCEPT ![q] = Copy(tickets[Of(q)])]
  /\ Begins(q) /\ Goto(q, "save")
  /\ UNCHANGED <<tickets, history, contexts, override, notices, events, taken, tangled, faults>>

Load(q) ==
  /\ q \in Requests /\ pc[q] = "idle" /\ tickets[Of(q)] # Absent
  /\ held' = [held EXCEPT ![q] = Copy(tickets[Of(q)])]
  /\ Begins(q)
  /\ Goto(q, IF q \in Claims /\ tickets[Of(q)].owner # NoAgent THEN "done" ELSE "save")
  /\ UNCHANGED <<tickets, history, contexts, override, notices, events, taken, tangled, faults>>

\* update: the fields that differ from what was read are written.
Update(u) ==
  /\ u \in Updates /\ pc[u] = "save"
  /\ \E s \in Statuses, a \in Agents \cup {NoAgent} :
       LET old == held[u] IN
       /\ tickets' = [tickets EXCEPT ![Of(u)] =
                        [status |-> IF s # old.status THEN s ELSE @.status,
                         owner  |-> IF a # old.owner THEN a ELSE @.owner]]
       /\ held' = [held EXCEPT ![u].to = s]
       /\ taken' = IF a # old.owner THEN [taken EXCEPT ![Of(u)] = 0] ELSE taken
       /\ Goto(u, IF s # old.status THEN "record" ELSE "reload")
  /\ UNCHANGED <<history, contexts, override, notices, events, crossed, tangled, faults>>

\* The history tells of the status that was asked for.
RecordUpdate(u) ==
  /\ u \in Updates /\ pc[u] = "record"
  /\ Record(Of(u), held[u].status, held[u].to)
  /\ Goto(u, "reload")
  /\ UNCHANGED <<tickets, contexts, override, notices, held, events, taken, crossed, tangled, faults>>

\* claim: the owner, then the history, then the status of a new ticket.
Take(c) ==
  /\ c \in Claims /\ pc[c] = "save"
  /\ \E a \in Agents :
       /\ tickets' = [tickets EXCEPT ![Of(c)].owner = a]
       /\ taken' = [taken EXCEPT ![Of(c)] = @ + 1]
  /\ Goto(c, "record")
  /\ UNCHANGED <<history, contexts, override, notices, held, events, crossed, tangled, faults>>

RecordClaim(c) ==
  /\ c \in Claims /\ pc[c] = "record"
  /\ Record(Of(c), held[c].status,
            IF held[c].status = "new" THEN "in_progress" ELSE held[c].status)
  /\ Goto(c, IF held[c].status = "new" THEN "start" ELSE "reload")
  /\ UNCHANGED <<tickets, contexts, override, notices, held, events, taken, crossed, tangled, faults>>

Start(c) ==
  /\ c \in Claims /\ pc[c] = "start"
  /\ tickets' = [tickets EXCEPT ![Of(c)].status = "in_progress"]
  /\ Goto(c, "reload")
  /\ UNCHANGED <<history, contexts, override, notices, held, events, taken, crossed, tangled, faults>>

\* addMessage: the message of an operator raises an event, that of a user does not.
Say(m) ==
  /\ m \in Messages /\ pc[m] = "save"
  /\ \/ Raise(m)
     \/ UNCHANGED events
  /\ Goto(m, "done")
  /\ UNCHANGED <<tickets, history, contexts, override, notices, held, taken, crossed, tangled, faults>>

\* A statement fails: the request ends where it is.
Break(q) ==
  /\ Busy(q) /\ faults < MaxFaults
  /\ faults' = faults + 1
  /\ crossed' = crossed \cup {Of(q)} /\ tangled' = tangled \cup {Key[Of(q)]}
  /\ Goto(q, "done")
  /\ UNCHANGED <<tickets, history, contexts, override, notices, held, events, taken>>

-----------------------------------------------------------------------------
(* afterTicketEvent: the summary, then the notice.                         *)

\* upsertFromTicketEvent: the tickets of the client, the row of the key, the write.
Read(q) ==
  /\ events[q].at = "read"
  /\ events' = [events EXCEPT ![q] =
       [@ EXCEPT !.at = "find",
                 !.seen = [t \in Tickets |-> IF Key[t] = Key[Of(q)] THEN tickets[t].status
                                             ELSE "absent"]]]
  /\ tangled' = IF \E p \in Processes \ {q} : /\ Key[Of(p)] = Key[Of(q)]
                                              /\ events[p].at \in {"find", "store"}
                THEN tangled \cup {Key[Of(q)]} ELSE tangled
  /\ UNCHANGED <<tickets, history, contexts, override, notices, pc, held, taken, crossed, faults>>

Find(q) ==
  /\ events[q].at = "find"
  /\ events' = [events EXCEPT ![q].at = "store",
                              ![q].row = Stored(Key[Of(q)]) \/ override[Key[Of(q)]] # "none"]
  /\ UNCHANGED <<tickets, history, contexts, override, notices, pc, held, taken, crossed,
                 tangled, faults>>

\* Two rows of one key cannot be inserted: the second event is logged and gone.
Store(q) ==
  LET k == Key[Of(q)]
      clash == ~events[q].row /\ (Stored(k) \/ override[k] # "none")
  IN  /\ events[q].at = "store"
      /\ contexts' = IF clash THEN contexts ELSE [contexts EXCEPT ![k] = events[q].seen]
      /\ tangled' = IF clash THEN tangled \cup {k} ELSE tangled
      /\ events' = [events EXCEPT ![q] =
           [NoEvent EXCEPT !.at = IF q \in Tickets /\ held[q].owner = NoAgent THEN "notice" ELSE "none"]]
      /\ UNCHANGED <<tickets, history, override, notices, pc, held, taken, crossed, faults>>

\* notifyNewUnassignedTicket: the addresses of the settings are told, one failure
\* does not stop the others.
Notice(t) ==
  /\ t \in Tickets /\ events[t].at = "notice"
  /\ notices' = [notices EXCEPT ![t] = @ + 1]
  /\ events' = [events EXCEPT ![t] = NoEvent]
  /\ UNCHANGED <<tickets, history, contexts, override, pc, held, taken, crossed, tangled, faults>>

\* updateOperatorOverride; the row is made when there is none.
Override(o) ==
  /\ o \in Overrides /\ pc[o] = "idle"
  /\ override' = [override EXCEPT ![Key[Of(o)]] = "set"]
  /\ Goto(o, "done")
  /\ UNCHANGED <<tickets, history, contexts, notices, held, events, taken, crossed, tangled, faults>>

Next == \E q \in Processes :
          \/ Create(q) \/ First(q) \/ Reload(q) \/ Load(q) \/ Update(q) \/ RecordUpdate(q)
          \/ Take(q) \/ RecordClaim(q) \/ Start(q) \/ Say(q) \/ Break(q)
          \/ Read(q) \/ Find(q) \/ Store(q) \/ Notice(q) \/ Override(q)

Spec == Init /\ [][Next]_vars

-----------------------------------------------------------------------------
TypeOK == /\ \A t \in Tickets : tickets[t].status \in Statuses \cup {"absent"}
          /\ \A t \in Tickets : notices[t] \in 0..1
          /\ \A q \in Processes : events[q].at \in {"none", "read", "find", "store", "notice"}
          /\ faults \in 0..MaxFaults

Quiet(t) == \A q \in Processes : Of(q) = t => ~Busy(q)
Settled(k) == \A q \in Processes : Key[Of(q)] = k => ~Busy(q) /\ events[q].at = "none"

\* When no two requests overlapped on a ticket and none failed, the history is an
\* unbroken chain that ends at the ticket's status, and no claim took the ticket
\* from another agent's.  When no two events of a client overlapped, the summary
\* tells the status of every ticket of that key, whichever request was last.
TicketsTold ==
  /\ \A t \in Tickets \ crossed : Quiet(t) /\ tickets[t] # Absent =>
       /\ history[t] # <<>> /\ Last(history[t])[2] = tickets[t].status
       /\ \A n \in 2..Len(history[t]) : history[t][n][1] = history[t][n - 1][2]
       /\ taken[t] <= 1
  /\ \A t \in Tickets : Settled(Key[t]) /\ Key[t] \notin tangled /\ tickets[t] # Absent =>
       contexts[Key[t]][t] = tickets[t].status
================================================================================
