------------------------------ MODULE McpTools ------------------------------
(***************************************************************************)
(* The tools of one MCP server: synchronised with what the server offers,  *)
(* switched on and off by users, limited by policies, and called by the    *)
(* model in a conversation.                                                *)
(*                                                                         *)
(* The table has no key on a tool's name, so an upsert inserts a new row   *)
(* each time; what it replaces goes when the synchronisation ends, and its *)
(* policies with it.  One that fails before that leaves both.  A policy is looked up when a tool is called, by the  *)
(* tool's name; the calls of the user are counted in the log, where a call *)
(* that succeeded leaves two rows.                                         *)
(***************************************************************************)
EXTENDS Integers, FiniteSets

CONSTANTS Names,     \* of tools
          Syncs,     \* synchronisations
          Toggles,   \* requests to switch a tool
          Calls,     \* tool calls of conversations
          Casts,     \* who takes part in a behaviour: sets of the above
          MaxCalls,  \* maxCallsPerMinute of the limit; a behaviour is one window
          MaxRows,   \* bound: rows ever inserted
          MaxPolicies \* bound: policies at one time

VARIABLES toolkit,   \* whether the server is an integration (composioToolkit)
          rows,      \* [id, name, on] of the registry
          last,      \* the id given last
          limits,    \* rows with a rate limit
          approvals, \* rows that require approval
          logged,    \* success rows of the call log
          pc,
          held,      \* what a synchronisation, switch or call holds
          choice,    \* history: what the user last chose of a tool
          raced,     \* history: a synchronisation overlapped another, or a switch
          halved,    \* history: one failed midway, and no whole one has ended since
          torn,      \* history: a user switched one of two rows of a tool
          crowded,   \* history: a call overlapped another, or a synchronisation
          made       \* history: calls of each tool that succeeded since it has a limit

vars == <<toolkit, rows, last, limits, approvals, logged, pc, held, choice, raced, halved, torn, crowded, made>>
midway == <<halved, torn>>
registry == <<toolkit, rows, last, limits, approvals>>

-----------------------------------------------------------------------------
Goto(p, label) == pc' = [pc EXCEPT ![p] = label]
Busy(set) == {p \in set : pc[p] \notin {"absent", "idle", "done"}}
Named(n) == {r \in rows : r.name = n}
Due(s) == CHOOSE n \in held[s].todo : TRUE
Ids == {r.id : r \in rows}

Overlap(p) ==
    LET syncs == Busy(Syncs) \ {p}   switches == Busy(Toggles) \ {p}   calls == {c \in Calls \ {p} : pc[c] \in {"checking", "running"}} IN
    /\ raced' = (raced \/ (p \notin Calls /\ syncs # {}) \/ (p \in Syncs /\ switches # {}))
    /\ crowded' = (crowded \/ (p \in Calls /\ (calls \cup syncs # {})) \/ (p \in Syncs /\ calls # {}))

-----------------------------------------------------------------------------
\* syncTools: what the server offers now, one tool after the other.
List(s) ==
    /\ pc[s] = "idle"
    /\ \E names \in SUBSET Names : held' = [held EXCEPT ![s] = [todo |-> names, on |-> TRUE, ids |-> {}]]
    /\ Overlap(s)
    /\ Goto(s, "syncing")
    /\ UNCHANGED <<registry, logged, choice, made, midway>>

\* Mutant: a tool is always new.
FindNone(s) ==
    /\ pc[s] = "syncing" /\ held[s].todo # {}
    /\ held' = [held EXCEPT ![s].on = ~toolkit]
    /\ Goto(s, "upserting")
    /\ UNCHANGED <<registry, logged, choice, raced, crowded, made, midway>>

\* saveComposioTools keeps the switch of a tool that exists, and switches a new one off;
\* syncTools leaves it to the column's default.
Find(s) ==
    /\ pc[s] = "syncing" /\ held[s].todo # {}
    /\ \/ toolkit /\ \E r \in Named(Due(s)) : held' = [held EXCEPT ![s].on = r.on]
       \/ (toolkit => Named(Due(s)) = {}) /\ held' = [held EXCEPT ![s].on = ~toolkit]
    /\ Goto(s, "upserting")
    /\ UNCHANGED <<registry, logged, choice, raced, crowded, made, midway>>

Upsert(s) ==
    LET n == Due(s) IN
    /\ pc[s] = "upserting" /\ last < MaxRows
    /\ rows' = rows \cup {[id |-> last + 1, name |-> n, on |-> held[s].on]}
    /\ choice' = IF Named(n) = {} THEN [choice EXCEPT ![n] = held[s].on] ELSE choice
    /\ last' = last + 1
    /\ held' = [held EXCEPT ![s].todo = @ \ {n}, ![s].ids = @ \cup {last + 1}]
    /\ Goto(s, "syncing")
    /\ UNCHANGED <<toolkit, limits, approvals, logged, raced, crowded, made, midway>>

\* Mutant: only what the server no longer offers is removed.
RemoveUnnamed(s) ==
    /\ pc[s] = "syncing" /\ held[s].todo = {}
    /\ rows' = {r \in rows : \E kept \in rows : kept.id \in held[s].ids /\ kept.name = r.name}
    /\ Goto(s, "done")
    /\ UNCHANGED <<toolkit, last, limits, approvals, logged, held, choice, raced, crowded, made, midway>>

\* What was not upserted goes, and its policies; saveComposioTools removes nothing when
\* it was given nothing.
Remove(s) ==
    /\ pc[s] = "syncing" /\ held[s].todo = {}
    /\ LET kept == IF toolkit /\ held[s].ids = {} THEN rows ELSE {r \in rows : r.id \in held[s].ids} IN
       /\ rows' = kept
       /\ limits' = limits \cap {r.id : r \in kept}
       /\ approvals' = approvals \cap {r.id : r \in kept}
       /\ halved' = (halved /\ toolkit /\ held[s].ids = {})
    /\ Goto(s, "done")
    /\ UNCHANGED <<toolkit, last, logged, held, choice, raced, crowded, made, torn>>

\* An error of the database, or of the server that is asked, ends a synchronisation where
\* it is: what it has written stays, beside what it was to replace.
SyncFails(s) ==
    /\ pc[s] \in {"syncing", "upserting"}
    /\ Goto(s, "done")
    /\ halved' = (halved \/ held[s].ids # {})
    /\ UNCHANGED <<registry, logged, held, choice, raced, torn, crowded, made>>

-----------------------------------------------------------------------------
\* toggleTool reads the row, and saves the opposite.
ReadTool(t) ==
    /\ pc[t] = "idle"
    /\ \E r \in rows : held' = [held EXCEPT ![t] = [todo |-> {r.name}, on |-> ~r.on, ids |-> {r.id}]]
    /\ Overlap(t)
    /\ Goto(t, "saving")
    /\ UNCHANGED <<registry, logged, choice, made, midway>>

SaveTool(t) ==
    /\ pc[t] = "saving"
    /\ rows' = {IF r.id \in held[t].ids THEN [r EXCEPT !.on = held[t].on] ELSE r : r \in rows}
    /\ choice' = [n \in Names |-> IF n \in held[t].todo THEN held[t].on ELSE choice[n]]
    /\ torn' = (torn \/ \E r \in rows : r.name \in held[t].todo /\ r.id \notin held[t].ids)
    /\ Goto(t, "done")
    /\ UNCHANGED <<toolkit, last, limits, approvals, logged, held, raced, crowded, made, halved>>

\* bulkToggleTools, in one update.
BulkToggle(t) ==
    /\ pc[t] = "idle"
    /\ \E on \in BOOLEAN : /\ rows' = {[r EXCEPT !.on = on] : r \in rows}
                           /\ choice' = [n \in Names |-> IF Named(n) # {} THEN on ELSE choice[n]]
    /\ torn' = FALSE
    /\ Overlap(t)
    /\ Goto(t, "done")
    /\ UNCHANGED <<toolkit, last, limits, approvals, logged, held, made, halved>>

MorePolicies == Cardinality(limits) + Cardinality(approvals) < MaxPolicies

\* createPolicy; the row may have gone, and then the foreign key refuses.
Limit(r) ==
    /\ MorePolicies /\ r.id \notin limits
    /\ limits' = limits \cup {r.id}
    /\ made' = [made EXCEPT ![r.name] = 0]
    /\ UNCHANGED <<toolkit, rows, last, approvals, logged, pc, held, choice, raced, crowded, midway>>

RequireApproval(r) ==
    /\ MorePolicies /\ r.id \notin approvals
    /\ approvals' = approvals \cup {r.id}
    /\ UNCHANGED <<toolkit, rows, last, limits, logged, pc, held, choice, raced, crowded, made, midway>>

\* deletePolicy.
LiftPolicies(r) ==
    /\ r.id \in limits \cup approvals
    /\ limits' = limits \ {r.id} /\ approvals' = approvals \ {r.id}
    /\ UNCHANGED <<toolkit, rows, last, logged, pc, held, choice, raced, crowded, made, midway>>

-----------------------------------------------------------------------------
\* execute: a tool of the session, which was given the tools that were switched on then.
Route(c, n) ==
    /\ pc[c] = "idle"
    /\ held' = [held EXCEPT ![c] = [todo |-> {n}, on |-> TRUE, ids |-> {}]]
    /\ Overlap(c)
    /\ Goto(c, "checking")
    /\ UNCHANGED <<registry, logged, choice, made, midway>>

\* Mutant: a limit is compared with what the tool did, not with the log, and late.
AdmitOneMore(c) ==
    /\ pc[c] = "checking"
    /\ \/ \E r \in rows : r.name \in held[c].todo /\ r.id \notin approvals
                          /\ (r.id \in limits => logged <= 2 * MaxCalls) /\ Goto(c, "running")
       \/ Goto(c, "done")
    /\ UNCHANGED <<registry, logged, held, choice, raced, crowded, made, midway>>

\* findByNameAndServer takes any row of the name; with none there is no policy, and
\* nobody looks for the policies of an integration's tools.
Validate(c) ==
    /\ pc[c] = "checking"
    /\ LET found == {r \in rows : r.name \in held[c].todo}
           Allowed(r) == r.id \notin approvals /\ (r.id \in limits => logged < MaxCalls)
       IN \/ (toolkit \/ found = {} \/ \E r \in found : Allowed(r)) /\ Goto(c, "running")
          \/ ~toolkit /\ (\E r \in found : ~Allowed(r)) /\ Goto(c, "done")
    /\ UNCHANGED <<registry, logged, held, choice, raced, crowded, made, midway>>

\* callTool and the row of executeTool, or the action of an integration, which has no
\* row of its own.
Run(c) ==
    /\ pc[c] = "running"
    /\ \E ok \in BOOLEAN :
          /\ logged' = IF ok /\ ~toolkit THEN logged + 1 ELSE logged
          /\ made' = [n \in Names |-> IF ok /\ n \in held[c].todo THEN made[n] + 1 ELSE made[n]]
          /\ held' = [held EXCEPT ![c].on = ok]
    /\ Goto(c, "logging")
    /\ UNCHANGED <<registry, choice, raced, crowded, midway>>

\* logToolCall, which nobody waits for: executeTool hides a failure, so the gateway
\* writes success; an integration's failure is thrown, and written as an error.
Audit(c) ==
    /\ pc[c] = "logging"
    /\ logged' = IF toolkit /\ ~held[c].on THEN logged ELSE logged + 1
    /\ Goto(c, "done")
    /\ UNCHANGED <<registry, held, choice, raced, crowded, made, midway>>

-----------------------------------------------------------------------------
Init ==
    /\ toolkit \in BOOLEAN
    /\ rows = {[id |-> 1, name |-> n, on |-> TRUE] : n \in {CHOOSE x \in Names : TRUE}}
    /\ last = 1
    /\ limits = {} /\ approvals = {} /\ logged = 0
    /\ \E cast \in Casts : pc = [p \in Syncs \cup Toggles \cup Calls |->
                                   IF p \in cast THEN "idle" ELSE "absent"]
    /\ held = [p \in Syncs \cup Toggles \cup Calls |-> [todo |-> {}, on |-> TRUE, ids |-> {}]]
    /\ choice = [n \in Names |-> TRUE]
    /\ raced = FALSE /\ halved = FALSE /\ torn = FALSE /\ crowded = FALSE
    /\ made = [n \in Names |-> 0]

Next ==
    \/ \E s \in Syncs : List(s) \/ Find(s) \/ Upsert(s) \/ Remove(s) \/ SyncFails(s)
    \/ \E t \in Toggles : ReadTool(t) \/ SaveTool(t) \/ BulkToggle(t)
    \/ \E r \in rows : Limit(r) \/ RequireApproval(r) \/ LiftPolicies(r)
    \/ \E c \in Calls : (\E n \in Names : Route(c, n)) \/ Validate(c) \/ Run(c) \/ Audit(c)

Spec == Init /\ [][Next]_vars

-----------------------------------------------------------------------------
TypeOK ==
    /\ rows \subseteq [id : 1 .. MaxRows, name : Names, on : BOOLEAN]
    /\ limits \cup approvals \subseteq Ids
    /\ logged \in 0 .. 2 * Cardinality(Calls)
    /\ choice \in [Names -> BOOLEAN]

\* Synchronisations leave one row of each tool, though every one of them inserts all of
\* its tools again, and whatever failed before: the next one that is whole mends it.  Those
\* of an MCP server do so even when they overlap.
OneRowPerTool ==
    (toolkit => ~raced) /\ ~halved /\ Busy(Syncs) = {} => \A n \in Names : Cardinality(Named(n)) <= 1

\* A tool that a user has switched stays switched through the synchronisations that
\* follow, for the integrations that promise it, whole or failed; unless one of two rows
\* was switched that a failure had left.
SwitchKept ==
    toolkit /\ ~raced /\ ~torn /\ Busy(Syncs \cup Toggles) = {} => \A r \in rows : r.on = choice[r.name]

\* As long as a tool of an MCP server has its limit, and calls come one after the other,
\* no more of them succeed in the window than the limit allows.  Between a failure and the
\* next whole synchronisation a call may find the row that has no limit.
LimitHolds ==
    ~toolkit /\ ~crowded /\ ~halved => \A r \in rows : r.id \in limits => made[r.name] <= MaxCalls

-----------------------------------------------------------------------------
ToolConstants ==
    /\ Names # {} /\ IsFiniteSet(Calls)
    /\ Syncs \cap (Toggles \cup Calls) = {} /\ Toggles \cap Calls = {}
    /\ MaxCalls \in Nat \ {0} /\ MaxRows \in Nat \ {0} /\ MaxPolicies \in Nat

Places ==
    /\ pc \in [Syncs \cup Toggles \cup Calls -> {"absent", "idle", "syncing", "upserting", "saving",
                                                 "checking", "running", "logging", "done"}]
    /\ \A p \in Syncs : pc[p] \in {"absent", "idle", "syncing", "upserting", "done"}
    /\ \A p \in Toggles : pc[p] \in {"absent", "idle", "saving", "done"}
    /\ \A p \in Calls : pc[p] \in {"absent", "idle", "checking", "running", "logging", "done"}
    /\ \A p \in Syncs : pc[p] = "upserting" => held[p].todo # {}
    /\ \A p \in Calls : \A n, m \in held[p].todo : n = m

Kinds ==
    /\ last \in 1 .. MaxRows /\ \A r \in rows : r.id <= last
    /\ \A r, q \in rows : r.id = q.id => r = q
    /\ held \in [Syncs \cup Toggles \cup Calls -> [todo : SUBSET Names, on : BOOLEAN, ids : SUBSET (1 .. last)]]
    /\ made \in [Names -> Nat]
    /\ {toolkit, raced, halved, torn, crowded} \subseteq BOOLEAN

\* Each call that was run has at most its two rows in the log.
At(places) == {c \in Calls : pc[c] \in places}
Logged == logged <= Cardinality(At({"logging", "done"})) + Cardinality(At({"done"}))

Single(set) == \A r, q \in set : r.name = q.name => r = q
Mine(s) == {r \in rows : r.id \in held[s].ids}

\* A synchronisation has made one row of each tool that is not still to do.
MadeOnce == \A s \in Busy(Syncs) : Single(Mine(s)) /\ \A r \in Mine(s) : r.name \notin held[s].todo

\* In turn, no other synchronisation and no switch is at work.
Alone == ~raced => \A s \in Busy(Syncs) : Busy(Syncs) = {s} /\ Busy(Toggles) = {}

\* Between failures, what no synchronisation in hand has made is one row of each tool.
Settled == {r \in rows : \A s \in Busy(Syncs) : r.id \notin held[s].ids}
OldOnce == ~halved /\ (toolkit => ~raced) => Single(Settled)

\* What a synchronisation or a switch writes is what the user chose.
Chosen ==
    toolkit /\ ~raced =>
        /\ ~torn =>
              /\ \A r \in rows : r.on = choice[r.name]
              /\ \A s \in Syncs : pc[s] = "upserting" /\ Named(Due(s)) # {} => held[s].on = choice[Due(s)]
        /\ \A t \in Busy(Toggles), r \in rows : r.id \in held[t].ids => r.name \in held[t].todo

\* The log has every call of a tool, and the one that is let through has room; nobody calls
\* while a synchronisation is at work.
Room ==
    ~toolkit =>
        /\ \A n \in Names : made[n] <= logged
        /\ ~crowded =>
              /\ \A s \in Busy(Syncs) : \A r \in Mine(s) : r.id \in limits => made[r.name] <= MaxCalls
              /\ \A c \in Calls : pc[c] \in {"checking", "running"} =>
                    /\ Busy(Syncs) = {} /\ \A d \in Calls : pc[d] \in {"checking", "running"} => c = d
                    /\ pc[c] = "running" /\ ~halved => \A r \in rows :
                          r.name \in held[c].todo /\ r.id \in limits => made[r.name] < MaxCalls

IInv == TypeOK /\ Places /\ Kinds /\ Logged /\ MadeOnce /\ Alone /\ OldOnce /\ Chosen /\ Room /\ LimitHolds
=============================================================================
