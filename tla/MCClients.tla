----------------------------- MODULE MCClients ------------------------------
(***************************************************************************)
(* What clients do beside their calls, one component at a time: they pay,  *)
(* connect tools and use them, and talk from a browser.  `which` says      *)
(* which is at work, and the variables of the others do not move.          *)
(***************************************************************************)
EXTENDS Integers, Sequences, FiniteSets, SequenceTheorems, FiniteSetTheorems, TLAPS, TLC

CONSTANTS ViaStripe, ViaRobokassa, ViaAlfa, Handlers,
          MaxFaults, AbortsOnError,                 \* of Payments
          Connects, Disconnects, Deletes,
          SocketCasts, MaxAttempts, MaxSockets,     \* of McpConnections
          Names, Syncs, Toggles, ToolCasts,
          MaxCalls, MaxRows, MaxPolicies,           \* of McpTools
          ToolCalls,                                \* of both
          Consents, Keyed, Direct, Removals, Uses,
          UseCasts, MaxServers, MaxEdits,           \* of Integrations
          Offers, Hangups, KeyLimit, MaxCrashes,    \* of WidgetSessions
          Visits, Leaves,                           \* of WidgetClient
          Inits, Stops,                             \* of PlaygroundSessions
          Unset                                     \* no integration, no start

VARIABLES which,   \* the component at work
          status, gateway, declined, answered, ledger, pc, job, faulty, sock, entry,
          dialled, timers, pending, held, raced, toolkit, rows, last, limits,
          approvals, logged, choice, crowded, made, account, edits, stray, twice,
          acted, offer, hangup, peers, channel, conns, wired, crashes, early, stuck,
          lost, starting, stopping, mic, agent, call, ending, localStream, session,
          userAgent, isSessionActive, shown, overlapped, runs, obj, initing,
          realtime, conn, gone, crossed, halved, torn, waiting, unheard

vars == <<which, status, gateway, declined, answered, ledger, pc, job, faulty, sock, entry,
          dialled, timers, pending, held, raced, toolkit, rows, last, limits,
          approvals, logged, choice, crowded, made, account, edits, stray,
          twice, acted, offer, hangup, peers, channel, conns, wired, crashes,
          early, stuck, lost, starting, stopping, mic, agent, call, ending,
          localStream, session, userAgent, isSessionActive, shown, overlapped,
          runs, obj, initing, realtime, conn, gone, crossed, halved, torn,
          waiting, unheard>>

------------------------

\* Who takes part in a behaviour.
SomeSockets == {{"k1", "k2", "c1"}, {"k1", "d1", "c1"}, {"k1", "x1", "c1", "c2"}}
SomeTools == {{"s1", "s2", "t1"}, {"s1", "c1", "c2"}}
SomeUses == {{"g1", "g2", "e1"}, {"g1", "e1", "e2", "u1"}, {"b1", "w1", "e1", "u1"}}

\* A payment at each gateway, one of which fails; two requests in hand.
Cash == INSTANCE Payments

\* An MCP server connected twice, disconnected or deleted, while a tool is called.
Mcp == INSTANCE McpConnections WITH
  Calls <- ToolCalls, Casts <- SocketCasts

\* Two synchronisations of two tools, one that is switched, one call a minute.
Tool == INSTANCE McpTools WITH
  Calls <- ToolCalls, Casts <- ToolCasts

\* Integrations connected, removed and called, one of them in two ways.
App == INSTANCE Integrations WITH
  Calls <- Uses, Casts <- UseCasts, MaxRows <- MaxServers, None <- Unset

\* Two visitors of a key for one, and a restart.
Web == INSTANCE WidgetSessions WITH
  Limit <- KeyLimit

\* A visitor who starts twice and stops twice.
Page == INSTANCE WidgetClient WITH
  Starts <- Visits, Stops <- Leaves, None <- Unset

\* Two sessions of a socket, stopped and started over.
Play == INSTANCE PlaygroundSessions WITH
  at <- runs

\* What the components ask of their constants.
ASSUME ComponentConstants ==
  /\ Cash!PaymentsConstants
  /\ Mcp!ConnectionConstants
  /\ Tool!ToolConstants
  /\ App!IntegrationConstants
  /\ Web!WidgetConstants
  /\ Page!ClientConstants
  /\ Play!PlaygroundConstants

------------------------
Init ==
  \/ which = "Cash" /\ Cash!Init
       /\ sock = 0 /\ entry = 0 /\ dialled = 0 /\ timers = 0 /\ pending = 0
       /\ held = 0 /\ raced = 0 /\ toolkit = 0 /\ rows = 0 /\ last = 0 /\ limits = 0
       /\ approvals = 0 /\ logged = 0 /\ choice = 0 /\ crowded = 0 /\ made = 0
       /\ account = 0 /\ edits = 0 /\ stray = 0 /\ twice = 0 /\ acted = 0 /\ offer = 0
       /\ hangup = 0 /\ peers = 0 /\ channel = 0 /\ conns = 0 /\ wired = 0
       /\ crashes = 0 /\ early = 0 /\ stuck = 0 /\ lost = 0 /\ starting = 0
       /\ stopping = 0 /\ mic = 0 /\ agent = 0 /\ call = 0 /\ ending = 0
       /\ localStream = 0 /\ session = 0 /\ userAgent = 0 /\ isSessionActive = 0
       /\ shown = 0 /\ overlapped = 0 /\ runs = 0 /\ obj = 0 /\ initing = 0
       /\ realtime = 0 /\ conn = 0 /\ gone = 0 /\ crossed = 0 /\ halved = 0
       /\ torn = 0 /\ waiting = 0 /\ unheard = 0
  \/ which = "Mcp" /\ Mcp!Init
       /\ gateway = 0 /\ declined = 0 /\ answered = 0 /\ ledger = 0 /\ job = 0
       /\ faulty = 0 /\ toolkit = 0 /\ rows = 0 /\ last = 0 /\ limits = 0
       /\ approvals = 0 /\ logged = 0 /\ choice = 0 /\ crowded = 0 /\ made = 0
       /\ account = 0 /\ edits = 0 /\ stray = 0 /\ twice = 0 /\ acted = 0 /\ offer = 0
       /\ hangup = 0 /\ peers = 0 /\ channel = 0 /\ conns = 0 /\ wired = 0
       /\ crashes = 0 /\ early = 0 /\ stuck = 0 /\ lost = 0 /\ starting = 0
       /\ stopping = 0 /\ mic = 0 /\ agent = 0 /\ call = 0 /\ ending = 0
       /\ localStream = 0 /\ session = 0 /\ userAgent = 0 /\ isSessionActive = 0
       /\ shown = 0 /\ overlapped = 0 /\ runs = 0 /\ obj = 0 /\ initing = 0
       /\ realtime = 0 /\ conn = 0 /\ gone = 0 /\ crossed = 0 /\ halved = 0
       /\ torn = 0 /\ waiting = 0 /\ unheard = 0
  \/ which = "Tool" /\ Tool!Init
       /\ status = 0 /\ gateway = 0 /\ declined = 0 /\ answered = 0 /\ ledger = 0
       /\ job = 0 /\ faulty = 0 /\ sock = 0 /\ entry = 0 /\ dialled = 0 /\ timers = 0
       /\ pending = 0 /\ account = 0 /\ edits = 0 /\ stray = 0 /\ twice = 0
       /\ acted = 0 /\ offer = 0 /\ hangup = 0 /\ peers = 0 /\ channel = 0
       /\ conns = 0 /\ wired = 0 /\ crashes = 0 /\ early = 0 /\ stuck = 0 /\ lost = 0
       /\ starting = 0 /\ stopping = 0 /\ mic = 0 /\ agent = 0 /\ call = 0
       /\ ending = 0 /\ localStream = 0 /\ session = 0 /\ userAgent = 0
       /\ isSessionActive = 0 /\ shown = 0 /\ overlapped = 0 /\ runs = 0 /\ obj = 0
       /\ initing = 0 /\ realtime = 0 /\ conn = 0 /\ gone = 0 /\ crossed = 0
       /\ waiting = 0 /\ unheard = 0
  \/ which = "App" /\ App!Init
       /\ status = 0 /\ gateway = 0 /\ declined = 0 /\ answered = 0 /\ ledger = 0
       /\ job = 0 /\ faulty = 0 /\ sock = 0 /\ entry = 0 /\ dialled = 0 /\ timers = 0
       /\ pending = 0 /\ raced = 0 /\ toolkit = 0 /\ limits = 0 /\ approvals = 0
       /\ logged = 0 /\ choice = 0 /\ crowded = 0 /\ made = 0 /\ offer = 0
       /\ hangup = 0 /\ peers = 0 /\ channel = 0 /\ conns = 0 /\ wired = 0
       /\ crashes = 0 /\ early = 0 /\ stuck = 0 /\ lost = 0 /\ starting = 0
       /\ stopping = 0 /\ mic = 0 /\ agent = 0 /\ call = 0 /\ ending = 0
       /\ localStream = 0 /\ session = 0 /\ userAgent = 0 /\ isSessionActive = 0
       /\ shown = 0 /\ overlapped = 0 /\ runs = 0 /\ obj = 0 /\ initing = 0
       /\ realtime = 0 /\ conn = 0 /\ gone = 0 /\ crossed = 0 /\ halved = 0
       /\ torn = 0 /\ waiting = 0 /\ unheard = 0
  \/ which = "Web" /\ Web!Init
       /\ status = 0 /\ gateway = 0 /\ declined = 0 /\ answered = 0 /\ ledger = 0
       /\ pc = 0 /\ job = 0 /\ faulty = 0 /\ sock = 0 /\ entry = 0 /\ dialled = 0
       /\ timers = 0 /\ pending = 0 /\ held = 0 /\ toolkit = 0 /\ last = 0
       /\ limits = 0 /\ approvals = 0 /\ logged = 0 /\ choice = 0 /\ crowded = 0
       /\ made = 0 /\ account = 0 /\ edits = 0 /\ stray = 0 /\ twice = 0 /\ acted = 0
       /\ starting = 0 /\ stopping = 0 /\ mic = 0 /\ agent = 0 /\ call = 0
       /\ ending = 0 /\ localStream = 0 /\ session = 0 /\ userAgent = 0
       /\ isSessionActive = 0 /\ shown = 0 /\ overlapped = 0 /\ runs = 0 /\ obj = 0
       /\ initing = 0 /\ realtime = 0 /\ conn = 0 /\ gone = 0 /\ crossed = 0
       /\ halved = 0 /\ torn = 0
  \/ which = "Page" /\ Page!Init
       /\ gateway = 0 /\ declined = 0 /\ answered = 0 /\ ledger = 0 /\ pc = 0
       /\ job = 0 /\ faulty = 0 /\ sock = 0 /\ entry = 0 /\ dialled = 0 /\ timers = 0
       /\ pending = 0 /\ held = 0 /\ raced = 0 /\ toolkit = 0 /\ rows = 0 /\ last = 0
       /\ limits = 0 /\ approvals = 0 /\ logged = 0 /\ choice = 0 /\ crowded = 0
       /\ made = 0 /\ account = 0 /\ edits = 0 /\ stray = 0 /\ twice = 0 /\ acted = 0
       /\ offer = 0 /\ hangup = 0 /\ peers = 0 /\ channel = 0 /\ conns = 0
       /\ wired = 0 /\ crashes = 0 /\ early = 0 /\ stuck = 0 /\ lost = 0 /\ runs = 0
       /\ obj = 0 /\ initing = 0 /\ realtime = 0 /\ conn = 0 /\ gone = 0
       /\ crossed = 0 /\ halved = 0 /\ torn = 0 /\ waiting = 0 /\ unheard = 0
  \/ which = "Play" /\ Play!Init
       /\ status = 0 /\ gateway = 0 /\ declined = 0 /\ answered = 0 /\ ledger = 0
       /\ pc = 0 /\ job = 0 /\ faulty = 0 /\ sock = 0 /\ dialled = 0 /\ timers = 0
       /\ pending = 0 /\ held = 0 /\ raced = 0 /\ toolkit = 0 /\ rows = 0 /\ last = 0
       /\ limits = 0 /\ approvals = 0 /\ logged = 0 /\ choice = 0 /\ crowded = 0
       /\ made = 0 /\ account = 0 /\ edits = 0 /\ stray = 0 /\ twice = 0 /\ acted = 0
       /\ offer = 0 /\ hangup = 0 /\ peers = 0 /\ channel = 0 /\ conns = 0
       /\ crashes = 0 /\ stuck = 0 /\ lost = 0 /\ starting = 0 /\ stopping = 0
       /\ mic = 0 /\ agent = 0 /\ call = 0 /\ ending = 0 /\ localStream = 0
       /\ session = 0 /\ userAgent = 0 /\ isSessionActive = 0 /\ shown = 0
       /\ overlapped = 0 /\ halved = 0 /\ torn = 0 /\ waiting = 0 /\ unheard = 0

Next ==
  \/ which = "Cash" /\ Cash!Next
       /\ UNCHANGED <<which, sock, entry, dialled, timers, pending, held, raced,
                      toolkit, rows, last, limits, approvals, logged, choice, crowded,
                      made, account, edits, stray, twice, acted, offer, hangup, peers,
                      channel, conns, wired, crashes, early, stuck, lost, starting,
                      stopping, mic, agent, call, ending, localStream, session,
                      userAgent, isSessionActive, shown, overlapped, runs, obj,
                      initing, realtime, conn, gone, crossed, halved, torn, waiting,
                      unheard>>
  \/ which = "Mcp" /\ Mcp!Next
       /\ UNCHANGED <<which, gateway, declined, answered, ledger, job, faulty,
                      toolkit, rows, last, limits, approvals, logged, choice, crowded,
                      made, account, edits, stray, twice, acted, offer, hangup, peers,
                      channel, conns, wired, crashes, early, stuck, lost, starting,
                      stopping, mic, agent, call, ending, localStream, session,
                      userAgent, isSessionActive, shown, overlapped, runs, obj,
                      initing, realtime, conn, gone, crossed, halved, torn, waiting,
                      unheard>>
  \/ which = "Tool" /\ Tool!Next
       /\ UNCHANGED <<which, status, gateway, declined, answered, ledger, job, faulty,
                      sock, entry, dialled, timers, pending, account, edits, stray,
                      twice, acted, offer, hangup, peers, channel, conns, wired,
                      crashes, early, stuck, lost, starting, stopping, mic, agent,
                      call, ending, localStream, session, userAgent, isSessionActive,
                      shown, overlapped, runs, obj, initing, realtime, conn, gone,
                      crossed, waiting, unheard>>
  \/ which = "App" /\ App!Next
       /\ UNCHANGED <<which, status, gateway, declined, answered, ledger, job, faulty,
                      sock, entry, dialled, timers, pending, raced, toolkit, limits,
                      approvals, logged, choice, crowded, made, offer, hangup, peers,
                      channel, conns, wired, crashes, early, stuck, lost, starting,
                      stopping, mic, agent, call, ending, localStream, session,
                      userAgent, isSessionActive, shown, overlapped, runs, obj,
                      initing, realtime, conn, gone, crossed, halved, torn, waiting,
                      unheard>>
  \/ which = "Web" /\ Web!Next
       /\ UNCHANGED <<which, status, gateway, declined, answered, ledger, pc, job,
                      faulty, sock, entry, dialled, timers, pending, held, toolkit,
                      last, limits, approvals, logged, choice, crowded, made, account,
                      edits, stray, twice, acted, starting, stopping, mic, agent,
                      call, ending, localStream, session, userAgent, isSessionActive,
                      shown, overlapped, runs, obj, initing, realtime, conn, gone,
                      crossed, halved, torn>>
  \/ which = "Page" /\ Page!Next
       /\ UNCHANGED <<which, gateway, declined, answered, ledger, pc, job, faulty,
                      sock, entry, dialled, timers, pending, held, raced, toolkit,
                      rows, last, limits, approvals, logged, choice, crowded, made,
                      account, edits, stray, twice, acted, offer, hangup, peers,
                      channel, conns, wired, crashes, early, stuck, lost, runs, obj,
                      initing, realtime, conn, gone, crossed, halved, torn, waiting,
                      unheard>>
  \/ which = "Play" /\ Play!Next
       /\ UNCHANGED <<which, status, gateway, declined, answered, ledger, pc, job,
                      faulty, sock, dialled, timers, pending, held, raced, toolkit,
                      rows, last, limits, approvals, logged, choice, crowded, made,
                      account, edits, stray, twice, acted, offer, hangup, peers,
                      channel, conns, crashes, stuck, lost, starting, stopping, mic,
                      agent, call, ending, localStream, session, userAgent,
                      isSessionActive, shown, overlapped, halved, torn, waiting,
                      unheard>>

Spec == Init /\ [][Next]_vars

\* A gateway that has not been answered tries again, and a request in hand is worked on;
\* what the customer does is up to the customer.  Nothing is said of the other components.
FairSpec ==
  /\ Spec
  /\ \A h \in Handlers :
       /\ WF_Cash!vars(which = "Cash" /\ Cash!Handle(h))
       /\ WF_Cash!vars(which = "Cash" /\ \E p \in Cash!Payments, event \in Cash!Events :
                          Cash!Deliver(h, p, event))

------------------------
TypeOK ==
  /\ which = "Cash" => Cash!TypeOK
  /\ which = "Mcp" => Mcp!TypeOK
  /\ which = "Tool" => Tool!TypeOK
  /\ which = "App" => App!TypeOK
  /\ which = "Web" => Web!TypeOK
  /\ which = "Page" => Page!TypeOK
  /\ which = "Play" => Play!TypeOK

\* A payment is credited once, and only if it was made; who tells a gateway to stop has
\* credited it, or will, or was cut off (Payments).
PaymentsRight ==
  which = "Cash" =>
    Cash!PaymentsSound /\ (~AbortsOnError => Cash!NothingLostWithoutFault)

\* What customers have paid is credited in the end when no handler fails, in whatever
\* order and however often the gateways' events arrive: since nothing that was paid or
\* credited is taken back, it is enough that time and again nothing is owed (Payments).
PaidIsCredited ==
  []<>(which = "Cash" =>
         \A p \in Cash!Payments :
            gateway[p] = "paid" => Cash!Credited(p) \/ p \in faulty)

\* One connection of an MCP server at a time unless requests overlap, which heals when it
\* is dead, and no call of a tool is forgotten; one row for each tool, switched as it was,
\* and no call beyond the limit, unless two listings crossed or one ended midway and none
\* went through since; no account of an integration that its tenant does not see
\* (McpConnections, McpTools, Integrations).
McpSound ==
  /\ which = "Mcp" =>
       Mcp!OneSocketInTurn /\ Mcp!DeadEntryHeals /\ Mcp!NoCallForgotten
  /\ which = "Tool" =>
       Tool!OneRowPerTool /\ Tool!SwitchKept /\ Tool!LimitHolds
  /\ which = "App" => App!IntegrationsSound

\* No more sessions of a key than it allows, and what a session took is given back, except
\* the handler of a connection that was closed before it opened (WidgetSessions,
\* PlaygroundSessions, WidgetClient).
SessionsReleased ==
  /\ which = "Web" => Web!WithinLimit /\ Web!GivenBack
  /\ which = "Play" => Play!NothingLeft
  /\ which = "Page" => Page!ClientSound

------------------------
\* The payments: what a handler was told has happened, and who says that a payment is done
\* has credited it or is about to (Cash!IInv).

LEMMA NoJobType == Cash!NoJob \in [pay : Cash!Payments, event : Cash!Events, loaded : Cash!Statuses]
  BY ComponentConstants DEF Cash!PaymentsConstants, Cash!NoJob, Cash!Events, Cash!Statuses

LEMMA ReleaseType ==
  ASSUME Cash!TypeOK, NEW h \in Handlers, Cash!Release(h)
  PROVE  /\ pc' \in [Handlers -> {"free", "loading", "failing", "saving", "converting",
                                  "crediting", "writing", "answering"}]
         /\ job' \in [Handlers -> [pay : Cash!Payments, event : Cash!Events, loaded : Cash!Statuses]]
  BY NoJobType DEF Cash!TypeOK, Cash!Release

LEMMA JobType ==
  ASSUME Cash!TypeOK, NEW h \in Handlers
  PROVE  Cash!Pay(h) \in Cash!Payments /\ job[h].event \in Cash!Events /\ job[h].loaded \in Cash!Statuses
  BY DEF Cash!TypeOK, Cash!Pay

\* The type invariant, by the actions a handler or the world may take.
LEMMA TypeStep == Cash!TypeOK /\ Cash!Next => Cash!TypeOK'
  <1> SUFFICES ASSUME Cash!TypeOK, Cash!Next PROVE Cash!TypeOK' OBVIOUS
  <1>1. ASSUME NEW p \in Cash!Payments, Cash!CreatePayment(p) PROVE Cash!TypeOK'
    BY <1>1 DEF Cash!CreatePayment, Cash!TypeOK, Cash!Statuses
  <1>2. ASSUME NEW p \in Cash!Payments, Cash!CustomerPays(p) PROVE Cash!TypeOK'
    BY <1>2 DEF Cash!CustomerPays, Cash!TypeOK
  <1>3. ASSUME NEW p \in Cash!Payments, Cash!CardDeclined(p) PROVE Cash!TypeOK'
    BY <1>3 DEF Cash!CardDeclined, Cash!TypeOK
  <1>4. ASSUME NEW h \in Handlers, NEW p \in Cash!Payments, NEW event \in Cash!Events,
               Cash!Deliver(h, p, event)
        PROVE  Cash!TypeOK'
    BY <1>4 DEF Cash!Deliver, Cash!Goto, Cash!TypeOK, Cash!Statuses
  <1>5. ASSUME NEW h \in Handlers, Cash!LoadPayment(h) PROVE Cash!TypeOK'
    <2>1. status[Cash!Pay(h)] \in Cash!Statuses BY JobType DEF Cash!TypeOK
    <2>2. job' \in [Handlers -> [pay : Cash!Payments, event : Cash!Events, loaded : Cash!Statuses]]
      BY <1>5, <2>1 DEF Cash!LoadPayment, Cash!TypeOK
    <2>3. pc' \in [Handlers -> {"free", "loading", "failing", "saving", "converting",
                                "crediting", "writing", "answering"}]
      BY <1>5 DEF Cash!LoadPayment, Cash!Goto, Cash!TypeOK
    <2> QED BY <1>5, <2>2, <2>3 DEF Cash!LoadPayment, Cash!TypeOK
  <1>6. ASSUME NEW h \in Handlers, Cash!SaveFailed(h) PROVE Cash!TypeOK'
    BY <1>6 DEF Cash!SaveFailed, Cash!Save, Cash!Goto, Cash!TypeOK, Cash!Statuses
  <1>7. ASSUME NEW h \in Handlers, Cash!SaveSucceeded(h) PROVE Cash!TypeOK'
    BY <1>7 DEF Cash!SaveSucceeded, Cash!Save, Cash!Goto, Cash!TypeOK, Cash!Statuses
  <1>8. ASSUME NEW h \in Handlers, Cash!ConvertToUsd(h) PROVE Cash!TypeOK'
    BY <1>8 DEF Cash!ConvertToUsd, Cash!Goto, Cash!TypeOK
  <1>9. ASSUME NEW h \in Handlers, Cash!CreditBalance(h) PROVE Cash!TypeOK'
    BY <1>9, JobType DEF Cash!CreditBalance, Cash!Goto, Cash!TypeOK
  <1>10. ASSUME NEW h \in Handlers, Cash!BeginAlfa(h) PROVE Cash!TypeOK'
    BY <1>10 DEF Cash!BeginAlfa, Cash!Goto, Cash!TypeOK
  <1>11. ASSUME NEW h \in Handlers, Cash!CommitAlfa(h) PROVE Cash!TypeOK'
    BY <1>11, JobType DEF Cash!CommitAlfa, Cash!Goto, Cash!TypeOK, Cash!Statuses
  <1>12. ASSUME NEW h \in Handlers, Cash!LoseAlfaRace(h) PROVE Cash!TypeOK'
    BY <1>12, ReleaseType DEF Cash!LoseAlfaRace, Cash!TypeOK
  <1>13. ASSUME NEW h \in Handlers, Cash!Answer(h) PROVE Cash!TypeOK'
    BY <1>13, ReleaseType, JobType DEF Cash!Answer, Cash!TypeOK
  <1>14. ASSUME NEW h \in Handlers, Cash!Fail(h) PROVE Cash!TypeOK'
    BY <1>14, ReleaseType, JobType DEF Cash!Fail, Cash!TypeOK
  <1> QED BY <1>1, <1>2, <1>3, <1>4, <1>5, <1>6, <1>7, <1>8, <1>9, <1>10, <1>11, <1>12,
       <1>13, <1>14 DEF Cash!Next, Cash!Handle

\* A handler keeps to what it was told.
LEMMA JobStep == Cash!TypeOK /\ Cash!JobInv /\ Cash!Next => Cash!JobInv'
  <1> SUFFICES ASSUME Cash!TypeOK, Cash!JobInv, Cash!Next PROVE Cash!JobInv' OBVIOUS
  <1> USE DEF Cash!Pay, Cash!Via, Cash!Happened, Cash!Goto
  <1>1. ASSUME NEW p \in Cash!Payments, Cash!CreatePayment(p) PROVE Cash!JobInv'
    BY <1>1 DEF Cash!CreatePayment, Cash!JobInv
  <1>2. ASSUME NEW p \in Cash!Payments, Cash!CustomerPays(p) PROVE Cash!JobInv'
    BY <1>2 DEF Cash!CustomerPays, Cash!JobInv, Cash!TypeOK
  <1>3. ASSUME NEW p \in Cash!Payments, Cash!CardDeclined(p) PROVE Cash!JobInv'
    BY <1>3 DEF Cash!CardDeclined, Cash!JobInv
  <1>4. ASSUME NEW h \in Handlers, NEW p \in Cash!Payments, NEW event \in Cash!Events,
               Cash!Deliver(h, p, event)
        PROVE  Cash!JobInv'
    BY <1>4 DEF Cash!Deliver, Cash!JobInv, Cash!TypeOK
  <1>5. ASSUME NEW h \in Handlers, Cash!LoadPayment(h) PROVE Cash!JobInv'
    <2>1. pc'[h] \in {"saving", "converting"} => job[h].event = "succeeded"
      <3>1. job[h].event \in Cash!Events BY JobType
      <3>2. job[h].event = "payment_failed" => pc'[h] = "failing" BY <1>5 DEF Cash!LoadPayment, Cash!TypeOK
      <3> QED BY <3>1, <3>2 DEF Cash!Events
    <2>2. pc'[h] \in {"failing", "answering", "saving", "converting"} BY <1>5 DEF Cash!LoadPayment, Cash!TypeOK
    <2>3. \A q \in Handlers : q # h => pc'[q] = pc[q] /\ job'[q] = job[q] BY <1>5 DEF Cash!LoadPayment, Cash!TypeOK
    <2>4. job'[h].pay = job[h].pay /\ job'[h].event = job[h].event BY <1>5 DEF Cash!LoadPayment, Cash!TypeOK
    <2>5. pc[h] # "free" /\ UNCHANGED <<gateway, declined>> BY <1>5 DEF Cash!LoadPayment
    <2>6. \A q \in Handlers : pc'[q] # "free" => Cash!Happened(Cash!Pay(q), job[q].event)'
      BY <2>3, <2>4, <2>5 DEF Cash!JobInv
    <2>7. \A q \in Handlers :
            pc'[q] \in {"saving", "converting", "crediting"} => job'[q].event = "succeeded"
      BY <2>1, <2>2, <2>3, <2>4 DEF Cash!JobInv
    <2>8. \A q \in Handlers : pc'[q] = "writing" => Cash!Via(q, "alfa")' BY <2>2, <2>3, <2>4 DEF Cash!JobInv
    <2>9. pc'[h] = "failing" => job[h].event # "succeeded" BY <1>5 DEF Cash!LoadPayment, Cash!TypeOK
    <2>10. \A q \in Handlers : pc'[q] = "failing" => job'[q].event # "succeeded" BY <2>3, <2>4, <2>9 DEF Cash!JobInv
    <2> QED BY <2>5, <2>6, <2>7, <2>8, <2>10 DEF Cash!JobInv
  <1>6. ASSUME NEW h \in Handlers, Cash!SaveFailed(h) PROVE Cash!JobInv'
    BY <1>6 DEF Cash!SaveFailed, Cash!JobInv, Cash!TypeOK
  <1>7. ASSUME NEW h \in Handlers, Cash!SaveSucceeded(h) PROVE Cash!JobInv'
    BY <1>7 DEF Cash!SaveSucceeded, Cash!JobInv, Cash!TypeOK
  <1>8. ASSUME NEW h \in Handlers, Cash!ConvertToUsd(h) PROVE Cash!JobInv'
    BY <1>8 DEF Cash!ConvertToUsd, Cash!JobInv, Cash!TypeOK
  <1>9. ASSUME NEW h \in Handlers, Cash!CreditBalance(h) PROVE Cash!JobInv'
    BY <1>9 DEF Cash!CreditBalance, Cash!JobInv, Cash!TypeOK
  <1>10. ASSUME NEW h \in Handlers, Cash!BeginAlfa(h) PROVE Cash!JobInv'
    BY <1>10 DEF Cash!BeginAlfa, Cash!JobInv, Cash!TypeOK
  <1>11. ASSUME NEW h \in Handlers, Cash!CommitAlfa(h) PROVE Cash!JobInv'
    BY <1>11 DEF Cash!CommitAlfa, Cash!JobInv, Cash!TypeOK
  <1>12. ASSUME NEW h \in Handlers, Cash!LoseAlfaRace(h) PROVE Cash!JobInv'
    BY <1>12 DEF Cash!LoseAlfaRace, Cash!Release, Cash!JobInv, Cash!TypeOK
  <1>13. ASSUME NEW h \in Handlers, Cash!Answer(h) PROVE Cash!JobInv'
    BY <1>13 DEF Cash!Answer, Cash!Release, Cash!JobInv, Cash!TypeOK
  <1>14. ASSUME NEW h \in Handlers, Cash!Fail(h) PROVE Cash!JobInv'
    BY <1>14 DEF Cash!Fail, Cash!Release, Cash!JobInv, Cash!TypeOK
  <1> QED BY <1>1, <1>2, <1>3, <1>4, <1>5, <1>6, <1>7, <1>8, <1>9, <1>10, <1>11, <1>12,
       <1>13, <1>14 DEF Cash!Next, Cash!Handle

\* A handler that credits was told of a payment that was made.
LEMMA CreditorPaid ==
  ASSUME Cash!TypeOK, Cash!JobInv, NEW h \in Handlers, pc[h] \in {"crediting", "writing"}
  PROVE  gateway[Cash!Pay(h)] = "paid"
  <1>1. Cash!Happened(Cash!Pay(h), job[h].event) BY DEF Cash!JobInv
  <1>2. CASE pc[h] = "crediting"
    <2>1. job[h].event = "succeeded" BY <1>2 DEF Cash!JobInv
    <2> QED BY <1>1, <2>1 DEF Cash!Happened
  <1>3. CASE pc[h] = "writing"
    <2>1. Cash!Pay(h) \notin declined BY <1>3 DEF Cash!JobInv, Cash!Via
    <2> QED BY <1>1, <2>1 DEF Cash!Happened
  <1> QED BY <1>2, <1>3

LEMMA CreditStep ==
  Cash!TypeOK /\ Cash!JobInv /\ Cash!CreditedOnceIfPaid /\ Cash!Next => Cash!CreditedOnceIfPaid'
  <1> SUFFICES ASSUME Cash!TypeOK, Cash!JobInv, Cash!CreditedOnceIfPaid, Cash!Next
               PROVE  Cash!CreditedOnceIfPaid'
    OBVIOUS
  <1>1. ASSUME NEW h \in Handlers, Cash!CreditBalance(h) PROVE Cash!CreditedOnceIfPaid'
    <2>1. gateway[Cash!Pay(h)] = "paid" BY <1>1, CreditorPaid DEF Cash!CreditBalance
    <2> QED BY <1>1, <2>1 DEF Cash!CreditBalance, Cash!Credited, Cash!CreditedOnceIfPaid
  <1>2. ASSUME NEW h \in Handlers, Cash!CommitAlfa(h) PROVE Cash!CreditedOnceIfPaid'
    <2>1. gateway[Cash!Pay(h)] = "paid" BY <1>2, CreditorPaid DEF Cash!CommitAlfa
    <2> QED BY <1>2, <2>1 DEF Cash!CommitAlfa, Cash!Credited, Cash!CreditedOnceIfPaid
  <1>3. ASSUME NEW p \in Cash!Payments, Cash!CustomerPays(p) PROVE Cash!CreditedOnceIfPaid'
    <2>1. \A x \in ledger : x.pay \in Cash!Payments BY DEF Cash!TypeOK
    <2> QED BY <1>3, <2>1 DEF Cash!CustomerPays, Cash!CreditedOnceIfPaid, Cash!TypeOK
  <1>4. ASSUME UNCHANGED <<ledger, gateway>> PROVE Cash!CreditedOnceIfPaid' BY <1>4 DEF Cash!CreditedOnceIfPaid
  <1>5. ASSUME NEW p \in Cash!Payments, Cash!CreatePayment(p) \/ Cash!CardDeclined(p)
        PROVE  UNCHANGED <<ledger, gateway>>
    BY <1>5 DEF Cash!CreatePayment, Cash!CardDeclined
  <1>6. ASSUME NEW h \in Handlers, NEW p \in Cash!Payments, NEW event \in Cash!Events,
               Cash!Deliver(h, p, event)
        PROVE  UNCHANGED <<ledger, gateway>>
    BY <1>6 DEF Cash!Deliver
  <1>7. ASSUME NEW h \in Handlers,
               \/ Cash!LoadPayment(h) \/ Cash!SaveFailed(h) \/ Cash!SaveSucceeded(h) \/ Cash!ConvertToUsd(h)
               \/ Cash!BeginAlfa(h) \/ Cash!LoseAlfaRace(h) \/ Cash!Answer(h) \/ Cash!Fail(h)
        PROVE  UNCHANGED <<ledger, gateway>>
    BY <1>7 DEF Cash!LoadPayment, Cash!SaveFailed, Cash!SaveSucceeded, Cash!ConvertToUsd,
         Cash!BeginAlfa, Cash!LoseAlfaRace, Cash!Answer, Cash!Fail
  <1> QED BY <1>1, <1>2, <1>3, <1>4, <1>5, <1>6, <1>7 DEF Cash!Next, Cash!Handle

\* The starting state has no handler, row or credit.
LEMMA InitInv == Cash!Init => Cash!TypeOK /\ Cash!JobInv /\ Cash!CreditedOnceIfPaid /\ Cash!SettledInv
  <1> SUFFICES ASSUME Cash!Init
               PROVE  Cash!TypeOK /\ Cash!JobInv /\ Cash!CreditedOnceIfPaid /\ Cash!SettledInv
    OBVIOUS
  <1>1. Cash!TypeOK BY NoJobType DEF Cash!Init, Cash!TypeOK, Cash!Statuses
  <1>2. Cash!JobInv /\ Cash!CreditedOnceIfPaid BY DEF Cash!Init, Cash!JobInv, Cash!CreditedOnceIfPaid
  <1>3. Cash!SettledInv BY DEF Cash!Init, Cash!SettledInv, Cash!SaidDone
  <1> QED BY <1>1, <1>2, <1>3

\* Only h moves, and no credit goes.
Moves(h) ==
    /\ \A q \in Handlers : q # h => pc'[q] = pc[q] /\ job'[q] = job[q]
    /\ ledger \subseteq ledger' /\ faulty \subseteq faulty'

\* A step keeps SettledInv when whoever begins to say that p is done finds it settled,
\* and the handler that moves credits p, or will, if it would have.
LEMMA SettledFrame ==
  ASSUME Cash!TypeOK, Cash!SettledInv, NEW h \in Handlers, Moves(h),
         \A p \in Cash!Payments : p \notin faulty' /\ Cash!SaidDone(p)'
                             => Cash!SaidDone(p) \/ Cash!Settled(p) \/ Cash!Settled(p)',
         \A p \in Cash!Payments : p \notin faulty' /\ Cash!Crediting(h, p) => Cash!Settled(p)'
  PROVE  Cash!SettledInv'
  <1> SUFFICES ASSUME NEW p \in Cash!Payments, Cash!SaidDone(p)', p \notin faulty'
               PROVE  Cash!Settled(p)'
    BY DEF Cash!SettledInv
  <1>1. Cash!Settled(p)' \/ Cash!Settled(p) BY DEF Cash!SettledInv, Moves
  <1>2. CASE Cash!Credited(p) BY <1>2 DEF Cash!Settled, Cash!Credited, Moves
  <1>3. ASSUME NEW q \in Handlers, Cash!Crediting(q, p), q # h PROVE Cash!Settled(p)'
    BY <1>3 DEF Cash!Settled, Cash!Crediting, Cash!Pay, Cash!Via, Moves
  <1>4. CASE Cash!Crediting(h, p) BY <1>4
  <1> QED BY <1>1, <1>2, <1>3, <1>4 DEF Cash!Settled

\* Whoever says that a payment is done has credited it, or will, or was cut off.
LEMMA SettledStep ==
  ASSUME ~AbortsOnError, Cash!TypeOK, Cash!JobInv, Cash!SettledInv, Cash!Next
  PROVE  Cash!SettledInv'
  <1>1. ASSUME NEW p \in Cash!Payments,
               Cash!CreatePayment(p) \/ Cash!CustomerPays(p) \/ Cash!CardDeclined(p)
        PROVE  Cash!SettledInv'
    <2>1. \A q \in Cash!Payments : status'[q] = "succeeded" => status[q] = "succeeded"
      BY <1>1 DEF Cash!CreatePayment, Cash!CustomerPays, Cash!CardDeclined, Cash!TypeOK
    <2>2. UNCHANGED <<pc, job, answered, ledger, faulty>>
      BY <1>1 DEF Cash!CreatePayment, Cash!CustomerPays, Cash!CardDeclined
    <2> QED BY <2>1, <2>2 DEF Cash!SettledInv, Cash!SaidDone, Cash!Settled,
         Cash!Credited, Cash!Crediting, Cash!Pay, Cash!Via
  <1>2. ASSUME NEW h \in Handlers, NEW p \in Cash!Payments, NEW event \in Cash!Events,
               Cash!Deliver(h, p, event)
        PROVE  Cash!SettledInv'
    <2>1. Moves(h) /\ pc[h] = "free" /\ pc'[h] = "loading" BY <1>2 DEF Cash!Deliver, Cash!Goto, Cash!TypeOK, Moves
    <2>2. \A q \in Cash!Payments : Cash!SaidDone(q)' => Cash!SaidDone(q)
      BY <1>2, <2>1 DEF Cash!Deliver, Cash!SaidDone, Cash!Pay, Moves
    <2>3. \A q \in Cash!Payments : ~Cash!Crediting(h, q) BY <2>1 DEF Cash!Crediting
    <2> QED BY <2>1, <2>2, <2>3, SettledFrame
  <1>3. ASSUME NEW h \in Handlers, Cash!LoadPayment(h) PROVE Cash!SettledInv'
    <2>1. Moves(h) /\ pc[h] = "loading" /\ job'[h].pay = job[h].pay
      BY <1>3 DEF Cash!LoadPayment, Cash!Goto, Cash!TypeOK, Moves
    <2>2. pc'[h] = "answering" => status[Cash!Pay(h)] = "succeeded"
      BY <1>3 DEF Cash!LoadPayment, Cash!Goto, Cash!TypeOK
    <2>3. \A q \in Cash!Payments : Cash!SaidDone(q)' => Cash!SaidDone(q)
      BY <1>3, <2>1, <2>2 DEF Cash!LoadPayment, Cash!SaidDone, Cash!Pay, Moves
    <2>4. \A q \in Cash!Payments : ~Cash!Crediting(h, q) BY <2>1 DEF Cash!Crediting
    <2> QED BY <2>1, <2>3, <2>4, SettledFrame
  <1>4. ASSUME NEW h \in Handlers, Cash!SaveFailed(h) PROVE Cash!SettledInv'
    <2>1. Moves(h) /\ pc[h] = "failing" /\ job[h].event # "succeeded"
      BY <1>4 DEF Cash!SaveFailed, Cash!Goto, Cash!TypeOK, Moves, Cash!JobInv
    <2>2. \A q \in Cash!Payments : status'[q] = "succeeded" => status[q] = "succeeded"
      BY <1>4 DEF Cash!SaveFailed, Cash!Save, Cash!TypeOK
    <2>3. \A q \in Cash!Payments : Cash!SaidDone(q)' => Cash!SaidDone(q)
      BY <1>4, <2>1, <2>2 DEF Cash!SaveFailed, Cash!SaidDone, Cash!Pay, Moves
    <2>4. \A q \in Cash!Payments : ~Cash!Crediting(h, q) BY <2>1 DEF Cash!Crediting
    <2> QED BY <2>1, <2>3, <2>4, SettledFrame
  <1>5. ASSUME NEW h \in Handlers, Cash!SaveSucceeded(h) PROVE Cash!SettledInv'
    <2>1. Moves(h) /\ pc[h] = "saving" /\ UNCHANGED <<job, answered, ledger>>
      BY <1>5 DEF Cash!SaveSucceeded, Cash!Goto, Cash!TypeOK, Moves
    <2>2. job[h].event = "succeeded" BY <2>1 DEF Cash!JobInv
    <2>3. pc'[h] = IF Cash!Via(h, "stripe") THEN "converting" ELSE "crediting"
      BY <1>5 DEF Cash!SaveSucceeded, Cash!Goto, Cash!TypeOK
    <2>4. \A q \in Cash!Payments : q = Cash!Pay(h) => Cash!Crediting(h, q)'
      BY <2>1, <2>2, <2>3 DEF Cash!Crediting, Cash!Pay, Cash!Via
    <2>5. \A q \in Cash!Payments : q # Cash!Pay(h) => status'[q] = status[q]
      BY <1>5 DEF Cash!SaveSucceeded, Cash!Save, Cash!TypeOK
    <2>6. \A q \in Cash!Payments : q # Cash!Pay(h) /\ Cash!SaidDone(q)' => Cash!SaidDone(q)
      BY <2>1, <2>5 DEF Cash!SaidDone, Cash!Pay, Moves
    <2>7. \A q \in Cash!Payments : ~Cash!Crediting(h, q) BY <2>1 DEF Cash!Crediting
    <2>8. \A q \in Cash!Payments : Cash!SaidDone(q)' => Cash!SaidDone(q) \/ Cash!Settled(q)'
      BY <2>4, <2>6 DEF Cash!Settled
    <2> QED BY <2>1, <2>7, <2>8, SettledFrame
  <1>6. ASSUME NEW h \in Handlers, Cash!ConvertToUsd(h) PROVE Cash!SettledInv'
    <2>1. Moves(h) /\ UNCHANGED <<job, status, answered, ledger>>
      BY <1>6 DEF Cash!ConvertToUsd, Cash!Goto, Cash!TypeOK, Moves
    <2>2. pc'[h] = IF Cash!Via(h, "stripe") THEN "crediting" ELSE "saving"
      BY <1>6 DEF Cash!ConvertToUsd, Cash!Goto, Cash!TypeOK
    <2>3. \A q \in Cash!Payments : Cash!SaidDone(q)' => Cash!SaidDone(q)
      BY <2>1, <2>2 DEF Cash!SaidDone, Cash!Pay, Moves
    <2>4. \A q \in Cash!Payments : Cash!Crediting(h, q) => Cash!Crediting(h, q)'
      BY <1>6, <2>1, <2>2 DEF Cash!ConvertToUsd, Cash!Crediting, Cash!Pay, Cash!Via
    <2> QED BY <2>1, <2>3, <2>4, SettledFrame DEF Cash!Settled
  <1>7. ASSUME NEW h \in Handlers, Cash!CreditBalance(h) PROVE Cash!SettledInv'
    <2>1. Moves(h) /\ UNCHANGED <<job, status, answered>>
      BY <1>7 DEF Cash!CreditBalance, Cash!Goto, Cash!TypeOK, Moves
    <2>2. \A q \in Cash!Payments : q = Cash!Pay(h) => Cash!Credited(q)'
      <3> DEFINE row == [pay |-> Cash!Pay(h), by |-> h]
      <3>1. row.pay = Cash!Pay(h) OBVIOUS
      <3>2. CASE Cash!Credited(Cash!Pay(h)) BY <3>2, <1>7 DEF Cash!CreditBalance, Cash!Credited
      <3>3. CASE ~Cash!Credited(Cash!Pay(h))
        <4>1. row \in ledger' BY <3>3, <1>7 DEF Cash!CreditBalance
        <4> QED BY <3>1, <4>1 DEF Cash!Credited
      <3> QED BY <3>2, <3>3
    <2>3. \A q \in Cash!Payments : q # Cash!Pay(h) /\ Cash!SaidDone(q)' => Cash!SaidDone(q)
      BY <2>1 DEF Cash!SaidDone, Cash!Pay, Moves
    <2>4. \A q \in Cash!Payments : Cash!SaidDone(q)' => Cash!SaidDone(q) \/ Cash!Settled(q)'
      BY <2>1, <2>2, <2>3 DEF Cash!Settled
    <2>5. \A q \in Cash!Payments : Cash!Crediting(h, q) => Cash!Settled(q)'
      BY <2>1, <2>2 DEF Cash!Crediting, Cash!Settled, Cash!Pay
    <2> QED BY <2>1, <2>4, <2>5, SettledFrame
  <1>8. ASSUME NEW h \in Handlers, Cash!BeginAlfa(h) PROVE Cash!SettledInv'
    <2>1. Moves(h) /\ pc[h] = "loading" /\ UNCHANGED <<job, status, answered, ledger>>
      BY <1>8 DEF Cash!BeginAlfa, Cash!Goto, Cash!TypeOK, Moves
    <2>2. pc'[h] = "answering" => Cash!Credited(Cash!Pay(h)) BY <1>8 DEF Cash!BeginAlfa, Cash!Goto, Cash!TypeOK
    <2>3. \A q \in Cash!Payments : Cash!SaidDone(q)' => Cash!SaidDone(q) \/ Cash!Settled(q)
      BY <2>1, <2>2 DEF Cash!SaidDone, Cash!Settled, Cash!Pay, Moves
    <2>4. \A q \in Cash!Payments : ~Cash!Crediting(h, q) BY <2>1 DEF Cash!Crediting
    <2> QED BY <2>1, <2>3, <2>4, SettledFrame
  <1>9. ASSUME NEW h \in Handlers, Cash!CommitAlfa(h) PROVE Cash!SettledInv'
    <2>1. Moves(h) /\ pc[h] = "writing" /\ UNCHANGED <<job, answered>>
      BY <1>9 DEF Cash!CommitAlfa, Cash!Goto, Cash!TypeOK, Moves
    <2>2. \A q \in Cash!Payments : q = Cash!Pay(h) => Cash!Credited(q)'
      <3> DEFINE row == [pay |-> Cash!Pay(h), by |-> h]
      <3>1. row.pay = Cash!Pay(h) OBVIOUS
      <3>2. row \in ledger' BY <1>9 DEF Cash!CommitAlfa
      <3> QED BY <3>1, <3>2 DEF Cash!Credited
    <2>3. \A q \in Cash!Payments : q # Cash!Pay(h) => status'[q] = status[q]
      BY <1>9 DEF Cash!CommitAlfa, Cash!TypeOK
    <2>4. \A q \in Cash!Payments : q # Cash!Pay(h) /\ Cash!SaidDone(q)' => Cash!SaidDone(q)
      BY <2>1, <2>3 DEF Cash!SaidDone, Cash!Pay, Moves
    <2>5. \A q \in Cash!Payments : Cash!SaidDone(q)' => Cash!SaidDone(q) \/ Cash!Settled(q)'
      BY <2>1, <2>2, <2>4 DEF Cash!Settled
    <2>6. \A q \in Cash!Payments : ~Cash!Crediting(h, q) BY <2>1 DEF Cash!Crediting
    <2> QED BY <2>1, <2>5, <2>6, SettledFrame
  <1>10. ASSUME NEW h \in Handlers, Cash!LoseAlfaRace(h) PROVE Cash!SettledInv'
    <2>1. Moves(h) /\ pc[h] = "writing" /\ pc'[h] = "free"
      BY <1>10 DEF Cash!LoseAlfaRace, Cash!Release, Cash!TypeOK, Moves
    <2>2. \A q \in Cash!Payments : Cash!SaidDone(q)' => Cash!SaidDone(q)
      BY <1>10, <2>1 DEF Cash!LoseAlfaRace, Cash!SaidDone, Cash!Pay, Moves
    <2>3. \A q \in Cash!Payments : ~Cash!Crediting(h, q) BY <2>1 DEF Cash!Crediting
    <2> QED BY <2>1, <2>2, <2>3, SettledFrame
  <1>11. ASSUME NEW h \in Handlers, Cash!Answer(h) PROVE Cash!SettledInv'
    <2>1. Moves(h) /\ pc[h] = "answering" /\ pc'[h] = "free" /\ UNCHANGED status
      BY <1>11 DEF Cash!Answer, Cash!Release, Cash!TypeOK, Moves
    <2>2. answered' = answered \cup {<<Cash!Pay(h), job[h].event>>} BY <1>11 DEF Cash!Answer
    <2>3. \A q \in Cash!Payments : Cash!SaidDone(q)' => Cash!SaidDone(q)
      BY <2>1, <2>2 DEF Cash!SaidDone, Cash!Pay, Moves
    <2>4. \A q \in Cash!Payments : ~Cash!Crediting(h, q) BY <2>1 DEF Cash!Crediting
    <2> QED BY <2>1, <2>3, <2>4, SettledFrame
  <1>12. ASSUME NEW h \in Handlers, Cash!Fail(h) PROVE Cash!SettledInv'
    <2>1. Moves(h) /\ pc'[h] = "free" /\ UNCHANGED <<status, answered>>
      BY <1>12 DEF Cash!Fail, Cash!Release, Cash!TypeOK, Moves
    <2>2. Cash!Pay(h) \in faulty' BY <1>12 DEF Cash!Fail
    <2>3. \A q \in Cash!Payments : Cash!SaidDone(q)' => Cash!SaidDone(q) BY <2>1 DEF Cash!SaidDone, Cash!Pay, Moves
    <2>4. \A q \in Cash!Payments : q \notin faulty' => ~Cash!Crediting(h, q) BY <2>2 DEF Cash!Crediting
    <2> QED BY <2>1, <2>3, <2>4, SettledFrame
  <1> QED
    BY <1>1, <1>2, <1>3, <1>4, <1>5, <1>6, <1>7, <1>8, <1>9, <1>10, <1>11, <1>12 DEF Cash!Next,
         Cash!Handle

LEMMA SettledMeansNotLost == Cash!TypeOK /\ Cash!SettledInv => Cash!NothingLostWithoutFault
  <1> SUFFICES ASSUME Cash!TypeOK, Cash!SettledInv, NEW p \in Cash!Payments,
                      <<p, "succeeded">> \in answered, p \notin faulty
               PROVE  Cash!Credited(p) \/ Cash!Working(p)
    BY DEF Cash!NothingLostWithoutFault
  <1>1. Cash!Settled(p) BY DEF Cash!SettledInv, Cash!SaidDone
  <1>2. \A h \in Handlers : Cash!Crediting(h, p) => Cash!Working(p) BY DEF Cash!Crediting, Cash!Working
  <1> QED BY <1>1, <1>2 DEF Cash!Settled

LEMMA PayingInit == Cash!Init => Cash!IInv
  BY InitInv DEF Cash!IInv

\* The same step of each part of the invariant.
LEMMA PayingStep ==
  ASSUME Cash!IInv, Cash!Next
  PROVE  Cash!IInv'
  <1>1. Cash!TypeOK' /\ Cash!JobInv' /\ Cash!CreditedOnceIfPaid' BY TypeStep, JobStep, CreditStep DEF Cash!IInv
  <1>2. ASSUME ~AbortsOnError PROVE Cash!SettledInv' BY <1>2, SettledStep DEF Cash!IInv
  <1> QED BY <1>1, <1>2 DEF Cash!IInv

LEMMA PayingStay ==
  ASSUME Cash!IInv, UNCHANGED Cash!vars
  PROVE  Cash!IInv'
  <1>1. Cash!TypeOK' /\ Cash!JobInv'
    BY DEF Cash!IInv, Cash!vars, Cash!TypeOK, Cash!JobInv, Cash!Pay, Cash!Via,
         Cash!Happened
  <1>2. Cash!CreditedOnceIfPaid' BY DEF Cash!IInv, Cash!vars, Cash!CreditedOnceIfPaid
  <1>3. Cash!SettledInv => Cash!SettledInv'
    BY DEF Cash!vars, Cash!SettledInv, Cash!SaidDone, Cash!Settled, Cash!Credited,
         Cash!Crediting, Cash!Pay, Cash!Via
  <1> QED BY <1>1, <1>2, <1>3 DEF Cash!IInv

LEMMA PayingIs ==
  ASSUME Cash!IInv
  PROVE  Cash!PaymentsSound /\ (~AbortsOnError => Cash!NothingLostWithoutFault)
  BY SettledMeansNotLost DEF Cash!IInv, Cash!PaymentsSound

LEMMA PayingAlways == Spec => [](which = "Cash" => Cash!IInv)
  <1> DEFINE I == which = "Cash" => Cash!IInv
  <1>1. Init => I BY PayingInit, ComponentConstants DEF Init
  <1>2. I /\ [Next]_vars => I'
    <2>1. ASSUME Cash!IInv, [Cash!Next]_Cash!vars PROVE Cash!IInv'
      BY <2>1, PayingStep, PayingStay, ComponentConstants
    <2>2. ASSUME [Next]_vars, which' = "Cash"
          PROVE  which = "Cash" /\ [Cash!Next]_Cash!vars
      BY <2>2 DEF Next, vars, Cash!vars
    <2> QED BY <2>1, <2>2
  <1> QED BY <1>1, <1>2, PTL DEF Spec

\* finalizePayment, handleRobokassaResult, handleAlfaBankCallback: for any payments, copies of
\* a notification and late failures, a payment is credited once and only if it was made, and,
\* where a failed statement does not abort its transaction, a gateway is told to stop only
\* when the credit is there, or a handler will make it, or one was cut off.
THEOREM PaymentsAreRight == Spec => []PaymentsRight
  <1>1. (which = "Cash" => Cash!IInv) => PaymentsRight BY PayingIs, ComponentConstants DEF PaymentsRight
  <1> QED BY <1>1, PayingAlways, PTL

------------------------
\* The MCP connections: in turn a connection is dialled when none lives, and a dead one in
\* the map has a timer or is dialled on the next call (Mcp!IInv).

\* FiniteSets is the same there as here.
LEMMA SocketsCounts ==
  \A S : Mcp!Cardinality(S) = Cardinality(S) /\ (Mcp!IsFiniteSet(S) <=> IsFiniteSet(S))
  BY DEF Cardinality, Mcp!Cardinality, IsFiniteSet, Mcp!IsFiniteSet



LEMMA SocketLoadStep ==
  ASSUME Mcp!IInv, NEW r \in Mcp!Users \cup ToolCalls, Mcp!Load(r)
  PROVE  Mcp!IInv'
  <1> USE ComponentConstants DEF Mcp!IInv, Mcp!TypeOK, Mcp!Fresh,
           Mcp!Sockets, Mcp!Load, Mcp!Goto, Mcp!table
  <1>1. Mcp!TypeOK' BY DEF Mcp!Rest
  <1>2. Mcp!Rest' BY DEF Mcp!Rest
  <1>3. Mcp!Fresh' OBVIOUS
  <1>4. Mcp!OneLives' BY DEF Mcp!OneLives, Mcp!Underway, Mcp!InState
  <1>5. Mcp!DeadEntryHeals' BY DEF Mcp!DeadEntryHeals, Mcp!Underway, Mcp!InState
  <1>6. Mcp!NoCallForgotten' BY DEF Mcp!Rest, Mcp!NoCallForgotten
  <1> QED BY <1>1, <1>2, <1>3, <1>4, <1>5, <1>6

LEMMA SocketConnectStep ==
  ASSUME Mcp!IInv, NEW r \in Connects, Mcp!Connect(r)
  PROVE  Mcp!IInv'
  <1> USE DEF Mcp!IInv
  <1> DEFINE n == dialled + 1
             fresh == [state |-> "connecting", attempts |-> 0]
  <1>1. CASE Mcp!IsOpen(entry)
    <2>1. Mcp!Goto(r, "connected") /\ UNCHANGED <<Mcp!table, held, status>> BY <1>1 DEF Mcp!Connect
    <2>2. Mcp!TypeOK' /\ Mcp!Fresh' /\ Mcp!DeadEntryHeals'
      BY <2>1 DEF Mcp!TypeOK, Mcp!Fresh, Mcp!DeadEntryHeals, Mcp!Underway,
           Mcp!InState, Mcp!table
    <2>3. Mcp!Rest' /\ Mcp!NoCallForgotten'
      BY <2>1 DEF Mcp!Rest, Mcp!NoCallForgotten, Mcp!Goto, Mcp!table, Mcp!Users
    <2>4. Mcp!OneLives' BY <2>1 DEF Mcp!OneLives, Mcp!Underway, Mcp!InState, Mcp!table
    <2> QED BY <2>2, <2>3, <2>4
  <1>2. CASE ~Mcp!IsOpen(entry)
    <2>1. /\ n \in Mcp!Sockets /\ Mcp!Dial /\ entry' = 0 /\ held' = [held EXCEPT ![r].socket = n]
          /\ pending' = IF entry = 0 THEN pending ELSE [pending EXCEPT ![entry] = {}]
          /\ pc' = [p \in DOMAIN pc |-> IF p = r THEN "waiting"
                                        ELSE IF entry # 0 /\ p \in pending[entry] THEN "done" ELSE pc[p]]
          /\ raced' = (raced \/ Mcp!Underway # {} \/ timers # {})
          /\ UNCHANGED <<timers, status>>
      BY <1>2, ComponentConstants DEF Mcp!ConnectionConstants, Mcp!Connect, Mcp!TypeOK,
           Mcp!Sockets
    <2>2. entry # n /\ sock[n].state = "none" /\ entry \in 0 .. MaxSockets /\ dialled \in Nat
      BY <2>1 DEF Mcp!Fresh, Mcp!TypeOK, Mcp!Sockets
    <2>3. /\ DOMAIN sock' = Mcp!Sockets /\ sock'[n] = fresh
          /\ \A i \in Mcp!Sockets : i # n => sock'[i] = IF i = entry THEN [state |-> "closed", attempts |-> MaxAttempts] ELSE sock[i]
      BY <2>1 DEF Mcp!Dial
    <2>4. sock' \in [Mcp!Sockets -> [state : {"none", "connecting", "initializing", "open", "closing", "closed"},
                             attempts : 0 .. MaxAttempts]]
      <3>1. /\ fresh \in [state : {"none", "connecting", "initializing", "open", "closing", "closed"}, attempts : 0 .. MaxAttempts]
            /\ [state |-> "closed", attempts |-> MaxAttempts]
                 \in [state : {"none", "connecting", "initializing", "open", "closing", "closed"}, attempts : 0 .. MaxAttempts]
        BY ComponentConstants DEF Mcp!ConnectionConstants
      <3> QED BY <3>1, <2>1 DEF Mcp!Dial, Mcp!TypeOK
    <2>5. /\ \A i \in Mcp!Sockets : i # n /\ i # entry => sock'[i] = sock[i]
          /\ sock'[n].state = "connecting"
          /\ entry # 0 => sock'[entry].state = "closed"
      BY <2>2, <2>3 DEF Mcp!Sockets
    <2>6. /\ pending' \in [Mcp!Sockets -> SUBSET ToolCalls]
          /\ \A i \in Mcp!Sockets : pending'[i] = IF i = entry THEN {} ELSE pending[i]
      BY <2>1, <2>2 DEF Mcp!TypeOK, Mcp!Sockets
    <2>7. dialled' = n /\ timers' = timers BY <2>1 DEF Mcp!Dial
    <2> HIDE DEF fresh
    <2>8. Mcp!TypeOK'
      BY <2>1, <2>4, <2>6, <2>7, ComponentConstants DEF Mcp!ConnectionConstants, Mcp!TypeOK,
           Mcp!Sockets
    <2>9. Mcp!Rest'
      <3>1. pc' \in [Mcp!Users \cup ToolCalls -> {"absent", "idle", "calling", "connecting", "dropping", "waiting",
                                  "connected", "refused", "dropped", "asked", "done"}]
        BY <2>1 DEF Mcp!Rest
      <3>2. held' \in [Mcp!Users \cup ToolCalls -> [status : {"inactive", "active", "error", "gone"}, socket : 0 .. MaxSockets]]
        BY <2>1 DEF Mcp!Rest, Mcp!Users, Mcp!Sockets
      <3> QED BY <3>1, <3>2, <2>1 DEF Mcp!Rest
    <2>10. Mcp!Fresh' BY <2>1, <2>2, <2>5, <2>6, <2>7 DEF Mcp!Fresh, Mcp!Sockets
    <2>11. Mcp!OneLives'
      <3>1. ASSUME ~raced', NEW i \in Mcp!Sockets,
                   sock'[i].state \in {"connecting", "initializing", "closing", "open"}
            PROVE  i = n
        <4>1. Mcp!Underway = {} /\ ~raced BY <3>1, <2>1 DEF Mcp!Rest
        <4>2. sock[i].state \notin {"connecting", "initializing", "closing"} BY <4>1 DEF Mcp!Underway, Mcp!InState
        <4>3. sock[i].state = "open" => i = entry BY <4>1 DEF Mcp!OneLives, Mcp!InState
        <4>4. sock[i].state = "open" => FALSE BY <4>3, <1>2 DEF Mcp!IsOpen, Mcp!Sockets
        <4> QED BY <3>1, <4>2, <4>4, <2>5 DEF Mcp!Sockets
      <3> QED BY <3>1, <2>5 DEF Mcp!OneLives, Mcp!Underway, Mcp!InState
    <2>12. Mcp!DeadEntryHeals' BY <2>1 DEF Mcp!DeadEntryHeals
    <2>13. Mcp!NoCallForgotten'
      <3> SUFFICES ASSUME NEW c \in ToolCalls, pc'[c] = "asked"
          PROVE \E i \in Mcp!Sockets : c \in pending'[i] /\ sock'[i].state = "open"
        BY DEF Mcp!NoCallForgotten
      <3>1. pc[c] = "asked" /\ (entry # 0 => c \notin pending[entry]) BY <2>1 DEF Mcp!Rest, Mcp!Users
      <3>2. PICK i \in Mcp!Sockets : c \in pending[i] /\ sock[i].state = "open" BY <3>1 DEF Mcp!NoCallForgotten
      <3>3. i # entry /\ i # n BY <3>1, <3>2, <2>2 DEF Mcp!Sockets
      <3> QED BY <3>2, <3>3, <2>5, <2>6
    <2> QED BY <2>8, <2>9, <2>10, <2>11, <2>12, <2>13
  <1> QED BY <1>1, <1>2

LEMMA SocketConnectedStep ==
  ASSUME Mcp!IInv, NEW r \in Connects, Mcp!Connected(r)
  PROVE  Mcp!IInv'
  <1> USE ComponentConstants DEF Mcp!IInv, Mcp!TypeOK, Mcp!Fresh,
           Mcp!Sockets, Mcp!Connected, Mcp!Goto, Mcp!Write, Mcp!table
  <1>1. Mcp!TypeOK' BY DEF Mcp!Rest
  <1>2. Mcp!Rest' BY DEF Mcp!Rest
  <1>3. Mcp!Fresh' OBVIOUS
  <1>4. Mcp!OneLives' BY DEF Mcp!OneLives, Mcp!Underway, Mcp!InState
  <1>5. Mcp!DeadEntryHeals' BY DEF Mcp!DeadEntryHeals, Mcp!Underway, Mcp!InState
  <1>6. Mcp!NoCallForgotten' BY DEF Mcp!Rest, Mcp!NoCallForgotten
  <1> QED BY <1>1, <1>2, <1>3, <1>4, <1>5, <1>6

LEMMA DropStep ==
  ASSUME Mcp!IInv, NEW r \in Disconnects \cup Deletes, Mcp!Drop(r)
  PROVE  Mcp!IInv'
  <1> USE DEF Mcp!IInv
  <1>1. CASE entry = 0
    <2>1. Mcp!Goto(r, "dropped") /\ UNCHANGED <<status, sock, pending, entry, dialled, timers, held>>
          /\ raced' = (raced \/ Mcp!Underway # {} \/ timers # {}) /\ pc[r] = "dropping"
      BY <1>1 DEF Mcp!Drop
    <2> QED
      BY <2>1 DEF Mcp!TypeOK, Mcp!Rest, Mcp!Fresh, Mcp!OneLives,
           Mcp!DeadEntryHeals, Mcp!NoCallForgotten, Mcp!Underway, Mcp!InState,
           Mcp!Goto, Mcp!Users
  <1>2. CASE entry # 0
    <2>1. /\ sock' = [sock EXCEPT ![entry] = [state |-> "closed", attempts |-> MaxAttempts]]
          /\ pc' = [p \in DOMAIN pc |-> IF p = r THEN "dropped"
                                        ELSE IF p \in pending[entry] THEN "done" ELSE pc[p]]
          /\ pending' = [pending EXCEPT ![entry] = {}]
          /\ entry' = 0 /\ raced' = (raced \/ Mcp!Underway # {} \/ timers # {})
          /\ UNCHANGED <<status, dialled, timers, held>>
      BY <1>2 DEF Mcp!Drop
    <2>2. entry \in Mcp!Sockets BY <1>2 DEF Mcp!TypeOK, Mcp!Sockets
    <2>3. [state |-> "closed", attempts |-> MaxAttempts]
             \in [state : {"none", "connecting", "initializing", "open", "closing", "closed"}, attempts : 0 .. MaxAttempts]
      BY ComponentConstants DEF Mcp!ConnectionConstants
    <2>4. sock' \in [Mcp!Sockets -> [state : {"none", "connecting", "initializing", "open", "closing", "closed"},
                             attempts : 0 .. MaxAttempts]]
      BY <2>1, <2>3 DEF Mcp!TypeOK
    <2>5. sock'[entry].state = "closed" /\ \A i \in Mcp!Sockets : i # entry => sock'[i] = sock[i]
      BY <2>1, <2>2 DEF Mcp!TypeOK
    <2>6. pending' \in [Mcp!Sockets -> SUBSET ToolCalls] /\ \A i \in Mcp!Sockets : pending'[i] = IF i = entry THEN {} ELSE pending[i]
      BY <2>1, <2>2 DEF Mcp!TypeOK
    <2>7. Mcp!TypeOK' BY <2>1, <2>4, <2>6, ComponentConstants DEF Mcp!ConnectionConstants, Mcp!TypeOK
    <2>8. Mcp!Rest' BY <2>1 DEF Mcp!Rest
    <2>9. Mcp!Fresh' BY <2>1, <2>2, <2>5, <2>6 DEF Mcp!TypeOK, Mcp!Fresh, Mcp!Sockets
    <2>10. Mcp!OneLives'
      <3>1. raced => raced' BY <2>1 DEF Mcp!Rest
      <3>2. \A i \in Mcp!Sockets : sock'[i].state \in {"connecting", "initializing", "closing", "open"} => sock'[i] = sock[i] /\ i # entry
        BY <2>5, <2>2
      <3> QED BY <3>1, <3>2, <2>1 DEF Mcp!OneLives, Mcp!Underway, Mcp!InState
    <2>11. Mcp!DeadEntryHeals' BY <2>1 DEF Mcp!DeadEntryHeals
    <2>12. Mcp!NoCallForgotten'
      <3> SUFFICES ASSUME NEW c \in ToolCalls, pc'[c] = "asked"
          PROVE \E i \in Mcp!Sockets : c \in pending'[i] /\ sock'[i].state = "open"
        BY DEF Mcp!NoCallForgotten
      <3>1. pc[c] = "asked" /\ c \notin pending[entry] BY <2>1 DEF Mcp!Rest, Mcp!Users
      <3>2. PICK i \in Mcp!Sockets : c \in pending[i] /\ sock[i].state = "open" BY <3>1 DEF Mcp!NoCallForgotten
      <3> QED BY <3>1, <3>2, <2>5, <2>6
    <2> QED BY <2>7, <2>8, <2>9, <2>10, <2>11, <2>12
  <1> QED BY <1>1, <1>2

LEMMA DroppedStep ==
  ASSUME Mcp!IInv, NEW r \in Disconnects \cup Deletes, Mcp!Dropped(r)
  PROVE  Mcp!IInv'
  <1> USE ComponentConstants DEF Mcp!IInv, Mcp!TypeOK, Mcp!Fresh,
           Mcp!Sockets, Mcp!Dropped, Mcp!Goto, Mcp!Write, Mcp!table
  <1>1. Mcp!TypeOK' BY DEF Mcp!Rest
  <1>2. Mcp!Rest' BY DEF Mcp!Rest
  <1>3. Mcp!Fresh' OBVIOUS
  <1>4. Mcp!OneLives' BY DEF Mcp!OneLives, Mcp!Underway, Mcp!InState
  <1>5. Mcp!DeadEntryHeals' BY DEF Mcp!DeadEntryHeals, Mcp!Underway, Mcp!InState
  <1>6. Mcp!NoCallForgotten' BY DEF Mcp!Rest, Mcp!NoCallForgotten
  <1> QED BY <1>1, <1>2, <1>3, <1>4, <1>5, <1>6

LEMMA OpensStep ==
  ASSUME Mcp!IInv, NEW i \in Mcp!Sockets, Mcp!Opens(i)
  PROVE  Mcp!IInv'
  <1> USE ComponentConstants DEF Mcp!IInv, Mcp!TypeOK, Mcp!Fresh,
           Mcp!Sockets, Mcp!Opens
  <1>1. Mcp!TypeOK' BY DEF Mcp!Rest
  <1>2. Mcp!Rest' BY DEF Mcp!Rest
  <1>3. Mcp!Fresh' OBVIOUS
  <1>4. Mcp!OneLives' BY DEF Mcp!OneLives, Mcp!Underway, Mcp!InState
  <1>5. Mcp!DeadEntryHeals' BY DEF Mcp!DeadEntryHeals, Mcp!Underway, Mcp!InState
  <1>6. Mcp!NoCallForgotten' BY DEF Mcp!Rest, Mcp!NoCallForgotten
  <1> QED BY <1>1, <1>2, <1>3, <1>4, <1>5, <1>6

LEMMA InitializedStep ==
  ASSUME Mcp!IInv, NEW i \in Mcp!Sockets, Mcp!Initialized(i)
  PROVE  Mcp!IInv'
  <1> USE ComponentConstants DEF Mcp!Initialized, Mcp!IInv, Mcp!TypeOK,
           Mcp!Sockets
  <1>1. Mcp!TypeOK'
    <2> DEFINE states == {"none", "connecting", "initializing", "open", "closing", "closed"}
    <2>1. sock' = [sock EXCEPT ![i] = [@ EXCEPT !.state = "open", !.attempts = 0]] OBVIOUS
    <2>2. [sock[i] EXCEPT !.state = "open", !.attempts = 0] \in [state : states, attempts : 0 .. MaxAttempts]
      <3>1. 0 \in 0 .. MaxAttempts /\ sock[i] \in [state : states, attempts : 0 .. MaxAttempts]
        BY DEF Mcp!ConnectionConstants
      <3> QED BY <3>1
    <2>3. sock' \in [Mcp!Sockets -> [state : states, attempts : 0 .. MaxAttempts]] BY <2>1, <2>2
    <2> QED BY <2>3
  <1>2. Mcp!Rest' BY DEF Mcp!Rest, Mcp!Tell
  <1>3. Mcp!Fresh' BY DEF Mcp!Fresh, Mcp!Tell
  <1>4. Mcp!OneLives' BY DEF Mcp!Fresh, Mcp!OneLives, Mcp!Underway, Mcp!InState, Mcp!Tell
  <1>5. Mcp!DeadEntryHeals' BY DEF Mcp!Fresh, Mcp!DeadEntryHeals, Mcp!Underway, Mcp!InState, Mcp!Tell
  <1>6. Mcp!NoCallForgotten' BY DEF Mcp!Rest, Mcp!Fresh, Mcp!NoCallForgotten, Mcp!Tell
  <1> QED BY <1>1, <1>2, <1>3, <1>4, <1>5, <1>6

LEMMA GiveUpStep ==
  ASSUME Mcp!IInv, NEW i \in Mcp!Sockets, Mcp!GiveUp(i)
  PROVE  Mcp!IInv'
  <1> USE ComponentConstants DEF Mcp!IInv, Mcp!TypeOK, Mcp!Fresh,
           Mcp!Sockets, Mcp!GiveUp, Mcp!Tell
  <1>1. Mcp!TypeOK' BY DEF Mcp!Rest
  <1>2. Mcp!Rest' BY DEF Mcp!Rest
  <1>3. Mcp!Fresh' OBVIOUS
  <1>4. Mcp!OneLives' BY DEF Mcp!OneLives, Mcp!Underway, Mcp!InState
  <1>5. Mcp!DeadEntryHeals' BY DEF Mcp!DeadEntryHeals, Mcp!Underway, Mcp!InState
  <1>6. Mcp!NoCallForgotten' BY DEF Mcp!Rest, Mcp!NoCallForgotten
  <1> QED BY <1>1, <1>2, <1>3, <1>4, <1>5, <1>6

LEMMA ClosesStep ==
  ASSUME Mcp!IInv, NEW i \in Mcp!Sockets, Mcp!Closes(i)
  PROVE  Mcp!IInv'
  <1> USE ComponentConstants DEF Mcp!Closes, Mcp!IInv, Mcp!TypeOK
  <1>1. Mcp!TypeOK'
    <2>1. sock' \in [Mcp!Sockets -> [state : {"none", "connecting", "initializing", "open", "closing", "closed"},
                             attempts : 0 .. MaxAttempts]]
      <3> DEFINE states == {"none", "connecting", "initializing", "open", "closing", "closed"}
                 n == IF sock[i].attempts < MaxAttempts THEN sock[i].attempts + 1 ELSE sock[i].attempts
      <3>1. sock' = [sock EXCEPT ![i] = [@ EXCEPT !.state = "closed", !.attempts = n]] OBVIOUS
      <3>2. n \in 0 .. MaxAttempts /\ sock[i] \in [state : states, attempts : 0 .. MaxAttempts]
        BY DEF Mcp!ConnectionConstants
      <3> HIDE DEF n
      <3>3. [sock[i] EXCEPT !.state = "closed", !.attempts = n] \in [state : states, attempts : 0 .. MaxAttempts]
        BY <3>2
      <3> QED BY <3>1, <3>3
    <2>2. pending' \in [Mcp!Sockets -> SUBSET ToolCalls] OBVIOUS
    <2>3. entry' \in 0 .. MaxSockets /\ timers' \subseteq Mcp!Sockets BY DEF Mcp!ConnectionConstants
    <2> QED BY <2>1, <2>2, <2>3
  <1>2. Mcp!Rest' BY DEF Mcp!Rest, Mcp!Sockets
  <1>3. Mcp!Fresh' BY DEF Mcp!Fresh, Mcp!Sockets
  <1>4. Mcp!OneLives' BY DEF Mcp!Fresh, Mcp!OneLives, Mcp!Underway, Mcp!InState, Mcp!Sockets
  <1>5. Mcp!DeadEntryHeals' BY DEF Mcp!Fresh, Mcp!DeadEntryHeals, Mcp!Underway, Mcp!InState, Mcp!Sockets
  <1>6. Mcp!NoCallForgotten' BY DEF Mcp!Rest, Mcp!Fresh, Mcp!NoCallForgotten, Mcp!Sockets
  <1> QED BY <1>1, <1>2, <1>3, <1>4, <1>5, <1>6

LEMMA SocketReconnectStep ==
  ASSUME Mcp!IInv, NEW i \in Mcp!Sockets, Mcp!Reconnect(i)
  PROVE  Mcp!IInv'
  <1> USE DEF Mcp!IInv
  <1> DEFINE n == dialled + 1
  <1>1. /\ n \in Mcp!Sockets /\ sock' = [sock EXCEPT ![n] = [state |-> "connecting", attempts |-> 0]]
        /\ dialled' = n /\ timers' = timers \ {i}
        /\ raced' = (raced \/ Mcp!Underway # {} \/ Mcp!InState({"open"}) # {})
        /\ UNCHANGED <<status, entry, pending, pc, held>>
    BY ComponentConstants DEF Mcp!ConnectionConstants, Mcp!Reconnect, Mcp!TypeOK,
         Mcp!Sockets
  <1>2. [state |-> "connecting", attempts |-> 0]
             \in [state : {"none", "connecting", "initializing", "open", "closing", "closed"}, attempts : 0 .. MaxAttempts]
    BY ComponentConstants DEF Mcp!ConnectionConstants
  <1>3. sock' \in [Mcp!Sockets -> [state : {"none", "connecting", "initializing", "open", "closing", "closed"},
                           attempts : 0 .. MaxAttempts]]
    BY <1>1, <1>2 DEF Mcp!TypeOK
  <1>4. sock'[n].state = "connecting" /\ \A j \in Mcp!Sockets : j # n => sock'[j] = sock[j] BY <1>1 DEF Mcp!TypeOK
  <1>5. entry # n /\ sock[n].state = "none" /\ dialled \in Nat BY <1>1 DEF Mcp!TypeOK, Mcp!Fresh, Mcp!Sockets
  <1>6. Mcp!TypeOK' BY <1>1, <1>3 DEF Mcp!TypeOK, Mcp!Sockets
  <1>7. Mcp!Rest' BY <1>1 DEF Mcp!Rest
  <1>8. Mcp!Fresh' BY <1>1, <1>4, <1>5 DEF Mcp!TypeOK, Mcp!Fresh, Mcp!Sockets
  <1>9. Mcp!OneLives'
    <2>1. ASSUME ~raced', NEW j \in Mcp!Sockets,
                 sock'[j].state \in {"connecting", "initializing", "closing", "open"}
          PROVE  j = n
      <3>1. Mcp!Underway = {} /\ Mcp!InState({"open"}) = {} BY <2>1, <1>1 DEF Mcp!Rest
      <3> QED BY <2>1, <3>1, <1>4 DEF Mcp!Underway, Mcp!InState
    <2> QED BY <2>1, <1>4 DEF Mcp!OneLives, Mcp!Underway, Mcp!InState
  <1>10. Mcp!DeadEntryHeals' BY <1>1, <1>4 DEF Mcp!DeadEntryHeals, Mcp!Underway, Mcp!InState
  <1>11. Mcp!NoCallForgotten' BY <1>1, <1>4, <1>5 DEF Mcp!NoCallForgotten
  <1> QED BY <1>6, <1>7, <1>8, <1>9, <1>10, <1>11

LEMMA CallStep ==
  ASSUME Mcp!IInv, NEW c \in ToolCalls, Mcp!Call(c)
  PROVE  Mcp!IInv'
  <1> USE DEF Mcp!IInv, Mcp!TypeOK, Mcp!Call, Mcp!IsOpen, Mcp!Goto
  <1>1. Mcp!TypeOK' BY ComponentConstants DEF Mcp!Rest, Mcp!Fresh, Mcp!Sockets
  <1>2. Mcp!Rest' BY ComponentConstants DEF Mcp!Rest, Mcp!Sockets
  <1>3. Mcp!Fresh' BY ComponentConstants DEF Mcp!Fresh, Mcp!Sockets
  <1>4. Mcp!OneLives'
    BY ComponentConstants DEF Mcp!Fresh, Mcp!OneLives, Mcp!Underway, Mcp!InState,
         Mcp!Sockets
  <1>5. Mcp!DeadEntryHeals'
    BY ComponentConstants DEF Mcp!Fresh, Mcp!DeadEntryHeals, Mcp!Underway,
         Mcp!InState, Mcp!Sockets
  <1>6. Mcp!NoCallForgotten'
    <2>1. CASE Mcp!IsOpen(entry)
      <3>1. /\ pending' = [pending EXCEPT ![entry] = @ \cup {c}] /\ pc' = [pc EXCEPT ![c] = "asked"]
            /\ sock' = sock /\ entry \in Mcp!Sockets
        BY <2>1 DEF Mcp!Sockets
      <3>2. \A i \in Mcp!Sockets : pending[i] \subseteq pending'[i] BY <3>1
      <3>3. c \in pending'[entry] /\ sock'[entry].state = "open" BY <2>1, <3>1
      <3>4. \A d \in ToolCalls : d # c => pc'[d] = pc[d] BY <3>1
      <3> QED BY <3>1, <3>2, <3>3, <3>4 DEF Mcp!NoCallForgotten
    <2>2. CASE ~Mcp!IsOpen(entry) BY <2>2 DEF Mcp!Rest, Mcp!NoCallForgotten, Mcp!Users
    <2> QED BY <2>1, <2>2
  <1> QED BY <1>1, <1>2, <1>3, <1>4, <1>5, <1>6

LEMMA AnswerStep ==
  ASSUME Mcp!IInv, NEW c \in ToolCalls, Mcp!Answer(c)
  PROVE  Mcp!IInv'
  <1> USE ComponentConstants DEF Mcp!IInv, Mcp!TypeOK, Mcp!Fresh,
           Mcp!Sockets, Mcp!Answer, Mcp!Goto, Mcp!Settle
  <1>1. Mcp!TypeOK' BY DEF Mcp!Rest
  <1>2. Mcp!Rest' BY DEF Mcp!Rest
  <1>3. Mcp!Fresh' OBVIOUS
  <1>4. Mcp!OneLives' BY DEF Mcp!OneLives, Mcp!Underway, Mcp!InState
  <1>5. Mcp!DeadEntryHeals' BY DEF Mcp!DeadEntryHeals, Mcp!Underway, Mcp!InState
  <1>6. Mcp!NoCallForgotten' BY DEF Mcp!Rest, Mcp!NoCallForgotten
  <1> QED BY <1>1, <1>2, <1>3, <1>4, <1>5, <1>6

LEMMA TimeoutStep ==
  ASSUME Mcp!IInv, NEW c \in ToolCalls, Mcp!Timeout(c)
  PROVE  Mcp!IInv'
  <1> USE ComponentConstants DEF Mcp!IInv, Mcp!TypeOK, Mcp!Fresh,
           Mcp!Sockets, Mcp!Timeout, Mcp!Goto, Mcp!Settle
  <1>1. Mcp!TypeOK' BY DEF Mcp!Rest
  <1>2. Mcp!Rest' BY DEF Mcp!Rest
  <1>3. Mcp!Fresh' OBVIOUS
  <1>4. Mcp!OneLives' BY DEF Mcp!OneLives, Mcp!Underway, Mcp!InState
  <1>5. Mcp!DeadEntryHeals' BY DEF Mcp!DeadEntryHeals, Mcp!Underway, Mcp!InState
  <1>6. Mcp!NoCallForgotten' BY DEF Mcp!Rest, Mcp!NoCallForgotten
  <1> QED BY <1>1, <1>2, <1>3, <1>4, <1>5, <1>6

LEMMA SocketsInit ==
  Mcp!Init => Mcp!IInv
  <1> USE DEF Mcp!Init
  <1> SUFFICES ASSUME Mcp!Init PROVE Mcp!IInv OBVIOUS
  <1>1. sock \in [Mcp!Sockets -> [state : {"none", "connecting", "initializing", "open", "closing", "closed"},
                          attempts : 0 .. MaxAttempts]]
    BY ComponentConstants DEF Mcp!ConnectionConstants
  <1>2. Mcp!TypeOK BY <1>1, ComponentConstants DEF Mcp!ConnectionConstants, Mcp!TypeOK
  <1>3. Mcp!Rest
    <2>1. 0 \in 0 .. MaxSockets BY ComponentConstants DEF Mcp!ConnectionConstants
    <2>2. held \in [Mcp!Users \cup ToolCalls -> [status : {"inactive", "active", "error", "gone"}, socket : 0 .. MaxSockets]]
      BY <2>1
    <2> QED BY <2>2 DEF Mcp!Rest
  <1>4. Mcp!Fresh /\ Mcp!OneLives /\ Mcp!DeadEntryHeals
    BY DEF Mcp!Fresh, Mcp!OneLives, Mcp!DeadEntryHeals, Mcp!Underway,
         Mcp!InState, Mcp!Sockets
  <1>5. Mcp!NoCallForgotten BY DEF Mcp!NoCallForgotten, Mcp!Users
  <1> QED BY <1>2, <1>3, <1>4, <1>5 DEF Mcp!IInv


LEMMA SocketsStep ==
  ASSUME Mcp!IInv, Mcp!Next
  PROVE  Mcp!IInv'
  BY SocketLoadStep, SocketConnectStep, SocketConnectedStep, DropStep, DroppedStep, OpensStep,
       InitializedStep, GiveUpStep, ClosesStep,
     SocketReconnectStep, CallStep, AnswerStep, TimeoutStep DEF Mcp!Next

LEMMA SocketsStay ==
  ASSUME Mcp!IInv, UNCHANGED Mcp!vars
  PROVE  Mcp!IInv'
  BY DEF Mcp!vars, Mcp!IInv, Mcp!TypeOK, Mcp!Rest, Mcp!Fresh,
       Mcp!OneLives, Mcp!DeadEntryHeals, Mcp!NoCallForgotten, Mcp!Underway,
       Mcp!InState

LEMMA SocketsAre ==
  ASSUME Mcp!IInv
  PROVE  Mcp!TypeOK /\ Mcp!OneSocketInTurn /\ Mcp!DeadEntryHeals /\ Mcp!NoCallForgotten
  <1>1. ASSUME ~raced
        PROVE  Cardinality(Mcp!InState({"open"})) <= 1 /\ Mcp!InState({"open"}) \subseteq {entry}
    <2>1. Mcp!InState({"open"}) \subseteq {entry} BY <1>1 DEF Mcp!IInv, Mcp!OneLives, Mcp!InState
    <2>2. CASE Mcp!InState({"open"}) = {} BY <2>1, <2>2, FS_EmptySet
    <2>3. CASE Mcp!InState({"open"}) = {entry}
      <3>1. Cardinality({entry}) = 1 BY FS_Singleton
      <3> QED BY <2>1, <2>3, <3>1
    <2> QED BY <2>1, <2>2, <2>3
  <1> QED BY <1>1, SocketsCounts DEF Mcp!IInv, Mcp!OneSocketInTurn

LEMMA SocketsAlways == Spec => [](which = "Mcp" => Mcp!IInv)
  <1> DEFINE I == which = "Mcp" => Mcp!IInv
  <1>1. Init => I BY SocketsInit, ComponentConstants DEF Init
  <1>2. I /\ [Next]_vars => I'
    <2>1. ASSUME Mcp!IInv, [Mcp!Next]_Mcp!vars PROVE Mcp!IInv' BY <2>1, SocketsStep, SocketsStay, ComponentConstants
    <2>2. ASSUME [Next]_vars, which' = "Mcp"
          PROVE  which = "Mcp" /\ [Mcp!Next]_Mcp!vars
      BY <2>2 DEF Next, vars, Mcp!vars
    <2> QED BY <2>1, <2>2
  <1> QED BY <1>1, <1>2, PTL DEF Spec

------------------------
\* The tools: a synchronisation in turn has one new row of each tool it is done with, and a
\* call let through in turn has room in the log (Tool!IInv).

\* FiniteSets is the same there as here.
LEMMA ToolsCounts ==
  \A S : Tool!Cardinality(S) = Cardinality(S) /\ (Tool!IsFiniteSet(S) <=> IsFiniteSet(S))
  BY DEF Cardinality, Tool!Cardinality, IsFiniteSet, Tool!IsFiniteSet



ToolsLabels == {"absent", "idle", "syncing", "upserting", "saving", "checking", "running", "logging", "done"}
ToolsProcesses == Syncs \cup Toggles \cup ToolCalls
ToolsRecord == [todo : SUBSET Names, on : BOOLEAN, ids : SUBSET (1 .. last)]

\* A tool taken out of some is one of them.
LEMMA FirstIs == \A S : S # {} => (CHOOSE x \in S : TRUE) \in S
  OBVIOUS

LEMMA ToolsGotoIs ==
  ASSUME Tool!IInv, NEW p \in ToolsProcesses, NEW l \in ToolsLabels, Tool!Goto(p, l)
  PROVE  pc' \in [ToolsProcesses -> ToolsLabels] /\ pc'[p] = l /\ \A q \in ToolsProcesses \ {p} : pc'[q] = pc[q]
  BY DEF Tool!IInv, Tool!Places, Tool!Goto, ToolsLabels, ToolsProcesses

\* What is written of one process is not written of another.
LEMMA ToolsHeldIs ==
  ASSUME Tool!IInv, NEW p \in ToolsProcesses, NEW v \in ToolsRecord,
         held' = [held EXCEPT ![p] = v]
  PROVE  held' \in [ToolsProcesses -> ToolsRecord] /\ held'[p] = v /\ \A q \in ToolsProcesses \ {p} : held'[q] = held[q]
  BY DEF Tool!IInv, Tool!Kinds, ToolsRecord, ToolsProcesses

\* Who begins in turn finds nobody at work.
LEMMA OverlapIs ==
  ASSUME Tool!IInv, NEW p \in ToolsProcesses, pc[p] = "idle", Tool!Overlap(p)
  PROVE  /\ raced' \in BOOLEAN /\ crowded' \in BOOLEAN
         /\ ~raced' => ~raced /\ (p \notin ToolCalls => Tool!Busy(Syncs) = {}) /\ (p \in Syncs => Tool!Busy(Toggles) = {})
         /\ ~crowded' => /\ ~crowded
                         /\ p \in ToolCalls \cup Syncs => \A c \in ToolCalls : pc[c] \notin {"checking", "running"}
                         /\ p \in ToolCalls => Tool!Busy(Syncs) = {}
  <1>1. p \notin Tool!Busy(Syncs) /\ p \notin Tool!Busy(Toggles) BY DEF Tool!Busy
  <1>2. raced' = (raced \/ (p \notin ToolCalls /\ Tool!Busy(Syncs) # {}) \/ (p \in Syncs /\ Tool!Busy(Toggles) # {}))
    BY <1>1 DEF Tool!Overlap
  <1>3. LET calls == {c \in ToolCalls : pc[c] \in {"checking", "running"}} IN
        crowded' = (crowded \/ (p \in ToolCalls /\ (calls \cup Tool!Busy(Syncs) # {})) \/ (p \in Syncs /\ calls # {}))
    BY <1>1 DEF Tool!Overlap
  <1>4. raced \in BOOLEAN /\ crowded \in BOOLEAN BY DEF Tool!IInv, Tool!Kinds
  <1>5. raced' \in BOOLEAN /\ crowded' \in BOOLEAN BY <1>2, <1>3, <1>4
  <1> QED BY <1>2, <1>3, <1>4, <1>5

\* The calls in some places can be counted.
LEMMA AtIs ==
  ASSUME NEW L
  PROVE  /\ IsFiniteSet(Tool!At(L)) /\ Cardinality(Tool!At(L)) \in Nat /\ Cardinality(Tool!At(L)) <= Cardinality(ToolCalls)
         /\ Cardinality(Tool!At(L)') \in Nat /\ Cardinality(Tool!At(L)') <= Cardinality(ToolCalls)
         /\ Cardinality(ToolCalls) \in Nat
  <1>1. IsFiniteSet(ToolCalls) /\ Tool!At(L) \subseteq ToolCalls /\ Tool!At(L)' \subseteq ToolCalls
    BY ComponentConstants, ToolsCounts DEF Tool!ToolConstants, Tool!At
  <1> QED BY <1>1, FS_Subset, FS_CardinalityType, ToolsCounts

\* A call that comes to one of them is one more.
LEMMA AtMore ==
  ASSUME NEW L, NEW c \in ToolCalls, c \notin Tool!At(L), Tool!At(L)' = Tool!At(L) \cup {c}
  PROVE  Cardinality(Tool!At(L)') = Cardinality(Tool!At(L)) + 1
  BY AtIs, FS_AddElement, ToolsCounts

\* The log has no more than the rows of the calls that were run.
LEMMA LoggedIs ==
  ASSUME Tool!IInv, logged' \in Nat, Tool!Logged'
  PROVE  logged' \in 0 .. 2 * Cardinality(ToolCalls)
  <1> DEFINE a == Cardinality(Tool!At({"logging", "done"})')
             b == Cardinality(Tool!At({"done"})')
             k == Cardinality(ToolCalls)
  <1>1. a \in Nat /\ b \in Nat /\ k \in Nat /\ a <= k /\ b <= k BY AtIs
  <1>2. logged' <= a + b BY ToolsCounts DEF Tool!Logged
  <1> HIDE DEF a, b, k
  <1>3. logged' \in 0 .. 2 * k BY <1>1, <1>2
  <1> QED BY <1>3 DEF k

\* Who does not move a call leaves the log right.
LEMMA LoggedStays ==
  ASSUME Tool!IInv, UNCHANGED logged, \A c \in ToolCalls : pc'[c] = pc[c]
  PROVE  Tool!Logged'
  <1>1. /\ Tool!At({"logging", "done"})' = Tool!At({"logging", "done"})
        /\ Tool!At({"done"})' = Tool!At({"done"})
    BY DEF Tool!At
  <1> QED BY <1>1 DEF Tool!IInv, Tool!Logged

\* Who inserts and removes nothing leaves one row of each tool.
LEMMA SettledStays ==
  ASSUME Tool!IInv, UNCHANGED <<toolkit, rows>>, raced => raced', halved => halved',
         {raced', halved'} \subseteq BOOLEAN, Tool!Busy(Syncs) \subseteq Tool!Busy(Syncs)',
         \A s \in Tool!Busy(Syncs) : held'[s].ids = held[s].ids,
         \A s \in Tool!Busy(Syncs)' \ Tool!Busy(Syncs) : held'[s].ids = {}
  PROVE  Tool!OldOnce'
  <1>1. Tool!Settled' = Tool!Settled BY DEF Tool!Settled
  <1> QED BY <1>1 DEF Tool!IInv, Tool!Kinds, Tool!OldOnce, Tool!Single

LEMMA ListStep ==
  ASSUME Tool!IInv, NEW s \in Syncs, Tool!List(s)
  PROVE  Tool!IInv'
  <1>1. Tool!TypeOK'
    BY ComponentConstants DEF Tool!ToolConstants, Tool!IInv, Tool!TypeOK, Tool!Kinds,
         Tool!List, Tool!Goto, Tool!registry, Tool!midway, Tool!Overlap, Tool!Ids
  <1>2. Tool!Places'
    BY ComponentConstants DEF Tool!ToolConstants, Tool!IInv, Tool!TypeOK,
         Tool!Places, Tool!Kinds, Tool!List, Tool!Goto, Tool!registry, Tool!midway,
         Tool!Overlap, Tool!Ids
  <1>3. Tool!Kinds'
    BY ComponentConstants DEF Tool!ToolConstants, Tool!IInv, Tool!TypeOK,
         Tool!Places, Tool!Kinds, Tool!List, Tool!Goto, Tool!registry, Tool!midway,
         Tool!Overlap, Tool!Ids
  <1>4. Tool!Logged'
    BY LoggedStays, ComponentConstants DEF Tool!IInv, Tool!ToolConstants, Tool!Places,
         Tool!List, Tool!Goto, Tool!registry, Tool!midway, Tool!Overlap
  <1>5. Tool!MadeOnce'
    BY ComponentConstants DEF Tool!ToolConstants, Tool!IInv, Tool!TypeOK,
         Tool!Places, Tool!Kinds, Tool!MadeOnce, Tool!Busy, Tool!Single,
         Tool!Mine, Tool!List, Tool!Goto, Tool!registry, Tool!midway, Tool!Overlap, Tool!Ids
  <1>6. Tool!Alone'
    <2>1. s \in ToolsProcesses /\ pc[s] = "idle" /\ Tool!Overlap(s) /\ Tool!Goto(s, "syncing") /\ "syncing" \in ToolsLabels
      BY DEF Tool!List, ToolsProcesses, ToolsLabels
    <2>2. pc'[s] = "syncing" /\ \A q \in ToolsProcesses \ {s} : pc'[q] = pc[q] BY <2>1, ToolsGotoIs
    <2>3. s \notin ToolCalls /\ s \notin Toggles BY ComponentConstants DEF Tool!ToolConstants
    <2>4. ~raced' => Tool!Busy(Syncs) = {} /\ Tool!Busy(Toggles) = {} BY <2>1, <2>3, OverlapIs
    <2> QED BY <2>2, <2>3, <2>4 DEF Tool!Alone, Tool!Busy, ToolsProcesses
  <1>7. Tool!OldOnce'
    <2>1. s \in ToolsProcesses /\ pc[s] = "idle" /\ Tool!Overlap(s) /\ Tool!Goto(s, "syncing") /\ "syncing" \in ToolsLabels
      BY DEF Tool!List, ToolsProcesses, ToolsLabels
    <2>2. pc'[s] = "syncing" /\ \A q \in ToolsProcesses \ {s} : pc'[q] = pc[q] BY <2>1, ToolsGotoIs
    <2>3. s \notin ToolCalls /\ s \notin Toggles BY ComponentConstants DEF Tool!ToolConstants
    <2>4. ~raced' => ~raced /\ Tool!Busy(Syncs) = {} /\ Tool!Busy(Toggles) = {} BY <2>1, <2>3, OverlapIs
    <2>5. PICK names \in SUBSET Names : held' = [held EXCEPT ![s] = [todo |-> names, on |-> TRUE, ids |-> {}]]
      BY DEF Tool!List
    <2>6. [todo |-> names, on |-> TRUE, ids |-> {}] \in ToolsRecord BY DEF ToolsRecord
    <2>7. held'[s] = [todo |-> names, on |-> TRUE, ids |-> {}] /\ \A q \in ToolsProcesses \ {s} : held'[q] = held[q]
      BY <2>1, <2>5, <2>6, ToolsHeldIs
    <2>8. UNCHANGED <<toolkit, rows, halved>> BY DEF Tool!List, Tool!registry, Tool!midway
    <2>9. raced' \in BOOLEAN /\ halved' \in BOOLEAN /\ (raced => raced')
      BY <2>1, <2>4, <2>8, OverlapIs DEF Tool!IInv, Tool!Kinds
    <2>10. s \notin Tool!Busy(Syncs) /\ Tool!Busy(Syncs)' = Tool!Busy(Syncs) \cup {s}
      BY <2>1, <2>2 DEF Tool!Busy, ToolsProcesses
    <2>11. Tool!Busy(Syncs) \subseteq ToolsProcesses \ {s} BY <2>10 DEF Tool!Busy, ToolsProcesses
    <2> QED BY <2>7, <2>8, <2>9, <2>10, <2>11, SettledStays
  <1>8. Tool!Chosen'
    <2>1. s \in ToolsProcesses /\ pc[s] = "idle" /\ Tool!Overlap(s) /\ Tool!Goto(s, "syncing") /\ "syncing" \in ToolsLabels
      BY DEF Tool!List, ToolsProcesses, ToolsLabels
    <2>2. pc'[s] = "syncing" /\ \A q \in ToolsProcesses \ {s} : pc'[q] = pc[q] BY <2>1, ToolsGotoIs
    <2>3. s \notin ToolCalls /\ s \notin Toggles BY ComponentConstants DEF Tool!ToolConstants
    <2>4. ~raced' => ~raced /\ Tool!Busy(Syncs) = {} /\ Tool!Busy(Toggles) = {} BY <2>1, <2>3, OverlapIs
    <2>5. PICK names \in SUBSET Names : held' = [held EXCEPT ![s] = [todo |-> names, on |-> TRUE, ids |-> {}]]
      BY DEF Tool!List
    <2>6. [todo |-> names, on |-> TRUE, ids |-> {}] \in ToolsRecord BY DEF ToolsRecord
    <2>7. held'[s] = [todo |-> names, on |-> TRUE, ids |-> {}] /\ \A q \in ToolsProcesses \ {s} : held'[q] = held[q]
      BY <2>1, <2>5, <2>6, ToolsHeldIs
    <2>8. UNCHANGED <<toolkit, rows, choice, torn>> BY DEF Tool!List, Tool!registry, Tool!midway
    <2>9. ASSUME toolkit', ~raced'
          PROVE  /\ ~torn => \A r \in rows : r.on = choice[r.name]
                 /\ \A p \in Syncs : pc'[p] # "upserting"
                 /\ \A t \in Toggles : t \notin Tool!Busy(Toggles)'
      <3>1. toolkit /\ ~raced /\ Tool!Busy(Syncs) = {} /\ Tool!Busy(Toggles) = {} BY <2>4, <2>8, <2>9
      <3>2. ~torn => \A r \in rows : r.on = choice[r.name] BY <3>1 DEF Tool!IInv, Tool!Chosen
      <3> QED BY <3>1, <3>2, <2>2, <2>3 DEF Tool!Busy, ToolsProcesses
    <2>10. Tool!Busy(Toggles)' \subseteq Toggles BY DEF Tool!Busy
    <2> QED BY <2>8, <2>9, <2>10 DEF Tool!Chosen
  <1>9. Tool!Room'
    <2>1. s \in ToolsProcesses /\ pc[s] = "idle" /\ Tool!Overlap(s) /\ Tool!Goto(s, "syncing") /\ "syncing" \in ToolsLabels
      BY DEF Tool!List, ToolsProcesses, ToolsLabels
    <2>2. pc'[s] = "syncing" /\ \A q \in ToolsProcesses \ {s} : pc'[q] = pc[q] BY <2>1, ToolsGotoIs
    <2>3. s \notin ToolCalls BY ComponentConstants DEF Tool!ToolConstants
    <2>4. ~crowded' => ~crowded /\ \A c \in ToolCalls : pc[c] \notin {"checking", "running"} BY <2>1, OverlapIs
    <2>5. PICK names \in SUBSET Names : held' = [held EXCEPT ![s] = [todo |-> names, on |-> TRUE, ids |-> {}]]
      BY DEF Tool!List
    <2>6. [todo |-> names, on |-> TRUE, ids |-> {}] \in ToolsRecord BY DEF ToolsRecord
    <2>7. held'[s].ids = {} /\ \A q \in ToolsProcesses \ {s} : held'[q] = held[q] BY <2>1, <2>5, <2>6, ToolsHeldIs
    <2>8. UNCHANGED <<toolkit, rows, limits, logged, made>> BY DEF Tool!List, Tool!registry
    <2>9. \A c \in ToolCalls : pc'[c] = pc[c] BY <2>2, <2>3 DEF ToolsProcesses
    <2>10. \A q \in Tool!Busy(Syncs)' : q = s \/ (q \in Tool!Busy(Syncs) /\ held'[q] = held[q])
      BY <2>2, <2>7 DEF Tool!Busy, ToolsProcesses
    <2> QED BY <2>4, <2>7, <2>8, <2>9, <2>10 DEF Tool!IInv, Tool!Room, Tool!Mine
  <1>10. Tool!LimitHolds'
    BY ComponentConstants DEF Tool!ToolConstants, Tool!IInv, Tool!TypeOK,
         Tool!Places, Tool!Kinds, Tool!Room, Tool!LimitHolds, Tool!Busy,
         Tool!List, Tool!Goto, Tool!registry, Tool!midway, Tool!Overlap, Tool!Ids
  <1> QED BY <1>1, <1>2, <1>3, <1>4, <1>5, <1>6, <1>7, <1>8, <1>9, <1>10 DEF Tool!IInv

LEMMA ToolsFindStep ==
  ASSUME Tool!IInv, NEW s \in Syncs, Tool!Find(s)
  PROVE  Tool!IInv'
  <1>1. Tool!TypeOK'
    BY ComponentConstants DEF Tool!ToolConstants, Tool!IInv, Tool!TypeOK, Tool!Kinds,
         Tool!Find, Tool!Goto, Tool!registry, Tool!midway, Tool!Ids
  <1>2. Tool!Places'
    BY ComponentConstants DEF Tool!ToolConstants, Tool!IInv, Tool!TypeOK,
         Tool!Places, Tool!Kinds, Tool!Due, Tool!Find, Tool!Goto,
         Tool!registry, Tool!midway, Tool!Ids
  <1>3. Tool!Kinds'
    <2> DEFINE n == Tool!Due(s)
    <2>1. s \in ToolsProcesses /\ pc[s] = "syncing" /\ Tool!Goto(s, "upserting") /\ "upserting" \in ToolsLabels /\ held[s].todo # {}
      BY DEF Tool!Find, ToolsProcesses, ToolsLabels
    <2>2. pc'[s] = "upserting" /\ \A q \in ToolsProcesses \ {s} : pc'[q] = pc[q] BY <2>1, ToolsGotoIs
    <2>3. s \notin ToolCalls /\ s \notin Toggles BY ComponentConstants DEF Tool!ToolConstants
    <2>4. UNCHANGED <<toolkit, rows, last, choice, raced, halved, torn>>
      BY DEF Tool!Find, Tool!registry, Tool!midway
    <2>5. PICK on \in BOOLEAN : /\ held' = [held EXCEPT ![s].on = on]
                                /\ \/ toolkit /\ \E r \in Tool!Named(n) : on = r.on
                                   \/ (toolkit => Tool!Named(n) = {}) /\ on = ~toolkit
      <3>1. \A r \in rows : r.on \in BOOLEAN BY DEF Tool!IInv, Tool!TypeOK
      <3> QED BY <3>1 DEF Tool!Find, Tool!Named, Tool!IInv, Tool!Kinds
    <2> DEFINE w == [held[s] EXCEPT !.on = on]
    <2>6. held[s] \in ToolsRecord BY <2>1 DEF Tool!IInv, Tool!Kinds, ToolsRecord, ToolsProcesses
    <2>7. w \in ToolsRecord /\ w.todo = held[s].todo /\ w.ids = held[s].ids /\ w.on = on BY <2>6 DEF ToolsRecord
    <2>8. held' = [held EXCEPT ![s] = w] BY <2>5
    <2> HIDE DEF w
    <2>9. held' \in [ToolsProcesses -> ToolsRecord] /\ held'[s] = w /\ \A q \in ToolsProcesses \ {s} : held'[q] = held[q]
      BY <2>1, <2>7, <2>8, ToolsHeldIs
    <2>10. Tool!Due(s)' = n /\ Tool!Named(n)' = Tool!Named(n) BY <2>4, <2>7, <2>9 DEF Tool!Named, Tool!Due
    <2> QED
      BY <2>4, <2>9 DEF Tool!IInv, Tool!Kinds, ToolsRecord, ToolsProcesses,
           Tool!Find, Tool!registry, Tool!midway
  <1>4. Tool!Logged'
    BY LoggedStays, ComponentConstants DEF Tool!IInv, Tool!ToolConstants, Tool!Places,
         Tool!Find, Tool!Goto, Tool!registry, Tool!midway
  <1>5. Tool!MadeOnce'
    BY ComponentConstants DEF Tool!ToolConstants, Tool!IInv, Tool!TypeOK,
         Tool!Places, Tool!Kinds, Tool!MadeOnce, Tool!Busy, Tool!Single,
         Tool!Mine, Tool!Due, Tool!Find, Tool!Goto, Tool!registry, Tool!midway, Tool!Ids
  <1>6. Tool!Alone'
    BY ComponentConstants DEF Tool!ToolConstants, Tool!IInv, Tool!Places, Tool!Alone,
         Tool!Busy, Tool!Find, Tool!Goto, Tool!registry, Tool!midway
  <1>7. Tool!OldOnce'
    <2> DEFINE n == Tool!Due(s)
    <2>1. s \in ToolsProcesses /\ pc[s] = "syncing" /\ Tool!Goto(s, "upserting") /\ "upserting" \in ToolsLabels /\ held[s].todo # {}
      BY DEF Tool!Find, ToolsProcesses, ToolsLabels
    <2>2. pc'[s] = "upserting" /\ \A q \in ToolsProcesses \ {s} : pc'[q] = pc[q] BY <2>1, ToolsGotoIs
    <2>3. s \notin ToolCalls /\ s \notin Toggles BY ComponentConstants DEF Tool!ToolConstants
    <2>4. UNCHANGED <<toolkit, rows, last, choice, raced, halved, torn>>
      BY DEF Tool!Find, Tool!registry, Tool!midway
    <2>5. PICK on \in BOOLEAN : /\ held' = [held EXCEPT ![s].on = on]
                                /\ \/ toolkit /\ \E r \in Tool!Named(n) : on = r.on
                                   \/ (toolkit => Tool!Named(n) = {}) /\ on = ~toolkit
      <3>1. \A r \in rows : r.on \in BOOLEAN BY DEF Tool!IInv, Tool!TypeOK
      <3> QED BY <3>1 DEF Tool!Find, Tool!Named, Tool!IInv, Tool!Kinds
    <2> DEFINE w == [held[s] EXCEPT !.on = on]
    <2>6. held[s] \in ToolsRecord BY <2>1 DEF Tool!IInv, Tool!Kinds, ToolsRecord, ToolsProcesses
    <2>7. w \in ToolsRecord /\ w.todo = held[s].todo /\ w.ids = held[s].ids /\ w.on = on BY <2>6 DEF ToolsRecord
    <2>8. held' = [held EXCEPT ![s] = w] BY <2>5
    <2> HIDE DEF w
    <2>9. held' \in [ToolsProcesses -> ToolsRecord] /\ held'[s] = w /\ \A q \in ToolsProcesses \ {s} : held'[q] = held[q]
      BY <2>1, <2>7, <2>8, ToolsHeldIs
    <2>10. Tool!Due(s)' = n /\ Tool!Named(n)' = Tool!Named(n) BY <2>4, <2>7, <2>9 DEF Tool!Named, Tool!Due
    <2>11. Tool!Busy(Syncs)' = Tool!Busy(Syncs) BY <2>1, <2>2 DEF Tool!Busy, ToolsProcesses
    <2>12. \A q \in Tool!Busy(Syncs) : held'[q].ids = held[q].ids BY <2>7, <2>9 DEF Tool!Busy, ToolsProcesses
    <2>13. {raced', halved'} \subseteq BOOLEAN BY <2>4 DEF Tool!IInv, Tool!Kinds
    <2> QED BY <2>4, <2>11, <2>12, <2>13, SettledStays
  <1>8. Tool!Chosen'
    <2> DEFINE n == Tool!Due(s)
    <2>1. s \in ToolsProcesses /\ pc[s] = "syncing" /\ Tool!Goto(s, "upserting") /\ "upserting" \in ToolsLabels /\ held[s].todo # {}
      BY DEF Tool!Find, ToolsProcesses, ToolsLabels
    <2>2. pc'[s] = "upserting" /\ \A q \in ToolsProcesses \ {s} : pc'[q] = pc[q] BY <2>1, ToolsGotoIs
    <2>3. s \notin ToolCalls /\ s \notin Toggles BY ComponentConstants DEF Tool!ToolConstants
    <2>4. UNCHANGED <<toolkit, rows, last, choice, raced, halved, torn>>
      BY DEF Tool!Find, Tool!registry, Tool!midway
    <2>5. PICK on \in BOOLEAN : /\ held' = [held EXCEPT ![s].on = on]
                                /\ \/ toolkit /\ \E r \in Tool!Named(n) : on = r.on
                                   \/ (toolkit => Tool!Named(n) = {}) /\ on = ~toolkit
      <3>1. \A r \in rows : r.on \in BOOLEAN BY DEF Tool!IInv, Tool!TypeOK
      <3> QED BY <3>1 DEF Tool!Find, Tool!Named, Tool!IInv, Tool!Kinds
    <2> DEFINE w == [held[s] EXCEPT !.on = on]
    <2>6. held[s] \in ToolsRecord BY <2>1 DEF Tool!IInv, Tool!Kinds, ToolsRecord, ToolsProcesses
    <2>7. w \in ToolsRecord /\ w.todo = held[s].todo /\ w.ids = held[s].ids /\ w.on = on BY <2>6 DEF ToolsRecord
    <2>8. held' = [held EXCEPT ![s] = w] BY <2>5
    <2> HIDE DEF w
    <2>9. held' \in [ToolsProcesses -> ToolsRecord] /\ held'[s] = w /\ \A q \in ToolsProcesses \ {s} : held'[q] = held[q]
      BY <2>1, <2>7, <2>8, ToolsHeldIs
    <2>10. Tool!Due(s)' = n /\ Tool!Named(n)' = Tool!Named(n) BY <2>4, <2>7, <2>9 DEF Tool!Named, Tool!Due
    <2> HIDE DEF n
    <2> SUFFICES ASSUME toolkit, ~raced PROVE Tool!Chosen' BY <2>4 DEF Tool!Chosen
    <2>11. ~torn => \A r \in rows : r.on = choice[r.name] BY DEF Tool!IInv, Tool!Chosen
    <2>12. ~torn /\ Tool!Named(n) # {} => on = choice[n]
      <3> SUFFICES ASSUME ~torn, Tool!Named(n) # {} PROVE on = choice[n] OBVIOUS
      <3>1. PICK r \in Tool!Named(n) : on = r.on BY <2>5
      <3> QED BY <3>1, <2>11 DEF Tool!Named
    <2>13. ASSUME NEW p \in Syncs, pc'[p] = "upserting", ~torn
           PROVE  Tool!Named(Tool!Due(p))' # {} => held'[p].on = choice'[Tool!Due(p)']
      <3>1. CASE p = s
        <4>1. Tool!Named(Tool!Due(s))' = Tool!Named(n) BY <2>4, <2>10 DEF Tool!Named
        <4> QED BY <3>1, <4>1, <2>4, <2>7, <2>9, <2>10, <2>12, <2>13
      <3>2. CASE p # s
        <4>1. pc[p] = "upserting" /\ held'[p] = held[p] BY <2>13, <3>2, <2>2, <2>9 DEF ToolsProcesses
        <4>2. Tool!Named(Tool!Due(p)) # {} => held[p].on = choice[Tool!Due(p)]
          BY <4>1, <2>13 DEF Tool!IInv, Tool!Chosen
        <4>3. Tool!Due(p)' = Tool!Due(p) /\ Tool!Named(Tool!Due(p))' = Tool!Named(Tool!Due(p))
          BY <4>1, <2>4 DEF Tool!Named, Tool!Due
        <4> QED BY <4>1, <4>2, <4>3, <2>4
      <3> QED BY <3>1, <3>2
    <2>14. \A t \in Tool!Busy(Toggles)' : t \in Tool!Busy(Toggles) /\ held'[t] = held[t]
      BY <2>2, <2>3, <2>9 DEF Tool!Busy, ToolsProcesses
    <2>15. \A t \in Tool!Busy(Toggles), r \in rows : r.id \in held[t].ids => r.name \in held[t].todo
      BY DEF Tool!IInv, Tool!Chosen
    <2>16. ~torn => \A p \in Syncs : pc'[p] = "upserting" /\ Tool!Named(Tool!Due(p))' # {} =>
                       held'[p].on = choice'[Tool!Due(p)']
      BY <2>13
    <2>17. \A t \in Tool!Busy(Toggles)', r \in rows' : r.id \in held'[t].ids => r.name \in held'[t].todo
      BY <2>4, <2>14, <2>15
    <2>18. ~torn' => \A r \in rows' : r.on = choice'[r.name] BY <2>4, <2>11
    <2>19. ~torn' => \A p \in Syncs : pc'[p] = "upserting" /\ Tool!Named(Tool!Due(p))' # {} =>
                         held'[p].on = choice'[Tool!Due(p)']
      BY <2>4, <2>16
    <2> QED BY <2>17, <2>18, <2>19, Zenon DEF Tool!Chosen
  <1>9. Tool!Room'
    <2>1. s \notin ToolCalls /\ s \in ToolsProcesses BY ComponentConstants DEF Tool!ToolConstants, ToolsProcesses
    <2>2. UNCHANGED <<toolkit, rows, limits, logged, crowded, halved, made>>
      BY DEF Tool!Find, Tool!registry, Tool!midway
    <2>3. \A c \in ToolCalls : pc'[c] = pc[c] /\ held'[c] = held[c]
      BY <2>1 DEF Tool!Find, Tool!Goto, Tool!IInv, Tool!Places, Tool!Kinds
    <2>4. Tool!Busy(Syncs)' = Tool!Busy(Syncs) /\ Tool!Busy(Syncs) \subseteq Syncs
      BY DEF Tool!Find, Tool!Goto, Tool!IInv, Tool!Places, Tool!Busy
    <2>5. \A q \in Syncs : held'[q].ids = held[q].ids
      <3>1. held[s] \in ToolsRecord /\ held \in [ToolsProcesses -> ToolsRecord]
        BY <2>1 DEF Tool!IInv, Tool!Kinds, ToolsRecord, ToolsProcesses
      <3> QED BY <3>1 DEF Tool!Find, ToolsRecord, ToolsProcesses
    <2> QED BY <2>2, <2>3, <2>4, <2>5 DEF Tool!IInv, Tool!Room, Tool!Mine
  <1>10. Tool!LimitHolds'
    BY ComponentConstants DEF Tool!ToolConstants, Tool!IInv, Tool!TypeOK,
         Tool!Places, Tool!Kinds, Tool!Room, Tool!LimitHolds, Tool!Busy,
         Tool!Find, Tool!Goto, Tool!registry, Tool!midway, Tool!Ids
  <1> QED BY <1>1, <1>2, <1>3, <1>4, <1>5, <1>6, <1>7, <1>8, <1>9, <1>10 DEF Tool!IInv

LEMMA UpsertStep ==
  ASSUME Tool!IInv, NEW s \in Syncs, Tool!Upsert(s)
  PROVE  Tool!IInv'
  <1> USE DEF Tool!Upsert, Tool!midway, Tool!IInv, Tool!Kinds
  <1>1. Tool!TypeOK'
    <2> DEFINE n == Tool!Due(s)
               new == [id |-> last + 1, name |-> n, on |-> held[s].on]
    <2>1. n \in Names /\ held[s].on \in BOOLEAN
      <3>1. held[s].todo # {} /\ held[s].todo \subseteq Names /\ held[s].on \in BOOLEAN BY DEF Tool!Places
      <3> QED BY <3>1, FirstIs DEF Tool!Due
    <2>2. last + 1 \in 1 .. MaxRows BY ComponentConstants DEF Tool!ToolConstants
    <2>3. new \in [id : 1 .. MaxRows, name : Names, on : BOOLEAN] BY <2>1, <2>2
    <2>4. rows' = rows \cup {new} /\ UNCHANGED <<limits, approvals, logged>> OBVIOUS
    <2>5. choice' \in [Names -> BOOLEAN] BY <2>1 DEF Tool!TypeOK
    <2> HIDE DEF new
    <2> QED BY <2>3, <2>4, <2>5 DEF Tool!TypeOK, Tool!Ids
  <1>2. Tool!Places'
    BY ComponentConstants DEF Tool!ToolConstants, Tool!TypeOK, Tool!Places, Tool!Due,
         Tool!Goto, Tool!Ids
  <1>3. Tool!Kinds'
    <2> DEFINE n == Tool!Due(s)
               new == [id |-> last + 1, name |-> n, on |-> held[s].on]
               w == [held[s] EXCEPT !.todo = @ \ {n}, !.ids = @ \cup {last + 1}]
    <2>1. s \in ToolsProcesses /\ held[s] \in ToolsRecord /\ last \in Nat /\ last + 1 \in 1 .. MaxRows
      BY ComponentConstants DEF Tool!ToolConstants, ToolsRecord, ToolsProcesses
    <2>2. held' = [held EXCEPT ![s] = w] OBVIOUS
    <2>3. w \in [todo : SUBSET Names, on : BOOLEAN, ids : SUBSET (1 .. last + 1)]
      <3>1. held[s].todo \ {n} \in SUBSET Names /\ held[s].ids \cup {last + 1} \in SUBSET (1 .. last + 1)
        BY <2>1 DEF ToolsRecord
      <3> QED BY <2>1, <3>1 DEF ToolsRecord
    <2>4. \A q \in ToolsProcesses : held[q] \in [todo : SUBSET Names, on : BOOLEAN, ids : SUBSET (1 .. last + 1)]
      <3>1. 1 .. last \subseteq 1 .. last + 1 BY <2>1
      <3> QED BY <3>1 DEF ToolsProcesses
    <2> HIDE DEF w
    <2>5. held' \in [ToolsProcesses -> [todo : SUBSET Names, on : BOOLEAN, ids : SUBSET (1 .. last + 1)]]
      BY <2>1, <2>2, <2>3, <2>4 DEF ToolsProcesses
    <2>6. rows' = rows \cup {new} /\ last' = last + 1 /\ new.id = last + 1 OBVIOUS
    <2> HIDE DEF new
    <2>7. (\A r \in rows' : r.id <= last') /\ \A r, q \in rows' : r.id = q.id => r = q
      <3>1. \A r \in rows : r.id \in Nat /\ r.id <= last BY DEF Tool!TypeOK
      <3> QED BY <3>1, <2>1, <2>6
    <2>8. UNCHANGED <<toolkit, made, raced, crowded>> OBVIOUS
    <2> QED BY <2>1, <2>5, <2>6, <2>7, <2>8 DEF ToolsProcesses
  <1>4. Tool!Logged' BY ComponentConstants DEF Tool!ToolConstants, Tool!Logged, Tool!Places, Tool!At, Tool!Goto
  <1>5. Tool!MadeOnce'
    BY ComponentConstants DEF Tool!ToolConstants, Tool!TypeOK, Tool!Places, Tool!MadeOnce,
         Tool!Busy, Tool!Single, Tool!Mine, Tool!Due, Tool!Goto, Tool!Ids
  <1>6. Tool!Alone' BY ComponentConstants DEF Tool!ToolConstants, Tool!Places, Tool!Alone, Tool!Busy, Tool!Goto
  <1>7. Tool!OldOnce'
    <2> DEFINE new == [id |-> last + 1, name |-> Tool!Due(s), on |-> held[s].on]
    <2>1. rows' = rows \cup {new} /\ new.id = last + 1 OBVIOUS
    <2> HIDE DEF new
    <2>2. s \in Tool!Busy(Syncs) /\ Tool!Busy(Syncs)' = Tool!Busy(Syncs) /\ s \in ToolsProcesses
      BY DEF Tool!Goto, Tool!Busy, Tool!Places, ToolsProcesses
    <2>3. held'[s].ids = held[s].ids \cup {last + 1} /\ \A q \in ToolsProcesses \ {s} : held'[q] = held[q]
      BY <2>2 DEF ToolsProcesses
    <2>4. \A r \in rows : r.id # last + 1 BY DEF Tool!TypeOK
    <2>5. Tool!Busy(Syncs) \subseteq ToolsProcesses BY DEF Tool!Busy, ToolsProcesses
    <2>6. \A r \in rows' : r \in Tool!Settled' => r # new BY <2>1, <2>2, <2>3 DEF Tool!Settled
    <2>7. Tool!Settled' \subseteq Tool!Settled BY <2>1, <2>2, <2>3, <2>4, <2>5, <2>6 DEF Tool!Settled
    <2>8. UNCHANGED <<toolkit, raced, halved>> BY DEF Tool!midway
    <2> QED BY <2>7, <2>8 DEF Tool!OldOnce, Tool!Single
  <1>8. Tool!Chosen'
    <2> DEFINE n == Tool!Due(s)
               new == [id |-> last + 1, name |-> n, on |-> held[s].on]
    <2>1. /\ s \in Tool!Busy(Syncs) /\ pc'[s] = "syncing" /\ \A q \in (Syncs \cup Toggles) \ {s} : pc'[q] = pc[q]
          /\ s \notin Toggles /\ n \in Names
      <3>1. held[s].todo # {} /\ held[s].todo \subseteq Names BY DEF Tool!Places
      <3>2. n \in Names BY <3>1, FirstIs DEF Tool!Due
      <3> QED BY <3>2, ComponentConstants DEF Tool!ToolConstants, Tool!Goto, Tool!Busy, Tool!Places
    <2>2. /\ rows' = rows \cup {new} /\ new.name = n /\ new.on = held[s].on
          /\ choice' = IF Tool!Named(n) = {} THEN [choice EXCEPT ![n] = held[s].on] ELSE choice
          /\ UNCHANGED <<toolkit, raced, torn>>
      BY DEF Tool!midway
    <2> HIDE DEF n, new
    <2> SUFFICES ASSUME toolkit, ~raced PROVE Tool!Chosen'
      <3>1. ~(toolkit' /\ ~raced') => Tool!Chosen' BY Zenon DEF Tool!Chosen
      <3>2. toolkit' = toolkit /\ raced' = raced BY <2>2
      <3> HIDE DEF Tool!IInv, Tool!Upsert
      <3> QED BY <3>1, <3>2
    <2>3. Tool!Busy(Syncs) = {s} /\ Tool!Busy(Toggles) = {} BY <2>1 DEF Tool!Alone
    <2>4. Tool!Busy(Toggles)' = {} /\ \A p \in Syncs : pc'[p] # "upserting" BY <2>1, <2>3 DEF Tool!Busy
    <2>5. ASSUME ~torn, NEW r \in rows' PROVE r.on = choice'[r.name]
      <3>1. choice \in [Names -> BOOLEAN] BY DEF Tool!TypeOK
      <3>2. CASE r \in rows
        <4>1. r.on = choice[r.name] /\ r \in Tool!Named(r.name) BY <2>5, <3>2 DEF Tool!Chosen, Tool!Named
        <4> QED BY <4>1, <2>1, <2>2, <3>1
      <3>3. CASE r = new
        <4>1. Tool!Named(n) # {} => held[s].on = choice[n] BY <2>5 DEF Tool!Chosen, n
        <4> QED BY <3>1, <3>3, <4>1, <2>1, <2>2
      <3> QED BY <2>2, <3>2, <3>3
    <2>6. ~torn' => \A r \in rows' : r.on = choice'[r.name] BY <2>2, <2>5
    <2>7. \A t \in Tool!Busy(Toggles)', r \in rows' : r.id \in held'[t].ids => r.name \in held'[t].todo BY <2>4
    <2>8. \A p \in Syncs : pc'[p] = "upserting" /\ Tool!Named(Tool!Due(p))' # {} => held'[p].on = choice'[Tool!Due(p)']
      BY <2>4
    <2> QED BY <2>6, <2>7, <2>8, Zenon DEF Tool!Chosen
  <1>9. Tool!Room'
    <2> DEFINE new == [id |-> last + 1, name |-> Tool!Due(s), on |-> held[s].on]
    <2>1. rows' = rows \cup {new} /\ new.id = last + 1 OBVIOUS
    <2> HIDE DEF new
    <2>2. s \notin ToolCalls /\ s \in ToolsProcesses /\ s \in Tool!Busy(Syncs) /\ Tool!Busy(Syncs)' = Tool!Busy(Syncs)
      BY ComponentConstants DEF Tool!ToolConstants, Tool!Goto, Tool!Busy, Tool!Places, ToolsProcesses
    <2>3. held'[s].ids = held[s].ids \cup {last + 1} /\ \A q \in ToolsProcesses \ {s} : held'[q] = held[q]
      BY <2>2 DEF ToolsProcesses
    <2>4. \A r \in rows : r.id # last + 1 BY DEF Tool!TypeOK
    <2>5. last + 1 \notin limits BY <2>4 DEF Tool!TypeOK, Tool!Ids
    <2>6. UNCHANGED <<toolkit, limits, logged, crowded, made>> OBVIOUS
    <2>7. \A q \in Syncs : \A r \in Tool!Mine(q)' : r = new \/ r \in Tool!Mine(q)
      BY <2>1, <2>2, <2>3, <2>4 DEF Tool!Mine, ToolsProcesses
    <2>8. Tool!Busy(Syncs) \subseteq Syncs BY DEF Tool!Busy
    <2>9. ~toolkit /\ ~crowded => \A c \in ToolCalls : pc[c] \notin {"checking", "running"} BY <2>2 DEF Tool!Room
    <2>10. \A c \in ToolCalls : pc'[c] = pc[c] BY <2>2 DEF Tool!Goto, Tool!Places
    <2> QED BY <2>1, <2>2, <2>5, <2>6, <2>7, <2>8, <2>9, <2>10 DEF Tool!Room
  <1>10. Tool!LimitHolds'
    BY ComponentConstants DEF Tool!ToolConstants, Tool!TypeOK, Tool!Places, Tool!Room,
         Tool!LimitHolds, Tool!Busy, Tool!Goto, Tool!Ids
  <1> QED BY <1>1, <1>2, <1>3, <1>4, <1>5, <1>6, <1>7, <1>8, <1>9, <1>10

LEMMA RemoveStep ==
  ASSUME Tool!IInv, NEW s \in Syncs, Tool!Remove(s)
  PROVE  Tool!IInv'
  <1> USE DEF Tool!IInv
  <1>1. Tool!TypeOK'
    BY ComponentConstants DEF Tool!ToolConstants, Tool!TypeOK, Tool!Kinds, Tool!Remove, Tool!midway,
         Tool!Goto, Tool!Ids
  <1>2. Tool!Places'
    BY ComponentConstants DEF Tool!ToolConstants, Tool!TypeOK, Tool!Places, Tool!Kinds,
         Tool!Remove, Tool!Goto, Tool!Ids
  <1>3. Tool!Kinds'
    BY ComponentConstants DEF Tool!ToolConstants, Tool!TypeOK, Tool!Places, Tool!Kinds,
         Tool!Remove, Tool!Goto, Tool!Ids
  <1>4. Tool!Logged'
    BY ComponentConstants DEF Tool!ToolConstants, Tool!Logged, Tool!Places, Tool!At,
         Tool!Remove, Tool!Goto
  <1>5. Tool!MadeOnce'
    BY ComponentConstants DEF Tool!ToolConstants, Tool!TypeOK, Tool!Places, Tool!Kinds,
         Tool!MadeOnce, Tool!Busy, Tool!Single, Tool!Mine, Tool!Remove, Tool!midway, Tool!Goto,
         Tool!Ids
  <1>6. Tool!Alone'
    BY ComponentConstants DEF Tool!ToolConstants, Tool!Places, Tool!Alone, Tool!Busy,
         Tool!Remove, Tool!Goto
  <1>7. Tool!OldOnce'
    <2>1. s \in Tool!Busy(Syncs) /\ Tool!Busy(Syncs)' = Tool!Busy(Syncs) \ {s}
      BY DEF Tool!Remove, Tool!Goto, Tool!Busy, Tool!Places
    <2>2. UNCHANGED <<toolkit, raced, held>> BY DEF Tool!Remove
    <2>3. CASE toolkit /\ held[s].ids = {}
      <3>1. rows' = rows /\ halved' = halved BY <2>3 DEF Tool!Remove, Tool!Kinds
      <3>2. Tool!Settled' = Tool!Settled BY <2>1, <2>2, <2>3, <3>1 DEF Tool!Settled
      <3> QED BY <2>2, <3>1, <3>2 DEF Tool!OldOnce, Tool!Single
    <2>4. CASE ~(toolkit /\ held[s].ids = {})
      <3>1. rows' = Tool!Mine(s) BY <2>4 DEF Tool!Remove, Tool!Mine
      <3>2. Tool!Single(Tool!Mine(s)) BY <2>1 DEF Tool!MadeOnce
      <3> QED BY <3>1, <3>2 DEF Tool!OldOnce, Tool!Single, Tool!Settled
    <2> QED BY <2>3, <2>4
  <1>8. Tool!Chosen'
    BY ComponentConstants DEF Tool!ToolConstants, Tool!TypeOK, Tool!Places, Tool!Kinds,
         Tool!Chosen, Tool!Alone, Tool!Busy, Tool!Named, Tool!Due, Tool!Remove, Tool!midway,
         Tool!Goto, Tool!Ids
  <1>9. Tool!Room'
    <2>1. s \in Tool!Busy(Syncs) /\ Tool!Busy(Syncs)' = Tool!Busy(Syncs) \ {s} /\ \A c \in ToolCalls : pc'[c] = pc[c]
      BY ComponentConstants DEF Tool!ToolConstants, Tool!Remove, Tool!Goto, Tool!Busy, Tool!Places
    <2>2. UNCHANGED <<toolkit, crowded, made, logged, held>> /\ rows' \subseteq rows /\ limits' \subseteq limits
      BY DEF Tool!Remove
    <2>3. ~toolkit /\ ~crowded => \A c \in ToolCalls : pc[c] \notin {"checking", "running"} BY <2>1 DEF Tool!Room
    <2> QED BY <2>1, <2>2, <2>3 DEF Tool!Room, Tool!Mine
  <1>10. Tool!LimitHolds'
    <2>1. s \in Tool!Busy(Syncs) BY DEF Tool!Remove, Tool!Busy
    <2>2. UNCHANGED <<toolkit, crowded, made>> /\ limits' \subseteq limits BY DEF Tool!Remove
    <2>3. ~toolkit => rows' = Tool!Mine(s) BY DEF Tool!Remove, Tool!Mine
    <2> QED BY <2>1, <2>2, <2>3 DEF Tool!Room, Tool!LimitHolds
  <1> QED BY <1>1, <1>2, <1>3, <1>4, <1>5, <1>6, <1>7, <1>8, <1>9, <1>10

\* A synchronisation that fails leaves its rows: only what it has not begun is as it was.
LEMMA SyncFailsStep ==
  ASSUME Tool!IInv, NEW s \in Syncs, Tool!SyncFails(s)
  PROVE  Tool!IInv'
  <1> USE DEF Tool!IInv
  <1>1. UNCHANGED <<toolkit, rows, last, limits, approvals, logged, held, choice, raced, torn, crowded, made>>
    BY DEF Tool!SyncFails, Tool!registry
  <1>2. s \in Tool!Busy(Syncs) /\ Tool!Busy(Syncs)' = Tool!Busy(Syncs) \ {s}
    BY DEF Tool!SyncFails, Tool!Goto, Tool!Busy, Tool!Places
  <1>3. Tool!Busy(Toggles)' = Tool!Busy(Toggles) /\ \A c \in ToolCalls : pc'[c] = pc[c]
    BY ComponentConstants DEF Tool!ToolConstants, Tool!SyncFails, Tool!Goto, Tool!Busy, Tool!Places
  <1>4. halved' = (halved \/ held[s].ids # {}) BY DEF Tool!SyncFails
  <1>5. \A q \in Syncs : pc'[q] = "upserting" => pc[q] = "upserting" BY DEF Tool!SyncFails, Tool!Goto, Tool!Places
  <1>6. Tool!TypeOK' BY <1>1 DEF Tool!TypeOK, Tool!Ids
  <1>7. Tool!Places'
    BY ComponentConstants DEF Tool!ToolConstants, Tool!Places, Tool!Kinds, Tool!SyncFails, Tool!Goto
  <1>8. Tool!Kinds' BY <1>1, <1>4 DEF Tool!Kinds
  <1>9. Tool!Logged' BY <1>1, <1>3, LoggedStays
  <1>10. Tool!MadeOnce' BY <1>1, <1>2 DEF Tool!MadeOnce, Tool!Single, Tool!Mine
  <1>11. Tool!Alone' BY <1>1, <1>2, <1>3 DEF Tool!Alone
  <1>12. Tool!OldOnce'
    <2>1. held[s].ids = {} => Tool!Settled' = Tool!Settled BY <1>1, <1>2 DEF Tool!Settled
    <2> QED BY <1>1, <1>4, <2>1 DEF Tool!OldOnce, Tool!Single, Tool!Kinds
  <1>13. Tool!Chosen' BY <1>1, <1>3, <1>5 DEF Tool!Chosen, Tool!Named, Tool!Due
  <1>14. Tool!Room' BY <1>1, <1>2, <1>3, <1>4 DEF Tool!Room, Tool!Mine, Tool!Kinds
  <1>15. Tool!LimitHolds' BY <1>1, <1>4 DEF Tool!LimitHolds, Tool!Kinds
  <1> QED BY <1>6, <1>7, <1>8, <1>9, <1>10, <1>11, <1>12, <1>13, <1>14, <1>15

\* A switch changes neither which rows there are nor who has made them, and no call.
LEMMA RowsStay ==
  ASSUME Tool!IInv, Tool!Kinds', UNCHANGED <<toolkit, limits, logged, made, halved, crowded>>, raced => raced',
         \A x \in rows' : \E r \in rows : x.id = r.id /\ x.name = r.name,
         \A p \in Syncs \cup ToolCalls : pc'[p] = pc[p] /\ held'[p] = held[p]
  PROVE  Tool!OldOnce' /\ Tool!Room' /\ Tool!LimitHolds'
  <1>1. Tool!Busy(Syncs)' = Tool!Busy(Syncs) /\ Tool!Busy(Syncs) \subseteq Syncs BY DEF Tool!Busy
  <1>2. \A x \in Tool!Settled' : \E r \in Tool!Settled : x.id = r.id /\ x.name = r.name BY <1>1 DEF Tool!Settled
  <1>3. Tool!OldOnce'
    <2>1. {raced, raced'} \subseteq BOOLEAN BY DEF Tool!IInv, Tool!Kinds
    <2>2. ASSUME Tool!Single(Tool!Settled), NEW x \in Tool!Settled', NEW y \in Tool!Settled', x.name = y.name
          PROVE  x = y
      <3>1. PICK r \in Tool!Settled : x.id = r.id /\ x.name = r.name BY <1>2
      <3>2. PICK q \in Tool!Settled : y.id = q.id /\ y.name = q.name BY <1>2
      <3>3. x.id = y.id BY <2>2, <3>1, <3>2 DEF Tool!Single
      <3> QED BY <3>3 DEF Tool!Settled, Tool!Kinds
    <2> QED BY <2>1, <2>2 DEF Tool!IInv, Tool!OldOnce, Tool!Single
  <1>4. \A s \in Syncs : \A x \in Tool!Mine(s)' : \E r \in Tool!Mine(s) : x.id = r.id /\ x.name = r.name
    BY DEF Tool!Mine
  <1>5. Tool!Room' BY <1>1, <1>4 DEF Tool!IInv, Tool!Room
  <1> QED BY <1>3, <1>5 DEF Tool!IInv, Tool!LimitHolds

LEMMA ReadToolStep ==
  ASSUME Tool!IInv, NEW t \in Toggles, Tool!ReadTool(t)
  PROVE  Tool!IInv'
  <1>1. Tool!TypeOK'
    BY ComponentConstants DEF Tool!ToolConstants, Tool!IInv, Tool!TypeOK, Tool!Kinds,
         Tool!ReadTool, Tool!Goto, Tool!registry, Tool!midway, Tool!Overlap, Tool!Ids
  <1>2. Tool!Places'
    BY ComponentConstants DEF Tool!ToolConstants, Tool!IInv, Tool!TypeOK,
         Tool!Places, Tool!Kinds, Tool!ReadTool, Tool!Goto, Tool!registry, Tool!midway,
         Tool!Overlap, Tool!Ids
  <1>3. Tool!Kinds'
    BY ComponentConstants DEF Tool!ToolConstants, Tool!IInv, Tool!TypeOK,
         Tool!Places, Tool!Kinds, Tool!ReadTool, Tool!Goto, Tool!registry, Tool!midway,
         Tool!Overlap, Tool!Ids
  <1>4. Tool!Logged'
    BY LoggedStays, ComponentConstants DEF Tool!IInv, Tool!ToolConstants, Tool!Places,
         Tool!ReadTool, Tool!Goto, Tool!registry, Tool!midway, Tool!Overlap
  <1>5. Tool!MadeOnce'
    BY ComponentConstants DEF Tool!ToolConstants, Tool!IInv, Tool!TypeOK,
         Tool!Places, Tool!Kinds, Tool!MadeOnce, Tool!Busy, Tool!Single,
         Tool!Mine, Tool!ReadTool, Tool!Goto, Tool!registry, Tool!midway, Tool!Overlap,
         Tool!Ids
  <1>6. Tool!Alone'
    <2>1. ~raced' => Tool!Busy(Syncs) = {}
      BY ComponentConstants DEF Tool!ToolConstants, Tool!ReadTool, Tool!Overlap, Tool!Busy
    <2>2. t \notin Syncs /\ \A s \in Syncs : pc'[s] = pc[s]
      BY ComponentConstants DEF Tool!ToolConstants, Tool!IInv, Tool!Places, Tool!ReadTool, Tool!Goto
    <2> QED BY <2>1, <2>2 DEF Tool!Alone, Tool!Busy
  <1>7. Tool!Chosen'
    <2>1. t \in ToolsProcesses /\ pc[t] = "idle" /\ Tool!Overlap(t) /\ Tool!Goto(t, "saving") /\ "saving" \in ToolsLabels
      BY DEF Tool!ReadTool, ToolsProcesses, ToolsLabels
    <2>2. pc'[t] = "saving" /\ \A q \in ToolsProcesses \ {t} : pc'[q] = pc[q] BY <2>1, ToolsGotoIs
    <2>3. t \notin ToolCalls /\ t \notin Syncs BY ComponentConstants DEF Tool!ToolConstants
    <2>4. ~raced' => ~raced /\ Tool!Busy(Syncs) = {} BY <2>1, <2>3, OverlapIs
    <2>5. PICK r \in rows : held' = [held EXCEPT ![t] = [todo |-> {r.name}, on |-> ~r.on, ids |-> {r.id}]]
      BY DEF Tool!ReadTool
    <2>6. [todo |-> {r.name}, on |-> ~r.on, ids |-> {r.id}] \in ToolsRecord
      BY DEF ToolsRecord, Tool!IInv, Tool!TypeOK, Tool!Kinds
    <2>7. held'[t] = [todo |-> {r.name}, on |-> ~r.on, ids |-> {r.id}] /\ \A q \in ToolsProcesses \ {t} : held'[q] = held[q]
      BY <2>1, <2>5, <2>6, ToolsHeldIs
    <2>8. UNCHANGED <<toolkit, rows, choice, torn>> BY DEF Tool!ReadTool, Tool!registry, Tool!midway
    <2> SUFFICES ASSUME toolkit, ~raced, Tool!Busy(Syncs) = {} PROVE Tool!Chosen' BY <2>4, <2>8 DEF Tool!Chosen
    <2>9. ~torn => \A q \in rows : q.on = choice[q.name] BY DEF Tool!IInv, Tool!Chosen
    <2>10. \A p \in Syncs : pc'[p] # "upserting" BY <2>2, <2>3 DEF Tool!Busy, ToolsProcesses
    <2>11. \A q \in rows : q.id = r.id => q.name = r.name BY DEF Tool!IInv, Tool!Kinds
    <2>12. ASSUME NEW u \in Tool!Busy(Toggles)'
           PROVE  \A q \in rows : q.id \in held'[u].ids => q.name \in held'[u].todo
      <3>1. CASE u = t BY <3>1, <2>7, <2>11
      <3>2. CASE u # t
        <4>1. u \in Tool!Busy(Toggles) /\ held'[u] = held[u] BY <3>2, <2>2, <2>7 DEF Tool!Busy, ToolsProcesses
        <4> QED BY <4>1 DEF Tool!IInv, Tool!Chosen
      <3> QED BY <3>1, <3>2
    <2> QED BY <2>8, <2>9, <2>10, <2>12 DEF Tool!Chosen
  <1>8. Tool!OldOnce' /\ Tool!Room' /\ Tool!LimitHolds'
    <2>1. t \notin Syncs \cup ToolCalls BY ComponentConstants DEF Tool!ToolConstants
    <2>2. \A p \in Syncs \cup ToolCalls : pc'[p] = pc[p] /\ held'[p] = held[p]
      BY <2>1 DEF Tool!ReadTool, Tool!Goto, Tool!IInv, Tool!Places, Tool!Kinds
    <2>3. UNCHANGED <<toolkit, limits, logged, made, halved, crowded>> /\ (raced => raced')
      BY <2>1 DEF Tool!ReadTool, Tool!registry, Tool!Overlap, Tool!Busy, Tool!midway, Tool!IInv, Tool!Kinds
    <2>4. \A x \in rows' : \E r \in rows : x.id = r.id /\ x.name = r.name
      BY DEF Tool!ReadTool, Tool!registry, Tool!IInv, Tool!TypeOK
    <2> QED BY <1>3, <2>2, <2>3, <2>4, RowsStay
  <1> QED BY <1>1, <1>2, <1>3, <1>4, <1>5, <1>6, <1>7, <1>8 DEF Tool!IInv

LEMMA SaveToolStep ==
  ASSUME Tool!IInv, NEW t \in Toggles, Tool!SaveTool(t)
  PROVE  Tool!IInv'
  <1>1. Tool!TypeOK'
    <2>1. held[t].on \in BOOLEAN /\ UNCHANGED <<limits, approvals, logged>>
      BY DEF Tool!SaveTool, Tool!midway, Tool!IInv, Tool!Kinds
    <2>2. rows' = {IF r.id \in held[t].ids THEN [r EXCEPT !.on = held[t].on] ELSE r : r \in rows}
      BY DEF Tool!SaveTool, Tool!midway
    <2>3. ASSUME NEW r \in rows
          PROVE  LET q == IF r.id \in held[t].ids THEN [r EXCEPT !.on = held[t].on] ELSE r IN
                 q \in [id : 1 .. MaxRows, name : Names, on : BOOLEAN] /\ q.id = r.id
      BY <2>1 DEF Tool!IInv, Tool!TypeOK
    <2>4. rows' \subseteq [id : 1 .. MaxRows, name : Names, on : BOOLEAN] BY <2>2, <2>3
    <2>5. \A i \in Tool!Ids : i \in Tool!Ids'
      <3> SUFFICES ASSUME NEW r \in rows PROVE r.id \in Tool!Ids' BY DEF Tool!Ids
      <3>1. (IF r.id \in held[t].ids THEN [r EXCEPT !.on = held[t].on] ELSE r) \in rows' BY <2>2
      <3> QED BY <3>1, <2>3 DEF Tool!Ids
    <2>6. choice' \in [Names -> BOOLEAN] BY <2>1 DEF Tool!SaveTool, Tool!midway, Tool!IInv, Tool!TypeOK
    <2> QED BY <2>1, <2>4, <2>5, <2>6 DEF Tool!IInv, Tool!TypeOK
  <1>2. Tool!Places'
    BY ComponentConstants DEF Tool!ToolConstants, Tool!IInv, Tool!TypeOK,
         Tool!Places, Tool!Kinds, Tool!SaveTool, Tool!midway, Tool!Goto, Tool!Ids
  <1>3. Tool!Kinds'
    BY ComponentConstants DEF Tool!ToolConstants, Tool!IInv, Tool!TypeOK,
         Tool!Places, Tool!Kinds, Tool!SaveTool, Tool!midway, Tool!Goto, Tool!Ids
  <1>4. Tool!Logged'
    BY LoggedStays, ComponentConstants DEF Tool!IInv, Tool!ToolConstants, Tool!Places,
         Tool!SaveTool, Tool!Goto
  <1>5. Tool!MadeOnce'
    BY ComponentConstants DEF Tool!ToolConstants, Tool!IInv, Tool!TypeOK,
         Tool!Places, Tool!Kinds, Tool!MadeOnce, Tool!Busy, Tool!Single,
         Tool!Mine, Tool!SaveTool, Tool!midway, Tool!Goto, Tool!Ids
  <1>6. Tool!Alone'
    BY ComponentConstants DEF Tool!ToolConstants, Tool!IInv, Tool!Places, Tool!Alone,
         Tool!Busy, Tool!SaveTool, Tool!midway, Tool!Goto, Tool!Ids
  <1>7. Tool!Chosen'
    <2> DEFINE f(r) == IF r.id \in held[t].ids THEN [r EXCEPT !.on = held[t].on] ELSE r
    <2>1. /\ rows' = {f(r) : r \in rows} /\ UNCHANGED <<held, toolkit, raced>>
          /\ choice' = [n \in Names |-> IF n \in held[t].todo THEN held[t].on ELSE choice[n]]
          /\ torn' = (torn \/ \E r \in rows : r.name \in held[t].todo /\ r.id \notin held[t].ids)
      BY DEF Tool!SaveTool
    <2>2. \A r \in rows : /\ f(r).id = r.id /\ f(r).name = r.name /\ r.name \in Names
                          /\ f(r).on = IF r.id \in held[t].ids THEN held[t].on ELSE r.on
      BY DEF Tool!IInv, Tool!TypeOK
    <2> HIDE DEF f
    <2>3. /\ t \in Tool!Busy(Toggles) /\ (\A p \in Syncs : pc'[p] = pc[p])
          /\ Tool!Busy(Toggles)' \subseteq Tool!Busy(Toggles)
      BY ComponentConstants DEF Tool!ToolConstants, Tool!IInv, Tool!Places, Tool!Busy, Tool!SaveTool, Tool!Goto
    <2> SUFFICES ASSUME toolkit, ~raced PROVE Tool!Chosen' BY <2>1 DEF Tool!Chosen
    <2>4. \A p \in Syncs : pc'[p] # "upserting" BY <2>3 DEF Tool!IInv, Tool!Alone, Tool!Busy
    <2>5. \A u \in Tool!Busy(Toggles), r \in rows : r.id \in held[u].ids => r.name \in held[u].todo
      BY DEF Tool!IInv, Tool!Chosen
    <2>6. \A u \in Tool!Busy(Toggles)', x \in rows' : x.id \in held'[u].ids => x.name \in held'[u].todo
      BY <2>1, <2>2, <2>3, <2>5
    <2>7. ASSUME ~torn', NEW r \in rows PROVE f(r).on = choice'[f(r).name]
      <3>1. r.on = choice[r.name] BY <2>1, <2>7 DEF Tool!IInv, Tool!Chosen
      <3>2. r.name \in held[t].todo <=> r.id \in held[t].ids BY <2>1, <2>3, <2>5, <2>7
      <3> QED BY <3>1, <3>2, <2>1, <2>2
    <2> QED BY <2>1, <2>4, <2>6, <2>7 DEF Tool!Chosen
  <1>8. Tool!OldOnce' /\ Tool!Room' /\ Tool!LimitHolds'
    <2>1. t \notin Syncs \cup ToolCalls BY ComponentConstants DEF Tool!ToolConstants
    <2>2. \A p \in Syncs \cup ToolCalls : pc'[p] = pc[p] /\ held'[p] = held[p]
      BY <2>1 DEF Tool!SaveTool, Tool!Goto, Tool!IInv, Tool!Places, Tool!Kinds
    <2>3. UNCHANGED <<toolkit, limits, logged, made, halved, crowded>> /\ (raced => raced')
      BY <2>1 DEF Tool!SaveTool, Tool!midway, Tool!IInv, Tool!Kinds
    <2>4. \A x \in rows' : \E r \in rows : x.id = r.id /\ x.name = r.name
      BY DEF Tool!SaveTool, Tool!IInv, Tool!TypeOK
    <2> QED BY <1>3, <2>2, <2>3, <2>4, RowsStay
  <1> QED BY <1>1, <1>2, <1>3, <1>4, <1>5, <1>6, <1>7, <1>8 DEF Tool!IInv

LEMMA BulkToggleStep ==
  ASSUME Tool!IInv, NEW t \in Toggles, Tool!BulkToggle(t)
  PROVE  Tool!IInv'
  <1>1. Tool!TypeOK'
    <2>1. PICK on \in BOOLEAN : /\ rows' = {[r EXCEPT !.on = on] : r \in rows}
                                /\ choice' = [n \in Names |-> IF Tool!Named(n) # {} THEN on ELSE choice[n]]
      BY DEF Tool!BulkToggle, Tool!midway
    <2>2. \A r \in rows : [r EXCEPT !.on = on] \in [id : 1 .. MaxRows, name : Names, on : BOOLEAN] /\ [r EXCEPT !.on = on].id = r.id
      BY DEF Tool!IInv, Tool!TypeOK
    <2>3. rows' \subseteq [id : 1 .. MaxRows, name : Names, on : BOOLEAN] BY <2>1, <2>2
    <2>4. \A i \in Tool!Ids : i \in Tool!Ids'
      <3> SUFFICES ASSUME NEW r \in rows PROVE r.id \in Tool!Ids' BY DEF Tool!Ids
      <3>1. [r EXCEPT !.on = on] \in rows' BY <2>1
      <3> QED BY <3>1, <2>2 DEF Tool!Ids
    <2>5. choice' \in [Names -> BOOLEAN] BY <2>1 DEF Tool!IInv, Tool!TypeOK
    <2>6. UNCHANGED <<limits, approvals, logged>> BY DEF Tool!BulkToggle, Tool!midway
    <2> QED BY <2>3, <2>4, <2>5, <2>6 DEF Tool!IInv, Tool!TypeOK
  <1>2. Tool!Places'
    BY ComponentConstants DEF Tool!ToolConstants, Tool!IInv, Tool!TypeOK,
         Tool!Places, Tool!Kinds, Tool!BulkToggle, Tool!midway, Tool!Goto, Tool!Overlap,
         Tool!Ids
  <1>3. Tool!Kinds'
    <2>1. PICK on \in BOOLEAN : rows' = {[r EXCEPT !.on = on] : r \in rows} BY DEF Tool!BulkToggle
    <2>2. \A r \in rows : [r EXCEPT !.on = on] = [id |-> r.id, name |-> r.name, on |-> on] /\ r.id \in Nat
      BY DEF Tool!IInv, Tool!TypeOK
    <2>3. (\A x \in rows' : x.id <= last) /\ \A x, y \in rows' : x.id = y.id => x = y
      <3>1. \A x \in rows' : \E r \in rows : x = [id |-> r.id, name |-> r.name, on |-> on] BY <2>1, <2>2
      <3>2. (\A r \in rows : r.id <= last) /\ \A r, q \in rows : r.id = q.id => r = q BY DEF Tool!IInv, Tool!Kinds
      <3>3. ASSUME NEW x \in rows', NEW y \in rows', x.id = y.id PROVE x = y
        <4>1. PICK r \in rows : x = [id |-> r.id, name |-> r.name, on |-> on] BY <3>1
        <4>2. PICK q \in rows : y = [id |-> q.id, name |-> q.name, on |-> on] BY <3>1
        <4>3. r = q BY <4>1, <4>2, <3>2, <3>3
        <4> QED BY <4>1, <4>2, <4>3
      <3> QED BY <3>1, <3>2, <3>3
    <2>4. toolkit' = toolkit /\ halved' = halved /\ torn' = FALSE BY DEF Tool!BulkToggle
    <2>5. UNCHANGED <<last, held, made>> BY DEF Tool!BulkToggle, Tool!midway
    <2>6. t \in ToolsProcesses /\ pc[t] = "idle" /\ Tool!Overlap(t) BY DEF Tool!BulkToggle, ToolsProcesses
    <2>7. raced' \in BOOLEAN /\ crowded' \in BOOLEAN BY <2>6, OverlapIs
    <2>8. last' \in 1 .. MaxRows /\ held' \in [Syncs \cup Toggles \cup ToolCalls -> [todo : SUBSET Names, on : BOOLEAN, ids : SUBSET (1 .. last')]] /\ made' \in [Names -> Nat]
      BY <2>5 DEF Tool!IInv, Tool!Kinds
    <2>9. {toolkit', raced', halved', torn', crowded'} \subseteq BOOLEAN BY <2>4, <2>7 DEF Tool!IInv, Tool!Kinds
    <2> QED BY <2>3, <2>5, <2>8, <2>9 DEF Tool!Kinds
  <1>4. Tool!Logged'
    BY LoggedStays, ComponentConstants DEF Tool!IInv, Tool!ToolConstants, Tool!Places,
         Tool!BulkToggle, Tool!Goto, Tool!Overlap
  <1>5. Tool!MadeOnce'
    BY ComponentConstants DEF Tool!ToolConstants, Tool!IInv, Tool!TypeOK,
         Tool!Places, Tool!Kinds, Tool!MadeOnce, Tool!Busy, Tool!Single,
         Tool!Mine, Tool!BulkToggle, Tool!midway, Tool!Goto, Tool!Overlap, Tool!Ids
  <1>6. Tool!Alone'
    BY ComponentConstants DEF Tool!ToolConstants, Tool!IInv, Tool!Places, Tool!Alone,
         Tool!Busy, Tool!BulkToggle, Tool!midway, Tool!Goto, Tool!Overlap, Tool!Ids
  <1>7. Tool!Chosen'
    <2>1. PICK on \in BOOLEAN : /\ rows' = {[r EXCEPT !.on = on] : r \in rows}
                                /\ choice' = [n \in Names |-> IF Tool!Named(n) # {} THEN on ELSE choice[n]]
      BY DEF Tool!BulkToggle
    <2>2. UNCHANGED <<toolkit, held>> /\ t \in ToolsProcesses /\ pc[t] = "idle" /\ Tool!Overlap(t) /\ t \notin ToolCalls
      BY ComponentConstants DEF Tool!ToolConstants, Tool!BulkToggle, ToolsProcesses
    <2>3. ~raced' => ~raced /\ Tool!Busy(Syncs) = {} BY <2>2, OverlapIs
    <2> SUFFICES ASSUME toolkit, ~raced, Tool!Busy(Syncs) = {} PROVE Tool!Chosen' BY <2>2, <2>3 DEF Tool!Chosen
    <2>4. \A r \in rows : [r EXCEPT !.on = on].id = r.id /\ [r EXCEPT !.on = on].name = r.name /\ [r EXCEPT !.on = on].on = on /\ r.name \in Names
      BY DEF Tool!IInv, Tool!TypeOK
    <2>5. (\A p \in Syncs : pc'[p] # "upserting") /\ Tool!Busy(Toggles)' \subseteq Tool!Busy(Toggles)
      BY ComponentConstants DEF Tool!ToolConstants, Tool!IInv, Tool!Places, Tool!Busy, Tool!BulkToggle, Tool!Goto
    <2>6. \A u \in Tool!Busy(Toggles), r \in rows : r.id \in held[u].ids => r.name \in held[u].todo
      BY DEF Tool!IInv, Tool!Chosen
    <2>7. \A u \in Tool!Busy(Toggles)', x \in rows' : x.id \in held'[u].ids => x.name \in held'[u].todo
      BY <2>1, <2>2, <2>4, <2>5, <2>6
    <2>8. ASSUME NEW r \in rows PROVE [r EXCEPT !.on = on].on = choice'[[r EXCEPT !.on = on].name]
      <3>1. r \in Tool!Named(r.name) BY DEF Tool!Named
      <3>2. choice'[r.name] = on BY <3>1, <2>1, <2>4
      <3> QED BY <3>2, <2>4
    <2>9. \A x \in rows' : x.on = choice'[x.name] BY <2>1, <2>8
    <2> QED BY <2>5, <2>7, <2>9, Zenon DEF Tool!Chosen
  <1>8. Tool!OldOnce' /\ Tool!Room' /\ Tool!LimitHolds'
    <2>1. t \notin Syncs \cup ToolCalls BY ComponentConstants DEF Tool!ToolConstants
    <2>2. \A p \in Syncs \cup ToolCalls : pc'[p] = pc[p] /\ held'[p] = held[p]
      BY <2>1 DEF Tool!BulkToggle, Tool!Goto, Tool!IInv, Tool!Places, Tool!Kinds
    <2>3. UNCHANGED <<toolkit, limits, logged, made, halved, crowded>> /\ (raced => raced')
      BY <2>1 DEF Tool!BulkToggle, Tool!Overlap, Tool!Busy, Tool!midway, Tool!IInv, Tool!Kinds
    <2>4. \A x \in rows' : \E r \in rows : x.id = r.id /\ x.name = r.name
      BY DEF Tool!BulkToggle, Tool!IInv, Tool!TypeOK
    <2> QED BY <1>3, <2>2, <2>3, <2>4, RowsStay
  <1> QED BY <1>1, <1>2, <1>3, <1>4, <1>5, <1>6, <1>7, <1>8 DEF Tool!IInv

LEMMA LimitStep ==
  ASSUME Tool!IInv, NEW r \in rows, Tool!Limit(r)
  PROVE  Tool!IInv'
  <1> USE ComponentConstants DEF Tool!ToolConstants, Tool!IInv, Tool!TypeOK, Tool!Kinds,
           Tool!Limit, Tool!midway, Tool!Ids, Tool!Places, Tool!Busy
  <1>1. Tool!TypeOK' OBVIOUS
  <1>2. Tool!Places' OBVIOUS
  <1>3. Tool!Kinds' OBVIOUS
  <1>4. Tool!Logged' BY DEF Tool!Logged, Tool!At
  <1>5. Tool!MadeOnce' BY DEF Tool!MadeOnce, Tool!Single, Tool!Mine
  <1>6. Tool!Alone' BY DEF Tool!Alone
  <1>7. Tool!OldOnce' BY SettledStays
  <1>8. Tool!Chosen' BY DEF Tool!Chosen, Tool!Alone, Tool!Named, Tool!Due
  <1>9. Tool!Room' BY DEF Tool!Room, Tool!Mine, Tool!Alone, Tool!LimitHolds
  <1>10. Tool!LimitHolds' BY DEF Tool!Room, Tool!LimitHolds
  <1> QED BY <1>1, <1>2, <1>3, <1>4, <1>5, <1>6, <1>7, <1>8, <1>9, <1>10

LEMMA RequireApprovalStep ==
  ASSUME Tool!IInv, NEW r \in rows, Tool!RequireApproval(r)
  PROVE  Tool!IInv'
  <1> USE ComponentConstants DEF Tool!ToolConstants, Tool!IInv, Tool!TypeOK, Tool!Kinds,
           Tool!RequireApproval, Tool!midway, Tool!Ids, Tool!Places, Tool!Busy
  <1>1. Tool!TypeOK' OBVIOUS
  <1>2. Tool!Places' OBVIOUS
  <1>3. Tool!Kinds' OBVIOUS
  <1>4. Tool!Logged' BY DEF Tool!Logged, Tool!At
  <1>5. Tool!MadeOnce' BY DEF Tool!MadeOnce, Tool!Single, Tool!Mine
  <1>6. Tool!Alone' BY DEF Tool!Alone
  <1>7. Tool!OldOnce' BY SettledStays
  <1>8. Tool!Chosen' BY DEF Tool!Chosen, Tool!Alone, Tool!Named, Tool!Due
  <1>9. Tool!Room' BY DEF Tool!Room, Tool!Mine, Tool!Alone, Tool!LimitHolds
  <1>10. Tool!LimitHolds' BY DEF Tool!Room, Tool!LimitHolds
  <1> QED BY <1>1, <1>2, <1>3, <1>4, <1>5, <1>6, <1>7, <1>8, <1>9, <1>10

LEMMA LiftPoliciesStep ==
  ASSUME Tool!IInv, NEW r \in rows, Tool!LiftPolicies(r)
  PROVE  Tool!IInv'
  <1> USE ComponentConstants DEF Tool!ToolConstants, Tool!IInv, Tool!TypeOK, Tool!Kinds,
           Tool!LiftPolicies, Tool!midway, Tool!Ids, Tool!Places, Tool!Busy
  <1>1. Tool!TypeOK' OBVIOUS
  <1>2. Tool!Places' OBVIOUS
  <1>3. Tool!Kinds' OBVIOUS
  <1>4. Tool!Logged' BY DEF Tool!Logged, Tool!At
  <1>5. Tool!MadeOnce' BY DEF Tool!MadeOnce, Tool!Single, Tool!Mine
  <1>6. Tool!Alone' BY DEF Tool!Alone
  <1>7. Tool!OldOnce' BY SettledStays
  <1>8. Tool!Chosen' BY DEF Tool!Chosen, Tool!Alone, Tool!Named, Tool!Due
  <1>9. Tool!Room' BY DEF Tool!Room, Tool!Mine, Tool!Alone, Tool!LimitHolds
  <1>10. Tool!LimitHolds' BY DEF Tool!Room, Tool!LimitHolds
  <1> QED BY <1>1, <1>2, <1>3, <1>4, <1>5, <1>6, <1>7, <1>8, <1>9, <1>10

LEMMA ToolsRouteStep ==
  ASSUME Tool!IInv, NEW c \in ToolCalls, NEW n \in Names, Tool!Route(c, n)
  PROVE  Tool!IInv'
  <1> USE DEF Tool!Route
  <1>1. Tool!TypeOK'
    BY ComponentConstants DEF Tool!ToolConstants, Tool!IInv, Tool!TypeOK, Tool!Kinds,
         Tool!Goto, Tool!registry, Tool!midway, Tool!Overlap, Tool!Ids
  <1>2. Tool!Places'
    BY ComponentConstants DEF Tool!ToolConstants, Tool!IInv, Tool!TypeOK, Tool!Places,
         Tool!Kinds, Tool!Due, Tool!Goto, Tool!registry, Tool!midway, Tool!Overlap, Tool!Ids
  <1>3. Tool!Kinds'
    BY ComponentConstants DEF Tool!ToolConstants, Tool!IInv, Tool!TypeOK, Tool!Places,
         Tool!Kinds, Tool!Due, Tool!Goto, Tool!registry, Tool!midway, Tool!Overlap, Tool!Ids
  <1>4. Tool!Logged'
    BY ComponentConstants DEF Tool!ToolConstants, Tool!IInv, Tool!Logged, Tool!Places, Tool!At,
         Tool!Goto, Tool!registry, Tool!midway, Tool!Overlap
  <1>5. Tool!MadeOnce'
    BY ComponentConstants DEF Tool!ToolConstants, Tool!IInv, Tool!TypeOK, Tool!Places,
         Tool!Kinds, Tool!MadeOnce, Tool!Busy, Tool!Single, Tool!Mine, Tool!Due,
         Tool!Goto, Tool!registry, Tool!midway, Tool!Overlap, Tool!Ids
  <1>6. Tool!Alone'
    <2>1. c \in ToolsProcesses /\ pc[c] = "idle" /\ Tool!Overlap(c) /\ Tool!Goto(c, "checking") /\ "checking" \in ToolsLabels
      BY DEF ToolsProcesses, ToolsLabels
    <2>2. \A q \in Syncs \cup Toggles : pc'[q] = pc[q]
      BY <2>1, ToolsGotoIs, ComponentConstants DEF Tool!ToolConstants, ToolsProcesses
    <2>3. Tool!Busy(Syncs)' = Tool!Busy(Syncs) /\ Tool!Busy(Toggles)' = Tool!Busy(Toggles) /\ (~raced' => ~raced)
      BY <2>1, <2>2, OverlapIs DEF Tool!Busy
    <2> QED BY <2>3 DEF Tool!IInv, Tool!Alone
  <1>7. Tool!OldOnce'
    <2>1. c \notin Syncs BY ComponentConstants DEF Tool!ToolConstants
    <2>2. UNCHANGED <<toolkit, rows, halved>> /\ (raced => raced') /\ {raced', halved'} \subseteq BOOLEAN
      BY <2>1 DEF Tool!Route, Tool!registry, Tool!midway, Tool!Overlap, Tool!IInv, Tool!Kinds
    <2>3. \A s \in Syncs : pc'[s] = pc[s] /\ held'[s].ids = held[s].ids
      BY <2>1 DEF Tool!Route, Tool!Goto, Tool!registry, Tool!IInv, Tool!Places, Tool!Kinds
    <2>4. Tool!Busy(Syncs)' = Tool!Busy(Syncs) /\ Tool!Busy(Syncs) \subseteq Syncs BY <2>3 DEF Tool!Busy
    <2> QED BY <2>2, <2>3, <2>4, SettledStays
  <1>8. Tool!Chosen'
    <2>1. c \in ToolsProcesses /\ pc[c] = "idle" /\ Tool!Overlap(c) /\ Tool!Goto(c, "checking") /\ "checking" \in ToolsLabels
      BY DEF ToolsProcesses, ToolsLabels
    <2>2. \A q \in Syncs \cup Toggles : pc'[q] = pc[q]
      BY <2>1, ToolsGotoIs, ComponentConstants DEF Tool!ToolConstants, ToolsProcesses
    <2>3. \A q \in Syncs \cup Toggles : held'[q] = held[q]
      BY ComponentConstants DEF Tool!ToolConstants, Tool!IInv, Tool!Kinds
    <2>4. Tool!Busy(Toggles)' = Tool!Busy(Toggles) /\ Tool!Busy(Toggles) \subseteq Toggles /\ (~raced' => ~raced)
      BY <2>1, <2>2, OverlapIs DEF Tool!Busy
    <2>5. UNCHANGED <<toolkit, rows, choice, torn>> BY DEF Tool!registry, Tool!midway
    <2>6. \A p \in Syncs : Tool!Due(p)' = Tool!Due(p) /\ Tool!Named(Tool!Due(p))' = Tool!Named(Tool!Due(p))
      BY <2>3, <2>5 DEF Tool!Due, Tool!Named
    <2> QED BY <2>2, <2>3, <2>4, <2>5, <2>6 DEF Tool!IInv, Tool!Chosen
  <1>9. Tool!Room'
    <2>1. c \in ToolsProcesses /\ pc[c] = "idle" /\ Tool!Overlap(c) /\ Tool!Goto(c, "checking") /\ "checking" \in ToolsLabels
      BY DEF ToolsProcesses, ToolsLabels
    <2>2. pc'[c] = "checking" /\ \A q \in ToolsProcesses \ {c} : pc'[q] = pc[q] BY <2>1, ToolsGotoIs
    <2>3. UNCHANGED <<toolkit, rows, limits, logged, made>> BY DEF Tool!registry, Tool!midway
    <2>4. Tool!Busy(Syncs)' = Tool!Busy(Syncs)
      BY <2>1, <2>2, ComponentConstants DEF Tool!ToolConstants, Tool!Busy, ToolsProcesses
    <2>5. ~crowded' => Tool!Busy(Syncs) = {} /\ \A d \in ToolCalls : pc[d] \notin {"checking", "running"}
      BY <2>1, OverlapIs
    <2>6. ~crowded' => \A d \in ToolCalls : pc'[d] \in {"checking", "running"} => d = c
      BY <2>2, <2>5 DEF ToolsProcesses
    <2> QED BY <2>2, <2>3, <2>4, <2>5, <2>6 DEF Tool!IInv, Tool!Room
  <1>10. Tool!LimitHolds'
    BY ComponentConstants DEF Tool!ToolConstants, Tool!IInv, Tool!TypeOK, Tool!Places,
         Tool!Kinds, Tool!Room, Tool!LimitHolds, Tool!Busy, Tool!Goto, Tool!registry, Tool!midway,
         Tool!Overlap, Tool!Ids
  <1> QED BY <1>1, <1>2, <1>3, <1>4, <1>5, <1>6, <1>7, <1>8, <1>9, <1>10 DEF Tool!IInv

LEMMA ToolsValidateStep ==
  ASSUME Tool!IInv, NEW c \in ToolCalls, Tool!Validate(c)
  PROVE  Tool!IInv'
  <1>1. Tool!TypeOK'
    BY ComponentConstants DEF Tool!ToolConstants, Tool!IInv, Tool!TypeOK, Tool!Kinds,
         Tool!Validate, Tool!Goto, Tool!registry, Tool!midway, Tool!Ids
  <1>2. Tool!Places'
    BY ComponentConstants DEF Tool!ToolConstants, Tool!IInv, Tool!TypeOK,
         Tool!Places, Tool!Kinds, Tool!Validate, Tool!Goto, Tool!registry, Tool!midway,
         Tool!Ids
  <1>3. Tool!Kinds'
    BY ComponentConstants DEF Tool!ToolConstants, Tool!IInv, Tool!TypeOK,
         Tool!Places, Tool!Kinds, Tool!Validate, Tool!Goto, Tool!registry, Tool!midway,
         Tool!Ids
  <1>4. Tool!Logged'
    <2> DEFINE a == Cardinality(Tool!At({"logging", "done"}))
               b == Cardinality(Tool!At({"done"}))
               aa == Cardinality(Tool!At({"logging", "done"})')
               bb == Cardinality(Tool!At({"done"})')
    <2>1. a \in Nat /\ b \in Nat /\ aa \in Nat /\ bb \in Nat BY AtIs
    <2>2. logged <= a + b /\ logged \in Nat BY ToolsCounts DEF Tool!IInv, Tool!Logged, Tool!TypeOK
    <2>3. c \in ToolsProcesses /\ pc[c] = "checking" /\ logged' = logged /\ pc \in [ToolsProcesses -> ToolsLabels]
      BY DEF Tool!Validate, ToolsProcesses, Tool!registry, Tool!midway, Tool!IInv, Tool!Places,
           ToolsLabels
    <2>4. CASE Tool!Goto(c, "running")
      <3>1. Tool!At({"logging", "done"})' = Tool!At({"logging", "done"}) /\ Tool!At({"done"})' = Tool!At({"done"})
        BY <2>3, <2>4 DEF Tool!At, Tool!Goto
      <3> QED BY <3>1, <2>2, <2>3, ToolsCounts DEF Tool!Logged
    <2>5. CASE Tool!Goto(c, "done")
      <3>1. /\ Tool!At({"logging", "done"})' = Tool!At({"logging", "done"}) \cup {c} /\ c \notin Tool!At({"logging", "done"})
            /\ Tool!At({"done"})' = Tool!At({"done"}) \cup {c} /\ c \notin Tool!At({"done"})
        BY <2>3, <2>5 DEF Tool!At, Tool!Goto, ToolsProcesses
      <3>2. aa = a + 1 /\ bb = b + 1 BY <3>1, AtMore
      <3> HIDE DEF a, b, aa, bb
      <3>3. logged' <= aa + bb BY <3>2, <2>1, <2>2, <2>3
      <3> QED BY <3>3, ToolsCounts DEF Tool!Logged, aa, bb
    <2> QED BY <2>4, <2>5 DEF Tool!Validate
  <1>5. Tool!MadeOnce'
    BY ComponentConstants DEF Tool!ToolConstants, Tool!IInv, Tool!TypeOK,
         Tool!Places, Tool!Kinds, Tool!MadeOnce, Tool!Busy, Tool!Single,
         Tool!Mine, Tool!Validate, Tool!Goto, Tool!registry, Tool!midway, Tool!Ids
  <1>6. Tool!Alone'
    BY ComponentConstants DEF Tool!ToolConstants, Tool!IInv, Tool!Places, Tool!Alone,
         Tool!Busy, Tool!Validate, Tool!Goto, Tool!registry, Tool!midway
  <1>7. Tool!OldOnce'
    <2>1. c \notin Syncs BY ComponentConstants DEF Tool!ToolConstants
    <2>2. UNCHANGED <<toolkit, rows, halved>> /\ (raced => raced') /\ {raced', halved'} \subseteq BOOLEAN
      BY <2>1 DEF Tool!Validate, Tool!registry, Tool!midway, Tool!Overlap, Tool!IInv, Tool!Kinds
    <2>3. \A s \in Syncs : pc'[s] = pc[s] /\ held'[s].ids = held[s].ids
      BY <2>1 DEF Tool!Validate, Tool!Goto, Tool!registry, Tool!IInv, Tool!Places, Tool!Kinds
    <2>4. Tool!Busy(Syncs)' = Tool!Busy(Syncs) /\ Tool!Busy(Syncs) \subseteq Syncs BY <2>3 DEF Tool!Busy
    <2> QED BY <2>2, <2>3, <2>4, SettledStays
  <1>8. Tool!Chosen'
    BY ComponentConstants DEF Tool!ToolConstants, Tool!IInv, Tool!TypeOK,
         Tool!Places, Tool!Kinds, Tool!Chosen, Tool!Alone, Tool!Busy,
         Tool!Named, Tool!Due, Tool!Validate, Tool!Goto, Tool!registry, Tool!midway, Tool!Ids
  <1>9. Tool!Room'
    <2>1. c \in ToolsProcesses /\ pc[c] = "checking" /\ UNCHANGED <<toolkit, rows, limits, logged, held, crowded, halved, made>>
      BY DEF Tool!Validate, ToolsProcesses, Tool!registry, Tool!midway
    <2>2. /\ pc' \in [ToolsProcesses -> ToolsLabels] /\ pc'[c] \in {"running", "done"} /\ \A q \in ToolsProcesses \ {c} : pc'[q] = pc[q]
      <3>1. "running" \in ToolsLabels /\ "done" \in ToolsLabels BY DEF ToolsLabels
      <3> QED BY <3>1, <2>1, ToolsGotoIs DEF Tool!Validate
    <2>3. Tool!Busy(Syncs)' = Tool!Busy(Syncs)
      BY <2>1, <2>2, ComponentConstants DEF Tool!ToolConstants, Tool!Busy, ToolsProcesses
    <2> SUFFICES ASSUME ~toolkit PROVE Tool!Room' BY <2>1 DEF Tool!Room
    <2>4. \A n \in Names : made[n] <= logged BY DEF Tool!IInv, Tool!Room
    <2> SUFFICES ASSUME ~crowded, NEW d \in ToolCalls, pc'[d] \in {"checking", "running"}
        PROVE  /\ Tool!Busy(Syncs) = {} /\ \A e \in ToolCalls : pc'[e] \in {"checking", "running"} => d = e
               /\ pc'[d] = "running" /\ ~halved => \A r \in rows :
                      r.name \in held[d].todo /\ r.id \in limits => made[r.name] < MaxCalls
      <3>1. ~crowded => \A s \in Tool!Busy(Syncs)' : \A r \in Tool!Mine(s)' : r.id \in limits' => made'[r.name] <= MaxCalls
        BY <2>1, <2>3 DEF Tool!IInv, Tool!Room, Tool!Mine
      <3> QED BY <3>1, <2>1, <2>3, <2>4 DEF Tool!Room
    <2>5. Tool!Busy(Syncs) = {} /\ \A e \in ToolCalls : pc[e] \in {"checking", "running"} => c = e
      BY <2>1 DEF Tool!IInv, Tool!Room
    <2>6. d = c /\ \A e \in ToolCalls : pc'[e] \in {"checking", "running"} => e = c BY <2>2, <2>5 DEF ToolsProcesses
    <2>7. ~halved => Tool!Single(rows) BY <2>5 DEF Tool!IInv, Tool!OldOnce, Tool!Settled, Tool!Single
    <2>8. ASSUME pc'[c] = "running", ~halved, NEW r \in rows, r.name \in held[c].todo, r.id \in limits
          PROVE  made[r.name] < MaxCalls
      <3>1. pc' = [pc EXCEPT ![c] = "running"] BY <2>1, <2>2, <2>8 DEF Tool!Validate, Tool!Goto
      <3>2. PICK q \in rows : q.name \in held[c].todo /\ (q.id \in limits => logged < MaxCalls)
        BY <3>1, <2>1, <2>8 DEF Tool!Validate, Tool!Goto, Tool!IInv, Tool!Places
      <3>3. q = r BY <3>2, <2>7, <2>8 DEF Tool!Single, Tool!IInv, Tool!Places
      <3>4. made[r.name] <= logged /\ made[r.name] \in Nat /\ logged \in Nat
        BY <2>4 DEF Tool!IInv, Tool!TypeOK, Tool!Kinds
      <3> QED BY <3>2, <3>3, <3>4, <2>8, ComponentConstants DEF Tool!ToolConstants
    <2> QED BY <2>5, <2>6, <2>8
  <1>10. Tool!LimitHolds'
    BY ComponentConstants DEF Tool!ToolConstants, Tool!IInv, Tool!TypeOK,
         Tool!Places, Tool!Kinds, Tool!Room, Tool!LimitHolds, Tool!Busy,
         Tool!Validate, Tool!Goto, Tool!registry, Tool!midway, Tool!Ids
  <1> QED BY <1>1, <1>2, <1>3, <1>4, <1>5, <1>6, <1>7, <1>8, <1>9, <1>10 DEF Tool!IInv

LEMMA RunStep ==
  ASSUME Tool!IInv, NEW c \in ToolCalls, Tool!Run(c)
  PROVE  Tool!IInv'
  <1> USE DEF Tool!IInv, Tool!TypeOK, Tool!Run, Tool!registry, Tool!midway, Tool!Places, Tool!Goto
  <1>1. Tool!Logged'
    <2> DEFINE a == Cardinality(Tool!At({"logging", "done"}))
               b == Cardinality(Tool!At({"done"}))
               aa == Cardinality(Tool!At({"logging", "done"})')
               bb == Cardinality(Tool!At({"done"})')
    <2>1. a \in Nat /\ b \in Nat /\ aa \in Nat /\ bb \in Nat BY AtIs
    <2>2. logged <= a + b /\ logged \in Nat BY ToolsCounts DEF Tool!Logged
    <2>3. c \in ToolsProcesses /\ pc[c] = "running" /\ Tool!Goto(c, "logging") /\ (logged' = logged \/ logged' = logged + 1) /\ pc \in [ToolsProcesses -> ToolsLabels]
      BY DEF ToolsProcesses, ToolsLabels
    <2>4. Tool!At({"logging", "done"})' = Tool!At({"logging", "done"}) \cup {c} /\ c \notin Tool!At({"logging", "done"}) /\ Tool!At({"done"})' = Tool!At({"done"})
      BY <2>3 DEF Tool!At, ToolsProcesses
    <2>5. aa = a + 1 /\ bb = b BY <2>4, AtMore
    <2> HIDE DEF a, b, aa, bb
    <2>6. logged' <= aa + bb BY <2>5, <2>1, <2>2, <2>3
    <2> QED BY <2>6, ToolsCounts DEF Tool!Logged, aa, bb
  <1>2. Tool!TypeOK'
    <2>1. logged' \in Nat /\ UNCHANGED <<rows, limits, approvals, choice>> OBVIOUS
    <2> QED BY <1>1, <2>1, LoggedIs, ToolsCounts DEF Tool!Ids
  <1>3. Tool!Places' BY ComponentConstants DEF Tool!ToolConstants, Tool!Kinds, Tool!Ids
  <1>4. Tool!Kinds' BY ComponentConstants DEF Tool!ToolConstants, Tool!Kinds, Tool!Ids
  <1>5. Tool!MadeOnce'
    BY ComponentConstants DEF Tool!ToolConstants, Tool!Kinds, Tool!MadeOnce, Tool!Busy,
         Tool!Single, Tool!Mine, Tool!Ids
  <1>6. Tool!Alone' BY ComponentConstants DEF Tool!ToolConstants, Tool!Alone, Tool!Busy
  <1>7. Tool!OldOnce'
    <2>1. c \notin Syncs BY ComponentConstants DEF Tool!ToolConstants
    <2>2. UNCHANGED <<toolkit, rows, halved>> /\ (raced => raced') /\ {raced', halved'} \subseteq BOOLEAN
      BY <2>1 DEF Tool!Run, Tool!registry, Tool!midway, Tool!Overlap, Tool!IInv, Tool!Kinds
    <2>3. \A s \in Syncs : pc'[s] = pc[s] /\ held'[s].ids = held[s].ids
      BY <2>1 DEF Tool!Run, Tool!Goto, Tool!registry, Tool!IInv, Tool!Places, Tool!Kinds
    <2>4. Tool!Busy(Syncs)' = Tool!Busy(Syncs) /\ Tool!Busy(Syncs) \subseteq Syncs BY <2>3 DEF Tool!Busy
    <2> QED BY <2>2, <2>3, <2>4, SettledStays
  <1>8. Tool!Chosen'
    BY ComponentConstants DEF Tool!ToolConstants, Tool!Kinds, Tool!Chosen, Tool!Alone,
         Tool!Busy, Tool!Named, Tool!Due, Tool!Ids
  <1>9. Tool!Room'
    BY ComponentConstants DEF Tool!ToolConstants, Tool!Kinds, Tool!Room, Tool!Alone,
         Tool!LimitHolds, Tool!Busy, Tool!Ids
  <1>10. Tool!LimitHolds'
    BY ComponentConstants DEF Tool!ToolConstants, Tool!Kinds, Tool!Room, Tool!LimitHolds,
         Tool!Busy, Tool!Ids
  <1> QED BY <1>1, <1>2, <1>3, <1>4, <1>5, <1>6, <1>7, <1>8, <1>9, <1>10

LEMMA AuditStep ==
  ASSUME Tool!IInv, NEW c \in ToolCalls, Tool!Audit(c)
  PROVE  Tool!IInv'
  <1> USE DEF Tool!IInv, Tool!TypeOK, Tool!Audit, Tool!registry, Tool!midway, Tool!Places, Tool!Goto
  <1>1. Tool!Logged'
    <2> DEFINE a == Cardinality(Tool!At({"logging", "done"}))
               b == Cardinality(Tool!At({"done"}))
               aa == Cardinality(Tool!At({"logging", "done"})')
               bb == Cardinality(Tool!At({"done"})')
    <2>1. a \in Nat /\ b \in Nat /\ aa \in Nat /\ bb \in Nat BY AtIs
    <2>2. logged <= a + b /\ logged \in Nat BY ToolsCounts DEF Tool!Logged
    <2>3. c \in ToolsProcesses /\ pc[c] = "logging" /\ Tool!Goto(c, "done") /\ (logged' = logged \/ logged' = logged + 1) /\ pc \in [ToolsProcesses -> ToolsLabels]
      BY DEF ToolsProcesses, ToolsLabels
    <2>4. Tool!At({"done"})' = Tool!At({"done"}) \cup {c} /\ c \notin Tool!At({"done"}) /\ Tool!At({"logging", "done"})' = Tool!At({"logging", "done"})
      BY <2>3 DEF Tool!At, ToolsProcesses
    <2>5. bb = b + 1 /\ aa = a BY <2>4, AtMore
    <2> HIDE DEF a, b, aa, bb
    <2>6. logged' <= aa + bb BY <2>5, <2>1, <2>2, <2>3
    <2> QED BY <2>6, ToolsCounts DEF Tool!Logged, aa, bb
  <1>2. Tool!TypeOK'
    <2>1. logged' \in Nat /\ UNCHANGED <<rows, limits, approvals, choice>> OBVIOUS
    <2> QED BY <1>1, <2>1, LoggedIs, ToolsCounts DEF Tool!Ids
  <1>3. Tool!Places' BY ComponentConstants DEF Tool!ToolConstants, Tool!Kinds, Tool!Ids
  <1>4. Tool!Kinds' BY ComponentConstants DEF Tool!ToolConstants, Tool!Kinds, Tool!Ids
  <1>5. Tool!MadeOnce'
    BY ComponentConstants DEF Tool!ToolConstants, Tool!Kinds, Tool!MadeOnce, Tool!Busy,
         Tool!Single, Tool!Mine, Tool!Ids
  <1>6. Tool!Alone' BY ComponentConstants DEF Tool!ToolConstants, Tool!Alone, Tool!Busy
  <1>7. Tool!OldOnce'
    <2>1. c \notin Syncs BY ComponentConstants DEF Tool!ToolConstants
    <2>2. UNCHANGED <<toolkit, rows, halved>> /\ (raced => raced') /\ {raced', halved'} \subseteq BOOLEAN
      BY <2>1 DEF Tool!Audit, Tool!registry, Tool!midway, Tool!Overlap, Tool!IInv, Tool!Kinds
    <2>3. \A s \in Syncs : pc'[s] = pc[s] /\ held'[s].ids = held[s].ids
      BY <2>1 DEF Tool!Audit, Tool!Goto, Tool!registry, Tool!IInv, Tool!Places, Tool!Kinds
    <2>4. Tool!Busy(Syncs)' = Tool!Busy(Syncs) /\ Tool!Busy(Syncs) \subseteq Syncs BY <2>3 DEF Tool!Busy
    <2> QED BY <2>2, <2>3, <2>4, SettledStays
  <1>8. Tool!Chosen'
    BY ComponentConstants DEF Tool!ToolConstants, Tool!Kinds, Tool!Chosen, Tool!Alone,
         Tool!Busy, Tool!Named, Tool!Due, Tool!Ids
  <1>9. Tool!Room'
    <2>1. c \notin Syncs /\ UNCHANGED <<toolkit, rows, limits, held, crowded, halved, made>>
      BY ComponentConstants DEF Tool!ToolConstants, Tool!midway
    <2>2. Tool!Busy(Syncs)' = Tool!Busy(Syncs) BY <2>1 DEF Tool!Busy
    <2>3. \A d \in ToolCalls : pc'[d] \in {"checking", "running"} => pc'[d] = pc[d] OBVIOUS
    <2>4. logged' = logged \/ logged' = logged + 1 OBVIOUS
    <2>5. ~toolkit => \A n \in Names : made'[n] <= logged' BY <2>1, <2>4 DEF Tool!Room, Tool!Kinds
    <2> QED BY <2>1, <2>2, <2>3, <2>5 DEF Tool!Room, Tool!Mine
  <1>10. Tool!LimitHolds'
    BY ComponentConstants DEF Tool!ToolConstants, Tool!Kinds, Tool!Room, Tool!LimitHolds,
         Tool!Busy, Tool!Ids
  <1> QED BY <1>1, <1>2, <1>3, <1>4, <1>5, <1>6, <1>7, <1>8, <1>9, <1>10

LEMMA ToolsInit ==
  ASSUME Tool!Init
  PROVE  Tool!IInv
  <1> DEFINE first == CHOOSE x \in Names : TRUE
  <1>1. first \in Names BY FirstIs, ComponentConstants DEF Tool!ToolConstants
  <1>2. /\ toolkit \in BOOLEAN /\ rows = {[id |-> 1, name |-> first, on |-> TRUE]} /\ last = 1
        /\ limits = {} /\ approvals = {} /\ logged = 0 /\ raced = FALSE /\ halved = FALSE /\ torn = FALSE /\ crowded = FALSE
        /\ pc \in [ToolsProcesses -> {"absent", "idle"}]
        /\ held = [p \in ToolsProcesses |-> [todo |-> {}, on |-> TRUE, ids |-> {}]]
        /\ choice = [n \in Names |-> TRUE] /\ made = [n \in Names |-> 0]
    BY DEF Tool!Init, ToolsProcesses
  <1> HIDE DEF first
  <1>3. Tool!TypeOK
    <2>1. Cardinality(ToolCalls) \in Nat BY AtIs
    <2>2. 0 \in 0 .. 2 * Cardinality(ToolCalls) BY <2>1
    <2> QED
      BY <1>1, <1>2, <2>2, ToolsCounts, ComponentConstants DEF Tool!ToolConstants,
           Tool!TypeOK, Tool!Ids
  <1>4. Tool!Logged
    <2>1. Cardinality(Tool!At({"logging", "done"})) \in Nat /\ Cardinality(Tool!At({"done"})) \in Nat BY AtIs
    <2> QED BY <1>2, <2>1, ToolsCounts DEF Tool!Logged
  <1>5. Tool!Places BY <1>2 DEF Tool!Places, ToolsProcesses
  <1>6. Tool!Kinds
    <2>1. held \in [ToolsProcesses -> [todo : SUBSET Names, on : BOOLEAN, ids : SUBSET (1 .. last)]] BY <1>2
    <2>2. last \in 1 .. MaxRows /\ (\A r \in rows : r.id <= last) /\ \A r, q \in rows : r.id = q.id => r = q
      BY <1>2, ComponentConstants DEF Tool!ToolConstants
    <2>3. made \in [Names -> Nat] BY <1>2
    <2> QED BY <2>1, <2>2, <2>3, <1>2 DEF Tool!Kinds, ToolsProcesses
  <1>7. Tool!Busy(Syncs) = {} /\ Tool!Busy(Toggles) = {} /\ \A p \in ToolCalls : pc[p] \notin {"checking", "running"}
    BY <1>2 DEF Tool!Busy, ToolsProcesses
  <1>8. Tool!MadeOnce /\ Tool!Alone /\ Tool!OldOnce /\ Tool!Room /\ Tool!LimitHolds
    <2>1. Tool!OldOnce BY <1>2 DEF Tool!OldOnce, Tool!Single, Tool!Settled
    <2>2. Tool!MadeOnce /\ Tool!Alone BY <1>7 DEF Tool!MadeOnce, Tool!Alone
    <2>3. Tool!Room /\ Tool!LimitHolds BY <1>1, <1>2, <1>7 DEF Tool!Room, Tool!LimitHolds
    <2> QED BY <2>1, <2>2, <2>3
  <1>9. Tool!Chosen
    <2>1. \A s \in Syncs : pc[s] # "upserting" BY <1>2 DEF ToolsProcesses
    <2>2. \A r \in rows : r.on = choice[r.name]
      <3>1. choice[first] = TRUE BY <1>1, <1>2
      <3>2. [id |-> 1, name |-> first, on |-> TRUE].on = TRUE /\ [id |-> 1, name |-> first, on |-> TRUE].name = first
        OBVIOUS
      <3> QED BY <3>1, <3>2, <1>2
    <2> QED BY <2>1, <2>2, <1>7 DEF Tool!Chosen
  <1> QED BY <1>3, <1>4, <1>5, <1>6, <1>8, <1>9 DEF Tool!IInv

LEMMA ToolsStep ==
  ASSUME Tool!IInv, Tool!Next
  PROVE  Tool!IInv'
  BY ListStep, ToolsFindStep, UpsertStep, RemoveStep, SyncFailsStep, ReadToolStep, SaveToolStep,
       BulkToggleStep, LimitStep, RequireApprovalStep,
     LiftPoliciesStep, ToolsRouteStep, ToolsValidateStep, RunStep, AuditStep DEF Tool!Next

LEMMA ToolsStay ==
  ASSUME Tool!IInv, UNCHANGED Tool!vars
  PROVE  Tool!IInv'
  BY DEF Tool!vars, Tool!midway, Tool!Settled, Tool!IInv, Tool!TypeOK, Tool!Places, Tool!Kinds,
       Tool!Logged, Tool!MadeOnce, Tool!Alone, Tool!OldOnce, Tool!Chosen,
       Tool!Room, Tool!LimitHolds, Tool!Ids, Tool!Busy, Tool!Named, Tool!Mine,
       Tool!Single, Tool!At, Tool!Due

\* Names that occur once are counted once.
LEMMA ToolsIs ==
  ASSUME Tool!IInv
  PROVE  Tool!TypeOK /\ Tool!OneRowPerTool /\ Tool!SwitchKept /\ Tool!LimitHolds
  <1>1. ASSUME toolkit => ~raced, ~halved, Tool!Busy(Syncs) = {}, NEW n \in Names
        PROVE  Cardinality(Tool!Named(n)) <= 1
    <2>1. Tool!Single(rows) BY <1>1 DEF Tool!IInv, Tool!OldOnce, Tool!Settled, Tool!Single
    <2>2. CASE Tool!Named(n) = {} BY <2>2, FS_EmptySet, ToolsCounts
    <2>3. CASE Tool!Named(n) # {}
      <3>1. PICK r \in Tool!Named(n) : TRUE BY <2>3
      <3>2. Tool!Named(n) = {r} BY <3>1, <2>1 DEF Tool!Named, Tool!Single
      <3>3. Cardinality({r}) = 1 BY FS_Singleton
      <3> QED BY <3>2, <3>3
    <2> QED BY <2>2, <2>3
  <1>2. Tool!SwitchKept BY DEF Tool!IInv, Tool!Chosen, Tool!SwitchKept
  <1> QED BY <1>1, <1>2, ToolsCounts DEF Tool!IInv, Tool!OneRowPerTool

LEMMA ToolsAlways == Spec => [](which = "Tool" => Tool!IInv)
  <1> DEFINE I == which = "Tool" => Tool!IInv
  <1>1. Init => I BY ToolsInit, ComponentConstants DEF Init
  <1>2. I /\ [Next]_vars => I'
    <2>1. ASSUME Tool!IInv, [Tool!Next]_Tool!vars PROVE Tool!IInv' BY <2>1, ToolsStep, ToolsStay, ComponentConstants
    <2>2. ASSUME [Next]_vars, which' = "Tool"
          PROVE  which = "Tool" /\ [Tool!Next]_Tool!vars
      BY <2>2 DEF Next, vars, Tool!vars
    <2> QED BY <2>1, <2>2
  <1> QED BY <1>1, <1>2, PTL DEF Spec

------------------------
\* The integrations: an account comes before its row, and who removes a row has read its
\* account (App!IInv).

IntegrationRows == [id : 1 .. MaxServers, kit : {"gmail", "telegram", "bitrix24"}, account : App!Makers \cup {Unset},
           place : Keyed \cup Direct \cup {Unset}, active : BOOLEAN, tools : {"none", "own", "composio"}]

IntegrationHeld(n) == [row : 0 .. n, on : App!Makers \cup Direct \cup {Unset}, known : BOOLEAN,
              kit : {"none", "gmail", "telegram", "bitrix24"}, tools : {"none", "own", "composio"}]

\* What is written of one process is not written of another.
LEMMA IntegrationHeldIs ==
  ASSUME App!IInv, NEW p \in App!Processes, NEW n \in {last, last + 1},
         NEW v \in IntegrationHeld(n), held' = [held EXCEPT ![p] = v]
  PROVE  held' \in [App!Processes -> IntegrationHeld(n)] /\ held'[p] = v /\ \A q \in App!Processes \ {p} : held'[q] = held[q]
  <1>1. last \in Nat /\ 0 .. last \subseteq 0 .. n
    BY ComponentConstants DEF App!IntegrationConstants, App!IInv, App!Kinds
  <1>2. IntegrationHeld(last) \subseteq IntegrationHeld(n) BY <1>1 DEF IntegrationHeld
  <1>3. held \in [App!Processes -> IntegrationHeld(last)] BY DEF App!IInv, App!Kinds, IntegrationHeld
  <1> QED BY <1>2, <1>3

\* A row made is one more, with a number of its own.
LEMMA CreateIs ==
  ASSUME App!IInv, NEW p \in App!Processes,
         NEW kit \in {"gmail", "telegram", "bitrix24"}, NEW a \in App!Makers \cup {Unset},
         NEW place \in Keyed \cup Direct \cup {Unset}, App!CreateServer(p, App!Row(kit, a, place))
  PROVE  /\ last' = last + 1 /\ last' \in 1 .. MaxServers /\ last \in Nat
         /\ rows' = rows \cup {App!Row(kit, a, place)} /\ rows' \subseteq IntegrationRows /\ rows \subseteq IntegrationRows
         /\ App!Row(kit, a, place).id = last + 1 /\ App!Row(kit, a, place).kit = kit /\ App!Row(kit, a, place).account = a
         /\ \A r, q \in rows' : r.id = q.id => r = q
         /\ \A r \in rows : r.id < last'
         /\ held' \in [App!Processes -> IntegrationHeld(last')] /\ \A q \in App!Processes \ {p} : held'[q] = held[q]
         /\ \A q \in App!Processes : held'[q].on = held[q].on /\ held'[q].known = held[q].known
  <1>1. /\ last < MaxServers /\ last' = last + 1 /\ rows' = rows \cup {App!Row(kit, a, place)}
        /\ held' = [held EXCEPT ![p].row = last + 1]
    BY DEF App!CreateServer
  <1>2. last \in Nat /\ last' \in 1 .. MaxServers
    BY <1>1, ComponentConstants DEF App!IntegrationConstants, App!IInv,
         App!Kinds
  <1>3. App!Row(kit, a, place) \in IntegrationRows /\ App!Row(kit, a, place).id = last + 1 /\ App!Row(kit, a, place).kit = kit /\ App!Row(kit, a, place).account = a
    BY <1>1, <1>2 DEF App!Row, IntegrationRows
  <1>4. rows \subseteq IntegrationRows /\ \A r \in rows : r.id < last'
    BY <1>1, <1>2 DEF App!IInv, App!TypeOK, App!Kinds, IntegrationRows
  <1>5. \A r, q \in rows' : r.id = q.id => r = q BY <1>1, <1>3, <1>4, <1>2 DEF App!IInv, App!Kinds
  <1> DEFINE v == [held[p] EXCEPT !.row = last + 1]
  <1>6. held' = [held EXCEPT ![p] = v] BY <1>1
  <1>7. held[p] \in IntegrationHeld(last) BY DEF App!IInv, App!Kinds, IntegrationHeld
  <1>8. v \in IntegrationHeld(last + 1) /\ v.on = held[p].on /\ v.known = held[p].known
    BY <1>7, <1>2 DEF IntegrationHeld
  <1> HIDE DEF v
  <1>9. held' \in [App!Processes -> IntegrationHeld(last + 1)] /\ held'[p] = v /\ \A q \in App!Processes \ {p} : held'[q] = held[q]
    BY <1>6, <1>8, IntegrationHeldIs
  <1> QED BY <1>1, <1>2, <1>3, <1>4, <1>5, <1>8, <1>9

\* Rows that keep their number, kit and account, keep the invariant.
LEMMA RenewedIs ==
  ASSUME App!IInv, rows' \subseteq IntegrationRows,
         \A q \in rows' : \E r \in rows : q.id = r.id /\ q.kit = r.kit /\ q.account = r.account,
         \A r \in rows : \E q \in rows' : q.id = r.id /\ q.kit = r.kit /\ q.account = r.account,
         \A r, q \in rows' : r.id = q.id => r = q,
         edits' \in Nat, UNCHANGED <<account, last, pc, held, stray, twice, acted>>
  PROVE  App!IInv'
  <1> USE DEF App!IInv
  <1>1. App!TypeOK' BY DEF App!TypeOK, IntegrationRows
  <1>2. App!Kinds' BY DEF App!Kinds
  <1>3. App!Made' BY DEF App!Made, App!Pending
  <1>4. App!Removing'
    <2>1. \A r, q \in rows' : r.account = q.account /\ r.account # Unset /\ r.account \notin twice => r.id = q.id
      BY DEF App!Removing
    <2> QED BY <2>1 DEF App!Removing
  <1>5. App!Acting' BY DEF App!Acting
  <1>6. App!IntegrationsSound'
    <2>1. App!NoHiddenAccount'
      <3> SUFFICES ASSUME NEW a \in App!Makers, account[a] = "active", a \notin stray,
                          a \notin App!Pending
          PROVE \E q \in rows' : q.account = a
        BY DEF App!NoHiddenAccount, App!Pending
      <3>1. PICK r \in rows : r.account = a BY DEF App!IntegrationsSound, App!NoHiddenAccount
      <3> QED BY <3>1
    <2>2. App!RowsBacked' /\ App!ActsOnConnected' BY DEF App!IntegrationsSound, App!RowsBacked, App!ActsOnConnected
    <2> QED BY <2>1, <2>2 DEF App!IntegrationsSound
  <1> QED BY <1>1, <1>2, <1>3, <1>4, <1>5, <1>6

LEMMA InitiateStep ==
  ASSUME App!IInv, NEW c \in Consents, App!Initiate(c)
  PROVE  App!IInv'
  <1> USE ComponentConstants DEF App!IntegrationConstants, App!IInv, App!TypeOK,
           App!Kinds, App!Makers, App!Processes, App!Initiate, App!Goto
  <1>1. App!TypeOK' OBVIOUS
  <1>2. App!Kinds' OBVIOUS
  <1>3. App!Made' BY DEF App!Made, App!Pending
  <1>4. App!Removing' BY DEF App!Made, App!Removing
  <1>5. App!Acting' BY DEF App!Acting
  <1>6. App!NoHiddenAccount' BY DEF App!Made, App!IntegrationsSound, App!NoHiddenAccount, App!Pending
  <1>7. App!RowsBacked' BY DEF App!Made, App!Removing, App!IntegrationsSound, App!RowsBacked, App!Pending
  <1>8. App!ActsOnConnected' BY DEF App!Acting, App!IntegrationsSound, App!ActsOnConnected
  <1> QED BY <1>1, <1>2, <1>3, <1>4, <1>5, <1>6, <1>7, <1>8 DEF App!IntegrationsSound

LEMMA ConsentStep ==
  ASSUME App!IInv, NEW c \in Consents, App!Consent(c)
  PROVE  App!IInv'
  <1> USE ComponentConstants DEF App!IntegrationConstants, App!IInv, App!TypeOK,
           App!Kinds, App!Makers, App!Processes, App!Consent, App!Goto
  <1>1. App!TypeOK' OBVIOUS
  <1>2. App!Kinds' OBVIOUS
  <1>3. App!Made' BY DEF App!Made, App!Pending
  <1>4. App!Removing' BY DEF App!Made, App!Removing
  <1>5. App!Acting' BY DEF App!Acting
  <1>6. App!NoHiddenAccount' BY DEF App!Made, App!IntegrationsSound, App!NoHiddenAccount, App!Pending
  <1>7. App!RowsBacked' BY DEF App!Made, App!Removing, App!IntegrationsSound, App!RowsBacked, App!Pending
  <1>8. App!ActsOnConnected' BY DEF App!Acting, App!IntegrationsSound, App!ActsOnConnected
  <1> QED BY <1>1, <1>2, <1>3, <1>4, <1>5, <1>6, <1>7, <1>8 DEF App!IntegrationsSound

LEMMA CallbackStep ==
  ASSUME App!IInv, NEW c \in Consents, App!Callback(c)
  PROVE  App!IInv'
  <1> USE DEF App!IInv
  <1>1. CASE ~(App!CreateServer(c, App!Row("gmail", c, Unset)) /\ App!Goto(c, "discovering") /\ UNCHANGED stray)
    <2>1. App!TypeOK' /\ App!Kinds'
      BY <1>1, ComponentConstants DEF App!IntegrationConstants, App!TypeOK, App!Kinds, App!Makers,
           App!Processes, App!Callback, App!Goto
    <2>2. App!Made' /\ App!Removing' /\ App!Acting'
      BY <1>1, ComponentConstants DEF App!IntegrationConstants, App!TypeOK, App!Kinds, App!Made,
           App!Removing, App!Acting, App!Pending, App!Makers, App!Processes, App!Callback,
           App!Goto
    <2>3. App!NoHiddenAccount'
      BY <1>1, ComponentConstants DEF App!IntegrationConstants, App!TypeOK, App!Kinds, App!Made,
           App!IntegrationsSound, App!NoHiddenAccount, App!Pending, App!Makers,
           App!Processes, App!Callback, App!Goto
    <2>4. App!RowsBacked' /\ App!ActsOnConnected'
      BY <1>1, ComponentConstants DEF App!IntegrationConstants, App!TypeOK, App!Kinds, App!Made,
           App!Removing, App!IntegrationsSound, App!RowsBacked, App!ActsOnConnected,
           App!Makers, App!Processes, App!Callback, App!Goto
    <2> QED BY <2>1, <2>2, <2>3, <2>4 DEF App!IntegrationsSound
  <1>2. CASE App!CreateServer(c, App!Row("gmail", c, Unset)) /\ App!Goto(c, "discovering") /\ UNCHANGED stray
    <2> DEFINE new == App!Row("gmail", c, Unset)
    <2>1. c \in App!Makers /\ c \in App!Processes /\ c \in App!Makers \cup {Unset} /\ Unset \in Keyed \cup Direct \cup {Unset}
      BY DEF App!Makers, App!Processes
    <2>2. /\ last' = last + 1 /\ last' \in 1 .. MaxServers /\ last \in Nat
          /\ rows' = rows \cup {new} /\ rows' \subseteq IntegrationRows /\ rows \subseteq IntegrationRows
          /\ new.id = last + 1 /\ new.kit = "gmail" /\ new.account = c
          /\ \A r, q \in rows' : r.id = q.id => r = q
          /\ \A r \in rows : r.id < last'
          /\ held' \in [App!Processes -> IntegrationHeld(last')] /\ \A q \in App!Processes \ {c} : held'[q] = held[q]
          /\ \A q \in App!Processes : held'[q].on = held[q].on /\ held'[q].known = held[q].known
      BY <1>2, <2>1, CreateIs
    <2>3. /\ pc' = [pc EXCEPT ![c] = "discovering"] /\ UNCHANGED <<account, edits, stray, acted>>
          /\ twice' = (IF pc[c] = "done" THEN twice \cup {c} ELSE twice)
      BY <1>2 DEF App!Callback, App!Goto
    <2> HIDE DEF new
    <2>4. App!TypeOK' BY <2>1, <2>2, <2>3 DEF App!TypeOK, IntegrationRows
    <2>5. App!Kinds'
      <3>1. c \in Consents <=> "gmail" = "gmail" BY ComponentConstants DEF App!IntegrationConstants
      <3>2. \A r \in rows' : r.id <= last' /\ (r.kit = "gmail" <=> r.account \in Consents)
        BY <3>1, <2>2 DEF App!Kinds, IntegrationRows
      <3>3. /\ held' \in [App!Processes -> [row : 0 .. last', on : App!Makers \cup Direct \cup {Unset}, known : BOOLEAN,
                                kit : {"none", "gmail", "telegram", "bitrix24"},
                                tools : {"none", "own", "composio"}]]
        BY <2>2 DEF IntegrationHeld
      <3>4. pc' \in [App!Processes -> {"absent", "idle", "away", "back", "creating", "discovering", "saving",
                              "dropping", "destroying", "routed", "acting", "done"}]
        BY <2>3 DEF App!Kinds
      <3> QED BY <3>2, <3>3, <3>4, <2>2, <2>3 DEF App!Kinds
    <2>6. App!Made'
      <3>1. \A a \in App!Makers : pc[a] \notin {"discovering", "done"} => /\ \A r \in rows : r.account # a
                                                                    /\ \A e \in Removals : held[e].on # a
        BY DEF App!Made
      <3>2. \A a \in App!Makers : a # c => pc'[a] = pc[a] BY <2>3 DEF App!Kinds, App!Makers, App!Processes
      <3>3. pc'[c] = "discovering" BY <2>1, <2>3 DEF App!Kinds
      <3>4. \A e \in Removals : held'[e].on = held[e].on BY <2>2 DEF App!Processes
      <3> QED BY <3>1, <3>2, <3>3, <3>4, <2>2, <2>3 DEF App!Made, App!Pending
    <2>7. App!Removing'
      <3>1. \A e \in Removals : held'[e] = held[e] /\ pc'[e] = pc[e] /\ held[e].row <= last
        BY <2>2, <2>3, ComponentConstants DEF App!IntegrationConstants, App!Kinds, App!Processes,
             IntegrationHeld, App!Makers
      <3>2. c \notin twice' => (\A r \in rows : r.account # c) /\ \A e \in Removals : held[e].on # c
        BY <2>1, <2>3 DEF App!Made, App!Callback
      <3>3. twice \subseteq twice' /\ c # Unset BY <2>3, <2>1, ComponentConstants DEF App!IntegrationConstants
      <3>4. \A r \in rows : r.account = c /\ c \notin twice' => FALSE BY <3>2
      <3>5. \A r, q \in rows' : r.account = q.account /\ r.account # Unset /\ r.account \notin twice' => r = q
        BY <3>3, <3>4, <2>2 DEF App!Removing
      <3>6. ASSUME NEW e \in Removals, pc'[e] \in {"dropping", "destroying"}
            PROVE  /\ \A r \in rows' : r.id = held'[e].row => r.account = held'[e].on
                   /\ \A r \in rows' : r.account = held'[e].on /\ r.account # Unset /\ r.account \notin twice' =>
                          r.id = held'[e].row
                   /\ pc'[e] = "destroying" /\ held'[e].on # Unset =>
                          account'[held'[e].on] # "active" \/ held'[e].on \in stray'
        <4>1. held'[e] = held[e] /\ pc'[e] = pc[e] /\ held[e].row # last + 1
          BY <3>1, <2>2, <3>6 DEF App!Kinds, App!Processes
        <4>2. \A r \in rows' : r.id = held'[e].row => r.account = held'[e].on BY <4>1, <2>2, <3>6 DEF App!Removing
        <4>3. \A r \in rows' : r.account = held'[e].on /\ r.account # Unset /\ r.account \notin twice' => r.id = held'[e].row
          BY <4>1, <2>2, <3>2, <3>3, <3>6 DEF App!Removing
        <4> QED BY <4>1, <4>2, <4>3, <2>3, <3>6 DEF App!Removing
      <3>7. \A e \in Removals : held'[e].on \in App!Makers \cup {Unset} BY <3>1 DEF App!Removing
      <3> QED BY <3>5, <3>6, <3>7 DEF App!Removing
    <2>8. App!Acting'
      BY <2>2, <2>3, ComponentConstants DEF App!IntegrationConstants, App!Kinds, App!Acting,
           App!Processes, App!Makers
    <2>9. App!NoHiddenAccount'
      <3>1. \A a \in App!Makers : a # c => pc'[a] = pc[a] BY <2>3 DEF App!Kinds, App!Makers, App!Processes
      <3>2. new \in rows' /\ rows \subseteq rows' BY <2>2
      <3> QED BY <3>1, <3>2, <2>2, <2>3 DEF App!IntegrationsSound, App!NoHiddenAccount, App!Pending
    <2>10. App!RowsBacked'
      <3>1. account[c] = "active" \/ c \in stray \cup twice' BY <2>1, <2>3 DEF App!Made, App!Pending, App!Callback
      <3>2. \A e \in Removals : held'[e] = held[e] /\ pc'[e] = pc[e]
        BY <2>2, <2>3, ComponentConstants DEF App!IntegrationConstants, App!Kinds, App!Processes,
             App!Makers
      <3>3. twice \subseteq twice' BY <2>3
      <3>4. \A r \in rows : r.account # Unset /\ r.account \notin stray' \cup twice' =>
               account'[r.account] = "active" \/ \E e \in Removals : pc'[e] = "destroying" /\ held'[e].row = r.id
        BY <3>2, <3>3, <2>3 DEF App!IntegrationsSound, App!RowsBacked
      <3>5. new.account \notin stray' \cup twice' => account'[new.account] = "active" BY <3>1, <2>2, <2>3
      <3> QED BY <3>4, <3>5, <2>2 DEF App!RowsBacked
    <2>11. App!ActsOnConnected' BY <2>3 DEF App!IntegrationsSound, App!ActsOnConnected
    <2> QED BY <2>4, <2>5, <2>6, <2>7, <2>8, <2>9, <2>10, <2>11 DEF App!IntegrationsSound
  <1> QED BY <1>1, <1>2

LEMMA ConnectWithApiKeyStep ==
  ASSUME App!IInv, NEW k \in Keyed, App!ConnectWithApiKey(k)
  PROVE  App!IInv'
  <1> USE ComponentConstants DEF App!IntegrationConstants, App!IInv, App!TypeOK,
           App!Kinds, App!Makers, App!Processes, App!ConnectWithApiKey, App!Goto
  <1>1. App!TypeOK' OBVIOUS
  <1>2. App!Kinds' OBVIOUS
  <1>3. App!Made' BY DEF App!Made, App!Pending
  <1>4. App!Removing' BY DEF App!Made, App!Removing
  <1>5. App!Acting' BY DEF App!Acting
  <1>6. App!NoHiddenAccount' BY DEF App!Made, App!IntegrationsSound, App!NoHiddenAccount, App!Pending
  <1>7. App!RowsBacked' BY DEF App!Made, App!Removing, App!IntegrationsSound, App!RowsBacked, App!Pending
  <1>8. App!ActsOnConnected' BY DEF App!Acting, App!IntegrationsSound, App!ActsOnConnected
  <1> QED BY <1>1, <1>2, <1>3, <1>4, <1>5, <1>6, <1>7, <1>8 DEF App!IntegrationsSound

LEMMA CreateKeyedStep ==
  ASSUME App!IInv, NEW k \in Keyed, App!CreateKeyed(k)
  PROVE  App!IInv'
  <1> USE DEF App!IInv
  <1>1. CASE ~(App!CreateServer(k, App!Row("telegram", k, k)) /\ App!Goto(k, "discovering") /\ UNCHANGED stray)
    <2>1. App!TypeOK' /\ App!Kinds'
      BY <1>1, ComponentConstants DEF App!IntegrationConstants, App!TypeOK, App!Kinds, App!Makers,
           App!Processes, App!CreateKeyed, App!Goto
    <2>2. App!Made' /\ App!Removing' /\ App!Acting'
      BY <1>1, ComponentConstants DEF App!IntegrationConstants, App!TypeOK, App!Kinds, App!Made,
           App!Removing, App!Acting, App!Pending, App!Makers, App!Processes,
           App!CreateKeyed, App!Goto
    <2>3. App!NoHiddenAccount'
      BY <1>1, ComponentConstants DEF App!IntegrationConstants, App!TypeOK, App!Kinds, App!Made,
           App!IntegrationsSound, App!NoHiddenAccount, App!Pending, App!Makers,
           App!Processes, App!CreateKeyed, App!Goto
    <2>4. App!RowsBacked' /\ App!ActsOnConnected'
      BY <1>1, ComponentConstants DEF App!IntegrationConstants, App!TypeOK, App!Kinds, App!Made,
           App!Removing, App!IntegrationsSound, App!RowsBacked, App!ActsOnConnected,
           App!Makers, App!Processes, App!CreateKeyed, App!Goto
    <2> QED BY <2>1, <2>2, <2>3, <2>4 DEF App!IntegrationsSound
  <1>2. CASE App!CreateServer(k, App!Row("telegram", k, k)) /\ App!Goto(k, "discovering") /\ UNCHANGED stray
    <2> DEFINE new == App!Row("telegram", k, k)
    <2>1. k \in App!Makers /\ k \in App!Processes /\ k \in App!Makers \cup {Unset} /\ k \in Keyed \cup Direct \cup {Unset}
      BY DEF App!Makers, App!Processes
    <2>2. /\ last' = last + 1 /\ last' \in 1 .. MaxServers /\ last \in Nat
          /\ rows' = rows \cup {new} /\ rows' \subseteq IntegrationRows /\ rows \subseteq IntegrationRows
          /\ new.id = last + 1 /\ new.kit = "telegram" /\ new.account = k
          /\ \A r, q \in rows' : r.id = q.id => r = q
          /\ \A r \in rows : r.id < last'
          /\ held' \in [App!Processes -> IntegrationHeld(last')] /\ \A q \in App!Processes \ {k} : held'[q] = held[q]
          /\ \A q \in App!Processes : held'[q].on = held[q].on /\ held'[q].known = held[q].known
      BY <1>2, <2>1, CreateIs
    <2>3. /\ pc' = [pc EXCEPT ![k] = "discovering"] /\ UNCHANGED <<account, edits, stray, acted>>
          /\ twice' = twice
      BY <1>2 DEF App!CreateKeyed, App!Goto
    <2> HIDE DEF new
    <2>4. App!TypeOK' BY <2>1, <2>2, <2>3 DEF App!TypeOK, IntegrationRows
    <2>5. App!Kinds'
      <3>1. k \in Consents <=> "telegram" = "gmail" BY ComponentConstants DEF App!IntegrationConstants
      <3>2. \A r \in rows' : r.id <= last' /\ (r.kit = "gmail" <=> r.account \in Consents)
        BY <3>1, <2>2 DEF App!Kinds, IntegrationRows
      <3>3. /\ held' \in [App!Processes -> [row : 0 .. last', on : App!Makers \cup Direct \cup {Unset}, known : BOOLEAN,
                                kit : {"none", "gmail", "telegram", "bitrix24"},
                                tools : {"none", "own", "composio"}]]
        BY <2>2 DEF IntegrationHeld
      <3>4. pc' \in [App!Processes -> {"absent", "idle", "away", "back", "creating", "discovering", "saving",
                              "dropping", "destroying", "routed", "acting", "done"}]
        BY <2>3 DEF App!Kinds
      <3> QED BY <3>2, <3>3, <3>4, <2>2, <2>3 DEF App!Kinds
    <2>6. App!Made'
      <3>1. \A a \in App!Makers : pc[a] \notin {"discovering", "done"} => /\ \A r \in rows : r.account # a
                                                                    /\ \A e \in Removals : held[e].on # a
        BY DEF App!Made
      <3>2. \A a \in App!Makers : a # k => pc'[a] = pc[a] BY <2>3 DEF App!Kinds, App!Makers, App!Processes
      <3>3. pc'[k] = "discovering" BY <2>1, <2>3 DEF App!Kinds
      <3>4. \A e \in Removals : held'[e].on = held[e].on BY <2>2 DEF App!Processes
      <3> QED BY <3>1, <3>2, <3>3, <3>4, <2>2, <2>3 DEF App!Made, App!Pending
    <2>7. App!Removing'
      <3>1. \A e \in Removals : held'[e] = held[e] /\ pc'[e] = pc[e] /\ held[e].row <= last
        BY <2>2, <2>3, ComponentConstants DEF App!IntegrationConstants, App!Kinds, App!Processes,
             IntegrationHeld, App!Makers
      <3>2. k \notin twice' => (\A r \in rows : r.account # k) /\ \A e \in Removals : held[e].on # k
        BY <2>1, <2>3 DEF App!Made, App!CreateKeyed
      <3>3. twice \subseteq twice' /\ k # Unset BY <2>3, <2>1, ComponentConstants DEF App!IntegrationConstants
      <3>4. \A r \in rows : r.account = k /\ k \notin twice' => FALSE BY <3>2
      <3>5. \A r, q \in rows' : r.account = q.account /\ r.account # Unset /\ r.account \notin twice' => r = q
        BY <3>3, <3>4, <2>2 DEF App!Removing
      <3>6. ASSUME NEW e \in Removals, pc'[e] \in {"dropping", "destroying"}
            PROVE  /\ \A r \in rows' : r.id = held'[e].row => r.account = held'[e].on
                   /\ \A r \in rows' : r.account = held'[e].on /\ r.account # Unset /\ r.account \notin twice' =>
                          r.id = held'[e].row
                   /\ pc'[e] = "destroying" /\ held'[e].on # Unset =>
                          account'[held'[e].on] # "active" \/ held'[e].on \in stray'
        <4>1. held'[e] = held[e] /\ pc'[e] = pc[e] /\ held[e].row # last + 1
          BY <3>1, <2>2, <3>6 DEF App!Kinds, App!Processes
        <4>2. \A r \in rows' : r.id = held'[e].row => r.account = held'[e].on BY <4>1, <2>2, <3>6 DEF App!Removing
        <4>3. \A r \in rows' : r.account = held'[e].on /\ r.account # Unset /\ r.account \notin twice' => r.id = held'[e].row
          BY <4>1, <2>2, <3>2, <3>3, <3>6 DEF App!Removing
        <4> QED BY <4>1, <4>2, <4>3, <2>3, <3>6 DEF App!Removing
      <3>7. \A e \in Removals : held'[e].on \in App!Makers \cup {Unset} BY <3>1 DEF App!Removing
      <3> QED BY <3>5, <3>6, <3>7 DEF App!Removing
    <2>8. App!Acting'
      BY <2>2, <2>3, ComponentConstants DEF App!IntegrationConstants, App!Kinds, App!Acting,
           App!Processes, App!Makers
    <2>9. App!NoHiddenAccount'
      <3>1. \A a \in App!Makers : a # k => pc'[a] = pc[a] BY <2>3 DEF App!Kinds, App!Makers, App!Processes
      <3>2. new \in rows' /\ rows \subseteq rows' BY <2>2
      <3> QED BY <3>1, <3>2, <2>2, <2>3 DEF App!IntegrationsSound, App!NoHiddenAccount, App!Pending
    <2>10. App!RowsBacked'
      <3>1. account[k] = "active" \/ k \in stray \cup twice'
        BY <2>1, <2>3 DEF App!Made, App!Pending, App!CreateKeyed
      <3>2. \A e \in Removals : held'[e] = held[e] /\ pc'[e] = pc[e]
        BY <2>2, <2>3, ComponentConstants DEF App!IntegrationConstants, App!Kinds, App!Processes,
             App!Makers
      <3>3. twice \subseteq twice' BY <2>3
      <3>4. \A r \in rows : r.account # Unset /\ r.account \notin stray' \cup twice' =>
               account'[r.account] = "active" \/ \E e \in Removals : pc'[e] = "destroying" /\ held'[e].row = r.id
        BY <3>2, <3>3, <2>3 DEF App!IntegrationsSound, App!RowsBacked
      <3>5. new.account \notin stray' \cup twice' => account'[new.account] = "active" BY <3>1, <2>2, <2>3
      <3> QED BY <3>4, <3>5, <2>2 DEF App!RowsBacked
    <2>11. App!ActsOnConnected' BY <2>3 DEF App!IntegrationsSound, App!ActsOnConnected
    <2> QED BY <2>4, <2>5, <2>6, <2>7, <2>8, <2>9, <2>10, <2>11 DEF App!IntegrationsSound
  <1> QED BY <1>1, <1>2

LEMMA DiscoverStep ==
  ASSUME App!IInv, NEW p \in App!Makers, App!Discover(p)
  PROVE  App!IInv'
  <1> USE DEF App!IInv
  <1>1. App!TypeOK'
    BY ComponentConstants DEF App!IntegrationConstants, App!TypeOK, App!Kinds, App!Makers,
         App!Processes, App!Discover, App!Goto, App!SaveTools
  <1>2. App!Kinds'
    BY ComponentConstants DEF App!IntegrationConstants, App!TypeOK, App!Kinds, App!Makers,
         App!Processes, App!Discover, App!Goto, App!SaveTools
  <1>3. App!Made'
    BY ComponentConstants DEF App!IntegrationConstants, App!TypeOK, App!Kinds, App!Made,
         App!Pending, App!Makers, App!Processes, App!Discover, App!Goto, App!SaveTools
  <1>4. App!Removing'
    BY ComponentConstants DEF App!IntegrationConstants, App!TypeOK, App!Kinds, App!Made,
         App!Removing, App!Makers, App!Processes, App!Discover, App!Goto, App!SaveTools
  <1>5. App!Acting'
    BY ComponentConstants DEF App!IntegrationConstants, App!TypeOK, App!Kinds, App!Acting,
         App!Makers, App!Processes, App!Discover, App!Goto, App!SaveTools
  <1>6. App!NoHiddenAccount'
    <2>1. \A r \in rows : \E q \in rows' : q.account = r.account
      <3>1. CASE UNCHANGED rows BY <3>1
      <3>2. CASE ~UNCHANGED rows
        <4>1. PICK tools \in {"own", "composio"} : rows' = {IF r.id = held[p].row THEN [r EXCEPT !.tools = tools] ELSE r : r \in rows}
          BY <3>2 DEF App!Discover, App!SaveTools
        <4>2. ASSUME NEW r \in rows PROVE \E q \in rows' : q.account = r.account
          <5>1. (IF r.id = held[p].row THEN [r EXCEPT !.tools = tools] ELSE r) \in rows' BY <4>1
          <5>2. [r EXCEPT !.tools = tools].account = r.account BY DEF App!TypeOK
          <5> QED BY <5>1, <5>2
        <4> QED BY <4>2
      <3> QED BY <3>1, <3>2
    <2>2. account' = account /\ stray' = stray /\ \A a \in App!Pending : a \in App!Pending'
      BY DEF App!Discover, App!Goto, App!Pending, App!Kinds, App!Makers, App!Processes
    <2> SUFFICES ASSUME NEW a \in App!Makers, account[a] = "active", a \notin stray,
                        a \notin App!Pending
        PROVE \E q \in rows' : q.account = a
      BY <2>2 DEF App!NoHiddenAccount
    <2>3. PICK r \in rows : r.account = a BY DEF App!IntegrationsSound, App!NoHiddenAccount
    <2> QED BY <2>1, <2>3
  <1>7. App!RowsBacked'
    BY ComponentConstants DEF App!IntegrationConstants, App!TypeOK, App!Kinds, App!Made,
         App!Removing, App!IntegrationsSound, App!RowsBacked, App!Pending, App!Makers,
         App!Processes, App!Discover, App!Goto, App!SaveTools
  <1>8. App!ActsOnConnected'
    BY ComponentConstants DEF App!IntegrationConstants, App!TypeOK, App!Kinds, App!Acting,
         App!IntegrationsSound, App!ActsOnConnected, App!Makers, App!Processes,
         App!Discover, App!Goto, App!SaveTools
  <1> QED BY <1>1, <1>2, <1>3, <1>4, <1>5, <1>6, <1>7, <1>8 DEF App!IntegrationsSound

LEMMA DeleteConnectionStep ==
  ASSUME App!IInv, NEW p \in App!Makers, App!DeleteConnection(p)
  PROVE  App!IInv'
  <1> USE ComponentConstants DEF App!IntegrationConstants, App!IInv, App!TypeOK,
           App!Kinds, App!Makers, App!Processes, App!DeleteConnection, App!Edit
  <1>1. App!TypeOK' OBVIOUS
  <1>2. App!Kinds' OBVIOUS
  <1>3. App!Made' BY DEF App!Made, App!Pending
  <1>4. App!Removing' BY DEF App!Made, App!Removing
  <1>5. App!Acting' BY DEF App!Acting
  <1>6. App!NoHiddenAccount' BY DEF App!Made, App!IntegrationsSound, App!NoHiddenAccount, App!Pending
  <1>7. App!RowsBacked' BY DEF App!Made, App!Removing, App!IntegrationsSound, App!RowsBacked, App!Pending
  <1>8. App!ActsOnConnected' BY DEF App!Acting, App!IntegrationsSound, App!ActsOnConnected
  <1> QED BY <1>1, <1>2, <1>3, <1>4, <1>5, <1>6, <1>7, <1>8 DEF App!IntegrationsSound

LEMMA ConnectDirectlyStep ==
  ASSUME App!IInv, NEW d \in Direct, App!ConnectDirectly(d)
  PROVE  App!IInv'
  <1> USE DEF App!ConnectDirectly, App!IInv
  <1>1. App!TypeOK'
    <2>1. PICK kit \in {"telegram", "bitrix24"} : App!CreateServer(d, App!Row(kit, Unset, d)) OBVIOUS
    <2>2. d \in App!Processes /\ kit \in {"gmail", "telegram", "bitrix24"} /\ Unset \in App!Makers \cup {Unset} /\ d \in Keyed \cup Direct \cup {Unset}
      BY DEF App!Processes
    <2> DEFINE new == App!Row(kit, Unset, d)
    <2>3. /\ last' = last + 1 /\ last' \in 1 .. MaxServers /\ last \in Nat
          /\ rows' = rows \cup {new} /\ rows' \subseteq IntegrationRows
          /\ new.id = last + 1 /\ new.kit = kit /\ new.account = Unset
          /\ \A r, q \in rows' : r.id = q.id => r = q
          /\ \A r \in rows : r.id < last'
          /\ held' \in [App!Processes -> IntegrationHeld(last')]
      BY <2>1, <2>2, CreateIs
    <2>4. pc' = [pc EXCEPT ![d] = "saving"] /\ UNCHANGED <<account, edits, stray, twice, acted>> BY DEF App!Goto
    <2> HIDE DEF new
    <2> QED BY <2>2, <2>3, <2>4 DEF App!TypeOK, IntegrationRows
  <1>2. App!Kinds'
    <2>1. PICK kit \in {"telegram", "bitrix24"} : App!CreateServer(d, App!Row(kit, Unset, d)) OBVIOUS
    <2>2. d \in App!Processes /\ kit \in {"gmail", "telegram", "bitrix24"} /\ Unset \in App!Makers \cup {Unset} /\ d \in Keyed \cup Direct \cup {Unset}
      BY DEF App!Processes
    <2> DEFINE new == App!Row(kit, Unset, d)
    <2>3. /\ last' = last + 1 /\ last' \in 1 .. MaxServers /\ last \in Nat
          /\ rows' = rows \cup {new} /\ rows' \subseteq IntegrationRows
          /\ new.id = last + 1 /\ new.kit = kit /\ new.account = Unset
          /\ \A r, q \in rows' : r.id = q.id => r = q
          /\ \A r \in rows : r.id < last'
          /\ held' \in [App!Processes -> IntegrationHeld(last')]
      BY <2>1, <2>2, CreateIs
    <2>4. pc' = [pc EXCEPT ![d] = "saving"] /\ UNCHANGED <<account, edits, stray, twice, acted>> BY DEF App!Goto
    <2> HIDE DEF new
    <2>5. \A r \in rows' : r.id <= last' /\ (r.kit = "gmail" <=> r.account \in Consents)
      <3>1. Unset \notin Consents BY ComponentConstants DEF App!IntegrationConstants, App!Processes, App!Makers
      <3> QED BY <3>1, <2>2, <2>3 DEF App!Kinds, IntegrationRows
    <2>6. pc' \in [App!Processes -> {"absent", "idle", "away", "back", "creating", "discovering", "saving",
                              "dropping", "destroying", "routed", "acting", "done"}]
      BY <2>4 DEF App!Kinds
    <2> QED BY <2>3, <2>4, <2>5, <2>6 DEF App!Kinds, IntegrationHeld
  <1>3. App!Made'
    BY ComponentConstants DEF App!IntegrationConstants, App!TypeOK, App!Kinds, App!Made,
         App!Pending, App!Makers, App!Processes, App!Goto, App!CreateServer, App!Row
  <1>4. App!Removing'
    BY ComponentConstants DEF App!IntegrationConstants, App!TypeOK, App!Kinds, App!Made,
         App!Removing, App!Makers, App!Processes, App!Goto, App!CreateServer, App!Row
  <1>5. App!Acting'
    BY ComponentConstants DEF App!IntegrationConstants, App!TypeOK, App!Kinds, App!Acting,
         App!Makers, App!Processes, App!Goto, App!CreateServer, App!Row
  <1>6. App!NoHiddenAccount'
    BY ComponentConstants DEF App!IntegrationConstants, App!TypeOK, App!Kinds, App!Made,
         App!IntegrationsSound, App!NoHiddenAccount, App!Pending, App!Makers,
         App!Processes, App!Goto, App!CreateServer, App!Row
  <1>7. App!RowsBacked'
    BY ComponentConstants DEF App!IntegrationConstants, App!TypeOK, App!Kinds, App!Made,
         App!Removing, App!IntegrationsSound, App!RowsBacked, App!Pending, App!Makers,
         App!Processes, App!Goto, App!CreateServer, App!Row
  <1>8. App!ActsOnConnected'
    BY ComponentConstants DEF App!IntegrationConstants, App!TypeOK, App!Kinds, App!Acting,
         App!IntegrationsSound, App!ActsOnConnected, App!Makers, App!Processes, App!Goto,
         App!CreateServer, App!Row
  <1> QED BY <1>1, <1>2, <1>3, <1>4, <1>5, <1>6, <1>7, <1>8 DEF App!IntegrationsSound

LEMMA SaveOwnStep ==
  ASSUME App!IInv, NEW d \in Direct, App!SaveOwn(d)
  PROVE  App!IInv'
  <1> USE DEF App!IInv
  <1>1. App!TypeOK'
    BY ComponentConstants DEF App!IntegrationConstants, App!TypeOK, App!Kinds, App!Makers,
         App!Processes, App!SaveOwn, App!Goto, App!SaveTools
  <1>2. App!Kinds'
    BY ComponentConstants DEF App!IntegrationConstants, App!TypeOK, App!Kinds, App!Makers,
         App!Processes, App!SaveOwn, App!Goto, App!SaveTools
  <1>3. App!Made'
    BY ComponentConstants DEF App!IntegrationConstants, App!TypeOK, App!Kinds, App!Made,
         App!Pending, App!Makers, App!Processes, App!SaveOwn, App!Goto, App!SaveTools
  <1>4. App!Removing'
    BY ComponentConstants DEF App!IntegrationConstants, App!TypeOK, App!Kinds, App!Made,
         App!Removing, App!Makers, App!Processes, App!SaveOwn, App!Goto, App!SaveTools
  <1>5. App!Acting'
    BY ComponentConstants DEF App!IntegrationConstants, App!TypeOK, App!Kinds, App!Acting,
         App!Makers, App!Processes, App!SaveOwn, App!Goto, App!SaveTools
  <1>6. App!NoHiddenAccount'
    <2>1. \A r \in rows : \E q \in rows' : q.account = r.account
      <3>1. CASE UNCHANGED rows BY <3>1
      <3>2. CASE ~UNCHANGED rows
        <4>1. PICK tools \in {"own", "composio"} : rows' = {IF r.id = held[d].row THEN [r EXCEPT !.tools = tools] ELSE r : r \in rows}
          BY <3>2 DEF App!SaveOwn, App!SaveTools
        <4>2. ASSUME NEW r \in rows PROVE \E q \in rows' : q.account = r.account
          <5>1. (IF r.id = held[d].row THEN [r EXCEPT !.tools = tools] ELSE r) \in rows' BY <4>1
          <5>2. [r EXCEPT !.tools = tools].account = r.account BY DEF App!TypeOK
          <5> QED BY <5>1, <5>2
        <4> QED BY <4>2
      <3> QED BY <3>1, <3>2
    <2>2. account' = account /\ stray' = stray /\ \A a \in App!Pending : a \in App!Pending'
      BY DEF App!SaveOwn, App!Goto, App!Pending, App!Kinds, App!Makers, App!Processes
    <2> SUFFICES ASSUME NEW a \in App!Makers, account[a] = "active", a \notin stray,
                        a \notin App!Pending
        PROVE \E q \in rows' : q.account = a
      BY <2>2 DEF App!NoHiddenAccount
    <2>3. PICK r \in rows : r.account = a BY DEF App!IntegrationsSound, App!NoHiddenAccount
    <2> QED BY <2>1, <2>3
  <1>7. App!RowsBacked'
    BY ComponentConstants DEF App!IntegrationConstants, App!TypeOK, App!Kinds, App!Made,
         App!Removing, App!IntegrationsSound, App!RowsBacked, App!Pending, App!Makers,
         App!Processes, App!SaveOwn, App!Goto, App!SaveTools
  <1>8. App!ActsOnConnected'
    BY ComponentConstants DEF App!IntegrationConstants, App!TypeOK, App!Kinds, App!Acting,
         App!IntegrationsSound, App!ActsOnConnected, App!Makers, App!Processes,
         App!SaveOwn, App!Goto, App!SaveTools
  <1> QED BY <1>1, <1>2, <1>3, <1>4, <1>5, <1>6, <1>7, <1>8 DEF App!IntegrationsSound

LEMMA IntegrationLoadStep ==
  ASSUME App!IInv, NEW e \in Removals, App!Load(e)
  PROVE  App!IInv'
  <1>1. App!TypeOK'
    BY ComponentConstants DEF App!IntegrationConstants, App!IInv,
         App!TypeOK, App!Kinds, App!Makers, App!Processes,
         App!Load, App!Goto
  <1>2. App!Kinds'
    <2>0. PICK r \in rows : held' = [held EXCEPT ![e] = [@ EXCEPT !.row = r.id, !.on = r.account]] BY DEF App!Load
    <2> DEFINE w == [held[e] EXCEPT !.row = r.id, !.on = r.account]
    <2>1. held[e] \in IntegrationHeld(last) /\ e \in App!Processes
      BY DEF App!IInv, App!Kinds, IntegrationHeld, App!Processes
    <2>2. w \in IntegrationHeld(last) /\ held' = [held EXCEPT ![e] = w]
      <3>1. r.id \in 0 .. last /\ r.account \in App!Makers \cup Direct \cup {Unset}
        BY DEF App!IInv, App!TypeOK, App!Kinds
      <3>2. w \in IntegrationHeld(last) BY <2>1, <3>1 DEF IntegrationHeld
      <3> QED BY <3>2, <2>0
    <2> HIDE DEF w
    <2>3. held' \in [App!Processes -> IntegrationHeld(last)] BY <2>1, <2>2, IntegrationHeldIs
    <2>4. UNCHANGED <<account, rows, last, edits, stray, twice, acted>> BY DEF App!Load
    <2>5. pc' \in [App!Processes -> {"absent", "idle", "away", "back", "creating", "discovering", "saving",
                              "dropping", "destroying", "routed", "acting", "done"}]
      BY DEF App!Load, App!Goto, App!IInv, App!Kinds
    <2> QED BY <2>3, <2>4, <2>5 DEF App!IInv, App!Kinds, IntegrationHeld
  <1>3. App!Made'
    BY ComponentConstants DEF App!IntegrationConstants, App!IInv,
         App!TypeOK, App!Kinds, App!Made, App!Pending,
         App!Makers, App!Processes, App!Load, App!Goto
  <1>4. App!Removing'
    BY ComponentConstants DEF App!IntegrationConstants, App!IInv,
         App!TypeOK, App!Kinds, App!Made, App!Removing,
         App!Makers, App!Processes, App!Load, App!Goto
  <1>5. App!Acting'
    BY ComponentConstants DEF App!IntegrationConstants, App!IInv,
         App!TypeOK, App!Kinds, App!Acting, App!Makers,
         App!Processes, App!Load, App!Goto
  <1>6. App!NoHiddenAccount'
    BY ComponentConstants DEF App!IntegrationConstants, App!IInv,
         App!TypeOK, App!Kinds, App!Made, App!IntegrationsSound,
         App!NoHiddenAccount, App!Pending, App!Makers,
         App!Processes, App!Load, App!Goto
  <1>7. App!RowsBacked'
    BY ComponentConstants DEF App!IntegrationConstants, App!IInv,
         App!TypeOK, App!Kinds, App!Made, App!Removing,
         App!IntegrationsSound, App!RowsBacked, App!Pending,
         App!Makers, App!Processes, App!Load, App!Goto
  <1>8. App!ActsOnConnected'
    BY ComponentConstants DEF App!IntegrationConstants, App!IInv,
         App!TypeOK, App!Kinds, App!Acting,
         App!IntegrationsSound, App!ActsOnConnected, App!Makers,
         App!Processes, App!Load, App!Goto
  <1> QED
    BY <1>1, <1>2, <1>3, <1>4, <1>5, <1>6, <1>7, <1>8 DEF App!IInv,
         App!IntegrationsSound

LEMMA DropAccountStep ==
  ASSUME App!IInv, NEW e \in Removals, App!DropAccount(e)
  PROVE  App!IInv'
  <1> USE DEF App!DropAccount, App!IInv
  <1>1. App!TypeOK'
    <2>1. account' \in [App!Makers -> {"none", "initiated", "active", "deleted"}] BY DEF App!TypeOK
    <2>2. stray' \subseteq App!Makers /\ UNCHANGED <<rows, twice>> BY DEF App!TypeOK, App!Removing
    <2> QED BY <2>1, <2>2 DEF App!TypeOK
  <1>2. App!Kinds'
    <2>1. UNCHANGED <<rows, last, held, edits, twice, acted>> OBVIOUS
    <2>2. pc' \in [App!Processes -> {"absent", "idle", "away", "back", "creating", "discovering", "saving",
                              "dropping", "destroying", "routed", "acting", "done"}]
      BY DEF App!Goto, App!Kinds
    <2> QED BY <2>1, <2>2 DEF App!Kinds
  <1>3. App!Made'
    <2>1. UNCHANGED <<rows, last, held, edits, twice, acted>> /\ pc[e] = "dropping" OBVIOUS
    <2>2. \A a \in App!Makers : pc'[a] = pc[a]
      BY ComponentConstants DEF App!IntegrationConstants, App!Makers, App!Goto, App!Kinds,
           App!Processes
    <2>3. \A a \in App!Makers : a # held[e].on => account'[a] = account[a] BY DEF App!TypeOK
    <2>4. stray \subseteq stray' OBVIOUS
    <2>5. held[e].on \in App!Makers => pc[held[e].on] \in {"discovering", "done"} BY DEF App!Made
    <2> QED BY <2>1, <2>2, <2>3, <2>4, <2>5 DEF App!Made, App!Pending
  <1>4. App!Removing'
    <2>1. UNCHANGED <<rows, last, held, edits, twice, acted>> /\ pc[e] = "dropping" OBVIOUS
    <2>2. \A f \in Removals : f # e => pc'[f] = pc[f] BY DEF App!Goto, App!Kinds, App!Processes
    <2>3. held[e].on # Unset => account'[held[e].on] # "active" \/ held[e].on \in stray'
      <3>1. held[e].on # Unset => held[e].on \in App!Makers BY DEF App!Kinds, App!Removing, App!Processes
      <3> QED BY <3>1 DEF App!TypeOK
    <2>4. \A a \in App!Makers : (account[a] # "active" => account'[a] # "active") /\ stray \subseteq stray'
      BY DEF App!TypeOK
    <2> QED BY <2>1, <2>2, <2>3, <2>4 DEF App!Kinds, App!Removing, App!Processes
  <1>5. App!Acting'
    BY ComponentConstants DEF App!IntegrationConstants, App!TypeOK, App!Kinds, App!Acting,
         App!Makers, App!Processes, App!Goto
  <1>6. App!NoHiddenAccount'
    BY ComponentConstants DEF App!IntegrationConstants, App!TypeOK, App!Kinds, App!Made,
         App!IntegrationsSound, App!NoHiddenAccount, App!Pending, App!Makers,
         App!Processes, App!Goto
  <1>7. App!RowsBacked'
    BY ComponentConstants DEF App!IntegrationConstants, App!TypeOK, App!Kinds, App!Made,
         App!Removing, App!IntegrationsSound, App!RowsBacked, App!Pending, App!Makers,
         App!Processes, App!Goto
  <1>8. App!ActsOnConnected'
    BY ComponentConstants DEF App!IntegrationConstants, App!TypeOK, App!Kinds, App!Acting,
         App!IntegrationsSound, App!ActsOnConnected, App!Makers, App!Processes, App!Goto
  <1> QED BY <1>1, <1>2, <1>3, <1>4, <1>5, <1>6, <1>7, <1>8 DEF App!IntegrationsSound

LEMMA DestroyStep ==
  ASSUME App!IInv, NEW e \in Removals, App!Destroy(e)
  PROVE  App!IInv'
  <1> USE ComponentConstants DEF App!IntegrationConstants, App!IInv, App!TypeOK,
           App!Kinds, App!Makers, App!Processes, App!Destroy, App!Goto
  <1>1. App!TypeOK' OBVIOUS
  <1>2. App!Kinds' OBVIOUS
  <1>3. App!Made' BY DEF App!Made, App!Pending
  <1>4. App!Removing' BY DEF App!Made, App!Removing
  <1>5. App!Acting' BY DEF App!Acting
  <1>6. App!NoHiddenAccount'
    <2> SUFFICES ASSUME NEW a \in App!Makers, account[a] = "active", a \notin stray,
                        a \notin App!Pending
        PROVE \E q \in rows' : q.account = a
      BY DEF App!NoHiddenAccount, App!Pending
    <2>1. PICK r \in rows : r.account = a BY DEF App!IntegrationsSound, App!NoHiddenAccount
    <2>2. a # Unset /\ pc[e] = "destroying" OBVIOUS
    <2>3. r.id # held[e].row BY <2>1, <2>2 DEF App!Removing
    <2> QED BY <2>1, <2>3
  <1>7. App!RowsBacked' BY DEF App!Made, App!Removing, App!IntegrationsSound, App!RowsBacked, App!Pending
  <1>8. App!ActsOnConnected' BY DEF App!Acting, App!IntegrationsSound, App!ActsOnConnected
  <1> QED BY <1>1, <1>2, <1>3, <1>4, <1>5, <1>6, <1>7, <1>8 DEF App!IntegrationsSound

LEMMA DisconnectStep ==
  ASSUME App!IInv, NEW r \in rows, App!Disconnect(r)
  PROVE  App!IInv'
  <1> DEFINE new == [r EXCEPT !.active = FALSE]
  <1>1. rows \subseteq IntegrationRows /\ r \in IntegrationRows BY DEF App!IInv, App!TypeOK, IntegrationRows
  <1>2. new \in IntegrationRows /\ new.id = r.id /\ new.kit = r.kit /\ new.account = r.account
    BY <1>1 DEF IntegrationRows
  <1>3. /\ rows' = (rows \ {r}) \cup {new}
        /\ UNCHANGED <<account, last, pc, held, stray, twice, acted>> /\ edits' = edits + 1
    BY DEF App!Disconnect, App!Edit
  <1> HIDE DEF new
  <1>4. \A p, q \in rows' : p.id = q.id => p = q BY <1>2, <1>3 DEF App!IInv, App!Kinds
  <1>5. edits' \in Nat BY <1>3 DEF App!IInv, App!Kinds
  <1>6. \A p \in rows : \E q \in rows' : q.id = p.id /\ q.kit = p.kit /\ q.account = p.account BY <1>2, <1>3
  <1>7. rows' \subseteq IntegrationRows /\ \A q \in rows' : \E p \in rows : q.id = p.id /\ q.kit = p.kit /\ q.account = p.account
    BY <1>1, <1>2, <1>3
  <1> QED BY <1>3, <1>4, <1>5, <1>6, <1>7, RenewedIs

LEMMA IntegrationReconnectStep ==
  ASSUME App!IInv, NEW r \in rows, App!Reconnect(r)
  PROVE  App!IInv'
  <1>0. PICK tools \in {r.tools} \cup (IF r.kit = "bitrix24" THEN {} ELSE {"composio"}) :
          rows' = (rows \ {r}) \cup {[r EXCEPT !.active = TRUE, !.tools = tools]}
    BY DEF App!Reconnect
  <1> DEFINE new == [r EXCEPT !.active = TRUE, !.tools = tools]
  <1>1. rows \subseteq IntegrationRows /\ r \in IntegrationRows BY DEF App!IInv, App!TypeOK, IntegrationRows
  <1>2. new \in IntegrationRows /\ new.id = r.id /\ new.kit = r.kit /\ new.account = r.account
    <2>1. tools \in {"none", "own", "composio"} BY <1>0, <1>1 DEF IntegrationRows
    <2> QED BY <1>1, <2>1 DEF IntegrationRows
  <1>3. /\ rows' = (rows \ {r}) \cup {new}
        /\ UNCHANGED <<account, last, pc, held, stray, twice, acted>> /\ edits' = edits + 1
    BY <1>0 DEF App!Reconnect, App!Edit
  <1> HIDE DEF new
  <1>4. \A p, q \in rows' : p.id = q.id => p = q BY <1>2, <1>3 DEF App!IInv, App!Kinds
  <1>5. edits' \in Nat BY <1>3 DEF App!IInv, App!Kinds
  <1>6. \A p \in rows : \E q \in rows' : q.id = p.id /\ q.kit = p.kit /\ q.account = p.account BY <1>2, <1>3
  <1>7. rows' \subseteq IntegrationRows /\ \A q \in rows' : \E p \in rows : q.id = p.id /\ q.kit = p.kit /\ q.account = p.account
    BY <1>1, <1>2, <1>3
  <1> QED BY <1>3, <1>4, <1>5, <1>6, <1>7, RenewedIs

LEMMA SyncToolsStep ==
  ASSUME App!IInv, NEW r \in rows, App!SyncTools(r)
  PROVE  App!IInv'
  <1> DEFINE new == [r EXCEPT !.tools = "own"]
  <1>1. rows \subseteq IntegrationRows /\ r \in IntegrationRows BY DEF App!IInv, App!TypeOK, IntegrationRows
  <1>2. new \in IntegrationRows /\ new.id = r.id /\ new.kit = r.kit /\ new.account = r.account
    BY <1>1 DEF IntegrationRows
  <1>3. /\ rows' = (rows \ {r}) \cup {new}
        /\ UNCHANGED <<account, last, pc, held, stray, twice, acted>> /\ edits' = edits + 1
    BY DEF App!SyncTools, App!Edit
  <1> HIDE DEF new
  <1>4. \A p, q \in rows' : p.id = q.id => p = q BY <1>2, <1>3 DEF App!IInv, App!Kinds
  <1>5. edits' \in Nat BY <1>3 DEF App!IInv, App!Kinds
  <1>6. \A p \in rows : \E q \in rows' : q.id = p.id /\ q.kit = p.kit /\ q.account = p.account BY <1>2, <1>3
  <1>7. rows' \subseteq IntegrationRows /\ \A q \in rows' : \E p \in rows : q.id = p.id /\ q.kit = p.kit /\ q.account = p.account
    BY <1>1, <1>2, <1>3
  <1> QED BY <1>3, <1>4, <1>5, <1>6, <1>7, RenewedIs

LEMMA IntegrationRouteStep ==
  ASSUME App!IInv, NEW c \in Uses, App!Route(c)
  PROVE  App!IInv'
  <1> USE DEF App!IInv, App!Kinds, App!Route
  <1>1. App!TypeOK'
    BY ComponentConstants DEF App!IntegrationConstants, App!TypeOK, App!Makers, App!Processes,
         App!Goto
  <1>2. App!Kinds'
    <2>0. PICK r \in rows : held' = [held EXCEPT ![c].kit = r.kit, ![c].tools = r.tools] OBVIOUS
    <2> DEFINE w == [held[c] EXCEPT !.kit = r.kit, !.tools = r.tools]
    <2>1. held[c] \in IntegrationHeld(last) /\ c \in App!Processes BY DEF IntegrationHeld, App!Processes
    <2>2. w \in IntegrationHeld(last) /\ held' = [held EXCEPT ![c] = w]
      <3>1. r.kit \in {"gmail", "telegram", "bitrix24"} /\ r.tools \in {"none", "own", "composio"} BY DEF App!TypeOK
      <3>2. w \in IntegrationHeld(last) BY <2>1, <3>1 DEF IntegrationHeld
      <3>3. held' = [held EXCEPT ![c] = w] BY <2>0, <2>1
      <3> QED BY <3>2, <3>3
    <2> HIDE DEF w
    <2>3. held' \in [App!Processes -> IntegrationHeld(last)] BY <2>1, <2>2, IntegrationHeldIs
    <2>4. UNCHANGED <<account, rows, last, edits, stray, twice, acted>> OBVIOUS
    <2>5. pc' \in [App!Processes -> {"absent", "idle", "away", "back", "creating", "discovering", "saving",
                              "dropping", "destroying", "routed", "acting", "done"}]
      BY DEF App!Goto
    <2> QED BY <2>3, <2>4, <2>5 DEF IntegrationHeld
  <1>3. App!Made'
    BY ComponentConstants DEF App!IntegrationConstants, App!TypeOK, App!Made, App!Pending,
         App!Makers, App!Processes, App!Goto
  <1>4. App!Removing'
    BY ComponentConstants DEF App!IntegrationConstants, App!TypeOK, App!Made, App!Removing,
         App!Makers, App!Processes, App!Goto
  <1>5. App!Acting'
    BY ComponentConstants DEF App!IntegrationConstants, App!TypeOK, App!Acting, App!Makers,
         App!Processes, App!Goto
  <1>6. App!NoHiddenAccount'
    BY ComponentConstants DEF App!IntegrationConstants, App!TypeOK, App!Made,
         App!IntegrationsSound, App!NoHiddenAccount, App!Pending, App!Makers,
         App!Processes, App!Goto
  <1>7. App!RowsBacked'
    BY ComponentConstants DEF App!IntegrationConstants, App!TypeOK, App!Made, App!Removing,
         App!IntegrationsSound, App!RowsBacked, App!Pending, App!Makers, App!Processes,
         App!Goto
  <1>8. App!ActsOnConnected'
    BY ComponentConstants DEF App!IntegrationConstants, App!TypeOK, App!Acting,
         App!IntegrationsSound, App!ActsOnConnected, App!Makers, App!Processes, App!Goto
  <1> QED BY <1>1, <1>2, <1>3, <1>4, <1>5, <1>6, <1>7, <1>8 DEF App!IntegrationsSound

LEMMA IntegrationFindStep ==
  ASSUME App!IInv, NEW c \in Uses, App!Find(c)
  PROVE  App!IInv'
  <1> DEFINE kit == held[c].kit
             found == IF kit = "telegram" /\ held[c].tools = "composio" THEN {} ELSE App!Found(kit)
  <1>1. /\ pc[c] = "routed" /\ UNCHANGED <<account, rows, last, edits, stray, twice, acted>>
        /\ \/ /\ \E on \in found : held' = [held EXCEPT ![c].on = on, ![c].known = on \in App!On(kit) \cup App!Pending]
              /\ pc' = [pc EXCEPT ![c] = "acting"]
           \/ found = {} /\ pc' = [pc EXCEPT ![c] = "done"] /\ UNCHANGED held
    BY DEF App!Find, App!Goto
  <1>2. /\ pc' \in [App!Processes -> {"absent", "idle", "away", "back", "creating", "discovering", "saving",
                              "dropping", "destroying", "routed", "acting", "done"}]
        /\ \A p \in App!Processes \ {c} : pc'[p] = pc[p]
    BY <1>1 DEF App!IInv, App!Kinds
  <1>3. c \in App!Processes /\ held[c] \in IntegrationHeld(last) /\ pc'[c] \in {"acting", "done"}
    BY <1>1 DEF App!IInv, App!Kinds, IntegrationHeld, App!Processes
  <1>4. /\ held' \in [App!Processes -> IntegrationHeld(last)] /\ \A p \in App!Processes \ {c} : held'[p] = held[p]
        /\ pc'[c] = "acting" => held'[c].known \/ held'[c].on \in stray
    <2>1. CASE UNCHANGED held /\ found = {} BY <1>1, <1>3, <2>1 DEF App!IInv, App!Kinds, IntegrationHeld
    <2>2. CASE \E on \in found : held' = [held EXCEPT ![c].on = on, ![c].known = on \in App!On(kit) \cup App!Pending]
      <3>1. PICK on \in found : held' = [held EXCEPT ![c].on = on, ![c].known = on \in App!On(kit) \cup App!Pending]
        BY <2>2
      <3>2. on \in App!Found(kit) BY <3>1
      <3>8. (on \in App!On(kit) \cup App!Pending) \in BOOLEAN OBVIOUS
      <3> DEFINE known == on \in App!On(kit) \cup App!Pending
                 w == [held[c] EXCEPT !.on = on, !.known = known]
      <3>3. held' = [held EXCEPT ![c] = w] BY <3>1, <1>3 DEF App!IInv, App!Kinds
      <3>9. known \in BOOLEAN BY <3>8
      <3> HIDE DEF known
      <3>4. on \in App!Makers \cup Direct \cup {Unset} BY <3>2 DEF App!Found, App!IInv, App!TypeOK, App!Makers
      <3>5. w \in IntegrationHeld(last) /\ w.on = on /\ w.known = known BY <3>4, <3>9, <1>3 DEF IntegrationHeld
      <3>6. on \in App!On(kit) \cup App!Pending \/ on \in stray
        <4>1. CASE kit = "gmail"
          <5>1. on \in Consents /\ account[on] = "active" /\ on \in App!Makers
            BY <4>1, <3>2 DEF App!Found, App!Makers
          <5>2. CASE \E r \in rows : r.account = on
            <6>1. PICK r \in rows : r.account = on BY <5>2
            <6>2. r.kit = "gmail" BY <6>1, <5>1 DEF App!IInv, App!Kinds
            <6> QED BY <6>1, <6>2, <4>1 DEF App!On
          <5>3. CASE ~\E r \in rows : r.account = on
            BY <5>1, <5>3 DEF App!IInv, App!IntegrationsSound,
                 App!NoHiddenAccount
          <5> QED BY <5>2, <5>3
        <4>2. CASE kit # "gmail" BY <4>2, <3>2 DEF App!Found, App!On
        <4> QED BY <4>1, <4>2
      <3> HIDE DEF w
      <3>7. held' \in [App!Processes -> IntegrationHeld(last)] /\ held'[c] = w /\ \A q \in App!Processes \ {c} : held'[q] = held[q]
        BY <3>3, <3>5, <1>3, IntegrationHeldIs
      <3> QED BY <3>5, <3>6, <3>7 DEF known
    <2> QED BY <1>1, <2>1, <2>2
  <1>5. App!TypeOK' BY <1>1 DEF App!IInv, App!TypeOK
  <1>6. App!Kinds' BY <1>1, <1>2, <1>4 DEF App!IInv, App!Kinds, IntegrationHeld
  <1>7. App!Made' /\ App!Removing' /\ App!NoHiddenAccount' /\ App!RowsBacked'
    <2>1. \A a \in App!Makers \cup Removals : pc'[a] = pc[a] /\ held'[a] = held[a]
      BY <1>2, <1>4, ComponentConstants DEF App!IntegrationConstants, App!Makers,
           App!Processes
    <2> QED
      BY <2>1, <1>1 DEF App!IInv, App!Made, App!Removing,
           App!IntegrationsSound, App!NoHiddenAccount, App!RowsBacked,
           App!Pending
  <1>8. App!Acting' BY <1>1, <1>2, <1>4 DEF App!IInv, App!Acting, App!Processes
  <1>9. App!ActsOnConnected' BY <1>1 DEF App!IInv, App!IntegrationsSound, App!ActsOnConnected
  <1> QED BY <1>5, <1>6, <1>7, <1>8, <1>9 DEF App!IInv, App!IntegrationsSound

LEMMA ActStep ==
  ASSUME App!IInv, NEW c \in Uses, App!Act(c)
  PROVE  App!IInv'
  <1> USE ComponentConstants DEF App!IntegrationConstants, App!IInv, App!TypeOK,
           App!Kinds, App!Makers, App!Processes, App!Act, App!Goto
  <1>1. App!TypeOK' OBVIOUS
  <1>2. App!Kinds' OBVIOUS
  <1>3. App!Made' BY DEF App!Made, App!Pending
  <1>4. App!Removing' BY DEF App!Made, App!Removing
  <1>5. App!Acting' BY DEF App!Acting
  <1>6. App!NoHiddenAccount' BY DEF App!Made, App!IntegrationsSound, App!NoHiddenAccount, App!Pending
  <1>7. App!RowsBacked' BY DEF App!Made, App!Removing, App!IntegrationsSound, App!RowsBacked, App!Pending
  <1>8. App!ActsOnConnected' BY DEF App!Acting, App!IntegrationsSound, App!ActsOnConnected
  <1> QED BY <1>1, <1>2, <1>3, <1>4, <1>5, <1>6, <1>7, <1>8 DEF App!IntegrationsSound

LEMMA AppsInit ==
  ASSUME App!Init
  PROVE  App!IInv
  BY ComponentConstants DEF App!IntegrationConstants, App!Init, App!IInv,
       App!TypeOK, App!Kinds, App!Made, App!Removing,
       App!Acting, App!IntegrationsSound, App!NoHiddenAccount,
       App!RowsBacked, App!ActsOnConnected, App!Pending,
       App!Makers, App!Processes

LEMMA AppsStep ==
  ASSUME App!IInv, App!Next
  PROVE  App!IInv'
  BY InitiateStep, ConsentStep, CallbackStep, ConnectWithApiKeyStep, CreateKeyedStep,
       DiscoverStep, DeleteConnectionStep,
     ConnectDirectlyStep, SaveOwnStep, IntegrationLoadStep, DropAccountStep, DestroyStep, DisconnectStep, IntegrationReconnectStep, SyncToolsStep,
     IntegrationRouteStep, IntegrationFindStep, ActStep DEF App!Next

LEMMA AppsStay ==
  ASSUME App!IInv, UNCHANGED App!vars
  PROVE  App!IInv'
  BY DEF App!vars, App!IInv, App!TypeOK, App!Kinds,
       App!Made, App!Removing, App!Acting, App!IntegrationsSound,
       App!NoHiddenAccount, App!RowsBacked, App!ActsOnConnected,
       App!Pending

LEMMA AppsIs ==
  ASSUME App!IInv
  PROVE  App!TypeOK /\ App!IntegrationsSound
  BY DEF App!IInv

LEMMA AppsAlways == Spec => [](which = "App" => App!IInv)
  <1> DEFINE I == which = "App" => App!IInv
  <1>1. Init => I BY AppsInit, ComponentConstants DEF Init
  <1>2. I /\ [Next]_vars => I'
    <2>1. ASSUME App!IInv, [App!Next]_App!vars PROVE App!IInv' BY <2>1, AppsStep, AppsStay, ComponentConstants
    <2>2. ASSUME [Next]_vars, which' = "App"
          PROVE  which = "App" /\ [App!Next]_App!vars
      BY <2>2 DEF Next, vars, App!vars
    <2> QED BY <2>1, <2>2
  <1> QED BY <1>1, <1>2, PTL DEF Spec

\* McpClientService, McpRegistryService, McpGatewayService, ComposioService: with any number
\* of connections, synchronisations, policies and calls, one socket of a server is open
\* unless requests overlapped, no call is left without an answer, a tool has one row and
\* keeps its switch, a limit holds, and no account is hidden from its tenant.
THEOREM McpIsSound == Spec => []McpSound
  <1>1. /\ which = "Mcp" => Mcp!IInv
        /\ which = "Tool" => Tool!IInv
        /\ which = "App" => App!IInv
        => McpSound
    BY SocketsAre, ToolsIs, AppsIs, ComponentConstants DEF McpSound
  <1> QED BY <1>1, SocketsAlways, ToolsAlways, AppsAlways, PTL

------------------------
\* The sessions of a key: an offer that was validated in turn still has its slot, and holds
\* what its place says (Web!IInv).

\* FiniteSets is the same there as here.
LEMMA WidgetCounts ==
  \A S : Web!Cardinality(S) = Cardinality(S) /\ (Web!IsFiniteSet(S) <=> IsFiniteSet(S))
  BY DEF Cardinality, Web!Cardinality, IsFiniteSet, Web!IsFiniteSet



WidgetPlaces == {"idle", "create", "find", "describe", "connect", "over"}

\* The sessions of the key can be counted, and one more makes one more.
LEMMA ActiveIs ==
  ASSUME Web!IInv
  PROVE  /\ IsFiniteSet(Web!Active) /\ Cardinality(Web!Active) \in Nat
         /\ \A o \in Offers : Cardinality(Web!Active \cup {o}) <= Cardinality(Web!Active) + 1
  <1>1. IsFiniteSet(Web!Active) BY WidgetCounts, ComponentConstants, FS_Subset DEF Web!WidgetConstants, Web!Active
  <1>2. Cardinality(Web!Active) \in Nat BY WidgetCounts, <1>1, FS_CardinalityType
  <1>3. ASSUME NEW o \in Offers
        PROVE  Cardinality(Web!Active \cup {o}) <= Cardinality(Web!Active) + 1
    <2>1. Cardinality(Web!Active \cup {o}) = IF o \in Web!Active THEN Cardinality(Web!Active) ELSE Cardinality(Web!Active) + 1
      BY WidgetCounts, <1>1, FS_AddElement
    <2> QED BY <2>1, <1>2
  <1> QED BY <1>1, <1>2, <1>3

\* The count of the key's sessions does not grow when none of them becomes active.
LEMMA CountedKeeps ==
  ASSUME Web!IInv, Web!Active' \subseteq Web!Active, raced' = raced,
         \A o \in Offers : offer'[o] = "create" => offer[o] = "create"
  PROVE  Web!Counted'
  <1>1. Cardinality(Web!Active') <= Cardinality(Web!Active) /\ Cardinality(Web!Active') \in Nat
    BY WidgetCounts, ActiveIs, FS_Subset, FS_CardinalityType
  <1> QED
    BY <1>1, ActiveIs, WidgetCounts, ComponentConstants DEF Web!WidgetConstants, Web!IInv,
         Web!Counted

\* An offer moves on.
LEMMA WidgetGotoIs ==
  ASSUME Web!IInv, NEW o \in Offers, NEW l \in WidgetPlaces, Web!Goto(o, l)
  PROVE  offer' \in [Offers -> WidgetPlaces] /\ offer'[o] = l /\ \A p \in Offers \ {o} : offer'[p] = offer[p]
  BY DEF Web!IInv, Web!TypeOK, Web!Goto, WidgetPlaces

LEMMA WidgetValidateStep ==
  ASSUME Web!IInv, NEW o \in Offers, Web!Validate(o)
  PROVE  Web!IInv'
  <1>1. /\ offer[o] = "idle" /\ Cardinality(Web!Active) < KeyLimit /\ Web!Goto(o, "create")
        /\ raced' = (IF \E p \in Offers : offer[p] = "create" THEN raced \cup {o} ELSE raced)
        /\ UNCHANGED <<hangup, rows, peers, channel, conns, wired, waiting, crashes, early, unheard, stuck, lost>>
    BY WidgetCounts DEF Web!Validate
  <1>2. offer' \in [Offers -> WidgetPlaces] /\ offer'[o] = "create" /\ \A p \in Offers \ {o} : offer'[p] = offer[p]
    BY <1>1, WidgetGotoIs DEF WidgetPlaces
  <1>3. Web!TypeOK' BY <1>1, <1>2 DEF Web!IInv, Web!TypeOK, WidgetPlaces
  <1>4. Web!Counted'
    <2> SUFFICES ASSUME raced' = {}
        PROVE /\ \A p \in Offers : offer'[p] = "create" => p = o
              /\ Cardinality(Web!Active') < KeyLimit /\ Cardinality(Web!Active') <= KeyLimit
      BY WidgetCounts DEF Web!Counted
    <2>1. \A p \in Offers : offer[p] # "create" BY <1>1
    <2>2. Web!Active' = Web!Active BY <1>1 DEF Web!Active
    <2> QED BY <2>1, <2>2, <1>1, <1>2, ActiveIs, ComponentConstants DEF Web!WidgetConstants
  <1>5. Web!Taken' /\ Web!GivenBack' BY <1>1, <1>2 DEF Web!IInv, Web!Taken, Web!HungUp, Web!GivenBack
  <1> QED BY <1>3, <1>4, <1>5 DEF Web!IInv

LEMMA CreateRowStep ==
  ASSUME Web!IInv, NEW o \in Offers, Web!CreateRow(o)
  PROVE  Web!IInv'
  <1>1. /\ offer[o] = "create" /\ rows' = [rows EXCEPT ![o] = "active"] /\ Web!Goto(o, "find")
        /\ UNCHANGED <<hangup, peers, channel, conns, wired, waiting, crashes, raced, early, unheard, stuck, lost>>
    BY DEF Web!CreateRow, Web!history
  <1>2. offer' \in [Offers -> WidgetPlaces] /\ offer'[o] = "find" /\ \A p \in Offers \ {o} : offer'[p] = offer[p]
    BY <1>1, WidgetGotoIs DEF WidgetPlaces
  <1>3. rows' \in [Offers -> {"none", "active", "ended"}] /\ rows'[o] = "active" /\ \A p \in Offers \ {o} : rows'[p] = rows[p]
    BY <1>1 DEF Web!IInv, Web!TypeOK
  <1>4. Web!TypeOK' BY <1>1, <1>2, <1>3 DEF Web!IInv, Web!TypeOK, WidgetPlaces
  <1>5. Web!Counted'
    <2> SUFFICES ASSUME raced = {}
        PROVE /\ \A p \in Offers : offer'[p] # "create"
              /\ Cardinality(Web!Active') <= KeyLimit
      BY <1>1, WidgetCounts DEF Web!Counted
    <2>1. Web!Active' = Web!Active \cup {o} BY <1>3 DEF Web!Active
    <2>2. Cardinality(Web!Active') <= Cardinality(Web!Active) + 1 BY <2>1, ActiveIs
    <2>3. Cardinality(Web!Active) < KeyLimit /\ \A p \in Offers : offer[p] = "create" => p = o
      BY <1>1, WidgetCounts DEF Web!IInv, Web!Counted
    <2>4. Cardinality(Web!Active') \in Nat BY <2>1, ActiveIs, WidgetCounts, FS_AddElement, FS_CardinalityType
    <2> QED BY <2>2, <2>3, <2>4, <1>2, ActiveIs, ComponentConstants DEF Web!WidgetConstants
  <1>6. Web!Taken' /\ Web!GivenBack' BY <1>1, <1>2, <1>3 DEF Web!IInv, Web!Taken, Web!HungUp, Web!GivenBack
  <1> QED BY <1>4, <1>5, <1>6 DEF Web!IInv

LEMMA AddPeerStep ==
  ASSUME Web!IInv, NEW o \in Offers, Web!AddPeer(o)
  PROVE  Web!IInv'
  <1>1. /\ offer[o] = "find" /\ peers' = peers \cup {o} /\ Web!Goto(o, "describe")
        /\ UNCHANGED <<hangup, rows, channel, conns, wired, waiting, crashes, raced, early, unheard, stuck, lost>>
    BY DEF Web!AddPeer, Web!history
  <1>2. offer' \in [Offers -> WidgetPlaces] /\ offer'[o] = "describe" /\ \A p \in Offers \ {o} : offer'[p] = offer[p]
    BY <1>1, WidgetGotoIs DEF WidgetPlaces
  <1>3. Web!TypeOK' BY <1>1, <1>2 DEF Web!IInv, Web!TypeOK, WidgetPlaces
  <1>4. Web!Counted' BY <1>1, <1>2, CountedKeeps DEF Web!Active
  <1>5. Web!Taken' /\ Web!GivenBack' BY <1>1, <1>2 DEF Web!IInv, Web!Taken, Web!HungUp, Web!GivenBack
  <1> QED BY <1>3, <1>4, <1>5 DEF Web!IInv

LEMMA DescribeStep ==
  ASSUME Web!IInv, NEW o \in Offers, Web!Describe(o)
  PROVE  Web!IInv'
  <1>1. /\ offer[o] = "describe" /\ Web!Goto(o, "connect")
        /\ UNCHANGED <<hangup, rows, peers, channel, conns, wired, waiting, crashes, raced, early, unheard, stuck, lost>>
    BY DEF Web!Describe, Web!history
  <1>2. offer' \in [Offers -> WidgetPlaces] /\ offer'[o] = "connect" /\ \A p \in Offers \ {o} : offer'[p] = offer[p]
    BY <1>1, WidgetGotoIs DEF WidgetPlaces
  <1>3. Web!TypeOK' BY <1>1, <1>2 DEF Web!IInv, Web!TypeOK, WidgetPlaces
  <1>4. Web!Counted' BY <1>1, <1>2, CountedKeeps DEF Web!Active
  <1>5. Web!Taken' /\ Web!GivenBack' BY <1>1, <1>2 DEF Web!IInv, Web!Taken, Web!HungUp, Web!GivenBack
  <1> QED BY <1>3, <1>4, <1>5 DEF Web!IInv

LEMMA FailStep ==
  ASSUME Web!IInv, NEW o \in Offers, Web!Fail(o)
  PROVE  Web!IInv'
  <1>1. /\ offer[o] \in {"find", "describe", "connect"} /\ Web!Goto(o, "over") /\ lost' = lost \cup {o}
        /\ UNCHANGED <<hangup, rows, peers, channel, conns, wired, waiting, crashes, raced, early, unheard, stuck>>
    BY DEF Web!Fail
  <1>2. offer' \in [Offers -> WidgetPlaces] /\ offer'[o] = "over" /\ \A p \in Offers \ {o} : offer'[p] = offer[p]
    BY <1>1, WidgetGotoIs DEF WidgetPlaces
  <1>3. Web!TypeOK' BY <1>1, <1>2 DEF Web!IInv, Web!TypeOK, WidgetPlaces
  <1>4. Web!Counted' BY <1>1, <1>2, CountedKeeps DEF Web!Active
  <1>5. Web!Taken' /\ Web!GivenBack' BY <1>1, <1>2 DEF Web!IInv, Web!Taken, Web!HungUp, Web!GivenBack
  <1> QED BY <1>3, <1>4, <1>5 DEF Web!IInv

LEMMA WidgetConnectStep ==
  ASSUME Web!IInv, NEW o \in Offers, Web!Connect(o)
  PROVE  Web!IInv'
  <1>1. /\ offer[o] = "connect" /\ Web!Goto(o, "over")
        /\ conns' = conns \cup {o} /\ channel' = channel \cup {o} /\ wired' = wired \cup {o}
        /\ waiting' = waiting \cup {o} /\ UNCHANGED <<hangup, rows, peers, crashes, raced, early, unheard, stuck, lost>>
    BY DEF Web!Connect, Web!history
  <1>2. offer' \in [Offers -> WidgetPlaces] /\ offer'[o] = "over" /\ \A p \in Offers \ {o} : offer'[p] = offer[p]
    BY <1>1, WidgetGotoIs DEF WidgetPlaces
  <1>3. Web!TypeOK' BY <1>1, <1>2 DEF Web!IInv, Web!TypeOK, WidgetPlaces
  <1>4. Web!Counted' BY <1>1, <1>2, CountedKeeps DEF Web!Active
  <1>5. Web!Taken' /\ Web!GivenBack' BY <1>1, <1>2 DEF Web!IInv, Web!Taken, Web!HungUp, Web!GivenBack
  <1> QED BY <1>3, <1>4, <1>5 DEF Web!IInv

LEMMA OpenedStep ==
  ASSUME Web!IInv, NEW o \in Offers, Web!Opened(o)
  PROVE  Web!IInv'
  <1>1. /\ waiting' = waiting \ {o}
        /\ UNCHANGED <<offer, hangup, rows, peers, channel, conns, wired, crashes, raced, early, unheard, stuck, lost>>
    BY DEF Web!Opened, Web!history
  <1>2. Web!TypeOK' BY <1>1 DEF Web!IInv, Web!TypeOK
  <1>3. Web!Counted' BY <1>1, CountedKeeps DEF Web!Active
  <1>4. Web!Taken' /\ Web!GivenBack' BY <1>1 DEF Web!IInv, Web!Taken, Web!HungUp, Web!GivenBack
  <1> QED BY <1>2, <1>3, <1>4 DEF Web!IInv

\* A run of handleDisconnect is put to a place and a session.
HangupPlaces == {"idle", "cdr", "close", "end", "forget", "over"}
Put(h, l, o) == hangup' = [hangup EXCEPT ![h] = [at |-> l, s |-> o]]

LEMMA HangupIs ==
  ASSUME Web!IInv, NEW h \in Hangups, NEW o \in Offers,
         NEW l \in HangupPlaces, Put(h, l, o)
  PROVE  /\ hangup' \in [Hangups -> [at : {"idle", "cdr", "close", "end", "forget", "over"}, s : Offers]]
         /\ \A p \in Offers : Web!HungUp(p)' => Web!HungUp(p) \/ (p = o /\ l \notin {"idle", "over"})
  <1>1. hangup \in [Hangups -> [at : {"idle", "cdr", "close", "end", "forget", "over"}, s : Offers]]
    BY DEF Web!IInv, Web!TypeOK
  <1>2. /\ hangup' \in [Hangups -> [at : {"idle", "cdr", "close", "end", "forget", "over"}, s : Offers]]
        /\ hangup'[h].at = l /\ hangup'[h].s = o /\ \A g \in Hangups \ {h} : hangup'[g] = hangup[g]
    BY <1>1 DEF Put, HangupPlaces
  <1> QED BY <1>2 DEF Web!HungUp

LEMMA BeginStep ==
  ASSUME Web!IInv, NEW h \in Hangups, NEW o \in Offers, Web!Begin(h, o)
  PROVE  Web!IInv'
  <1>1. /\ o \in peers /\ early \subseteq early' /\ (o \notin channel => o \in early') /\ early' \subseteq Offers \cup early
        /\ wired' \subseteq wired /\ conns' \subseteq conns
        /\ (o \in channel => o \notin wired' \cup conns')
        /\ \A p \in Offers : p # o => (p \in conns' <=> p \in conns) /\ (p \in wired' <=> p \in wired)
        /\ unheard' = (IF o \in channel \cap waiting THEN unheard \cup {o} ELSE unheard)
        /\ UNCHANGED <<offer, rows, peers, channel, waiting, crashes, raced, stuck, lost>>
    BY DEF Web!Begin
  <1>2. PICK l \in {"cdr", "close"} : Put(h, l, o) BY DEF Web!Begin, Put
  <1>3. /\ hangup' \in [Hangups -> [at : {"idle", "cdr", "close", "end", "forget", "over"}, s : Offers]]
        /\ \A p \in Offers : Web!HungUp(p)' => Web!HungUp(p) \/ p = o
    <2>1. l \in HangupPlaces BY DEF HangupPlaces
    <2> QED BY <2>1, <1>2, HangupIs
  <1>4. Web!TypeOK' BY <1>1, <1>3 DEF Web!IInv, Web!TypeOK
  <1>5. Web!Counted' BY <1>1, CountedKeeps DEF Web!Active
  <1>6. Web!Taken'
    <2> SUFFICES ASSUME NEW p \in Offers \ early'
        PROVE /\ offer[p] \in {"idle", "create"} => rows[p] = "none" /\ p \notin peers
              /\ offer[p] = "find" => rows[p] = "active" /\ p \notin peers
              /\ offer[p] \in {"describe", "connect"} => rows[p] = "active" /\ p \in peers
              /\ offer[p] # "over" => p \notin channel \cup conns' \cup wired' \cup waiting \cup unheard'
              /\ Web!HungUp(p)' \/ rows[p] = "ended" =>
                    offer[p] = "over" /\ p \notin conns' \cup wired' /\ (p \in waiting => p \in unheard')
      BY <1>1 DEF Web!Taken
    <2>1. p \in Offers \ early BY <1>1
    <2>2. CASE p = o
      <3>1. p \in channel BY <2>2, <1>1
      <3> QED BY <3>1, <2>1, <2>2, <1>1 DEF Web!IInv, Web!Taken
    <2>3. CASE p # o BY <2>1, <2>3, <1>1, <1>3 DEF Web!IInv, Web!Taken
    <2> QED BY <2>2, <2>3
  <1>7. Web!GivenBack' BY <1>1 DEF Web!IInv, Web!GivenBack
  <1> QED BY <1>4, <1>5, <1>6, <1>7 DEF Web!IInv

\* A run of handleDisconnect goes on with its session.
LEMMA HangupStays ==
  ASSUME Web!IInv, NEW h \in Hangups, hangup[h].at \in {"cdr", "close", "end", "forget"},
         NEW l \in HangupPlaces, Put(h, l, hangup[h].s)
  PROVE  /\ hangup[h].s \in Offers /\ Web!HungUp(hangup[h].s)
         /\ hangup' \in [Hangups -> [at : {"idle", "cdr", "close", "end", "forget", "over"}, s : Offers]]
         /\ \A p \in Offers : Web!HungUp(p)' => Web!HungUp(p)
  <1>1. hangup[h].s \in Offers /\ Web!HungUp(hangup[h].s) BY DEF Web!IInv, Web!TypeOK, Web!HungUp
  <1> DEFINE o == hangup[h].s
  <1>2. Put(h, l, o) /\ o \in Offers /\ Web!HungUp(o) BY <1>1
  <1> HIDE DEF o
  <1>3. /\ hangup' \in [Hangups -> [at : {"idle", "cdr", "close", "end", "forget", "over"}, s : Offers]]
        /\ \A p \in Offers : Web!HungUp(p)' => Web!HungUp(p)
    BY <1>2, HangupIs
  <1> QED BY <1>1, <1>3

LEMMA StepIs ==
  ASSUME Web!IInv, NEW h \in Hangups, NEW l, Web!Step(h, l)
  PROVE  Put(h, l, hangup[h].s)
  <1>1. hangup[h] \in [at : {"idle", "cdr", "close", "end", "forget", "over"}, s : Offers]
    BY DEF Web!IInv, Web!TypeOK
  <1>2. [hangup[h] EXCEPT !.at = l] = [at |-> l, s |-> hangup[h].s] BY <1>1
  <1>3. hangup' = [hangup EXCEPT ![h] = [hangup[h] EXCEPT !.at = l]] BY DEF Web!Step
  <1> QED BY <1>2, <1>3 DEF Put

LEMMA HangUpCdrStep ==
  ASSUME Web!IInv, NEW h \in Hangups, NEW ok \in BOOLEAN,
         Web!HangUpCdr(h, ok) \/ Web!ClosePeer(h)
  PROVE  Web!IInv'
  <1>1. /\ hangup[h].at \in {"cdr", "close", "end", "forget"}
        /\ \E l \in {"close", "over", "end"} : Web!Step(h, l)
        /\ UNCHANGED <<offer, rows, peers, channel, conns, wired, waiting, raced, early, unheard>>
    BY DEF Web!HangUpCdr, Web!ClosePeer, Web!history
  <1>2. /\ hangup' \in [Hangups -> [at : {"idle", "cdr", "close", "end", "forget", "over"}, s : Offers]]
        /\ \A p \in Offers : Web!HungUp(p)' => Web!HungUp(p)
    BY <1>1, StepIs, HangupStays DEF HangupPlaces
  <1>3. Web!TypeOK' BY <1>1, <1>2 DEF Web!IInv, Web!TypeOK
  <1>4. Web!Counted' BY <1>1, CountedKeeps DEF Web!Active
  <1>5. Web!Taken' /\ Web!GivenBack' BY <1>1, <1>2 DEF Web!IInv, Web!Taken, Web!GivenBack
  <1> QED BY <1>3, <1>4, <1>5 DEF Web!IInv

LEMMA EndStep ==
  ASSUME Web!IInv, NEW h \in Hangups, Web!End(h)
  PROVE  Web!IInv'
  <1> DEFINE o == hangup[h].s
  <1>1. /\ hangup[h].at = "end" /\ Web!Step(h, "forget") /\ rows' = [rows EXCEPT ![o] = "ended"]
        /\ UNCHANGED <<offer, peers, channel, conns, wired, waiting, raced, early, unheard>>
    BY DEF Web!End, Web!history
  <1>2. /\ o \in Offers /\ Web!HungUp(o)
        /\ hangup' \in [Hangups -> [at : {"idle", "cdr", "close", "end", "forget", "over"}, s : Offers]]
        /\ \A p \in Offers : Web!HungUp(p)' => Web!HungUp(p)
    BY <1>1, StepIs, HangupStays DEF HangupPlaces
  <1> HIDE DEF o
  <1>3. rows' \in [Offers -> {"none", "active", "ended"}] /\ rows'[o] = "ended" /\ \A p \in Offers \ {o} : rows'[p] = rows[p]
    BY <1>1, <1>2 DEF Web!IInv, Web!TypeOK
  <1>4. Web!TypeOK' BY <1>1, <1>2, <1>3 DEF Web!IInv, Web!TypeOK
  <1>5. Web!Counted'
    <2>1. Web!Active' \subseteq Web!Active BY <1>3 DEF Web!Active
    <2> QED BY <2>1, <1>1, CountedKeeps
  <1>6. Web!Taken' /\ Web!GivenBack'
    <2>1. o \notin early => offer[o] = "over" /\ o \notin conns \cup wired /\ (o \in waiting => o \in unheard)
      BY <1>2 DEF Web!IInv, Web!Taken
    <2> QED BY <2>1, <1>1, <1>2, <1>3 DEF Web!IInv, Web!Taken, Web!GivenBack
  <1> QED BY <1>4, <1>5, <1>6 DEF Web!IInv

LEMMA WidgetForgetStep ==
  ASSUME Web!IInv, NEW h \in Hangups, Web!Forget(h)
  PROVE  Web!IInv'
  <1> DEFINE o == hangup[h].s
  <1>1. /\ hangup[h].at = "forget" /\ hangup' = [hangup EXCEPT ![h] = [at |-> "idle", s |-> o]] /\ peers' = peers \ {o}
        /\ UNCHANGED <<offer, rows, channel, conns, wired, waiting, raced, early, unheard>>
    BY DEF Web!Forget, Web!history
  <1>2. /\ o \in Offers /\ Web!HungUp(o)
        /\ hangup' \in [Hangups -> [at : {"idle", "cdr", "close", "end", "forget", "over"}, s : Offers]]
        /\ \A p \in Offers : Web!HungUp(p)' => Web!HungUp(p)
    BY <1>1, HangupStays DEF HangupPlaces, Put
  <1> HIDE DEF o
  <1>3. Web!TypeOK' BY <1>1, <1>2 DEF Web!IInv, Web!TypeOK
  <1>4. Web!Counted' BY <1>1, CountedKeeps DEF Web!Active
  <1>5. Web!Taken' /\ Web!GivenBack'
    <2>1. o \notin early => offer[o] = "over" /\ o \notin conns \cup wired /\ (o \in waiting => o \in unheard)
      BY <1>2 DEF Web!IInv, Web!Taken
    <2> QED BY <2>1, <1>1, <1>2 DEF Web!IInv, Web!Taken, Web!GivenBack
  <1> QED BY <1>3, <1>4, <1>5 DEF Web!IInv

LEMMA CrashStep ==
  ASSUME Web!IInv, Web!Crash
  PROVE  Web!IInv'
  <1>1. /\ offer' = [o \in Offers |-> IF offer[o] = "idle" THEN "idle" ELSE "over"]
        /\ hangup' = [h \in Hangups |-> [hangup[h] EXCEPT !.at = "idle"]]
        /\ peers' = {} /\ channel' = {} /\ conns' = {} /\ wired' = {} /\ waiting' = {}
        /\ UNCHANGED <<rows, raced, early, unheard>>
    BY DEF Web!Crash
  <1>2. hangup' \in [Hangups -> [at : {"idle", "cdr", "close", "end", "forget", "over"}, s : Offers]]
        /\ \A h \in Hangups : hangup'[h].at = "idle"
    BY <1>1 DEF Web!IInv, Web!TypeOK
  <1>3. Web!TypeOK' BY <1>1, <1>2 DEF Web!IInv, Web!TypeOK
  <1>4. Web!Counted' BY <1>1, CountedKeeps DEF Web!Active
  <1>5. \A o \in Offers : ~Web!HungUp(o)' BY <1>2 DEF Web!HungUp
  <1>6. Web!Taken' /\ Web!GivenBack' BY <1>1, <1>5 DEF Web!IInv, Web!Taken, Web!GivenBack
  <1> QED BY <1>3, <1>4, <1>6 DEF Web!IInv

LEMMA WidgetInit ==
  Web!Init => Web!IInv
  <1> SUFFICES ASSUME Web!Init PROVE Web!IInv OBVIOUS
  <1>1. (CHOOSE o \in Offers : TRUE) \in Offers BY ComponentConstants DEF Web!WidgetConstants
  <1>2. Web!TypeOK BY <1>1 DEF Web!Init, Web!TypeOK
  <1>3. Web!Active = {} BY DEF Web!Init, Web!Active
  <1>4. Web!Counted
    BY <1>3, FS_EmptySet, WidgetCounts, ComponentConstants DEF Web!WidgetConstants,
         Web!Init, Web!Counted
  <1>5. Web!Taken /\ Web!GivenBack BY DEF Web!Init, Web!Taken, Web!HungUp, Web!GivenBack
  <1> QED BY <1>2, <1>4, <1>5 DEF Web!IInv

LEMMA WidgetStep ==
  ASSUME Web!IInv, Web!Next
  PROVE  Web!IInv'
  BY WidgetValidateStep, CreateRowStep, AddPeerStep, DescribeStep, FailStep, WidgetConnectStep,
       OpenedStep, BeginStep, HangUpCdrStep,
     EndStep, WidgetForgetStep, CrashStep DEF Web!Next

LEMMA WidgetStay ==
  ASSUME Web!IInv, UNCHANGED Web!vars
  PROVE  Web!IInv'
  BY DEF Web!vars, Web!IInv, Web!TypeOK, Web!Counted, Web!Active, Web!Taken,
       Web!HungUp, Web!GivenBack

LEMMA WidgetIs ==
  ASSUME Web!IInv
  PROVE  Web!TypeOK /\ Web!WithinLimit /\ Web!GivenBack
  BY DEF Web!IInv, Web!Counted, Web!WithinLimit

LEMMA WidgetAlways == Spec => [](which = "Web" => Web!IInv)
  <1> DEFINE I == which = "Web" => Web!IInv
  <1>1. Init => I BY WidgetInit, ComponentConstants DEF Init
  <1>2. I /\ [Next]_vars => I'
    <2>1. ASSUME Web!IInv, [Web!Next]_Web!vars PROVE Web!IInv' BY <2>1, WidgetStep, WidgetStay, ComponentConstants
    <2>2. ASSUME [Next]_vars, which' = "Web"
          PROVE  which = "Web" /\ [Web!Next]_Web!vars
      BY <2>2 DEF Next, vars, Web!vars
    <2> QED BY <2>1, <2>2
  <1> QED BY <1>1, <1>2, PTL DEF Spec

------------------------
\* The visitor: a start that meets nobody has the manager to itself, and who stops a user
\* agent stops its own (Page!IInv).

LEMMA OpenStep ==
  ASSUME Page!IInv, Page!Open
  PROVE  Page!IInv'
  <1> USE ComponentConstants DEF Page!IInv, Page!TypeOK, Page!Open, Page!outside,
           Page!fields, Page!ClientConstants, Page!Places
  <1>1. Page!TypeOK' OBVIOUS
  <1>2. Page!Places' OBVIOUS
  <1>3. Page!OnItsOwn' BY DEF Page!OnItsOwn, Page!Engaged, Page!UnderWay, Page!Going
  <1>4. Page!Heard' BY DEF Page!OnItsOwn, Page!Engaged, Page!UnderWay, Page!Going, Page!Heard
  <1>5. Page!CallInHand' BY DEF Page!OnItsOwn, Page!Engaged, Page!UnderWay, Page!Going, Page!CallInHand
  <1>6. Page!Shown' BY DEF Page!Halting, Page!Shown
  <1> QED BY <1>1, <1>2, <1>3, <1>4, <1>5, <1>6

LEMMA StartStep ==
  ASSUME Page!IInv, NEW s \in Visits, Page!Start(s)
  PROVE  Page!IInv'
  <1> USE ComponentConstants DEF Page!IInv, Page!TypeOK, Page!Start, Page!Goto, Page!outside,
           Page!fields, Page!ClientConstants, Page!Met, Page!Halting, Page!Places
  <1>1. Page!TypeOK' OBVIOUS
  <1>2. Page!Places' OBVIOUS
  <1>3. Page!OnItsOwn' BY DEF Page!OnItsOwn, Page!Engaged, Page!UnderWay, Page!Going
  <1>4. Page!Heard' BY DEF Page!OnItsOwn, Page!Engaged, Page!UnderWay, Page!Going, Page!Heard
  <1>5. Page!CallInHand' BY DEF Page!OnItsOwn, Page!Engaged, Page!UnderWay, Page!Going, Page!CallInHand
  <1>6. Page!Shown' BY DEF Page!Shown
  <1> QED BY <1>1, <1>2, <1>3, <1>4, <1>5, <1>6

LEMMA GrantedStep ==
  ASSUME Page!IInv, NEW s \in Visits, Page!Granted(s)
  PROVE  Page!IInv'
  <1> USE ComponentConstants DEF Page!IInv, Page!TypeOK, Page!Granted, Page!Goto,
           Page!ClientConstants, Page!Places
  <1>1. Page!TypeOK' OBVIOUS
  <1>2. Page!Places' OBVIOUS
  <1>3. Page!OnItsOwn' BY DEF Page!OnItsOwn, Page!Engaged, Page!UnderWay, Page!Going
  <1>4. Page!Heard' BY DEF Page!OnItsOwn, Page!Engaged, Page!UnderWay, Page!Going, Page!Heard
  <1>5. Page!CallInHand' BY DEF Page!OnItsOwn, Page!Engaged, Page!UnderWay, Page!Going, Page!CallInHand
  <1>6. Page!Shown' BY DEF Page!Halting, Page!Shown
  <1> QED BY <1>1, <1>2, <1>3, <1>4, <1>5, <1>6

LEMMA DeniedStep ==
  ASSUME Page!IInv, NEW s \in Visits, Page!Denied(s)
  PROVE  Page!IInv'
  <1> USE ComponentConstants DEF Page!IInv, Page!TypeOK, Page!Denied, Page!Goto,
           Page!Cleanup, Page!CleanupAfterError, Page!Say, Page!ClientConstants, Page!Places
  <1>1. Page!TypeOK' OBVIOUS
  <1>2. Page!Places' OBVIOUS
  <1>3. Page!OnItsOwn' BY DEF Page!OnItsOwn, Page!Engaged, Page!UnderWay, Page!Going
  <1>4. Page!Heard' BY DEF Page!OnItsOwn, Page!Engaged, Page!UnderWay, Page!Going, Page!Heard
  <1>5. Page!CallInHand' BY DEF Page!OnItsOwn, Page!Engaged, Page!UnderWay, Page!Going, Page!CallInHand
  <1>6. Page!Shown' BY DEF Page!Halting, Page!Shown
  <1> QED BY <1>1, <1>2, <1>3, <1>4, <1>5, <1>6

LEMMA VisitConnectedStep ==
  ASSUME Page!IInv, NEW s \in Visits, Page!Connected(s)
  PROVE  Page!IInv'
  <1> USE ComponentConstants DEF Page!IInv, Page!TypeOK, Page!Connected, Page!fields,
           Page!Say, Page!ClientConstants, Page!Places
  <1>1. Page!TypeOK' OBVIOUS
  <1>2. Page!Places' OBVIOUS
  <1>3. Page!OnItsOwn' BY DEF Page!OnItsOwn, Page!Engaged, Page!UnderWay, Page!Going
  <1>4. Page!Heard' BY DEF Page!OnItsOwn, Page!Engaged, Page!UnderWay, Page!Going, Page!Heard
  <1>5. Page!CallInHand' BY DEF Page!OnItsOwn, Page!Engaged, Page!UnderWay, Page!Going, Page!CallInHand
  <1>6. Page!Shown' BY DEF Page!Halting, Page!Shown
  <1> QED BY <1>1, <1>2, <1>3, <1>4, <1>5, <1>6

LEMMA InviteStep ==
  ASSUME Page!IInv, NEW s \in Visits, Page!Invite(s)
  PROVE  Page!IInv'
  <1> USE DEF Page!IInv, Page!TypeOK, Page!Invite, Page!Goto, Page!Cleanup,
           Page!CleanupAfterError, Page!Say, Page!Places
  <1>1. Page!TypeOK' BY ComponentConstants DEF Page!ClientConstants
  <1>2. Page!Places'
    <2>1. ending' \in [Leaves -> Visits \cup {Unset}] /\ \A y \in Leaves : stopping'[y] = "agent" => ending'[y] # Unset
      BY ComponentConstants DEF Page!ClientConstants
    <2>2. isSessionActive' \in BOOLEAN /\ shown' \in BOOLEAN /\ overlapped' \subseteq Visits OBVIOUS
    <2>3. session' # Unset => userAgent' # Unset OBVIOUS
    <2>4. \A t \in Visits : /\ starting'[t] \in {"idle", "mic", "agent"} => call'[t] = "none"
                            /\ agent'[t] = "starting" => starting'[t] = "agent"
      OBVIOUS
    <2> QED BY <2>1, <2>2, <2>3, <2>4
  <1>3. Page!OnItsOwn'
    BY ComponentConstants DEF Page!OnItsOwn, Page!Engaged, Page!UnderWay, Page!Going,
         Page!ClientConstants
  <1>4. Page!Heard'
    BY ComponentConstants DEF Page!OnItsOwn, Page!Engaged, Page!UnderWay, Page!Going, Page!Heard,
         Page!ClientConstants
  <1>5. Page!CallInHand'
    BY ComponentConstants DEF Page!OnItsOwn, Page!Engaged, Page!UnderWay, Page!Going,
         Page!CallInHand, Page!ClientConstants
  <1>6. Page!Shown'
    <2>1. CASE userAgent = Unset BY <2>1 DEF Page!Shown
    <2>2. CASE userAgent # Unset
      <3>1. session' = s BY <2>2
      <3> QED BY <3>1, ComponentConstants DEF Page!ClientConstants, Page!Shown
    <2> QED BY <2>1, <2>2
  <1> QED BY <1>1, <1>2, <1>3, <1>4, <1>5, <1>6

LEMMA AgentFailsStep ==
  ASSUME Page!IInv, NEW s \in Visits, Page!AgentFails(s)
  PROVE  Page!IInv'
  <1> USE ComponentConstants DEF Page!IInv, Page!TypeOK, Page!AgentFails, Page!Goto,
           Page!Cleanup, Page!CleanupAfterError, Page!Say, Page!ClientConstants, Page!Places
  <1>1. Page!TypeOK' OBVIOUS
  <1>2. Page!Places' OBVIOUS
  <1>3. Page!OnItsOwn' BY DEF Page!OnItsOwn, Page!Engaged, Page!UnderWay, Page!Going
  <1>4. Page!Heard' BY DEF Page!OnItsOwn, Page!Engaged, Page!UnderWay, Page!Going, Page!Heard
  <1>5. Page!CallInHand' BY DEF Page!OnItsOwn, Page!Engaged, Page!UnderWay, Page!Going, Page!CallInHand
  <1>6. Page!Shown' BY DEF Page!Halting, Page!Shown
  <1> QED BY <1>1, <1>2, <1>3, <1>4, <1>5, <1>6

LEMMA InvitedStep ==
  ASSUME Page!IInv, NEW s \in Visits, Page!Invited(s)
  PROVE  Page!IInv'
  <1> USE ComponentConstants DEF Page!IInv, Page!TypeOK, Page!Invited, Page!Goto,
           Page!outside, Page!fields, Page!ClientConstants, Page!Places
  <1>1. Page!TypeOK' OBVIOUS
  <1>2. Page!Places' OBVIOUS
  <1>3. Page!OnItsOwn' BY DEF Page!OnItsOwn, Page!Engaged, Page!UnderWay, Page!Going
  <1>4. Page!Heard' BY DEF Page!OnItsOwn, Page!Engaged, Page!UnderWay, Page!Going, Page!Heard
  <1>5. Page!CallInHand' BY DEF Page!OnItsOwn, Page!Engaged, Page!UnderWay, Page!Going, Page!CallInHand
  <1>6. Page!Shown' BY DEF Page!Halting, Page!Shown
  <1> QED BY <1>1, <1>2, <1>3, <1>4, <1>5, <1>6

LEMMA InviteFailsStep ==
  ASSUME Page!IInv, NEW s \in Visits, Page!InviteFails(s)
  PROVE  Page!IInv'
  <1> USE ComponentConstants DEF Page!IInv, Page!TypeOK, Page!InviteFails, Page!Goto,
           Page!Cleanup, Page!CleanupAfterError, Page!Say, Page!ClientConstants, Page!Places
  <1>1. Page!TypeOK' OBVIOUS
  <1>2. Page!Places' OBVIOUS
  <1>3. Page!OnItsOwn' BY DEF Page!OnItsOwn, Page!Engaged, Page!UnderWay, Page!Going
  <1>4. Page!Heard' BY DEF Page!OnItsOwn, Page!Engaged, Page!UnderWay, Page!Going, Page!Heard
  <1>5. Page!CallInHand' BY DEF Page!OnItsOwn, Page!Engaged, Page!UnderWay, Page!Going, Page!CallInHand
  <1>6. Page!Shown' BY DEF Page!Halting, Page!Shown
  <1> QED BY <1>1, <1>2, <1>3, <1>4, <1>5, <1>6

LEMMA EstablishedStep ==
  ASSUME Page!IInv, NEW s \in Visits, Page!Established(s)
  PROVE  Page!IInv'
  <1> USE ComponentConstants DEF Page!IInv, Page!TypeOK, Page!Established, Page!fields,
           Page!ClientConstants, Page!Places
  <1>1. Page!TypeOK' OBVIOUS
  <1>2. Page!Places' OBVIOUS
  <1>3. Page!OnItsOwn' BY DEF Page!OnItsOwn, Page!Engaged, Page!UnderWay, Page!Going
  <1>4. Page!Heard' BY DEF Page!OnItsOwn, Page!Engaged, Page!UnderWay, Page!Going, Page!Heard
  <1>5. Page!CallInHand' BY DEF Page!OnItsOwn, Page!Engaged, Page!UnderWay, Page!Going, Page!CallInHand
  <1>6. Page!Shown' BY DEF Page!Halting, Page!Shown
  <1> QED BY <1>1, <1>2, <1>3, <1>4, <1>5, <1>6

LEMMA TerminatedStep ==
  ASSUME Page!IInv, NEW s \in Visits, Page!Terminated(s)
  PROVE  Page!IInv'
  <1> USE DEF Page!IInv
  <1>1. Page!TypeOK'
    BY ComponentConstants DEF Page!TypeOK, Page!Terminated, Page!Cleanup, Page!CleanupAndStopped,
         Page!CleanupAfterError, Page!Say, Page!ClientConstants
  <1>2. Page!Places'
    BY ComponentConstants DEF Page!TypeOK, Page!Places, Page!Terminated, Page!Cleanup,
         Page!CleanupAndStopped, Page!CleanupAfterError, Page!Say, Page!ClientConstants
  <1>3. Page!OnItsOwn'
    BY ComponentConstants DEF Page!TypeOK, Page!Places, Page!OnItsOwn, Page!Engaged, Page!UnderWay,
         Page!Going, Page!Terminated, Page!Cleanup, Page!CleanupAndStopped,
         Page!CleanupAfterError, Page!Say, Page!ClientConstants
  <1>4. Page!Heard'
    BY ComponentConstants DEF Page!TypeOK, Page!Places, Page!OnItsOwn, Page!Engaged, Page!UnderWay,
         Page!Going, Page!Heard, Page!Terminated, Page!Cleanup, Page!CleanupAndStopped,
         Page!CleanupAfterError, Page!Say, Page!ClientConstants
  <1>5. Page!CallInHand'
    BY ComponentConstants DEF Page!TypeOK, Page!Places, Page!OnItsOwn, Page!Engaged, Page!UnderWay,
         Page!Going, Page!CallInHand, Page!Terminated, Page!Cleanup, Page!CleanupAndStopped,
         Page!CleanupAfterError, Page!Say, Page!ClientConstants
  <1>6. Page!Shown'
    BY ComponentConstants DEF Page!TypeOK, Page!Places, Page!Halting, Page!Shown, Page!Terminated,
         Page!Cleanup, Page!CleanupAndStopped, Page!CleanupAfterError, Page!Say,
         Page!ClientConstants
  <1> QED BY <1>1, <1>2, <1>3, <1>4, <1>5, <1>6

\* stopSession, whoever calls it, leaves the manager to the start that has it.
LEMMA StopSessionStep ==
  ASSUME Page!IInv, NEW x \in Leaves, Page!StopSession(x),
         UNCHANGED <<starting, overlapped>>, shown' \in BOOLEAN,
         agent' \in [Visits -> {"none", "starting", "up", "failed", "stopped"}],
         \A s \in Visits : agent'[s] = "starting" => agent[s] = "starting"
  PROVE  Page!IInv'
  <1>1. Page!TypeOK'
    BY ComponentConstants DEF Page!ClientConstants, Page!IInv, Page!TypeOK,
         Page!fields, Page!Cleanup, Page!CleanupAndStopped, Page!Say,
         Page!StopAgent, Page!StopSession
  <1>2. Page!OnItsOwn'
    BY ComponentConstants DEF Page!ClientConstants, Page!IInv, Page!TypeOK,
         Page!Places, Page!OnItsOwn, Page!Engaged, Page!UnderWay, Page!Going,
         Page!fields, Page!Cleanup, Page!CleanupAndStopped, Page!Say,
         Page!StopAgent, Page!StopSession
  <1>3. Page!Heard'
    BY ComponentConstants DEF Page!ClientConstants, Page!IInv, Page!TypeOK,
         Page!Places, Page!OnItsOwn, Page!Engaged, Page!UnderWay, Page!Going,
         Page!Heard, Page!fields, Page!Cleanup, Page!CleanupAndStopped,
         Page!Say, Page!StopAgent, Page!StopSession
  <1>4. Page!CallInHand'
    BY ComponentConstants DEF Page!ClientConstants, Page!IInv, Page!TypeOK,
         Page!Places, Page!OnItsOwn, Page!Engaged, Page!UnderWay, Page!Going,
         Page!CallInHand, Page!fields, Page!Cleanup, Page!CleanupAndStopped,
         Page!Say, Page!StopAgent, Page!StopSession
  <1>5. Page!Places'
    <2>1. ending' \in [Leaves -> Visits \cup {Unset}] /\ \A y \in Leaves : stopping'[y] = "agent" => ending'[y] # Unset
      BY ComponentConstants DEF Page!ClientConstants, Page!IInv, Page!TypeOK,
           Page!Places, Page!ClientConstants, Page!fields, Page!Cleanup,
           Page!CleanupAndStopped, Page!Say, Page!StopAgent, Page!StopSession
    <2>2. isSessionActive' \in BOOLEAN /\ shown' \in BOOLEAN /\ overlapped' \subseteq Visits
      BY DEF Page!IInv, Page!TypeOK, Page!Places, Page!ClientConstants,
           Page!fields, Page!Cleanup, Page!CleanupAndStopped, Page!Say,
           Page!StopAgent, Page!StopSession
    <2>3. session' # Unset => userAgent' # Unset
      BY DEF Page!IInv, Page!TypeOK, Page!Places, Page!ClientConstants,
           Page!fields, Page!Cleanup, Page!CleanupAndStopped, Page!Say,
           Page!StopAgent, Page!StopSession
    <2>4. \A t \in Visits : /\ starting'[t] \in {"idle", "mic", "agent"} => call'[t] = "none"
                            /\ agent'[t] = "starting" => starting'[t] = "agent"
      BY DEF Page!IInv, Page!TypeOK, Page!Places, Page!ClientConstants,
           Page!fields, Page!Cleanup, Page!CleanupAndStopped, Page!Say,
           Page!StopAgent, Page!StopSession
    <2> QED BY <2>1, <2>2, <2>3, <2>4 DEF Page!Places
  <1>6. Page!Shown'
    <2> SUFFICES ASSUME isSessionActive'
        PROVE session' # Unset \/ Page!Halting' # {} \/ \E t \in Visits : starting'[t] \in {"mic", "agent"}
      BY DEF Page!Shown
    <2>1. stopping'[x] \in {"call", "agent"}
      BY DEF Page!IInv, Page!TypeOK, Page!CleanupAndStopped, Page!Say, Page!StopAgent, Page!StopSession
    <2> QED BY <2>1 DEF Page!Halting
  <1> QED BY <1>1, <1>2, <1>3, <1>4, <1>5, <1>6 DEF Page!IInv

LEMMA CallSettledStep ==
  ASSUME Page!IInv, NEW x \in Leaves, Page!CallSettled(x)
  PROVE  Page!IInv'
  <1> USE DEF Page!IInv, Page!TypeOK, Page!CallSettled, Page!fields, Page!Cleanup,
           Page!CleanupAndStopped, Page!Say, Page!StopAgent, Page!Places
  <1>1. Page!TypeOK' BY ComponentConstants DEF Page!ClientConstants
  <1>2. Page!Places'
    <2>1. ending' \in [Leaves -> Visits \cup {Unset}] /\ \A y \in Leaves : stopping'[y] = "agent" => ending'[y] # Unset
      BY ComponentConstants DEF Page!ClientConstants
    <2>2. isSessionActive' \in BOOLEAN /\ shown' \in BOOLEAN /\ overlapped' \subseteq Visits OBVIOUS
    <2>3. session' # Unset => userAgent' # Unset OBVIOUS
    <2>4. \A t \in Visits : /\ starting'[t] \in {"idle", "mic", "agent"} => call'[t] = "none"
                            /\ agent'[t] = "starting" => starting'[t] = "agent"
      OBVIOUS
    <2> QED BY <2>1, <2>2, <2>3, <2>4
  <1>3. Page!OnItsOwn'
    BY ComponentConstants DEF Page!OnItsOwn, Page!Engaged, Page!UnderWay, Page!Going,
         Page!ClientConstants
  <1>4. Page!Heard'
    BY ComponentConstants DEF Page!OnItsOwn, Page!Engaged, Page!UnderWay, Page!Going, Page!Heard,
         Page!ClientConstants
  <1>5. Page!CallInHand'
    BY ComponentConstants DEF Page!OnItsOwn, Page!Engaged, Page!UnderWay, Page!Going,
         Page!CallInHand, Page!ClientConstants
  <1>6. Page!Shown'
    <2> SUFFICES ASSUME isSessionActive'
        PROVE session' # Unset \/ Page!Halting' # {} \/ \E t \in Visits : starting'[t] \in {"mic", "agent"}
      BY DEF Page!Shown
    <2>1. stopping'[x] \in {"call", "agent"} OBVIOUS
    <2> QED BY <2>1 DEF Page!Halting
  <1> QED BY <1>1, <1>2, <1>3, <1>4, <1>5, <1>6

LEMMA AgentStoppedStep ==
  ASSUME Page!IInv, NEW x \in Leaves, Page!AgentStopped(x)
  PROVE  Page!IInv'
  <1> USE ComponentConstants DEF Page!IInv, Page!TypeOK, Page!AgentStopped, Page!Cleanup,
           Page!CleanupAndStopped, Page!Say, Page!ClientConstants, Page!Places
  <1>1. Page!TypeOK' OBVIOUS
  <1>2. Page!Places' OBVIOUS
  <1>3. Page!OnItsOwn' BY DEF Page!OnItsOwn, Page!Engaged, Page!UnderWay, Page!Going
  <1>4. Page!Heard' BY DEF Page!OnItsOwn, Page!Engaged, Page!UnderWay, Page!Going, Page!Heard
  <1>5. Page!CallInHand' BY DEF Page!OnItsOwn, Page!Engaged, Page!UnderWay, Page!Going, Page!CallInHand
  <1>6. Page!Shown' BY DEF Page!Halting, Page!Shown
  <1> QED BY <1>1, <1>2, <1>3, <1>4, <1>5, <1>6

LEMMA DisconnectedStep ==
  ASSUME Page!IInv, NEW s \in Visits, NEW x \in Leaves, Page!Disconnected(s, x)
  PROVE  Page!IInv'
  <1>1. /\ agent' \in [Visits -> {"none", "starting", "up", "failed", "stopped"}]
        /\ \A t \in Visits : agent'[t] = "starting" => agent[t] = "starting"
    BY DEF Page!Disconnected, Page!IInv, Page!TypeOK
  <1> QED BY <1>1, StopSessionStep DEF Page!Disconnected, Page!IInv, Page!Places

LEMMA StopStep ==
  ASSUME Page!IInv, NEW x \in Leaves, Page!Stop(x)
  PROVE  Page!IInv'
  <1>1. /\ agent' \in [Visits -> {"none", "starting", "up", "failed", "stopped"}]
        /\ \A t \in Visits : agent'[t] = "starting" => agent[t] = "starting"
    BY DEF Page!Stop, Page!IInv, Page!TypeOK
  <1> QED BY <1>1, StopSessionStep DEF Page!Stop, Page!IInv, Page!Places

LEMMA CloseStep ==
  ASSUME Page!IInv, NEW x \in Leaves, Page!Close(x)
  PROVE  Page!IInv'
  <1>1. CASE isSessionActive
    <2>1. /\ agent' \in [Visits -> {"none", "starting", "up", "failed", "stopped"}]
          /\ \A t \in Visits : agent'[t] = "starting" => agent[t] = "starting"
      BY DEF Page!Close, Page!IInv, Page!TypeOK
    <2> QED BY <1>1, <2>1, StopSessionStep DEF Page!Close
  <1>2. CASE ~isSessionActive
    <2>1. /\ UNCHANGED <<starting, stopping, mic, agent, call, ending, localStream, session, userAgent, isSessionActive,
                        status, overlapped>>
          /\ shown' \in BOOLEAN
      BY <1>2 DEF Page!Close, Page!fields
    <2>2. Page!TypeOK' /\ Page!Places' BY <2>1 DEF Page!IInv, Page!TypeOK, Page!Places
    <2>3. Page!OnItsOwn' /\ Page!Heard' /\ Page!CallInHand' /\ Page!Shown'
      BY <2>1 DEF Page!IInv, Page!OnItsOwn, Page!Heard, Page!CallInHand,
           Page!Shown, Page!Engaged, Page!UnderWay, Page!Going, Page!Halting
    <2> QED BY <2>2, <2>3 DEF Page!IInv
  <1> QED BY <1>1, <1>2

LEMMA PageInit ==
  Page!Init => Page!IInv
  <1> SUFFICES ASSUME Page!Init PROVE Page!IInv OBVIOUS
  <1>1. Page!TypeOK /\ Page!Places BY DEF Page!Init, Page!TypeOK, Page!Places
  <1>2. Page!OnItsOwn /\ Page!Heard /\ Page!CallInHand /\ Page!Shown
    BY ComponentConstants DEF Page!ClientConstants, Page!Init, Page!OnItsOwn,
         Page!Heard, Page!CallInHand, Page!Shown, Page!Engaged,
         Page!UnderWay, Page!Going
  <1> QED BY <1>1, <1>2 DEF Page!IInv

LEMMA PageStep ==
  ASSUME Page!IInv, Page!Next
  PROVE  Page!IInv'
  BY OpenStep, StartStep, GrantedStep, DeniedStep, VisitConnectedStep, InviteStep,
       AgentFailsStep, InvitedStep, InviteFailsStep,
     EstablishedStep, TerminatedStep, CloseStep, StopStep, CallSettledStep, AgentStoppedStep, DisconnectedStep DEF Page!Next

LEMMA PageStay ==
  ASSUME Page!IInv, UNCHANGED Page!vars
  PROVE  Page!IInv'
  <1>1. Page!TypeOK' /\ Page!Places' BY DEF Page!vars, Page!IInv, Page!TypeOK, Page!Places
  <1>2. Page!OnItsOwn' /\ Page!Heard' /\ Page!CallInHand' /\ Page!Shown'
    BY DEF Page!vars, Page!IInv, Page!OnItsOwn, Page!Heard, Page!CallInHand,
         Page!Shown, Page!Engaged, Page!UnderWay, Page!Going, Page!Halting
  <1> QED BY <1>1, <1>2 DEF Page!IInv

LEMMA PageIs ==
  ASSUME Page!IInv
  PROVE  Page!TypeOK /\ Page!ClientSound
  <1>1. Page!MicrophoneReleased BY DEF Page!IInv, Page!Heard, Page!MicrophoneReleased, Page!UnderWay
  <1>2. Page!ActiveIsReal BY DEF Page!IInv, Page!Shown, Page!ActiveIsReal, Page!UnderWay
  <1> QED BY <1>1, <1>2 DEF Page!IInv, Page!ClientSound

LEMMA PageAlways == Spec => [](which = "Page" => Page!IInv)
  <1> DEFINE I == which = "Page" => Page!IInv
  <1>1. Init => I BY PageInit, ComponentConstants DEF Init
  <1>2. I /\ [Next]_vars => I'
    <2>1. ASSUME Page!IInv, [Page!Next]_Page!vars PROVE Page!IInv' BY <2>1, PageStep, PageStay, ComponentConstants
    <2>2. ASSUME [Next]_vars, which' = "Page"
          PROVE  which = "Page" /\ [Page!Next]_Page!vars
      BY <2>2 DEF Next, vars, Page!vars
    <2> QED BY <2>1, <2>2
  <1> QED BY <1>1, <1>2, PTL DEF Spec

------------------------
\* The playground: one run sets the session of its socket, and who ends one has it or has
\* been told (Play!IInv).

PlaygroundPlaces == {"idle", "find", "clean", "forget", "set", "connect", "record", "over"}

\* One run moves on.
LEMMA PlayingGotoIs ==
  ASSUME Play!IInv, NEW p \in Play!Runs, NEW l \in PlaygroundPlaces, Play!Goto(p, l)
  PROVE  runs' \in [Play!Runs -> PlaygroundPlaces] /\ runs'[p] = l /\ \A q \in Play!Runs \ {p} : runs'[q] = runs[q]
  BY DEF Play!IInv, Play!TypeOK, PlaygroundPlaces, Play!Goto

\* The sessions are runs of handleInit, and none of them is the absent one.
LEMMA SessionIs ==
  ASSUME Play!IInv
  PROVE  /\ Inits \subseteq Play!Runs /\ Stops \subseteq Play!Runs /\ Play!None \notin Inits
         /\ \A i \in Inits, s \in Stops : i # s
         /\ \A p \in Play!Cleaning : p \in Play!Runs /\ obj[p] \in Inits
         /\ DOMAIN runs = Play!Runs
  BY ComponentConstants DEF Play!PlaygroundConstants, Play!IInv, Play!TypeOK,
       Play!Known, Play!Runs, Play!Cleaning

\* A run moves on outside of a cleanup, and nothing else changes but the flag.
LEMMA QuietKeeps ==
  ASSUME Play!IInv, NEW p \in Play!Runs, NEW l \in PlaygroundPlaces, Play!Goto(p, l),
         UNCHANGED <<obj, entry, realtime, conn, wired, early, crossed>>,
         runs[p] \notin {"clean", "forget"}, l \notin {"clean", "forget", "connect"},
         runs[p] \in Play!Begun => l \in Play!Begun, p \in Stops => l = "over"
  PROVE  Play!TypeOK' /\ Play!Known' /\ Play!Reached' /\ Play!Unwired'
  <1>1. runs' \in [Play!Runs -> PlaygroundPlaces] /\ runs'[p] = l /\ \A q \in Play!Runs \ {p} : runs'[q] = runs[q]
    BY PlayingGotoIs
  <1>2. Play!Cleaning' = Play!Cleaning BY <1>1 DEF Play!Cleaning
  <1>3. \A i \in Inits : (runs[i] \in Play!Begun => runs'[i] \in Play!Begun) /\ (runs'[i] = "connect" => runs[i] = "connect")
    BY <1>1, SessionIs
  <1>4. Play!TypeOK' BY <1>1 DEF Play!IInv, Play!TypeOK, PlaygroundPlaces
  <1>5. Play!Known'
    <2>1. obj' \in [Play!Runs -> Inits \cup {Play!None}] BY <1>1, <1>2, <1>3 DEF Play!IInv, Play!Known
    <2>2. \A q \in Play!Cleaning' : obj'[q] # Play!None /\ runs'[obj'[q]] \in Play!Begun
      BY <1>1, <1>2, <1>3, SessionIs DEF Play!IInv, Play!Known, Play!Cleaning
    <2>3. entry' # Play!None => runs'[entry'] \in Play!Begun
      BY <1>1, <1>2, <1>3, SessionIs DEF Play!IInv, Play!Known, Play!TypeOK
    <2>4. \A q \in Stops : runs'[q] \in {"idle", "clean", "forget", "over"}
      BY <1>1, <1>2, <1>3, SessionIs DEF Play!IInv, Play!Known
    <2> QED BY <2>1, <2>2, <2>3, <2>4 DEF Play!Known
  <1>6. Play!Reached' BY <1>2, <1>3 DEF Play!IInv, Play!Reached
  <1>7. Play!Unwired'
    <2> SUFFICES ASSUME NEW q \in Play!Runs, runs'[q] = "forget",
                        obj[q] \notin early \cup crossed
        PROVE obj[q] \notin wired /\ runs'[obj[q]] # "connect" /\ (conn = obj[q] => obj[q] \in realtime)
      BY DEF Play!Unwired
    <2>1. runs[q] = "forget" BY <1>1
    <2>2. obj[q] \in Inits BY <2>1, SessionIs DEF Play!Cleaning
    <2> QED BY <2>1, <2>2, <1>3 DEF Play!IInv, Play!Unwired
  <1> QED BY <1>4, <1>5, <1>6, <1>7

\* A run takes the socket's session to clean it up.
LEMMA TakeKeeps ==
  ASSUME Play!IInv, NEW p \in Play!Runs, runs[p] \in {"idle", "find"}, entry # Play!None,
         Play!Goto(p, "clean"), obj' = [obj EXCEPT ![p] = entry],
         UNCHANGED <<entry, realtime, conn, wired, early, crossed>>
  PROVE  Play!TypeOK' /\ Play!Known' /\ Play!Reached' /\ Play!Unwired'
  <1> USE DEF Play!IInv
  <1>1. runs' \in [Play!Runs -> PlaygroundPlaces] /\ runs'[p] = "clean" /\ \A q \in Play!Runs \ {p} : runs'[q] = runs[q]
    BY PlayingGotoIs DEF PlaygroundPlaces
  <1>2. /\ obj' \in [Play!Runs -> Inits \cup {Play!None}]
        /\ obj'[p] = entry /\ \A q \in Play!Runs \ {p} : obj'[q] = obj[q]
    BY DEF Play!TypeOK, Play!Known
  <1>3. Play!Cleaning' = Play!Cleaning \cup {p} /\ p \notin Play!Cleaning BY <1>1 DEF Play!Cleaning
  <1>4. \A i \in Inits : (runs[i] \in Play!Begun => runs'[i] = runs[i]) /\ (runs'[i] = "connect" => runs[i] = "connect")
    BY <1>1, SessionIs DEF Play!Begun
  <1>5. entry \in Inits /\ runs[entry] \in Play!Begun BY DEF Play!TypeOK, Play!Known
  <1>6. Play!TypeOK' BY <1>1 DEF Play!TypeOK, PlaygroundPlaces
  <1>7. Play!Known'
    <2>1. obj' \in [Play!Runs -> Inits \cup {Play!None}] BY <1>1, <1>2, <1>3, <1>4, <1>5 DEF Play!Known
    <2>2. \A q \in Play!Cleaning' : obj'[q] # Play!None /\ runs'[obj'[q]] \in Play!Begun
      BY <1>1, <1>2, <1>3, <1>4, <1>5, SessionIs DEF Play!Known, Play!Cleaning
    <2>3. entry' # Play!None => runs'[entry'] \in Play!Begun
      BY <1>1, <1>2, <1>3, <1>4, <1>5, SessionIs DEF Play!Known, Play!TypeOK
    <2>4. \A q \in Stops : runs'[q] \in {"idle", "clean", "forget", "over"}
      BY <1>1, <1>2, <1>3, <1>4, <1>5, SessionIs DEF Play!Known
    <2> QED BY <2>1, <2>2, <2>3, <2>4 DEF Play!Known
  <1>8. Play!Reached' BY <1>2, <1>3, <1>4 DEF Play!Reached
  <1>9. Play!Unwired'
    <2> SUFFICES ASSUME NEW q \in Play!Runs, runs'[q] = "forget",
                        obj'[q] \notin early \cup crossed
        PROVE obj'[q] \notin wired /\ runs'[obj'[q]] # "connect" /\ (conn = obj'[q] => obj'[q] \in realtime)
      BY DEF Play!Unwired
    <2>1. runs[q] = "forget" /\ obj'[q] = obj[q] BY <1>1, <1>2
    <2>2. obj[q] \in Inits BY <2>1, SessionIs DEF Play!Cleaning
    <2> QED BY <2>1, <2>2, <1>4 DEF Play!Unwired
  <1> QED BY <1>6, <1>7, <1>8, <1>9

LEMMA InitBeginStep ==
  ASSUME Play!IInv, NEW i \in Inits, Play!InitBegin(i)
  PROVE  Play!IInv'
  <1>1. /\ runs[i] = "idle" /\ Play!Goto(i, IF initing THEN "over" ELSE "find")
        /\ UNCHANGED <<obj, entry, realtime, conn, wired, gone, early, crossed>>
    BY DEF Play!InitBegin
  <1>2. i \in Play!Runs /\ (IF initing THEN "over" ELSE "find") \in PlaygroundPlaces \ {"clean", "forget", "connect"}
    BY SessionIs DEF PlaygroundPlaces
  <1>3. Play!TypeOK' /\ Play!Known' /\ Play!Reached' /\ Play!Unwired'
    BY <1>1, <1>2, SessionIs, QuietKeeps DEF Play!Begun
  <1>4. runs'[i] \in {"over", "find"} /\ \A q \in Play!Runs \ {i} : runs'[q] = runs[q] BY <1>1, <1>2, PlayingGotoIs
  <1>5. Play!OneInit'
    <2>1. CASE initing
      BY <2>1, <1>1, <1>2, SessionIs, PlayingGotoIs DEF Play!IInv, Play!OneInit,
           Play!InitBegin
    <2>2. CASE ~initing BY <2>2, <1>1, <1>4, SessionIs DEF Play!IInv, Play!OneInit, Play!InitBegin
    <2> QED BY <2>1, <2>2
  <1> QED BY <1>3, <1>5 DEF Play!IInv

LEMMA PlayingFindStep ==
  ASSUME Play!IInv, NEW i \in Inits, Play!Find(i)
  PROVE  Play!IInv'
  <1>1. runs[i] = "find" /\ i \in Play!Runs /\ UNCHANGED <<entry, initing, realtime, conn, wired, early, crossed>>
    BY SessionIs DEF Play!Find
  <1>2. CASE entry = Play!None
    <2>1. Play!Goto(i, "set") /\ obj' = obj BY <1>2 DEF Play!Find
    <2>2. Play!TypeOK' /\ Play!Known' /\ Play!Reached' /\ Play!Unwired'
      BY <1>1, <2>1, SessionIs, QuietKeeps DEF Play!Begun, PlaygroundPlaces
    <2>3. Play!OneInit'
      BY <1>1, <1>2, <2>1, PlayingGotoIs, SessionIs DEF Play!IInv, Play!OneInit,
           PlaygroundPlaces
    <2> QED BY <2>2, <2>3 DEF Play!IInv
  <1>3. CASE entry # Play!None
    <2>1. Play!Goto(i, "clean") /\ obj' = [obj EXCEPT ![i] = entry] BY <1>3 DEF Play!Find
    <2>2. Play!TypeOK' /\ Play!Known' /\ Play!Reached' /\ Play!Unwired' BY <1>1, <1>3, <2>1, TakeKeeps
    <2>3. Play!OneInit'
      BY <1>1, <1>3, <2>1, PlayingGotoIs, SessionIs DEF Play!IInv, Play!OneInit,
           PlaygroundPlaces
    <2> QED BY <2>2, <2>3 DEF Play!IInv
  <1> QED BY <1>2, <1>3

\* A run of handleInit ends, and the flag with it.
LEMMA OverKeeps ==
  ASSUME Play!IInv, NEW i \in Inits, runs[i] \in {"find", "connect", "record"},
         Play!Goto(i, "over"), initing' = FALSE,
         UNCHANGED <<obj, entry, realtime, conn, wired, early, crossed>>
  PROVE  Play!IInv'
  <1>1. Play!TypeOK' /\ Play!Known' /\ Play!Reached' /\ Play!Unwired'
    BY SessionIs, QuietKeeps DEF Play!Begun, PlaygroundPlaces
  <1>2. Play!OneInit' BY PlayingGotoIs, SessionIs DEF Play!IInv, Play!OneInit, PlaygroundPlaces
  <1> QED BY <1>1, <1>2 DEF Play!IInv

LEMMA StopBeginStep ==
  ASSUME Play!IInv, NEW s \in Stops, Play!StopBegin(s)
  PROVE  Play!IInv'
  <1>1. runs[s] = "idle" /\ s \in Play!Runs /\ UNCHANGED <<entry, initing, realtime, conn, wired, early, crossed>>
    BY SessionIs DEF Play!StopBegin
  <1>2. CASE entry = Play!None
    <2>1. Play!Goto(s, "over") /\ obj' = obj BY <1>2 DEF Play!StopBegin
    <2>2. Play!TypeOK' /\ Play!Known' /\ Play!Reached' /\ Play!Unwired'
      BY <1>1, <2>1, SessionIs, QuietKeeps DEF Play!Begun, PlaygroundPlaces
    <2>3. Play!OneInit' BY <1>1, <2>1, PlayingGotoIs, SessionIs DEF Play!IInv, Play!OneInit, PlaygroundPlaces
    <2> QED BY <2>2, <2>3 DEF Play!IInv
  <1>3. CASE entry # Play!None
    <2>1. Play!Goto(s, "clean") /\ obj' = [obj EXCEPT ![s] = entry] BY <1>3 DEF Play!StopBegin
    <2>2. Play!TypeOK' /\ Play!Known' /\ Play!Reached' /\ Play!Unwired' BY <1>1, <1>3, <2>1, TakeKeeps
    <2>3. Play!OneInit' BY <1>1, <2>1, PlayingGotoIs, SessionIs DEF Play!IInv, Play!OneInit, PlaygroundPlaces
    <2> QED BY <2>2, <2>3 DEF Play!IInv
  <1> QED BY <1>2, <1>3

LEMMA SetStep ==
  ASSUME Play!IInv, NEW i \in Inits, NEW rt \in BOOLEAN, Play!Set(i, rt)
  PROVE  Play!IInv'
  <1> USE DEF Play!IInv
  <1>1. /\ runs[i] = "set" /\ i \in Play!Runs /\ entry' = i /\ obj' = [obj EXCEPT ![i] = i] /\ entry = Play!None
        /\ UNCHANGED <<initing, early>>
        /\ crossed \subseteq crossed' /\ realtime \subseteq realtime'
    BY SessionIs DEF Play!Set, Play!OneInit
  <1>2. /\ Play!Goto(i, IF rt THEN "connect" ELSE "record")
        /\ conn' \in {conn, i} /\ wired \subseteq wired' /\ wired' \subseteq wired \cup {i}
    BY DEF Play!Set
  <1>3. runs' \in [Play!Runs -> PlaygroundPlaces] /\ runs'[i] \in {"connect", "record"} /\ \A q \in Play!Runs \ {i} : runs'[q] = runs[q]
    BY <1>1, <1>2, PlayingGotoIs DEF PlaygroundPlaces
  <1>4. /\ obj' \in [Play!Runs -> Inits \cup {Play!None}]
        /\ obj'[i] = i /\ \A q \in Play!Runs \ {i} : obj'[q] = obj[q]
    BY <1>1 DEF Play!Known
  <1>5. Play!Cleaning' = Play!Cleaning /\ i \notin Play!Cleaning BY <1>1, <1>3 DEF Play!Cleaning
  <1>6. \A q \in Play!Cleaning : obj'[q] = obj[q] /\ obj[q] \in Inits \ {i} /\ q \in Play!Runs
    BY <1>1, <1>4, <1>5, SessionIs DEF Play!Cleaning, Play!Known, Play!Begun
  <1>7. Play!TypeOK' BY <1>1, <1>2, <1>3 DEF Play!TypeOK, PlaygroundPlaces
  <1>8. Play!OneInit' BY <1>1, <1>3, SessionIs DEF Play!OneInit
  <1>9. Play!Known'
    <2>1. obj' \in [Play!Runs -> Inits \cup {Play!None}] BY <1>1, <1>3, <1>4, <1>5, <1>6 DEF Play!Known
    <2>2. \A q \in Play!Cleaning' : obj'[q] # Play!None /\ runs'[obj'[q]] \in Play!Begun
      BY <1>1, <1>3, <1>4, <1>5, <1>6, SessionIs DEF Play!Known, Play!Cleaning
    <2>3. entry' # Play!None => runs'[entry'] \in Play!Begun
      BY <1>1, <1>3, <1>4, <1>5, <1>6, SessionIs DEF Play!Begun
    <2>4. \A q \in Stops : runs'[q] \in {"idle", "clean", "forget", "over"}
      BY <1>1, <1>3, <1>4, <1>5, <1>6, SessionIs DEF Play!Known
    <2> QED BY <2>1, <2>2, <2>3, <2>4 DEF Play!Known
  <1>10. Play!Reached'
    <2> SUFFICES ASSUME NEW j \in Inits, j \notin early \cup crossed', j # i,
                        j \in wired' \/ conn' = j \/ runs'[j] = "connect"
        PROVE \E p \in Play!Cleaning : obj[p] = j
      BY <1>1, <1>5, <1>6 DEF Play!Reached
    <2> QED BY <1>1, <1>2, <1>3, SessionIs DEF Play!Reached
  <1>11. Play!Unwired'
    <2> SUFFICES ASSUME NEW q \in Play!Runs, runs'[q] = "forget",
                        obj'[q] \notin early \cup crossed'
        PROVE obj'[q] \notin wired' /\ runs'[obj'[q]] # "connect" /\ (conn' = obj'[q] => obj'[q] \in realtime')
      BY <1>1 DEF Play!Unwired
    <2>1. runs[q] = "forget" /\ q \in Play!Cleaning BY <1>3 DEF Play!Cleaning
    <2>2. obj'[q] = obj[q] /\ obj[q] \in Inits \ {i} BY <2>1, <1>6
    <2> QED BY <2>1, <2>2, <1>1, <1>2, <1>3, SessionIs DEF Play!Unwired
  <1> QED BY <1>7, <1>8, <1>9, <1>10, <1>11

LEMMA PlayingConnectStep ==
  ASSUME Play!IInv, NEW i \in Inits, Play!Connect(i)
  PROVE  Play!IInv'
  <1> USE DEF Play!IInv
  <1>1. /\ runs[i] = "connect" /\ i \in Play!Runs /\ Play!Goto(i, "record") /\ conn' \in {conn, i} /\ wired' = wired \cup {i}
        /\ UNCHANGED <<obj, entry, initing, realtime, early, crossed>>
    BY SessionIs DEF Play!Connect
  <1>2. runs' \in [Play!Runs -> PlaygroundPlaces] /\ runs'[i] = "record" /\ \A q \in Play!Runs \ {i} : runs'[q] = runs[q]
    BY <1>1, PlayingGotoIs DEF PlaygroundPlaces
  <1>3. Play!Cleaning' = Play!Cleaning BY <1>1, <1>2 DEF Play!Cleaning
  <1>4. \A j \in Inits : runs[j] \in Play!Begun => runs'[j] \in Play!Begun BY <1>1, <1>2, SessionIs DEF Play!Begun
  <1>5. Play!TypeOK' BY <1>1, <1>2 DEF Play!TypeOK, PlaygroundPlaces
  <1>6. Play!OneInit' BY <1>1, <1>2, SessionIs DEF Play!OneInit
  <1>7. Play!Known'
    <2>1. obj' \in [Play!Runs -> Inits \cup {Play!None}] BY <1>1, <1>2, <1>3, <1>4 DEF Play!Known
    <2>2. \A q \in Play!Cleaning' : obj'[q] # Play!None /\ runs'[obj'[q]] \in Play!Begun
      BY <1>1, <1>2, <1>3, <1>4, SessionIs DEF Play!Known, Play!Cleaning
    <2>3. entry' # Play!None => runs'[entry'] \in Play!Begun
      BY <1>1, <1>2, <1>3, <1>4, SessionIs DEF Play!Known, Play!TypeOK
    <2>4. \A q \in Stops : runs'[q] \in {"idle", "clean", "forget", "over"}
      BY <1>1, <1>2, <1>3, <1>4, SessionIs DEF Play!Known
    <2> QED BY <2>1, <2>2, <2>3, <2>4 DEF Play!Known
  <1>8. Play!Reached' BY <1>1, <1>2, <1>3, SessionIs DEF Play!Reached
  <1>9. Play!Unwired'
    <2> SUFFICES ASSUME NEW q \in Play!Runs, runs'[q] = "forget",
                        obj[q] \notin early \cup crossed
        PROVE obj[q] \notin wired' /\ runs'[obj[q]] # "connect" /\ (conn' = obj[q] => obj[q] \in realtime)
      BY <1>1 DEF Play!Unwired
    <2>1. runs[q] = "forget" /\ q \in Play!Cleaning BY <1>2 DEF Play!Cleaning
    <2>2. obj[q] \in Inits BY <2>1, SessionIs
    <2>3. runs[obj[q]] # "connect" BY <2>1 DEF Play!Unwired
    <2> QED BY <2>1, <2>2, <2>3, <1>1, <1>2, SessionIs DEF Play!Unwired
  <1> QED BY <1>5, <1>6, <1>7, <1>8, <1>9

LEMMA CleanStep ==
  ASSUME Play!IInv, NEW p \in Play!Runs, Play!Clean(p)
  PROVE  Play!IInv'
  <1> USE DEF Play!IInv
  <1> DEFINE o == obj[p]
  <1>1. /\ runs[p] = "clean" /\ Play!Goto(p, "forget") /\ wired' = wired \ {o}
        /\ conn' = (IF o \in realtime THEN conn ELSE Play!None)
        /\ UNCHANGED <<obj, entry, initing, realtime>>
        /\ early \subseteq early' /\ (runs[o] = "connect" => o \in early')
        /\ crossed \subseteq crossed'
    BY DEF Play!Clean, Play!Uncross
  <1>2. runs' \in [Play!Runs -> PlaygroundPlaces] /\ runs'[p] = "forget" /\ \A q \in Play!Runs \ {p} : runs'[q] = runs[q]
    BY <1>1, PlayingGotoIs DEF PlaygroundPlaces
  <1>3. Play!Cleaning' = Play!Cleaning /\ p \in Play!Cleaning /\ o \in Inits
    BY <1>1, <1>2, SessionIs DEF Play!Cleaning
  <1>4. \A j \in Inits : (runs[j] \in Play!Begun => runs'[j] \in Play!Begun) /\ (runs'[j] = "connect" => runs[j] = "connect")
    BY <1>1, <1>2, SessionIs DEF Play!Begun
  <1>5. Play!TypeOK' BY <1>1, <1>2 DEF Play!TypeOK, PlaygroundPlaces
  <1>6. Play!OneInit' BY <1>1, <1>2, SessionIs DEF Play!OneInit
  <1>7. Play!Known'
    <2>1. obj' \in [Play!Runs -> Inits \cup {Play!None}] BY <1>1, <1>2, <1>3, <1>4 DEF Play!Known
    <2>2. \A q \in Play!Cleaning' : obj'[q] # Play!None /\ runs'[obj'[q]] \in Play!Begun
      BY <1>1, <1>2, <1>3, <1>4, SessionIs DEF Play!Known, Play!Cleaning
    <2>3. entry' # Play!None => runs'[entry'] \in Play!Begun
      BY <1>1, <1>2, <1>3, <1>4, SessionIs DEF Play!Known, Play!TypeOK
    <2>4. \A q \in Stops : runs'[q] \in {"idle", "clean", "forget", "over"}
      BY <1>1, <1>2, <1>3, <1>4, SessionIs DEF Play!Known
    <2> QED BY <2>1, <2>2, <2>3, <2>4 DEF Play!Known
  <1>8. Play!Reached' BY <1>1, <1>3, <1>4, SessionIs DEF Play!Reached
  <1>9. Play!Unwired'
    <2> SUFFICES ASSUME NEW q \in Play!Runs, runs'[q] = "forget",
                        obj[q] \notin early' \cup crossed'
        PROVE obj[q] \notin wired' /\ runs'[obj[q]] # "connect" /\ (conn' = obj[q] => obj[q] \in realtime)
      BY <1>1 DEF Play!Unwired
    <2>1. CASE q = p BY <2>1, <1>1, <1>3, <1>4, SessionIs
    <2>2. CASE q # p
      <3>1. runs[q] = "forget" /\ obj[q] \in Inits BY <2>2, <1>2, SessionIs DEF Play!Cleaning
      <3> QED BY <3>1, <1>1, <1>4, SessionIs DEF Play!Unwired
    <2> QED BY <2>1, <2>2
  <1> QED BY <1>5, <1>6, <1>7, <1>8, <1>9

LEMMA PlayingForgetStep ==
  ASSUME Play!IInv, NEW p \in Play!Runs, Play!Forget(p)
  PROVE  Play!IInv'
  <1> DEFINE o == obj[p]   l == IF p \in Inits THEN "set" ELSE "over"
  <1>1. /\ runs[p] = "forget" /\ Play!Goto(p, l) /\ conn' = (IF o \in realtime THEN Play!None ELSE conn) /\ entry' = Play!None
        /\ crossed' = crossed \cup {i \in Inits : i # o /\ (entry = i \/ conn = i)}
        /\ UNCHANGED <<obj, initing, realtime, wired, early>>
    BY DEF Play!Forget, Play!Uncross
  <1>2. runs' \in [Play!Runs -> PlaygroundPlaces] /\ runs'[p] \in {"set", "over"} /\ (p \in Stops => runs'[p] = "over")
        /\ \A q \in Play!Runs \ {p} : runs'[q] = runs[q]
    BY <1>1, PlayingGotoIs, SessionIs DEF PlaygroundPlaces
  <1>3. Play!Cleaning' = Play!Cleaning \ {p} /\ p \in Play!Cleaning /\ o \in Inits
    BY <1>1, <1>2, SessionIs DEF Play!Cleaning
  <1>4. \A j \in Inits : (runs[j] \in Play!Begun => runs'[j] = runs[j]) /\ (runs'[j] = "connect" => runs[j] = "connect")
    BY <1>1, <1>2, SessionIs DEF Play!Begun
  <1>5. Play!TypeOK' BY <1>1, <1>2 DEF Play!IInv, Play!TypeOK, PlaygroundPlaces
  <1>6. Play!OneInit' BY <1>1, <1>2, SessionIs DEF Play!IInv, Play!OneInit
  <1>7. Play!Known'
    <2>1. obj' \in [Play!Runs -> Inits \cup {Play!None}] BY <1>1, <1>2, <1>3, <1>4 DEF Play!IInv, Play!Known
    <2>2. \A q \in Play!Cleaning' : obj'[q] # Play!None /\ runs'[obj'[q]] \in Play!Begun
      BY <1>1, <1>2, <1>3, <1>4, SessionIs DEF Play!IInv, Play!Known, Play!Cleaning
    <2>3. entry' # Play!None => runs'[entry'] \in Play!Begun
      BY <1>1, <1>2, <1>3, <1>4, SessionIs DEF Play!IInv, Play!Known, Play!TypeOK
    <2>4. \A q \in Stops : runs'[q] \in {"idle", "clean", "forget", "over"}
      BY <1>1, <1>2, <1>3, <1>4, SessionIs DEF Play!IInv, Play!Known
    <2> QED BY <2>1, <2>2, <2>3, <2>4 DEF Play!Known
  <1>8. Play!Reached'
    <2> SUFFICES ASSUME NEW j \in Inits, j \notin early \cup crossed',
                        j \in wired \/ conn' = j \/ runs'[j] = "connect"
        PROVE \E q \in Play!Cleaning \ {p} : obj[q] = j
      BY <1>1, <1>3 DEF Play!Reached
    <2>1. j \notin crossed /\ (j \in wired \/ conn = j \/ runs[j] = "connect") BY <1>1, <1>4, SessionIs
    <2>2. j # o
      <3> SUFFICES ASSUME j = o PROVE FALSE OBVIOUS
      <3>1. o \notin wired /\ runs[o] # "connect" /\ (conn = o => o \in realtime)
        BY <1>1, <2>1 DEF Play!IInv, Play!Unwired
      <3> QED BY <3>1, <1>1, <1>4, SessionIs
    <2>3. entry # j BY <1>1, <2>2
    <2> QED BY <2>1, <2>2, <2>3 DEF Play!IInv, Play!Reached
  <1>9. Play!Unwired'
    <2> SUFFICES ASSUME NEW q \in Play!Runs, runs'[q] = "forget",
                        obj[q] \notin early \cup crossed'
        PROVE obj[q] \notin wired /\ runs'[obj[q]] # "connect" /\ (conn' = obj[q] => obj[q] \in realtime)
      BY <1>1 DEF Play!Unwired
    <2>1. runs[q] = "forget" /\ obj[q] \in Inits /\ obj[q] \notin crossed BY <1>1, <1>2, SessionIs DEF Play!Cleaning
    <2> QED BY <2>1, <1>1, <1>4, SessionIs DEF Play!IInv, Play!Unwired
  <1> QED BY <1>5, <1>6, <1>7, <1>8, <1>9 DEF Play!IInv

LEMMA PlayingInit ==
  Play!Init => Play!IInv
  <1> SUFFICES ASSUME Play!Init PROVE Play!IInv OBVIOUS
  <1>1. Play!TypeOK /\ Play!OneInit BY DEF Play!Init, Play!TypeOK, Play!OneInit, Play!Runs
  <1>2. Play!Known /\ Play!Reached /\ Play!Unwired
    BY ComponentConstants DEF Play!PlaygroundConstants, Play!Init, Play!Known,
         Play!Reached, Play!Unwired, Play!Cleaning, Play!Runs
  <1> QED BY <1>1, <1>2 DEF Play!IInv

LEMMA PlayingStep ==
  ASSUME Play!IInv, Play!Next
  PROVE  Play!IInv'
  <1>1. ASSUME NEW i \in Inits, Play!Missing(i) \/ Play!Refuse(i) \/ Play!Record(i)
        PROVE  Play!IInv'
    BY <1>1, OverKeeps DEF Play!Missing, Play!Refuse, Play!Record
  <1> QED
    BY <1>1, InitBeginStep, PlayingFindStep, SetStep, PlayingConnectStep, StopBeginStep,
         CleanStep, PlayingForgetStep DEF Play!Next

LEMMA PlayingStay ==
  ASSUME Play!IInv, UNCHANGED Play!vars
  PROVE  Play!IInv'
  BY DEF Play!vars, Play!IInv, Play!TypeOK, Play!OneInit, Play!Known,
       Play!Reached, Play!Unwired, Play!Cleaning

LEMMA PlayingIs ==
  ASSUME Play!IInv
  PROVE  Play!TypeOK /\ Play!NothingLeft
  <1>1. Play!NothingLeft BY DEF Play!IInv, Play!Reached, Play!NothingLeft, Play!Cleaning
  <1> QED BY <1>1 DEF Play!IInv

LEMMA PlayingAlways == Spec => [](which = "Play" => Play!IInv)
  <1> DEFINE I == which = "Play" => Play!IInv
  <1>1. Init => I BY PlayingInit, ComponentConstants DEF Init
  <1>2. I /\ [Next]_vars => I'
    <2>1. ASSUME Play!IInv, [Play!Next]_Play!vars PROVE Play!IInv'
      BY <2>1, PlayingStep, PlayingStay, ComponentConstants
    <2>2. ASSUME [Next]_vars, which' = "Play"
          PROVE  which = "Play" /\ [Play!Next]_Play!vars
      BY <2>2 DEF Next, vars, Play!vars
    <2> QED BY <2>1, <2>2
  <1> QED BY <1>1, <1>2, PTL DEF Spec

\* WidgetService, PlaygroundService, the widget's session manager: for any number of visitors,
\* hangups, restarts and limits, a key has no more sessions than it allows when offers come in
\* turn, and what a session took is given back, but for what the histories name.
THEOREM SessionsAreReleased == Spec => []SessionsReleased
  <1>1. /\ which = "Web" => Web!IInv
        /\ which = "Page" => Page!IInv
        /\ which = "Play" => Play!IInv
        => SessionsReleased
    BY WidgetIs, PageIs, PlayingIs, ComponentConstants DEF SessionsReleased
  <1> QED BY <1>1, WidgetAlways, PageAlways, PlayingAlways, PTL

\* Every component keeps its variables in their ranges, for any constants.
THEOREM ClientTypesCorrect == Spec => []TypeOK
  <1>1. /\ which = "Cash" => Cash!IInv
        /\ which = "Mcp" => Mcp!IInv
        /\ which = "Tool" => Tool!IInv
        /\ which = "App" => App!IInv
        /\ which = "Web" => Web!IInv
        /\ which = "Page" => Page!IInv
        /\ which = "Play" => Play!IInv
        => TypeOK
    BY PayingIs, SocketsAre, ToolsIs, AppsIs, WidgetIs, PageIs,
       PlayingIs, ComponentConstants DEF TypeOK, Cash!PaymentsSound
  <1> QED
    BY <1>1, PayingAlways, SocketsAlways, ToolsAlways, AppsAlways, WidgetAlways,
       PageAlways, PlayingAlways, PTL
=============================================================================
