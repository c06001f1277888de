# Verification of the aiPBX backend

TLA+ models of the backend in `src/` (NestJS, TypeScript) with the page and the
PBX scripts that belong to it. TLC checks them on small instances; TLAPS proves, for any
constants, the safety properties of the ledger, the billing of calls, payments, closings,
invoices and documents, users and their codes, SIP, the analysis jobs, the PBX connections,
tools, browser sessions and everything a call consists of. Every definition is translated from the source: the `map` of `PROJECT.json` names the lines each one
stands for, and `hazards` lists what is hard to test in this code, with the
property that covers it.

## The system

The backend runs voice assistants. Asterisk hands it telephone calls over ARI;
it connects their audio to a realtime language model or to its own pipeline of
recognition, model and speech. It charges the tenant for the tokens, analyses
calls and uploaded recordings, takes payments, issues the accounting documents of
Russian tenants, and offers chats, knowledge bases, a help desk, a browser widget
and connections to tools. One Node.js process serves everything: code between two
`await`s is atomic, everything else interleaves, and requests, webhooks, cron jobs
and event handlers are always under way together. The database (MySQL or Postgres,
through Sequelize) is what survives a restart; most operations are several
statements without a transaction.

| Component | State | Operations | What is hard | What makes it correct |
|---|---|---|---|---|
| Balance ledger (`users/users.service.ts`) | `users.balance`, `balance_ledger` | credit, debit, delete owner | concurrent charges, retries, aborts, deletion, rounding | a chain of rows, each key once, truthful answers |
| Call billing (`billing`, `ai-cdr`, `ai-analytics`) | CDR, billing records | usage reports, finalization, analysis, refund | late reports, two hangups, stale rows | what is charged is what was used; what is refunded is what was charged |
| Payments (`payments`) | payments | notifications of three gateways | duplicates, reordering, a crash between status and credit | one credit per paid payment, none lost |
| Invoice numbers, closing (`accounting`) | counters, documents | numbers, monthly closing | two closings, missing rates, background drafts | gapless numbers, one UPD per period, roubles |
| Document exchange, EDO, parties, issuers (`accounting`) | documents, routes, cache | draft, prepare, send, retry, mark paid; invite; look up | lost answers, retry against resend, a shared SBIS session | a status says what SBIS has; a route belongs to its party |
| Model connection (`open-ai.connection.ts`) | WebSocket, queue, timer | send, reconnect, give up, close | timers against close | order kept, no reconnect storm |
| Model events (`open-ai.service.ts`) | session objects, buffers | events of a response, tool calls | handlers overtake one another | a tool call runs once and is answered |
| Calls (`ari`, `rtp-udp-server`, `audio`) | sessions, RTP map, streams | StasisStart/End, packets, interruption, watchdog | setup against hangup, address translation | nothing left behind, each voice to its own call |
| Non-realtime pipeline (`non-realtime`) | turns, signal, history | VAD, turn, tools, speech, close | a turn cut off by the next one | nothing of a cut turn is spoken, the dialogue stays acceptable |
| Browser sessions (`widget`, `playground`, `public/widget`) | rows, peers, window | offer, hang up, start, stop | restarts, two starts, close while connecting | slots and microphone come back |
| Tools (`mcp-client`) | sockets, registry, accounts | connect, sync, policies, OAuth, call | redial against delete, tools found by toolkit | one socket, one row per tool, no hidden account |
| Operator analytics (`operator-analytics`) | records, CDR, values, projects | upload, transcribe, analyse, charge, regenerate, reap, score, digest, alert | jobs against reaper and edits, broken model output | books agree, every item counted, scores agree |
| Alerts (`balance-alerts`) | limits, notices | crossing, runway notice, invoice | overlapping debits and runs, missing rates | who is to be told is told once |
| Users, accounts (`users`, `auth`) | tree of tenants, codes | create, move, delete; sign up, activate | two requests cross | the tree is flat, a code admits once |
| SIP (`sip-trunks`, `pbx-servers`, `scripts`) | rows, PBX files | create, update, remove | failures between row, file and reload | files and loaded configuration follow the rows |
| Chat, assistants, knowledge, help desk | rows, links, chunks, tickets | converse, edit, take in, answer | edits during a conversation, background work | the links and answers are those asked for |

The components that keep no state of their own (routes and guards, catalogues,
WebSocket broadcasts, mail and Telegram output, codecs, schema and deployment) are
listed in `PROJECT.json` as not modelled.

They meet as follows. The model connection's events reach
`OpenAiService.dataDecode`, which reports tokens to billing, audio to the stream
service and hangups to the call session. Tool calls go through the tool gateway. The
call session's cleanup hangs up the CDR, which finalizes the billing, which debits
the ledger, and then starts the analysis. Payments credit the ledger; a debit
reports crossings to the alerts, which may issue an invoice, which takes a number
and drafts itself in SBIS. The closing sums the billing records of a month. Where one
module needs another component, it uses what that component promises: a charge or a
credit is one step and a key applies once, as `AtomicLedger` has it and as
`BalanceLedger` is shown to do.

## Modules

A module has the state of its component as variables, one action for what the code
does between two awaits, and Casts or sets of processes for who takes part. A
process keeps its place in `pc` (or `op`) and its locals in `held`, so that what
was read before an await is used after it, stale or not. Variables marked as
history record what no row keeps (that a step of somebody crossed a process, that a
fault hit it) for the properties to refer to. Definitions marked `Mutant` are
plausible mistakes of the code; nothing uses them, and each stands before the definition
it would replace.

| Module | Models |
|---|---|
| `AtomicLedger` | what the balance service promises: each request settled in one step |
| `BalanceLedger` | `updateUserBalance`, `decrementUserBalance`: owner, row lock, key lookup, balance and row, mails, commit; deletion of the owner |
| `CallBilling` | CDR, billing records by type and ledger rows of one call, under usage reports, hangups, analyses and deletions of the report |
| `Payments` | the handlers of Stripe, Robokassa and Alfa notifications, and gateways that repeat any of them until answered |
| `InvoiceNumbers` | the counters, `issueInvoice` and the draft behind it |
| `Closing` | runs of `closeForOrganization` for one organization and period, statement by statement |
| `DocumentExchange` | the life of invoices in SBIS: draft, the dialogue that sends one or leaves it to its owner to sign, retries, resending by hand, payment, edits |
| `EdoInvitations`, `CounterpartyLookup`, `Issuers` | an organization and its EDO route; the lookup of a legal entity through the cache and the session that lookups share, log in to and lose; our own organizations, whose statements fail one by one |
| `RealtimeConnection` | one `OpenAiConnection`: socket, queue, timer, attempts, and the handler that waits for it to open |
| `ModelEvents` | `dataDecode`: the handlers of one conversation's events, tool calls of OpenAI and Yandex |
| `CallSession` | StasisStart, the two cleanups, the model's events and the addresses of the voice over the resources a call holds |
| `RtpSessions` | the ordered map of the RTP server and its NAT remap |
| `StreamAudio` | buffers of a stream and the loops of `processQueue`, each pacing itself |
| `NonRealtimePipeline` | VAD, turns, tool rounds, sentences spoken, greeting, history, close |
| `AriConnections` | the array of PBX connections, watchdog, administrators, WebSockets that redial |
| `WidgetSessions`, `WidgetClient`, `PlaygroundSessions` | server and browser side of the widget; runs of the playground |
| `McpConnections`, `McpTools`, `Integrations` | WebSocket of an MCP server; registry, policies and limits; Composio, Telegram and Bitrix24 |
| `OperatorJobs` | upload, batch, transcription, analysis, charge, regeneration, reaper, retention |
| `Dialogs`, `Answers`, `CallScores` | who speaks in a recording; what is stored of a model's answer; tags, values, corrections and the two ways they are counted |
| `ProjectReports`, `AnomalyAlerts`, `BalanceAlerts` | budgets, digests and insights; anomaly notices; limits and runway notices |
| `Tenants`, `Accounts` | the tree of users; codes and logins of one address |
| `SipTrunks`, `SipUris` | rows and PBX files of trunks and of an assistant's SIP URI |
| `ChatLoop`, `Assistants`, `KnowledgeBase`, `HelpDesk` | a conversation with tools; assistants with voices and widget keys; documents taken in; tickets |
| `BalanceLedgerProofs`, `ClosingProofs` | the theorems of those two |

`MCBalanceLedger` gives `BalanceLedger` its constants; `Closing`,
`AriConnections`, `OperatorJobs` and `WidgetSessions` get theirs from the `.cfg`.
`MCCallBilling` checks three calls of different casts in one run: `call` is chosen by `Init`.
`MCCalls`, `MCOffice`, `MCClients` and `MCServices` each check several components in one run:
`which` is chosen by `Init` and says which component's `Init` and `Next` are at work. The
first three, which are proved about, have the variables and constants of their components
by name; in `MCServices` the variables `v1`, `v2`, ... are a pool that each instance maps its
own variables to. The instances have short names (`Talk` for `ModelEvents`, `Turn` for
`NonRealtimePipeline`, `Party` for `CounterpartyLookup`, ...), which are the values of `which`. Variables a component does not need stay 0. The components
do not interact in such a run; it is the union of their state spaces, each with its own
bounds, and a property is a conjunction of implications from `which`. The reachable
states of a component are exactly those it has alone.

## Runs

| Run | What it shows | Bounds, and why they are enough | States |
|---|---|---|---|
| MCBalanceLedger | concurrent credits and debits leave an unbroken ledger, apply a key once, answer truthfully, warn at every depletion, refine `AtomicLedger`, and finish | three requests: two that race and one that went before or retries; two tenants that share a key; amounts that meet the rounding, zero and the critical level | 203 k |
| MCCallBilling | a call hung up twice is charged in full and never too much; records, CDR and ledger agree; the refund gives back the charges | three casts: two hangups with a usage report, an analysis and one fault; two reports with a hangup and its analysis; two deletions. Prices: none, zero, two | 1.24 M |
| MCClosing | what a closing bills, what duplicates need, what becomes of the draft | two closings and a preview, one restart, one failure; one unit of usage, since sums are compared and not their size | 366 k |
| MCAriConnections | connections are those of the table while operations do not overlap; servers come online in the end | two servers, a change, two faults; six connection objects, which do not run out | 306 k |
| MCOperator | charge, books and status agree; a batch counts every item; nothing stays in processing | two recordings of one sound, one regenerated, a balance for two analyses, one fault, one tick of the reaper | 211 k |
| MCCalls | the components of a call: audio, model connection and its events, session, RTP map, pipeline | per component, in the `.cfg`: four buffers and two interruptions; the code's five attempts and fourteen messages, enough to use the attempts up after a connection; one call with two faults and two addresses of its voice (`MaxAddresses`: the second is the one that is left); two calls; two responses; two turns | 2.35 M |
| MCOffice | invoices, documents, parties and issuers, users and codes, trunks and SIP URIs | two or three overlapping requests on one row, one fault; a day with nine invoices, so that the sequence grows a digit, and a second year; two lookups that share a session SBIS may end | 1.84 M |
| MCClients | payments notified twice, late and out of order, and credited in the end; tools; browser sessions | a payment of each gateway, one of them with failures; two of everything that races: handlers (two copies of one notification, or two payments), connections, synchronisations, consents, removals, offers, visits, stops; a limit of one call; a slot; one restart | 847 k |
| MCServices | chats, assistants, knowledge, help desk; what is stored of an analysis; reports and alerts | two or three overlapping requests on one row, one fault; sounds of up to three utterances; answers broken off at every token; tools of two servers, one of which resembles the owner's; insights of one call and of fewer than they are made for (`MinCalls`) | 798 k |
| MCClosingTwice | one UPD for each period: **violated** | two closings at the same time | |
| MCAnomalyQuiet | no notice while `OPERATOR_ANOMALY_ENABLED` is off: **violated** | as MCServices | |
| MCWidgetSlots | a session's slot comes back: **violated** (with fairness) | two offers, one slot, one restart | |

Two processes on one row are the least that can race; a third is there where a race
needs a bystander (a cleaner, an earlier retry, a process that crosses both). One fault
can fall at any step of any process. Counters in guards (`MaxFaults`, `MaxEdits`,
`MaxRows`, ...) only end a behaviour. Deadlock is not checked: in every run the
processes come to an end, which the liveness properties are about where there are some.
No run uses symmetry.

### What the properties say

The comment above each property says it in a sentence. The deeper ones:

* `RefinesAtomicLedger`: the transactions with locks, lookups and rollbacks implement
  requests settled one at a time.
* `BilledInFull`, `NeverOvercharged`, `RefundMatchesCharges`: whatever two hangups,
  late reports, an analysis and two deletions make of one another.
* `PaymentsRight`, `PaidIsCredited`: a gateway is told to stop only when the
  credit is there or will be, and what was paid is credited in the end.
* `InTurn`, `ServersComeOnline`: whatever overlapped before, the watchdog puts the
  connections right.
* `BooksSound`, `BatchTallies`, `NoneStuck`: jobs, reaper and retention.
* `DocumentsTrue`: an invoice marked as sent has been sent or waits at SBIS for its owner's
  signature, which are one to the code; answers that were lost and payments in between included.
* `RoutesTrue`: lookups share a session that SBIS may end at any time and that two of them
  renew at once; a call is refused only after two ended. One issuer is primary.
* `OwnersSound`: the tree of users has two levels and a code lets in once, unless a request
  wrote on what another had overwritten.
* `SipInStep`: after any requests that did not meet or fail, a PBX has the files of the
  rows and has loaded them.
* `ConnectionSound`: what the model is sent is what was accepted, in that order through every
  reconnect; only the configuration that waited for the first connection goes first.
* `SessionEnds`: a call that ended in order leaves nothing, whatever fell together, except
  entries of further addresses of its voice in the RTP server.
* `TurnsSettled`: nothing of a turn that was cut off is heard, a tool that returned something
  is answered, and the history sent to the model is one it accepts.
* `AnalysisKept`: what is stored is what the model wrote, broken anywhere; tags, values
  and lists agree after analyses, regenerations, edits, moves and reviews.
* `SessionsReleased`: what a session took, on the server and in the page, it gives back; the
  handler of a connection closed before it opened stays, and is never called.
* `McpSound`: a dead socket's entry heals, no call is forgotten, tools keep one row, their
  switch and their limit, also after a synchronisation that failed midway once a whole one
  went through, and act on accounts their tenant can see.
* `NoticesRight`: digests, budgets, runway and anomalies are told once, and an insight is paid
  by the one who asked, if the tenant has a price for it and the answer took tokens.

Some properties carry a condition that comes from the code: calls whose setup was over
(`SessionEnds`), operations that do not overlap (`InTurn`, `OneSocketInTurn`,
`SipInStep`, `OnePrimary`), payments no handler of which was cut off, a run during which
no record changed (`BilledInRoubles`). Others name the failure they leave out, and when it is
mended: a change of issuers that stops between two statements (`doubtful`, until one is made
primary), a synchronisation that ends midway (`halved`, until the next whole one; `torn`, when
one of two rows was switched meanwhile), a tool that returned nothing (`mute`), a file a
request's body let go of (`loose`), a call completed from a duplicate (`copied`, until it is
analysed again or tagged), a digest the project does not remember (`forgotten`). The history variables in the conditions record
that the exceptional thing has happened; the runs reach both sides of each. What happens
on the other side is listed next.

### Where the code does not keep what it says

Three disagreements between code and text are runs of their own:

* `docs/BILLING_LEGAL_ENTITIES.md:21` has one UPD per organization and period; two
  closings that overlap each issue one (`MCClosingTwice`).
* `operator-anomaly.task.ts:7` makes the checks a no-op unless
  `OPERATOR_ANOMALY_ENABLED=true`; nothing reads the variable (`MCAnomalyQuiet`).
* `widget-webrtc.service.ts:397` has `cleanup()` called periodically; nothing calls it,
  and a session a restart left active keeps its slot (`MCWidgetSlots`).

The models keep these behaviours too, and their properties make room for them:

* Calls. Nobody hears that a connection was given up, so the call is not ended. A caller who
  leaves during setup may leave resources behind. After an interruption two loops
  may send one queue. The NAT remap may take another call's first packet; a call that was
  remapped, or reported a second address, has two entries in the RTP server, and its end
  deletes the first (`rtp-udp-server.service.ts:182`).
  Overlapping operations may connect a PBX twice.
* Model. Handlers that overtake one another share a buffer; a response that is both
  completed and cancelled runs its tool twice (`open-ai.service.ts:437`). A tool that returns
  nothing, as a webhook with an empty body does, is not answered (`open-ai.service.ts:469`),
  and in the pipeline its call stays without a result (`non-realtime.service.ts:423`), so that
  the next request is refused. The configuration
  that waits for `openai.connected` overtakes what was queued (`open-ai.connection.ts:175`).
  The pipeline does not look
  at the signal after the last sentence, and the greeting has none; `trimHistory` may part
  a tool's result from its call.
* Money. Two first usage reports make two records (`billing.service.ts:175`); a repeated
  analysis is counted again and charged once; on Postgres a swallowed error rolls the Alfa credit back
  that is confirmed (`AbortsOnError`); the eleventh invoice of January 1 and the first
  of January 11 share a number.
* Documents. With `AutoSend` off a retry marks as sent what was not; resending
  overwrites `paid`; a failed draft is never retried. Edited requisites keep `edoReady`.
  Demoting the primary issuer leaves none, and so does a create or update that fails after it
  has cleared the others (`our-organizations.service.ts:115`). A document queued for its owner's
  signature is shown as sent. A failed lookup goes on to the next source. The cache keeps one row for all
  branches of an INN.
* Analysis. An edit that overlaps a regeneration loses the manual snapshot; a regeneration that
  fails after the tags were deleted leaves none; list and donut count differently
  (`dashboard-aggregation.ts:360`). A call completed from a duplicate shows the other's tags and
  has no rows of them (`operator-analytics.service.ts:3438`). An answer cut inside its last field is mended and stored
  (`llm-json.ts:160`).
* Reports. An edit of a project that overlaps a digest clears its timestamps, and the digest's
  save undoes edits; removing the settings, or a save that fails, lets it be sent again that
  day. Without a price an insight is free (`operator-analytics.service.ts:3057`). The anomaly's stamp is set before delivery. Overlapping runway runs
  tell an owner twice; missing rates make dollars into roubles
  (`currency.service.ts:103`).
* Users. A create that crosses a move or a deletion leaves a sub-user without an owner or
  on a third level. Overlapping activations use a code twice; a mail that was lost
  makes the older code invalid.
* SIP. A trunk that moved leaves its files on the old server; a failed reload is
  answered as success; `scripts/spbx_api.php:209` looks for a trunk's
  old files under its new technology's name and leaves them after a change.
* Tools. A socket closed by hand may be dialled again; attempts start over with each
  socket; a sync replaces rows and takes their policies along, and one that fails midway leaves
  two rows of a tool until the next; a successful call is logged
  twice. A repeated OAuth callback makes two rows for one account, and deleting
  one cuts the other off; an account whose row was not made, or outlived it, is used by tools
  (`findConnectedAccountForTool`); disconnecting does not stop Composio's tools.
* Browser. The widget's stop button is disabled during the call; closing the
  window before it is connected ends nothing; a user agent that was forgotten ends another call when it
  disconnects. A widget session hung up before its connection opened leaves the handler that
  waited for it (`widget-webrtc.service.ts:160`). A playground stopped during its start leaves an orphan.
* Assistants. A body that names another voice leaves the old file (`assistants.service.ts:103`).
* Chat, knowledge, help desk. A tool of the owner that fails is tried on the first server when
  one of its tools resembles it (`chat.service.ts:528`). A chunk with both thought tags loses what follows; text calls try
  the first server only. `splitLongText` drops a tail without a full stop. A restart leaves
  documents processing. Two operators may both claim a ticket.

### Fairness

`FairSpec` grants what Node's event loop and the database give: a step that can be
taken is taken in the end (weak fairness of each request, job or background task). In
`BalanceLedger` that is all: a row lock or the unique index is released when its
holder goes on. In `MCClients` the gateways repeat a notification until it is answered,
as their contracts say. In `Closing` a draft ends with an answer of SBIS or a
timeout. In `AriConnections` the cron starts the watchdog each minute and a WebSocket
that does not fail opens. In `OperatorJobs` jobs go on, time passes for records and
the reaper's cron runs. In `WidgetSessions` offers and hangups go on and whoever is
connected hangs up, which is the most a visitor can do; `SlotsComeBack` fails all the
same. Faults are bounded and never fair; nothing is assumed of callers, customers,
administrators or restarts. The components of MCCalls, MCOffice, MCServices and, payments
excepted, MCClients are checked for safety only there.

## Proofs

The theorems hold for all constants that satisfy the assumptions of their module.
`BillingConstants`, `JobsAssumption`, `AriConstants` and those of the ledger and the closing
are assumed where the constants are declared; what the components of `MCCalls`, `MCOffice`
and `MCClients` ask of theirs are the conjuncts of the `ComponentConstants` of those three. TLC
evaluates all of them. Most say that a bound is a number or that two sets of requests
are disjoint. Two say more: `MaxCalls # 0`, because a limit of zero is none
(`config.maxCallsPerMinute || 60`, `mcp-policy.service.ts:58`), and
`Prefixed => MaxRetechs = 0`: the version of the PBX script that names files by technology
leaves those of a technology a server gave up, so that what is claimed of trunks with
it is claimed of servers that keep theirs.

Each invariant was first checked by TLC with the strengthening it needs. The components
that are instantiated name theirs `IInv`, at the end of their module, with a comment on
each conjunct. The proofs of the ledger and of the closing are in modules of their own,
`OperatorJobs`, `AriConnections` and `CallBilling` end with theirs, and `MCCalls`, `MCOffice`
and `MCClients` have those of the components they instantiate: their theorems are about the
`Spec` that TLC checks. A step that leaves a component's variables alone is a lemma of its
own, and the theorem follows from the components by cases of `which`.

`BalanceLedgerProofs` (any users, owners, requests, opening balances and amounts):

* `LedgerTypeCorrect`: `TypeOK` is inductive as it stands.
* `LedgerIsSound` states what the run checks as `LedgerSound`, from three theorems.
  `LedgerIsChain` needs `LockInv`: the requests between `LockRow` and `Commit` are
  alone with their account, the balance they read is still the one there is, and no row
  of the account has gone, so a commit appends a row that starts where the last
  ended. `KeysAppliedOnce` needs `KeyInv`: a request that has inserted its row has
  a key that no committed row and no other open transaction has. That is the unique index,
  not the lock: keys of two accounts meet nowhere else. `RetriesRecognised`: from
  the lock on, nothing of the own account is added between lookup and insert.
* `ClosedAccountsStayPut`: a commit holds the lock of an account that exists.
* `DepletionsAreAnnounced`: `DepletionAnnounced`. `MailInv` extends it to debits that have
  sent their mails and not committed yet.
* `LedgerIsAtomic`: `RefinesAtomicLedger`, step by step. A commit is `Apply`: `LockInv`
  gives that the balance it read is still there, so that its row is the one `AtomicLedger`
  writes, and `KeyInv` that its key is free. A lookup that finds its key is `Recognise`;
  a refusal, an abort, or an insert the index rejects is `Refuse`. The end of a deletion is
  `Close`, which needs `PurgeInv`: what was destroyed had been there. All other steps
  leave everything `AtomicLedger` sees as it is.

`ClosingProofs` (any runs and records):

* `DuplicatesOnlyOverlap`: `ClosingSound`. `RivalInv` says that a run which has looked
  and found no UPD has, for each UPD there is now, its maker as a run that overlapped it.
* `ClosingsBillRoubles`: `BilledInRoubles`. `QuietInv` says that the sums of a run
  nobody disturbed are those of the records as they are.

`CallBilling` (any usage reports, hangups, analyses and deletions of a call, any tokens
and prices). `Base` is what the other invariants start from: the types, which rows and
records there can be, and that a record belongs to a handler that made it.

* `ChargesAreEarned`: `NeverOvercharged`. `Within` follows a token from the report to the
  records, from the records to what a hangup has added up and from there to the ledger: each
  is at most what is before it, even when two hangups read between each other's writes.
* `HangupsBillInFull`: `BilledInFull`. `InFull` says that what was due when a hangup began is
  at most what it has added up and what it has not read yet. It needs that a type has
  one record: a second one is where the code does lose a charge.
* `BooksAlwaysAgree`: `BooksAgree`. `CountersAgree` says that the tokens of CDR and records
  differ by the handlers between their two increments. `Sums` gives the three sums (records,
  CDR, ledger) for every stage of the one hangup and of the analysis it fires, and needs
  `Ordered`: an analysis begins after its hangup.
* `RefundsAreCharges`: `RefundMatchesCharges`. `Claims` says that one deletion holds the
  owner's row and that a deletion after the first finds nothing; `Settled` that what the
  deletion found is what is owed until it commits, and `Fallbacks` that what it read of the CDR is
  no more than that; `Repaid` is what is true of the credits afterwards.

The sums are those of `SumFunctionOnSet`, whose definition recurs over subsets. The library's
induction cannot be used, so the module proves what it needs (a sum without one of its
members, with one changed, of a union, of equal terms) by a least counterexample among the
finite subsets of the set that is summed over.

`OperatorJobs` (any records, jobs, batch, urls and clock), from one invariant:

* `BooksAreSound`: `BooksSound`. A recording has one job at work until its first retry,
  crash or reaping (`touched`); from the charge to the billing record its debits are one
  ahead of its bills; what a job has looked up of an analysis or a charge still holds.
* `BatchesTally`: `BatchTallies`. The jobs of a batch run one after the other: those before
  its place are through, those after it have not begun, and what it has counted is the
  cardinality of what is finished.

`AriConnections` (any servers, watchdogs, administrators and connections):

* `ConnectionsTakeTurns`: `InTurn`. The array holds no connection twice and none of two
  connections of a server; while an operation is alone, what it found out is still so
  when it acts. The index it looked up names the connection it will stop, and
  removing that index keeps the others.

`MCCalls`:

* `StreamNeverStalls`: `AudioFlows`. `LoopInv` says that a session that is there has a
  controller nobody has aborted and, while it is busy or has something queued, a loop with
  that controller. A loop that ends without having been aborted ends on an empty
  queue, and one that was aborted is not the session's.
* `StreamIsSilenced`: `InterruptSilences`. `SilenceInv` says that a loop whose controller is
  not aborted has a buffer in hand that came after the last interrupt, and that the queue
  holds no other.
* `ConnectionIsSound`: `ConnectionSound`. `DialInv` counts the attempt that is under way
  together with those made; `Unopened` says that while a handler waits for the connection
  nothing has been sent, so that there is one message at most that goes ahead.
* `CallEnds`: `SessionEnds`. There are two runs of `cleanup`; `OneWorks` says that one of
  them works through the resources and the other goes straight to its end, and that nothing
  of an orderly call was bypassed. `GivenBack` says, place by place, what is no longer held once
  the cleanup is past it, unless Asterisk failed (`LostHeld`), and that one of the call's addresses is gone from the
  RTP server once its end was handled; `Known` that the session
  knows its connection until the model is closed, so that closing it reaches it.
* `VoiceFindsItsCall`: `VoiceRight`. `OwnAddress` says that without NAT the entry of a live
  call is its own; `OneObject` that a call Asterisk reported once has one object, so that
  the flag on it prevents a second greeting.
* `TurnsAreSettled`: `TurnsSettled`, from the invariants of two components.
  For the events of a realtime model (`Talk!IInv`): `Undisturbed` says that while the
  text of a response is buffered, or after it was cancelled, no handler of an earlier
  response and no beginning of its own is still under way, unless the response is in
  `overtaken`; so nobody empties its buffer or lifts its muting (`InBuffer`). `Cancelled`
  says that a response that was cancelled after its whole call has run once, or `Waits`
  in the one buffer that has its call; `Connected` that the result of a tool has been
  sent, unless there was none (`mute`), or its handler still has the connection of an open
  session. The handlers keep the
  session object that was in the map when their event came, which is why the invariants
  speak of objects rather than of the session.
  For the pipeline (`Turn!IInv`): by `Signals` the controller of the session is that of
  its last turn and all turns before are aborted; by `OwnSignal` a turn that was not
  interrupted in its last sentence holds its own signal, in its tools, its later rounds and
  what it speaks, so that the abort reaches all of them (`NoStaleAudio`, and
  `ClosedIsQuiet` with `Closed`). `Dialogue` says that the conversation can be sent to
  the model, or that the one turn with tools under way waits for the result of the
  call that is last in it. Its premise names what separates the two: an
  interrupted tool, a tool that returned nothing, a turn that went on, and trimming (`parted`, the prompt's place
  included), which `TrimChained` shows to be the only harm that `trimHistory` does.
* `CallTypesCorrect`: `TypeOK`, from the invariants of all six. It needs more than
  types: a turn whose tools are under way has a round left (`Signals`).

`MCOffice` (any requests, organizations, calendar, parties, users, codes, trunks, servers):

* `InvoicesAreNumberedInTurn`: `Gapless`. `HoldInv` says that a number which is taken and not
  committed is the next of its day, and nobody else holds one of that day; `DocsInv` that
  the invoices of a day are those the counter has counted, each once. That no two
  of a day are printed alike is arithmetic: the digits are padded to a
  width which grows with the number, and a longer number has more of them.
* `DocumentsAreTrue`: `DocumentsTrue`. What a handler has still to write is what SBIS has
  been told (`Sure`); that the owner signs moves a document on, and never back. A document that nobody disturbed has one handler at most, which knows
  its status, and is not sent while that handler is still at it (`OneHandler`). An
  invoice that was marked as paid is no longer issued, and never again (`Marked`). The
  attempts of an invoice are counted by the handlers that are done (`Counted`).
* `RoutesAreTrue`: `RoutesTrue`, of three components. An organization: what SBIS says
  of an invitation is so, whenever it was read (`Known`), an invitation once found is
  not lost again by a slower request (`Held`), and until the requisites change
  everything in hand is about the party they name (`About`). Issuers: requests that
  came in turn leave one primary, except while one of them is between clearing the others
  and saying which, or one failed there (`SingleInTurn`). The lookup: SBIS ended every session that it no
  longer accepts (`SessionsCounted`), one that is in the answer to a login is nobody else's yet
  (`Fresh`), and a lookup repeats its call only after a session ended that it no longer
  uses (`GoesRight`), so that it is refused only after two.
* `OwnersAreSound`: `OwnersSound`. `User!ReadsHold` says what each request has found out
  (its owner exists, the parent is what it was, there are no sub-users but those listed) and
  that it is still so unless somebody has written in between, which makes
  the request `stale`. For the codes, `DrawnOnce` and `UsedUp` say that a code belongs to one
  request and that one that was used is nowhere left to be compared with;
  `NewestSafe` that once the newest is stored nobody is about to overwrite it.
* `SipStaysInStep`: `SipInStep`. `InStep` says, place by place, which files a request has
  already written or removed and what Asterisk has not yet loaded; a trunk or an assistant
  that is not `troubled` has one request at most, and when it has none the files are right
  (`Untroubled`). `OneTech` is what `Prefixed` needs.
* `OfficeTypesCorrect`: `TypeOK`, from the invariants of all nine.

`MCClients` (any payments, handlers, connections, tools, calls, consents, visitors and runs):

* `PaymentsAreRight`: `PaymentsRight`. `JobInv` says that what a handler in hand has been
  told did happen at the gateway, and that only a success is on its way to a credit.
  `SettledInv` ties a status, an answer and a handler about to answer to the credit
  that is there or to a handler that will make it. That half needs
  `AbortsOnError = FALSE`: MySQL goes on in a transaction after a failed statement. With
  Postgres it does not hold, and the property claims only that no credit is
  made twice or unpaid.
* `McpIsSound`: `McpSound`, of three components. Sockets: nothing is known of one that has not
  been dialled (`Fresh`), and unless requests raced one at most is on its way or open, and
  when it is open the map has it (`OneLives`). Tools: a synchronisation has made
  one row of each tool that is not still to do (`MadeOnce`); in turn it is alone with the
  rows there were before, one of each tool unless another failed midway (`Alone`, `OldOnce`), and what it or a switch writes is what the
  user chose (`Chosen`); the log has every call, and one that was let through still
  has room (`Room`). Integrations: an account comes before its row (`Made`), the row a removal
  has read is that of the account it drops (`Removing`), and a call acts on an account that
  is known or was left behind (`Acting`).
* `SessionsAreReleased`: `SessionsReleased`, of three components. The widget's server: in turn,
  an offer that was validated still has its slot (`Counted`), and one that is not answered
  has taken what its place says and is not hung up, and what still waits for a connection after
  the hangup waits in vain (`Taken`). The page: a start that met
  nobody has the manager's fields to itself (`OnItsOwn`), so that a microphone that is on and
  its call are the ones a stop finds there (`Heard`). The playground: one run of `handleInit`
  is under way at a time (`OneInit`), and what a session still has belongs to the
  socket's session or to a cleanup that is not over (`Reached`, `Unwired`).
* `ClientTypesCorrect`: `TypeOK`, from the invariants of all seven.

What is only model-checked, and why:

* Liveness and `ENABLED`, which the prover does not have: `ServersComeOnline`,
  `PaidIsCredited`, `NoneStuck`, `UpdSettles` and `EveryRequestFinishes`.
* `AnalysisKept`: what the parser of `Answers` makes of a broken answer, and `Dialogs` of a
  sound, are recursive functions, and what they compute for every input needs an induction
  over data.
* `AsAsked`, `NoticesRight` and the `TypeOK` of `MCServices`, whose seven other components
  have not been proved about.
* The three runs that show a violation.

## Not modelled

* Components without state of their own: controllers and guards, catalogues, WebSocket
  broadcasts, reports and statistics that are queries, mail and Telegram output, file
  serving, migrations, deployment.
* Data: prompts, prices, wording, PDF layout, signatures, encryption, SBIS and gateway
  payloads beyond what the actions distinguish; codecs, STT and TTS.
* Interaction of more than two modelled components at once, beyond the promise of
  `AtomicLedger` and the places where a component's effect is one step of its caller.
* In modelled components: the missing operations are named in the notes of
  `PROJECT.json` (`status` partly).

What would come next: proofs for chats, knowledge, the help desk, reports and alerts;
`CallSession` composed with `RealtimeConnection` and `CallBilling` over the events of the
model.
