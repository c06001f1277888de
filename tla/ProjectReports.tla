--------------------------- MODULE ProjectReports ---------------------------
(***************************************************************************)
(* What operator analytics sends about a project: the budget alert after   *)
(* an analysis, the scheduled and the manual digest, and insights, which a *)
(* model writes, the tenant pays for and a cache keeps; and updateProject, *)
(* which changes the row all of them read.                                 *)
(*                                                                         *)
(* Everything loads the project first and writes back what it made of the  *)
(* loaded row after awaits.  Sequelize saves the columns that changed; the *)
(* digest's settings and its timestamps are one JSON column.  A period is  *)
(* the month of a budget and the sending day of a digest.                  *)
(***************************************************************************)
EXTENDS Integers, FiniteSets

CONSTANTS Checks,     \* analyses, each followed by a budget check
          Edits,      \* updateProject requests
          Hourly,     \* runs of the digest cron in the sending hour
          Manual,     \* manual digests
          Requests,   \* requests for insights
          Casts,      \* the sets of these that meet in one behaviour
          Budgets,    \* monthly budgets, in calls
          MinCalls,   \* resolveInsightsMinCalls
          MaxPeriod,  \* bound
          MaxFaults   \* bound: deliveries, debits and cache accesses that fail

VARIABLES row,      \* the project
          calls,    \* analysed calls of the period: what was spent, and the facts
          period,
          pc,
          held,     \* the row each actor has loaded
          cache,    \* keys with an entry: the facts they were made from
          answer,   \* what each request returned; NoAnswer before
          debited,  \* requests the tenant paid for
          priced,   \* whether the tenant has a price for analytics
          faults,
          alerts,   \* history: alerts for the budget as it stands, in this period
          crossed,  \* history: a check found that budget exceeded and is over
          digests,  \* history: scheduled digests delivered in this period
          forgotten, \* history: those of them the row has no memory of
          asked,    \* history: the facts when each request began
          modelled, \* history: requests a model answered
          metered,  \* history: those whose answer took tokens
          raced     \* history: what overlapped: "budget", "digest"

vars == <<row, calls, period, pc, held, cache, answer, debited, faults,
          alerts, crossed, digests, forgotten, asked, modelled, priced, metered, raced>>

tariff   == <<priced, metered>>
insights == <<cache, answer, debited, asked, modelled, tariff>>
sends    == <<digests, forgotten>>
budgets  == <<alerts, crossed>>

-----------------------------------------------------------------------------
Actors == Checks \cup Edits \cup Hourly \cup Manual \cup Requests
NoAnswer == -1
Off == -1           \* settings, when digestConfig is null
Goto(a, label) == pc' = [pc EXCEPT ![a] = label]
Busy(set) == {a \in set : pc[a] \notin {"idle", "done"}}

\* normalizeDigestConfig: the settings (a version of them) and the timestamps.
Row == [budget : Budgets, alerted : 0 .. MaxPeriod, settings : Nat \cup {Off},
        lastSent : 0 .. MaxPeriod, lastManual : 0 .. MaxPeriod]

Load(a, label) == held' = [held EXCEPT ![a] = row] /\ Goto(a, label)

\* What shares a column and overlaps.
Overlap(kind, others) == raced' = IF Busy(others) = {} THEN raced ELSE raced \cup {kind}

-----------------------------------------------------------------------------
\* An analysis holds the project it was started with; its CDR adds to the month.
BeginCheck(c) ==
    /\ pc[c] = "idle"
    /\ Load(c, "spending")
    /\ Overlap("budget", Checks \cup Edits)
    /\ UNCHANGED <<row, calls, period, insights, faults, budgets, sends>>

Spend(c) ==
    /\ pc[c] = "spending"
    /\ calls' = calls + 1
    /\ Goto(c, "summing")
    /\ UNCHANGED <<row, period, held, insights, faults, budgets, sends, raced>>

Exceeded(c) == calls >= held[c].budget
Silent(c)   == held[c].alerted = period

\* checkProjectBudget: the sum, and the last alert as it was loaded.
Sum(c) ==
    /\ pc[c] = "summing"
    /\ crossed' = (crossed \/ (Exceeded(c) /\ Silent(c)))
    /\ Goto(c, IF Exceeded(c) /\ ~Silent(c) THEN "marking" ELSE "done")
    /\ UNCHANGED <<row, calls, period, held, insights, faults, alerts, sends, raced>>

\* Mutant: the alert is not remembered.
MarkNothing(c) ==
    /\ pc[c] = "marking"
    /\ Goto(c, "alerting")
    /\ UNCHANGED <<row, calls, period, held, insights, faults, budgets, sends, raced>>

Mark(c) ==
    /\ pc[c] = "marking"
    /\ row' = [row EXCEPT !.alerted = period]
    /\ Goto(c, "alerting")
    /\ UNCHANGED <<calls, period, held, insights, faults, budgets, sends, raced>>

\* sendCriticalAlert and the webhook; what fails there is logged.
Alert(c) ==
    /\ pc[c] = "alerting"
    /\ alerts' = alerts + 1 /\ crossed' = TRUE
    /\ Goto(c, "done")
    /\ UNCHANGED <<row, calls, period, held, insights, faults, sends, raced>>

-----------------------------------------------------------------------------
BeginEdit(e) ==
    /\ pc[e] = "idle"
    /\ Load(e, "saving")
    /\ raced' = raced \cup (IF Busy(Checks) # {} THEN {"budget"} ELSE {})
                      \cup (IF Busy(Hourly \cup Manual \cup Edits) # {} THEN {"digest"} ELSE {})
    /\ UNCHANGED <<row, calls, period, insights, faults, budgets, sends>>

\* Mutant: a new budget does not re-arm the alert.
SaveBudgetUnarmed(e) ==
    /\ pc[e] = "saving"
    /\ \E b \in Budgets \ {held[e].budget} : row' = [row EXCEPT !.budget = b]
    /\ alerts' = 0 /\ crossed' = FALSE
    /\ Goto(e, "done")
    /\ UNCHANGED <<calls, period, held, insights, faults, sends, raced>>

\* updateProject with a new budget: the alert is re-armed, if it was set when loaded.
SaveBudget(e) ==
    /\ pc[e] = "saving"
    /\ \E b \in Budgets \ {held[e].budget} :
          row' = [row EXCEPT !.budget = b, !.alerted = IF held[e].alerted = 0 THEN @ ELSE 0]
    /\ alerts' = 0 /\ crossed' = FALSE
    /\ Goto(e, "done")
    /\ UNCHANGED <<calls, period, held, insights, faults, sends, raced>>

\* Mutant: the client's timestamps, which it does not have, are saved too.
SaveDigestFresh(e) ==
    /\ pc[e] = "saving"
    /\ row' = [row EXCEPT !.settings = held[e].settings + 1, !.lastSent = 0, !.lastManual = 0]
    /\ Goto(e, "done")
    /\ UNCHANGED <<calls, period, held, insights, faults, budgets, sends, raced>>

\* updateProject with a digestConfig: new settings, the timestamps that were loaded.
SaveDigest(e) ==
    /\ pc[e] = "saving"
    /\ row' = [row EXCEPT !.settings = held[e].settings + 1,
                          !.lastSent = held[e].lastSent, !.lastManual = held[e].lastManual]
    /\ Goto(e, "done")
    /\ UNCHANGED <<calls, period, held, insights, faults, budgets, sends, raced>>

\* updateProject with digestConfig null: the column goes, the timestamps with it.
ClearDigest(e) ==
    /\ pc[e] = "saving"
    /\ row' = [row EXCEPT !.settings = Off, !.lastSent = 0, !.lastManual = 0]
    /\ forgotten' = IF row.lastSent = period THEN digests ELSE forgotten
    /\ Goto(e, "done")
    /\ UNCHANGED <<calls, period, held, insights, faults, budgets, digests, raced>>

-----------------------------------------------------------------------------
\* runScheduledDigests and isDigestDue; sendManual and canSendManualDigest, whose
\* cooldown ends with the period here.
BeginDigest(d) ==
    /\ pc[d] = "idle" /\ row.settings # Off
    /\ IF d \in Hourly THEN row.lastSent # period ELSE row.lastManual # period
    /\ Load(d, "delivering")
    /\ Overlap("digest", Hourly \cup Manual \cup Edits)
    /\ UNCHANGED <<row, calls, period, insights, faults, budgets, sends>>

\* sendForProject: when nobody was reached it throws, and nothing is written.
Deliver(d) ==
    /\ pc[d] = "delivering"
    /\ \/ /\ Goto(d, "stamping")
          /\ digests' = digests + (IF d \in Hourly THEN 1 ELSE 0)
          /\ UNCHANGED faults
       \/ /\ faults < MaxFaults
          /\ faults' = faults + 1
          /\ Goto(d, "done")
          /\ UNCHANGED digests
    /\ UNCHANGED <<row, calls, period, held, insights, forgotten, budgets, raced>>

Stamp(d) ==
    /\ pc[d] = "stamping"
    /\ row' = [row EXCEPT !.settings = held[d].settings,
                 !.lastSent   = IF d \in Hourly THEN period ELSE held[d].lastSent,
                 !.lastManual = IF d \in Manual THEN period ELSE held[d].lastManual]
    /\ Goto(d, "done")
    /\ UNCHANGED <<calls, period, held, insights, faults, budgets, sends, raced>>

\* The settings cannot be saved, and what was delivered is not remembered.
StampFails(d) ==
    /\ pc[d] = "stamping" /\ faults < MaxFaults
    /\ faults' = faults + 1
    /\ forgotten' = IF d \in Hourly THEN digests ELSE forgotten
    /\ Goto(d, "done")
    /\ UNCHANGED <<row, calls, period, held, insights, budgets, digests, raced>>

-----------------------------------------------------------------------------
\* generateInsights: the dashboard, whose digest is part of the key.
Ask(q) ==
    /\ pc[q] = "idle"
    /\ asked' = [asked EXCEPT ![q] = calls]
    /\ Goto(q, "looking")
    /\ UNCHANGED <<row, calls, period, held, cache, answer, debited, modelled, tariff, faults,
                   budgets, sends, raced>>

\* Mutant: the key names the tenant and the dates only.
LookUpAny(q) ==
    /\ pc[q] = "looking"
    /\ \/ \E f \in cache : answer' = [answer EXCEPT ![q] = f] /\ Goto(q, "done")
       \/ cache = {} /\ Goto(q, "modelling") /\ UNCHANGED answer
    /\ UNCHANGED <<row, calls, period, held, cache, debited, asked, modelled, tariff, faults,
                   budgets, sends, raced>>

\* InsightsCacheService.get; a request that asks for a refresh, an entry that has
\* expired and a Redis that fails are all a miss.  Too few calls need no model.
LookUp(q) ==
    /\ pc[q] = "looking"
    /\ \/ /\ asked[q] \in cache \/ asked[q] < MinCalls
          /\ answer' = [answer EXCEPT ![q] = asked[q]]
          /\ Goto(q, "done")
       \/ asked[q] >= MinCalls /\ Goto(q, "modelling") /\ UNCHANGED answer
    /\ UNCHANGED <<row, calls, period, held, cache, debited, asked, modelled, tariff, faults,
                   budgets, sends, raced>>

\* requestInsights, once more if the answer is invalid; its usage may be missing.
Model(q) ==
    /\ pc[q] = "modelling"
    /\ \/ /\ modelled' = modelled \cup {q}
          /\ metered' \in {metered, metered \cup {q}}
          /\ Goto(q, "charging")
          /\ UNCHANGED faults
       \/ /\ faults < MaxFaults
          /\ faults' = faults + 1
          /\ Goto(q, "done")
          /\ UNCHANGED <<modelled, metered>>
    /\ UNCHANGED <<row, calls, period, held, cache, answer, debited, asked, priced, budgets,
                   sends, raced>>

Costs(q) == priced /\ q \in metered

\* Mutant: the insight is cached before it is charged.
ChargeLate(q) ==
    /\ pc[q] = "charging"
    /\ cache' = cache \cup {asked[q]}
    /\ \/ debited' = debited \cup {q} /\ Goto(q, "caching") /\ UNCHANGED faults
       \/ /\ faults < MaxFaults
          /\ faults' = faults + 1
          /\ Goto(q, "done")
          /\ UNCHANGED debited
    /\ UNCHANGED <<row, calls, period, held, answer, asked, modelled, tariff, budgets, sends, raced>>

\* chargeInsightCost: the billing record, and the debit named after it; when it fails the
\* request fails.  Without tokens, or a tenant's price, it returns and charges nothing.
ChargeInsight(q) ==
    /\ pc[q] = "charging"
    /\ \/ /\ debited' = IF Costs(q) THEN debited \cup {q} ELSE debited
          /\ Goto(q, "caching")
          /\ UNCHANGED faults
       \/ /\ faults < MaxFaults
          /\ faults' = faults + 1
          /\ Goto(q, "done")
          /\ UNCHANGED debited
    /\ UNCHANGED <<row, calls, period, held, cache, answer, asked, modelled, tariff, budgets, sends,
                   raced>>

CacheAnswer(q) ==
    /\ pc[q] = "caching"
    /\ cache' = cache \cup {asked[q]}
    /\ answer' = [answer EXCEPT ![q] = asked[q]]
    /\ Goto(q, "done")
    /\ UNCHANGED <<row, calls, period, held, debited, asked, modelled, tariff, faults, budgets, sends,
                   raced>>

-----------------------------------------------------------------------------
\* The next month: what was spent counts anew.  Nothing that sends takes that long.
NextPeriod ==
    /\ period < MaxPeriod
    /\ Busy(Actors) = {}
    /\ period' = period + 1
    /\ calls' = 0 /\ alerts' = 0 /\ crossed' = FALSE /\ digests' = 0 /\ forgotten' = 0
    /\ cache' = {}      \* the entries live for an hour
    /\ UNCHANGED <<row, pc, held, answer, debited, asked, modelled, tariff, faults, raced>>

Init ==
    /\ row \in [budget : Budgets, alerted : {0}, settings : {0}, lastSent : {0}, lastManual : {0}]
    /\ calls = 0 /\ period = 1
    /\ \E cast \in Casts : pc = [a \in Actors |-> IF a \in cast THEN "idle" ELSE "done"]
    /\ held = [a \in Checks \cup Edits \cup Hourly \cup Manual |-> row]
    /\ cache = {}
    /\ answer = [q \in Requests |-> NoAnswer]
    /\ asked = [q \in Requests |-> 0]
    /\ debited = {} /\ modelled = {} /\ metered = {} /\ priced \in BOOLEAN /\ faults = 0
    /\ alerts = 0 /\ crossed = FALSE /\ digests = 0 /\ forgotten = 0 /\ raced = {}

Next ==
    \/ \E c \in Checks : BeginCheck(c) \/ Spend(c) \/ Sum(c) \/ Mark(c) \/ Alert(c)
    \/ \E e \in Edits : BeginEdit(e) \/ SaveBudget(e) \/ SaveDigest(e) \/ ClearDigest(e)
    \/ \E d \in Hourly \cup Manual : BeginDigest(d) \/ Deliver(d) \/ Stamp(d) \/ StampFails(d)
    \/ \E q \in Requests : Ask(q) \/ LookUp(q) \/ Model(q) \/ ChargeInsight(q) \/ CacheAnswer(q)
    \/ NextPeriod

Spec == Init /\ [][Next]_vars

-----------------------------------------------------------------------------
TypeOK ==
    /\ row \in Row
    /\ \A a \in DOMAIN held : held[a] \in Row
    /\ period \in 1 .. MaxPeriod
    /\ calls \in 0 .. Cardinality(Checks) /\ cache \subseteq 0 .. Cardinality(Checks)
    /\ debited \subseteq metered /\ metered \subseteq modelled /\ modelled \subseteq Requests

\* A budget is announced once a month, and whenever a check found it exceeded;
\* changing it arms the alert again.  Checks and edits that overlap are left out:
\* each of them works from the row it has loaded.
BudgetAnnounced ==
    "budget" \notin raced => alerts <= 1 /\ (crossed => alerts = 1)

\* The cron sends a project's digest once on its day, however often it runs in the
\* sending hour and whatever is changed between two sends; and once more for each one the
\* project does not remember, because its settings could not be saved after it or were
\* removed with their timestamps.  Sends and edits that overlap are left out: the later
\* write takes the earlier one back.
DigestOncePerDay ==
    "digest" \notin raced => digests <= forgotten + 1

\* An insight tells of the calls as they were when it was asked for, even from the
\* cache; what a model wrote is charged to the one who asked, before anybody sees it,
\* if the tenant has a price and the answer took tokens; the rest is free.
InsightsPaid ==
    /\ \A q \in Requests :
          answer[q] # NoAnswer => answer[q] = asked[q] /\ (Costs(q) <=> q \in debited)
    /\ \A f \in cache : \E q \in modelled : asked[q] = f /\ (Costs(q) => q \in debited)
=============================================================================
