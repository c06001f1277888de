------------------------------ MODULE BalanceAlerts ------------------------------
(***************************************************************************)
(* What an owner is told of a balance that runs out: the limits a debit    *)
(* crosses, and once a day the forecast of the days that are left.  Either *)
(* notice may carry an invoice, whose amount in roubles depends on the     *)
(* table of rates.                                                         *)
(*                                                                         *)
(* A debit starts the check of the limits and does not wait for it, so     *)
(* checks of several debits, edits of the limits and runs of the forecast  *)
(* (the daily task, and an administrator who asks for it) overlap.         *)
(***************************************************************************)
EXTENDS Integers, Sequences, SequencesExt, FiniteSets, FiniteSetsExt

CONSTANTS Debits, Edits, Runs,       \* requests
          Alerts, Given,             \* rows of balance_threshold_alerts, at the start
          Limits, Amounts,           \* limits, what a debit takes
          Start,                     \* the balance at the start and after a top-up
          Rate,                      \* roubles of a dollar
          Lookback, AlertDays, Cooldown, Drop,   \* readBalanceRunwayConfig
          Casts, MaxDay, MaxFaults   \* bounds

VARIABLES balance, alerts, rates, day,
          pc, held,
          spent,          \* billing records: [day -> dollars]
          last,           \* balance_runway_notifications
          invoices,       \* invoices issued: [why, rub, known]
          path,           \* history: the balances there were
          told,           \* history: [alert -> times told]
          edited,         \* history: alerts that were changed
          notices,        \* history: runway notices [day, left]
          doubled, faults \* history: overlapping runs or a failure; bound

vars == <<balance, alerts, rates, day, pc, held, spent, last, invoices, path, told, edited,
          notices, doubled, faults>>

-----------------------------------------------------------------------------
None == [day |-> -1, balance |-> 0, spend |-> 0]

Requests == Debits \cup Edits \cup Runs
Empty == [old |-> 0, new |-> 0, todo |-> {}, limit |-> [a \in Alerts |-> 0], spend |-> 0,
          day |-> 0]
Goto(q, label) == pc' = [pc EXCEPT ![q] = label]
Busy(q) == pc[q] \notin {"idle", "done"}
Fault == faults < MaxFaults /\ faults' = faults + 1

isBalanceDepleted(b) == b <= 0
UpTo50(x) == IF x <= 0 THEN 50 ELSE ((x + 49) \div 50) * 50       \* roundUpToNearest50Rub
\* convertFromUsd: without the rates the dollars are taken for roubles.
InRoubles(usd) == IF rates THEN usd * Rate ELSE usd

Spent(days) == MapThenSumSet(LAMBDA d : spent[d], {d \in 0..day : day - d < days})

Init == /\ balance = Start /\ rates = FALSE /\ day = 0
        /\ alerts \in Given
        /\ \E cast \in Casts : pc = [q \in Requests |-> IF q \in cast THEN "idle" ELSE "done"]
        /\ held = [q \in Requests |-> Empty]
        /\ spent = [d \in 0..MaxDay |-> 0] /\ last = None
        /\ invoices = {} /\ path = <<Start>> /\ told = [a \in Alerts |-> 0]
        /\ edited = {} /\ notices = <<>> /\ doubled = FALSE /\ faults = 0

-----------------------------------------------------------------------------
(* The balance, the calendar and the rates.                                *)

\* A charge: its record, its debit, and the check unless either balance is depleted.
Debit(d) ==
  /\ d \in Debits /\ pc[d] = "idle"
  /\ \E n \in Amounts :
       LET new == balance - n IN
       /\ balance' = new /\ path' = Append(path, new)
       /\ spent' = [spent EXCEPT ![day] = @ + n]
       /\ held' = [held EXCEPT ![d].old = balance, ![d].new = new]
       /\ Goto(d, IF isBalanceDepleted(balance) \/ isBalanceDepleted(new) THEN "done" ELSE "list")
  /\ UNCHANGED <<alerts, rates, day, last, invoices, told, edited, notices, doubled, faults>>

TopUp ==
  /\ isBalanceDepleted(balance) /\ \E d \in Debits : pc[d] = "idle"
  /\ balance' = Start /\ path' = Append(path, Start)
  /\ UNCHANGED <<alerts, rates, day, pc, held, spent, last, invoices, told, edited, notices,
                 doubled, faults>>

NextDay ==
  /\ day < MaxDay /\ day' = day + 1
  /\ UNCHANGED <<balance, alerts, rates, pc, held, spent, last, invoices, path, told, edited,
                 notices, doubled, faults>>

\* updateRates: rows are written over; when the provider fails they stay as they are.
UpdateRates ==
  /\ ~rates /\ rates' = TRUE
  /\ UNCHANGED <<balance, alerts, day, pc, held, spent, last, invoices, path, told, edited,
                 notices, doubled, faults>>

-----------------------------------------------------------------------------
(* processBalanceCrossing                                                  *)

\* The limits are read once, and those the debit crosses are gone through.
\* Mutant: a balance that stood on the limit did not cross it.
ListAbove(d) ==
  /\ d \in Debits /\ pc[d] = "list"
  /\ held' = [held EXCEPT ![d].todo = {a \in Alerts : /\ alerts[a].limit > 0
                                                      /\ held[d].old > alerts[a].limit
                                                      /\ held[d].new < alerts[a].limit}]
  /\ Goto(d, IF held'[d].todo = {} THEN "done" ELSE "tell")
  /\ UNCHANGED <<balance, alerts, rates, day, spent, last, invoices, path, told, edited, notices,
                 doubled, faults>>

List(d) ==
  /\ d \in Debits /\ pc[d] = "list"
  /\ held' = [held EXCEPT ![d].todo = {a \in Alerts : /\ alerts[a].limit > 0
                                                      /\ held[d].old >= alerts[a].limit
                                                      /\ held[d].new < alerts[a].limit},
                          ![d].limit = [a \in Alerts |-> alerts[a].limit]]
  /\ Goto(d, IF held'[d].todo = {} THEN "done" ELSE "tell")
  /\ UNCHANGED <<balance, alerts, rates, day, spent, last, invoices, path, told, edited, notices,
                 doubled, faults>>

\* resolveInvoiceAmountRub; the invoice is issued before the mail, and the mail goes
\* out when it cannot be.
Amount(mode) == IF mode = "fixed" THEN 50 ELSE UpTo50(InRoubles(Spent(30)))

Tell(d) ==
  /\ d \in Debits /\ pc[d] = "tell"
  /\ \E a \in held[d].todo :
       /\ \/ /\ alerts[a].mode # "none"
             /\ invoices' = invoices \cup {[why |-> "limit", rub |-> Amount(alerts[a].mode),
                                            least |-> 50, known |-> rates]}
             /\ UNCHANGED faults
          \/ alerts[a].mode # "none" /\ Fault /\ UNCHANGED invoices
          \/ alerts[a].mode = "none" /\ UNCHANGED <<invoices, faults>>
       /\ told' = [told EXCEPT ![a] = @ + 1]
       /\ held' = [held EXCEPT ![d].todo = @ \ {a}]
  /\ Goto(d, IF held'[d].todo = {} THEN "done" ELSE "tell")
  /\ UNCHANGED <<balance, alerts, rates, day, spent, last, path, edited, notices, doubled>>

\* A statement fails: the limits that are left are not told of.
Break(d) ==
  /\ d \in Debits /\ pc[d] \in {"list", "tell"} /\ Fault
  /\ edited' = Alerts
  /\ Goto(d, "done")
  /\ UNCHANGED <<balance, alerts, rates, day, held, spent, last, invoices, path, told, notices,
                 doubled>>

\* create, update and remove of a limit; 0 stands for a row that is not there.
Edit(e) ==
  /\ e \in Edits /\ pc[e] = "idle"
  /\ \E a \in Alerts, n \in Limits \cup {0} :
       /\ alerts' = [alerts EXCEPT ![a].limit = n]
       /\ edited' = edited \cup {a}
  /\ Goto(e, "done")
  /\ UNCHANGED <<balance, rates, day, held, spent, last, invoices, path, told, notices, doubled,
                 faults>>

-----------------------------------------------------------------------------
(* runDailyCheck, for one owner.                                           *)

Overlaps(r) == doubled' = (doubled \/ \E p \in Runs \ {r} : Busy(p))

\* The owners are read with their balances, and each is worked on with what was read.
Owners(r) ==
  /\ r \in Runs /\ pc[r] = "idle"
  /\ held' = [held EXCEPT ![r].old = balance, ![r].day = day]
  /\ Overlaps(r)
  /\ Goto(r, IF isBalanceDepleted(balance) THEN "done" ELSE "sum")
  /\ UNCHANGED <<balance, alerts, rates, day, spent, last, invoices, path, told, edited, notices,
                 faults>>

\* sumTenantSpendUsd, calcDailyBurnUsd, calcDaysRemaining: no forecast without a spend,
\* and none that is further away than the days of the alert.
Sum(r) ==
  /\ r \in Runs /\ pc[r] = "sum"
  /\ LET s == Spent(Lookback) IN
     /\ held' = [held EXCEPT ![r].spend = s]
     /\ Goto(r, IF s > 0 /\ held[r].old * Lookback <= AlertDays * s THEN "decide" ELSE "done")
  /\ UNCHANGED <<balance, alerts, rates, day, spent, last, invoices, path, told, edited, notices,
                 doubled, faults>>

\* lastForecastDays - daysLeft >= renotifyDaysDrop, each a balance over a daily burn
Fell(old, b, s) == Lookback * (old.balance * s - b * old.spend) >= Drop * old.spend * s

\* shouldNotifyRunway
\* Mutant: the notice is not kept to its days.
DecideAnyway(r) ==
  /\ r \in Runs /\ pc[r] = "decide"
  /\ Goto(r, "invoice")
  /\ UNCHANGED <<balance, alerts, rates, day, held, spent, last, invoices, path, told, edited,
                 notices, doubled, faults>>

Decide(r) ==
  /\ r \in Runs /\ pc[r] = "decide"
  /\ Goto(r, IF \/ last = None \/ day - last.day >= Cooldown
                \/ Fell(last, held[r].old, held[r].spend)
             THEN "invoice" ELSE "done")
  /\ UNCHANGED <<balance, alerts, rates, day, held, spent, last, invoices, path, told, edited,
                 notices, doubled, faults>>

\* A month at the burn of the days looked at, rounded up; no invoice is no obstacle.
Invoice(r) ==
  /\ r \in Runs /\ pc[r] = "invoice"
  /\ \/ /\ invoices' = invoices \cup
             {[why |-> "runway", known |-> rates, least |-> held[r].spend * Rate * 30,
               rub |-> UpTo50((InRoubles(held[r].spend) * 30 + Lookback - 1) \div Lookback)]}
        /\ UNCHANGED faults
     \/ Fault /\ UNCHANGED invoices
  /\ Goto(r, "mail")
  /\ UNCHANGED <<balance, alerts, rates, day, held, spent, last, path, told, edited, notices,
                 doubled>>

Mail(r) ==
  /\ r \in Runs /\ pc[r] = "mail"
  /\ notices' = Append(notices, [day |-> day, balance |-> held[r].old, spend |-> held[r].spend])
  /\ Goto(r, "save")
  /\ UNCHANGED <<balance, alerts, rates, day, held, spent, last, invoices, path, told, edited,
                 doubled, faults>>

\* upsert of the notice; when it fails the next run does not know of it.
Save(r) ==
  /\ r \in Runs /\ pc[r] = "save"
  /\ \/ /\ last' = [day |-> day, balance |-> held[r].old, spend |-> held[r].spend]
        /\ UNCHANGED <<doubled, faults>>
     \/ Fault /\ doubled' = TRUE /\ UNCHANGED last
  /\ Goto(r, "done")
  /\ UNCHANGED <<balance, alerts, rates, day, held, spent, invoices, path, told, edited, notices>>

Next == \/ TopUp \/ NextDay \/ UpdateRates
        \/ \E q \in Requests :
             \/ Debit(q) \/ List(q) \/ Tell(q) \/ Break(q) \/ Edit(q)
             \/ Owners(q) \/ Sum(q) \/ Decide(q) \/ Invoice(q) \/ Mail(q) \/ Save(q)

Spec == Init /\ [][Next]_vars

-----------------------------------------------------------------------------
TypeOK == /\ day \in 0..MaxDay /\ faults \in 0..MaxFaults
          /\ \A a \in Alerts : told[a] \in Nat /\ alerts[a].limit \in Limits \cup {0}
          /\ \A q \in Requests : held[q].todo \subseteq Alerts

\* A limit nobody changed is told of exactly as often as the balance went from it or
\* above to below it without being used up, in whatever order the checks run.
CrossingsTold ==
  (\A d \in Debits : ~Busy(d)) =>
    \A a \in Alerts \ edited :
      told[a] = Cardinality({n \in 2..Len(path) :
                  path[n - 1] >= alerts[a].limit /\ path[n] < alerts[a].limit /\ path[n] > 0})

\* When runs did not overlap and every notice was kept, a notice follows another after
\* the days of the cooldown or a drop of the forecast; an invoice issued with the rates
\* at hand covers a month at the burn it was made for.
NoticesInTurn ==
  /\ ~doubled => \A n \in 2..Len(notices) :
       \/ notices[n].day - notices[n - 1].day >= Cooldown
       \/ Fell(notices[n - 1], notices[n].balance, notices[n].spend)
  /\ \A i \in invoices : i.known =>
       IF i.why = "runway" THEN i.rub * Lookback >= i.least ELSE i.rub >= i.least
================================================================================
