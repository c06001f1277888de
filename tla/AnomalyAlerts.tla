------------------------------ MODULE AnomalyAlerts ------------------------------
(***************************************************************************)
(* The daily check of a project's calls for a drop of the customers'       *)
(* ratings or a spike of negative calls, the notice it sends by mail,      *)
(* Telegram and webhook, the test notice a user may ask for, and the       *)
(* settings, which edits and test notices write as one JSON column.        *)
(*                                                                         *)
(* A day is the time between two runs of the cron; a clock of its own      *)
(* measures the pause between test notices.                                *)
(***************************************************************************)
EXTENDS Integers, Sequences, SequencesExt, FiniteSets, FiniteSetsExt

CONSTANTS Checks, Tests, Edits,
          Configs,          \* settings a client may send
          Digest, Legacy,   \* recipients of the digest; mails of budget alerts
          Webhook,          \* whether the project has one for anomalies
          Days,             \* what a day may bring: [calls, rated, stars, negative]
          AnomalyEnabled,   \* OPERATOR_ANOMALY_ENABLED, which no code reads
          Cap, Pause,       \* recipients of each kind; between two tests
          Casts, MaxDays, MaxClock, MaxFaults   \* bounds

VARIABLES settings,         \* alertConfig, with the time of the last test
          last,             \* anomalyLastAlertAt, 0 for none
          days, clock, pc, held,
          notices,          \* history: [day, window] of the notices that reached someone
          silent,           \* history: those that reached nobody
          due,              \* history: those a check found a reason for
          tests,            \* history: clock of the test notices since the last clearing
          wanted,           \* history: the settings as the last edit left them
          crossed, faults   \* history: settings were written by overlapping requests; bound

vars == <<settings, last, days, clock, pc, held, notices, silent, due, tests, wanted,
          crossed, faults>>

-----------------------------------------------------------------------------
Never == -1
Rule(on, bound, window, least) == [on |-> on, bound |-> bound, window |-> window, least |-> least]
Nobody == [emails |-> <<>>, chats |-> <<>>]
\* defaultAlertConfigFromEnv
Off == [enabled |-> FALSE, inherit |-> TRUE, own |-> Nobody, test |-> Never,
        csat |-> Rule(TRUE, 20, 1, 1), negative |-> Rule(TRUE, 15, 1, 1)]

Actors == Checks \cup Tests \cup Edits
Goto(a, label) == pc' = [pc EXCEPT ![a] = label]
Busy(set) == {a \in set : pc[a] \notin {"idle", "done"}}
Fault == faults < MaxFaults /\ faults' = faults + 1
Most(a, b)  == IF a > b THEN a ELSE b
First(n, s) == SubSeq(s, 1, IF Len(s) < n THEN Len(s) ELSE n)

\* resolveAlertRecipients
Recipients(cfg) ==
  LET own == IF cfg.inherit THEN Digest ELSE cfg.own
  IN  [emails |-> First(Cap, own.emails \o SelectSeq(Legacy, LAMBDA e : e \notin ToSet(own.emails))),
       chats  |-> First(Cap, own.chats)]
HasSome(r) == r.emails # <<>> \/ r.chats # <<>>

Init == /\ settings \in {[c EXCEPT !.test = Never] : c \in Configs \cup {Off}}
        /\ last = 0 /\ days = <<>> /\ clock = 0
        /\ \E cast \in Casts : pc = [a \in Actors |-> IF a \in cast THEN "idle" ELSE "done"]
        /\ held = [a \in Actors |-> [cfg |-> Off, last |-> 0, day |-> 0]]
        /\ notices = {} /\ silent = {} /\ due = {} /\ tests = <<>>
        /\ wanted = settings /\ crossed = FALSE /\ faults = 0

-----------------------------------------------------------------------------
(* The daily check                                                         *)

\* Days pass while a check is to come, and the clock runs while a test is.
NextDay ==
  /\ Len(days) < MaxDays /\ Busy(Checks) = {} /\ \E c \in Checks : pc[c] = "idle"
  /\ \E d \in Days : days' = Append(days, d)
  /\ clock' = clock + Pause
  /\ UNCHANGED <<settings, last, pc, held, notices, silent, due, tests, wanted, crossed, faults>>

\* computeAnomalyWindowStats of the k-th window back: the calls, and in hundredths the
\* mean rating and the share of negative calls.  Calls of low quality are counted, and
\* neither rated nor negative.
Stats(k, w) ==
  LET ds == {d \in DOMAIN days : Len(days) - k * w < d /\ d <= Len(days) - (k - 1) * w}
      n  == MapThenSumSet(LAMBDA d : days[d].calls, ds)
      r  == MapThenSumSet(LAMBDA d : days[d].rated, ds)
      s  == MapThenSumSet(LAMBDA d : days[d].stars, ds)
      g  == MapThenSumSet(LAMBDA d : days[d].negative, ds)
  IN  [count |-> n,
       csat  |-> IF r = 0 THEN Never ELSE (200 * s + r) \div (2 * r),
       rate  |-> IF n = 0 THEN 0 ELSE (20000 * g + n) \div (2 * n)]

Product(cfg) == cfg.enabled /\ (cfg.csat.on \/ cfg.negative.on)
EvalCsat(cfg)     == Product(cfg) => cfg.csat.on
EvalNegative(cfg) == Product(cfg) => cfg.negative.on
\* One window and one least number of calls for both rules.
Window(cfg) == Most(IF EvalCsat(cfg) THEN cfg.csat.window ELSE 0,
                    IF EvalNegative(cfg) THEN cfg.negative.window ELSE 0)
Least(cfg)  == IF EvalCsat(cfg) /\ (EvalNegative(cfg) => cfg.csat.least <= cfg.negative.least)
               THEN cfg.csat.least ELSE cfg.negative.least

Triggered(cfg) ==
  LET recent == Stats(1, Window(cfg)) base == Stats(2, Window(cfg)) IN
  /\ recent.count >= Least(cfg) /\ base.count >= Least(cfg)
  /\ \/ /\ EvalCsat(cfg) /\ base.csat > 0 /\ recent.csat # Never
        /\ (base.csat - recent.csat) * 100 >= cfg.csat.bound * base.csat
     \/ EvalNegative(cfg) /\ recent.rate - base.rate >= 100 * cfg.negative.bound

\* The cron runs once a day: a run at the end of day n is the check of that day.
Begin(c) ==
  /\ c \in Checks /\ pc[c] = "idle" /\ Busy(Checks) = {}
  /\ days # <<>> /\ \A x \in Checks : held[x].day # Len(days)
  /\ held' = [held EXCEPT ![c] = [cfg |-> settings, last |-> last, day |-> Len(days)]]
  /\ Goto(c, IF Product(settings) \/ Webhook THEN "compare" ELSE "done")
  /\ UNCHANGED <<settings, last, days, clock, notices, silent, due, tests, wanted, crossed, faults>>

Event(c) == [day |-> Len(days), window |-> Window(held[c].cfg)]

\* A notice within the window silences this one; one that is exactly a window old may,
\* as the cron does not start to the millisecond.
\* Mutant: a notice is not silenced by an earlier one.
CompareAnyway(c) ==
  /\ c \in Checks /\ pc[c] = "compare"
  /\ IF Triggered(held[c].cfg)
     THEN due' = due \cup {Event(c)} /\ Goto(c, "stamp")
     ELSE Goto(c, "done") /\ UNCHANGED due
  /\ UNCHANGED <<settings, last, days, clock, held, notices, silent, tests, wanted, crossed, faults>>

Compare(c) ==
  LET from == Len(days) - Window(held[c].cfg) IN
  /\ c \in Checks /\ pc[c] = "compare"
  /\ IF Triggered(held[c].cfg)
     THEN /\ due' = due \cup {Event(c)}
          /\ \/ (held[c].last = 0 \/ held[c].last <= from) /\ Goto(c, "stamp")
             \/ held[c].last # 0 /\ held[c].last >= from /\ Goto(c, "done")
     ELSE Goto(c, "done") /\ UNCHANGED due
  /\ UNCHANGED <<settings, last, days, clock, held, notices, silent, tests, wanted, crossed, faults>>

\* The day is written before anything is sent.
Stamp(c) ==
  /\ c \in Checks /\ pc[c] = "stamp"
  /\ last' = Len(days)
  /\ silent' = silent \cup {Event(c)}
  /\ Goto(c, IF Product(held[c].cfg) THEN "mail" ELSE "hook")
  /\ UNCHANGED <<settings, days, clock, held, notices, due, tests, wanted, crossed, faults>>

\* sendCriticalAlert: mails, then messages, each of which may fail by itself.
Mail(c) ==
  /\ c \in Checks /\ pc[c] = "mail"
  /\ \/ /\ HasSome(Recipients(held[c].cfg)) /\ notices' = notices \cup {Event(c)}
        /\ silent' = silent \ {Event(c)} /\ UNCHANGED faults
     \/ ~HasSome(Recipients(held[c].cfg)) /\ UNCHANGED <<notices, silent, faults>>
     \/ Fault /\ UNCHANGED <<notices, silent>>
  /\ Goto(c, IF Webhook THEN "hook" ELSE "done")
  /\ UNCHANGED <<settings, last, days, clock, held, due, tests, wanted, crossed>>

\* callWebhook: three attempts, then it is given up.
Hook(c) ==
  /\ c \in Checks /\ pc[c] = "hook"
  /\ \/ notices' = notices \cup {Event(c)} /\ silent' = silent \ {Event(c)} /\ UNCHANGED faults
     \/ Fault /\ UNCHANGED <<notices, silent>>
  /\ Goto(c, "done")
  /\ UNCHANGED <<settings, last, days, clock, held, due, tests, wanted, crossed>>

\* A statement fails or the process stops: the rest is not taken up again.
Stop(a) ==
  /\ a \in Busy(Actors) /\ Fault
  /\ crossed' = (crossed \/ a \in Tests)
  /\ Goto(a, "done")
  /\ UNCHANGED <<settings, last, days, clock, held, notices, silent, due, tests, wanted>>

-----------------------------------------------------------------------------
(* The settings                                                            *)

Tick ==
  /\ clock < MaxClock /\ clock' = clock + 1 /\ \E t \in Tests : pc[t] # "done"
  /\ UNCHANGED <<settings, last, days, pc, held, notices, silent, due, tests, wanted, crossed, faults>>

Overlaps(a) == crossed' = (crossed \/ Busy((Tests \cup Edits) \ {a}) # {})

\* sendTestAlert: refused when alerts are off, have no recipients, or just after another.
Ask(t) ==
  /\ t \in Tests /\ pc[t] = "idle"
  /\ held' = [held EXCEPT ![t].cfg = settings]
  /\ Goto(t, IF /\ settings.enabled /\ HasSome(Recipients(settings))
                /\ settings.test = Never \/ clock - settings.test >= Pause
             THEN "send" ELSE "done")
  /\ Overlaps(t)
  /\ UNCHANGED <<settings, last, days, clock, notices, silent, due, tests, wanted, faults>>

\* deliver; a test that reaches nobody is an error and not remembered.
Send(t) ==
  /\ t \in Tests /\ pc[t] = "send"
  /\ \/ tests' = Append(tests, clock) /\ Goto(t, "keep") /\ UNCHANGED faults
     \/ Fault /\ Goto(t, "done") /\ UNCHANGED tests
  /\ UNCHANGED <<settings, last, days, clock, held, notices, silent, due, wanted, crossed>>

\* The settings are saved as they were loaded, with the time.
Keep(t) ==
  /\ t \in Tests /\ pc[t] = "keep"
  /\ settings' = [held[t].cfg EXCEPT !.test = clock]
  /\ Goto(t, "done")
  /\ UNCHANGED <<last, days, clock, held, notices, silent, due, tests, wanted, crossed, faults>>

\* updateProject
Open(e) ==
  /\ e \in Edits /\ pc[e] = "idle"
  /\ held' = [held EXCEPT ![e].cfg = settings]
  /\ Goto(e, "save") /\ Overlaps(e)
  /\ UNCHANGED <<settings, last, days, clock, notices, silent, due, tests, wanted, faults>>

Refused(cfg) == cfg.enabled /\ ~cfg.inherit /\ ~HasSome(cfg.own)

\* Mutant: the time of the last test is taken from the client, which has none.
SaveAsSent(e) ==
  /\ e \in Edits /\ pc[e] = "save"
  /\ \E c \in Configs :
       IF Refused(c) THEN UNCHANGED <<settings, wanted>>
       ELSE settings' = [c EXCEPT !.test = Never] /\ wanted' = settings'
  /\ Goto(e, "done")
  /\ UNCHANGED <<last, days, clock, held, notices, silent, due, tests, crossed, faults>>

\* prepareAlertConfigForSave: the time of the last test stays.
Save(e) ==
  /\ e \in Edits /\ pc[e] = "save"
  /\ \E c \in Configs :
       IF Refused(c) THEN UNCHANGED <<settings, wanted>>
       ELSE settings' = [c EXCEPT !.test = held[e].cfg.test] /\ wanted' = settings'
  /\ Goto(e, "done")
  /\ UNCHANGED <<last, days, clock, held, notices, silent, due, tests, crossed, faults>>

\* Settings sent as null: nothing is left of them.
Clear(e) ==
  /\ e \in Edits /\ pc[e] = "save"
  /\ settings' = Off /\ wanted' = Off /\ tests' = <<>>
  /\ Goto(e, "done")
  /\ UNCHANGED <<last, days, clock, held, notices, silent, due, crossed, faults>>

Next == \/ NextDay \/ Tick
        \/ \E a \in Actors :
             \/ Begin(a) \/ Compare(a) \/ Stamp(a) \/ Mail(a) \/ Hook(a) \/ Stop(a)
             \/ Ask(a) \/ Send(a) \/ Keep(a) \/ Open(a) \/ Save(a) \/ Clear(a)

Spec == Init /\ [][Next]_vars

-----------------------------------------------------------------------------
TypeOK == /\ settings.test \in Nat \cup {Never} /\ last \in 0..MaxDays
          /\ \A n \in notices \cup silent \cup due : n.day \in 1..MaxDays /\ n.window \in Nat
          /\ faults \in 0..MaxFaults

\* Notices keep a window apart, and what a check finds is told within the window it
\* looked at, unless the notice that silenced it reached nobody or something failed.
NoticesInTurn ==
  /\ \A m, n \in notices : m.day < n.day => n.day - m.day >= n.window
  /\ \A n \in due : (\A c \in Checks : held[c].day = n.day => pc[c] = "done") /\ faults = 0 =>
       \E m \in notices \cup silent : n.day - n.window <= m.day /\ m.day <= n.day

\* When edits and test notices did not overlap, the settings are those the last edit
\* asked for, and test notices keep their pause although edits write the same column.
SettingsKept ==
  ~crossed /\ Busy(Tests) = {} =>
     /\ [settings EXCEPT !.test = Never] = [wanted EXCEPT !.test = Never]
     /\ \A i, j \in DOMAIN tests : i < j => tests[j] - tests[i] >= Pause

\* The documentation switches the check on with OPERATOR_ANOMALY_ENABLED, off by default.
QuietUnlessEnabled == AnomalyEnabled \/ notices = {}
================================================================================
