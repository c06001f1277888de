------------------------------ MODULE Closing ------------------------------
(***************************************************************************)
(* The monthly closing of one organization: ClosingService turns the usage *)
(* of a period into one UPD document and drafts it in SBIS.                *)
(*                                                                         *)
(* The cron job and the admin endpoint call closeForOrganization, each     *)
(* statement of which is a step of its own; the draft is made in the       *)
(* background and lost on a restart.  A billing record stands for one unit *)
(* of usage and, once its rate is snapshotted, for one unit of RUB.        *)
(***************************************************************************)
EXTENDS Naturals, FiniteSets

CONSTANTS Runs,            \* calls of closeForOrganization for the period
          DryRuns,         \* those that only preview
          Records,         \* billing records of the tenant in the period
          SbisConfigured,  \* what the check for the SBIS settings may find
          MaxRestarts,     \* bound
          MaxFaults        \* bound: calls and drafts that fail

ASSUME ClosingConstants ==
    /\ DryRuns \subseteq Runs /\ IsFiniteSet(Records)
    /\ SbisConfigured \subseteq BOOLEAN
    /\ MaxRestarts \in Nat /\ MaxFaults \in Nat

VARIABLES rate,      \* the rates table can convert USD to RUB
          records,   \* none, charged (amountCurrency null), snapped, or refunded
          upds,      \* organization_documents rows of type upd for the period
          drafts,    \* external: drafts SBIS has, by the run that asked for one
          drafting,  \* background tasks: the run each works for and how far it is
          pc,
          run,       \* locals of a run
          restarts,
          faults

vars == <<rate, records, upds, drafts, drafting, pc, run, restarts, faults>>

-----------------------------------------------------------------------------
In(state) == {x \in Records : records[x] = state}

Goto(r, label) == pc' = [pc EXCEPT ![r] = label]

Active == {r \in Runs : pc[r] \notin {"idle", "done"}}

\* run.rivals and run.quiet are no locals: the runs that were under way at some
\* time of this one, and whether the records have stayed as they were, with a
\* rate to convert them.
NewRun == [usd |-> 0, rub |-> 0, rivals |-> {}, quiet |-> FALSE]

Disturbed == [r \in Runs |-> [run[r] EXCEPT !.quiet = FALSE]]

-----------------------------------------------------------------------------
\* A charge: captureSnapshot has no amount in RUB when there is no rate.
ChargeUsage(x) ==
    /\ records[x] = "none"
    /\ records' = [records EXCEPT ![x] = IF rate THEN "snapped" ELSE "charged"]
    /\ run' = Disturbed
    /\ UNCHANGED <<rate, upds, drafts, drafting, pc, restarts, faults>>

\* deleteReport destroys the records it gives the money back for.
RefundUsage(x) ==
    /\ records[x] \in {"charged", "snapped"}
    /\ records' = [records EXCEPT ![x] = "refunded"]
    /\ run' = Disturbed
    /\ UNCHANGED <<rate, upds, drafts, drafting, pc, restarts, faults>>

\* External: the daily rates update has fetched the currency.
RateArrives ==
    /\ ~rate
    /\ rate' = TRUE
    /\ UNCHANGED <<records, upds, drafts, drafting, pc, run, restarts, faults>>

\* Mutant: the period's UPD is not looked for.
BeginAnyway(r) ==
    /\ pc[r] = "idle"
    /\ run' = [q \in Runs |->
                 IF q = r THEN [NewRun EXCEPT !.rivals = Active, !.quiet = rate]
                 ELSE IF q \in Active THEN [run[q] EXCEPT !.rivals = @ \cup {r}]
                 ELSE run[q]]
    /\ Goto(r, "backfilling")
    /\ UNCHANGED <<rate, records, upds, drafts, drafting, restarts, faults>>

\* closeForOrganization: the lookup and the return already_exists.
Begin(r) ==
    /\ pc[r] = "idle"
    /\ run' = [q \in Runs |->
                 IF q = r THEN [NewRun EXCEPT !.rivals = Active, !.quiet = rate]
                 ELSE IF q \in Active THEN [run[q] EXCEPT !.rivals = @ \cup {r}]
                 ELSE run[q]]
    /\ Goto(r, IF upds # {} /\ r \notin DryRuns THEN "done" ELSE "backfilling")
    /\ UNCHANGED <<rate, records, upds, drafts, drafting, restarts, faults>>

\* Mutant: no backfill before the sums.
SkipBackfill(r) ==
    /\ pc[r] = "backfilling"
    /\ Goto(r, "summing usd")
    /\ UNCHANGED <<rate, records, upds, drafts, drafting, run, restarts, faults>>

\* backfillMissingForPeriod: the records without an amount in RUB get one, at the
\* rate of now; without a rate they stay as they are.
Backfill(r) ==
    /\ pc[r] = "backfilling"
    /\ records' = [x \in Records |->
                     IF rate /\ records[x] = "charged" THEN "snapped" ELSE records[x]]
    /\ Goto(r, "summing usd")
    /\ UNCHANGED <<rate, upds, drafts, drafting, run, restarts, faults>>

\* Without usage there is nothing to close: zero_usage.
SumUsd(r) ==
    LET usd == Cardinality(In("charged") \cup In("snapped")) IN
    /\ pc[r] = "summing usd"
    /\ run' = [run EXCEPT ![r].usd = usd]
    /\ Goto(r, IF usd = 0 THEN "done" ELSE "summing rub")
    /\ UNCHANGED <<rate, records, upds, drafts, drafting, restarts, faults>>

\* A dry run returns its figures, a run without SBIS settings its reason.
SumRub(r) ==
    /\ pc[r] = "summing rub"
    /\ run' = [run EXCEPT ![r].rub = Cardinality(In("snapped"))]
    /\ \E configured \in SbisConfigured :
          Goto(r, IF r \notin DryRuns /\ configured THEN "issuing" ELSE "done")
    /\ UNCHANGED <<rate, records, upds, drafts, drafting, restarts, faults>>

\* The insert, in a transaction of its own, and enqueueUpdSbisDraft.
IssueUpd(r) ==
    /\ pc[r] = "issuing"
    /\ upds' = upds \cup {[by |-> r, usd |-> run[r].usd, rub |-> run[r].rub, sbis |-> "none"]}
    /\ drafting' = drafting \cup {[by |-> r, at |-> "creating"]}
    /\ Goto(r, "done")
    /\ UNCHANGED <<rate, records, drafts, run, restarts, faults>>

\* A run that throws: a statement fails, or the tenant has no issuer.
RunFails(r) ==
    /\ r \in Active
    /\ faults < MaxFaults
    /\ faults' = faults + 1
    /\ Goto(r, "done")
    /\ UNCHANGED <<rate, records, upds, drafts, drafting, run, restarts>>

-----------------------------------------------------------------------------
\* docModel.update of the row of a run, which may be gone by then.
Mark(r, state) ==
    upds' = {IF d.by = r THEN [d EXCEPT !.sbis = state] ELSE d : d \in upds}

\* createUpdDraft: SBIS stores the document, then its attachment is written.
CreateDraft(t) ==
    /\ t.at = "creating"
    /\ drafts' = drafts \cup {t.by}
    /\ drafting' = (drafting \ {t}) \cup {[t EXCEPT !.at = "recording"]}
    /\ UNCHANGED <<rate, records, upds, pc, run, restarts, faults>>

RecordDraft(t) ==
    /\ t.at = "recording"
    /\ Mark(t.by, "draft")
    /\ drafting' = drafting \ {t}
    /\ UNCHANGED <<rate, records, drafts, pc, run, restarts, faults>>

\* Mutant: the row gets the state of a failed request, not one of its own.
DraftFailsAsError(t) ==
    /\ faults < MaxFaults
    /\ faults' = faults + 1
    /\ Mark(t.by, "error")
    /\ drafting' = drafting \ {t}
    /\ UNCHANGED <<rate, records, drafts, pc, run, restarts>>

\* Mutant: the failure is only logged.
DraftFailsSilently(t) ==
    /\ faults < MaxFaults
    /\ faults' = faults + 1
    /\ drafting' = drafting \ {t}
    /\ UNCHANGED <<rate, records, upds, drafts, pc, run, restarts>>

\* The catch of enqueueUpdSbisDraft.  Nothing tries again: the retry task leaves
\* UPDs out, and the next closing finds the row.
DraftFails(t) ==
    /\ faults < MaxFaults
    /\ faults' = faults + 1
    /\ Mark(t.by, "failed")
    /\ drafting' = drafting \ {t}
    /\ UNCHANGED <<rate, records, drafts, pc, run, restarts>>

\* deleteDocument by an administrator.
DeleteUpd(d) ==
    /\ upds' = upds \ {d}
    /\ UNCHANGED <<rate, records, drafts, drafting, pc, run, restarts, faults>>

Restart ==
    /\ restarts < MaxRestarts
    /\ restarts' = restarts + 1
    /\ pc' = [r \in Runs |-> IF r \in Active THEN "done" ELSE pc[r]]
    /\ drafting' = {}
    /\ UNCHANGED <<rate, records, upds, drafts, run, faults>>

-----------------------------------------------------------------------------
Init ==
    /\ rate \in BOOLEAN
    /\ records = [x \in Records |-> "none"]
    /\ upds = {}
    /\ drafts = {}
    /\ drafting = {}
    /\ pc = [r \in Runs |-> "idle"]
    /\ run = [r \in Runs |-> NewRun]
    /\ restarts = 0
    /\ faults = 0

Step(r) == Begin(r) \/ Backfill(r) \/ SumUsd(r) \/ SumRub(r) \/ IssueUpd(r)

Next ==
    \/ \E x \in Records : ChargeUsage(x) \/ RefundUsage(x)
    \/ RateArrives
    \/ \E r \in Runs : Step(r) \/ RunFails(r)
    \/ \E t \in drafting : CreateDraft(t) \/ RecordDraft(t) \/ DraftFails(t)
    \/ \E d \in upds : DeleteUpd(d)
    \/ Restart

Spec == Init /\ [][Next]_vars

\* A background task that runs gets an answer from SBIS, or a timeout, and
\* finishes; nobody has to start a run.
FairSpec ==
    /\ Spec
    /\ \A r \in Runs : WF_vars(\E t \in drafting :
                                  t.by = r /\ (CreateDraft(t) \/ RecordDraft(t)))

-----------------------------------------------------------------------------
\* Rows and locals keep their shapes.
TypeOK ==
    /\ rate \in BOOLEAN
    /\ records \in [Records -> {"none", "charged", "snapped", "refunded"}]
    /\ upds \subseteq [by : Runs, usd : Nat, rub : Nat, sbis : {"none", "draft", "failed"}]
    /\ drafts \subseteq Runs
    /\ drafting \subseteq [by : Runs, at : {"creating", "recording"}]
    /\ pc \in [Runs -> {"idle", "backfilling", "summing usd", "summing rub", "issuing", "done"}]
    /\ run \in [Runs -> [usd : Nat, rub : Nat, rivals : SUBSET Runs, quiet : BOOLEAN]]

\* A period is closed twice only by two runs that overlap: the lookup for the UPD
\* and its insert are not one step, and no index stands behind them.
DuplicatesOverlap ==
    \A x, y \in upds : x.by # y.by => x.by \in run[y.by].rivals \/ y.by \in run[x.by].rivals

\* Rows and locals in their shapes, and a second UPD only of runs that overlapped.
ClosingSound == TypeOK /\ DuplicatesOverlap

\* A UPD bills in RUB every record it counts in USD, when a rate was there at the
\* start and no record came or went: the backfill leaves nothing out of the sum.
BilledInRoubles == \A d \in upds : run[d.by].quiet => d.rub = d.usd

\* Without a restart no UPD stays undecided: its row says drafted or failed in the
\* end, or has been deleted.
UpdSettles ==
    \A r \in Runs : (\E d \in upds : d.by = r /\ d.sbis = "none")
        ~> (restarts > 0 \/ ~ \E d \in upds : d.by = r /\ d.sbis = "none")

\* "One upd per organization and period (idempotent)", BILLING_LEGAL_ENTITIES.md.
OneUpdPerPeriod == Cardinality(upds) <= 1
=============================================================================
