---------------------------- MODULE OperatorJobs ----------------------------
(***************************************************************************)
(* Operator analytics: recordings of one tenant are uploaded, transcribed, *)
(* analysed, charged and stored by background jobs; an analysis can be     *)
(* regenerated on request; the reaper ends what is stuck in processing and *)
(* the retention task deletes what is old.                                 *)
(*                                                                         *)
(* A job is a process that awaits the database, the STT provider or the    *)
(* model between two steps.  An analysis costs one unit, tokens and        *)
(* minutes are not told apart.                                             *)
(***************************************************************************)
EXTENDS Integers, Sequences, FiniteSets, SequencesExt, FiniteSetTheorems, TLAPS

CONSTANTS Urls,          \* records created from a URL, each with a job of its own
          Files,         \* records of one batch of files
          Regenerations, \* requests to regenerate
          Target,        \* the record they are for
          Alike,         \* records whose audio has one SHA-256
          Dedup,         \* OPERATOR_DEDUP_BY_HASH
          ReplaceCost,   \* OPERATOR_REGEN_REPLACE_COST
          Opening,       \* balance
          MaxClock,      \* bound: milliseconds
          MaxFaults      \* bound: awaits that fail, and restarts

VARIABLES status,    \* operator_analytics.status; none when there is no row
          aged,      \* records older than the reaper's cutoff
          cdr,       \* AiCdr.cost, or NoCdr
          analysed,  \* records with an AiAnalytics row
          bills,     \* BillingRecord rows by record
          ledger,    \* the keys of the debits
          balance,
          clock,     \* Date.now()
          pc,
          held,      \* the CDR a regeneration has loaded
          batch,     \* the batch in memory: position, completed, failed
          sweep,     \* the retention run: its position and the ids it picked
          debits,    \* history: debits made for a record
          touched,   \* history: records that lost a write, a debit or a race
          faults,
          crashed    \* history: the process was restarted

\* A record is created from a URL or from a file; a request is none of them.
ASSUME JobsAssumption ==
    /\ IsFiniteSet(Files) /\ Urls \cap Files = {}
    /\ Target \in Urls \cup Files /\ Regenerations \cap (Urls \cup Files) = {}
    /\ Dedup \in BOOLEAN /\ ReplaceCost \in BOOLEAN
    /\ MaxClock \in Nat

vars == <<status, aged, cdr, analysed, bills, ledger, balance, clock, pc, held, batch, sweep,
          debits, touched, faults, crashed>>

rows == <<status, cdr, analysed, bills>>
money == <<ledger, balance, debits>>

------------------------
Batch   == SetToSeq(Files)                  \* in the order of the upload
Records == Urls \cup Files
Jobs    == Records \cup Regenerations       \* an upload's job is named after its record
NoCdr   == -1
Of(j)   == IF j \in Records THEN j ELSE Target

Goto(j, label) == pc' = [pc EXCEPT ![j] = label]
Resting == {"idle", "created", "done", "lost"}
Running == {j \in Jobs : pc[j] \notin Resting}
Working(r) == {j \in Running : Of(j) = r}

\* What the errors of the pipeline and of the outer catch do to the record: an
\* update of a row that is gone changes nothing.
SetStatus(r, s) == status' = [status EXCEPT ![r] = IF @ = "none" THEN "none" ELSE s]

------------------------
\* createProcessingRecord.
CreateRow(r) ==
    /\ pc[r] = "idle"
    /\ \A i \in DOMAIN Batch : Batch[i] = r => \A k \in 1 .. i - 1 : pc[Batch[k]] = "created"
    /\ status' = [status EXCEPT ![r] = "processing"]
    /\ Goto(r, IF r \in Urls THEN "checking" ELSE "created")
    /\ UNCHANGED <<aged, cdr, analysed, bills, money, clock, held, batch, sweep, touched, faults, crashed>>

\* startBatch: the items are processed one after the other.
StartBatch ==
    /\ batch.at = 0 /\ Batch # <<>>
    /\ \A r \in Files : pc[r] = "created"
    /\ batch' = [batch EXCEPT !.at = 1]
    /\ Goto(Batch[1], "checking")
    /\ UNCHANGED <<rows, aged, money, clock, held, sweep, touched, faults, crashed>>

\* Mutant: an item that failed is not counted.
FinishUncounted(r, outcome) ==
    IF r \in Files
    THEN /\ batch' = [batch EXCEPT !.completed = IF outcome = "failed" THEN @ ELSE @ + 1, !.at = @ + 1]
         /\ pc' = [j \in Jobs |->
                     IF j = r THEN "done"
                     ELSE IF batch.at < Len(Batch) /\ j = Batch[batch.at + 1] THEN "checking"
                     ELSE pc[j]]
    ELSE Goto(r, "done") /\ UNCHANGED batch

\* processBatchSequentially counts what processInBackground has returned and goes on.
Finish(r, outcome) ==
    IF r \in Files
    THEN /\ batch' = [batch EXCEPT ![outcome] = @ + 1, !.at = @ + 1]
         /\ pc' = [j \in Jobs |->
                     IF j = r THEN "done"
                     ELSE IF batch.at < Len(Batch) /\ j = Batch[batch.at + 1] THEN "checking"
                     ELSE pc[j]]
    ELSE Goto(r, "done") /\ UNCHANGED batch

\* The catch of each pipeline; a regeneration throws on.
Abandon(j) ==
    /\ SetStatus(Of(j), "error")
    /\ Finish(j, "failed")

\* checkBalance, at the head of the background job.
CheckBalance(j) ==
    /\ pc[j] = "checking"
    /\ IF balance > 0
       THEN Goto(j, "looking") /\ UNCHANGED <<status, batch>>
       ELSE Abandon(j)
    /\ UNCHANGED <<aged, cdr, analysed, bills, money, clock, held, sweep, touched, faults, crashed>>

\* findCompletedDuplicate.
Duplicates(r) ==
    {d \in Records \ {r} : {d, r} \subseteq Alike /\ status[d] = "completed"}

\* The lookup of a duplicate, and the target's row completed from the one found; a
\* source without CDR or analysis throws.
LookUp(j) ==
    /\ pc[j] = "looking"
    /\ \/ /\ ~Dedup \/ Duplicates(j) = {}
          /\ Goto(j, "transcribing")
          /\ UNCHANGED <<status, batch>>
       \/ /\ Dedup
          /\ \E d \in Duplicates(j) :
                IF cdr[d] # NoCdr /\ d \in analysed
                THEN SetStatus(j, "completed") /\ Goto(j, "copying") /\ UNCHANGED batch
                ELSE Abandon(j)
    /\ UNCHANGED <<aged, cdr, analysed, bills, money, clock, held, sweep, touched, faults, crashed>>

\* Mutant: the copy is billed like the analysis it was copied from.
CopyBilled(j) ==
    /\ pc[j] = "copying"
    /\ cdr' = [cdr EXCEPT ![j] = 1]
    /\ analysed' = analysed \cup {j}
    /\ bills' = [bills EXCEPT ![j] = @ + 1]
    /\ Finish(j, "completed")
    /\ UNCHANGED <<status, aged, money, clock, held, sweep, touched, faults, crashed>>

\* completeFromDuplicate's CDR and analysis, which cost nothing.
Copy(j) ==
    /\ pc[j] = "copying"
    /\ cdr' = [cdr EXCEPT ![j] = 0]
    /\ analysed' = analysed \cup {j}
    /\ Finish(j, "completed")
    /\ UNCHANGED <<status, aged, bills, money, clock, held, sweep, touched, faults, crashed>>

\* transcribePossiblyStereo and rejectIfUnusable: too short or too poor is an error.
Transcribe(j) ==
    /\ pc[j] = "transcribing"
    /\ \/ Goto(j, "analysing") /\ UNCHANGED <<status, batch>>
       \/ Abandon(j)
    /\ UNCHANGED <<aged, cdr, analysed, bills, money, clock, held, sweep, touched, faults, crashed>>

\* analyzeTranscription: an invalid answer is asked for once more, then it is an error.
Analyse(j) ==
    /\ pc[j] = "analysing"
    /\ \/ Goto(j, "charging") /\ UNCHANGED <<status, batch>>
       \/ Abandon(j)
    /\ UNCHANGED <<aged, cdr, analysed, bills, money, clock, held, sweep, touched, faults, crashed>>

\* chargeCost: the key is the millisecond and the tenant. decrementUserBalance takes
\* a key it knows for a retry and debits nothing.
Charge(j) ==
    /\ pc[j] = "charging"
    /\ IF clock \in ledger
       THEN /\ touched' = touched \cup {Of(j)}
            /\ UNCHANGED money
       ELSE /\ ledger' = ledger \cup {clock}
            /\ balance' = balance - 1
            /\ debits' = [debits EXCEPT ![Of(j)] = @ + 1]
            /\ UNCHANGED touched
    /\ Goto(j, "completing")
    /\ UNCHANGED <<rows, aged, clock, held, batch, sweep, faults, crashed>>

\* record.update({ status: COMPLETED }), whatever the reaper has made of the row.
Complete(j) ==
    /\ pc[j] = "completing"
    /\ SetStatus(Of(j), "completed")
    /\ Goto(j, "storing")
    /\ UNCHANGED <<aged, cdr, analysed, bills, money, clock, held, batch, sweep, touched, faults, crashed>>

\* The CDR: created by an upload, updated from the loaded one by a regeneration.
Store(j) ==
    /\ pc[j] = "storing"
    /\ cdr' = [cdr EXCEPT ![Of(j)] =
                 IF j \in Records THEN 1
                 ELSE IF @ = NoCdr THEN NoCdr
                 ELSE IF ReplaceCost THEN 1 ELSE held[j] + 1]
    /\ Goto(j, "annotating")
    /\ UNCHANGED <<status, aged, analysed, bills, money, clock, held, batch, sweep, touched, faults, crashed>>

Annotate(j) ==
    /\ pc[j] = "annotating"
    /\ analysed' = analysed \cup {Of(j)}
    /\ Goto(j, "billing")
    /\ UNCHANGED <<status, aged, cdr, bills, money, clock, held, batch, sweep, touched, faults, crashed>>

Bill(j) ==
    /\ pc[j] = "billing"
    /\ bills' = [bills EXCEPT ![Of(j)] = @ + 1]
    /\ Finish(j, "completed")
    /\ UNCHANGED <<status, aged, cdr, analysed, money, clock, held, sweep, touched, faults, crashed>>

------------------------
\* regenerateAnalysis loads the record and its CDR and checks the balance. Two that
\* overlap, or one that overlaps the upload's job, work from the same CDR.
Load(j) ==
    /\ pc[j] = "idle"
    /\ status[Of(j)] # "none" /\ cdr[Of(j)] # NoCdr /\ balance > 0
    /\ held' = [held EXCEPT ![j] = cdr[Of(j)]]
    /\ touched' = IF Working(Of(j)) = {} /\ Of(j) \notin sweep.ids
                  THEN touched ELSE touched \cup {Of(j)}
    /\ Goto(j, "reopening")
    /\ UNCHANGED <<rows, aged, money, clock, batch, sweep, faults, crashed>>

Reopen(j) ==
    /\ pc[j] = "reopening"
    /\ SetStatus(Of(j), "processing")
    /\ Goto(j, "transcribing")
    /\ UNCHANGED <<aged, cdr, analysed, bills, money, clock, held, batch, sweep, touched, faults, crashed>>

\* A request, a query or a download fails: the record becomes an error, what was
\* written before stays.
Fail(j) ==
    /\ j \in Running /\ faults < MaxFaults
    /\ pc[j] # "reopening"
    /\ faults' = faults + 1
    /\ touched' = touched \cup {Of(j)}
    /\ Abandon(j)
    /\ UNCHANGED <<aged, cdr, analysed, bills, money, clock, held, sweep, crashed>>

\* A restart forgets the jobs, the batch and the retention run.
Crash ==
    /\ faults < MaxFaults
    /\ faults' = faults + 1
    /\ crashed' = TRUE
    /\ pc' = [j \in Jobs |-> IF pc[j] \in {"idle", "done"} THEN pc[j] ELSE "lost"]
    /\ touched' = touched \cup {Of(j) : j \in Running} \cup sweep.ids
    /\ batch' = [batch EXCEPT !.at = Len(Batch) + 1]
    /\ sweep' = [at |-> "idle", ids |-> {}]
    /\ UNCHANGED <<rows, aged, money, clock, held>>

------------------------
\* Time: milliseconds, and minutes enough for a row to pass the cutoff.
Tick ==
    /\ clock < MaxClock
    /\ clock' = clock + 1
    /\ UNCHANGED <<rows, aged, money, pc, held, batch, sweep, touched, faults, crashed>>

Age(r) ==
    /\ status[r] # "none" /\ r \notin aged
    /\ aged' = aged \cup {r}
    /\ UNCHANGED <<rows, money, clock, pc, held, batch, sweep, touched, faults, crashed>>

\* Mutant: the comparison with the cutoff the wrong way round.
ReapFresh ==
    /\ \E r \in Records \ aged : status[r] = "processing"
    /\ status' = [r \in Records |->
                    IF status[r] = "processing" /\ r \notin aged THEN "error" ELSE status[r]]
    /\ UNCHANGED <<aged, cdr, analysed, bills, money, clock, pc, held, batch, sweep, touched, faults, crashed>>

\* reapStuckProcessing, every ten minutes: one UPDATE.
Reap ==
    /\ \E r \in aged : status[r] = "processing"
    /\ status' = [r \in Records |->
                    IF status[r] = "processing" /\ r \in aged THEN "error" ELSE status[r]]
    /\ UNCHANGED <<aged, cdr, analysed, bills, money, clock, pc, held, batch, sweep, touched, faults, crashed>>

\* applyRetention in delete mode: the ids, then the analyses, the CDRs and the rows.
\* Billing records stay.
Retire ==
    LET next == CASE sweep.at = "idle" -> "analyses" [] sweep.at = "analyses" -> "cdrs"
                  [] sweep.at = "cdrs" -> "rows"     [] sweep.at = "rows"     -> "idle"
        ids  == IF sweep.at = "idle" THEN {r \in aged : status[r] # "none"} ELSE sweep.ids IN
    /\ ids # {}
    /\ sweep' = [at |-> next, ids |-> IF next = "idle" THEN {} ELSE ids]
    /\ analysed' = IF sweep.at = "analyses" THEN analysed \ ids ELSE analysed
    /\ cdr' = IF sweep.at = "cdrs" THEN [r \in Records |-> IF r \in ids THEN NoCdr ELSE cdr[r]] ELSE cdr
    /\ status' = IF sweep.at = "rows"
                 THEN [r \in Records |-> IF r \in ids THEN "none" ELSE status[r]] ELSE status
    /\ touched' = touched \cup {r \in ids : Working(r) # {} \/ pc[r] = "created"}
    /\ UNCHANGED <<aged, bills, money, clock, pc, held, batch, faults, crashed>>

------------------------
Init ==
    /\ status = [r \in Records |-> "none"]
    /\ aged = {} /\ analysed = {} /\ ledger = {} /\ touched = {}
    /\ cdr = [r \in Records |-> NoCdr]
    /\ bills = [r \in Records |-> 0] /\ debits = [r \in Records |-> 0]
    /\ balance = Opening /\ clock = 0
    /\ pc = [j \in Jobs |-> "idle"]
    /\ held = [j \in Regenerations |-> 0]
    /\ batch = [at |-> 0, completed |-> 0, failed |-> 0]
    /\ sweep = [at |-> "idle", ids |-> {}]
    /\ faults = 0 /\ crashed = FALSE

Step(j) ==
    \/ CheckBalance(j) \/ LookUp(j) \/ Copy(j) \/ Transcribe(j) \/ Analyse(j)
    \/ Charge(j) \/ Complete(j) \/ Store(j) \/ Annotate(j) \/ Bill(j) \/ Reopen(j)

Next ==
    \/ \E r \in Records : CreateRow(r) \/ Age(r)
    \/ \E j \in Jobs : Step(j) \/ Fail(j)
    \/ \E j \in Regenerations : Load(j)
    \/ StartBatch \/ Crash \/ Tick \/ Reap \/ Retire

Spec == Init /\ [][Next]_vars

\* The event loop runs every job, time passes and the cron starts the reaper.
FairSpec ==
    /\ Spec
    /\ \A j \in Jobs : WF_vars(Step(j))
    /\ \A r \in Records : WF_vars(Age(r))
    /\ WF_vars(Reap)

------------------------
Statuses == {"none", "processing", "completed", "error"}

TypeOK ==
    /\ status \in [Records -> Statuses]
    /\ aged \subseteq Records /\ analysed \subseteq Records /\ touched \subseteq Records
    /\ cdr \in [Records -> Nat \cup {NoCdr}]
    /\ bills \in [Records -> Nat] /\ debits \in [Records -> Nat]
    /\ ledger \subseteq 0 .. MaxClock /\ clock \in 0 .. MaxClock
    /\ batch.completed + batch.failed \in 0 .. Len(Batch)

\* A job that is over has left the books in agreement: what the tenant was debited
\* for a record is what its billing records say and, unless regenerations replace
\* it, what its CDR shows; an analysis that ended in an error was free.  Records
\* that lost a write, whose debit met a key of the same millisecond, or that two
\* jobs worked on at once are left out.  What retention has taken leaves nothing but
\* its billing records.
BooksMatch ==
    \A r \in Records \ touched :
        Working(r) = {} /\ r \notin sweep.ids =>
            /\ bills[r] = debits[r]
            /\ status[r] = "completed" /\ cdr[r] # NoCdr /\ ~ReplaceCost => cdr[r] = bills[r]
            /\ status[r] = "completed" => r \in analysed /\ cdr[r] # NoCdr
            /\ status[r] = "none" => r \notin analysed /\ cdr[r] = NoCdr

\* Rows and tallies in their ranges, and books that match.
BooksSound == TypeOK /\ BooksMatch

\* No recording is processing for ever, though a restart has lost its job.
NoneStuck == \A r \in Records : status[r] = "processing" ~> status[r] # "processing"

\* The progress of a batch that has ended: every item is counted once, and as many
\* analyses are there as it says were completed.
BatchTallies ==
    batch.at = Len(Batch) + 1 /\ ~crashed =>
        /\ batch.completed + batch.failed = Len(Batch)
        /\ aged = {} /\ (\A j \in Regenerations : pc[j] = "idle")
              => batch.completed = Cardinality(Files \cap analysed \cap {r \in Records : status[r] = "completed"})

------------------------
(***************************************************************************)
(* Proofs.                                                                 *)
(***************************************************************************)
Labels == {"idle", "created", "checking", "looking", "copying", "reopening", "transcribing",
           "analysing", "charging", "completing", "storing", "annotating", "billing", "done", "lost"}
Sweeps == {"idle", "analyses", "cdrs", "rows"}

Places ==
    /\ pc \in [Jobs -> Labels]
    /\ \A r \in Records : pc[r] # "reopening"
    /\ \A j \in Regenerations : pc[j] \notin {"created", "checking", "looking", "copying"}
    /\ held \in [Regenerations -> Nat]
    /\ sweep \in [at : Sweeps, ids : SUBSET aged]
    /\ sweep.at = "idle" => sweep.ids = {}
    /\ batch \in [at : 0 .. Len(Batch) + 1, completed : Nat, failed : Nat]
    /\ crashed \in BOOLEAN

Rows ==
    /\ status \in [Records -> Statuses]
    /\ aged \subseteq Records /\ analysed \subseteq Records /\ touched \subseteq Records
    /\ cdr \in [Records -> Nat \cup {NoCdr}]
    /\ bills \in [Records -> Nat] /\ debits \in [Records -> Nat]
    /\ ledger \subseteq 0 .. MaxClock /\ clock \in 0 .. MaxClock

LEMMA BatchIsAList ==
    /\ Len(Batch) = Cardinality(Files) /\ Len(Batch) \in Nat
    /\ Batch \in [1 .. Len(Batch) -> Files]
    /\ \A i, k \in 1 .. Len(Batch) : Batch[i] = Batch[k] => i = k
    /\ \A r \in Files : \E i \in 1 .. Len(Batch) : Batch[i] = r
    /\ Batch # <<>> => Len(Batch) > 0
<1> DEFINE n == Cardinality(Files)
<1>1. n \in Nat /\ ExistsBijection(1 .. n, Files) BY JobsAssumption, FS_CardinalityType
<1>2. PICK f : f \in Bijection(1 .. n, Files) BY <1>1 DEF ExistsBijection
<1>3. f \in [1 .. n -> Files] /\ IsInjective(f) BY <1>2 DEF Bijection, Injection, IsInjective
<1>4. Batch \in [1 .. n -> Files] /\ IsInjective(Batch) BY <1>3 DEF Batch, SetToSeq
<1>5. Len(Batch) = n BY <1>1, <1>4
<1>6. \A i, k \in 1 .. n : Batch[i] = Batch[k] => i = k BY <1>4 DEF IsInjective
<1>7. Batch \in Injection(1 .. n, Files) BY <1>4, <1>6 DEF Injection
<1>8. Cardinality(1 .. n) = n BY <1>1, FS_Interval
<1>9. Batch \in Surjection(1 .. n, Files) BY <1>7, <1>8, JobsAssumption, FS_Injection
<1>10. Batch # <<>> => n > 0 BY <1>1, <1>4
<1> QED BY <1>1, <1>4, <1>5, <1>6, <1>9, <1>10 DEF Surjection

Waiting   == {"idle", "created"}
Paid(j)   == pc[j] \in {"completing", "storing", "annotating", "billing"}
Stored(j) == pc[j] \in {"annotating", "billing"}

\* A record no job has begun with.
Fresh(r) ==
    /\ Working(r) = {}
    /\ cdr[r] = NoCdr /\ bills[r] = 0 /\ debits[r] = 0 /\ status[r] # "completed"
    /\ pc[r] = "idle" => status[r] = "none" /\ r \notin aged /\ r \notin analysed
    /\ pc[r] = "created" /\ r \notin touched => status[r] # "none" /\ r \notin sweep.ids

\* A record nobody works on: BooksMatch, what its CDR says whatever its status, and
\* how far the retention run has come with it.
Quiet(r) ==
    /\ bills[r] = debits[r]
    /\ cdr[r] # NoCdr /\ ~ReplaceCost => cdr[r] = bills[r]
    /\ status[r] = "completed" /\ r \notin sweep.ids => r \in analysed /\ cdr[r] # NoCdr
    /\ status[r] = "none" => r \notin analysed /\ cdr[r] = NoCdr
    /\ r \in sweep.ids => /\ sweep.at \in {"cdrs", "rows"} => r \notin analysed
                          /\ sweep.at = "rows" => cdr[r] = NoCdr

\* The record of a job under way: a debit is one bill ahead from the charge to the
\* billing record.
UnderWay(j) ==
    LET r == Of(j) IN
    /\ r \notin sweep.ids /\ status[r] # "none"
    /\ debits[r] = bills[r] + (IF Paid(j) THEN 1 ELSE 0)
    /\ pc[j] = "billing" => r \in analysed
    /\ j \in Records => /\ bills[r] = 0
                        /\ cdr[r] = IF Stored(j) THEN 1 ELSE NoCdr
    /\ j \in Regenerations =>
         /\ cdr[r] # NoCdr
         /\ ~Stored(j) => held[j] = cdr[r]
         /\ ~ReplaceCost => cdr[r] = bills[r] + (IF Stored(j) THEN 1 ELSE 0)

Books(r) ==
    /\ pc[r] \in Waiting => Fresh(r)
    /\ r \notin touched /\ Working(r) = {} => Quiet(r)
    /\ r \notin touched => \A j \in Working(r) : Working(r) = {j} /\ UnderWay(j)

\* The batch works on one item at a time, in order, and counts those behind it.
BatchInOrder ==
    /\ batch.at = 0 => /\ batch.completed = 0 /\ batch.failed = 0 /\ ~crashed
                       /\ \A r \in Files : pc[r] \in Waiting
    /\ batch.at \in 1 .. Len(Batch) =>
         /\ batch.completed + batch.failed = batch.at - 1 /\ ~crashed
         /\ \A i \in 1 .. Len(Batch) :
              /\ i < batch.at => pc[Batch[i]] = "done"
              /\ i = batch.at => Batch[i] \in Running
              /\ i > batch.at => pc[Batch[i]] = "created"
    /\ batch.at = Len(Batch) + 1 =>
         /\ batch.completed + batch.failed \in 0 .. Len(Batch)
         /\ Files \cap Running = {}
         /\ ~crashed => /\ batch.completed + batch.failed = Len(Batch)
                        /\ \A r \in Files : pc[r] = "done"

\* Nothing but uploads has happened yet, and nothing has aged.
Calm     == ~crashed /\ aged = {} /\ \A j \in Regenerations : pc[j] = "idle"
Finished == {r \in Files : pc[r] = "done" /\ status[r] = "completed"}

Progress(r) ==
    /\ pc[r] # "idle" => status[r] # "none"
    /\ pc[r] \in {"copying", "storing", "annotating", "billing"} => status[r] = "completed"
    /\ pc[r] = "billing" => r \in analysed
    /\ pc[r] = "done" /\ status[r] = "completed" => r \in analysed

Tally ==
    Calm => /\ batch.completed = Cardinality(Finished)
            /\ \A r \in Records : Progress(r)

IInv == Rows /\ Places /\ (\A r \in Records : Books(r)) /\ BatchInOrder /\ Tally

------------------------
\* What a step of one job leaves alone.
LEMMA JobsAreRunning ==
    ASSUME Places, NEW j \in Jobs, Step(j) \/ Fail(j)
    PROVE  /\ j \in Running /\ pc[j] \notin Resting
           /\ Of(j) \in Records
           /\ aged' = aged /\ sweep' = sweep /\ crashed' = crashed /\ held' = held /\ clock' = clock
           /\ \/ \E l \in Labels \ (Resting \cup {"reopening", "checking"}) : Goto(j, l) /\ batch' = batch
              \/ Finish(j, "completed")
              \/ Finish(j, "failed")
<1>1. Of(j) \in Records BY JobsAssumption DEF Of, Records, Jobs
<1>2. CASE Fail(j) BY <1>1, <1>2 DEF Fail, Abandon, Running, money
<1>3. CASE CheckBalance(j) BY <1>1, <1>3 DEF CheckBalance, Abandon, Running, Resting, Labels
<1>4. CASE LookUp(j) BY <1>1, <1>4 DEF LookUp, Abandon, Running, Resting, Labels
<1>5. CASE Copy(j) BY <1>1, <1>5 DEF Copy, Running, Resting, Labels
<1>6. CASE Transcribe(j) BY <1>1, <1>6 DEF Transcribe, Abandon, Running, Resting, Labels
<1>7. CASE Analyse(j) BY <1>1, <1>7 DEF Analyse, Abandon, Running, Resting, Labels
<1>8. CASE Charge(j) BY <1>1, <1>8 DEF Charge, Running, Resting, Labels
<1>9. CASE Complete(j) BY <1>1, <1>9 DEF Complete, Running, Resting, Labels
<1>10. CASE Store(j) BY <1>1, <1>10 DEF Store, Running, Resting, Labels
<1>11. CASE Annotate(j) BY <1>1, <1>11 DEF Annotate, Running, Resting, Labels
<1>12. CASE Bill(j) BY <1>1, <1>12 DEF Bill, Running, Resting, Labels
<1>13. CASE Reopen(j) BY <1>1, <1>13 DEF Reopen, Running, Resting, Labels
<1> QED BY <1>2, <1>3, <1>4, <1>5, <1>6, <1>7, <1>8, <1>9, <1>10, <1>11, <1>12, <1>13 DEF Step

\* The job of a file that runs is the one the batch is at.
LEMMA OnTurn ==
    ASSUME Places, BatchInOrder, NEW j \in Files, pc[j] \notin Resting
    PROVE  /\ batch.at \in 1 .. Len(Batch) /\ Batch[batch.at] = j
<1>1. j \in Running BY DEF Running, Jobs, Records
<1>2. batch.at \in 1 .. Len(Batch)
  <2>1. batch.at # 0 BY DEF BatchInOrder, Waiting, Resting
  <2>2. batch.at # Len(Batch) + 1 BY <1>1 DEF BatchInOrder
  <2>3. batch.at \in 0 .. Len(Batch) + 1 BY DEF Places
  <2> QED BY <2>1, <2>2, <2>3, BatchIsAList
<1>3. PICK i \in 1 .. Len(Batch) : Batch[i] = j BY BatchIsAList
<1>4. i = batch.at
  <2>1. /\ i < batch.at => pc[Batch[i]] = "done"
        /\ i > batch.at => pc[Batch[i]] = "created"
    BY <1>2, <1>3 DEF BatchInOrder
  <2> QED BY <2>1, <1>2, <1>3, BatchIsAList DEF Resting
<1> QED BY <1>2, <1>3, <1>4

\* One job is over: the batch goes on to the next item, which was waiting.
LEMMA Finishing ==
    ASSUME Places, BatchInOrder, NEW j \in Jobs, pc[j] \notin Resting,
           NEW outcome \in {"completed", "failed"}, Finish(j, outcome)
    PROVE  /\ pc' \in [Jobs -> Labels]
           /\ pc'[j] = "done"
           /\ \A q \in Jobs : \/ q = j
                              \/ pc'[q] = pc[q]
                              \/ q \in Files /\ j \in Files /\ pc[q] = "created" /\ pc'[q] = "checking"
<1>0. pc \in [Jobs -> Labels] BY DEF Places
<1>1. CASE j \notin Files BY <1>0, <1>1 DEF Finish, Goto, Labels
<1>2. CASE j \in Files
  <2>1. pc' = [q \in Jobs |-> IF q = j THEN "done"
                             ELSE IF batch.at < Len(Batch) /\ q = Batch[batch.at + 1] THEN "checking"
                             ELSE pc[q]]
    BY <1>2 DEF Finish
  <2>2. pc' \in [Jobs -> Labels] /\ pc'[j] = "done" BY <2>1, <1>0 DEF Labels
  <2>3. ASSUME batch.at < Len(Batch) PROVE pc[Batch[batch.at + 1]] = "created" /\ Batch[batch.at + 1] \in Files
    BY <2>3, <1>2, OnTurn, BatchIsAList DEF BatchInOrder
  <2> QED BY <2>1, <2>2, <2>3, <1>2
<1> QED BY <1>1, <1>2

\* The batch's own variables count up by one.
LEMMA Counting ==
    ASSUME Places, BatchInOrder, NEW j \in Jobs, pc[j] \notin Resting,
           NEW outcome \in {"completed", "failed"}, Finish(j, outcome)
    PROVE  /\ batch' \in [at : 0 .. Len(Batch) + 1, completed : Nat, failed : Nat]
           /\ batch'.at = batch.at + (IF j \in Files THEN 1 ELSE 0)
           /\ batch'.completed = batch.completed + (IF j \in Files /\ outcome = "completed" THEN 1 ELSE 0)
           /\ batch'.failed = batch.failed + (IF j \in Files /\ outcome = "failed" THEN 1 ELSE 0)
<1>0. batch \in [at : 0 .. Len(Batch) + 1, completed : Nat, failed : Nat] BY DEF Places
<1>1. CASE j \notin Files
  <2>1. batch' = batch BY <1>1 DEF Finish, Goto
  <2> QED BY <1>0, <1>1, <2>1, BatchIsAList
<1>2. CASE j \in Files
  <2>1. batch.at \in 1 .. Len(Batch) BY <1>2, OnTurn
  <2>2. CASE outcome = "completed"
    <3>1. batch' = [batch EXCEPT !.completed = @ + 1, !.at = @ + 1] BY <1>2, <2>2 DEF Finish
    <3>2. batch' = [at |-> batch.at + 1, completed |-> batch.completed + 1, failed |-> batch.failed] BY <3>1, <1>0
    <3> QED BY <3>2, <1>0, <1>2, <2>1, <2>2, BatchIsAList
  <2>3. CASE outcome = "failed"
    <3>1. batch' = [batch EXCEPT !.failed = @ + 1, !.at = @ + 1] BY <1>2, <2>3 DEF Finish
    <3>2. batch' = [at |-> batch.at + 1, completed |-> batch.completed, failed |-> batch.failed + 1] BY <3>1, <1>0
    <3> QED BY <3>2, <1>0, <1>2, <2>1, <2>3, BatchIsAList
  <2> QED BY <2>2, <2>3
<1> QED BY <1>1, <1>2

\* A job that moves on leaves the batch where it is.
LEMMA BatchStays ==
    ASSUME Places, BatchInOrder, batch' = batch, crashed' = crashed,
           \A r \in Files : \/ pc'[r] = pc[r]
                            \/ pc[r] \notin Resting /\ pc'[r] \notin Resting
    PROVE  BatchInOrder'
<1>0. Batch' = Batch OBVIOUS
<1>1. \A r \in Files : r \in Running' <=> r \in Running BY DEF Running, Jobs, Records
<1>2. \A r \in Files : pc[r] \in Resting => pc'[r] = pc[r] OBVIOUS
<1>3. ASSUME batch.at = 0
      PROVE  /\ batch'.at = 0 /\ batch'.completed = 0 /\ batch'.failed = 0 /\ ~crashed'
             /\ \A r \in Files : pc'[r] \in Waiting
  BY <1>2, <1>3 DEF BatchInOrder, Waiting, Resting
<1>4. ASSUME batch.at \in 1 .. Len(Batch), NEW i \in 1 .. Len(Batch)
      PROVE  /\ i < batch.at => pc'[Batch[i]] = "done"
             /\ i = batch.at => Batch[i] \in Running'
             /\ i > batch.at => pc'[Batch[i]] = "created"
  <2>1. Batch[i] \in Files BY BatchIsAList
  <2> QED BY <1>1, <1>2, <1>4, <2>1 DEF BatchInOrder, Resting
<1>5. ASSUME batch.at = Len(Batch) + 1
      PROVE  /\ Files \cap Running' = {}
             /\ ~crashed => \A r \in Files : pc'[r] = "done"
  BY <1>1, <1>2, <1>5 DEF BatchInOrder, Resting
<1> QED BY <1>0, <1>3, <1>4, <1>5 DEF BatchInOrder

\* A job that ends is counted, and the batch is at the next item.
LEMMA BatchGoesOn ==
    ASSUME Places, BatchInOrder, NEW j \in Jobs, pc[j] \notin Resting,
           NEW outcome \in {"completed", "failed"}, Finish(j, outcome), crashed' = crashed
    PROVE  BatchInOrder'
<1>0. pc \in [Jobs -> Labels] /\ pc'[j] = "done" BY Finishing DEF Places
<1>1. CASE j \notin Files
  <2>1. \A r \in Files : pc'[r] = pc[r] BY <1>1, Finishing DEF Jobs, Records
  <2>2. batch' = batch BY <1>1 DEF Finish
  <2> QED BY <2>1, <2>2, BatchStays
<1>2. CASE j \in Files
  <2>0. Batch' = Batch OBVIOUS
  <2>1. batch.at \in 1 .. Len(Batch) /\ Batch[batch.at] = j BY <1>2, OnTurn
  <2>2. /\ batch'.at = batch.at + 1
        /\ batch'.completed + batch'.failed = batch.at
        /\ batch'.completed \in Nat /\ batch'.failed \in Nat
    <3>1. batch.completed + batch.failed = batch.at - 1 BY <2>1 DEF BatchInOrder
    <3>2. batch.completed \in Nat /\ batch.failed \in Nat /\ batch.at \in Nat BY <2>1, BatchIsAList DEF Places
    <3>3. batch'.completed \in Nat /\ batch'.failed \in Nat BY Counting
    <3>4. /\ batch'.completed = batch.completed + (IF outcome = "completed" THEN 1 ELSE 0)
          /\ batch'.failed = batch.failed + (IF outcome = "failed" THEN 1 ELSE 0)
          /\ batch'.at = batch.at + 1
      BY <1>2, Counting
    <3> QED BY <3>1, <3>2, <3>3, <3>4
  <2>3. ~crashed BY <2>1 DEF BatchInOrder
  <2>4. pc' = [q \in Jobs |-> IF q = j THEN "done"
                             ELSE IF batch.at < Len(Batch) /\ q = Batch[batch.at + 1] THEN "checking"
                             ELSE pc[q]]
    BY <1>2 DEF Finish
  <2>5. \A i \in 1 .. Len(Batch) :
          /\ Batch[i] \in Jobs /\ Batch[i] \in Files
          /\ i < batch.at => pc[Batch[i]] = "done"
          /\ i > batch.at => pc[Batch[i]] = "created"
          /\ i # batch.at => Batch[i] # j
          /\ batch.at < Len(Batch) /\ Batch[i] = Batch[batch.at + 1] => i = batch.at + 1
    BY <2>1, BatchIsAList DEF BatchInOrder, Jobs, Records
  <2>6. CASE batch.at < Len(Batch)
    <3>1. \A i \in 1 .. Len(Batch) :
            pc'[Batch[i]] = IF i <= batch.at THEN "done"
                            ELSE IF i = batch.at + 1 THEN "checking" ELSE "created"
      BY <2>1, <2>4, <2>5, <2>6, BatchIsAList
    <3>2. Batch[batch.at + 1] \in Running' BY <3>1, <2>1, <2>5, <2>6, BatchIsAList DEF Running, Resting
    <3>3. batch'.at \in 1 .. Len(Batch) /\ batch'.at # 0 /\ batch'.at # Len(Batch) + 1
      BY <2>1, <2>2, <2>6, BatchIsAList
    <3>4. \A i \in 1 .. Len(Batch) : /\ i < batch'.at => pc'[Batch[i]] = "done"
                                     /\ i = batch'.at => Batch[i] \in Running'
                                     /\ i > batch'.at => pc'[Batch[i]] = "created"
      BY <3>1, <3>2, <2>1, <2>2, BatchIsAList
    <3> QED BY <2>0, <2>1, <2>2, <2>3, <3>3, <3>4, BatchIsAList DEF BatchInOrder
  <2>7. CASE ~(batch.at < Len(Batch))
    <3>1. batch.at = Len(Batch) /\ batch'.at = Len(Batch) + 1 BY <2>1, <2>2, <2>7, BatchIsAList
    <3>2. \A i \in 1 .. Len(Batch) : pc'[Batch[i]] = "done" BY <3>1, <2>1, <2>4, <2>5, BatchIsAList
    <3>3. \A r \in Files : pc'[r] = "done" BY <3>2, BatchIsAList
    <3>4. Files \cap Running' = {} BY <3>3 DEF Running, Resting
    <3> QED BY <2>0, <2>2, <2>3, <3>1, <3>3, <3>4, BatchIsAList DEF BatchInOrder
  <2> QED BY <2>6, <2>7
<1> QED BY <1>1, <1>2

------------------------
SameRow(r) ==
    /\ status'[r] = status[r] /\ cdr'[r] = cdr[r]
    /\ bills'[r] = bills[r] /\ debits'[r] = debits[r]
    /\ r \in analysed' <=> r \in analysed
    /\ r \in touched' <=> r \in touched

\* The books of a record no step has written for, of which the batch may have begun
\* to work.
LEMMA OtherRecord ==
    ASSUME Rows, Places, NEW r \in Records, Books(r), SameRow(r),
           sweep' = sweep, aged' = aged,
           \A q \in Regenerations : Of(q) = r => held'[q] = held[q],
           \A q \in Jobs : Of(q) = r => \/ pc'[q] = pc[q]
                                        \/ q = r /\ pc[q] = "created" /\ pc'[q] = "checking"
    PROVE  Books(r)'
<1>0. r \in Jobs /\ Of(r) = r /\ r \notin Regenerations BY JobsAssumption DEF Of, Jobs, Records
<1>1. CASE pc'[r] = pc[r]
  <2>1. \A q \in Jobs : Of(q) = r => pc'[q] = pc[q] BY <1>1
  <2>2. Working(r)' = Working(r) BY <2>1 DEF Working, Running
  <2>3. Fresh(r) => Fresh(r)' BY <1>1, <2>2 DEF Fresh, SameRow
  <2>4. Quiet(r) => Quiet(r)' BY DEF Quiet, SameRow
  <2>5. ASSUME NEW j \in Working(r), UnderWay(j) PROVE UnderWay(j)'
    <3>1. j \in Jobs /\ Of(j) = r BY <2>5 DEF Working, Running
    <3>2. pc'[j] = pc[j] BY <2>1, <3>1
    <3> QED BY <2>5, <3>1, <3>2 DEF UnderWay, Paid, Stored, SameRow
  <2> QED BY <1>1, <2>2, <2>3, <2>4, <2>5 DEF Books, SameRow
<1>2. CASE pc[r] = "created" /\ pc'[r] = "checking"
  <2>1. Fresh(r) BY <1>2 DEF Books, Waiting
  <2>2. \A q \in Jobs : Of(q) = r /\ q # r => pc[q] \in Resting /\ pc'[q] = pc[q]
    BY <2>1 DEF Fresh, Working, Running
  <2>3. Working(r)' = {r} BY <1>0, <1>2, <2>2 DEF Working, Running, Resting
  <2>4. r \notin touched' => UnderWay(r)' BY <1>0, <1>2, <2>1 DEF Fresh, UnderWay, Paid, Stored, SameRow
  <2> QED BY <1>2, <2>3, <2>4 DEF Books, Waiting
<1> QED BY <1>0, <1>1, <1>2

\* The books of the record a job is for.
LEMMA OwnRecord ==
    ASSUME Rows, Places, NEW j \in Jobs, NEW r \in Records, r = Of(j), pc[j] \notin Resting,
           Books(r), pc'[j] \notin Waiting, r \in touched => r \in touched',
           \A q \in Jobs : Of(q) = r /\ q # j => pc'[q] = pc[q],
           r \notin touched' /\ UnderWay(j) /\ pc'[j] \in Resting => Quiet(r)',
           r \notin touched' /\ UnderWay(j) /\ pc'[j] \notin Resting => UnderWay(j)'
    PROVE  Books(r)'
<1>0. r \in Jobs BY DEF Jobs
<1>1. j \in Working(r) BY DEF Working, Running
<1>2. pc[r] \notin Waiting BY <1>1 DEF Books, Fresh
<1>3. pc'[r] \notin Waiting BY <1>0, <1>2 DEF Of
<1>4. CASE r \in touched' BY <1>3, <1>4 DEF Books
<1>5. CASE r \notin touched'
  <2>1. Working(r) = {j} /\ UnderWay(j) BY <1>1, <1>5 DEF Books
  <2>2. \A q \in Jobs : Of(q) = r /\ q # j => pc'[q] \in Resting BY <2>1 DEF Working, Running
  <2>3. Working(r)' = IF pc'[j] \in Resting THEN {} ELSE {j} BY <2>2 DEF Working, Running
  <2> QED BY <1>3, <1>5, <2>1, <2>3 DEF Books
<1> QED BY <1>4, <1>5

LEMMA OtherRowsStay ==
    ASSUME Rows, Places, NEW j \in Jobs, Step(j) \/ Fail(j), NEW r \in Records, r # Of(j)
    PROVE  SameRow(r)
<1>0. j \in Records => Of(j) = j BY DEF Of
<1> USE DEF SameRow, Rows
<1>2. CASE Fail(j) BY <1>2 DEF Fail, Abandon, SetStatus, money
<1>3. CASE CheckBalance(j) BY <1>3 DEF CheckBalance, Abandon, SetStatus, money
<1>4. CASE LookUp(j) BY <1>0, <1>4 DEF LookUp, Abandon, SetStatus, money, Places, Jobs
<1>5. CASE Copy(j) BY <1>0, <1>5 DEF Copy, money, Places, Jobs
<1>6. CASE Transcribe(j) BY <1>6 DEF Transcribe, Abandon, SetStatus, money
<1>7. CASE Analyse(j) BY <1>7 DEF Analyse, Abandon, SetStatus, money
<1>8. CASE Charge(j)
  <2>1. rows' = rows /\ (r \in touched' <=> r \in touched) BY <1>8 DEF Charge
  <2>2. debits'[r] = debits[r] BY <1>8 DEF Charge, money
  <2> QED BY <2>1, <2>2 DEF rows
<1>9. CASE Complete(j) BY <1>9 DEF Complete, SetStatus, money
<1>10. CASE Store(j) BY <1>10 DEF Store, money
<1>11. CASE Annotate(j) BY <1>11 DEF Annotate, money
<1>12. CASE Bill(j) BY <1>12 DEF Bill, money
<1>13. CASE Reopen(j) BY <1>13 DEF Reopen, SetStatus, money
<1> QED BY <1>2, <1>3, <1>4, <1>5, <1>6, <1>7, <1>8, <1>9, <1>10, <1>11, <1>12, <1>13 DEF Step

\* What a job does to the books of its own record, action by action.
LEMMA AbandonedIsQuiet ==
    ASSUME Rows, Places, NEW j \in Jobs, UnderWay(j), ~Paid(j), SetStatus(Of(j), "error"),
           UNCHANGED <<cdr, bills, debits, analysed, sweep>>
    PROVE  Quiet(Of(j))'
<1>1. Of(j) \in Records BY JobsAssumption DEF Of, Records, Jobs
<1>2. status'[Of(j)] = "error" BY <1>1 DEF SetStatus, Rows, UnderWay
<1>3. ~Stored(j) BY DEF Paid, Stored
<1>4. j \in Records \/ j \in Regenerations BY DEF Jobs
<1>5. bills[Of(j)] \in Nat /\ debits[Of(j)] \in Nat /\ cdr[Of(j)] \in Nat \cup {NoCdr} BY <1>1 DEF Rows
<1> QED BY <1>2, <1>3, <1>4, <1>5 DEF UnderWay, Quiet

LEMMA OwnRow ==
    ASSUME Rows, Places, NEW j \in Jobs, Step(j) \/ Fail(j), NEW r, r = Of(j),
           pc' \in [Jobs -> Labels], UnderWay(j), r \notin touched'
    PROVE  /\ pc'[j] \in Resting => Quiet(r)'
           /\ pc'[j] \notin Resting => UnderWay(j)'
<1>0. /\ r \in Records
      /\ status[r] \in Statuses /\ cdr[r] \in Nat \cup {NoCdr} /\ bills[r] \in Nat /\ debits[r] \in Nat
      /\ j \in Records \/ j \in Regenerations
      /\ j \in Records => r = j /\ j \notin Regenerations
      /\ j \in Regenerations => j \notin Records /\ held[j] \in Nat
      /\ pc \in [Jobs -> Labels]
  BY JobsAssumption DEF Of, Records, Jobs, Rows, Places
<1>2. CASE Fail(j) BY <1>0, <1>2 DEF Fail, Rows
<1>3. CASE CheckBalance(j)
  <2>1. CASE Goto(j, "looking") /\ UNCHANGED status
    BY <1>0, <1>3, <2>1 DEF CheckBalance, Goto, UnderWay, Paid, Stored, money, Resting
  <2>2. CASE Abandon(j)
    <3>1. Quiet(r)' BY <1>3, <2>2, AbandonedIsQuiet DEF CheckBalance, Abandon, Paid, money
    <3>2. pc'[j] = "done" BY <1>0, <2>2 DEF Abandon, Finish, Goto
    <3> QED BY <3>1, <3>2 DEF Resting
  <2> QED BY <1>3, <2>1, <2>2 DEF CheckBalance
<1>4. CASE LookUp(j)
  <2>0. j \in Records BY <1>0, <1>4 DEF LookUp, Places
  <2>1. CASE Goto(j, "transcribing") /\ UNCHANGED status
    BY <1>0, <1>4, <2>1 DEF LookUp, Goto, UnderWay, Paid, Stored, money, Resting
  <2>2. CASE SetStatus(j, "completed") /\ Goto(j, "copying")
    <3>1. status'[r] = "completed" BY <1>0, <2>0, <2>2 DEF SetStatus, UnderWay, Rows
    <3> QED BY <1>0, <1>4, <2>0, <2>2, <3>1 DEF LookUp, Goto, UnderWay, Paid, Stored, money, Resting
  <2>3. CASE Abandon(j)
    <3>1. Quiet(r)' BY <1>4, <2>3, AbandonedIsQuiet DEF LookUp, Abandon, Paid, money
    <3>2. pc'[j] = "done" BY <1>0, <2>3 DEF Abandon, Finish, Goto
    <3> QED BY <3>1, <3>2 DEF Resting
  <2> QED BY <1>4, <2>1, <2>2, <2>3 DEF LookUp
<1>5. CASE Copy(j)
  <2>0. j \in Records /\ r = j BY <1>0, <1>5 DEF Copy, Places
  <2>1. pc'[j] = "done" BY <1>0, <1>5 DEF Copy, Finish, Goto
  <2>2. /\ cdr'[r] = 0 /\ r \in analysed' /\ bills' = bills /\ debits' = debits
        /\ status' = status /\ sweep' = sweep
    BY <1>0, <1>5, <2>0 DEF Copy, money, Rows
  <2>3. bills[r] = 0 /\ debits[r] = 0 /\ r \notin sweep.ids /\ status[r] # "none"
    BY <1>5, <2>0 DEF Copy, UnderWay, Paid
  <2> QED BY <2>1, <2>2, <2>3 DEF Quiet, Resting, NoCdr
<1>6. CASE Transcribe(j)
  <2>1. CASE Goto(j, "analysing") /\ UNCHANGED status
    BY <1>0, <1>6, <2>1 DEF Transcribe, Goto, UnderWay, Paid, Stored, money, Resting
  <2>2. CASE Abandon(j)
    <3>1. Quiet(r)' BY <1>6, <2>2, AbandonedIsQuiet DEF Transcribe, Abandon, Paid, money
    <3>2. pc'[j] = "done" BY <1>0, <2>2 DEF Abandon, Finish, Goto
    <3> QED BY <3>1, <3>2 DEF Resting
  <2> QED BY <1>6, <2>1, <2>2 DEF Transcribe
<1>7. CASE Analyse(j)
  <2>1. CASE Goto(j, "charging") /\ UNCHANGED status
    BY <1>0, <1>7, <2>1 DEF Analyse, Goto, UnderWay, Paid, Stored, money, Resting
  <2>2. CASE Abandon(j)
    <3>1. Quiet(r)' BY <1>7, <2>2, AbandonedIsQuiet DEF Analyse, Abandon, Paid, money
    <3>2. pc'[j] = "done" BY <1>0, <2>2 DEF Abandon, Finish, Goto
    <3> QED BY <3>1, <3>2 DEF Resting
  <2> QED BY <1>7, <2>1, <2>2 DEF Analyse
<1>8. CASE Charge(j)
  <2>1. clock \notin ledger BY <1>0, <1>8 DEF Charge, Rows
  <2>2. debits'[r] = debits[r] + 1 BY <1>0, <1>8, <2>1 DEF Charge, Rows
  <2>3. status' = status /\ cdr' = cdr /\ analysed' = analysed /\ bills' = bills BY <1>8 DEF Charge, rows
  <2>4. pc[j] = "charging" /\ pc'[j] = "completing" /\ held' = held /\ sweep' = sweep BY <1>0, <1>8 DEF Charge, Goto
  <2> QED BY <1>0, <2>2, <2>3, <2>4 DEF UnderWay, Paid, Stored, Resting
<1>9. CASE Complete(j)
  <2>1. pc[j] = "completing" /\ pc'[j] = "storing" /\ held' = held /\ sweep' = sweep
    BY <1>0, <1>9 DEF Complete, Goto
  <2>2. status'[r] # "none" BY <1>0, <1>9 DEF Complete, SetStatus, UnderWay, Rows
  <2>3. cdr' = cdr /\ bills' = bills /\ debits' = debits /\ analysed' = analysed BY <1>9 DEF Complete, money
  <2> QED BY <1>0, <2>1, <2>2, <2>3 DEF UnderWay, Paid, Stored, Resting
<1>10. CASE Store(j)
  <2>1. pc[j] = "storing" /\ pc'[j] = "annotating" /\ held' = held /\ sweep' = sweep BY <1>0, <1>10 DEF Store, Goto
  <2>2. status' = status /\ bills' = bills /\ debits' = debits /\ analysed' = analysed BY <1>10 DEF Store, money
  <2>3. cdr'[r] = IF j \in Records THEN 1 ELSE IF ReplaceCost THEN 1 ELSE held[j] + 1
    BY <1>0, <1>10 DEF Store, Rows, UnderWay
  <2> QED BY <1>0, <2>1, <2>2, <2>3 DEF UnderWay, Paid, Stored, Resting, NoCdr
<1>11. CASE Annotate(j)
  <2>1. pc[j] = "annotating" /\ pc'[j] = "billing" /\ held' = held /\ sweep' = sweep
    BY <1>0, <1>11 DEF Annotate, Goto
  <2>2. status' = status /\ bills' = bills /\ debits' = debits /\ cdr' = cdr /\ r \in analysed'
    BY <1>11 DEF Annotate, money
  <2> QED BY <1>0, <2>1, <2>2 DEF UnderWay, Paid, Stored, Resting
<1>12. CASE Bill(j)
  <2>1. pc[j] = "billing" /\ pc'[j] = "done" /\ sweep' = sweep BY <1>0, <1>12 DEF Bill, Finish, Goto
  <2>2. status' = status /\ debits' = debits /\ cdr' = cdr /\ analysed' = analysed BY <1>12 DEF Bill, money
  <2>3. bills'[r] = bills[r] + 1 BY <1>0, <1>12 DEF Bill, Rows
  <2>4. /\ debits[r] = bills[r] + 1 /\ cdr[r] # NoCdr /\ r \in analysed
        /\ ~ReplaceCost => cdr[r] = bills[r] + 1
        /\ r \notin sweep.ids /\ status[r] # "none"
    BY <1>0, <2>1 DEF UnderWay, Paid, Stored, NoCdr
  <2> QED BY <2>1, <2>2, <2>3, <2>4 DEF Quiet, Resting
<1>13. CASE Reopen(j)
  <2>1. pc[j] = "reopening" /\ pc'[j] = "transcribing" /\ held' = held /\ sweep' = sweep
    BY <1>0, <1>13 DEF Reopen, Goto
  <2>2. status'[r] # "none" BY <1>0, <1>13 DEF Reopen, SetStatus, UnderWay, Rows
  <2>3. cdr' = cdr /\ bills' = bills /\ debits' = debits /\ analysed' = analysed BY <1>13 DEF Reopen, money
  <2> QED BY <1>0, <2>1, <2>2, <2>3 DEF UnderWay, Paid, Stored, Resting
<1> QED BY <1>2, <1>3, <1>4, <1>5, <1>6, <1>7, <1>8, <1>9, <1>10, <1>11, <1>12, <1>13 DEF Step

\* How an upload's job ends, and what it has written by then.
LEMMA OwnProgress ==
    ASSUME Rows, Places, NEW j \in Records, pc' \in [Jobs -> Labels], Step(j) \/ Fail(j), Progress(j)
    PROVE  \/ Finish(j, "failed") /\ status'[j] = "error"
           \/ Finish(j, "completed") /\ status'[j] = "completed" /\ j \in analysed'
           \/ pc'[j] # "done" /\ batch' = batch /\ Progress(j)'
<1>0. /\ j \in Jobs /\ Of(j) = j /\ status[j] \in Statuses /\ pc[j] # "idle" /\ pc[j] # "reopening"
      /\ pc \in [Jobs -> Labels] /\ status[j] # "none"
  BY DEF Of, Jobs, Rows, Places, Step, Fail, CheckBalance, LookUp, Copy, Transcribe, Analyse, Charge,
         Complete, Store, Annotate, Bill, Reopen, Running, Resting, Progress
<1>1. ASSUME Abandon(j) PROVE Finish(j, "failed") /\ status'[j] = "error" BY <1>0, <1>1 DEF Abandon, SetStatus, Rows
<1>2. CASE Fail(j) BY <1>1, <1>2 DEF Fail
<1>3. CASE CheckBalance(j) BY <1>0, <1>1, <1>3 DEF CheckBalance, Goto, Progress
<1>4. CASE LookUp(j)
  <2>1. CASE Goto(j, "transcribing") /\ UNCHANGED <<status, batch>> BY <1>0, <2>1 DEF Goto, Progress
  <2>2. CASE SetStatus(j, "completed") /\ Goto(j, "copying") /\ UNCHANGED batch
    BY <1>0, <2>2 DEF Goto, Progress, SetStatus, Rows
  <2>3. CASE Abandon(j) BY <2>3, <1>1
  <2> QED BY <1>4, <2>1, <2>2, <2>3 DEF LookUp
<1>5. CASE Copy(j) BY <1>0, <1>5 DEF Copy, Progress
<1>6. CASE Transcribe(j) BY <1>0, <1>1, <1>6 DEF Transcribe, Goto, Progress
<1>7. CASE Analyse(j) BY <1>0, <1>1, <1>7 DEF Analyse, Goto, Progress
<1>8. CASE Charge(j)
  <2>1. pc'[j] = "completing" /\ batch' = batch /\ rows' = rows BY <1>0, <1>8 DEF Charge, Goto
  <2> QED BY <1>0, <2>1 DEF Progress, rows
<1>9. CASE Complete(j) BY <1>0, <1>9 DEF Complete, SetStatus, Goto, Progress, Rows
<1>10. CASE Store(j) BY <1>0, <1>10 DEF Store, Goto, Progress
<1>11. CASE Annotate(j) BY <1>0, <1>11 DEF Annotate, Goto, Progress
<1>12. CASE Bill(j) BY <1>0, <1>12 DEF Bill, Progress
<1>13. CASE Reopen(j) BY <1>0, <1>13 DEF Reopen
<1> QED BY <1>2, <1>3, <1>4, <1>5, <1>6, <1>7, <1>8, <1>9, <1>10, <1>11, <1>12, <1>13 DEF Step

------------------------
\* A step of one job, or its failure.
LEMMA JobMoves ==
    ASSUME Places, BatchInOrder, NEW j \in Jobs, Step(j) \/ Fail(j)
    PROVE  /\ pc' \in [Jobs -> Labels] /\ pc'[j] \notin Waiting
           /\ \A q \in Jobs : \/ q = j
                              \/ pc'[q] = pc[q]
                              \/ q \in Files /\ j \in Files /\ pc[q] = "created" /\ pc'[q] = "checking"
           /\ pc'[j] # "reopening" /\ pc'[j] # "checking"
<1>0. pc \in [Jobs -> Labels] BY DEF Places
<1>1. CASE \E l \in Labels \ (Resting \cup {"reopening", "checking"}) : Goto(j, l) /\ batch' = batch
  BY <1>0, <1>1 DEF Goto, Waiting, Resting
<1>2. CASE Finish(j, "completed") BY <1>2, Finishing, JobsAreRunning DEF Waiting
<1>3. CASE Finish(j, "failed") BY <1>3, Finishing, JobsAreRunning DEF Waiting
<1> QED BY <1>1, <1>2, <1>3, JobsAreRunning

LEMMA JobKeepsBooks ==
    ASSUME Rows, Places, BatchInOrder, \A r \in Records : Books(r),
           NEW j \in Jobs, Step(j) \/ Fail(j), NEW r \in Records
    PROVE  Books(r)'
<1>1. /\ pc[j] \notin Resting /\ Of(j) \in Records
      /\ aged' = aged /\ sweep' = sweep /\ held' = held
  BY JobsAreRunning
<1>2. CASE r # Of(j)
  <2>1. SameRow(r) BY <1>2, OtherRowsStay
  <2>2. \A q \in Jobs : Of(q) = r => \/ pc'[q] = pc[q]
                                     \/ q = r /\ pc[q] = "created" /\ pc'[q] = "checking"
    BY <1>2, JobMoves DEF Of, Records
  <2> QED BY <1>1, <2>1, <2>2, OtherRecord
<1>3. CASE r = Of(j)
  <2>1. \A q \in Jobs : Of(q) = r /\ q # j => pc'[q] = pc[q] BY <1>3, JobMoves DEF Of, Records
  <2>2. r \in touched => r \in touched'
    <3>1. touched' = touched \/ touched' = touched \cup {Of(j)}
      BY DEF Step, Fail, CheckBalance, LookUp, Copy, Transcribe, Analyse, Charge, Complete, Store,
             Annotate, Bill, Reopen
    <3> QED BY <3>1
  <2>3. pc' \in [Jobs -> Labels] /\ pc'[j] \notin Waiting BY JobMoves
  <2>4. r \notin touched' /\ UnderWay(j) => /\ pc'[j] \in Resting => Quiet(r)'
                                            /\ pc'[j] \notin Resting => UnderWay(j)'
    BY <1>3, <2>3, OwnRow
  <2> QED BY <1>1, <1>3, <2>1, <2>2, <2>3, <2>4, OwnRecord
<1> QED BY <1>2, <1>3

LEMMA JobKeepsBatch ==
    ASSUME Places, BatchInOrder, NEW j \in Jobs, Step(j) \/ Fail(j)
    PROVE  BatchInOrder'
<1>0. pc \in [Jobs -> Labels] /\ pc[j] \notin Resting /\ crashed' = crashed BY JobsAreRunning DEF Places
<1>1. CASE \E l \in Labels \ (Resting \cup {"reopening", "checking"}) : Goto(j, l) /\ batch' = batch
  <2>1. \A r \in Files : \/ pc'[r] = pc[r]
                         \/ pc[r] \notin Resting /\ pc'[r] \notin Resting
    BY <1>0, <1>1 DEF Goto, Jobs, Records
  <2> QED BY <1>0, <1>1, <2>1, BatchStays
<1>2. CASE Finish(j, "completed") BY <1>0, <1>2, BatchGoesOn
<1>3. CASE Finish(j, "failed") BY <1>0, <1>3, BatchGoesOn
<1> QED BY <1>1, <1>2, <1>3, JobsAreRunning

LEMMA JobKeepsTally ==
    ASSUME Rows, Places, BatchInOrder, Tally, NEW j \in Jobs, Step(j) \/ Fail(j)
    PROVE  Tally'
<1> SUFFICES ASSUME Calm'
             PROVE  /\ batch'.completed = Cardinality(Finished')
                    /\ \A r \in Records : Progress(r)'
  BY DEF Tally
<1>0. /\ pc \in [Jobs -> Labels] /\ pc[j] \notin Resting
      /\ aged' = aged /\ crashed' = crashed
  BY JobsAreRunning DEF Places
<1>1. /\ pc' \in [Jobs -> Labels] /\ pc'[j] \notin Waiting
      /\ \A q \in Jobs : \/ q = j
                         \/ pc'[q] = pc[q]
                         \/ q \in Files /\ j \in Files /\ pc[q] = "created" /\ pc'[q] = "checking"
  BY JobMoves
<1>2. j \notin Regenerations BY <1>1 DEF Calm, Waiting
<1>3. Calm
  <2>1. ASSUME NEW q \in Regenerations PROVE pc[q] = "idle"
    <3>1. pc'[q] = "idle" /\ q # j /\ q \notin Files BY <1>2, JobsAssumption DEF Calm
    <3> QED BY <3>1, <1>1 DEF Jobs
  <2> QED BY <1>0, <2>1 DEF Calm
<1>4. j \in Records /\ Of(j) = j BY <1>2 DEF Jobs, Of
<1>5. batch.completed = Cardinality(Finished) /\ \A r \in Records : Progress(r) BY <1>3 DEF Tally
<1>6. ASSUME NEW r \in Records, r # j PROVE Progress(r)' /\ (r \in Finished' <=> r \in Finished)
  <2>1. SameRow(r) BY <1>4, <1>6, OtherRowsStay
  <2>0. r \in Jobs BY DEF Jobs
  <2>2. pc'[r] = pc[r] \/ (pc[r] = "created" /\ pc'[r] = "checking") BY <2>0, <1>1, <1>6
  <2>3. Progress(r) BY <1>5
  <2>4. Progress(r)' BY <2>1, <2>2, <2>3 DEF Progress, SameRow
  <2>5. pc'[r] = "done" /\ status'[r] = "completed" <=> pc[r] = "done" /\ status[r] = "completed"
    BY <2>1, <2>2 DEF SameRow
  <2> QED BY <2>4, <2>5 DEF Finished
<1>7. j \notin Finished BY <1>0 DEF Finished, Resting
<1>8. Finished \subseteq Files /\ Finished' \subseteq Files /\ Files \subseteq Records /\ IsFiniteSet(Finished)
  BY JobsAssumption, FS_Subset DEF Finished, Records
<1>9. batch.completed \in Nat BY DEF Places
<1>10. CASE Finish(j, "failed") /\ status'[j] = "error"
  <2>1. pc'[j] = "done" /\ batch'.completed = batch.completed BY <1>0, <1>9, <1>10, Finishing, Counting
  <2>2. Progress(j)' BY <2>1, <1>10 DEF Progress
  <2>3. j \notin Finished' BY <1>10 DEF Finished
  <2>4. Finished' = Finished BY <2>3, <1>6, <1>7, <1>8
  <2> QED BY <1>5, <1>6, <2>1, <2>2, <2>4
<1>11. CASE Finish(j, "completed") /\ status'[j] = "completed" /\ j \in analysed'
  <2>1. pc'[j] = "done" /\ batch'.completed = batch.completed + (IF j \in Files THEN 1 ELSE 0)
    BY <1>0, <1>9, <1>11, Finishing, Counting
  <2>2. Progress(j)' BY <2>1, <1>11 DEF Progress
  <2>3. j \in Finished' <=> j \in Files BY <2>1, <1>11 DEF Finished
  <2>4. Finished' = IF j \in Files THEN Finished \cup {j} ELSE Finished BY <2>3, <1>6, <1>7, <1>8
  <2>5. Cardinality(Finished \cup {j}) = Cardinality(Finished) + 1 BY <1>7, <1>8, FS_AddElement
  <2> QED BY <1>5, <1>6, <1>9, <2>1, <2>2, <2>4, <2>5
<1>12. CASE pc'[j] # "done" /\ batch' = batch /\ Progress(j)'
  <2>1. j \notin Finished' BY <1>12 DEF Finished
  <2>2. Finished' = Finished BY <2>1, <1>6, <1>7, <1>8
  <2> QED BY <1>5, <1>6, <1>12, <2>2
<1> QED BY <1>1, <1>4, <1>5, <1>10, <1>11, <1>12, OwnProgress

LEMMA JobKeepsRows ==
    ASSUME Rows, Places, NEW j \in Jobs, Step(j) \/ Fail(j)
    PROVE  Rows'
<1>0. /\ Of(j) \in Records /\ aged' = aged /\ clock' = clock
      /\ j \in Regenerations => held[j] \in Nat
  BY JobsAreRunning DEF Places
<1>1. \A s \in {"completed", "error", "processing"}, r \in Records :
        SetStatus(r, s) => status' \in [Records -> Statuses]
  BY DEF SetStatus, Rows, Statuses
<1>2. CASE Fail(j)
  <2>1. status' \in [Records -> Statuses] BY <1>0, <1>1, <1>2 DEF Fail, Abandon
  <2> QED BY <1>0, <1>2, <2>1 DEF Fail, Rows, money
<1>3. CASE CheckBalance(j)
  <2>1. status' \in [Records -> Statuses] BY <1>0, <1>1, <1>3 DEF CheckBalance, Abandon, Rows
  <2> QED BY <1>0, <1>3, <2>1 DEF CheckBalance, Rows, money
<1>4. CASE LookUp(j)
  <2>0. j \in Records /\ Of(j) = j BY <1>4 DEF LookUp, Places, Jobs, Of
  <2>1. status' \in [Records -> Statuses] BY <1>0, <1>1, <1>4, <2>0 DEF LookUp, Abandon, Rows
  <2> QED BY <1>0, <1>4, <2>1 DEF LookUp, Rows, money
<1>5. CASE Copy(j)
  <2>0. j \in Records BY <1>5 DEF Copy, Places, Jobs
  <2> QED BY <1>0, <1>5, <2>0 DEF Copy, Rows, money
<1>6. CASE Transcribe(j)
  <2>1. status' \in [Records -> Statuses] BY <1>0, <1>1, <1>6 DEF Transcribe, Abandon, Rows
  <2> QED BY <1>0, <1>6, <2>1 DEF Transcribe, Rows, money
<1>7. CASE Analyse(j)
  <2>1. status' \in [Records -> Statuses] BY <1>0, <1>1, <1>7 DEF Analyse, Abandon, Rows
  <2> QED BY <1>0, <1>7, <2>1 DEF Analyse, Rows, money
<1>8. CASE Charge(j)
  <2>1. /\ status' = status /\ cdr' = cdr /\ analysed' = analysed /\ bills' = bills
        /\ touched' \subseteq Records
    BY <1>0, <1>8 DEF Charge, rows, Rows
  <2>2. \/ ledger' = ledger /\ debits' = debits
        \/ ledger' = ledger \cup {clock} /\ debits' = [debits EXCEPT ![Of(j)] = @ + 1]
    BY <1>8 DEF Charge, money
  <2>3. ledger' \subseteq 0 .. MaxClock BY <2>2 DEF Rows
  <2>4. debits' \in [Records -> Nat] BY <1>0, <2>2 DEF Rows
  <2> QED BY <1>0, <2>1, <2>3, <2>4 DEF Rows
<1>9. CASE Complete(j) BY <1>0, <1>1, <1>9 DEF Complete, Rows, money
<1>10. CASE Store(j)
  <2>1. cdr' \in [Records -> Nat \cup {NoCdr}]
    <3>1. (IF j \in Records THEN 1
           ELSE IF cdr[Of(j)] = NoCdr THEN NoCdr
           ELSE IF ReplaceCost THEN 1 ELSE held[j] + 1) \in Nat \cup {NoCdr}
      BY <1>0 DEF Jobs
    <3> QED BY <1>0, <1>10, <3>1 DEF Store, Rows
  <2> QED BY <1>0, <1>10, <2>1 DEF Store, Rows, money
<1>11. CASE Annotate(j) BY <1>0, <1>11 DEF Annotate, Rows, money
<1>12. CASE Bill(j) BY <1>0, <1>12 DEF Bill, Rows, money
<1>13. CASE Reopen(j) BY <1>0, <1>1, <1>13 DEF Reopen, Rows, money
<1> QED BY <1>2, <1>3, <1>4, <1>5, <1>6, <1>7, <1>8, <1>9, <1>10, <1>11, <1>12, <1>13 DEF Step

LEMMA JobKeepsPlaces ==
    ASSUME Rows, Places, BatchInOrder, NEW j \in Jobs, Step(j) \/ Fail(j)
    PROVE  Places'
<1>1. /\ pc[j] \notin Resting
      /\ aged' = aged /\ sweep' = sweep /\ held' = held /\ crashed' = crashed /\ Batch' = Batch
  BY JobsAreRunning
<1>2. /\ pc' \in [Jobs -> Labels]
      /\ pc'[j] \notin {"idle", "created", "reopening", "checking"}
      /\ \A q \in Jobs : \/ q = j
                         \/ pc'[q] = pc[q]
                         \/ q \in Files /\ j \in Files /\ pc[q] = "created" /\ pc'[q] = "checking"
  BY JobMoves DEF Waiting
<1>3. batch' \in [at : 0 .. Len(Batch) + 1, completed : Nat, failed : Nat]
  BY <1>1, JobsAreRunning, Counting DEF Places
<1>4. ASSUME NEW q \in Regenerations PROVE pc'[q] \notin {"created", "checking", "looking", "copying"}
  <2>1. q \in Jobs /\ q \notin Records /\ q \notin Files BY JobsAssumption DEF Jobs, Records
  <2>2. pc[q] \notin {"created", "checking", "looking", "copying"} BY DEF Places
  <2>3. CASE q = j
    <3>1. ~CheckBalance(j) /\ ~LookUp(j) /\ ~Copy(j) BY <2>2, <2>3 DEF CheckBalance, LookUp, Copy
    <3>2. pc'[j] \notin {"looking", "copying"}
      <4>1. CASE Finish(j, "completed") \/ Finish(j, "failed") BY <1>1, <4>1, Finishing
      <4>2. ASSUME NEW l \in Labels, Goto(j, l), l \notin {"looking", "copying"}
            PROVE  pc'[j] \notin {"looking", "copying"}
        BY <4>2 DEF Goto, Places
      <4> QED
        BY <3>1, <4>1, <4>2 DEF Step, Fail, Transcribe, Analyse, Charge, Complete, Store, Annotate,
                                Bill, Reopen, Abandon, Labels
    <3> QED BY <1>2, <2>3, <3>2
  <2> QED BY <1>2, <2>1, <2>2, <2>3
<1>5. \A r \in Records : pc'[r] # "reopening"
  <2>1. \A r \in Records : r \in Jobs /\ pc[r] # "reopening" BY DEF Jobs, Places
  <2> QED BY <1>2, <2>1
<1> QED BY <1>1, <1>2, <1>3, <1>4, <1>5 DEF Places

------------------------
\* The steps that start no work and end none leave pc, batch and crashed alone; the
\* others each come with the part of the invariant they disturb.
LEMMA Starting ==
    ASSUME Rows, Places, BatchInOrder, NEW r \in Records, CreateRow(r)
    PROVE  /\ pc[r] = "idle" /\ status'[r] = "processing"
           /\ pc' \in [Jobs -> Labels]
           /\ pc'[r] = IF r \in Urls THEN "checking" ELSE "created"
           /\ \A q \in Jobs : q # r => pc'[q] = pc[q]
           /\ \A s \in Records : s # r => status'[s] = status[s]
           /\ status' \in [Records -> Statuses]
  BY DEF CreateRow, Goto, Labels, Rows, Places, Jobs, Statuses

LEMMA CreateRowKeeps ==
    ASSUME IInv, NEW r \in Records, CreateRow(r)
    PROVE  IInv'
<1>0. Rows /\ Places /\ (\A s \in Records : Books(s)) /\ BatchInOrder /\ Tally BY DEF IInv
<1>1. /\ cdr' = cdr /\ bills' = bills /\ debits' = debits /\ analysed' = analysed /\ touched' = touched
      /\ aged' = aged /\ sweep' = sweep /\ held' = held /\ batch' = batch /\ crashed' = crashed
      /\ ledger' = ledger /\ clock' = clock /\ Batch' = Batch
  BY DEF CreateRow, money
<1>2. /\ pc[r] = "idle" /\ status'[r] = "processing"
      /\ pc' \in [Jobs -> Labels]
      /\ pc'[r] = IF r \in Urls THEN "checking" ELSE "created"
      /\ \A q \in Jobs : q # r => pc'[q] = pc[q]
      /\ \A s \in Records : s # r => status'[s] = status[s]
      /\ status' \in [Records -> Statuses]
  BY <1>0, Starting
<1>3. Rows' BY <1>0, <1>1, <1>2 DEF Rows
<1>4. Places'
  <2>1. \A q \in Regenerations : q \in Jobs /\ q # r BY JobsAssumption DEF Jobs, Records
  <2>2. \A s \in Records : s \in Jobs BY DEF Jobs
  <2> QED BY <1>0, <1>1, <1>2, <2>1, <2>2 DEF Places
<1>5. ASSUME NEW s \in Records PROVE Books(s)'
  <2>1. CASE s # r
    <3>1. SameRow(s) BY <1>1, <1>2, <2>1 DEF SameRow
    <3>2. \A q \in Jobs : Of(q) = s => pc'[q] = pc[q] BY <1>2, <2>1 DEF Of
    <3> QED BY <1>0, <1>1, <3>1, <3>2, OtherRecord
  <2>2. CASE s = r
    <3>0. r \in Jobs /\ Of(r) = r /\ r \notin Regenerations BY JobsAssumption DEF Of, Jobs, Records
    <3>1. Fresh(r) BY <1>0, <1>2 DEF Books, Waiting
    <3>2. r \notin aged /\ r \notin sweep.ids BY <1>0, <1>2, <3>1 DEF Fresh, Places
    <3>3. \A q \in Jobs : Of(q) = r /\ q # r => pc'[q] \in Resting BY <1>2, <3>1 DEF Fresh, Working, Running
    <3>4. CASE r \in Urls
      <4>1. Working(r)' = {r} BY <1>2, <3>0, <3>3, <3>4 DEF Working, Running, Resting
      <4>2. UnderWay(r)' BY <1>1, <1>2, <3>0, <3>1, <3>2, <3>4 DEF Fresh, UnderWay, Paid, Stored
      <4> QED BY <1>2, <2>2, <3>4, <4>1, <4>2 DEF Books, Waiting
    <3>5. CASE r \notin Urls
      <4>1. Working(r)' = {} BY <1>2, <3>0, <3>3, <3>5 DEF Working, Running, Resting
      <4>2. Fresh(r)' BY <1>1, <1>2, <3>1, <3>2, <3>5, <4>1 DEF Fresh
      <4>3. Quiet(r)' BY <1>1, <1>2, <3>1, <3>2 DEF Fresh, Quiet
      <4> QED BY <2>2, <4>1, <4>2, <4>3 DEF Books
    <3> QED BY <3>4, <3>5
  <2> QED BY <2>1, <2>2
<1>6. BatchInOrder'
  <2>1. CASE batch.at = 0
    <3>1. ASSUME NEW s \in Files PROVE pc'[s] \in Waiting
      <4>1. s \in Jobs /\ s \notin Urls BY JobsAssumption DEF Jobs, Records
      <4>2. pc[s] \in Waiting BY <1>0, <2>1 DEF BatchInOrder
      <4> QED BY <1>2, <4>1, <4>2 DEF Waiting
    <3>2. 0 \notin 1 .. Len(Batch) /\ 0 # Len(Batch) + 1 BY BatchIsAList
    <3> QED BY <1>0, <1>1, <2>1, <3>1, <3>2 DEF BatchInOrder
  <2>2. CASE batch.at \in 1 .. Len(Batch)
    <3>1. \A s \in Files : pc[s] # "idle"
      <4> SUFFICES ASSUME NEW i \in 1 .. Len(Batch) PROVE pc[Batch[i]] # "idle" BY BatchIsAList
      <4>1. \/ pc[Batch[i]] = "done"
            \/ Batch[i] \in Running
            \/ pc[Batch[i]] = "created"
        BY <1>0, <2>2, BatchIsAList DEF BatchInOrder
      <4> QED BY <4>1 DEF Running, Resting
    <3>2. \A s \in Files : pc'[s] = pc[s] BY <1>2, <3>1 DEF Jobs, Records
    <3> QED BY <1>0, <1>1, <3>2, BatchStays
  <2>3. CASE batch.at = Len(Batch) + 1
    <3>1. Files \cap Running' = {}
      <4> SUFFICES ASSUME NEW s \in Files PROVE pc'[s] \in Resting BY DEF Running
      <4>1. s \in Jobs /\ s \notin Urls BY JobsAssumption DEF Jobs, Records
      <4>2. pc[s] \in Resting BY <1>0, <2>3, <4>1 DEF BatchInOrder, Running
      <4> QED BY <1>2, <4>1, <4>2 DEF Resting
    <3>2. ~crashed => r \notin Files BY <1>0, <1>2, <2>3 DEF BatchInOrder
    <3>3. ~crashed => \A s \in Files : pc'[s] = "done" BY <1>0, <1>2, <2>3, <3>2 DEF BatchInOrder, Jobs, Records
    <3>4. Len(Batch) + 1 # 0 /\ Len(Batch) + 1 \notin 1 .. Len(Batch) BY BatchIsAList
    <3> QED BY <1>0, <1>1, <2>3, <3>1, <3>3, <3>4 DEF BatchInOrder
  <2> QED BY <1>0, <2>1, <2>2, <2>3, BatchIsAList DEF Places
<1>7. Tally'
  <2> SUFFICES ASSUME Calm' PROVE batch.completed = Cardinality(Finished') /\ \A s \in Records : Progress(s)'
    BY <1>1 DEF Tally
  <2>1. Calm BY <1>1, <1>2, JobsAssumption DEF Calm, Jobs, Records
  <2>2. Finished' = Finished BY <1>2, JobsAssumption DEF Finished, Jobs, Records
  <2>3. ASSUME NEW s \in Records PROVE Progress(s)'
    <3>0. s \in Jobs /\ Progress(s) BY <1>0, <2>1 DEF Jobs, Tally
    <3>1. CASE s # r BY <1>1, <1>2, <3>0, <3>1 DEF Progress
    <3>2. CASE s = r BY <1>1, <1>2, <3>2 DEF Progress
    <3> QED BY <3>1, <3>2
  <2> QED BY <1>0, <2>1, <2>2, <2>3 DEF Tally
<1> QED BY <1>3, <1>4, <1>5, <1>6, <1>7 DEF IInv

LEMMA StartBatchKeeps ==
    ASSUME IInv, StartBatch
    PROVE  IInv'
<1>0. Rows /\ Places /\ (\A s \in Records : Books(s)) /\ BatchInOrder /\ Tally BY DEF IInv
<1>1. /\ rows' = rows /\ debits' = debits /\ touched' = touched
      /\ aged' = aged /\ sweep' = sweep /\ held' = held /\ crashed' = crashed
      /\ ledger' = ledger /\ clock' = clock /\ Batch' = Batch
  BY DEF StartBatch, money
<1>2. status' = status /\ cdr' = cdr /\ bills' = bills /\ analysed' = analysed BY <1>1 DEF rows
<1>3. Len(Batch) \in Nat /\ Len(Batch) > 0 /\ Batch[1] \in Files /\ Batch[1] \in Jobs /\ Batch[1] \in Records
  BY BatchIsAList DEF StartBatch, Jobs, Records
<1>4. /\ pc' \in [Jobs -> Labels] /\ pc'[Batch[1]] = "checking" /\ pc[Batch[1]] = "created"
      /\ \A q \in Jobs : q # Batch[1] => pc'[q] = pc[q]
  BY <1>0, <1>3 DEF StartBatch, Goto, Labels, Places
<1>5. batch.at = 0 /\ batch' = [batch EXCEPT !.at = 1] /\ \A s \in Files : pc[s] = "created" BY DEF StartBatch
<1>6. /\ batch' \in [at : 0 .. Len(Batch) + 1, completed : Nat, failed : Nat]
      /\ batch'.at = 1 /\ batch'.completed = batch.completed /\ batch'.failed = batch.failed
  BY <1>0, <1>3, <1>5 DEF Places
<1>7. Rows' BY <1>0, <1>1, <1>2 DEF Rows
<1>8. Places'
  <2>1. \A q \in Regenerations : q \in Jobs /\ q # Batch[1] BY <1>3, JobsAssumption DEF Jobs, Records
  <2>2. \A s \in Records : s \in Jobs BY DEF Jobs
  <2> QED BY <1>0, <1>1, <1>4, <1>6, <2>1, <2>2 DEF Places
<1>9. ASSUME NEW s \in Records PROVE Books(s)'
  <2>1. SameRow(s) BY <1>1, <1>2 DEF SameRow
  <2>2. \A q \in Jobs : Of(q) = s => \/ pc'[q] = pc[q]
                                     \/ q = s /\ pc[q] = "created" /\ pc'[q] = "checking"
    BY <1>3, <1>4 DEF Of
  <2> QED BY <1>0, <1>1, <2>1, <2>2, OtherRecord
<1>10. BatchInOrder'
  <2>1. batch.completed = 0 /\ batch.failed = 0 /\ ~crashed BY <1>0, <1>5 DEF BatchInOrder
  <2>2. ASSUME NEW i \in 1 .. Len(Batch)
        PROVE  /\ i = 1 => Batch[i] \in Running'
               /\ i > 1 => pc'[Batch[i]] = "created"
    <3>1. Batch[i] \in Files /\ Batch[i] \in Jobs /\ (i # 1 => Batch[i] # Batch[1])
      BY <1>3, BatchIsAList DEF Jobs, Records
    <3> QED BY <1>4, <1>5, <3>1 DEF Running, Resting
  <2>3. batch'.at \in 1 .. Len(Batch) /\ batch'.at # 0 /\ batch'.at # Len(Batch) + 1 BY <1>3, <1>6
  <2> QED BY <1>1, <1>6, <2>1, <2>2, <2>3 DEF BatchInOrder
<1>11. Tally'
  <2> SUFFICES ASSUME Calm' PROVE batch.completed = Cardinality(Finished') /\ \A s \in Records : Progress(s)'
    BY <1>6 DEF Tally
  <2>1. Calm BY <1>1, <1>3, <1>4, JobsAssumption DEF Calm, Jobs, Records
  <2>2. \A s \in Records : /\ s \in Jobs
                           /\ \/ pc'[s] = pc[s]
                              \/ pc[s] = "created" /\ pc'[s] = "checking"
    BY <1>4 DEF Jobs
  <2>3. Finished' = Finished BY <1>2, <2>2 DEF Finished, Records
  <2>4. ASSUME NEW s \in Records PROVE Progress(s)'
    <3>1. Progress(s) BY <1>0, <2>1 DEF Tally
    <3> QED BY <1>2, <2>2, <3>1 DEF Progress
  <2> QED BY <1>0, <2>1, <2>3, <2>4 DEF Tally
<1> QED BY <1>7, <1>8, <1>9, <1>10, <1>11 DEF IInv

LEMMA LoadKeeps ==
    ASSUME IInv, NEW j \in Regenerations, Load(j)
    PROVE  IInv'
<1>0. Rows /\ Places /\ (\A s \in Records : Books(s)) /\ BatchInOrder /\ Tally BY DEF IInv
<1>1. /\ rows' = rows /\ debits' = debits /\ aged' = aged /\ sweep' = sweep /\ batch' = batch
      /\ crashed' = crashed /\ ledger' = ledger /\ clock' = clock /\ Batch' = Batch
  BY DEF Load, money
<1>2. status' = status /\ cdr' = cdr /\ bills' = bills /\ analysed' = analysed BY <1>1 DEF rows
<1>3. j \in Jobs /\ j \notin Records /\ Of(j) = Target /\ Target \in Records BY JobsAssumption DEF Of, Jobs, Records
<1>4. /\ pc' \in [Jobs -> Labels] /\ pc'[j] = "reopening" /\ pc[j] = "idle"
      /\ \A q \in Jobs : q # j => pc'[q] = pc[q]
  BY <1>0, <1>3 DEF Load, Goto, Labels, Places
<1>5. /\ status[Target] # "none" /\ cdr[Target] # NoCdr /\ cdr[Target] \in Nat
      /\ held' = [held EXCEPT ![j] = cdr[Target]]
      /\ touched' = IF Working(Target) = {} /\ Target \notin sweep.ids
                    THEN touched ELSE touched \cup {Target}
  BY <1>0, <1>3 DEF Load, Rows
<1>6. Rows' BY <1>0, <1>1, <1>2, <1>3, <1>5 DEF Rows
<1>7. Places'
  <2>1. held' \in [Regenerations -> Nat] BY <1>0, <1>5 DEF Places
  <2>2. \A s \in Records : s \in Jobs /\ s # j BY <1>3 DEF Jobs
  <2>3. \A q \in Regenerations : q \in Jobs BY DEF Jobs
  <2> QED BY <1>0, <1>1, <1>4, <2>1, <2>2, <2>3 DEF Places
<1>8. ASSUME NEW s \in Records PROVE Books(s)'
  <2>1. CASE s # Target
    <3>1. SameRow(s) BY <1>1, <1>2, <1>5, <2>1 DEF SameRow
    <3>2. \A q \in Jobs : Of(q) = s => pc'[q] = pc[q] BY <1>3, <1>4, <2>1
    <3>3. \A q \in Regenerations : Of(q) # s BY <2>1, JobsAssumption DEF Of, Records
    <3> QED BY <1>0, <1>1, <3>1, <3>2, <3>3, OtherRecord
  <2>2. CASE s = Target
    <3>0. s \in Jobs /\ s # j BY <1>3, <2>2 DEF Jobs
    <3>1. pc'[s] \notin Waiting BY <1>0, <1>4, <1>5, <2>2, <3>0 DEF Books, Fresh
    <3>2. CASE s \in touched' BY <3>1, <3>2 DEF Books
    <3>3. CASE s \notin touched'
      <4>1. Working(s) = {} /\ s \notin sweep.ids /\ s \notin touched BY <1>5, <2>2, <3>3
      <4>2. Quiet(s) BY <1>0, <4>1 DEF Books
      <4>3. \A q \in Jobs : Of(q) = s /\ q # j => pc'[q] \in Resting BY <1>4, <4>1 DEF Working, Running
      <4>4. Working(s)' = {j} BY <1>3, <1>4, <2>2, <4>3 DEF Working, Running, Resting
      <4>5. held'[j] = cdr[s] BY <1>0, <1>5, <2>2 DEF Places
      <4>6. bills[s] \in Nat /\ debits[s] \in Nat BY <1>0 DEF Rows
      <4>7. UnderWay(j)'
        BY <1>1, <1>2, <1>3, <1>4, <1>5, <2>2, <4>1, <4>2, <4>5, <4>6 DEF Quiet, UnderWay, Paid, Stored
      <4> QED BY <3>1, <4>4, <4>7 DEF Books
    <3> QED BY <3>2, <3>3
  <2> QED BY <2>1, <2>2
<1>9. BatchInOrder'
  <2>1. \A s \in Files : pc'[s] = pc[s] BY <1>3, <1>4 DEF Jobs, Records
  <2> QED BY <1>0, <1>1, <2>1, BatchStays
<1>10. Tally' BY <1>4 DEF Tally, Calm
<1> QED BY <1>6, <1>7, <1>8, <1>9, <1>10 DEF IInv

LEMMA CrashKeeps ==
    ASSUME IInv, Crash
    PROVE  IInv'
<1>0. Rows /\ Places /\ (\A s \in Records : Books(s)) /\ BatchInOrder BY DEF IInv
<1>1. /\ rows' = rows /\ debits' = debits /\ aged' = aged /\ held' = held
      /\ crashed' = TRUE /\ ledger' = ledger /\ clock' = clock /\ Batch' = Batch
      /\ touched' = touched \cup {Of(q) : q \in Running} \cup sweep.ids
      /\ batch' = [batch EXCEPT !.at = Len(Batch) + 1]
      /\ sweep' = [at |-> "idle", ids |-> {}]
  BY DEF Crash, money
<1>2. status' = status /\ cdr' = cdr /\ bills' = bills /\ analysed' = analysed BY <1>1 DEF rows
<1>3. \A q \in Jobs : pc'[q] = IF pc[q] \in {"idle", "done"} THEN pc[q] ELSE "lost" BY DEF Crash
<1>4. pc' \in [Jobs -> Labels] BY <1>0 DEF Crash, Places, Labels
<1>5. /\ batch' \in [at : 0 .. Len(Batch) + 1, completed : Nat, failed : Nat]
      /\ batch'.at = Len(Batch) + 1
      /\ batch'.completed = batch.completed /\ batch'.failed = batch.failed
  BY <1>0, <1>1, BatchIsAList DEF Places
<1>6. Rows'
  <2>1. \A q \in Running : Of(q) \in Records BY JobsAssumption DEF Running, Of, Jobs, Records
  <2>2. touched' \subseteq Records BY <1>0, <1>1, <2>1 DEF Rows, Places
  <2> QED BY <1>0, <1>1, <1>2, <2>2 DEF Rows
<1>7. Places'
  <2>1. sweep' \in [at : Sweeps, ids : SUBSET aged'] BY <1>1 DEF Sweeps
  <2>2. (\A s \in Records : pc'[s] # "reopening")
        /\ (\A q \in Regenerations : pc'[q] \notin {"created", "checking", "looking", "copying"})
    BY <1>0, <1>3 DEF Jobs, Places
  <2> QED BY <1>0, <1>1, <1>4, <1>5, <2>1, <2>2 DEF Places
<1>8. ASSUME NEW s \in Records PROVE Books(s)'
  <2>0. s \in Jobs /\ Running' = {} BY <1>3 DEF Jobs, Running, Resting
  <2>1. Working(s)' = {} BY <2>0 DEF Working
  <2>2. ASSUME pc'[s] \in Waiting PROVE Fresh(s)'
    <3>1. pc[s] = "idle" /\ pc'[s] = "idle" BY <1>3, <2>0, <2>2 DEF Waiting
    <3>2. Fresh(s) BY <1>0, <3>1 DEF Books, Waiting
    <3> QED BY <1>1, <1>2, <2>1, <3>1, <3>2 DEF Fresh
  <2>3. ASSUME s \notin touched' PROVE Quiet(s)'
    <3>1. s \notin touched /\ s \notin sweep.ids /\ Working(s) = {} BY <1>1, <2>3 DEF Working
    <3>2. Quiet(s) BY <1>0, <3>1 DEF Books
    <3>3. s \notin sweep'.ids BY <1>1
    <3> QED BY <1>1, <1>2, <3>1, <3>2, <3>3 DEF Quiet
  <2> QED BY <2>1, <2>2, <2>3 DEF Books
<1>9. BatchInOrder'
  <2>1. batch.completed + batch.failed \in 0 .. Len(Batch) BY <1>0, BatchIsAList DEF BatchInOrder, Places
  <2>2. Files \cap Running' = {} BY <1>3 DEF Running, Resting
  <2>3. Len(Batch) + 1 # 0 /\ Len(Batch) + 1 \notin 1 .. Len(Batch) BY BatchIsAList
  <2> QED BY <1>1, <1>5, <2>1, <2>2, <2>3 DEF BatchInOrder
<1>10. Tally' BY <1>1 DEF Tally, Calm
<1> QED BY <1>6, <1>7, <1>8, <1>9, <1>10 DEF IInv

LEMMA ReapKeeps ==
    ASSUME IInv, Reap
    PROVE  IInv'
<1>0. Rows /\ Places /\ (\A s \in Records : Books(s)) /\ BatchInOrder BY DEF IInv
<1>1. /\ pc' = pc /\ aged' = aged /\ cdr' = cdr /\ analysed' = analysed /\ bills' = bills /\ debits' = debits
      /\ touched' = touched /\ sweep' = sweep /\ held' = held /\ batch' = batch /\ crashed' = crashed
      /\ ledger' = ledger /\ clock' = clock /\ Batch' = Batch /\ aged # {}
  BY DEF Reap, money
<1>2. \A s \in Records : status'[s] = IF status[s] = "processing" /\ s \in aged THEN "error" ELSE status[s]
  BY DEF Reap
<1>3. Rows'
  <2>1. status' \in [Records -> Statuses] BY <1>0 DEF Reap, Rows, Statuses
  <2> QED BY <1>0, <1>1, <2>1 DEF Rows
<1>4. Places' BY <1>0, <1>1 DEF Places
<1>5. ASSUME NEW s \in Records PROVE Books(s)'
  <2>1. Working(s)' = Working(s) BY <1>1 DEF Working, Running
  <2>2. Fresh(s) => Fresh(s)' BY <1>1, <1>2, <2>1 DEF Fresh
  <2>3. Quiet(s) => Quiet(s)' BY <1>1, <1>2 DEF Quiet
  <2>4. ASSUME NEW j \in Working(s), UnderWay(j) PROVE UnderWay(j)'
    <3>1. Of(j) = s BY <2>4 DEF Working
    <3> QED BY <1>1, <1>2, <2>4, <3>1 DEF UnderWay, Paid, Stored
  <2> QED BY <1>0, <1>1, <2>1, <2>2, <2>3, <2>4 DEF Books
<1>6. BatchInOrder' BY <1>0, <1>1, BatchStays
<1>7. Tally' BY <1>1 DEF Tally, Calm
<1> QED BY <1>3, <1>4, <1>5, <1>6, <1>7 DEF IInv

LEMMA AgeKeeps ==
    ASSUME IInv, NEW r \in Records, Age(r)
    PROVE  IInv'
<1>0. Rows /\ Places /\ (\A s \in Records : Books(s)) /\ BatchInOrder BY DEF IInv
<1>1. /\ rows' = rows /\ pc' = pc /\ aged' = aged \cup {r} /\ debits' = debits
      /\ touched' = touched /\ sweep' = sweep /\ held' = held /\ batch' = batch /\ crashed' = crashed
      /\ ledger' = ledger /\ clock' = clock /\ Batch' = Batch
      /\ status[r] # "none"
  BY DEF Age, money
<1>2. status' = status /\ cdr' = cdr /\ bills' = bills /\ analysed' = analysed BY <1>1 DEF rows
<1>3. Rows' BY <1>0, <1>1, <1>2 DEF Rows
<1>4. Places' BY <1>0, <1>1 DEF Places
<1>5. ASSUME NEW s \in Records PROVE Books(s)'
  <2>1. Working(s)' = Working(s) BY <1>1 DEF Working, Running
  <2>2. Fresh(s) => Fresh(s)' BY <1>1, <1>2, <2>1 DEF Fresh
  <2>3. Quiet(s) => Quiet(s)' BY <1>1, <1>2 DEF Quiet
  <2>4. ASSUME NEW j \in Working(s), UnderWay(j) PROVE UnderWay(j)' BY <1>1, <1>2, <2>4 DEF UnderWay, Paid, Stored
  <2> QED BY <1>0, <1>1, <2>1, <2>2, <2>3, <2>4 DEF Books
<1>6. BatchInOrder' BY <1>0, <1>1, BatchStays
<1>7. Tally' BY <1>1 DEF Tally, Calm
<1> QED BY <1>3, <1>4, <1>5, <1>6, <1>7 DEF IInv

\* Retention: the records it picks while somebody works on them are touched, the
\* others lose their analysis, then their CDR, then their row.
LEMMA RetireKeeps ==
    ASSUME IInv, Retire
    PROVE  IInv'
<1> DEFINE next == CASE sweep.at = "idle" -> "analyses" [] sweep.at = "analyses" -> "cdrs"
                     [] sweep.at = "cdrs" -> "rows"     [] sweep.at = "rows"     -> "idle"
           ids  == IF sweep.at = "idle" THEN {r \in aged : status[r] # "none"} ELSE sweep.ids
<1>0. Rows /\ Places /\ (\A s \in Records : Books(s)) /\ BatchInOrder BY DEF IInv
<1>1. /\ pc' = pc /\ aged' = aged /\ bills' = bills /\ debits' = debits /\ held' = held
      /\ batch' = batch /\ crashed' = crashed /\ ledger' = ledger /\ clock' = clock /\ Batch' = Batch
  BY DEF Retire, money
<1>2. /\ ids # {}
      /\ sweep' = [at |-> next, ids |-> IF next = "idle" THEN {} ELSE ids]
      /\ analysed' = IF sweep.at = "analyses" THEN analysed \ ids ELSE analysed
      /\ cdr' = IF sweep.at = "cdrs" THEN [r \in Records |-> IF r \in ids THEN NoCdr ELSE cdr[r]] ELSE cdr
      /\ status' = IF sweep.at = "rows"
                   THEN [r \in Records |-> IF r \in ids THEN "none" ELSE status[r]] ELSE status
      /\ touched' = touched \cup {r \in ids : Working(r) # {} \/ pc[r] = "created"}
  BY DEF Retire
<1>3. sweep.at \in Sweeps /\ sweep.ids \subseteq aged BY <1>0 DEF Places
<1>4. /\ next \in Sweeps
      /\ sweep.at = "idle" => next = "analyses"
      /\ sweep.at = "analyses" => next = "cdrs"
      /\ sweep.at = "cdrs" => next = "rows"
      /\ sweep.at = "rows" => next = "idle"
  BY <1>3 DEF Sweeps
<1>5. ids \subseteq aged /\ (sweep.at # "idle" => ids = sweep.ids) /\ aged \subseteq Records BY <1>0, <1>3 DEF Rows
<1>6. sweep'.at = next /\ sweep'.ids = IF next = "idle" THEN {} ELSE ids BY <1>2
<1> HIDE DEF next, ids
<1>7. Rows'
  <2>1. status' \in [Records -> Statuses] BY <1>0, <1>2 DEF Rows, Statuses
  <2>2. cdr' \in [Records -> Nat \cup {NoCdr}] BY <1>0, <1>2 DEF Rows
  <2>3. analysed' \subseteq Records /\ touched' \subseteq Records BY <1>0, <1>2, <1>5 DEF Rows
  <2> QED BY <1>0, <1>1, <2>1, <2>2, <2>3 DEF Rows
<1>8. Places'
  <2>1. sweep' \in [at : Sweeps, ids : SUBSET aged'] BY <1>1, <1>2, <1>4, <1>5
  <2>2. sweep'.at = "idle" => sweep'.ids = {} BY <1>6
  <2> QED BY <1>0, <1>1, <2>1, <2>2 DEF Places
<1>9. ASSUME NEW s \in Records PROVE Books(s)'
  <2>0. /\ bills'[s] = bills[s] /\ debits'[s] = debits[s] /\ pc'[s] = pc[s]
        /\ s \in analysed' <=> s \in analysed /\ ~(sweep.at = "analyses" /\ s \in ids)
        /\ cdr'[s] = IF sweep.at = "cdrs" /\ s \in ids THEN NoCdr ELSE cdr[s]
        /\ status'[s] = IF sweep.at = "rows" /\ s \in ids THEN "none" ELSE status[s]
        /\ s \in touched' <=> s \in touched \/ (s \in ids /\ (Working(s) # {} \/ pc[s] = "created"))
        /\ s \in sweep'.ids <=> s \in ids /\ sweep.at # "rows"
    BY <1>1, <1>2, <1>3, <1>4, <1>6 DEF Sweeps
  <2>1. Working(s)' = Working(s) BY <1>1 DEF Working, Running
  <2>2. ASSUME pc[s] \in Waiting PROVE Fresh(s)'
    <3>1. Fresh(s) BY <1>0, <2>2 DEF Books
    <3>2. pc[s] = "idle" => s \notin ids BY <1>5, <3>1 DEF Fresh
    <3> QED BY <1>1, <2>0, <2>1, <3>1, <3>2 DEF Fresh
  <2>3. ASSUME s \notin touched', Working(s) = {} PROVE Quiet(s)'
    <3>1. Quiet(s) /\ s \notin touched BY <1>0, <2>0, <2>3 DEF Books
    <3>2. sweep.at = "idle" => s \notin sweep.ids BY <1>0 DEF Places
    <3>3. sweep.at # "idle" => (s \in ids <=> s \in sweep.ids) BY <1>5
    <3>4. CASE s \notin ids BY <2>0, <3>1, <3>2, <3>3, <3>4 DEF Quiet
    <3>5. CASE s \in ids /\ sweep.at = "idle" BY <1>4, <1>6, <2>0, <3>1, <3>2, <3>5 DEF Quiet
    <3>6. CASE s \in ids /\ sweep.at = "analyses" BY <1>4, <1>6, <2>0, <3>1, <3>3, <3>6 DEF Quiet
    <3>7. CASE s \in ids /\ sweep.at = "cdrs" BY <1>4, <1>6, <2>0, <3>1, <3>3, <3>7 DEF Quiet
    <3>8. CASE s \in ids /\ sweep.at = "rows" BY <1>4, <1>6, <2>0, <3>1, <3>3, <3>8 DEF Quiet
    <3> QED BY <1>3, <3>4, <3>5, <3>6, <3>7, <3>8 DEF Sweeps
  <2>4. ASSUME s \notin touched', NEW j \in Working(s) PROVE Working(s) = {j} /\ UnderWay(j)'
    <3>1. Working(s) = {j} /\ UnderWay(j) /\ s \notin ids BY <1>0, <2>0, <2>4 DEF Books
    <3>2. Of(j) = s BY <2>4 DEF Working
    <3> QED BY <1>1, <2>0, <3>1, <3>2 DEF UnderWay, Paid, Stored
  <2> QED BY <2>0, <2>1, <2>2, <2>3, <2>4 DEF Books
<1>10. BatchInOrder' BY <1>0, <1>1, BatchStays
<1>11. Tally'
  <2>1. aged # {} BY <1>2, <1>5
  <2> QED BY <1>1, <2>1 DEF Tally, Calm
<1> QED BY <1>7, <1>8, <1>9, <1>10, <1>11 DEF IInv

LEMMA InitHolds == Init => IInv
<1> SUFFICES ASSUME Init PROVE IInv OBVIOUS
<1>1. /\ pc = [j \in Jobs |-> "idle"] /\ \A j \in Jobs : pc[j] = "idle"
      /\ Running = {}
  BY DEF Init, Running, Resting
<1>2. Rows BY JobsAssumption DEF Init, Rows, Statuses
<1>3. Places
  <2>1. /\ \A r \in Records : r \in Jobs
        /\ \A j \in Regenerations : j \in Jobs
    BY DEF Jobs
  <2>2. batch \in [at : 0 .. Len(Batch) + 1, completed : Nat, failed : Nat] BY BatchIsAList DEF Init
  <2>3. pc \in [Jobs -> Labels] BY <1>1 DEF Labels
  <2>4. sweep \in [at : Sweeps, ids : SUBSET aged] BY DEF Init, Sweeps
  <2> QED BY <1>1, <2>1, <2>2, <2>3, <2>4 DEF Init, Places
<1>4. ASSUME NEW r \in Records PROVE Books(r)
  <2>1. Working(r) = {} /\ sweep.ids = {} BY <1>1 DEF Init, Working
  <2>2. r \in Jobs /\ pc[r] = "idle" BY <1>1 DEF Jobs
  <2>3. status[r] = "none" /\ cdr[r] = NoCdr /\ bills[r] = 0 /\ debits[r] = 0 BY DEF Init
  <2> QED BY <2>1, <2>2, <2>3 DEF Init, Books, Fresh, Quiet
<1>5. BatchInOrder
  <2>1. batch.at = 0 /\ batch.completed = 0 /\ batch.failed = 0 /\ ~crashed BY DEF Init
  <2>2. \A r \in Files : pc[r] \in Waiting BY <1>1 DEF Jobs, Records, Waiting
  <2>3. 0 \notin 1 .. Len(Batch) /\ 0 # Len(Batch) + 1 BY BatchIsAList
  <2> QED BY <2>1, <2>2, <2>3 DEF BatchInOrder
<1>6. Tally
  <2>1. \A r \in Records : r \in Jobs /\ pc[r] = "idle" BY <1>1 DEF Jobs
  <2>2. Finished = {} BY <2>1 DEF Finished, Records
  <2>3. \A r \in Records : Progress(r) BY <2>1 DEF Progress
  <2> QED BY <2>2, <2>3, FS_EmptySet DEF Init, Tally
<1> QED BY <1>2, <1>3, <1>4, <1>5, <1>6 DEF IInv

LEMMA NextKeeps == IInv /\ [Next]_vars => IInv'
<1> SUFFICES ASSUME IInv, [Next]_vars PROVE IInv' OBVIOUS
<1>0. Rows /\ Places /\ (\A r \in Records : Books(r)) /\ BatchInOrder /\ Tally BY DEF IInv
<1>1. ASSUME NEW j \in Jobs, Step(j) \/ Fail(j) PROVE IInv'
  BY <1>0, <1>1, JobKeepsRows, JobKeepsPlaces, JobKeepsBooks, JobKeepsBatch, JobKeepsTally DEF IInv
<1>2. CASE Tick
  <2>1. /\ rows' = rows /\ debits' = debits /\ aged' = aged /\ ledger' = ledger /\ pc' = pc /\ held' = held
        /\ batch' = batch /\ sweep' = sweep /\ touched' = touched /\ crashed' = crashed /\ Batch' = Batch
    BY <1>2 DEF Tick, money
  <2>2. status' = status /\ cdr' = cdr /\ analysed' = analysed /\ bills' = bills BY <2>1 DEF rows
  <2>3. clock' \in 0 .. MaxClock BY <1>0, <1>2, JobsAssumption DEF Tick, Rows
  <2>4. Rows' BY <1>0, <2>1, <2>2, <2>3 DEF Rows
  <2>5. Places' /\ BatchInOrder' BY <1>0, <2>1, BatchStays DEF Places
  <2>6. ASSUME NEW r \in Records PROVE Books(r)' BY <1>0, <2>1, <2>2, <2>6, OtherRecord DEF SameRow
  <2>7. Tally' BY <1>0, <2>1, <2>2 DEF Tally, Calm, Finished, Progress
  <2> QED BY <2>4, <2>5, <2>6, <2>7 DEF IInv
<1>3. CASE UNCHANGED vars
  <2>1. /\ status' = status /\ aged' = aged /\ cdr' = cdr /\ analysed' = analysed /\ bills' = bills
        /\ ledger' = ledger /\ clock' = clock /\ pc' = pc /\ held' = held /\ batch' = batch
        /\ sweep' = sweep /\ debits' = debits /\ touched' = touched /\ crashed' = crashed /\ Batch' = Batch
    BY <1>3 DEF vars
  <2>2. Rows' BY <1>0, <2>1 DEF Rows
  <2>3. Places' /\ BatchInOrder' BY <1>0, <2>1, BatchStays DEF Places
  <2>4. ASSUME NEW r \in Records PROVE Books(r)' BY <1>0, <2>1, <2>4, OtherRecord DEF SameRow
  <2>5. Tally' BY <1>0, <2>1 DEF Tally, Calm, Finished, Progress
  <2> QED BY <2>2, <2>3, <2>4, <2>5 DEF IInv
<1>4. CASE Next
  BY <1>1, <1>2, <1>4, CreateRowKeeps, AgeKeeps, LoadKeeps, StartBatchKeeps, CrashKeeps, ReapKeeps, RetireKeeps
  DEF Next
<1> QED BY <1>3, <1>4

\* In every behaviour, for any records, batch, requests and prices, a job that is over
\* leaves debits, billing records, CDR and analysis of its recording in agreement.
THEOREM BooksAreSound == Spec => []BooksSound
<1>1. IInv => BooksSound
  <2> SUFFICES ASSUME IInv PROVE BooksSound OBVIOUS
  <2>0. Rows /\ Places /\ (\A r \in Records : Books(r)) /\ BatchInOrder BY DEF IInv
  <2>1. batch.completed + batch.failed \in 0 .. Len(Batch) BY <2>0, BatchIsAList DEF BatchInOrder, Places
  <2>2. TypeOK BY <2>0, <2>1 DEF Rows, TypeOK
  <2>3. BooksMatch BY <2>0 DEF Books, Quiet, BooksMatch
  <2> QED BY <2>2, <2>3 DEF BooksSound
<1> QED BY InitHolds, NextKeeps, <1>1, PTL DEF Spec

\* In every behaviour the tallies of a batch that has ended count each item once, and
\* as many recordings are completed and analysed as they say.
THEOREM BatchesTally == Spec => []BatchTallies
<1>1. IInv => BatchTallies
  <2> SUFFICES ASSUME IInv, batch.at = Len(Batch) + 1, ~crashed
               PROVE  /\ batch.completed + batch.failed = Len(Batch)
                      /\ aged = {} /\ (\A j \in Regenerations : pc[j] = "idle")
                           => batch.completed = Cardinality(Files \cap analysed \cap {r \in Records : status[r] = "completed"})
    BY DEF BatchTallies
  <2>1. batch.completed + batch.failed = Len(Batch) /\ \A r \in Files : pc[r] = "done" BY DEF IInv, BatchInOrder
  <2>2. ASSUME aged = {}, \A j \in Regenerations : pc[j] = "idle"
        PROVE  batch.completed = Cardinality(Files \cap analysed \cap {r \in Records : status[r] = "completed"})
    <3>1. batch.completed = Cardinality(Finished) /\ \A r \in Records : Progress(r) BY <2>2 DEF IInv, Tally, Calm
    <3>2. Finished = Files \cap analysed \cap {r \in Records : status[r] = "completed"}
      BY <2>1, <3>1 DEF Finished, Progress, Records
    <3> QED BY <3>1, <3>2
  <2> QED BY <2>1, <2>2
<1> QED
  BY InitHolds, NextKeeps, <1>1, PTL DEF Spec
=============================================================================
