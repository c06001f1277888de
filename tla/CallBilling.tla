---------------------------- MODULE CallBilling ----------------------------
(***************************************************************************)
(* The money side of one call: its aiCdr row, its billingRecords, and the  *)
(* charges it puts on the tenant's ledger.                                 *)
(*                                                                         *)
(* Usage events of the voice engines, hangups (a call may be hung up more  *)
(* than once), call analyses (one after a hangup, others on request) and   *)
(* the deletion of the report all work on the same rows, each statement in *)
(* a transaction of its own except deleteReport.  The ledger is used as    *)
(* AtomicLedger promises it: a key is applied once, in one step.           *)
(***************************************************************************)
EXTENDS Integers, Sequences, FiniteSets, Functions, SequenceTheorems, FiniteSetTheorems,
        WellFoundedInduction, TLAPS

CONSTANTS Usages,      \* usage reports of the voice engine
          UsageType,   \* which engine: "realtime" or "non-realtime"
          Tokens,      \* tokens a usage or an analysis reports
          Hangups,     \* runs of cdrHangup
          Analyses,    \* runs of analyzeCall
          Trigger,     \* the hangup that fires an analysis, or ByRequest
          ByRequest,
          Deletions,   \* runs of deleteReport
          Prices,      \* prices rows the tenant may have, per token
          NoPrice,
          MaxFaults    \* bound: handlers that may fail in a behaviour

Handlers == Usages \cup Hangups \cup Analyses \cup Deletions

ASSUME BillingConstants ==
    /\ IsFiniteSet(Handlers)
    /\ Usages \cap (Hangups \cup Analyses \cup Deletions) = {}
    /\ Hangups \cap (Analyses \cup Deletions) = {} /\ Analyses \cap Deletions = {}
    /\ UsageType \in [Usages -> {"realtime", "non-realtime"}]
    /\ Tokens \in [Usages \cup Analyses -> Nat]
    /\ Trigger \in [Analyses -> Hangups \cup {ByRequest}]
    /\ Prices \subseteq Nat \cup {NoPrice}
    /\ MaxFaults \in Nat

VARIABLES price,     \* the tenant's price, fixed during the call
          cdr,       \* aiCdr: state, tokens, cost
          records,   \* billingRecords of the call, in id order; gone once destroyed
          analysed,  \* analyses whose aiAnalytics row exists
          ledger,    \* balance_ledger rows of the call
          pc,        \* how far each handler is
          at,        \* the record a usage or an analysis works on
          bill,      \* locals of finalizeCallBilling and cdrHangup
          claim,     \* locals of deleteReport
          faulty     \* handlers that met an error or were cut off by a restart

vars == <<price, cdr, records, analysed, ledger, pc, at, bill, claim, faulty>>

------------------------
RecordTypes == <<"realtime", "non-realtime", "analytic">>

CallTypes == {"realtime", "non-realtime"}

Final == {"done", "stopped"}

Goto(p, label) == pc' = [pc EXCEPT ![p] = label]

Found(type) == {i \in DOMAIN records : records[i].type = type /\ ~records[i].gone}

Live == {i \in DOMAIN records : ~records[i].gone}

TypeOf(p) == IF p \in Usages THEN UsageType[p] ELSE "analytic"

\* What a handler adds to totalCost along with the tokens: only an analysis does.
CostOf(p) == IF p \in Analyses THEN price * Tokens[p] ELSE 0

CdrLive == cdr.state = "live"

\* What the records hold, and what the rows of the ledger are worth.
Counted == [i \in DOMAIN records |-> records[i].tokens]
Costs   == [i \in DOMAIN records |-> records[i].cost]
Worth   == [row \in ledger |-> row.usd]

Begun(S) == {p \in S : pc[p] # "idle"}

\* instance.update writes a column only when it differs from the value the
\* instance was loaded with.
Saved(current, loaded, new) == IF new = loaded THEN current ELSE new

\* deleteReport credits the owner inside its own transaction and so keeps the
\* owner's users row locked until it commits.
OwnerLocked == \E d \in Deletions : pc[d] = "credited"

\* decrementUserBalance with an externalId, as AtomicLedger promises it.
Charge(p, key, usd) ==
    ledger' = IF \E row \in ledger : row.key = key THEN ledger
              ELSE ledger \cup {[key |-> key, dir |-> "debit", usd |-> usd, by |-> p]}

------------------------
NewBill == [loaded |-> 0, reloaded |-> 0, stage |-> 1, rec |-> 0, tokens |-> 0,
            cost |-> 0, usage |-> 0, total |-> 0, due |-> 0]

MayFail == Cardinality(faulty) < MaxFaults

\* cdrCreate: findOrCreate behind the unique channelId.
CreateCdr ==
    /\ cdr.state = "none"
    /\ cdr' = [cdr EXCEPT !.state = "live"]
    /\ UNCHANGED <<price, records, analysed, ledger, pc, at, bill, claim, faulty>>

\* A usage report is dropped when it is empty or its CDR is not there.
ReportUsage(u) ==
    /\ pc[u] = "idle"
    /\ Goto(u, IF CdrLive /\ Tokens[u] > 0 THEN "known" ELSE "done")
    /\ UNCHANGED <<price, cdr, records, analysed, ledger, at, bill, claim, faulty>>

\* findOrCreate, first half.  No index makes (channelId, type) unique.
FindRecord(p) ==
    /\ pc[p] = "known"
    /\ \/ /\ \E i \in Found(TypeOf(p)) : at' = [at EXCEPT ![p] = i]
          /\ Goto(p, "held")
       \/ /\ Found(TypeOf(p)) = {}
          /\ Goto(p, "creating")
          /\ UNCHANGED at
    /\ UNCHANGED <<price, cdr, records, analysed, ledger, bill, claim, faulty>>

CreateRecord(p) ==
    /\ pc[p] = "creating"
    /\ records' = Append(records,
                    [type |-> TypeOf(p), tokens |-> 0, cost |-> 0, gone |-> FALSE])
    /\ at' = [at EXCEPT ![p] = Len(records) + 1]
    /\ Goto(p, "held")
    /\ UNCHANGED <<price, cdr, analysed, ledger, bill, claim, faulty>>

\* record.increment: one atomic UPDATE, of no row when the record is gone.
IncrementRecord(p) ==
    /\ pc[p] = "held"
    /\ records' = IF records[at[p]].gone THEN records
                  ELSE [records EXCEPT ![at[p]].tokens = @ + Tokens[p],
                                       ![at[p]].cost = @ + CostOf(p)]
    /\ Goto(p, "counted")
    /\ UNCHANGED <<price, cdr, analysed, ledger, at, bill, claim, faulty>>

\* aiCdr.increment of the cached totals.
IncrementCdr(p) ==
    /\ pc[p] = "counted"
    /\ cdr' = IF ~CdrLive THEN cdr
              ELSE [cdr EXCEPT !.tokens = @ + Tokens[p], !.cost = @ + CostOf(p)]
    /\ Goto(p, IF p \in Usages THEN "done" ELSE "debiting")
    /\ UNCHANGED <<price, records, analysed, ledger, at, bill, claim, faulty>>

------------------------
\* cdrHangup throws when the CDR is not there.
BeginHangup(h) ==
    /\ pc[h] = "idle"
    /\ cdr.state # "none"
    /\ IF CdrLive
       THEN /\ Goto(h, "found")
            /\ bill' = [bill EXCEPT ![h].loaded = cdr.cost]
            /\ UNCHANGED faulty
       ELSE /\ Goto(h, "stopped")
            /\ faulty' = faulty \cup {h}
            /\ UNCHANGED bill
    /\ UNCHANGED <<price, cdr, records, analysed, ledger, at, claim>>

\* finalizeCallBilling answers zeros without a CDR or a price.  bill.due is no
\* local of the code: what the records hold when the reading starts.
BeginFinalize(h) ==
    /\ pc[h] = "found"
    /\ IF CdrLive /\ price # NoPrice
       THEN /\ Goto(h, "reading")
            /\ bill' = [bill EXCEPT ![h].reloaded = cdr.cost,
                          ![h].due = SumFunctionOnSet(Counted,
                                       UNION {Found(type) : type \in CallTypes})]
       ELSE Goto(h, "closing") /\ UNCHANGED bill
    /\ UNCHANGED <<price, cdr, records, analysed, ledger, at, claim, faulty>>

\* Mutant: the cost the record had is charged, not the one just computed.
ReadStoredCost(h) ==
    LET type == RecordTypes[bill[h].stage] IN
    /\ pc[h] = "reading"
    /\ type # "analytic"
    /\ \/ \E i \in Found(type) :
             /\ bill' = [bill EXCEPT ![h].rec = i, ![h].cost = records[i].cost,
                                     ![h].tokens = records[i].tokens,
                                     ![h].usage = @ + records[i].cost]
             /\ Goto(h, "saving")
       \/ /\ Found(type) = {}
          /\ bill' = [bill EXCEPT ![h].stage = @ + 1]
          /\ UNCHANGED pc
    /\ UNCHANGED <<price, cdr, records, analysed, ledger, at, claim, faulty>>

\* findOne of the realtime, then of the non-realtime record: any one of them.
ReadRecord(h) ==
    LET type == RecordTypes[bill[h].stage] IN
    /\ pc[h] = "reading"
    /\ type # "analytic"
    /\ \/ \E i \in Found(type) :
             /\ bill' = [bill EXCEPT ![h].rec = i, ![h].cost = records[i].cost,
                                     ![h].tokens = records[i].tokens,
                                     ![h].usage = @ + price * records[i].tokens]
             /\ Goto(h, "saving")
       \/ /\ Found(type) = {}
          /\ bill' = [bill EXCEPT ![h].stage = @ + 1]
          /\ UNCHANGED pc
    /\ UNCHANGED <<price, cdr, records, analysed, ledger, at, claim, faulty>>

\* The record gets the cost of the tokens that were read, not of those it has.
SaveCost(h) ==
    LET b == bill[h] IN
    /\ pc[h] = "saving"
    /\ records' = IF records[b.rec].gone THEN records
                  ELSE [records EXCEPT ![b.rec].cost = Saved(@, b.cost, price * b.tokens)]
    /\ bill' = [bill EXCEPT ![h].stage = @ + 1, ![h].rec = 0, ![h].tokens = 0, ![h].cost = 0]
    /\ Goto(h, "reading")
    /\ UNCHANGED <<price, cdr, analysed, ledger, at, claim, faulty>>

\* findOne of the analytic record, and the total.
ReadAnalytic(h) ==
    /\ pc[h] = "reading"
    /\ RecordTypes[bill[h].stage] = "analytic"
    /\ \/ \E i \in Found("analytic") :
             bill' = [bill EXCEPT ![h].total = bill[h].usage + records[i].cost]
       \/ /\ Found("analytic") = {}
          /\ bill' = [bill EXCEPT ![h].total = bill[h].usage]
    /\ Goto(h, "totalled")
    /\ UNCHANGED <<price, cdr, records, analysed, ledger, at, claim, faulty>>

UpdateCdr(h) ==
    /\ pc[h] = "totalled"
    /\ cdr' = IF ~CdrLive THEN cdr
              ELSE [cdr EXCEPT !.cost = Saved(@, bill[h].reloaded, bill[h].total)]
    /\ Goto(h, "debiting")
    /\ UNCHANGED <<price, records, analysed, ledger, at, bill, claim, faulty>>

\* Mutant: the total is debited, with the analytics already charged for.
DebitTotal(h) ==
    /\ pc[h] = "debiting"
    /\ ~OwnerLocked
    /\ IF bill[h].usage > 0 THEN Charge(h, <<"usage_rt">>, bill[h].total)
                            ELSE UNCHANGED ledger
    /\ Goto(h, "closing")
    /\ UNCHANGED <<price, cdr, records, analysed, at, bill, claim, faulty>>

DebitUsage(h) ==
    /\ pc[h] = "debiting"
    /\ ~OwnerLocked
    /\ IF bill[h].usage > 0 THEN Charge(h, <<"usage_rt">>, bill[h].usage)
                            ELSE UNCHANGED ledger
    /\ Goto(h, "closing")
    /\ UNCHANGED <<price, cdr, records, analysed, at, bill, claim, faulty>>

\* An error in finalizeCallBilling is caught; the hangup goes on with what the
\* result holds by then.
FinalizeFails(h) ==
    /\ pc[h] \in {"found", "reading", "saving", "totalled", "debiting"}
    /\ MayFail
    /\ Goto(h, "closing")
    /\ faulty' = faulty \cup {h}
    /\ UNCHANGED <<price, cdr, records, analysed, ledger, at, bill, claim>>

\* cdrHangup saves the result through the instance it loaded at its beginning.
CloseCdr(h) ==
    /\ pc[h] = "closing"
    /\ cdr' = IF ~CdrLive THEN cdr
              ELSE [cdr EXCEPT !.cost = Saved(@, bill[h].loaded, bill[h].total)]
    /\ bill' = [bill EXCEPT ![h] = [NewBill EXCEPT !.due = bill[h].due]]
    /\ Goto(h, "done")
    /\ UNCHANGED <<price, records, analysed, ledger, at, claim, faulty>>

------------------------
\* analyzeCall, fired and forgotten by cdrHangup or asked for over HTTP, calls
\* chargeAnalytics once the model has answered.
Analyse(a) ==
    /\ pc[a] = "idle"
    /\ Trigger[a] # ByRequest => pc[Trigger[a]] = "done"
    /\ Goto(a, IF Tokens[a] > 0 /\ CdrLive /\ price # NoPrice THEN "known" ELSE "storing")
    /\ UNCHANGED <<price, cdr, records, analysed, ledger, at, bill, claim, faulty>>

\* Mutant: one idempotency key for all the charges of a call.
DebitAnalysisSameKey(a) ==
    /\ pc[a] = "debiting"
    /\ ~OwnerLocked
    /\ IF CostOf(a) > 0 THEN Charge(a, <<"usage_rt">>, CostOf(a)) ELSE UNCHANGED ledger
    /\ Goto(a, "storing")
    /\ UNCHANGED <<price, cdr, records, analysed, at, bill, claim, faulty>>

\* The key names the record, so a second analysis of the call finds it taken.
DebitAnalysis(a) ==
    /\ pc[a] = "debiting"
    /\ ~OwnerLocked
    /\ IF CostOf(a) > 0 THEN Charge(a, <<"usage_an", at[a]>>, CostOf(a))
                        ELSE UNCHANGED ledger
    /\ Goto(a, "storing")
    /\ UNCHANGED <<price, cdr, records, analysed, at, bill, claim, faulty>>

\* An error in chargeAnalytics is caught and the analysis stored with cost 0.
ChargeFails(a) ==
    /\ pc[a] \in {"known", "creating", "held", "counted", "debiting"}
    /\ MayFail
    /\ Goto(a, "storing")
    /\ faulty' = faulty \cup {a}
    /\ UNCHANGED <<price, cdr, records, analysed, ledger, at, bill, claim>>

StoreAnalysis(a) ==
    /\ pc[a] = "storing"
    /\ analysed' = analysed \cup {a}
    /\ Goto(a, "done")
    /\ UNCHANGED <<price, cdr, records, ledger, at, bill, claim, faulty>>

------------------------
Quiet == faulty = {} /\ \A p \in Handlers \ Deletions : pc[p] \in {"idle", "done"}

FindReport(d) ==
    /\ pc[d] = "idle"
    /\ cdr.state # "none"
    /\ IF CdrLive
       THEN Goto(d, "found") /\ claim' = [claim EXCEPT ![d].fallback = cdr.cost]
       ELSE Goto(d, "stopped") /\ UNCHANGED claim
    /\ UNCHANGED <<price, cdr, records, analysed, ledger, at, bill, faulty>>

\* refundBillingForChannel adds the records up inside the transaction of
\* deleteReport.  claim.quiet and claim.begun are no locals: no handler of the call
\* is under way and none has failed, and those that have begun.
SumRecords(d) ==
    LET sum == SumFunctionOnSet(Costs, Live) IN
    /\ pc[d] = "found"
    /\ claim' = [claim EXCEPT ![d].usd = IF sum > 0 THEN sum ELSE claim[d].fallback,
                    ![d].quiet = Quiet, ![d].begun = Begun(Handlers \ Deletions)]
    /\ Goto(d, "summed")
    /\ UNCHANGED <<price, cdr, records, analysed, ledger, at, bill, faulty>>

\* Mutant: every deletion has a key of its own.
CreditUnkeyed(d) ==
    /\ pc[d] = "summed"
    /\ \/ claim[d].usd = 0 /\ Goto(d, "uncredited")
       \/ claim[d].usd > 0 /\ ~OwnerLocked /\ Goto(d, "credited")
    /\ UNCHANGED <<price, cdr, records, analysed, ledger, at, bill, claim, faulty>>

\* updateUserBalance waits for the owner's row; a key refund_report_<id> already
\* in the ledger makes it a no-op.
Credit(d) ==
    /\ pc[d] = "summed"
    /\ \/ /\ claim[d].usd = 0
          /\ Goto(d, "uncredited")
          /\ UNCHANGED claim
       \/ /\ claim[d].usd > 0
          /\ ~OwnerLocked
          /\ Goto(d, "credited")
          /\ claim' = [claim EXCEPT ![d].usd =
                         IF \E row \in ledger : row.dir = "credit" THEN 0 ELSE @]
    /\ UNCHANGED <<price, cdr, records, analysed, ledger, at, bill, faulty>>

\* What is left of the transaction, and its commit.
DestroyReport(d) ==
    /\ pc[d] \in {"credited", "uncredited"}
    /\ ledger' = IF claim[d].usd = 0 THEN ledger
                 ELSE ledger \cup {[key |-> <<"refund">>, dir |-> "credit",
                                    usd |-> claim[d].usd, by |-> d]}
    /\ records' = [i \in DOMAIN records |-> [records[i] EXCEPT !.gone = TRUE]]
    /\ analysed' = {}
    /\ cdr' = [cdr EXCEPT !.state = "deleted"]
    /\ Goto(d, "done")
    /\ UNCHANGED <<price, at, bill, claim, faulty>>

\* An error nobody recovers from, or a restart of the process; for a deletion,
\* the rollback of its transaction.
Stop(p) ==
    /\ pc[p] \notin Final \cup {"idle"}
    /\ MayFail
    /\ Goto(p, "stopped")
    /\ faulty' = faulty \cup {p}
    /\ UNCHANGED <<price, cdr, records, analysed, ledger, at, bill, claim>>

------------------------
Init ==
    /\ price \in Prices
    /\ cdr = [state |-> "none", tokens |-> 0, cost |-> 0]
    /\ records = <<>>
    /\ analysed = {}
    /\ ledger = {}
    /\ pc = [p \in Handlers |-> "idle"]
    /\ at = [p \in Usages \cup Analyses |-> 0]
    /\ bill = [h \in Hangups |-> NewBill]
    /\ claim = [d \in Deletions |-> [fallback |-> 0, usd |-> 0, quiet |-> FALSE,
                                begun |-> {}]]
    /\ faulty = {}

Next ==
    \/ CreateCdr
    \/ \E u \in Usages : ReportUsage(u)
    \/ \E p \in Usages \cup Analyses :
          FindRecord(p) \/ CreateRecord(p) \/ IncrementRecord(p) \/ IncrementCdr(p)
    \/ \E h \in Hangups :
          \/ BeginHangup(h) \/ BeginFinalize(h) \/ ReadRecord(h) \/ SaveCost(h)
          \/ ReadAnalytic(h) \/ UpdateCdr(h) \/ DebitUsage(h) \/ FinalizeFails(h)
          \/ CloseCdr(h)
    \/ \E a \in Analyses : Analyse(a) \/ DebitAnalysis(a) \/ ChargeFails(a) \/ StoreAnalysis(a)
    \/ \E d \in Deletions :
          FindReport(d) \/ SumRecords(d) \/ Credit(d) \/ DestroyReport(d)
    \/ \E p \in Handlers : Stop(p)

Spec == Init /\ [][Next]_vars

------------------------
RecordIds == 0..Cardinality(Usages \cup Analyses)

\* Every row and local keeps its shape, and records are only made by handlers
\* that found none.
TypeOK ==
    /\ price \in Prices
    /\ cdr \in [state : {"none", "live", "deleted"}, tokens : Nat, cost : Nat]
    /\ records \in Seq([type : CallTypes \cup {"analytic"}, tokens : Nat, cost : Nat,
                        gone : BOOLEAN])
    /\ Len(records) \in RecordIds
    /\ analysed \subseteq Analyses
    /\ \A row \in ledger : row.usd \in Nat \ {0} /\ row.by \in Handlers
    /\ DOMAIN pc = Handlers
    /\ \A p \in Usages \cup Analyses : at[p] \in 0..Len(records)
    /\ \A h \in Hangups : bill[h].rec \in 0..Len(records) /\ bill[h].stage \in 1..3
    /\ \A d \in Deletions : claim[d].usd \in Nat
    /\ faulty \subseteq Handlers

OneRecordPerType ==
    \A type \in CallTypes \cup {"analytic"} : Cardinality(Found(type)) <= 1

\* One hangup, and no analysis but the one it fires.
OneRun ==
    /\ Cardinality(Begun(Hangups)) <= 1 /\ Cardinality(Begun(Analyses)) <= 1
    /\ \A a \in Begun(Analyses) : Trigger[a] # ByRequest

Debits(S) == SumFunctionOnSet(Worth, {row \in ledger : row.dir = "debit" /\ row.by \in S})
Credits   == SumFunctionOnSet(Worth, {row \in ledger : row.dir = "credit"})

\* However often a call is hung up or analysed, and whatever overlaps or fails, the
\* tenant is never charged for more tokens than the engines reported: the usage
\* debit leaves out the analytics already charged for, and a key is charged once.
NeverOvercharged ==
    price # NoPrice =>
       /\ Debits(Hangups) <= price * SumFunctionOnSet(Tokens, Begun(Usages))
       /\ Debits(Analyses) <= price * SumFunctionOnSet(Tokens, Begun(Analyses))

\* A hangup that runs to its end has all the usage recorded before it began
\* charged, by itself or by the hangup that charged first, and that one too
\* charged no less than what was recorded when it began, if no type has two records.
BilledInFull ==
    CdrLive /\ OneRecordPerType =>
       /\ \A row \in ledger : row.by \in Hangups => row.usd >= price * bill[row.by].due
       /\ \A h \in Hangups \ faulty :
             pc[h] = "done" /\ price # NoPrice /\ price * bill[h].due > 0
                => \E row \in ledger : row.key = <<"usage_rt">>

\* The token counter cached in the CDR and the counters of the records are
\* incremented by separate statements of overlapping handlers, and still differ
\* only by the handlers between their two increments (accumulateRealtimeTokens,
\* accumulateNonRealtimeTokens, chargeAnalytics).
TokensAgree ==
    CdrLive /\ faulty = {} =>
       cdr.tokens + SumFunctionOnSet(Tokens, {p \in Usages \cup Analyses : pc[p] = "counted"})
          = SumFunctionOnSet(Counted, Live)

\* Whenever no handler of a call is under way, its records, its CDR and its ledger
\* rows tell the same sum, in any order of late usage, hangup and the analysis
\* the hangup fires.
CostsAgree ==
    CdrLive /\ Quiet /\ OneRun =>
       /\ SumFunctionOnSet(Costs, Live) = Debits(Handlers)
       /\ cdr.cost = Debits(Handlers)

\* Rows and locals in their shapes, and counters, costs and charges that agree.
BooksAgree == TypeOK /\ TokensAgree /\ CostsAgree

\* Deleting the report of a call nothing else works on gives back what the call was
\* charged, once, however many administrators delete it at the same time
\* (refundBillingForChannel: "Credit user balance for all billing charges tied
\* to a channel").
RefundMatchesCharges ==
    /\ cdr.state = "deleted" /\ OneRun
    /\ \A d \in Deletions :
          pc[d] = "done" => claim[d].quiet /\ claim[d].begun = Begun(Handlers \ Deletions)
    => Credits = Debits(Handlers)

------------------------
(***************************************************************************)
(* Proofs.                                                                 *)
(***************************************************************************)
Chosen(s) == CHOOSE x \in s : TRUE
SumStep(f, g, s) == IF s = {} THEN 0 ELSE f[Chosen(s)] + g[s \ {Chosen(s)}]
SumTable(f, S) == CHOOSE g : g = [s \in SUBSET S |-> SumStep(f, g, s)]

LEMMA SumUnfolds ==
    ASSUME NEW f, NEW S
    PROVE  SumFunctionOnSet(f, S) = SumTable(f, S)[S]
  BY DEF SumFunctionOnSet, FoldFunctionOnSet, MapThenFoldSet, SumTable, SumStep, Chosen

LEMMA ChosenIsIn == ASSUME NEW s, s # {} PROVE Chosen(s) \in s
  BY DEF Chosen

LEMMA LeastNat ==
    ASSUME NEW I \in SUBSET Nat, I # {}
    PROVE  \E m \in I : \A k \in I : m <= k
<1>1. PICK m \in I : \A k \in I : <<k, m>> \notin OpToRel(<, Nat) BY NatLessThanWellFounded, WFMin
<1>2. OpToRel(<, Nat) = {ss \in Nat \X Nat : ss[1] < ss[2]} BY DEF OpToRel
<1>3. \A k \in I : ~(k < m) BY <1>1, <1>2
<1> QED BY <1>3

LEMMA LeastSubset ==
    ASSUME NEW S, IsFiniteSet(S), NEW B \in SUBSET SUBSET S, B # {}
    PROVE  \E m \in B : \A t \in B : t \subseteq m => t = m
<1>1. IsWellFoundedOn(StrictSubsetOrdering(S), SUBSET S)
  BY FS_StrictSubsetOrderingWellFounded, FS_FiniteSubsetsOfFinite
<1>2. PICK m \in B : \A t \in B : <<t, m>> \notin StrictSubsetOrdering(S) BY <1>1, WFMin
<1>3. \A t \in B : t \subseteq m => t = m BY <1>2 DEF StrictSubsetOrdering
<1> QED BY <1>3

\* The table of the sums over the subsets of a finite set exists.
LEMMA SumTableIs ==
    ASSUME NEW f, NEW S, IsFiniteSet(S)
    PROVE  \A s \in SUBSET S : SumTable(f, S)[s] = SumStep(f, SumTable(f, S), s)
<1> DEFINE Small(m) == {s \in SUBSET S : Cardinality(s) < m}
           Upto(m) == \E g : g = [s \in Small(m) |-> SumStep(f, g, s)]
           Bad == {m \in Nat : ~Upto(m)}
<1>1. \A s \in SUBSET S : IsFiniteSet(s) /\ Cardinality(s) \in Nat BY FS_Subset, FS_CardinalityType
<1>2. Bad = {}
  <2> SUFFICES ASSUME Bad # {} PROVE FALSE OBVIOUS
  <2>1. PICK m \in Bad : \A k \in Bad : m <= k BY LeastNat
  <2>2. CASE m = 0
    <3>1. Small(0) = {} BY <1>1
    <3> DEFINE g == [s \in Small(0) |-> 0]
    <3>2. g = [s \in Small(0) |-> SumStep(f, g, s)] BY <3>1
    <3>3. Upto(0) BY <3>2
    <3> QED BY <2>1, <2>2, <3>3
  <2>3. CASE m # 0
    <3>1. m - 1 \in Nat /\ m - 1 \notin Bad
      <4>1. m \in Nat BY <2>1
      <4>2. m - 1 \in Nat /\ ~(m <= m - 1) BY <2>3, <4>1
      <4> HIDE DEF Bad
      <4> QED BY <2>1, <4>2
    <3>2. PICK g : g = [s \in Small(m - 1) |-> SumStep(f, g, s)] BY <3>1
    <3> DEFINE h == [s \in Small(m) |-> SumStep(f, g, s)]
    <3>3. ASSUME NEW s \in Small(m), s # {}
          PROVE  s \ {Chosen(s)} \in Small(m) /\ s \ {Chosen(s)} \in Small(m - 1)
      <4>1. Cardinality(s \ {Chosen(s)}) = Cardinality(s) - 1 BY <1>1, <3>3, ChosenIsIn, FS_RemoveElement
      <4> QED BY <1>1, <3>1, <4>1, <2>1
    <3>4. \A s \in Small(m - 1) : h[s] = g[s]
      <4>1. Small(m - 1) \subseteq Small(m) BY <1>1, <2>1
      <4> QED BY <3>2, <4>1
    <3>5. \A s \in Small(m) : SumStep(f, g, s) = SumStep(f, h, s)
      <4> HIDE DEF Small, h
      <4> QED BY <3>3, <3>4 DEF SumStep
    <3>6. h = [s \in Small(m) |-> SumStep(f, h, s)] BY <3>5
    <3> QED BY <2>1, <3>6
  <2> QED BY <2>2, <2>3
<1>3. PICK g : g = [s \in Small(Cardinality(S) + 1) |-> SumStep(f, g, s)]
  <2>1. Cardinality(S) + 1 \in Nat BY FS_CardinalityType
  <2> QED BY <1>2, <2>1
<1>4. Small(Cardinality(S) + 1) = SUBSET S
  <2>1. Cardinality(S) \in Nat /\ \A s \in SUBSET S : Cardinality(s) <= Cardinality(S)
    BY FS_Subset, FS_CardinalityType
  <2> QED BY <1>1, <2>1
<1>5. g = [s \in SUBSET S |-> SumStep(f, g, s)] BY <1>3, <1>4
<1> DEFINE F == SumTable(f, S)
<1>6. F = [s \in SUBSET S |-> SumStep(f, F, s)] BY <1>5 DEF SumTable
<1> HIDE DEF F
<1>7. \A s \in SUBSET S : F[s] = SumStep(f, F, s) BY <1>6
<1> QED BY <1>7 DEF F

\* Two tables agree where their functions do.
LEMMA SumTablesAgree ==
    ASSUME NEW S, IsFiniteSet(S), NEW T \in SUBSET S, NEW f, NEW g, \A x \in T : f[x] = g[x]
    PROVE  \A s \in SUBSET T : SumTable(f, S)[s] = SumTable(g, T)[s]
<1> DEFINE F == SumTable(f, S)
           G == SumTable(g, T)
           Bad == {s \in SUBSET T : F[s] # G[s]}
<1>0. IsFiniteSet(T) BY FS_Subset
<1>1. \A s \in SUBSET T : F[s] = SumStep(f, F, s) BY SumTableIs
<1>2. \A s \in SUBSET T : G[s] = SumStep(g, G, s) BY <1>0, SumTableIs
<1> HIDE DEF F, G
<1> SUFFICES ASSUME Bad # {} PROVE FALSE BY DEF F, G
<1>3. PICK s \in Bad : \A t \in Bad : t \subseteq s => t = s
  <2>1. Bad \in SUBSET SUBSET T OBVIOUS
  <2> HIDE DEF Bad
  <2> QED BY <1>0, <2>1, LeastSubset
<1>4. CASE s = {} BY <1>1, <1>2, <1>4 DEF SumStep
<1>5. CASE s # {}
  <2> DEFINE c == Chosen(s)
  <2>1. c \in s BY <1>5, ChosenIsIn
  <2> HIDE DEF c
  <2>2. s \ {c} \in SUBSET T /\ s \ {c} # s BY <2>1
  <2>3. F[s \ {c}] = G[s \ {c}] BY <1>3, <2>2
  <2>4. F[s] = f[c] + F[s \ {c}] /\ G[s] = g[c] + G[s \ {c}] BY <1>1, <1>2, <1>5 DEF SumStep, c
  <2> QED BY <2>1, <2>3, <2>4
<1> QED BY <1>4, <1>5

\* The sums of two functions that agree on a finite set are the same.
LEMMA SumSame ==
    ASSUME NEW S, IsFiniteSet(S), NEW f, NEW g, \A x \in S : f[x] = g[x]
    PROVE  SumFunctionOnSet(f, S) = SumFunctionOnSet(g, S)
<1>1. SumTable(f, S)[S] = SumTable(g, S)[S] BY SumTablesAgree
<1> QED BY <1>1, SumUnfolds

LEMMA SumEmpty ==
    ASSUME NEW f
    PROVE  SumFunctionOnSet(f, {}) = 0
  BY SumUnfolds, SumTableIs, FS_EmptySet DEF SumStep

\* A sum of naturals is a natural, and any of its terms may be taken out.
LEMMA SumTakeOut ==
    ASSUME NEW S, IsFiniteSet(S), NEW f, \A x \in S : f[x] \in Nat
    PROVE  /\ SumFunctionOnSet(f, S) \in Nat
           /\ \A x \in S : SumFunctionOnSet(f, S) = f[x] + SumFunctionOnSet(f, S \ {x})
<1> DEFINE F == SumTable(f, S)
           Fine(s) == F[s] \in Nat /\ \A x \in s : F[s] = f[x] + F[s \ {x}]
           Bad == {s \in SUBSET S : ~Fine(s)}
<1>1. \A s \in SUBSET S : F[s] = SumStep(f, F, s) BY SumTableIs
<1>2. \A s \in SUBSET S : SumFunctionOnSet(f, s) = F[s]
  <2> SUFFICES ASSUME NEW s \in SUBSET S PROVE SumFunctionOnSet(f, s) = F[s] OBVIOUS
  <2>1. SumFunctionOnSet(f, s) = SumTable(f, s)[s] BY SumUnfolds
  <2> QED BY <2>1, SumTablesAgree
<1> HIDE DEF F
<1>3. Bad = {}
  <2> SUFFICES ASSUME Bad # {} PROVE FALSE OBVIOUS
  <2>1. PICK s \in Bad : \A t \in Bad : t \subseteq s => t = s
    <3>1. Bad \in SUBSET SUBSET S OBVIOUS
    <3> HIDE DEF Bad
    <3> QED BY <3>1, LeastSubset
  <2>2. \A t \in SUBSET s : t # s => Fine(t) BY <2>1
  <2>3. CASE s = {}
    <3>1. F[s] = 0 BY <1>1, <2>3 DEF SumStep
    <3> QED BY <2>1, <2>3, <3>1
  <2>4. CASE s # {}
    <3> DEFINE c == Chosen(s)
    <3>1. c \in s /\ c \in S BY <2>4, ChosenIsIn
    <3>2. F[s] = f[c] + F[s \ {c}] BY <1>1, <2>4 DEF SumStep
    <3> HIDE DEF c
    <3>3. Fine(s \ {c}) BY <2>2, <3>1
    <3>4. F[s] \in Nat BY <3>1, <3>2, <3>3
    <3>5. ASSUME NEW x \in s, x # c PROVE F[s] = f[x] + F[s \ {x}]
      <4>1. F[s \ {c}] = f[x] + F[(s \ {c}) \ {x}] BY <3>3, <3>5
      <4>2. Fine(s \ {x}) BY <2>2, <3>5
      <4>3. F[s \ {x}] = f[c] + F[(s \ {x}) \ {c}] BY <3>1, <3>5, <4>2
      <4>4. (s \ {x}) \ {c} = (s \ {c}) \ {x} OBVIOUS
      <4>5. Fine((s \ {c}) \ {x}) BY <2>2, <3>1
      <4>6. f[x] \in Nat /\ f[c] \in Nat /\ F[(s \ {c}) \ {x}] \in Nat BY <2>1, <3>1, <3>5, <4>5
      <4>7. F[(s \ {x}) \ {c}] = F[(s \ {c}) \ {x}] BY <4>4
      <4> HIDE DEF Fine, Bad
      <4> QED BY <3>2, <4>1, <4>3, <4>6, <4>7
    <3>6. Fine(s) BY <3>2, <3>4, <3>5
    <3> QED BY <2>1, <3>6
  <2> QED BY <2>3, <2>4
<1>4. Fine(S) BY <1>3
<1> QED BY <1>2, <1>4

LEMMA SumAdd ==
    ASSUME NEW S, IsFiniteSet(S), NEW x, x \notin S, NEW f, \A y \in S \cup {x} : f[y] \in Nat
    PROVE  SumFunctionOnSet(f, S \cup {x}) = f[x] + SumFunctionOnSet(f, S)
<1>1. IsFiniteSet(S \cup {x}) BY FS_AddElement
<1>2. SumFunctionOnSet(f, S \cup {x}) = f[x] + SumFunctionOnSet(f, (S \cup {x}) \ {x}) BY <1>1, SumTakeOut
<1>3. (S \cup {x}) \ {x} = S OBVIOUS
<1> QED BY <1>2, <1>3

\* A sum of more and larger terms is not smaller.
LEMMA SumGrows ==
    ASSUME NEW T, IsFiniteSet(T), NEW S \in SUBSET T, NEW f, NEW g,
           \A x \in T : g[x] \in Nat, \A x \in S : f[x] \in Nat /\ f[x] <= g[x]
    PROVE  SumFunctionOnSet(f, S) <= SumFunctionOnSet(g, T)
<1> DEFINE Bad == {t \in SUBSET T : ~(SumFunctionOnSet(f, S \cap t) <= SumFunctionOnSet(g, t))}
<1>1. Bad = {}
  <2> SUFFICES ASSUME Bad # {} PROVE FALSE OBVIOUS
  <2>1. PICK t \in Bad : \A u \in Bad : u \subseteq t => u = t
    <3>1. Bad \in SUBSET SUBSET T OBVIOUS
    <3> HIDE DEF Bad
    <3> QED BY <3>1, LeastSubset
  <2>2. CASE t = {}
    <3>1. S \cap t = {} BY <2>2
    <3> QED BY <2>1, <2>2, <3>1, SumEmpty
  <2>3. CASE t # {}
    <3>1. PICK x \in t : TRUE BY <2>3
    <3>2. IsFiniteSet(t) /\ IsFiniteSet(S \cap t)
      <4>1. t \in SUBSET T /\ S \cap t \in SUBSET T BY <2>1
      <4> QED BY <4>1, FS_Subset
    <3>3. t \ {x} \notin Bad BY <2>1
    <3>4. SumFunctionOnSet(f, S \cap (t \ {x})) <= SumFunctionOnSet(g, t \ {x}) BY <2>1, <3>3
    <3>5. /\ SumFunctionOnSet(g, t) = g[x] + SumFunctionOnSet(g, t \ {x})
          /\ SumFunctionOnSet(g, t \ {x}) \in Nat
      <4>1. IsFiniteSet(t \ {x}) /\ t \ {x} \subseteq T /\ t \subseteq T BY <2>1, <3>2, FS_RemoveElement
      <4> QED BY <3>2, <4>1, SumTakeOut
    <3>6. SumFunctionOnSet(f, S \cap (t \ {x})) \in Nat
      <4>1. IsFiniteSet(S \cap (t \ {x})) BY <3>2, FS_Subset
      <4> QED BY <4>1, SumTakeOut
    <3>7. g[x] \in Nat BY <2>1
    <3>8. CASE x \in S
      <4>1. SumFunctionOnSet(f, S \cap t) = f[x] + SumFunctionOnSet(f, (S \cap t) \ {x}) BY <3>2, <3>8, SumTakeOut
      <4>2. (S \cap t) \ {x} = S \cap (t \ {x}) OBVIOUS
      <4>3. f[x] \in Nat /\ f[x] <= g[x] BY <3>8
      <4>4. SumFunctionOnSet(f, S \cap t) = f[x] + SumFunctionOnSet(f, S \cap (t \ {x})) BY <4>1, <4>2
      <4>5. SumFunctionOnSet(f, S \cap t) <= SumFunctionOnSet(g, t)
        <5> HIDE DEF Bad
        <5> QED BY <3>4, <3>5, <3>6, <3>7, <4>3, <4>4
      <4> QED BY <2>1, <4>5
    <3>9. CASE x \notin S
      <4>1. S \cap t = S \cap (t \ {x}) BY <3>9
      <4>2. SumFunctionOnSet(f, S \cap t) <= SumFunctionOnSet(g, t)
        <5>1. SumFunctionOnSet(f, S \cap t) = SumFunctionOnSet(f, S \cap (t \ {x})) BY <4>1
        <5> HIDE DEF Bad
        <5> QED BY <3>4, <3>5, <3>6, <3>7, <5>1
      <4> QED BY <2>1, <4>2
    <3> QED BY <3>8, <3>9
  <2> QED BY <2>2, <2>3
<1>2. S \cap T = S OBVIOUS
<1>3. T \notin Bad BY <1>1
<1> QED BY <1>2, <1>3

\* The sum over two sets that have nothing in common.
LEMMA SumSplit ==
    ASSUME NEW S, IsFiniteSet(S), NEW T, IsFiniteSet(T), S \cap T = {}, NEW f,
           \A x \in S \cup T : f[x] \in Nat
    PROVE  SumFunctionOnSet(f, S \cup T) = SumFunctionOnSet(f, S) + SumFunctionOnSet(f, T)
<1> DEFINE Bad == {t \in SUBSET T :
                     SumFunctionOnSet(f, S \cup t) # SumFunctionOnSet(f, S) + SumFunctionOnSet(f, t)}
<1>0. SumFunctionOnSet(f, S) \in Nat BY SumTakeOut
<1>1. Bad = {}
  <2> SUFFICES ASSUME Bad # {} PROVE FALSE OBVIOUS
  <2>1. PICK t \in Bad : \A u \in Bad : u \subseteq t => u = t
    <3>1. Bad \in SUBSET SUBSET T OBVIOUS
    <3> HIDE DEF Bad
    <3> QED BY <3>1, LeastSubset
  <2>2. CASE t = {}
    <3>1. S \cup t = S BY <2>2
    <3> QED BY <1>0, <2>1, <2>2, <3>1, SumEmpty
  <2>3. CASE t # {}
    <3>1. PICK x \in t : TRUE BY <2>3
    <3>2. x \in T /\ x \notin S /\ t \subseteq T BY <2>1
    <3>3. IsFiniteSet(t) /\ IsFiniteSet(S \cup t) BY <3>2, FS_Subset, FS_Union
    <3>4. t \ {x} \notin Bad BY <2>1
    <3>5. SumFunctionOnSet(f, S \cup (t \ {x})) = SumFunctionOnSet(f, S) + SumFunctionOnSet(f, t \ {x})
      BY <2>1, <3>4
    <3>6. SumFunctionOnSet(f, t) = f[x] + SumFunctionOnSet(f, t \ {x}) BY <3>2, <3>3, SumTakeOut
    <3>7. SumFunctionOnSet(f, S \cup t) = f[x] + SumFunctionOnSet(f, (S \cup t) \ {x}) BY <3>2, <3>3, SumTakeOut
    <3>8. (S \cup t) \ {x} = S \cup (t \ {x}) BY <3>2
    <3>9. f[x] \in Nat /\ SumFunctionOnSet(f, t \ {x}) \in Nat
      <4>1. IsFiniteSet(t \ {x}) BY <3>3, FS_RemoveElement
      <4> QED BY <3>2, <4>1, SumTakeOut
    <3>10. SumFunctionOnSet(f, S \cup t) = f[x] + SumFunctionOnSet(f, S \cup (t \ {x})) BY <3>7, <3>8
    <3>11. SumFunctionOnSet(f, S \cup t) = SumFunctionOnSet(f, S) + SumFunctionOnSet(f, t)
      <4> HIDE DEF Bad
      <4> QED BY <1>0, <3>5, <3>6, <3>9, <3>10
    <3> QED BY <2>1, <3>11
  <2> QED BY <2>2, <2>3
<1>2. T \notin Bad BY <1>1
<1> QED BY <1>2

\* A term of a sum changes.
LEMMA SumChange ==
    ASSUME NEW S, IsFiniteSet(S), NEW x \in S, NEW f, NEW g,
           \A y \in S : f[y] \in Nat /\ g[y] \in Nat,
           \A y \in S \ {x} : f[y] = g[y]
    PROVE  SumFunctionOnSet(g, S) + f[x] = SumFunctionOnSet(f, S) + g[x]
<1>1. IsFiniteSet(S \ {x}) BY FS_RemoveElement
<1>2. SumFunctionOnSet(f, S \ {x}) = SumFunctionOnSet(g, S \ {x}) BY <1>1, SumSame
<1>3. SumFunctionOnSet(f, S \ {x}) \in Nat BY <1>1, SumTakeOut
<1>4. /\ SumFunctionOnSet(f, S) = f[x] + SumFunctionOnSet(f, S \ {x})
      /\ SumFunctionOnSet(g, S) = g[x] + SumFunctionOnSet(g, S \ {x})
  BY SumTakeOut
<1>5. f[x] \in Nat /\ g[x] \in Nat OBVIOUS
<1> QED BY <1>2, <1>3, <1>4, <1>5

\* A sum of nothing but zeros.
LEMMA SumZero ==
    ASSUME NEW S, IsFiniteSet(S), NEW f, \A x \in S : f[x] = 0
    PROVE  SumFunctionOnSet(f, S) = 0
<1> DEFINE Bad == {t \in SUBSET S : SumFunctionOnSet(f, t) # 0}
<1> SUFFICES ASSUME Bad # {} PROVE FALSE OBVIOUS
<1>1. PICK t \in Bad : \A u \in Bad : u \subseteq t => u = t
  <2>1. Bad \in SUBSET SUBSET S OBVIOUS
  <2> HIDE DEF Bad
  <2> QED BY <2>1, LeastSubset
<1>2. t # {} BY <1>1, SumEmpty
<1>3. PICK x \in t : TRUE BY <1>2
<1>4. IsFiniteSet(t) /\ t \subseteq S BY <1>1, FS_Subset
<1>5. SumFunctionOnSet(f, t) = f[x] + SumFunctionOnSet(f, t \ {x}) BY <1>4, SumTakeOut
<1>6. SumFunctionOnSet(f, t \ {x}) = 0 BY <1>1
<1>7. SumFunctionOnSet(f, t) = 0 BY <1>4, <1>5, <1>6
<1> QED BY <1>1, <1>7

------------------------
Counters == Usages \cup Analyses

Types == CallTypes \cup {"analytic"}
Record == [type : Types, tokens : Nat, cost : Nat, gone : BOOLEAN]
Bill   == [loaded : Nat, reloaded : Nat, stage : 1 .. 3, rec : Nat, tokens : Nat,
           cost : Nat, usage : Nat, total : Nat, due : Nat]
Claim  == [fallback : Nat, usd : Nat, quiet : BOOLEAN, begun : SUBSET Handlers]

UsageKey == <<"usage_rt">>
UsageRows    == [key : {UsageKey}, dir : {"debit"}, usd : Nat \ {0}, by : Hangups]
AnalysisRows == [key : {"usage_an"} \X Nat, dir : {"debit"}, usd : Nat \ {0},
                 by : Analyses]
RefundRows   == [key : {<<"refund">>}, dir : {"credit"}, usd : Nat \ {0}, by : Deletions]

Unplaced == {"idle", "known", "creating"}

CounterPlaces  == Unplaced \cup {"held", "counted", "done", "stopped"}
AnalysisPlaces == CounterPlaces \cup {"debiting", "storing"}
HangupPlaces   == {"idle", "found", "reading", "saving", "totalled", "debiting", "closing",
                   "done", "stopped"}
DeletionPlaces == {"idle", "found", "summed", "credited", "uncredited", "done", "stopped"}
Labels == AnalysisPlaces \cup HangupPlaces \cup DeletionPlaces

Shapes ==
    /\ price \in Prices
    /\ cdr \in [state : {"none", "live", "deleted"}, tokens : Nat, cost : Nat]
    /\ records \in Seq(Record)
    /\ analysed \subseteq Analyses
    /\ \A row \in ledger : row \in UsageRows \/ row \in AnalysisRows \/ row \in RefundRows
    /\ IsFiniteSet(ledger)
    /\ pc \in [Handlers -> Labels]
    /\ at \in [Counters -> Nat]
    /\ bill \in [Hangups -> Bill]
    /\ claim \in [Deletions -> Claim]
    /\ faulty \subseteq Handlers

Placed(p) ==
    /\ p \in Usages => pc[p] \in CounterPlaces
    /\ pc[p] \in AnalysisPlaces
    /\ at[p] <= Len(records)
    /\ pc[p] \in Unplaced => at[p] = 0
    /\ pc[p] \in {"held", "counted", "debiting"} => at[p] > 0
    /\ at[p] > 0 => records[at[p]].type = TypeOf(p)
    /\ p \in Analyses /\ pc[p] \in {"known", "creating", "held", "counted", "debiting"}
         => price # NoPrice

Billing(h) ==
    /\ pc[h] \in HangupPlaces
    /\ bill[h].rec <= Len(records)
    /\ pc[h] \in {"reading", "saving", "totalled", "debiting"} => price # NoPrice
    /\ pc[h] = "saving" => /\ bill[h].rec > 0 /\ bill[h].stage < 3
                           /\ records[bill[h].rec].type = RecordTypes[bill[h].stage]
    /\ pc[h] \in {"totalled", "debiting"} => bill[h].stage = 3
    /\ pc[h] \in {"idle", "found"} => bill[h] = [NewBill EXCEPT !.loaded = bill[h].loaded]

Unborn ==
    cdr.state = "none" =>
       /\ records = <<>> /\ ledger = {} /\ cdr.tokens = 0 /\ cdr.cost = 0
       /\ \A p \in Counters : pc[p] \in {"idle", "storing", "done", "stopped"}
       /\ \A p \in Hangups \cup Deletions : pc[p] = "idle"

Slots == Len(records) <= Cardinality({p \in Counters : pc[p] \notin Unplaced})

Rows ==
    /\ \A row, other \in ledger :
          row.dir = "debit" /\ other.dir = "debit" /\ row.key = other.key => row = other
    /\ \A row \in ledger : row.by \in Hangups => pc[row.by] \in {"closing", "done", "stopped"}
    /\ \A i \in DOMAIN records : records[i].gone => cdr.state = "deleted"
    /\ \A p \in Handlers \ Deletions : pc[p] = "stopped" => p \in faulty
    /\ \A d \in Deletions : pc[d] \in DeletionPlaces

Base ==
    /\ Shapes /\ Unborn /\ Slots /\ Rows
    /\ \A p \in Counters : Placed(p)
    /\ \A h \in Hangups : Billing(h)

\* Nothing is counted that was not reported.
Of(type) == {u \in Usages : UsageType[u] = type}
Read(h)  == CASE pc[h] = "reading" -> bill[h].stage - 1
              [] pc[h] = "saving"  -> bill[h].stage
              [] OTHER             -> 2
UsedBy(k) ==
    (IF k >= 1 THEN SumFunctionOnSet(Tokens, Begun(Of("realtime"))) ELSE 0)
      + (IF k >= 2 THEN SumFunctionOnSet(Tokens, Begun(Of("non-realtime"))) ELSE 0)

\* Nothing that was recorded is left out.
Kept(type) == SumFunctionOnSet(Counted, Found(type))
Unread(k) == (IF k <= 1 THEN Kept("realtime") ELSE 0) + (IF k <= 2 THEN Kept("non-realtime") ELSE 0)

Complete(h) ==
    /\ pc[h] \in {"reading", "saving", "totalled", "debiting"} =>
          price * bill[h].due <= bill[h].usage + price * Unread(Read(h) + 1)
    /\ pc[h] \in {"closing", "done"} /\ h \notin faulty /\ price # NoPrice /\ price * bill[h].due > 0
          => \E row \in ledger : row.key = UsageKey
    /\ \A row \in ledger : row.by = h => row.usd >= price * bill[h].due

InFull == CdrLive /\ OneRecordPerType => \A h \in Hangups : Complete(h)

------------------------
\* The constants.
LEMMA Parts ==
    /\ \A S : S \subseteq Handlers => IsFiniteSet(S)
    /\ Counters \subseteq Handlers /\ Hangups \subseteq Handlers /\ Deletions \subseteq Handlers
    /\ Usages \subseteq Counters /\ Analyses \subseteq Counters
    /\ Counters \cap (Hangups \cup Deletions) = {} /\ Hangups \cap Deletions = {}
    /\ Usages \cap Analyses = {}
    /\ Handlers = Counters \cup Hangups \cup Deletions
    /\ \A p \in Counters : Tokens[p] \in Nat /\ TypeOf(p) \in Types
    /\ price \in Prices /\ price # NoPrice => price \in Nat
<1>1. \A S : S \subseteq Handlers => IsFiniteSet(S) BY BillingConstants, FS_Subset
<1>2. \A p \in Counters : Tokens[p] \in Nat BY BillingConstants DEF Counters
<1>3. \A p \in Counters : TypeOf(p) \in Types BY BillingConstants DEF Counters, TypeOf, Types, CallTypes
<1>4. price \in Prices /\ price # NoPrice => price \in Nat BY BillingConstants
<1> QED BY <1>1, <1>2, <1>3, <1>4, BillingConstants DEF Handlers, Counters

LEMMA Products ==
    ASSUME NEW k \in Nat, NEW a \in Nat, NEW b \in Nat
    PROVE  /\ k * a \in Nat
           /\ a <= b => k * a <= k * b
           /\ k * (a + b) = k * a + k * b
  OBVIOUS

\* A step moves at most one handler, which does not become idle or leave a final place;
\* nobody recovers from a fault.
LEMMA OneMoves ==
    ASSUME Shapes, Next
    PROVE  /\ price' = price /\ faulty \subseteq faulty'
           /\ \/ pc' = pc
              \/ \E p \in Handlers, l \in Labels \ {"idle"} :
                    pc[p] \notin Final /\ pc' = [pc EXCEPT ![p] = l]
<1> DEFINE Moved(p, l) == pc[p] \notin Final /\ pc' = [pc EXCEPT ![p] = l]
           Goal == /\ price' = price /\ faulty \subseteq faulty'
                   /\ pc' = pc \/ \E p \in Handlers, l \in Labels \ {"idle"} : Moved(p, l)
<1>0. {"known", "creating", "held", "counted", "done", "stopped", "debiting", "storing", "found",
       "reading", "saving", "totalled", "closing", "summed", "credited", "uncredited"}
        \subseteq Labels \ {"idle"}
  BY DEF Labels, AnalysisPlaces, CounterPlaces, HangupPlaces, DeletionPlaces, Unplaced
<1> HIDE DEF Labels
<1>c. CASE CreateCdr BY <1>c DEF CreateCdr
<1>1. ASSUME NEW u \in Usages, ReportUsage(u) PROVE Goal
  <2>1. u \in Handlers BY Parts DEF Counters
  <2> QED BY <1>0, <1>1, <2>1 DEF ReportUsage, Goto, Final
<1>2. ASSUME NEW p \in Usages \cup Analyses, FindRecord(p) PROVE Goal
  <2>1. p \in Handlers BY Parts DEF Counters
  <2> QED BY <1>0, <1>2, <2>1 DEF FindRecord, Goto, Final
<1>3. ASSUME NEW p \in Usages \cup Analyses, CreateRecord(p) PROVE Goal
  <2>1. p \in Handlers BY Parts DEF Counters
  <2> QED BY <1>0, <1>3, <2>1 DEF CreateRecord, Goto, Final
<1>4. ASSUME NEW p \in Usages \cup Analyses, IncrementRecord(p) PROVE Goal
  <2>1. p \in Handlers BY Parts DEF Counters
  <2> QED BY <1>0, <1>4, <2>1 DEF IncrementRecord, Goto, Final
<1>5. ASSUME NEW p \in Usages \cup Analyses, IncrementCdr(p) PROVE Goal
  <2>1. p \in Handlers BY Parts DEF Counters
  <2> QED BY <1>0, <1>5, <2>1 DEF IncrementCdr, Goto, Final
<1>6. ASSUME NEW h \in Hangups, BeginHangup(h) PROVE Goal
  <2>1. h \in Handlers BY Parts DEF Counters
  <2> QED BY <1>0, <1>6, <2>1 DEF BeginHangup, Goto, Final
<1>7. ASSUME NEW h \in Hangups, BeginFinalize(h) PROVE Goal
  <2>1. h \in Handlers BY Parts DEF Counters
  <2> QED BY <1>0, <1>7, <2>1 DEF BeginFinalize, Goto, Final
<1>8. ASSUME NEW h \in Hangups, ReadRecord(h) PROVE Goal
  <2>1. h \in Handlers BY Parts DEF Counters
  <2> QED BY <1>0, <1>8, <2>1 DEF ReadRecord, Goto, Final
<1>9. ASSUME NEW h \in Hangups, SaveCost(h) PROVE Goal
  <2>1. h \in Handlers BY Parts DEF Counters
  <2> QED BY <1>0, <1>9, <2>1 DEF SaveCost, Goto, Final
<1>10. ASSUME NEW h \in Hangups, ReadAnalytic(h) PROVE Goal
  <2>1. h \in Handlers BY Parts DEF Counters
  <2> QED BY <1>0, <1>10, <2>1 DEF ReadAnalytic, Goto, Final
<1>11. ASSUME NEW h \in Hangups, UpdateCdr(h) PROVE Goal
  <2>1. h \in Handlers BY Parts DEF Counters
  <2> QED BY <1>0, <1>11, <2>1 DEF UpdateCdr, Goto, Final
<1>12. ASSUME NEW h \in Hangups, DebitUsage(h) PROVE Goal
  <2>1. h \in Handlers BY Parts DEF Counters
  <2> QED BY <1>0, <1>12, <2>1 DEF DebitUsage, Goto, Final
<1>13. ASSUME NEW h \in Hangups, FinalizeFails(h) PROVE Goal
  <2>1. h \in Handlers BY Parts DEF Counters
  <2> QED BY <1>0, <1>13, <2>1 DEF FinalizeFails, Goto, Final
<1>14. ASSUME NEW h \in Hangups, CloseCdr(h) PROVE Goal
  <2>1. h \in Handlers BY Parts DEF Counters
  <2> QED BY <1>0, <1>14, <2>1 DEF CloseCdr, Goto, Final
<1>15. ASSUME NEW a \in Analyses, Analyse(a) PROVE Goal
  <2>1. a \in Handlers BY Parts DEF Counters
  <2> QED BY <1>0, <1>15, <2>1 DEF Analyse, Goto, Final
<1>16. ASSUME NEW a \in Analyses, DebitAnalysis(a) PROVE Goal
  <2>1. a \in Handlers BY Parts DEF Counters
  <2> QED BY <1>0, <1>16, <2>1 DEF DebitAnalysis, Goto, Final
<1>17. ASSUME NEW a \in Analyses, ChargeFails(a) PROVE Goal
  <2>1. a \in Handlers BY Parts DEF Counters
  <2> QED BY <1>0, <1>17, <2>1 DEF ChargeFails, Goto, Final
<1>18. ASSUME NEW a \in Analyses, StoreAnalysis(a) PROVE Goal
  <2>1. a \in Handlers BY Parts DEF Counters
  <2> QED BY <1>0, <1>18, <2>1 DEF StoreAnalysis, Goto, Final
<1>19. ASSUME NEW d \in Deletions, FindReport(d) PROVE Goal
  <2>1. d \in Handlers BY Parts DEF Counters
  <2> QED BY <1>0, <1>19, <2>1 DEF FindReport, Goto, Final
<1>20. ASSUME NEW d \in Deletions, SumRecords(d) PROVE Goal
  <2>1. d \in Handlers BY Parts DEF Counters
  <2> QED BY <1>0, <1>20, <2>1 DEF SumRecords, Goto, Final
<1>21. ASSUME NEW d \in Deletions, Credit(d) PROVE Goal
  <2>1. d \in Handlers BY Parts DEF Counters
  <2> QED BY <1>0, <1>21, <2>1 DEF Credit, Goto, Final
<1>22. ASSUME NEW d \in Deletions, DestroyReport(d) PROVE Goal
  <2>1. d \in Handlers BY Parts DEF Counters
  <2> QED BY <1>0, <1>22, <2>1 DEF DestroyReport, Goto, Final
<1>23. ASSUME NEW p \in Handlers, Stop(p) PROVE Goal
  <2>1. p \in Handlers BY Parts DEF Counters
  <2> QED BY <1>0, <1>23, <2>1 DEF Stop, Goto, Final
<1> QED
  BY <1>c, <1>1, <1>2, <1>3, <1>4, <1>5, <1>6, <1>7, <1>8, <1>9, <1>10, <1>11, <1>12, <1>13, <1>14, <1>15, <1>16, <1>17, <1>18, <1>19, <1>20, <1>21, <1>22, <1>23 DEF Next

------------------------
LEMMA Irreversible ==
    ASSUME Shapes, Next
    PROVE  \A S \in SUBSET Handlers : Begun(S) \subseteq Begun(S)'
<1>1. pc' = pc \/ \E p \in Handlers, l \in Labels \ {"idle"} : pc' = [pc EXCEPT ![p] = l] BY OneMoves
<1> QED BY <1>1 DEF Begun, Shapes

\* Rows, records and locals as functions and records.
LEMMA RecordFacts ==
    ASSUME Shapes
    PROVE  /\ Len(records) \in Nat /\ DOMAIN records = 1 .. Len(records)
           /\ \A i \in DOMAIN records : records[i] \in Record
           /\ \A S : S \subseteq DOMAIN records => IsFiniteSet(S)
<1>1. Len(records) \in Nat /\ DOMAIN records = 1 .. Len(records) BY DEF Shapes
<1>2. IsFiniteSet(1 .. Len(records)) BY <1>1, FS_Interval
<1>3. \A S : S \subseteq DOMAIN records => IsFiniteSet(S) BY <1>1, <1>2, FS_Subset
<1>4. \A i \in DOMAIN records : records[i] \in Record BY <1>1 DEF Shapes
<1> QED BY <1>1, <1>3, <1>4

LEMMA SumsAreNat ==
    ASSUME Shapes
    PROVE  /\ \A S \in SUBSET Counters : SumFunctionOnSet(Tokens, S) \in Nat
           /\ \A S \in SUBSET DOMAIN records : /\ SumFunctionOnSet(Counted, S) \in Nat
                                               /\ SumFunctionOnSet(Costs, S) \in Nat
           /\ \A S \in SUBSET ledger : SumFunctionOnSet(Worth, S) \in Nat
<1>1. ASSUME NEW S \in SUBSET Counters PROVE SumFunctionOnSet(Tokens, S) \in Nat
  <2>1. IsFiniteSet(S) /\ \A p \in S : Tokens[p] \in Nat BY Parts
  <2> QED BY <2>1, SumTakeOut
<1>2. ASSUME NEW S \in SUBSET DOMAIN records
      PROVE  SumFunctionOnSet(Counted, S) \in Nat /\ SumFunctionOnSet(Costs, S) \in Nat
  <2>1. IsFiniteSet(S) /\ \A i \in S : Counted[i] \in Nat /\ Costs[i] \in Nat
    BY RecordFacts DEF Counted, Costs, Record
  <2> QED BY <2>1, SumTakeOut
<1>3. ASSUME NEW S \in SUBSET ledger PROVE SumFunctionOnSet(Worth, S) \in Nat
  <2>1. IsFiniteSet(S) BY FS_Subset DEF Shapes
  <2>2. \A row \in S : Worth[row] \in Nat BY DEF Worth, Shapes, UsageRows, AnalysisRows, RefundRows
  <2> QED BY <2>1, <2>2, SumTakeOut
<1> QED BY <1>1, <1>2, <1>3

LEMMA CostsAreNat ==
    ASSUME Shapes, NEW p \in Counters, Placed(p), pc[p] \in {"held", "counted", "debiting"}
    PROVE  CostOf(p) \in Nat /\ (p \in Usages => CostOf(p) = 0)
<1>1. p \in Analyses => price \in Nat BY Parts DEF Placed, Shapes
<1>2. Tokens[p] \in Nat BY Parts
<1>3. p \in Analyses => price * Tokens[p] \in Nat BY <1>1, <1>2, Products
<1> QED BY <1>3, Parts DEF CostOf

\* A charge adds a row, or finds its key taken.
LEMMA Charges ==
    ASSUME Shapes, NEW p \in Handlers, NEW key, NEW usd, Charge(p, key, usd)
    PROVE  LET row == [key |-> key, dir |-> "debit", usd |-> usd, by |-> p] IN
           /\ IsFiniteSet(ledger')
           /\ \/ ledger' = ledger /\ \E other \in ledger : other.key = key
              \/ /\ ledger' = ledger \cup {row} /\ row \notin ledger
                 /\ \A other \in ledger : other.key # key
<1> DEFINE row == [key |-> key, dir |-> "debit", usd |-> usd, by |-> p]
<1>1. row.key = key OBVIOUS
<1>2. IsFiniteSet(ledger) /\ IsFiniteSet(ledger \cup {row}) BY FS_AddElement DEF Shapes
<1>3. CASE \E other \in ledger : other.key = key BY <1>2, <1>3 DEF Charge
<1>4. CASE ~\E other \in ledger : other.key = key
  <2>1. ledger' = ledger \cup {row} BY <1>4 DEF Charge
  <2> QED BY <1>1, <1>2, <1>4, <2>1
<1> QED BY <1>3, <1>4

------------------------
\* What has a record has left the places without one.
LEMMA SlotsKept ==
    ASSUME Shapes, Slots, Len(records') = Len(records), Len(records) \in Nat,
           \A p \in Counters : pc[p] \notin Unplaced => pc'[p] \notin Unplaced
    PROVE  Slots'
<1> DEFINE S == {p \in Counters : pc[p] \notin Unplaced}
           T == {p \in Counters : pc'[p] \notin Unplaced}
<1>1. IsFiniteSet(T) /\ S \subseteq T BY Parts
<1>2. Cardinality(S) <= Cardinality(T) /\ Cardinality(S) \in Nat /\ Cardinality(T) \in Nat
  BY <1>1, FS_Subset, FS_CardinalityType
<1>3. Len(records) <= Cardinality(S) BY DEF Slots
<1> HIDE DEF S, T
<1>4. Len(records') <= Cardinality(T) BY <1>2, <1>3
<1> QED BY <1>4 DEF Slots, T

\* What the two updates of a record leave alone.
LEMMA RecordIncremented ==
    ASSUME Base, NEW p \in Usages \cup Analyses, IncrementRecord(p)
    PROVE  /\ at[p] \in DOMAIN records /\ CostOf(p) \in Nat /\ Tokens[p] \in Nat
           /\ DOMAIN records' = DOMAIN records /\ Len(records') = Len(records)
           /\ \A i \in DOMAIN records :
                 /\ records'[i].type = records[i].type /\ records'[i].gone = records[i].gone
                 /\ i # at[p] \/ records[i].gone => records'[i] = records[i]
           /\ ~records[at[p]].gone =>
                 /\ records'[at[p]].tokens = records[at[p]].tokens + Tokens[p]
                 /\ records'[at[p]].cost = records[at[p]].cost + CostOf(p)
<1>1. at[p] \in DOMAIN records /\ CostOf(p) \in Nat /\ Tokens[p] \in Nat
  BY Parts, RecordFacts, CostsAreNat DEF IncrementRecord, Placed, Shapes, Counters, Base
<1>2. records \in Seq(Record) BY DEF Base, Shapes
<1>3. \/ records[at[p]].gone /\ records' = records
      \/ /\ ~records[at[p]].gone
         /\ records' = [records EXCEPT ![at[p]].tokens = @ + Tokens[p], ![at[p]].cost = @ + CostOf(p)]
  BY DEF IncrementRecord
<1> HIDE DEF CostOf
<1>4. CASE records[at[p]].gone /\ records' = records BY <1>1, <1>4
<1>5. CASE /\ ~records[at[p]].gone
           /\ records' = [records EXCEPT ![at[p]].tokens = @ + Tokens[p], ![at[p]].cost = @ + CostOf(p)]
  <2>1. DOMAIN records' = DOMAIN records /\ Len(records') = Len(records) BY <1>1, <1>2, <1>5
  <2>2. \A i \in DOMAIN records : i # at[p] => records'[i] = records[i] BY <1>1, <1>2, <1>5
  <2>3. /\ records'[at[p]].type = records[at[p]].type /\ records'[at[p]].gone = records[at[p]].gone
        /\ records'[at[p]].tokens = records[at[p]].tokens + Tokens[p]
        /\ records'[at[p]].cost = records[at[p]].cost + CostOf(p)
    <3> DEFINE i == at[p]
               t == Tokens[p]
               c == CostOf(p)
    <3>1. i \in 1 .. Len(records) /\ t \in Nat /\ c \in Nat BY <1>1
    <3>2. records' = [records EXCEPT ![i].tokens = @ + t, ![i].cost = @ + c] BY <1>5
    <3> HIDE DEF i, t, c
    <3>3. records'[i].type = records[i].type /\ records'[i].gone = records[i].gone BY <1>2, <3>1, <3>2 DEF Record
    <3>4. records'[i].tokens = records[i].tokens + t BY <1>2, <3>1, <3>2 DEF Record
    <3>5. records'[i].cost = records[i].cost + c BY <1>2, <3>1, <3>2 DEF Record
    <3> QED BY <3>3, <3>4, <3>5 DEF i, t, c
  <2> QED BY <1>1, <1>5, <2>1, <2>2, <2>3
<1> QED BY <1>3, <1>4, <1>5

LEMMA RecordSaved ==
    ASSUME Base, NEW h \in Hangups, SaveCost(h)
    PROVE  /\ bill[h] \in Bill /\ bill[h].rec \in DOMAIN records /\ price \in Nat
           /\ price * bill[h].tokens \in Nat
           /\ DOMAIN records' = DOMAIN records /\ Len(records') = Len(records)
           /\ \A i \in DOMAIN records :
                 /\ records'[i].type = records[i].type /\ records'[i].gone = records[i].gone
                 /\ records'[i].tokens = records[i].tokens
                 /\ i # bill[h].rec \/ records[i].gone => records'[i] = records[i]
           /\ ~records[bill[h].rec].gone =>
                 records'[bill[h].rec].cost =
                    Saved(records[bill[h].rec].cost, bill[h].cost, price * bill[h].tokens)
<1> DEFINE r == bill[h].rec
           new == Saved(records[r].cost, bill[h].cost, price * bill[h].tokens)
<1>0. bill[h] \in Bill /\ Billing(h) /\ pc[h] = "saving" BY DEF SaveCost, Base, Shapes
<1>1. r \in DOMAIN records /\ price # NoPrice BY <1>0, RecordFacts DEF Billing, Bill, Base
<1>2. records \in Seq(Record) BY DEF Base, Shapes
<1>3. price \in Nat /\ price * bill[h].tokens \in Nat BY <1>0, <1>1, Parts, Products DEF Base, Shapes, Bill
<1>4. \/ records[r].gone /\ records' = records
      \/ ~records[r].gone /\ records' = [records EXCEPT ![r].cost = new]
  BY DEF SaveCost
<1>5. records[r] \in Record BY <1>1, RecordFacts DEF Base
<1> HIDE DEF r, new
<1>6. CASE records[r].gone /\ records' = records BY <1>0, <1>1, <1>3, <1>6 DEF r
<1>7. CASE ~records[r].gone /\ records' = [records EXCEPT ![r].cost = new]
  <2>1. DOMAIN records' = DOMAIN records /\ Len(records') = Len(records) BY <1>1, <1>2, <1>7
  <2>2. \A i \in DOMAIN records : i # r => records'[i] = records[i] BY <1>1, <1>2, <1>7
  <2>3. /\ records'[r].type = records[r].type /\ records'[r].gone = records[r].gone
        /\ records'[r].tokens = records[r].tokens
    BY <1>1, <1>2, <1>5, <1>7 DEF Record
  <2>4. records'[r].cost = new BY <1>1, <1>2, <1>5, <1>7 DEF Record
  <2> QED BY <1>0, <1>1, <1>3, <1>7, <2>1, <2>2, <2>3, <2>4 DEF r, new
<1> QED BY <1>4, <1>6, <1>7

LEMMA CreateCdrBase ==
    ASSUME Base, CreateCdr
    PROVE  Base'
<1>1. Shapes' BY DEF Base, Shapes, CreateCdr
<1>2. UNCHANGED <<price, records, analysed, ledger, pc, at, bill, claim, faulty>> /\ cdr'.state = "live"
  BY DEF CreateCdr, Base, Shapes
<1>3. \A p \in Counters : Placed(p)' BY <1>2 DEF Base, Placed, TypeOf
<1>4. \A h \in Hangups : Billing(h)' BY <1>2 DEF Base, Billing
<1>5. Unborn' /\ Slots' BY <1>2 DEF Base, Unborn, Slots
<1>6. Rows' BY <1>2 DEF Base, Rows, CreateCdr
<1> QED BY <1>1, <1>3, <1>4, <1>5, <1>6 DEF Base

LEMMA ReportUsageBase ==
    ASSUME Base, NEW u \in Usages, ReportUsage(u)
    PROVE  Base'
<1> USE DEF Base
<1>0. u \in Handlers BY Parts DEF Counters
<1>1. Shapes'
  BY <1>0, Parts DEF Shapes, ReportUsage, Goto, Labels, AnalysisPlaces, CounterPlaces, HangupPlaces, DeletionPlaces, Unplaced
<1>2. \A q \in Counters : Placed(q)'
  BY <1>0, Parts DEF Placed, ReportUsage, Goto, TypeOf, Shapes, AnalysisPlaces, CounterPlaces, Unplaced
<1>3. \A g \in Hangups : Billing(g)' BY <1>0, Parts DEF Billing, ReportUsage, Goto, Shapes, HangupPlaces
<1>4. Unborn' BY <1>0, Parts DEF Unborn, ReportUsage, Goto, Shapes, CdrLive
<1>5. Slots' BY <1>0, Parts, SlotsKept, RecordFacts DEF ReportUsage, Goto, Shapes, Unplaced
<1>6. Rows' BY <1>0, Parts DEF Rows, ReportUsage, Goto, Shapes, DeletionPlaces
<1> QED BY <1>1, <1>2, <1>3, <1>4, <1>5, <1>6

LEMMA FindRecordBase ==
    ASSUME Base, NEW p \in Usages \cup Analyses, FindRecord(p)
    PROVE  Base'
<1> USE DEF Base
<1>0. p \in Handlers BY Parts DEF Counters
<1>1. Shapes'
  <2>1. pc' \in [Handlers -> Labels]
    BY <1>0 DEF Shapes, FindRecord, Goto, Labels, AnalysisPlaces, CounterPlaces, HangupPlaces, DeletionPlaces, Unplaced
  <2>2. at' \in [Counters -> Nat] BY <1>0, RecordFacts DEF Shapes, FindRecord, Found, Counters
  <2> QED BY <1>0, <2>1, <2>2 DEF Shapes, FindRecord
<1>2. \A q \in Counters : Placed(q)'
  <2>1. p \in Counters BY DEF Counters
  <2>2. UNCHANGED <<price, records>> /\ TypeOf(p) \in Types BY <2>1, Parts DEF FindRecord
  <2>3. \/ /\ \E i \in Found(TypeOf(p)) : at' = [at EXCEPT ![p] = i]
           /\ pc' = [pc EXCEPT ![p] = "held"]
        \/ /\ pc' = [pc EXCEPT ![p] = "creating"]
           /\ at' = at
    BY DEF FindRecord, Goto
  <2>4. pc[p] = "known" BY DEF FindRecord
  <2>5. Placed(p)'
    <3>1. Placed(p) /\ at \in [Counters -> Nat] /\ pc \in [Handlers -> Labels] BY <2>1 DEF Shapes
    <3>2. CASE pc' = [pc EXCEPT ![p] = "creating"] /\ at' = at
      BY <1>0, <2>1, <2>2, <2>4, <3>1, <3>2 DEF Placed, TypeOf, AnalysisPlaces, CounterPlaces, Unplaced
    <3>3. ASSUME NEW i \in Found(TypeOf(p)), at' = [at EXCEPT ![p] = i],
                 pc' = [pc EXCEPT ![p] = "held"]
          PROVE  Placed(p)'
      <4>1. i \in DOMAIN records /\ records[i].type = TypeOf(p) /\ i > 0 /\ i <= Len(records)
        BY RecordFacts DEF Found
      <4> QED
        BY <1>0, <2>1, <2>2, <2>4, <3>1, <3>3, <4>1 DEF Placed, TypeOf, AnalysisPlaces, CounterPlaces, Unplaced
    <3> QED BY <2>3, <3>2, <3>3
  <2>6. \A q \in Counters : q # p => Placed(q)' BY <1>0, <2>1, <2>2, <2>3, Parts DEF Placed, TypeOf, Shapes
  <2> QED BY <2>5, <2>6
<1>3. \A g \in Hangups : Billing(g)' BY <1>0, Parts DEF Billing, FindRecord, Goto, Shapes, HangupPlaces
<1>4. Unborn' BY <1>0, Parts DEF Unborn, FindRecord, Goto, Shapes, CdrLive
<1>5. Slots' BY <1>0, Parts, SlotsKept, RecordFacts DEF FindRecord, Goto, Shapes, Unplaced
<1>6. Rows' BY <1>0, Parts DEF Rows, FindRecord, Goto, Shapes, DeletionPlaces
<1> QED BY <1>1, <1>2, <1>3, <1>4, <1>5, <1>6

LEMMA CreateRecordBase ==
    ASSUME Base, NEW p \in Usages \cup Analyses, CreateRecord(p)
    PROVE  Base'
<1> USE DEF Base
<1>0. p \in Handlers BY Parts DEF Counters
<1>1. Shapes'
  <2>1. pc' \in [Handlers -> Labels]
    BY <1>0 DEF Shapes, CreateRecord, Goto, Labels, AnalysisPlaces, CounterPlaces, HangupPlaces, DeletionPlaces, Unplaced
  <2>2. records' \in Seq(Record) /\ at' \in [Counters -> Nat]
    <3>1. TypeOf(p) \in Types BY Parts DEF Counters
    <3>2. [type |-> TypeOf(p), tokens |-> 0, cost |-> 0, gone |-> FALSE] \in Record BY <3>1 DEF Record
    <3>3. records' \in Seq(Record) BY <3>2 DEF Shapes, CreateRecord
    <3>4. at' = [at EXCEPT ![p] = Len(records) + 1] /\ Len(records) + 1 \in Nat BY RecordFacts DEF CreateRecord
    <3> QED BY <3>3, <3>4 DEF Shapes
  <2> QED BY <1>0, <2>1, <2>2 DEF Shapes, CreateRecord
<1>2. \A q \in Counters : Placed(q)'
  BY <1>0, Parts DEF Placed, CreateRecord, Goto, TypeOf, Shapes, AnalysisPlaces, CounterPlaces, Unplaced
<1>3. \A g \in Hangups : Billing(g)'
  <2>1. records \in Seq(Record) /\ Len(records) \in Nat BY RecordFacts DEF Shapes
  <2>2. records' = Append(records, [type |-> TypeOf(p), tokens |-> 0, cost |-> 0, gone |-> FALSE])
    BY DEF CreateRecord
  <2>3. Len(records') = Len(records) + 1 /\ \A i \in 1 .. Len(records) : records'[i] = records[i] BY <2>1, <2>2
  <2>4. ASSUME NEW g \in Hangups PROVE Billing(g)'
    <3>1. bill'[g] = bill[g] /\ pc'[g] = pc[g] /\ price' = price /\ bill[g].rec \in Nat
      BY <1>0, Parts DEF CreateRecord, Goto, Shapes, Bill, Counters
    <3>2. Billing(g) OBVIOUS
    <3>3. pc[g] = "saving" => records'[bill[g].rec] = records[bill[g].rec] BY <2>3, <3>1, <3>2 DEF Billing
    <3> QED BY <2>1, <2>3, <3>1, <3>2, <3>3 DEF Billing
  <2> QED BY <2>4
<1>4. Unborn' BY <1>0, Parts DEF Unborn, CreateRecord, Goto, Shapes, CdrLive
<1>5. Slots'
  <2> DEFINE S == {q \in Counters : pc[q] \notin Unplaced}
             T == {q \in Counters : pc'[q] \notin Unplaced}
  <2>1. T = S \cup {p} /\ p \notin S BY <1>0 DEF CreateRecord, Goto, Shapes, Counters, Unplaced
  <2>2. IsFiniteSet(S) BY Parts
  <2>3. Cardinality(T) = Cardinality(S) + 1 /\ Cardinality(S) \in Nat
    BY <2>1, <2>2, FS_AddElement, FS_CardinalityType
  <2>4. Len(records') = Len(records) + 1 /\ Len(records) \in Nat BY RecordFacts DEF CreateRecord, Shapes
  <2>5. Len(records) <= Cardinality(S) BY DEF Slots
  <2> HIDE DEF S, T
  <2>6. Len(records') <= Cardinality(T) BY <2>3, <2>4, <2>5
  <2> QED BY <2>6 DEF Slots, T
<1>6. Rows' BY <1>0, Parts DEF Rows, CreateRecord, Goto, Shapes, DeletionPlaces
<1> QED BY <1>1, <1>2, <1>3, <1>4, <1>5, <1>6

LEMMA IncrementRecordBase ==
    ASSUME Base, NEW p \in Usages \cup Analyses, IncrementRecord(p)
    PROVE  Base'
<1> USE DEF Base
<1>0. p \in Handlers BY Parts DEF Counters
<1>1. Shapes'
  <2>1. pc' \in [Handlers -> Labels]
    BY <1>0 DEF Shapes, IncrementRecord, Goto, Labels, AnalysisPlaces, CounterPlaces, HangupPlaces, DeletionPlaces, Unplaced
  <2>2. records' \in Seq(Record)
    <3>1. at[p] \in DOMAIN records /\ CostOf(p) \in Nat /\ Tokens[p] \in Nat
      BY Parts, RecordFacts, CostsAreNat DEF IncrementRecord, Placed, Shapes, Counters
    <3>2. records[at[p]] \in Record BY <3>1, RecordFacts
    <3>3. ASSUME NEW r, r = [records[at[p]] EXCEPT !.tokens = @ + Tokens[p], !.cost = @ + CostOf(p)]
          PROVE  r \in Record
      <4>1. records[at[p]].tokens + Tokens[p] \in Nat /\ records[at[p]].cost + CostOf(p) \in Nat
        BY <3>1, <3>2 DEF Record
      <4> QED BY <3>2, <3>3, <4>1 DEF Record
    <3>4. PICK r \in Record : records' = records \/ records' = [records EXCEPT ![at[p]] = r]
      BY <3>2, <3>3 DEF IncrementRecord
    <3> QED BY <3>1, <3>4 DEF Shapes
  <2> QED BY <1>0, <2>1, <2>2 DEF Shapes, IncrementRecord
<1>2. \A q \in Counters : Placed(q)'
  BY <1>0, Parts DEF Placed, IncrementRecord, Goto, TypeOf, Shapes, AnalysisPlaces, CounterPlaces, Unplaced
<1>3. \A g \in Hangups : Billing(g)'
  <2>1. ASSUME NEW g \in Hangups PROVE Billing(g)'
    <3>1. bill'[g] = bill[g] /\ pc'[g] = pc[g] /\ price' = price /\ bill[g].rec \in Nat
      BY <1>0, Parts DEF IncrementRecord, Goto, Shapes, Bill, Counters
    <3>2. Billing(g) OBVIOUS
    <3>3. Len(records') = Len(records) /\ \A i \in DOMAIN records : records'[i].type = records[i].type
      BY RecordIncremented
    <3>4. pc[g] = "saving" => records'[bill[g].rec].type = records[bill[g].rec].type
      BY <3>1, <3>2, <3>3, RecordFacts DEF Billing
    <3> QED BY <3>1, <3>2, <3>3, <3>4 DEF Billing
  <2> QED BY <2>1
<1>4. Unborn' BY <1>0, Parts DEF Unborn, IncrementRecord, Goto, Shapes, CdrLive
<1>5. Slots' BY <1>0, Parts, SlotsKept, RecordFacts DEF IncrementRecord, Goto, Shapes, Unplaced
<1>6. Rows' BY <1>0, Parts DEF Rows, IncrementRecord, Goto, Shapes, DeletionPlaces
<1> QED BY <1>1, <1>2, <1>3, <1>4, <1>5, <1>6

LEMMA IncrementCdrBase ==
    ASSUME Base, NEW p \in Usages \cup Analyses, IncrementCdr(p)
    PROVE  Base'
<1> USE DEF Base
<1>0. p \in Handlers BY Parts DEF Counters
<1>1. Shapes'
  <2>1. pc' \in [Handlers -> Labels]
    BY <1>0 DEF Shapes, IncrementCdr, Goto, Labels, AnalysisPlaces, CounterPlaces, HangupPlaces, DeletionPlaces, Unplaced
  <2>2. cdr' \in [state : {"none", "live", "deleted"}, tokens : Nat, cost : Nat]
    <3>1. CostOf(p) \in Nat /\ Tokens[p] \in Nat BY Parts, CostsAreNat DEF IncrementCdr, Counters
    <3>2. cdr.tokens + Tokens[p] \in Nat /\ cdr.cost + CostOf(p) \in Nat BY <3>1 DEF Shapes
    <3> HIDE DEF CostOf
    <3>3. [cdr EXCEPT !.tokens = @ + Tokens[p], !.cost = @ + CostOf(p)]
            \in [state : {"none", "live", "deleted"}, tokens : Nat, cost : Nat]
      BY <3>2 DEF Shapes
    <3> QED BY <3>3 DEF Shapes, IncrementCdr
  <2> QED BY <1>0, <2>1, <2>2 DEF Shapes, IncrementCdr
<1>2. \A q \in Counters : Placed(q)'
  BY <1>0, Parts DEF Placed, IncrementCdr, Goto, TypeOf, Shapes, AnalysisPlaces, CounterPlaces, Unplaced
<1>3. \A g \in Hangups : Billing(g)' BY <1>0, Parts DEF Billing, IncrementCdr, Goto, Shapes, HangupPlaces
<1>4. Unborn' BY <1>0, Parts DEF Unborn, IncrementCdr, Goto, Shapes, CdrLive
<1>5. Slots' BY <1>0, Parts, SlotsKept, RecordFacts DEF IncrementCdr, Goto, Shapes, Unplaced
<1>6. Rows' BY <1>0, Parts DEF Rows, IncrementCdr, Goto, Shapes, DeletionPlaces
<1> QED BY <1>1, <1>2, <1>3, <1>4, <1>5, <1>6

LEMMA BeginHangupBase ==
    ASSUME Base, NEW h \in Hangups, BeginHangup(h)
    PROVE  Base'
<1> USE DEF Base
<1>0. h \in Handlers BY Parts DEF Counters
<1>1. Shapes'
  <2>1. pc' \in [Handlers -> Labels]
    BY <1>0 DEF Shapes, BeginHangup, Goto, Labels, AnalysisPlaces, CounterPlaces, HangupPlaces, DeletionPlaces, Unplaced
  <2>2. bill' \in [Hangups -> Bill]
    <3>1. bill[h] \in Bill BY DEF Shapes
    <3>2. PICK b \in Bill : bill' = [bill EXCEPT ![h] = b] \/ bill' = bill
      <4>1. [bill[h] EXCEPT !.loaded = cdr.cost] \in Bill BY <3>1 DEF Bill, Shapes
      <4> QED BY <3>1, <4>1 DEF BeginHangup
    <3> QED BY <3>2 DEF Shapes
  <2> QED BY <1>0, <2>1, <2>2 DEF Shapes, BeginHangup
<1>2. \A q \in Counters : Placed(q)'
  BY <1>0, Parts DEF Placed, BeginHangup, Goto, TypeOf, Shapes, AnalysisPlaces, CounterPlaces, Unplaced
<1>3. \A g \in Hangups : Billing(g)'
  <2>1. ASSUME NEW g \in Hangups, g # h PROVE Billing(g)'
    <3>1. bill'[g] = bill[g] /\ pc'[g] = pc[g] BY <1>0, <2>1, Parts DEF BeginHangup, Goto, Shapes
    <3>2. price' = price /\ records' = records BY DEF BeginHangup
    <3> QED BY <3>1, <3>2 DEF Billing
  <2>2. Billing(h)'
    <3>1. bill[h] \in Bill /\ Billing(h) /\ pc[h] = "idle" /\ pc'[h] \in {"found", "stopped"}
      BY <1>0 DEF BeginHangup, Goto, Shapes
    <3>2. price' = price /\ records' = records BY DEF BeginHangup
    <3>3. bill'[h] = [bill[h] EXCEPT !.loaded = cdr.cost] \/ bill'[h] = bill[h] BY DEF BeginHangup, Shapes
    <3> QED BY <3>1, <3>2, <3>3 DEF Billing, HangupPlaces, NewBill
  <2> QED BY <2>1, <2>2
<1>4. Unborn' BY <1>0, Parts DEF Unborn, BeginHangup, Goto, Shapes, CdrLive
<1>5. Slots' BY <1>0, Parts, SlotsKept, RecordFacts DEF BeginHangup, Goto, Shapes, Unplaced
<1>6. Rows'
  <2>1. \A row \in ledger' : row.by \in Hangups => pc'[row.by] \in {"closing", "done", "stopped"}
    BY <1>0, Parts DEF Rows, BeginHangup, Goto, Shapes
  <2>2. \A row, other \in ledger' :
          row.dir = "debit" /\ other.dir = "debit" /\ row.key = other.key => row = other
    BY DEF Rows, BeginHangup
  <2>3. \A i \in DOMAIN records' : records'[i].gone => cdr'.state = "deleted" BY DEF Rows, BeginHangup
  <2>4. \A q \in Handlers \ Deletions : pc'[q] = "stopped" => q \in faulty'
    BY <1>0, Parts DEF Rows, BeginHangup, Goto, Shapes
  <2>5. \A d \in Deletions : pc'[d] \in DeletionPlaces
    BY <1>0, Parts DEF Rows, BeginHangup, Goto, Shapes, DeletionPlaces
  <2> QED BY <2>1, <2>2, <2>3, <2>4, <2>5 DEF Rows
<1> QED BY <1>1, <1>2, <1>3, <1>4, <1>5, <1>6

LEMMA BeginFinalizeBase ==
    ASSUME Base, NEW h \in Hangups, BeginFinalize(h)
    PROVE  Base'
<1> USE DEF Base
<1>0. h \in Handlers BY Parts DEF Counters
<1>1. Shapes'
  <2>1. pc' \in [Handlers -> Labels]
    BY <1>0 DEF Shapes, BeginFinalize, Goto, Labels, AnalysisPlaces, CounterPlaces, HangupPlaces, DeletionPlaces, Unplaced
  <2>2. bill' \in [Hangups -> Bill]
    <3>1. bill[h] \in Bill BY DEF Shapes
    <3>2. PICK b \in Bill : bill' = [bill EXCEPT ![h] = b] \/ bill' = bill
      <4>1. SumFunctionOnSet(Counted, UNION {Found(type) : type \in CallTypes}) \in Nat
        <5>1. UNION {Found(type) : type \in CallTypes} \subseteq DOMAIN records BY DEF Found
        <5> QED BY <5>1, SumsAreNat
      <4>2. [bill[h] EXCEPT !.reloaded = cdr.cost,
               !.due = SumFunctionOnSet(Counted, UNION {Found(type) : type \in CallTypes})] \in Bill
        BY <3>1, <4>1 DEF Bill, Shapes
      <4>3. bill' = bill \/ bill' = [bill EXCEPT ![h] = [bill[h] EXCEPT !.reloaded = cdr.cost,
               !.due = SumFunctionOnSet(Counted, UNION {Found(type) : type \in CallTypes})]]
        BY <3>1 DEF BeginFinalize, Shapes
      <4> QED BY <3>1, <4>2, <4>3
    <3> QED BY <3>2 DEF Shapes
  <2> QED BY <1>0, <2>1, <2>2 DEF Shapes, BeginFinalize
<1>2. \A q \in Counters : Placed(q)'
  BY <1>0, Parts DEF Placed, BeginFinalize, Goto, TypeOf, Shapes, AnalysisPlaces, CounterPlaces, Unplaced
<1>3. \A g \in Hangups : Billing(g)'
  <2>1. ASSUME NEW g \in Hangups, g # h PROVE Billing(g)'
    <3>1. bill'[g] = bill[g] /\ pc'[g] = pc[g] BY <1>0, <2>1, Parts DEF BeginFinalize, Goto, Shapes
    <3>2. price' = price /\ records' = records BY DEF BeginFinalize
    <3> QED BY <3>1, <3>2 DEF Billing
  <2>2. Billing(h)'
    <3>1. bill[h] \in Bill /\ Billing(h) /\ pc[h] = "found" /\ pc'[h] \in {"reading", "closing"}
      BY <1>0 DEF BeginFinalize, Goto, Shapes
    <3>2. price' = price /\ records' = records BY DEF BeginFinalize
    <3> DEFINE due == SumFunctionOnSet(Counted, UNION {Found(type) : type \in CallTypes})
    <3>3. bill'[h] = [bill[h] EXCEPT !.reloaded = cdr.cost, !.due = due] \/ bill'[h] = bill[h]
      BY DEF BeginFinalize, Shapes
    <3> HIDE DEF due
    <3>4. bill'[h].rec = bill[h].rec BY <3>1, <3>3 DEF Bill
    <3>5. pc'[h] = "reading" => price # NoPrice BY <1>0 DEF BeginFinalize, Goto, Shapes
    <3> QED BY <3>1, <3>2, <3>4, <3>5 DEF Billing, HangupPlaces
  <2> QED BY <2>1, <2>2
<1>4. Unborn' BY <1>0, Parts DEF Unborn, BeginFinalize, Goto, Shapes, CdrLive
<1>5. Slots' BY <1>0, Parts, SlotsKept, RecordFacts DEF BeginFinalize, Goto, Shapes, Unplaced
<1>6. Rows'
  <2>1. \A row \in ledger' : row.by \in Hangups => pc'[row.by] \in {"closing", "done", "stopped"}
    BY <1>0, Parts DEF Rows, BeginFinalize, Goto, Shapes
  <2>2. \A row, other \in ledger' :
          row.dir = "debit" /\ other.dir = "debit" /\ row.key = other.key => row = other
    BY DEF Rows, BeginFinalize
  <2>3. \A i \in DOMAIN records' : records'[i].gone => cdr'.state = "deleted" BY DEF Rows, BeginFinalize
  <2>4. \A q \in Handlers \ Deletions : pc'[q] = "stopped" => q \in faulty'
    BY <1>0, Parts DEF Rows, BeginFinalize, Goto, Shapes
  <2>5. \A d \in Deletions : pc'[d] \in DeletionPlaces
    BY <1>0, Parts DEF Rows, BeginFinalize, Goto, Shapes, DeletionPlaces
  <2> QED BY <2>1, <2>2, <2>3, <2>4, <2>5 DEF Rows
<1> QED BY <1>1, <1>2, <1>3, <1>4, <1>5, <1>6

LEMMA ReadRecordBase ==
    ASSUME Base, NEW h \in Hangups, ReadRecord(h)
    PROVE  Base'
<1> USE DEF Base
<1>0. h \in Handlers BY Parts DEF Counters
<1>1. Shapes'
  <2>1. pc' \in [Handlers -> Labels]
    BY <1>0 DEF Shapes, ReadRecord, Goto, Labels, AnalysisPlaces, CounterPlaces, HangupPlaces, DeletionPlaces, Unplaced
  <2>2. bill' \in [Hangups -> Bill]
    <3>1. bill[h] \in Bill BY DEF Shapes
    <3>2. PICK b \in Bill : bill' = [bill EXCEPT ![h] = b] \/ bill' = bill
      <4> DEFINE type == RecordTypes[bill[h].stage]
      <4>1. bill[h].stage \in 1 .. 2
        <5>1. bill[h].stage \in 1 .. 3 BY <3>1 DEF Bill
        <5>2. bill[h].stage # 3
          <6>1. RecordTypes[3] = "analytic" BY DEF RecordTypes
          <6>2. RecordTypes[bill[h].stage] # "analytic" BY DEF ReadRecord
          <6> QED BY <6>1, <6>2
        <5> QED BY <5>1, <5>2
      <4>2. ASSUME NEW i \in Found(type)
            PROVE  [bill[h] EXCEPT !.rec = i, !.cost = records[i].cost, !.tokens = records[i].tokens,
                                   !.usage = @ + price * records[i].tokens] \in Bill
        <5>1. records[i].cost \in Nat /\ records[i].tokens \in Nat /\ i \in Nat BY RecordFacts DEF Found, Record
        <5>2. price * records[i].tokens \in Nat BY <5>1, Parts, Products DEF Shapes, Billing, ReadRecord
        <5>3. bill[h].usage + price * records[i].tokens \in Nat BY <3>1, <5>2 DEF Bill
        <5> QED BY <3>1, <5>1, <5>3 DEF Bill
      <4>3. [bill[h] EXCEPT !.stage = @ + 1] \in Bill BY <3>1, <4>1 DEF Bill
      <4>4. \/ \E i \in Found(type) :
                 bill' = [bill EXCEPT ![h] = [bill[h] EXCEPT !.rec = i, !.cost = records[i].cost,
                            !.tokens = records[i].tokens, !.usage = @ + price * records[i].tokens]]
            \/ bill' = [bill EXCEPT ![h] = [bill[h] EXCEPT !.stage = @ + 1]]
        BY <3>1 DEF ReadRecord
      <4> QED BY <4>2, <4>3, <4>4
    <3> QED BY <3>2 DEF Shapes
  <2> QED BY <1>0, <2>1, <2>2 DEF Shapes, ReadRecord
<1>2. \A q \in Counters : Placed(q)'
  BY <1>0, Parts DEF Placed, ReadRecord, Goto, TypeOf, Shapes, AnalysisPlaces, CounterPlaces, Unplaced
<1>3. \A g \in Hangups : Billing(g)'
  <2>1. ASSUME NEW g \in Hangups, g # h PROVE Billing(g)'
    <3>1. bill'[g] = bill[g] /\ pc'[g] = pc[g] BY <1>0, <2>1, Parts DEF ReadRecord, Goto, Shapes
    <3>2. price' = price /\ records' = records BY DEF ReadRecord
    <3> QED BY <3>1, <3>2 DEF Billing
  <2>2. Billing(h)'
    <3>1. bill[h] \in Bill /\ Billing(h) /\ pc[h] = "reading" /\ pc'[h] \in {"reading", "saving"}
      BY <1>0 DEF ReadRecord, Goto, Shapes
    <3>2. price' = price /\ records' = records BY DEF ReadRecord
    <3> DEFINE type == RecordTypes[bill[h].stage]
    <3>3. \/ \E i \in Found(type) :
                 /\ bill'[h] = [bill[h] EXCEPT !.rec = i, !.cost = records[i].cost,
                            !.tokens = records[i].tokens, !.usage = @ + price * records[i].tokens]
                 /\ pc'[h] = "saving"
          \/ bill'[h] = [bill[h] EXCEPT !.stage = @ + 1] /\ pc'[h] = "reading"
      BY <1>0 DEF ReadRecord, Goto, Shapes
    <3>4. bill[h].stage \in 1 .. 3 /\ bill[h].stage # 3
      <4>1. RecordTypes[3] = "analytic" BY DEF RecordTypes
      <4>2. RecordTypes[bill[h].stage] # "analytic" BY DEF ReadRecord
      <4> QED BY <3>1, <4>1, <4>2 DEF Bill
    <3>5. \A i \in Found(type) : i > 0 /\ i <= Len(records) /\ records[i].type = type BY RecordFacts DEF Found
    <3> HIDE DEF type
    <3>6. CASE bill'[h] = [bill[h] EXCEPT !.stage = @ + 1] /\ pc'[h] = "reading"
      <4>1. bill'[h].rec = bill[h].rec BY <3>1, <3>6 DEF Bill
      <4> QED BY <3>1, <3>2, <3>6, <4>1 DEF Billing, HangupPlaces
    <3>7. ASSUME NEW i \in Found(type), pc'[h] = "saving",
                 bill'[h] = [bill[h] EXCEPT !.rec = i, !.cost = records[i].cost,
                            !.tokens = records[i].tokens, !.usage = @ + price * records[i].tokens]
          PROVE  Billing(h)'
      <4>1. bill'[h].rec = i /\ bill'[h].stage = bill[h].stage BY <3>1, <3>7 DEF Bill
      <4>2. i > 0 /\ i <= Len(records) /\ records[i].type = RecordTypes[bill[h].stage] BY <3>5, <3>7 DEF type
      <4>3. bill[h].stage < 3 BY <3>4
      <4> QED BY <3>1, <3>2, <3>7, <4>1, <4>2, <4>3 DEF Billing, HangupPlaces
    <3> QED BY <3>3, <3>6, <3>7
  <2> QED BY <2>1, <2>2
<1>4. Unborn' BY <1>0, Parts DEF Unborn, ReadRecord, Goto, Shapes, CdrLive
<1>5. Slots' BY <1>0, Parts, SlotsKept, RecordFacts DEF ReadRecord, Goto, Shapes, Unplaced
<1>6. Rows' BY <1>0, Parts DEF Rows, ReadRecord, Goto, Shapes, DeletionPlaces
<1> QED BY <1>1, <1>2, <1>3, <1>4, <1>5, <1>6

LEMMA SaveCostBase ==
    ASSUME Base, NEW h \in Hangups, SaveCost(h)
    PROVE  Base'
<1> USE DEF Base
<1>0. h \in Handlers BY Parts DEF Counters
<1>1. Shapes'
  <2>1. pc' \in [Handlers -> Labels]
    BY <1>0 DEF Shapes, SaveCost, Goto, Labels, AnalysisPlaces, CounterPlaces, HangupPlaces, DeletionPlaces, Unplaced
  <2> DEFINE b == bill[h]
  <2>2. bill[h] \in Bill /\ b.rec \in DOMAIN records /\ b.stage \in 1 .. 2
    <3>1. bill[h] \in Bill /\ Billing(h) /\ pc[h] = "saving" BY DEF SaveCost, Shapes
    <3> QED BY <3>1, RecordFacts DEF Billing, Bill
  <2>3. bill' \in [Hangups -> Bill]
    <3>1. [bill[h] EXCEPT !.stage = @ + 1, !.rec = 0, !.tokens = 0, !.cost = 0] \in Bill
      <4>1. bill[h].stage + 1 \in 1 .. 3 BY <2>2
      <4> QED BY <2>2, <4>1 DEF Bill
    <3> QED BY <3>1 DEF SaveCost, Shapes
  <2>4. records' \in Seq(Record)
    <3>1. records[b.rec] \in Record /\ price * b.tokens \in Nat
      BY <2>2, Parts, RecordFacts, Products DEF SaveCost, Billing, Shapes, Bill
    <3>2. Saved(records[b.rec].cost, b.cost, price * b.tokens) \in Nat BY <3>1 DEF Saved, Record
    <3>3. [records[b.rec] EXCEPT !.cost = Saved(@, b.cost, price * b.tokens)] \in Record BY <3>1, <3>2 DEF Record
    <3>4. PICK r \in Record : records' = records \/ records' = [records EXCEPT ![b.rec] = r]
      <4>1. \/ records' = records
            \/ records' = [records EXCEPT ![b.rec] =
                             [records[b.rec] EXCEPT !.cost = Saved(@, b.cost, price * b.tokens)]]
        BY <2>2 DEF SaveCost
      <4> QED BY <3>1, <3>3, <4>1
    <3> QED BY <2>2, <3>4 DEF Shapes
  <2> QED BY <1>0, <2>1, <2>2, <2>3, <2>4 DEF Shapes, SaveCost
<1>2. \A q \in Counters : Placed(q)'
  BY <1>0, Parts DEF Placed, SaveCost, Goto, TypeOf, Shapes, AnalysisPlaces, CounterPlaces, Unplaced
<1>3. \A g \in Hangups : Billing(g)'
  <2>0. Len(records') = Len(records) /\ \A i \in DOMAIN records : records'[i].type = records[i].type BY RecordSaved
  <2>1. ASSUME NEW g \in Hangups, g # h PROVE Billing(g)'
    <3>1. bill'[g] = bill[g] /\ pc'[g] = pc[g] /\ price' = price /\ bill[g].rec \in Nat
      BY <1>0, <2>1, Parts DEF SaveCost, Goto, Shapes, Bill
    <3>2. Billing(g) OBVIOUS
    <3>3. pc[g] = "saving" => records'[bill[g].rec].type = records[bill[g].rec].type
      BY <2>0, <3>1, <3>2, RecordFacts DEF Billing
    <3> QED BY <2>0, <3>1, <3>2, <3>3 DEF Billing
  <2>2. Billing(h)'
    <3>1. bill[h] \in Bill /\ Billing(h) /\ pc[h] = "saving" /\ pc'[h] = "reading"
      BY <1>0 DEF SaveCost, Goto, Shapes
    <3>2. price' = price BY DEF SaveCost
    <3>3. bill'[h] = [bill[h] EXCEPT !.stage = @ + 1, !.rec = 0, !.tokens = 0, !.cost = 0] BY DEF SaveCost, Shapes
    <3>4. bill'[h].rec = 0 /\ Len(records) \in Nat BY <3>1, <3>3, RecordFacts DEF Bill
    <3> QED BY <2>0, <3>1, <3>2, <3>4 DEF Billing, HangupPlaces
  <2> QED BY <2>1, <2>2
<1>4. Unborn' BY <1>0, Parts DEF Unborn, SaveCost, Goto, Shapes, CdrLive
<1>5. Slots' BY <1>0, Parts, SlotsKept, RecordFacts DEF SaveCost, Goto, Shapes, Unplaced
<1>6. Rows' BY <1>0, Parts DEF Rows, SaveCost, Goto, Shapes, DeletionPlaces
<1> QED BY <1>1, <1>2, <1>3, <1>4, <1>5, <1>6

LEMMA ReadAnalyticBase ==
    ASSUME Base, NEW h \in Hangups, ReadAnalytic(h)
    PROVE  Base'
<1> USE DEF Base
<1>0. h \in Handlers BY Parts DEF Counters
<1>1. Shapes'
  <2>1. pc' \in [Handlers -> Labels]
    BY <1>0 DEF Shapes, ReadAnalytic, Goto, Labels, AnalysisPlaces, CounterPlaces, HangupPlaces, DeletionPlaces, Unplaced
  <2>2. bill' \in [Hangups -> Bill]
    <3>1. bill[h] \in Bill BY DEF Shapes
    <3>2. PICK b \in Bill : bill' = [bill EXCEPT ![h] = b] \/ bill' = bill
      <4>1. ASSUME NEW c \in Nat PROVE [bill[h] EXCEPT !.total = bill[h].usage + c] \in Bill BY <3>1 DEF Bill
      <4>2. [bill[h] EXCEPT !.total = bill[h].usage] \in Bill BY <3>1 DEF Bill
      <4>3. \A i \in Found("analytic") : records[i].cost \in Nat BY RecordFacts DEF Found, Record
      <4> QED BY <3>1, <4>1, <4>2, <4>3 DEF ReadAnalytic
    <3> QED BY <3>2 DEF Shapes
  <2> QED BY <1>0, <2>1, <2>2 DEF Shapes, ReadAnalytic
<1>2. \A q \in Counters : Placed(q)'
  BY <1>0, Parts DEF Placed, ReadAnalytic, Goto, TypeOf, Shapes, AnalysisPlaces, CounterPlaces, Unplaced
<1>3. \A g \in Hangups : Billing(g)'
  <2>1. ASSUME NEW g \in Hangups, g # h PROVE Billing(g)'
    <3>1. bill'[g] = bill[g] /\ pc'[g] = pc[g] BY <1>0, <2>1, Parts DEF ReadAnalytic, Goto, Shapes
    <3>2. price' = price /\ records' = records BY DEF ReadAnalytic
    <3> QED BY <3>1, <3>2 DEF Billing
  <2>2. Billing(h)'
    <3>1. bill[h] \in Bill /\ Billing(h) /\ pc[h] = "reading" /\ pc'[h] \in {"totalled"}
      BY <1>0 DEF ReadAnalytic, Goto, Shapes
    <3>2. price' = price /\ records' = records BY DEF ReadAnalytic
    <3>3. \/ \E i \in Found("analytic") : bill'[h] = [bill[h] EXCEPT !.total = bill[h].usage + records[i].cost]
          \/ bill'[h] = [bill[h] EXCEPT !.total = bill[h].usage]
      BY DEF ReadAnalytic, Shapes
    <3>4. bill'[h].rec = bill[h].rec /\ bill'[h].stage = bill[h].stage BY <3>1, <3>3 DEF Bill
    <3>5. bill[h].stage = 3 BY <3>1 DEF ReadAnalytic, RecordTypes, Bill
    <3> QED BY <3>1, <3>2, <3>4, <3>5 DEF Billing, HangupPlaces
  <2> QED BY <2>1, <2>2
<1>4. Unborn' BY <1>0, Parts DEF Unborn, ReadAnalytic, Goto, Shapes, CdrLive
<1>5. Slots' BY <1>0, Parts, SlotsKept, RecordFacts DEF ReadAnalytic, Goto, Shapes, Unplaced
<1>6. Rows' BY <1>0, Parts DEF Rows, ReadAnalytic, Goto, Shapes, DeletionPlaces
<1> QED BY <1>1, <1>2, <1>3, <1>4, <1>5, <1>6

LEMMA UpdateCdrBase ==
    ASSUME Base, NEW h \in Hangups, UpdateCdr(h)
    PROVE  Base'
<1> USE DEF Base
<1>0. h \in Handlers BY Parts DEF Counters
<1>1. Shapes'
  <2>1. pc' \in [Handlers -> Labels]
    BY <1>0 DEF Shapes, UpdateCdr, Goto, Labels, AnalysisPlaces, CounterPlaces, HangupPlaces, DeletionPlaces, Unplaced
  <2>2. cdr' \in [state : {"none", "live", "deleted"}, tokens : Nat, cost : Nat]
    BY DEF Shapes, UpdateCdr, Bill, Saved
  <2> QED BY <1>0, <2>1, <2>2 DEF Shapes, UpdateCdr
<1>2. \A q \in Counters : Placed(q)'
  BY <1>0, Parts DEF Placed, UpdateCdr, Goto, TypeOf, Shapes, AnalysisPlaces, CounterPlaces, Unplaced
<1>3. \A g \in Hangups : Billing(g)' BY <1>0, Parts DEF Billing, UpdateCdr, Goto, Shapes, HangupPlaces
<1>4. Unborn' BY <1>0, Parts DEF Unborn, UpdateCdr, Goto, Shapes, CdrLive
<1>5. Slots' BY <1>0, Parts, SlotsKept, RecordFacts DEF UpdateCdr, Goto, Shapes, Unplaced
<1>6. Rows' BY <1>0, Parts DEF Rows, UpdateCdr, Goto, Shapes, DeletionPlaces
<1> QED BY <1>1, <1>2, <1>3, <1>4, <1>5, <1>6

LEMMA DebitUsageBase ==
    ASSUME Base, NEW h \in Hangups, DebitUsage(h)
    PROVE  Base'
<1> USE DEF Base
<1>0. h \in Handlers BY Parts DEF Counters
<1>1. Shapes'
  <2>1. pc' \in [Handlers -> Labels]
    BY <1>0 DEF Shapes, DebitUsage, Goto, Labels, AnalysisPlaces, CounterPlaces, HangupPlaces, DeletionPlaces, Unplaced
  <2>2. IsFiniteSet(ledger') /\ \A row \in ledger' : row \in UsageRows \/ row \in AnalysisRows \/ row \in RefundRows
    <3>1. CASE bill[h].usage > 0
      <4> DEFINE row == [key |-> <<"usage_rt">>, dir |-> "debit", usd |-> bill[h].usage, by |-> h]
      <4>1. row \in UsageRows \cup AnalysisRows BY <3>1 DEF UsageRows, UsageKey, Shapes, Bill
      <4>2. Charge(h, <<"usage_rt">>, bill[h].usage) BY <3>1 DEF DebitUsage
      <4>3. IsFiniteSet(ledger') /\ (ledger' = ledger \/ ledger' = ledger \cup {row}) BY <1>0, <4>2, Charges
      <4> QED BY <4>1, <4>3 DEF Shapes
    <3>2. CASE ~(bill[h].usage > 0) BY <3>2 DEF DebitUsage, Shapes
    <3> QED BY <3>1, <3>2
  <2> QED BY <1>0, <2>1, <2>2 DEF Shapes, DebitUsage
<1>2. \A q \in Counters : Placed(q)'
  BY <1>0, Parts DEF Placed, DebitUsage, Goto, TypeOf, Shapes, AnalysisPlaces, CounterPlaces, Unplaced
<1>3. \A g \in Hangups : Billing(g)' BY <1>0, Parts DEF Billing, DebitUsage, Goto, Shapes, HangupPlaces
<1>4. Unborn' BY <1>0, Parts DEF Unborn, DebitUsage, Goto, Shapes, CdrLive
<1>5. Slots' BY <1>0, Parts, SlotsKept, RecordFacts DEF DebitUsage, Goto, Shapes, Unplaced
<1>6. Rows'
  <2>0. \/ ledger' = ledger
        \/ \E row : /\ ledger' = ledger \cup {row} /\ row.by = h
                    /\ \A other \in ledger : other.key # row.key
    <3>1. CASE bill[h].usage > 0
      <4> DEFINE row == [key |-> <<"usage_rt">>, dir |-> "debit", usd |-> bill[h].usage, by |-> h]
      <4>1. Charge(h, <<"usage_rt">>, bill[h].usage) BY <3>1 DEF DebitUsage
      <4>2. ledger' = ledger \/ (ledger' = ledger \cup {row} /\ \A other \in ledger : other.key # <<"usage_rt">>)
        BY <1>0, <4>1, Charges
      <4>3. row.by = h /\ row.key = <<"usage_rt">> OBVIOUS
      <4> HIDE DEF row
      <4> QED BY <4>2, <4>3
    <3> QED BY <3>1 DEF DebitUsage
  <2>1. \A row \in ledger' : row.by \in Hangups => pc'[row.by] \in {"closing", "done", "stopped"}
    <3>1. \A row \in ledger : row.by \in Hangups => pc'[row.by] \in {"closing", "done", "stopped"}
      BY <1>0, Parts DEF Rows, DebitUsage, Goto, Shapes
    <3>2. pc'[h] \in {"closing", "storing"} /\ (h \in Hangups => pc'[h] = "closing")
      BY <1>0, Parts DEF DebitUsage, Goto, Shapes
    <3> QED BY <2>0, <3>1, <3>2
  <2>2. \A row, other \in ledger' :
          row.dir = "debit" /\ other.dir = "debit" /\ row.key = other.key => row = other
    BY <2>0 DEF Rows
  <2>3. \A i \in DOMAIN records' : records'[i].gone => cdr'.state = "deleted" BY DEF Rows, DebitUsage
  <2>4. \A q \in Handlers \ Deletions : pc'[q] = "stopped" => q \in faulty'
    BY <1>0, Parts DEF Rows, DebitUsage, Goto, Shapes
  <2>5. \A d \in Deletions : pc'[d] \in DeletionPlaces
    BY <1>0, Parts DEF Rows, DebitUsage, Goto, Shapes, DeletionPlaces
  <2> QED BY <2>1, <2>2, <2>3, <2>4, <2>5 DEF Rows
<1> QED BY <1>1, <1>2, <1>3, <1>4, <1>5, <1>6

LEMMA FinalizeFailsBase ==
    ASSUME Base, NEW h \in Hangups, FinalizeFails(h)
    PROVE  Base'
<1> USE DEF Base
<1>0. h \in Handlers BY Parts DEF Counters
<1>1. Shapes'
  BY <1>0, Parts DEF Shapes, FinalizeFails, Goto, Labels, AnalysisPlaces, CounterPlaces, HangupPlaces, DeletionPlaces, Unplaced
<1>2. \A q \in Counters : Placed(q)'
  BY <1>0, Parts DEF Placed, FinalizeFails, Goto, TypeOf, Shapes, AnalysisPlaces, CounterPlaces, Unplaced
<1>3. \A g \in Hangups : Billing(g)' BY <1>0, Parts DEF Billing, FinalizeFails, Goto, Shapes, HangupPlaces
<1>4. Unborn' BY <1>0, Parts DEF Unborn, FinalizeFails, Goto, Shapes, CdrLive
<1>5. Slots' BY <1>0, Parts, SlotsKept, RecordFacts DEF FinalizeFails, Goto, Shapes, Unplaced
<1>6. Rows' BY <1>0, Parts DEF Rows, FinalizeFails, Goto, Shapes, DeletionPlaces
<1> QED BY <1>1, <1>2, <1>3, <1>4, <1>5, <1>6

LEMMA CloseCdrBase ==
    ASSUME Base, NEW h \in Hangups, CloseCdr(h)
    PROVE  Base'
<1> USE DEF Base
<1>0. h \in Handlers BY Parts DEF Counters
<1>1. Shapes'
  <2>1. pc' \in [Handlers -> Labels]
    BY <1>0 DEF Shapes, CloseCdr, Goto, Labels, AnalysisPlaces, CounterPlaces, HangupPlaces, DeletionPlaces, Unplaced
  <2>2. cdr' \in [state : {"none", "live", "deleted"}, tokens : Nat, cost : Nat]
    BY DEF Shapes, CloseCdr, Bill, Saved
  <2>3. bill' \in [Hangups -> Bill]
    <3>1. [NewBill EXCEPT !.due = bill[h].due] \in Bill BY DEF Shapes, Bill, NewBill
    <3> QED BY <3>1 DEF CloseCdr, Shapes
  <2> QED BY <1>0, <2>1, <2>2, <2>3 DEF Shapes, CloseCdr
<1>2. \A q \in Counters : Placed(q)'
  BY <1>0, Parts DEF Placed, CloseCdr, Goto, TypeOf, Shapes, AnalysisPlaces, CounterPlaces, Unplaced
<1>3. \A g \in Hangups : Billing(g)'
  <2>1. ASSUME NEW g \in Hangups, g # h PROVE Billing(g)'
    <3>1. bill'[g] = bill[g] /\ pc'[g] = pc[g] BY <1>0, <2>1, Parts DEF CloseCdr, Goto, Shapes
    <3>2. price' = price /\ records' = records BY DEF CloseCdr
    <3> QED BY <3>1, <3>2 DEF Billing
  <2>2. Billing(h)'
    <3>1. bill[h] \in Bill /\ Billing(h) /\ pc[h] = "closing" /\ pc'[h] \in {"done"}
      BY <1>0 DEF CloseCdr, Goto, Shapes
    <3>2. price' = price /\ records' = records BY DEF CloseCdr
    <3>3. bill'[h] = [NewBill EXCEPT !.due = bill[h].due] BY DEF CloseCdr, Shapes
    <3>4. bill'[h].rec = 0 BY <3>3 DEF NewBill
    <3>5. Len(records) \in Nat BY RecordFacts
    <3> QED BY <3>1, <3>2, <3>4, <3>5 DEF Billing, HangupPlaces
  <2> QED BY <2>1, <2>2
<1>4. Unborn' BY <1>0, Parts DEF Unborn, CloseCdr, Goto, Shapes, CdrLive
<1>5. Slots' BY <1>0, Parts, SlotsKept, RecordFacts DEF CloseCdr, Goto, Shapes, Unplaced
<1>6. Rows' BY <1>0, Parts DEF Rows, CloseCdr, Goto, Shapes, DeletionPlaces
<1> QED BY <1>1, <1>2, <1>3, <1>4, <1>5, <1>6

LEMMA AnalyseBase ==
    ASSUME Base, NEW a \in Analyses, Analyse(a)
    PROVE  Base'
<1> USE DEF Base
<1>0. a \in Handlers BY Parts DEF Counters
<1>1. Shapes'
  BY <1>0, Parts DEF Shapes, Analyse, Goto, Labels, AnalysisPlaces, CounterPlaces, HangupPlaces, DeletionPlaces, Unplaced
<1>2. \A q \in Counters : Placed(q)'
  BY <1>0, Parts DEF Placed, Analyse, Goto, TypeOf, Shapes, AnalysisPlaces, CounterPlaces, Unplaced
<1>3. \A g \in Hangups : Billing(g)' BY <1>0, Parts DEF Billing, Analyse, Goto, Shapes, HangupPlaces
<1>4. Unborn' BY <1>0, Parts DEF Unborn, Analyse, Goto, Shapes, CdrLive
<1>5. Slots' BY <1>0, Parts, SlotsKept, RecordFacts DEF Analyse, Goto, Shapes, Unplaced
<1>6. Rows' BY <1>0, Parts DEF Rows, Analyse, Goto, Shapes, DeletionPlaces
<1> QED BY <1>1, <1>2, <1>3, <1>4, <1>5, <1>6

LEMMA DebitAnalysisBase ==
    ASSUME Base, NEW a \in Analyses, DebitAnalysis(a)
    PROVE  Base'
<1> USE DEF Base
<1>0. a \in Handlers BY Parts DEF Counters
<1>1. Shapes'
  <2>1. pc' \in [Handlers -> Labels]
    BY <1>0 DEF Shapes, DebitAnalysis, Goto, Labels, AnalysisPlaces, CounterPlaces, HangupPlaces, DeletionPlaces, Unplaced
  <2>2. IsFiniteSet(ledger') /\ \A row \in ledger' : row \in UsageRows \/ row \in AnalysisRows \/ row \in RefundRows
    <3>1. CASE CostOf(a) > 0
      <4> DEFINE row == [key |-> <<"usage_an", at[a]>>, dir |-> "debit", usd |-> CostOf(a), by |-> a]
      <4>1. row \in UsageRows \cup AnalysisRows
        <5>1. CostOf(a) \in Nat /\ at[a] \in Nat BY CostsAreNat DEF DebitAnalysis, Shapes, Counters
        <5> QED BY <3>1, <5>1 DEF AnalysisRows
      <4>2. Charge(a, <<"usage_an", at[a]>>, CostOf(a)) BY <3>1 DEF DebitAnalysis
      <4>3. IsFiniteSet(ledger') /\ (ledger' = ledger \/ ledger' = ledger \cup {row}) BY <1>0, <4>2, Charges
      <4> QED BY <4>1, <4>3 DEF Shapes
    <3>2. CASE ~(CostOf(a) > 0) BY <3>2 DEF DebitAnalysis, Shapes
    <3> QED BY <3>1, <3>2
  <2> QED BY <1>0, <2>1, <2>2 DEF Shapes, DebitAnalysis
<1>2. \A q \in Counters : Placed(q)'
  BY <1>0, Parts DEF Placed, DebitAnalysis, Goto, TypeOf, Shapes, AnalysisPlaces, CounterPlaces, Unplaced
<1>3. \A g \in Hangups : Billing(g)' BY <1>0, Parts DEF Billing, DebitAnalysis, Goto, Shapes, HangupPlaces
<1>4. Unborn' BY <1>0, Parts DEF Unborn, DebitAnalysis, Goto, Shapes, CdrLive
<1>5. Slots' BY <1>0, Parts, SlotsKept, RecordFacts DEF DebitAnalysis, Goto, Shapes, Unplaced
<1>6. Rows'
  <2>0. \/ ledger' = ledger
        \/ \E row : /\ ledger' = ledger \cup {row} /\ row.by = a
                    /\ \A other \in ledger : other.key # row.key
    <3>1. CASE CostOf(a) > 0
      <4> DEFINE row == [key |-> <<"usage_an", at[a]>>, dir |-> "debit", usd |-> CostOf(a), by |-> a]
      <4>1. Charge(a, <<"usage_an", at[a]>>, CostOf(a)) BY <3>1 DEF DebitAnalysis
      <4>2. ledger' = ledger \/ (ledger' = ledger \cup {row} /\ \A other \in ledger : other.key # <<"usage_an", at[a]>>)
        BY <1>0, <4>1, Charges
      <4>3. row.by = a /\ row.key = <<"usage_an", at[a]>> OBVIOUS
      <4> HIDE DEF row
      <4> QED BY <4>2, <4>3
    <3> QED BY <3>1 DEF DebitAnalysis
  <2>1. \A row \in ledger' : row.by \in Hangups => pc'[row.by] \in {"closing", "done", "stopped"}
    <3>1. \A row \in ledger : row.by \in Hangups => pc'[row.by] \in {"closing", "done", "stopped"}
      BY <1>0, Parts DEF Rows, DebitAnalysis, Goto, Shapes
    <3>2. pc'[a] \in {"closing", "storing"} /\ (a \in Hangups => pc'[a] = "closing")
      BY <1>0, Parts DEF DebitAnalysis, Goto, Shapes
    <3> QED BY <2>0, <3>1, <3>2
  <2>2. \A row, other \in ledger' :
          row.dir = "debit" /\ other.dir = "debit" /\ row.key = other.key => row = other
    BY <2>0 DEF Rows
  <2>3. \A i \in DOMAIN records' : records'[i].gone => cdr'.state = "deleted" BY DEF Rows, DebitAnalysis
  <2>4. \A q \in Handlers \ Deletions : pc'[q] = "stopped" => q \in faulty'
    BY <1>0, Parts DEF Rows, DebitAnalysis, Goto, Shapes
  <2>5. \A d \in Deletions : pc'[d] \in DeletionPlaces
    BY <1>0, Parts DEF Rows, DebitAnalysis, Goto, Shapes, DeletionPlaces
  <2> QED BY <2>1, <2>2, <2>3, <2>4, <2>5 DEF Rows
<1> QED BY <1>1, <1>2, <1>3, <1>4, <1>5, <1>6

LEMMA ChargeFailsBase ==
    ASSUME Base, NEW a \in Analyses, ChargeFails(a)
    PROVE  Base'
<1> USE DEF Base
<1>0. a \in Handlers BY Parts DEF Counters
<1>1. Shapes'
  BY <1>0, Parts DEF Shapes, ChargeFails, Goto, Labels, AnalysisPlaces, CounterPlaces, HangupPlaces, DeletionPlaces, Unplaced
<1>2. \A q \in Counters : Placed(q)'
  BY <1>0, Parts DEF Placed, ChargeFails, Goto, TypeOf, Shapes, AnalysisPlaces, CounterPlaces, Unplaced
<1>3. \A g \in Hangups : Billing(g)' BY <1>0, Parts DEF Billing, ChargeFails, Goto, Shapes, HangupPlaces
<1>4. Unborn' BY <1>0, Parts DEF Unborn, ChargeFails, Goto, Shapes, CdrLive
<1>5. Slots' BY <1>0, Parts, SlotsKept, RecordFacts DEF ChargeFails, Goto, Shapes, Unplaced
<1>6. Rows' BY <1>0, Parts DEF Rows, ChargeFails, Goto, Shapes, DeletionPlaces
<1> QED BY <1>1, <1>2, <1>3, <1>4, <1>5, <1>6

LEMMA StoreAnalysisBase ==
    ASSUME Base, NEW a \in Analyses, StoreAnalysis(a)
    PROVE  Base'
<1> USE DEF Base
<1>0. a \in Handlers BY Parts DEF Counters
<1>1. Shapes'
  BY <1>0, Parts DEF Shapes, StoreAnalysis, Goto, Labels, AnalysisPlaces, CounterPlaces, HangupPlaces, DeletionPlaces, Unplaced
<1>2. \A q \in Counters : Placed(q)'
  BY <1>0, Parts DEF Placed, StoreAnalysis, Goto, TypeOf, Shapes, AnalysisPlaces, CounterPlaces, Unplaced
<1>3. \A g \in Hangups : Billing(g)' BY <1>0, Parts DEF Billing, StoreAnalysis, Goto, Shapes, HangupPlaces
<1>4. Unborn' BY <1>0, Parts DEF Unborn, StoreAnalysis, Goto, Shapes, CdrLive
<1>5. Slots' BY <1>0, Parts, SlotsKept, RecordFacts DEF StoreAnalysis, Goto, Shapes, Unplaced
<1>6. Rows' BY <1>0, Parts DEF Rows, StoreAnalysis, Goto, Shapes, DeletionPlaces
<1> QED BY <1>1, <1>2, <1>3, <1>4, <1>5, <1>6

LEMMA FindReportBase ==
    ASSUME Base, NEW d \in Deletions, FindReport(d)
    PROVE  Base'
<1> USE DEF Base
<1>0. d \in Handlers BY Parts DEF Counters
<1>1. Shapes'
  <2>1. pc' \in [Handlers -> Labels]
    BY <1>0 DEF Shapes, FindReport, Goto, Labels, AnalysisPlaces, CounterPlaces, HangupPlaces, DeletionPlaces, Unplaced
  <2>2. claim' \in [Deletions -> Claim]
    <3>1. claim[d] \in Claim BY DEF Shapes
    <3>2. [claim[d] EXCEPT !.fallback = cdr.cost] \in Claim BY <3>1 DEF Claim, Shapes
    <3> QED BY <3>1, <3>2 DEF Shapes, FindReport
  <2> QED BY <1>0, <2>1, <2>2 DEF Shapes, FindReport
<1>2. \A q \in Counters : Placed(q)'
  BY <1>0, Parts DEF Placed, FindReport, Goto, TypeOf, Shapes, AnalysisPlaces, CounterPlaces, Unplaced
<1>3. \A g \in Hangups : Billing(g)' BY <1>0, Parts DEF Billing, FindReport, Goto, Shapes, HangupPlaces
<1>4. Unborn' BY <1>0, Parts DEF Unborn, FindReport, Goto, Shapes, CdrLive
<1>5. Slots' BY <1>0, Parts, SlotsKept, RecordFacts DEF FindReport, Goto, Shapes, Unplaced
<1>6. Rows' BY <1>0, Parts DEF Rows, FindReport, Goto, Shapes, DeletionPlaces
<1> QED BY <1>1, <1>2, <1>3, <1>4, <1>5, <1>6

LEMMA SumRecordsBase ==
    ASSUME Base, NEW d \in Deletions, SumRecords(d)
    PROVE  Base'
<1> USE DEF Base
<1>0. d \in Handlers BY Parts DEF Counters
<1>1. Shapes'
  <2>1. pc' \in [Handlers -> Labels]
    BY <1>0 DEF Shapes, SumRecords, Goto, Labels, AnalysisPlaces, CounterPlaces, HangupPlaces, DeletionPlaces, Unplaced
  <2>2. claim' \in [Deletions -> Claim]
    <3>1. claim[d] \in Claim BY DEF Shapes
    <3> DEFINE sum == SumFunctionOnSet(Costs, Live)
    <3>2. sum \in Nat BY SumsAreNat DEF Live
    <3>3. Quiet \in BOOLEAN /\ Begun(Handlers \ Deletions) \in SUBSET Handlers BY DEF Quiet, Begun
    <3> HIDE DEF sum
    <3>4. [claim[d] EXCEPT !.usd = IF sum > 0 THEN sum ELSE claim[d].fallback,
             !.quiet = Quiet, !.begun = Begun(Handlers \ Deletions)] \in Claim
      BY <3>1, <3>2, <3>3 DEF Claim
    <3>5. claim' = [claim EXCEPT ![d] = [claim[d] EXCEPT !.usd = IF sum > 0 THEN sum ELSE claim[d].fallback,
             !.quiet = Quiet, !.begun = Begun(Handlers \ Deletions)]]
      BY <3>1 DEF SumRecords, sum
    <3> QED BY <3>4, <3>5 DEF Shapes, SumRecords
  <2> QED BY <1>0, <2>1, <2>2 DEF Shapes, SumRecords
<1>2. \A q \in Counters : Placed(q)'
  BY <1>0, Parts DEF Placed, SumRecords, Goto, TypeOf, Shapes, AnalysisPlaces, CounterPlaces, Unplaced
<1>3. \A g \in Hangups : Billing(g)' BY <1>0, Parts DEF Billing, SumRecords, Goto, Shapes, HangupPlaces
<1>4. Unborn' BY <1>0, Parts DEF Unborn, SumRecords, Goto, Shapes, CdrLive
<1>5. Slots' BY <1>0, Parts, SlotsKept, RecordFacts DEF SumRecords, Goto, Shapes, Unplaced
<1>6. Rows' BY <1>0, Parts DEF Rows, SumRecords, Goto, Shapes, DeletionPlaces
<1> QED BY <1>1, <1>2, <1>3, <1>4, <1>5, <1>6

LEMMA CreditBase ==
    ASSUME Base, NEW d \in Deletions, Credit(d)
    PROVE  Base'
<1> USE DEF Base
<1>0. d \in Handlers BY Parts DEF Counters
<1>1. Shapes'
  <2>1. pc' \in [Handlers -> Labels]
    BY <1>0 DEF Shapes, Credit, Goto, Labels, AnalysisPlaces, CounterPlaces, HangupPlaces, DeletionPlaces, Unplaced
  <2>2. claim' \in [Deletions -> Claim]
    <3>1. claim[d] \in Claim BY DEF Shapes
    <3>2. [claim[d] EXCEPT !.usd = 0] \in Claim BY <3>1 DEF Claim
    <3>3. claim' = claim \/ claim' = [claim EXCEPT ![d] = [claim[d] EXCEPT !.usd = 0]]
            \/ claim' = [claim EXCEPT ![d] = [claim[d] EXCEPT !.usd = @]]
      BY <3>1 DEF Credit
    <3>4. claim' = claim \/ \E c \in Claim : claim' = [claim EXCEPT ![d] = c]
      <4>1. [claim[d] EXCEPT !.usd = @] \in Claim BY <3>1 DEF Claim
      <4> QED BY <3>2, <3>3, <4>1
    <3> QED BY <3>4 DEF Shapes
  <2> QED BY <1>0, <2>1, <2>2 DEF Shapes, Credit
<1>2. \A q \in Counters : Placed(q)'
  BY <1>0, Parts DEF Placed, Credit, Goto, TypeOf, Shapes, AnalysisPlaces, CounterPlaces, Unplaced
<1>3. \A g \in Hangups : Billing(g)' BY <1>0, Parts DEF Billing, Credit, Goto, Shapes, HangupPlaces
<1>4. Unborn' BY <1>0, Parts DEF Unborn, Credit, Goto, Shapes, CdrLive
<1>5. Slots' BY <1>0, Parts, SlotsKept, RecordFacts DEF Credit, Goto, Shapes, Unplaced
<1>6. Rows' BY <1>0, Parts DEF Rows, Credit, Goto, Shapes, DeletionPlaces
<1> QED BY <1>1, <1>2, <1>3, <1>4, <1>5, <1>6

LEMMA DestroyReportBase ==
    ASSUME Base, NEW d \in Deletions, DestroyReport(d)
    PROVE  Base'
<1> USE DEF Base
<1>0. d \in Handlers BY Parts DEF Counters
<1>1. Shapes'
  <2>1. pc' \in [Handlers -> Labels]
    BY <1>0 DEF Shapes, DestroyReport, Goto, Labels, AnalysisPlaces, CounterPlaces, HangupPlaces, DeletionPlaces, Unplaced
  <2>2. records' \in Seq(Record)
    <3>1. \A i \in DOMAIN records : [records[i] EXCEPT !.gone = TRUE] \in Record BY RecordFacts DEF Record
    <3>2. records' = [i \in 1 .. Len(records) |-> [records[i] EXCEPT !.gone = TRUE]]
      BY RecordFacts DEF DestroyReport
    <3>3. records' \in [1 .. Len(records) -> Record] BY <3>1, <3>2, RecordFacts
    <3> QED BY <3>3, RecordFacts, SeqDef
  <2>3. IsFiniteSet(ledger') /\ \A row \in ledger' : row \in UsageRows \/ row \in AnalysisRows \/ row \in RefundRows
    <3> DEFINE row == [key |-> <<"refund">>, dir |-> "credit", usd |-> claim[d].usd, by |-> d]
    <3>1. claim[d].usd # 0 => row \in RefundRows BY DEF RefundRows, Shapes, Claim
    <3>2. IsFiniteSet(ledger \cup {row}) BY FS_AddElement DEF Shapes
    <3> QED BY <3>1, <3>2 DEF DestroyReport, Shapes
  <2> QED BY <1>0, <2>1, <2>2, <2>3 DEF Shapes, DestroyReport
<1>2. \A q \in Counters : Placed(q)'
  BY <1>0, Parts DEF Placed, DestroyReport, Goto, TypeOf, Shapes, AnalysisPlaces, CounterPlaces, Unplaced
<1>3. \A g \in Hangups : Billing(g)'
  <2>1. Len(records') = Len(records) /\ \A i \in DOMAIN records : records'[i].type = records[i].type
    BY RecordFacts DEF DestroyReport, Record
  <2>2. ASSUME NEW g \in Hangups PROVE Billing(g)'
    <3>1. bill'[g] = bill[g] /\ pc'[g] = pc[g] /\ price' = price /\ bill[g].rec \in Nat
      BY <1>0, Parts DEF DestroyReport, Goto, Shapes, Bill
    <3>2. Billing(g) OBVIOUS
    <3>3. pc[g] = "saving" => records'[bill[g].rec].type = records[bill[g].rec].type
      BY <2>1, <3>1, <3>2, RecordFacts DEF Billing
    <3> QED BY <2>1, <3>1, <3>2, <3>3 DEF Billing
  <2> QED BY <2>2
<1>4. Unborn' BY <1>0, Parts DEF Unborn, DestroyReport, Goto, Shapes, CdrLive
<1>5. Slots' BY <1>0, Parts, SlotsKept, RecordFacts DEF DestroyReport, Goto, Shapes, Unplaced
<1>6. Rows'
  <2>1. \A row \in ledger' : row.by \in Hangups => pc'[row.by] \in {"closing", "done", "stopped"}
    BY <1>0, Parts DEF Rows, DestroyReport, Goto, Shapes
  <2>2. \A row, other \in ledger' :
          row.dir = "debit" /\ other.dir = "debit" /\ row.key = other.key => row = other
    <3>1. ledger' = ledger \/ \E row : ledger' = ledger \cup {row} /\ row.dir = "credit" BY DEF DestroyReport
    <3> QED BY <3>1 DEF Rows
  <2>3. \A i \in DOMAIN records' : records'[i].gone => cdr'.state = "deleted" BY DEF Rows, DestroyReport
  <2>4. \A q \in Handlers \ Deletions : pc'[q] = "stopped" => q \in faulty'
    BY <1>0, Parts DEF Rows, DestroyReport, Goto, Shapes
  <2>5. \A e \in Deletions : pc'[e] \in DeletionPlaces
    BY <1>0, Parts DEF Rows, DestroyReport, Goto, Shapes, DeletionPlaces
  <2> QED BY <2>1, <2>2, <2>3, <2>4, <2>5 DEF Rows
<1> QED BY <1>1, <1>2, <1>3, <1>4, <1>5, <1>6

LEMMA StopBase ==
    ASSUME Base, NEW p \in Handlers, Stop(p)
    PROVE  Base'
<1> USE DEF Base
<1>0. p \in Handlers BY Parts DEF Counters
<1>1. Shapes'
  BY <1>0, Parts DEF Shapes, Stop, Goto, Labels, AnalysisPlaces, CounterPlaces, HangupPlaces, DeletionPlaces, Unplaced
<1>2. \A q \in Counters : Placed(q)'
  BY <1>0, Parts DEF Placed, Stop, Goto, TypeOf, Shapes, AnalysisPlaces, CounterPlaces, Unplaced
<1>3. \A g \in Hangups : Billing(g)' BY <1>0, Parts DEF Billing, Stop, Goto, Shapes, HangupPlaces
<1>4. Unborn' BY <1>0, Parts DEF Unborn, Stop, Goto, Shapes, CdrLive
<1>5. Slots' BY <1>0, Parts, SlotsKept, RecordFacts DEF Stop, Goto, Shapes, Unplaced
<1>6. Rows' BY <1>0, Parts DEF Rows, Stop, Goto, Shapes, DeletionPlaces
<1> QED BY <1>1, <1>2, <1>3, <1>4, <1>5, <1>6

LEMMA BaseHolds == Init => Base
<1> SUFFICES ASSUME Init PROVE Base OBVIOUS
<1>0. Handlers = Counters \cup Hangups \cup Deletions /\ {} \subseteq Handlers BY Parts
<1>1. Shapes
  <2>1. pc \in [Handlers -> Labels] BY DEF Init, Labels, AnalysisPlaces, CounterPlaces, Unplaced
  <2>2. bill \in [Hangups -> Bill] BY DEF Init, Bill, NewBill
  <2>3. claim \in [Deletions -> Claim] BY DEF Init, Claim
  <2>4. records \in Seq(Record) /\ IsFiniteSet(ledger) BY FS_EmptySet DEF Init
  <2> QED BY <2>1, <2>2, <2>3, <2>4 DEF Shapes, Init, Counters
<1>2. records = <<>> /\ Len(records) = 0 /\ ledger = {} BY DEF Init
<1>3. \A p \in Counters : Placed(p)
  BY <1>0, <1>2 DEF Init, Placed, Counters, AnalysisPlaces, CounterPlaces, Unplaced
<1>4. \A h \in Hangups : Billing(h) BY <1>0, <1>2 DEF Init, Billing, HangupPlaces, NewBill
<1>5. Unborn BY <1>0, <1>2 DEF Init, Unborn
<1>6. Slots
  <2>1. IsFiniteSet({p \in Counters : pc[p] \notin Unplaced}) BY Parts
  <2> QED BY <1>2, <2>1, FS_CardinalityType DEF Slots
<1>7. Rows BY <1>0, <1>2 DEF Init, Rows, DeletionPlaces
<1> QED BY <1>1, <1>3, <1>4, <1>5, <1>6, <1>7 DEF Base

LEMMA BaseKept == Base /\ [Next]_vars => Base'
<1> SUFFICES ASSUME Base, [Next]_vars PROVE Base' OBVIOUS
<1>1. CASE UNCHANGED vars BY <1>1 DEF vars, Base, Shapes, Unborn, Slots, Rows, Placed, Billing, TypeOf
<1>2. CASE Next
  BY <1>2, CreateCdrBase, ReportUsageBase, FindRecordBase, CreateRecordBase, IncrementRecordBase,
     IncrementCdrBase, BeginHangupBase, BeginFinalizeBase, ReadRecordBase, SaveCostBase,
     ReadAnalyticBase, UpdateCdrBase, DebitUsageBase, FinalizeFailsBase, CloseCdrBase, AnalyseBase,
     DebitAnalysisBase, ChargeFailsBase, StoreAnalysisBase, FindReportBase, SumRecordsBase,
     CreditBase, DestroyReportBase, StopBase DEF Next
<1> QED BY <1>1, <1>2

LEMMA BaseAlways == Spec => []Base
  BY BaseHolds, BaseKept, PTL DEF Spec

------------------------
\* What a step does to the counters, to what the hangups charge, and to the ledger.
CountsKept ==
    /\ at' = at /\ DOMAIN records' = DOMAIN records
    /\ \A i \in DOMAIN records : records'[i].tokens = records[i].tokens
    /\ \A p \in Counters : pc'[p] = "held" => pc[p] = "held"

UsageKept ==
    \A h \in Hangups :
       bill'[h].usage = bill[h].usage /\ ((pc'[h] = pc[h] /\ bill'[h] = bill[h]) \/ Read(h)' = 2)

ChargedKept ==
    ledger' = ledger /\ \A a \in Analyses : pc[a] \in {"storing", "done", "stopped"}
                                             => pc'[a] \in {"storing", "done", "stopped"}

Kinds ==
    /\ CountsKept \/ \E p \in Usages \cup Analyses :
                        FindRecord(p) \/ CreateRecord(p) \/ IncrementRecord(p)
    /\ UsageKept \/ \E h \in Hangups :
                       BeginFinalize(h) \/ ReadRecord(h) \/ SaveCost(h) \/ CloseCdr(h)
    /\ ChargedKept \/ \/ \E h \in Hangups : DebitUsage(h)
                      \/ \E a \in Analyses : DebitAnalysis(a)
                      \/ \E d \in Deletions : DestroyReport(d)

LEMMA StepKinds ==
    ASSUME Base, Next
    PROVE  Kinds
<1>s. Shapes /\ pc \in [Handlers -> Labels] BY DEF Base, Shapes
<1>c. CASE CreateCdr BY <1>c DEF CreateCdr, Kinds, CountsKept, UsageKept, ChargedKept
<1>1. ASSUME NEW u \in Usages, ReportUsage(u) PROVE Kinds
  <2>1. u \in Handlers BY Parts DEF Counters
  <2>2. CountsKept BY <1>s, <1>1, <2>1, Parts DEF ReportUsage, Goto, CountsKept
  <2>3. UsageKept BY <1>s, <1>1, <2>1, Parts DEF ReportUsage, Goto, UsageKept, Read, Counters
  <2>4. ChargedKept BY <1>s, <1>1, <2>1, Parts DEF ReportUsage, Goto, ChargedKept, Counters
  <2> QED BY <1>1, <2>2, <2>3, <2>4 DEF Kinds
<1>2. ASSUME NEW p \in Usages \cup Analyses, FindRecord(p) PROVE Kinds
  <2>1. p \in Handlers BY Parts DEF Counters
  <2>3. UsageKept BY <1>s, <1>2, <2>1, Parts DEF FindRecord, Goto, UsageKept, Read, Counters
  <2>4. ChargedKept BY <1>s, <1>2, <2>1, Parts DEF FindRecord, Goto, ChargedKept, Counters
  <2> QED BY <1>2, <2>3, <2>4 DEF Kinds
<1>3. ASSUME NEW p \in Usages \cup Analyses, CreateRecord(p) PROVE Kinds
  <2>1. p \in Handlers BY Parts DEF Counters
  <2>3. UsageKept BY <1>s, <1>3, <2>1, Parts DEF CreateRecord, Goto, UsageKept, Read, Counters
  <2>4. ChargedKept BY <1>s, <1>3, <2>1, Parts DEF CreateRecord, Goto, ChargedKept, Counters
  <2> QED BY <1>3, <2>3, <2>4 DEF Kinds
<1>4. ASSUME NEW p \in Usages \cup Analyses, IncrementRecord(p) PROVE Kinds
  <2>1. p \in Handlers BY Parts DEF Counters
  <2>3. UsageKept BY <1>s, <1>4, <2>1, Parts DEF IncrementRecord, Goto, UsageKept, Read, Counters
  <2>4. ChargedKept BY <1>s, <1>4, <2>1, Parts DEF IncrementRecord, Goto, ChargedKept, Counters
  <2> QED BY <1>4, <2>3, <2>4 DEF Kinds
<1>5. ASSUME NEW p \in Usages \cup Analyses, IncrementCdr(p) PROVE Kinds
  <2>1. p \in Handlers BY Parts DEF Counters
  <2>2. CountsKept BY <1>s, <1>5, <2>1, Parts DEF IncrementCdr, Goto, CountsKept
  <2>3. UsageKept BY <1>s, <1>5, <2>1, Parts DEF IncrementCdr, Goto, UsageKept, Read, Counters
  <2>4. ChargedKept BY <1>s, <1>5, <2>1, Parts DEF IncrementCdr, Goto, ChargedKept, Counters
  <2> QED BY <1>5, <2>2, <2>3, <2>4 DEF Kinds
<1>6. ASSUME NEW h \in Hangups, BeginHangup(h) PROVE Kinds
  <2>1. h \in Handlers BY Parts DEF Counters
  <2>2. CountsKept BY <1>s, <1>6, <2>1, Parts DEF BeginHangup, Goto, CountsKept
  <2>3. UsageKept
    <3>1. bill'[h].usage = bill[h].usage
      <4>1. bill[h] \in Bill /\ bill \in [Hangups -> Bill] BY <1>s DEF Shapes
      <4>2. bill' = bill \/ bill' = [bill EXCEPT ![h] = [bill[h] EXCEPT !.loaded = cdr.cost]]
        BY <1>6, <4>1 DEF BeginHangup
      <4> QED BY <4>1, <4>2 DEF Bill
    <3>2. pc'[h] \in {"found", "stopped"} BY <1>s, <1>6, <2>1 DEF BeginHangup, Goto
    <3>3. \A g \in Hangups : g # h => pc'[g] = pc[g] /\ bill'[g] = bill[g]
      BY <1>s, <1>6, <2>1, Parts DEF BeginHangup, Goto, Shapes
    <3> QED BY <3>1, <3>2, <3>3 DEF UsageKept, Read
  <2>4. ChargedKept BY <1>s, <1>6, <2>1, Parts DEF BeginHangup, Goto, ChargedKept, Counters
  <2> QED BY <1>6, <2>2, <2>3, <2>4 DEF Kinds
<1>7. ASSUME NEW h \in Hangups, BeginFinalize(h) PROVE Kinds
  <2>1. h \in Handlers BY Parts DEF Counters
  <2>2. CountsKept BY <1>s, <1>7, <2>1, Parts DEF BeginFinalize, Goto, CountsKept
  <2>4. ChargedKept BY <1>s, <1>7, <2>1, Parts DEF BeginFinalize, Goto, ChargedKept, Counters
  <2> QED BY <1>7, <2>2, <2>4 DEF Kinds
<1>8. ASSUME NEW h \in Hangups, ReadRecord(h) PROVE Kinds
  <2>1. h \in Handlers BY Parts DEF Counters
  <2>2. CountsKept BY <1>s, <1>8, <2>1, Parts DEF ReadRecord, Goto, CountsKept
  <2>4. ChargedKept BY <1>s, <1>8, <2>1, Parts DEF ReadRecord, Goto, ChargedKept, Counters
  <2> QED BY <1>8, <2>2, <2>4 DEF Kinds
<1>9. ASSUME NEW h \in Hangups, SaveCost(h) PROVE Kinds
  <2>1. h \in Handlers BY Parts DEF Counters
  <2>2. CountsKept BY <1>s, <1>9, <2>1, Parts DEF SaveCost, Goto, CountsKept
  <2>4. ChargedKept BY <1>s, <1>9, <2>1, Parts DEF SaveCost, Goto, ChargedKept, Counters
  <2> QED BY <1>9, <2>2, <2>4 DEF Kinds
<1>10. ASSUME NEW h \in Hangups, ReadAnalytic(h) PROVE Kinds
  <2>1. h \in Handlers BY Parts DEF Counters
  <2>2. CountsKept BY <1>s, <1>10, <2>1, Parts DEF ReadAnalytic, Goto, CountsKept
  <2>3. UsageKept
    <3>1. bill'[h].usage = bill[h].usage
      <4>1. bill[h] \in Bill /\ bill \in [Hangups -> Bill] BY <1>s DEF Shapes
      <4>2. \E c : bill' = [bill EXCEPT ![h] = [bill[h] EXCEPT !.total = c]] BY <1>10, <4>1 DEF ReadAnalytic
      <4> QED BY <4>1, <4>2 DEF Bill
    <3>2. pc'[h] = "totalled" BY <1>s, <1>10, <2>1 DEF ReadAnalytic, Goto
    <3>3. \A g \in Hangups : g # h => pc'[g] = pc[g] /\ bill'[g] = bill[g]
      BY <1>s, <1>10, <2>1, Parts DEF ReadAnalytic, Goto, Shapes
    <3> QED BY <3>1, <3>2, <3>3 DEF UsageKept, Read
  <2>4. ChargedKept BY <1>s, <1>10, <2>1, Parts DEF ReadAnalytic, Goto, ChargedKept, Counters
  <2> QED BY <1>10, <2>2, <2>3, <2>4 DEF Kinds
<1>11. ASSUME NEW h \in Hangups, UpdateCdr(h) PROVE Kinds
  <2>1. h \in Handlers BY Parts DEF Counters
  <2>2. CountsKept BY <1>s, <1>11, <2>1, Parts DEF UpdateCdr, Goto, CountsKept
  <2>3. UsageKept BY <1>s, <1>11, <2>1, Parts DEF UpdateCdr, Goto, UsageKept, Read, Counters
  <2>4. ChargedKept BY <1>s, <1>11, <2>1, Parts DEF UpdateCdr, Goto, ChargedKept, Counters
  <2> QED BY <1>11, <2>2, <2>3, <2>4 DEF Kinds
<1>12. ASSUME NEW h \in Hangups, DebitUsage(h) PROVE Kinds
  <2>1. h \in Handlers BY Parts DEF Counters
  <2>2. CountsKept BY <1>s, <1>12, <2>1, Parts DEF DebitUsage, Goto, CountsKept
  <2>3. UsageKept BY <1>s, <1>12, <2>1, Parts DEF DebitUsage, Goto, UsageKept, Read, Counters
  <2> QED BY <1>12, <2>2, <2>3 DEF Kinds
<1>13. ASSUME NEW h \in Hangups, FinalizeFails(h) PROVE Kinds
  <2>1. h \in Handlers BY Parts DEF Counters
  <2>2. CountsKept BY <1>s, <1>13, <2>1, Parts DEF FinalizeFails, Goto, CountsKept
  <2>3. UsageKept BY <1>s, <1>13, <2>1, Parts DEF FinalizeFails, Goto, UsageKept, Read, Counters
  <2>4. ChargedKept BY <1>s, <1>13, <2>1, Parts DEF FinalizeFails, Goto, ChargedKept, Counters
  <2> QED BY <1>13, <2>2, <2>3, <2>4 DEF Kinds
<1>14. ASSUME NEW h \in Hangups, CloseCdr(h) PROVE Kinds
  <2>1. h \in Handlers BY Parts DEF Counters
  <2>2. CountsKept BY <1>s, <1>14, <2>1, Parts DEF CloseCdr, Goto, CountsKept
  <2>4. ChargedKept BY <1>s, <1>14, <2>1, Parts DEF CloseCdr, Goto, ChargedKept, Counters
  <2> QED BY <1>14, <2>2, <2>4 DEF Kinds
<1>15. ASSUME NEW a \in Analyses, Analyse(a) PROVE Kinds
  <2>1. a \in Handlers BY Parts DEF Counters
  <2>2. CountsKept BY <1>s, <1>15, <2>1, Parts DEF Analyse, Goto, CountsKept
  <2>3. UsageKept BY <1>s, <1>15, <2>1, Parts DEF Analyse, Goto, UsageKept, Read, Counters
  <2>4. ChargedKept BY <1>s, <1>15, <2>1, Parts DEF Analyse, Goto, ChargedKept, Counters
  <2> QED BY <1>15, <2>2, <2>3, <2>4 DEF Kinds
<1>16. ASSUME NEW a \in Analyses, DebitAnalysis(a) PROVE Kinds
  <2>1. a \in Handlers BY Parts DEF Counters
  <2>2. CountsKept BY <1>s, <1>16, <2>1, Parts DEF DebitAnalysis, Goto, CountsKept
  <2>3. UsageKept BY <1>s, <1>16, <2>1, Parts DEF DebitAnalysis, Goto, UsageKept, Read, Counters
  <2> QED BY <1>16, <2>2, <2>3 DEF Kinds
<1>17. ASSUME NEW a \in Analyses, ChargeFails(a) PROVE Kinds
  <2>1. a \in Handlers BY Parts DEF Counters
  <2>2. CountsKept BY <1>s, <1>17, <2>1, Parts DEF ChargeFails, Goto, CountsKept
  <2>3. UsageKept BY <1>s, <1>17, <2>1, Parts DEF ChargeFails, Goto, UsageKept, Read, Counters
  <2>4. ChargedKept BY <1>s, <1>17, <2>1, Parts DEF ChargeFails, Goto, ChargedKept, Counters
  <2> QED BY <1>17, <2>2, <2>3, <2>4 DEF Kinds
<1>18. ASSUME NEW a \in Analyses, StoreAnalysis(a) PROVE Kinds
  <2>1. a \in Handlers BY Parts DEF Counters
  <2>2. CountsKept BY <1>s, <1>18, <2>1, Parts DEF StoreAnalysis, Goto, CountsKept
  <2>3. UsageKept BY <1>s, <1>18, <2>1, Parts DEF StoreAnalysis, Goto, UsageKept, Read, Counters
  <2>4. ChargedKept BY <1>s, <1>18, <2>1, Parts DEF StoreAnalysis, Goto, ChargedKept, Counters
  <2> QED BY <1>18, <2>2, <2>3, <2>4 DEF Kinds
<1>19. ASSUME NEW d \in Deletions, FindReport(d) PROVE Kinds
  <2>1. d \in Handlers BY Parts DEF Counters
  <2>2. CountsKept BY <1>s, <1>19, <2>1, Parts DEF FindReport, Goto, CountsKept
  <2>3. UsageKept BY <1>s, <1>19, <2>1, Parts DEF FindReport, Goto, UsageKept, Read, Counters
  <2>4. ChargedKept BY <1>s, <1>19, <2>1, Parts DEF FindReport, Goto, ChargedKept, Counters
  <2> QED BY <1>19, <2>2, <2>3, <2>4 DEF Kinds
<1>20. ASSUME NEW d \in Deletions, SumRecords(d) PROVE Kinds
  <2>1. d \in Handlers BY Parts DEF Counters
  <2>2. CountsKept BY <1>s, <1>20, <2>1, Parts DEF SumRecords, Goto, CountsKept
  <2>3. UsageKept BY <1>s, <1>20, <2>1, Parts DEF SumRecords, Goto, UsageKept, Read, Counters
  <2>4. ChargedKept BY <1>s, <1>20, <2>1, Parts DEF SumRecords, Goto, ChargedKept, Counters
  <2> QED BY <1>20, <2>2, <2>3, <2>4 DEF Kinds
<1>21. ASSUME NEW d \in Deletions, Credit(d) PROVE Kinds
  <2>1. d \in Handlers BY Parts DEF Counters
  <2>2. CountsKept BY <1>s, <1>21, <2>1, Parts DEF Credit, Goto, CountsKept
  <2>3. UsageKept BY <1>s, <1>21, <2>1, Parts DEF Credit, Goto, UsageKept, Read, Counters
  <2>4. ChargedKept BY <1>s, <1>21, <2>1, Parts DEF Credit, Goto, ChargedKept, Counters
  <2> QED BY <1>21, <2>2, <2>3, <2>4 DEF Kinds
<1>22. ASSUME NEW d \in Deletions, DestroyReport(d) PROVE Kinds
  <2>1. d \in Handlers BY Parts DEF Counters
  <2>2. CountsKept
    <3>1. DOMAIN records' = DOMAIN records
             /\ \A i \in DOMAIN records : records'[i].tokens = records[i].tokens
      BY <1>s, <1>22, RecordFacts DEF DestroyReport, Record
    <3> QED BY <1>s, <1>22, <2>1, <3>1, Parts DEF DestroyReport, Goto, CountsKept
  <2>3. UsageKept BY <1>s, <1>22, <2>1, Parts DEF DestroyReport, Goto, UsageKept, Read, Counters
  <2> QED BY <1>22, <2>2, <2>3 DEF Kinds
<1>23. ASSUME NEW p \in Handlers, Stop(p) PROVE Kinds
  <2>1. p \in Handlers BY Parts DEF Counters
  <2>2. CountsKept BY <1>s, <1>23, <2>1, Parts DEF Stop, Goto, CountsKept
  <2>3. UsageKept BY <1>s, <1>23, <2>1, Parts DEF Stop, Goto, UsageKept, Read, Counters
  <2>4. ChargedKept BY <1>s, <1>23, <2>1, Parts DEF Stop, Goto, ChargedKept, Counters
  <2> QED BY <1>23, <2>2, <2>3, <2>4 DEF Kinds
<1> QED
  BY <1>c, <1>1, <1>2, <1>3, <1>4, <1>5, <1>6, <1>7, <1>8, <1>9, <1>10, <1>11, <1>12, <1>13, <1>14, <1>15, <1>16, <1>17, <1>18, <1>19, <1>20, <1>21, <1>22, <1>23 DEF Next

------------------------
\* No more is counted, read or charged than was reported.
WithinRecords ==
    \A i \in DOMAIN records : records[i].tokens <=
       SumFunctionOnSet(Tokens, {p \in Counters : at[p] = i /\ pc[p] # "held"})

WithinBills ==
    price # NoPrice => \A h \in Hangups : bill[h].usage <= price * UsedBy(Read(h))

WithinLedger ==
    price # NoPrice =>
       /\ \A row \in ledger : row.by \in Hangups => row.usd <= price * UsedBy(2)
       /\ Debits(Analyses) <=
             price * SumFunctionOnSet(Tokens, {a \in Analyses : pc[a] \in {"storing", "done", "stopped"}})

LEMMA TokensGrow ==
    ASSUME NEW T \in SUBSET Counters, NEW S \in SUBSET T
    PROVE  /\ SumFunctionOnSet(Tokens, S) \in Nat /\ SumFunctionOnSet(Tokens, T) \in Nat
           /\ SumFunctionOnSet(Tokens, S) <= SumFunctionOnSet(Tokens, T)
<1>1. IsFiniteSet(T) /\ IsFiniteSet(S) /\ \A p \in T : Tokens[p] \in Nat BY Parts
<1> QED BY <1>1, SumTakeOut, SumGrows

LEMMA RecordsWithin ==
    ASSUME Base, WithinRecords, Next
    PROVE  WithinRecords'
<1> DEFINE In(i)   == {p \in Counters : at[p] = i /\ pc[p] # "held"}
           InNew(i) == {p \in Counters : at'[p] = i /\ pc'[p] # "held"}
           Goal(i) == records'[i].tokens <= SumFunctionOnSet(Tokens, InNew(i))
<1>0. \A i : /\ SumFunctionOnSet(Tokens, In(i)) \in Nat
             /\ SumFunctionOnSet(Tokens, InNew(i)) \in Nat
             /\ In(i) \subseteq InNew(i) => SumFunctionOnSet(Tokens, In(i)) <= SumFunctionOnSet(Tokens, InNew(i))
  <2> TAKE i
  <2>1. In(i) \in SUBSET Counters /\ InNew(i) \in SUBSET Counters OBVIOUS
  <2> HIDE DEF In, InNew
  <2> QED BY <2>1, TokensGrow
<1>b. \A i \in DOMAIN records : records[i].tokens \in Nat BY RecordFacts DEF Base, Record
<1>w. \A i \in DOMAIN records : records[i].tokens <= SumFunctionOnSet(Tokens, In(i)) BY DEF WithinRecords
<1>s. Shapes /\ pc \in [Handlers -> Labels] /\ at \in [Counters -> Nat] BY DEF Base, Shapes
<1>1. CASE CountsKept
  <2>1. \A i : In(i) \subseteq InNew(i) BY <1>1 DEF CountsKept
  <2>2. \A i \in DOMAIN records' : i \in DOMAIN records /\ records'[i].tokens = records[i].tokens
    BY <1>1 DEF CountsKept
  <2> HIDE DEF In, InNew
  <2>3. \A i \in DOMAIN records' : Goal(i) BY <1>0, <1>b, <1>w, <2>1, <2>2
  <2> QED BY <2>3 DEF WithinRecords, InNew
<1>2. ASSUME NEW p \in Usages \cup Analyses, FindRecord(p) PROVE WithinRecords'
  <2>1. records' = records /\ p \in Handlers /\ at[p] = 0 /\ p \in Counters
    BY <1>2, Parts DEF FindRecord, Placed, Base, Unplaced, Counters
  <2>2. \A i \in DOMAIN records : In(i) \subseteq InNew(i)
    <3>1. \A q \in Counters : q # p => at'[q] = at[q] /\ pc'[q] = pc[q]
      <4>1. (\E i : at' = [at EXCEPT ![p] = i]) \/ at' = at BY <1>2 DEF FindRecord
      <4>2. \E l : pc' = [pc EXCEPT ![p] = l] BY <1>2 DEF FindRecord, Goto
      <4> QED BY <1>s, <4>1, <4>2, Parts
    <3>2. \A i \in DOMAIN records : i # 0 BY <1>s, RecordFacts
    <3> QED BY <2>1, <3>1, <3>2
  <2> HIDE DEF In, InNew
  <2>3. \A i \in DOMAIN records' : Goal(i) BY <1>0, <1>b, <1>w, <2>1, <2>2
  <2> QED BY <2>3 DEF WithinRecords, InNew
<1>3. ASSUME NEW p \in Usages \cup Analyses, CreateRecord(p) PROVE WithinRecords'
  <2>1. p \in Handlers /\ at[p] = 0 /\ p \in Counters
    BY <1>3, Parts DEF CreateRecord, Placed, Base, Unplaced, Counters
  <2>2. \A i \in DOMAIN records : In(i) \subseteq InNew(i) BY <1>3, <1>s, <2>1, RecordFacts DEF CreateRecord, Goto
  <2>3. /\ DOMAIN records' = DOMAIN records \cup {Len(records) + 1}
        /\ \A i \in DOMAIN records : records'[i] = records[i]
        /\ records'[Len(records) + 1].tokens = 0
    <3>1. records \in Seq(Record) /\ Len(records) \in Nat BY <1>s, RecordFacts DEF Shapes
    <3>2. records' = Append(records, [type |-> TypeOf(p), tokens |-> 0, cost |-> 0, gone |-> FALSE])
      BY <1>3 DEF CreateRecord
    <3> QED BY <3>1, <3>2
  <2> HIDE DEF In, InNew
  <2>4. \A i \in DOMAIN records' : Goal(i) BY <1>0, <1>b, <1>w, <2>2, <2>3
  <2> QED BY <2>4 DEF WithinRecords, InNew
<1>4. ASSUME NEW p \in Usages \cup Analyses, IncrementRecord(p) PROVE WithinRecords'
  <2>1. p \in Counters /\ p \in Handlers /\ at' = at /\ pc' = [pc EXCEPT ![p] = "counted"] /\ pc[p] = "held"
    BY <1>4, Parts DEF IncrementRecord, Goto, Counters
  <2>2. /\ DOMAIN records' = DOMAIN records /\ at[p] \in DOMAIN records
        /\ \A i \in DOMAIN records : i # at[p] => records'[i] = records[i]
        /\ records'[at[p]].tokens \in {records[at[p]].tokens, records[at[p]].tokens + Tokens[p]}
        /\ Tokens[p] \in Nat
    <3>1. records[at[p]].gone => records'[at[p]] = records[at[p]] BY <1>4, RecordIncremented
    <3> QED BY <1>4, <3>1, RecordIncremented
  <2>3. /\ \A i : i # at[p] => InNew(i) = In(i)
        /\ InNew(at[p]) = In(at[p]) \cup {p} /\ p \notin In(at[p])
    BY <1>s, <2>1
  <2>4. SumFunctionOnSet(Tokens, InNew(at[p])) = Tokens[p] + SumFunctionOnSet(Tokens, In(at[p]))
    <3>1. IsFiniteSet(In(at[p])) /\ \A q \in In(at[p]) \cup {p} : Tokens[q] \in Nat BY <2>1, Parts
    <3> HIDE DEF In, InNew
    <3> QED BY <2>3, <3>1, SumAdd
  <2> HIDE DEF In, InNew
  <2>5. \A i \in DOMAIN records' : i # at[p] => Goal(i) BY <1>0, <1>b, <1>w, <2>2, <2>3
  <2>6. Goal(at[p]) BY <1>0, <1>b, <1>w, <2>2, <2>4
  <2> QED BY <2>5, <2>6 DEF WithinRecords, InNew
<1> QED BY <1>1, <1>2, <1>3, <1>4, StepKinds DEF Kinds

\* What the usages reported, type by type.
LEMMA UsedByFacts ==
    /\ \A k \in 0 .. 2 : UsedBy(k) \in Nat
    /\ UsedBy(0) = 0
    /\ UsedBy(1) = SumFunctionOnSet(Tokens, Begun(Of("realtime")))
    /\ UsedBy(2) = UsedBy(1) + SumFunctionOnSet(Tokens, Begun(Of("non-realtime")))
    /\ UsedBy(2) = SumFunctionOnSet(Tokens, Begun(Usages))
<1> DEFINE A == Begun(Of("realtime"))
           B == Begun(Of("non-realtime"))
<1>1. A \in SUBSET Counters /\ B \in SUBSET Counters /\ A \cap B = {} /\ A \cup B = Begun(Usages)
  BY BillingConstants DEF Begun, Of, Counters
<1>2. IsFiniteSet(A) /\ IsFiniteSet(B) /\ \A p \in A \cup B : Tokens[p] \in Nat BY <1>1, Parts
<1>3. UsedBy(0) = 0 + 0 /\ UsedBy(1) = SumFunctionOnSet(Tokens, A) + 0
        /\ UsedBy(2) = SumFunctionOnSet(Tokens, A) + SumFunctionOnSet(Tokens, B)
  BY DEF UsedBy
<1> HIDE DEF A, B
<1>4. SumFunctionOnSet(Tokens, A) \in Nat /\ SumFunctionOnSet(Tokens, B) \in Nat BY <1>1, TokensGrow
<1>5. SumFunctionOnSet(Tokens, A \cup B) = SumFunctionOnSet(Tokens, A) + SumFunctionOnSet(Tokens, B)
  BY <1>1, <1>2, SumSplit
<1>6. UsedBy(0) = 0 /\ UsedBy(1) = SumFunctionOnSet(Tokens, A)
        /\ UsedBy(2) = UsedBy(1) + SumFunctionOnSet(Tokens, B)
        /\ UsedBy(2) = SumFunctionOnSet(Tokens, Begun(Usages))
        /\ UsedBy(1) \in Nat /\ UsedBy(2) \in Nat
  BY <1>1, <1>3, <1>4, <1>5
<1>7. \A k \in 0 .. 2 : UsedBy(k) \in Nat
  <2> HIDE DEF UsedBy
  <2>1. \A k \in 0 .. 2 : k = 0 \/ k = 1 \/ k = 2 OBVIOUS
  <2> QED BY <1>6, <2>1
<1> QED BY <1>6, <1>7 DEF A, B

LEMMA UsedGrows ==
    ASSUME Base, Next
    PROVE  /\ UsedBy(1) <= UsedBy(1)' /\ UsedBy(2) <= UsedBy(2)'
           /\ UsedBy(0)' = 0 /\ UsedBy(1)' \in Nat /\ UsedBy(2)' \in Nat
<1> DEFINE Grown(S) == {p \in S : pc'[p] # "idle"}
<1>1. \A S \in SUBSET Handlers : Begun(S) \subseteq Grown(S) BY Irreversible DEF Base, Begun
<1>2. /\ Of("realtime") \in SUBSET Handlers /\ Of("non-realtime") \in SUBSET Handlers
      /\ Of("realtime") \in SUBSET Counters /\ Of("non-realtime") \in SUBSET Counters
  BY Parts DEF Of, Counters
<1>3. ASSUME NEW S \in SUBSET Counters, S \subseteq Handlers
      PROVE  /\ SumFunctionOnSet(Tokens, Begun(S)) \in Nat /\ SumFunctionOnSet(Tokens, Grown(S)) \in Nat
             /\ SumFunctionOnSet(Tokens, Begun(S)) <= SumFunctionOnSet(Tokens, Grown(S))
  <2>1. Grown(S) \in SUBSET Counters /\ Begun(S) \in SUBSET Grown(S) BY <1>1, <1>3
  <2> HIDE DEF Grown
  <2> QED BY <2>1, TokensGrow
<1>4. /\ UsedBy(1) = SumFunctionOnSet(Tokens, Begun(Of("realtime")))
      /\ UsedBy(2) = UsedBy(1) + SumFunctionOnSet(Tokens, Begun(Of("non-realtime")))
  BY UsedByFacts
<1>5. UsedBy(0)' = 0 + 0 /\ UsedBy(1)' = SumFunctionOnSet(Tokens, Grown(Of("realtime"))) + 0
      /\ UsedBy(2)' = SumFunctionOnSet(Tokens, Grown(Of("realtime")))
                         + SumFunctionOnSet(Tokens, Grown(Of("non-realtime")))
  BY DEF UsedBy, Begun, Of
<1> HIDE DEF Grown, UsedBy
<1> QED BY <1>2, <1>3, <1>4, <1>5

LEMMA ReadIs ==
    ASSUME Base, NEW h \in Hangups
    PROVE  Read(h) \in 0 .. 2 /\ UsedBy(Read(h)) \in Nat /\ UsedBy(Read(h)) <= UsedBy(2)
<1>1. bill[h] \in Bill /\ (pc[h] = "saving" => bill[h].stage < 3) BY DEF Base, Shapes, Billing
<1>2. Read(h) \in 0 .. 2 BY <1>1 DEF Read, Bill
<1>3. UsedBy(Read(h)) \in Nat BY <1>2, UsedByFacts
<1>4. Read(h) = 0 \/ Read(h) = 1 \/ Read(h) = 2 BY <1>2
<1>5. UsedBy(0) <= UsedBy(2) /\ UsedBy(1) <= UsedBy(2)
  <2>1. Begun(Of("non-realtime")) \in SUBSET Counters BY DEF Begun, Of, Counters
  <2>2. SumFunctionOnSet(Tokens, Begun(Of("non-realtime"))) \in Nat BY <2>1, TokensGrow
  <2>3. UsedBy(0) = 0 /\ UsedBy(1) \in Nat /\ UsedBy(2) \in Nat BY UsedByFacts
  <2> HIDE DEF UsedBy
  <2> QED BY <2>2, <2>3, UsedByFacts
<1> QED BY <1>2, <1>3, <1>4, <1>5, UsedByFacts

\* What is read of one type was reported by the usages of that type.
LEMMA ReadIsReported ==
    ASSUME Base, WithinRecords, NEW k \in 1 .. 2, NEW i \in Found(RecordTypes[k])
    PROVE  records[i].tokens \in Nat /\ UsedBy(k - 1) + records[i].tokens <= UsedBy(k)
<1> DEFINE type == RecordTypes[k]
           In == {p \in Counters : at[p] = i /\ pc[p] # "held"}
           R == SumFunctionOnSet(Tokens, Begun(Of(type)))
<1>1. i \in DOMAIN records /\ records[i].type = type /\ i > 0 /\ records[i].tokens \in Nat
  BY RecordFacts DEF Found, Base, Record
<1>2. type \in CallTypes /\ type # "analytic"
  <2>1. RecordTypes[1] = "realtime" /\ RecordTypes[2] = "non-realtime" BY DEF RecordTypes
  <2>2. k = 1 \/ k = 2 OBVIOUS
  <2> QED BY <2>1, <2>2 DEF CallTypes
<1>3. In \subseteq Begun(Of(type)) /\ Begun(Of(type)) \in SUBSET Counters
  <2>1. ASSUME NEW p \in In PROVE p \in Begun(Of(type))
    <3>1. Placed(p) /\ at[p] = i /\ p \in Counters BY DEF Base
    <3>2. TypeOf(p) = type /\ pc[p] # "idle" BY <1>1, <3>1 DEF Placed, Unplaced
    <3> QED BY <1>2, <3>1, <3>2 DEF TypeOf, Begun, Of
  <2> QED BY <2>1 DEF Begun, Of, Counters
<1>4. records[i].tokens <= SumFunctionOnSet(Tokens, In) BY <1>1 DEF WithinRecords
<1> HIDE DEF In
<1>5. SumFunctionOnSet(Tokens, In) <= R /\ R \in Nat /\ SumFunctionOnSet(Tokens, In) \in Nat BY <1>3, TokensGrow
<1>6. UsedBy(k) = UsedBy(k - 1) + R /\ UsedBy(k - 1) \in Nat
  <2>1. RecordTypes[1] = "realtime" /\ RecordTypes[2] = "non-realtime" BY DEF RecordTypes
  <2>2. CASE k = 1 BY <1>5, <2>1, <2>2, UsedByFacts
  <2>3. CASE k = 2 BY <2>1, <2>3, UsedByFacts
  <2> QED BY <2>2, <2>3
<1> HIDE DEF R, type
<1> QED BY <1>1, <1>4, <1>5, <1>6

LEMMA BillsWithin ==
    ASSUME Base, WithinRecords, WithinBills, Next
    PROVE  WithinBills'
<1> DEFINE New(k) == UsedBy(k)'
<1> SUFFICES ASSUME price # NoPrice, NEW h \in Hangups
             PROVE  bill'[h].usage <= price * UsedBy(Read(h))'
  <2>1. price' = price BY OneMoves DEF Base
  <2> QED BY <2>1 DEF WithinBills
<1>p. price \in Nat /\ \A a \in Nat, b \in Nat : a <= b => price * a \in Nat /\ price * b \in Nat /\ price * a <= price * b
  BY Parts, Products DEF Base, Shapes
<1>0. /\ New(0) = 0 /\ New(1) \in Nat /\ New(2) \in Nat
      /\ UsedBy(0) = 0 /\ UsedBy(1) \in Nat /\ UsedBy(2) \in Nat
      /\ UsedBy(1) <= New(1) /\ UsedBy(2) <= New(2)
  BY UsedGrows, UsedByFacts
<1>r. /\ Read(h) \in 0 .. 2 /\ bill[h] \in Bill /\ bill[h].usage \in Nat
      /\ bill[h].usage <= price * UsedBy(Read(h)) /\ UsedBy(Read(h)) <= UsedBy(2)
  BY ReadIs DEF Base, Shapes, Bill, WithinBills
<1>n. \A k \in 0 .. 2 : Read(h)' = k => UsedBy(Read(h))' = New(k) BY DEF UsedBy
<1>u. \A k \in 0 .. 2 : UsedBy(k) \in Nat /\ New(k) \in Nat /\ UsedBy(k) <= New(k)
  <2> HIDE DEF New
  <2>1. \A k \in 0 .. 2 : k = 0 \/ k = 1 \/ k = 2 OBVIOUS
  <2> QED BY <1>0, <2>1
<1> HIDE DEF New
<1>1. ASSUME NEW k \in 0 .. 2, Read(h)' = k, bill'[h].usage \in Nat, bill'[h].usage <= price * UsedBy(k)
      PROVE  bill'[h].usage <= price * UsedBy(Read(h))'
  <2>1. UsedBy(Read(h))' = New(k) /\ price * UsedBy(k) <= price * New(k)
           /\ price * UsedBy(k) \in Nat /\ price * New(k) \in Nat
    BY <1>1, <1>n, <1>p, <1>u
  <2> QED BY <1>1, <2>1
<1>2. ASSUME bill'[h].usage = bill[h].usage, (pc'[h] = pc[h] /\ bill'[h] = bill[h]) \/ Read(h)' = 2
      PROVE  bill'[h].usage <= price * UsedBy(Read(h))'
  <2>1. CASE Read(h)' = 2
    <3>1. price * UsedBy(Read(h)) <= price * UsedBy(2) /\ price * UsedBy(Read(h)) \in Nat
             /\ price * UsedBy(2) \in Nat
      BY <1>p, <1>r, <1>u
    <3>2. bill'[h].usage <= price * UsedBy(2) BY <1>2, <1>r, <3>1
    <3> QED BY <1>1, <1>2, <1>r, <2>1, <3>2
  <2>2. CASE pc'[h] = pc[h] /\ bill'[h] = bill[h]
    <3>1. Read(h)' = Read(h) BY <2>2 DEF Read
    <3> QED BY <1>1, <1>2, <1>r, <3>1
  <2> QED BY <1>2, <2>1, <2>2
<1>z. ASSUME bill'[h].usage = 0, Read(h)' \in 0 .. 2 PROVE bill'[h].usage <= price * UsedBy(Read(h))'
  <2>1. price * UsedBy(Read(h)') \in Nat BY <1>z, <1>p, <1>u
  <2> QED BY <1>1, <1>z, <2>1
<1>o. ASSUME NEW g \in Hangups, g # h, BeginFinalize(g) \/ ReadRecord(g) \/ SaveCost(g) \/ CloseCdr(g)
      PROVE  bill'[h].usage <= price * UsedBy(Read(h))'
  <2>1. pc'[h] = pc[h] /\ bill'[h] = bill[h]
    <3>1. g \in Handlers /\ h \in Handlers BY Parts
    <3>2. (\E l : pc' = [pc EXCEPT ![g] = l]) \/ pc' = pc
      BY <1>o DEF BeginFinalize, ReadRecord, SaveCost, CloseCdr, Goto
    <3>3. (\E b : bill' = [bill EXCEPT ![g] = b]) \/ bill' = bill
      BY <1>o DEF BeginFinalize, ReadRecord, SaveCost, CloseCdr
    <3> QED BY <1>o, <3>1, <3>2, <3>3 DEF Base, Shapes
  <2> QED BY <1>2, <2>1
<1>s. pc \in [Handlers -> Labels] /\ bill \in [Hangups -> Bill] /\ h \in Handlers /\ Billing(h)
  BY Parts DEF Base, Shapes
<1>3. CASE BeginFinalize(h)
  <2>1. bill[h].usage = 0 /\ bill[h].stage = 1 BY <1>s, <1>3 DEF BeginFinalize, Billing, NewBill
  <2>2. bill'[h].usage = 0 /\ bill'[h].stage = 1
    <3>1. bill' = bill \/ \E a, b : bill' = [bill EXCEPT ![h] = [bill[h] EXCEPT !.reloaded = a, !.due = b]]
      BY <1>3 DEF BeginFinalize
    <3> QED BY <1>s, <1>r, <2>1, <3>1 DEF Bill
  <2>3. pc'[h] = "reading" \/ pc'[h] = "closing" BY <1>s, <1>3 DEF BeginFinalize, Goto
  <2>4. Read(h)' \in 0 .. 2 BY <2>2, <2>3 DEF Read
  <2> QED BY <1>z, <2>2, <2>4
<1>4. CASE ReadRecord(h)
  <2> DEFINE k == bill[h].stage
  <2>1. k \in 1 .. 2 /\ pc[h] = "reading"
    <3>1. RecordTypes[3] = "analytic" BY DEF RecordTypes
    <3>2. RecordTypes[k] # "analytic" BY <1>4 DEF ReadRecord
    <3>3. k \in 1 .. 3 /\ k # 3 BY <1>r, <3>1, <3>2 DEF Bill
    <3>4. pc[h] = "reading" BY <1>4 DEF ReadRecord
    <3> HIDE DEF k
    <3>5. k \in 1 .. 2 BY <3>3
    <3> QED BY <3>4, <3>5
  <2>2. Read(h) = k - 1 /\ UsedBy(k - 1) \in Nat /\ UsedBy(k) \in Nat /\ UsedBy(k - 1) <= UsedBy(k)
           /\ bill[h].usage <= price * UsedBy(k - 1)
    <3>1. Read(h) = k - 1 BY <2>1 DEF Read
    <3>2. UsedBy(0) = 0 /\ UsedBy(1) <= UsedBy(2)
      <4>1. Begun(Of("non-realtime")) \in SUBSET Counters BY DEF Begun, Of, Counters
      <4>2. SumFunctionOnSet(Tokens, Begun(Of("non-realtime"))) \in Nat BY <4>1, TokensGrow
      <4> QED BY <1>0, <4>2, UsedByFacts
    <3>3. (k = 1 /\ k - 1 = 0) \/ (k = 2 /\ k - 1 = 1) BY <2>1
    <3> QED BY <1>0, <1>r, <3>1, <3>2, <3>3
  <2>3. \/ \E i \in Found(RecordTypes[k]) :
                 /\ bill'[h] = [bill[h] EXCEPT !.rec = i, !.cost = records[i].cost,
                            !.tokens = records[i].tokens, !.usage = @ + price * records[i].tokens]
                 /\ pc'[h] = "saving"
        \/ bill'[h] = [bill[h] EXCEPT !.stage = @ + 1] /\ pc'[h] = "reading"
    BY <1>4, <1>s DEF ReadRecord, Goto
  <2>4. CASE bill'[h] = [bill[h] EXCEPT !.stage = @ + 1] /\ pc'[h] = "reading"
    <3>1. bill'[h].stage = k + 1 /\ bill'[h].usage = bill[h].usage BY <1>r, <2>4 DEF Bill
    <3>2. Read(h)' = k BY <2>1, <2>4, <3>1 DEF Read
    <3>3. price * UsedBy(k - 1) <= price * UsedBy(k) /\ price * UsedBy(k - 1) \in Nat /\ price * UsedBy(k) \in Nat
      BY <1>p, <2>2
    <3>4. bill'[h].usage <= price * UsedBy(k) BY <1>r, <2>2, <3>1, <3>3
    <3> QED BY <1>1, <1>r, <2>1, <3>1, <3>2, <3>4
  <2>5. ASSUME NEW i \in Found(RecordTypes[k]), pc'[h] = "saving",
               bill'[h] = [bill[h] EXCEPT !.rec = i, !.cost = records[i].cost,
                            !.tokens = records[i].tokens, !.usage = @ + price * records[i].tokens]
        PROVE  bill'[h].usage <= price * UsedBy(Read(h))'
    <3>1. bill'[h].usage = bill[h].usage + price * records[i].tokens /\ bill'[h].stage = k BY <1>r, <2>5 DEF Bill
    <3>2. Read(h)' = k BY <2>5, <3>1 DEF Read
    <3> DEFINE t == records[i].tokens
    <3>3. t \in Nat /\ UsedBy(k - 1) + t <= UsedBy(k) BY <2>1, ReadIsReported
    <3> HIDE DEF t
    <3>4. price * (UsedBy(k - 1) + t) = price * UsedBy(k - 1) + price * t /\ price * t \in Nat
             /\ price * UsedBy(k - 1) \in Nat
      BY <1>p, <2>2, <3>3, Products
    <3>5. price * (UsedBy(k - 1) + t) <= price * UsedBy(k) /\ price * UsedBy(k) \in Nat
      <4>1. UsedBy(k - 1) + t \in Nat BY <2>2, <3>3
      <4> QED BY <1>p, <2>2, <3>3, <4>1
    <3>6. bill'[h].usage = bill[h].usage + price * t BY <3>1 DEF t
    <3>7. bill'[h].usage \in Nat /\ bill'[h].usage <= price * UsedBy(k)
      <4> DEFINE x == price * t
                 y == price * UsedBy(k - 1)
                 z == price * UsedBy(k)
      <4>1. x \in Nat /\ y \in Nat /\ z \in Nat /\ y + x <= z /\ bill[h].usage <= y
               /\ bill'[h].usage = bill[h].usage + x
        BY <2>2, <3>4, <3>5, <3>6
      <4> HIDE DEF x, y, z
      <4>2. bill'[h].usage \in Nat /\ bill'[h].usage <= z BY <1>r, <4>1
      <4> QED BY <4>2 DEF z
    <3> QED BY <1>1, <2>1, <3>2, <3>7
  <2> QED BY <2>3, <2>4, <2>5
<1>5. CASE SaveCost(h)
  <2>1. pc[h] = "saving" /\ pc'[h] = "reading" /\ bill[h].stage < 3 BY <1>s, <1>5 DEF SaveCost, Goto, Billing
  <2>2. bill'[h] = [bill[h] EXCEPT !.stage = @ + 1, !.rec = 0, !.tokens = 0, !.cost = 0] BY <1>s, <1>5 DEF SaveCost
  <2>3. bill'[h].usage = bill[h].usage /\ bill'[h].stage = bill[h].stage + 1 BY <1>r, <2>2 DEF Bill
  <2>4. Read(h) = bill[h].stage /\ Read(h)' = bill[h].stage BY <1>r, <2>1, <2>3 DEF Read, Bill
  <2> QED BY <1>1, <1>r, <2>3, <2>4
<1>6. CASE CloseCdr(h)
  <2>1. bill'[h] = [NewBill EXCEPT !.due = bill[h].due] /\ pc'[h] = "done" BY <1>s, <1>6 DEF CloseCdr, Goto
  <2>2. bill'[h].usage = 0 /\ Read(h)' = 2 BY <2>1 DEF NewBill, Read
  <2> QED BY <1>z, <2>2
<1>7. CASE UsageKept BY <1>2, <1>7 DEF UsageKept
<1> QED BY <1>o, <1>3, <1>4, <1>5, <1>6, <1>7, StepKinds DEF Kinds

LEMMA LedgerWithin ==
    ASSUME Base, WithinBills, WithinLedger, Next
    PROVE  WithinLedger'
<1> DEFINE New(k) == UsedBy(k)'
           Paid == {a \in Analyses : pc[a] \in {"storing", "done", "stopped"}}
           PaidNew == {a \in Analyses : pc'[a] \in {"storing", "done", "stopped"}}
           D == {row \in ledger : row.dir = "debit" /\ row.by \in Analyses}
           DNew == {row \in ledger' : row.dir = "debit" /\ row.by \in Analyses}
           WorthNew == [row \in ledger' |-> row.usd]
<1> SUFFICES ASSUME price # NoPrice
             PROVE  /\ \A row \in ledger' : row.by \in Hangups => row.usd <= price * New(2)
                    /\ SumFunctionOnSet(WorthNew, DNew) <= price * SumFunctionOnSet(Tokens, PaidNew)
  <2>1. price' = price BY OneMoves DEF Base
  <2> QED BY <2>1 DEF WithinLedger, Debits, Worth
<1>p. price \in Nat /\ \A a \in Nat, b \in Nat : /\ price * a \in Nat /\ price * b \in Nat
                                                  /\ a <= b => price * a <= price * b
                                                  /\ price * (a + b) = price * a + price * b
  BY Parts, Products DEF Base, Shapes
<1>0. UsedBy(2) \in Nat /\ New(2) \in Nat /\ price * UsedBy(2) <= price * New(2)
        /\ price * UsedBy(2) \in Nat /\ price * New(2) \in Nat
  <2>1. UsedBy(2) \in Nat /\ New(2) \in Nat /\ UsedBy(2) <= New(2) BY UsedGrows, UsedByFacts
  <2> HIDE DEF New
  <2> QED BY <2>1, <1>p
<1>s. pc \in [Handlers -> Labels] /\ Shapes /\ IsFiniteSet(ledger)
      /\ \A row \in ledger : row.usd \in Nat
  BY DEF Base, Shapes, UsageRows, AnalysisRows, RefundRows
<1>w. /\ \A row \in ledger : row.by \in Hangups => row.usd <= price * UsedBy(2)
      /\ SumFunctionOnSet(Worth, D) <= price * SumFunctionOnSet(Tokens, Paid)
  BY DEF WithinLedger, Debits
<1>f. IsFiniteSet(D) /\ SumFunctionOnSet(Worth, D) \in Nat
  <2>1. D \in SUBSET ledger OBVIOUS
  <2> HIDE DEF D
  <2> QED BY <1>s, <2>1, FS_Subset, SumsAreNat
<1>g. /\ Paid \in SUBSET Counters /\ PaidNew \in SUBSET Counters
      /\ SumFunctionOnSet(Tokens, Paid) \in Nat /\ SumFunctionOnSet(Tokens, PaidNew) \in Nat
      /\ Paid \subseteq PaidNew => SumFunctionOnSet(Tokens, Paid) <= SumFunctionOnSet(Tokens, PaidNew)
  <2>1. Paid \in SUBSET Counters /\ PaidNew \in SUBSET Counters BY DEF Counters
  <2> HIDE DEF Paid, PaidNew
  <2> QED BY <2>1, TokensGrow
\* The debits of the analyses are the same, and no fewer have got past their charge.
<1>1. ASSUME DNew = D, Paid \subseteq PaidNew, \A row \in D : row \in ledger'
      PROVE  SumFunctionOnSet(WorthNew, DNew) <= price * SumFunctionOnSet(Tokens, PaidNew)
  <2>1. \A row \in D : WorthNew[row] = Worth[row] BY <1>1 DEF Worth
  <2> HIDE DEF D, DNew, WorthNew, Paid, PaidNew
  <2>2. SumFunctionOnSet(WorthNew, D) = SumFunctionOnSet(Worth, D) BY <1>f, <2>1, SumSame
  <2> DEFINE x == SumFunctionOnSet(Tokens, Paid)
             y == SumFunctionOnSet(Tokens, PaidNew)
  <2>3. x \in Nat /\ y \in Nat /\ x <= y BY <1>1, <1>g
  <2>4. SumFunctionOnSet(Worth, D) <= price * x BY <1>w
  <2> HIDE DEF x, y
  <2>5. price * x <= price * y /\ price * x \in Nat /\ price * y \in Nat BY <1>p, <2>3
  <2>6. SumFunctionOnSet(WorthNew, D) <= price * y BY <1>f, <2>2, <2>4, <2>5
  <2> QED BY <1>1, <2>6 DEF y
<1>2. CASE ChargedKept
  <2>1. ledger' = ledger /\ Paid \subseteq PaidNew BY <1>2 DEF ChargedKept
  <2>2. SumFunctionOnSet(WorthNew, DNew) <= price * SumFunctionOnSet(Tokens, PaidNew)
    <3>1. DNew = D /\ \A row \in D : row \in ledger' BY <2>1
    <3> QED BY <1>1, <2>1, <3>1
  <2>3. \A row \in ledger' : row.by \in Hangups => row.usd <= price * New(2)
    <3>1. \A row \in ledger' : row.by \in Hangups => row.usd <= price * UsedBy(2) /\ row.usd \in Nat
      BY <1>s, <1>w, <2>1
    <3> HIDE DEF New
    <3> QED BY <1>0, <3>1
  <2> QED BY <2>2, <2>3
<1>3. ASSUME NEW h \in Hangups, DebitUsage(h)
      PROVE  /\ \A row \in ledger' : row.by \in Hangups => row.usd <= price * New(2)
             /\ SumFunctionOnSet(WorthNew, DNew) <= price * SumFunctionOnSet(Tokens, PaidNew)
  <2>0. h \in Handlers /\ pc' = [pc EXCEPT ![h] = "closing"] /\ pc[h] = "debiting"
    BY <1>3, Parts DEF DebitUsage, Goto
  <2>1. ledger' = ledger \/ ledger' = ledger \cup
            {[key |-> UsageKey, dir |-> "debit", usd |-> bill[h].usage, by |-> h]}
    BY <1>3 DEF DebitUsage, Charge, UsageKey
  <2>2. Paid \subseteq PaidNew
    <3>1. h \notin Analyses BY Parts
    <3> QED BY <1>s, <2>0, <3>1
  <2>3. DNew = D /\ \A row \in D : row \in ledger'
    <3>1. h \notin Analyses BY Parts
    <3> QED BY <2>1, <3>1
  <2>4. bill[h].usage \in Nat /\ bill[h].usage <= price * UsedBy(2)
    <3>1. Read(h) = 2 /\ bill[h] \in Bill BY <2>0 DEF Read, Base, Shapes
    <3> QED BY <3>1 DEF WithinBills, Bill
  <2>5. \A row \in ledger' : row.by \in Hangups => row.usd <= price * UsedBy(2) /\ row.usd \in Nat
    BY <1>s, <1>w, <2>1, <2>4
  <2>6. \A row \in ledger' : row.by \in Hangups => row.usd <= price * New(2)
    <3> HIDE DEF New
    <3> QED BY <1>0, <2>5
  <2> QED BY <1>1, <2>2, <2>3, <2>6
<1>4. ASSUME NEW a \in Analyses, DebitAnalysis(a)
      PROVE  /\ \A row \in ledger' : row.by \in Hangups => row.usd <= price * New(2)
             /\ SumFunctionOnSet(WorthNew, DNew) <= price * SumFunctionOnSet(Tokens, PaidNew)
  <2>0. a \in Handlers /\ pc' = [pc EXCEPT ![a] = "storing"] /\ pc[a] = "debiting" /\ a \notin Hangups
    BY <1>4, Parts DEF DebitAnalysis, Goto
  <2> DEFINE row == [key |-> <<"usage_an", at[a]>>, dir |-> "debit", usd |-> CostOf(a), by |-> a]
  <2>1. \/ ledger' = ledger
        \/ ledger' = ledger \cup {row} /\ row \notin ledger
    <3>1. CASE CostOf(a) > 0
      <4>1. Charge(a, <<"usage_an", at[a]>>, CostOf(a)) BY <1>4, <3>1 DEF DebitAnalysis
      <4> QED BY <1>s, <2>0, <4>1, Charges
    <3> QED BY <1>4, <3>1 DEF DebitAnalysis
  <2>2. PaidNew = Paid \cup {a} /\ a \notin Paid BY <1>s, <2>0
  <2>3. \A r \in ledger' : r.by \in Hangups => r.usd <= price * New(2)
    <3>1. \A r \in ledger' : r.by \in Hangups => r.usd <= price * UsedBy(2) /\ r.usd \in Nat
      BY <1>s, <1>w, <2>0, <2>1
    <3> HIDE DEF New
    <3> QED BY <1>0, <3>1
  <2>4. CASE ledger' = ledger
    <3>1. DNew = D /\ (\A r \in D : r \in ledger') /\ Paid \subseteq PaidNew BY <2>2, <2>4
    <3> QED BY <1>1, <2>3, <3>1
  <2>5. CASE ledger' = ledger \cup {row} /\ row \notin ledger
    <3>1. DNew = D \cup {row} /\ row \notin D BY <2>5
    <3>2. \A r \in D : WorthNew[r] = Worth[r] /\ WorthNew[r] \in Nat BY <1>s, <2>5 DEF Worth
    <3>3. WorthNew[row] = price * Tokens[a] /\ Tokens[a] \in Nat
      <4>1. WorthNew[row] = row.usd BY <2>5
      <4>2. row.usd = CostOf(a) /\ CostOf(a) = price * Tokens[a] BY DEF CostOf
      <4>3. Tokens[a] \in Nat BY Parts
      <4> QED BY <4>1, <4>2, <4>3
    <3> HIDE DEF D, DNew, WorthNew, Paid, PaidNew, row
    <3>4. WorthNew[row] \in Nat BY <3>3, <1>p
    <3>5. SumFunctionOnSet(WorthNew, DNew) = WorthNew[row] + SumFunctionOnSet(Worth, D)
      <4>1. SumFunctionOnSet(WorthNew, D \cup {row}) = WorthNew[row] + SumFunctionOnSet(WorthNew, D)
        BY <1>f, <3>1, <3>2, <3>4, SumAdd
      <4>2. SumFunctionOnSet(WorthNew, D) = SumFunctionOnSet(Worth, D) BY <1>f, <3>2, SumSame
      <4> QED BY <3>1, <4>1, <4>2
    <3>6. SumFunctionOnSet(Tokens, PaidNew) = Tokens[a] + SumFunctionOnSet(Tokens, Paid)
      <4>1. IsFiniteSet(Paid) /\ \A q \in Paid \cup {a} : Tokens[q] \in Nat BY <1>g, Parts
      <4> QED BY <2>2, <4>1, SumAdd
    <3> DEFINE x == SumFunctionOnSet(Tokens, Paid)
               t == Tokens[a]
    <3>7. SumFunctionOnSet(Worth, D) <= price * x /\ x \in Nat /\ t \in Nat BY <1>g, <1>w, <3>3
    <3>8. SumFunctionOnSet(WorthNew, DNew) = price * t + SumFunctionOnSet(Worth, D)
             /\ SumFunctionOnSet(Tokens, PaidNew) = t + x
      BY <3>3, <3>5, <3>6
    <3> HIDE DEF x, t
    <3>9. price * (t + x) = price * t + price * x /\ price * t \in Nat /\ price * x \in Nat BY <1>p, <3>7
    <3>10. SumFunctionOnSet(WorthNew, DNew) <= price * (t + x) BY <1>f, <3>7, <3>8, <3>9
    <3>11. SumFunctionOnSet(WorthNew, DNew) <= price * SumFunctionOnSet(Tokens, PaidNew) BY <3>8, <3>10
    <3> QED BY <2>3, <3>11
  <2> QED BY <2>1, <2>4, <2>5
<1>5. ASSUME NEW d \in Deletions, DestroyReport(d)
      PROVE  /\ \A row \in ledger' : row.by \in Hangups => row.usd <= price * New(2)
             /\ SumFunctionOnSet(WorthNew, DNew) <= price * SumFunctionOnSet(Tokens, PaidNew)
  <2>0. d \in Handlers /\ pc' = [pc EXCEPT ![d] = "done"] /\ d \notin Hangups /\ d \notin Analyses
    BY <1>5, Parts DEF DestroyReport, Goto
  <2>1. \/ ledger' = ledger
        \/ \E row : ledger' = ledger \cup {row} /\ row.dir = "credit" /\ row.by = d
    BY <1>5 DEF DestroyReport
  <2>2. DNew = D /\ (\A row \in D : row \in ledger') /\ Paid \subseteq PaidNew BY <1>s, <2>0, <2>1
  <2>3. \A row \in ledger' : row.by \in Hangups => row.usd <= price * New(2)
    <3>1. \A row \in ledger' : row.by \in Hangups => row.usd <= price * UsedBy(2) /\ row.usd \in Nat
      BY <1>s, <1>w, <2>0, <2>1
    <3> HIDE DEF New
    <3> QED BY <1>0, <3>1
  <2> QED BY <1>1, <2>2, <2>3
<1> QED BY <1>2, <1>3, <1>4, <1>5, StepKinds DEF Kinds

------------------------
Within == WithinRecords /\ WithinBills /\ WithinLedger

LEMMA WithinHolds == Init => Within
<1> SUFFICES ASSUME Init PROVE Within OBVIOUS
<1>1. WithinRecords BY DEF Init, WithinRecords
<1>p. price # NoPrice => price \in Nat BY Parts DEF Init
<1>2. WithinBills
  <2> SUFFICES ASSUME price # NoPrice, NEW h \in Hangups PROVE bill[h].usage <= price * UsedBy(Read(h))
    BY DEF WithinBills
  <2>1. bill[h].usage = 0 /\ Read(h) = 2
    <3>1. h \in Handlers BY Parts
    <3> QED BY <3>1 DEF Init, NewBill, Read
  <2>2. price * UsedBy(2) \in Nat BY <1>p, UsedByFacts, Products
  <2> QED BY <2>1, <2>2
<1>3. WithinLedger
  <2> SUFFICES ASSUME price # NoPrice
               PROVE  Debits(Analyses) <=
                 price * SumFunctionOnSet(Tokens, {a \in Analyses : pc[a] \in {"storing", "done", "stopped"}})
    BY DEF Init, WithinLedger
  <2> DEFINE Paid == {a \in Analyses : pc[a] \in {"storing", "done", "stopped"}}
  <2>1. Debits(Analyses) = 0
    <3>1. {row \in ledger : row.dir = "debit" /\ row.by \in Analyses} = {} BY DEF Init
    <3> QED BY <3>1, SumEmpty DEF Debits
  <2>2. Paid \in SUBSET Counters BY DEF Counters
  <2> HIDE DEF Paid
  <2>3. SumFunctionOnSet(Tokens, Paid) \in Nat BY <2>2, TokensGrow
  <2>4. price * SumFunctionOnSet(Tokens, Paid) \in Nat BY <1>p, <2>3, Products
  <2>5. Debits(Analyses) <= price * SumFunctionOnSet(Tokens, Paid) BY <2>1, <2>4
  <2> QED BY <2>5 DEF Paid
<1> QED BY <1>1, <1>2, <1>3 DEF Within

LEMMA WithinKept == Base /\ Within /\ [Next]_vars => Within'
<1> SUFFICES ASSUME Base, Within, [Next]_vars PROVE Within' OBVIOUS
<1>1. CASE UNCHANGED vars
  BY <1>1 DEF vars, Within, WithinRecords, WithinBills, WithinLedger, Debits, Worth, UsedBy, Read, Begun, Of
<1>2. CASE Next BY <1>2, RecordsWithin, BillsWithin, LedgerWithin DEF Within
<1> QED BY <1>1, <1>2

\* The debit of the usages is at most one row.
LEMMA OneUsageDebit ==
    ASSUME Base
    PROVE  /\ \A row, other \in ledger : row.by \in Hangups /\ other.by \in Hangups => row = other
           /\ \A row \in ledger : row.by \in Hangups => row.dir = "debit" /\ row.key = UsageKey
           /\ \A row \in ledger : row.by \in Hangups => Debits(Hangups) = row.usd
           /\ (\A row \in ledger : row.by \notin Hangups) => Debits(Hangups) = 0
<1>1. \A row \in ledger : row.by \in Hangups => row.dir = "debit" /\ row.key = UsageKey
  BY Parts DEF Base, Shapes, UsageRows, AnalysisRows, RefundRows
<1>2. \A row, other \in ledger : row.by \in Hangups /\ other.by \in Hangups => row = other BY <1>1 DEF Base, Rows
<1> DEFINE D == {row \in ledger : row.dir = "debit" /\ row.by \in Hangups}
<1>3. ASSUME NEW row \in ledger, row.by \in Hangups PROVE Debits(Hangups) = row.usd
  <2>1. D = {} \cup {row} /\ row \notin {} BY <1>1, <1>2, <1>3
  <2>2. row.usd \in Nat BY DEF Base, Shapes, UsageRows, AnalysisRows, RefundRows
  <2>3. SumFunctionOnSet(Worth, {} \cup {row}) = Worth[row] + SumFunctionOnSet(Worth, {})
    <3>1. \A y \in {} \cup {row} : Worth[y] \in Nat BY <2>2 DEF Worth
    <3> HIDE DEF Worth
    <3> QED BY <3>1, SumAdd, FS_EmptySet
  <2>4. Worth[row] = row.usd BY DEF Worth
  <2>5. Debits(Hangups) = SumFunctionOnSet(Worth, {} \cup {row}) BY <2>1 DEF Debits
  <2> QED BY <2>2, <2>3, <2>4, <2>5, SumEmpty
<1>4. ASSUME \A row \in ledger : row.by \notin Hangups PROVE Debits(Hangups) = 0
  <2>1. D = {} BY <1>4
  <2> QED BY <2>1, SumEmpty DEF Debits
<1> QED BY <1>1, <1>2, <1>3, <1>4

\* The tenant is never charged for more tokens than the engines and the analyses
\* reported, whatever of a call overlaps, fails or is repeated.
THEOREM ChargesAreEarned == Spec => []NeverOvercharged
<1>1. Base /\ Within => NeverOvercharged
  <2> SUFFICES ASSUME Base, Within, price # NoPrice
               PROVE  /\ Debits(Hangups) <= price * SumFunctionOnSet(Tokens, Begun(Usages))
                      /\ Debits(Analyses) <= price * SumFunctionOnSet(Tokens, Begun(Analyses))
    BY DEF NeverOvercharged
  <2>p. price \in Nat /\ price * UsedBy(2) \in Nat BY Parts, UsedByFacts, Products DEF Base, Shapes
  <2>1. Debits(Hangups) <= price * UsedBy(2)
    <3>1. CASE \E row \in ledger : row.by \in Hangups BY <3>1, OneUsageDebit DEF Within, WithinLedger
    <3>2. CASE \A row \in ledger : row.by \notin Hangups BY <2>p, <3>2, OneUsageDebit
    <3> QED BY <3>1, <3>2
  <2>2. Debits(Analyses) <= price * SumFunctionOnSet(Tokens, Begun(Analyses))
    <3> DEFINE Paid == {a \in Analyses : pc[a] \in {"storing", "done", "stopped"}}
    <3>1. Paid \in SUBSET Begun(Analyses) /\ Begun(Analyses) \in SUBSET Counters BY DEF Begun, Counters
    <3>2. Debits(Analyses) <= price * SumFunctionOnSet(Tokens, Paid) BY DEF Within, WithinLedger
    <3>3. Debits(Analyses) \in Nat
      <4>1. {row \in ledger : row.dir = "debit" /\ row.by \in Analyses} \in SUBSET ledger OBVIOUS
      <4> QED BY <4>1, SumsAreNat DEF Base, Debits
    <3> DEFINE x == SumFunctionOnSet(Tokens, Paid)
               y == SumFunctionOnSet(Tokens, Begun(Analyses))
    <3> HIDE DEF Paid
    <3>4. x <= y /\ x \in Nat /\ y \in Nat BY <3>1, TokensGrow
    <3> HIDE DEF x, y
    <3>5. price * x <= price * y /\ price * x \in Nat /\ price * y \in Nat BY <2>p, <3>4, Products
    <3>6. Debits(Analyses) <= price * y BY <3>2, <3>3, <3>5 DEF x
    <3> QED BY <3>6 DEF y
  <2> QED BY <2>1, <2>2, UsedByFacts
<1>2. Base /\ Within /\ [Next]_vars => Base' /\ Within' BY BaseKept, WithinKept
<1>3. Init => Base /\ Within BY BaseHolds, WithinHolds
<1> QED BY <1>1, <1>2, <1>3, PTL DEF Spec

------------------------
Opening == cdr.state = "none" /\ UNCHANGED <<records, ledger, pc, at, bill, claim, faulty>>

\* Records are made, counted up and destroyed, and rows are added to the ledger, but
\* nothing of them is taken back while the CDR is there.
LEMMA RowsStay ==
    ASSUME Base, Next
    PROVE  /\ ledger \subseteq ledger'
           /\ CdrLive' => CdrLive \/ Opening
           /\ DOMAIN records \subseteq DOMAIN records'
           /\ \A i \in DOMAIN records :
                 /\ records'[i].type = records[i].type /\ records[i].tokens <= records'[i].tokens
                 /\ records'[i].tokens \in Nat
                 /\ records'[i].gone = records[i].gone \/ cdr'.state = "deleted"
<1> DEFINE Stay == /\ DOMAIN records \subseteq DOMAIN records'
                   /\ \A i \in DOMAIN records :
                         /\ records'[i].type = records[i].type /\ records[i].tokens <= records'[i].tokens
                         /\ records'[i].tokens \in Nat
                         /\ records'[i].gone = records[i].gone \/ cdr'.state = "deleted"
           Goal == ledger \subseteq ledger' /\ (CdrLive' => CdrLive \/ Opening) /\ Stay
<1>0. /\ \A i \in DOMAIN records : records[i].tokens \in Nat
      /\ cdr \in [state : {"none", "live", "deleted"}, tokens : Nat, cost : Nat]
  BY RecordFacts DEF Base, Shapes, Record
<1>s. records' = records => Stay BY <1>0
<1>c. ASSUME CreateCdr PROVE Goal
  <2>1. records' = records /\ ledger' = ledger /\ Opening BY <1>c DEF CreateCdr, Opening
  <2> HIDE DEF Stay
  <2> QED BY <1>s, <2>1
<1>1. ASSUME NEW u \in Usages, ReportUsage(u) PROVE Goal
  <2>1. records' = records /\ ledger' = ledger /\ cdr' = cdr BY <1>1 DEF ReportUsage
  <2> HIDE DEF Stay
  <2> QED BY <1>s, <2>1 DEF CdrLive
<1>2. ASSUME NEW p \in Usages \cup Analyses, FindRecord(p) PROVE Goal
  <2>1. records' = records /\ ledger' = ledger /\ cdr' = cdr BY <1>2 DEF FindRecord
  <2> HIDE DEF Stay
  <2> QED BY <1>s, <2>1 DEF CdrLive
<1>3. ASSUME NEW p \in Usages \cup Analyses, CreateRecord(p) PROVE Goal
  <2>1. ledger' = ledger /\ cdr' = cdr BY <1>3 DEF CreateRecord
  <2>2. DOMAIN records \subseteq DOMAIN records' /\ \A i \in DOMAIN records : records'[i] = records[i]
    <3>1. records \in Seq(Record) /\ Len(records) \in Nat BY RecordFacts DEF Base, Shapes
    <3>2. records' = Append(records, [type |-> TypeOf(p), tokens |-> 0, cost |-> 0, gone |-> FALSE])
      BY <1>3 DEF CreateRecord
    <3> QED BY <3>1, <3>2
  <2>3. Stay BY <1>0, <2>2
  <2> HIDE DEF Stay
  <2> QED BY <2>1, <2>3 DEF CdrLive
<1>4. ASSUME NEW p \in Usages \cup Analyses, IncrementRecord(p) PROVE Goal
  <2>1. ledger' = ledger /\ cdr' = cdr BY <1>4 DEF IncrementRecord
  <2>2. Stay
    <3>1. \A i \in DOMAIN records : records[i].tokens <= records'[i].tokens /\ records'[i].tokens \in Nat
      <4>1. ASSUME NEW i \in DOMAIN records, i # at[p] \/ records[i].gone
            PROVE  records[i].tokens <= records'[i].tokens /\ records'[i].tokens \in Nat
        BY <1>0, <1>4, <4>1, RecordIncremented
      <4>2. ~records[at[p]].gone => records[at[p]].tokens <= records'[at[p]].tokens /\ records'[at[p]].tokens \in Nat
        BY <1>0, <1>4, RecordIncremented
      <4> QED BY <4>1, <4>2
    <3> QED BY <1>4, <3>1, RecordIncremented
  <2> HIDE DEF Stay
  <2> QED BY <2>1, <2>2 DEF CdrLive
<1>5. ASSUME NEW p \in Usages \cup Analyses, IncrementCdr(p) PROVE Goal
  <2>1. records' = records /\ ledger' = ledger /\ (CdrLive' => CdrLive) BY <1>0, <1>5 DEF IncrementCdr, CdrLive
  <2> HIDE DEF Stay
  <2> QED BY <1>s, <2>1
<1>6. ASSUME NEW h \in Hangups, BeginHangup(h) \/ BeginFinalize(h) \/ ReadRecord(h) \/ ReadAnalytic(h)
                                \/ FinalizeFails(h)
      PROVE  Goal
  <2>1. records' = records /\ ledger' = ledger /\ cdr' = cdr
    BY <1>6 DEF BeginHangup, BeginFinalize, ReadRecord, ReadAnalytic, FinalizeFails
  <2> HIDE DEF Stay
  <2> QED BY <1>s, <2>1 DEF CdrLive
<1>7. ASSUME NEW h \in Hangups, SaveCost(h) PROVE Goal
  <2>1. ledger' = ledger /\ cdr' = cdr BY <1>7 DEF SaveCost
  <2>2. Stay BY <1>0, <1>7, RecordSaved
  <2> HIDE DEF Stay
  <2> QED BY <2>1, <2>2 DEF CdrLive
<1>8. ASSUME NEW h \in Hangups, UpdateCdr(h) \/ CloseCdr(h) PROVE Goal
  <2>1. records' = records /\ ledger' = ledger /\ (CdrLive' => CdrLive)
    BY <1>0, <1>8 DEF UpdateCdr, CloseCdr, CdrLive
  <2> HIDE DEF Stay
  <2> QED BY <1>s, <2>1
<1>9. ASSUME NEW h \in Hangups, DebitUsage(h) PROVE Goal
  <2>1. records' = records /\ ledger \subseteq ledger' /\ cdr' = cdr BY <1>9 DEF DebitUsage, Charge
  <2> HIDE DEF Stay
  <2> QED BY <1>s, <2>1 DEF CdrLive
<1>10. ASSUME NEW a \in Analyses, Analyse(a) \/ ChargeFails(a) \/ StoreAnalysis(a) PROVE Goal
  <2>1. records' = records /\ ledger' = ledger /\ cdr' = cdr BY <1>10 DEF Analyse, ChargeFails, StoreAnalysis
  <2> HIDE DEF Stay
  <2> QED BY <1>s, <2>1 DEF CdrLive
<1>11. ASSUME NEW a \in Analyses, DebitAnalysis(a) PROVE Goal
  <2>1. records' = records /\ ledger \subseteq ledger' /\ cdr' = cdr BY <1>11 DEF DebitAnalysis, Charge
  <2> HIDE DEF Stay
  <2> QED BY <1>s, <2>1 DEF CdrLive
<1>12. ASSUME NEW d \in Deletions, FindReport(d) \/ SumRecords(d) \/ Credit(d) PROVE Goal
  <2>1. records' = records /\ ledger' = ledger /\ cdr' = cdr BY <1>12 DEF FindReport, SumRecords, Credit
  <2> HIDE DEF Stay
  <2> QED BY <1>s, <2>1 DEF CdrLive
<1>13. ASSUME NEW d \in Deletions, DestroyReport(d) PROVE Goal
  <2>1. ledger \subseteq ledger' /\ cdr'.state = "deleted" BY <1>0, <1>13 DEF DestroyReport
  <2>2. DOMAIN records' = DOMAIN records /\ \A i \in DOMAIN records :
           records'[i].type = records[i].type /\ records'[i].tokens = records[i].tokens
    BY <1>13, RecordFacts DEF DestroyReport, Record, Base
  <2>3. Stay BY <1>0, <2>1, <2>2
  <2> HIDE DEF Stay
  <2> QED BY <2>1, <2>3 DEF CdrLive
<1>14. ASSUME NEW p \in Handlers, Stop(p) PROVE Goal
  <2>1. records' = records /\ ledger' = ledger /\ cdr' = cdr BY <1>14 DEF Stop
  <2> HIDE DEF Stay
  <2> QED BY <1>s, <2>1 DEF CdrLive
<1> HIDE DEF Goal
<1>16. Goal
  BY <1>c, <1>1, <1>2, <1>3, <1>4, <1>5, <1>6, <1>7, <1>8, <1>9, <1>10, <1>11, <1>12, <1>13, <1>14 DEF Next
<1> QED BY <1>16 DEF Goal

\* The steps of one hangup, and what the other handlers leave of it.
HangupStep(h) ==
    \/ BeginHangup(h) \/ BeginFinalize(h) \/ ReadRecord(h) \/ SaveCost(h) \/ ReadAnalytic(h)
    \/ UpdateCdr(h) \/ DebitUsage(h) \/ FinalizeFails(h) \/ CloseCdr(h) \/ Stop(h)

LEMMA HangupAlone ==
    ASSUME Base, Next, NEW h \in Hangups
    PROVE  \/ HangupStep(h)
           \/ /\ pc'[h] = pc[h] /\ bill'[h] = bill[h]
              /\ \A row \in ledger' : row.by = h => row \in ledger
<1> DEFINE Left == /\ pc'[h] = pc[h] /\ bill'[h] = bill[h]
                   /\ \A row \in ledger' : row.by = h => row \in ledger
<1>0. /\ pc \in [Handlers -> Labels] /\ bill \in [Hangups -> Bill] /\ h \in Handlers /\ h \notin Counters
      /\ Usages \subseteq Counters /\ Analyses \subseteq Counters /\ h \notin Deletions
  BY Parts DEF Base, Shapes
<1>1. ASSUME ledger' = ledger, bill' = bill, NEW p \in Handlers, p # h,
             pc' = pc \/ \E l : pc' = [pc EXCEPT ![p] = l]
      PROVE  Left
  BY <1>0, <1>1
<1>c. CASE CreateCdr BY <1>c DEF CreateCdr
<1>2. ASSUME NEW u \in Usages, ReportUsage(u) PROVE Left
  <2>1. u \in Handlers /\ u # h /\ \E l : pc' = [pc EXCEPT ![u] = l] BY <1>0, <1>2, Parts DEF ReportUsage, Goto
  <2> QED BY <1>1, <1>2, <2>1 DEF ReportUsage
<1>3. ASSUME NEW p \in Usages \cup Analyses, FindRecord(p) \/ CreateRecord(p) \/ IncrementRecord(p) \/ IncrementCdr(p)
      PROVE  Left
  <2>1. p \in Handlers /\ p # h /\ \E l : pc' = [pc EXCEPT ![p] = l]
    BY <1>0, <1>3, Parts DEF FindRecord, CreateRecord, IncrementRecord, IncrementCdr, Goto
  <2> QED BY <1>1, <1>3, <2>1 DEF FindRecord, CreateRecord, IncrementRecord, IncrementCdr
<1>4. ASSUME NEW a \in Analyses, Analyse(a) \/ ChargeFails(a) \/ StoreAnalysis(a) PROVE Left
  <2>1. a \in Handlers /\ a # h /\ \E l : pc' = [pc EXCEPT ![a] = l]
    BY <1>0, <1>4, Parts DEF Analyse, ChargeFails, StoreAnalysis, Goto
  <2> QED BY <1>1, <1>4, <2>1 DEF Analyse, ChargeFails, StoreAnalysis
<1>5. ASSUME NEW a \in Analyses, DebitAnalysis(a) PROVE Left
  <2>1. a # h /\ pc'[h] = pc[h] /\ bill' = bill BY <1>0, <1>5, Parts DEF DebitAnalysis, Goto
  <2>2. ledger' = ledger \/ \E row : ledger' = ledger \cup {row} /\ row.by = a BY <1>5 DEF DebitAnalysis, Charge
  <2> QED BY <2>1, <2>2
<1>6. ASSUME NEW d \in Deletions, FindReport(d) \/ SumRecords(d) \/ Credit(d) PROVE Left
  <2>1. d \in Handlers /\ d # h /\ \E l : pc' = [pc EXCEPT ![d] = l]
    BY <1>0, <1>6, Parts DEF FindReport, SumRecords, Credit, Goto
  <2> QED BY <1>1, <1>6, <2>1 DEF FindReport, SumRecords, Credit
<1>7. ASSUME NEW d \in Deletions, DestroyReport(d) PROVE Left
  <2>1. d # h /\ pc'[h] = pc[h] /\ bill' = bill BY <1>0, <1>7, Parts DEF DestroyReport, Goto
  <2>2. ledger' = ledger \/ \E row : ledger' = ledger \cup {row} /\ row.by = d BY <1>7 DEF DestroyReport
  <2> QED BY <2>1, <2>2
<1>8. ASSUME NEW p \in Handlers, p # h, Stop(p) PROVE Left
  <2>1. \E l : pc' = [pc EXCEPT ![p] = l] BY <1>8 DEF Stop, Goto
  <2> QED BY <1>1, <1>8, <2>1 DEF Stop
<1>9. ASSUME NEW g \in Hangups, g # h, BeginHangup(g) \/ BeginFinalize(g) \/ ReadRecord(g) \/ SaveCost(g)
                \/ ReadAnalytic(g) \/ UpdateCdr(g) \/ FinalizeFails(g) \/ CloseCdr(g)
      PROVE  Left
  <2>1. g \in Handlers /\ ledger' = ledger
    BY <1>9, Parts DEF BeginHangup, BeginFinalize, ReadRecord, SaveCost, ReadAnalytic, UpdateCdr,
                       FinalizeFails, CloseCdr
  <2>2. (\E l : pc' = [pc EXCEPT ![g] = l]) \/ pc' = pc
    BY <1>9 DEF BeginHangup, BeginFinalize, ReadRecord, SaveCost, ReadAnalytic, UpdateCdr,
                FinalizeFails, CloseCdr, Goto
  <2>3. (\E b : bill' = [bill EXCEPT ![g] = b]) \/ bill' = bill
    BY <1>9 DEF BeginHangup, BeginFinalize, ReadRecord, SaveCost, ReadAnalytic, UpdateCdr,
                FinalizeFails, CloseCdr
  <2> QED BY <1>0, <1>9, <2>1, <2>2, <2>3
<1>10. ASSUME NEW g \in Hangups, g # h, DebitUsage(g) PROVE Left
  <2>1. pc'[h] = pc[h] /\ bill' = bill BY <1>0, <1>10, Parts DEF DebitUsage, Goto
  <2>2. ledger' = ledger \/ \E row : ledger' = ledger \cup {row} /\ row.by = g
    <3>1. ledger' = ledger \/ ledger' = ledger \cup
              {[key |-> UsageKey, dir |-> "debit", usd |-> bill[g].usage, by |-> g]}
      BY <1>10 DEF DebitUsage, Charge, UsageKey
    <3> QED BY <3>1
  <2> QED BY <1>10, <2>1, <2>2
<1>11. CASE HangupStep(h) BY <1>11
<1>12. HangupStep(h) \/ Left
  <2> HIDE DEF Left
  <2>1. CASE CreateCdr BY <1>c, <2>1 DEF Left
  <2>2. ASSUME NEW g \in Hangups, BeginHangup(g) \/ BeginFinalize(g) \/ ReadRecord(g) \/ SaveCost(g)
                \/ ReadAnalytic(g) \/ UpdateCdr(g) \/ FinalizeFails(g) \/ CloseCdr(g) \/ DebitUsage(g)
        PROVE  HangupStep(h) \/ Left
    BY <1>9, <1>10, <2>2 DEF HangupStep
  <2>3. ASSUME NEW p \in Handlers, Stop(p) PROVE HangupStep(h) \/ Left BY <1>8, <2>3 DEF HangupStep
  <2> QED BY <2>1, <2>2, <2>3, <1>2, <1>3, <1>4, <1>5, <1>6, <1>7 DEF Next
<1> QED BY <1>12

------------------------
LEMMA KeptNat == Base => \A type : Kept(type) \in Nat /\ Found(type) \subseteq DOMAIN records
<1> SUFFICES ASSUME Base, NEW type PROVE Kept(type) \in Nat /\ Found(type) \subseteq DOMAIN records OBVIOUS
<1>1. Found(type) \in SUBSET DOMAIN records BY DEF Found
<1> QED BY <1>1, SumsAreNat DEF Base, Kept

LEMMA UnreadIs ==
    Base => /\ Unread(3) = 0 /\ Unread(2) = Kept("non-realtime")
            /\ Unread(1) = Kept("realtime") + Kept("non-realtime")
            /\ \A k \in 1 .. 3 : Unread(k) \in Nat
<1> SUFFICES ASSUME Base
             PROVE  /\ Unread(3) = 0 /\ Unread(2) = Kept("non-realtime")
                    /\ Unread(1) = Kept("realtime") + Kept("non-realtime")
                    /\ \A k \in 1 .. 3 : Unread(k) \in Nat
  OBVIOUS
<1>1. Kept("realtime") \in Nat /\ Kept("non-realtime") \in Nat BY KeptNat
<1> HIDE DEF Kept
<1>2. /\ Unread(3) = 0 /\ Unread(2) = Kept("non-realtime")
      /\ Unread(1) = Kept("realtime") + Kept("non-realtime")
  BY <1>1 DEF Unread
<1>3. \A k \in 1 .. 3 : k = 1 \/ k = 2 \/ k = 3 OBVIOUS
<1>4. \A k \in 1 .. 3 : Unread(k) \in Nat BY <1>1, <1>2, <1>3
<1> QED BY <1>2, <1>4

LEMMA RecordsAreFinite ==
    Base => \A S : /\ S \subseteq DOMAIN records => IsFiniteSet(S)
                  /\ \A i \in DOMAIN records : records[i].tokens \in Nat
  BY RecordFacts DEF Base, Record

LEMMA RecordsStayFinite ==
    (Base => \A S : /\ S \subseteq DOMAIN records => IsFiniteSet(S)
                   /\ \A i \in DOMAIN records : records[i].tokens \in Nat)'
  BY RecordsAreFinite, PTL

\* What the records of a live call hold only grows.
LEMMA KeptGrows ==
    ASSUME Base, Next, CdrLive, CdrLive'
    PROVE  /\ \A type : Found(type) \subseteq Found(type)' /\ Kept(type) <= Kept(type)'
           /\ \A k \in 1 .. 3 : Unread(k) \in Nat /\ Unread(k)' \in Nat /\ Unread(k) <= Unread(k)'
<1>b. Base' BY BaseKept
<1>1. ASSUME NEW type PROVE Found(type) \subseteq Found(type)' /\ Kept(type) <= Kept(type)'
                            /\ Kept(type) \in Nat /\ Kept(type)' \in Nat
  <2> DEFINE New == {i \in DOMAIN records' : records'[i].type = type /\ ~records'[i].gone}
             f == Counted
             g == [i \in DOMAIN records' |-> records'[i].tokens]
  <2>1. cdr'.state # "deleted" BY DEF CdrLive
  <2>2. Found(type) \subseteq New BY <2>1, RowsStay DEF Found
  <2>3. IsFiniteSet(New) /\ \A i \in New : g[i] \in Nat
    <3>1. \A S : /\ S \subseteq DOMAIN records' => IsFiniteSet(S)
                 /\ \A i \in DOMAIN records' : records'[i].tokens \in Nat
      BY <1>b, RecordsStayFinite
    <3> QED BY <3>1
  <2>4. \A i \in Found(type) : f[i] \in Nat /\ f[i] <= g[i]
    <3>1. \A i \in DOMAIN records : records[i].tokens \in Nat BY RecordFacts DEF Base, Record
    <3>2. \A i \in Found(type) : i \in DOMAIN records /\ i \in DOMAIN records'
             /\ records[i].tokens <= records'[i].tokens
      BY RowsStay DEF Found
    <3> QED BY <3>1, <3>2 DEF Counted
  <2>5. Kept(type)' = SumFunctionOnSet(g, New) /\ Found(type)' = New BY DEF Kept, Found, Counted
  <2>6. Kept(type) = SumFunctionOnSet(f, Found(type)) /\ Kept(type) \in Nat BY KeptNat DEF Kept
  <2> HIDE DEF New, f, g
  <2>7. SumFunctionOnSet(f, Found(type)) <= SumFunctionOnSet(g, New) /\ SumFunctionOnSet(g, New) \in Nat
    BY <2>2, <2>3, <2>4, SumGrows, SumTakeOut
  <2> QED BY <2>2, <2>5, <2>6, <2>7
<1>2. /\ Unread(3)' = 0 /\ Unread(2)' = Kept("non-realtime")'
      /\ Unread(1)' = Kept("realtime")' + Kept("non-realtime")'
  <2>1. Kept("realtime")' \in Nat /\ Kept("non-realtime")' \in Nat BY <1>1
  <2> HIDE DEF Kept
  <2> QED BY <2>1 DEF Unread
<1>3. \A k \in 1 .. 3 : k = 1 \/ k = 2 \/ k = 3 OBVIOUS
<1> HIDE DEF Kept, Unread
<1>4. Kept("realtime") <= Kept("realtime")' /\ Kept("non-realtime") <= Kept("non-realtime")'
        /\ Kept("realtime") \in Nat /\ Kept("non-realtime") \in Nat
        /\ Kept("realtime")' \in Nat /\ Kept("non-realtime")' \in Nat
  BY <1>1
<1>5. \A k \in 1 .. 3 : Unread(k) \in Nat /\ Unread(k)' \in Nat /\ Unread(k) <= Unread(k)'
  <2>1. Unread(1) \in Nat /\ Unread(1)' \in Nat /\ Unread(1) <= Unread(1)' BY <1>2, <1>4, UnreadIs
  <2>2. Unread(2) \in Nat /\ Unread(2)' \in Nat /\ Unread(2) <= Unread(2)' BY <1>2, <1>4, UnreadIs
  <2>3. Unread(3) \in Nat /\ Unread(3)' \in Nat /\ Unread(3) <= Unread(3)' BY <1>2, UnreadIs
  <2> QED BY <1>3, <2>1, <2>2, <2>3
<1> QED BY <1>1, <1>5

\* A type that has one record now had no more before.
LEMMA OneTypeBefore ==
    ASSUME Base, Next, CdrLive, CdrLive', OneRecordPerType'
    PROVE  OneRecordPerType
<1> SUFFICES ASSUME NEW type \in Types PROVE Cardinality(Found(type)) <= 1 BY DEF OneRecordPerType, Types
<1>1. Base' BY BaseKept
<1>3. \A S : S \subseteq DOMAIN records' => IsFiniteSet(S) BY <1>1, RecordsStayFinite
<1>4. IsFiniteSet(Found(type)') /\ Found(type) \subseteq Found(type)'
  <2>1. Found(type)' \subseteq DOMAIN records' BY DEF Found
  <2> QED BY <1>1, <1>3, <2>1, KeptGrows
<1>5. Cardinality(Found(type)') <= 1 BY DEF OneRecordPerType, Types
<1> DEFINE S == Found(type)
           T == Found(type)'
<1> HIDE DEF S, T
<1>6. Cardinality(S) <= Cardinality(T) /\ Cardinality(S) \in Nat /\ Cardinality(T) \in Nat
  BY <1>4, FS_Subset, FS_CardinalityType DEF S, T
<1>7. Cardinality(T) <= 1 BY <1>5 DEF T
<1>8. Cardinality(S) <= 1 BY <1>6, <1>7
<1> QED BY <1>8 DEF S

\* With one record per type, what is read of a type is all it holds.
LEMMA ReadAll ==
    ASSUME Base, OneRecordPerType, NEW type \in Types
    PROVE  /\ \A i \in Found(type) : Kept(type) = records[i].tokens
           /\ Found(type) = {} => Kept(type) = 0
<1>1. IsFiniteSet(Found(type)) /\ Cardinality(Found(type)) <= 1
  BY RecordFacts DEF Found, Base, OneRecordPerType, Types
<1>2. ASSUME NEW i \in Found(type) PROVE Kept(type) = records[i].tokens
  <2>1. Found(type) = {} \cup {i}
    <3> DEFINE S == Found(type)
    <3> HIDE DEF S
    <3>1. ASSUME NEW j \in S, j # i PROVE FALSE
      <4>1. IsFiniteSet({i, j}) /\ Cardinality({i, j}) = 2
        <5>1. IsFiniteSet({i}) /\ Cardinality({i}) = 1 /\ j \notin {i} BY <3>1, FS_Singleton
        <5>2. Cardinality({i} \cup {j}) = Cardinality({i}) + 1 /\ IsFiniteSet({i} \cup {j}) BY <5>1, FS_AddElement
        <5>3. {i, j} = {i} \cup {j} OBVIOUS
        <5> QED BY <5>1, <5>2, <5>3
      <4>2. {i, j} \subseteq S BY <1>2, <3>1 DEF S
      <4>3. Cardinality({i, j}) <= Cardinality(S) /\ Cardinality(S) <= 1 /\ Cardinality(S) \in Nat
        BY <1>1, <4>2, FS_Subset, FS_CardinalityType DEF S
      <4> QED BY <4>1, <4>3
    <3> QED BY <1>2, <3>1 DEF S
  <2>2. Counted[i] = records[i].tokens /\ Counted[i] \in Nat BY RecordFacts DEF Found, Counted, Base, Record
  <2>3. SumFunctionOnSet(Counted, {} \cup {i}) = Counted[i] + SumFunctionOnSet(Counted, {})
    <3>1. \A y \in {} \cup {i} : Counted[y] \in Nat BY <2>2
    <3> QED BY <3>1, SumAdd, FS_EmptySet
  <2>4. SumFunctionOnSet(Counted, {}) = 0 BY SumEmpty
  <2>5. Kept(type) = SumFunctionOnSet(Counted, {} \cup {i}) BY <2>1 DEF Kept
  <2> QED BY <2>2, <2>3, <2>4, <2>5
<1>3. Found(type) = {} => Kept(type) = 0 BY SumEmpty DEF Kept
<1> QED BY <1>2, <1>3

------------------------
\* The charge of a hangup stays complete.
LEMMA CompleteKept ==
    ASSUME Base, Next, CdrLive, CdrLive', OneRecordPerType, NEW h \in Hangups, Complete(h)
    PROVE  Complete(h)'
<1> DEFINE New(k) == Unread(k)'
           Enough == price' * bill'[h].due <= bill'[h].usage + price' * (Unread(Read(h) + 1)')
           Reading == {"reading", "saving", "totalled", "debiting"}
           Charged == \E row \in ledger : row.key = UsageKey
           ChargedNew == \E row \in ledger' : row.key = UsageKey
<1>p. price' = price /\ faulty \subseteq faulty' /\ ledger \subseteq ledger' BY OneMoves, RowsStay DEF Base
<1>s. /\ pc \in [Handlers -> Labels] /\ h \in Handlers /\ bill[h] \in Bill /\ bill \in [Hangups -> Bill]
      /\ Billing(h) /\ bill[h].due \in Nat /\ bill[h].usage \in Nat
  BY Parts DEF Base, Shapes, Bill
<1>w. price # NoPrice => price \in Nat BY Parts DEF Base, Shapes
<1>c. /\ pc[h] \in Reading => price * bill[h].due <= bill[h].usage + price * Unread(Read(h) + 1)
      /\ pc[h] \in {"closing", "done"} /\ h \notin faulty /\ price # NoPrice /\ price * bill[h].due > 0
            => Charged
      /\ \A row \in ledger : row.by = h => row.usd >= price * bill[h].due
  BY DEF Complete
<1>g. \A k \in 1 .. 3 : Unread(k) \in Nat /\ New(k) \in Nat /\ Unread(k) <= New(k) BY KeptGrows
<1>n. \A k \in 1 .. 3 : Read(h)' + 1 = k => Unread(Read(h) + 1)' = New(k) BY DEF Unread
<1>u. \A row \in ledger : row.by = h => pc[h] \in {"closing", "done", "stopped"} BY DEF Base, Rows
<1> HIDE DEF New
<1>1. ASSUME NEW k \in 1 .. 3, Read(h)' + 1 = k, price # NoPrice,
             bill'[h].due \in Nat, bill'[h].usage \in Nat,
             price * bill'[h].due <= bill'[h].usage + price * Unread(k)
      PROVE  Enough
  <2>1. price * Unread(k) <= price * New(k) /\ price * Unread(k) \in Nat /\ price * New(k) \in Nat
          /\ price * bill'[h].due \in Nat
    BY <1>1, <1>g, <1>w, Products
  <2>2. Unread(Read(h) + 1)' = New(k) BY <1>1, <1>n
  <2> DEFINE x == price * Unread(k)
             y == price * New(k)
             z == price * bill'[h].due
  <2>3. x <= y /\ x \in Nat /\ y \in Nat /\ z \in Nat /\ z <= bill'[h].usage + x BY <1>1, <2>1
  <2> HIDE DEF x, y, z
  <2>4. z <= bill'[h].usage + y BY <1>1, <2>3
  <2> QED BY <1>p, <2>2, <2>4 DEF y, z
<1>2. ASSUME pc'[h] \in Reading => Enough,
             pc'[h] \in {"closing", "done"} /\ h \notin faulty' /\ price # NoPrice /\ price * bill'[h].due > 0
               => ChargedNew,
             \A row \in ledger' : row.by = h => row.usd >= price * bill'[h].due
      PROVE  Complete(h)'
  BY <1>2, <1>p DEF Complete
\* The step leaves the locals that are compared.
<1>3. ASSUME pc[h] \in Reading, bill'[h].due = bill[h].due, bill'[h].usage = bill[h].usage,
             Read(h)' = Read(h)
      PROVE  Enough
  <2>1. price # NoPrice /\ Read(h) + 1 \in 1 .. 3
    <3>1. Read(h) \in 0 .. 2 BY ReadIs
    <3>2. price # NoPrice BY <1>3, <1>s DEF Billing
    <3> QED BY <3>1, <3>2
  <2> HIDE DEF Enough
  <2> QED BY <1>1, <1>3, <1>c, <1>s, <2>1
<1>4. ASSUME pc'[h] = pc[h], bill'[h] = bill[h], \A row \in ledger' : row.by = h => row \in ledger
      PROVE  Complete(h)'
  <2>1. Read(h)' = Read(h) BY <1>4 DEF Read
  <2>2. pc'[h] \in Reading => Enough
    <3> HIDE DEF Enough
    <3> QED BY <1>3, <1>4, <2>1
  <2> HIDE DEF Enough
  <2> QED BY <1>2, <1>4, <1>c, <1>p, <2>2
\* A step before the charge leaves the ledger, which holds no row of the hangup.
<1>5. ASSUME ledger' = ledger, pc[h] \notin {"closing", "done", "stopped"},
             pc'[h] \in Reading => Enough,
             pc'[h] \in {"closing", "done"} => h \in faulty' \/ price = NoPrice
      PROVE  Complete(h)'
  <2>1. \A row \in ledger' : row.by # h BY <1>5, <1>u
  <2> HIDE DEF Enough
  <2> QED BY <1>2, <1>5, <2>1
<1>6. CASE BeginHangup(h)
  <2>1. pc'[h] \in {"found", "stopped"} /\ pc[h] = "idle" /\ ledger' = ledger BY <1>6, <1>s DEF BeginHangup, Goto
  <2> HIDE DEF Enough
  <2> QED BY <1>5, <2>1
<1>7. CASE BeginFinalize(h)
  <2> DEFINE due == SumFunctionOnSet(Counted, UNION {Found(type) : type \in CallTypes})
  <2>0. pc[h] = "found" /\ ledger' = ledger BY <1>7 DEF BeginFinalize
  <2>1. \/ price = NoPrice /\ pc'[h] = "closing"
        \/ /\ price # NoPrice /\ pc'[h] = "reading"
           /\ bill'[h] = [bill[h] EXCEPT !.reloaded = cdr.cost, !.due = due]
    BY <1>7, <1>s DEF BeginFinalize, Goto
  <2>2. due = Kept("realtime") + Kept("non-realtime") /\ due \in Nat
    <3> DEFINE A == Found("realtime")
               B == Found("non-realtime")
    <3>1. UNION {Found(type) : type \in CallTypes} = A \cup B BY DEF CallTypes
    <3>2. A \cap B = {} /\ A \in SUBSET DOMAIN records /\ B \in SUBSET DOMAIN records BY DEF Found
    <3>3. IsFiniteSet(A) /\ IsFiniteSet(B) /\ \A i \in A \cup B : Counted[i] \in Nat
      BY <3>2, RecordsAreFinite DEF Counted
    <3>4. Kept("realtime") = SumFunctionOnSet(Counted, A) /\ Kept("non-realtime") = SumFunctionOnSet(Counted, B)
      BY DEF Kept
    <3> HIDE DEF A, B
    <3>5. SumFunctionOnSet(Counted, A \cup B) = SumFunctionOnSet(Counted, A) + SumFunctionOnSet(Counted, B)
      BY <3>2, <3>3, SumSplit
    <3>6. SumFunctionOnSet(Counted, A) \in Nat /\ SumFunctionOnSet(Counted, B) \in Nat BY <3>3, SumTakeOut
    <3>7. due = SumFunctionOnSet(Counted, A \cup B) BY <3>1
    <3> HIDE DEF due
    <3> QED BY <3>4, <3>5, <3>6, <3>7
  <2> HIDE DEF due
  <2>3. CASE /\ price # NoPrice /\ pc'[h] = "reading"
             /\ bill'[h] = [bill[h] EXCEPT !.reloaded = cdr.cost, !.due = due]
    <3>1. bill[h].usage = 0 /\ bill[h].stage = 1 BY <1>s, <2>0 DEF Billing, NewBill
    <3>2. bill'[h].usage = 0 /\ bill'[h].stage = 1 /\ bill'[h].due = due BY <1>s, <2>3, <3>1 DEF Bill
    <3>3. Read(h)' + 1 = 1 BY <2>3, <3>2 DEF Read
    <3>4. Unread(1) = due BY <2>2, UnreadIs
    <3>5. price * due \in Nat BY <1>w, <2>2, <2>3, Products
    <3>6. price * bill'[h].due <= bill'[h].usage + price * Unread(1) BY <3>2, <3>4, <3>5
    <3> HIDE DEF Enough
    <3>7. Enough BY <1>1, <2>2, <2>3, <3>2, <3>3, <3>6
    <3> QED BY <1>5, <2>0, <2>3, <3>7
  <2>4. CASE price = NoPrice /\ pc'[h] = "closing"
    <3> HIDE DEF Enough
    <3> QED BY <1>5, <2>0, <2>4
  <2> QED BY <2>1, <2>3, <2>4
<1>8. CASE ReadRecord(h)
  <2> DEFINE k == bill[h].stage
  <2>0. pc[h] = "reading" /\ ledger' = ledger /\ price # NoPrice BY <1>8, <1>s DEF ReadRecord, Billing
  <2>1. k \in 1 .. 2 /\ RecordTypes[k] \in Types
    <3>1. RecordTypes[1] = "realtime" /\ RecordTypes[2] = "non-realtime" /\ RecordTypes[3] = "analytic"
      BY DEF RecordTypes
    <3>2. RecordTypes[k] # "analytic" BY <1>8 DEF ReadRecord
    <3>3. k \in 1 .. 3 /\ k # 3 BY <1>s, <3>1, <3>2 DEF Bill
    <3> HIDE DEF k
    <3>4. k = 1 \/ k = 2 BY <3>3
    <3> QED BY <3>1, <3>4 DEF Types, CallTypes
  <2>2. Read(h) + 1 = k BY <2>0, <2>1 DEF Read
  <2>3. Unread(k) = Kept(RecordTypes[k]) + Unread(k + 1) /\ Unread(k) \in Nat /\ Unread(k + 1) \in Nat
    <3>1. RecordTypes[1] = "realtime" /\ RecordTypes[2] = "non-realtime" BY DEF RecordTypes
    <3>2. Kept("realtime") \in Nat /\ Kept("non-realtime") \in Nat BY KeptNat
    <3>3. CASE k = 1 BY <3>1, <3>2, <3>3, UnreadIs
    <3>4. CASE k = 2 BY <3>1, <3>2, <3>4, UnreadIs
    <3> QED BY <2>1, <3>3, <3>4
  <2>4. price * bill[h].due <= bill[h].usage + price * Unread(k) BY <1>c, <2>0, <2>2
  <2>5. \/ \E i \in Found(RecordTypes[k]) :
                 /\ bill'[h] = [bill[h] EXCEPT !.rec = i, !.cost = records[i].cost,
                            !.tokens = records[i].tokens, !.usage = @ + price * records[i].tokens]
                 /\ pc'[h] = "saving"
        \/ /\ Found(RecordTypes[k]) = {}
           /\ bill'[h] = [bill[h] EXCEPT !.stage = @ + 1] /\ pc'[h] = "reading"
    BY <1>8, <1>s DEF ReadRecord, Goto
  <2>6. CASE /\ Found(RecordTypes[k]) = {}
             /\ bill'[h] = [bill[h] EXCEPT !.stage = @ + 1] /\ pc'[h] = "reading"
    <3>1. bill'[h].stage = k + 1 /\ bill'[h].usage = bill[h].usage /\ bill'[h].due = bill[h].due
      BY <1>s, <2>6 DEF Bill
    <3>2. Read(h)' + 1 = k + 1 /\ k + 1 \in 1 .. 3 BY <2>1, <2>6, <3>1 DEF Read
    <3>3. Kept(RecordTypes[k]) = 0 BY <2>1, <2>6, ReadAll
    <3>4. Unread(k) = Unread(k + 1) BY <2>3, <3>3
    <3> HIDE DEF Enough, k
    <3>5. Enough BY <1>1, <1>s, <2>0, <2>4, <3>1, <3>2, <3>4
    <3> QED BY <1>5, <2>0, <2>6, <3>5
  <2>7. ASSUME NEW i \in Found(RecordTypes[k]), pc'[h] = "saving",
               bill'[h] = [bill[h] EXCEPT !.rec = i, !.cost = records[i].cost,
                            !.tokens = records[i].tokens, !.usage = @ + price * records[i].tokens]
        PROVE  Complete(h)'
    <3> DEFINE t == records[i].tokens
    <3>1. bill'[h].usage = bill[h].usage + price * t /\ bill'[h].stage = k /\ bill'[h].due = bill[h].due
      BY <1>s, <2>7 DEF Bill
    <3>2. Read(h)' + 1 = k + 1 /\ k + 1 \in 1 .. 3 BY <2>1, <2>7, <3>1 DEF Read
    <3>3. Kept(RecordTypes[k]) = t /\ t \in Nat BY <2>1, <2>7, ReadAll, KeptNat
    <3> HIDE DEF t, k
    <3>4. price * Unread(k) = price * t + price * Unread(k + 1)
             /\ price * t \in Nat /\ price * Unread(k + 1) \in Nat /\ price * bill[h].due \in Nat
      BY <1>s, <1>w, <2>0, <2>3, <3>3, Products
    <3> DEFINE x == price * t
               y == price * Unread(k + 1)
               z == price * bill[h].due
    <3>5. x \in Nat /\ y \in Nat /\ z \in Nat /\ z <= bill[h].usage + (x + y)
             /\ bill'[h].usage = bill[h].usage + x
      BY <2>4, <3>1, <3>4
    <3> HIDE DEF x, y, z
    <3>6. bill'[h].usage \in Nat /\ z <= bill'[h].usage + y BY <1>s, <3>5
    <3>7. price * bill'[h].due <= bill'[h].usage + price * Unread(k + 1) BY <3>1, <3>6 DEF y, z
    <3> HIDE DEF Enough
    <3>8. Enough BY <1>1, <1>s, <2>0, <3>1, <3>2, <3>6, <3>7
    <3> QED BY <1>5, <2>0, <2>7, <3>8
  <2> QED BY <2>5, <2>6, <2>7
<1>9. CASE SaveCost(h)
  <2>1. pc[h] = "saving" /\ pc'[h] = "reading" /\ ledger' = ledger BY <1>s, <1>9 DEF SaveCost, Goto
  <2>2. bill'[h] = [bill[h] EXCEPT !.stage = @ + 1, !.rec = 0, !.tokens = 0, !.cost = 0] BY <1>s, <1>9 DEF SaveCost
  <2>3. bill'[h].usage = bill[h].usage /\ bill'[h].stage = bill[h].stage + 1 /\ bill'[h].due = bill[h].due
    BY <1>s, <2>2 DEF Bill
  <2>4. Read(h)' = Read(h) BY <1>s, <2>1, <2>3 DEF Read, Bill
  <2> HIDE DEF Enough
  <2>5. Enough BY <1>3, <2>1, <2>3, <2>4
  <2> QED BY <1>5, <2>1, <2>5
<1>10. CASE ReadAnalytic(h)
  <2>1. pc[h] = "reading" /\ pc'[h] = "totalled" /\ ledger' = ledger BY <1>s, <1>10 DEF ReadAnalytic, Goto
  <2>2. PICK c : bill'[h] = [bill[h] EXCEPT !.total = c]
    <3>1. (\E i \in Found("analytic") : bill' = [bill EXCEPT ![h] = [bill[h] EXCEPT !.total = bill[h].usage + records[i].cost]])
            \/ bill' = [bill EXCEPT ![h] = [bill[h] EXCEPT !.total = bill[h].usage]]
      BY <1>10 DEF ReadAnalytic
    <3> QED BY <1>s, <3>1
  <2>3. bill'[h].usage = bill[h].usage /\ bill'[h].due = bill[h].due BY <1>s, <2>2 DEF Bill
  <2>4. bill[h].stage = 3
    <3>1. bill[h].stage \in 1 .. 3 BY <1>s DEF Bill
    <3>2. RecordTypes[bill[h].stage] = "analytic" BY <1>10 DEF ReadAnalytic
    <3>3. RecordTypes[1] = "realtime" /\ RecordTypes[2] = "non-realtime" BY DEF RecordTypes
    <3> QED BY <3>1, <3>2, <3>3
  <2>5. Read(h)' = Read(h) BY <2>1, <2>4 DEF Read
  <2> HIDE DEF Enough
  <2>6. Enough BY <1>3, <2>1, <2>3, <2>5
  <2> QED BY <1>5, <2>1, <2>6
<1>11. CASE UpdateCdr(h)
  <2>1. pc[h] = "totalled" /\ pc'[h] = "debiting" /\ ledger' = ledger /\ bill' = bill
    BY <1>s, <1>11 DEF UpdateCdr, Goto
  <2>2. Read(h)' = Read(h) BY <2>1 DEF Read
  <2> HIDE DEF Enough
  <2>3. Enough BY <1>3, <2>1, <2>2
  <2> QED BY <1>5, <2>1, <2>3
<1>12. CASE DebitUsage(h)
  <2> DEFINE row == [key |-> UsageKey, dir |-> "debit", usd |-> bill[h].usage, by |-> h]
  <2>1. pc[h] = "debiting" /\ pc'[h] = "closing" /\ bill' = bill /\ price # NoPrice
    BY <1>s, <1>12 DEF DebitUsage, Goto, Billing
  <2>2. price * bill[h].due <= bill[h].usage
    <3>1. Read(h) + 1 = 3 /\ Unread(3) = 0 BY <2>1, UnreadIs DEF Read
    <3>2. price * bill[h].due <= bill[h].usage + price * 0 BY <1>c, <2>1, <3>1
    <3>3. price * bill[h].due \in Nat /\ price * 0 = 0 BY <1>s, <1>w, <2>1, Products
    <3> QED BY <1>s, <3>2, <3>3
  <2>3. \/ bill[h].usage = 0 /\ ledger' = ledger
        \/ ledger' = ledger /\ Charged
        \/ ledger' = ledger \cup {row}
    <3>1. CASE bill[h].usage > 0
      <4>1. Charge(h, UsageKey, bill[h].usage) BY <1>12, <3>1 DEF DebitUsage, UsageKey
      <4> QED BY <4>1 DEF Charge
    <3>2. CASE ~(bill[h].usage > 0)
      <4>1. bill[h].usage = 0 BY <1>s, <3>2
      <4> QED BY <1>12, <3>2, <4>1 DEF DebitUsage
    <3> QED BY <3>1, <3>2
  <2>4. price * bill[h].due \in Nat BY <1>s, <1>w, <2>1, Products
  <2>5. row.by = h /\ row.usd = bill[h].usage /\ row.key = UsageKey OBVIOUS
  <2>6. \A r \in ledger : r.by # h BY <1>u, <2>1
  <2> DEFINE z == price * bill[h].due
  <2>7. z <= bill[h].usage /\ z \in Nat BY <2>2, <2>4
  <2> HIDE DEF row, z
  <2>8. \A r \in ledger' : r.by = h => r.usd >= z BY <1>s, <2>3, <2>5, <2>6, <2>7
  <2>9. z > 0 => ChargedNew
    <3>1. CASE bill[h].usage = 0 /\ ledger' = ledger BY <2>7, <3>1
    <3>2. CASE ledger' = ledger /\ Charged BY <3>2
    <3>3. CASE ledger' = ledger \cup {row} BY <2>5, <3>3
    <3> QED BY <2>3, <3>1, <3>2, <3>3
  <2>10. /\ pc'[h] \notin Reading
         /\ price * bill'[h].due > 0 => ChargedNew
         /\ \A r \in ledger' : r.by = h => r.usd >= price * bill'[h].due
    BY <2>1, <2>8, <2>9 DEF z
  <2> HIDE DEF Enough, ChargedNew
  <2> QED BY <1>2, <2>10
<1>13. CASE FinalizeFails(h)
  <2>1. /\ pc[h] \notin {"closing", "done", "stopped"} /\ ledger' = ledger
        /\ pc'[h] = "closing" /\ h \in faulty'
    BY <1>s, <1>13 DEF FinalizeFails, Goto
  <2> HIDE DEF Enough
  <2> QED BY <1>5, <2>1
<1>14. CASE CloseCdr(h)
  <2>1. /\ pc[h] = "closing" /\ pc'[h] = "done" /\ ledger' = ledger /\ faulty' = faulty
        /\ bill'[h] = [NewBill EXCEPT !.due = bill[h].due]
    BY <1>s, <1>14 DEF CloseCdr, Goto
  <2>2. bill'[h].due = bill[h].due BY <2>1 DEF NewBill
  <2> HIDE DEF Enough
  <2> QED BY <1>2, <1>c, <2>1, <2>2
<1>15. CASE Stop(h)
  <2>1. pc'[h] = "stopped" /\ bill' = bill /\ ledger' = ledger BY <1>s, <1>15 DEF Stop, Goto
  <2> HIDE DEF Enough
  <2> QED BY <1>2, <1>c, <2>1
<1> QED BY <1>4, <1>6, <1>7, <1>8, <1>9, <1>10, <1>11, <1>12, <1>13, <1>14, <1>15, HangupAlone DEF HangupStep

LEMMA InFullHolds == Init => InFull
  BY DEF Init, InFull, CdrLive

LEMMA InFullKept == Base /\ InFull /\ [Next]_vars => InFull'
<1> SUFFICES ASSUME Base, InFull, [Next]_vars PROVE InFull' OBVIOUS
<1>1. CASE UNCHANGED vars
  BY <1>1 DEF vars, InFull, CdrLive, OneRecordPerType, Found, Complete, Unread, Kept, Counted, Read
<1>2. CASE Next
  <2> SUFFICES ASSUME CdrLive', OneRecordPerType', NEW h \in Hangups PROVE Complete(h)' BY DEF InFull
  <2>1. CASE CdrLive
    <3>1. OneRecordPerType BY <1>2, <2>1, OneTypeBefore
    <3>2. Complete(h) BY <2>1, <3>1 DEF InFull
    <3> QED BY <1>2, <2>1, <3>1, <3>2, CompleteKept
  <2>2. CASE Opening
    <3>1. pc'[h] = "idle" /\ ledger' = {} BY <2>2 DEF Opening, Base, Unborn
    <3> QED BY <3>1 DEF Complete
  <2> QED BY <1>2, <2>1, <2>2, RowsStay
<1> QED BY <1>1, <1>2

\* A hangup that runs to its end leaves all the usage recorded before it began
\* charged, in whatever order usage, hangups and analyses overlap.
THEOREM HangupsBillInFull == Spec => []BilledInFull
<1>1. Base /\ InFull => BilledInFull
  <2> SUFFICES ASSUME Base, InFull, CdrLive, OneRecordPerType
               PROVE  /\ \A row \in ledger : row.by \in Hangups => row.usd >= price * bill[row.by].due
                      /\ \A h \in Hangups \ faulty :
                            pc[h] = "done" /\ price # NoPrice /\ price * bill[h].due > 0
                               => \E row \in ledger : row.key = UsageKey
    BY DEF BilledInFull, UsageKey
  <2>1. \A h \in Hangups : Complete(h) BY DEF InFull
  <2> QED BY <2>1 DEF Complete
<1>2. Base /\ InFull /\ [Next]_vars => Base' /\ InFull' BY BaseKept, InFullKept
<1>3. Init => Base /\ InFull BY BaseHolds, InFullHolds
<1> QED BY <1>1, <1>2, <1>3, PTL DEF Spec

------------------------
LEMMA TypeHolds == Base => TypeOK
<1> SUFFICES ASSUME Base PROVE TypeOK OBVIOUS
<1>0. Shapes /\ Len(records) \in Nat BY RecordFacts DEF Base
<1>1. Len(records) \in RecordIds
  <2> DEFINE Placed_ == {p \in Counters : pc[p] \notin Unplaced}
  <2>1. IsFiniteSet(Counters) /\ Placed_ \subseteq Counters BY Parts
  <2>2. Cardinality(Placed_) \in Nat /\ Cardinality(Counters) \in Nat /\ Cardinality(Placed_) <= Cardinality(Counters)
    BY <2>1, FS_Subset, FS_CardinalityType
  <2>3. Len(records) <= Cardinality(Placed_) BY DEF Base, Slots
  <2> HIDE DEF Placed_
  <2>4. Len(records) \in 0 .. Cardinality(Counters) BY <1>0, <2>2, <2>3
  <2> QED BY <2>4 DEF RecordIds, Counters
<1>2. \A row \in ledger : row.usd \in Nat \ {0} /\ row.by \in Handlers
  BY <1>0, Parts DEF Shapes, UsageRows, AnalysisRows, RefundRows
<1>3. \A p \in Usages \cup Analyses : at[p] \in 0 .. Len(records)
  <2>1. \A p \in Counters : at[p] \in Nat /\ at[p] <= Len(records) BY <1>0 DEF Base, Shapes, Placed
  <2> QED BY <1>0, <2>1 DEF Counters
<1>4. \A h \in Hangups : bill[h].rec \in 0 .. Len(records) /\ bill[h].stage \in 1 .. 3
  <2>1. \A h \in Hangups : bill[h].rec \in Nat /\ bill[h].rec <= Len(records) /\ bill[h].stage \in 1 .. 3
    BY <1>0 DEF Base, Shapes, Bill, Billing
  <2> QED BY <1>0, <2>1
<1>5. \A d \in Deletions : claim[d].usd \in Nat BY <1>0 DEF Shapes, Claim
<1>6. records \in Seq([type : CallTypes \cup {"analytic"}, tokens : Nat, cost : Nat, gone : BOOLEAN])
  BY <1>0 DEF Shapes, Record, Types
<1>7. DOMAIN pc = Handlers BY <1>0 DEF Shapes
<1> QED BY <1>0, <1>1, <1>2, <1>3, <1>4, <1>5, <1>6, <1>7 DEF TypeOK, Shapes

------------------------
\* The steps that touch the books of a call, and what the others leave alone.
Counting == {p \in Counters : pc[p] = "counted"}

CountingKept == \A p \in Counters : (pc'[p] = "counted") <=> (pc[p] = "counted")

BooksKept == records' = records /\ cdr' = cdr /\ ledger' = ledger

BookKinds ==
    \/ BooksKept /\ (CountingKept \/ faulty' # {})
    \/ CreateCdr
    \/ \E p \in Counters : CreateRecord(p) \/ IncrementRecord(p) \/ IncrementCdr(p)
    \/ \E h \in Hangups : SaveCost(h) \/ UpdateCdr(h) \/ CloseCdr(h) \/ DebitUsage(h)
    \/ \E a \in Analyses : DebitAnalysis(a)
    \/ \E d \in Deletions : DestroyReport(d)

LEMMA BookSteps ==
    ASSUME Base, Next
    PROVE  BookKinds
<1>s. pc \in [Handlers -> Labels] /\ faulty \subseteq Handlers BY DEF Base, Shapes
<1>1. ASSUME NEW u \in Usages, ReportUsage(u) PROVE BookKinds
  <2>1. u \in Handlers /\ pc[u] = "idle" /\ BooksKept
        /\ \E l \in {"known", "done"} : pc' = [pc EXCEPT ![u] = l]
    BY <1>1, Parts DEF ReportUsage, Goto, BooksKept
  <2>2. CountingKept BY <1>s, <2>1, Parts DEF CountingKept
  <2> QED BY <2>1, <2>2 DEF BookKinds
<1>2. ASSUME NEW p \in Counters, FindRecord(p) PROVE BookKinds
  <2>1. p \in Handlers /\ pc[p] = "known" /\ BooksKept
        /\ \E l \in {"held", "creating"} : pc' = [pc EXCEPT ![p] = l]
    BY <1>2, Parts DEF FindRecord, Goto, BooksKept
  <2>2. CountingKept BY <1>s, <2>1, Parts DEF CountingKept
  <2> QED BY <2>1, <2>2 DEF BookKinds
<1>3. ASSUME NEW h \in Hangups, BeginHangup(h) \/ BeginFinalize(h) \/ ReadRecord(h) \/ ReadAnalytic(h)
                                \/ FinalizeFails(h)
      PROVE  BookKinds
  <2>1. BooksKept /\ (pc' = pc \/ \E l : pc' = [pc EXCEPT ![h] = l]) /\ h \notin Counters
    BY <1>3, Parts DEF BeginHangup, BeginFinalize, ReadRecord, ReadAnalytic, FinalizeFails, Goto, BooksKept
  <2>2. CountingKept BY <1>s, <2>1, Parts DEF CountingKept
  <2> QED BY <2>1, <2>2 DEF BookKinds
<1>4. ASSUME NEW a \in Analyses, Analyse(a) \/ StoreAnalysis(a) PROVE BookKinds
  <2>1. BooksKept /\ a \in Handlers /\ pc[a] \in {"idle", "storing"}
        /\ \E l \in {"known", "storing", "done"} : pc' = [pc EXCEPT ![a] = l]
    BY <1>4, Parts DEF Analyse, StoreAnalysis, Goto, BooksKept
  <2>2. CountingKept BY <1>s, <2>1, Parts DEF CountingKept
  <2> QED BY <2>1, <2>2 DEF BookKinds
<1>5. ASSUME NEW a \in Analyses, ChargeFails(a) PROVE BookKinds
  <2>1. BooksKept /\ faulty' # {} BY <1>5 DEF ChargeFails, BooksKept
  <2> QED BY <2>1 DEF BookKinds
<1>6. ASSUME NEW d \in Deletions, FindReport(d) \/ SumRecords(d) \/ Credit(d) PROVE BookKinds
  <2>1. BooksKept /\ (\E l : pc' = [pc EXCEPT ![d] = l]) /\ d \notin Counters
    BY <1>6, Parts DEF FindReport, SumRecords, Credit, Goto, BooksKept
  <2>2. CountingKept BY <1>s, <2>1, Parts DEF CountingKept
  <2> QED BY <2>1, <2>2 DEF BookKinds
<1>7. ASSUME NEW p \in Handlers, Stop(p) PROVE BookKinds
  <2>1. BooksKept /\ faulty' # {} BY <1>7 DEF Stop, BooksKept
  <2> QED BY <2>1 DEF BookKinds
<1>8. ASSUME NEW p \in Counters, CreateRecord(p) \/ IncrementRecord(p) \/ IncrementCdr(p) PROVE BookKinds
  BY <1>8 DEF BookKinds
<1>9. ASSUME NEW h \in Hangups, SaveCost(h) \/ UpdateCdr(h) \/ CloseCdr(h) \/ DebitUsage(h) PROVE BookKinds
  BY <1>9 DEF BookKinds
<1>10. ASSUME NEW a \in Analyses, DebitAnalysis(a) PROVE BookKinds BY <1>10 DEF BookKinds
<1>11. ASSUME NEW d \in Deletions, DestroyReport(d) PROVE BookKinds BY <1>11 DEF BookKinds
<1>12. ASSUME CreateCdr PROVE BookKinds BY <1>12 DEF BookKinds
<1> QED BY <1>1, <1>2, <1>3, <1>4, <1>5, <1>6, <1>7, <1>8, <1>9, <1>10, <1>11, <1>12 DEF Next, Counters

LEMMA OpeningIs ==
    ASSUME Base, Next, CdrLive', ~CdrLive
    PROVE  CreateCdr
<1>1. CASE BooksKept BY <1>1 DEF BooksKept, CdrLive
<1>2. ASSUME NEW p \in Counters, CreateRecord(p) \/ IncrementRecord(p) \/ IncrementCdr(p) PROVE FALSE
  BY <1>2 DEF CreateRecord, IncrementRecord, IncrementCdr, CdrLive
<1>3. ASSUME NEW h \in Hangups, SaveCost(h) \/ UpdateCdr(h) \/ CloseCdr(h) \/ DebitUsage(h) PROVE FALSE
  BY <1>3 DEF SaveCost, UpdateCdr, CloseCdr, DebitUsage, CdrLive
<1>4. ASSUME NEW a \in Analyses, DebitAnalysis(a) PROVE FALSE BY <1>4 DEF DebitAnalysis, CdrLive
<1>5. ASSUME NEW d \in Deletions, DestroyReport(d) PROVE FALSE BY <1>5 DEF DestroyReport, CdrLive, Base, Shapes
<1> QED BY <1>1, <1>2, <1>3, <1>4, <1>5, BookSteps DEF BookKinds

\* While the CDR is there no record is gone.
LEMMA AllLive == ASSUME Base, CdrLive PROVE Live = DOMAIN records
  BY DEF Base, Rows, Live, CdrLive

\* What a new record, and the count of a usage or an analysis, do to the sums.
LEMMA RecordCreated ==
    ASSUME Base, NEW p \in Counters, CreateRecord(p)
    PROVE  LET n == Len(records) + 1 IN
           /\ DOMAIN records' = DOMAIN records \cup {n} /\ n \notin DOMAIN records
           /\ \A i \in DOMAIN records : records'[i] = records[i]
           /\ records'[n] = [type |-> TypeOf(p), tokens |-> 0, cost |-> 0, gone |-> FALSE]
<1>1. records \in Seq(Record) /\ Len(records) \in Nat BY RecordFacts DEF Base, Shapes
<1>2. records' = Append(records, [type |-> TypeOf(p), tokens |-> 0, cost |-> 0, gone |-> FALSE]) BY DEF CreateRecord
<1> QED BY <1>1, <1>2

\* The counters of the CDR and of its records differ by the handlers between them.
CountersMeet ==
    cdr.tokens + SumFunctionOnSet(Tokens, Counting) = SumFunctionOnSet(Counted, DOMAIN records)

LEMMA CountersStay ==
    ASSUME Base, CountersMeet, DOMAIN records' = DOMAIN records,
           \A i \in DOMAIN records : records'[i].tokens = records[i].tokens,
           cdr'.tokens = cdr.tokens, CountingKept
    PROVE  CountersMeet'
<1> DEFINE D == DOMAIN records
           f == Counted
           g == [i \in DOMAIN records' |-> records'[i].tokens]
           New == {p \in Counters : pc'[p] = "counted"}
<1>1. New = Counting BY DEF CountingKept, Counting
<1>2. IsFiniteSet(D) /\ \A i \in D : f[i] = g[i] BY RecordsAreFinite DEF Counted
<1>3. DOMAIN records' = D OBVIOUS
<1>4. CountersMeet' <=> cdr'.tokens + SumFunctionOnSet(Tokens, New) = SumFunctionOnSet(g, DOMAIN records')
  BY DEF CountersMeet, Counting, Counted
<1>5. cdr.tokens + SumFunctionOnSet(Tokens, Counting) = SumFunctionOnSet(f, D) BY DEF CountersMeet
<1> HIDE DEF D, f, g, New
<1>6. SumFunctionOnSet(f, D) = SumFunctionOnSet(g, D) BY <1>2, SumSame
<1> QED BY <1>1, <1>3, <1>4, <1>5, <1>6

LEMMA CountersMeetAgain ==
    ASSUME Base, CountersMeet, NEW p \in Counters,
           CreateRecord(p) \/ (IncrementRecord(p) /\ CdrLive) \/ (IncrementCdr(p) /\ CdrLive)
    PROVE  CountersMeet'
<1> DEFINE D == DOMAIN records
           E == DOMAIN records'
           f == Counted
           g == [i \in E |-> records'[i].tokens]
           C == Counting
           New == {q \in Counters : pc'[q] = "counted"}
           SumC == SumFunctionOnSet(Tokens, C)
           SumNew == SumFunctionOnSet(Tokens, New)
           SumD == SumFunctionOnSet(f, D)
           SumE == SumFunctionOnSet(g, E)
<1>1. CountersMeet' <=> cdr'.tokens + SumNew = SumE BY DEF CountersMeet, Counting, Counted
<1>2. cdr.tokens + SumC = SumD BY DEF CountersMeet
<1>3. /\ IsFiniteSet(D) /\ IsFiniteSet(C) /\ (\A i \in D : f[i] \in Nat)
      /\ C \subseteq Counters /\ New \subseteq Counters /\ \A q \in Counters : Tokens[q] \in Nat
      /\ pc \in [Handlers -> Labels] /\ Counters \subseteq Handlers
      /\ cdr \in [state : {"none", "live", "deleted"}, tokens : Nat, cost : Nat]
      /\ \A S : S \subseteq Counters => IsFiniteSet(S)
  <2>1. IsFiniteSet(D) /\ \A i \in D : f[i] \in Nat BY RecordsAreFinite DEF Counted
  <2>2. /\ C \subseteq Counters /\ New \subseteq Counters /\ \A q \in Counters : Tokens[q] \in Nat
        /\ Counters \subseteq Handlers /\ \A S : S \subseteq Counters => IsFiniteSet(S)
    BY Parts DEF Counting
  <2> QED BY <2>1, <2>2 DEF Base, Shapes
<1>4. SumC \in Nat /\ SumD \in Nat BY <1>3, SumTakeOut
<1>5. \A q \in Counters : q \in C <=> pc[q] = "counted" BY DEF Counting
<1>6. \A q \in Counters : q \in New <=> pc'[q] = "counted" OBVIOUS
<1>7. \A i \in D : f[i] = records[i].tokens BY DEF Counted
<1>8. \A i \in E : g[i] = records'[i].tokens OBVIOUS
<1>9. CASE CreateRecord(p)
  <2> DEFINE n == Len(records) + 1
  <2>1. E = D \cup {n} /\ n \notin D /\ records'[n].tokens = 0 /\ \A i \in D : records'[i] = records[i]
    <3>1. records'[n] = [type |-> TypeOf(p), tokens |-> 0, cost |-> 0, gone |-> FALSE] BY <1>9, RecordCreated
    <3>2. DOMAIN records' = DOMAIN records \cup {n} /\ n \notin DOMAIN records
          /\ \A i \in DOMAIN records : records'[i] = records[i]
      BY <1>9, RecordCreated
    <3> QED BY <3>1, <3>2
  <2>2. New = C /\ cdr' = cdr
    <3>1. pc[p] = "creating" /\ pc' = [pc EXCEPT ![p] = "held"] /\ cdr' = cdr BY <1>9 DEF CreateRecord, Goto
    <3> QED BY <1>3, <1>5, <1>6, <3>1
  <2> HIDE DEF D, E, f, g, C, New, n
  <2>3. SumE = g[n] + SumFunctionOnSet(g, D)
    <3>1. \A i \in D \cup {n} : g[i] \in Nat BY <1>3, <1>7, <1>8, <2>1
    <3> QED BY <1>3, <2>1, <3>1, SumAdd
  <2>4. SumFunctionOnSet(g, D) = SumD
    <3>1. \A i \in D : g[i] = f[i] BY <1>7, <1>8, <2>1
    <3> QED BY <1>3, <3>1, SumSame
  <2>5. g[n] = 0 BY <1>8, <2>1
  <2> QED BY <1>1, <1>2, <1>4, <2>2, <2>3, <2>4, <2>5
<1>10. CASE IncrementRecord(p) /\ CdrLive
  <2> DEFINE i == at[p]
  <2>1. /\ E = D /\ i \in D /\ Tokens[p] \in Nat
        /\ \A j \in D \ {i} : records'[j].tokens = records[j].tokens
        /\ records'[i].tokens = records[i].tokens + Tokens[p]
    <3>1. ~records[i].gone BY <1>10, RecordIncremented, AllLive DEF Live, Counters
    <3> QED BY <1>10, <3>1, RecordIncremented DEF Counters
  <2>2. p \notin C /\ New = C \cup {p} /\ cdr' = cdr
    <3>1. pc[p] = "held" /\ pc' = [pc EXCEPT ![p] = "counted"] /\ cdr' = cdr BY <1>10 DEF IncrementRecord, Goto
    <3> QED BY <1>3, <1>5, <1>6, <3>1
  <2> HIDE DEF D, E, f, g, C, New, i
  <2>3. SumE + f[i] = SumD + g[i]
    <3>1. (\A j \in D : f[j] \in Nat /\ g[j] \in Nat) /\ \A j \in D \ {i} : f[j] = g[j] BY <1>3, <1>7, <1>8, <2>1
    <3> QED BY <1>3, <2>1, <3>1, SumChange
  <2>4. g[i] = f[i] + Tokens[p] /\ f[i] \in Nat BY <1>3, <1>7, <1>8, <2>1
  <2>5. SumNew = Tokens[p] + SumC BY <1>3, <2>2, SumAdd
  <2>6. SumE \in Nat
    <3>1. \A j \in E : g[j] \in Nat BY <1>3, <1>7, <1>8, <2>1
    <3> QED BY <1>3, <2>1, <3>1, SumTakeOut
  <2>7. cdr.tokens \in Nat BY <1>3
  <2> HIDE DEF SumC, SumNew, SumD, SumE
  <2>8. SumE = SumD + Tokens[p] BY <1>4, <2>1, <2>3, <2>4, <2>6
  <2>9. cdr.tokens + SumNew = SumE BY <1>2, <1>4, <2>1, <2>5, <2>7, <2>8
  <2> QED BY <1>1, <2>2, <2>9
<1>11. CASE IncrementCdr(p) /\ CdrLive
  <2>1. records' = records /\ cdr'.tokens = cdr.tokens + Tokens[p] BY <1>3, <1>11 DEF IncrementCdr
  <2>2. p \in C /\ New = C \ {p}
    <3>1. pc[p] = "counted" /\ \E l \in {"done", "debiting"} : pc' = [pc EXCEPT ![p] = l]
      BY <1>11 DEF IncrementCdr, Goto
    <3> QED BY <1>3, <1>5, <1>6, <3>1
  <2>3. E = D /\ \A i \in D : g[i] = f[i] BY <1>7, <1>8, <2>1
  <2> HIDE DEF D, E, f, g, C, New
  <2>4. SumE = SumD BY <1>3, <2>3, SumSame
  <2>5. SumC = Tokens[p] + SumNew BY <1>3, <2>2, SumTakeOut
  <2>6. cdr.tokens \in Nat /\ Tokens[p] \in Nat /\ SumNew \in Nat
    <3>1. IsFiniteSet(New) /\ \A q \in New : Tokens[q] \in Nat BY <1>3
    <3> QED BY <1>3, <3>1, SumTakeOut
  <2> HIDE DEF SumC, SumNew, SumD, SumE
  <2>7. cdr'.tokens + SumNew = SumE BY <1>2, <2>1, <2>4, <2>5, <2>6
  <2> QED BY <1>1, <2>7
<1> QED BY <1>9, <1>10, <1>11

CountersAgree == CdrLive /\ faulty = {} => CountersMeet

LEMMA CountersAgreeKept == Base /\ CountersAgree /\ [Next]_vars => CountersAgree'
<1> SUFFICES ASSUME Base, CountersAgree, [Next]_vars, CdrLive', faulty' = {} PROVE CountersMeet'
  BY DEF CountersAgree
<1>1. CASE UNCHANGED vars
  <2>1. CountersMeet BY <1>1 DEF vars, CountersAgree, CdrLive
  <2> QED BY <1>1, <2>1 DEF vars, CountersMeet, Counting, Counted
<1>2. CASE Next
  <2>1. faulty = {} BY <1>2, OneMoves DEF Base
  <2>2. CASE CreateCdr
    <3>1. cdr.state = "none" /\ records' = <<>> /\ cdr'.tokens = 0 /\ pc' = pc
      BY <2>2 DEF CreateCdr, Base, Unborn, Shapes
    <3>2. Counting' = {} BY <3>1 DEF Counting, Base, Unborn
    <3>3. DOMAIN records' = {} BY <3>1
    <3>4. cdr'.tokens + SumFunctionOnSet(Tokens, {}) = SumFunctionOnSet(Counted', {}) BY <3>1, SumEmpty
    <3> QED BY <3>2, <3>3, <3>4 DEF CountersMeet
  <2>3. CASE CdrLive
    <3>0. CountersMeet BY <2>1, <2>3 DEF CountersAgree
    <3>1. CASE BooksKept /\ (CountingKept \/ faulty' # {})
      <4>1. records' = records /\ cdr' = cdr /\ CountingKept BY <3>1 DEF BooksKept
      <4> QED BY <3>0, <4>1, CountersStay
    <3>2. ASSUME NEW p \in Counters, CreateRecord(p) \/ IncrementRecord(p) \/ IncrementCdr(p)
          PROVE  CountersMeet'
      BY <2>3, <3>0, <3>2, CountersMeetAgain
    <3>3. ASSUME NEW h \in Hangups, SaveCost(h) PROVE CountersMeet'
      <4>1. cdr' = cdr /\ pc' = [pc EXCEPT ![h] = "reading"] /\ h \notin Counters BY <3>3, Parts DEF SaveCost, Goto
      <4>2. CountingKept BY <4>1, Parts DEF CountingKept, Base, Shapes
      <4> QED BY <3>0, <3>3, <4>1, <4>2, RecordSaved, CountersStay
    <3>4. ASSUME NEW h \in Hangups, UpdateCdr(h) \/ CloseCdr(h) \/ DebitUsage(h) PROVE CountersMeet'
      <4>1. records' = records /\ (\E l : pc' = [pc EXCEPT ![h] = l]) /\ h \notin Counters
        BY <3>4, Parts DEF UpdateCdr, CloseCdr, DebitUsage, Goto
      <4>2. cdr'.tokens = cdr.tokens BY <3>4 DEF UpdateCdr, CloseCdr, DebitUsage, Base, Shapes
      <4>3. CountingKept BY <4>1, Parts DEF CountingKept, Base, Shapes
      <4> QED BY <3>0, <4>1, <4>2, <4>3, CountersStay
    <3>5. ASSUME NEW a \in Analyses, DebitAnalysis(a) PROVE CountersMeet'
      <4>1. records' = records /\ cdr' = cdr /\ pc[a] = "debiting" /\ pc' = [pc EXCEPT ![a] = "storing"]
        BY <3>5 DEF DebitAnalysis, Goto
      <4>2. CountingKept BY <4>1, Parts DEF CountingKept, Base, Shapes
      <4> QED BY <3>0, <4>1, <4>2, CountersStay
    <3>6. ASSUME NEW d \in Deletions, DestroyReport(d) PROVE CountersMeet'
      <4>1. cdr'.state = "deleted" BY <3>6 DEF DestroyReport, Base, Shapes
      <4> QED BY <4>1 DEF CdrLive
    <3>7. BookKinds BY <1>2, BookSteps
    <3> QED BY <2>2, <3>1, <3>2, <3>3, <3>4, <3>5, <3>6, <3>7 DEF BookKinds
  <2>4. CASE Opening
    <3>1. ~CdrLive BY <2>4 DEF Opening, CdrLive
    <3> QED BY <1>2, <2>2, <3>1, OpeningIs
  <2> QED BY <1>2, <2>3, <2>4, RowsStay
<1> QED BY <1>1, <1>2

------------------------
\* The costs of a call that is hung up once and has no other analyses than the one
\* the hangup fires, none of which meets an error.
Undisturbed == faulty \subseteq Deletions /\ OneRun

Total == SumFunctionOnSet(Costs, DOMAIN records)
Owed  == Debits(Handlers)

\* No record of the types that finalizeCallBilling has yet to read costs anything.
FreshFrom(k) ==
    \A i \in DOMAIN records : \A l \in k .. 3 : records[i].type = RecordTypes[l] => records[i].cost = 0

Untouched == FreshFrom(1) /\ ledger = {} /\ cdr.cost = 0 /\ Begun(Analyses) = {}

Accounted(h) ==
    /\ pc[h] = "found" => Untouched /\ bill[h].loaded = 0
    /\ pc[h] \in {"reading", "saving", "totalled", "debiting", "closing"} =>
         bill[h].loaded = 0 /\ Begun(Analyses) = {}
    /\ pc[h] \in {"reading", "saving", "totalled", "debiting"} => ledger = {}
    /\ pc[h] \in {"reading", "saving", "totalled"} => cdr.cost = 0 /\ bill[h].reloaded = 0
    /\ pc[h] \in {"reading", "saving"} => FreshFrom(bill[h].stage)
    /\ pc[h] = "saving" => bill[h].cost = 0 /\ Total + price * bill[h].tokens = bill[h].usage
    /\ pc[h] \in {"reading", "totalled", "debiting"} => Total = bill[h].usage
    /\ pc[h] \in {"totalled", "debiting"} => bill[h].total = bill[h].usage
    /\ pc[h] = "debiting" => cdr.cost = bill[h].usage
    /\ pc[h] = "closing" => Owed = bill[h].total /\ Total = Owed /\ cdr.cost = Owed
    /\ pc[h] = "done" =>
         /\ Begun(Analyses) = {} => Total = Owed /\ cdr.cost = Owed
         /\ \A a \in Begun(Analyses) :
              /\ Total = Owed + (IF pc[a] \in {"counted", "debiting"} THEN CostOf(a) ELSE 0)
              /\ cdr.cost = Owed + (IF pc[a] = "debiting" THEN CostOf(a) ELSE 0)

Summed ==
    /\ Begun(Hangups) = {} => Untouched
    /\ \A h \in Begun(Hangups) : Accounted(h)

Sums == CdrLive /\ Undisturbed => Summed

\* An analysis a hangup fires begins after it, and charges before it is stored.
Ordered ==
    /\ \A a \in Begun(Analyses) : Trigger[a] # ByRequest => pc[Trigger[a]] = "done"
    /\ \A row \in ledger : row.by \in Analyses => pc[row.by] \in {"storing", "done", "stopped"}

LEMMA AtMostOne ==
    ASSUME NEW S, IsFiniteSet(S), Cardinality(S) <= 1
    PROVE  \A x, y \in S : x = y
<1> SUFFICES ASSUME NEW x \in S, NEW y \in S, x # y PROVE FALSE OBVIOUS
<1>1. IsFiniteSet({x}) /\ Cardinality({x}) = 1 /\ y \notin {x} BY FS_Singleton
<1>2. Cardinality({x} \cup {y}) = 2
  <2>1. Cardinality({x} \cup {y}) = Cardinality({x}) + 1 BY <1>1, FS_AddElement
  <2> QED BY <1>1, <2>1
<1>3. {x} \cup {y} \subseteq S OBVIOUS
<1>4. Cardinality({x} \cup {y}) <= Cardinality(S) /\ Cardinality(S) \in Nat BY <1>3, FS_Subset, FS_CardinalityType
<1> QED BY <1>2, <1>4

LEMMA OneEach ==
    ASSUME Shapes, OneRun
    PROVE  /\ \A h, g \in Begun(Hangups) : h = g
           /\ \A a, b \in Begun(Analyses) : a = b
<1>1. IsFiniteSet(Begun(Hangups)) /\ IsFiniteSet(Begun(Analyses)) BY Parts DEF Begun
<1> QED BY <1>1, AtMostOne DEF OneRun

LEMMA OneRunBefore ==
    ASSUME Shapes, Next, OneRun'
    PROVE  OneRun
<1>1. \A S \in SUBSET Handlers : Begun(S) \subseteq Begun(S)' /\ IsFiniteSet(Begun(S)')
  <2>1. \A S \in SUBSET Handlers : Begun(S)' \subseteq S BY DEF Begun
  <2> QED BY <2>1, Irreversible, Parts
<1>2. Hangups \in SUBSET Handlers /\ Analyses \in SUBSET Handlers BY Parts
<1> DEFINE H == Begun(Hangups)
           I == Begun(Hangups)'
           A == Begun(Analyses)
           B == Begun(Analyses)'
<1>3. /\ H \subseteq I /\ IsFiniteSet(I) /\ A \subseteq B /\ IsFiniteSet(B)
      /\ Cardinality(I) <= 1 /\ Cardinality(B) <= 1 /\ \A a \in B : Trigger[a] # ByRequest
  BY <1>1, <1>2 DEF OneRun
<1>4. OneRun <=> Cardinality(H) <= 1 /\ Cardinality(A) <= 1 /\ \A a \in A : Trigger[a] # ByRequest BY DEF OneRun
<1> HIDE DEF H, I, A, B
<1>5. /\ Cardinality(H) <= Cardinality(I) /\ Cardinality(H) \in Nat /\ Cardinality(I) \in Nat
      /\ Cardinality(A) <= Cardinality(B) /\ Cardinality(A) \in Nat /\ Cardinality(B) \in Nat
  BY <1>3, FS_Subset, FS_CardinalityType
<1>6. Cardinality(H) <= 1 /\ Cardinality(A) <= 1 BY <1>3, <1>5
<1> QED BY <1>3, <1>4, <1>6

\* The steps of an analysis.
AnalysisStep(a) ==
    \/ Analyse(a) \/ FindRecord(a) \/ CreateRecord(a) \/ IncrementRecord(a) \/ IncrementCdr(a)
    \/ DebitAnalysis(a) \/ ChargeFails(a) \/ StoreAnalysis(a) \/ Stop(a)

\* What the steps of usages and deletions do to the costs, the hangups and the analyses.
CostsStay ==
    /\ ledger' = ledger /\ cdr'.cost = cdr.cost
    /\ DOMAIN records \subseteq DOMAIN records'
    /\ \A i \in DOMAIN records :
          records'[i].type = records[i].type /\ records'[i].cost = records[i].cost
    /\ \A i \in DOMAIN records' \ DOMAIN records : records'[i].cost = 0

PlacesStay == bill' = bill /\ \A p \in Hangups \cup Analyses : pc'[p] = pc[p]

CostKinds ==
    \/ CostsStay /\ PlacesStay
    \/ \E h \in Hangups : HangupStep(h)
    \/ \E a \in Analyses : AnalysisStep(a)
    \/ \E d \in Deletions : DestroyReport(d)

LEMMA CostSteps ==
    ASSUME Base, Next
    PROVE  CostKinds
<1>s. /\ pc \in [Handlers -> Labels] /\ records \in Seq(Record)
      /\ cdr \in [state : {"none", "live", "deleted"}, tokens : Nat, cost : Nat]
  BY DEF Base, Shapes
<1>r. records' = records /\ cdr'.cost = cdr.cost /\ ledger' = ledger => CostsStay BY DEF CostsStay
<1>c. ASSUME CreateCdr PROVE CostKinds
  <2>1. records' = records /\ cdr'.cost = cdr.cost /\ ledger' = ledger /\ PlacesStay
    BY <1>s, <1>c DEF CreateCdr, PlacesStay
  <2> QED BY <1>r, <2>1 DEF CostKinds
<1>p. ASSUME NEW q \in Usages \cup Deletions, bill' = bill, \E l : pc' = [pc EXCEPT ![q] = l]
      PROVE  PlacesStay
  <2>1. q \in Handlers /\ q \notin Hangups /\ q \notin Analyses BY Parts DEF Counters
  <2> QED BY <1>s, <1>p, <2>1, Parts DEF PlacesStay
<1>1. ASSUME NEW u \in Usages, ReportUsage(u) \/ FindRecord(u) PROVE CostKinds
  <2>1. records' = records /\ cdr'.cost = cdr.cost /\ ledger' = ledger /\ bill' = bill
        /\ \E l : pc' = [pc EXCEPT ![u] = l]
    BY <1>1 DEF ReportUsage, FindRecord, Goto
  <2> QED BY <1>r, <1>p, <2>1 DEF CostKinds
<1>2. ASSUME NEW u \in Usages, CreateRecord(u) PROVE CostKinds
  <2>1. cdr' = cdr /\ ledger' = ledger /\ bill' = bill /\ \E l : pc' = [pc EXCEPT ![u] = l]
    BY <1>2 DEF CreateRecord, Goto
  <2>2. CostsStay
    <3> DEFINE n == Len(records) + 1
    <3>1. records'[n] = [type |-> TypeOf(u), tokens |-> 0, cost |-> 0, gone |-> FALSE]
      BY <1>2, RecordCreated DEF Counters
    <3>2. DOMAIN records' = DOMAIN records \cup {n} /\ \A i \in DOMAIN records : records'[i] = records[i]
      BY <1>2, RecordCreated DEF Counters
    <3> QED BY <2>1, <3>1, <3>2 DEF CostsStay
  <2> QED BY <1>p, <2>1, <2>2 DEF CostKinds
<1>3. ASSUME NEW u \in Usages, IncrementRecord(u) PROVE CostKinds
  <2>1. cdr' = cdr /\ ledger' = ledger /\ bill' = bill /\ \E l : pc' = [pc EXCEPT ![u] = l]
    BY <1>3 DEF IncrementRecord, Goto
  <2>2. CostsStay
    <3>1. DOMAIN records' = DOMAIN records /\ \A i \in DOMAIN records : records'[i].type = records[i].type
      BY <1>3, RecordIncremented
    <3>2. ASSUME NEW i \in DOMAIN records PROVE records'[i].cost = records[i].cost
      <4>1. CASE i # at[u] \/ records[i].gone BY <1>3, <4>1, RecordIncremented
      <4>2. CASE i = at[u] /\ ~records[i].gone
        <5>1. CostOf(u) = 0 /\ records[i].cost \in Nat BY Parts, RecordFacts DEF CostOf, Base, Record
        <5>2. records'[i].cost = records[i].cost + CostOf(u) BY <1>3, <4>2, RecordIncremented
        <5> QED BY <5>1, <5>2
      <4> QED BY <4>1, <4>2
    <3> QED BY <2>1, <3>1, <3>2 DEF CostsStay
  <2> QED BY <1>p, <2>1, <2>2 DEF CostKinds
<1>4. ASSUME NEW u \in Usages, IncrementCdr(u) PROVE CostKinds
  <2>1. records' = records /\ ledger' = ledger /\ bill' = bill /\ \E l : pc' = [pc EXCEPT ![u] = l]
    BY <1>4 DEF IncrementCdr, Goto
  <2>2. cdr'.cost = cdr.cost
    <3>1. CostOf(u) = 0 BY Parts DEF CostOf
    <3>2. cdr' = cdr \/ cdr' = [cdr EXCEPT !.tokens = @ + Tokens[u], !.cost = @ + CostOf(u)]
      BY <1>4 DEF IncrementCdr
    <3> DEFINE c == CostOf(u)
    <3> HIDE DEF c
    <3>3. cdr' = cdr \/ cdr' = [cdr EXCEPT !.tokens = @ + Tokens[u], !.cost = @ + c] BY <3>2 DEF c
    <3>4. cdr'.cost = cdr.cost \/ cdr'.cost = cdr.cost + c BY <1>s, <3>3
    <3>5. cdr.cost \in Nat BY <1>s
    <3> QED BY <3>1, <3>4, <3>5 DEF c
  <2> QED BY <1>r, <1>p, <2>1, <2>2 DEF CostKinds
<1>5. ASSUME NEW d \in Deletions, FindReport(d) \/ SumRecords(d) \/ Credit(d) PROVE CostKinds
  <2>1. records' = records /\ cdr'.cost = cdr.cost /\ ledger' = ledger /\ bill' = bill
        /\ \E l : pc' = [pc EXCEPT ![d] = l]
    BY <1>5 DEF FindReport, SumRecords, Credit, Goto
  <2> QED BY <1>r, <1>p, <2>1 DEF CostKinds
<1>6. ASSUME NEW q \in Usages \cup Deletions, Stop(q) PROVE CostKinds
  <2>1. records' = records /\ cdr'.cost = cdr.cost /\ ledger' = ledger /\ bill' = bill
        /\ \E l : pc' = [pc EXCEPT ![q] = l]
    BY <1>6 DEF Stop, Goto
  <2> QED BY <1>r, <1>p, <2>1 DEF CostKinds
<1>7. ASSUME NEW h \in Hangups, HangupStep(h) PROVE CostKinds BY <1>7 DEF CostKinds
<1>8. ASSUME NEW a \in Analyses, AnalysisStep(a) PROVE CostKinds BY <1>8 DEF CostKinds
<1>9. ASSUME NEW d \in Deletions, DestroyReport(d) PROVE CostKinds BY <1>9 DEF CostKinds
<1>10. ASSUME NEW p \in Handlers, Stop(p) PROVE CostKinds
  <2>1. p \in Usages \cup Deletions \/ p \in Hangups \/ p \in Analyses BY Parts DEF Counters
  <2> QED BY <1>6, <1>7, <1>8, <1>10, <2>1 DEF HangupStep, AnalysisStep
<1>11. ASSUME NEW p \in Usages \cup Analyses,
              FindRecord(p) \/ CreateRecord(p) \/ IncrementRecord(p) \/ IncrementCdr(p)
       PROVE  CostKinds
  <2>1. CASE p \in Usages BY <1>1, <1>2, <1>3, <1>4, <1>11, <2>1
  <2>2. CASE p \in Analyses BY <1>8, <1>11, <2>2 DEF AnalysisStep
  <2> QED BY <2>1, <2>2
<1>12. ASSUME NEW h \in Hangups,
          \/ BeginHangup(h) \/ BeginFinalize(h) \/ ReadRecord(h) \/ SaveCost(h)
          \/ ReadAnalytic(h) \/ UpdateCdr(h) \/ DebitUsage(h) \/ FinalizeFails(h)
          \/ CloseCdr(h)
       PROVE  CostKinds
  BY <1>7, <1>12 DEF HangupStep
<1>13. ASSUME NEW a \in Analyses, Analyse(a) \/ DebitAnalysis(a) \/ ChargeFails(a) \/ StoreAnalysis(a)
       PROVE  CostKinds
  BY <1>8, <1>13 DEF AnalysisStep
<1> QED BY <1>c, <1>1, <1>5, <1>9, <1>10, <1>11, <1>12, <1>13 DEF Next

------------------------
LEMMA OrderedHolds == Init => Ordered
<1> SUFFICES ASSUME Init PROVE Ordered OBVIOUS
<1>1. ledger = {} /\ \A a \in Analyses : pc[a] = "idle" BY Parts DEF Init
<1> QED BY <1>1 DEF Ordered, Begun

LEMMA OrderedKept == Base /\ Ordered /\ [Next]_vars => Ordered'
<1> SUFFICES ASSUME Base, Ordered, [Next]_vars PROVE Ordered' OBVIOUS
<1>1. CASE UNCHANGED vars BY <1>1 DEF vars, Ordered, Begun
<1>2. CASE Next
  <2>s. pc \in [Handlers -> Labels] /\ \A a \in Analyses : a \in Handlers /\ Trigger[a] \in Hangups \cup {ByRequest}
    BY Parts, BillingConstants DEF Base, Shapes
  <2>d. \A p \in Handlers : pc[p] = "done" => pc'[p] = "done" BY <1>2, <2>s, OneMoves DEF Base, Final
  <2>1. ASSUME NEW a \in Analyses, pc'[a] # "idle", Trigger[a] # ByRequest
        PROVE  pc'[Trigger[a]] = "done"
    <3>0. Trigger[a] \in Handlers BY <2>1, <2>s, Parts
    <3>1. CASE pc[a] # "idle" BY <2>1, <2>d, <3>0, <3>1 DEF Ordered, Begun
    <3>2. CASE pc[a] = "idle"
      <4>1. CASE CostsStay /\ PlacesStay BY <2>1, <3>2, <4>1 DEF PlacesStay
      <4>2. ASSUME NEW h \in Hangups, HangupStep(h) PROVE FALSE
        <5>1. (\E l : pc' = [pc EXCEPT ![h] = l]) \/ pc' = pc
          BY <4>2 DEF HangupStep, BeginHangup, BeginFinalize, ReadRecord, SaveCost, ReadAnalytic,
                      UpdateCdr, DebitUsage, FinalizeFails, CloseCdr, Stop, Goto
        <5>2. h # a BY Parts
        <5> QED BY <2>1, <2>s, <3>2, <5>1, <5>2
      <4>3. ASSUME NEW b \in Analyses, AnalysisStep(b) PROVE pc[Trigger[a]] = "done"
        <5>1. (\E l : pc' = [pc EXCEPT ![b] = l]) \/ pc' = pc
          BY <4>3 DEF AnalysisStep, Analyse, FindRecord, CreateRecord, IncrementRecord, IncrementCdr,
                      DebitAnalysis, ChargeFails, StoreAnalysis, Stop, Goto
        <5>2. b = a BY <2>1, <2>s, <3>2, <5>1
        <5>3. Analyse(a)
          BY <3>2, <4>3, <5>2 DEF AnalysisStep, FindRecord, CreateRecord, IncrementRecord,
                      IncrementCdr, DebitAnalysis, ChargeFails, StoreAnalysis, Stop
        <5> QED BY <2>1, <5>3 DEF Analyse
      <4>4. ASSUME NEW d \in Deletions, DestroyReport(d) PROVE FALSE
        <5>1. pc' = [pc EXCEPT ![d] = "done"] /\ d # a BY <4>4, Parts DEF DestroyReport, Goto
        <5> QED BY <2>1, <2>s, <3>2, <5>1
      <4> QED BY <1>2, <2>d, <3>0, <4>1, <4>2, <4>3, <4>4, <2>1, <3>2, CostSteps DEF CostKinds, PlacesStay
    <3> QED BY <3>1, <3>2
  <2>2. ASSUME NEW row \in ledger', row.by \in Analyses
        PROVE  pc'[row.by] \in {"storing", "done", "stopped"}
    <3>1. CASE ChargedKept BY <2>2, <3>1 DEF ChargedKept, Ordered
    <3>2. ASSUME NEW h \in Hangups, DebitUsage(h) PROVE pc'[row.by] \in {"storing", "done", "stopped"}
      <4>1. row \in ledger \/ row.by = h BY <3>2 DEF DebitUsage, Charge
      <4>2. pc' = [pc EXCEPT ![h] = "closing"] /\ h # row.by BY <2>2, <3>2, Parts DEF DebitUsage, Goto
      <4> QED BY <2>2, <2>s, <4>1, <4>2 DEF Ordered
    <3>3. ASSUME NEW a \in Analyses, DebitAnalysis(a) PROVE pc'[row.by] \in {"storing", "done", "stopped"}
      <4>1. row \in ledger \/ row.by = a BY <3>3 DEF DebitAnalysis, Charge
      <4>2. pc' = [pc EXCEPT ![a] = "storing"] BY <3>3 DEF DebitAnalysis, Goto
      <4> QED BY <2>2, <2>s, <4>1, <4>2 DEF Ordered
    <3>4. ASSUME NEW d \in Deletions, DestroyReport(d) PROVE pc'[row.by] \in {"storing", "done", "stopped"}
      <4>1. row \in ledger \/ row.by = d BY <3>4 DEF DestroyReport
      <4>2. pc' = [pc EXCEPT ![d] = "done"] /\ d # row.by BY <2>2, <3>4, Parts DEF DestroyReport, Goto
      <4> QED BY <2>2, <2>s, <4>1, <4>2 DEF Ordered
    <3> QED BY <1>2, <3>1, <3>2, <3>3, <3>4, StepKinds DEF Kinds
  <2> QED BY <2>1, <2>2 DEF Ordered, Begun
<1> QED BY <1>1, <1>2

LEMMA TotalsAreNat ==
    ASSUME Shapes
    PROVE  Total \in Nat /\ Owed \in Nat
<1>1. {row \in ledger : row.dir = "debit" /\ row.by \in Handlers} \in SUBSET ledger OBVIOUS
<1> QED BY <1>1, SumsAreNat DEF Total, Owed, Debits

LEMMA NothingOwed ==
    ASSUME Base
    PROVE  ledger = {} => Owed = 0
<1> SUFFICES ASSUME ledger = {} PROVE Owed = 0 OBVIOUS
<1>1. {row \in ledger : row.dir = "debit" /\ row.by \in Handlers} = {} OBVIOUS
<1> QED BY <1>1, SumEmpty DEF Owed, Debits

LEMMA NothingOwedThen == (Base => (ledger = {} => Owed = 0))'
<1>1. Base => (ledger = {} => Owed = 0) BY NothingOwed
<1> QED BY <1>1, PTL

LEMMA TypesAre ==
    /\ RecordTypes[1] = "realtime" /\ RecordTypes[2] = "non-realtime" /\ RecordTypes[3] = "analytic"
    /\ \A k, l \in 1 .. 3 : RecordTypes[k] = RecordTypes[l] => k = l
    /\ \A type \in Types : \E k \in 1 .. 3 : type = RecordTypes[k]
<1>1. RecordTypes[1] = "realtime" /\ RecordTypes[2] = "non-realtime" /\ RecordTypes[3] = "analytic"
  BY DEF RecordTypes
<1>2. \A k \in 1 .. 3 : k = 1 \/ k = 2 \/ k = 3 OBVIOUS
<1>3. 1 \in 1 .. 3 /\ 2 \in 1 .. 3 /\ 3 \in 1 .. 3 OBVIOUS
<1>4. \A k, l \in 1 .. 3 : RecordTypes[k] = RecordTypes[l] => k = l BY <1>1, <1>2
<1>5. \A type \in Types : \E k \in 1 .. 3 : type = RecordTypes[k] BY <1>1, <1>3 DEF Types, CallTypes
<1> QED BY <1>1, <1>4, <1>5

LEMMA FreshIsZero ==
    ASSUME Base, FreshFrom(1)
    PROVE  Total = 0
<1>1. \A i \in DOMAIN records : records[i].cost = 0
  <2>1. ASSUME NEW i \in DOMAIN records PROVE records[i].cost = 0
    <3>1. records[i].type \in Types BY RecordFacts DEF Base, Record
    <3> QED BY <3>1, TypesAre DEF FreshFrom
  <2> QED BY <2>1
<1>2. \A i \in DOMAIN records : Costs[i] = 0 BY <1>1 DEF Costs
<1>3. IsFiniteSet(DOMAIN records) BY RecordsAreFinite
<1> QED BY <1>2, <1>3, SumZero DEF Total

\* Costs that stay, in terms of the sums.
LEMMA CostsStayed ==
    ASSUME Base, Next, CostsStay
    PROVE  /\ Total' = Total /\ Owed' = Owed
           /\ \A k \in 1 .. 3 : FreshFrom(k) => FreshFrom(k)'
<1> DEFINE D == DOMAIN records
           E == DOMAIN records'
           f == Costs
           g == [i \in E |-> records'[i].cost]
<1>1. D \subseteq E /\ IsFiniteSet(D) /\ IsFiniteSet(E) /\ \A i \in D : f[i] \in Nat
  <2>1. IsFiniteSet(E) BY BaseKept, RecordsStayFinite
  <2>2. IsFiniteSet(D) /\ \A i \in D : f[i] \in Nat BY RecordsAreFinite, RecordFacts DEF Costs, Base, Record
  <2> QED BY <2>1, <2>2 DEF CostsStay
<1>2. (\A i \in D : g[i] = f[i]) /\ \A i \in E \ D : g[i] = 0 BY DEF CostsStay, Costs
<1>3. Total = SumFunctionOnSet(f, D) /\ Total' = SumFunctionOnSet(g, E) BY DEF Total, Costs
<1>4. Total' = Total
  <2> HIDE DEF D, E, f, g
  <2>1. E = D \cup (E \ D) /\ D \cap (E \ D) = {} /\ IsFiniteSet(E \ D) BY <1>1, FS_Subset
  <2>2. SumFunctionOnSet(g, D \cup (E \ D)) = SumFunctionOnSet(g, D) + SumFunctionOnSet(g, E \ D)
    <3>1. \A i \in D \cup (E \ D) : g[i] \in Nat BY <1>1, <1>2
    <3> QED BY <1>1, <2>1, <3>1, SumSplit
  <2>3. SumFunctionOnSet(g, D) = SumFunctionOnSet(f, D) /\ SumFunctionOnSet(g, E \ D) = 0
    <3>1. SumFunctionOnSet(g, D) = SumFunctionOnSet(f, D) BY <1>1, <1>2, SumSame
    <3>2. SumFunctionOnSet(g, E \ D) = 0 BY <1>2, <2>1, SumZero
    <3> QED BY <3>1, <3>2
  <2>4. SumFunctionOnSet(f, D) \in Nat BY <1>1, SumTakeOut
  <2> QED BY <1>3, <2>1, <2>2, <2>3, <2>4
<1>5. Owed' = Owed BY DEF CostsStay, Owed, Debits, Worth
<1>6. ASSUME NEW k \in 1 .. 3, FreshFrom(k) PROVE FreshFrom(k)'
  <2>1. ASSUME NEW i \in E, NEW l \in k .. 3, records'[i].type = RecordTypes[l]
        PROVE  records'[i].cost = 0
    BY <1>6, <2>1 DEF CostsStay, FreshFrom
  <2> QED BY <2>1 DEF FreshFrom
<1> QED BY <1>4, <1>5, <1>6

------------------------
LEMMA TotalsStayNat == (Shapes => Total \in Nat /\ Owed \in Nat)'
<1>1. Shapes => Total \in Nat /\ Owed \in Nat BY TotalsAreNat
<1> QED BY <1>1, PTL

\* The sums of a call during its only hangup.
LEMMA AccountedHangup ==
    ASSUME Base, Ordered, Next, CdrLive, CdrLive', faulty' \subseteq Deletions, OneRun',
           Summed, NEW g \in Hangups, HangupStep(g)
    PROVE  Summed'
<1>s. /\ pc \in [Handlers -> Labels] /\ g \in Handlers /\ g \notin Counters /\ g \notin Deletions
      /\ bill \in [Hangups -> Bill] /\ bill[g] \in Bill /\ Billing(g) /\ cdr.cost \in Nat
      /\ cdr \in [state : {"none", "live", "deleted"}, tokens : Nat, cost : Nat]
  BY Parts DEF Base, Shapes
<1>o. OneRun BY OneRunBefore DEF Base
<1>b. Base' BY BaseKept
<1>w. price' = price /\ (price # NoPrice => price \in Nat) BY OneMoves, Parts DEF Base, Shapes
<1>p. (pc' = pc /\ pc[g] # "idle") \/ \E l \in Labels \ {"idle"} : pc' = [pc EXCEPT ![g] = l]
  <2>1. (pc' = pc /\ pc[g] # "idle") \/ \E l : pc' = [pc EXCEPT ![g] = l] /\ l # "idle"
    BY DEF HangupStep, BeginHangup, BeginFinalize, ReadRecord, SaveCost, ReadAnalytic,
           UpdateCdr, DebitUsage, FinalizeFails, CloseCdr, Stop, Goto
  <2> QED BY <1>b, <1>s, <2>1 DEF Base, Shapes
<1>a. /\ \A a \in Analyses : pc'[a] = pc[a]
      /\ Begun(Analyses)' = Begun(Analyses)
      /\ pc'[g] # "idle"
  <2>1. \A a \in Analyses : a # g /\ a \in Handlers BY Parts
  <2>2. (\A a \in Analyses : pc'[a] = pc[a]) /\ pc'[g] # "idle" BY <1>s, <1>p, <2>1
  <2> QED BY <2>2 DEF Begun
<1>h. Begun(Hangups)' = {g} /\ (pc[g] = "idle" => Begun(Hangups) = {}) /\ (pc[g] # "idle" => Accounted(g))
  <2>1. g \in Begun(Hangups)' BY <1>a DEF Begun
  <2>2. \A h, i \in Begun(Hangups)' : h = i
    <3>1. IsFiniteSet(Begun(Hangups)') BY Parts DEF Begun
    <3>2. Cardinality(Begun(Hangups)') <= 1 BY DEF OneRun
    <3> QED BY <3>1, <3>2, AtMostOne
  <2>3. Begun(Hangups) \subseteq Begun(Hangups)' BY Irreversible, Parts DEF Base
  <2>4. pc[g] = "idle" => g \notin Begun(Hangups) BY DEF Begun
  <2>5. pc[g] # "idle" => g \in Begun(Hangups) BY DEF Begun
  <2> QED BY <2>1, <2>2, <2>3, <2>4, <2>5 DEF Summed
<1>q. Accounted(g)' => Summed' BY <1>h DEF Summed
<1>f. ~(g \in faulty') BY <1>s
<1>t. Total \in Nat /\ Owed \in Nat /\ Total' \in Nat /\ Owed' \in Nat BY <1>b, TotalsAreNat, TotalsStayNat DEF Base
<1> DEFINE FreshNow(k) == \A i \in DOMAIN records' : \A l \in k .. 3 :
                            records'[i].type = RecordTypes[l] => records'[i].cost = 0
<1>c. ASSUME records' = records, ledger' = ledger, cdr'.cost = cdr.cost
      PROVE  /\ Total' = Total /\ Owed' = Owed
             /\ \A k \in 1 .. 3 : FreshFrom(k) => FreshNow(k)
  <2>1. Total' = Total /\ Owed' = Owed BY <1>c, CostsStayed DEF CostsStay
  <2>2. \A k \in 1 .. 3 : FreshFrom(k) => FreshNow(k) BY <1>c DEF FreshFrom
  <2> QED BY <2>1, <2>2
<1>n. (FreshNow(bill'[g].stage) => FreshFrom(bill[g].stage)') /\ (FreshNow(1) => FreshFrom(1)') BY DEF FreshFrom
<1> HIDE DEF FreshNow
<1> DEFINE B == bill[g]
           N == bill'[g]
           Idle == Begun(Analyses) = {}
           IdleNow == Begun(Analyses)' = {}
           Goal == Accounted(g)'
<1>1. CASE BeginHangup(g)
  <2>1. pc[g] = "idle" /\ pc'[g] = "found" /\ N.loaded = cdr.cost
        /\ records' = records /\ ledger' = ledger /\ cdr' = cdr
    BY <1>1, <1>s DEF BeginHangup, Goto, Bill
  <2>2. Untouched BY <1>h, <2>1 DEF Summed
  <2>3. Untouched' /\ N.loaded = 0 BY <1>a, <1>c, <1>n, <2>1, <2>2 DEF Untouched
  <2>4. Goal BY <2>1, <2>3 DEF Accounted
  <2> QED BY <1>q, <2>4
<1>2. CASE BeginFinalize(g)
  <2> DEFINE due == SumFunctionOnSet(Counted, UNION {Found(type) : type \in CallTypes})
  <2>1. pc[g] = "found" /\ records' = records /\ ledger' = ledger /\ cdr' = cdr BY <1>2 DEF BeginFinalize
  <2>2. Untouched /\ B.loaded = 0 BY <1>h, <2>1 DEF Accounted
  <2>3. /\ Total' = 0 /\ Owed' = 0 /\ cdr'.cost = 0 /\ ledger' = {} /\ IdleNow /\ FreshNow(1)
    BY <1>a, <1>c, <2>1, <2>2, FreshIsZero, NothingOwed DEF Untouched
  <2>4. \/ price # NoPrice /\ pc'[g] = "reading" /\ N = [B EXCEPT !.reloaded = cdr.cost, !.due = due]
        \/ pc'[g] = "closing" /\ N = B
    BY <1>2, <1>s DEF BeginFinalize, Goto
  <2>5. B.usage = 0 /\ B.total = 0 /\ B.stage = 1 BY <1>s, <2>1 DEF Billing, NewBill
  <2> HIDE DEF due
  <2>6. CASE pc'[g] = "reading" /\ N = [B EXCEPT !.reloaded = cdr.cost, !.due = due]
    <3>1. N.usage = 0 /\ N.stage = 1 /\ N.loaded = 0 /\ N.reloaded = 0
      BY <1>s, <2>1, <2>2, <2>3, <2>5, <2>6 DEF Bill
    <3>2. Goal BY <1>n, <2>3, <2>6, <3>1 DEF Accounted
    <3> QED BY <1>q, <3>2
  <2>7. CASE pc'[g] = "closing" /\ N = B
    <3>1. Goal BY <2>2, <2>3, <2>5, <2>7 DEF Accounted
    <3> QED BY <1>q, <3>1
  <2> QED BY <2>4, <2>6, <2>7
<1>3. CASE ReadRecord(g)
  <2> DEFINE k == B.stage
  <2>1. pc[g] = "reading" /\ records' = records /\ ledger' = ledger /\ cdr' = cdr BY <1>3 DEF ReadRecord
  <2>2. k \in 1 .. 2
    <3>1. RecordTypes[k] # "analytic" /\ k \in 1 .. 3 BY <1>3, <1>s DEF ReadRecord, Bill
    <3>2. RecordTypes[3] = "analytic" BY TypesAre
    <3> HIDE DEF k
    <3>3. k # 3 BY <3>1, <3>2
    <3> QED BY <3>1, <3>3
  <2>3. /\ B.loaded = 0 /\ Idle /\ ledger = {} /\ cdr.cost = 0 /\ B.reloaded = 0
        /\ FreshFrom(k) /\ Total = B.usage
    BY <1>h, <2>1 DEF Accounted
  <2>4. /\ Total' = B.usage /\ cdr'.cost = 0 /\ ledger' = {} /\ IdleNow /\ FreshNow(k)
    BY <1>a, <1>c, <2>1, <2>2, <2>3
  <2>5. \/ \E i \in Found(RecordTypes[k]) :
                 /\ N = [B EXCEPT !.rec = i, !.cost = records[i].cost,
                            !.tokens = records[i].tokens, !.usage = @ + price * records[i].tokens]
                 /\ pc'[g] = "saving"
        \/ N = [B EXCEPT !.stage = @ + 1] /\ pc'[g] = "reading" /\ Found(RecordTypes[k]) = {}
    BY <1>3, <1>s DEF ReadRecord, Goto
  <2>6. ASSUME NEW i \in Found(RecordTypes[k]), pc'[g] = "saving",
               N = [B EXCEPT !.rec = i, !.cost = records[i].cost,
                            !.tokens = records[i].tokens, !.usage = @ + price * records[i].tokens]
        PROVE  Summed'
    <3>1. records[i].cost = 0
      <4>1. i \in DOMAIN records /\ records[i].type = RecordTypes[k] /\ k \in k .. 3 BY <2>2 DEF Found
      <4> QED BY <2>3, <4>1 DEF FreshFrom
    <3> DEFINE t == records[i].tokens
               u == price * t
    <3>2. N.cost = 0 /\ N.tokens = t /\ N.usage = B.usage + u
          /\ N.stage = k /\ N.loaded = 0 /\ N.reloaded = 0
      BY <1>s, <2>3, <2>6, <3>1 DEF Bill
    <3> HIDE DEF t
    <3>3. Total' + price' * N.tokens = N.usage BY <1>w, <2>4, <3>2
    <3> HIDE DEF k
    <3>4. FreshNow(N.stage) /\ Total' = B.usage /\ cdr'.cost = 0 /\ ledger' = {} /\ IdleNow BY <2>4, <3>2
    <3>5. Goal BY <1>n, <2>6, <3>2, <3>3, <3>4 DEF Accounted
    <3> QED BY <1>q, <3>5
  <2>7. CASE N = [B EXCEPT !.stage = @ + 1] /\ pc'[g] = "reading" /\ Found(RecordTypes[k]) = {}
    <3>1. N.stage = k + 1 /\ N.usage = B.usage /\ N.loaded = 0 /\ N.reloaded = 0 BY <1>s, <2>3, <2>7 DEF Bill
    <3>2. FreshNow(k + 1)
      <4>1. \A l \in k + 1 .. 3 : l \in k .. 3 BY <2>2
      <4> HIDE DEF k
      <4> QED BY <2>4, <4>1 DEF FreshNow
    <3>3. FreshFrom(bill[g].stage)' BY <1>n, <3>1, <3>2
    <3>4. Goal BY <2>4, <2>7, <3>1, <3>3 DEF Accounted
    <3> QED BY <1>q, <3>4
  <2> QED BY <2>5, <2>6, <2>7
<1>4. CASE SaveCost(g)
  <2> DEFINE r == B.rec
             k == B.stage
             c == price * B.tokens
             D == DOMAIN records
             f == Costs
             e == [i \in DOMAIN records' |-> records'[i].cost]
  <2>1. pc[g] = "saving" /\ pc'[g] = "reading" /\ ledger' = ledger /\ cdr' = cdr BY <1>4, <1>s DEF SaveCost, Goto
  <2>2. N = [B EXCEPT !.stage = @ + 1, !.rec = 0, !.tokens = 0, !.cost = 0] BY <1>4, <1>s DEF SaveCost
  <2>3. N.stage = k + 1 /\ N.usage = B.usage /\ N.loaded = B.loaded /\ N.reloaded = B.reloaded
    BY <1>s, <2>2 DEF Bill
  <2>4. /\ B.loaded = 0 /\ Idle /\ ledger = {} /\ cdr.cost = 0 /\ B.reloaded = 0
        /\ FreshFrom(k) /\ B.cost = 0 /\ Total + c = B.usage
    BY <1>h, <2>1 DEF Accounted
  <2>5. k \in 1 .. 2 /\ r \in D /\ records[r].type = RecordTypes[k] /\ c \in Nat
    BY <1>4, <1>s, <2>1, RecordSaved DEF Billing, Bill
  <2>6. records[r].cost = 0
    <3>1. k \in k .. 3 BY <2>5
    <3> QED BY <2>4, <2>5, <3>1 DEF FreshFrom
  <2>7. /\ DOMAIN records' = D
        /\ \A i \in D : records'[i].type = records[i].type
        /\ \A i \in D \ {r} : records'[i] = records[i]
        /\ records'[r].cost = c
    <3>1. ~records[r].gone BY <2>5, AllLive DEF Live
    <3>2. records'[r].cost = Saved(records[r].cost, B.cost, c) BY <1>4, <3>1, RecordSaved
    <3>3. Saved(records[r].cost, B.cost, c) = c BY <2>4, <2>6 DEF Saved
    <3> QED BY <1>4, <3>2, <3>3, RecordSaved
  <2>8. FreshNow(k + 1)
    <3>1. ASSUME NEW i \in DOMAIN records', NEW l \in k + 1 .. 3, records'[i].type = RecordTypes[l]
          PROVE  records'[i].cost = 0
      <4>1. l \in k .. 3 /\ l \in 1 .. 3 /\ k \in 1 .. 3 /\ l # k /\ i \in D BY <2>5, <2>7
      <4>2. records[i].type = RecordTypes[l] BY <2>7, <3>1, <4>1
      <4>3. i # r BY <2>5, <4>1, <4>2, TypesAre
      <4> QED BY <2>4, <2>7, <4>1, <4>2, <4>3 DEF FreshFrom
    <3> HIDE DEF k
    <3> QED BY <3>1 DEF FreshNow
  <2>9. Total' = N.usage
    <3>1. Total = SumFunctionOnSet(f, D) /\ Total' = SumFunctionOnSet(e, D) BY <2>7 DEF Total, Costs
    <3>2. IsFiniteSet(D) /\ (\A i \in D : f[i] = records[i].cost /\ f[i] \in Nat)
      BY RecordsAreFinite, RecordFacts DEF Base, Record, Costs
    <3>3. \A i \in D : e[i] = records'[i].cost BY <2>7
    <3> HIDE DEF D, f, e, r, c
    <3>4. (\A i \in D \ {r} : e[i] = f[i]) /\ e[r] = c /\ f[r] = 0 BY <2>5, <2>6, <2>7, <3>2, <3>3
    <3>5. \A i \in D : e[i] \in Nat BY <2>5, <3>2, <3>4
    <3>6. SumFunctionOnSet(e, D) + f[r] = SumFunctionOnSet(f, D) + e[r] BY <2>5, <3>2, <3>4, <3>5, SumChange
    <3> QED BY <1>t, <2>3, <2>4, <2>5, <3>1, <3>4, <3>6
  <2>10. FreshFrom(bill[g].stage)' BY <1>n, <2>3, <2>8
  <2> HIDE DEF r, k, c, D, f, e
  <2>11. Goal BY <1>a, <2>1, <2>3, <2>4, <2>9, <2>10 DEF Accounted
  <2> QED BY <1>q, <2>11
<1>5. CASE ReadAnalytic(g)
  <2>1. pc[g] = "reading" /\ pc'[g] = "totalled" /\ records' = records /\ ledger' = ledger /\ cdr' = cdr
        /\ RecordTypes[B.stage] = "analytic"
    BY <1>5, <1>s DEF ReadAnalytic, Goto
  <2>2. /\ B.loaded = 0 /\ Idle /\ ledger = {} /\ cdr.cost = 0 /\ B.reloaded = 0
        /\ FreshFrom(B.stage) /\ Total = B.usage
    BY <1>h, <2>1 DEF Accounted
  <2>3. B.stage = 3
    <3>1. B.stage \in 1 .. 3 BY <1>s DEF Bill
    <3> QED BY <2>1, <3>1, TypesAre
  <2>4. \/ \E i \in Found("analytic") : N = [B EXCEPT !.total = B.usage + records[i].cost]
        \/ N = [B EXCEPT !.total = B.usage]
    BY <1>5, <1>s DEF ReadAnalytic
  <2>5. \A i \in Found("analytic") : records[i].cost = 0
    <3>1. 3 \in 3 .. 3 OBVIOUS
    <3> QED BY <2>2, <2>3, <3>1, TypesAre DEF Found, FreshFrom
  <2>6. N.total = B.usage /\ N.usage = B.usage /\ N.loaded = 0 /\ N.reloaded = 0
    <3>1. ASSUME NEW i \in Found("analytic"), N = [B EXCEPT !.total = B.usage + records[i].cost]
          PROVE  N.total = B.usage /\ N.usage = B.usage /\ N.loaded = 0 /\ N.reloaded = 0
      <4>1. records[i].cost = 0 /\ B.usage \in Nat BY <1>s, <2>5 DEF Bill
      <4>2. N = [B EXCEPT !.total = B.usage] BY <3>1, <4>1
      <4> QED BY <1>s, <2>2, <4>2 DEF Bill
    <3>2. CASE N = [B EXCEPT !.total = B.usage] BY <1>s, <2>2, <3>2 DEF Bill
    <3> QED BY <2>4, <3>1, <3>2
  <2>7. Total' = B.usage BY <1>c, <2>1, <2>2
  <2>8. Goal BY <1>a, <2>1, <2>2, <2>6, <2>7 DEF Accounted
  <2> QED BY <1>q, <2>8
<1>6. CASE UpdateCdr(g)
  <2>1. pc[g] = "totalled" /\ pc'[g] = "debiting" /\ records' = records /\ ledger' = ledger /\ N = B
    BY <1>6, <1>s DEF UpdateCdr, Goto
  <2>2. /\ B.loaded = 0 /\ Idle /\ ledger = {} /\ cdr.cost = 0 /\ B.reloaded = 0
        /\ Total = B.usage /\ B.total = B.usage
    BY <1>h, <2>1 DEF Accounted
  <2>3. cdr'.cost = Saved(cdr.cost, B.reloaded, B.total) BY <1>6, <1>s DEF UpdateCdr
  <2>4. cdr'.cost = B.usage BY <2>2, <2>3 DEF Saved
  <2>5. Total' = Total BY <2>1 DEF Total, Costs
  <2>6. Goal BY <1>a, <2>1, <2>2, <2>4, <2>5 DEF Accounted
  <2> QED BY <1>q, <2>6
<1>7. CASE DebitUsage(g)
  <2> DEFINE row == [key |-> UsageKey, dir |-> "debit", usd |-> B.usage, by |-> g]
             R == {x \in ledger' : x.dir = "debit" /\ x.by \in Handlers}
             W == [x \in ledger' |-> x.usd]
  <2>1. pc[g] = "debiting" /\ pc'[g] = "closing" /\ records' = records /\ cdr' = cdr /\ bill' = bill
    BY <1>7, <1>s DEF DebitUsage, Goto
  <2>2. /\ B.loaded = 0 /\ Idle /\ ledger = {}
        /\ Total = B.usage /\ B.total = B.usage /\ cdr.cost = B.usage /\ B.usage \in Nat
    BY <1>h, <1>s, <2>1 DEF Accounted, Bill
  <2>3. Owed' = SumFunctionOnSet(W, R) BY DEF Owed, Debits, Worth
  <2>4. Owed' = B.usage
    <3>1. CASE B.usage > 0
      <4>1. ledger' = {row} BY <1>7, <2>2, <3>1 DEF DebitUsage, Charge, UsageKey
      <4>2. R = {} \cup {row} /\ W[row] = B.usage BY <1>s, <4>1
      <4> HIDE DEF R, W, row
      <4>3. SumFunctionOnSet(W, {} \cup {row}) = W[row] + SumFunctionOnSet(W, {}) BY <2>2, <4>2, SumAdd, FS_EmptySet
      <4> QED BY <2>2, <2>3, <4>2, <4>3, SumEmpty
    <3>2. CASE ~(B.usage > 0)
      <4>1. ledger' = {} /\ B.usage = 0 BY <1>7, <2>2, <3>2 DEF DebitUsage
      <4> QED BY <1>b, <4>1, NothingOwedThen
    <3> QED BY <3>1, <3>2
  <2>5. Total' = Total BY <2>1 DEF Total, Costs
  <2> HIDE DEF row, R, W
  <2>6. Goal BY <1>a, <2>1, <2>2, <2>4, <2>5 DEF Accounted
  <2> QED BY <1>q, <2>6
<1>8. CASE FinalizeFails(g) BY <1>8, <1>f DEF FinalizeFails
<1>9. CASE CloseCdr(g)
  <2>1. pc[g] = "closing" /\ pc'[g] = "done" /\ records' = records /\ ledger' = ledger
    BY <1>9, <1>s DEF CloseCdr, Goto
  <2>2. B.loaded = 0 /\ Idle /\ Owed = B.total /\ Total = Owed /\ cdr.cost = Owed BY <1>h, <2>1 DEF Accounted
  <2>3. cdr'.cost = Saved(cdr.cost, B.loaded, B.total) BY <1>9, <1>s DEF CloseCdr
  <2>4. cdr'.cost = Owed BY <2>2, <2>3 DEF Saved
  <2>5. Total' = Total /\ Owed' = Owed BY <2>1 DEF Total, Costs, Owed, Debits, Worth
  <2>6. Goal BY <1>a, <2>1, <2>2, <2>4, <2>5 DEF Accounted
  <2> QED BY <1>q, <2>6
<1>10. CASE Stop(g) BY <1>10, <1>f DEF Stop
<1> QED BY <1>1, <1>2, <1>3, <1>4, <1>5, <1>6, <1>7, <1>8, <1>9, <1>10 DEF HangupStep

------------------------
\* The sums of a call during the only analysis, which its only hangup fired.
LEMMA AccountedAnalysis ==
    ASSUME Base, Ordered, Next, CdrLive, CdrLive', faulty' \subseteq Deletions, OneRun',
           Summed, NEW a \in Analyses, AnalysisStep(a)
    PROVE  Summed'
<1>s. /\ pc \in [Handlers -> Labels] /\ a \in Handlers /\ a \in Counters /\ a \notin Deletions
      /\ a \notin Usages /\ Placed(a) /\ cdr.cost \in Nat
      /\ cdr \in [state : {"none", "live", "deleted"}, tokens : Nat, cost : Nat]
  BY Parts DEF Base, Shapes
<1>b. Base' BY BaseKept
<1>f. ~(a \in faulty') BY <1>s
<1>t. Total \in Nat /\ Owed \in Nat /\ Total' \in Nat /\ Owed' \in Nat BY <1>b, TotalsAreNat, TotalsStayNat DEF Base
<1>p. (\E l \in Labels \ {"idle"} : pc' = [pc EXCEPT ![a] = l]) /\ bill' = bill
  <2>1. (\E l : pc' = [pc EXCEPT ![a] = l] /\ l # "idle") /\ bill' = bill
    BY DEF AnalysisStep, Analyse, FindRecord, CreateRecord, IncrementRecord, IncrementCdr,
           DebitAnalysis, ChargeFails, StoreAnalysis, Stop, Goto
  <2> QED BY <1>b, <1>s, <2>1 DEF Base, Shapes
<1>k. price' = price /\ CostOf(a)' = CostOf(a) BY OneMoves DEF Base, CostOf
<1>a. /\ Begun(Analyses)' = {a}
      /\ pc[a] = "idle" => Begun(Analyses) = {}
      /\ pc[a] # "idle" => Begun(Analyses) = {a}
  <2>1. a \in Begun(Analyses)' BY <1>s, <1>p DEF Begun
  <2>2. \A b, c \in Begun(Analyses)' : b = c
    <3>1. IsFiniteSet(Begun(Analyses)') BY Parts DEF Begun
    <3>2. Cardinality(Begun(Analyses)') <= 1 BY DEF OneRun
    <3> QED BY <3>1, <3>2, AtMostOne
  <2>3. Begun(Analyses) \subseteq Begun(Analyses)' BY Irreversible, Parts DEF Base
  <2>4. a \in Begun(Analyses) <=> pc[a] # "idle" BY DEF Begun
  <2> QED BY <2>1, <2>2, <2>3, <2>4
<1>h. PICK t \in Hangups : Begun(Hangups) = {t} /\ Begun(Hangups)' = {t} /\ pc[t] = "done" /\ pc'[t] = "done"
  <2> DEFINE t == Trigger[a]
  <2>1. t # ByRequest BY <1>a DEF OneRun
  <2>2. t \in Hangups BY <2>1, BillingConstants
  <2>3. pc[t] = "done"
    <3>1. CASE pc[a] = "idle"
      <4>1. Analyse(a)
        BY <1>f, <3>1 DEF AnalysisStep, FindRecord, CreateRecord, IncrementRecord, IncrementCdr,
                    DebitAnalysis, ChargeFails, StoreAnalysis, Stop
      <4> QED BY <2>1, <4>1 DEF Analyse
    <3>2. CASE pc[a] # "idle" BY <1>a, <2>1, <3>2 DEF Ordered
    <3> QED BY <3>1, <3>2
  <2> HIDE DEF t
  <2>4. t \in Begun(Hangups) /\ \A h, i \in Begun(Hangups) : h = i
    BY <2>2, <2>3, OneEach, OneRunBefore DEF Begun, Base
  <2>5. Begun(Hangups)' = Begun(Hangups) /\ pc'[t] = pc[t]
    <3>1. \A h \in Hangups : pc'[h] = pc[h]
      <4>1. \A h \in Hangups : h # a /\ h \in Handlers BY Parts
      <4> QED BY <1>s, <1>p, <4>1
    <3> QED BY <2>2, <3>1 DEF Begun
  <2> QED BY <2>2, <2>3, <2>4, <2>5
<1> DEFINE c == CostOf(a)
<1>1. Accounted(t) BY <1>h DEF Summed
<1>2. /\ pc[a] = "idle" => Total = Owed /\ cdr.cost = Owed
      /\ pc[a] # "idle" =>
           /\ Total = Owed + (IF pc[a] \in {"counted", "debiting"} THEN CostOf(a) ELSE 0)
           /\ cdr.cost = Owed + (IF pc[a] = "debiting" THEN CostOf(a) ELSE 0)
  BY <1>1, <1>a, <1>h DEF Accounted
<1>3. ASSUME Total' = Owed' + (IF pc'[a] \in {"counted", "debiting"} THEN CostOf(a) ELSE 0),
             cdr'.cost = Owed' + (IF pc'[a] = "debiting" THEN CostOf(a) ELSE 0)
      PROVE  Summed'
  <2>1. \A b \in Begun(Analyses)' :
          /\ Total' = Owed' + (IF pc'[b] \in {"counted", "debiting"} THEN CostOf(b)' ELSE 0)
          /\ cdr'.cost = Owed' + (IF pc'[b] = "debiting" THEN CostOf(b)' ELSE 0)
    BY <1>3, <1>a, <1>k
  <2>2. Begun(Analyses)' # {} BY <1>a
  <2> HIDE DEF c
  <2>3. Accounted(t)' BY <1>h, <2>1, <2>2 DEF Accounted
  <2> QED BY <1>h, <2>3 DEF Summed
<1> HIDE DEF c
<1>4. ASSUME Total' = Total, Owed' = Owed, cdr'.cost = cdr.cost,
             pc[a] \notin {"counted", "debiting"}, pc'[a] \notin {"counted", "debiting"}
      PROVE  Summed'
  <2>1. Total = Owed /\ cdr.cost = Owed BY <1>2, <1>4, <1>t
  <2>2. Total' = Owed' + 0 /\ cdr'.cost = Owed' + 0 BY <1>4, <1>t, <2>1
  <2>3. pc'[a] # "debiting" BY <1>4
  <2> QED BY <1>3, <1>4, <2>2, <2>3
<1>5. CASE Analyse(a) \/ FindRecord(a) \/ StoreAnalysis(a)
  <2>1. /\ records' = records /\ ledger' = ledger /\ cdr' = cdr
        /\ pc[a] \in {"idle", "known", "storing"}
        /\ \E l \in {"known", "storing", "held", "creating", "done"} : pc' = [pc EXCEPT ![a] = l]
    BY <1>5 DEF Analyse, FindRecord, StoreAnalysis, Goto
  <2>2. CostsStay BY <2>1 DEF CostsStay
  <2>3. pc'[a] \notin {"counted", "debiting"} /\ pc[a] \notin {"counted", "debiting"} BY <1>s, <2>1
  <2> QED BY <1>4, <2>1, <2>2, <2>3, CostsStayed
<1>6. CASE CreateRecord(a)
  <2> DEFINE n == Len(records) + 1
  <2>1. ledger' = ledger /\ cdr' = cdr /\ pc[a] = "creating" /\ pc'[a] = "held" BY <1>6, <1>s DEF CreateRecord, Goto
  <2>2. records'[n] = [type |-> TypeOf(a), tokens |-> 0, cost |-> 0, gone |-> FALSE] BY <1>6, <1>s, RecordCreated
  <2>3. DOMAIN records' = DOMAIN records \cup {n} /\ \A i \in DOMAIN records : records'[i] = records[i]
    BY <1>6, <1>s, RecordCreated
  <2>4. CostsStay BY <2>1, <2>2, <2>3 DEF CostsStay
  <2> QED BY <1>4, <2>1, <2>4, CostsStayed
<1>7. CASE IncrementRecord(a)
  <2> DEFINE r == at[a]
             D == DOMAIN records
             f == Costs
             e == [i \in DOMAIN records' |-> records'[i].cost]
  <2>1. ledger' = ledger /\ cdr' = cdr /\ pc[a] = "held" /\ pc'[a] = "counted"
    BY <1>7, <1>s DEF IncrementRecord, Goto
  <2>2. /\ r \in D /\ c \in Nat /\ DOMAIN records' = D
        /\ \A i \in D \ {r} : records'[i] = records[i]
        /\ records'[r].cost = records[r].cost + c
    <3>1. at[a] \in DOMAIN records /\ CostOf(a) \in Nat /\ DOMAIN records' = DOMAIN records
      BY <1>7, RecordIncremented
    <3>2. ~records[at[a]].gone BY <3>1, AllLive DEF Live
    <3> QED BY <1>7, <3>1, <3>2, RecordIncremented DEF c
  <2>3. Total' = Total + c
    <3>1. Total = SumFunctionOnSet(f, D) /\ Total' = SumFunctionOnSet(e, D) BY <2>2 DEF Total, Costs
    <3>2. IsFiniteSet(D) /\ (\A i \in D : f[i] = records[i].cost /\ f[i] \in Nat)
      BY RecordsAreFinite, RecordFacts DEF Base, Record, Costs
    <3>3. \A i \in D : e[i] = records'[i].cost BY <2>2
    <3> HIDE DEF D, f, e, r
    <3>4. (\A i \in D \ {r} : e[i] = f[i]) /\ e[r] = f[r] + c /\ f[r] \in Nat BY <2>2, <3>2, <3>3
    <3>5. \A i \in D : e[i] \in Nat BY <2>2, <3>2, <3>4
    <3>6. SumFunctionOnSet(e, D) + f[r] = SumFunctionOnSet(f, D) + e[r] BY <2>2, <3>2, <3>4, <3>5, SumChange
    <3> QED BY <1>t, <2>2, <3>1, <3>4, <3>6
  <2>4. Owed' = Owed BY <2>1 DEF Owed, Debits, Worth
  <2>5. Total = Owed /\ cdr.cost = Owed BY <1>2, <1>t, <2>1
  <2>6. Total' = Owed' + c /\ cdr'.cost = Owed' + 0 BY <1>t, <2>1, <2>3, <2>4, <2>5
  <2> QED BY <1>3, <2>1, <2>6 DEF c
<1>8. CASE IncrementCdr(a)
  <2>1. records' = records /\ ledger' = ledger /\ pc[a] = "counted" /\ pc'[a] = "debiting"
    BY <1>8, <1>s DEF IncrementCdr, Goto
  <2>2. cdr' = [cdr EXCEPT !.tokens = @ + Tokens[a], !.cost = @ + c] BY <1>8 DEF IncrementCdr, c
  <2>3. cdr'.cost = cdr.cost + c BY <1>s, <2>2
  <2>4. Total' = Total /\ Owed' = Owed BY <2>1 DEF Total, Costs, Owed, Debits, Worth
  <2>5. Total = Owed + c /\ cdr.cost = Owed BY <1>2, <1>t, <2>1 DEF c
  <2>6. Total' = Owed' + c /\ cdr'.cost = Owed' + c BY <2>3, <2>4, <2>5
  <2> QED BY <1>3, <2>1, <2>6 DEF c
<1>9. CASE DebitAnalysis(a)
  <2> DEFINE key == <<"usage_an", at[a]>>
             row == [key |-> key, dir |-> "debit", usd |-> c, by |-> a]
             R == {x \in ledger : x.dir = "debit" /\ x.by \in Handlers}
             Q == {x \in ledger' : x.dir = "debit" /\ x.by \in Handlers}
             V == Worth
             W == [x \in ledger' |-> x.usd]
  <2>1. records' = records /\ cdr' = cdr /\ pc[a] = "debiting" /\ pc'[a] = "storing"
    BY <1>9, <1>s DEF DebitAnalysis, Goto
  <2>2. Total = Owed + c /\ cdr.cost = Owed + c /\ c \in Nat BY <1>2, <1>s, <2>1, CostsAreNat DEF c, Base
  <2>3. Owed = SumFunctionOnSet(V, R) /\ Owed' = SumFunctionOnSet(W, Q) BY DEF Owed, Debits, Worth
  <2>4. \A x \in ledger : x.key # key
    <3>1. ASSUME NEW x \in ledger, x.key = key PROVE FALSE
      <4>1. x \in AnalysisRows
        <5>1. x \in UsageRows \/ x \in AnalysisRows \/ x \in RefundRows BY DEF Base, Shapes
        <5>2. x \notin UsageRows /\ x \notin RefundRows BY <3>1 DEF UsageRows, RefundRows, UsageKey
        <5> QED BY <5>1, <5>2
      <4>2. x.by \in Analyses /\ pc[x.by] \in {"storing", "done", "stopped"} BY <4>1 DEF AnalysisRows, Ordered
      <4>3. x.by = a BY <1>a, <2>1, <4>2 DEF Begun
      <4> QED BY <2>1, <4>2, <4>3
    <3> QED BY <3>1
  <2>5. Owed' = Owed + c
    <3>1. CASE c > 0
      <4>1. ledger' = ledger \cup {row} /\ row \notin ledger BY <1>9, <2>4, <3>1 DEF DebitAnalysis, Charge, c
      <4>2. Q = R \cup {row} /\ row \notin R /\ W[row] = c BY <1>s, <4>1
      <4>3. IsFiniteSet(R) /\ (\A x \in R : V[x] \in Nat /\ W[x] = V[x])
        <5>1. IsFiniteSet(ledger) /\ R \subseteq ledger BY DEF Base, Shapes
        <5>2. \A x \in ledger : x.usd \in Nat BY DEF Base, Shapes, UsageRows, AnalysisRows, RefundRows
        <5>3. \A x \in ledger : V[x] = x.usd /\ W[x] = x.usd BY <4>1 DEF Worth
        <5> QED BY <5>1, <5>2, <5>3, FS_Subset
      <4> HIDE DEF key, row, R, Q, V, W
      <4>4. SumFunctionOnSet(W, R \cup {row}) = W[row] + SumFunctionOnSet(W, R)
        <5>1. \A x \in R \cup {row} : W[x] \in Nat BY <2>2, <4>2, <4>3
        <5> QED BY <4>2, <4>3, <5>1, SumAdd
      <4>5. SumFunctionOnSet(W, R) = SumFunctionOnSet(V, R) BY <4>3, SumSame
      <4> QED BY <1>t, <2>2, <2>3, <4>2, <4>4, <4>5
    <3>2. CASE ~(c > 0)
      <4>1. ledger' = ledger /\ c = 0 BY <1>9, <2>2, <3>2 DEF DebitAnalysis, c
      <4>2. Owed' = Owed BY <4>1 DEF Owed, Debits, Worth
      <4> QED BY <1>t, <4>1, <4>2
    <3> QED BY <3>1, <3>2
  <2>6. Total' = Total BY <2>1 DEF Total, Costs
  <2>7. Total' = Owed' + 0 /\ cdr'.cost = Owed' + 0 BY <1>t, <2>1, <2>2, <2>5, <2>6
  <2> QED BY <1>3, <2>1, <2>7
<1>10. CASE ChargeFails(a) \/ Stop(a) BY <1>10, <1>f DEF ChargeFails, Stop
<1> QED BY <1>5, <1>6, <1>7, <1>8, <1>9, <1>10 DEF AnalysisStep

LEMMA SumsHold == Init => Sums
  BY DEF Init, Sums, CdrLive

LEMMA SumsKept == Base /\ Ordered /\ Sums /\ [Next]_vars => Sums'
<1> SUFFICES ASSUME Base, Ordered, Sums, [Next]_vars, CdrLive', faulty' \subseteq Deletions, OneRun'
             PROVE  Summed'
  BY DEF Sums, Undisturbed
<1>1. CASE UNCHANGED vars
  BY <1>1 DEF vars, Sums, Undisturbed, OneRun, CdrLive, Summed, Accounted, Untouched, FreshFrom,
              Total, Owed, Debits, Worth, Costs, Begun, CostOf
<1>2. CASE Next
  <2>0. faulty \subseteq Deletions /\ OneRun /\ price' = price BY <1>2, OneMoves, OneRunBefore DEF Base
  <2>1. CASE ~CdrLive
    <3>1. CreateCdr BY <1>2, <2>1, OpeningIs
    <3>2. /\ cdr.state = "none" /\ records' = <<>> /\ ledger' = {} /\ cdr'.cost = 0
          /\ \A p \in Hangups : pc'[p] = "idle" /\ pc[p] = "idle"
          /\ pc' = pc
      BY <3>1, Parts DEF CreateCdr, Base, Shapes, Unborn
    <3>3. Begun(Hangups)' = {} BY <3>2 DEF Begun
    <3>4. Begun(Analyses)' = {}
      <4>1. ASSUME NEW a \in Analyses, pc[a] # "idle" PROVE FALSE
        <5>1. a \in Begun(Analyses) BY <4>1 DEF Begun
        <5>2. Trigger[a] # ByRequest /\ Trigger[a] \in Hangups BY <2>0, <5>1, BillingConstants DEF OneRun
        <5>3. pc[Trigger[a]] = "done" BY <5>1, <5>2 DEF Ordered
        <5> QED BY <3>2, <5>2, <5>3
      <4> QED BY <3>2, <4>1 DEF Begun
    <3>5. FreshFrom(1)' BY <3>2 DEF FreshFrom
    <3> QED BY <3>2, <3>3, <3>4, <3>5 DEF Summed, Untouched
  <2>2. CASE CdrLive
    <3>0. Summed BY <2>0, <2>2 DEF Sums, Undisturbed
    <3>1. CASE CostsStay /\ PlacesStay
      <4>1. /\ Total' = Total /\ Owed' = Owed
            /\ \A k \in 1 .. 3 : FreshFrom(k) => FreshFrom(k)'
        BY <1>2, <3>1, CostsStayed
      <4>2. /\ \A p \in Hangups \cup Analyses : pc'[p] = pc[p]
            /\ Begun(Hangups)' = Begun(Hangups) /\ Begun(Analyses)' = Begun(Analyses)
            /\ ledger' = ledger /\ cdr'.cost = cdr.cost /\ bill' = bill
        BY <3>1 DEF PlacesStay, CostsStay, Begun
      <4>3. Untouched => Untouched' BY <4>1, <4>2 DEF Untouched
      <4>4. ASSUME NEW h \in Hangups, Accounted(h) PROVE Accounted(h)'
        <5>1. bill[h].stage \in 1 .. 3 BY DEF Base, Shapes, Bill
        <5>2. FreshFrom(bill[h].stage) => FreshFrom(bill[h].stage)'
          <6>1. ASSUME NEW k \in 1 .. 3, k = bill[h].stage
                PROVE  FreshFrom(bill[h].stage) => FreshFrom(bill[h].stage)'
            <7>1. FreshFrom(k) => FreshFrom(k)' BY <4>1
            <7>2. bill'[h].stage = k BY <4>2, <6>1
            <7> QED BY <6>1, <7>1, <7>2 DEF FreshFrom
          <6> QED BY <5>1, <6>1
        <5>3. pc'[h] = pc[h] /\ \A a \in Analyses : pc'[a] = pc[a] /\ CostOf(a)' = CostOf(a)
          BY <2>0, <4>2 DEF CostOf
        <5>4. \A a \in Begun(Analyses) : a \in Analyses BY DEF Begun
        <5> QED BY <2>0, <4>1, <4>2, <4>3, <4>4, <5>2, <5>3, <5>4 DEF Accounted
      <4>5. \A h \in Begun(Hangups) : h \in Hangups BY DEF Begun
      <4> QED BY <3>0, <4>2, <4>3, <4>4, <4>5 DEF Summed
    <3>2. ASSUME NEW h \in Hangups, HangupStep(h) PROVE Summed' BY <1>2, <2>2, <3>0, <3>2, AccountedHangup
    <3>3. ASSUME NEW a \in Analyses, AnalysisStep(a) PROVE Summed' BY <1>2, <2>2, <3>0, <3>3, AccountedAnalysis
    <3>4. ASSUME NEW d \in Deletions, DestroyReport(d) PROVE FALSE
      <4>1. cdr'.state = "deleted" BY <3>4 DEF DestroyReport, Base, Shapes
      <4> QED BY <4>1 DEF CdrLive
    <3> QED BY <1>2, <3>1, <3>2, <3>3, <3>4, CostSteps DEF CostKinds
  <2> QED BY <2>1, <2>2
<1> QED BY <1>1, <1>2

\* What the sums say once nothing of the call is under way.
LEMMA SettledSums ==
    ASSUME Base, Sums, CdrLive, Undisturbed,
           \A p \in Handlers \ Deletions : pc[p] \in {"idle", "done"}
    PROVE  Total = Owed /\ cdr.cost = Owed
<1>0. Summed /\ Owed \in Nat BY TotalsAreNat DEF Sums, Base
<1>1. CASE Begun(Hangups) = {} BY <1>0, <1>1, FreshIsZero, NothingOwed DEF Summed, Untouched
<1>2. ASSUME NEW h \in Begun(Hangups) PROVE Total = Owed /\ cdr.cost = Owed
  <2>1. pc[h] = "done" /\ \A a \in Begun(Analyses) : pc[a] = "done" BY <1>2, Parts DEF Begun
  <2>2. Accounted(h) BY <1>0, <1>2 DEF Summed
  <2>3. CASE Begun(Analyses) = {} BY <2>1, <2>2, <2>3 DEF Accounted
  <2>4. ASSUME NEW a \in Begun(Analyses) PROVE Total = Owed /\ cdr.cost = Owed
    <3>1. pc[a] \notin {"counted", "debiting"} /\ pc[a] # "debiting" BY <2>1, <2>4
    <3>2. Total = Owed + 0 /\ cdr.cost = Owed + 0 BY <2>1, <2>2, <2>4, <3>1 DEF Accounted
    <3> QED BY <1>0, <3>2
  <2> QED BY <2>3, <2>4
<1> QED BY <1>1, <1>2

\* The token counters of the CDR and of its records differ only by the handlers
\* between their two increments; and once nothing of the call is under way, its
\* records, its CDR and its ledger rows tell the same sum.
THEOREM BooksAlwaysAgree == Spec => []BooksAgree
<1>1. Base /\ CountersAgree => TokensAgree
  <2> SUFFICES ASSUME Base, CountersAgree, CdrLive, faulty = {}
               PROVE  cdr.tokens + SumFunctionOnSet(Tokens, {p \in Usages \cup Analyses : pc[p] = "counted"})
                         = SumFunctionOnSet(Counted, Live)
    BY DEF TokensAgree
  <2>1. CountersMeet /\ Live = DOMAIN records BY AllLive DEF CountersAgree
  <2> QED BY <2>1 DEF CountersMeet, Counting, Counters
<1>2. Base /\ Sums => CostsAgree
  <2> SUFFICES ASSUME Base, Sums, CdrLive, Quiet, OneRun
               PROVE  SumFunctionOnSet(Costs, Live) = Debits(Handlers) /\ cdr.cost = Debits(Handlers)
    BY DEF CostsAgree
  <2>1. Undisturbed BY DEF Undisturbed, Quiet
  <2>2. Total = Owed /\ cdr.cost = Owed BY <2>1, SettledSums DEF Quiet
  <2>3. Live = DOMAIN records BY AllLive
  <2> QED BY <2>2, <2>3 DEF Total, Owed
<1> DEFINE Inv == Base /\ Ordered /\ CountersAgree /\ Sums
<1>3. Init => Inv
  <2>1. Init => CountersAgree BY DEF Init, CountersAgree, CdrLive
  <2> QED BY <2>1, BaseHolds, OrderedHolds, SumsHold
<1>4. Inv /\ [Next]_vars => Inv' BY BaseKept, OrderedKept, CountersAgreeKept, SumsKept
<1>5. Inv => BooksAgree BY <1>1, <1>2, TypeHolds DEF BooksAgree
<1> QED BY <1>3, <1>4, <1>5, PTL DEF Spec

------------------------
\* The claims of the deletions.
Others  == Handlers \ Deletions
Calm(d) == claim[d].quiet /\ claim[d].begun = Begun(Others)
Gone    == {d \in Deletions : pc[d] = "done"}
Known(d) == pc[d] \in {"summed", "credited", "uncredited", "done"}

Claims ==
    /\ \A d \in Deletions : claim[d].begun \subseteq Begun(Others)
    /\ \A d \in Deletions : pc[d] = "idle" => claim[d].fallback = 0
    /\ cdr.state = "deleted" => Gone # {}
    /\ \A d, e \in Deletions : pc[d] = "credited" /\ pc[e] = "credited" => d = e
    /\ \A d \in Deletions : pc[d] = "uncredited" => claim[d].usd = 0
    /\ (\E row \in ledger : row.dir = "credit") =>
          /\ cdr.state = "deleted"
          /\ \A d \in Deletions : pc[d] = "credited" => claim[d].usd = 0

\* What a deletion read of the CDR is no more than the CDR tells later.
Fallbacks == CdrLive /\ Undisturbed => \A d \in Deletions : claim[d].fallback <= cdr.cost

\* As long as nothing else happens after a deletion has added the records up.
Settled ==
    \A d \in Deletions : Known(d) /\ Calm(d) =>
       /\ faulty \subseteq Deletions
       /\ \A p \in Others : pc[p] \in {"idle", "done"}
       /\ CdrLive /\ OneRun => claim[d].usd = Owed

Repaid ==
    cdr.state = "deleted" /\ OneRun /\ (\A d \in Gone : Calm(d)) =>
       /\ Credits = Owed
       /\ \A i \in DOMAIN records : records[i].gone
       /\ \A d \in Deletions : claim[d].fallback <= Owed
       /\ \A d \in Deletions : pc[d] \in {"summed", "credited"} /\ Calm(d) => claim[d].usd <= Owed

DeletionStep(d) ==
    FindReport(d) \/ SumRecords(d) \/ Credit(d) \/ DestroyReport(d) \/ Stop(d)

\* What the steps of the others leave of the deletions.
DeletionsKept ==
    /\ claim' = claim /\ \A d \in Deletions : pc'[d] = pc[d]
    /\ \A row \in ledger' : row.dir = "credit" => row \in ledger
    /\ cdr'.state = cdr.state \/ CreateCdr

LEMMA DeletionsAlone ==
    ASSUME Base, Next
    PROVE  DeletionsKept \/ \E d \in Deletions : DeletionStep(d)
<1>s. /\ pc \in [Handlers -> Labels] /\ \A d \in Deletions : d \in Handlers
      /\ \A p \in Others : p \in Handlers /\ p \notin Deletions
      /\ cdr \in [state : {"none", "live", "deleted"}, tokens : Nat, cost : Nat]
  BY Parts DEF Base, Shapes, Others
<1>k. ASSUME NEW p \in Others, claim' = claim, \/ pc' = pc
                                               \/ \E l : pc' = [pc EXCEPT ![p] = l]
      PROVE  claim' = claim /\ \A d \in Deletions : pc'[d] = pc[d]
  BY <1>s, <1>k
<1>c. ASSUME CreateCdr PROVE DeletionsKept BY <1>c DEF CreateCdr, DeletionsKept
<1>o. Usages \cup Analyses \subseteq Others /\ Hangups \subseteq Others BY Parts DEF Others, Counters
<1>1. ASSUME NEW p \in Others,
             ReportUsage(p) \/ FindRecord(p) \/ CreateRecord(p) \/ IncrementRecord(p) \/ BeginHangup(p)
               \/ BeginFinalize(p) \/ ReadRecord(p) \/ SaveCost(p) \/ ReadAnalytic(p) \/ FinalizeFails(p)
               \/ Analyse(p) \/ ChargeFails(p) \/ StoreAnalysis(p) \/ Stop(p)
      PROVE  DeletionsKept
  <2>1. ledger' = ledger /\ cdr' = cdr /\ claim' = claim
    BY <1>1 DEF ReportUsage, FindRecord, CreateRecord, IncrementRecord, BeginHangup, BeginFinalize,
                ReadRecord, SaveCost, ReadAnalytic, FinalizeFails, Analyse, ChargeFails, StoreAnalysis, Stop
  <2>2. pc' = pc \/ \E l : pc' = [pc EXCEPT ![p] = l]
    BY <1>1 DEF ReportUsage, FindRecord, CreateRecord, IncrementRecord, BeginHangup, BeginFinalize,
                ReadRecord, SaveCost, ReadAnalytic, FinalizeFails, Analyse, ChargeFails, StoreAnalysis, Stop,
                Goto
  <2> QED BY <1>k, <2>1, <2>2 DEF DeletionsKept
<1>2. ASSUME NEW p \in Others, IncrementCdr(p) \/ UpdateCdr(p) \/ CloseCdr(p) PROVE DeletionsKept
  <2>1. ledger' = ledger /\ claim' = claim /\ \E l : pc' = [pc EXCEPT ![p] = l]
    BY <1>2 DEF IncrementCdr, UpdateCdr, CloseCdr, Goto
  <2>2. cdr'.state = cdr.state
    <3> DEFINE c == CostOf(p)
    <3>1. CASE IncrementCdr(p)
      <4>1. cdr' = cdr \/ cdr' = [cdr EXCEPT !.tokens = @ + Tokens[p], !.cost = @ + c] BY <3>1 DEF IncrementCdr
      <4> HIDE DEF c
      <4> QED BY <1>s, <4>1
    <3>2. CASE UpdateCdr(p) \/ CloseCdr(p)
      <4>1. cdr' = cdr \/ \E x : cdr' = [cdr EXCEPT !.cost = x] BY <3>2 DEF UpdateCdr, CloseCdr
      <4> QED BY <1>s, <4>1
    <3> QED BY <1>2, <3>1, <3>2
  <2> QED BY <1>k, <2>1, <2>2 DEF DeletionsKept
<1>3. ASSUME NEW p \in Others, DebitUsage(p) \/ DebitAnalysis(p) PROVE DeletionsKept
  <2>1. cdr' = cdr /\ claim' = claim /\ \E l : pc' = [pc EXCEPT ![p] = l]
    BY <1>3 DEF DebitUsage, DebitAnalysis, Goto
  <2>2. ledger' = ledger \/ \E key, usd : ledger' = ledger \cup
            {[key |-> key, dir |-> "debit", usd |-> usd, by |-> p]}
    BY <1>3 DEF DebitUsage, DebitAnalysis, Charge
  <2>3. \A row \in ledger' : row.dir = "credit" => row \in ledger BY <2>2
  <2> QED BY <1>k, <2>1, <2>3 DEF DeletionsKept
<1>4. ASSUME NEW d \in Deletions, FindReport(d) \/ SumRecords(d) \/ Credit(d) \/ DestroyReport(d)
      PROVE  \E e \in Deletions : DeletionStep(e)
  BY <1>4 DEF DeletionStep
<1>5. ASSUME NEW p \in Handlers, Stop(p) PROVE DeletionsKept \/ \E d \in Deletions : DeletionStep(d)
  <2>1. CASE p \in Deletions BY <1>5, <2>1 DEF DeletionStep
  <2>2. CASE p \notin Deletions BY <1>1, <1>5, <2>2 DEF Others
  <2> QED BY <2>1, <2>2
<1>6. ASSUME NEW u \in Usages, ReportUsage(u) PROVE DeletionsKept BY <1>1, <1>6, <1>o
<1>7. ASSUME NEW p \in Usages \cup Analyses,
             FindRecord(p) \/ CreateRecord(p) \/ IncrementRecord(p) \/ IncrementCdr(p)
      PROVE  DeletionsKept
  BY <1>1, <1>2, <1>7, <1>o
<1>8. ASSUME NEW h \in Hangups,
          \/ BeginHangup(h) \/ BeginFinalize(h) \/ ReadRecord(h) \/ SaveCost(h)
          \/ ReadAnalytic(h) \/ UpdateCdr(h) \/ DebitUsage(h) \/ FinalizeFails(h)
          \/ CloseCdr(h)
      PROVE  DeletionsKept
  BY <1>1, <1>2, <1>3, <1>8, <1>o
<1>9. ASSUME NEW a \in Analyses, Analyse(a) \/ DebitAnalysis(a) \/ ChargeFails(a) \/ StoreAnalysis(a)
      PROVE  DeletionsKept
  BY <1>1, <1>3, <1>9, <1>o
<1> QED BY <1>c, <1>4, <1>5, <1>6, <1>7, <1>8, <1>9 DEF Next

\* What each step of a deletion does.
ClaimKept(e) ==
    /\ claim'[e].fallback = claim[e].fallback /\ claim'[e].quiet = claim[e].quiet
    /\ claim'[e].begun = claim[e].begun

Finding(e) ==
    /\ BooksKept /\ pc[e] = "idle" /\ pc'[e] \in {"found", "stopped"}
    /\ claim'[e].usd = claim[e].usd /\ claim'[e].begun = claim[e].begun
    /\ claim'[e].quiet = claim[e].quiet
    /\ \/ pc'[e] = "found" /\ claim'[e].fallback = cdr.cost /\ CdrLive
       \/ pc'[e] = "stopped" /\ claim'[e].fallback = claim[e].fallback

Summing(e) ==
    LET sum == SumFunctionOnSet(Costs, Live) IN
    /\ BooksKept /\ pc[e] = "found" /\ pc'[e] = "summed"
    /\ claim'[e].fallback = claim[e].fallback
    /\ claim'[e].usd = IF sum > 0 THEN sum ELSE claim[e].fallback
    /\ claim'[e].quiet = Quiet /\ claim'[e].begun = Begun(Others)

Crediting(e) ==
    /\ BooksKept /\ pc[e] = "summed" /\ ClaimKept(e)
    /\ \/ claim[e].usd = 0 /\ claim'[e].usd = 0 /\ pc'[e] = "uncredited"
       \/ /\ ~OwnerLocked /\ pc'[e] = "credited"
          /\ \/ claim'[e].usd = 0 /\ \E row \in ledger : row.dir = "credit"
             \/ claim'[e].usd = claim[e].usd /\ ~\E row \in ledger : row.dir = "credit"

Destroying(e) ==
    /\ pc[e] \in {"credited", "uncredited"} /\ pc'[e] = "done"
    /\ claim'[e] = claim[e] /\ cdr'.state = "deleted"
    /\ ledger' = IF claim[e].usd = 0 THEN ledger
                 ELSE ledger \cup {[key |-> <<"refund">>, dir |-> "credit",
                                    usd |-> claim[e].usd, by |-> e]}
    /\ \A i \in DOMAIN records' : records'[i].gone

Stopping(e) == BooksKept /\ pc'[e] = "stopped" /\ pc[e] # "idle" /\ claim'[e] = claim[e]

LEMMA DeletionMoves ==
    ASSUME Base, NEW e \in Deletions, DeletionStep(e)
    PROVE  /\ \A p \in Others : pc'[p] = pc[p]
           /\ \A d \in Deletions : d # e => pc'[d] = pc[d] /\ claim'[d] = claim[d]
           /\ faulty' = faulty \/ faulty' = faulty \cup {e}
           /\ Finding(e) \/ Summing(e) \/ Crediting(e) \/ Destroying(e) \/ Stopping(e)
<1> DEFINE Rest == /\ \A p \in Others : pc'[p] = pc[p]
                   /\ \A d \in Deletions : d # e => pc'[d] = pc[d] /\ claim'[d] = claim[d]
                   /\ faulty' = faulty \/ faulty' = faulty \cup {e}
           Kind == Finding(e) \/ Summing(e) \/ Crediting(e) \/ Destroying(e) \/ Stopping(e)
<1>s. /\ pc \in [Handlers -> Labels] /\ \A d \in Deletions : d \in Handlers
      /\ \A p \in Others : p \in Handlers /\ p # e
      /\ cdr \in [state : {"none", "live", "deleted"}, tokens : Nat, cost : Nat]
      /\ claim \in [Deletions -> Claim] /\ claim[e] \in Claim
  BY Parts DEF Base, Shapes, Others
<1>1. ASSUME NEW l, pc' = [pc EXCEPT ![e] = l], faulty' = faulty \/ faulty' = faulty \cup {e},
             claim' = claim \/ \E c : claim' = [claim EXCEPT ![e] = c]
      PROVE  Rest /\ pc'[e] = l
  BY <1>s, <1>1
<1> SUFFICES Rest /\ Kind OBVIOUS
<1> HIDE DEF Rest, Kind
<1>2. CASE FindReport(e)
  <2>1. BooksKept /\ pc[e] = "idle" /\ faulty' = faulty BY <1>2 DEF FindReport, BooksKept
  <2>2. CASE CdrLive
    <3>1. pc' = [pc EXCEPT ![e] = "found"] /\ claim' = [claim EXCEPT ![e] = [claim[e] EXCEPT !.fallback = cdr.cost]]
      BY <1>2, <2>2 DEF FindReport, Goto
    <3>2. Rest /\ pc'[e] = "found" BY <1>1, <2>1, <3>1
    <3>3. Finding(e) BY <1>s, <2>1, <2>2, <3>1, <3>2 DEF Finding, Claim
    <3> QED BY <3>2, <3>3 DEF Kind
  <2>3. CASE ~CdrLive
    <3>1. pc' = [pc EXCEPT ![e] = "stopped"] /\ claim' = claim BY <1>2, <2>3 DEF FindReport, Goto
    <3>2. Rest /\ pc'[e] = "stopped" BY <1>1, <2>1, <3>1
    <3>3. Finding(e) BY <2>1, <3>1, <3>2 DEF Finding
    <3> QED BY <3>2, <3>3 DEF Kind
  <2> QED BY <2>2, <2>3
<1>3. CASE SumRecords(e)
  <2> DEFINE sum == SumFunctionOnSet(Costs, Live)
             usd == IF sum > 0 THEN sum ELSE claim[e].fallback
             quiet == Quiet
             begun == Begun(Others)
  <2>1. BooksKept /\ pc[e] = "found" /\ faulty' = faulty BY <1>3 DEF SumRecords, BooksKept
  <2>2. pc' = [pc EXCEPT ![e] = "summed"] BY <1>3 DEF SumRecords, Goto
  <2>3. claim' = [claim EXCEPT ![e].usd = usd, ![e].quiet = quiet, ![e].begun = begun]
    BY <1>3 DEF SumRecords, Others
  <2> HIDE DEF usd, quiet, begun
  <2>4. claim' = [claim EXCEPT ![e] = [claim[e] EXCEPT !.usd = usd, !.quiet = quiet, !.begun = begun]] BY <1>s, <2>3
  <2>5. Rest /\ pc'[e] = "summed" BY <1>1, <2>1, <2>2, <2>4
  <2>6. claim'[e].fallback = claim[e].fallback /\ claim'[e].usd = usd /\ claim'[e].quiet = quiet
          /\ claim'[e].begun = begun
    BY <1>s, <2>4 DEF Claim
  <2>7. Summing(e) BY <2>1, <2>5, <2>6 DEF Summing, usd, quiet, begun
  <2> QED BY <2>5, <2>7 DEF Kind
<1>4. CASE Credit(e)
  <2>1. BooksKept /\ pc[e] = "summed" /\ faulty' = faulty BY <1>4 DEF Credit, BooksKept
  <2>2. CASE claim[e].usd = 0 /\ pc' = [pc EXCEPT ![e] = "uncredited"] /\ claim' = claim
    <3>1. Rest /\ pc'[e] = "uncredited" BY <1>1, <2>1, <2>2
    <3>2. Crediting(e) BY <2>1, <2>2, <3>1 DEF Crediting, ClaimKept
    <3> QED BY <3>1, <3>2 DEF Kind
  <2>3. CASE /\ ~OwnerLocked /\ pc' = [pc EXCEPT ![e] = "credited"]
             /\ claim' = [claim EXCEPT ![e].usd =
                             IF \E row \in ledger : row.dir = "credit" THEN 0 ELSE @]
    <3> DEFINE usd == IF \E row \in ledger : row.dir = "credit" THEN 0 ELSE claim[e].usd
    <3>1. claim' = [claim EXCEPT ![e] = [claim[e] EXCEPT !.usd = usd]] BY <1>s, <2>3
    <3>2. (usd = 0 /\ \E row \in ledger : row.dir = "credit")
            \/ (usd = claim[e].usd /\ ~\E row \in ledger : row.dir = "credit")
      OBVIOUS
    <3> HIDE DEF usd
    <3>3. Rest /\ pc'[e] = "credited" BY <1>1, <2>1, <2>3, <3>1
    <3>4. claim'[e].usd = usd /\ ClaimKept(e) BY <1>s, <3>1 DEF Claim, ClaimKept
    <3>5. Crediting(e) BY <2>1, <2>3, <3>2, <3>3, <3>4 DEF Crediting
    <3> QED BY <3>3, <3>5 DEF Kind
  <2> QED BY <1>4, <2>2, <2>3 DEF Credit, Goto
<1>5. CASE DestroyReport(e)
  <2>1. /\ pc[e] \in {"credited", "uncredited"} /\ pc' = [pc EXCEPT ![e] = "done"]
        /\ faulty' = faulty /\ claim' = claim
        /\ ledger' = IF claim[e].usd = 0 THEN ledger
                     ELSE ledger \cup {[key |-> <<"refund">>, dir |-> "credit",
                                        usd |-> claim[e].usd, by |-> e]}
    BY <1>5 DEF DestroyReport, Goto
  <2>2. cdr'.state = "deleted" BY <1>s, <1>5 DEF DestroyReport
  <2>3. \A i \in DOMAIN records' : records'[i].gone
    <3>1. \A i \in DOMAIN records : records[i] \in Record BY RecordFacts DEF Base
    <3>2. records' = [i \in DOMAIN records |-> [records[i] EXCEPT !.gone = TRUE]] BY <1>5 DEF DestroyReport
    <3> QED BY <3>1, <3>2 DEF Record
  <2>4. Rest /\ pc'[e] = "done" BY <1>1, <2>1
  <2>5. Destroying(e) BY <2>1, <2>2, <2>3, <2>4 DEF Destroying
  <2> QED BY <2>4, <2>5 DEF Kind
<1>6. CASE Stop(e)
  <2>1. /\ BooksKept /\ pc' = [pc EXCEPT ![e] = "stopped"] /\ faulty' = faulty \cup {e}
        /\ claim' = claim /\ pc[e] # "idle"
    BY <1>6 DEF Stop, Goto, BooksKept
  <2>2. Rest /\ pc'[e] = "stopped" BY <1>1, <2>1
  <2>3. Stopping(e) BY <2>1, <2>2 DEF Stopping
  <2> QED BY <2>2, <2>3 DEF Kind
<1> QED BY <1>2, <1>3, <1>4, <1>5, <1>6 DEF DeletionStep

\* The cost in the CDR of an undisturbed call only grows.
LEMMA CostGrows ==
    ASSUME Base, Ordered, Sums, Next, CdrLive, CdrLive', Undisturbed'
    PROVE  cdr.cost <= cdr'.cost
<1>s. /\ cdr.cost \in Nat /\ cdr'.cost \in Nat
      /\ cdr \in [state : {"none", "live", "deleted"}, tokens : Nat, cost : Nat]
  BY BaseKept DEF Base, Shapes
<1>1. Summed BY OneMoves, OneRunBefore DEF Sums, Undisturbed, Base
<1>2. CASE CostsStay /\ PlacesStay BY <1>s, <1>2 DEF CostsStay
<1>3. ASSUME NEW g \in Hangups, HangupStep(g) PROVE cdr.cost <= cdr'.cost
  <2>1. CASE cdr' = cdr BY <1>s, <2>1
  <2>2. CASE UpdateCdr(g)
    <3>1. g \in Begun(Hangups) /\ pc[g] = "totalled" BY <2>2 DEF UpdateCdr, Begun
    <3>2. cdr.cost = 0 BY <1>1, <3>1 DEF Summed, Accounted
    <3> QED BY <1>s, <3>2
  <2>3. CASE CloseCdr(g)
    <3>1. g \in Begun(Hangups) /\ pc[g] = "closing" BY <2>3 DEF CloseCdr, Begun
    <3>2. bill[g].total = cdr.cost BY <1>1, <3>1 DEF Summed, Accounted
    <3>3. cdr'.cost = Saved(cdr.cost, bill[g].loaded, bill[g].total) BY <1>s, <2>3 DEF CloseCdr
    <3>4. cdr'.cost = cdr.cost BY <3>2, <3>3 DEF Saved
    <3> QED BY <1>s, <3>4
  <2> QED
    BY <1>3, <2>1, <2>2, <2>3 DEF HangupStep, BeginHangup, BeginFinalize, ReadRecord, SaveCost,
         ReadAnalytic, DebitUsage, FinalizeFails, Stop
<1>4. ASSUME NEW a \in Analyses, AnalysisStep(a) PROVE cdr.cost <= cdr'.cost
  <2>1. CASE cdr' = cdr BY <1>s, <2>1
  <2>2. CASE IncrementCdr(a)
    <3> DEFINE c == CostOf(a)
    <3>1. cdr' = [cdr EXCEPT !.tokens = @ + Tokens[a], !.cost = @ + c] BY <2>2 DEF IncrementCdr
    <3>2. c \in Nat BY <2>2, Parts, CostsAreNat DEF IncrementCdr, Base
    <3> HIDE DEF c
    <3>3. cdr'.cost = cdr.cost + c BY <1>s, <3>1
    <3> QED BY <1>s, <3>2, <3>3
  <2> QED
    BY <1>4, <2>1, <2>2 DEF AnalysisStep, Analyse, FindRecord, CreateRecord, IncrementRecord,
         DebitAnalysis, ChargeFails, StoreAnalysis, Stop
<1>5. ASSUME NEW d \in Deletions, DestroyReport(d) PROVE FALSE
  <2>1. cdr'.state = "deleted" BY <1>5 DEF DestroyReport, Base, Shapes
  <2> QED BY <2>1 DEF CdrLive
<1> QED BY <1>2, <1>3, <1>4, <1>5, CostSteps DEF CostKinds

LEMMA FallbacksKept == Base /\ Ordered /\ Sums /\ Claims /\ Fallbacks /\ [Next]_vars => Fallbacks'
<1> SUFFICES ASSUME Base, Ordered, Sums, Claims, Fallbacks, [Next]_vars, CdrLive', Undisturbed',
                    NEW d \in Deletions
             PROVE  claim'[d].fallback <= cdr'.cost
  BY DEF Fallbacks
<1>s. cdr.cost \in Nat /\ cdr'.cost \in Nat /\ claim \in [Deletions -> Claim] /\ claim[d].fallback \in Nat
  BY BaseKept DEF Base, Shapes, Claim
<1>1. CASE UNCHANGED vars BY <1>1 DEF vars, Fallbacks, Undisturbed, OneRun, Begun, CdrLive
<1>2. CASE Next
  <2>1. CASE ~CdrLive
    <3>1. CreateCdr BY <1>2, <2>1, OpeningIs
    <3>2. claim'[d] = claim[d] /\ claim[d].fallback = 0 BY <3>1 DEF CreateCdr, Base, Unborn, Claims
    <3> QED BY <1>s, <3>2
  <2>2. CASE CdrLive
    <3>1. cdr.cost <= cdr'.cost BY <1>2, <2>2, CostGrows
    <3>2. claim[d].fallback <= cdr.cost BY <1>2, <2>2, OneMoves, OneRunBefore DEF Fallbacks, Undisturbed, Base
    <3>3. claim'[d].fallback = claim[d].fallback \/ (claim'[d].fallback = cdr.cost /\ cdr' = cdr)
      <4>1. CASE DeletionsKept BY <4>1 DEF DeletionsKept
      <4>2. ASSUME NEW e \in Deletions, DeletionStep(e)
            PROVE  claim'[d].fallback = claim[d].fallback \/ (claim'[d].fallback = cdr.cost /\ cdr' = cdr)
        <5>1. CASE d # e BY <4>2, <5>1, DeletionMoves
        <5>2. CASE d = e
          BY <4>2, <5>2, DeletionMoves DEF Finding, Summing, Crediting, ClaimKept, Destroying,
                                           Stopping, BooksKept
        <5> QED BY <5>1, <5>2
      <4> QED BY <1>2, <4>1, <4>2, DeletionsAlone
    <3> QED BY <1>s, <3>1, <3>2, <3>3
  <2> QED BY <2>1, <2>2
<1> QED BY <1>1, <1>2

------------------------
LEMMA ClaimsHold == Init => Claims /\ Fallbacks /\ Settled /\ Repaid
<1> SUFFICES ASSUME Init PROVE Claims /\ Fallbacks /\ Settled /\ Repaid OBVIOUS
<1>1. /\ cdr.state = "none" /\ ledger = {} /\ \A d \in Deletions : pc[d] = "idle"
      /\ \A d \in Deletions : claim[d].fallback = 0 /\ claim[d].begun = {}
  BY Parts DEF Init
<1> QED BY <1>1 DEF Claims, Fallbacks, Settled, Repaid, Known, CdrLive

LEMMA ClaimsKept == Base /\ Claims /\ [Next]_vars => Claims'
<1> SUFFICES ASSUME Base, Claims, [Next]_vars PROVE Claims' OBVIOUS
<1> DEFINE Credited == \E row \in ledger : row.dir = "credit"
           CreditedThen == \E row \in ledger' : row.dir = "credit"
<1>1. CASE UNCHANGED vars BY <1>1 DEF vars, Claims, Begun, Gone
<1>2. CASE Next
  <2>1. Begun(Others) \subseteq Begun(Others)'
    <3>1. Others \in SUBSET Handlers BY DEF Others
    <3> QED BY <1>2, <3>1, Irreversible DEF Base
  <2>2. \A d \in Deletions : pc[d] = "done" => pc'[d] = "done"
    <3>1. \A d \in Deletions : d \in Handlers BY Parts
    <3>2. pc' = pc \/ \E p \in Handlers, l \in Labels \ {"idle"} :
                         pc[p] \notin Final /\ pc' = [pc EXCEPT ![p] = l]
      BY <1>2, OneMoves DEF Base
    <3> QED BY <3>1, <3>2 DEF Base, Shapes, Final
  <2>3. CASE DeletionsKept
    <3>1. claim' = claim /\ \A d \in Deletions : pc'[d] = pc[d] BY <2>3 DEF DeletionsKept
    <3>2. cdr'.state = "deleted" => cdr.state = "deleted" BY <2>3 DEF DeletionsKept, CreateCdr, Base, Shapes
    <3>3. CreditedThen => Credited /\ cdr'.state = "deleted"
      <4>1. ASSUME CreditedThen PROVE Credited BY <2>3, <4>1 DEF DeletionsKept
      <4>2. ASSUME Credited PROVE cdr'.state = "deleted"
        <5>1. cdr.state = "deleted" BY <4>2 DEF Claims
        <5> QED BY <2>3, <5>1 DEF DeletionsKept, CreateCdr
      <4> QED BY <4>1, <4>2
    <3>4. Gone' = Gone BY <3>1 DEF Gone
    <3> QED BY <2>1, <3>1, <3>2, <3>3, <3>4 DEF Claims
  <2>4. ASSUME NEW e \in Deletions, DeletionStep(e) PROVE Claims'
    <3> DEFINE Kind == Finding(e) \/ Summing(e) \/ Crediting(e) \/ Destroying(e) \/ Stopping(e)
    <3>1. /\ \A d \in Deletions : d # e => pc'[d] = pc[d] /\ claim'[d] = claim[d]
          /\ Kind
      BY <2>4, DeletionMoves
    <3>2. \A d \in Deletions : claim'[d].begun \subseteq Begun(Others)'
      <4>1. claim'[e].begun = claim[e].begun \/ claim'[e].begun = Begun(Others)
        BY <3>1 DEF Finding, Summing, Crediting, ClaimKept, Destroying, Stopping
      <4> QED BY <2>1, <3>1, <4>1 DEF Claims
    <3>3. pc'[e] # "idle" BY <3>1 DEF Finding, Summing, Crediting, Destroying, Stopping
    <3>4. \A d \in Deletions : pc'[d] = "idle" => claim'[d].fallback = 0 BY <3>1, <3>3 DEF Claims
    <3>5. cdr'.state = "deleted" => Gone' # {}
      <4>1. CASE BooksKept
        <5>1. cdr'.state = "deleted" => Gone # {} BY <4>1 DEF BooksKept, Claims
        <5> QED BY <2>2, <5>1 DEF Gone
      <4>2. CASE Destroying(e) BY <4>2 DEF Destroying, Gone
      <4> QED BY <3>1, <4>1, <4>2 DEF Finding, Summing, Crediting, Stopping
    <3>6. \A d, f \in Deletions : pc'[d] = "credited" /\ pc'[f] = "credited" => d = f
      <4>1. pc'[e] = "credited" => \A d \in Deletions : pc[d] # "credited"
        BY <3>1 DEF Finding, Summing, Crediting, OwnerLocked, Destroying, Stopping
      <4> QED BY <3>1, <4>1 DEF Claims
    <3>7. \A d \in Deletions : pc'[d] = "uncredited" => claim'[d].usd = 0
      <4>1. pc'[e] = "uncredited" => claim'[e].usd = 0 BY <3>1 DEF Finding, Summing, Crediting, Destroying, Stopping
      <4> QED BY <3>1, <4>1 DEF Claims
    <3>8. CreditedThen => cdr'.state = "deleted"
                          /\ \A d \in Deletions : pc'[d] = "credited" => claim'[d].usd = 0
      <4>1. ASSUME BooksKept, pc'[e] = "credited" => claim'[e].usd = 0 \/ ~Credited, CreditedThen
             PROVE  cdr'.state = "deleted" /\ \A d \in Deletions : pc'[d] = "credited" => claim'[d].usd = 0
        <5>1. Credited /\ cdr' = cdr BY <4>1 DEF BooksKept
        <5>2. cdr.state = "deleted" /\ \A d \in Deletions : pc[d] = "credited" => claim[d].usd = 0
          BY <5>1 DEF Claims
        <5> QED BY <3>1, <4>1, <5>1, <5>2
      <4>2. ASSUME Destroying(e), CreditedThen
            PROVE  cdr'.state = "deleted" /\ \A d \in Deletions : pc'[d] = "credited" => claim'[d].usd = 0
        <5>1. cdr'.state = "deleted" /\ pc'[e] = "done" BY <4>2 DEF Destroying
        <5>2. CASE claim[e].usd = 0
          <6>1. Credited BY <4>2, <5>2 DEF Destroying
          <6> QED BY <3>1, <5>1, <6>1 DEF Claims
        <5>3. CASE claim[e].usd # 0
          <6>1. pc[e] = "credited" BY <4>2, <5>3 DEF Destroying, Claims
          <6> QED BY <3>1, <5>1, <6>1 DEF Claims
        <5> QED BY <5>1, <5>2, <5>3
      <4>3. CASE ~Destroying(e)
        <5>1. BooksKept BY <3>1, <4>3 DEF Finding, Summing, Crediting, Stopping
        <5>2. pc'[e] = "credited" => claim'[e].usd = 0 \/ ~Credited
          BY <3>1, <4>3 DEF Finding, Summing, Crediting, Stopping
        <5> QED BY <4>1, <5>1, <5>2
      <4> QED BY <4>2, <4>3
    <3> QED BY <3>2, <3>4, <3>5, <3>6, <3>7, <3>8 DEF Claims
  <2> QED BY <1>2, <2>3, <2>4, DeletionsAlone
<1> QED BY <1>1, <1>2

\* Once a deletion has added the records up with nothing else under way, and as long
\* as nothing else begins, only deletions move.
LEMMA Stirred ==
    ASSUME Base, Next
    PROVE  \/ CreateCdr \/ \E e \in Deletions : DeletionStep(e)
           \/ \E p \in Others : pc[p] \notin {"idle", "done"}
           \/ \E p \in Others : pc[p] = "idle" /\ pc'[p] # "idle"
<1> DEFINE Goal == \/ CreateCdr \/ \E e \in Deletions : DeletionStep(e)
                   \/ \E p \in Others : pc[p] \notin {"idle", "done"}
                   \/ \E p \in Others : pc[p] = "idle" /\ pc'[p] # "idle"
<1>s. /\ pc \in [Handlers -> Labels] /\ \A p \in Others : p \in Handlers
      /\ Usages \subseteq Others /\ Analyses \subseteq Others /\ Hangups \subseteq Others
  BY Parts DEF Base, Shapes, Others, Counters
<1>1. ASSUME NEW p \in Others, ReportUsage(p) \/ BeginHangup(p) \/ Analyse(p) PROVE Goal
  <2>1. pc[p] = "idle" /\ \E l : l # "idle" /\ pc' = [pc EXCEPT ![p] = l]
    BY <1>1 DEF ReportUsage, BeginHangup, Analyse, Goto
  <2>2. pc'[p] # "idle" BY <1>s, <2>1
  <2> QED BY <2>1, <2>2
<1>2. ASSUME NEW p \in Others,
             FindRecord(p) \/ CreateRecord(p) \/ IncrementRecord(p) \/ IncrementCdr(p)
               \/ BeginFinalize(p) \/ ReadRecord(p) \/ SaveCost(p) \/ ReadAnalytic(p)
               \/ UpdateCdr(p) \/ DebitUsage(p) \/ FinalizeFails(p) \/ CloseCdr(p)
               \/ DebitAnalysis(p) \/ ChargeFails(p) \/ StoreAnalysis(p) \/ Stop(p)
      PROVE  Goal
  <2>1. pc[p] \notin {"idle", "done"}
    BY <1>2 DEF FindRecord, CreateRecord, IncrementRecord, IncrementCdr, BeginFinalize, ReadRecord,
                SaveCost, ReadAnalytic, UpdateCdr, DebitUsage, FinalizeFails, CloseCdr,
                DebitAnalysis, ChargeFails, StoreAnalysis, Stop, Final
  <2> QED BY <2>1
<1>3. ASSUME NEW d \in Deletions, FindReport(d) \/ SumRecords(d) \/ Credit(d) \/ DestroyReport(d)
      PROVE  Goal
  BY <1>3 DEF DeletionStep
<1>4. ASSUME NEW p \in Handlers, Stop(p) PROVE Goal
  <2>1. CASE p \in Deletions BY <1>4, <2>1 DEF DeletionStep
  <2>2. CASE p \notin Deletions BY <1>2, <1>4, <2>2 DEF Others
  <2> QED BY <2>1, <2>2
<1> QED BY <1>1, <1>2, <1>3, <1>4, <1>s DEF Next

LEMMA CalmSteps ==
    ASSUME Base, Claims, Settled, Next, NEW d \in Deletions, Known(d), Calm(d)'
    PROVE  Calm(d) /\ \E e \in Deletions : DeletionStep(e)
<1>1. claim'[d].quiet = claim[d].quiet /\ claim'[d].begun = claim[d].begun
  <2>1. CASE DeletionsKept BY <2>1 DEF DeletionsKept
  <2>2. ASSUME NEW e \in Deletions, DeletionStep(e)
        PROVE  claim'[d].quiet = claim[d].quiet /\ claim'[d].begun = claim[d].begun
    <3>1. CASE d # e BY <2>2, <3>1, DeletionMoves
    <3>2. CASE d = e
      <4>1. Crediting(d) \/ Destroying(d) \/ Stopping(d) BY <2>2, <3>2, DeletionMoves DEF Known, Finding, Summing
      <4> QED BY <4>1 DEF Crediting, Destroying, Stopping, ClaimKept
    <3> QED BY <3>1, <3>2
  <2> QED BY <2>1, <2>2, DeletionsAlone
<1>2. Begun(Others) \subseteq Begun(Others)'
  <2>1. Others \in SUBSET Handlers BY DEF Others
  <2> QED BY <2>1, Irreversible DEF Base
<1>3. claim'[d].begun = Begun(Others)' /\ claim[d].begun \subseteq Begun(Others) /\ claim'[d].quiet
  BY DEF Calm, Claims
<1>4. Calm(d) /\ Begun(Others)' = Begun(Others) BY <1>1, <1>2, <1>3 DEF Calm
<1>5. \A p \in Others : pc[p] \in {"idle", "done"} BY <1>4 DEF Settled
<1>6. ~\E p \in Others : pc[p] = "idle" /\ pc'[p] # "idle" BY <1>4 DEF Begun
<1>7. ~CreateCdr BY DEF CreateCdr, Known, Base, Unborn
<1> QED BY <1>4, <1>5, <1>6, <1>7, Stirred

------------------------
LEMMA OwedStays ==
    ASSUME Base, NEW e \in Deletions, DeletionStep(e)
    PROVE  Owed' = Owed
<1> DEFINE S == {row \in ledger : row.dir = "debit" /\ row.by \in Handlers}
           T == {row \in ledger' : row.dir = "debit" /\ row.by \in Handlers}
           f == Worth
           g == [row \in ledger' |-> row.usd]
<1>1. Owed = SumFunctionOnSet(f, S) /\ Owed' = SumFunctionOnSet(g, T) BY DEF Owed, Debits, Worth
<1>2. ledger' = ledger \/ \E row : row.dir = "credit" /\ ledger' = ledger \cup {row}
  <2>1. ledger' = ledger \/ \E usd : ledger' = ledger \cup
            {[key |-> <<"refund">>, dir |-> "credit", usd |-> usd, by |-> e]}
    BY DeletionMoves DEF Finding, Summing, Crediting, Destroying, Stopping, BooksKept
  <2> QED BY <2>1
<1>3. T = S BY <1>2
<1>4. IsFiniteSet(S) /\ \A row \in S : f[row] = g[row]
  <2>1. S \subseteq ledger /\ IsFiniteSet(ledger) /\ ledger \subseteq ledger' BY <1>2 DEF Base, Shapes
  <2> QED BY <2>1, FS_Subset DEF Worth
<1> HIDE DEF S, T, f, g
<1> QED BY <1>1, <1>3, <1>4, SumSame

\* The only row a deletion writes is worth what the ledger credits.
LEMMA CreditedOnce ==
    ASSUME Base, NEW e \in Deletions, Destroying(e), ~\E row \in ledger : row.dir = "credit"
    PROVE  Credits' = claim[e].usd
<1> DEFINE row == [key |-> <<"refund">>, dir |-> "credit", usd |-> claim[e].usd, by |-> e]
           T == {x \in ledger' : x.dir = "credit"}
           g == [x \in ledger' |-> x.usd]
<1>1. Credits' = SumFunctionOnSet(g, T) BY DEF Credits, Worth
<1>2. claim[e].usd \in Nat BY DEF Base, Shapes, Claim
<1>3. CASE claim[e].usd = 0
  <2>1. T = {} BY <1>3 DEF Destroying
  <2> QED BY <1>1, <1>3, <2>1, SumEmpty
<1>4. CASE claim[e].usd # 0
  <2>1. ledger' = ledger \cup {row} /\ row.dir = "credit" /\ row.usd = claim[e].usd BY <1>4 DEF Destroying
  <2>2. T = {row} /\ g[row] = claim[e].usd BY <2>1
  <2>3. IsFiniteSet({}) /\ {row} = {} \cup {row} BY FS_EmptySet
  <2> HIDE DEF row, T, g
  <2>4. SumFunctionOnSet(g, {} \cup {row}) = g[row] + SumFunctionOnSet(g, {})
    <3>1. \A x \in {} \cup {row} : g[x] \in Nat BY <1>2, <2>2
    <3> QED BY <2>3, <3>1, SumAdd
  <2> QED BY <1>1, <1>2, <2>2, <2>3, <2>4, SumEmpty
<1> QED BY <1>3, <1>4

LEMMA NothingCredited ==
    ASSUME ~\E row \in ledger : row.dir = "credit"
    PROVE  Credits = 0
<1>1. {row \in ledger : row.dir = "credit"} = {} OBVIOUS
<1> QED BY <1>1, SumEmpty DEF Credits

LEMMA SettledKept ==
    Base /\ Sums /\ Claims /\ Fallbacks /\ Settled /\ [Next]_vars => Settled'
<1> SUFFICES ASSUME Base, Sums, Claims, Fallbacks, Settled, [Next]_vars,
                    NEW d \in Deletions, Known(d)', Calm(d)'
             PROVE  /\ faulty' \subseteq Deletions
                    /\ \A p \in Others : pc'[p] \in {"idle", "done"}
                    /\ CdrLive' /\ OneRun' => claim'[d].usd = Owed'
  BY DEF Settled, CdrLive
<1>1. CASE UNCHANGED vars
  <2>1. Known(d) /\ Calm(d) BY <1>1 DEF vars, Known, Calm, Begun
  <2>2. Owed' = Owed BY <1>1 DEF vars, Owed, Debits, Worth
  <2> QED BY <1>1, <2>1, <2>2 DEF vars, Settled, CdrLive, OneRun, Begun
<1>2. CASE Next
  <2>1. CASE Known(d)
    <3>1. PICK e \in Deletions : Calm(d) /\ DeletionStep(e) BY <1>2, <2>1, CalmSteps
    <3>2. /\ \A p \in Others : pc'[p] = pc[p]
          /\ d # e => claim'[d] = claim[d]
          /\ faulty' = faulty \/ faulty' = faulty \cup {e}
          /\ Finding(e) \/ Summing(e) \/ Crediting(e) \/ Destroying(e) \/ Stopping(e)
      BY <3>1, DeletionMoves
    <3>3. /\ faulty \subseteq Deletions
          /\ \A p \in Others : pc[p] \in {"idle", "done"}
          /\ CdrLive /\ OneRun => claim[d].usd = Owed
      BY <2>1, <3>1 DEF Settled
    <3>4. ASSUME CdrLive', OneRun' PROVE claim'[d].usd = Owed'
      <4>1. OneRun BY <1>2, <3>4, OneRunBefore DEF Base
      <4>2. CdrLive BY <3>2, <3>4 DEF Finding, Summing, Crediting, Destroying, Stopping, BooksKept, CdrLive
      <4>3. claim'[d].usd = claim[d].usd
        <5>1. CASE d # e BY <3>2, <5>1
        <5>2. CASE d = e
          <6>1. ~\E row \in ledger : row.dir = "credit" BY <4>2 DEF Claims, CdrLive
          <6>2. ~Finding(d) /\ ~Summing(d) BY <2>1 DEF Finding, Summing, Known
          <6> QED BY <3>2, <5>2, <6>1, <6>2 DEF Crediting, Destroying, Stopping
        <5> QED BY <5>1, <5>2
      <4> QED BY <3>1, <3>3, <4>1, <4>2, <4>3, OwedStays
    <3> QED BY <3>2, <3>3, <3>4
  <2>2. CASE ~Known(d)
    <3>1. PICK e \in Deletions : DeletionStep(e) BY <1>2, <2>2, DeletionsAlone DEF DeletionsKept, Known
    <3>2. /\ \A p \in Others : pc'[p] = pc[p]
          /\ d # e => pc'[d] = pc[d]
          /\ faulty' = faulty \/ faulty' = faulty \cup {e}
          /\ Finding(e) \/ Summing(e) \/ Crediting(e) \/ Destroying(e) \/ Stopping(e)
      BY <3>1, DeletionMoves
    <3>3. Summing(d) /\ d = e BY <2>2, <3>2 DEF Known, Finding, Crediting, Destroying, Stopping
    <3>4. faulty = {} /\ \A p \in Others : pc[p] \in {"idle", "done"} BY <3>3 DEF Summing, Calm, Quiet, Others
    <3>5. ASSUME CdrLive', OneRun' PROVE claim'[d].usd = Owed'
      <4>1. OneRun /\ CdrLive BY <1>2, <3>3, <3>5, OneRunBefore DEF Base, Summing, BooksKept, CdrLive
      <4>2. Undisturbed BY <3>4, <4>1 DEF Undisturbed
      <4>3. Total = Owed /\ cdr.cost = Owed BY <3>4, <4>1, <4>2, SettledSums DEF Others
      <4>4. claim[d].fallback <= Owed BY <4>1, <4>2, <4>3 DEF Fallbacks
      <4>5. claim[d].fallback \in Nat /\ Owed \in Nat BY TotalsAreNat DEF Base, Shapes, Claim
      <4>6. claim'[d].usd = IF Total > 0 THEN Total ELSE claim[d].fallback BY <3>3, <4>1, AllLive DEF Summing, Total
      <4>7. Owed' = Owed BY <3>1, OwedStays
      <4> QED BY <4>3, <4>4, <4>5, <4>6, <4>7
    <3> QED BY <3>2, <3>4, <3>5
  <2> QED BY <2>1, <2>2
<1> QED BY <1>1, <1>2

LEMMA RepaidKept ==
    Base /\ Sums /\ Claims /\ Fallbacks /\ Settled /\ Repaid /\ [Next]_vars => Repaid'
<1> SUFFICES ASSUME Base, Sums, Claims, Fallbacks, Settled, Repaid, [Next]_vars,
                    cdr'.state = "deleted", OneRun', \A d \in Gone' : Calm(d)'
             PROVE  /\ Credits' = Owed'
                    /\ \A i \in DOMAIN records' : records'[i].gone
                    /\ \A d \in Deletions : claim'[d].fallback <= Owed'
                    /\ \A d \in Deletions :
                          pc'[d] \in {"summed", "credited"} /\ Calm(d)' => claim'[d].usd <= Owed'
  BY DEF Repaid
<1>n. Owed \in Nat /\ \A d \in Deletions : claim[d].usd \in Nat /\ claim[d].fallback \in Nat
  BY TotalsAreNat DEF Base, Shapes, Claim
<1>1. CASE UNCHANGED vars
  <2>1. /\ Credits' = Credits /\ Owed' = Owed /\ Gone' = Gone /\ OneRun
        /\ \A d \in Deletions : Calm(d)' = Calm(d)
    BY <1>1 DEF vars, Credits, Owed, Debits, Worth, Gone, OneRun, Begun, Calm
  <2>2. \A d \in Gone : Calm(d) BY <2>1 DEF Gone
  <2> QED BY <1>1, <2>1, <2>2 DEF vars, Repaid
<1>2. CASE Next
  <2>o. OneRun BY <1>2, OneRunBefore DEF Base
  <2>c. \A d \in Deletions : Known(d) /\ Calm(d)' => Calm(d) /\ \E e \in Deletions : DeletionStep(e)
    BY <1>2, CalmSteps
  <2>1. CASE cdr.state = "deleted"
    <3>1. Gone \subseteq Gone'
      <4>1. \A d \in Deletions : d \in Handlers BY Parts
      <4>2. pc' = pc \/ \E p \in Handlers, l \in Labels \ {"idle"} :
                           pc[p] \notin Final /\ pc' = [pc EXCEPT ![p] = l]
        BY <1>2, OneMoves DEF Base
      <4> QED BY <4>1, <4>2 DEF Base, Shapes, Final, Gone
    <3>2. \A d \in Gone : Known(d) /\ d \in Deletions BY DEF Gone, Known
    <3>3. PICK d0 \in Gone : TRUE BY <2>1 DEF Claims
    <3>4. PICK e \in Deletions : DeletionStep(e) BY <2>c, <3>1, <3>2, <3>3
    <3>5. \A d \in Gone : Calm(d) BY <2>c, <3>1, <3>2
    <3>6. /\ Credits = Owed
          /\ \A i \in DOMAIN records : records[i].gone
          /\ \A d \in Deletions : claim[d].fallback <= Owed
          /\ \A d \in Deletions : pc[d] \in {"summed", "credited"} /\ Calm(d) => claim[d].usd <= Owed
      BY <2>1, <2>o, <3>5 DEF Repaid
    <3>7. /\ \A d \in Deletions : d # e => pc'[d] = pc[d] /\ claim'[d] = claim[d]
          /\ Finding(e) \/ Summing(e) \/ Crediting(e) \/ Destroying(e) \/ Stopping(e)
      BY <3>4, DeletionMoves
    <3>8. Owed' = Owed BY <3>4, OwedStays
    <3>9. \A d \in Deletions : claim'[d].fallback <= Owed'
      <4>1. claim'[e].fallback = claim[e].fallback
        <5>1. ~CdrLive BY <2>1 DEF CdrLive
        <5> QED BY <3>7, <5>1 DEF Finding, Summing, Crediting, ClaimKept, Destroying, Stopping
      <4> QED BY <3>6, <3>7, <3>8, <4>1
    <3>10. \A d \in Deletions : pc'[d] \in {"summed", "credited"} /\ Calm(d)' => claim'[d].usd <= Owed'
      <4>1. ASSUME NEW d \in Deletions, d # e, pc'[d] \in {"summed", "credited"}, Calm(d)'
            PROVE  claim'[d].usd <= Owed'
        <5>1. pc[d] \in {"summed", "credited"} /\ Known(d) /\ claim'[d] = claim[d] BY <3>7, <4>1 DEF Known
        <5>2. Calm(d) BY <2>c, <4>1, <5>1
        <5> QED BY <3>6, <3>8, <5>1, <5>2
      <4>2. ASSUME pc'[e] \in {"summed", "credited"}, Calm(e)'
            PROVE  claim'[e].usd <= Owed'
        <5>1. CASE Summing(e)
          <6>1. Live = {} BY <3>6 DEF Live
          <6>2. SumFunctionOnSet(Costs, Live) = 0 BY <6>1, SumEmpty
          <6>3. claim'[e].usd = claim[e].fallback BY <5>1, <6>2 DEF Summing
          <6> QED BY <3>6, <3>8, <6>3
        <5>2. CASE Crediting(e)
          <6>1. pc[e] = "summed" /\ Known(e) BY <5>2 DEF Crediting, Known
          <6>2. Calm(e) BY <2>c, <4>2, <6>1
          <6>3. claim[e].usd <= Owed BY <3>6, <6>1, <6>2
          <6>4. claim'[e].usd = 0 \/ claim'[e].usd = claim[e].usd BY <5>2 DEF Crediting
          <6> QED BY <1>n, <3>8, <6>3, <6>4
        <5> QED BY <3>7, <4>2, <5>1, <5>2 DEF Finding, Destroying, Stopping
      <4> QED BY <4>1, <4>2
    <3>11. CASE BooksKept
      <4>1. Credits' = Credits BY <3>11 DEF BooksKept, Credits, Worth
      <4> QED BY <3>6, <3>8, <3>9, <3>10, <3>11, <4>1 DEF BooksKept
    <3>12. CASE Destroying(e)
      <4>1. claim[e].usd = 0
        <5> SUFFICES ASSUME claim[e].usd # 0 PROVE FALSE OBVIOUS
        <5>1. pc[e] = "credited" /\ Known(e) /\ e \in Gone' BY <3>12 DEF Destroying, Claims, Known, Gone
        <5>2. Calm(e) BY <2>c, <5>1
        <5>3. claim[e].usd <= Owed BY <3>6, <5>1, <5>2
        <5>4. Credits # 0 BY <1>n, <3>6, <5>3
        <5>5. \E row \in ledger : row.dir = "credit" BY <5>4, NothingCredited
        <5> QED BY <5>1, <5>5 DEF Claims
      <4>2. ledger' = ledger BY <3>12, <4>1 DEF Destroying
      <4>3. Credits' = Credits BY <4>2 DEF Credits, Worth
      <4> QED BY <3>6, <3>8, <3>9, <3>10, <3>12, <4>3 DEF Destroying
    <3> QED BY <3>7, <3>11, <3>12 DEF Finding, Summing, Crediting, Stopping
  <2>2. CASE cdr.state # "deleted"
    <3>1. PICK e \in Deletions : DeletionStep(e)
      <4>1. CASE DeletionsKept BY <2>2, <4>1 DEF DeletionsKept, CreateCdr, Base, Shapes
      <4> QED BY <1>2, <4>1, DeletionsAlone
    <3>2. /\ \A d \in Deletions : d # e => pc'[d] = pc[d] /\ claim'[d] = claim[d]
          /\ Finding(e) \/ Summing(e) \/ Crediting(e) \/ Destroying(e) \/ Stopping(e)
      BY <3>1, DeletionMoves
    <3>3. Destroying(e) BY <2>2, <3>2 DEF Finding, Summing, Crediting, Stopping, BooksKept
    <3>4. Known(e) /\ e \in Gone' BY <3>3 DEF Destroying, Known, Gone
    <3>5. Calm(e) BY <2>c, <3>4
    <3>6. CdrLive BY <2>2, <3>3 DEF Destroying, Base, Unborn, Shapes, CdrLive
    <3>7. /\ faulty \subseteq Deletions /\ \A p \in Others : pc[p] \in {"idle", "done"}
          /\ claim[e].usd = Owed
      BY <2>o, <3>4, <3>5, <3>6 DEF Settled
    <3>8. Credits' = Owed BY <2>2, <3>3, <3>7, CreditedOnce DEF Claims
    <3>9. Owed' = Owed BY <3>1, OwedStays
    <3>10. \A d \in Deletions : claim'[d] = claim[d] BY <3>2, <3>3 DEF Destroying
    <3>11. \A d \in Deletions : claim'[d].fallback <= Owed'
      <4>1. Undisturbed BY <2>o, <3>7 DEF Undisturbed
      <4>2. cdr.cost = Owed BY <3>6, <3>7, <4>1, SettledSums DEF Others
      <4> QED BY <3>6, <3>9, <3>10, <4>1, <4>2 DEF Fallbacks
    <3>12. ASSUME NEW d \in Deletions, pc'[d] \in {"summed", "credited"}, Calm(d)'
           PROVE  claim'[d].usd <= Owed'
      <4>1. pc[d] \in {"summed", "credited"} /\ Known(d)
        <5>1. d # e BY <3>3, <3>12 DEF Destroying
        <5> QED BY <3>2, <3>12, <5>1 DEF Known
      <4>2. Calm(d) BY <2>c, <3>12, <4>1
      <4>3. claim[d].usd = Owed BY <2>o, <3>6, <4>1, <4>2 DEF Settled
      <4> QED BY <1>n, <3>9, <3>10, <4>3
    <3> QED BY <3>3, <3>8, <3>9, <3>11, <3>12 DEF Destroying
  <2> QED BY <2>1, <2>2
<1> QED BY <1>1, <1>2

\* Deleting the report of a call nothing else works on gives back what the call was
\* charged, once, for any number of overlapping deletions, and whether or not some of
\* them are rolled back.
THEOREM RefundsAreCharges == Spec => []RefundMatchesCharges
<1> DEFINE Inv == /\ Base /\ Ordered /\ Sums
                  /\ Claims /\ Fallbacks /\ Settled /\ Repaid
<1>1. Init => Inv BY BaseHolds, OrderedHolds, SumsHold, ClaimsHold
<1>2. Inv /\ [Next]_vars => Inv'
  BY BaseKept, OrderedKept, SumsKept, ClaimsKept, FallbacksKept, SettledKept, RepaidKept
<1>3. Inv => RefundMatchesCharges
  <2> SUFFICES ASSUME Repaid, cdr.state = "deleted", OneRun,
                      \A d \in Deletions : pc[d] = "done" =>
                         claim[d].quiet /\ claim[d].begun = Begun(Handlers \ Deletions)
               PROVE  Credits = Debits(Handlers)
    BY DEF RefundMatchesCharges
  <2>1. \A d \in Gone : Calm(d) BY DEF Gone, Calm, Others
  <2> QED BY <2>1 DEF Repaid, Owed
<1> QED BY <1>1, <1>2, <1>3, PTL DEF Spec

=============================================================================
