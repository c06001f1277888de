--------------------------- MODULE InvoiceNumbers ---------------------------
(***************************************************************************)
(* Payment invoices: InvoiceService.issueInvoice takes the next number of  *)
(* the day from document_counters, stores the invoice and its PDF in the   *)
(* same transaction, and drafts it in SBIS in the background afterwards.   *)
(*                                                                         *)
(* Requests overlap, also across midnight: the date is taken before the    *)
(* transaction begins.                                                     *)
(***************************************************************************)
EXTENDS Integers, FiniteSets

CONSTANTS Orgs,        \* organizations invoices are issued to
          Requests,    \* requests the server can have in hand
          Calendar,    \* the dates that pass: function from 1..n to [year, day]
          ViaEdo,      \* the values of sendViaEdo requests come with
          MinWidth,    \* INVOICE_NUMBER_MIN_WIDTH
          Earlier,     \* invoices the first date already has
          MaxSeq,      \* bound: invoices of a day, the earlier ones aside
          MaxFaults    \* bound: requests and drafts that fail

Dates == {Calendar[i] : i \in DOMAIN Calendar}

InvoiceConstants ==
    /\ Cardinality(DOMAIN Calendar) \in Nat \ {0}
    /\ DOMAIN Calendar = 1..Cardinality(DOMAIN Calendar)
    /\ \A d \in Dates : d.year \in Nat /\ d.day \in 1..366
    /\ ViaEdo \subseteq BOOLEAN
    /\ MinWidth \in Nat
    /\ Earlier \in Nat /\ MaxSeq \in Nat /\ Earlier + MaxSeq < 100000
    /\ MaxFaults \in Nat

VARIABLES today,     \* index of the current date
          counter,   \* lastNumber of each date's document_counters row; 0: no row
          docs,      \* committed invoices: org, date, seq, number
          drafts,    \* external: invoices SBIS has a draft of
          toDraft,   \* invoices the background task is to draft
          pc,
          req,       \* what each request asks for, and the seq it was given
          faults

vars == <<today, counter, docs, drafts, toDraft, pc, req, faults>>

-----------------------------------------------------------------------------
\* Ten to the powers 1 to 6; numbers are below a million.
TenTo == <<10, 100, 1000, 10000, 100000, 1000000>>

\* Decimal digits of a number.
Digits(n) == 1 + Cardinality({k \in 1..5 : TenTo[k] <= n})

\* formatInvoiceNumber: the day in three digits, the sequence number in as many
\* as it needs, then zeros on the left up to MinWidth.  A string of digits is
\* its width and its value.
FormatInvoiceNumber(seq, day) ==
    LET width == 3 + Digits(seq) IN
    [width |-> IF width < MinWidth THEN MinWidth ELSE width,
     value |-> day * TenTo[Digits(seq)] + seq]

NumberedInvoice(org, date, seq) ==
    [org |-> org, date |-> date, seq |-> seq, number |-> FormatInvoiceNumber(seq, date.day)]

Invoice(r) == NumberedInvoice(req[r].org, req[r].date, req[r].seq)

\* The unique idempotencyKey inv:<org>:<number>.
SameKey(x, y) == x.org = y.org /\ x.number = y.number

Goto(r, label) == pc' = [pc EXCEPT ![r] = label]

\* Requests whose transaction holds the counter row of the date.
Holding(date) == {r \in Requests : pc[r] \in {"numbered", "stored"} /\ req[r].date = date}

-----------------------------------------------------------------------------
NextDay ==
    /\ today < Cardinality(DOMAIN Calendar)
    /\ today' = today + 1
    /\ UNCHANGED <<counter, docs, drafts, toDraft, pc, req, faults>>

\* The checks before the transaction (enabled, host, amount, organization, EDO)
\* have passed; the date is read here.
IssueInvoice(r) ==
    /\ pc[r] = "free"
    /\ counter[Calendar[today]] < MaxSeq + (IF today = 1 THEN Earlier ELSE 0)
    /\ \E org \in Orgs, edo \in ViaEdo :
          req' = [req EXCEPT ![r] = [org |-> org, date |-> Calendar[today],
                                     seq |-> 0, edo |-> edo]]
    /\ Goto(r, "begun")
    /\ UNCHANGED <<today, counter, docs, drafts, toDraft, faults>>

\* Mutant: the counter row is read without lock.
NextNumberUnlocked(r) ==
    LET date == req[r].date IN
    /\ pc[r] = "begun"
    /\ IF counter[date] = 0
       THEN Goto(r, "creating") /\ UNCHANGED req
       ELSE Goto(r, "numbered") /\ req' = [req EXCEPT ![r].seq = counter[date] + 1]
    /\ UNCHANGED <<today, counter, docs, drafts, toDraft, faults>>

\* nextNumber: the counter row FOR UPDATE, incremented; without a row there is
\* nothing to lock.
NextNumber(r) ==
    LET date == req[r].date IN
    /\ pc[r] = "begun"
    /\ \/ /\ counter[date] = 0
          /\ Goto(r, "creating")
          /\ UNCHANGED req
       \/ /\ counter[date] > 0
          /\ Holding(date) = {}
          /\ Goto(r, "numbered")
          /\ req' = [req EXCEPT ![r].seq = counter[date] + 1]
    /\ UNCHANGED <<today, counter, docs, drafts, toDraft, faults>>

\* The first row of a day: the insert waits for another insert of it, and fails
\* on the primary key (year, docType) when that one has been committed.
CreateCounter(r) ==
    LET date == req[r].date IN
    /\ pc[r] = "creating"
    /\ Holding(date) = {}
    /\ \/ /\ counter[date] = 0
          /\ Goto(r, "numbered")
          /\ req' = [req EXCEPT ![r].seq = 1]
       \/ /\ counter[date] > 0
          /\ Goto(r, "refused")
          /\ UNCHANGED req
    /\ UNCHANGED <<today, counter, docs, drafts, toDraft, faults>>

\* The insert of the invoice, behind the unique index on its idempotency key.
StoreInvoice(r) ==
    /\ pc[r] = "numbered"
    /\ \A q \in Requests \ {r} : pc[q] = "stored" => ~SameKey(Invoice(q), Invoice(r))
    /\ Goto(r, IF \E d \in docs : SameKey(d, Invoice(r)) THEN "refused" ELSE "stored")
    /\ UNCHANGED <<today, counter, docs, drafts, toDraft, req, faults>>

\* The PDF is written, the transaction commits, the draft is enqueued.
Commit(r) ==
    /\ pc[r] = "stored"
    /\ counter' = [counter EXCEPT ![req[r].date] = req[r].seq]
    /\ docs' = docs \cup {Invoice(r)}
    /\ toDraft' = IF req[r].edo THEN toDraft \cup {Invoice(r)} ELSE toDraft
    /\ Goto(r, "issued")
    /\ UNCHANGED <<today, drafts, req, faults>>

\* Mutant: the number is given back by hand although the transaction does it.
RollbackTwice(r) ==
    /\ pc[r] \in {"begun", "creating", "numbered", "stored"}
    /\ faults < MaxFaults
    /\ faults' = faults + 1
    /\ Goto(r, "refused")
    /\ counter' = [counter EXCEPT ![req[r].date] = @ - 1]
    /\ UNCHANGED <<today, docs, drafts, toDraft, req>>

\* A failed statement or PDF, or a restart: the transaction rolls back.
Rollback(r) ==
    /\ pc[r] \in {"begun", "creating", "numbered", "stored"}
    /\ faults < MaxFaults
    /\ faults' = faults + 1
    /\ Goto(r, "refused")
    /\ UNCHANGED <<today, counter, docs, drafts, toDraft, req>>

Answer(r) ==
    /\ pc[r] \in {"issued", "refused"}
    /\ Goto(r, "free")
    /\ req' = [req EXCEPT ![r].seq = 0]
    /\ UNCHANGED <<today, counter, docs, drafts, toDraft, faults>>

\* enqueueInvoiceSbisDraft, and the failure that is recorded and not retried.
DraftInvoice(d) ==
    /\ d \in toDraft
    /\ toDraft' = toDraft \ {d}
    /\ \/ drafts' = drafts \cup {d} /\ UNCHANGED faults
       \/ faults < MaxFaults /\ faults' = faults + 1 /\ UNCHANGED drafts
    /\ UNCHANGED <<today, counter, docs, pc, req>>

-----------------------------------------------------------------------------
Init ==
    /\ today = 1
    /\ counter = [d \in Dates |-> IF d = Calendar[1] THEN Earlier ELSE 0]
    /\ \E org \in Orgs : docs = {NumberedInvoice(org, Calendar[1], n) : n \in 1..Earlier}
    /\ drafts = {}
    /\ toDraft = {}
    /\ pc = [r \in Requests |-> "free"]
    /\ req \in [Requests -> [org : Orgs, date : {Calendar[1]}, seq : {0}, edo : {FALSE}]]
    /\ faults = 0

Next ==
    \/ NextDay
    \/ \E r \in Requests :
          \/ IssueInvoice(r) \/ NextNumber(r) \/ CreateCounter(r) \/ StoreInvoice(r)
          \/ Commit(r) \/ Rollback(r) \/ Answer(r)
    \/ \E d \in toDraft : DraftInvoice(d)

Spec == Init /\ [][Next]_vars

-----------------------------------------------------------------------------
InvoiceNumber == [width : Nat, value : Nat]

Invoices == [org : Orgs, date : Dates, seq : Nat, number : InvoiceNumber]

\* Rows and locals keep their shapes.
TypeOK ==
    /\ today \in DOMAIN Calendar
    /\ counter \in [Dates -> Nat]
    /\ docs \subseteq Invoices /\ drafts \subseteq Invoices /\ toDraft \subseteq Invoices
    /\ pc \in [Requests -> {"free", "begun", "creating", "numbered", "stored",
                            "issued", "refused"}]
    /\ req \in [Requests -> [org : Orgs, date : Dates, seq : Nat, edo : BOOLEAN]]
    /\ faults \in Nat

\* The invoices of a day are numbered 1, 2, 3 ... without a gap and without a
\* repetition, whatever overlaps, collides or rolls back: the number is taken
\* under the row lock and given back with the transaction (nextNumber).
NumberedInTurn ==
    /\ \A date \in Dates : {d.seq : d \in {e \in docs : e.date = date}} = 1..counter[date]
    /\ \A d, e \in docs : d.date = e.date /\ d.seq = e.seq => d = e

\* And no two of them are printed alike: the day and the digits of the sequence run
\* together.
Gapless ==
    /\ NumberedInTurn
    /\ \A d, e \in docs : d.date = e.date /\ d.number = e.number => d = e

-----------------------------------------------------------------------------
Flags ==
    /\ pc \in [Requests -> {"free", "begun", "creating", "numbered", "stored",
                            "issued", "refused"}]
    /\ faults \in Nat

Shape ==
    /\ today \in DOMAIN Calendar
    /\ counter \in [Dates -> Nat]
    /\ docs \subseteq Invoices /\ drafts \subseteq Invoices /\ toDraft \subseteq Invoices
    /\ \A d \in docs :
          d.seq \in 1..counter[d.date] /\ d.number = FormatInvoiceNumber(d.seq, d.date.day)
    /\ req \in [Requests -> [org : Orgs, date : Dates, seq : Nat, edo : BOOLEAN]]

\* A number that is taken and not committed is the next one, and nobody else has one.
HoldInv ==
    \A r \in Requests : pc[r] \in {"numbered", "stored"} =>
       /\ req[r].seq = counter[req[r].date] + 1
       /\ \A q \in Requests :
             pc[q] \in {"numbered", "stored"} /\ req[q].date = req[r].date => q = r

\* The invoices there are, counted and told apart.
DocsInv ==
    /\ \A date \in Dates : \A n \in 1..counter[date] :
          \E d \in docs : d.date = date /\ d.seq = n
    /\ \A d, e \in docs : d.date = e.date /\ d.seq = e.seq => d = e

IInv == Flags /\ Shape /\ HoldInv /\ DocsInv
=============================================================================
