-------------------------- MODULE DocumentExchange --------------------------
(***************************************************************************)
(* Invoices after they were issued: drafted in SBIS in the background,     *)
(* sent by an administrator (resendToSbis), sent again by the cron job     *)
(* that retries what failed, marked as paid by a bank payment, edited and  *)
(* deleted, while somebody may send the same draft by hand in SBIS.        *)
(*                                                                         *)
(* Sending is a dialogue: read the document, prepare the action if the     *)
(* attachments are formal, execute it, and depending on the answer prepare *)
(* and execute again, execute with a deferred signature, or read once      *)
(* more.  An answer may be lost after SBIS has done what it was asked for. *)
(***************************************************************************)
EXTENDS Integers, FiniteSets

CONSTANTS Invoices,
          Resends,     \* administrators' requests
          Retries,     \* runs of retryFailedSbis, each for one failed document
          Payments,    \* bank payments that are identified
          AutoSend,    \* SBIS_EDO_AUTO_SEND
          Casts,       \* who takes part in a behaviour: sets of the above
          Deferred,    \* SBIS_EDO_DEFERRED_SIGN
          Signing,     \* what SBIS wants of a signature: "none", "prepared", "deferred"
          MaxAttempts, \* 6 in the code
          MaxFaults,   \* bound: requests and answers that are lost
          MaxManual    \* bound: edits, deletions and sends by hand

ExchangeConstants ==
    /\ Invoices # {} /\ Invoices \cap (Resends \cup Retries) = {}
    /\ IsFiniteSet(Resends \cup Retries)
    /\ AutoSend \in BOOLEAN /\ MaxAttempts \in Nat \ {0} /\ MaxFaults \in Nat /\ MaxManual \in Nat

VARIABLES status,    \* organization_documents.status; none when there is no row
          linked,    \* invoices with a sbisId
          attempts,  \* sbisAttemptCount
          amount,    \* amountRub
          saby,      \* external: [state, formal, prepares, signing] of each document
          pc,        \* of the background drafts, resends and retries
          job,       \* what each handler holds
          faults,
          manual,
          pending,   \* payments to come
          marks,     \* history: how often each invoice was marked as paid
          disturbed  \* history: invoices whose last resend was not alone or lost a call, or sent by hand since

vars == <<status, linked, attempts, amount, saby, pc, job, faults, manual, pending,
          marks, disturbed>>
rows == <<status, linked, attempts, amount>>

-----------------------------------------------------------------------------
Handlers == Resends \cup Retries
Goto(p, label) == pc' = [pc EXCEPT ![p] = label]
Idle(h) == pc[h] \in {"idle", "done"}
On(d) == {h \in Handlers : ~Idle(h) /\ job[h].doc = d}
Exists(d) == status[d] # "none"

\* Documents as SBIS tells of them: the send stage is there until the document is sent,
\* or waits for the signature of its owner, which the code takes for sent.
Absent == [state |-> "absent", formal |-> FALSE, prepares |-> 0, signing |-> "none"]
HasSendStage(d) == saby[d].state = "draft"
Past == {"queued", "sent"}
PastSendStage(d) == saby[d].state \in Past
HandOver(d) == \E s \in Past : saby' = [saby EXCEPT ![d].state = s]

Lose == faults < MaxFaults /\ faults' = faults + 1

-----------------------------------------------------------------------------
\* createInvoiceDraft: the shell first, then the formal attachment, then the row.
\* Nobody repeats a draft that failed.
WriteShell(d) ==
    /\ pc[d] = "issued"
    /\ \/ \E s \in Signing : saby' = [saby EXCEPT ![d] = [Absent EXCEPT !.state = "draft", !.signing = s]]
          /\ Goto(d, "attaching") /\ UNCHANGED <<attempts, faults>>
       \/ Lose /\ Goto(d, "done") /\ attempts' = [attempts EXCEPT ![d] = @ + 1] /\ UNCHANGED saby
    /\ UNCHANGED <<status, linked, amount, job, manual, pending, marks, disturbed>>

WriteAttachment(d) ==
    /\ pc[d] = "attaching"
    /\ \/ /\ \E formal \in BOOLEAN : saby' = [saby EXCEPT ![d].formal = formal]
          /\ Goto(d, "linking") /\ UNCHANGED <<attempts, faults>>
       \/ Lose /\ Goto(d, "done") /\ attempts' = [attempts EXCEPT ![d] = @ + 1] /\ UNCHANGED saby
    /\ UNCHANGED <<status, linked, amount, job, manual, pending, marks, disturbed>>

LinkDraft(d) ==
    /\ pc[d] = "linking"
    /\ linked' = IF Exists(d) THEN linked \cup {d} ELSE linked
    /\ Goto(d, "done")
    /\ UNCHANGED <<status, attempts, amount, saby, job, faults, manual, pending, marks, disturbed>>

-----------------------------------------------------------------------------
Take(h, d) ==
    job' = [job EXCEPT ![h] = [doc |-> d, status |-> status[d], attempts |-> attempts[d],
                               prepared |-> FALSE, deferred |-> FALSE]]

\* resendToSbis: any document with a sbisId, a paid one too.
BeginResend(h, d) ==
    /\ pc[h] = "idle"
    /\ Exists(d) /\ d \in linked
    /\ Take(h, d)
    /\ Goto(h, IF AutoSend THEN "reading" ELSE "ok")
    /\ disturbed' = IF On(d) = {} THEN disturbed \ {d} ELSE disturbed \cup {d}
    /\ UNCHANGED <<rows, saby, faults, manual, pending, marks>>

\* retryFailedSbis names the row, not the SBIS document: with automatic sending the
\* document it asks for is never found.
BeginRetry(h, d) ==
    /\ pc[h] = "idle"
    /\ status[d] = "failed" /\ attempts[d] < MaxAttempts
    /\ Take(h, d)
    /\ Goto(h, IF AutoSend THEN "failing" ELSE "ok")
    /\ disturbed' = IF On(d) = {} THEN disturbed ELSE disturbed \cup {d}
    /\ UNCHANGED <<rows, saby, faults, manual, pending, marks>>

\* sendDocumentToEdo reads the document; one that is past its send stage is done.
ReadDocument(h) ==
    LET d == job[h].doc IN
    /\ pc[h] = "reading"
    /\ Goto(h, IF PastSendStage(d) THEN "ok"
               ELSE IF saby[d].formal THEN "preparing" ELSE "executing")
    /\ UNCHANGED <<rows, saby, job, faults, manual, pending, marks, disturbed>>

\* prepareDocumentForEdo: SBIS may refuse it for a document that was sent meanwhile.
Prepare(h) ==
    LET d == job[h].doc IN
    /\ pc[h] = "preparing"
    /\ \/ /\ HasSendStage(d)
          /\ saby' = [saby EXCEPT ![d].prepares = IF @ < 2 THEN @ + 1 ELSE @]
          /\ job' = [job EXCEPT ![h].prepared = TRUE]
          /\ Goto(h, "executing")
       \/ /\ PastSendStage(d)
          /\ \E refused \in BOOLEAN : Goto(h, IF refused THEN "failing" ELSE "executing")
          /\ UNCHANGED <<saby, job>>
    /\ UNCHANGED <<rows, faults, manual, pending, marks, disturbed>>

\* How SBIS answers the action: it has nothing to send when the document was sent,
\* or when it was prepared twice.
Signed(h) == LET s == saby[job[h].doc].signing IN
    \/ s = "none"
    \/ s = "prepared" /\ job[h].prepared
    \/ s = "deferred" /\ job[h].deferred
Reply(h) == LET d == job[h].doc IN
    IF PastSendStage(d) \/ saby[d].prepares > 1 THEN "nothing"
    ELSE IF ~Signed(h) THEN "unsigned" ELSE "sent"

\* runExecute and what follows each answer: sent, and queued for the signature of the
\* owner, are one to the code.
Execute(h) ==
    LET d == job[h].doc IN
    /\ pc[h] = "executing"
    /\ \/ /\ Reply(h) = "sent"
          /\ HandOver(d)
          /\ Goto(h, "ok") /\ UNCHANGED job
       \/ /\ Reply(h) = "unsigned"
          /\ IF ~job[h].prepared THEN Goto(h, "preparing") /\ UNCHANGED job
             ELSE IF ~job[h].deferred /\ Deferred
             THEN job' = [job EXCEPT ![h].deferred = TRUE] /\ UNCHANGED pc
             ELSE Goto(h, "failing") /\ UNCHANGED job
          /\ UNCHANGED saby
       \/ /\ Reply(h) = "nothing"
          /\ Goto(h, "checking") /\ UNCHANGED <<saby, job>>
    /\ UNCHANGED <<rows, faults, manual, pending, marks, disturbed>>

\* Mutant: nothing to send is taken for sent.
BelieveSent(h) ==
    /\ pc[h] = "checking"
    /\ Goto(h, "ok")
    /\ UNCHANGED <<rows, saby, job, faults, manual, pending, marks, disturbed>>

\* Nothing to send: the document tells whether it was sent.
CheckSent(h) ==
    /\ pc[h] = "checking"
    /\ Goto(h, IF PastSendStage(job[h].doc) THEN "ok" ELSE "failing")
    /\ UNCHANGED <<rows, saby, job, faults, manual, pending, marks, disturbed>>

\* A request that does not arrive, or whose answer does not: the send may have happened.
LoseCall(h) ==
    LET d == job[h].doc IN
    /\ pc[h] \in {"reading", "preparing", "executing", "checking"}
    /\ Lose
    /\ \/ UNCHANGED saby
       \/ pc[h] = "executing" /\ Reply(h) = "sent" /\ HandOver(d)
    /\ Goto(h, "failing")
    /\ disturbed' = disturbed \cup {d}
    /\ UNCHANGED <<rows, job, manual, pending, marks>>

\* The update of the loaded row: only what differs from what was loaded is written.
Finish(h) ==
    LET d == job[h].doc
        outcome == IF pc[h] = "ok" THEN "sent_to_sbis" ELSE "failed"
    IN
    /\ pc[h] \in {"ok", "failing"}
    /\ status' = [status EXCEPT ![d] = IF @ = "none" \/ outcome = job[h].status THEN @ ELSE outcome]
    /\ attempts' = [attempts EXCEPT ![d] = job[h].attempts + 1]
    /\ Goto(h, "done")
    /\ UNCHANGED <<linked, amount, saby, job, faults, manual, pending, marks, disturbed>>

-----------------------------------------------------------------------------
\* Mutant: whatever its status.
PayAny(p) ==
    /\ p \in pending
    /\ pending' = pending \ {p}
    /\ \E d \in {x \in Invoices : Exists(x)} :
          /\ status' = [status EXCEPT ![d] = "paid"]
          /\ marks' = [marks EXCEPT ![d] = @ + 1]
    /\ UNCHANGED <<linked, attempts, amount, saby, pc, job, faults, manual, disturbed>>

\* createAdvanceAfterBankPayment, in the SERIALIZABLE transaction of the payment: the
\* newest issued invoice of the amount, if there is one.
Pay(p) ==
    /\ p \in pending
    /\ pending' = pending \ {p}
    /\ \/ \E d \in Invoices :
             /\ status[d] = "issued" /\ amount[d] = 1
             /\ status' = [status EXCEPT ![d] = "paid"]
             /\ marks' = [marks EXCEPT ![d] = @ + 1]
       \/ /\ \A d \in Invoices : status[d] # "issued" \/ amount[d] # 1
          /\ UNCHANGED <<status, marks>>
    /\ UNCHANGED <<linked, attempts, amount, saby, pc, job, faults, manual, disturbed>>

Manually == manual < MaxManual /\ manual' = manual + 1

\* updateDocument, of a document in any state.
Edit(d) ==
    /\ Manually /\ Exists(d)
    /\ amount' = [amount EXCEPT ![d] = 3 - @]
    /\ UNCHANGED <<status, linked, attempts, saby, pc, job, faults, pending, marks, disturbed>>

\* deleteDocument: the PDF, then the row; SBIS is not told.
Remove(d) ==
    /\ Manually /\ Exists(d)
    /\ status' = [status EXCEPT ![d] = "none"]
    /\ UNCHANGED <<linked, attempts, amount, saby, pc, job, faults, pending, marks, disturbed>>

SendByHand(d) ==
    /\ Manually /\ HasSendStage(d)
    /\ saby' = [saby EXCEPT ![d].state = "sent"]
    /\ disturbed' = disturbed \cup {d}
    /\ UNCHANGED <<rows, pc, job, faults, pending, marks>>

\* The document that waits is signed, and goes.
OwnerSigns(d) ==
    /\ saby[d].state = "queued"
    /\ saby' = [saby EXCEPT ![d].state = "sent"]
    /\ UNCHANGED <<rows, pc, job, faults, manual, pending, marks, disturbed>>

-----------------------------------------------------------------------------
Init ==
    /\ status = [d \in Invoices |-> "issued"]
    /\ linked = {} /\ disturbed = {}
    /\ attempts = [d \in Invoices |-> 0]
    /\ amount = [d \in Invoices |-> 1]
    /\ saby = [d \in Invoices |-> Absent]
    /\ \E cast \in Casts :
          /\ pc = [p \in Invoices \cup Handlers |->
                     IF p \notin cast THEN "done" ELSE IF p \in Invoices THEN "issued" ELSE "idle"]
          /\ pending = Payments \cap cast
    /\ job \in [Handlers -> [doc : {CHOOSE d \in Invoices : TRUE}, status : {"issued"}, attempts : {0},
                             prepared : {FALSE}, deferred : {FALSE}]]
    /\ faults = 0 /\ manual = 0
    /\ marks = [d \in Invoices |-> 0]

Next ==
    \/ \E d \in Invoices : WriteShell(d) \/ WriteAttachment(d) \/ LinkDraft(d)
    \/ \E d \in Invoices, h \in Resends : BeginResend(h, d)
    \/ \E d \in Invoices, h \in Retries : BeginRetry(h, d)
    \/ \E h \in Handlers : \/ ReadDocument(h) \/ Prepare(h) \/ Execute(h)
                           \/ CheckSent(h) \/ LoseCall(h) \/ Finish(h)
    \/ \E p \in Payments : Pay(p)
    \/ \E d \in Invoices : Edit(d) \/ Remove(d) \/ SendByHand(d) \/ OwnerSigns(d)

Spec == Init /\ [][Next]_vars

-----------------------------------------------------------------------------
TypeOK ==
    /\ status \in [Invoices -> {"none", "issued", "paid", "sent_to_sbis", "failed"}]
    /\ linked \subseteq Invoices /\ disturbed \subseteq Invoices
    /\ attempts \in [Invoices -> 0 .. MaxAttempts + Cardinality(Handlers)]
    /\ saby \in [Invoices -> [state : {"absent", "draft", "queued", "sent"}, formal : BOOLEAN,
                              prepares : 0 .. 2, signing : {"none"} \cup Signing]]

\* A document is shown as sent only if SBIS has sent it or holds it for the signature of
\* its owner, whatever dialogues overlap and whatever answers are lost, and a document
\* that SBIS has taken is not shown as failed once somebody has sent it again undisturbed.
StatusTellsTheTruth ==
    AutoSend => \A d \in Invoices :
        /\ status[d] = "sent_to_sbis" => PastSendStage(d)
        /\ status[d] = "failed" /\ d \notin disturbed /\ On(d) = {} => ~PastSendStage(d)

\* Two payments of one amount never mark the same invoice.
MarkedOnce == \A d \in Invoices : marks[d] <= 1

-----------------------------------------------------------------------------
Statuses == {"none", "issued", "paid", "sent_to_sbis", "failed"}
DocumentKind == [state : {"absent", "draft", "queued", "sent"}, formal : BOOLEAN,
                 prepares : 0 .. 2, signing : {"none"} \cup Signing]
JobKind == [doc : Invoices, status : Statuses, attempts : Nat,
            prepared : BOOLEAN, deferred : BOOLEAN]
Drafted(d) == IF pc[d] = "done" THEN 1 ELSE 0
Done == {h \in Handlers : pc[h] = "done"}

\* Shapes and counts: an invoice is tried by its draft and by each handler that is done.
Shapes ==
    /\ status \in [Invoices -> Statuses]
    /\ linked \subseteq Invoices /\ disturbed \subseteq Invoices
    /\ attempts \in [Invoices -> Nat] /\ marks \in [Invoices -> {0, 1}]
    /\ saby \in [Invoices -> DocumentKind]
    /\ pc \in [Invoices \cup Handlers ->
                  {"issued", "attaching", "linking", "idle", "reading", "preparing",
                   "executing", "checking", "ok", "failing", "done"}]
    /\ job \in [Handlers -> JobKind]
Counted ==
    /\ \A d \in Invoices : attempts[d] <= Drafted(d) + Cardinality(Done)
    /\ \A h \in Handlers : job[h].attempts <= Drafted(job[h].doc) + Cardinality(Done)

\* An invoice that was marked is no longer issued, and never again.
Marked == \A d \in Invoices : marks[d] = 1 => status[d] # "issued"

\* A handler that calls a document sent has handed it over, and before it is drafted nobody has
\* anything of it in hand.
Sure ==
    /\ \A d \in Invoices : pc[d] = "issued" =>
          saby[d].state = "absent" /\ d \notin linked /\ status[d] # "failed" /\ On(d) = {}
    /\ \A h \in Handlers : pc[h] = "ok" => PastSendStage(job[h].doc)
    /\ \A d \in Invoices : status[d] = "sent_to_sbis" => PastSendStage(d)

\* A document that nobody disturbed has one handler at most, which knows its status and
\* what SBIS has of it.
OneHandler ==
    \A d \in Invoices \ disturbed :
        /\ \A h, g \in On(d) : h = g
        /\ \A h \in On(d) : /\ status[d] \in {job[h].status, "none", "paid"}
                            /\ pc[h] \in {"preparing", "executing", "checking", "failing"} => ~PastSendStage(d)
        /\ status[d] = "failed" /\ On(d) = {} => ~PastSendStage(d)

IInv == Shapes /\ Counted /\ Marked /\ (AutoSend => Sure /\ OneHandler)
=============================================================================
