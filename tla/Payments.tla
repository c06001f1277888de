------------------------------ MODULE Payments ------------------------------
(***************************************************************************)
(* Top-ups: PaymentsService against three payment gateways that tell it of *)
(* a payment by HTTP, more than once, in any order, and again until they   *)
(* are answered.                                                           *)
(*                                                                         *)
(* Stripe and Robokassa: a pending payments row is made first; the handler *)
(* saves the status "succeeded" and only then credits the balance.  Alfa:  *)
(* row, credit and rate history are one SERIALIZABLE transaction.  The     *)
(* balance ledger is used as AtomicLedger promises it.                     *)
(***************************************************************************)
EXTENDS Naturals, FiniteSets

CONSTANTS ViaStripe, ViaRobokassa, ViaAlfa,   \* payments by gateway
          Handlers,        \* requests of a gateway the server can have in hand
          MaxFaults,       \* bound: payments a handler of which may fail, once
          AbortsOnError    \* a failed statement aborts its transaction (Postgres)

Payments == ViaStripe \cup ViaRobokassa \cup ViaAlfa

Provider == [p \in Payments |-> IF p \in ViaStripe THEN "stripe"
                                ELSE IF p \in ViaRobokassa THEN "robokassa" ELSE "alfa"]

PaymentsConstants ==
    /\ Payments # {}
    /\ MaxFaults \in Nat
    /\ AbortsOnError \in BOOLEAN

VARIABLES status,    \* payments.status, or "none" without a row
          gateway,   \* external: what the customer did at the gateway
          declined,  \* external: payments an earlier attempt at which was declined
          answered,  \* external: <<payment, event>> answered with 2xx, sent no more
          ledger,    \* the credits: which handler wrote one for which payment
          pc,
          job,       \* what a handler was asked, and the status it loaded
          faulty     \* payments a handler of which failed or was cut off

vars == <<status, gateway, declined, answered, ledger, pc, job, faulty>>

Events == {"succeeded", "payment_failed"}

Statuses == {"none", "pending", "succeeded", "failed"}

Pay(h) == job[h].pay

Via(h, provider) == Provider[Pay(h)] = provider

NoJob == [pay |-> CHOOSE p \in Payments : TRUE, event |-> "succeeded", loaded |-> "none"]

\* The request is over, and its locals with it.
Release(h) ==
    /\ pc' = [pc EXCEPT ![h] = "free"]
    /\ job' = [job EXCEPT ![h] = NoJob]

Goto(h, label) == pc' = [pc EXCEPT ![h] = label]

Credited(p) == \E row \in ledger : row.pay = p

\* payment.save() writes the status when it differs from the one loaded.
Save(h, new) ==
    status' = IF job[h].loaded = new THEN status ELSE [status EXCEPT ![Pay(h)] = new]

-----------------------------------------------------------------------------
\* createStripePaymentIntent and createRobokassaPayment.
CreatePayment(p) ==
    /\ Provider[p] # "alfa"
    /\ status[p] = "none"
    /\ status' = [status EXCEPT ![p] = "pending"]
    /\ UNCHANGED <<gateway, declined, answered, ledger, pc, job, faulty>>

\* An Alfa invoice is paid without anything here knowing of it.
CustomerPays(p) ==
    /\ gateway[p] = "open"
    /\ Provider[p] # "alfa" => status[p] # "none"
    /\ gateway' = [gateway EXCEPT ![p] = "paid"]
    /\ UNCHANGED <<status, declined, answered, ledger, pc, job, faulty>>

\* A declined card leaves the Stripe intent open for another attempt.
CardDeclined(p) ==
    /\ Provider[p] = "stripe"
    /\ gateway[p] = "open"
    /\ status[p] # "none"
    /\ declined' = declined \cup {p}
    /\ UNCHANGED <<status, gateway, answered, ledger, pc, job, faulty>>

Happened(p, event) ==
    \/ event = "succeeded" /\ gateway[p] = "paid"
    \/ event = "payment_failed" /\ p \in declined

\* The gateway sends an event until it is answered; two copies may be in hand.
Deliver(h, p, event) ==
    /\ pc[h] = "free"
    /\ Happened(p, event)
    /\ <<p, event>> \notin answered
    /\ job' = [job EXCEPT ![h] = [pay |-> p, event |-> event, loaded |-> "none"]]
    /\ Goto(h, "loading")
    /\ UNCHANGED <<status, gateway, declined, answered, ledger, faulty>>

\* Mutant: only a pending payment may succeed.
LoadPendingPayment(h) ==
    /\ pc[h] = "loading"
    /\ ~Via(h, "alfa")
    /\ job' = [job EXCEPT ![h].loaded = status[Pay(h)]]
    /\ Goto(h, IF job[h].event = "payment_failed" THEN "failing"
               ELSE IF status[Pay(h)] # "pending" THEN "answering"
               ELSE IF Via(h, "stripe") THEN "saving" ELSE "converting")
    /\ UNCHANGED <<status, gateway, declined, answered, ledger, faulty>>

\* findOne, and for a success the return on a payment that has succeeded.
LoadPayment(h) ==
    /\ pc[h] = "loading"
    /\ ~Via(h, "alfa")
    /\ job' = [job EXCEPT ![h].loaded = status[Pay(h)]]
    /\ Goto(h, IF job[h].event = "payment_failed" THEN "failing"
               ELSE IF status[Pay(h)] = "succeeded" THEN "answering"
               ELSE IF Via(h, "stripe") THEN "saving" ELSE "converting")
    /\ UNCHANGED <<status, gateway, declined, answered, ledger, faulty>>

\* failPayment asks nothing of the status it finds.
SaveFailed(h) ==
    /\ pc[h] = "failing"
    /\ Save(h, "failed")
    /\ Goto(h, "answering")
    /\ UNCHANGED <<gateway, declined, answered, ledger, job, faulty>>

\* finalizePayment saves after listing the charges and before converting,
\* handleRobokassaResult after converting.
SaveSucceeded(h) ==
    /\ pc[h] = "saving"
    /\ Save(h, "succeeded")
    /\ Goto(h, IF Via(h, "stripe") THEN "converting" ELSE "crediting")
    /\ UNCHANGED <<gateway, declined, answered, ledger, job, faulty>>

ConvertToUsd(h) ==
    /\ pc[h] = "converting"
    /\ Goto(h, IF Via(h, "stripe") THEN "crediting" ELSE "saving")
    /\ UNCHANGED <<status, gateway, declined, answered, ledger, job, faulty>>

\* Mutant: the credit carries no idempotency key.
CreditAgain(h) ==
    /\ pc[h] = "crediting"
    /\ ledger' = ledger \cup {[pay |-> Pay(h), by |-> h]}
    /\ Goto(h, "answering")
    /\ UNCHANGED <<status, gateway, declined, answered, job, faulty>>

\* updateUserBalance under the key of the payment.
CreditBalance(h) ==
    /\ pc[h] = "crediting"
    /\ ledger' = IF Credited(Pay(h)) THEN ledger
                 ELSE ledger \cup {[pay |-> Pay(h), by |-> h]}
    /\ Goto(h, "answering")
    /\ UNCHANGED <<status, gateway, declined, answered, job, faulty>>

\* handleAlfaBankCallback: the lookup in the ledger that opens its transaction.
BeginAlfa(h) ==
    /\ pc[h] = "loading"
    /\ Via(h, "alfa")
    /\ Goto(h, IF Credited(Pay(h)) THEN "answering" ELSE "writing")
    /\ UNCHANGED <<status, gateway, declined, answered, ledger, job, faulty>>

\* Mutant: the callback answers ok whatever became of its transaction.
CommitAlfaBlindly(h) ==
    /\ pc[h] = "writing"
    /\ ~Credited(Pay(h))
    /\ Goto(h, "answering")
    /\ \/ /\ status' = [status EXCEPT ![Pay(h)] = "succeeded"]
          /\ ledger' = ledger \cup {[pay |-> Pay(h), by |-> h]}
       \/ UNCHANGED <<status, ledger>>
    /\ UNCHANGED <<gateway, declined, answered, job, faulty>>

\* Mutant: the row is stored with the gateway's word for its status.
CommitAlfaOk(h) ==
    /\ pc[h] = "writing"
    /\ ~Credited(Pay(h))
    /\ Goto(h, "answering")
    /\ status' = [status EXCEPT ![Pay(h)] = "OK"]
    /\ ledger' = ledger \cup {[pay |-> Pay(h), by |-> h]}
    /\ UNCHANGED <<gateway, declined, answered, job, faulty>>

\* Payment row, credit, and a currency_history row whose failure is swallowed:
\* where that aborts the transaction, COMMIT rolls all of it back and says
\* nothing.  A transaction that lost to another copy of the callback fails.
CommitAlfa(h) ==
    /\ pc[h] = "writing"
    /\ ~Credited(Pay(h))
    /\ Goto(h, "answering")
    /\ \/ /\ status' = [status EXCEPT ![Pay(h)] = "succeeded"]
          /\ ledger' = ledger \cup {[pay |-> Pay(h), by |-> h]}
       \/ /\ AbortsOnError
          /\ UNCHANGED <<status, ledger>>
    /\ UNCHANGED <<gateway, declined, answered, job, faulty>>

LoseAlfaRace(h) ==
    /\ pc[h] = "writing"
    /\ Credited(Pay(h))
    /\ Release(h)
    /\ UNCHANGED <<status, gateway, declined, answered, ledger, faulty>>

\* { received: true }, OK<InvId> or { ok: true }.
Answer(h) ==
    /\ pc[h] = "answering"
    /\ answered' = answered \cup {<<Pay(h), job[h].event>>}
    /\ Release(h)
    /\ UNCHANGED <<status, gateway, declined, ledger, faulty>>

\* An error (no rate for the currency, the database, a restart) before the
\* answer; the gateway will try again.
Fail(h) ==
    /\ pc[h] # "free"
    /\ Cardinality(faulty) < MaxFaults /\ Pay(h) \notin faulty
    /\ faulty' = faulty \cup {Pay(h)}
    /\ Release(h)
    /\ UNCHANGED <<status, gateway, declined, answered, ledger>>

-----------------------------------------------------------------------------
Init ==
    /\ status = [p \in Payments |-> "none"]
    /\ gateway = [p \in Payments |-> "open"]
    /\ declined = {}
    /\ answered = {}
    /\ ledger = {}
    /\ pc = [h \in Handlers |-> "free"]
    /\ job = [h \in Handlers |-> NoJob]
    /\ faulty = {}

Handle(h) ==
    \/ LoadPayment(h) \/ SaveFailed(h) \/ SaveSucceeded(h) \/ ConvertToUsd(h)
    \/ CreditBalance(h) \/ BeginAlfa(h) \/ CommitAlfa(h) \/ LoseAlfaRace(h) \/ Answer(h)

Next ==
    \/ \E p \in Payments : CreatePayment(p) \/ CustomerPays(p) \/ CardDeclined(p)
    \/ \E h \in Handlers, p \in Payments, event \in Events : Deliver(h, p, event)
    \/ \E h \in Handlers : Handle(h) \/ Fail(h)

Spec == Init /\ [][Next]_vars

-----------------------------------------------------------------------------
\* Statuses and handler locals keep their ranges.
TypeOK ==
    /\ status \in [Payments -> Statuses]
    /\ gateway \in [Payments -> {"open", "paid"}]
    /\ declined \subseteq Payments
    /\ answered \subseteq Payments \X Events
    /\ ledger \subseteq [pay : Payments, by : Handlers]
    /\ pc \in [Handlers -> {"free", "loading", "failing", "saving", "converting",
                            "crediting", "writing", "answering"}]
    /\ job \in [Handlers -> [pay : Payments, event : Events, loaded : Statuses]]
    /\ faulty \subseteq Payments

Working(p) == \E h \in Handlers : pc[h] # "free" /\ Pay(h) = p /\ job[h].event = "succeeded"

\* A payment is credited at most once, and only when the customer has paid,
\* although copies of a notification pass the status check together.
CreditedOnceIfPaid ==
    /\ \A x, y \in ledger : x.pay = y.pay => x = y
    /\ \A x \in ledger : gateway[x.pay] = "paid"

\* Statuses and handlers in their ranges, and every credit the one of a payment made.
PaymentsSound == TypeOK /\ CreditedOnceIfPaid

\* A gateway is told to stop only when the credit is there or some handler still
\* works on it, also when a late payment_failed has overwritten the status; the
\* one exception is a payment a handler of which was cut off: the status it had
\* saved makes every later notification be answered without a credit.
NothingLostWithoutFault ==
    \A p \in Payments : <<p, "succeeded">> \in answered /\ p \notin faulty =>
       Credited(p) \/ Working(p)

-----------------------------------------------------------------------------
\* What a handler was asked has happened; past the lookup it is a success, and only
\* Stripe sends anything else.
JobInv ==
    /\ \A h \in Handlers : pc[h] # "free" => Happened(Pay(h), job[h].event)
    /\ \A h \in Handlers :
          pc[h] \in {"saving", "converting", "crediting"} => job[h].event = "succeeded"
    /\ \A h \in Handlers : pc[h] = "failing" => job[h].event # "succeeded"
    /\ \A h \in Handlers : pc[h] = "writing" => Via(h, "alfa")
    /\ \A p \in declined : Provider[p] = "stripe"

\* A handler that will credit p, whatever is answered meanwhile.
Crediting(h, p) ==
    /\ Pay(h) = p
    /\ job[h].event = "succeeded"
    /\ pc[h] = "crediting" \/ (pc[h] = "converting" /\ Via(h, "stripe"))

Settled(p) == Credited(p) \/ \E h \in Handlers : Crediting(h, p)

\* Who says that p is done: its row, an answer, a handler about to give one.
SaidDone(p) ==
    \/ status[p] = "succeeded"
    \/ <<p, "succeeded">> \in answered
    \/ \E h \in Handlers :
          pc[h] = "answering" /\ Pay(h) = p /\ job[h].event = "succeeded"

SettledInv == \A p \in Payments : SaidDone(p) /\ p \notin faulty => Settled(p)

\* The invariant behind both: credits are for what was paid, and, where a failed statement
\* does not abort its transaction, who says that a payment is done has settled it.
IInv ==
    /\ TypeOK /\ JobInv /\ CreditedOnceIfPaid
    /\ ~AbortsOnError => SettledInv
=============================================================================
