---------------------------- MODULE ClosingProofs ----------------------------
(***************************************************************************)
(* What a closing bills, for any runs and records.  That a second UPD is   *)
(* one of runs that overlapped rests on what a run that may still issue    *)
(* one knows of the others (RivalInv); that it bills every record in RUB,  *)
(* on what a run that nobody disturbed has read (QuietInv).                *)
(***************************************************************************)
EXTENDS Closing, FiniteSetTheorems, TLAPS

Overlap(r, q) == q \in run[r].rivals \/ r \in run[q].rivals

\* Runs at work at one time know of each other; one that may issue a UPD overlapped with
\* every run that has; a run that issued one is over.
RivalInv ==
    /\ \A r, q \in Active : r # q => Overlap(r, q)
    /\ \A r \in Active \ DryRuns, d \in upds : r # d.by => Overlap(r, d.by)
    /\ \A d \in upds : pc[d.by] = "done"
    /\ \A r \in Runs : pc[r] = "issuing" => r \notin DryRuns
    /\ DuplicatesOverlap

\* While no record has come or gone and the rate is there, the backfill leaves no record
\* without an amount, and the sums are those of the records there are.
QuietInv ==
    \A r \in Runs : run[r].quiet =>
        /\ pc[r] \notin {"idle", "done"} => rate
        /\ pc[r] \in {"summing usd", "summing rub", "issuing"} => In("charged") = {}
        /\ pc[r] \in {"summing rub", "issuing"} => run[r].usd = Cardinality(In("snapped"))
        /\ pc[r] = "issuing" => run[r].rub = Cardinality(In("snapped"))

------------------------
LEMMA CountType == ASSUME NEW S, S \subseteq Records PROVE Cardinality(S) \in Nat
  BY ClosingConstants, FS_Subset, FS_CardinalityType

LEMMA TypeStep == TypeOK /\ [Next]_vars => TypeOK'
  <1> SUFFICES ASSUME TypeOK, [Next]_vars PROVE TypeOK' OBVIOUS
  <1>1. ASSUME NEW x \in Records, ChargeUsage(x) \/ RefundUsage(x) PROVE TypeOK'
    <2>1. run' = Disturbed BY <1>1 DEF ChargeUsage, RefundUsage
    <2>2. run' \in [Runs -> [usd : Nat, rub : Nat, rivals : SUBSET Runs, quiet : BOOLEAN]]
      BY <2>1 DEF Disturbed, TypeOK
    <2> QED BY <1>1, <2>2 DEF ChargeUsage, RefundUsage, TypeOK
  <1>2. CASE RateArrives BY <1>2 DEF RateArrives, TypeOK
  <1>3. ASSUME NEW r \in Runs, Begin(r) PROVE TypeOK'
    <2>1. NewRun \in [usd : Nat, rub : Nat, rivals : SUBSET Runs, quiet : BOOLEAN] BY DEF NewRun
    <2>2. Active \in SUBSET Runs BY DEF Active
    <2>3. run' \in [Runs -> [usd : Nat, rub : Nat, rivals : SUBSET Runs, quiet : BOOLEAN]]
      <3>1. ASSUME NEW q \in Runs
            PROVE  run'[q] \in [usd : Nat, rub : Nat, rivals : SUBSET Runs, quiet : BOOLEAN]
        <4>1. CASE q = r BY <1>3, <2>1, <2>2, <4>1 DEF Begin, TypeOK
        <4>2. CASE q # r /\ q \in Active BY <1>3, <4>2 DEF Begin, TypeOK
        <4>3. CASE q # r /\ q \notin Active BY <1>3, <4>3 DEF Begin, TypeOK
        <4> QED BY <4>1, <4>2, <4>3
      <3>2. run' = [q \in Runs |-> run'[q]] BY <1>3 DEF Begin
      <3> QED BY <3>1, <3>2
    <2> QED BY <1>3, <2>3 DEF Begin, Goto, TypeOK
  <1>4. ASSUME NEW r \in Runs, Backfill(r) PROVE TypeOK' BY <1>4 DEF Backfill, Goto, TypeOK
  <1>5. ASSUME NEW r \in Runs, SumUsd(r) PROVE TypeOK'
    <2>1. Cardinality(In("charged") \cup In("snapped")) \in Nat BY CountType DEF In
    <2> QED BY <1>5, <2>1 DEF SumUsd, Goto, TypeOK
  <1>6. ASSUME NEW r \in Runs, SumRub(r) PROVE TypeOK'
    <2>1. Cardinality(In("snapped")) \in Nat BY CountType DEF In
    <2>2. run' \in [Runs -> [usd : Nat, rub : Nat, rivals : SUBSET Runs, quiet : BOOLEAN]]
      BY <1>6, <2>1 DEF SumRub, TypeOK
    <2>3. pc' \in [Runs -> {"idle", "backfilling", "summing usd", "summing rub", "issuing", "done"}]
      BY <1>6 DEF SumRub, Goto, TypeOK
    <2> QED BY <1>6, <2>2, <2>3 DEF SumRub, TypeOK
  <1>7. ASSUME NEW r \in Runs, IssueUpd(r) PROVE TypeOK'
    <2>1. run[r].usd \in Nat /\ run[r].rub \in Nat BY DEF TypeOK
    <2>2. upds' \subseteq [by : Runs, usd : Nat, rub : Nat, sbis : {"none", "draft", "failed"}]
      <3>1. [by |-> r, usd |-> run[r].usd, rub |-> run[r].rub, sbis |-> "none"]
              \in [by : Runs, usd : Nat, rub : Nat, sbis : {"none", "draft", "failed"}]
        BY <2>1
      <3> QED BY <1>7, <3>1 DEF IssueUpd, TypeOK
    <2>3. drafting' \subseteq [by : Runs, at : {"creating", "recording"}]
      <3>1. [by |-> r, at |-> "creating"] \in [by : Runs, at : {"creating", "recording"}] OBVIOUS
      <3> QED BY <1>7, <3>1 DEF IssueUpd, TypeOK
    <2>4. pc' \in [Runs -> {"idle", "backfilling", "summing usd", "summing rub", "issuing", "done"}]
      BY <1>7 DEF IssueUpd, Goto, TypeOK
    <2> QED BY <1>7, <2>2, <2>3, <2>4 DEF IssueUpd, TypeOK
  <1>8. ASSUME NEW r \in Runs, RunFails(r) PROVE TypeOK' BY <1>8 DEF RunFails, Goto, TypeOK
  <1>9. ASSUME NEW t \in drafting, CreateDraft(t) PROVE TypeOK' BY <1>9 DEF CreateDraft, TypeOK
  <1>10. ASSUME NEW t \in drafting, RecordDraft(t) \/ DraftFails(t) PROVE TypeOK'
    <2>1. ASSUME NEW state \in {"draft", "failed"}, Mark(t.by, state)
          PROVE  upds' \subseteq [by : Runs, usd : Nat, rub : Nat, sbis : {"none", "draft", "failed"}]
      <3>1. ASSUME NEW d \in upds
            PROVE  (IF d.by = t.by THEN [d EXCEPT !.sbis = state] ELSE d)
                     \in [by : Runs, usd : Nat, rub : Nat, sbis : {"none", "draft", "failed"}]
        BY <2>1 DEF TypeOK
      <3> QED BY <2>1, <3>1 DEF Mark
    <2>2. CASE RecordDraft(t) BY <2>1, <2>2 DEF RecordDraft, TypeOK
    <2>3. CASE DraftFails(t) BY <2>1, <2>3 DEF DraftFails, TypeOK
    <2> QED BY <1>10, <2>2, <2>3
  <1>11. ASSUME NEW d \in upds, DeleteUpd(d) PROVE TypeOK' BY <1>11 DEF DeleteUpd, TypeOK
  <1>12. CASE Restart BY <1>12 DEF Restart, TypeOK
  <1>13. CASE UNCHANGED vars BY <1>13 DEF vars, TypeOK
  <1> QED BY <1>1, <1>2, <1>3, <1>4, <1>5, <1>6, <1>7, <1>8, <1>9, <1>10, <1>11, <1>12,
       <1>13 DEF Next, Step

------------------------
\* A step in which no run begins or gets further than it was, no UPD comes, and rivals
\* stay as they are.
LEMMA RivalFrame ==
  ASSUME TypeOK, RivalInv,
         \A r \in Runs : run'[r].rivals = run[r].rivals,
         \A d \in upds' : \E e \in upds : d.by = e.by,
         \A r \in Runs : pc'[r] \notin {"idle", "done"} => r \in Active,
         \A r \in Runs : pc[r] = "done" => pc'[r] = "done",
         \A r \in Runs : pc'[r] = "issuing" => r \notin DryRuns
  PROVE  RivalInv'
  <1>1. \A r \in Runs : r \in Active' => r \in Active BY DEF Active
  <1>2. \A r \in Runs, q \in Runs : Overlap(r, q) => Overlap(r, q)' BY DEF Overlap
  <1>3. \A d \in upds : d.by \in Runs BY DEF TypeOK
  <1>4. \A r, q \in Active' : r # q => Overlap(r, q)' BY <1>1, <1>2 DEF RivalInv, Active
  <1>5. \A r \in Active' \ DryRuns, d \in upds' : r # d.by => Overlap(r, d.by)'
    <2> SUFFICES ASSUME NEW r \in Active' \ DryRuns, NEW d \in upds', r # d.by
                 PROVE  Overlap(r, d.by)'
      OBVIOUS
    <2>1. PICK e \in upds : d.by = e.by OBVIOUS
    <2>2. r \in Active /\ r \in Runs BY <1>1 DEF Active
    <2>3. Overlap(r, e.by) BY <2>1, <2>2 DEF RivalInv
    <2> QED BY <2>1, <2>2, <2>3, <1>3 DEF Overlap
  <1>6. \A d \in upds' : pc'[d.by] = "done" BY <1>3 DEF RivalInv
  <1>7. DuplicatesOverlap'
    <2> SUFFICES ASSUME NEW x \in upds', NEW y \in upds', x.by # y.by
                 PROVE  Overlap(x.by, y.by)'
      BY DEF DuplicatesOverlap, Overlap
    <2>1. PICK a \in upds : x.by = a.by OBVIOUS
    <2>2. PICK b \in upds : y.by = b.by OBVIOUS
    <2>3. Overlap(a.by, b.by) BY <2>1, <2>2 DEF RivalInv, DuplicatesOverlap, Overlap
    <2> QED BY <1>3, <2>1, <2>2, <2>3 DEF Overlap
  <1> QED BY <1>4, <1>5, <1>6, <1>7 DEF RivalInv

\* Steps that leave the runs, their rivals and the issued documents as they are.
LEMMA RivalSame ==
  ASSUME TypeOK, RivalInv, UNCHANGED pc,
         \A r \in Runs : run'[r].rivals = run[r].rivals,
         \A d \in upds' : \E e \in upds : d.by = e.by
  PROVE  RivalInv'
  <1>1. \A r \in Runs : pc'[r] \notin {"idle", "done"} => r \in Active BY DEF Active
  <1>2. \A r \in Runs : pc'[r] = "issuing" => r \notin DryRuns BY DEF RivalInv
  <1> QED BY <1>1, <1>2, RivalFrame

\* The lookup keeps a run that may issue a UPD away from a period that has one.
LEMMA RivalBegin ==
  ASSUME TypeOK, RivalInv, NEW r \in Runs, Begin(r)
  PROVE  RivalInv'
  <1>1. pc[r] = "idle" /\ r \notin Active /\ upds' = upds BY DEF Begin, Active
  <1>2. pc' = [pc EXCEPT ![r] = IF upds # {} /\ r \notin DryRuns THEN "done" ELSE "backfilling"] BY DEF Begin, Goto
  <1>3. \A q \in Runs : q # r => pc'[q] = pc[q] BY <1>2 DEF TypeOK
  <1>4. pc'[r] \in {"done", "backfilling"} /\ (pc'[r] = "backfilling" => upds = {} \/ r \in DryRuns)
    BY <1>2 DEF TypeOK
  <1>5. run'[r].rivals = Active BY DEF Begin, NewRun, TypeOK
  <1>6. \A q \in Active : r \in run'[q].rivals /\ run[q].rivals \subseteq run'[q].rivals
    <2> SUFFICES ASSUME NEW q \in Active
                 PROVE  r \in run'[q].rivals /\ run[q].rivals \subseteq run'[q].rivals
      OBVIOUS
    <2>1. q \in Runs /\ q # r BY <1>1 DEF Active
    <2>2. run'[q] = [run[q] EXCEPT !.rivals = @ \cup {r}] BY <2>1 DEF Begin
    <2>3. run[q] \in [usd : Nat, rub : Nat, rivals : SUBSET Runs, quiet : BOOLEAN] BY <2>1 DEF TypeOK
    <2>4. run'[q].rivals = run[q].rivals \cup {r} BY <2>2, <2>3
    <2> QED BY <2>4
  <1>7. \A q \in Runs : q # r => run[q].rivals \subseteq run'[q].rivals
    <2> SUFFICES ASSUME NEW q \in Runs, q # r
                 PROVE  run[q].rivals \subseteq run'[q].rivals
      OBVIOUS
    <2>1. CASE q \in Active BY <1>6, <2>1
    <2>2. CASE q \notin Active BY <2>2 DEF Begin
    <2> QED BY <2>1, <2>2
  <1>8. \A q \in Active' : q = r \/ q \in Active BY <1>3 DEF Active
  <1>9. \A d \in upds : d.by \in Runs /\ d.by # r BY <1>1 DEF RivalInv, TypeOK
  <1>10. \A q, s \in Active' : q # s => Overlap(q, s)'
    <2> SUFFICES ASSUME NEW q \in Active', NEW s \in Active', q # s
                 PROVE  Overlap(q, s)'
      OBVIOUS
    <2>1. q \in Runs /\ s \in Runs BY DEF Active
    <2>2. CASE q # r /\ s # r BY <1>7, <1>8, <2>1, <2>2 DEF RivalInv, Overlap
    <2>3. CASE q = r BY <1>5, <1>8, <2>3 DEF Overlap
    <2>4. CASE s = r BY <1>5, <1>8, <2>4 DEF Overlap
    <2> QED BY <2>2, <2>3, <2>4
  <1>11. \A q \in Active' \ DryRuns, d \in upds' : q # d.by => Overlap(q, d.by)'
    <2> SUFFICES ASSUME NEW q \in Active' \ DryRuns, NEW d \in upds', q # d.by
                 PROVE  Overlap(q, d.by)'
      OBVIOUS
    <2>1. q # r
      <3> SUFFICES ASSUME q = r PROVE FALSE OBVIOUS
      <3>1. pc'[r] = "backfilling" BY <1>4 DEF Active
      <3> QED BY <1>1, <1>4, <3>1
    <2>2. Overlap(q, d.by) /\ q \in Runs /\ d.by \in Runs /\ d.by # r BY <1>1, <1>8, <1>9, <2>1 DEF RivalInv, Active
    <2> QED BY <1>7, <2>1, <2>2 DEF Overlap
  <1>12. \A d \in upds' : pc'[d.by] = "done" BY <1>1, <1>3, <1>9 DEF RivalInv
  <1>13. \A q \in Runs : pc'[q] = "issuing" => q \notin DryRuns BY <1>3, <1>4 DEF RivalInv
  <1>14. DuplicatesOverlap' BY <1>1, <1>7, <1>9 DEF RivalInv, DuplicatesOverlap
  <1> QED BY <1>10, <1>11, <1>12, <1>13, <1>14 DEF RivalInv

\* A new UPD is one of a run that overlapped with all that are at work.
LEMMA RivalIssue ==
  ASSUME TypeOK, RivalInv, NEW r \in Runs, IssueUpd(r)
  PROVE  RivalInv'
  <1>1. r \in Active /\ r \notin DryRuns /\ UNCHANGED run BY DEF IssueUpd, Active, RivalInv
  <1>2. pc'[r] = "done" /\ \A q \in Runs : q # r => pc'[q] = pc[q] BY DEF IssueUpd, Goto, TypeOK
  <1>3. \A q \in Active' : q \in Active /\ q # r /\ q \in Runs BY <1>2 DEF Active
  <1>4. \A d \in upds' : d \in upds \/ d.by = r BY DEF IssueUpd
  <1>5. \A d \in upds : d.by \in Runs BY DEF TypeOK
  <1>6. \A q, s \in Active' : q # s => Overlap(q, s)' BY <1>1, <1>3 DEF RivalInv, Overlap
  <1>7. \A q \in Active' \ DryRuns, d \in upds' : q # d.by => Overlap(q, d.by)'
    BY <1>1, <1>3, <1>4 DEF RivalInv, Overlap
  <1>8. \A d \in upds' : pc'[d.by] = "done" BY <1>2, <1>4, <1>5 DEF RivalInv
  <1>9. \A q \in Runs : pc'[q] = "issuing" => q \notin DryRuns BY <1>2 DEF RivalInv
  <1>10. DuplicatesOverlap' BY <1>1, <1>4 DEF RivalInv, DuplicatesOverlap, Overlap
  <1> QED BY <1>6, <1>7, <1>8, <1>9, <1>10 DEF RivalInv

LEMMA RivalStep == TypeOK /\ RivalInv /\ [Next]_vars => RivalInv'
  <1> SUFFICES ASSUME TypeOK, RivalInv, [Next]_vars PROVE RivalInv' OBVIOUS
  <1>1. ASSUME NEW x \in Records, ChargeUsage(x) \/ RefundUsage(x) PROVE RivalInv'
    <2>1. \A r \in Runs : run'[r].rivals = run[r].rivals
      <3> SUFFICES ASSUME NEW r \in Runs PROVE run'[r].rivals = run[r].rivals OBVIOUS
      <3>1. run'[r] = [run[r] EXCEPT !.quiet = FALSE] BY <1>1 DEF ChargeUsage, RefundUsage, Disturbed
      <3>2. run[r] \in [usd : Nat, rub : Nat, rivals : SUBSET Runs, quiet : BOOLEAN] BY DEF TypeOK
      <3> QED BY <3>1, <3>2
    <2>2. UNCHANGED <<pc, upds>> BY <1>1 DEF ChargeUsage, RefundUsage
    <2> QED BY <2>1, <2>2, RivalSame
  <1>2. ASSUME UNCHANGED <<pc, run, upds>> PROVE RivalInv' BY <1>2, RivalSame
  <1>3. ASSUME NEW r \in Runs, Backfill(r) \/ SumUsd(r) \/ SumRub(r) \/ RunFails(r)
        PROVE  RivalInv'
    <2>1. \A q \in Runs : run'[q].rivals = run[q].rivals
      <3>1. CASE Backfill(r) \/ RunFails(r) BY <3>1 DEF Backfill, RunFails
      <3>2. CASE SumUsd(r) BY <3>2 DEF SumUsd, TypeOK
      <3>3. CASE SumRub(r) BY <3>3 DEF SumRub, TypeOK
      <3> QED BY <1>3, <3>1, <3>2, <3>3
    <2>2. UNCHANGED upds BY <1>3 DEF Backfill, SumUsd, SumRub, RunFails
    <2>3. r \in Active /\ \A q \in Runs : q # r => pc'[q] = pc[q]
      BY <1>3 DEF Backfill, SumUsd, SumRub, RunFails, Goto, Active, TypeOK
    <2>4. pc'[r] = "issuing" => r \notin DryRuns BY <1>3 DEF Backfill, SumUsd, SumRub, RunFails, Goto, TypeOK
    <2>5. \A q \in Runs : pc'[q] \notin {"idle", "done"} => q \in Active BY <2>3 DEF Active
    <2>6. \A q \in Runs : pc[q] = "done" => pc'[q] = "done" BY <2>3 DEF Active
    <2>7. \A q \in Runs : pc'[q] = "issuing" => q \notin DryRuns BY <2>3, <2>4 DEF RivalInv
    <2> QED BY <2>1, <2>2, <2>5, <2>6, <2>7, RivalFrame
  <1>4. ASSUME NEW t \in drafting, RecordDraft(t) \/ DraftFails(t) PROVE RivalInv'
    <2>1. UNCHANGED <<pc, run>> BY <1>4 DEF RecordDraft, DraftFails
    <2>2. ASSUME NEW state, Mark(t.by, state), NEW d \in upds'
          PROVE  \E e \in upds : d.by = e.by
      <3>1. PICK e \in upds : d = IF e.by = t.by THEN [e EXCEPT !.sbis = state] ELSE e BY <2>2 DEF Mark
      <3>2. e \in [by : Runs, usd : Nat, rub : Nat, sbis : {"none", "draft", "failed"}] BY DEF TypeOK
      <3>3. d.by = e.by BY <3>1, <3>2
      <3> QED BY <3>3
    <2>3. \A d \in upds' : \E e \in upds : d.by = e.by BY <1>4, <2>2 DEF RecordDraft, DraftFails
    <2> QED BY <2>1, <2>3, RivalSame
  <1>5. ASSUME NEW d \in upds, DeleteUpd(d) PROVE RivalInv' BY <1>5, RivalSame DEF DeleteUpd
  <1>6. CASE Restart
    <2>1. UNCHANGED <<run, upds>> BY <1>6 DEF Restart
    <2>2. \A q \in Runs : pc'[q] = IF q \in Active THEN "done" ELSE pc[q] BY <1>6 DEF Restart
    <2>3. \A q \in Runs : pc'[q] \in {"idle", "done"} /\ (pc[q] = "done" => pc'[q] = "done") BY <2>2 DEF Active
    <2> QED BY <2>1, <2>3, RivalFrame
  <1>7. ASSUME NEW t \in drafting, CreateDraft(t) PROVE UNCHANGED <<pc, run, upds>> BY <1>7 DEF CreateDraft
  <1>8. RateArrives \/ UNCHANGED vars => UNCHANGED <<pc, run, upds>> BY DEF RateArrives, vars
  <1> QED
    BY <1>1, <1>2, <1>3, <1>4, <1>5, <1>6, <1>7, <1>8, RivalBegin, RivalIssue
       DEF Next, Step

------------------------
\* The sums of a quiet run stand while no record changes and the rate stays.
LEMMA QuietFrame ==
  ASSUME QuietInv, UNCHANGED records, rate => rate',
         \A r \in Runs : run'[r].quiet =>
            /\ run[r].quiet
            /\ run'[r].usd = run[r].usd /\ run'[r].rub = run[r].rub
            /\ pc'[r] = pc[r] \/ pc'[r] \in {"idle", "done"}
  PROVE  QuietInv'
  BY DEF QuietInv, In

LEMMA QuietStep == TypeOK /\ QuietInv /\ [Next]_vars => QuietInv'
  <1> SUFFICES ASSUME TypeOK, QuietInv, [Next]_vars PROVE QuietInv' OBVIOUS
  <1> DEFINE Locals == [usd : Nat, rub : Nat, rivals : SUBSET Runs, quiet : BOOLEAN]
  <1>0. \A r \in Runs : run[r] \in Locals BY DEF TypeOK
  <1>1. ASSUME NEW x \in Records, ChargeUsage(x) \/ RefundUsage(x) PROVE QuietInv'
    <2>1. ASSUME NEW r \in Runs PROVE ~run'[r].quiet
      <3>1. run'[r] = [run[r] EXCEPT !.quiet = FALSE] BY <1>1 DEF ChargeUsage, RefundUsage, Disturbed
      <3> QED BY <1>0, <3>1
    <2> QED BY <2>1 DEF QuietInv
  <1>2. ASSUME UNCHANGED <<records, pc, run>>, rate => rate' PROVE QuietInv' BY <1>2, QuietFrame
  <1>3. ASSUME NEW r \in Runs, Begin(r) PROVE QuietInv'
    <2>1. UNCHANGED <<rate, records>> /\ pc'[r] \in {"done", "backfilling"} BY <1>3 DEF Begin, Goto, TypeOK
    <2>2. run'[r].quiet = rate BY <1>3 DEF Begin, NewRun
    <2>3. ASSUME NEW q \in Runs, q # r
          PROVE  /\ run'[q].quiet = run[q].quiet /\ pc'[q] = pc[q]
                 /\ run'[q].usd = run[q].usd /\ run'[q].rub = run[q].rub
      <3>1. run'[q] = run[q] \/ run'[q] = [run[q] EXCEPT !.rivals = @ \cup {r}] BY <1>3, <2>3 DEF Begin
      <3>2. pc'[q] = pc[q] BY <1>3, <2>3 DEF Begin, Goto, TypeOK
      <3> QED BY <1>0, <3>1, <3>2
    <2>4. In("charged")' = In("charged") /\ In("snapped")' = In("snapped") BY <2>1 DEF In
    <2>5. ASSUME NEW q \in Runs, q # r, run'[q].quiet
          PROVE  /\ pc'[q] \notin {"idle", "done"} => rate'
                 /\ pc'[q] \in {"summing usd", "summing rub", "issuing"} => In("charged")' = {}
                 /\ pc'[q] \in {"summing rub", "issuing"}
                      => run'[q].usd = Cardinality(In("snapped")')
                 /\ pc'[q] = "issuing" => run'[q].rub = Cardinality(In("snapped")')
      BY <2>1, <2>3, <2>4, <2>5 DEF QuietInv
    <2> QED BY <2>1, <2>2, <2>5 DEF QuietInv
  <1>4. ASSUME NEW r \in Runs, Backfill(r) PROVE QuietInv'
    <2>1. UNCHANGED <<rate, run>> /\ pc[r] = "backfilling" /\ pc'[r] = "summing usd"
      BY <1>4 DEF Backfill, Goto, TypeOK
    <2>2. \A q \in Runs : q # r => pc'[q] = pc[q] BY <1>4 DEF Backfill, Goto, TypeOK
    <2>3. records' = [x \in Records |->
                        IF rate /\ records[x] = "charged" THEN "snapped" ELSE records[x]]
      BY <1>4 DEF Backfill
    <2>4. rate => In("charged")' = {} BY <2>3 DEF In, TypeOK
    <2>5. In("charged") = {} => In("charged")' = {} /\ In("snapped")' = In("snapped") BY <2>3 DEF In, TypeOK
    <2>6. ASSUME NEW q \in Runs, q # r, run'[q].quiet
          PROVE  /\ pc'[q] \notin {"idle", "done"} => rate'
                 /\ pc'[q] \in {"summing usd", "summing rub", "issuing"} => In("charged")' = {}
                 /\ pc'[q] \in {"summing rub", "issuing"}
                      => run'[q].usd = Cardinality(In("snapped")')
                 /\ pc'[q] = "issuing" => run'[q].rub = Cardinality(In("snapped")')
      BY <2>1, <2>2, <2>5, <2>6 DEF QuietInv
    <2>7. run'[r].quiet => rate /\ In("charged")' = {} BY <2>1, <2>4 DEF QuietInv
    <2> QED BY <2>1, <2>6, <2>7 DEF QuietInv
  <1>5. ASSUME NEW r \in Runs, SumUsd(r) PROVE QuietInv'
    <2>1. UNCHANGED <<rate, records>> /\ pc[r] = "summing usd" BY <1>5 DEF SumUsd
    <2>2. pc'[r] \in {"done", "summing rub"} /\ \A q \in Runs : q # r => pc'[q] = pc[q]
      BY <1>5 DEF SumUsd, Goto, TypeOK
    <2>3. \A q \in Runs : q # r => run'[q] = run[q] BY <1>5 DEF SumUsd, TypeOK
    <2>4. /\ run'[r].quiet = run[r].quiet
          /\ run'[r].usd = Cardinality(In("charged") \cup In("snapped"))
      BY <1>0, <1>5 DEF SumUsd, TypeOK
    <2>5. run[r].quiet => run'[r].usd = Cardinality(In("snapped"))
      <3>1. run[r].quiet => In("charged") = {} BY <2>1 DEF QuietInv
      <3>2. In("charged") = {} => In("charged") \cup In("snapped") = In("snapped") OBVIOUS
      <3> QED BY <2>4, <3>1, <3>2
    <2>6. ASSUME NEW q \in Runs, q # r, run'[q].quiet
          PROVE  /\ pc'[q] \notin {"idle", "done"} => rate'
                 /\ pc'[q] \in {"summing usd", "summing rub", "issuing"} => In("charged")' = {}
                 /\ pc'[q] \in {"summing rub", "issuing"}
                      => run'[q].usd = Cardinality(In("snapped")')
                 /\ pc'[q] = "issuing" => run'[q].rub = Cardinality(In("snapped")')
      BY <2>1, <2>2, <2>3, <2>6 DEF QuietInv, In
    <2>7. run'[r].quiet => rate /\ In("charged")' = {} /\ run'[r].usd = Cardinality(In("snapped")')
      BY <2>1, <2>4, <2>5 DEF QuietInv, In
    <2> QED BY <2>1, <2>2, <2>6, <2>7 DEF QuietInv
  <1>6. ASSUME NEW r \in Runs, SumRub(r) PROVE QuietInv'
    <2>1. UNCHANGED <<rate, records>> /\ pc[r] = "summing rub" BY <1>6 DEF SumRub
    <2>2. pc'[r] \in {"done", "issuing"} /\ \A q \in Runs : q # r => pc'[q] = pc[q] BY <1>6 DEF SumRub, Goto, TypeOK
    <2>3. \A q \in Runs : q # r => run'[q] = run[q] BY <1>6 DEF SumRub, TypeOK
    <2>4. /\ run'[r].quiet = run[r].quiet /\ run'[r].usd = run[r].usd
          /\ run'[r].rub = Cardinality(In("snapped"))
      BY <1>0, <1>6 DEF SumRub, TypeOK
    <2>5. ASSUME NEW q \in Runs, q # r, run'[q].quiet
          PROVE  /\ pc'[q] \notin {"idle", "done"} => rate'
                 /\ pc'[q] \in {"summing usd", "summing rub", "issuing"} => In("charged")' = {}
                 /\ pc'[q] \in {"summing rub", "issuing"}
                      => run'[q].usd = Cardinality(In("snapped")')
                 /\ pc'[q] = "issuing" => run'[q].rub = Cardinality(In("snapped")')
      BY <2>1, <2>2, <2>3, <2>5 DEF QuietInv, In
    <2>6. run'[r].quiet => rate /\ In("charged")' = {}
                             /\ run'[r].usd = Cardinality(In("snapped")')
                             /\ run'[r].rub = Cardinality(In("snapped")')
      BY <2>1, <2>4 DEF QuietInv, In
    <2> QED BY <2>1, <2>2, <2>5, <2>6 DEF QuietInv
  <1>7. ASSUME NEW r \in Runs, IssueUpd(r) \/ RunFails(r) PROVE QuietInv'
    <2>1. UNCHANGED <<rate, records, run>> BY <1>7 DEF IssueUpd, RunFails
    <2>2. \A q \in Runs : pc'[q] = pc[q] \/ pc'[q] = "done" BY <1>7 DEF IssueUpd, RunFails, Goto, TypeOK
    <2> QED BY <2>1, <2>2, QuietFrame
  <1>8. CASE Restart
    <2>1. UNCHANGED <<rate, records, run>> BY <1>8 DEF Restart
    <2>2. \A q \in Runs : pc'[q] = pc[q] \/ pc'[q] = "done" BY <1>8 DEF Restart
    <2> QED BY <2>1, <2>2, QuietFrame
  <1>9. ASSUME NEW t \in drafting, CreateDraft(t) \/ RecordDraft(t) \/ DraftFails(t)
        PROVE  UNCHANGED <<records, pc, run, rate>>
    BY <1>9 DEF CreateDraft, RecordDraft, DraftFails
  <1>10. ASSUME NEW d \in upds, DeleteUpd(d)
         PROVE  UNCHANGED <<records, pc, run, rate>>
    BY <1>10 DEF DeleteUpd
  <1>11. UNCHANGED vars => UNCHANGED <<records, pc, run, rate>> BY DEF vars
  <1>12. RateArrives => UNCHANGED <<records, pc, run>> /\ rate' BY DEF RateArrives
  <1> QED
    BY <1>1, <1>2, <1>3, <1>4, <1>5, <1>6, <1>7, <1>8, <1>9, <1>10, <1>11, <1>12
       DEF Next, Step

\* A UPD keeps the sums it was issued with, and the run behind it stays over.
LEMMA RoublesFrame ==
  ASSUME BilledInRoubles,
         \A d \in upds' : \E e \in upds :
            /\ d.by = e.by /\ d.usd = e.usd /\ d.rub = e.rub
            /\ run'[e.by].quiet => run[e.by].quiet
  PROVE  BilledInRoubles'
  BY DEF BilledInRoubles

LEMMA RoublesStep ==
  TypeOK /\ RivalInv /\ QuietInv /\ BilledInRoubles /\ [Next]_vars => BilledInRoubles'
  <1> SUFFICES ASSUME TypeOK, RivalInv, QuietInv, BilledInRoubles, [Next]_vars
               PROVE  BilledInRoubles'
    OBVIOUS
  <1>0. \A d \in upds : d.by \in Runs /\ pc[d.by] = "done" BY DEF TypeOK, RivalInv
  <1>1. ASSUME UNCHANGED upds, \A q \in Runs : pc[q] = "done" /\ run'[q].quiet => run[q].quiet
        PROVE  BilledInRoubles'
    BY <1>0, <1>1, RoublesFrame
  <1>2. ASSUME NEW x \in Records, ChargeUsage(x) \/ RefundUsage(x) PROVE BilledInRoubles'
    <2>1. UNCHANGED upds BY <1>2 DEF ChargeUsage, RefundUsage
    <2>2. ASSUME NEW q \in Runs PROVE ~run'[q].quiet
      <3>1. run'[q] = [run[q] EXCEPT !.quiet = FALSE] BY <1>2 DEF ChargeUsage, RefundUsage, Disturbed
      <3>2. run[q] \in [usd : Nat, rub : Nat, rivals : SUBSET Runs, quiet : BOOLEAN] BY DEF TypeOK
      <3> QED BY <3>1, <3>2
    <2> QED BY <1>1, <2>1, <2>2
  <1>3. ASSUME NEW r \in Runs, Begin(r) PROVE BilledInRoubles'
    <2>1. UNCHANGED upds /\ pc[r] = "idle" BY <1>3 DEF Begin
    <2>2. ASSUME NEW q \in Runs, pc[q] = "done" PROVE run'[q] = run[q] BY <1>3, <2>1, <2>2 DEF Begin, Active
    <2> QED BY <1>1, <2>1, <2>2
  <1>4. ASSUME NEW r \in Runs, Backfill(r) \/ SumUsd(r) \/ SumRub(r) \/ RunFails(r)
        PROVE  BilledInRoubles'
    <2>1. UNCHANGED upds /\ pc[r] # "done" BY <1>4 DEF Backfill, SumUsd, SumRub, RunFails, Active
    <2>2. \A q \in Runs : q # r => run'[q] = run[q] BY <1>4 DEF Backfill, SumUsd, SumRub, RunFails, TypeOK
    <2> QED BY <1>1, <2>1, <2>2
  <1>5. ASSUME NEW r \in Runs, IssueUpd(r) PROVE BilledInRoubles'
    <2>1. run[r].quiet => run[r].rub = run[r].usd BY <1>5 DEF IssueUpd, QuietInv
    <2> DEFINE upd == [by |-> r, usd |-> run[r].usd, rub |-> run[r].rub, sbis |-> "none"]
    <2>2. upds' = upds \cup {upd} /\ UNCHANGED run BY <1>5 DEF IssueUpd
    <2>3. run[upd.by].quiet => upd.rub = upd.usd BY <2>1
    <2> HIDE DEF upd
    <2> QED BY <2>2, <2>3 DEF BilledInRoubles
  <1>6. ASSUME NEW t \in drafting, RecordDraft(t) \/ DraftFails(t) PROVE BilledInRoubles'
    <2>1. UNCHANGED run BY <1>6 DEF RecordDraft, DraftFails
    <2>2. ASSUME NEW state, Mark(t.by, state), NEW d \in upds'
          PROVE  \E e \in upds : d.by = e.by /\ d.usd = e.usd /\ d.rub = e.rub
      <3>1. PICK e \in upds : d = IF e.by = t.by THEN [e EXCEPT !.sbis = state] ELSE e BY <2>2 DEF Mark
      <3>2. e \in [by : Runs, usd : Nat, rub : Nat, sbis : {"none", "draft", "failed"}] BY DEF TypeOK
      <3>3. d.by = e.by /\ d.usd = e.usd /\ d.rub = e.rub BY <3>1, <3>2
      <3> QED BY <3>3
    <2>3. \A d \in upds' : \E e \in upds : d.by = e.by /\ d.usd = e.usd /\ d.rub = e.rub
      BY <1>6, <2>2 DEF RecordDraft, DraftFails
    <2> QED BY <2>1, <2>3, RoublesFrame
  <1>7. ASSUME NEW d \in upds, DeleteUpd(d) PROVE BilledInRoubles' BY <1>7 DEF DeleteUpd, BilledInRoubles
  <1>8. ASSUME NEW t \in drafting, CreateDraft(t) PROVE UNCHANGED <<run, upds>> BY <1>8 DEF CreateDraft
  <1>9. RateArrives \/ Restart \/ UNCHANGED vars => UNCHANGED <<run, upds>> BY DEF RateArrives, Restart, vars
  <1>10. UNCHANGED <<run, upds>> => BilledInRoubles' BY DEF BilledInRoubles
  <1> QED BY <1>2, <1>3, <1>4, <1>5, <1>6, <1>7, <1>8, <1>9, <1>10 DEF Next, Step

------------------------
LEMMA InitInv == Init => TypeOK /\ RivalInv /\ QuietInv /\ BilledInRoubles
  <1> SUFFICES ASSUME Init PROVE TypeOK /\ RivalInv /\ QuietInv /\ BilledInRoubles OBVIOUS
  <1>1. TypeOK /\ QuietInv /\ BilledInRoubles BY DEF Init, NewRun, TypeOK, QuietInv, BilledInRoubles
  <1>2. RivalInv BY DEF Init, RivalInv, Active, DuplicatesOverlap
  <1> QED BY <1>1, <1>2

\* closeForOrganization issues a second UPD of a period only when another run was under
\* way between its lookup and its insert, for any number of runs, restarts and deletions.
THEOREM DuplicatesOnlyOverlap == Spec => []ClosingSound
  <1> DEFINE IInv == TypeOK /\ RivalInv
  <1>1. Init => IInv BY InitInv
  <1>2. IInv /\ [Next]_vars => IInv' BY TypeStep, RivalStep
  <1>3. IInv => ClosingSound BY DEF ClosingSound, RivalInv
  <1> QED BY <1>1, <1>2, <1>3, PTL DEF Spec

\* backfillMissingForPeriod leaves nothing out of the sum in RUB of a closing during which
\* no record came or went and a rate was there, whatever other runs do.
THEOREM ClosingsBillRoubles == Spec => []BilledInRoubles
  <1> DEFINE IInv == TypeOK /\ RivalInv /\ QuietInv /\ BilledInRoubles
  <1>1. Init => IInv BY InitInv
  <1>2. IInv /\ [Next]_vars => IInv' BY TypeStep, RivalStep, QuietStep, RoublesStep
  <1>3. IInv => BilledInRoubles OBVIOUS
  <1> QED BY <1>1, <1>2, <1>3, PTL DEF Spec
=============================================================================
