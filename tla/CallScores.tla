----------------------------- MODULE CallScores -----------------------------
(***************************************************************************)
(* What the analysis of a recording leaves behind, and what is read of it: *)
(* the CDR and the metrics document of the call, the rows of               *)
(* operator_metric_values and operator_call_tags written beside the        *)
(* document, the corrections of a supervisor, and the dashboard, the lists *)
(* and the scorecards computed from one copy or the other.                 *)
(*                                                                         *)
(* A process (the first analysis of a call, a regeneration, an edit of its *)
(* tags, a move to another project, a correction) awaits the database      *)
(* between two steps.  Charging and the record's status are the matter of  *)
(* OperatorJobs.  A metrics document is a verdict: whether the call was a  *)
(* success, one score, whether the transcript was of low quality, and the  *)
(* themes the model chose.                                                 *)
(***************************************************************************)
EXTENDS Integers, Sequences, SequencesExt, FiniteSets, FiniteSetsExt

CONSTANTS Calls, Projects, Tags, Operators,
          Home,        \* [Calls -> Projects]: operator_analytics.projectId
          Taken,       \* [Calls -> Operators]: AiCdr.assistantName
          Taxonomy,    \* [Projects -> SUBSET Tags]: callTaxonomy
          Verdicts,    \* bound: what the model may answer
          Regens, Edits, Moves, Reviews,   \* requests
          About,       \* [requests -> Calls]: the call each request is about
          Casts,       \* bound: sets of calls and requests that occur together
          Cap,         \* MAX_TOPIC_TAGS, and the slice of mergeTagIds
          MaxFaults    \* bound: statements that fail

VARIABLES wish,      \* the tags an edit asks for
          cdr,       \* AiCdr.projectId, NoProject without a row
          blob,      \* AiAnalytics.metrics, NoBlob without a row
          values,    \* the batches of operator_metric_values rows of a call
          tagRows,   \* operator_call_tags: source and project by call and tag
          fixes,     \* operator_metric_overrides: the reviews kept for a call
          pc, held,
          wanted,    \* history: the tags of the last edit that was completed
          troubled,  \* history: calls with a failed statement or an overlap
          moved,     \* history: calls moved after their rows were written
          copied,    \* history: calls completed from a duplicate and not tagged since
          faults

vars == <<wish, cdr, blob, values, tagRows, fixes, pc, held, wanted, troubled, moved, copied, faults>>

-----------------------------------------------------------------------------
NoProject == "none"
NoBlob == [success |-> FALSE, score |-> -1, low |-> FALSE, tags |-> {}]
NoTag  == [source |-> "none", project |-> NoProject]
Row(source, project) == [source |-> source, project |-> project]

Jobs      == Calls \cup Regens                 \* a first analysis is named after its call
Requests  == Regens \cup Edits \cup Moves \cup Reviews
Processes == Jobs \cup Requests
Of(q) == IF q \in Calls THEN q ELSE About[q]

Goto(q, label) == pc' = [pc EXCEPT ![q] = label]
Busy(c) == {q \in Processes : pc[q] \notin {"idle", "done"} /\ Of(q) = c}
TagsOf(c) == {t \in Tags : tagRows[c][t].source # "none"}
ManualOf(c) == {t \in Tags : tagRows[c][t].source = "manual"}

\* A process that starts while another is at work on the same call.
Enters(q) == troubled' = IF Busy(Of(q)) = {} THEN troubled ELSE troubled \cup {Of(q)}

Init == /\ \E cast \in Casts : pc = [q \in Processes |-> IF q \in cast THEN "idle" ELSE "done"]
        /\ wish = [e \in Edits |-> {}]
        /\ cdr = [c \in Calls |-> NoProject]
        /\ blob = [c \in Calls |-> NoBlob]
        /\ values = [c \in Calls |-> <<>>]
        /\ tagRows = [c \in Calls |-> [t \in Tags |-> NoTag]]
        /\ fixes = [c \in Calls |-> "none"]
        /\ held = [q \in Processes |-> NoBlob]
        /\ wanted = [c \in Calls |-> {}]
        /\ troubled = {} /\ moved = {} /\ copied = {} /\ faults = 0

-----------------------------------------------------------------------------
(* The tail of an analysis: the document, the rows, the tags.              *)

\* The first analysis inserts the CDR once the model has answered.
CreateCdr(c) ==
  /\ c \in Calls /\ pc[c] = "idle"
  /\ \E v \in Verdicts :
        /\ v.tags \subseteq Taxonomy[Home[c]]
        /\ held' = [held EXCEPT ![c] = v]
  /\ cdr' = [cdr EXCEPT ![c] = Home[c]]
  /\ Enters(c)
  /\ Goto(c, "document")
  /\ UNCHANGED <<wish, blob, values, tagRows, fixes, wanted, moved, copied, faults>>

\* completeFromDuplicate: the same audio was analysed before in the project; the document of
\* that call is copied, with its tags, and the rows of its values; no row of its tags is.
CopyDuplicate(c) ==
  /\ c \in Calls /\ pc[c] = "idle"
  /\ \E d \in Calls \ {c} :
        /\ Home[d] = Home[c] /\ cdr[d] # NoProject /\ blob[d] # NoBlob
        /\ held' = [held EXCEPT ![c] = blob[d]]
  /\ cdr' = [cdr EXCEPT ![c] = Home[c]]
  /\ copied' = copied \cup {c}
  /\ Enters(c)
  /\ Goto(c, "document")
  /\ UNCHANGED <<wish, blob, values, tagRows, fixes, wanted, moved, faults>>

\* A regeneration is refused without a CDR; it deletes the automatic tags first.
\* Mutant: it deletes every tag of the call.
DeleteAll(r) ==
  /\ r \in Regens /\ pc[r] = "idle" /\ cdr[Of(r)] # NoProject
  /\ Enters(r)
  /\ tagRows' = [tagRows EXCEPT ![Of(r)] = [t \in Tags |-> NoTag]]
  /\ Goto(r, "manual")
  /\ UNCHANGED <<wish, cdr, blob, values, fixes, held, wanted, moved, copied, faults>>

DeleteAuto(r) ==
  /\ r \in Regens /\ pc[r] = "idle" /\ cdr[Of(r)] # NoProject
  /\ Enters(r)
  /\ tagRows' = [tagRows EXCEPT ![Of(r)] =
                   [t \in Tags |-> IF @[t].source = "auto" THEN NoTag ELSE @[t]]]
  /\ Goto(r, "manual")
  /\ UNCHANGED <<wish, cdr, blob, values, fixes, held, wanted, moved, copied, faults>>

LoadManual(r) ==
  /\ r \in Regens /\ pc[r] = "manual"
  /\ held' = [held EXCEPT ![r].tags = ManualOf(Of(r))]
  /\ Goto(r, "model")
  /\ UNCHANGED <<wish, cdr, blob, values, tagRows, fixes, wanted, troubled, moved, copied, faults>>

\* mergeTagIds: the model's themes first, the manual ones after them, ten in all.
Merged(auto, manual) ==
  {auto \cup kept : kept \in {s \in SUBSET (manual \ auto) :
      Cardinality(s) = Min({Cardinality(manual \ auto), Cap - Cardinality(auto)})}}

\* The transcript is fetched and scored again, with the taxonomy of the project
\* the recording was uploaded to.
Rescore(r) ==
  /\ r \in Regens /\ pc[r] = "model"
  /\ \E v \in Verdicts : \E all \in Merged(v.tags, held[r].tags) :
        /\ v.tags \subseteq Taxonomy[Home[Of(r)]]
        /\ blob' = [blob EXCEPT ![Of(r)] = [v EXCEPT !.tags = all]]
        /\ held' = [held EXCEPT ![r] = v]
  /\ Goto(r, "clear")
  /\ UNCHANGED <<wish, cdr, values, tagRows, fixes, wanted, troubled, moved, copied, faults>>

\* A download, a transcription or an answer that fails leaves the old document.
RescoreFails(r) ==
  /\ r \in Regens /\ pc[r] = "model" /\ faults < MaxFaults
  /\ faults' = faults + 1
  /\ troubled' = troubled \cup {Of(r)}
  /\ Goto(r, "done")
  /\ UNCHANGED <<wish, cdr, blob, values, tagRows, fixes, held, wanted, moved, copied>>

CreateDocument(c) ==
  /\ c \in Calls /\ pc[c] = "document"
  /\ blob' = [blob EXCEPT ![c] = held[c]]
  /\ Goto(c, "clear")
  /\ UNCHANGED <<wish, cdr, values, tagRows, fixes, held, wanted, troubled, moved, copied, faults>>

\* writeMetricValues: the rows of the call are deleted, then inserted, in two statements.
\* Mutant: an earlier version's rows stay.
KeepValues(j) ==
  /\ j \in Jobs /\ pc[j] = "clear"
  /\ Goto(j, "insert")
  /\ UNCHANGED <<wish, cdr, blob, values, tagRows, fixes, held, wanted, troubled, moved, copied, faults>>

ClearValues(j) ==
  /\ j \in Jobs /\ pc[j] = "clear"
  /\ values' = [values EXCEPT ![Of(j)] = <<>>]
  /\ Goto(j, "insert")
  /\ UNCHANGED <<wish, cdr, blob, tagRows, fixes, held, wanted, troubled, moved, copied, faults>>

\* What comes after the rows; a call completed from a duplicate gets no tags.
Tagging(j) == Goto(j, IF j \in copied THEN "done" ELSE "tags")

InsertValues(j) ==
  /\ j \in Jobs /\ pc[j] = "insert"
  /\ values' = [values EXCEPT ![Of(j)] =
                  Append(@, [success |-> held[j].success, score |-> held[j].score])]
  /\ Tagging(j)
  /\ UNCHANGED <<wish, cdr, blob, tagRows, fixes, held, wanted, troubled, moved, copied, faults>>

\* Both copies are best effort: a statement that fails is logged and the job goes on.
ValuesFail(j) ==
  /\ j \in Jobs /\ pc[j] \in {"clear", "insert"} /\ faults < MaxFaults
  /\ faults' = faults + 1
  /\ troubled' = troubled \cup {Of(j)}
  /\ Tagging(j)
  /\ UNCHANGED <<wish, cdr, blob, values, tagRows, fixes, held, wanted, moved, copied>>

\* writeAutoCallTags: rows that exist are left as they are (ignoreDuplicates).
WriteAuto(j) ==
  /\ j \in Jobs /\ pc[j] = "tags"
  /\ tagRows' = [tagRows EXCEPT ![Of(j)] =
                   [t \in Tags |-> IF t \in held[j].tags /\ @[t] = NoTag
                                   THEN Row("auto", Home[Of(j)]) ELSE @[t]]]
  /\ moved' = IF held[j].tags # {} /\ cdr[Of(j)] # Home[Of(j)] THEN moved \cup {Of(j)} ELSE moved
  /\ copied' = copied \ {Of(j)}
  /\ Goto(j, "done")
  /\ UNCHANGED <<wish, cdr, blob, values, fixes, held, wanted, troubled, faults>>

-----------------------------------------------------------------------------
(* updateCallTags.                                                         *)

\* The taxonomy is that of the project the call is in now; without one any tag
\* goes.  Rows of other tags are deleted in one statement.
DropOthers(e) ==
  /\ e \in Edits /\ pc[e] = "idle" /\ cdr[Of(e)] # NoProject
  /\ \E tags \in SUBSET Tags :
        /\ Cardinality(tags) <= Cap
        /\ Taxonomy[cdr[Of(e)]] = {} \/ tags \subseteq Taxonomy[cdr[Of(e)]]
        /\ wish' = [wish EXCEPT ![e] = tags]
        /\ tagRows' = [tagRows EXCEPT ![Of(e)] = [t \in Tags |-> IF t \in tags THEN @[t] ELSE NoTag]]
        /\ held' = [held EXCEPT ![e] = [left |-> tags, found |-> FALSE]]
        /\ Goto(e, IF tags = {} THEN "read" ELSE "find")
  /\ Enters(e)
  /\ UNCHANGED <<cdr, blob, values, fixes, wanted, moved, copied, faults>>

\* The next tag of the list.
Next1(e) == CHOOSE t \in held[e].left : TRUE

FindTag(e) ==
  /\ e \in Edits /\ pc[e] = "find"
  /\ held' = [held EXCEPT ![e].found = tagRows[Of(e)][Next1(e)] # NoTag]
  /\ Goto(e, "save")
  /\ UNCHANGED <<wish, cdr, blob, values, tagRows, fixes, wanted, troubled, moved, copied, faults>>

\* A row that was found becomes manual, if it is still there; one that was not is
\* inserted, and the unique index refuses it when another got there first: the
\* request ends with the tags written so far.
SaveTag(e) ==
  LET c == Of(e)  t == Next1(e)  old == tagRows[c][t]
      new == IF held[e].found THEN Row("manual", old.project) ELSE Row("manual", cdr[c])
      left == held[e].left \ {t}
  IN  /\ e \in Edits /\ pc[e] = "save"
      /\ tagRows' = IF held[e].found = (old # NoTag) THEN [tagRows EXCEPT ![c][t] = new] ELSE tagRows
      /\ held' = [held EXCEPT ![e].left = left]
      /\ Goto(e, IF ~held[e].found /\ old # NoTag THEN "done" ELSE IF left = {} THEN "read" ELSE "find")
      /\ UNCHANGED <<wish, cdr, blob, values, fixes, wanted, troubled, moved, copied, faults>>

\* The document is read, and written back whole with the new snapshot.
ReadDocument(e) ==
  /\ e \in Edits /\ pc[e] = "read"
  /\ held' = [held EXCEPT ![e] = blob[Of(e)]]
  /\ Goto(e, IF blob[Of(e)] = NoBlob THEN "done" ELSE "write")
  /\ wanted' = IF blob[Of(e)] = NoBlob THEN [wanted EXCEPT ![Of(e)] = wish[e]] ELSE wanted
  /\ copied' = IF blob[Of(e)] = NoBlob THEN copied \ {Of(e)} ELSE copied
  /\ UNCHANGED <<wish, cdr, blob, values, tagRows, fixes, troubled, moved, faults>>

\* Mutant: the snapshot only grows.
AddSnapshot(e) ==
  /\ e \in Edits /\ pc[e] = "write"
  /\ blob' = [blob EXCEPT ![Of(e)] = [held[e] EXCEPT !.tags = @ \cup wish[e]]]
  /\ wanted' = [wanted EXCEPT ![Of(e)] = wish[e]]
  /\ copied' = copied \ {Of(e)}
  /\ Goto(e, "done")
  /\ UNCHANGED <<wish, cdr, values, tagRows, fixes, held, troubled, moved, faults>>

WriteSnapshot(e) ==
  /\ e \in Edits /\ pc[e] = "write"
  /\ blob' = [blob EXCEPT ![Of(e)] = [held[e] EXCEPT !.tags = wish[e]]]
  /\ wanted' = [wanted EXCEPT ![Of(e)] = wish[e]]
  /\ copied' = copied \ {Of(e)}
  /\ Goto(e, "done")
  /\ UNCHANGED <<wish, cdr, values, tagRows, fixes, held, troubled, moved, faults>>

\* bulkMoveCdrs: only the CDR moves; the rows of its tags keep their project.
Move(m) ==
  /\ m \in Moves /\ pc[m] = "idle" /\ cdr[Of(m)] # NoProject
  /\ \E p \in Projects : cdr' = [cdr EXCEPT ![Of(m)] = p]
  /\ moved' = IF TagsOf(Of(m)) # {} \/ Busy(Of(m)) # {} THEN moved \cup {Of(m)} ELSE moved
  /\ Goto(m, "done")
  /\ UNCHANGED <<wish, blob, values, tagRows, fixes, held, wanted, troubled, copied, faults>>

\* saveMetricOverrides: looked up, then updated or inserted under a unique index.
FindFix(v) ==
  /\ v \in Reviews /\ pc[v] = "idle" /\ cdr[Of(v)] # NoProject
  /\ held' = [held EXCEPT ![v] = [left |-> {}, found |-> fixes[Of(v)] # "none"]]
  /\ Goto(v, "fix")
  /\ UNCHANGED <<wish, cdr, blob, values, tagRows, fixes, wanted, troubled, moved, copied, faults>>

SaveFix(v) ==
  /\ v \in Reviews /\ pc[v] = "fix"
  /\ fixes' = IF held[v].found = (fixes[Of(v)] # "none") THEN [fixes EXCEPT ![Of(v)] = v] ELSE fixes
  /\ Goto(v, "done")
  /\ UNCHANGED <<wish, cdr, blob, values, tagRows, held, wanted, troubled, moved, copied, faults>>

DeleteFix(v) ==
  /\ v \in Reviews /\ pc[v] = "idle" /\ cdr[Of(v)] # NoProject
  /\ fixes' = [fixes EXCEPT ![Of(v)] = "none"]
  /\ Goto(v, "done")
  /\ UNCHANGED <<wish, cdr, blob, values, tagRows, held, wanted, troubled, moved, copied, faults>>

Next ==
  \/ \E c \in Calls : CreateCdr(c) \/ CopyDuplicate(c) \/ CreateDocument(c)
  \/ \E r \in Regens : DeleteAuto(r) \/ LoadManual(r) \/ Rescore(r) \/ RescoreFails(r)
  \/ \E j \in Jobs : ClearValues(j) \/ InsertValues(j) \/ ValuesFail(j) \/ WriteAuto(j)
  \/ \E e \in Edits : DropOthers(e) \/ FindTag(e) \/ SaveTag(e) \/ ReadDocument(e) \/ WriteSnapshot(e)
  \/ \E m \in Moves : Move(m)
  \/ \E v \in Reviews : FindFix(v) \/ SaveFix(v) \/ DeleteFix(v)

Spec == Init /\ [][Next]_vars

-----------------------------------------------------------------------------
(* What is read.  A page of calls is the set of those of a project.        *)

InProject(p) == {c \in Calls : cdr[c] = p}
Scored(s)    == {c \in s : blob[c] # NoBlob}
Low(s)       == {c \in Scored(s) : blob[c].low}
Sum(f(_), s) == FoldSet(LAMBDA c, n : f(c) + n, 0, s)
Count(c, b)  == Cardinality({i \in DOMAIN values[c] : values[c][i].success = b})

\* aggregateMetricsFromSql: over the rows, without the calls of low quality once
\* countLowQualityCdrs has found one.
Counted(p)    == IF Low(InProject(p)) = {} THEN InProject(p) ELSE Scored(InProject(p)) \ Low(InProject(p))
SqlSuccess(p) == Sum(LAMBDA c : Count(c, TRUE), Counted(p))
SqlCalls(p)   == Cardinality({c \in Counted(p) : values[c] # <<>>})
SqlScore(p)   == Sum(LAMBDA c : FoldSeq(LAMBDA row, n : row.score + n, 0, values[c]), Counted(p))

\* getDashboard: the document's copy, for the charts and when there are no rows.
Derived(p)    == LET eligible == InProject(p) \ Low(InProject(p))
                 IN  IF eligible # {} THEN eligible ELSE InProject(p)
DocSuccess(s) == Cardinality({c \in Scored(s) : blob[c].success})
DocScore(s)   == Sum(LAMBDA c : blob[c].score, Scored(s))

\* buildAgentScorecards: calls are counted without a document too, scores are not.
Scorecard(p, o) == LET s == {c \in Derived(p) : Taken[c] = o}
                   IN  [calls |-> Cardinality(s), scored |-> Cardinality(Scored(s)),
                        success |-> DocSuccess(s), score |-> DocScore(s)]

\* buildTagStats: by the tags of the document.
TagStat(p, t) == LET s == {c \in Scored(Derived(p)) : t \in blob[c].tags}
                 IN  [calls |-> Cardinality(s), success |-> DocSuccess(s), score |-> DocScore(s)]

\* buildOperatorEvidence: only calls with a document, none of low quality.
Evidence(p, o) == LET s == Scored({c \in InProject(p) \ Low(InProject(p)) : Taken[c] = o})
                  IN  [scored |-> Cardinality(s), score |-> DocScore(s)]

\* findChannelIdsForDistribution: the calls behind a segment of the donut, from the
\* rows, and from the documents when no row matches.
Drilldown(p, b) ==
  LET byRows == {c \in InProject(p) : Count(c, b) > 0}
  IN  IF byRows # {} THEN byRows ELSE {c \in Scored(InProject(p)) : blob[c].success = b}

\* getCdrs with a tag: the rows of the tag in the project, then the calls in it.
ByTag(p, t) == {c \in InProject(p) : tagRows[c][t] # NoTag /\ tagRows[c][t].project = p}

-----------------------------------------------------------------------------
Quiet(c) == Busy(c) = {} /\ c \notin troubled

TypeOK ==
  /\ cdr \in [Calls -> Projects \cup {NoProject}]
  /\ \A c \in Calls : blob[c] = NoBlob \/ (blob[c].tags \subseteq Tags /\ blob[c].score >= 0)
  /\ \A c \in Calls : Len(values[c]) <= 1 + Cardinality(Regens)
  /\ \A c \in Calls, t \in Tags : tagRows[c][t].source \in {"none", "auto", "manual"}
  /\ fixes \in [Calls -> Reviews \cup {"none"}]
  /\ faults \in 0 .. MaxFaults

\* The two copies of a call's tags agree once nothing is at work on it, and the
\* corrections made by hand outlive every new analysis.  Only requests that overlap
\* on a call, or a statement that fails, drive them apart; a call with more themes
\* than the cap shows some of its rows, and one completed from a duplicate shows the tags of
\* the other and has no row, until it is analysed again or tagged.  A list by tag then finds
\* the calls of a project that were not moved into it.
TagsAgree ==
  \A c \in Calls : Quiet(c) =>
    /\ IF c \in copied THEN TagsOf(c) = {}
       ELSE /\ blob[c].tags \subseteq TagsOf(c)
            /\ Cardinality(TagsOf(c)) <= Cap => blob[c].tags = TagsOf(c)
    /\ ManualOf(c) = wanted[c]
    /\ c \notin moved => \A t \in TagsOf(c) : c \in ByTag(cdr[c], t)

\* The dashboard's two sources and the tables beside it agree: what SQL counts over
\* the rows is what the documents say, the scorecards add up to it, and the list
\* behind a segment is as long as the segment, as long as no call is of low quality.
ViewsAgree ==
  \A p \in Projects : (\A c \in InProject(p) : Quiet(c)) =>
    /\ SqlCalls(p) > 0 => /\ SqlSuccess(p) = DocSuccess(Derived(p))
                          /\ SqlScore(p) = DocScore(Derived(p))
    /\ Sum(LAMBDA o : Scorecard(p, o).success, Operators) = DocSuccess(Derived(p))
    /\ \A o \in Operators : Low(InProject(p)) # InProject(p) => Scorecard(p, o).score = Evidence(p, o).score
    /\ \A t \in Tags : TagStat(p, t).calls <= Cardinality(Derived(p))
    /\ Low(InProject(p)) = {} => Cardinality(Drilldown(p, TRUE)) = SqlSuccess(p)
=============================================================================
