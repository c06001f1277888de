-------------------------------- MODULE Answers --------------------------------
(***************************************************************************)
(* The model's verdict on a call, from its text to what is stored: the     *)
(* JSON is taken out of the text, mended when the text breaks off, checked *)
(* against the schema of the project, asked for once more when it does not *)
(* fit, cleaned, and weighed with the quality of the transcript.           *)
(*                                                                         *)
(* A text is a sequence of tokens.  A string, a number or a word of prose  *)
(* is one token; "half" is a string without its closing quote and "stub" a *)
(* literal broken off.  A document that parses is the set of its leaves,   *)
(* each the path to a value and the value, containers that are empty       *)
(* included.                                                               *)
(***************************************************************************)
EXTENDS Integers, Sequences, SequencesExt, FiniteSets

CONSTANTS Measures,    \* bound: [short, words, logprob, silence, odd]
          Documents,   \* bound: what the model means to answer, as tokens
          Drafts,      \* bound: what it writes while it thinks
          HasCustom, Taxonomy,   \* customMetricsSchema, ids of callTaxonomy
          Cap          \* MAX_TOPIC_TAGS

VARIABLES pc, attempt,
          measure,     \* what the recogniser says of its transcript
          stt,         \* quality of the transcript
          text,        \* the reply
          verdict,     \* what is stored
          meant, drafted   \* history: the document of the reply, and whether
                           \* another stands in the thinking before it

vars == <<pc, attempt, measure, stt, text, verdict, meant, drafted>>

\* The fold of the elements of a sequence from the left, in linear time.
Over(Op(_, _), base, ts) ==
  LET upTo[k \in 0..Len(ts)] == IF k = 0 THEN base ELSE Op(upTo[k - 1], ts[k])
  IN  upTo[Len(ts)]

Opening == {"{", "["}
Closing == {"}", "]"}
Marks   == Opening \cup Closing \cup {":", ",", "fence", "think", "/think", "word", "half", "stub"}
Numbers == {"10", "100", "150"}
Literals == Numbers \cup {"null", "true"}
Shut(kind) == IF kind = "{" THEN "}" ELSE "]"
IsString(t) == t \notin Marks \cup Literals
Index == <<"#1", "#2", "#3", "#4">>
Nothing == [ok |-> FALSE, leaves |-> {}]
NoVerdict == [quality |-> "none", fields |-> {}, topics |-> <<>>, invalid |-> FALSE]

-----------------------------------------------------------------------------
(* JSON.parse: what may come next, the containers that are open with the   *)
(* key or the position at hand, and the leaves so far.                     *)

Path(st) == [k \in 1..Len(st.stack) |-> st.stack[k].at]
After(st) == [st EXCEPT !.want = IF st.stack = <<>> THEN "end" ELSE "more"]
Leaf(st, v) == After([st EXCEPT !.leaves = @ \cup {<<Path(st), v>>}])
Step(st, t) ==
  LET takes == st.want \in {"value", "first"}
      top == Last(st.stack)
      SetTop(f) == [st.stack EXCEPT ![Len(st.stack)] = f]
  IN  CASE t \in Opening /\ takes ->
             [st EXCEPT !.stack = Append(@, [kind |-> t, at |-> Index[1], n |-> 1]),
                        !.want = IF t = "{" THEN "firstKey" ELSE "first"]
        [] t \in Closing /\ st.want \in {"firstKey", "first"} /\ t = Shut(top.kind) ->
             Leaf([st EXCEPT !.stack = Front(@)], "empty")
        [] t \in Closing /\ st.want = "more" /\ t = Shut(top.kind) ->
             After([st EXCEPT !.stack = Front(@)])
        [] t = "," /\ st.want = "more" ->
             [st EXCEPT !.want = IF top.kind = "{" THEN "key" ELSE "value",
                        !.stack = SetTop([top EXCEPT !.n = @ + 1, !.at = Index[top.n + 1]])]
        [] IsString(t) /\ st.want \in {"key", "firstKey"} ->
             [st EXCEPT !.want = "colon", !.stack = SetTop([top EXCEPT !.at = t])]
        [] t = ":" /\ st.want = "colon" -> [st EXCEPT !.want = "value"]
        [] (IsString(t) \/ t \in Literals) /\ takes -> Leaf(st, t)
        [] OTHER -> [st EXCEPT !.want = "error"]

Parse(ts) ==
  LET st == Over(Step, [want |-> "value", stack |-> <<>>, leaves |-> {}], ts)
  IN  IF st.want = "end" THEN [ok |-> TRUE, leaves |-> st.leaves] ELSE Nothing

-----------------------------------------------------------------------------
(* Taking the JSON out of a text.                                          *)

Without(ts, Drop(_)) ==
  LET kept == SelectSeq([k \in 1..Len(ts) |-> k], LAMBDA k : ~Drop(k))
  IN  [k \in 1..Len(kept) |-> ts[kept[k]]]

TrailingComma(ts, k) == ts[k] = "," /\ k < Len(ts) /\ ts[k + 1] \in Closing
Trimmed(ts) == LET Drop(k) == TrailingComma(ts, k) IN Without(ts, Drop)

\* bracketStack
Open(ts) == Over(LAMBDA s, t : IF t \in Opening THEN Append(s, t)
                                   ELSE IF t \in Closing /\ s # <<>> THEN Front(s) ELSE s,
                     <<>>, ts)
Closed(ts) == LET s == Open(ts)
              IN  ts \o [k \in 1..Len(s) |-> Shut(s[Len(s) + 1 - k])]

\* closeTruncatedJson: a string broken off is closed, unless nothing but a bracket
\* or a comma stands before it; a value that is missing is null.
CloseEnd(ts) ==
  LET end == Last(ts)
      before == IF Len(ts) > 1 THEN ts[Len(ts) - 1] ELSE "word"
      bare == Front(ts)
  IN  Closed(CASE end = "half" /\ before \in Opening -> bare
               [] end = "half" /\ before = ","       -> Front(bare)
               [] end = "half" /\ before \notin Opening \cup {","} -> Append(bare, "cut")
               [] end = ":"                          -> Append(ts, "null")
               [] end = ","                          -> bare
               [] OTHER                              -> ts)

\* tryParseJsonSlice: as it is, then mended.
Mended(ts) == LET plain == Parse(Trimmed(ts))
              IN  IF plain.ok THEN plain ELSE Parse(CloseEnd(Trimmed(ts)))

\* The fences are taken off; a fenced block amid prose is all that counts.
Unfenced(ts) ==
  LET a == IF ts # <<>> /\ Head(ts) = "fence" THEN Tail(ts) ELSE ts
      b == IF a # <<>> /\ Last(a) = "fence" THEN Front(a) ELSE a
      at == SelectSeq([k \in 1..Len(b) |-> k], LAMBDA k : b[k] = "fence")
  IN  IF Len(at) >= 2 THEN SubSeq(b, at[1] + 1, at[2] - 1) ELSE b

\* extractFirstJsonValue: from the first bracket to the one that closes it.
FirstValue(ts) ==
  LET u == Unfenced(ts)
      starts == {k \in 1..Len(u) : u[k] \in Opening}
      from == CHOOSE k \in starts : \A j \in starts : k <= j
      Depth(n) == Cardinality({k \in from..n : u[k] = u[from]})
                    - Cardinality({k \in from..n : u[k] = Shut(u[from])})
      ends == {n \in from..Len(u) : Depth(n) = 0}
      to == IF ends = {} THEN Len(u) ELSE CHOOSE n \in ends : \A j \in ends : n <= j
  IN  IF starts = {} THEN Nothing ELSE Mended(SubSeq(u, from, to))

\* What was thought is left out, to the end of the text when it is not closed.
Spoken(ts) ==
  Over(LAMBDA s, t : IF t = "think" THEN [s EXCEPT !.off = TRUE]
                     ELSE IF t = "/think" /\ s.off THEN [s EXCEPT !.off = FALSE]
                     ELSE IF s.off THEN s ELSE [s EXCEPT !.out = Append(@, t)],
           [off |-> FALSE, out |-> <<>>], ts).out

\* extractLlmJsonContent: what was said, and failing that what was thought.
\* Mutant: the first JSON of the text counts, thought or said.
ThoughtFirst(ts) == LET first == FirstValue(ts)
                    IN  IF first.ok THEN first ELSE FirstValue(Spoken(ts))

Extract(ts) == LET said == FirstValue(Spoken(ts))
               IN  IF said.ok THEN said ELSE FirstValue(ts)

-----------------------------------------------------------------------------
(* The schema, and the values that fit it but mean nothing.                *)

At(leaves, field) == {l \in leaves : l[1] # <<>> /\ l[1][1] = field}
Values(leaves, path) == {l[2] : l \in {m \in leaves : m[1] = path}}

\* buildZodAnalysisSchema: every score a number in range, turns with a speaker and
\* a text, custom values and themes of any sense.
Score(leaves) == Values(leaves, <<"score">>)
TurnsFit(ls) ==
  \/ ls = {<< <<"turns">>, "empty">>}
  \/ /\ ls # {} /\ \A l \in ls : Len(l[1]) = 3
     /\ \A i \in {l[1][2] : l \in ls} :
          /\ Values(ls, <<"turns", i, "speaker">>) \in {{"operator"}, {"customer"}}
          /\ \E v \in Values(ls, <<"turns", i, "text">>) : IsString(v)
CustomFit(ls) == ls # {} /\ \A l \in ls : \/ l = << <<"custom">>, "empty">>
                                          \/ Len(l[1]) = 2 /\ l[2] # "true" /\ l[2] # "empty"
TopicsFit(ls) == ls # {} /\ \A l \in ls : \/ l = << <<"topics">>, "empty">>
                                          \/ Len(l[1]) = 2 /\ IsString(l[2]) /\ l[2] # "empty"
Fits(ls) == /\ Score(ls) \in {{"10"}, {"100"}}
            /\ TurnsFit(At(ls, "turns"))
            /\ HasCustom => CustomFit(At(ls, "custom"))
            /\ Taxonomy # {} => TopicsFit(At(ls, "topics"))

\* sanitizeCustomMetricValues: a value out of its range, or no number, is null.
InRange(v) == v \in {"10", "100"}
Custom(ls) == {IF l[2] \in {"empty", "null"} \/ InRange(l[2]) THEN l ELSE <<l[1], "null">>
                 : l \in At(ls, "custom")}
Invalid(ls) == \E l \in At(ls, "custom") : l[2] \notin {"empty", "null"} /\ ~InRange(l[2])

\* sanitizeTopicTagIds: known themes, each once, ten at most.
Topics(ls) ==
  Over(LAMBDA hits, i :
             LET v == Values(ls, <<"topics", i>>)
             IN  IF Len(hits) < Cap /\ \E t \in v : t \in Taxonomy /\ ~Contains(hits, t)
                 THEN Append(hits, CHOOSE t \in v : TRUE) ELSE hits,
           <<>>, Index)

\* combineTranscriptionQuality: the model can only lower it.
Quality(insufficient, unsure) == IF (insufficient \/ unsure) /\ stt = "ok" THEN "low" ELSE stt

-----------------------------------------------------------------------------
(* analyzeTranscription.                                                   *)

Init == /\ pc = "assess" /\ attempt = 1
        /\ measure \in Measures /\ stt = "none"
        /\ text = <<>> /\ verdict = NoVerdict
        /\ meant = {} /\ drafted = FALSE

\* assessTranscriptionQuality: logprob and silence are levels, 1 beyond the bound of
\* a doubtful transcript and 2 beyond that of a useless one.
Assessed(m) == IF ~m.words \/ 2 \in {m.logprob, m.silence} THEN "unusable"
               ELSE IF m.odd \/ 1 \in {m.logprob, m.silence} THEN "low" ELSE "ok"

\* rejectIfUnusable: a short recording, or a transcript not worth the model.
Reject == /\ pc = "assess" /\ (measure.short \/ Assessed(measure) = "unusable")
          /\ stt' = "unusable" /\ pc' = "failed"
          /\ UNCHANGED <<attempt, measure, text, verdict, meant, drafted>>

Assess == /\ pc = "assess" /\ ~measure.short /\ Assessed(measure) # "unusable"
          /\ stt' = Assessed(measure) /\ pc' = "ask"
          /\ UNCHANGED <<attempt, measure, text, verdict, meant, drafted>>

\* The text of a document, whole or broken off at a token or inside one.
Broken(doc, n) ==
  LET cut == SubSeq(doc, 1, n)
  IN  IF n = Len(doc) THEN {cut}
      ELSE {cut} \cup (IF IsString(doc[n]) THEN {Append(Front(cut), "half")} ELSE {})
                 \cup (IF doc[n] \in {"true", "null"} THEN {Append(Front(cut), "stub")} ELSE {})
                 \cup (IF doc[n] = "100" THEN {Append(Front(cut), "10")} ELSE {})

\* The ways a model wraps its JSON.
Wrapped(t, draft) ==
  {t, <<"fence">> \o t, <<"word", "fence">> \o t \o <<"fence", "word">>,
   <<"think", "word">> \o draft \o <<"/think">> \o t,
   <<"think", "word">> \o t}

Reply ==
  /\ pc = "ask"
  /\ \E doc \in Documents, draft \in Drafts : \E n \in 1..Len(doc) :
       \E t \in Broken(doc, n) : \E w \in Wrapped(t, draft) :
         /\ text' = w
         /\ meant' = Parse(doc).leaves
         /\ drafted' = (draft # <<>> /\ Contains(w, "/think"))
  /\ pc' = "check"
  /\ UNCHANGED <<attempt, measure, stt, verdict>>

\* No provider answers; the analysis fails.
NoReply == /\ pc = "ask" /\ pc' = "failed"
           /\ UNCHANGED <<attempt, measure, stt, text, verdict, meant, drafted>>

Accept ==
  /\ pc = "check"
  /\ \E json \in {Extract(text)} :
       /\ json.ok /\ Fits(json.leaves)
       /\ \E insufficient, unsure \in BOOLEAN :
            verdict' = [quality |-> Quality(insufficient, unsure),
                        fields |-> At(json.leaves, "score") \cup At(json.leaves, "turns")
                                     \cup Custom(json.leaves),
                        topics |-> IF Taxonomy = {} THEN <<>> ELSE Topics(json.leaves),
                        invalid |-> Invalid(json.leaves)]
  /\ pc' = "stored"
  /\ UNCHANGED <<attempt, measure, stt, text, meant, drafted>>

\* A text that does not parse counts as an empty object; the second is the last.
Refuse ==
  /\ pc = "check"
  /\ \E json \in {Extract(text)} : ~json.ok \/ ~Fits(json.leaves)
  /\ IF attempt = 1 THEN pc' = "ask" /\ attempt' = 2 ELSE pc' = "failed" /\ UNCHANGED attempt
  /\ text' = <<>>
  /\ UNCHANGED <<measure, stt, verdict, meant, drafted>>

Next == Reject \/ Assess \/ Reply \/ NoReply \/ Accept \/ Refuse

Spec == Init /\ [][Next]_vars

-----------------------------------------------------------------------------
TypeOK == /\ pc \in {"assess", "ask", "check", "stored", "failed"} /\ attempt \in 1..2
          /\ stt \in {"none", "ok", "low", "unusable"}
          /\ verdict.quality \in {"none", "ok", "low"}

\* Nothing that was said can be read, and a draft is taken in its place.
DraftTaken == drafted /\ ~FirstValue(Spoken(text)).ok

\* What is stored is what the model wrote, up to one place: the text may break off
\* inside one field, of which the beginning is kept, and every other field is there
\* with the values that were meant, the ones out of range emptied.  It never tells
\* of a transcript better than the recogniser did.
Broke(l) == l[2] = "cut" \/ l[2] = "null" \/ l[2] = "10" \/ l[2] = "empty"
Fields(ls) == {l[1][1] : l \in {m \in ls : m[1] # <<>>}}
StoredAsWritten ==
  pc = "stored" /\ ~DraftTaken =>
    /\ measure.words /\ ~measure.short
    /\ measure.logprob = 1 \/ measure.silence = 1 \/ measure.odd => verdict.quality = "low"
    /\ Fields(verdict.fields) = {f \in {"score", "turns", "custom"} : At(meant, f) # {}}
    /\ Cardinality({f \in Fields(verdict.fields) :
          At(verdict.fields, f) # (IF f = "custom" THEN Custom(meant) ELSE At(meant, f))}) <= 1
    /\ \A l \in verdict.fields : l \in meant \/ Broke(l)
    /\ Range(verdict.topics) \subseteq Taxonomy \cap {l[2] : l \in At(meant, "topics")}
    /\ IsInjective(verdict.topics) /\ Len(verdict.topics) <= Cap
================================================================================
