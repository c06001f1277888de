----------------------------- MODULE MCServices -----------------------------
(***************************************************************************)
(* What answers clients besides their calls, and what is made of the       *)
(* recordings, one component at a time: chats and assistants, knowledge    *)
(* bases, support; analyses, reports and alerts.  `which` says which       *)
(* component is at work, and its variables are the first of a pool that    *)
(* all of them share.                                                      *)
(***************************************************************************)
EXTENDS Integers, Sequences, FiniteSets, TLC

VARIABLES which,   \* the component at work
          v1, v2, v3, v4, v5, v6, v7, v8, v9, v10, v11, v12, v13, v14, v15, v16,
          v17, v18

pool == <<v1, v2, v3, v4, v5, v6, v7, v8, v9, v10, v11, v12, v13, v14, v15, v16, v17,
         v18>>
vars == <<which, pool>>

-----------------------------------------------------------------------------

\* Names of tools the model makes up, as findBestMcpTool takes them for names there are.
SomeLikeness ==
  << {<<"x", "x">>, <<"y", "y">>, <<"w2", "w2">>}, {<<"make_x", "x">>}, {}, {<<"y2", "y">>}, {<<"w", "w2">>} >>

\* A reply, its calls: a plain answer, one after thoughts in one piece and in several,
\* tool calls in the text, of servers there are not, and of a reply cut by its length.
Reply(chunks, calls, finish, tool) ==
  [chunks |-> chunks, calls |-> calls, finish |-> finish, tool |-> tool]
Plain(x)  == [kind |-> "plain", server |-> -1, tool |-> x]
Mcp(n, x) == [kind |-> "mcp", server |-> n, tool |-> x]
SomeReplies ==
  {Reply(<< <<"hi">> >>, <<>>, "stop", "x"),
   Reply(<< <<"<think>">>, <<"hm">>, <<"</think>">>, <<"hi">> >>,
         <<Mcp(0, "x"), Mcp(1, "y")>>, "tool_calls", "x"),
   Reply(<< <<"<think>", "hm", "</think>", "hi">> >>,
         <<Plain("w"), Plain("make_x")>>, "stop", "x"),
   Reply(<< <<"google:tool_code">> >>, <<>>, "stop", "y2"),
   Reply(<<>>, <<Mcp(1, "x"), Mcp(7, "x")>>, "tool_calls", "x"),
   Reply(<<>>, <<Mcp(0, "x")>>, "length", "x")}

\* No text, short sentences, and sentences longer than a chunk.
SomeTexts ==
  {<<>>, << <<"a", "b", ".">>, <<"c", ".">>, <<"d", "e", "f", ".">> >>,
   << <<"a", "b", ".", "c", "d", ".", "e", "f", ".", "g", ".">> >>,
   << <<"a", ".", "b", "c", "d", "e", "f", "g">>, <<"h">> >>}

AboutFirst ==
  [q \in {"c1", "c2", "e1", "u1", "u2", "d1", "p1", "k1", "g1"} |->
     IF q = "c2" THEN "a2" ELSE "a1"]

\* A good call, a poor one with a topic, an answer that could not be used.
Says(good, score, low, tags) == [success |-> good, score |-> score, low |-> low, tags |-> tags]
SomeVerdicts ==
  {Says(TRUE, 2, FALSE, {"t1"}), Says(FALSE, 1, FALSE, {}), Says(TRUE, 0, TRUE, {"t2"})}

\* One to three utterances, the second and third begun before or after the last one ends.
Utter(at) == [side : {"left", "right"}, start : {at}, end : {at + 1, at + 5}]
SomeSounds ==
  {<<a>> : a \in Utter(0)} \cup {<<a, b>> : a \in Utter(0), b \in Utter(3)}
    \cup {<<a, b, c>> : a \in Utter(0), b \in Utter(2),
                        c \in [side : {"left", "right"}, start : {6}, end : {7}]}
File(wav, same, long) == [wav |-> wav, channels |-> 2, same |-> same, long |-> long]
SomeFiles == {File(w, s, TRUE) : w, s \in BOOLEAN} \cup {File(TRUE, TRUE, FALSE)}
SomeSettings ==
  [mode : {"energy", "off", "dual-stt"},
   map : {<<>>, << <<"left", "customer">>, <<"right", "customer">> >>,
          << <<"right", "operator">> >>}]

\* Documents as the model may mean them: the fields in any order, ids it made up or
\* repeats, numbers out of range, no turns or two.
Turn(side) == <<"{", "speaker", ":", side, ",", "text", ":", "words", "}">>
TurnsOf(list) == <<"turns", ":", "[">> \o list \o <<"]">>
Two == TurnsOf(Turn("operator") \o <<",">> \o Turn("customer"))
ScoreOf(n) == <<"score", ":", n>>
CustomOf(n) == <<"custom", ":", "{", "m", ":", n, "}">>
TopicsOf(list) == <<"topics", ":", "[">> \o list \o <<"]">>
Fields(a, b, c, d) ==
  <<"{">> \o a \o <<",">> \o b \o <<",">> \o c \o <<",">> \o d \o <<"}">>
SomeDocuments ==
  {Fields(ScoreOf("100"), CustomOf("150"), TopicsOf(<<"t1", ",", "zz">>), Two),
   Fields(ScoreOf("10"), Two, CustomOf("100"),
          TopicsOf(<<"t2", ",", "t2", ",", "t1">>)),
   Fields(TurnsOf(<<>>), TopicsOf(<<>>), CustomOf("null"), ScoreOf("150"))}
SomeDrafts ==
  {<<>>, Fields(ScoreOf("10"), CustomOf("10"), TopicsOf(<<>>), TurnsOf(<<>>))}
Measure(short, words, logprob, silence, odd) ==
  [short |-> short, words |-> words, logprob |-> logprob, silence |-> silence, odd |-> odd]
SomeMeasures ==
  {Measure(FALSE, TRUE, 0, 0, FALSE), Measure(FALSE, TRUE, 1, 0, TRUE),
   Measure(FALSE, TRUE, 2, 1, FALSE), Measure(TRUE, FALSE, 0, 0, FALSE)}

\* Recipients of one's own, of the digest or none; rules of one day and of two.
To(emails, chats) == [emails |-> emails, chats |-> chats]
Noone == To(<<>>, <<>>)
Rule(on, bound, window, least) ==
  [on |-> on, bound |-> bound, window |-> window, least |-> least]
Config(inherit, own, csat, negative) ==
  [enabled |-> TRUE, inherit |-> inherit, own |-> own, test |-> -1,
   csat |-> csat, negative |-> negative]
SomeConfigs ==
  {Config(TRUE, Noone, Rule(TRUE, 20, 1, 2), Rule(TRUE, 30, 2, 1)),
   Config(FALSE, To(<<>>, <<"chat">>), Rule(TRUE, 50, 1, 2), Rule(FALSE, 30, 1, 1)),
   Config(FALSE, Noone, Rule(FALSE, 20, 1, 1), Rule(TRUE, 30, 1, 1))}
Day(calls, rated, stars, negative) ==
  [calls |-> calls, rated |-> rated, stars |-> stars, negative |-> negative]
SomeDays == {Day(2, 2, 10, 0), Day(2, 1, 2, 1), Day(1, 1, 1, 1)}

\* A limit that issues an invoice, of a fixed sum or of a month's use, and a plain one.
SomeAlerts ==
  {("a1" :> [limit |-> 4, mode |-> m]) @@ ("a2" :> [limit |-> 2, mode |-> "none"]) :
     m \in {"fixed", "average_monthly"}}

\* A conversation over two MCP servers that offer tools of one name, while the chat changes.
Chatting == INSTANCE ChatLoop WITH
  Edits <- {"e1", "e2"}, Drops <- {"d1"}, Streams <- {"s1"}, Own <- {"w"},
  Servers <- <<"A", "B">>, Lists <- {<<"x", "y">>, <<"y", "w2">>}, Alike <- SomeLikeness,
  Replies <- SomeReplies,
  Casts <- {{"e1", "e2"}, {"e1", "d1"}, {"s1"}, {"s1", "d1"}, {"s1", "e1"}},
  MaxIterations <- 2, MaxFaults <- 1, chat <- v1, linked <- v2, pc <- v3,
  held <- v4, configs <- v5, offered <- v6, messages <- v7, text <- v8, todo <- v9,
  turn <- v10, match <- v11, told <- v12, gone <- v13, calls <- v14, said <- v15,
  wanted <- v16, crossed <- v17, faults <- v18

\* Documents of short and long sentences, deleted while they are taken in.
Knowledge == INSTANCE KnowledgeBase WITH
  Docs <- {"d1", "d2"}, Deletes <- {"x1"}, Drops <- {"y1"}, Texts <- SomeTexts,
  MaxChunk <- 5, Overlap <- 2, Casts <- {{"d1", "d2"}, {"d1", "x1"}, {"d1", "y1"}},
  MaxFaults <- 1, base <- v1, counts <- v2, rows <- v3, chunks <- v4, pc <- v5,
  text <- v6, held <- v7, crossed <- v8, faults <- v9

\* Assistants with tools, voices and widget keys, made, changed and deleted at once.
Assisting == INSTANCE Assistants WITH
  Assistants <- {"a1", "a2"}, Tools <- {"t1", "t2"}, Creates <- {"c1", "c2"},
  Edits <- {"e1"}, Uploads <- {"u1", "u2"}, Deletes <- {"d1"}, Prompts <- {"p1"},
  KeyCreates <- {"k1"}, KeyEdits <- {"g1"}, About <- AboutFirst,
  Urls <- {"w1", "w2"}, NoUrl <- "none", Price <- 2, Tokens <- {0, 3},
  Casts <- {{"c1", "e1", "u1"}, {"c1", "u1", "u2"}, {"c1", "u1", "d1", "k1"}, {"c1", "c2", "e1", "d1"}, {"c1", "k1", "g1"}, {"c1", "c2", "u1", "u2"}, {"p1"}},
  MaxFaults <- 1, rows <- v1, links <- v2, files <- v3, keys <- v4, records <- v5,
  debits <- v6, pc <- v7, held <- v8, asked <- v9, used <- v10, loose <- v11,
  crossed <- v12, broken <- v13, faults <- v14

\* Tickets of one client, updated, claimed and answered.
Help == INSTANCE HelpDesk WITH
  Tickets <- {"t1", "t2"}, Keys <- {"c"}, Agents <- {"a1"}, NoAgent <- "none",
  Key <- [t \in {"t1", "t2"} |-> "c"], Updates <- {"u1", "u2"},
  Claims <- {"k1", "k2"}, Messages <- {"m1"}, Overrides <- {"o1"},
  About <- [q \in {"u1", "u2", "k1", "k2", "m1", "o1"} |-> "t1"],
  Casts <- {{"t1", "u1"}, {"t1", "k1", "k2"}, {"t1", "t2"}, {"t1", "m1"}, {"t1", "o1"}},
  MaxFaults <- 1, tickets <- v1, history <- v2, contexts <- v3, override <- v4,
  notices <- v5, pc <- v6, held <- v7, events <- v8, taken <- v9, crossed <- v10,
  tangled <- v11, faults <- v12

\* A call analysed, analysed again, edited, moved and reviewed; another of the same project.
Scores == INSTANCE CallScores WITH
  Calls <- {"c1", "c2"}, Projects <- {"p1", "p2"}, Tags <- {"t1", "t2"},
  Operators <- {"o1", "o2"}, Home <- [c \in {"c1", "c2"} |-> "p1"],
  Taken <- ("c1" :> "o1") @@ ("c2" :> "o2"),
  Taxonomy <- ("p1" :> {"t1", "t2"}) @@ ("p2" :> {}), Verdicts <- SomeVerdicts,
  Regens <- {"r1"}, Edits <- {"e1"}, Moves <- {"m1"}, Reviews <- {"v1", "v2"},
  About <- [q \in {"r1", "e1", "m1", "v1", "v2"} |-> "c1"],
  Casts <- {{"c1", "r1", "e1"}, {"c1", "r1", "m1"}, {"c1", "e1", "m1"}, {"c1", "v1", "v2"}, {"c1", "c2", "r1"}, {"c1", "c2", "e1"}},
  Cap <- 2, MaxFaults <- 1, wish <- v1, cdr <- v2, blob <- v3, values <- v4,
  tagRows <- v5, fixes <- v6, pc <- v7, held <- v8, wanted <- v9, troubled <- v10,
  moved <- v11, copied <- v12, faults <- v13

\* Up to three utterances, some at once, in every kind of file and setting.
Speakers == INSTANCE Dialogs WITH
  Sounds <- SomeSounds, Files <- SomeFiles, Settings <- SomeSettings, Gap <- 3,
  sound <- v1, file <- v2, setting <- v3, roles <- v4, tools <- v5, probe <- v6,
  heard <- v7, turns <- v8, source <- v9, step <- v10

\* Answers broken off at every token, with a draft in front and text around them.
Verdict == INSTANCE Answers WITH
  HasCustom <- TRUE, Taxonomy <- {"t1", "t2"}, Cap <- 2, Measures <- SomeMeasures,
  Documents <- SomeDocuments, Drafts <- SomeDrafts, pc <- v1, attempt <- v2,
  measure <- v3, stt <- v4, text <- v5, verdict <- v6, meant <- v7, drafted <- v8

\* Two budget checks, digests or requests for insights meet an edit of the project.
Reports == INSTANCE ProjectReports WITH
  Checks <- {"c1", "c2"}, Edits <- {"e1", "e2"}, Hourly <- {"h1", "h2"},
  Manual <- {"m1"}, Requests <- {"q1", "q2"},
  Casts <- {{"c1", "c2", "e1", "e2"}, {"h1", "h2", "e1", "e2"}, {"h1", "m1", "e1"}, {"q1", "q2", "c1"}},
  Budgets <- {1, 2}, MinCalls <- 1, MaxPeriod <- 2, MaxFaults <- 1, row <- v1, calls <- v2,
  period <- v3, pc <- v4, held <- v5, cache <- v6, answer <- v7, debited <- v8,
  faults <- v9, alerts <- v10, crossed <- v11, digests <- v12, asked <- v13,
  modelled <- v14, raced <- v15, forgotten <- v16, priced <- v17, metered <- v18

\* Checks, tests and edits of a project whose days go well and badly.
Anomalies == INSTANCE AnomalyAlerts WITH
  Checks <- {"c1", "c2"}, Tests <- {"t1", "t2"}, Edits <- {"e1", "e2"},
  Configs <- SomeConfigs, Digest <- Noone, Legacy <- <<>>, Webhook <- TRUE,
  Days <- SomeDays, AnomalyEnabled <- FALSE, Cap <- 2, Pause <- 2,
  Casts <- {{"c1", "c2"}, {"c1", "e1"}, {"t1", "t2", "e1"}, {"t1", "e1", "e2"}},
  MaxDays <- 4, MaxClock <- 2, MaxFaults <- 1, settings <- v1, last <- v2,
  days <- v3, clock <- v4, pc <- v5, held <- v6, notices <- v7, silent <- v8,
  due <- v9, tests <- v10, wanted <- v11, crossed <- v12, faults <- v13

\* Debits past two limits, an edit of one, and two runs of the runway notice.
Balance == INSTANCE BalanceAlerts WITH
  Debits <- {"d1", "d2"}, Edits <- {"e1"}, Runs <- {"r1", "r2"},
  Alerts <- {"a1", "a2"}, Given <- SomeAlerts, Limits <- {2, 4},
  Amounts <- {1, 2, 5}, Start <- 5, Rate <- 90, Lookback <- 2, AlertDays <- 3,
  Cooldown <- 2, Drop <- 1,
  Casts <- {{"d1", "d2"}, {"d1", "e1"}, {"d1", "r1", "r2"}}, MaxDay <- 2,
  MaxFaults <- 1, balance <- v1, alerts <- v2, rates <- v3, day <- v4, pc <- v5,
  held <- v6, spent <- v7, last <- v8, invoices <- v9, path <- v10, told <- v11,
  edited <- v12, notices <- v13, doubled <- v14, faults <- v15

-----------------------------------------------------------------------------
Init ==
  \/ which = "Chatting" /\ Chatting!Init
  \/ which = "Knowledge" /\ Knowledge!Init
       /\ v10 = 0 /\ v11 = 0 /\ v12 = 0 /\ v13 = 0 /\ v14 = 0 /\ v15 = 0 /\ v16 = 0
       /\ v17 = 0 /\ v18 = 0
  \/ which = "Assisting" /\ Assisting!Init
       /\ v15 = 0 /\ v16 = 0 /\ v17 = 0 /\ v18 = 0
  \/ which = "Help" /\ Help!Init
       /\ v13 = 0 /\ v14 = 0 /\ v15 = 0 /\ v16 = 0 /\ v17 = 0 /\ v18 = 0
  \/ which = "Scores" /\ Scores!Init
       /\ v14 = 0 /\ v15 = 0 /\ v16 = 0 /\ v17 = 0 /\ v18 = 0
  \/ which = "Speakers" /\ Speakers!Init
       /\ v11 = 0 /\ v12 = 0 /\ v13 = 0 /\ v14 = 0 /\ v15 = 0 /\ v16 = 0 /\ v17 = 0
       /\ v18 = 0
  \/ which = "Verdict" /\ Verdict!Init
       /\ v9 = 0 /\ v10 = 0 /\ v11 = 0 /\ v12 = 0 /\ v13 = 0 /\ v14 = 0 /\ v15 = 0
       /\ v16 = 0 /\ v17 = 0 /\ v18 = 0
  \/ which = "Reports" /\ Reports!Init
  \/ which = "Anomalies" /\ Anomalies!Init
       /\ v14 = 0 /\ v15 = 0 /\ v16 = 0 /\ v17 = 0 /\ v18 = 0
  \/ which = "Balance" /\ Balance!Init
       /\ v16 = 0 /\ v17 = 0 /\ v18 = 0

Next ==
  \/ which = "Chatting" /\ Chatting!Next /\ UNCHANGED <<which>>
  \/ which = "Knowledge" /\ Knowledge!Next
       /\ UNCHANGED <<which, v10, v11, v12, v13, v14, v15, v16, v17, v18>>
  \/ which = "Assisting" /\ Assisting!Next /\ UNCHANGED <<which, v15, v16, v17, v18>>
  \/ which = "Help" /\ Help!Next /\ UNCHANGED <<which, v13, v14, v15, v16, v17, v18>>
  \/ which = "Scores" /\ Scores!Next /\ UNCHANGED <<which, v14, v15, v16, v17, v18>>
  \/ which = "Speakers" /\ Speakers!Next
       /\ UNCHANGED <<which, v11, v12, v13, v14, v15, v16, v17, v18>>
  \/ which = "Verdict" /\ Verdict!Next
       /\ UNCHANGED <<which, v9, v10, v11, v12, v13, v14, v15, v16, v17, v18>>
  \/ which = "Reports" /\ Reports!Next /\ UNCHANGED <<which>>
  \/ which = "Anomalies" /\ Anomalies!Next /\ UNCHANGED <<which, v14, v15, v16, v17, v18>>
  \/ which = "Balance" /\ Balance!Next /\ UNCHANGED <<which, v16, v17, v18>>

Spec == Init /\ [][Next]_vars

-----------------------------------------------------------------------------
TypeOK ==
  /\ which = "Chatting" => Chatting!TypeOK
  /\ which = "Knowledge" => Knowledge!TypeOK
  /\ which = "Assisting" => Assisting!TypeOK
  /\ which = "Help" => Help!TypeOK
  /\ which = "Scores" => Scores!TypeOK
  /\ which = "Speakers" => Speakers!TypeOK
  /\ which = "Verdict" => Verdict!TypeOK
  /\ which = "Reports" => Reports!TypeOK
  /\ which = "Anomalies" => Anomalies!TypeOK
  /\ which = "Balance" => Balance!TypeOK


\* A tool call goes to the server that offered it and is answered, the links of a chat, an
\* assistant and a base are what was asked for, and clients are told of their tickets
\* (ChatLoop, Assistants, KnowledgeBase, HelpDesk).
AsAsked ==
  /\ which = "Chatting" =>
       Chatting!ToolsGoHome /\ Chatting!EveryCallAnswered /\ Chatting!LinksAsAsked
  /\ which = "Assisting" => Assisting!AsAsked
  /\ which = "Knowledge" => Knowledge!FoundIfReady /\ Knowledge!CountsKept
  /\ which = "Help" => Help!TicketsTold

\* The tags, values and speakers of an analysed call agree with what was said, and with
\* each other (CallScores, Dialogs, Answers).
AnalysisKept ==
  /\ which = "Scores" => Scores!TagsAgree /\ Scores!ViewsAgree
  /\ which = "Speakers" => Speakers!SpeakersKept
  /\ which = "Verdict" => Verdict!StoredAsWritten

\* Who is to be told is told, once (ProjectReports, AnomalyAlerts, BalanceAlerts).
NoticesRight ==
  /\ which = "Reports" =>
       Reports!BudgetAnnounced /\ Reports!DigestOncePerDay /\ Reports!InsightsPaid
  /\ which = "Anomalies" => Anomalies!NoticesInTurn /\ Anomalies!SettingsKept
  /\ which = "Balance" => Balance!CrossingsTold /\ Balance!NoticesInTurn

\* `No-op unless OPERATOR_ANOMALY_ENABLED=true (default off, prod-safe)`
\* (operator-anomaly.task.ts): while it is off no alert goes out.
QuietUnlessEnabled == which = "Anomalies" => Anomalies!QuietUnlessEnabled
=============================================================================
