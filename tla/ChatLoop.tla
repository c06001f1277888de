-------------------------------- MODULE ChatLoop --------------------------------
(***************************************************************************)
(* A chat with a language model that calls tools: the chat and the tools   *)
(* linked to it, and the streamed answer, which asks the model, carries    *)
(* out the tool calls of its reply and asks again, until the model has     *)
(* none left, the bound of the loop is met or the client goes away.        *)
(*                                                                         *)
(* A tool is one of the owner's own (a webhook, a knowledge base) or one   *)
(* of an MCP server named in the request, offered under the server's       *)
(* position: mcp_e0_x.  One action is what happens between two awaits.     *)
(***************************************************************************)
EXTENDS Integers, Sequences, SequencesExt, FiniteSets

CONSTANTS Edits, Drops, Streams,   \* requests: update, delete, message
          Own,            \* names of the owner's tools
          Servers,        \* the MCP servers of a request, in order
          Lists,          \* answers of tools/list
          Alike,          \* rules of findBestMcpTool: relations of names, in order
          Replies,        \* [chunks, calls, finish]: what the model may answer
          Casts,          \* bound: sets of requests that occur together
          MaxIterations, MaxFaults

VARIABLES chat, linked,   \* the chat's row, the tools of chat_aiTools
          pc, held,       \* held: the tools an edit links, the tools a stream read
          configs,        \* ephemeralConfigs
          offered,        \* params.tools: names, with the server that listed them
          messages, text, \* messages pushed, fullText
          todo, turn,     \* calls of the reply not yet carried out, iteration
          match,          \* bestMatch, held between two calls of the server
          told,           \* ending events sent to the client
          gone,           \* streams whose client is gone
          calls,          \* history: tools/call of a stream: [name, server, tool, late]
          said,           \* history: whether the text was what the model meant
          wanted, crossed, faults

vars == <<chat, linked, pc, held, configs, offered, messages, text, todo, turn, match, told,
          gone, calls, said, wanted, crossed, faults>>
chats   == <<chat, linked, wanted, crossed>>
streams == <<configs, offered, messages, text, todo, turn, match, told, gone, calls, said>>

-----------------------------------------------------------------------------
Plain(x)  == [kind |-> "plain", server |-> -1, tool |-> x]
Mcp(n, x) == [kind |-> "mcp", server |-> n, tool |-> x]       \* mcp_e{idx}_{toolName}

Requests == Edits \cup Drops \cup Streams
Goto(q, label) == pc' = [pc EXCEPT ![q] = label]
Busy(q) == pc[q] \notin {"idle", "done"}
Fault == faults < MaxFaults /\ faults' = faults + 1

Init == /\ chat = TRUE /\ linked = Own
        /\ \E cast \in Casts : pc = [q \in Requests |-> IF q \in cast THEN "idle" ELSE "done"]
        /\ held = [q \in Requests |-> {}]
        /\ configs = [s \in Streams |-> <<>>] /\ offered = [s \in Streams |-> {}]
        /\ messages = [s \in Streams |-> <<>>] /\ text = [s \in Streams |-> <<>>]
        /\ todo = [s \in Streams |-> <<>>] /\ turn = [s \in Streams |-> 0]
        /\ match = [s \in Streams |-> "none"] /\ told = [s \in Streams |-> 0]
        /\ gone = {} /\ calls = [s \in Streams |-> {}] /\ said = [s \in Streams |-> TRUE]
        /\ wanted = Own /\ crossed = FALSE /\ faults = 0

-----------------------------------------------------------------------------
(* The chat and its tools.                                                 *)

\* update, and the tools it links.  A chat that is not there is an error.
Load(e) ==
  /\ e \in Edits /\ pc[e] = "idle"
  /\ \E ts \in SUBSET Own : held' = [held EXCEPT ![e] = ts]
  /\ crossed' = (crossed \/ \E p \in Edits \cup Drops : Busy(p))
  /\ Goto(e, IF chat THEN "clear" ELSE "done")
  /\ UNCHANGED <<chat, linked, streams, wanted, faults>>

\* Mutant: the links that were there are left.
KeepLinks(e) ==
  /\ e \in Edits /\ pc[e] = "clear"
  /\ linked' = linked /\ wanted' = held[e]
  /\ Goto(e, "link")
  /\ UNCHANGED <<chat, held, streams, crossed, faults>>

\* setTools: the links are taken away, then made, in no transaction.
Clear(e) ==
  /\ e \in Edits /\ pc[e] = "clear"
  /\ linked' = {} /\ wanted' = held[e]
  /\ Goto(e, "link")
  /\ UNCHANGED <<chat, held, streams, crossed, faults>>

\* bulkCreate: one link that exists, or a chat that does not, and none is made.
Link(e) ==
  /\ e \in Edits /\ pc[e] = "link"
  /\ linked' = IF chat /\ linked \cap held[e] = {} THEN linked \cup held[e] ELSE linked
  /\ Goto(e, "done")
  /\ UNCHANGED <<chat, held, streams, wanted, crossed, faults>>

LinkFails(e) ==
  /\ e \in Edits /\ pc[e] = "link" /\ Fault
  /\ crossed' = TRUE
  /\ Goto(e, "done")
  /\ UNCHANGED <<chat, linked, held, streams, wanted>>

\* delete; the links go with the row.
Drop(d) ==
  /\ d \in Drops /\ pc[d] = "idle"
  /\ chat' = FALSE /\ linked' = {}
  /\ Goto(d, "done")
  /\ UNCHANGED <<held, streams, wanted, crossed, faults>>

-----------------------------------------------------------------------------
(* streamChat                                                              *)

\* The stream ends; a client that is there is told how.
End(s) == /\ told' = [told EXCEPT ![s] = IF s \in gone THEN @ ELSE @ + 1]
          /\ Goto(s, "done")

\* The chat is read with its tools; without it the controller tells the error.
Open(s) ==
  /\ s \in Streams /\ pc[s] = "idle"
  /\ held' = [held EXCEPT ![s] = linked]
  /\ offered' = [offered EXCEPT ![s] = {[name |-> Plain(x), by |-> "own"] : x \in linked}]
  /\ IF chat THEN Goto(s, "list") /\ UNCHANGED told ELSE End(s)
  /\ UNCHANGED <<chats, configs, messages, text, todo, turn, match, gone, calls, said, faults>>

\* loadEphemeralMcpTools, one server at a time: its place is taken before it is
\* asked, and it keeps it when it does not answer.
\* Mutant: the servers that answered are numbered.
NumberAnswers(s) ==
  /\ s \in Streams /\ pc[s] = "list" /\ Len(configs[s]) < Len(Servers) /\ s \notin gone
  /\ \/ \E names \in Lists :
          LET n == Len(configs[s]) IN
          /\ configs' = [configs EXCEPT ![s] = Append(@, Servers[n + 1])]
          /\ offered' = [offered EXCEPT ![s] = @ \cup
               {[name |-> Mcp(n + 1, x), by |-> Servers[n + 1]] : x \in ToSet(names)}]
          /\ UNCHANGED faults
     \/ Fault /\ configs' = [configs EXCEPT ![s] = Append(@, Servers[Len(@) + 1])]
              /\ UNCHANGED offered
  /\ UNCHANGED <<chats, pc, held, messages, text, todo, turn, match, told, gone, calls, said>>

List(s) ==
  /\ s \in Streams /\ pc[s] = "list" /\ Len(configs[s]) < Len(Servers) /\ s \notin gone
  /\ configs' = [configs EXCEPT ![s] = Append(@, Servers[Len(@) + 1])]
  /\ \/ \E names \in Lists :
          /\ offered' = [offered EXCEPT ![s] = @ \cup
               {[name |-> Mcp(Len(configs[s]), x), by |-> Servers[Len(configs[s]) + 1]]
                  : x \in ToSet(names)}]
          /\ UNCHANGED faults
     \/ Fault /\ UNCHANGED offered
  /\ UNCHANGED <<chats, pc, held, messages, text, todo, turn, match, told, gone, calls, said>>

Begin(s) ==
  /\ s \in Streams /\ pc[s] = "list" /\ (Len(configs[s]) = Len(Servers) \/ s \in gone)
  /\ Goto(s, "ask")
  /\ UNCHANGED <<chats, held, streams, faults>>

\* <think>...</think>: what a chunk leaves of the text, and whether the block is open.
Filter(inside, chunk) ==
  LET opens  == {n \in DOMAIN chunk : chunk[n] = "<think>"}
      start  == IF opens = {} THEN chunk
                ELSE SubSeq(chunk, 1, (CHOOSE n \in opens : \A k \in opens : n <= k) - 1)
      open   == inside \/ opens # {}
      closes == {n \in DOMAIN start : start[n] = "</think>"}
  IN  IF open /\ closes # {}
      THEN [inside |-> FALSE,
            text   |-> SubSeq(start, 1 + CHOOSE n \in closes : \A k \in closes : n >= k, Len(start))]
      ELSE [inside |-> open, text |-> IF open THEN <<>> ELSE start]

Shown(chunks) ==
  FoldLeft(LAMBDA acc, c : LET f == Filter(acc.inside, c)
                           IN  [inside |-> f.inside, text |-> acc.text \o f.text],
           [inside |-> FALSE, text |-> <<>>], chunks).text

\* What lies outside the blocks, wherever the chunks are cut.
Meant(chunks) ==
  FoldLeft(LAMBDA acc, w :
             IF w = "<think>" THEN [acc EXCEPT !.inside = TRUE]
             ELSE IF w = "</think>" THEN [acc EXCEPT !.inside = FALSE]
             ELSE IF acc.inside THEN acc ELSE [acc EXCEPT !.text = Append(@, w)],
           [inside |-> FALSE, text |-> <<>>], FlattenSeq(chunks)).text

TagsAlone(chunks) == \A n \in DOMAIN chunks : ToSet(chunks[n]) \cap {"<think>", "</think>"} # {}
                                                 => Len(chunks[n]) = 1

\* parseGemmaToolCalls: calls the model writes into its text.
Written(shown, x) == [n \in 1..Len(SelectSeq(shown, LAMBDA w : w = "google:tool_code"))
                        |-> [kind |-> "google", server |-> -1, tool |-> x]]

\* Mutant: one iteration too many.
OneMoreTurn(s) == turn[s] <= MaxIterations

\* The loop goes on up to the iterations it may take.
MoreTurns(s) == turn[s] < MaxIterations

\* The reply: the calls the model makes, those it writes as text, or neither.  Calls
\* of a reply that was cut short by its length are dropped.
Reply(s) ==
  /\ s \in Streams /\ pc[s] = "ask" /\ s \notin gone /\ MoreTurns(s)
  /\ \E r \in Replies :
       LET shown == Shown(r.chunks)
           made  == r.calls # <<>> /\ r.finish # "length"
           batch == IF made THEN r.calls ELSE Written(shown, r.tool)
       IN  /\ said' = [said EXCEPT ![s] = @ /\ (TagsAlone(r.chunks) => shown = Meant(r.chunks))]
           /\ text' = [text EXCEPT ![s] = shown]
           /\ todo' = [todo EXCEPT ![s] = batch]
           /\ messages' = IF batch = <<>> THEN messages
                          ELSE [messages EXCEPT ![s] = Append(@,
                                 [role |-> "assistant", turn |-> turn[s],
                                  calls |-> IF made THEN Len(batch) ELSE 0])]
           /\ IF batch = <<>> THEN End(s) /\ UNCHANGED turn
              ELSE /\ Goto(s, "call") /\ UNCHANGED told
                   /\ turn' = [turn EXCEPT ![s] = @ + 1]
  /\ UNCHANGED <<chats, held, configs, offered, match, gone, calls, faults>>

\* Max tool call iterations reached; an error of the stream; an abort.
GiveUp(s) ==
  /\ s \in Streams /\ pc[s] = "ask" /\ (~MoreTurns(s) \/ s \in gone)
  /\ End(s)
  /\ UNCHANGED <<chats, held, configs, offered, messages, text, todo, turn, match, gone, calls,
                 said, faults>>

ReplyFails(s) ==
  /\ s \in Streams /\ pc[s] = "ask" /\ s \notin gone /\ Fault
  /\ End(s)
  /\ UNCHANGED <<chats, held, configs, offered, messages, text, todo, turn, match, gone, calls, said>>

-----------------------------------------------------------------------------
(* dispatchToolCall                                                        *)

\* findBestMcpTool: the first rule that some name of the list meets, and its first name.
Best(asked, names) ==
  LET meets(rule) == SelectSeq(names, LAMBDA x : <<asked, x>> \in Alike[rule])
      rules == {r \in DOMAIN Alike : meets(r) # <<>>}
  IN  IF rules = {} THEN "none" ELSE Head(meets(CHOOSE r \in rules : \A k \in rules : r <= k))

\* The result is pushed and told: a stream whose client is gone ends there.
Answer(s) ==
  LET left == Tail(todo[s]) IN
  /\ todo' = [todo EXCEPT ![s] = left]
  /\ messages' = [messages EXCEPT ![s] = Append(@, [role |-> "tool", turn |-> turn[s] - 1,
                                                   calls |-> 0])]
  /\ Goto(s, IF s \in gone THEN "done" ELSE IF left = <<>> THEN "ask" ELSE "call")

\* mcpCallTool, on the server a position stands for.
Called(s, n, x) ==
  calls' = [calls EXCEPT ![s] = @ \cup {[name |-> Head(todo[s]), server |-> configs[s][n + 1],
                                         tool |-> x, late |-> s \in gone]}]

\* Route 1: the position picks the server; an unknown one is an error, and an error
\* is a result like another.
CallNamed(s) ==
  LET c == Head(todo[s]) IN
  /\ s \in Streams /\ pc[s] = "call" /\ c.kind = "mcp"
  /\ IF c.server < Len(configs[s]) THEN Called(s, c.server, c.tool) /\ Goto(s, "wait")
                                   ELSE UNCHANGED calls /\ Goto(s, "answer")
  /\ UNCHANGED <<chats, held, configs, offered, messages, text, todo, turn, match, told, gone,
                 said, faults>>

\* Mutant: the rest of the batch is carried out for nobody.
CarryOn(s) ==
  /\ s \in Streams /\ pc[s] \in {"wait", "answer"}
  /\ todo' = [todo EXCEPT ![s] = Tail(@)]
  /\ messages' = [messages EXCEPT ![s] = Append(@, [role |-> "tool", turn |-> turn[s] - 1,
                                                   calls |-> 0])]
  /\ Goto(s, IF todo'[s] = <<>> THEN "ask" ELSE "call")
  /\ UNCHANGED <<chats, held, configs, offered, text, turn, match, told, gone, calls, said, faults>>

\* The server answers or fails.
Returned(s) ==
  /\ s \in Streams /\ pc[s] \in {"wait", "answer"}
  /\ Answer(s)
  /\ UNCHANGED <<chats, held, configs, offered, text, turn, match, told, gone, calls, said, faults>>

\* Route 2: functionHandler looks for a tool of the owner, whatever the chat has; one
\* it does not find is a text, not an error.  Only an error leads to the servers.
CallPlain(s) ==
  /\ s \in Streams /\ pc[s] = "call" /\ Head(todo[s]).kind = "plain"
  /\ \/ Goto(s, "answer") /\ UNCHANGED faults
     \/ Fault /\ Goto(s, IF configs[s] # <<>> THEN "match" ELSE "answer")
  /\ UNCHANGED <<chats, held, streams>>

\* Route 0: a call written as text goes to the first server or nowhere.
CallWritten(s) ==
  /\ s \in Streams /\ pc[s] = "call" /\ Head(todo[s]).kind = "google"
  /\ Goto(s, IF configs[s] # <<>> THEN "match" ELSE "answer")
  /\ UNCHANGED <<chats, held, streams, faults>>

\* The first server lists its tools again; the best match is called, whoever listens.
Match(s) ==
  /\ s \in Streams /\ pc[s] = "match"
  /\ \E names \in Lists \cup {<<>>} :
       LET best == Best(Head(todo[s]).tool, names) IN
       IF best = "none" THEN Goto(s, "answer") /\ UNCHANGED calls
       ELSE Called(s, 0, best) /\ Goto(s, "wait")
  /\ UNCHANGED <<chats, held, configs, offered, messages, text, todo, turn, match, told, gone,
                 said, faults>>

\* The client closes its connection.
Leave(s) ==
  /\ s \in Streams /\ Busy(s) /\ s \notin gone
  /\ gone' = gone \cup {s}
  /\ UNCHANGED <<chats, pc, held, configs, offered, messages, text, todo, turn, match, told,
                 calls, said, faults>>

Next == \E q \in Requests :
          \/ Load(q) \/ Clear(q) \/ Link(q) \/ LinkFails(q) \/ Drop(q)
          \/ Open(q) \/ List(q) \/ Begin(q) \/ Reply(q) \/ GiveUp(q) \/ ReplyFails(q)
          \/ CallNamed(q) \/ Returned(q) \/ CallPlain(q) \/ CallWritten(q) \/ Match(q)
          \/ Leave(q)

Spec == Init /\ [][Next]_vars

-----------------------------------------------------------------------------
TypeOK == /\ linked \subseteq Own /\ wanted \subseteq Own
          /\ \A s \in Streams : /\ turn[s] \in 0..MaxIterations /\ told[s] \in 0..1
                                /\ Len(configs[s]) <= Len(Servers)
          /\ faults \in 0..MaxFaults

\* A tool called under a name that a server offered is called on that server, under its
\* own name, even when a server before it did not answer; a tool of the owner is called on
\* none, unless its handler failed: then the first server may have one that resembles it.
\* A client that has gone leaves at most one call of a server to be made after it.
ToolsGoHome ==
  \A s \in Streams :
    /\ \A c \in calls[s], o \in offered[s] :
         c.name = o.name =>
           IF o.by = "own" THEN c.server = Servers[1] /\ faults > 0
           ELSE c.server = o.by /\ c.tool = o.name.tool
    /\ Cardinality({c \in calls[s] : c.late}) <= 1

\* Whenever the model is asked again, every call it made in an earlier turn has one
\* result, and its text was shown as it was meant when a tag is a chunk of its own.
\* A client that stays is told one ending.
EveryCallAnswered ==
  \A s \in Streams :
    /\ pc[s] = "ask" =>
         \A n \in DOMAIN messages[s] : messages[s][n].calls > 0 =>
            Len(SelectSeq(messages[s], LAMBDA m : m.role = "tool" /\ m.turn = messages[s][n].turn))
              = messages[s][n].calls
    /\ said[s]
    /\ pc[s] = "done" /\ configs[s] # <<>> /\ s \notin gone => told[s] = 1

\* When no two requests overlapped and none failed, the chat has the tools that were
\* asked for last.
LinksAsAsked ==
  chat /\ ~crossed /\ (\A e \in Edits : ~Busy(e)) => linked = wanted
================================================================================
