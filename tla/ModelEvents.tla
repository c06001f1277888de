----------------------------- MODULE ModelEvents -----------------------------
(***************************************************************************)
(* The events of one realtime conversation (dataDecode).  Every event but  *)
(* the deltas is first written to the log, and the handlers of later       *)
(* events run while it waits; deltas are handled at once.  Each handler    *)
(* holds the session object that was in the map when its event came: the   *)
(* greeting replaces that object, and hanging up removes it.               *)
(*                                                                         *)
(* Yandex announces a tool call in the text of a response.  The text       *)
(* deltas reveal it early: the audio is muted and the response cancelled,  *)
(* and the tool runs from the buffered text when the response is done.     *)
(* The model may have completed the response before it sees the cancel.    *)
(***************************************************************************)
EXTENDS Integers, FiniteSets

CONSTANTS MaxResponses, \* bound: responses of a conversation
          MaxPending    \* bound: events that wait for the log or a tool at once

ModelEventsConstants == MaxResponses \in Nat /\ MaxPending \in Nat

VARIABLES vendor,    \* "yandex", or "openai" for both others
          entry,     \* sessions.get(channelId): an object, 0 when there is none
          objs,      \* session objects: [conn, muted, text, whole], the text buffer as the tool
                     \* calls that begin in it and those that are whole
          said,      \* external: how far the model is with each response
          handlers,  \* [ev, r, obj, at]: events that are being handled
          ran,       \* how often the tool that a response calls was run
          answered,  \* tool results sent to the model
          played,    \* responses with audio that went to the caller after the tool was announced
          overtaken, \* history: responses whose tool call met the handler of another out of turn
          cut,       \* history: responses cancelled after their whole tool call
          mute       \* history: responses whose tool had no answer for the model

vars == <<vendor, entry, objs, said, handlers, ran, answered, played, overtaken, cut, mute>>

-----------------------------------------------------------------------------
Responses == 1 .. MaxResponses
\* 1: createConnection, 2: the greeting, 3: made by an event of a closed session.
Objects == 1 .. 3
NewObject == [conn |-> FALSE, muted |-> FALSE, text |-> {}, whole |-> {}]

Handlers(ev, r) == {h \in handlers : h.ev = ev /\ h.r = r}
Closed == entry \in {0, 3}
Event(ev, r) ==
    /\ Cardinality(handlers) < MaxPending
    /\ handlers' = handlers \cup {[ev |-> ev, r |-> r, obj |-> entry, at |-> "logging"]}
\* History: an event that is handled before an earlier one that shares its buffer.
Before(h, ev, r) ==
    /\ h.at \in {"logging", "emptying"}
    /\ \/ h.ev \in {"created", "done"} /\ h.r < r
       \/ h.ev = "created" /\ h.r = r /\ ev # "created"
Overtaken(ev, r) ==
    overtaken \cup {q \in Responses : \E h \in handlers : Before(h, ev, r) /\ q \in {r, h.r}}
Silent == \A r \in Responses : said[r] \in {"none", "done"}

-----------------------------------------------------------------------------
\* The model, external: one response after the other.  A session that was closed gets
\* no more events.
Create(r) ==
    /\ ~Closed /\ Silent /\ said[r] = "none" /\ \A q \in 1 .. r - 1 : said[q] = "done"
    /\ said' = [said EXCEPT ![r] = "created"]
    /\ Event("created", r)
    /\ UNCHANGED <<vendor, entry, objs, ran, answered, played, overtaken, cut, mute>>

\* The text delta that reveals a tool call.
Announce(r) ==
    /\ vendor = "yandex" /\ ~Closed /\ said[r] = "created"
    /\ said' = [said EXCEPT ![r] = "announced"]
    /\ objs' = [objs EXCEPT ![entry].text = @ \cup {r}, ![entry].muted = TRUE]
    /\ overtaken' = Overtaken("delta", r)
    /\ UNCHANGED <<vendor, entry, handlers, ran, answered, played, cut, mute>>

\* The text delta that completes its arguments.
Word(r) ==
    /\ ~Closed /\ said[r] = "announced"
    /\ said' = [said EXCEPT ![r] = "worded"]
    /\ objs' = [objs EXCEPT ![entry].whole = @ \cup ({r} \cap objs[entry].text)]
    /\ overtaken' = Overtaken("delta", r)
    /\ UNCHANGED <<vendor, entry, handlers, ran, answered, played, cut, mute>>

\* response.audio.delta
PlayDelta(r) ==
    /\ ~Closed /\ said[r] \in {"announced", "worded"} /\ ~objs[entry].muted
    /\ played' = played \cup {r}
    /\ UNCHANGED <<vendor, entry, objs, said, handlers, ran, answered, overtaken, cut, mute>>

\* response.output_text.done, unless the response was cancelled in time.
TextDone(r) ==
    /\ ~Closed /\ said[r] = "worded"
    /\ said' = [said EXCEPT ![r] = "told"]
    /\ Event("text", r)
    /\ UNCHANGED <<vendor, entry, objs, ran, answered, played, overtaken, cut, mute>>

\* response.done; the others list their function calls here.
Done(r, calls) ==
    /\ ~Closed /\ said[r] \in {"created", "announced", "worded", "told"}
    /\ calls => vendor = "openai"
    /\ cut' = IF said[r] = "worded" THEN cut \cup {r} ELSE cut
    /\ said' = [said EXCEPT ![r] = "done"]
    /\ Event(IF calls THEN "called" ELSE "done", r)
    /\ UNCHANGED <<vendor, entry, objs, ran, answered, played, overtaken, mute>>

\* input_audio_buffer.committed, and the other events that only refresh the session.
Committed ==
    /\ ~Closed /\ \E r \in Responses : said[r] = "none"
    /\ Event("committed", 0)
    /\ UNCHANGED <<vendor, entry, objs, said, ran, answered, played, overtaken, cut, mute>>

\* session_expired and the fatal errors.
Expire ==
    /\ ~Closed
    /\ Event("expired", 0)
    /\ UNCHANGED <<vendor, entry, objs, said, ran, answered, played, overtaken, cut, mute>>

-----------------------------------------------------------------------------
\* rtInitAudioResponse: a copy of the session takes its place.
Greet ==
    /\ entry = 1
    /\ objs' = [objs EXCEPT ![2] = objs[1]]
    /\ entry' = 2
    /\ overtaken' = overtaken \cup objs[1].text
    /\ UNCHANGED <<vendor, said, handlers, ran, answered, played, cut, mute>>

Move(h, at) == handlers' = (handlers \ {h}) \cup {[h EXCEPT !.at = at]}
Leave(h) == handlers' = handlers \ {h}

\* updateSession, for the channel of the event: without a session it makes one.
Refresh == entry' = IF entry = 0 THEN 3 ELSE entry

HandleCreated(h) ==
    /\ h.ev = "created" /\ h.at = "logging"
    /\ Refresh
    /\ objs' = [objs EXCEPT ![h.obj].text = {}, ![h.obj].whole = {}, ![h.obj].muted = FALSE]
    /\ Leave(h)
    /\ overtaken' = Overtaken(h.ev, h.r)
    /\ UNCHANGED <<vendor, said, ran, answered, played, cut, mute>>

\* handleTextToolCalls, of the event's own text.
HandleText(h) ==
    /\ h.ev = "text" /\ h.at = "logging"
    /\ ran' = [ran EXCEPT ![h.r] = @ + 1]
    /\ Leave(h)
    /\ UNCHANGED <<vendor, entry, objs, said, answered, played, overtaken, cut, mute>>

\* Mutant: the buffer is left to the next response.
RunWithoutMark(h) ==
    /\ h.ev \in {"done", "called"} /\ h.at = "logging"
    /\ Move(h, "usage")
    /\ UNCHANGED <<vendor, entry, objs, said, ran, answered, played, overtaken, cut, mute>>

\* response.done of a muted response runs the tools of the buffer, whether or not the
\* response was cancelled, and empties it afterwards.
HandleMuted(h) ==
    /\ h.ev \in {"done", "called"} /\ h.at = "logging"
    /\ IF objs[h.obj].muted /\ objs[h.obj].text # {}
       THEN /\ ran' = [r \in Responses |-> IF r \in objs[h.obj].whole THEN ran[r] + 1 ELSE ran[r]]
            /\ Move(h, "emptying")
       ELSE Move(h, "usage") /\ UNCHANGED ran
    /\ overtaken' = Overtaken(h.ev, h.r)
    /\ UNCHANGED <<vendor, entry, objs, said, answered, played, cut, mute>>

Empty(h) ==
    /\ h.at = "emptying"
    /\ objs' = [objs EXCEPT ![h.obj].text = {}, ![h.obj].whole = {}, ![h.obj].muted = FALSE]
    /\ Move(h, "usage")
    /\ UNCHANGED <<vendor, entry, said, ran, answered, played, overtaken, cut, mute>>

\* accumulateRealtimeTokens, then the function calls, then updateSession.
RunTool(h) ==
    /\ h.at = "usage" /\ h.ev = "called"
    /\ ran' = [ran EXCEPT ![h.r] = @ + 1]
    /\ Move(h, "answering")
    /\ UNCHANGED <<vendor, entry, objs, said, answered, played, overtaken, cut, mute>>

\* The result goes to the connection of the session that the handler holds, if there is
\* one to send: the tool may throw, return nothing, or ask for no answer.
Respond(h) ==
    /\ h.at = "answering"
    /\ \/ /\ answered' = IF objs[h.obj].conn THEN answered \cup {h.r} ELSE answered
          /\ UNCHANGED mute
       \/ mute' = mute \cup {h.r} /\ UNCHANGED answered
    /\ Move(h, "refreshing")
    /\ UNCHANGED <<vendor, entry, objs, said, ran, played, overtaken, cut>>

Finish(h) ==
    /\ \/ h.at = "usage" /\ h.ev = "done"
       \/ h.at = "refreshing"
       \/ h.ev = "committed"
    /\ Refresh
    /\ Leave(h)
    /\ UNCHANGED <<vendor, objs, said, ran, answered, played, overtaken, cut, mute>>

\* closeConnection: the error handler calls it, and so does the end of the call.
Hangup ==
    /\ objs' = [o \in Objects |-> [objs[o] EXCEPT !.conn = FALSE]]
    /\ entry' = 0
    /\ UNCHANGED <<vendor, said, ran, answered, played, overtaken, cut, mute>>

HandleExpired(h) == h.ev = "expired" /\ Leave(h) /\ Hangup

Close == ~Closed /\ Hangup /\ UNCHANGED handlers

-----------------------------------------------------------------------------
Init ==
    /\ vendor \in {"yandex", "openai"}
    /\ entry = 1
    /\ objs = [o \in Objects |-> IF o = 1 THEN [NewObject EXCEPT !.conn = TRUE] ELSE NewObject]
    /\ said = [r \in Responses |-> "none"]
    /\ handlers = {} /\ answered = {} /\ played = {} /\ overtaken = {} /\ cut = {}
    /\ mute = {}
    /\ ran = [r \in Responses |-> 0]

Next ==
    \/ \E r \in Responses : \/ Create(r) \/ Announce(r) \/ Word(r) \/ PlayDelta(r) \/ TextDone(r)
                            \/ \E calls \in BOOLEAN : Done(r, calls)
    \/ Committed \/ Expire \/ Greet \/ Close
    \/ \E h \in handlers : \/ HandleCreated(h) \/ HandleText(h) \/ HandleMuted(h) \/ Empty(h)
                           \/ RunTool(h) \/ Respond(h) \/ Finish(h) \/ HandleExpired(h)

Spec == Init /\ [][Next]_vars

-----------------------------------------------------------------------------
ObjectKind  == [conn : BOOLEAN, muted : BOOLEAN, text : SUBSET Responses, whole : SUBSET Responses]
HandlerKind == [ev : {"created", "text", "done", "called", "committed", "expired"},
                r : 0 .. MaxResponses, obj : Objects,
                at : {"logging", "emptying", "usage", "answering", "refreshing"}]

TypeOK ==
    /\ vendor \in {"yandex", "openai"} /\ entry \in 0 .. 3
    /\ objs \in [Objects -> ObjectKind] /\ handlers \subseteq HandlerKind
    /\ said \in [Responses -> {"none", "created", "announced", "worded", "told", "done"}]
    /\ ran \in [Responses -> Nat]
    /\ answered \subseteq Responses /\ played \subseteq Responses
    /\ overtaken \subseteq Responses /\ cut \subseteq Responses /\ mute \subseteq Responses

\* "Response was cancelled after [TOOL_CALL_START] detection - execute tools from buffer":
\* the caller hears nothing of a tool call, and the tool of a response that was cancelled
\* after its arguments had come runs exactly once, whatever else happens to the session meanwhile, unless the log lets
\* the handlers of two responses overtake each other, for they share one buffer.
CancelledRunsOnce ==
    \A r \in Responses \ overtaken :
        /\ r \notin played
        /\ r \in cut => ran[r] <= 1 /\ (Handlers("done", r) = {} => ran[r] = 1)

\* The result of a tool that has one to send reaches the model while the session lives,
\* also when the greeting replaced the session object during the tool's work.
ToolsAnswered ==
    \A r \in Responses :
        vendor = "openai" /\ ran[r] > 0 /\ Handlers("called", r) = {} /\ ~Closed
            => r \in answered \cup mute

ToolCallsSettled == CancelledRunsOnce /\ ToolsAnswered

\* The invariants below carry the proof that tool calls are settled.  Responses come one
\* after the other, and only Yandex announces its tools in the text.
InTurn ==
    /\ \A r \in Responses : said[r] # "none" => \A q \in Responses : q < r => said[q] = "done"
    /\ vendor = "openai" => cut = {} /\ \A r \in Responses : said[r] \in {"none", "created", "done"}
    /\ \A r \in cut : said[r] = "done"

\* What is being handled has happened, and is handled for a session that was open then.
Happened ==
    /\ \A h \in handlers :
          /\ h.obj \in {1, 2} /\ (entry = 1 => h.obj = 1)
          /\ h.ev \in {"created", "text", "done", "called"} => h.r \in Responses /\ said[h.r] # "none"
          /\ h.ev \in {"done", "called"} => said[h.r] = "done"
          /\ h.ev = "called" => vendor = "openai"
          /\ h.ev = "text" => vendor = "yandex" /\ said[h.r] \in {"told", "done"} /\ h.r \notin cut
          /\ h.at = "emptying" => h.ev \in {"done", "called"}
          /\ h.at \in {"answering", "refreshing"} => h.ev = "called"
    /\ \A g, h \in handlers :
          g.ev \in {"done", "called"} /\ h.ev \in {"done", "called"} /\ g.r = h.r => g = h

\* An open session has its connection in every object a handler may hold, and a tool that
\* ran has its result sent or about to be.
Connected ==
    /\ ~Closed => objs[1].conn /\ objs[entry].conn
    /\ \A r \in Responses :
          vendor = "openai" /\ ran[r] > 0 /\ ~Closed =>
             r \in answered \cup mute \/ \E h \in handlers : h.r = r /\ h.ev = "called" /\ h.at = "answering"

\* A response whose text is being buffered, or was when it was cancelled.
Buffered(r) == said[r] \in {"announced", "worded"} \/ r \in cut

\* Nothing of an earlier response, nor the beginning of its own, is still to be handled
\* when the text of a response that is not overtaken is buffered.
Undisturbed ==
    \A r \in Responses \ overtaken : Buffered(r) =>
        \A h \in handlers :
            /\ h.ev = "created" /\ h.at = "logging" => h.r > r
            /\ h.ev \in {"done", "called"} /\ h.at \in {"logging", "emptying"} => h.r >= r

\* Its text is in the buffer of the session, and in no other, and no tool of it has run.
InBuffer ==
    /\ \A o \in Objects : objs[o].whole \subseteq objs[o].text
    /\ \A o \in Objects : \A r \in objs[o].text : said[r] \notin {"none", "created"}
    /\ vendor = "openai" => \A o \in Objects : objs[o].text = {}
    /\ \A r \in Responses \ overtaken :
          /\ said[r] \in {"none", "created", "announced", "worded"} => ran[r] = 0
          /\ said[r] \in {"announced", "worded"} /\ ~Closed =>
                /\ objs[entry].muted /\ r \in objs[entry].text
                /\ said[r] = "worded" => r \in objs[entry].whole
                /\ \A o \in Objects : r \in objs[o].text => o = entry

\* A response that was cancelled waits in the one buffer that has its call, or has run it.
Waits(r, h) ==
    /\ h.ev = "done" /\ h.r = r /\ h.at \in {"logging", "emptying"}
    /\ \A o \in Objects : r \in objs[o].whole => o = h.obj
    /\ h.at = "emptying" => ran[r] = 1
    /\ h.at = "logging" => /\ ran[r] = 0 /\ r \in objs[h.obj].whole /\ objs[h.obj].muted
                           /\ \A g \in handlers : g.at = "emptying" => g.r < r
HasRun(r) == ran[r] = 1 /\ \A o \in Objects : r \notin objs[o].whole
Cancelled == \A r \in cut \ overtaken : HasRun(r) \/ \E h \in handlers : Waits(r, h)

Unheard == \A r \in Responses \ overtaken : r \notin played

IInv == /\ TypeOK /\ InTurn /\ Happened /\ Connected
        /\ Undisturbed /\ InBuffer /\ Cancelled /\ Unheard
==============================================================================
