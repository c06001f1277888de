------------------------- MODULE NonRealtimePipeline -------------------------
(***************************************************************************)
(* One call of the non-realtime pipeline: VAD, then speech to text, the    *)
(* language model, and speech for every sentence of its answer, with tools *)
(* and another answer in between.  Turns run side by side: a new one       *)
(* aborts the signal of the last, and every step of a turn looks at the    *)
(* signal it holds.  Speech of a sentence, and the handling of tools, hold *)
(* the signal that is the session's when they begin; none is 0.            *)
(***************************************************************************)
EXTENDS Integers, Sequences, FiniteSets

CONSTANTS MaxTurns,   \* bound: utterances of the caller
          MaxRounds,  \* bound: tool rounds of a turn
          Keep        \* trimHistory's maxMessages (50)

PipelineConstants == MaxTurns \in Nat /\ MaxRounds \in Nat /\ Keep \in Nat \ {0}

VARIABLES native,    \* the model takes audio, so nothing is transcribed
          session,   \* "none", "open" or "closed"
          greeting,  \* "none", "cdr" (cdrCreate is awaited) or "done"
          frame,     \* a frame is with the VAD
          vad,       \* vadState
          abort,     \* pipelineAbort: the turn whose controller it is
          aborted,   \* the turns whose signal is aborted
          speaking,  \* isSpeaking
          turns,     \* [at, round, calls, sig]
          speech,    \* synthesizeAndPlay calls: [turn, round, sig]
          stream,    \* StreamAudio has a stream of the call
          messages,  \* the conversation: [role, turn, round]
          strays,    \* history: turns that were interrupted in their last sentence and went on
          torn,      \* history: turns interrupted between a tool call and its result
          parted,       \* history: trimming separated a result from its call
          broken,    \* history: turns whose request the model refuses
          stale,     \* history: turns that were heard after the next had begun
          late,      \* history: what was under way when the session was closed
          mute       \* history: turns whose tool returned nothing

vars == <<native, session, greeting, frame, vad, abort, aborted, speaking, turns, speech,
          stream, messages, strays, torn, parted, broken, stale, late, mute>>
history == <<strays, torn, parted, broken, stale, late, mute>>

-----------------------------------------------------------------------------
Turns == 1 .. MaxTurns
Idle == [at |-> "idle", round |-> 0, calls |-> FALSE, sig |-> 0]
Begun == {t \in Turns : turns[t].at # "idle"}
Tooling == {t \in Turns : turns[t].at \in {"tooling", "running"}}
Goto(t, at) == turns' = [turns EXCEPT ![t].at = at]
Message(role, t) == [role |-> role, turn |-> t, round |-> turns[t].round]

\* The model wants every result right after its call, and a result for every call.
WellFormed(ms) == \A i \in DOMAIN ms :
    /\ ms[i].role = "tool" => i > 1 /\ ms[i - 1] = [ms[i] EXCEPT !.role = "call"]
    /\ ms[i].role = "call" => i < Len(ms) /\ ms[i + 1] = [ms[i] EXCEPT !.role = "tool"]

\* addUserMessage, addAssistantMessage: the system prompt and the last messages stay.
Trim(ms) == IF Len(ms) <= Keep THEN ms ELSE <<ms[1]>> \o SubSeq(ms, Len(ms) - Keep + 2, Len(ms))
Say(role, t) ==
    LET ms == Append(messages, Message(role, t))
    IN  /\ messages' = Trim(ms)
        /\ parted' = (parted \/ (Len(ms) > Keep /\ "call" \in {ms[1].role, ms[Len(ms) - Keep + 1].role}))

\* synthesizeAndPlay, up to its first await: addStream makes the stream at once.
Speak(t) ==
    /\ speech' = speech \cup {[turn |-> t, round |-> IF t = 0 THEN 0 ELSE turns[t].round, sig |-> abort]}
    /\ speaking' = TRUE /\ stream' = TRUE
Quiet == UNCHANGED <<speech, speaking, stream>>

\* abortPipeline
AbortPipeline == aborted' = IF abort = 0 THEN aborted ELSE aborted \cup {abort}

-----------------------------------------------------------------------------
\* createSession
Create ==
    /\ session = "none"
    /\ session' = "open" /\ greeting' = "cdr"
    /\ messages' = <<[role |-> "system", turn |-> 0, round |-> 0]>>
    /\ UNCHANGED <<native, frame, vad, abort, aborted, speaking, turns, speech, stream, history>>

Greet ==
    /\ greeting = "cdr"
    /\ greeting' = "done"
    /\ \/ Speak(0)
       \/ Quiet
    /\ UNCHANGED <<native, session, frame, vad, abort, aborted, turns, messages, history>>

\* Mutant: the turn that is under way goes on.
CloseOnly ==
    /\ session = "open"
    /\ session' = "closed"
    /\ abort' = 0 /\ speaking' = FALSE /\ messages' = <<>> /\ stream' = FALSE
    /\ late' = (IF frame THEN {"frame"} ELSE {}) \cup (IF greeting = "cdr" THEN {"greeting"} ELSE {})
    /\ torn' = torn \cup Tooling
    /\ UNCHANGED <<native, greeting, frame, vad, aborted, turns, speech, strays, parted, broken, stale, mute>>

\* closeSession
Close ==
    /\ session = "open"
    /\ session' = "closed"
    /\ AbortPipeline
    /\ abort' = 0 /\ speaking' = FALSE /\ messages' = <<>>
    /\ stream' = FALSE  \* the call removes its stream first
    /\ late' = (IF frame THEN {"frame"} ELSE {}) \cup (IF greeting = "cdr" THEN {"greeting"} ELSE {})
    /\ torn' = torn \cup Tooling
    /\ strays' = strays \cup {t \in Turns : turns[t].at \in {"last", "tooling", "running"} /\ t # abort}
    /\ UNCHANGED <<native, greeting, frame, vad, turns, speech, parted, broken, stale, mute>>

-----------------------------------------------------------------------------
\* processAudio: a whole frame goes to the VAD.
Frame ==
    /\ session = "open" /\ ~frame
    /\ frame' = TRUE
    /\ UNCHANGED <<native, session, greeting, vad, abort, aborted, speaking, turns, speech, stream, messages, history>>

\* processVadFrame: speech begins, and interrupts the bot if it is speaking.
SpeechStart ==
    /\ frame /\ vad = "idle" /\ Begun # Turns
    /\ frame' = FALSE /\ vad' = "speaking"
    /\ IF speaking
       THEN /\ AbortPipeline
            /\ abort' = 0 /\ speaking' = FALSE
            /\ torn' = torn \cup ({abort} \cap Tooling)
       ELSE UNCHANGED <<abort, aborted, speaking, torn>>
    /\ UNCHANGED <<native, session, greeting, turns, speech, stream, messages, strays, parted, broken, stale, late, mute>>

\* Mutant: the turn before goes on.
SpeechEndQuietly ==
    \E t \in Turns :
        /\ frame /\ vad = "speaking" /\ Begun = 1 .. t - 1
        /\ frame' = FALSE /\ vad' = "idle"
        /\ abort' = t /\ speaking' = FALSE
        /\ Goto(t, IF native THEN "asking" ELSE "transcribing")
        /\ UNCHANGED <<native, session, greeting, aborted, speech, stream, messages, history>>

\* Enough silence: runPipeline with a controller of its own (newPipeline).
SpeechEnd ==
    \E t \in Turns :
        /\ frame /\ vad = "speaking" /\ Begun = 1 .. t - 1
        /\ frame' = FALSE /\ vad' = "idle"
        /\ AbortPipeline
        /\ abort' = t /\ speaking' = FALSE
        /\ Goto(t, IF native THEN "asking" ELSE "transcribing")
        /\ torn' = torn \cup Tooling
        /\ UNCHANGED <<native, session, greeting, speech, stream, messages, strays, parted, broken, stale, late, mute>>

-----------------------------------------------------------------------------
\* runPipeline
Transcribe(t, heard) ==
    /\ turns[t].at = "transcribing"
    /\ IF heard /\ t \notin aborted
       THEN Say("user", t) /\ Goto(t, "asking")
       ELSE Goto(t, "over") /\ UNCHANGED <<messages, parted>>
    /\ UNCHANGED <<native, session, greeting, frame, vad, abort, aborted, speaking, speech, stream,
                   strays, torn, broken, stale, late, mute>>

Request(t, ms) ==
    IF WellFormed(ms) THEN Goto(t, "streaming") /\ UNCHANGED broken
                      ELSE Goto(t, "over") /\ broken' = broken \cup {t}

\* buildTools, then the request.
Ask(t) ==
    /\ turns[t].at = "asking"
    /\ IF t \in aborted THEN Goto(t, "over") /\ UNCHANGED broken ELSE Request(t, messages)

    /\ UNCHANGED <<native, session, greeting, frame, vad, abort, aborted, speaking, speech, stream, messages,
                   strays, torn, parted, stale, late, mute>>

\* The signal of a stream: the turn's own, or what the handling of tools found.
Silenced(t) == (IF turns[t].round = 0 THEN t ELSE turns[t].sig) \in aborted

Sentence(t) ==
    /\ turns[t].at = "streaming" /\ ~Silenced(t)
    /\ ~\E s \in speech : s.turn = t /\ s.round = turns[t].round
    /\ Speak(t)
    /\ UNCHANGED <<native, session, greeting, frame, vad, abort, aborted, turns, messages, history>>

\* The last sentence is awaited.
EndStream(t, calls) ==
    /\ turns[t].at = "streaming"
    /\ IF Silenced(t)
       THEN Goto(t, "over") /\ Quiet
       ELSE /\ turns' = [turns EXCEPT ![t].at = "last", ![t].calls = (calls /\ turns[t].round < MaxRounds)]
            /\ Speak(t)
    /\ UNCHANGED <<native, session, greeting, frame, vad, abort, aborted, messages, history>>

\* Nothing looks at the signal after the last sentence: the answer joins the conversation,
\* and its tools are handled with the signal that the session has by now.
Settle(t) ==
    /\ turns[t].at = "last"
    /\ ~\E s \in speech : s.turn = t /\ s.round = turns[t].round
    /\ IF turns[t].calls
       THEN /\ turns' = [turns EXCEPT ![t].at = "tooling", ![t].sig = abort]
            /\ Say("call", t)
       ELSE Goto(t, "over") /\ Say("reply", t)
    /\ strays' = IF abort = t THEN strays ELSE strays \cup {t}
    /\ UNCHANGED <<native, session, greeting, frame, vad, abort, aborted, speaking, speech, stream,
                   torn, broken, stale, late, mute>>

\* handleToolCalls
StartTool(t) ==
    /\ turns[t].at = "tooling"
    /\ Goto(t, IF turns[t].sig \in aborted THEN "over" ELSE "running")
    /\ UNCHANGED <<native, session, greeting, frame, vad, abort, aborted, speaking, speech, stream, messages, history>>

\* What a tool returns, or the error it throws, joins the conversation, unless it is
\* nothing: an empty answer of a webhook.
EndTool(t, empty) ==
    /\ turns[t].at = "running"
    /\ IF empty
       THEN mute' = mute \cup {t} /\ UNCHANGED messages
       ELSE messages' = Append(messages, Message("tool", t)) /\ UNCHANGED mute
    /\ IF turns[t].sig \in aborted
       THEN Goto(t, "over") /\ UNCHANGED broken
       ELSE IF WellFormed(messages')
            THEN turns' = [turns EXCEPT ![t].at = "streaming", ![t].round = @ + 1] /\ UNCHANGED broken
            ELSE Goto(t, "over") /\ broken' = broken \cup {t}
    /\ UNCHANGED <<native, session, greeting, frame, vad, abort, aborted, speaking, speech, stream,
                   strays, torn, parted, stale, late>>

-----------------------------------------------------------------------------
\* synthesizeAndPlay: the audio, and the end.
Play(s) ==
    /\ s.sig \notin aborted
    /\ stale' = IF \E t \in Begun : t > s.turn THEN stale \cup {s.turn} ELSE stale
    /\ UNCHANGED <<native, session, greeting, frame, vad, abort, aborted, speaking, turns, speech, stream,
                   messages, strays, torn, parted, broken, late, mute>>

EndSpeech(s) ==
    /\ speech' = speech \ {s} /\ speaking' = FALSE
    /\ UNCHANGED <<native, session, greeting, frame, vad, abort, aborted, turns, stream, messages, history>>

-----------------------------------------------------------------------------
Init ==
    /\ native \in BOOLEAN
    /\ session = "none" /\ greeting = "none" /\ frame = FALSE /\ vad = "idle"
    /\ abort = 0 /\ aborted = {} /\ speaking = FALSE
    /\ turns = [t \in Turns |-> Idle]
    /\ speech = {} /\ stream = FALSE /\ messages = <<>>
    /\ strays = {} /\ torn = {} /\ parted = FALSE /\ broken = {} /\ stale = {} /\ late = {} /\ mute = {}

Next ==
    \/ Create \/ Greet \/ Close \/ Frame \/ SpeechStart \/ SpeechEnd
    \/ \E t \in Turns : \/ \E b \in BOOLEAN : Transcribe(t, b) \/ EndStream(t, b) \/ EndTool(t, b)
                        \/ Ask(t) \/ Sentence(t) \/ Settle(t) \/ StartTool(t)
    \/ \E s \in speech : Play(s) \/ EndSpeech(s)

Spec == Init /\ [][Next]_vars

-----------------------------------------------------------------------------
TurnKind    == [at : {"idle", "transcribing", "asking", "streaming", "last", "tooling", "running", "over"},
                round : 0 .. MaxRounds, calls : BOOLEAN, sig : 0 .. MaxTurns]
SpeechKind  == [turn : 0 .. MaxTurns, round : 0 .. MaxRounds, sig : 0 .. MaxTurns]
MessageKind == [role : {"system", "user", "call", "tool", "reply"}, turn : 0 .. MaxTurns, round : 0 .. MaxRounds]

TypeOK ==
    /\ native \in BOOLEAN /\ session \in {"none", "open", "closed"} /\ greeting \in {"none", "cdr", "done"}
    /\ frame \in BOOLEAN /\ vad \in {"idle", "speaking"} /\ speaking \in BOOLEAN /\ stream \in BOOLEAN
    /\ abort \in 0 .. MaxTurns /\ aborted \subseteq Turns
    /\ turns \in [Turns -> TurnKind] /\ speech \subseteq SpeechKind /\ messages \in Seq(MessageKind)
    /\ strays \subseteq Turns /\ torn \subseteq Turns /\ parted \in BOOLEAN /\ broken \subseteq Turns
    /\ stale \subseteq 0 .. MaxTurns /\ late \subseteq {"frame", "greeting"}
    /\ mute \subseteq Turns

\* "Runs asynchronously, can be aborted via session.pipelineAbort": once the caller's next
\* utterance is being answered nothing of the turns before is heard, but for the greeting,
\* which has no signal, and the turns that went on to their tools after an interrupt.
NoStaleAudio == stale \subseteq strays \cup {0}

\* The model refuses no request: the conversation pairs every tool call with its result,
\* unless trimming or the caller's next utterance came between the two, or the tool
\* returned nothing, which is not sent to the model as a result.
RequestsAccepted == broken # {} => parted \/ torn # {} \/ strays # {} \/ mute # {}

\* A session that was closed makes no new audio stream, but for what no signal reaches.
ClosedIsQuiet == session = "closed" /\ stream => late # {} \/ strays # {}

\* The invariants below carry the proof that turns are settled.  The controller is the last
\* turn's; the turns before have been aborted.
Signals ==
    /\ abort = 0 \/ (abort \in Turns \ aborted /\ Begun = 1 .. abort)
    /\ \A t \in Begun : t = abort \/ t \in aborted
    /\ aborted \subseteq Begun
    /\ session = "none" => ~frame /\ Begun = {}
    /\ \A t \in Turns : turns[t].at \in {"tooling", "running"} \/ (turns[t].at = "last" /\ turns[t].calls)
                        => turns[t].round < MaxRounds

\* A turn that was not interrupted in its last sentence holds its own signal, in its tools
\* and rounds and in what it speaks.
OwnSignal ==
    /\ \A t \in Turns \ strays : turns[t].round > 0 \/ t \in Tooling => turns[t].sig = t
    /\ \A s \in speech : /\ s.turn \in Begun \cup {0}
                         /\ s.turn \in strays \cup {0} \/ s.sig = s.turn

\* Nothing is left under way by a session that was closed when nothing was late.
Closed ==
    session = "closed" /\ late = {} =>
        /\ ~frame /\ greeting # "cdr" /\ abort = 0
        /\ strays = {} => ~stream

\* The conversation can be sent to the model, or waits for the one result.
Chained(ms) == \A i \in DOMAIN ms :
    /\ ms[i].role = "tool" => i > 1 /\ ms[i - 1] = [ms[i] EXCEPT !.role = "call"]
    /\ ms[i].role = "call" /\ i < Len(ms) => ms[i + 1] = [ms[i] EXCEPT !.role = "tool"]
Dialogue ==
    ~parted /\ torn = {} /\ strays = {} /\ mute = {} =>
        /\ broken = {} /\ Tooling \subseteq {abort} /\ Chained(messages)
        /\ messages # <<>> /\ messages[Len(messages)].role = "call" => Tooling # {}
        /\ \A t \in Tooling : messages # <<>> /\ messages[Len(messages)] = Message("call", t)

IInv == TypeOK /\ Signals /\ OwnSignal /\ Closed /\ Dialogue /\ NoStaleAudio
==============================================================================
