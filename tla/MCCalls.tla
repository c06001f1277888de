------------------------------ MODULE MCCalls -------------------------------
(***************************************************************************)
(* What a call is made of, one component at a time: `which` says which is  *)
(* at work, and the variables of the others do not move.                   *)
(***************************************************************************)
EXTENDS Integers, Sequences, FiniteSets, SequenceTheorems, FiniteSetTheorems, TLAPS, TLC

CONSTANTS Buffers, Packets, Starts, Interrupts,     \* of StreamAudio
          MaxReconnect, Configured, Messages,       \* of RealtimeConnection
          Moh, MaxFaults, MaxAddresses,             \* of CallSession
          Calls, Translated, PortKnown, MaxUpdates, \* of RtpSessions
          MaxResponses, MaxPending,                 \* of ModelEvents
          MaxTurns, MaxRounds, Keep                 \* of NonRealtimePipeline

VARIABLES which,   \* the component at work
          present, starts, queue, busy, ctl, aborted, procs, arrived, sent, cut,
          configured, ws, timer, attempts, fatal, manual, accepted, dials, owner,
          channel, listening, moh, init, registered, cleanedUp, cleaner, held, cdr,
          hangups, event, orderly, lost, faults, translated, phase, entries,
          objects, updates, greeted, heard, portless, vendor, entry, objs, said,
          handlers, ran, answered, played, overtaken, native, session, greeting,
          frame, vad, abort, speaking, turns, speech, stream, messages, strays,
          torn, parted, broken, stale, late, hooked, ahead, linked, rtp, addresses,
          greetings, mute

vars == <<which, present, starts, queue, busy, ctl, aborted, procs, arrived, sent, cut,
          configured, ws, timer, attempts, fatal, manual, accepted, dials,
          owner, channel, listening, moh, init, registered, cleanedUp,
          cleaner, held, cdr, hangups, event, orderly, lost, faults,
          translated, phase, entries, objects, updates, greeted, heard,
          portless, vendor, entry, objs, said, handlers, ran, answered,
          played, overtaken, native, session, greeting, frame, vad, abort,
          speaking, turns, speech, stream, messages, strays, torn, parted,
          broken, stale, late, hooked, ahead, linked, rtp, addresses,
          greetings, mute>>

------------------------
\* Buffers, interrupts, the session removed and added again.
Stream == INSTANCE StreamAudio

\* The limit of the code, and messages enough to use it up after a connection.
Wire == INSTANCE RealtimeConnection

\* With or without music on hold, ended by either side, the PBX lost.
Call == INSTANCE CallSession

\* Two calls, with and without NAT, the RTP port known at once or later.
Rtp == INSTANCE RtpSessions

\* Two responses, of which one may overtake the other.
Talk == INSTANCE ModelEvents

\* Two turns of the caller, the second while the first is answered.
Turn == INSTANCE NonRealtimePipeline

\* What the components ask of their constants.
ASSUME ComponentConstants ==
  /\ Stream!StreamConstants
  /\ Wire!RealtimeConstants
  /\ Call!CallSessionConstants
  /\ Rtp!RtpConstants
  /\ Talk!ModelEventsConstants
  /\ Turn!PipelineConstants

------------------------
Init ==
  \/ which = "Stream" /\ Stream!Init
       /\ configured = 0 /\ ws = 0 /\ timer = 0 /\ attempts = 0 /\ fatal = 0
       /\ manual = 0 /\ accepted = 0 /\ dials = 0 /\ owner = 0 /\ channel = 0
       /\ listening = 0 /\ moh = 0 /\ init = 0 /\ registered = 0 /\ cleanedUp = 0
       /\ cleaner = 0 /\ held = 0 /\ cdr = 0 /\ hangups = 0 /\ event = 0
       /\ orderly = 0 /\ lost = 0 /\ faults = 0 /\ translated = 0 /\ phase = 0
       /\ entries = 0 /\ objects = 0 /\ updates = 0 /\ greeted = 0 /\ heard = 0
       /\ portless = 0 /\ vendor = 0 /\ entry = 0 /\ objs = 0 /\ said = 0
       /\ handlers = 0 /\ ran = 0 /\ answered = 0 /\ played = 0 /\ overtaken = 0
       /\ native = 0 /\ session = 0 /\ greeting = 0 /\ frame = 0 /\ vad = 0
       /\ abort = 0 /\ speaking = 0 /\ turns = 0 /\ speech = 0 /\ stream = 0
       /\ messages = 0 /\ strays = 0 /\ torn = 0 /\ parted = 0 /\ broken = 0
       /\ stale = 0 /\ late = 0 /\ hooked = 0 /\ ahead = 0 /\ linked = 0 /\ rtp = 0
       /\ addresses = 0 /\ greetings = 0 /\ mute = 0
  \/ which = "Wire" /\ Wire!Init
       /\ present = 0 /\ starts = 0 /\ busy = 0 /\ ctl = 0 /\ aborted = 0 /\ procs = 0
       /\ arrived = 0 /\ cut = 0 /\ channel = 0 /\ listening = 0 /\ moh = 0
       /\ init = 0 /\ registered = 0 /\ cleanedUp = 0 /\ cleaner = 0 /\ held = 0
       /\ cdr = 0 /\ hangups = 0 /\ event = 0 /\ orderly = 0 /\ lost = 0 /\ faults = 0
       /\ translated = 0 /\ phase = 0 /\ entries = 0 /\ objects = 0 /\ updates = 0
       /\ greeted = 0 /\ heard = 0 /\ portless = 0 /\ vendor = 0 /\ entry = 0
       /\ objs = 0 /\ said = 0 /\ handlers = 0 /\ ran = 0 /\ answered = 0
       /\ played = 0 /\ overtaken = 0 /\ native = 0 /\ session = 0 /\ greeting = 0
       /\ frame = 0 /\ vad = 0 /\ abort = 0 /\ speaking = 0 /\ turns = 0 /\ speech = 0
       /\ stream = 0 /\ messages = 0 /\ strays = 0 /\ torn = 0 /\ parted = 0
       /\ broken = 0 /\ stale = 0 /\ late = 0 /\ linked = 0 /\ rtp = 0
       /\ addresses = 0 /\ greetings = 0 /\ mute = 0
  \/ which = "Call" /\ Call!Init
       /\ present = 0 /\ starts = 0 /\ queue = 0 /\ busy = 0 /\ ctl = 0 /\ aborted = 0
       /\ procs = 0 /\ arrived = 0 /\ sent = 0 /\ cut = 0 /\ configured = 0 /\ ws = 0
       /\ timer = 0 /\ attempts = 0 /\ fatal = 0 /\ manual = 0 /\ accepted = 0
       /\ dials = 0 /\ owner = 0 /\ translated = 0 /\ phase = 0 /\ entries = 0
       /\ objects = 0 /\ updates = 0 /\ greeted = 0 /\ heard = 0 /\ portless = 0
       /\ vendor = 0 /\ entry = 0 /\ objs = 0 /\ said = 0 /\ handlers = 0 /\ ran = 0
       /\ answered = 0 /\ played = 0 /\ overtaken = 0 /\ native = 0 /\ session = 0
       /\ greeting = 0 /\ frame = 0 /\ vad = 0 /\ abort = 0 /\ speaking = 0
       /\ turns = 0 /\ speech = 0 /\ stream = 0 /\ messages = 0 /\ strays = 0
       /\ torn = 0 /\ parted = 0 /\ broken = 0 /\ stale = 0 /\ late = 0 /\ hooked = 0
       /\ ahead = 0 /\ mute = 0
  \/ which = "Rtp" /\ Rtp!Init
       /\ present = 0 /\ starts = 0 /\ queue = 0 /\ busy = 0 /\ ctl = 0 /\ aborted = 0
       /\ procs = 0 /\ arrived = 0 /\ sent = 0 /\ cut = 0 /\ configured = 0 /\ ws = 0
       /\ timer = 0 /\ attempts = 0 /\ fatal = 0 /\ manual = 0 /\ accepted = 0
       /\ dials = 0 /\ owner = 0 /\ channel = 0 /\ listening = 0 /\ moh = 0
       /\ init = 0 /\ registered = 0 /\ cleanedUp = 0 /\ cleaner = 0 /\ held = 0
       /\ cdr = 0 /\ hangups = 0 /\ event = 0 /\ orderly = 0 /\ lost = 0 /\ faults = 0
       /\ vendor = 0 /\ entry = 0 /\ objs = 0 /\ said = 0 /\ handlers = 0 /\ ran = 0
       /\ answered = 0 /\ played = 0 /\ overtaken = 0 /\ native = 0 /\ session = 0
       /\ greeting = 0 /\ frame = 0 /\ vad = 0 /\ abort = 0 /\ speaking = 0
       /\ turns = 0 /\ speech = 0 /\ stream = 0 /\ messages = 0 /\ strays = 0
       /\ torn = 0 /\ parted = 0 /\ broken = 0 /\ stale = 0 /\ late = 0 /\ hooked = 0
       /\ ahead = 0 /\ linked = 0 /\ rtp = 0 /\ addresses = 0 /\ greetings = 0
       /\ mute = 0
  \/ which = "Talk" /\ Talk!Init
       /\ present = 0 /\ starts = 0 /\ queue = 0 /\ busy = 0 /\ ctl = 0 /\ aborted = 0
       /\ procs = 0 /\ arrived = 0 /\ sent = 0 /\ configured = 0 /\ ws = 0
       /\ timer = 0 /\ attempts = 0 /\ fatal = 0 /\ manual = 0 /\ accepted = 0
       /\ dials = 0 /\ owner = 0 /\ channel = 0 /\ listening = 0 /\ moh = 0
       /\ init = 0 /\ registered = 0 /\ cleanedUp = 0 /\ cleaner = 0 /\ held = 0
       /\ cdr = 0 /\ hangups = 0 /\ event = 0 /\ orderly = 0 /\ lost = 0 /\ faults = 0
       /\ translated = 0 /\ phase = 0 /\ entries = 0 /\ objects = 0 /\ updates = 0
       /\ greeted = 0 /\ heard = 0 /\ portless = 0 /\ native = 0 /\ session = 0
       /\ greeting = 0 /\ frame = 0 /\ vad = 0 /\ abort = 0 /\ speaking = 0
       /\ turns = 0 /\ speech = 0 /\ stream = 0 /\ messages = 0 /\ strays = 0
       /\ torn = 0 /\ parted = 0 /\ broken = 0 /\ stale = 0 /\ late = 0 /\ hooked = 0
       /\ ahead = 0 /\ linked = 0 /\ rtp = 0 /\ addresses = 0 /\ greetings = 0
  \/ which = "Turn" /\ Turn!Init
       /\ present = 0 /\ starts = 0 /\ queue = 0 /\ busy = 0 /\ ctl = 0 /\ procs = 0
       /\ arrived = 0 /\ sent = 0 /\ cut = 0 /\ configured = 0 /\ ws = 0 /\ timer = 0
       /\ attempts = 0 /\ fatal = 0 /\ manual = 0 /\ accepted = 0 /\ dials = 0
       /\ owner = 0 /\ channel = 0 /\ listening = 0 /\ moh = 0 /\ init = 0
       /\ registered = 0 /\ cleanedUp = 0 /\ cleaner = 0 /\ held = 0 /\ cdr = 0
       /\ hangups = 0 /\ event = 0 /\ orderly = 0 /\ lost = 0 /\ faults = 0
       /\ translated = 0 /\ phase = 0 /\ entries = 0 /\ objects = 0 /\ updates = 0
       /\ greeted = 0 /\ heard = 0 /\ portless = 0 /\ vendor = 0 /\ entry = 0
       /\ objs = 0 /\ said = 0 /\ handlers = 0 /\ ran = 0 /\ answered = 0
       /\ played = 0 /\ overtaken = 0 /\ hooked = 0 /\ ahead = 0 /\ linked = 0
       /\ rtp = 0 /\ addresses = 0 /\ greetings = 0

Next ==
  \/ which = "Stream" /\ Stream!Next
       /\ UNCHANGED <<which, configured, ws, timer, attempts, fatal, manual, accepted,
                      dials, owner, channel, listening, moh, init, registered,
                      cleanedUp, cleaner, held, cdr, hangups, event, orderly, lost,
                      faults, translated, phase, entries, objects, updates, greeted,
                      heard, portless, vendor, entry, objs, said, handlers, ran,
                      answered, played, overtaken, native, session, greeting, frame,
                      vad, abort, speaking, turns, speech, stream, messages, strays,
                      torn, parted, broken, stale, late, hooked, ahead, linked, rtp,
                      addresses, greetings, mute>>
  \/ which = "Wire" /\ Wire!Next
       /\ UNCHANGED <<which, present, starts, busy, ctl, aborted, procs, arrived, cut,
                      channel, listening, moh, init, registered, cleanedUp, cleaner,
                      held, cdr, hangups, event, orderly, lost, faults, translated,
                      phase, entries, objects, updates, greeted, heard, portless,
                      vendor, entry, objs, said, handlers, ran, answered, played,
                      overtaken, native, session, greeting, frame, vad, abort,
                      speaking, turns, speech, stream, messages, strays, torn, parted,
                      broken, stale, late, linked, rtp, addresses, greetings, mute>>
  \/ which = "Call" /\ Call!Next
       /\ UNCHANGED <<which, present, starts, queue, busy, ctl, aborted, procs,
                      arrived, sent, cut, configured, ws, timer, attempts, fatal,
                      manual, accepted, dials, owner, translated, phase, entries,
                      objects, updates, greeted, heard, portless, vendor, entry, objs,
                      said, handlers, ran, answered, played, overtaken, native,
                      session, greeting, frame, vad, abort, speaking, turns, speech,
                      stream, messages, strays, torn, parted, broken, stale, late,
                      hooked, ahead, mute>>
  \/ which = "Rtp" /\ Rtp!Next
       /\ UNCHANGED <<which, present, starts, queue, busy, ctl, aborted, procs,
                      arrived, sent, cut, configured, ws, timer, attempts, fatal,
                      manual, accepted, dials, owner, channel, listening, moh, init,
                      registered, cleanedUp, cleaner, held, cdr, hangups, event,
                      orderly, lost, faults, vendor, entry, objs, said, handlers, ran,
                      answered, played, overtaken, native, session, greeting, frame,
                      vad, abort, speaking, turns, speech, stream, messages, strays,
                      torn, parted, broken, stale, late, hooked, ahead, linked, rtp,
                      addresses, greetings, mute>>
  \/ which = "Talk" /\ Talk!Next
       /\ UNCHANGED <<which, present, starts, queue, busy, ctl, aborted, procs,
                      arrived, sent, configured, ws, timer, attempts, fatal, manual,
                      accepted, dials, owner, channel, listening, moh, init,
                      registered, cleanedUp, cleaner, held, cdr, hangups, event,
                      orderly, lost, faults, translated, phase, entries, objects,
                      updates, greeted, heard, portless, native, session, greeting,
                      frame, vad, abort, speaking, turns, speech, stream, messages,
                      strays, torn, parted, broken, stale, late, hooked, ahead,
                      linked, rtp, addresses, greetings>>
  \/ which = "Turn" /\ Turn!Next
       /\ UNCHANGED <<which, present, starts, queue, busy, ctl, procs, arrived, sent,
                      cut, configured, ws, timer, attempts, fatal, manual, accepted,
                      dials, owner, channel, listening, moh, init, registered,
                      cleanedUp, cleaner, held, cdr, hangups, event, orderly, lost,
                      faults, translated, phase, entries, objects, updates, greeted,
                      heard, portless, vendor, entry, objs, said, handlers, ran,
                      answered, played, overtaken, hooked, ahead, linked, rtp,
                      addresses, greetings>>

Spec == Init /\ [][Next]_vars

------------------------
TypeOK ==
  /\ which = "Stream" => Stream!TypeOK
  /\ which = "Wire" => Wire!TypeOK
  /\ which = "Call" => Call!TypeOK
  /\ which = "Rtp" => Rtp!TypeOK
  /\ which = "Talk" => Talk!TypeOK
  /\ which = "Turn" => Turn!TypeOK

\* Processors take up what is queued, and after an interrupt nothing of what it cut off
\* is sent (StreamAudio).
AudioFlows == which = "Stream" => Stream!AudioFlows
InterruptSilences == [][which = "Stream" => Stream!NothingCut]_vars

\* The model's socket: its messages are sent in order, a reconnection is only planned
\* while it is down, and the owner is not worn out by reconnections (RealtimeConnection).
ConnectionSound ==
  which = "Wire" => Wire!ConnectionSound

\* A call that ended in order holds nothing, and is hung up once (CallSession).
SessionEnds == which = "Call" => Call!EndsClean /\ Call!HangUpOnce

\* Voice goes to its own call when nothing hides its address, and a call whose variables
\* were not reported is greeted once (RtpSessions).
VoiceRight == which = "Rtp" => Rtp!DirectVoice /\ Rtp!GreetedOnce

\* A tool call of the model runs once and is answered, responses overtaking one another
\* apart; nothing of an aborted turn is said, what is sent to the model is a dialogue it
\* accepts, and nothing is said once the session is closed (ModelEvents,
\* NonRealtimePipeline).
TurnsSettled ==
  /\ which = "Talk" => Talk!ToolCallsSettled
  /\ which = "Turn" =>
       Turn!NoStaleAudio /\ Turn!RequestsAccepted /\ Turn!ClosedIsQuiet

------------------------
\* The audio stream: a loop that sends has a controller nobody has aborted, and a buffer
\* that arrived after the last interrupt (Stream!IInv).

LEMMA TakeFirst ==
  ASSUME NEW q \in Seq(Nat), q # <<>>, NEW C, \A i \in 1..Len(q) : q[i] \notin C
  PROVE  /\ Head(q) \in Nat /\ Head(q) \notin C
         /\ Tail(q) \in Seq(Nat)
         /\ \A i \in 1..Len(Tail(q)) : Tail(q)[i] \notin C
  <1>1. Len(q) \in Nat \ {0} /\ Head(q) = q[1] OBVIOUS
  <1>2. /\ Tail(q) \in Seq(Nat) /\ Len(Tail(q)) = Len(q) - 1
        /\ \A i \in 1..Len(Tail(q)) : Tail(q)[i] = q[i + 1]
    BY HeadTailProperties
  <1> QED BY <1>1, <1>2

LEMMA PutLast ==
  ASSUME NEW q \in Seq(Nat), NEW C, \A i \in 1..Len(q) : q[i] \notin C, NEW b \in Nat \ C
  PROVE  /\ Append(q, b) \in Seq(Nat) /\ Append(q, b) # <<>>
         /\ \A i \in 1..Len(Append(q, b)) : Append(q, b)[i] \notin C
  <1>1. /\ Append(q, b) \in Seq(Nat) /\ Len(Append(q, b)) = Len(q) + 1
        /\ \A i \in 1..Len(q) : Append(q, b)[i] = q[i]
        /\ Append(q, b)[Len(q) + 1] = b
    OBVIOUS
  <1>2. Len(q) \in Nat BY LenProperties
  <1>3. ASSUME NEW i \in 1..Len(q) + 1 PROVE Append(q, b)[i] \notin C
    <2>1. i \in 1..Len(q) \/ i = Len(q) + 1 BY <1>2
    <2> QED BY <1>1, <2>1
  <1>4. Append(q, b) # <<>> BY <1>1, <1>2
  <1> QED BY <1>1, <1>3, <1>4

\* What a loop sends is a pair of numbers, put behind what went out before.
LEMMA PacketSent ==
  ASSUME Stream!StreamConstants, Stream!TypeOK, NEW next \in Stream!Processor,
         sent' = Append(sent, <<next.buffer, next.packet>>)
  PROVE  /\ sent' \in Seq(Nat \X Nat)
         /\ \A i \in Len(sent) + 1 .. Len(sent') : sent'[i][1] = next.buffer
  <1>1. sent \in Seq(Nat \X Nat) /\ <<next.buffer, next.packet>> \in Nat \X Nat
    BY DEF Stream!TypeOK, Stream!Ranges, Stream!Processor, Stream!StreamConstants
  <1>2. sent' \in Seq(Nat \X Nat) BY <1>1
  <1>3. Len(sent) \in Nat /\ Len(sent') = Len(sent) + 1
        /\ sent'[Len(sent) + 1] = <<next.buffer, next.packet>>
    BY <1>1
  <1>4. ASSUME NEW i \in Len(sent) + 1 .. Len(sent') PROVE sent'[i][1] = next.buffer
    <2>1. i = Len(sent) + 1 BY <1>3
    <2> QED BY <1>3, <2>1
  <1> QED BY <1>2, <1>4

\* A tick sends the next packet, of the same buffer or the one taken, or ends the loop.
LEMMA TickCases ==
  ASSUME Stream!StreamConstants, Stream!TypeOK, NEW p \in procs, Stream!Tick(p)
  PROVE  /\ \/ \E next \in Stream!Processor :
                  /\ p.ctl \notin aborted /\ next.ctl = p.ctl /\ next.start = p.start
                  /\ \/ next.buffer = p.buffer /\ UNCHANGED queue
                     \/ queue # <<>> /\ next.buffer = Head(queue) /\ queue' = Tail(queue)
                  /\ Stream!Send(p, next)
            \/ Stream!Finish(p) /\ (p.ctl \in aborted \/ queue = <<>>)
         /\ UNCHANGED <<present, starts, ctl, aborted, arrived, cut>>
  <1> USE DEF Stream!StreamConstants, Stream!TypeOK, Stream!Ranges, Stream!Processor
  <1>1. CASE p.ctl \notin aborted /\ p.packet < Packets /\ Stream!Send(p, [p EXCEPT !.packet = @ + 1])
             /\ UNCHANGED queue
    <2>0. p \in Stream!Processor /\ p.packet + 1 \in 1..Packets BY <1>1
    <2>1. [p EXCEPT !.packet = @ + 1] \in Stream!Processor BY <2>0
    <2> QED BY <1>1, <2>1 DEF Stream!Tick
  <1>2. CASE p.ctl \notin aborted /\ queue # <<>> /\ queue' = Tail(queue)
             /\ Stream!Send(p, [p EXCEPT !.buffer = Head(queue), !.packet = 1])
    <2>a. queue \in Seq(Nat) /\ queue # <<>> BY <1>2
    <2>b. Head(queue) \in Nat BY Zenon, <2>a, HeadTailProperties
    <2>c. p \in Stream!Processor BY Zenon
    <2>0. p \in Stream!Processor /\ 1 \in 1..Packets /\ Head(queue) \in Nat BY <2>b, <2>c
    <2> DEFINE next == [p EXCEPT !.buffer = Head(queue), !.packet = 1]
    <2>1. next \in Stream!Processor BY <2>0
    <2>2. next.ctl = p.ctl /\ next.start = p.start /\ next.buffer = Head(queue) BY <2>0
    <2>3. Stream!Send(p, next) /\ p.ctl \notin aborted /\ queue # <<>> /\ queue' = Tail(queue) BY <1>2
    <2>4. UNCHANGED <<present, starts, ctl, aborted, arrived, cut>> BY Zenon DEF Stream!Tick
    <2> HIDE DEF next
    <2> QED BY Zenon, <2>1, <2>2, <2>3, <2>4
  <1>3. CASE Stream!Finish(p) /\ (p.ctl \in aborted \/ queue = <<>>) BY <1>3 DEF Stream!Tick
  <1> QED BY <1>1, <1>2, <1>3 DEF Stream!Tick

\* A buffer that arrives is dropped, queued, or taken in turn by a new loop.
LEMMA ArrivalCases ==
  ASSUME Stream!StreamConstants, Stream!TypeOK, Stream!StreamAudio
  PROVE  /\ arrived' = arrived + 1 /\ UNCHANGED <<present, starts, ctl, aborted>>
         /\ \/ ~present /\ cut' = cut \cup {arrived + 1} /\ UNCHANGED <<queue, busy, procs, sent>>
            \/ /\ present /\ busy
               /\ queue' = Append(queue, arrived + 1)
               /\ UNCHANGED <<busy, procs, sent, cut>>
            \/ /\ present /\ UNCHANGED cut
               /\ \E next \in Stream!Processor :
                     /\ next.ctl = ctl /\ next.start = starts
                     /\ next.buffer = Head(Append(queue, arrived + 1))
                     /\ queue' = Tail(Append(queue, arrived + 1))
                     /\ procs' = procs \cup {next}
                     /\ sent' = Append(sent, <<next.buffer, next.packet>>)
  <1>1. CASE ~present BY <1>1 DEF Stream!StreamAudio
  <1>2. CASE present /\ busy BY <1>2 DEF Stream!StreamAudio
  <1>3. CASE present /\ ~busy
    <2> DEFINE q == Append(queue, arrived + 1)
               next == [ctl |-> ctl, start |-> starts, buffer |-> Head(q), packet |-> 1]
    <2>1. Head(q) \in Nat
      <3>1. queue \in Seq(Nat) /\ arrived + 1 \in Nat \ {} BY DEF Stream!TypeOK, Stream!Ranges
      <3>2. q \in Seq(Nat) /\ q # <<>> BY <3>1, PutLast
      <3> QED BY <3>2, HeadTailProperties
    <2>2. next \in Stream!Processor
      BY <2>1 DEF Stream!TypeOK, Stream!Ranges, Stream!StreamConstants, Stream!Processor
    <2>3. procs' = procs \cup {next} /\ sent' = Append(sent, <<next.buffer, next.packet>>)
          /\ queue' = Tail(q) /\ next.ctl = ctl /\ next.start = starts /\ next.buffer = Head(q)
      BY <1>3 DEF Stream!StreamAudio
    <2>4. arrived' = arrived + 1 /\ UNCHANGED <<present, starts, ctl, aborted, cut>> BY <1>3 DEF Stream!StreamAudio
    <2> QED BY <1>3, <2>2, <2>3, <2>4
  <1> QED BY <1>1, <1>2, <1>3

LEMMA StreamFlags == ASSUME Stream!Flags, Stream!Next PROVE Stream!Flags'
  BY Zenon DEF Stream!Flags, Stream!Next, Stream!AddStream, Stream!RemoveStream,
       Stream!InterruptStream, Stream!StreamAudio, Stream!Tick, Stream!Send, Stream!Finish

LEMMA StreamRanges == ASSUME Stream!StreamConstants, Stream!TypeOK, Stream!Next PROVE Stream!Ranges'
  <1>1. CASE Stream!AddStream BY <1>1 DEF Stream!TypeOK, Stream!Ranges, Stream!AddStream
  <1>2. CASE Stream!RemoveStream BY <1>2 DEF Stream!TypeOK, Stream!Ranges, Stream!RemoveStream
  <1>3. CASE Stream!InterruptStream BY <1>3 DEF Stream!TypeOK, Stream!Ranges, Stream!InterruptStream
  <1>4. CASE Stream!StreamAudio
    <2>1. queue \in Seq(Nat) /\ arrived + 1 \in Nat \ {} BY DEF Stream!TypeOK, Stream!Ranges
    <2>2. Append(queue, arrived + 1) \in Seq(Nat) /\ Append(queue, arrived + 1) # <<>> BY <2>1, PutLast
    <2>3. Tail(Append(queue, arrived + 1)) \in Seq(Nat) BY <2>2, HeadTailProperties
    <2>4. queue' \in Seq(Nat) BY <1>4, <2>1, <2>2, <2>3, ArrivalCases
    <2>5. procs' \subseteq Stream!Processor BY <1>4, ArrivalCases DEF Stream!TypeOK, Stream!Ranges
    <2>6. sent' \in Seq(Nat \X Nat)
      <3>1. \/ sent' = sent
            \/ \E next \in Stream!Processor : sent' = Append(sent, <<next.buffer, next.packet>>)
        BY <1>4, ArrivalCases
      <3>2. sent \in Seq(Nat \X Nat) BY DEF Stream!TypeOK, Stream!Ranges
      <3>3. ASSUME NEW next \in Stream!Processor, sent' = Append(sent, <<next.buffer, next.packet>>)
            PROVE  sent' \in Seq(Nat \X Nat)
        BY <3>3, PacketSent
      <3> QED BY <3>1, <3>2, <3>3
    <2>7. arrived' \in Nat /\ cut' \subseteq Nat
      <3>1. arrived \in Nat /\ cut \subseteq Nat BY DEF Stream!TypeOK, Stream!Ranges
      <3>2. arrived' = arrived + 1 /\ (cut' = cut \/ cut' = cut \cup {arrived + 1}) BY <1>4, ArrivalCases
      <3>3. arrived' \in Nat /\ {arrived + 1} \subseteq Nat BY <3>1, <3>2
      <3> QED BY <3>1, <3>2, <3>3
    <2>8. UNCHANGED <<starts, ctl, aborted>> BY <1>4, ArrivalCases
    <2> QED BY <2>4, <2>5, <2>6, <2>7, <2>8 DEF Stream!TypeOK, Stream!Ranges
  <1>5. ASSUME NEW p \in procs, Stream!Tick(p) PROVE Stream!Ranges'
    <2>1. queue \in Seq(Nat) /\ (queue # <<>> => Tail(queue) \in Seq(Nat))
      BY HeadTailProperties DEF Stream!TypeOK, Stream!Ranges
    <2>2. queue' \in Seq(Nat) BY <1>5, <2>1, TickCases DEF Stream!Finish
    <2>3. procs' \subseteq Stream!Processor
      BY <1>5, TickCases DEF Stream!TypeOK, Stream!Ranges, Stream!Send, Stream!Finish
    <2>4. sent' \in Seq(Nat \X Nat)
      <3>1. \/ sent' = sent
            \/ \E next \in Stream!Processor : sent' = Append(sent, <<next.buffer, next.packet>>)
        BY <1>5, TickCases DEF Stream!Send, Stream!Finish
      <3>2. sent \in Seq(Nat \X Nat) BY DEF Stream!TypeOK, Stream!Ranges
      <3> QED BY <3>1, <3>2, PacketSent
    <2> QED BY <1>5, <2>2, <2>3, <2>4, TickCases DEF Stream!TypeOK, Stream!Ranges
  <1> QED BY <1>1, <1>2, <1>3, <1>4, <1>5 DEF Stream!Next

LEMMA LoopStep ==
  ASSUME Stream!StreamConstants, Stream!TypeOK, Stream!LoopInv, Stream!Next
  PROVE  Stream!LoopInv'
  <1>1. CASE Stream!AddStream BY <1>1 DEF Stream!AddStream, Stream!TypeOK, Stream!Ranges,
       Stream!LoopInv
  <1>2. CASE Stream!RemoveStream BY <1>2 DEF Stream!RemoveStream, Stream!TypeOK, Stream!Ranges,
       Stream!LoopInv
  <1>3. CASE Stream!InterruptStream BY <1>3 DEF Stream!InterruptStream, Stream!TypeOK,
       Stream!Ranges, Stream!LoopInv
  <1>4. CASE Stream!StreamAudio
    <2>1. UNCHANGED <<present, starts, ctl, aborted>> BY <1>4, ArrivalCases
    <2>2. CASE ~present BY <2>1, <2>2 DEF Stream!LoopInv
    <2>3. CASE present /\ busy /\ UNCHANGED procs BY <2>1, <2>3 DEF Stream!LoopInv, Stream!Current
    <2>4. CASE present /\ \E next \in Stream!Processor : /\ next.ctl = ctl /\ next.start = starts
                                               /\ procs' = procs \cup {next}
      BY <2>1, <2>4 DEF Stream!LoopInv, Stream!Current
    <2> QED BY <1>4, <2>2, <2>3, <2>4, ArrivalCases
  <1>5. ASSUME NEW p \in procs, Stream!Tick(p) PROVE Stream!LoopInv'
    <2>1. UNCHANGED <<present, starts, ctl, aborted>> BY <1>5, TickCases
    <2>2. ASSUME present, busy' \/ queue' # <<>>, Stream!Finish(p), p.ctl \in aborted \/ queue = <<>>
          PROVE  \E r \in procs' : Stream!Current(r)
      BY <2>2 DEF Stream!Finish, Stream!LoopInv, Stream!Current
    <2>3. ASSUME present, NEW next, Stream!Send(p, next), next.ctl = p.ctl, next.start = p.start,
                 busy' \/ queue' # <<>>, busy \/ queue # <<>>
          PROVE  \E r \in procs' : Stream!Current(r)
      BY <2>3 DEF Stream!Send, Stream!LoopInv, Stream!Current
    <2>4. (present /\ (busy' \/ queue' # <<>>)) => \E r \in procs' : Stream!Current(r)
      BY <1>5, <2>2, <2>3, TickCases DEF Stream!Send
    <2> QED BY <2>1, <2>4 DEF Stream!LoopInv, Stream!Current
  <1> QED BY <1>1, <1>2, <1>3, <1>4, <1>5 DEF Stream!Next

LEMMA SilenceStep ==
  ASSUME Stream!StreamConstants, Stream!TypeOK, Stream!LoopInv, Stream!SilenceInv, Stream!Next
  PROVE  Stream!SilenceInv'
  <1>1. CASE Stream!AddStream BY <1>1 DEF Stream!AddStream, Stream!TypeOK, Stream!Ranges,
       Stream!SilenceInv
  <1>2. CASE Stream!RemoveStream BY <1>2 DEF Stream!RemoveStream, Stream!TypeOK, Stream!Ranges,
       Stream!SilenceInv
  <1>3. CASE Stream!InterruptStream BY <1>3 DEF Stream!InterruptStream, Stream!TypeOK,
       Stream!Ranges, Stream!SilenceInv
  <1>4. CASE Stream!StreamAudio
    <2> DEFINE q == Append(queue, arrived + 1)
    <2>1. queue \in Seq(Nat) /\ arrived + 1 \in Nat \ cut BY DEF Stream!TypeOK, Stream!Ranges, Stream!SilenceInv
    <2>2. ASSUME present
          PROVE  /\ q \in Seq(Nat) /\ q # <<>> /\ \A i \in 1..Len(q) : q[i] \notin cut
                 /\ Head(q) \notin cut /\ \A i \in 1..Len(Tail(q)) : Tail(q)[i] \notin cut
      <3>1. q \in Seq(Nat) /\ q # <<>> /\ \A i \in 1..Len(q) : q[i] \notin cut
        BY <2>1, <2>2, PutLast DEF Stream!SilenceInv
      <3> QED BY <3>1, TakeFirst
    <2>3. cut' \subseteq 1..arrived'
      <3>1. arrived \in Nat /\ cut \subseteq 1..arrived BY DEF Stream!TypeOK, Stream!Ranges, Stream!SilenceInv
      <3>2. arrived' = arrived + 1 /\ (cut' = cut \/ cut' = cut \cup {arrived + 1}) BY <1>4, ArrivalCases
      <3>3. 1..arrived \subseteq 1..arrived + 1 /\ {arrived + 1} \subseteq 1..arrived + 1 BY <3>1
      <3>4. cut \subseteq 1..arrived + 1 /\ cut \cup {arrived + 1} \subseteq 1..arrived + 1 BY <3>1, <3>3
      <3> QED BY <3>2, <3>4
    <2>4. present' => \A i \in 1..Len(queue') : queue'[i] \notin cut' BY <1>4, <2>2, ArrivalCases
    <2>5. \A p \in procs' : p.ctl \notin aborted' =>
             present' /\ p.ctl = ctl' /\ p.buffer \notin cut'
      BY <1>4, <2>2, ArrivalCases DEF Stream!SilenceInv
    <2> QED BY <2>3, <2>4, <2>5 DEF Stream!SilenceInv
  <1>5. ASSUME NEW p \in procs, Stream!Tick(p) PROVE Stream!SilenceInv'
    <2>1. queue \in Seq(Nat) BY DEF Stream!TypeOK, Stream!Ranges
    <2>2. ASSUME present, queue # <<>>
          PROVE  Head(queue) \notin cut /\ \A i \in 1..Len(Tail(queue)) : Tail(queue)[i] \notin cut
      BY <2>1, <2>2, TakeFirst DEF Stream!SilenceInv
    <2>3. UNCHANGED <<present, ctl, aborted, arrived, cut>> BY <1>5, TickCases
    <2>4. present => \A i \in 1..Len(queue') : queue'[i] \notin cut
      BY <1>5, <2>2, TickCases DEF Stream!Finish, Stream!SilenceInv
    <2>5. \A r \in procs' : r.ctl \notin aborted => present /\ r.ctl = ctl /\ r.buffer \notin cut
      <3>1. CASE Stream!Finish(p) BY <3>1 DEF Stream!Finish, Stream!SilenceInv
      <3>2. CASE \E next \in Stream!Processor :
                    /\ p.ctl \notin aborted /\ next.ctl = p.ctl
                    /\ next.buffer = p.buffer \/ (queue # <<>> /\ next.buffer = Head(queue))
                    /\ procs' = (procs \ {p}) \cup {next}
        BY <2>2, <3>2 DEF Stream!SilenceInv
      <3> QED BY <1>5, <3>1, <3>2, TickCases DEF Stream!Send
    <2> QED BY <2>3, <2>4, <2>5 DEF Stream!SilenceInv
  <1> QED BY <1>1, <1>2, <1>3, <1>4, <1>5 DEF Stream!Next

\* Only a loop whose controller is not aborted sends, and only what it may.
LEMMA CutStep ==
  ASSUME Stream!StreamConstants, Stream!TypeOK, Stream!SilenceInv, Stream!Next
  PROVE  Stream!NothingCut
  <1>0. sent \in Seq(Nat \X Nat) /\ Len(sent) \in Nat BY LenProperties DEF Stream!TypeOK, Stream!Ranges
  <1>1. CASE UNCHANGED sent BY <1>0, <1>1 DEF Stream!NothingCut
  <1>2. CASE \E next \in Stream!Processor : /\ next.buffer \notin cut
                                    /\ sent' = Append(sent, <<next.buffer, next.packet>>)
    BY <1>2, PacketSent DEF Stream!NothingCut
  <1>3. CASE Stream!AddStream \/ Stream!RemoveStream \/ Stream!InterruptStream
    BY <1>1, <1>3 DEF Stream!AddStream, Stream!RemoveStream, Stream!InterruptStream
  <1>4. CASE Stream!StreamAudio
    <2>1. queue \in Seq(Nat) /\ arrived + 1 \in Nat \ cut BY DEF Stream!TypeOK, Stream!Ranges, Stream!SilenceInv
    <2>2. present => Head(Append(queue, arrived + 1)) \notin cut BY <2>1, PutLast, TakeFirst DEF Stream!SilenceInv
    <2> QED BY <1>1, <1>2, <1>4, <2>2, ArrivalCases
  <1>5. ASSUME NEW p \in procs, Stream!Tick(p) PROVE Stream!NothingCut
    <2>1. p.ctl \notin aborted => present /\ p.buffer \notin cut BY DEF Stream!SilenceInv
    <2>2. queue \in Seq(Nat) BY DEF Stream!TypeOK, Stream!Ranges
    <2>3. present /\ queue # <<>> => Head(queue) \notin cut BY <2>2, TakeFirst DEF Stream!SilenceInv
    <2> QED BY <1>1, <1>2, <1>5, <2>1, <2>3, TickCases DEF Stream!Send, Stream!Finish
  <1> QED BY <1>3, <1>4, <1>5 DEF Stream!Next

LEMMA StreamKept == ASSUME Stream!StreamConstants, Stream!IInv, [Stream!Next]_Stream!vars PROVE Stream!IInv'
  <1>1. CASE Stream!Next BY <1>1, StreamFlags, StreamRanges, LoopStep, SilenceStep DEF Stream!IInv, Stream!TypeOK
  <1>2. CASE UNCHANGED Stream!vars
    <2>1. Stream!Flags' BY <1>2 DEF Stream!IInv, Stream!TypeOK, Stream!Flags, Stream!vars
    <2>2. Stream!Ranges' BY <1>2 DEF Stream!IInv, Stream!TypeOK, Stream!Ranges, Stream!vars
    <2>3. Stream!LoopInv' /\ Stream!SilenceInv'
      BY <1>2 DEF Stream!IInv, Stream!LoopInv, Stream!SilenceInv, Stream!Current, Stream!vars
    <2> QED BY <2>1, <2>2, <2>3 DEF Stream!IInv, Stream!TypeOK
  <1> QED BY <1>1, <1>2

LEMMA StreamAlways == Spec => [](which = "Stream" => Stream!IInv)
  <1>1. Init => (which = "Stream" => Stream!IInv)
    <2>1. Stream!Init => Stream!Flags BY DEF Stream!Init, Stream!Flags
    <2>2. Stream!Init => Stream!Ranges BY DEF Stream!Init, Stream!Ranges
    <2>3. Stream!Init => Stream!LoopInv /\ Stream!SilenceInv BY DEF Stream!Init, Stream!LoopInv, Stream!SilenceInv
    <2> QED BY <2>1, <2>2, <2>3 DEF Init, Stream!IInv, Stream!TypeOK
  <1>2. ASSUME which = "Stream" => Stream!IInv, [Next]_vars
        PROVE  (which = "Stream" => Stream!IInv)'
    <2>1. ASSUME which' = "Stream" PROVE which = "Stream" /\ [Stream!Next]_Stream!vars
      BY <1>2, <2>1 DEF Next, vars, Stream!vars
    <2> QED BY <1>2, <2>1, StreamKept, ComponentConstants
  <1> QED BY <1>1, <1>2, PTL DEF Spec

\* streamAudio, processQueue: however arrivals, interrupts and ends of loops fall
\* together, audio that is queued for a session has a loop that works on it.
THEOREM StreamNeverStalls == Spec => []AudioFlows
  <1>1. (which = "Stream" => Stream!IInv) => AudioFlows
    BY DEF Stream!IInv, Stream!LoopInv, Stream!AudioFlows, Stream!Current, AudioFlows
  <1> QED BY <1>1, StreamAlways, PTL

\* interruptStream, removeStream: nothing that had arrived before the last of them
\* is sent after it, with any number of buffers, packets, interrupts and restarts.
THEOREM StreamIsSilenced == Spec => InterruptSilences
  <1>1. ASSUME which = "Stream" => Stream!IInv, Next PROVE which = "Stream" => Stream!NothingCut
    <2>1. which = "Stream" => Stream!Next BY <1>1 DEF Next
    <2> QED BY <1>1, <2>1, CutStep, ComponentConstants DEF Stream!IInv
  <1>2. (which = "Stream" => Stream!IInv) /\ [Next]_vars
           => [which = "Stream" => Stream!NothingCut]_vars
    BY <1>1
  <1> QED BY <1>2, StreamAlways, PTL DEF Spec, InterruptSilences

------------------------
\* The connection: a pending dial is one the attempts have counted (Wire!IInv).

LEMMA InitSound == ASSUME Wire!RealtimeConstants, Wire!Init PROVE Wire!IInv
  <1>1. Wire!Flags BY Zenon DEF Wire!RealtimeConstants, Wire!Init, Wire!Flags
  <1>2. /\ Wire!Ranges /\ Wire!TimerOnlyWhenDown /\ Wire!DialInv
        /\ Wire!Unopened
    BY DEF Wire!RealtimeConstants, Wire!Init, Wire!Ranges,
         Wire!TimerOnlyWhenDown, Wire!DialInv, Wire!Unopened, Wire!Dead
  <1>3. Wire!SentInOrder BY DEF Wire!Init, Wire!SentInOrder, Wire!Dead
  <1> QED BY <1>1, <1>2, <1>3 DEF Wire!IInv, Wire!TypeOK

LEMMA ConnectionFlags == ASSUME Wire!Flags, Wire!Next PROVE Wire!Flags'
  BY Zenon DEF Wire!Flags, Wire!Next, Wire!Opened, Wire!Configure, Wire!Dropped,
       Wire!Send, Wire!ScheduleReconnect, Wire!TimerFires,
               Wire!FatalError, Wire!OwnerHangsUp, Wire!Close, Wire!TearDown

LEMMA ConnectionRanges == ASSUME Wire!RealtimeConstants, Wire!TypeOK, Wire!Next PROVE Wire!Ranges'
  <1> USE DEF Wire!RealtimeConstants, Wire!TypeOK, Wire!Flags, Wire!Ranges
  <1>1. CASE Wire!Opened
    <2>1. CASE ahead' = ahead /\ accepted' = accepted
      <3>1. sent \o <<>> \o queue \in Seq(1..Messages) OBVIOUS
      <3> QED BY <1>1, <2>1, <3>1 DEF Wire!Opened, Wire!First
    <2>2. CASE accepted < Messages /\ accepted' = accepted + 1 /\ ahead' = accepted + 1
      <3>1. accepted + 1 \in 1..Messages BY <2>2
      <3>2. sent \o <<accepted + 1>> \o queue \in Seq(1..Messages) BY <3>1
      <3>3. ahead' # ahead BY <2>2
      <3> QED BY <1>1, <2>2, <3>1, <3>2, <3>3 DEF Wire!Opened, Wire!First
    <2> QED BY <1>1, <2>1, <2>2 DEF Wire!Opened, Wire!Configure
  <1>2. CASE Wire!Dropped BY <1>2 DEF Wire!Dropped
  <1>3. CASE Wire!Send
    <2>1. accepted < Messages /\ accepted + 1 \in 1..Messages BY <1>3 DEF Wire!Send
    <2>2. Append(queue, accepted + 1) \in Seq(1..Messages)
          /\ Append(sent, accepted + 1) \in Seq(1..Messages) /\ <<>> \in Seq(1..Messages)
      BY <2>1
    <2>3. queue' \in Seq(1..Messages) /\ sent' \in Seq(1..Messages)
      BY <1>3, <2>2 DEF Wire!Send, Wire!ScheduleReconnect, Wire!TearDown
    <2>4. attempts' \in 0..MaxReconnect BY <1>3 DEF Wire!Send, Wire!ScheduleReconnect
    <2> QED BY <1>3, <2>1, <2>3, <2>4 DEF Wire!Send, Wire!ScheduleReconnect,
         Wire!TearDown
  <1>4. CASE Wire!TimerFires BY <1>4 DEF Wire!TimerFires, Wire!Dial
  <1>5. CASE Wire!FatalError BY <1>5 DEF Wire!FatalError, Wire!TearDown
  <1>6. CASE Wire!OwnerHangsUp BY <1>6 DEF Wire!OwnerHangsUp, Wire!TearDown
  <1>7. CASE Wire!Close BY <1>7 DEF Wire!Close, Wire!TearDown
  <1> QED BY <1>1, <1>2, <1>3, <1>4, <1>5, <1>6, <1>7 DEF Wire!Next

LEMMA TimerStep ==
  ASSUME Wire!RealtimeConstants, Wire!TypeOK, Wire!TimerOnlyWhenDown, Wire!DialInv, Wire!Next
  PROVE  Wire!TimerOnlyWhenDown' /\ Wire!DialInv'
  <1> USE DEF Wire!RealtimeConstants, Wire!TypeOK, Wire!Flags,
       Wire!Ranges, Wire!TimerOnlyWhenDown, Wire!DialInv, Wire!Dead
  <1>1. CASE Wire!Opened BY <1>1 DEF Wire!Opened
  <1>2. CASE Wire!Dropped BY <1>2 DEF Wire!Dropped
  <1>3. CASE Wire!Send BY <1>3 DEF Wire!Send, Wire!ScheduleReconnect,
       Wire!TearDown
  <1>4. CASE Wire!TimerFires BY <1>4 DEF Wire!TimerFires, Wire!Dial
  <1>5. CASE Wire!FatalError BY <1>5 DEF Wire!FatalError, Wire!TearDown
  <1>6. CASE Wire!OwnerHangsUp BY <1>6 DEF Wire!OwnerHangsUp, Wire!TearDown
  <1>7. CASE Wire!Close BY <1>7 DEF Wire!Close, Wire!TearDown
  <1> QED BY <1>1, <1>2, <1>3, <1>4, <1>5, <1>6, <1>7 DEF Wire!Next

LEMMA NoStormHolds == ASSUME Wire!RealtimeConstants, Wire!TypeOK, Wire!DialInv PROVE Wire!NoStorm
  BY DEF Wire!RealtimeConstants, Wire!TypeOK, Wire!Ranges, Wire!DialInv,
       Wire!NoStorm

\* The messages 1, 2, ..., n, or a, 1, 2, ... when the message a went ahead; one more
\* behind them; and one that goes ahead.
Count(n, a) == [m \in 1..n |-> IF m > a THEN m ELSE IF m = 1 THEN a ELSE m - 1]

LEMMA CountIsSeq ==
  ASSUME NEW n \in Nat, NEW a \in Nat
  PROVE  Count(n, a) \in Seq(Nat) /\ Len(Count(n, a)) = n
  BY DEF Count

LEMMA CountOn ==
  ASSUME NEW n \in Nat, NEW a \in 0..n, NEW s \in Seq(Nat), NEW q \in Seq(Nat), s \o q = Count(n, a)
  PROVE  s \o Append(q, n + 1) = Count(n + 1, a)
  <1> DEFINE p == Append(q, n + 1)
             j == s \o p
  <1>1. /\ p \in Seq(Nat) /\ Len(p) = Len(q) + 1 /\ p[Len(q) + 1] = n + 1
        /\ \A i \in 1..Len(q) : p[i] = q[i]
    OBVIOUS
  <1>2. a \in Nat /\ Len(s) \in Nat /\ Len(q) \in Nat BY LenProperties
  <1>3. Count(n, a) \in Seq(Nat) /\ Len(Count(n, a)) = n BY <1>2, CountIsSeq
  <1>4. /\ Len(s) + Len(q) = n
        /\ \A i \in 1..n : Count(n, a)[i] = IF i <= Len(s) THEN s[i] ELSE q[i - Len(s)]
    <2>1. /\ Len(s \o q) = Len(s) + Len(q)
          /\ \A i \in 1..Len(s) + Len(q) :
                (s \o q)[i] = IF i <= Len(s) THEN s[i] ELSE q[i - Len(s)]
      BY ConcatProperties
    <2> QED BY <2>1, <1>3
  <1> HIDE DEF p
  <1>5. /\ j \in Seq(Nat) /\ Len(j) = Len(s) + Len(p)
        /\ \A i \in 1..Len(s) + Len(p) : j[i] = IF i <= Len(s) THEN s[i] ELSE p[i - Len(s)]
    BY <1>1, ConcatProperties
  <1> HIDE DEF j
  <1>6. /\ Len(s) + Len(p) = n + 1 /\ Len(j) = n + 1
        /\ \A i \in 1..n + 1 : j[i] = IF i <= Len(s) THEN s[i] ELSE p[i - Len(s)]
    <2>1. Len(s) + Len(p) = n + 1
      <3>1. Len(p) = Len(q) + 1 /\ Len(s) + Len(q) = n BY Zenon, <1>1, <1>4
      <3>2. \A k, l \in Nat : k + (l + 1) = (k + l) + 1 OBVIOUS
      <3> QED BY Zenon, <1>2, <3>1, <3>2
    <2>2. Len(j) = n + 1 BY <2>1, <1>5
    <2>3. ASSUME NEW i \in 1..n + 1
          PROVE  j[i] = IF i <= Len(s) THEN s[i] ELSE p[i - Len(s)]
      <3>1. i \in 1..Len(s) + Len(p) BY <2>1
      <3> QED BY Zenon, <3>1, <1>5
    <2> QED BY Zenon, <2>1, <2>2, <2>3
  <1>7. ASSUME NEW i \in 1..n PROVE j[i] = Count(n, a)[i]
    <2>0. i \in 1..n + 1 /\ (i <= Len(s) \/ ~(i <= Len(s))) OBVIOUS
    <2>1. CASE i <= Len(s)
      <3>1. j[i] = s[i] BY <2>0, <2>1, <1>6
      <3>2. Count(n, a)[i] = s[i] BY <2>1, <1>4
      <3> QED BY <3>1, <3>2
    <2>2. CASE ~(i <= Len(s))
      <3>1. i - Len(s) \in 1..Len(q) BY <2>2, <1>2, <1>4
      <3>2. p[i - Len(s)] = q[i - Len(s)] BY <3>1, <1>1
      <3>3. j[i] = p[i - Len(s)] BY <2>0, <2>2, <1>6
      <3>4. Count(n, a)[i] = q[i - Len(s)] BY <2>2, <1>4
      <3> QED BY <3>2, <3>3, <3>4
    <2> QED BY <2>0, <2>1, <2>2
  <1>8. j[n + 1] = n + 1
    <2>1. n + 1 \in 1..n + 1 /\ ~(n + 1 <= Len(s)) /\ (n + 1) - Len(s) = Len(q) + 1 BY <1>2, <1>4
    <2>2. j[n + 1] = p[(n + 1) - Len(s)] BY <2>1, <1>6
    <2> QED BY <2>1, <2>2, <1>1
  <1>9. n + 1 \in Nat OBVIOUS
  <1>10. Count(n + 1, a) \in Seq(Nat) /\ Len(Count(n + 1, a)) = n + 1 BY <1>2, <1>9, CountIsSeq
  <1>11. \A i \in 1..n + 1 : j[i] = Count(n + 1, a)[i] BY <1>7, <1>8 DEF Count
  <1>12. j = Count(n + 1, a) BY <1>5, <1>6, <1>10, <1>11, SeqEqual
  <1> QED BY <1>12 DEF j, p

LEMMA CountAhead ==
  ASSUME NEW n \in Nat, NEW q \in Seq(Nat), q = Count(n, 0)
  PROVE  <<n + 1>> \o q = Count(n + 1, n + 1)
  <1> DEFINE j == <<n + 1>> \o q
  <1>1. <<n + 1>> \in Seq(Nat) /\ Len(<<n + 1>>) = 1 /\ <<n + 1>>[1] = n + 1 OBVIOUS
  <1>2. Len(q) = n /\ \A i \in 1..n : q[i] = i BY CountIsSeq DEF Count
  <1>3. /\ j \in Seq(Nat) /\ Len(j) = 1 + Len(q)
        /\ \A i \in 1..1 + Len(q) : j[i] = IF i <= 1 THEN <<n + 1>>[i] ELSE q[i - 1]
    BY <1>1, ConcatProperties
  <1> HIDE DEF j
  <1>4. /\ Len(j) = n + 1
        /\ \A i \in 1..n + 1 : j[i] = IF i = 1 THEN n + 1 ELSE i - 1
    <2>1. Len(j) = n + 1 /\ j[1] = n + 1 BY <1>1, <1>2, <1>3
    <2>2. ASSUME NEW i \in 2..n + 1 PROVE j[i] = i - 1
      <3>1. i - 1 \in 1..n /\ i \in 1..1 + n /\ ~(i <= 1) OBVIOUS
      <3>2. j[i] = q[i - 1] BY <3>1, <1>2, <1>3
      <3> QED BY <3>1, <3>2, <1>2
    <2> QED BY <2>1, <2>2
  <1>5. n + 1 \in Nat OBVIOUS
  <1>6. Count(n + 1, n + 1) \in Seq(Nat) /\ Len(Count(n + 1, n + 1)) = n + 1 BY <1>5, CountIsSeq
  <1>7. \A i \in 1..n + 1 : j[i] = Count(n + 1, n + 1)[i] BY <1>4 DEF Count
  <1>8. j = Count(n + 1, n + 1) BY <1>3, <1>4, <1>6, <1>7, SeqEqual
  <1> QED BY <1>8 DEF j

\* What is handed to the socket stays in the order of sending, the configuration apart.
LEMMA OrderStep ==
  ASSUME Wire!RealtimeConstants, Wire!TypeOK, Wire!SentInOrder,
         Wire!TimerOnlyWhenDown, Wire!DialInv, Wire!Unopened, Wire!Next
  PROVE  Wire!SentInOrder' /\ Wire!Unopened'
  <1>1. /\ sent \in Seq(Nat) /\ queue \in Seq(Nat) /\ accepted \in Nat
        /\ ahead \in 0..accepted /\ Len(sent) \in Nat
    <2>1. 1..Messages \subseteq Nat BY DEF Wire!RealtimeConstants
    <2>2. sent \in Seq(Nat) /\ queue \in Seq(Nat) BY <2>1, SeqMonotonic DEF Wire!TypeOK, Wire!Ranges
    <2>3. accepted \in Nat /\ ahead \in 0..accepted BY DEF Wire!RealtimeConstants, Wire!TypeOK, Wire!Ranges
    <2> QED BY <2>2, <2>3, LenProperties
  <1>2. ~Wire!Dead => sent \o queue = Count(accepted, ahead) BY DEF Wire!SentInOrder, Wire!Nth, Count
  <1>3. Len(sent) <= accepted /\ sent = Count(Len(sent), ahead) BY DEF Wire!SentInOrder, Wire!Nth, Count
  <1>0. (hooked => sent = <<>> /\ ws # "open") /\ ahead <= Len(sent) BY DEF Wire!Unopened
  <1>4. ASSUME UNCHANGED <<sent, accepted, ahead>>, Wire!Dead' \/ (~Wire!Dead /\ UNCHANGED queue)
        PROVE  Wire!SentInOrder'
    BY <1>2, <1>3, <1>4 DEF Wire!SentInOrder, Wire!Nth, Count
  <1>5. ASSUME queue' = <<>>, sent' = Count(accepted', ahead'), accepted' \in Nat, ahead' \in Nat
        PROVE  Wire!SentInOrder' /\ Len(sent') = accepted'
    <2>1. sent' \in Seq(Nat) /\ Len(sent') = accepted' BY <1>5, CountIsSeq
    <2>2. sent' \o <<>> = sent' BY <2>1, ConcatEmptySeq
    <2> QED BY <1>5, <2>1, <2>2 DEF Wire!SentInOrder, Wire!Nth, Count
  <1>6. CASE Wire!Opened
    <2>1. ~Wire!Dead BY <1>6 DEF Wire!Opened, Wire!TimerOnlyWhenDown
    <2>2. queue' = <<>> /\ hooked' = FALSE /\ sent' = sent \o Wire!First \o queue
      BY <1>6 DEF Wire!Opened, Wire!Configure
    <2>3. CASE ahead' = ahead /\ accepted' = accepted
      <3>1. sent' = Count(accepted', ahead')
        <4>1. sent \o <<>> = sent BY <1>1, ConcatEmptySeq
        <4> QED BY <1>2, <2>1, <2>2, <2>3, <4>1 DEF Wire!First
      <3> QED BY <1>1, <1>5, <2>2, <2>3, <3>1 DEF Wire!Unopened
    <2>4. CASE hooked /\ accepted' = accepted + 1 /\ ahead' = accepted + 1
      <3>1. sent = <<>> /\ ahead = 0 BY <1>0, <1>1, <2>4
      <3>2. queue = Count(accepted, 0)
        <4>1. <<>> \o queue = queue BY <1>1, ConcatEmptySeq
        <4> QED BY <1>2, <2>1, <3>1, <4>1
      <3>3. Wire!First = <<accepted + 1>> BY <1>1, <2>4, <3>1 DEF Wire!First
      <3>4. <<>> \o <<accepted + 1>> = <<accepted + 1>> BY <1>1, ConcatEmptySeq
      <3>5. sent' = Count(accepted', ahead')
        <4>2. <<accepted + 1>> \o queue = Count(accepted + 1, accepted + 1) BY <1>1, <3>2, CountAhead
        <4> QED BY <2>2, <2>4, <3>1, <3>3, <3>4, <4>2
      <3>6. Wire!SentInOrder' /\ Len(sent') = accepted' BY <1>1, <1>5, <2>2, <2>4, <3>5
      <3> QED BY <1>1, <2>2, <2>4, <3>6 DEF Wire!Unopened
    <2> QED BY <1>6, <2>3, <2>4 DEF Wire!Opened, Wire!Configure
  <1>7. CASE Wire!Send
    <2>1. /\ ~Wire!Dead /\ accepted' = accepted + 1 /\ sent \o queue = Count(accepted, ahead)
          /\ UNCHANGED <<hooked, ahead>>
      BY <1>7, <1>2 DEF Wire!Send
    <2>2. ASSUME queue' = Append(queue, accepted + 1), sent' = sent
          PROVE  Wire!SentInOrder'
      <3>1. sent' \o queue' = Count(accepted', ahead') BY <1>1, <2>1, <2>2, CountOn
      <3>3. Len(sent') <= accepted' /\ sent' = Count(Len(sent'), ahead') BY <1>1, <1>3, <2>1, <2>2
      <3> QED BY <3>1, <3>3 DEF Wire!SentInOrder, Wire!Nth, Count
    <2>3. ASSUME ws = "open", sent' = Append(sent, accepted + 1), queue' = queue
          PROVE  Wire!SentInOrder' /\ Wire!Unopened'
      <3>1. queue = <<>> BY <2>3 DEF Wire!DialInv
      <3>2. <<>> \in Seq(Nat) /\ <<>> \o sent = Count(accepted, ahead) BY <1>1, <2>1, <3>1, ConcatEmptySeq
      <3>3. <<>> \o Append(sent, accepted + 1) = Count(accepted + 1, ahead) BY <1>1, <3>2, CountOn
      <3>4. Append(sent, accepted + 1) \in Seq(Nat) BY <1>1
      <3>5. sent' = Count(accepted', ahead') BY <2>1, <2>3, <3>3, <3>4, ConcatEmptySeq
      <3>6. Wire!SentInOrder' /\ Len(sent') = accepted' BY <1>1, <1>5, <2>1, <2>3, <3>1, <3>5
      <3>7. ~hooked BY <2>3 DEF Wire!Unopened
      <3> QED BY <1>1, <2>1, <3>6, <3>7 DEF Wire!Unopened
    <2>4. ASSUME fatal', sent' = sent
          PROVE  Wire!SentInOrder'
      BY <1>1, <1>3, <2>1, <2>4 DEF Wire!SentInOrder, Wire!Dead, Wire!Nth, Count
    <2>5. ASSUME sent' = sent, ws' \in {ws, "none"} PROVE Wire!Unopened' BY <1>0, <2>1, <2>5 DEF Wire!Unopened
    <2> QED BY <1>7, <2>2, <2>3, <2>4, <2>5 DEF Wire!Send, Wire!ScheduleReconnect,
         Wire!TearDown
  <1>8. CASE Wire!Dropped \/ Wire!TimerFires
    <2>1. UNCHANGED <<sent, accepted, ahead, queue, fatal, manual, hooked>>
      BY <1>8 DEF Wire!Dropped, Wire!TimerFires
    <2>2. ws' \in {ws, "down", "connecting"} BY <1>8 DEF Wire!Dropped, Wire!TimerFires, Wire!Dial
    <2> QED BY <1>0, <1>2, <1>3, <2>1, <2>2 DEF Wire!SentInOrder, Wire!Unopened,
         Wire!Nth, Count, Wire!Dead
  <1>9. CASE Wire!FatalError \/ Wire!OwnerHangsUp \/ Wire!Close
    <2>1. UNCHANGED <<sent, accepted, ahead, hooked>> /\ Wire!Dead' /\ ws' = "none"
      BY <1>9 DEF Wire!FatalError, Wire!OwnerHangsUp, Wire!Close,
           Wire!TearDown, Wire!Dead
    <2> QED BY <1>0, <1>4, <2>1 DEF Wire!Unopened
  <1> QED BY <1>6, <1>7, <1>8, <1>9 DEF Wire!Next

LEMMA ConnectionAlways == Spec => [](which = "Wire" => Wire!IInv)
  <1> DEFINE I == which = "Wire" => Wire!IInv
  <1>1. Init => I BY InitSound, ComponentConstants DEF Init
  <1>2. I /\ [Next]_vars => I'
    <2>1. ASSUME Wire!IInv, Wire!Next PROVE Wire!IInv'
      BY <2>1, ConnectionFlags, ConnectionRanges, TimerStep, OrderStep, ComponentConstants
         DEF Wire!IInv, Wire!TypeOK
    <2>2. ASSUME Wire!IInv, UNCHANGED Wire!vars PROVE Wire!IInv'
      BY <2>2 DEF Wire!vars, Wire!IInv, Wire!TypeOK, Wire!Flags,
           Wire!Ranges, Wire!SentInOrder, Wire!TimerOnlyWhenDown,
           Wire!DialInv, Wire!Unopened, Wire!Nth, Wire!Dead
    <2>3. ASSUME [Next]_vars, which' = "Wire"
          PROVE  which = "Wire" /\ [Wire!Next]_Wire!vars
      BY <2>3 DEF Next, vars, Wire!vars
    <2> QED BY <2>1, <2>2, <2>3
  <1> QED BY <1>1, <1>2, PTL DEF Spec

\* However messages, failures, timers and the end of the call fall together, messages
\* reach the model in the order of sending, no socket comes back after the end, and the
\* vendor is not dialled more often than the attempts allow (openai.connection.ts).
THEOREM ConnectionIsSound == Spec => []ConnectionSound
  <1>1. (which = "Wire" => Wire!IInv) => ConnectionSound
    BY NoStormHolds, ComponentConstants DEF Wire!IInv, Wire!ConnectionSound, ConnectionSound
  <1> QED BY <1>1, ConnectionAlways, PTL

------------------------
\* The session: what the run of cleanup that works has passed is given back, or lost by
\* Asterisk (Call!IInv).

LEMMA PlacesAre ==
  /\ Call!Before("playBridge") = {"bridge"}
  /\ Call!Before("external") = {"bridge", "playBridge"}
  /\ Call!Before("hangingUp") = {"bridge", "playBridge", "external"}
  /\ Call!Before("closing") = {"bridge", "playBridge", "external", "hangingUp"}
  /\ Call!Before("stream") = {"bridge", "playBridge", "external", "hangingUp", "closing"}
  /\ Call!Before("rtp") = {"bridge", "playBridge", "external", "hangingUp", "closing", "stream"}
  /\ Call!Before("deleting") = {"bridge", "playBridge", "external", "hangingUp", "closing",
                        "stream", "rtp"}
  BY DEF Call!Before

\* What each step is, as far as the cleanup is concerned.
SetUp ==
  /\ init # "done"
  /\ UNCHANGED <<cleanedUp, cleaner, cdr, hangups, event, orderly, lost>>
  /\ \/ held' = held
     \/ \E r \in {"bridge", "playBridge", "external", "entry"} : held' = held \cup {r}
     \/ held' = held \cup {"connection", "entry", "handlers"}

\* What the steps of the call's voice leave alone, and when they may begin a greeting.
VoiceStep ==
  /\ UNCHANGED <<channel, listening, moh, init, registered, cleanedUp, cleaner, cdr, hangups, event,
                 lost, faults>>
  /\ linked' \in {linked, TRUE}
  /\ rtp' \in Nat /\ addresses' \in 0..MaxAddresses /\ rtp' <= addresses'
  /\ rtp < addresses => rtp' < addresses'
  /\ \/ held' = held /\ orderly' = orderly /\ greetings' = greetings
        /\ (rtp = 0 => rtp' = 0 \/ ~Call!ModelClosed)
     \/ held' = held /\ orderly' = (orderly /\ ~Call!ModelClosed)
        /\ greetings' = greetings + 1 /\ greetings < MaxAddresses
     \/ held' = held \cup {"entry"} /\ orderly' = orderly /\ greetings > 0
        /\ greetings' = greetings - 1 /\ rtp' = rtp

LEMMA SessionEnters ==
  ASSUME Call!CallSessionConstants, Call!TypeOK, Call!Enter
  PROVE  /\ rtp' \in Nat /\ rtp' \in 0..addresses' /\ addresses' \in 0..MaxAddresses
         /\ rtp < addresses => rtp' < addresses'
  BY DEF Call!CallSessionConstants, Call!TypeOK, Call!VoiceOK, Call!Enter

LEMMA SessionVoice ==
  ASSUME Call!CallSessionConstants, Call!TypeOK,
         Call!Link \/ Call!ReportRtp \/ Call!FirstPacket
         \/ Call!NatRemap \/ Call!AddressTaken \/ Call!EndGreeting
  PROVE  VoiceStep
  <1> USE DEF Call!CallSessionConstants, Call!TypeOK, Call!VoiceOK
  <1>0. Call!Enter =>
           /\ rtp' \in Nat /\ addresses' \in 0..MaxAddresses /\ rtp' <= addresses'
           /\ rtp < addresses => rtp' < addresses'
    BY SessionEnters
  <1>1. CASE Call!Link BY <1>1 DEF Call!Link, VoiceStep
  <1>2. CASE Call!ReportRtp BY <1>0, <1>2 DEF Call!ReportRtp, Call!BeginGreeting, VoiceStep
  <1>3. CASE Call!FirstPacket BY <1>3 DEF Call!FirstPacket, Call!BeginGreeting, VoiceStep
  <1>4. CASE Call!NatRemap BY <1>4 DEF Call!NatRemap, VoiceStep
  <1>5. CASE Call!AddressTaken BY <1>5 DEF Call!AddressTaken, VoiceStep
  <1>6. CASE Call!EndGreeting BY <1>6 DEF Call!EndGreeting, VoiceStep
  <1> QED BY <1>1, <1>2, <1>3, <1>4, <1>5, <1>6

LEMMA SessionTypes ==
  ASSUME Call!CallSessionConstants, Call!TypeOK, Call!Next
  PROVE  Call!TypeOK'
  <1>v. UNCHANGED Call!voice => Call!VoiceOK' BY DEF Call!TypeOK, Call!VoiceOK, Call!voice
  <1>a. ASSUME NEW from, NEW resource \in {"bridge", "playBridge", "external", "entry"},
               NEW to \in {"adding", "media", "joining", "done"}, Call!Acquire(from, resource, to)
        PROVE  Call!TypeOK'
    <2>1. held' \subseteq Call!Resources BY <1>a DEF Call!TypeOK, Call!Acquire, Call!Resources
    <2> QED BY <1>a, <1>v, <2>1 DEF Call!TypeOK, Call!Acquire, Call!Step, Call!Goto
  <1>0. CASE Call!Link \/ Call!ReportRtp \/ Call!FirstPacket
             \/ Call!NatRemap \/ Call!AddressTaken \/ Call!EndGreeting
    <2>1. VoiceStep BY <1>0, SessionVoice
    <2>2. greetings' \in 0..MaxAddresses 
      BY <2>1 DEF VoiceStep, Call!TypeOK, Call!VoiceOK, Call!CallSessionConstants
    <2>3. held' \subseteq Call!Resources BY <2>1 DEF VoiceStep, Call!TypeOK, Call!Resources
    <2>4. rtp' \in 0..addresses' /\ addresses' \in 0..MaxAddresses BY <2>1 DEF VoiceStep, Call!CallSessionConstants
    <2>5. linked' \in BOOLEAN BY <2>1 DEF VoiceStep, Call!TypeOK, Call!VoiceOK
    <2>6. UNCHANGED <<channel, listening, moh, init, registered, cleanedUp, cleaner, cdr, hangups,
                      event, lost, faults>>
      BY <2>1 DEF VoiceStep
    <2>7. Call!VoiceOK' BY <2>2, <2>4, <2>5 DEF Call!VoiceOK
    <2> QED BY <2>3, <2>6, <2>7 DEF Call!TypeOK
  <1>1. CASE Call!StasisStart BY <1>1, <1>v DEF Call!TypeOK, Call!StasisStart, Call!Step,
       Call!Goto
  <1>2. CASE Call!ResolveAssistant \/ Call!ConnectModel \/ Call!CreateBridge \/ Call!AddAndAnswer
    <2>1. CASE Call!ResolveAssistant BY <2>1, <1>v DEF Call!TypeOK, Call!ResolveAssistant,
         Call!Step, Call!Goto
    <2>2. CASE Call!ConnectModel
      <3>1. held' \subseteq Call!Resources BY <2>2 DEF Call!TypeOK, Call!ConnectModel, Call!Resources
      <3> QED BY <2>2, <3>1, <1>v DEF Call!TypeOK, Call!ConnectModel, Call!Step, Call!Goto
    <2>3. CASE Call!CreateBridge BY <2>3, <1>v, <1>a DEF Call!CreateBridge
    <2>4. CASE Call!AddAndAnswer BY <2>4, <1>v DEF Call!TypeOK, Call!AddAndAnswer,
         Call!Step, Call!Goto
    <2> QED BY <1>2, <2>1, <2>2, <2>3, <2>4
  <1>3. CASE Call!CreatePlayBridge \/ Call!CreateExternalMedia \/ Call!StartStreaming \/ Call!UpdateModel \/ Call!Greet
    <2>1. CASE Call!StartStreaming
      <3>1. rtp' \in 0..addresses' /\ addresses' \in 0..MaxAddresses BY <2>1, SessionEnters DEF Call!StartStreaming
      <3>2. init' \in {"updating", "done"} BY <2>1 DEF Call!StartStreaming, Call!Step, Call!Goto
      <3>3. UNCHANGED <<channel, listening, moh, registered, cleanedUp, cleaner, held, cdr, hangups,
                        event, lost, faults, linked, greetings>>
        BY <2>1 DEF Call!StartStreaming
      <3>4. Call!VoiceOK' BY <3>1, <3>3 DEF Call!TypeOK, Call!VoiceOK
      <3> QED BY <3>2, <3>3, <3>4 DEF Call!TypeOK
    <2>2. CASE Call!CreatePlayBridge \/ Call!CreateExternalMedia \/ Call!UpdateModel \/ Call!Greet
      <3>1. CASE Call!UpdateModel BY <3>1, <1>v DEF Call!TypeOK, Call!UpdateModel, Call!Step, Call!Goto
      <3> QED BY <2>2, <3>1, <1>a DEF Call!CreatePlayBridge, Call!CreateExternalMedia,
           Call!Greet
    <2> QED BY <1>3, <2>1, <2>2
  <1>4. CASE Call!InitFails \/ Call!HangUpFailed
    BY <1>4, <1>v DEF Call!TypeOK, Call!InitFails, Call!HangUpFailed, Call!Step,
         Call!Goto, Call!MayFail, Call!CallSessionConstants
  <1>5. CASE Call!ChannelLeaves \/ Call!CreateCdr \/ Call!AudioDelta \/ Call!ResponseDone \/ Call!UpdateSession
    <2>1. CASE Call!ChannelLeaves BY <2>1, <1>v DEF Call!TypeOK, Call!ChannelLeaves
    <2>2. CASE Call!CreateCdr BY <2>2, <1>v DEF Call!TypeOK, Call!CreateCdr
    <2>3. CASE Call!AudioDelta BY <2>3, <1>v DEF Call!TypeOK, Call!AudioDelta, Call!Resources
    <2>4. CASE Call!ResponseDone BY <2>4, <1>v DEF Call!TypeOK, Call!ResponseDone
    <2>5. CASE Call!UpdateSession
      <3>1. held' \subseteq Call!Resources BY <2>5 DEF Call!TypeOK, Call!UpdateSession, Call!Resources
      <3>2. event' \in BOOLEAN BY <2>5 DEF Call!UpdateSession
      <3> QED BY <2>5, <3>1, <3>2, <1>v DEF Call!TypeOK, Call!UpdateSession
    <2> QED BY <1>5, <2>1, <2>2, <2>3, <2>4, <2>5
  <1>6. CASE Call!StasisEnd \/ Call!Disconnect
    <2>1. PICK k \in Call!Cleaners : Call!BeginCleanup(k) BY <1>6 DEF Call!StasisEnd,
         Call!Disconnect, Call!Cleaners
    <2>2. cleaner' \in [Call!Cleaners -> {"idle", "bridge", "playBridge", "external", "hangingUp",
                                  "closing", "stream", "rtp", "deleting", "done"}]
      BY <2>1 DEF Call!TypeOK, Call!BeginCleanup
    <2>3. cleanedUp' \in BOOLEAN BY <2>1 DEF Call!TypeOK, Call!BeginCleanup
    <2>4. listening' \in BOOLEAN BY <1>6 DEF Call!TypeOK, Call!StasisEnd, Call!Disconnect
    <2>5. Call!VoiceOK' BY <1>6, <1>v DEF Call!TypeOK, Call!VoiceOK, Call!StasisEnd, Call!Disconnect
    <2> QED BY <1>6, <2>2, <2>3, <2>4, <2>5 DEF Call!TypeOK, Call!StasisEnd, Call!Disconnect
  <1>7. ASSUME NEW k \in Call!Cleaners, Call!ReleaseAsterisk(k) PROVE Call!TypeOK'
    <2>1. ASSUME NEW from, NEW resource \in Call!Resources,
                 NEW to \in {"playBridge", "external", "hangingUp"}, Call!Release(k, from, resource, to)
          PROVE Call!TypeOK'
      <3>1. cleaner' \in [Call!Cleaners -> {"idle", "bridge", "playBridge", "external", "hangingUp",
                                    "closing", "stream", "rtp", "deleting", "done"}]
        BY <2>1 DEF Call!TypeOK, Call!Release, Call!Clean
      <3>2. held' \subseteq Call!Resources /\ lost' \subseteq Call!Resources BY <2>1
           DEF Call!TypeOK, Call!Release
      <3>3. faults' \in 0..MaxFaults BY <2>1 DEF Call!TypeOK, Call!Release,
           Call!MayFail, Call!CallSessionConstants
      <3> QED BY <2>1, <3>1, <3>2, <3>3, <1>v DEF Call!TypeOK, Call!Release
    <2> QED BY <1>7, <2>1 DEF Call!ReleaseAsterisk, Call!Resources
  <1>8. ASSUME NEW k \in Call!Cleaners, Call!HangUpCdr(k) PROVE Call!TypeOK'
    BY <1>8, <1>v DEF Call!TypeOK, Call!HangUpCdr, Call!Clean, Call!MayFail,
         Call!CallSessionConstants
  <1>9. ASSUME NEW k \in Call!Cleaners, Call!CloseModel(k) \/ Call!RemoveStream(k) \/ Call!EndRtp(k) \/ Call!Forget(k)
        PROVE Call!TypeOK'
    <2>1. CASE Call!CloseModel(k) BY <2>1, <1>v DEF Call!TypeOK, Call!CloseModel, Call!Clean
    <2>2. CASE Call!RemoveStream(k) BY <2>2, <1>v DEF Call!TypeOK, Call!RemoveStream,
         Call!Drop, Call!Clean
    <2>3. CASE Call!EndRtp(k)
      <3>1. Call!VoiceOK' BY <2>3 DEF Call!TypeOK, Call!VoiceOK, Call!EndRtp,
           Call!CallSessionConstants
      <3>2. held' \subseteq Call!Resources BY <2>3 DEF Call!TypeOK, Call!EndRtp
      <3> QED BY <2>3, <3>1, <3>2 DEF Call!TypeOK, Call!EndRtp, Call!Clean
    <2>4. CASE Call!Forget(k) BY <2>4, <1>v DEF Call!TypeOK, Call!Forget, Call!Clean
    <2> QED BY <1>9, <2>1, <2>2, <2>3, <2>4
  <1> QED BY <1>0, <1>1, <1>2, <1>3, <1>4, <1>5, <1>6, <1>7, <1>8, <1>9 DEF Call!Next,
       Call!Initialize, Call!Cleanup

LEMMA SetUpSteps ==
  ASSUME Call!StasisStart \/ Call!Initialize
  PROVE  SetUp
  <1>1. CASE Call!StasisStart BY <1>1 DEF SetUp, Call!StasisStart, Call!Step
  <1>2. CASE Call!Initialize
    BY <1>2 DEF SetUp, Call!Initialize, Call!ResolveAssistant, Call!ConnectModel,
         Call!CreateBridge, Call!AddAndAnswer, Call!Acquire, Call!Step,
       Call!CreatePlayBridge, Call!CreateExternalMedia, Call!StartStreaming, Call!UpdateModel, Call!Greet, Call!InitFails, Call!HangUpFailed
  <1> QED BY <1>1, <1>2

LEMMA OneWorksStep ==
  ASSUME Call!CallSessionConstants, Call!TypeOK, Call!OneWorks, Call!Next
  PROVE  Call!OneWorks'
  <1> USE DEF Call!Cleaners
  <1>t. cleaner \in [Call!Cleaners -> {"idle", "bridge", "playBridge", "external", "hangingUp",
                              "closing", "stream", "rtp", "deleting", "done"}] /\ hangups \in Nat
    BY DEF Call!TypeOK
  <1>0. CASE Call!Link \/ Call!ReportRtp \/ Call!FirstPacket
             \/ Call!NatRemap \/ Call!AddressTaken \/ Call!EndGreeting
    <2>1. VoiceStep BY <1>0, SessionVoice
    <2>2. UNCHANGED <<init, cleanedUp, cleaner, cdr, hangups>> BY <2>1 DEF VoiceStep
    <2>3. orderly' => orderly BY <2>1 DEF VoiceStep
    <2> QED BY <2>2, <2>3 DEF Call!OneWorks
  <1>1. CASE Call!StasisStart \/ Call!Initialize BY <1>1, SetUpSteps DEF SetUp, Call!OneWorks
  <1>2. CASE Call!ChannelLeaves \/ Call!CreateCdr \/ Call!AudioDelta \/ Call!ResponseDone \/ Call!UpdateSession
    BY <1>2 DEF Call!OneWorks, Call!ChannelLeaves, Call!CreateCdr, Call!AudioDelta,
         Call!ResponseDone, Call!UpdateSession
  <1>3. CASE Call!StasisEnd \/ Call!Disconnect
    <2>1. PICK k \in Call!Cleaners : Call!BeginCleanup(k) BY <1>3 DEF Call!StasisEnd,
         Call!Disconnect
    <2>2. UNCHANGED <<init, hangups, cdr>> BY <1>3 DEF Call!StasisEnd, Call!Disconnect
    <2>3. CASE registered /\ ~cleanedUp /\ cleaner' = [cleaner EXCEPT ![k] = "bridge"]
               /\ cleanedUp' = TRUE /\ orderly' = (init = "done" /\ cdr)
      <3>1. \A l \in Call!Cleaners : cleaner[l] \notin Call!Before("deleting") BY <2>3,
           PlacesAre DEF Call!OneWorks
      <3>2. \A l \in Call!Cleaners : l # k => cleaner'[l] \notin Call!Before("deleting") BY <1>t, <2>3, <3>1
      <3>3. orderly' => init' = "done" /\ cdr' BY <2>2, <2>3
      <3>4. hangups' = 0 /\ cleanedUp' BY <2>2, <2>3 DEF Call!OneWorks
      <3> QED BY <3>2, <3>3, <3>4 DEF Call!OneWorks
    <2>4. CASE \E at \in {"deleting", "done"} :
                 /\ cleaner' = [cleaner EXCEPT ![k] = at] /\ UNCHANGED <<cleanedUp, orderly>>
                 /\ at = "deleting" => cleanedUp
      BY <1>t, <2>2, <2>4, PlacesAre DEF Call!OneWorks
    <2> QED BY <2>1, <2>3, <2>4 DEF Call!BeginCleanup
  <1>4. ASSUME NEW k \in Call!Cleaners, Call!ReleaseAsterisk(k) PROVE Call!OneWorks'
    BY <1>t, <1>4, PlacesAre DEF Call!OneWorks, Call!ReleaseAsterisk, Call!Release,
         Call!Clean
  <1>5. ASSUME NEW k \in Call!Cleaners, Call!HangUpCdr(k) PROVE Call!OneWorks'
    BY <1>t, <1>5, PlacesAre DEF Call!OneWorks, Call!HangUpCdr, Call!Clean
  <1>6. ASSUME NEW k \in Call!Cleaners, Call!CloseModel(k) \/ Call!RemoveStream(k) \/ Call!EndRtp(k) \/ Call!Forget(k)
        PROVE Call!OneWorks'
    <2>1. CASE Call!CloseModel(k) BY <1>t, <2>1, PlacesAre DEF Call!OneWorks,
         Call!CloseModel, Call!Clean
    <2>2. CASE Call!RemoveStream(k) BY <1>t, <2>2, PlacesAre DEF Call!OneWorks,
         Call!RemoveStream, Call!Drop, Call!Clean
    <2>3. CASE Call!EndRtp(k) BY <1>t, <2>3, PlacesAre DEF Call!OneWorks, Call!EndRtp,
         Call!Clean
    <2>4. CASE Call!Forget(k) BY <1>t, <2>4, PlacesAre DEF Call!OneWorks, Call!Forget,
         Call!Clean
    <2> QED BY <1>6, <2>1, <2>2, <2>3, <2>4
  <1> QED BY <1>0, <1>1, <1>2, <1>3, <1>4, <1>5, <1>6 DEF Call!Next, Call!Cleanup

LEMMA KnownStep ==
  ASSUME Call!CallSessionConstants, Call!TypeOK, Call!OneWorks, Call!Known, Call!Next
  PROVE  Call!Known'
  <1> USE DEF Call!Cleaners
  <1>t. cleaner \in [Call!Cleaners -> {"idle", "bridge", "playBridge", "external", "hangingUp",
                              "closing", "stream", "rtp", "deleting", "done"}]
    BY DEF Call!TypeOK
  <1>0. CASE Call!Link \/ Call!ReportRtp \/ Call!FirstPacket
             \/ Call!NatRemap \/ Call!AddressTaken \/ Call!EndGreeting
    <2>1. VoiceStep BY <1>0, SessionVoice
    <2>2. UNCHANGED <<cleanedUp, cleaner>> BY <2>1 DEF VoiceStep
    <2>3. held' = held \/ held' = held \cup {"entry"} BY <2>1 DEF VoiceStep
    <2> QED BY <2>2, <2>3 DEF Call!Known
  <1>1. CASE Call!StasisStart \/ Call!Initialize BY <1>1, SetUpSteps DEF SetUp, Call!Known
  <1>2. CASE Call!ChannelLeaves \/ Call!CreateCdr \/ Call!AudioDelta \/ Call!ResponseDone \/ Call!UpdateSession
    BY <1>2 DEF Call!Known, Call!ChannelLeaves, Call!CreateCdr, Call!AudioDelta,
         Call!ResponseDone, Call!UpdateSession
  <1>3. CASE Call!StasisEnd \/ Call!Disconnect
    BY <1>t, <1>3, PlacesAre DEF Call!Known, Call!OneWorks, Call!StasisEnd,
         Call!Disconnect, Call!BeginCleanup
  <1>4. ASSUME NEW k \in Call!Cleaners, Call!ReleaseAsterisk(k) PROVE Call!Known'
    BY <1>t, <1>4, PlacesAre DEF Call!Known, Call!ReleaseAsterisk, Call!Release,
         Call!Clean
  <1>5. ASSUME NEW k \in Call!Cleaners, Call!HangUpCdr(k) PROVE Call!Known'
    BY <1>t, <1>5, PlacesAre DEF Call!Known, Call!HangUpCdr, Call!Clean
  <1>6. ASSUME NEW k \in Call!Cleaners, Call!CloseModel(k) \/ Call!RemoveStream(k) \/ Call!EndRtp(k) \/ Call!Forget(k)
        PROVE Call!Known'
    <2>0. cleaner[k] \in Call!Before("deleting") \cup {"deleting"}
      BY <1>6, PlacesAre DEF Call!CloseModel, Call!RemoveStream, Call!Drop, Call!EndRtp,
           Call!Forget, Call!Clean
    <2>1. cleanedUp /\ cleanedUp' = cleanedUp
      BY <1>6, <2>0 DEF Call!OneWorks, Call!CloseModel, Call!RemoveStream, Call!Drop,
           Call!EndRtp, Call!Forget
    <2>2. \E to \in {"stream", "rtp", "deleting", "done"} : cleaner' = [cleaner EXCEPT ![k] = to]
      BY <1>6 DEF Call!CloseModel, Call!RemoveStream, Call!Drop, Call!EndRtp,
           Call!Forget, Call!Clean
    <2>3. \A l \in Call!Cleaners : cleaner'[l] \in Call!Before("stream")
                => l # k /\ cleaner[l] \in Call!Before("stream")
      BY <1>t, <2>2, PlacesAre
    <2>4. CASE Call!Forget(k) BY <2>1, <2>3, <2>4 DEF Call!Known, Call!Forget
    <2>5. CASE ~Call!Forget(k)
      <3>1. cleaner[k] \in Call!Before("deleting")
        BY <1>6, <2>5, PlacesAre DEF Call!CloseModel, Call!RemoveStream, Call!Drop,
             Call!EndRtp, Call!Clean
      <3>2. \A l \in Call!Cleaners : cleaner'[l] \notin Call!Before("stream")
        BY <2>3, <3>1, PlacesAre DEF Call!OneWorks
      <3> QED BY <2>1, <3>2 DEF Call!Known
    <2> QED BY <2>4, <2>5
  <1> QED BY <1>0, <1>1, <1>2, <1>3, <1>4, <1>5, <1>6 DEF Call!Next, Call!Cleanup

LEMMA LostHeldStep ==
  ASSUME Call!CallSessionConstants, Call!TypeOK, Call!OneWorks, Call!LostHeld, Call!Next
  PROVE  Call!LostHeld'
  <1> USE DEF Call!Cleaners
  <1>t. cleaner \in [Call!Cleaners -> {"idle", "bridge", "playBridge", "external", "hangingUp",
                              "closing", "stream", "rtp", "deleting", "done"}]
    BY DEF Call!TypeOK
  <1>0. CASE Call!Link \/ Call!ReportRtp \/ Call!FirstPacket
             \/ Call!NatRemap \/ Call!AddressTaken \/ Call!EndGreeting
    <2>1. VoiceStep BY <1>0, SessionVoice
    <2>2. UNCHANGED <<cleanedUp, cleaner, lost>> BY <2>1 DEF VoiceStep
    <2>3. held \subseteq held' BY <2>1 DEF VoiceStep
    <2> QED BY <2>2, <2>3 DEF Call!LostHeld
  <1>1. CASE Call!StasisStart \/ Call!Initialize BY <1>1, SetUpSteps DEF SetUp, Call!LostHeld
  <1>2. CASE Call!ChannelLeaves \/ Call!CreateCdr \/ Call!AudioDelta \/ Call!ResponseDone \/ Call!UpdateSession
    BY <1>2 DEF Call!LostHeld, Call!ChannelLeaves, Call!CreateCdr, Call!AudioDelta,
         Call!ResponseDone, Call!UpdateSession
  <1>3. CASE Call!StasisEnd \/ Call!Disconnect
    <2>1. PICK k \in Call!Cleaners : Call!BeginCleanup(k) BY <1>3 DEF Call!StasisEnd,
         Call!Disconnect
    <2>2. UNCHANGED <<held, lost>> BY <1>3 DEF Call!StasisEnd, Call!Disconnect
    <2>3. \/ cleaner' = [cleaner EXCEPT ![k] = "bridge"] /\ lost = {} /\ cleanedUp'
          \/ /\ cleaner' = [cleaner EXCEPT ![k] = "deleting"] \/ cleaner' = [cleaner EXCEPT ![k] = "done"]
             /\ UNCHANGED cleanedUp
      BY <2>1 DEF Call!LostHeld, Call!BeginCleanup
    <2> QED BY <1>t, <2>2, <2>3 DEF Call!LostHeld
  <1>4. ASSUME NEW k \in Call!Cleaners, Call!ReleaseAsterisk(k) PROVE Call!LostHeld'
    BY <1>t, <1>4, PlacesAre DEF Call!OneWorks, Call!LostHeld, Call!ReleaseAsterisk,
         Call!Release, Call!Clean
  <1>5. ASSUME NEW k \in Call!Cleaners, Call!HangUpCdr(k) PROVE Call!LostHeld'
    BY <1>t, <1>5, PlacesAre DEF Call!LostHeld, Call!HangUpCdr, Call!Clean
  <1>6. ASSUME NEW k \in Call!Cleaners, Call!CloseModel(k) \/ Call!RemoveStream(k) \/ Call!EndRtp(k) \/ Call!Forget(k)
        PROVE Call!LostHeld'
    <2>1. CASE Call!CloseModel(k) BY <1>t, <2>1, PlacesAre DEF Call!OneWorks,
         Call!LostHeld, Call!CloseModel, Call!Clean
    <2>2. CASE Call!RemoveStream(k) BY <1>t, <2>2, PlacesAre DEF Call!OneWorks,
         Call!LostHeld, Call!RemoveStream, Call!Drop, Call!Clean
    <2>3. CASE Call!EndRtp(k) BY <1>t, <2>3, PlacesAre DEF Call!OneWorks, Call!LostHeld,
         Call!EndRtp, Call!Clean
    <2>4. CASE Call!Forget(k) BY <1>t, <2>4, PlacesAre DEF Call!OneWorks, Call!LostHeld,
         Call!Forget, Call!Clean
    <2> QED BY <1>6, <2>1, <2>2, <2>3, <2>4
  <1> QED BY <1>0, <1>1, <1>2, <1>3, <1>4, <1>5, <1>6 DEF Call!Next, Call!Cleanup

LEMMA GivenBackStep ==
  ASSUME Call!CallSessionConstants, Call!TypeOK, Call!OneWorks, Call!Known, Call!LostHeld, Call!GivenBack, Call!Next
  PROVE  Call!GivenBack'
  <1> USE DEF Call!Cleaners
  <1>t. cleaner \in [Call!Cleaners -> {"idle", "bridge", "playBridge", "external", "hangingUp",
                              "closing", "stream", "rtp", "deleting", "done"}]
    BY DEF Call!TypeOK
  <1>0. CASE Call!Link \/ Call!ReportRtp \/ Call!FirstPacket
             \/ Call!NatRemap \/ Call!AddressTaken \/ Call!EndGreeting
    <2>1. VoiceStep BY <1>0, SessionVoice
    <2>2. SUFFICES ASSUME orderly' PROVE Call!GivenBack' BY DEF Call!GivenBack
    <2>3. orderly /\ cleanedUp /\ UNCHANGED <<cleaner, event, lost, registered>>
      BY <2>1, <2>2 DEF VoiceStep, Call!OneWorks
    <2>4. \/ held' = held /\ greetings' = greetings
          \/ ~Call!Reached("stream") /\ held' = held \cup {"entry"}
          \/ ~Call!Reached("stream") /\ held' = held
      <3>1. ~Call!ModelClosed => ~Call!Reached("stream") BY <2>3, PlacesAre DEF Call!ModelClosed, Call!Reached
      <3>2. greetings > 0 => ~Call!Reached("stream") BY <2>3 DEF Call!GivenBack
      <3> QED BY <2>1, <2>2, <3>1, <3>2 DEF VoiceStep
    <2>5. rtp' > 0 /\ Call!Reached("deleting") => rtp' < addresses'
      <3>1. Call!Reached("deleting") => Call!Reached("stream") /\ (rtp > 0 => rtp < addresses)
        BY <2>3, PlacesAre DEF Call!Reached, Call!GivenBack
      <3>2. ~Call!ModelClosed => ~Call!Reached("stream") BY <2>3, PlacesAre DEF Call!ModelClosed, Call!Reached
      <3>3. rtp \in Nat BY DEF Call!TypeOK, Call!VoiceOK, Call!CallSessionConstants
      <3>4. ~Call!ModelClosed \/ rtp # 0 \/ rtp' = 0 \/ rtp' = rtp
        <4>1. CASE orderly' = orderly /\ (rtp = 0 => rtp' = 0 \/ ~Call!ModelClosed) BY <4>1
        <4>2. CASE orderly' = (orderly /\ ~Call!ModelClosed) BY <2>2, <4>2
        <4>3. CASE rtp' = rtp BY <4>3
        <4> QED BY <2>1, <4>1, <4>2, <4>3 DEF VoiceStep
      <3>5. rtp < addresses => rtp' < addresses' BY <2>1 DEF VoiceStep
      <3> QED BY <3>1, <3>2, <3>3, <3>4, <3>5
    <2>6. \A place \in {"playBridge", "external", "hangingUp", "stream", "rtp", "deleting"} :
             Call!Reached(place)' <=> Call!Reached(place)
      BY <2>3 DEF Call!Reached
    <2>7. held' \subseteq held \cup {"entry"} BY <2>4
    <2>8. Call!Reached("stream")' =>
             ~event' /\ greetings' = 0 /\ {"connection", "handlers", "entry"} \cap held' = {}
      BY <2>3, <2>4, <2>6 DEF Call!GivenBack
    <2>9. /\ Call!Reached("playBridge")' => {"bridge"} \cap held' \subseteq lost'
          /\ Call!Reached("external")' => {"playBridge"} \cap held' \subseteq lost'
          /\ Call!Reached("hangingUp")' => {"external"} \cap held' \subseteq lost'
          /\ Call!Reached("rtp")' => "stream" \notin held'
      BY <2>3, <2>6, <2>7 DEF Call!GivenBack
    <2>10. registered' => \E k \in Call!Cleaners :
                             cleaner'[k] \in Call!Before("deleting") \cup {"deleting"}
      BY <2>3 DEF Call!GivenBack
    <2>11. Call!Reached("deleting")' => (rtp' > 0 => rtp' < addresses') BY <2>5, <2>6
    <2> QED BY <2>8, <2>9, <2>10, <2>11 DEF Call!GivenBack
  <1>1. CASE Call!StasisStart \/ Call!Initialize BY <1>1, SetUpSteps DEF SetUp, Call!GivenBack, Call!OneWorks
  <1>2. CASE Call!ChannelLeaves \/ Call!CreateCdr \/ Call!ResponseDone \/ Call!UpdateSession
    BY <1>2, PlacesAre DEF Call!voice, Call!GivenBack, Call!Reached, Call!ChannelLeaves,
         Call!CreateCdr, Call!ResponseDone, Call!UpdateSession, Call!Hearing
  <1>2a. CASE Call!AudioDelta
    <2>1. UNCHANGED <<cleaner, event, orderly, lost, registered, rtp, addresses, greetings>>
             /\ held' = held \cup {"stream"}
      BY <1>2a DEF Call!AudioDelta, Call!voice
    <2>2. orderly => ~Call!Reached("stream") BY <1>2a DEF Call!AudioDelta, Call!Hearing, Call!GivenBack
    <2>3. orderly => ~Call!Reached("rtp") /\ ~Call!Reached("deleting") BY <2>2, PlacesAre DEF Call!Reached
    <2> QED BY <2>1, <2>2, <2>3 DEF Call!GivenBack, Call!Reached
  <1>3. CASE Call!StasisEnd \/ Call!Disconnect
    <2>1. PICK k \in Call!Cleaners : Call!BeginCleanup(k) BY <1>3 DEF Call!StasisEnd,
         Call!Disconnect
    <2>2. UNCHANGED <<held, event, lost, registered, rtp, addresses, greetings>>
      BY <1>3 DEF Call!StasisEnd, Call!Disconnect, Call!voice
    <2>3. CASE cleaner' = [cleaner EXCEPT ![k] = "bridge"]
      <3>1. cleaner'[k] = "bridge" BY <1>t, <2>3
      <3>2. ~Call!Reached("playBridge")' /\ ~Call!Reached("external")' /\ ~Call!Reached("hangingUp")'
             /\ ~Call!Reached("stream")' /\ ~Call!Reached("rtp")' /\ ~Call!Reached("deleting")'
        BY <3>1, PlacesAre DEF Call!Reached
      <3>3. cleaner'[k] \in Call!Before("deleting") BY <3>1, PlacesAre
      <3> QED BY <3>2, <3>3 DEF Call!GivenBack
    <2>4. CASE \E at \in {"deleting", "done"} :
                 cleaner[k] = "idle" /\ cleaner' = [cleaner EXCEPT ![k] = at] /\ UNCHANGED orderly
      <3>1. \A l \in Call!Cleaners : \A p \in Call!Before("deleting") :
               cleaner'[l] = p <=> cleaner[l] = p
        BY <1>t, <2>4, PlacesAre
      <3>2. \A p \in {"playBridge", "external", "hangingUp", "stream", "rtp", "deleting"} :
               Call!Reached(p)' <=> Call!Reached(p)
        BY <3>1, PlacesAre DEF Call!Reached
      <3>3. (\E l \in Call!Cleaners : cleaner[l] \in Call!Before("deleting") \cup {"deleting"})
             => \E l \in Call!Cleaners : cleaner'[l] \in Call!Before("deleting") \cup {"deleting"}
        BY <1>t, <2>4, PlacesAre
      <3> QED BY <2>2, <2>4, <3>2, <3>3 DEF Call!GivenBack
    <2> QED BY <2>1, <2>3, <2>4 DEF Call!BeginCleanup
  <1>4. ASSUME NEW k \in Call!Cleaners, Call!ReleaseAsterisk(k) PROVE Call!GivenBack'
    <2>1. CASE Call!Release(k, "bridge", "bridge", "playBridge")
      BY <1>t, <2>1, PlacesAre DEF Call!voice, Call!OneWorks, Call!GivenBack, Call!Reached,
           Call!Release, Call!Clean
    <2>2. CASE Call!Release(k, "playBridge", "playBridge", "external")
      BY <1>t, <2>2, PlacesAre DEF Call!voice, Call!OneWorks, Call!GivenBack, Call!Reached,
           Call!Release, Call!Clean
    <2>3. CASE Call!Release(k, "external", "external", "hangingUp")
      BY <1>t, <2>3, PlacesAre DEF Call!voice, Call!OneWorks, Call!GivenBack, Call!Reached,
           Call!Release, Call!Clean
    <2> QED BY <1>4, <2>1, <2>2, <2>3 DEF Call!ReleaseAsterisk
  <1>5. ASSUME NEW k \in Call!Cleaners, Call!HangUpCdr(k) PROVE Call!GivenBack'
    <2>1. SUFFICES ASSUME orderly' PROVE Call!GivenBack' BY DEF Call!GivenBack
    <2>2. orderly /\ cleaner[k] = "hangingUp" /\ cleaner' = [cleaner EXCEPT ![k] = "closing"]
      BY <1>5, <2>1 DEF Call!HangUpCdr, Call!Clean, Call!OneWorks
    <2>3. Call!Reached("playBridge") /\ Call!Reached("external") /\ Call!Reached("hangingUp")
      BY <2>2, PlacesAre DEF Call!OneWorks, Call!Reached
    <2>4. cleaner'[k] = "closing" BY <1>t, <2>2
    <2>5. ~Call!Reached("stream")' /\ ~Call!Reached("rtp")' /\ ~Call!Reached("deleting")'
      BY <2>4, PlacesAre DEF Call!Reached
    <2>6. cleaner'[k] \in Call!Before("deleting") BY <2>4, PlacesAre
    <2>7. UNCHANGED <<held, lost, registered>> BY <1>5 DEF Call!HangUpCdr
    <2> QED BY <2>2, <2>3, <2>5, <2>6, <2>7 DEF Call!GivenBack
  <1>6. ASSUME NEW k \in Call!Cleaners, Call!CloseModel(k) \/ Call!RemoveStream(k) \/ Call!EndRtp(k) \/ Call!Forget(k)
        PROVE Call!GivenBack'
    <2>1. CASE Call!CloseModel(k)
      <3>0. cleaner[k] = "closing" /\ cleaner' = [cleaner EXCEPT ![k] = "stream"]
        BY <2>1 DEF Call!CloseModel, Call!Clean
      <3>1. SUFFICES ASSUME orderly' PROVE Call!GivenBack' BY DEF Call!GivenBack
      <3>2. orderly /\ ~event /\ ~event' /\ greetings' = 0 BY <2>1, <3>1 DEF Call!CloseModel, Call!voice
      <3>3. {"connection", "handlers", "entry"} \cap held' = {}
        <4>1. "handlers" \in held <=> "connection" \in held BY <3>0, PlacesAre DEF Call!Known
        <4>2. "connection" \in held => "entry" \in held BY <3>0, PlacesAre DEF Call!Known
        <4>3. held' = held \ (IF "entry" \in held THEN {"handlers", "entry", "connection"}
                                                   ELSE {"handlers"})
          BY <2>1 DEF Call!CloseModel
        <4> QED BY <4>1, <4>2, <4>3
      <3>4. held' \subseteq held /\ lost' = lost /\ registered' = registered BY <2>1
           DEF Call!CloseModel
      <3>5. Call!Reached("playBridge") /\ Call!Reached("external") /\ Call!Reached("hangingUp")
        BY <3>0, PlacesAre DEF Call!OneWorks, Call!Reached
      <3>6. ~Call!Reached("rtp")' /\ ~Call!Reached("deleting")' BY <1>t, <3>0,
           PlacesAre DEF Call!Reached
      <3>7. cleaner'[k] \in Call!Before("deleting") BY <1>t, <3>0, PlacesAre
      <3> QED BY <3>2, <3>3, <3>4, <3>5, <3>6, <3>7 DEF Call!GivenBack
    <2>2. CASE Call!RemoveStream(k) BY <1>t, <2>2, PlacesAre DEF Call!voice, Call!OneWorks,
         Call!Known, Call!GivenBack, Call!Reached, Call!RemoveStream, Call!Drop,
         Call!Clean
    <2>3. CASE Call!EndRtp(k)
      <3>1. SUFFICES ASSUME orderly' PROVE Call!GivenBack' BY DEF Call!GivenBack
      <3>2. cleaner[k] = "rtp" /\ cleaner' = [cleaner EXCEPT ![k] = "deleting"]
             /\ UNCHANGED <<event, orderly, lost, registered, addresses, greetings>>
             /\ held' \subseteq held
        BY <2>3 DEF Call!EndRtp, Call!Clean
      <3>3. Call!Reached("playBridge") /\ Call!Reached("external") /\ Call!Reached("hangingUp")
             /\ Call!Reached("stream") /\ Call!Reached("rtp")
        BY <3>2, PlacesAre DEF Call!OneWorks, Call!Reached
      <3>4. rtp' > 0 => rtp' < addresses'
        <4>1. rtp \in Nat /\ addresses \in Nat /\ rtp <= addresses
          BY DEF Call!TypeOK, Call!VoiceOK, Call!CallSessionConstants
        <4>2. CASE rtp > 0 BY <2>3, <3>2, <4>1, <4>2 DEF Call!EndRtp
        <4>3. CASE ~(rtp > 0) BY <2>3, <4>1, <4>3 DEF Call!EndRtp
        <4> QED BY <4>2, <4>3
      <3>5. cleaner'[k] = "deleting" BY <1>t, <3>2
      <3> QED BY <3>1, <3>2, <3>3, <3>4, <3>5 DEF Call!GivenBack
    <2>4. CASE Call!Forget(k) BY <1>t, <2>4, PlacesAre DEF Call!voice, Call!OneWorks, Call!Known,
         Call!GivenBack, Call!Reached, Call!Forget, Call!Clean
    <2> QED BY <1>6, <2>1, <2>2, <2>3, <2>4
  <1> QED BY <1>0, <1>1, <1>2, <1>2a, <1>3, <1>4, <1>5, <1>6 DEF Call!Next, Call!Cleanup

LEMMA SessionInit == ASSUME Call!CallSessionConstants, Call!Init PROVE Call!IInv
  <1>1. Call!TypeOK
    <2>1. 0 \in 0..MaxFaults BY DEF Call!CallSessionConstants
    <2>3. Call!VoiceOK
      <3>1. 0 \in 0..MaxAddresses BY DEF Call!CallSessionConstants
      <3>2. linked = FALSE /\ rtp = 0 /\ addresses = 0 /\ greetings = 0 BY DEF Call!Init
      <3>3. rtp \in 0..addresses BY <3>2
      <3> QED BY <3>1, <3>2, <3>3 DEF Call!VoiceOK
    <2>2. moh \in BOOLEAN BY DEF Call!Init, Call!CallSessionConstants
    <2> QED BY <2>1, <2>2, <2>3 DEF Call!Init, Call!TypeOK
  <1>2. Call!OneWorks BY PlacesAre DEF Call!Init, Call!OneWorks
  <1>3. Call!Known BY PlacesAre DEF Call!Init, Call!Known
  <1>4. Call!LostHeld BY PlacesAre DEF Call!Init, Call!LostHeld
  <1>5. Call!GivenBack BY DEF Call!Init, Call!GivenBack
  <1> QED BY <1>1, <1>2, <1>3, <1>4, <1>5 DEF Call!IInv

LEMMA SessionIs == ASSUME Call!IInv PROVE Call!EndsClean /\ Call!HangUpOnce
  <1>1. Call!HangUpOnce BY DEF Call!IInv, Call!OneWorks, Call!HangUpOnce
  <1>2. ASSUME orderly, Call!Idle
        PROVE  held = lost /\ ~registered /\ (rtp > 0 => addresses > 1)
    <2>1. \A k \in Call!Cleaners : cleaner[k] \notin Call!Before("deleting") \cup {"deleting"}
      BY <1>2, PlacesAre DEF Call!Idle
    <2>2. Call!Reached("playBridge") /\ Call!Reached("external") /\ Call!Reached("hangingUp") /\ Call!Reached("stream")
          /\ Call!Reached("rtp") /\ Call!Reached("deleting")
      BY <2>1, PlacesAre DEF Call!Reached
    <2>3. \A r \in held : r \in lost BY <1>2, <2>2 DEF Call!IInv, Call!GivenBack, Call!TypeOK, Call!Resources
    <2>4. rtp > 0 => addresses > 1
      <3>1. rtp > 0 => rtp < addresses BY <1>2, <2>2 DEF Call!IInv, Call!GivenBack
      <3>2. rtp \in Int /\ addresses \in Int BY DEF Call!IInv, Call!TypeOK, Call!VoiceOK
      <3> QED BY <3>1, <3>2
    <2> QED BY <1>2, <2>1, <2>3, <2>4 DEF Call!IInv, Call!GivenBack, Call!LostHeld
  <1> QED BY <1>1, <1>2 DEF Call!EndsClean

LEMMA SessionAlways == Spec => [](which = "Call" => Call!IInv)
  <1> DEFINE I == which = "Call" => Call!IInv
  <1>1. Init => I BY SessionInit, ComponentConstants DEF Init
  <1>2. I /\ [Next]_vars => I'
    <2>1. ASSUME Call!IInv, Call!Next PROVE Call!IInv'
      BY <2>1, SessionTypes, OneWorksStep, KnownStep, LostHeldStep, GivenBackStep, ComponentConstants
         DEF Call!IInv
    <2>2. ASSUME Call!IInv, UNCHANGED Call!vars PROVE Call!IInv'
      <3>1. Call!TypeOK' BY <2>2 DEF Call!vars, Call!IInv, Call!TypeOK, Call!VoiceOK
      <3>2. Call!OneWorks' /\ Call!Known' /\ Call!LostHeld' /\ Call!GivenBack'
        BY <2>2 DEF Call!vars, Call!IInv, Call!OneWorks, Call!Known, Call!LostHeld,
             Call!GivenBack, Call!Reached
      <3> QED BY <3>1, <3>2 DEF Call!IInv
    <2>3. ASSUME [Next]_vars, which' = "Call"
          PROVE  which = "Call" /\ [Call!Next]_Call!vars
      BY <2>3 DEF Next, vars, Call!vars
    <2> QED BY <2>1, <2>2, <2>3
  <1> QED BY <1>1, <1>2, PTL DEF Spec

\* The handlers of StasisStart, StasisEnd and disconnect, cleanup: whatever they do side
\* by side, and whatever the model says meanwhile, a call that ended in order holds
\* nothing that Asterisk released, and it is billed once.
THEOREM CallEnds == Spec => []SessionEnds
  <1>1. (which = "Call" => Call!IInv) => SessionEnds BY SessionIs DEF SessionEnds
  <1> QED BY <1>1, SessionAlways, PTL

------------------------
\* The voice: a call that is set up has its own address in the map (Rtp!IInv).

EntryOf(D) == [key : Rtp!Keys, object : D]
ObjectSet  == [call : Calls, init : BOOLEAN, received : BOOLEAN]
FirstOf(c) == Rtp!SelectInSeq(entries, LAMBDA e : objects[e.object].call = c)
Unique(s)  == \A i, j \in DOMAIN s : s[i].key = s[j].key => i = j

\* A set of naturals that has a member has a least one.
LEMMA LeastIndex ==
  ASSUME NEW I \in SUBSET Nat, I # {}
  PROVE  Rtp!Min(I) \in I
  <1>1. PICK m \in I : \A k \in I : <<k, m>> \notin OpToRel(<, Nat) BY NatLessThanWellFounded, WFMin
  <1>2. OpToRel(<, Nat) = {ss \in Nat \X Nat : ss[1] < ss[2]} BY DEF OpToRel
  <1>3. \A k \in I : ~(k < m) BY <1>1, <1>2
  <1>4. \A k \in I : m <= k BY <1>3
  <1> QED BY <1>4 DEF Rtp!Min

\* The index of a key in the map, or none.
LEMMA IndexIs ==
  ASSUME Rtp!TypeOK, NEW key
  PROVE  \/ Rtp!Index(key) = 0 /\ \A i \in DOMAIN entries : entries[i].key # key
         \/ Rtp!Index(key) \in DOMAIN entries /\ entries[Rtp!Index(key)].key = key
  <1> DEFINE I == {i \in 1 .. Len(entries) : entries[i].key = key}
  <1>1. Len(entries) \in Nat /\ DOMAIN entries = 1 .. Len(entries) BY LenProperties DEF Rtp!TypeOK
  <1>2. Rtp!Index(key) = IF I # {} THEN Rtp!Min(I) ELSE 0 BY DEF Rtp!Index, Rtp!SelectInSeq
  <1>3. I # {} => Rtp!Min(I) \in I
    <2>1. I \in SUBSET Nat BY <1>1
    <2> HIDE DEF I
    <2> QED BY <2>1, LeastIndex
  <1>4. I = {} => \A i \in DOMAIN entries : entries[i].key # key BY <1>1
  <1>5. \A i \in I : i \in DOMAIN entries /\ entries[i].key = key BY <1>1
  <1> HIDE DEF I
  <1> QED BY <1>2, <1>3, <1>4, <1>5

\* The entry that handleSessionEnd removes is one of the call.
LEMMA FirstOfCall ==
  ASSUME Rtp!TypeOK, NEW c
  PROVE  \/ FirstOf(c) = 0
         \/ FirstOf(c) \in DOMAIN entries /\ objects[entries[FirstOf(c)].object].call = c
  <1> DEFINE I == {i \in 1 .. Len(entries) : objects[entries[i].object].call = c}
  <1>1. Len(entries) \in Nat /\ DOMAIN entries = 1 .. Len(entries) BY LenProperties DEF Rtp!TypeOK
  <1>2. FirstOf(c) = IF I # {} THEN Rtp!Min(I) ELSE 0 BY DEF Rtp!SelectInSeq, FirstOf
  <1>3. I # {} => Rtp!Min(I) \in I
    <2>1. I \in SUBSET Nat BY <1>1
    <2> HIDE DEF I
    <2> QED BY <2>1, LeastIndex
  <1>4. \A i \in I : i \in DOMAIN entries /\ objects[entries[i].object].call = c BY <1>1
  <1> HIDE DEF I
  <1> QED BY <1>2, <1>3, <1>4

\* The first session that waits for a packet is an entry of the map.
LEMMA FirstWaiting ==
  ASSUME Rtp!TypeOK
  PROVE  Rtp!SelectInSeq(entries, Rtp!Waiting) = 0 \/ Rtp!SelectInSeq(entries, Rtp!Waiting) \in DOMAIN entries
  <1> DEFINE I == {i \in 1 .. Len(entries) : Rtp!Waiting(entries[i])}
  <1>1. Len(entries) \in Nat /\ DOMAIN entries = 1 .. Len(entries) BY LenProperties DEF Rtp!TypeOK
  <1>2. Rtp!SelectInSeq(entries, Rtp!Waiting) = IF I # {} THEN Rtp!Min(I) ELSE 0 BY DEF Rtp!SelectInSeq
  <1>3. I # {} => Rtp!Min(I) \in I
    <2>1. I \in SUBSET Nat BY <1>1
    <2> HIDE DEF I
    <2> QED BY <2>1, LeastIndex
  <1>4. \A i \in I : i \in DOMAIN entries BY <1>1
  <1> HIDE DEF I
  <1> QED BY <1>2, <1>3, <1>4

\* Map.set: the key is there once, with the object, and the other keys keep theirs.
LEMMA SetKeeps ==
  ASSUME Rtp!TypeOK, NEW D, DOMAIN objects \subseteq D, NEW key \in Rtp!Keys, NEW object \in D,
         Rtp!SetEntry(key, object)
  PROVE  /\ entries' \in Seq(EntryOf(D)) /\ Unique(entries')
         /\ \E i \in DOMAIN entries' : entries'[i].key = key /\ entries'[i].object = object
         /\ \A i \in DOMAIN entries : entries[i].key # key =>
                i \in DOMAIN entries' /\ entries'[i] = entries[i]
  <1> DEFINE e == [key |-> key, object |-> object]
  <1>1. entries \in Seq(EntryOf(D)) /\ Len(entries) \in Nat /\ DOMAIN entries = 1 .. Len(entries)
    <2>1. EntryOf(DOMAIN objects) \subseteq EntryOf(D) BY DEF EntryOf
    <2>2. entries \in Seq(EntryOf(DOMAIN objects)) BY DEF Rtp!TypeOK, EntryOf
    <2>3. Len(entries) \in Nat /\ DOMAIN entries = 1 .. Len(entries)
          /\ entries \in [1 .. Len(entries) -> EntryOf(DOMAIN objects)]
      BY <2>2, LenProperties
    <2>4. entries \in Seq(EntryOf(D)) BY <2>1, <2>2, <2>3
    <2> QED BY <2>3, <2>4
  <1>2. e \in EntryOf(D) /\ e.key = key /\ e.object = object BY DEF EntryOf
  <1>3. Unique(entries) BY DEF Rtp!TypeOK, Unique
  <1>4. entries' = IF Rtp!Index(key) = 0 THEN Append(entries, e) ELSE [entries EXCEPT ![Rtp!Index(key)] = e]
    BY DEF Rtp!SetEntry
  <1> HIDE DEF e
  <1>5. CASE Rtp!Index(key) = 0
    <2>1. \A i \in DOMAIN entries : entries[i].key # key BY <1>1, <1>5, IndexIs
    <2>2. /\ entries' \in Seq(EntryOf(D)) /\ Len(entries') = Len(entries) + 1
          /\ \A i \in 1 .. Len(entries) : entries'[i] = entries[i]
          /\ entries'[Len(entries) + 1] = e
      BY <1>1, <1>2, <1>4, <1>5, AppendProperties
    <2>3. DOMAIN entries' = 1 .. Len(entries) + 1 BY <2>2, LenProperties
    <2>4. Unique(entries') BY <1>1, <1>2, <1>3, <2>1, <2>2, <2>3 DEF Unique
    <2>5. Len(entries) + 1 \in DOMAIN entries' BY <1>1, <2>3
    <2> QED BY <1>1, <1>2, <2>2, <2>3, <2>4, <2>5
  <1>6. CASE Rtp!Index(key) # 0
    <2> DEFINE n == Rtp!Index(key)
    <2>1. n \in 1 .. Len(entries) /\ entries[n].key = key BY <1>1, <1>6, IndexIs
    <2>2. /\ entries' \in Seq(EntryOf(D)) /\ Len(entries') = Len(entries)
          /\ \A i \in 1 .. Len(entries) : entries'[i] = IF i = n THEN e ELSE entries[i]
      BY <1>1, <1>2, <1>4, <1>6, <2>1, ExceptSeq
    <2> HIDE DEF n
    <2>3. DOMAIN entries' = DOMAIN entries BY <1>1, <2>2, LenProperties
    <2>4. \A i \in DOMAIN entries : entries'[i].key = entries[i].key BY <1>1, <1>2, <2>1, <2>2
    <2>5. Unique(entries') BY <1>3, <2>3, <2>4 DEF Unique
    <2> QED BY <1>1, <1>2, <2>1, <2>2, <2>3, <2>5
  <1> QED BY <1>5, <1>6

\* Map.delete: the other entries stay.
LEMMA CutOut ==
    ASSUME NEW S, NEW s \in Seq(S), NEW i \in 1 .. Len(s)
    PROVE  /\ Rtp!RemoveAt(s, i) \in Seq(S)
           /\ Len(Rtp!RemoveAt(s, i)) = Len(s) - 1
           /\ \A k \in 1 .. Len(s) - 1 : Rtp!RemoveAt(s, i)[k] = IF k < i THEN s[k] ELSE s[k + 1]
  <1> DEFINE a == SubSeq(s, 1, i - 1)
           b == SubSeq(s, i + 1, Len(s))
  <1>0. Len(s) \in Nat /\ i \in Nat /\ i >= 1 /\ i <= Len(s) /\ \A k \in 1 .. Len(s) : s[k] \in S BY LenProperties
  <1>1. /\ a \in Seq(S) /\ Len(a) = i - 1
      /\ \A k \in 1 .. i - 1 : a[k] = s[k]
  <2>1. \A k \in 1 .. i - 1 : s[k] \in S BY <1>0
  <2>2. /\ a \in Seq(S) /\ Len(a) = IF 1 <= i - 1 THEN (i - 1) - 1 + 1 ELSE 0
        /\ \A k \in 1 .. (i - 1) - 1 + 1 : a[k] = s[1 + k - 1]
    BY <1>0, <2>1, SubSeqProperties
  <2> QED BY <1>0, <2>2
  <1>2. /\ b \in Seq(S) /\ Len(b) = Len(s) - i
      /\ \A k \in 1 .. Len(s) - i : b[k] = s[i + k]
  <2>1. \A k \in i + 1 .. Len(s) : s[k] \in S BY <1>0
  <2>2. /\ b \in Seq(S) /\ Len(b) = IF i + 1 <= Len(s) THEN Len(s) - (i + 1) + 1 ELSE 0
        /\ \A k \in 1 .. Len(s) - (i + 1) + 1 : b[k] = s[(i + 1) + k - 1]
    BY <1>0, <2>1, SubSeqProperties
  <2> QED BY <1>0, <2>2
  <1>3. Rtp!RemoveAt(s, i) = a \o b BY DEF Rtp!RemoveAt
  <1> HIDE DEF a, b
  <1>4. /\ a \o b \in Seq(S) /\ Len(a \o b) = Len(a) + Len(b)
      /\ \A k \in 1 .. Len(a) + Len(b) : (a \o b)[k] = IF k <= Len(a) THEN a[k] ELSE b[k - Len(a)]
  BY <1>1, <1>2, ConcatProperties
  <1> QED BY <1>0, <1>1, <1>2, <1>3, <1>4

LEMMA RemoveKeeps ==
  ASSUME NEW S, NEW s \in Seq(S), Unique(s), NEW n \in 1 .. Len(s)
  PROVE  /\ Rtp!RemoveAt(s, n) \in Seq(S) /\ Unique(Rtp!RemoveAt(s, n))
         /\ \A i \in DOMAIN s : i # n => \E j \in DOMAIN Rtp!RemoveAt(s, n) : Rtp!RemoveAt(s, n)[j] = s[i]
  <1> DEFINE t == Rtp!RemoveAt(s, n)
  <1>0. Len(s) \in Nat /\ n \in Nat /\ n >= 1 /\ n <= Len(s) /\ DOMAIN s = 1 .. Len(s) BY LenProperties
  <1>1. /\ t \in Seq(S) /\ Len(t) = Len(s) - 1
        /\ \A k \in 1 .. Len(s) - 1 : t[k] = IF k < n THEN s[k] ELSE s[k + 1]
    BY CutOut
  <1>2. DOMAIN t = 1 .. Len(s) - 1 BY <1>1, LenProperties
  <1> HIDE DEF t
  <1>3. ASSUME NEW i \in DOMAIN t, NEW j \in DOMAIN t, t[i].key = t[j].key PROVE i = j
    <2> DEFINE from(k) == IF k < n THEN k ELSE k + 1
    <2>1. \A k \in DOMAIN t : from(k) \in DOMAIN s /\ t[k] = s[from(k)] BY <1>0, <1>1, <1>2
    <2>2. from(i) \in DOMAIN s /\ from(j) \in DOMAIN s /\ s[from(i)].key = s[from(j)].key BY <1>3, <2>1
    <2>3. from(i) = from(j) BY <2>2 DEF Unique
    <2> QED BY <1>0, <1>2, <2>3
  <1>4. ASSUME NEW i \in DOMAIN s, i # n PROVE \E j \in DOMAIN t : t[j] = s[i]
    <2>1. CASE i < n BY <1>0, <1>1, <1>2, <1>4, <2>1
    <2>2. CASE i > n
      <3>1. i - 1 \in DOMAIN t /\ t[i - 1] = s[i] BY <1>0, <1>1, <1>2, <1>4, <2>2
      <3> QED BY <3>1
    <2> QED BY <1>0, <1>4, <2>1, <2>2
  <1>5. Unique(t) BY <1>3 DEF Unique
  <1> QED BY <1>1, <1>4, <1>5 DEF t

\* A new session object of a call comes after those there are.
LEMMA PutKeeps ==
  ASSUME Rtp!TypeOK, NEW c \in Calls, NEW key \in Rtp!Keys, NEW given \in BOOLEAN, Rtp!PutSession(c, key, given)
  PROVE  /\ objects' \in Seq(ObjectSet) /\ entries' \in Seq(EntryOf(DOMAIN objects'))
         /\ Unique(entries')
         /\ DOMAIN objects' = DOMAIN objects \cup {Len(objects) + 1}
         /\ Len(objects) + 1 \notin DOMAIN objects
         /\ \A k \in DOMAIN objects : objects'[k] = objects[k]
         /\ objects'[Len(objects) + 1].call = c /\ objects'[Len(objects) + 1].init = given
         /\ greeted' \in [Calls -> Nat] /\ (\A d \in Calls : d # c => greeted'[d] = greeted[d])
         /\ greeted'[c] = IF given THEN greeted[c] + 1 ELSE greeted[c]
         /\ \E i \in DOMAIN entries' : entries'[i].key = key /\ entries'[i].object = Len(objects) + 1
         /\ \A i \in DOMAIN entries : entries[i].key # key =>
                i \in DOMAIN entries' /\ entries'[i] = entries[i]
  <1> DEFINE new == [call |-> c, init |-> given, received |-> FALSE]
             n == Len(objects) + 1
  <1>1. objects \in Seq(ObjectSet) /\ Len(objects) \in Nat /\ DOMAIN objects = 1 .. Len(objects)
    <2>1. objects \in Seq(ObjectSet) BY DEF Rtp!TypeOK, ObjectSet
    <2> QED BY <2>1, LenProperties
  <1>2. new \in ObjectSet /\ new.call = c /\ new.init = given BY Zenon DEF ObjectSet
  <1>3. objects' = Append(objects, new) /\ Rtp!SetEntry(key, n)
        /\ greeted' = IF given THEN [greeted EXCEPT ![c] = @ + 1] ELSE greeted
    BY DEF Rtp!PutSession
  <1> HIDE DEF new
  <1>4. /\ objects' \in Seq(ObjectSet) /\ Len(objects') = Len(objects) + 1
        /\ \A k \in 1 .. Len(objects) : objects'[k] = objects[k]
        /\ objects'[Len(objects) + 1] = new
    BY <1>1, <1>2, <1>3, AppendProperties
  <1>5. DOMAIN objects' = 1 .. Len(objects) + 1 BY <1>4, LenProperties
  <1>6. DOMAIN objects' = DOMAIN objects \cup {n} /\ n \notin DOMAIN objects BY <1>1, <1>5
  <1>7. greeted' \in [Calls -> Nat] /\ (\A d \in Calls : d # c => greeted'[d] = greeted[d])
        /\ greeted'[c] = IF given THEN greeted[c] + 1 ELSE greeted[c]
    BY <1>3 DEF Rtp!TypeOK
  <1>8. /\ entries' \in Seq(EntryOf(DOMAIN objects')) /\ Unique(entries')
        /\ \E i \in DOMAIN entries' : entries'[i].key = key /\ entries'[i].object = n
        /\ \A i \in DOMAIN entries : entries[i].key # key =>
               i \in DOMAIN entries' /\ entries'[i] = entries[i]
    <2>1. DOMAIN objects \subseteq DOMAIN objects' /\ n \in DOMAIN objects' BY <1>6
    <2> HIDE DEF n
    <2>2. Rtp!SetEntry(key, n) BY <1>3
    <2> QED BY <2>1, <2>2, SetKeeps
  <1> QED BY <1>1, <1>2, <1>4, <1>6, <1>7, <1>8

\* A packet that an object takes changes no call of an object.
LEMMA DeliverKeeps ==
  ASSUME Rtp!TypeOK, NEW c \in Calls, NEW n \in DOMAIN objects, Rtp!Deliver(c, n)
  PROVE  /\ objects' \in Seq(ObjectSet) /\ DOMAIN objects' = DOMAIN objects
         /\ \A k \in DOMAIN objects : objects'[k].call = objects[k].call
         /\ objects'[n].init /\ (\A k \in DOMAIN objects : k # n => objects'[k] = objects[k])
         /\ objects[n].call \in Calls
         /\ greeted' \in [Calls -> Nat]
         /\ \A d \in Calls : greeted'[d] = IF d = objects[n].call /\ ~objects[n].init
                                           THEN greeted[d] + 1 ELSE greeted[d]
  <1>1. objects \in Seq(ObjectSet) /\ Len(objects) \in Nat /\ DOMAIN objects = 1 .. Len(objects)
        /\ objects[n] \in ObjectSet
    <2>1. objects \in Seq(ObjectSet) BY DEF Rtp!TypeOK, ObjectSet
    <2> QED BY <2>1, LenProperties
  <1> DEFINE new == [[objects[n] EXCEPT !.received = TRUE] EXCEPT !.init = TRUE]
  <1>2. new \in ObjectSet /\ new.init = TRUE /\ new.call = objects[n].call BY <1>1, Zenon DEF ObjectSet
  <1>3. objects' = [objects EXCEPT ![n] = new] BY DEF Rtp!Deliver
  <1> HIDE DEF new
  <1>4. /\ objects' \in Seq(ObjectSet) /\ Len(objects') = Len(objects)
        /\ \A k \in 1 .. Len(objects) : objects'[k] = IF k = n THEN new ELSE objects[k]
    BY <1>1, <1>2, <1>3, ExceptSeq
  <1>5. DOMAIN objects' = DOMAIN objects BY <1>1, <1>4, LenProperties
  <1>6. objects[n].call \in Calls BY <1>1 DEF ObjectSet
  <1>7. greeted' \in [Calls -> Nat]
        /\ \A d \in Calls : greeted'[d] = IF d = objects[n].call /\ ~objects[n].init
                                          THEN greeted[d] + 1 ELSE greeted[d]
    <2>1. greeted \in [Calls -> Nat] BY DEF Rtp!TypeOK
    <2>2. CASE objects[n].init
      <3>1. greeted' = greeted BY <2>2 DEF Rtp!Deliver
      <3> QED BY <2>1, <2>2, <3>1
    <2>3. CASE ~objects[n].init
      <3>1. greeted' = [greeted EXCEPT ![objects[n].call] = @ + 1] BY <2>3 DEF Rtp!Deliver
      <3> QED BY <1>6, <2>1, <2>3, <3>1
    <2> QED BY <2>2, <2>3
  <1> QED BY <1>1, <1>2, <1>4, <1>5, <1>6, <1>7

\* handleSessionEnd removes no entry of another call.
LEMMA EndKeeps ==
  ASSUME Rtp!TypeOK, NEW c \in Calls, Rtp!HandleSessionEnd(c)
  PROVE  /\ entries' \in Seq(EntryOf(DOMAIN objects)) /\ Unique(entries')
         /\ \A i \in DOMAIN entries : objects[entries[i].object].call # c =>
                \E j \in DOMAIN entries' : entries'[j] = entries[i]
  <1> DEFINE first == FirstOf(c)
  <1>1. entries \in Seq(EntryOf(DOMAIN objects)) /\ Unique(entries) BY DEF Rtp!TypeOK, EntryOf,
       Unique
  <1>2. DOMAIN entries = 1 .. Len(entries) BY <1>1, LenProperties
  <1>3. first = 0 \/ (first \in DOMAIN entries /\ objects[entries[first].object].call = c) BY FirstOfCall
  <1>4. entries' = IF first = 0 THEN entries ELSE Rtp!RemoveAt(entries, first) BY DEF Rtp!HandleSessionEnd, FirstOf
  <1> HIDE DEF first
  <1>5. CASE first = 0 BY <1>1, <1>4, <1>5
  <1>6. CASE first \in 1 .. Len(entries) /\ first # 0 /\ objects[entries[first].object].call = c
    BY <1>1, <1>4, <1>6, RemoveKeeps
  <1>7. first # 0 => first \in 1 .. Len(entries) /\ objects[entries[first].object].call = c BY <1>2, <1>3
  <1> QED BY <1>5, <1>6, <1>7

\* What a packet does, by way of the entry that has its address or of the first
\* that waits.
LEMMA PacketIs ==
  ASSUME Rtp!TypeOK, NEW c \in Calls, Rtp!Packet(c)
  PROVE  \E n \in DOMAIN objects :
           /\ Rtp!Deliver(c, n)
           /\ \/ /\ entries' = entries
                 /\ \E i \in DOMAIN entries : entries[i].key = Rtp!Source(c) /\ entries[i].object = n
              \/ /\ Rtp!SetEntry(Rtp!Source(c), n)
                 /\ \A i \in DOMAIN entries : entries[i].key # Rtp!Source(c)
  <1> DEFINE exact == Rtp!Index(Rtp!Source(c))
             first == Rtp!SelectInSeq(entries, Rtp!Waiting)
  <1>1. \A i \in DOMAIN entries : entries[i].object \in DOMAIN objects
    <2>1. entries \in Seq(EntryOf(DOMAIN objects)) BY DEF Rtp!TypeOK, EntryOf
    <2>2. entries \in [1 .. Len(entries) -> EntryOf(DOMAIN objects)] BY <2>1, LenProperties
    <2> QED BY <2>2 DEF EntryOf
  <1>2. \/ exact = 0 /\ \A i \in DOMAIN entries : entries[i].key # Rtp!Source(c)
        \/ exact \in DOMAIN entries /\ entries[exact].key = Rtp!Source(c)
    BY IndexIs
  <1>3. first = 0 \/ first \in DOMAIN entries BY FirstWaiting
  <1>4. \/ exact # 0 /\ Rtp!Deliver(c, entries[exact].object) /\ UNCHANGED entries
        \/ exact = 0 /\ first # 0 /\ Rtp!Deliver(c, entries[first].object)
           /\ Rtp!SetEntry(Rtp!Source(c), entries[first].object)
    BY DEF Rtp!Packet
  <1>5. 0 \notin DOMAIN entries
    <2>1. DOMAIN entries = 1 .. Len(entries) BY LenProperties DEF Rtp!TypeOK
    <2> QED BY <2>1
  <1> HIDE DEF exact, first
  <1>6. CASE exact # 0
    <2>1. exact \in DOMAIN entries /\ entries[exact].key = Rtp!Source(c) BY <1>2, <1>6
    <2>2. Rtp!Deliver(c, entries[exact].object) /\ entries' = entries BY <1>4, <1>6
    <2> QED BY <1>1, <2>1, <2>2
  <1>7. CASE exact = 0
    <2>1. \A i \in DOMAIN entries : entries[i].key # Rtp!Source(c) BY <1>2, <1>5, <1>7
    <2>2. first \in DOMAIN entries /\ Rtp!Deliver(c, entries[first].object)
          /\ Rtp!SetEntry(Rtp!Source(c), entries[first].object)
      BY <1>3, <1>4, <1>7
    <2> QED BY <1>1, <2>1, <2>2
  <1> QED BY <1>6, <1>7

LEMMA KeysAre ==
  /\ Rtp!NoPort \in Rtp!Keys
  /\ \A c \in Calls : Rtp!Announced(c) \in Rtp!Keys /\ Rtp!Source(c) \in Rtp!Keys /\ Rtp!NoPort # Rtp!Announced(c)
  /\ \A c, d \in Calls : Rtp!Announced(c) = Rtp!Announced(d) => c = d
  /\ ~translated => \A c \in Calls : Rtp!Source(c) = Rtp!Announced(c)
  BY DEF Rtp!NoPort, Rtp!Announced, Rtp!Source, Rtp!Keys

LEMMA VoiceTypes ==
  ASSUME Rtp!TypeOK, Rtp!Next
  PROVE  Rtp!TypeOK'
  <1> DEFINE Shape == /\ objects \in Seq(ObjectSet) /\ entries \in Seq(EntryOf(DOMAIN objects))
                      /\ Unique(entries)
             Rest == /\ translated \in BOOLEAN
                     /\ phase \in [Calls -> {"none", "dialled", "live", "ended"}]
                     /\ updates \in [Calls -> Nat] /\ greeted \in [Calls -> Nat]
                     /\ portless \subseteq Calls
                     /\ heard \subseteq [from : Calls, to : Calls, phase : {"dialled", "live"}]
  <1>0. Rtp!TypeOK = (Shape /\ Rest) BY DEF Rtp!TypeOK, ObjectSet, EntryOf, Unique
  <1>00. Rtp!TypeOK' = (Shape' /\ Rest') BY DEF Rtp!TypeOK, ObjectSet, EntryOf, Unique
  <1>r. Shape /\ Rest BY <1>0
  <1>u. updates \in [Calls -> Nat] BY <1>r
  <1>h. heard \subseteq [from : Calls, to : Calls, phase : {"dialled", "live"}] BY <1>r
  <1>k. PICK c \in Calls : \/ Rtp!Dial(c) \/ Rtp!Register(c) \/ Rtp!UpdateRtpParams(c)
                           \/ Rtp!Packet(c) \/ Rtp!HandleSessionEnd(c)
    BY DEF Rtp!Next
  <1>1. CASE Rtp!Dial(c)
    <2>1. Rest' BY <1>0, <1>1 DEF Rtp!Dial
    <2>2. Shape' BY <1>0, <1>1 DEF Rtp!Dial, Unique
    <2> QED BY <1>00, <2>1, <2>2
  <1>2. CASE Rtp!Register(c)
    <2>1. PICK key \in Rtp!Keys, given \in BOOLEAN : Rtp!PutSession(c, key, given) BY <1>2, KeysAre DEF Rtp!Register
    <2>2. Shape' BY <2>1, PutKeeps
    <2>3. greeted' \in [Calls -> Nat] BY <2>1, PutKeeps
    <2>4. portless' \subseteq Calls BY <1>0, <1>2 DEF Rtp!Register
    <2>5. phase' \in [Calls -> {"none", "dialled", "live", "ended"}] BY <1>0,
         <1>2 DEF Rtp!Register
    <2>6. UNCHANGED <<translated, updates, heard>> BY <1>2 DEF Rtp!Register
    <2>7. Rest' BY <1>0, <2>3, <2>4, <2>5, <2>6
    <2> QED BY <1>00, <2>2, <2>7
  <1>3. CASE Rtp!UpdateRtpParams(c)
    <2>1. Rtp!PutSession(c, Rtp!Announced(c), TRUE) BY <1>3 DEF Rtp!UpdateRtpParams
    <2>2. Shape' /\ greeted' \in [Calls -> Nat] BY <2>1, KeysAre, PutKeeps
    <2>3. updates' \in [Calls -> Nat]
      <3>1. updates' = [updates EXCEPT ![c] = @ + 1] BY <1>3 DEF Rtp!UpdateRtpParams
      <3> HIDE DEF Shape, Rest
      <3> QED BY <1>u, <3>1
    <2>4. UNCHANGED <<translated, phase, heard, portless>> BY <1>3 DEF Rtp!UpdateRtpParams
    <2>5. Rest' BY <1>0, <2>2, <2>3, <2>4
    <2> QED BY <1>00, <2>2, <2>5
  <1>4. CASE Rtp!Packet(c)
    <2>1. PICK n \in DOMAIN objects :
            Rtp!Deliver(c, n) /\ (entries' = entries \/ Rtp!SetEntry(Rtp!Source(c), n))
      BY <1>4, PacketIs
    <2>2. /\ objects' \in Seq(ObjectSet) /\ DOMAIN objects' = DOMAIN objects
          /\ objects[n].call \in Calls /\ greeted' \in [Calls -> Nat]
      BY <2>1, DeliverKeeps
    <2>3. entries' \in Seq(EntryOf(DOMAIN objects)) /\ Unique(entries')
      <3>1. CASE entries' = entries BY <1>0, <3>1 DEF Unique
      <3>2. CASE Rtp!SetEntry(Rtp!Source(c), n) BY <3>2, KeysAre, SetKeeps
      <3> QED BY <2>1, <3>1, <3>2
    <2>4. Shape' BY <2>2, <2>3
    <2>5. heard' \subseteq [from : Calls, to : Calls, phase : {"dialled", "live"}]
      <3>1. heard' = heard \cup {[from |-> c, to |-> objects[n].call, phase |-> phase[c]]} BY <2>1 DEF Rtp!Deliver
      <3>2. phase[c] \in {"dialled", "live"} BY <1>4 DEF Rtp!Packet
      <3> HIDE DEF Shape, Rest
      <3>3. objects[n].call \in Calls BY <2>2
      <3> QED BY <1>h, <3>1, <3>2, <3>3
    <2>6. UNCHANGED <<translated, phase, updates, portless>> BY <1>4 DEF Rtp!Packet
    <2>7. Rest' BY <1>0, <2>2, <2>5, <2>6
    <2> QED BY <1>00, <2>4, <2>7
  <1>5. CASE Rtp!HandleSessionEnd(c)
    <2>1. entries' \in Seq(EntryOf(DOMAIN objects)) /\ Unique(entries') BY <1>5, EndKeeps
    <2>2. UNCHANGED <<translated, objects, updates, greeted, heard, portless>> BY <1>5 DEF Rtp!HandleSessionEnd
    <2>3. phase' \in [Calls -> {"none", "dialled", "live", "ended"}] BY <1>0, <1>5 DEF Rtp!HandleSessionEnd
    <2>4. Shape' BY <1>0, <2>1, <2>2
    <2>5. Rest' BY <1>0, <2>2, <2>3
    <2> QED BY <1>00, <2>4, <2>5
  <1> QED BY <1>k, <1>1, <1>2, <1>3, <1>4, <1>5

\* With a call's own address in the map, its voice has gone nowhere else.
LEMMA OwnAddressStep ==
  ASSUME Rtp!TypeOK, Rtp!OwnAddress, Rtp!DirectVoice, Rtp!Next
  PROVE  Rtp!OwnAddress' /\ Rtp!DirectVoice'
  <1> DEFINE Has(d) == \E i \in DOMAIN entries : /\ entries[i].key = Rtp!Announced(d)
                                                 /\ objects[entries[i].object].call = d
             True(h) == h.phase = "live" => h.to = h.from
  <1>0. SUFFICES ASSUME ~translated', portless' = {}
                 PROVE  /\ \A d \in Calls : phase'[d] = "live" => Has(d)'
                        /\ \A h \in heard' : True(h)
    BY DEF Rtp!OwnAddress, Rtp!DirectVoice
  <1>k. PICK c \in Calls : \/ Rtp!Dial(c) \/ Rtp!Register(c) \/ Rtp!UpdateRtpParams(c)
                           \/ Rtp!Packet(c) \/ Rtp!HandleSessionEnd(c)
    BY DEF Rtp!Next
  <1>g. ~translated /\ portless = {}
    <2>1. translated' = translated
      BY <1>k DEF Rtp!Dial, Rtp!Register, Rtp!UpdateRtpParams, Rtp!Packet,
           Rtp!HandleSessionEnd
    <2>2. portless' = portless \/ portless' = portless \cup {c}
      BY <1>k DEF Rtp!Dial, Rtp!Register, Rtp!UpdateRtpParams, Rtp!Packet,
           Rtp!HandleSessionEnd
    <2> QED BY <1>0, <2>1, <2>2
  <1>i. (\A d \in Calls : phase[d] = "live" => Has(d)) /\ \A h \in heard : True(h)
    BY <1>g DEF Rtp!OwnAddress, Rtp!DirectVoice
  <1>p. phase \in [Calls -> {"none", "dialled", "live", "ended"}] BY DEF Rtp!TypeOK
  <1>o. \A i \in DOMAIN entries : entries[i].object \in DOMAIN objects
    <2>1. entries \in Seq(EntryOf(DOMAIN objects)) BY DEF Rtp!TypeOK, EntryOf
    <2>2. entries \in [1 .. Len(entries) -> EntryOf(DOMAIN objects)] BY <2>1, LenProperties
    <2> QED BY <2>2 DEF EntryOf
  <1> HIDE DEF True
  <1>1. CASE Rtp!Dial(c)
    <2>1. UNCHANGED <<entries, objects, heard>> BY <1>1 DEF Rtp!Dial
    <2>2. \A d \in Calls : phase'[d] = "live" => phase[d] = "live" BY <1>p, <1>1 DEF Rtp!Dial
    <2> QED BY <1>i, <2>1, <2>2
  <1>2. ASSUME Rtp!PutSession(c, Rtp!Announced(c), TRUE), heard' = heard,
               \A d \in Calls : phase'[d] = "live" => d = c \/ phase[d] = "live"
        PROVE  /\ \A d \in Calls : phase'[d] = "live" => Has(d)'
               /\ \A h \in heard' : True(h)
    <2>1. /\ \A k \in DOMAIN objects : objects'[k] = objects[k]
          /\ objects'[Len(objects) + 1].call = c
          /\ \E i \in DOMAIN entries' : entries'[i].key = Rtp!Announced(c) /\ entries'[i].object = Len(objects) + 1
          /\ \A i \in DOMAIN entries : entries[i].key # Rtp!Announced(c) =>
                 i \in DOMAIN entries' /\ entries'[i] = entries[i]
      <3>1. Rtp!PutSession(c, Rtp!Announced(c), TRUE) BY <1>2
      <3>2. Rtp!Announced(c) \in Rtp!Keys BY KeysAre
      <3> HIDE <1>0
      <3> QED BY <3>1, <3>2, PutKeeps
    <2>2. Has(c)' BY <2>1
    <2>3. ASSUME NEW d \in Calls, d # c, phase[d] = "live" PROVE Has(d)'
      <3>1. PICK i \in DOMAIN entries : entries[i].key = Rtp!Announced(d) /\ objects[entries[i].object].call = d
        BY <1>i, <2>3
      <3>2. entries[i].key # Rtp!Announced(c) BY <2>3, <3>1, KeysAre
      <3>3. i \in DOMAIN entries' /\ entries'[i] = entries[i] BY <2>1, <3>2
      <3>4. objects'[entries[i].object] = objects[entries[i].object] BY <1>o, <2>1
      <3> QED BY <3>1, <3>3, <3>4
    <2> QED BY <1>i, <1>2, <2>2, <2>3
  <1>3. CASE Rtp!Register(c)
    <2>1. c \notin portless' BY <1>0
    <2>2. Rtp!PutSession(c, Rtp!Announced(c), TRUE) /\ heard' = heard BY <1>3,
         <2>1 DEF Rtp!Register
    <2>3. \A d \in Calls : phase'[d] = "live" => d = c \/ phase[d] = "live" BY <1>p,
         <1>3 DEF Rtp!Register
    <2> QED BY <1>2, <2>2, <2>3
  <1>4. CASE Rtp!UpdateRtpParams(c) BY <1>2, <1>4 DEF Rtp!UpdateRtpParams
  <1>5. CASE Rtp!Packet(c)
    <2>1. PICK n \in DOMAIN objects :
           /\ Rtp!Deliver(c, n)
           /\ \/ /\ entries' = entries
                 /\ \E i \in DOMAIN entries : entries[i].key = Rtp!Source(c) /\ entries[i].object = n
              \/ /\ Rtp!SetEntry(Rtp!Source(c), n)
                 /\ \A i \in DOMAIN entries : entries[i].key # Rtp!Source(c)
      BY <1>5, PacketIs
    <2>2. \A k \in DOMAIN objects : objects'[k].call = objects[k].call BY <2>1, DeliverKeeps
    <2>3. Rtp!Source(c) = Rtp!Announced(c) /\ Rtp!Announced(c) \in Rtp!Keys BY <1>g, KeysAre
    <2>4. ASSUME NEW d \in Calls, Has(d) PROVE Has(d)'
      <3>1. PICK i \in DOMAIN entries : entries[i].key = Rtp!Announced(d) /\ objects[entries[i].object].call = d
        BY <2>4
      <3>2. objects'[entries[i].object].call = d BY <1>o, <2>2, <3>1
      <3>3. i \in DOMAIN entries' /\ entries'[i] = entries[i]
        <4>1. CASE entries' = entries BY <4>1
        <4>2. CASE Rtp!SetEntry(Rtp!Source(c), n) /\ \A j \in DOMAIN entries : entries[j].key # Rtp!Source(c)
          <5>1. n \in DOMAIN objects /\ Rtp!SetEntry(Rtp!Source(c), n) /\ Rtp!Source(c) \in Rtp!Keys BY <2>3, <4>2
          <5>2. entries[i].key # Rtp!Source(c) => i \in DOMAIN entries' /\ entries'[i] = entries[i]
            BY <5>1, SetKeeps
          <5> QED BY <4>2, <5>2
        <4> QED BY <2>1, <4>1, <4>2
      <3> QED BY <3>1, <3>2, <3>3
    <2>5. heard' = heard \cup {[from |-> c, to |-> objects[n].call, phase |-> phase[c]]} BY <2>1 DEF Rtp!Deliver
    <2>6. ASSUME phase[c] = "live" PROVE objects[n].call = c
      <3>1. PICK i \in DOMAIN entries : entries[i].key = Rtp!Announced(c) /\ objects[entries[i].object].call = c
        BY <1>i, <2>6
      <3>2. PICK j \in DOMAIN entries : entries[j].key = Rtp!Announced(c) /\ entries[j].object = n
        BY <2>1, <2>3, <3>1
      <3>3. i = j BY <3>1, <3>2 DEF Rtp!TypeOK
      <3> QED BY <3>1, <3>2, <3>3
    <2>7. phase' = phase BY <1>5 DEF Rtp!Packet
    <2>8. \A h \in heard' : True(h) BY <1>i, <2>5, <2>6 DEF True
    <2> QED BY <1>i, <2>4, <2>7, <2>8
  <1>6. CASE Rtp!HandleSessionEnd(c)
    <2>1. \A i \in DOMAIN entries : objects[entries[i].object].call # c =>
                \E j \in DOMAIN entries' : entries'[j] = entries[i]
      BY <1>6, EndKeeps
    <2>2. UNCHANGED <<objects, heard>> BY <1>6 DEF Rtp!HandleSessionEnd
    <2>3. \A d \in Calls : phase'[d] = "live" => d # c /\ phase[d] = "live" BY <1>p, <1>6 DEF Rtp!HandleSessionEnd
    <2>4. ASSUME NEW d \in Calls, d # c, Has(d) PROVE Has(d)'
      <3>1. PICK i \in DOMAIN entries : entries[i].key = Rtp!Announced(d) /\ objects[entries[i].object].call = d
        BY <2>4
      <3>2. PICK j \in DOMAIN entries' : entries'[j] = entries[i] BY <2>1, <2>4, <3>1
      <3> QED BY <2>2, <3>1, <3>2
    <2> QED BY <1>i, <2>2, <2>3, <2>4
  <1> QED BY <1>k, <1>1, <1>3, <1>4, <1>5, <1>6

LEMMA OneObjectStep ==
  ASSUME Rtp!TypeOK, Rtp!OneObject, Rtp!Next
  PROVE  Rtp!OneObject'
  <1> DEFINE One(d) ==
        updates[d] = 0 =>
          /\ \A j, k \in DOMAIN objects : objects[j].call = d /\ objects[k].call = d => j = k
          /\ \A k \in DOMAIN objects : objects[k].call = d /\ ~objects[k].init => greeted[d] = 0
          /\ greeted[d] <= 1
          /\ phase[d] \in {"none", "dialled"} =>
                 greeted[d] = 0 /\ \A k \in DOMAIN objects : objects[k].call # d
  <1>k. PICK c \in Calls : \/ Rtp!Dial(c) \/ Rtp!Register(c) \/ Rtp!UpdateRtpParams(c)
                           \/ Rtp!Packet(c) \/ Rtp!HandleSessionEnd(c)
    BY DEF Rtp!Next
  <1>i. \A d \in Calls : One(d) BY DEF Rtp!OneObject
  <1>p. /\ phase \in [Calls -> {"none", "dialled", "live", "ended"}]
        /\ updates \in [Calls -> Nat] /\ greeted \in [Calls -> Nat]
    BY DEF Rtp!TypeOK
  <1>s. SUFFICES ASSUME NEW d \in Calls PROVE One(d)' BY DEF Rtp!OneObject
  <1>1. CASE Rtp!Dial(c)
    <2>1. UNCHANGED <<objects, updates, greeted>> BY <1>1 DEF Rtp!Dial
    <2>2. phase'[d] \in {"none", "dialled"} => phase[d] \in {"none", "dialled"} BY <1>p,
         <1>1 DEF Rtp!Dial
    <2> QED BY <1>i, <2>1, <2>2
  <1>2. ASSUME NEW key \in Rtp!Keys, NEW given \in BOOLEAN, Rtp!PutSession(c, key, given),
               updates' = updates, phase[c] = "dialled", phase' = [phase EXCEPT ![c] = "live"]
        PROVE  One(d)'
    <2>1. /\ DOMAIN objects' = DOMAIN objects \cup {Len(objects) + 1}
          /\ Len(objects) + 1 \notin DOMAIN objects
          /\ \A k \in DOMAIN objects : objects'[k] = objects[k]
          /\ objects'[Len(objects) + 1].call = c /\ objects'[Len(objects) + 1].init = given
          /\ \A e \in Calls : e # c => greeted'[e] = greeted[e]
          /\ greeted'[c] = IF given THEN greeted[c] + 1 ELSE greeted[c]
      <3>1. Rtp!PutSession(c, key, given) BY <1>2
      <3>2. /\ DOMAIN objects' = DOMAIN objects \cup {Len(objects) + 1}
            /\ Len(objects) + 1 \notin DOMAIN objects
        BY <3>1, PutKeeps
      <3>3. \A k \in DOMAIN objects : objects'[k] = objects[k] BY <3>1, PutKeeps
      <3>4. objects'[Len(objects) + 1].call = c BY <3>1, PutKeeps
      <3>5. objects'[Len(objects) + 1].init = given BY <3>1, PutKeeps
      <3>6. \A e \in Calls : e # c => greeted'[e] = greeted[e] BY <3>1, PutKeeps
      <3>7. greeted'[c] = IF given THEN greeted[c] + 1 ELSE greeted[c] BY <3>1, PutKeeps
      <3> QED BY <3>2, <3>3, <3>4, <3>5, <3>6, <3>7
    <2>2. CASE d # c
      <3>1. updates'[d] = updates[d] /\ phase'[d] = phase[d] /\ greeted'[d] = greeted[d] BY <1>p, <1>2, <2>1, <2>2
      <3>2. \A k \in DOMAIN objects' : objects'[k].call = d => k \in DOMAIN objects /\ objects'[k] = objects[k]
        BY <2>1, <2>2
      <3>3. \A k \in DOMAIN objects : k \in DOMAIN objects' /\ objects'[k] = objects[k] BY <2>1
      <3>4. One(d) BY <1>i
      <3> QED BY <3>1, <3>2, <3>3, <3>4
    <2>3. CASE d = c
      <3>1. SUFFICES ASSUME updates[c] = 0 PROVE One(d)' BY <1>2, <2>3
      <3>2. greeted[c] = 0 /\ \A k \in DOMAIN objects : objects[k].call # c BY <1>i, <1>2, <3>1
      <3>3. \A k \in DOMAIN objects' : objects'[k].call = c => k = Len(objects) + 1 BY <2>1, <3>2
      <3>4. greeted'[c] = IF given THEN 1 ELSE 0 BY <2>1, <3>2
      <3>5. phase'[c] = "live" BY <1>p, <1>2
      <3>6. \A k \in DOMAIN objects' : objects'[k].call = c /\ ~objects'[k].init => greeted'[c] = 0
        BY <2>1, <3>3, <3>4
      <3>7. greeted'[c] <= 1 BY <3>4
      <3> QED BY <2>3, <3>3, <3>5, <3>6, <3>7
    <2> QED BY <2>2, <2>3
  <1>3. CASE Rtp!Register(c)
    <2>1. PICK key \in Rtp!Keys, given \in BOOLEAN : Rtp!PutSession(c, key, given) BY <1>3, KeysAre DEF Rtp!Register
    <2> QED BY <1>2, <1>3, <2>1 DEF Rtp!Register
  <1>4. CASE Rtp!UpdateRtpParams(c)
    <2>0. Rtp!PutSession(c, Rtp!Announced(c), TRUE) BY <1>4 DEF Rtp!UpdateRtpParams
    <2>1. /\ DOMAIN objects' = DOMAIN objects \cup {Len(objects) + 1}
          /\ \A k \in DOMAIN objects : objects'[k] = objects[k]
          /\ objects'[Len(objects) + 1].call = c
          /\ \A e \in Calls : e # c => greeted'[e] = greeted[e]
      BY <2>0, KeysAre, PutKeeps
    <2>2. updates' = [updates EXCEPT ![c] = @ + 1] /\ phase' = phase BY <1>4
         DEF Rtp!UpdateRtpParams
    <2>3. CASE d # c
      <3>1. updates'[d] = updates[d] /\ greeted'[d] = greeted[d] BY <1>p, <2>1, <2>2, <2>3
      <3>2. \A k \in DOMAIN objects' : objects'[k].call = d => k \in DOMAIN objects /\ objects'[k] = objects[k]
        BY <2>1, <2>3
      <3> QED BY <1>i, <2>1, <2>2, <3>1, <3>2
    <2>4. CASE d = c
      <3>1. updates'[d] # 0 BY <1>p, <2>2, <2>4
      <3> QED BY <3>1
    <2> QED BY <2>3, <2>4
  <1>5. CASE Rtp!Packet(c)
    <2>1. PICK n \in DOMAIN objects : Rtp!Deliver(c, n) BY <1>5, PacketIs
    <2>2. /\ DOMAIN objects' = DOMAIN objects
          /\ \A k \in DOMAIN objects : objects'[k].call = objects[k].call
          /\ objects'[n].init /\ \A k \in DOMAIN objects : k # n => objects'[k] = objects[k]
          /\ greeted'[d] = IF d = objects[n].call /\ ~objects[n].init
                           THEN greeted[d] + 1 ELSE greeted[d]
      BY <2>1, DeliverKeeps
    <2>3. phase' = phase /\ updates' = updates BY <1>5 DEF Rtp!Packet
    <2>4. SUFFICES ASSUME updates[d] = 0 PROVE One(d)' BY <2>3
    <2>5. CASE objects[n].call = d
      <3>1. \A k \in DOMAIN objects : objects[k].call = d => k = n BY <1>i, <2>4, <2>5
      <3>2. greeted'[d] <= 1 BY <1>i, <1>p, <2>2, <2>4, <2>5
      <3>3. phase[d] \notin {"none", "dialled"} BY <1>i, <2>4, <2>5
      <3> QED BY <2>2, <2>3, <3>1, <3>2, <3>3
    <2>6. CASE objects[n].call # d
      <3>1. \A k \in DOMAIN objects : objects[k].call = d => objects'[k] = objects[k] BY <2>2, <2>6
      <3>2. greeted'[d] = greeted[d] BY <2>2, <2>6
      <3> QED BY <1>i, <2>2, <2>3, <2>4, <3>1, <3>2
    <2> QED BY <2>5, <2>6
  <1>6. CASE Rtp!HandleSessionEnd(c)
    <2>1. UNCHANGED <<objects, updates, greeted>> BY <1>6 DEF Rtp!HandleSessionEnd
    <2>2. phase'[d] \in {"none", "dialled"} => phase[d] \in {"none", "dialled"}
      BY <1>p, <1>6 DEF Rtp!HandleSessionEnd
    <2> QED BY <1>i, <2>1, <2>2
  <1> QED BY <1>k, <1>1, <1>3, <1>4, <1>5, <1>6

LEMMA VoiceInit == ASSUME Rtp!RtpConstants, Rtp!Init PROVE Rtp!IInv
  <1>1. entries = <<>> /\ objects = <<>> BY DEF Rtp!Init
  <1>2. DOMAIN entries = {} /\ DOMAIN objects = {} BY <1>1
  <1>3. Rtp!TypeOK
    <2>1. <<>> \in Seq([call : Calls, init : BOOLEAN, received : BOOLEAN])
          /\ <<>> \in Seq([key : Rtp!Keys, object : DOMAIN objects])
      BY EmptySeq
    <2>2. translated \in BOOLEAN BY DEF Rtp!Init, Rtp!RtpConstants
    <2> QED BY <1>1, <1>2, <2>1, <2>2 DEF Rtp!Init, Rtp!TypeOK
  <1>4. Rtp!OwnAddress BY DEF Rtp!Init, Rtp!OwnAddress
  <1>5. Rtp!OneObject BY <1>2 DEF Rtp!Init, Rtp!OneObject
  <1>6. Rtp!DirectVoice BY DEF Rtp!Init, Rtp!DirectVoice
  <1> QED BY <1>3, <1>4, <1>5, <1>6 DEF Rtp!IInv

LEMMA VoiceIs == ASSUME Rtp!IInv PROVE Rtp!DirectVoice /\ Rtp!GreetedOnce
  BY DEF Rtp!IInv, Rtp!OneObject, Rtp!GreetedOnce

LEMMA VoiceAlways == Spec => [](which = "Rtp" => Rtp!IInv)
  <1> DEFINE I == which = "Rtp" => Rtp!IInv
  <1>1. Init => I BY VoiceInit, ComponentConstants DEF Init
  <1>2. I /\ [Next]_vars => I'
    <2>1. ASSUME Rtp!IInv, Rtp!Next PROVE Rtp!IInv' BY <2>1, VoiceTypes, OwnAddressStep, OneObjectStep DEF Rtp!IInv
    <2>2. ASSUME Rtp!IInv, UNCHANGED Rtp!vars PROVE Rtp!IInv'
      BY <2>2 DEF Rtp!vars, Rtp!IInv, Rtp!TypeOK, Rtp!OwnAddress, Rtp!OneObject,
           Rtp!DirectVoice
    <2>3. ASSUME [Next]_vars, which' = "Rtp"
          PROVE  which = "Rtp" /\ [Rtp!Next]_Rtp!vars
      BY <2>3 DEF Next, vars, Rtp!vars
    <2> QED BY <2>1, <2>2, <2>3
  <1> QED BY <1>1, <1>2, PTL DEF Spec

\* RtpUdpServerService, for any number of calls: voice whose address nothing hides goes
\* to its own call, and the model is not told twice to greet it.
THEOREM VoiceFindsItsCall == Spec => []VoiceRight
  <1>1. (which = "Rtp" => Rtp!IInv) => VoiceRight BY VoiceIs DEF Rtp!IInv, VoiceRight
  <1> QED BY <1>1, VoiceAlways, PTL

------------------------
\* The events: a response that was cancelled waits in the one buffer that has its call, or
\* has run it (Talk!IInv).

\* What an event that comes does to the handlers.
Comes(ev, r) == \E m \in Talk!HandlerKind : /\ m.ev = ev /\ m.r = r /\ m.obj = entry /\ m.at = "logging"
                                            /\ handlers' = handlers \cup {m}

LEMMA EventComes ==
  ASSUME Talk!ModelEventsConstants, Talk!TypeOK, ~Talk!Closed,
         NEW ev \in {"created", "text", "done", "called", "committed", "expired"},
         NEW r \in 0 .. MaxResponses, Talk!Event(ev, r)
  PROVE  Comes(ev, r)
  <1> DEFINE m == [ev |-> ev, r |-> r, obj |-> entry, at |-> "logging"]
  <1>1. entry \in Talk!Objects BY DEF Talk!TypeOK, Talk!Closed, Talk!Objects
  <1>2. m \in Talk!HandlerKind /\ m.ev = ev /\ m.r = r /\ m.obj = entry /\ m.at = "logging"
    BY <1>1 DEF Talk!HandlerKind
  <1>3. handlers' = handlers \cup {m} BY DEF Talk!Event
  <1> HIDE DEF m
  <1> QED BY <1>2, <1>3 DEF Comes

\* What it does when a handler goes on.
GoesOn(h, at) == \E m \in Talk!HandlerKind : /\ m.ev = h.ev /\ m.r = h.r /\ m.obj = h.obj /\ m.at = at
                                             /\ handlers' = (handlers \ {h}) \cup {m}

LEMMA MoveGoesOn ==
  ASSUME Talk!TypeOK, NEW h \in handlers, NEW at \in {"emptying", "usage", "answering", "refreshing"},
         Talk!Move(h, at)
  PROVE  GoesOn(h, at)
  <1> DEFINE m == [h EXCEPT !.at = at]
  <1>1. h \in Talk!HandlerKind BY DEF Talk!TypeOK, Talk!HandlerKind
  <1>2. m \in Talk!HandlerKind /\ m.ev = h.ev /\ m.r = h.r /\ m.obj = h.obj /\ m.at = at
    BY <1>1 DEF Talk!HandlerKind
  <1>3. handlers' = (handlers \ {h}) \cup {m} BY DEF Talk!Move
  <1> HIDE DEF m
  <1> QED BY <1>2, <1>3 DEF GoesOn

\* What the steps do to the objects.
LEMMA Announced ==
  ASSUME Talk!TypeOK, NEW r \in Talk!Responses, Talk!Announce(r)
  PROVE  /\ objs' \in [Talk!Objects -> Talk!ObjectKind] /\ entry \in Talk!Objects
         /\ \A o \in Talk!Objects : objs'[o].conn = objs[o].conn /\ objs'[o].whole = objs[o].whole
                             /\ (objs[o].muted => objs'[o].muted)
                             /\ objs'[o].text = IF o = entry THEN objs[o].text \cup {r} ELSE objs[o].text
         /\ objs'[entry].muted
  <1> DEFINE new == [[objs[entry] EXCEPT !.text = @ \cup {r}] EXCEPT !.muted = TRUE]
  <1>1. entry \in Talk!Objects /\ objs \in [Talk!Objects -> Talk!ObjectKind] /\ objs[entry] \in Talk!ObjectKind
    BY DEF Talk!TypeOK, Talk!Announce, Talk!Closed, Talk!Objects, Talk!ObjectKind
  <1>2. new \in Talk!ObjectKind /\ new.conn = objs[entry].conn /\ new.whole = objs[entry].whole
        /\ new.text = objs[entry].text \cup {r} /\ new.muted = TRUE
    BY <1>1 DEF Talk!ObjectKind
  <1>3. objs' = [objs EXCEPT ![entry] = new] BY DEF Talk!Announce
  <1> HIDE DEF new
  <1>4. objs' \in [Talk!Objects -> Talk!ObjectKind] /\ \A o \in Talk!Objects : objs'[o] = IF o = entry THEN new ELSE objs[o]
    BY <1>1, <1>2, <1>3
  <1> QED BY <1>1, <1>2, <1>4

LEMMA Worded ==
  ASSUME Talk!TypeOK, NEW r \in Talk!Responses, Talk!Word(r)
  PROVE  /\ objs' \in [Talk!Objects -> Talk!ObjectKind] /\ entry \in Talk!Objects
         /\ \A o \in Talk!Objects : objs'[o].conn = objs[o].conn /\ objs'[o].text = objs[o].text
                             /\ objs'[o].muted = objs[o].muted
                             /\ objs'[o].whole = IF o = entry THEN objs[o].whole \cup ({r} \cap objs[o].text)
                                                 ELSE objs[o].whole
  <1> DEFINE new == [objs[entry] EXCEPT !.whole = @ \cup ({r} \cap objs[entry].text)]
  <1>1. entry \in Talk!Objects /\ objs \in [Talk!Objects -> Talk!ObjectKind] /\ objs[entry] \in Talk!ObjectKind
    BY DEF Talk!TypeOK, Talk!Word, Talk!Closed, Talk!Objects, Talk!ObjectKind
  <1>2. new \in Talk!ObjectKind /\ new.conn = objs[entry].conn /\ new.muted = objs[entry].muted
        /\ new.text = objs[entry].text /\ new.whole = objs[entry].whole \cup ({r} \cap objs[entry].text)
    BY <1>1 DEF Talk!ObjectKind
  <1>3. objs' = [objs EXCEPT ![entry] = new] BY DEF Talk!Word
  <1> HIDE DEF new
  <1>4. objs' \in [Talk!Objects -> Talk!ObjectKind] /\ \A o \in Talk!Objects : objs'[o] = IF o = entry THEN new ELSE objs[o]
    BY <1>1, <1>2, <1>3
  <1> QED BY <1>1, <1>2, <1>4

\* The buffer of one object is emptied, its mute ended.
Reset(b) ==
  /\ objs' \in [Talk!Objects -> Talk!ObjectKind]
  /\ \A o \in Talk!Objects : objs'[o].conn = objs[o].conn /\ (o # b => objs'[o] = objs[o])
  /\ objs'[b].text = {} /\ objs'[b].whole = {}

LEMMA ResetIs ==
  ASSUME Talk!TypeOK, NEW b \in Talk!Objects,
         objs' = [objs EXCEPT ![b].text = {}, ![b].whole = {}, ![b].muted = FALSE]
  PROVE  Reset(b)
  <1> DEFINE new == [[[objs[b] EXCEPT !.text = {}] EXCEPT !.whole = {}] EXCEPT !.muted = FALSE]
  <1>1. objs \in [Talk!Objects -> Talk!ObjectKind] /\ objs[b] \in Talk!ObjectKind
    BY DEF Talk!TypeOK, Talk!ObjectKind
  <1>2. new \in Talk!ObjectKind /\ new.conn = objs[b].conn /\ new.text = {} /\ new.whole = {}
    BY <1>1 DEF Talk!ObjectKind
  <1>3. objs' = [objs EXCEPT ![b] = new] OBVIOUS
  <1> HIDE DEF new
  <1>4. objs' \in [Talk!Objects -> Talk!ObjectKind] /\ \A o \in Talk!Objects : objs'[o] = IF o = b THEN new ELSE objs[o]
    BY <1>1, <1>2, <1>3
  <1> QED BY <1>1, <1>2, <1>4 DEF Reset

LEMMA HungUp ==
  ASSUME Talk!TypeOK, Talk!Hangup
  PROVE  /\ objs' \in [Talk!Objects -> Talk!ObjectKind] /\ entry' = 0
         /\ \A o \in Talk!Objects : /\ objs'[o].text = objs[o].text /\ objs'[o].whole = objs[o].whole
                                    /\ objs'[o].muted = objs[o].muted
  <1>1. objs \in [Talk!Objects -> Talk!ObjectKind] BY DEF Talk!TypeOK, Talk!ObjectKind
  <1>2. ASSUME NEW o \in Talk!Objects
        PROVE  /\ [objs[o] EXCEPT !.conn = FALSE] \in Talk!ObjectKind
               /\ [objs[o] EXCEPT !.conn = FALSE].text = objs[o].text
               /\ [objs[o] EXCEPT !.conn = FALSE].whole = objs[o].whole
               /\ [objs[o] EXCEPT !.conn = FALSE].muted = objs[o].muted
    <2>1. objs[o] \in Talk!ObjectKind BY <1>1
    <2> QED BY <2>1 DEF Talk!ObjectKind
  <1>3. objs' = [o \in Talk!Objects |-> [objs[o] EXCEPT !.conn = FALSE]] /\ entry' = 0 BY DEF Talk!Hangup
  <1> QED BY <1>2, <1>3

LEMMA Greeted ==
  ASSUME Talk!TypeOK, Talk!Greet
  PROVE  /\ objs' \in [Talk!Objects -> Talk!ObjectKind] /\ entry = 1 /\ entry' = 2
         /\ \A o \in Talk!Objects : objs'[o] = IF o = 2 THEN objs[1] ELSE objs[o]
  BY DEF Talk!TypeOK, Talk!ObjectKind, Talk!Greet, Talk!Objects

\* The handlers of a step are those of before, and one that came or went on.
LEMMA OvertakenGrows ==
  ASSUME Talk!TypeOK, NEW ev, NEW r
  PROVE  overtaken \subseteq Talk!Overtaken(ev, r) /\ Talk!Overtaken(ev, r) \subseteq Talk!Responses
  BY DEF Talk!TypeOK, Talk!Overtaken

LEMMA EventTypes ==
  ASSUME Talk!ModelEventsConstants, Talk!TypeOK, Talk!Happened, Talk!Next
  PROVE  Talk!TypeOK'
  <1>s. said \in [Talk!Responses -> {"none", "created", "announced", "worded", "told", "done"}]
        /\ handlers \subseteq Talk!HandlerKind /\ ran \in [Talk!Responses -> Nat]
        /\ \A r \in Talk!Responses : r \in 0 .. MaxResponses
    BY DEF Talk!TypeOK, Talk!Responses, Talk!ModelEventsConstants
  <1>h. \A h \in handlers : h.r \in 0 .. MaxResponses /\ h.obj \in Talk!Objects BY <1>s DEF Talk!HandlerKind
  <1>r. \A h \in handlers : h.ev \in {"text", "called"} \/ h.at = "answering" => h.r \in Talk!Responses
    BY DEF Talk!Happened
  <1>1. ASSUME NEW r \in Talk!Responses, Talk!Create(r) PROVE Talk!TypeOK'
    <2>1. Comes("created", r) BY <1>s, <1>1, EventComes DEF Talk!Create
    <2> QED BY <1>s, <1>1, <2>1 DEF Talk!TypeOK, Comes, Talk!Create
  <1>2. ASSUME NEW r \in Talk!Responses, Talk!Announce(r) PROVE Talk!TypeOK'
    <2>1. said' \in [Talk!Responses -> {"none", "created", "announced", "worded", "told", "done"}]
      BY <1>s, <1>2 DEF Talk!Announce
    <2>2. overtaken' \subseteq Talk!Responses BY <1>2, OvertakenGrows DEF Talk!Announce
    <2>3. objs' \in [Talk!Objects -> Talk!ObjectKind] BY <1>2, Announced
    <2> QED BY <1>2, <2>1, <2>2, <2>3 DEF Talk!TypeOK, Talk!Announce
  <1>3. ASSUME NEW r \in Talk!Responses, Talk!Word(r) PROVE Talk!TypeOK'
    <2>1. said' \in [Talk!Responses -> {"none", "created", "announced", "worded", "told", "done"}]
      BY <1>s, <1>3 DEF Talk!Word
    <2>2. overtaken' \subseteq Talk!Responses BY <1>3, OvertakenGrows DEF Talk!Word
    <2>3. objs' \in [Talk!Objects -> Talk!ObjectKind] BY <1>3, Worded
    <2> QED BY <1>3, <2>1, <2>2, <2>3 DEF Talk!TypeOK, Talk!Word
  <1>4. ASSUME NEW r \in Talk!Responses, Talk!PlayDelta(r) PROVE Talk!TypeOK'
    BY <1>4 DEF Talk!TypeOK, Talk!PlayDelta
  <1>5. ASSUME NEW r \in Talk!Responses, Talk!TextDone(r) PROVE Talk!TypeOK'
    <2>1. Comes("text", r) BY <1>s, <1>5, EventComes DEF Talk!TextDone
    <2> QED BY <1>s, <1>5, <2>1 DEF Talk!TypeOK, Comes, Talk!TextDone
  <1>6. ASSUME NEW r \in Talk!Responses, NEW calls \in BOOLEAN, Talk!Done(r, calls) PROVE Talk!TypeOK'
    <2>1. \E ev \in {"called", "done"} : Comes(ev, r)
      <3>1. CASE calls BY <1>s, <1>6, <3>1, EventComes DEF Talk!Done
      <3>2. CASE ~calls BY <1>s, <1>6, <3>2, EventComes DEF Talk!Done
      <3> QED BY <3>1, <3>2
    <2>2. handlers' \subseteq Talk!HandlerKind BY <1>s, <2>1 DEF Comes
    <2>3. said' \in [Talk!Responses -> {"none", "created", "announced", "worded", "told", "done"}]
      BY <1>s, <1>6 DEF Talk!Done
    <2>4. cut' \subseteq Talk!Responses BY <1>6 DEF Talk!Done, Talk!TypeOK
    <2> QED BY <1>6, <2>2, <2>3, <2>4 DEF Talk!TypeOK, Talk!Done
  <1>7. CASE Talk!Committed
    <2>1. Comes("committed", 0) BY <1>7, EventComes DEF Talk!Committed,
         Talk!ModelEventsConstants
    <2> QED BY <1>s, <1>7, <2>1 DEF Talk!TypeOK, Comes, Talk!Committed
  <1>8. CASE Talk!Expire
    <2>1. Comes("expired", 0) BY <1>8, EventComes DEF Talk!Expire, Talk!ModelEventsConstants
    <2> QED BY <1>s, <1>8, <2>1 DEF Talk!TypeOK, Comes, Talk!Expire
  <1>9. CASE Talk!Greet
    <2>1. objs' \in [Talk!Objects -> Talk!ObjectKind] /\ entry' = 2 BY <1>9, Greeted
    <2>2. overtaken' \subseteq Talk!Responses
      <3>1. objs[1].text \subseteq Talk!Responses BY DEF Talk!TypeOK, Talk!Objects,
           Talk!ObjectKind
      <3> QED BY <1>9, <3>1 DEF Talk!Greet, Talk!TypeOK
    <2> QED BY <1>9, <2>1, <2>2 DEF Talk!TypeOK, Talk!Greet
  <1>10. CASE Talk!Close
    <2>1. Talk!Hangup /\ handlers' = handlers BY <1>10 DEF Talk!Close
    <2>2. objs' \in [Talk!Objects -> Talk!ObjectKind] /\ entry' = 0 BY <2>1, HungUp
    <2> QED BY <2>1, <2>2 DEF Talk!TypeOK, Talk!Hangup
  <1>11. ASSUME NEW h \in handlers, Talk!HandleCreated(h) PROVE Talk!TypeOK'
    <2>1. objs' \in [Talk!Objects -> Talk!ObjectKind] BY <1>h, <1>11,
         ResetIs DEF Talk!HandleCreated, Reset
    <2>2. overtaken' \subseteq Talk!Responses BY <1>11, OvertakenGrows DEF Talk!HandleCreated
    <2>3. entry' \in 0 .. 3 BY <1>11 DEF Talk!HandleCreated, Talk!Refresh, Talk!TypeOK
    <2> QED BY <1>11, <2>1, <2>2, <2>3 DEF Talk!TypeOK, Talk!HandleCreated, Talk!Leave
  <1>12. ASSUME NEW h \in handlers, Talk!HandleText(h) PROVE Talk!TypeOK'
    <2>1. ran' \in [Talk!Responses -> Nat] BY <1>s, <1>r, <1>12 DEF Talk!HandleText
    <2> QED BY <1>12, <2>1 DEF Talk!TypeOK, Talk!HandleText, Talk!Leave
  <1>13. ASSUME NEW h \in handlers, Talk!HandleMuted(h) PROVE Talk!TypeOK'
    <2>1. \E at \in {"emptying", "usage"} : GoesOn(h, at) BY <1>13, MoveGoesOn DEF Talk!HandleMuted
    <2>2. handlers' \subseteq Talk!HandlerKind BY <1>s, <2>1 DEF GoesOn
    <2>3. ran' \in [Talk!Responses -> Nat] BY <1>s, <1>13 DEF Talk!HandleMuted
    <2>4. overtaken' \subseteq Talk!Responses BY <1>13, OvertakenGrows DEF Talk!HandleMuted
    <2> QED BY <1>13, <2>2, <2>3, <2>4 DEF Talk!TypeOK, Talk!HandleMuted
  <1>14. ASSUME NEW h \in handlers, Talk!Empty(h) PROVE Talk!TypeOK'
    <2>1. GoesOn(h, "usage") BY <1>14, MoveGoesOn DEF Talk!Empty
    <2>2. handlers' \subseteq Talk!HandlerKind BY <1>s, <2>1 DEF GoesOn
    <2>3. objs' \in [Talk!Objects -> Talk!ObjectKind] BY <1>h, <1>14,
         ResetIs DEF Talk!Empty, Reset
    <2> QED BY <1>14, <2>2, <2>3 DEF Talk!TypeOK, Talk!Empty
  <1>15. ASSUME NEW h \in handlers, Talk!RunTool(h) PROVE Talk!TypeOK'
    <2>1. GoesOn(h, "answering") BY <1>15, MoveGoesOn DEF Talk!RunTool
    <2>2. handlers' \subseteq Talk!HandlerKind BY <1>s, <2>1 DEF GoesOn
    <2>3. ran' \in [Talk!Responses -> Nat] BY <1>s, <1>r, <1>15 DEF Talk!RunTool
    <2> QED BY <1>15, <2>2, <2>3 DEF Talk!TypeOK, Talk!RunTool
  <1>16. ASSUME NEW h \in handlers, Talk!Respond(h) PROVE Talk!TypeOK'
    <2>1. GoesOn(h, "refreshing") BY <1>16, MoveGoesOn DEF Talk!Respond
    <2>2. handlers' \subseteq Talk!HandlerKind BY <1>s, <2>1 DEF GoesOn
    <2>3. answered' \subseteq Talk!Responses BY <1>r, <1>16 DEF Talk!Respond, Talk!TypeOK
    <2>4. mute' \subseteq Talk!Responses BY <1>r, <1>16 DEF Talk!Respond, Talk!TypeOK
    <2> QED BY <1>16, <2>2, <2>3, <2>4 DEF Talk!TypeOK, Talk!Respond
  <1>17. ASSUME NEW h \in handlers, Talk!Finish(h) PROVE Talk!TypeOK'
    BY <1>17 DEF Talk!TypeOK, Talk!Finish, Talk!Leave, Talk!Refresh
  <1>18. ASSUME NEW h \in handlers, Talk!HandleExpired(h) PROVE Talk!TypeOK'
    <2>1. Talk!Hangup /\ handlers' = handlers \ {h} BY <1>18 DEF Talk!HandleExpired,
         Talk!Leave
    <2>2. objs' \in [Talk!Objects -> Talk!ObjectKind] /\ entry' = 0 BY <2>1, HungUp
    <2> QED BY <2>1, <2>2 DEF Talk!TypeOK, Talk!Hangup
  <1> QED BY <1>1, <1>2, <1>3, <1>4, <1>5, <1>6, <1>7, <1>8, <1>9, <1>10, <1>11, <1>12, <1>13,
       <1>14,
             <1>15, <1>16, <1>17, <1>18 DEF Talk!Next

LEMMA InTurnStep ==
  ASSUME Talk!ModelEventsConstants, Talk!TypeOK, Talk!InTurn, Talk!Next
  PROVE  Talk!InTurn'
  <1>s. said \in [Talk!Responses -> {"none", "created", "announced", "worded", "told", "done"}]
        /\ Talk!Responses \subseteq Nat /\ \A r \in Talk!Responses : 1 .. r - 1 = {q \in Talk!Responses : q < r}
    BY DEF Talk!TypeOK, Talk!Responses, Talk!ModelEventsConstants
  <1>1. ASSUME NEW r \in Talk!Responses, Talk!Create(r) PROVE Talk!InTurn'
    <2>1. said' = [said EXCEPT ![r] = "created"] /\ vendor' = vendor /\ cut' = cut /\ said[r] = "none"
          /\ \A q \in Talk!Responses : q < r => said[q] = "done"
      BY <1>s, <1>1 DEF Talk!Create
    <2>2. \A q \in cut : q # r BY <2>1 DEF Talk!InTurn
    <2>3. cut \subseteq Talk!Responses BY DEF Talk!TypeOK
    <2>4. \A p, q \in Talk!Responses : said'[p] # "none" /\ q < p => said'[q] = "done" BY <1>s, <2>1 DEF Talk!InTurn
    <2> QED BY <1>s, <2>1, <2>2, <2>3, <2>4 DEF Talk!InTurn
  <1>2. ASSUME NEW r \in Talk!Responses, NEW next \in {"announced", "worded", "told", "done"},
               said' = [said EXCEPT ![r] = next], vendor' = vendor, said[r] \notin {"none", "done"},
               cut' = cut \/ (next = "done" /\ vendor = "yandex" /\ cut' = cut \cup {r}),
               next # "done" => vendor = "yandex"
        PROVE  Talk!InTurn'
    <2>1. \A p, q \in Talk!Responses : said'[p] # "none" /\ q < p => said'[q] = "done" BY <1>s, <1>2 DEF Talk!InTurn
    <2>2. \A q \in cut' : said'[q] = "done" BY <1>s, <1>2 DEF Talk!InTurn, Talk!TypeOK
    <2>3. vendor' = "openai" => cut' = {} /\ \A q \in Talk!Responses : said'[q] \in {"none", "created", "done"}
      BY <1>s, <1>2 DEF Talk!InTurn
    <2> QED BY <2>1, <2>2, <2>3 DEF Talk!InTurn
  <1>3. ASSUME NEW r \in Talk!Responses, Talk!Announce(r) \/ Talk!Word(r) \/ Talk!TextDone(r) \/ \E calls \in BOOLEAN : Talk!Done(r, calls)
        PROVE  Talk!InTurn'
    <2>1. said[r] \notin {"none", "done"} /\ vendor' = vendor /\ (said[r] # "created" => vendor = "yandex")
      BY <1>s, <1>3 DEF Talk!Announce, Talk!Word, Talk!TextDone, Talk!Done,
           Talk!InTurn, Talk!TypeOK
    <2>2. CASE Talk!Announce(r) BY <1>2, <2>1, <2>2 DEF Talk!Announce
    <2>3. CASE Talk!Word(r) BY <1>2, <2>1, <2>3 DEF Talk!Word
    <2>4. CASE Talk!TextDone(r) BY <1>2, <2>1, <2>4 DEF Talk!TextDone
    <2>5. ASSUME NEW calls \in BOOLEAN, Talk!Done(r, calls) PROVE Talk!InTurn'
      <3>1. said' = [said EXCEPT ![r] = "done"]
            /\ (cut' = cut \/ (said[r] = "worded" /\ cut' = cut \cup {r}))
        BY <2>5 DEF Talk!Done
      <3> QED BY <1>2, <2>1, <3>1
    <2> QED BY <1>3, <2>2, <2>3, <2>4, <2>5
  <1>4. ASSUME UNCHANGED <<said, vendor, cut>> PROVE Talk!InTurn' BY <1>4 DEF Talk!InTurn
  <1>5. CASE Talk!Committed \/ Talk!Expire \/ Talk!Greet \/ Talk!Close
    BY <1>4, <1>5 DEF Talk!Committed, Talk!Expire, Talk!Greet, Talk!Close, Talk!Hangup
  <1>6. ASSUME NEW r \in Talk!Responses, Talk!PlayDelta(r) PROVE Talk!InTurn' BY <1>4, <1>6 DEF Talk!PlayDelta
  <1>7. ASSUME NEW h \in handlers,
               \/ Talk!HandleCreated(h) \/ Talk!HandleText(h) \/ Talk!HandleMuted(h) \/ Talk!Empty(h)
               \/ Talk!RunTool(h) \/ Talk!Respond(h) \/ Talk!Finish(h) \/ Talk!HandleExpired(h)
        PROVE  Talk!InTurn'
    BY <1>4, <1>7 DEF Talk!HandleCreated, Talk!HandleText, Talk!HandleMuted, Talk!Empty,
         Talk!RunTool, Talk!Respond, Talk!Finish,
                    Talk!HandleExpired, Talk!Hangup
  <1> QED BY <1>1, <1>3, <1>5, <1>6, <1>7 DEF Talk!Next

\* The steps that bring a handler, and those that let one go on or leave.
LEMMA EventsCome ==
  ASSUME Talk!ModelEventsConstants, Talk!TypeOK,
         NEW r \in Talk!Responses, Talk!Create(r) \/ Talk!TextDone(r) \/ \E calls \in BOOLEAN : Talk!Done(r, calls)
  PROVE  /\ entry \in {1, 2} /\ entry' = entry /\ objs' = objs
         /\ \/ Talk!Create(r) /\ Comes("created", r)
            \/ Talk!TextDone(r) /\ Comes("text", r)
            \/ Talk!Done(r, FALSE) /\ Comes("done", r)
            \/ Talk!Done(r, TRUE) /\ Comes("called", r) /\ vendor = "openai"
  <1>1. entry \in {1, 2} /\ ~Talk!Closed BY DEF Talk!TypeOK, Talk!Create, Talk!TextDone,
       Talk!Done, Talk!Closed
  <1>2. entry' = entry /\ objs' = objs BY DEF Talk!Create, Talk!TextDone, Talk!Done
  <1>3. r \in 0 .. MaxResponses BY DEF Talk!Responses, Talk!ModelEventsConstants
  <1>4. CASE Talk!Create(r) BY <1>1, <1>2, <1>3, <1>4, EventComes DEF Talk!Create
  <1>5. CASE Talk!TextDone(r) BY <1>1, <1>2, <1>3, <1>5, EventComes DEF Talk!TextDone
  <1>6. ASSUME NEW calls \in BOOLEAN, Talk!Done(r, calls)
        PROVE  \/ Talk!Done(r, FALSE) /\ Comes("done", r)
               \/ Talk!Done(r, TRUE) /\ Comes("called", r) /\ vendor = "openai"
    <2>1. CASE calls = TRUE BY <1>1, <1>3, <1>6, <2>1, EventComes DEF Talk!Done
    <2>2. CASE calls = FALSE BY <1>1, <1>3, <1>6, <2>2, EventComes DEF Talk!Done
    <2> QED BY <1>6, <2>1, <2>2
  <1> QED BY <1>1, <1>2, <1>4, <1>5, <1>6

LEMMA HandlersGo ==
  ASSUME Talk!TypeOK, NEW h \in handlers,
         \/ Talk!HandleCreated(h) \/ Talk!HandleText(h) \/ Talk!HandleMuted(h) \/ Talk!Empty(h)
         \/ Talk!RunTool(h) \/ Talk!Respond(h) \/ Talk!Finish(h) \/ Talk!HandleExpired(h)
  PROVE  \/ handlers' = handlers \ {h}
         \/ GoesOn(h, "emptying") /\ Talk!HandleMuted(h)
         \/ GoesOn(h, "usage") /\ (Talk!HandleMuted(h) \/ Talk!Empty(h))
         \/ GoesOn(h, "answering") /\ Talk!RunTool(h)
         \/ GoesOn(h, "refreshing") /\ Talk!Respond(h)
  <1>1. CASE Talk!HandleCreated(h) \/ Talk!HandleText(h) \/ Talk!Finish(h) \/ Talk!HandleExpired(h)
    BY <1>1 DEF Talk!HandleCreated, Talk!HandleText, Talk!Finish, Talk!HandleExpired,
         Talk!Leave
  <1>2. CASE Talk!HandleMuted(h) BY <1>2, MoveGoesOn DEF Talk!HandleMuted
  <1>3. CASE Talk!Empty(h) BY <1>3, MoveGoesOn DEF Talk!Empty
  <1>4. CASE Talk!RunTool(h) BY <1>4, MoveGoesOn DEF Talk!RunTool
  <1>5. CASE Talk!Respond(h) BY <1>5, MoveGoesOn DEF Talk!Respond
  <1> QED BY <1>1, <1>2, <1>3, <1>4, <1>5

LEMMA HappenedStep ==
  ASSUME Talk!ModelEventsConstants, Talk!TypeOK, Talk!InTurn, Talk!Happened, Talk!Next
  PROVE  Talk!Happened'
  <1> DEFINE Has(h) ==
          /\ h.obj \in {1, 2} /\ (entry = 1 => h.obj = 1)
          /\ h.ev \in {"created", "text", "done", "called"} => h.r \in Talk!Responses /\ said[h.r] # "none"
          /\ h.ev \in {"done", "called"} => said[h.r] = "done"
          /\ h.ev = "called" => vendor = "openai"
          /\ h.ev = "text" => vendor = "yandex" /\ said[h.r] \in {"told", "done"} /\ h.r \notin cut
          /\ h.at = "emptying" => h.ev \in {"done", "called"}
          /\ h.at \in {"answering", "refreshing"} => h.ev = "called"
             Single == \A g, h \in handlers :
          g.ev \in {"done", "called"} /\ h.ev \in {"done", "called"} /\ g.r = h.r => g = h
  <1>i. (\A h \in handlers : Has(h)) /\ Single BY DEF Talk!Happened
  <1>s. said \in [Talk!Responses -> {"none", "created", "announced", "worded", "told", "done"}]
        /\ handlers \subseteq Talk!HandlerKind
    BY DEF Talk!TypeOK
  <1>g. SUFFICES (\A h \in handlers' : Has(h)') /\ Single' BY DEF Talk!Happened
  \* What was being handled stays true of what happened.
  <1>k. ASSUME NEW h \in handlers,
               vendor' = vendor, entry' = 1 => entry = 1,
               \A r \in Talk!Responses : /\ said[r] # "none" => said'[r] # "none"
                                         /\ said[r] = "done" => said'[r] = "done"
                                         /\ said[r] = "told" => said'[r] \in {"told", "done"},
               \A r \in cut' : r \in cut \/ said[r] = "worded"
        PROVE  Has(h)'
    <2>1. Has(h) BY <1>i
    <2> QED BY <1>k, <2>1
  <1>e. entry' = 1 => entry = 1
    <2>1. ASSUME NEW r \in Talk!Responses,
                 Talk!Create(r) \/ Talk!Announce(r) \/ Talk!Word(r) \/ Talk!PlayDelta(r) \/ Talk!TextDone(r)
                 \/ \E calls \in BOOLEAN : Talk!Done(r, calls)
          PROVE  entry' = entry
      BY <2>1 DEF Talk!Create, Talk!Announce, Talk!Word, Talk!PlayDelta, Talk!TextDone,
           Talk!Done
    <2>2. CASE Talk!Committed \/ Talk!Expire \/ Talk!Greet \/ Talk!Close
      BY <2>2 DEF Talk!Committed, Talk!Expire, Talk!Greet, Talk!Close, Talk!Hangup
    <2>3. ASSUME NEW h \in handlers,
                 \/ Talk!HandleCreated(h) \/ Talk!HandleText(h) \/ Talk!HandleMuted(h) \/ Talk!Empty(h)
                 \/ Talk!RunTool(h) \/ Talk!Respond(h) \/ Talk!Finish(h) \/ Talk!HandleExpired(h)
          PROVE  entry' = entry \/ entry' # 1
      BY <2>3 DEF Talk!HandleCreated, Talk!HandleText, Talk!HandleMuted, Talk!Empty,
           Talk!RunTool, Talk!Respond, Talk!Finish, Talk!HandleExpired,
                Talk!Hangup, Talk!Refresh
    <2> QED BY <2>1, <2>2, <2>3 DEF Talk!Next
  <1>1. ASSUME NEW r \in Talk!Responses, Talk!Create(r) \/ Talk!TextDone(r) \/ \E calls \in BOOLEAN : Talk!Done(r, calls)
        PROVE  (\A h \in handlers' : Has(h)') /\ Single'
    <2>1. /\ entry \in {1, 2} /\ entry' = entry
          /\ \/ Talk!Create(r) /\ Comes("created", r)
             \/ Talk!TextDone(r) /\ Comes("text", r)
             \/ Talk!Done(r, FALSE) /\ Comes("done", r)
             \/ Talk!Done(r, TRUE) /\ Comes("called", r) /\ vendor = "openai"
      BY <1>1, EventsCome
    <2>2. PICK ev \in {"created", "text", "done", "called"}, m \in Talk!HandlerKind :
              /\ m.ev = ev /\ m.r = r /\ m.obj = entry /\ m.at = "logging" /\ handlers' = handlers \cup {m}
              /\ \/ ev = "created" /\ Talk!Create(r)
                 \/ ev = "text" /\ Talk!TextDone(r)
                 \/ ev = "done" /\ Talk!Done(r, FALSE)
                 \/ ev = "called" /\ Talk!Done(r, TRUE) /\ vendor = "openai"
      BY <2>1 DEF Comes
    <2>3. /\ vendor' = vendor
          /\ \A q \in Talk!Responses : /\ q # r => said'[q] = said[q]
                                       /\ said[q] # "none" => said'[q] # "none"
                                       /\ said[q] = "done" => said'[q] = "done"
                                       /\ said[q] = "told" => said'[q] \in {"told", "done"}
          /\ \A q \in cut' : q \in cut \/ said[q] = "worded"
          /\ said'[r] = IF ev = "created" THEN "created" ELSE IF ev = "text" THEN "told" ELSE "done"
      BY <1>s, <2>2 DEF Talk!Create, Talk!TextDone, Talk!Done
    <2>4. \A h \in handlers : Has(h)' BY <1>k, <2>1, <2>3
    <2>5. Has(m)'
      <3>1. ev = "text" => vendor = "yandex" /\ r \notin cut'
        BY <1>s, <2>2 DEF Talk!TextDone, Talk!InTurn, Talk!TypeOK
      <3> QED BY <2>1, <2>2, <2>3, <3>1
    <2>6. Single'
      <3>1. ev \in {"done", "called"} => said[r] # "done" BY <2>2 DEF Talk!Done
      <3>2. \A h \in handlers : h.ev \in {"done", "called"} => said[h.r] = "done" BY <1>i
      <3> QED BY <1>i, <2>2, <3>1, <3>2
    <2> QED BY <2>2, <2>4, <2>5, <2>6
  <1>2. ASSUME Talk!Committed \/ Talk!Expire
        PROVE  (\A h \in handlers' : Has(h)') /\ Single'
    <2>1. Comes("committed", 0) \/ Comes("expired", 0)
      <3>1. CASE Talk!Committed BY <3>1, EventComes DEF Talk!Committed,
           Talk!ModelEventsConstants
      <3>2. CASE Talk!Expire BY <3>2, EventComes DEF Talk!Expire, Talk!ModelEventsConstants
      <3> QED BY <1>2, <3>1, <3>2
    <2>2. PICK m \in Talk!HandlerKind : /\ m.ev \in {"committed", "expired"} /\ m.obj = entry /\ m.at = "logging"
                                        /\ handlers' = handlers \cup {m}
      BY <2>1 DEF Comes
    <2>3. UNCHANGED <<vendor, entry, said, cut>> /\ entry \in {1, 2}
      BY <1>2 DEF Talk!Committed, Talk!Expire, Talk!Closed, Talk!TypeOK
    <2>4. \A h \in handlers : Has(h)' BY <1>i, <2>3
    <2>5. Has(m)' BY <2>2, <2>3
    <2>6. Single' BY <1>i, <2>2
    <2> QED BY <2>2, <2>4, <2>5, <2>6
  <1>3. ASSUME Talk!Greet \/ Talk!Close \/ \E r \in Talk!Responses : Talk!Announce(r) \/ Talk!Word(r) \/ Talk!PlayDelta(r)
        PROVE  (\A h \in handlers' : Has(h)') /\ Single'
    <2>1. handlers' = handlers /\ vendor' = vendor /\ cut' = cut
      BY <1>3 DEF Talk!Greet, Talk!Close, Talk!Hangup, Talk!Announce, Talk!Word,
           Talk!PlayDelta
    <2>2. \A q \in Talk!Responses : /\ said[q] # "none" => said'[q] # "none"
                                    /\ said[q] = "done" => said'[q] = "done"
                                    /\ said[q] = "told" => said'[q] \in {"told", "done"}
      BY <1>s, <1>3 DEF Talk!Greet, Talk!Close, Talk!Hangup, Talk!Announce, Talk!Word,
           Talk!PlayDelta
    <2> QED BY <1>i, <1>e, <1>k, <2>1, <2>2
  <1>4. ASSUME NEW h \in handlers,
               \/ Talk!HandleCreated(h) \/ Talk!HandleText(h) \/ Talk!HandleMuted(h) \/ Talk!Empty(h)
               \/ Talk!RunTool(h) \/ Talk!Respond(h) \/ Talk!Finish(h) \/ Talk!HandleExpired(h)
        PROVE  (\A g \in handlers' : Has(g)') /\ Single'
    <2>1. UNCHANGED <<vendor, said, cut>>
      BY <1>4 DEF Talk!HandleCreated, Talk!HandleText, Talk!HandleMuted, Talk!Empty,
           Talk!RunTool, Talk!Respond, Talk!Finish, Talk!HandleExpired, Talk!Hangup
    <2>2. \A g \in handlers : Has(g)' BY <1>e, <1>i, <2>1
    <2>3. CASE handlers' = handlers \ {h} BY <1>i, <2>2, <2>3
    <2>4. ASSUME NEW at \in {"emptying", "usage", "answering", "refreshing"}, GoesOn(h, at),
                 at = "emptying" => h.ev \in {"done", "called"},
                 at \in {"answering", "refreshing"} => h.ev = "called"
          PROVE  (\A g \in handlers' : Has(g)') /\ Single'
      <3>1. PICK m \in Talk!HandlerKind : /\ m.ev = h.ev /\ m.r = h.r /\ m.obj = h.obj /\ m.at = at
                                          /\ handlers' = (handlers \ {h}) \cup {m}
        BY <2>4 DEF GoesOn
      <3>2. Has(m)' BY <2>2, <2>4, <3>1
      <3>3. Single' BY <1>i, <3>1
      <3> QED BY <2>2, <3>1, <3>2, <3>3
    <2>5. (Talk!HandleMuted(h) => h.ev \in {"done", "called"}) /\ (Talk!RunTool(h) \/ Talk!Respond(h) => h.ev = "called")
      BY <1>i DEF Talk!HandleMuted, Talk!RunTool, Talk!Respond
    <2> QED BY <1>4, <2>3, <2>4, <2>5, HandlersGo
  <1> QED BY <1>1, <1>2, <1>3, <1>4 DEF Talk!Next

LEMMA ConnectedStep ==
  ASSUME Talk!ModelEventsConstants, Talk!TypeOK, Talk!InTurn, Talk!Happened, Talk!InBuffer, Talk!Connected, Talk!Next
  PROVE  Talk!Connected'
  <1> DEFINE Sent(r) == r \in answered \cup mute \/ \E h \in handlers : h.r = r /\ h.ev = "called" /\ h.at = "answering"
  <1>s. /\ objs \in [Talk!Objects -> Talk!ObjectKind] /\ handlers \subseteq Talk!HandlerKind /\ ran \in [Talk!Responses -> Nat]
        /\ Talk!Closed = (entry \in {0, 3}) /\ Talk!Closed' = (entry' \in {0, 3}) /\ entry \in 0 .. 3
        /\ Talk!Objects = {1, 2, 3}
    BY DEF Talk!TypeOK, Talk!Closed, Talk!Objects
  <1>t. ~Talk!Closed => entry \in {1, 2} BY DEF Talk!TypeOK, Talk!Closed
  <1>i. /\ ~Talk!Closed => objs[1].conn /\ objs[entry].conn
        /\ \A r \in Talk!Responses : vendor = "openai" /\ ran[r] > 0 /\ ~Talk!Closed => Sent(r)
    BY DEF Talk!Connected
  \* A step that keeps the connections, and neither runs a tool nor ends an answer.
  <1>k. ASSUME ~Talk!Closed' => ~Talk!Closed, vendor' = vendor, answered \subseteq answered', mute \subseteq mute',
               ~Talk!Closed' => \A o \in {1, entry'} : objs'[o].conn,
               vendor = "openai" => \A r \in Talk!Responses : ran'[r] > 0 => ran[r] > 0,
               \A h \in handlers : h.ev = "called" /\ h.at = "answering" => h \in handlers' \/ h.r \in answered' \cup mute'
        PROVE  Talk!Connected'
    <2>1. \A r \in Talk!Responses : Sent(r) => Sent(r)' BY <1>k
    <2> QED BY <1>i, <1>k, <2>1 DEF Talk!Connected
  <1>c. ASSUME ~Talk!Closed' => ~Talk!Closed /\ entry' = entry, \A o \in Talk!Objects : objs'[o].conn = objs[o].conn
        PROVE  (~Talk!Closed' => ~Talk!Closed) /\ (~Talk!Closed' => \A o \in {1, entry'} : objs'[o].conn)
    <2>1. ASSUME ~Talk!Closed' PROVE objs'[1].conn /\ objs'[entry'].conn
      <3>1. ~Talk!Closed /\ entry' = entry BY <1>c, <2>1
      <3>2. entry \in Talk!Objects /\ 1 \in Talk!Objects BY <1>s, <1>t, <3>1
      <3>3. objs'[1].conn = objs[1].conn /\ objs'[entry].conn = objs[entry].conn BY <1>c, <3>2
      <3> QED BY <1>i, <3>1, <3>3
    <2> QED BY <1>c, <2>1
  <1>1. ASSUME NEW r \in Talk!Responses, Talk!Create(r) \/ Talk!TextDone(r) \/ \E calls \in BOOLEAN : Talk!Done(r, calls)
        PROVE  Talk!Connected'
    <2>1. entry' = entry /\ objs' = objs /\ \E ev \in {"created", "text", "done", "called"} : Comes(ev, r)
      BY <1>1, EventsCome
    <2>2. UNCHANGED <<vendor, ran, answered, mute>> BY <1>1 DEF Talk!Create, Talk!TextDone,
         Talk!Done
    <2>3. handlers \subseteq handlers' BY <2>1 DEF Comes
    <2> QED BY <1>i, <1>k, <1>s, <2>1, <2>2, <2>3
  <1>2. CASE Talk!Committed \/ Talk!Expire
    <2>1. UNCHANGED <<vendor, entry, objs, ran, answered, mute>> /\ handlers \subseteq handlers'
      BY <1>2 DEF Talk!Committed, Talk!Expire, Talk!Event
    <2> QED BY <1>i, <1>k, <1>s, <2>1
  <1>3. ASSUME NEW r \in Talk!Responses, Talk!Announce(r) \/ Talk!Word(r) \/ Talk!PlayDelta(r) PROVE Talk!Connected'
    <2>1. UNCHANGED <<vendor, entry, ran, answered, mute, handlers>> BY <1>3 DEF Talk!Announce,
         Talk!Word, Talk!PlayDelta
    <2>2. \A o \in Talk!Objects : objs'[o].conn = objs[o].conn BY <1>3, Announced, Worded DEF Talk!PlayDelta
    <2>3. Talk!Closed' = Talk!Closed BY <2>1 DEF Talk!Closed
    <2>4. ~Talk!Closed' => \A o \in {1, entry'} : objs'[o].conn BY <1>c, <2>1, <2>2, <2>3
    <2> QED BY <1>k, <2>1, <2>3, <2>4
  <1>4. CASE Talk!Greet
    <2>1. UNCHANGED <<vendor, ran, answered, mute, handlers>> BY <1>4 DEF Talk!Greet
    <2>2. entry = 1 /\ entry' = 2 /\ objs'[1] = objs[1] /\ objs'[2] = objs[1] BY <1>4, <1>s, Greeted
    <2>3. ~Talk!Closed BY <2>2 DEF Talk!Closed
    <2>4. \A o \in {1, entry'} : objs'[o].conn BY <1>i, <2>2, <2>3
    <2> QED BY <1>k, <2>1, <2>3, <2>4
  <1>5. ASSUME Talk!Hangup PROVE Talk!Connected'
    <2>1. entry' = 0 BY <1>5 DEF Talk!Hangup
    <2> QED BY <1>s, <2>1 DEF Talk!Connected
  <1>6. ASSUME NEW h \in handlers, Talk!HandleCreated(h) PROVE Talk!Connected'
    <2>1. UNCHANGED <<vendor, ran, answered, mute>> /\ handlers' = handlers \ {h} /\ h.ev = "created"
      BY <1>6 DEF Talk!HandleCreated, Talk!Leave
    <2>2. \A o \in Talk!Objects : objs'[o].conn = objs[o].conn
      <3>1. h.obj \in Talk!Objects BY <1>s DEF Talk!HandlerKind
      <3> QED BY <1>6, <3>1, ResetIs DEF Talk!HandleCreated, Reset
    <2>3. ~Talk!Closed' => ~Talk!Closed /\ entry' = entry BY <1>6,
         <1>s DEF Talk!HandleCreated, Talk!Refresh
    <2>4. (~Talk!Closed' => ~Talk!Closed) /\ (~Talk!Closed' => \A o \in {1, entry'} : objs'[o].conn)
      BY <1>c, <2>2, <2>3
    <2>5. \A g \in handlers : g.ev = "called" => g \in handlers' BY <2>1
    <2> QED BY <1>k, <2>1, <2>4, <2>5
  <1>7. ASSUME NEW h \in handlers, Talk!HandleText(h) PROVE Talk!Connected'
    <2>1. UNCHANGED <<vendor, entry, objs, answered, mute>> /\ handlers' = handlers \ {h} /\ h.ev = "text"
          /\ vendor = "yandex"
      BY <1>7 DEF Talk!HandleText, Talk!Leave, Talk!Happened
    <2> QED BY <1>i, <1>k, <1>s, <2>1
  <1>8. ASSUME NEW h \in handlers, Talk!HandleMuted(h) PROVE Talk!Connected'
    <2>1. UNCHANGED <<vendor, entry, objs, answered, mute>> /\ h.at = "logging" BY <1>8
         DEF Talk!HandleMuted
    <2>2. vendor = "openai" => ran' = ran
      <3>1. h.obj \in Talk!Objects BY <1>s DEF Talk!HandlerKind
      <3> QED BY <1>8, <3>1 DEF Talk!HandleMuted, Talk!InBuffer
    <2>3. handlers \ {h} \subseteq handlers' BY <1>8 DEF Talk!HandleMuted, Talk!Move
    <2>4. (~Talk!Closed' => ~Talk!Closed) /\ (~Talk!Closed' => \A o \in {1, entry'} : objs'[o].conn)
      BY <1>c, <1>s, <2>1
    <2>5. \A g \in handlers : g.at = "answering" => g \in handlers' BY <2>1, <2>3
    <2> QED BY <1>k, <2>1, <2>2, <2>4, <2>5
  <1>9. ASSUME NEW h \in handlers, Talk!Empty(h) PROVE Talk!Connected'
    <2>1. UNCHANGED <<vendor, entry, ran, answered, mute>> /\ h.at = "emptying" BY <1>9 DEF Talk!Empty
    <2>2. \A o \in Talk!Objects : objs'[o].conn = objs[o].conn
      <3>1. h.obj \in Talk!Objects BY <1>s DEF Talk!HandlerKind
      <3> QED BY <1>9, <3>1, ResetIs DEF Talk!Empty, Reset
    <2>3. handlers \ {h} \subseteq handlers' BY <1>9 DEF Talk!Empty, Talk!Move
    <2>4. (~Talk!Closed' => ~Talk!Closed) /\ (~Talk!Closed' => \A o \in {1, entry'} : objs'[o].conn)
      BY <1>c, <1>s, <2>1, <2>2
    <2>5. \A g \in handlers : g.at = "answering" => g \in handlers' BY <2>1, <2>3
    <2> QED BY <1>k, <2>1, <2>4, <2>5
  <1>10. ASSUME NEW h \in handlers, Talk!RunTool(h) PROVE Talk!Connected'
    <2>1. UNCHANGED <<vendor, entry, objs, answered, mute>> /\ h.at = "usage" /\ h.ev = "called"
          /\ ran' = [ran EXCEPT ![h.r] = @ + 1]
      BY <1>10 DEF Talk!RunTool
    <2>2. PICK m \in Talk!HandlerKind : /\ m.ev = "called" /\ m.r = h.r /\ m.at = "answering"
                                        /\ handlers' = (handlers \ {h}) \cup {m}
      BY <1>10, <2>1, MoveGoesOn DEF Talk!RunTool, GoesOn
    <2>3. \A r \in Talk!Responses : Sent(r) => Sent(r)' BY <2>1, <2>2
    <2>4. \A r \in Talk!Responses : r # h.r => ran'[r] = ran[r] BY <1>s, <2>1
    <2>5. Sent(h.r)' BY <2>2
    <2>6. Talk!Closed' = Talk!Closed BY <1>s, <2>1
    <2>7. ASSUME NEW r \in Talk!Responses, vendor' = "openai", ran'[r] > 0, ~Talk!Closed' PROVE Sent(r)'
      <3>1. CASE r = h.r BY <2>5, <3>1
      <3>2. CASE r # h.r
        <4>1. ran[r] > 0 BY <2>4, <2>7, <3>2
        <4> QED BY <1>i, <2>1, <2>3, <2>6, <2>7, <4>1
      <3> QED BY <3>1, <3>2
    <2>8. ~Talk!Closed' => objs'[1].conn /\ objs'[entry'].conn BY <1>i, <2>1, <2>6
    <2> QED BY <2>7, <2>8 DEF Talk!Connected
  <1>11. ASSUME NEW h \in handlers, Talk!Respond(h) PROVE Talk!Connected'
    <2>1. UNCHANGED <<vendor, entry, objs, ran>> /\ h.at = "answering" /\ h.ev = "called"
      BY <1>11 DEF Talk!Respond, Talk!Happened
    <2>2. ~Talk!Closed => h.r \in answered' \cup mute'
      <3>1. ~Talk!Closed => objs[h.obj].conn
        <4>1. h.obj \in {1, 2} /\ (entry = 1 => h.obj = 1) BY DEF Talk!Happened
        <4>2. CASE ~Talk!Closed /\ entry = 1 BY <1>i, <4>1, <4>2
        <4>3. CASE ~Talk!Closed /\ entry = 2 BY <1>i, <4>1, <4>3
        <4> QED BY <1>t, <4>2, <4>3
      <3> QED BY <1>11, <3>1 DEF Talk!Respond
    <2>3. answered \subseteq answered' /\ mute \subseteq mute' /\ handlers \ {h} \subseteq handlers' BY <1>11
         DEF Talk!Respond, Talk!Move
    <2>4. CASE Talk!Closed BY <1>s, <2>1, <2>4 DEF Talk!Connected
    <2>5. CASE ~Talk!Closed BY <1>i, <1>k, <1>s, <2>1, <2>2, <2>3, <2>5
    <2> QED BY <2>4, <2>5
  <1>12. ASSUME NEW h \in handlers, Talk!Finish(h) PROVE Talk!Connected'
    <2>1. UNCHANGED <<vendor, objs, ran, answered, mute>> /\ handlers' = handlers \ {h}
          /\ ~(h.ev = "called" /\ h.at = "answering")
      BY <1>12 DEF Talk!Finish, Talk!Leave
    <2>2. ~Talk!Closed' => ~Talk!Closed /\ entry' = entry BY <1>12, <1>s DEF Talk!Finish,
         Talk!Refresh
    <2> QED BY <1>i, <1>k, <1>s, <2>1, <2>2
  <1> QED BY <1>1, <1>2, <1>3, <1>4, <1>5, <1>6, <1>7, <1>8, <1>9, <1>10, <1>11, <1>12
          DEF Talk!Next, Talk!Close, Talk!HandleExpired

LEMMA UnheardStep ==
  ASSUME Talk!TypeOK, Talk!Happened, Talk!InBuffer, Talk!Unheard, Talk!Next
  PROVE  Talk!Unheard'
  <1>1. ASSUME NEW r \in Talk!Responses, Talk!PlayDelta(r) PROVE Talk!Unheard'
    <2>1. r \in overtaken BY <1>1 DEF Talk!PlayDelta, Talk!InBuffer
    <2> QED BY <1>1, <2>1 DEF Talk!Unheard, Talk!PlayDelta
  <1>2. ASSUME played' = played, overtaken \subseteq overtaken' PROVE Talk!Unheard' BY <1>2 DEF Talk!Unheard
  <1>3. ASSUME NEW r \in Talk!Responses,
               Talk!Create(r) \/ Talk!Announce(r) \/ Talk!Word(r) \/ Talk!TextDone(r) \/ \E calls \in BOOLEAN : Talk!Done(r, calls)
        PROVE  Talk!Unheard'
    BY <1>2, <1>3, OvertakenGrows DEF Talk!Create, Talk!Announce, Talk!Word,
         Talk!TextDone, Talk!Done
  <1>4. CASE Talk!Committed \/ Talk!Expire \/ Talk!Greet \/ Talk!Close
    BY <1>2, <1>4 DEF Talk!Committed, Talk!Expire, Talk!Greet, Talk!Close, Talk!Hangup
  <1>5. ASSUME NEW h \in handlers, Talk!HandleCreated(h) \/ Talk!HandleMuted(h) PROVE Talk!Unheard'
    BY <1>2, <1>5, OvertakenGrows DEF Talk!HandleCreated, Talk!HandleMuted
  <1>6. ASSUME NEW h \in handlers,
               \/ Talk!HandleText(h) \/ Talk!Empty(h) \/ Talk!RunTool(h) \/ Talk!Respond(h) \/ Talk!Finish(h) \/ Talk!HandleExpired(h)
        PROVE  Talk!Unheard'
    BY <1>2, <1>6 DEF Talk!HandleText, Talk!Empty, Talk!RunTool, Talk!Respond,
         Talk!Finish, Talk!HandleExpired, Talk!Hangup
  <1> QED BY <1>1, <1>3, <1>4, <1>5, <1>6 DEF Talk!Next

LEMMA UndisturbedStep ==
  ASSUME Talk!ModelEventsConstants, Talk!TypeOK, Talk!InTurn, Talk!Happened, Talk!Undisturbed, Talk!Next
  PROVE  Talk!Undisturbed'
  <1> DEFINE Clear(r, h) == /\ h.ev = "created" /\ h.at = "logging" => h.r > r
                            /\ h.ev \in {"done", "called"} /\ h.at \in {"logging", "emptying"} => h.r >= r
  <1>s. /\ said \in [Talk!Responses -> {"none", "created", "announced", "worded", "told", "done"}]
        /\ handlers \subseteq Talk!HandlerKind /\ Talk!Responses \subseteq Nat
        /\ \A h \in handlers : h.r \in Nat
    BY DEF Talk!TypeOK, Talk!Responses, Talk!HandlerKind, Talk!ModelEventsConstants
  <1>i. \A r \in Talk!Responses \ overtaken : Talk!Buffered(r) => \A h \in handlers : Clear(r, h)
    BY DEF Talk!Undisturbed
  <1>k. ASSUME overtaken \subseteq overtaken',
               \A r \in Talk!Responses \ overtaken' : Talk!Buffered(r)' => Talk!Buffered(r),
               \A h \in handlers' : h \in handlers \/ \A r \in Talk!Responses \ overtaken' :
                                                         Talk!Buffered(r) /\ (\A g \in handlers : Clear(r, g)) => Clear(r, h)
        PROVE  Talk!Undisturbed'
    BY <1>i, <1>k DEF Talk!Undisturbed
  <1>1. ASSUME NEW q \in Talk!Responses, Talk!Create(q) PROVE Talk!Undisturbed'
    <2>1. PICK m \in Talk!HandlerKind : /\ m.ev = "created" /\ m.r = q /\ m.at = "logging"
                                        /\ handlers' = handlers \cup {m}
      BY <1>1, EventsCome DEF Comes, Talk!TextDone, Talk!Done, Talk!Create
    <2>2. \A r \in Talk!Responses : Talk!Buffered(r) => q > r
      <3>1. said[q] = "none" BY <1>1 DEF Talk!Create
      <3>2. \A r \in Talk!Responses : Talk!Buffered(r) => said[r] # "none" BY DEF Talk!Buffered, Talk!InTurn
      <3>3. \A r \in Talk!Responses : said[r] # "none" => ~(q < r) /\ q # r BY <3>1
           DEF Talk!InTurn
      <3> QED BY <1>s, <3>2, <3>3
    <2>3. \A r \in Talk!Responses : Talk!Buffered(r)' => Talk!Buffered(r) BY <1>s,
         <1>1 DEF Talk!Create, Talk!Buffered
    <2>4. overtaken' = overtaken BY <1>1 DEF Talk!Create
    <2> QED BY <1>k, <2>1, <2>2, <2>3, <2>4
  <1>2. ASSUME NEW q \in Talk!Responses, Talk!Announce(q) PROVE Talk!Undisturbed'
    <2>1. overtaken' = Talk!Overtaken("delta", q) /\ overtaken \subseteq overtaken' /\ handlers' = handlers
          /\ said[q] = "created" /\ said' = [said EXCEPT ![q] = "announced"] /\ cut' = cut
      BY <1>2, OvertakenGrows DEF Talk!Announce
    <2>2. q \in overtaken' \/ \A h \in handlers : Clear(q, h)
      <3>1. ASSUME q \notin overtaken', NEW h \in handlers PROVE Clear(q, h)
        <4>1. ~Talk!Before(h, "delta", q) BY <2>1, <3>1 DEF Talk!Overtaken
        <4>2. h.ev = "created" => ~(q < h.r)
          <5>1. h.ev = "created" => h.r \in Talk!Responses /\ said[h.r] # "none" BY DEF Talk!Happened
          <5> QED BY <2>1, <5>1 DEF Talk!InTurn
        <4>3. h.ev = "called" => FALSE
          <5>1. vendor = "yandex" BY <1>2 DEF Talk!Announce
          <5> QED BY <5>1 DEF Talk!Happened
        <4>4. h.ev = "done" /\ h.at \in {"logging", "emptying"} => ~(h.r < q) BY <4>1
             DEF Talk!Before
        <4>5. h.ev = "created" /\ h.at = "logging" => ~(h.r < q) /\ h.r # q BY <4>1
             DEF Talk!Before
        <4> QED BY <1>s, <4>2, <4>3, <4>4, <4>5
      <3> QED BY <3>1
    <2>3. \A r \in Talk!Responses : r # q => (Talk!Buffered(r)' => Talk!Buffered(r)) BY <1>s, <2>1 DEF Talk!Buffered
    <2> QED BY <1>i, <2>1, <2>2, <2>3 DEF Talk!Undisturbed
  <1>3. ASSUME NEW q \in Talk!Responses, Talk!Word(q) PROVE Talk!Undisturbed'
    <2>1. overtaken \subseteq overtaken' /\ handlers' = handlers BY <1>3,
         OvertakenGrows DEF Talk!Word
    <2>2. \A r \in Talk!Responses : Talk!Buffered(r)' => Talk!Buffered(r) BY <1>s,
         <1>3 DEF Talk!Word, Talk!Buffered
    <2> QED BY <1>k, <2>1, <2>2
  <1>4. ASSUME NEW q \in Talk!Responses, Talk!TextDone(q) PROVE Talk!Undisturbed'
    <2>1. PICK m \in Talk!HandlerKind : m.ev = "text" /\ handlers' = handlers \cup {m}
      <3>1. Comes("text", q) BY <1>4, EventComes DEF Talk!TextDone, Talk!Responses, Talk!ModelEventsConstants
      <3> QED BY <3>1 DEF Comes
    <2>2. \A r \in Talk!Responses : Talk!Buffered(r)' => Talk!Buffered(r) BY <1>s,
         <1>4 DEF Talk!TextDone, Talk!Buffered
    <2>3. overtaken' = overtaken BY <1>4 DEF Talk!TextDone
    <2> QED BY <1>k, <2>1, <2>2, <2>3
  <1>5. ASSUME NEW q \in Talk!Responses, NEW calls \in BOOLEAN, Talk!Done(q, calls) PROVE Talk!Undisturbed'
    <2>1. PICK m \in Talk!HandlerKind : /\ m.ev \in {"done", "called"} /\ m.r = q
                                        /\ handlers' = handlers \cup {m}
      <3>1. Talk!Event(IF calls THEN "called" ELSE "done", q) /\ ~Talk!Closed /\ q \in 0 .. MaxResponses
        BY <1>5 DEF Talk!Done, Talk!Responses, Talk!ModelEventsConstants
      <3>2. CASE calls = TRUE
        <4>1. Comes("called", q) BY <3>1, <3>2, EventComes
        <4> QED BY <4>1 DEF Comes
      <3>3. CASE calls = FALSE
        <4>1. Comes("done", q) BY <3>1, <3>3, EventComes
        <4> QED BY <4>1 DEF Comes
      <3> QED BY <3>2, <3>3
    <2>2. said[q] # "done" /\ overtaken' = overtaken /\ said' = [said EXCEPT ![q] = "done"]
          /\ (\A r \in cut' : r \in cut \/ (r = q /\ said[q] = "worded"))
      <3>1. cut' = IF said[q] = "worded" THEN cut \cup {q} ELSE cut BY <1>5 DEF Talk!Done
      <3>2. \A r \in cut' : r \in cut \/ (r = q /\ said[q] = "worded") BY <3>1
      <3> QED BY <1>5, <3>2 DEF Talk!Done
    <2>3. \A r \in Talk!Responses : Talk!Buffered(r)' => Talk!Buffered(r) BY <1>s,
         <2>2 DEF Talk!Buffered
    <2>4. \A r \in Talk!Responses : Talk!Buffered(r) => ~(q < r)
      <3>1. \A r \in Talk!Responses : Talk!Buffered(r) => said[r] # "none" BY DEF Talk!Buffered, Talk!InTurn
      <3> QED BY <2>2, <3>1 DEF Talk!InTurn
    <2>5. \A r \in Talk!Responses : Talk!Buffered(r) => Clear(r, m) BY <1>s, <2>1, <2>4
    <2> QED BY <1>k, <2>1, <2>2, <2>3, <2>5
  <1>6. CASE Talk!Committed \/ Talk!Expire
    <2>1. Comes("committed", 0) \/ Comes("expired", 0)
      <3>1. CASE Talk!Committed BY <3>1, EventComes DEF Talk!Committed,
           Talk!ModelEventsConstants
      <3>2. CASE Talk!Expire BY <3>2, EventComes DEF Talk!Expire, Talk!ModelEventsConstants
      <3> QED BY <1>6, <3>1, <3>2
    <2>2. PICK m \in Talk!HandlerKind : m.ev \in {"committed", "expired"} /\ handlers' = handlers \cup {m}
      BY <2>1 DEF Comes
    <2>3. UNCHANGED <<said, cut, overtaken>> BY <1>6 DEF Talk!Committed, Talk!Expire
    <2>4. \A r \in Talk!Responses : Talk!Buffered(r)' => Talk!Buffered(r) BY <2>3
         DEF Talk!Buffered
    <2> QED BY <1>k, <2>2, <2>3, <2>4
  <1>7. ASSUME Talk!Greet \/ Talk!Close \/ \E r \in Talk!Responses : Talk!PlayDelta(r) PROVE Talk!Undisturbed'
    <2>1. UNCHANGED <<said, cut, handlers>> /\ overtaken \subseteq overtaken'
      BY <1>7 DEF Talk!Greet, Talk!Close, Talk!Hangup, Talk!PlayDelta
    <2>2. \A r \in Talk!Responses : Talk!Buffered(r)' => Talk!Buffered(r) BY <2>1
         DEF Talk!Buffered
    <2> QED BY <1>k, <2>1, <2>2
  <1>8. ASSUME NEW h \in handlers,
               \/ Talk!HandleCreated(h) \/ Talk!HandleText(h) \/ Talk!HandleMuted(h) \/ Talk!Empty(h)
               \/ Talk!RunTool(h) \/ Talk!Respond(h) \/ Talk!Finish(h) \/ Talk!HandleExpired(h)
        PROVE  Talk!Undisturbed'
    <2>1. UNCHANGED <<said, cut>>
      BY <1>8 DEF Talk!HandleCreated, Talk!HandleText, Talk!HandleMuted, Talk!Empty,
           Talk!RunTool, Talk!Respond, Talk!Finish, Talk!HandleExpired, Talk!Hangup
    <2>2. overtaken \subseteq overtaken'
      BY <1>8, OvertakenGrows
         DEF Talk!HandleCreated, Talk!HandleText, Talk!HandleMuted, Talk!Empty,
              Talk!RunTool, Talk!Respond, Talk!Finish, Talk!HandleExpired, Talk!Hangup
    <2>3. \A r \in Talk!Responses : Talk!Buffered(r)' => Talk!Buffered(r) BY <2>1
         DEF Talk!Buffered
    <2>4. CASE handlers' = handlers \ {h} BY <1>k, <2>2, <2>3, <2>4
    <2>5. ASSUME NEW at \in {"emptying", "usage", "answering", "refreshing"}, GoesOn(h, at),
                 at = "emptying" => h.at = "logging"
          PROVE  Talk!Undisturbed'
      <3>1. PICK m \in Talk!HandlerKind : /\ m.ev = h.ev /\ m.r = h.r /\ m.at = at
                                          /\ handlers' = (handlers \ {h}) \cup {m}
        BY <2>5 DEF GoesOn
      <3>2. \A r \in Talk!Responses : Clear(r, h) => Clear(r, m) BY <2>5, <3>1
      <3> QED BY <1>k, <2>2, <2>3, <3>1, <3>2
    <2>6. Talk!HandleMuted(h) => h.at = "logging" BY DEF Talk!HandleMuted
    <2> QED BY <1>8, <2>4, <2>5, <2>6, HandlersGo
  <1> QED BY <1>1, <1>2, <1>3, <1>4, <1>5, <1>6, <1>7, <1>8 DEF Talk!Next

\* Who resets the buffer, or runs its tools, while a response is still writing into it, has
\* overtaken it.
LEMMA NoneLate ==
  ASSUME Talk!ModelEventsConstants, Talk!TypeOK, Talk!InTurn, Talk!Happened, Talk!Undisturbed,
         NEW r \in Talk!Responses \ overtaken, said[r] \in {"announced", "worded"}, NEW h \in handlers,
         \/ h.ev = "created" /\ h.at = "logging"
         \/ h.ev \in {"done", "called"} /\ h.at \in {"logging", "emptying"}
  PROVE  FALSE
  <1>1. h.r \in Talk!Responses /\ said[h.r] # "none" /\ (h.ev \in {"done", "called"} => said[h.r] = "done")
    BY DEF Talk!Happened
  <1>2. ~(r < h.r) BY <1>1 DEF Talk!InTurn
  <1>3. h.r > r \/ (h.ev \in {"done", "called"} /\ h.r >= r) BY DEF Talk!Undisturbed,
       Talk!Buffered
  <1>4. r \in Nat /\ h.r \in Nat BY <1>1 DEF Talk!Responses, Talk!ModelEventsConstants
  <1>5. h.r = r /\ h.ev \in {"done", "called"} BY <1>2, <1>3, <1>4
  <1> QED BY <1>1, <1>5

LEMMA InBufferStep ==
  ASSUME Talk!ModelEventsConstants, Talk!TypeOK, Talk!InTurn, Talk!Happened, Talk!Undisturbed, Talk!InBuffer, Talk!Next
  PROVE  Talk!InBuffer'
  <1> DEFINE Early == {"none", "created", "announced", "worded"}
             Writing == {"announced", "worded"}
             Alone(r) == /\ objs[entry].muted /\ r \in objs[entry].text
                         /\ said[r] = "worded" => r \in objs[entry].whole
                         /\ \A o \in Talk!Objects : r \in objs[o].text => o = entry
             Nested == \A o \in Talk!Objects : objs[o].whole \subseteq objs[o].text
             Begun  == \A o \in Talk!Objects : \A r \in objs[o].text : said[r] \notin {"none", "created"}
             Quiet  == vendor = "openai" => \A o \in Talk!Objects : objs[o].text = {}
             NotRun == \A r \in Talk!Responses \ overtaken : said[r] \in Early => ran[r] = 0
             Written == \A r \in Talk!Responses \ overtaken : said[r] \in Writing /\ ~Talk!Closed => Alone(r)
  <1>i. Nested /\ Begun /\ Quiet /\ NotRun /\ Written BY DEF Talk!InBuffer
  <1>s. /\ said \in [Talk!Responses -> {"none", "created", "announced", "worded", "told", "done"}]
        /\ handlers \subseteq Talk!HandlerKind /\ ran \in [Talk!Responses -> Nat] /\ Talk!Responses \subseteq Nat
        /\ objs \in [Talk!Objects -> Talk!ObjectKind] /\ Talk!Objects = {1, 2, 3}
    BY DEF Talk!TypeOK, Talk!Objects, Talk!Responses, Talk!ModelEventsConstants
  <1>o. \A o \in Talk!Objects : objs[o].text \subseteq Talk!Responses BY <1>s
       DEF Talk!ObjectKind
  <1>t. /\ ~Talk!Closed => entry \in Talk!Objects
        /\ entry' = entry => Talk!Closed' = Talk!Closed
        /\ entry' = 3 => Talk!Closed'
        /\ entry = 1 => ~Talk!Closed
    BY DEF Talk!TypeOK, Talk!Closed, Talk!Objects
  <1>g. SUFFICES Nested' /\ Begun' /\ Quiet' /\ NotRun' /\ Written' BY DEF Talk!InBuffer
  \* A step that leaves the buffers as they are.
  <1>k. ASSUME \A o \in Talk!Objects : /\ objs'[o].text = objs[o].text /\ objs'[o].whole = objs[o].whole
                                       /\ objs'[o].muted = objs[o].muted,
               vendor' = vendor, entry' = entry \/ Talk!Closed', overtaken' = overtaken,
               \A r \in Talk!Responses : /\ said[r] \notin {"none", "created"} => said'[r] \notin {"none", "created"}
                                         /\ said'[r] \in Early => said[r] \in Early /\ ran'[r] = ran[r]
                                         /\ said'[r] \in Writing => said'[r] = said[r]
        PROVE  Nested' /\ Begun' /\ Quiet' /\ NotRun' /\ Written'
    <2>1. Nested' BY <1>i, <1>k
    <2>2. Begun' BY <1>i, <1>o, <1>s, <1>k
    <2>3. Quiet' BY <1>i, <1>k
    <2>4. NotRun' BY <1>i, <1>k
    <2>5. Written'
      <3>1. SUFFICES ASSUME NEW r \in Talk!Responses \ overtaken', said'[r] \in Writing, ~Talk!Closed' PROVE Alone(r)'
        OBVIOUS
      <3>2. entry' = entry /\ ~Talk!Closed /\ entry \in Talk!Objects /\ said'[r] = said[r] BY <1>k, <1>t, <3>1
      <3>3. Alone(r) BY <1>i, <1>k, <3>1, <3>2
      <3> QED BY <1>k, <3>2, <3>3
    <2> QED BY <2>1, <2>2, <2>3, <2>4, <2>5
  \* A step that empties one, when nobody writes that has not been overtaken.
  <1>e. ASSUME NEW b \in Talk!Objects, Reset(b), UNCHANGED <<vendor, said, ran>>, overtaken \subseteq overtaken',
               \A r \in Talk!Responses \ overtaken' : said[r] \notin Writing
        PROVE  Nested' /\ Begun' /\ Quiet' /\ NotRun' /\ Written'
    <2>1. \A o \in Talk!Objects : (objs'[o].text = objs[o].text /\ objs'[o].whole = objs[o].whole)
                           \/ (objs'[o].text = {} /\ objs'[o].whole = {})
      BY <1>e DEF Reset
    <2>2. Nested' BY <1>i, <2>1
    <2>3. Begun' BY <1>i, <1>e, <2>1
    <2>4. Quiet' BY <1>i, <1>e, <2>1
    <2>5. NotRun' /\ Written' BY <1>i, <1>e
    <2> QED BY <2>2, <2>3, <2>4, <2>5
  <1>1. ASSUME NEW q \in Talk!Responses, Talk!Create(q) PROVE Nested' /\ Begun' /\ Quiet' /\ NotRun' /\ Written'
    <2>1. UNCHANGED <<objs, vendor, entry, overtaken, ran>> /\ said[q] = "none"
          /\ said' = [said EXCEPT ![q] = "created"]
      BY <1>1 DEF Talk!Create
    <2> QED BY <1>k, <1>s, <2>1
  <1>2. ASSUME NEW q \in Talk!Responses, Talk!Announce(q) PROVE Nested' /\ Begun' /\ Quiet' /\ NotRun' /\ Written'
    <2>1. vendor = "yandex" /\ vendor' = vendor /\ ~Talk!Closed /\ entry' = entry /\ ran' = ran
          /\ said[q] = "created" /\ said' = [said EXCEPT ![q] = "announced"]
      BY <1>2 DEF Talk!Announce
    <2>2. overtaken \subseteq overtaken' BY <1>2, OvertakenGrows DEF Talk!Announce
    <2>3. /\ entry \in Talk!Objects /\ objs'[entry].muted
          /\ \A o \in Talk!Objects : objs'[o].whole = objs[o].whole
          /\ \A o \in Talk!Objects : objs'[o].text = IF o = entry THEN objs[o].text \cup {q} ELSE objs[o].text
      BY <1>2, Announced
    <2>4. Nested' BY <1>i, <2>3
    <2>5. Begun'
      <3>1. \A o \in Talk!Objects : \A r \in objs'[o].text : r = q \/ r \in objs[o].text BY <2>3
      <3> QED BY <1>i, <1>o, <1>s, <2>1, <3>1
    <2>6. Quiet' BY <2>1
    <2>7. NotRun' BY <1>i, <1>s, <2>1, <2>2
    <2>8. \A r \in Talk!Responses : r # q => said'[r] \in {"none", "done"}
      <3>1. \A r \in Talk!Responses : r < q => said[r] = "done" BY <2>1 DEF Talk!InTurn
      <3>2. \A r \in Talk!Responses : q < r => said[r] = "none" BY <2>1 DEF Talk!InTurn
      <3> QED BY <1>s, <2>1, <3>1, <3>2
    <2>9. Alone(q)'
      <3>1. \A o \in Talk!Objects : q \notin objs[o].text BY <1>i, <2>1
      <3>2. said'[q] = "announced" BY <1>s, <2>1
      <3> QED BY <2>1, <2>3, <3>1, <3>2
    <2>10. Written' BY <2>8, <2>9
    <2> QED BY <2>4, <2>5, <2>6, <2>7, <2>10
  <1>3. ASSUME NEW q \in Talk!Responses, Talk!Word(q) PROVE Nested' /\ Begun' /\ Quiet' /\ NotRun' /\ Written'
    <2>1. vendor' = vendor /\ ~Talk!Closed /\ entry' = entry /\ ran' = ran
          /\ said[q] = "announced" /\ said' = [said EXCEPT ![q] = "worded"]
      BY <1>3 DEF Talk!Word
    <2>2. overtaken \subseteq overtaken' BY <1>3, OvertakenGrows DEF Talk!Word
    <2>3. /\ entry \in Talk!Objects
          /\ \A o \in Talk!Objects : objs'[o].text = objs[o].text /\ objs'[o].muted = objs[o].muted
          /\ \A o \in Talk!Objects : objs'[o].whole = IF o = entry THEN objs[o].whole \cup ({q} \cap objs[o].text)
                                               ELSE objs[o].whole
      BY <1>3, Worded
    <2>4. Nested' BY <1>i, <2>3
    <2>5. Begun' BY <1>i, <1>o, <1>s, <2>1, <2>3
    <2>6. Quiet' BY <1>i, <2>1, <2>3
    <2>7. NotRun' BY <1>i, <1>s, <2>1, <2>2
    <2>8. Written'
      <3>1. SUFFICES ASSUME NEW r \in Talk!Responses \ overtaken', said'[r] \in Writing PROVE Alone(r)' OBVIOUS
      <3>2. Alone(r) BY <1>i, <1>s, <2>1, <2>2, <3>1
      <3>3. r # q => said'[r] = said[r] BY <1>s, <2>1
      <3> QED BY <2>1, <2>3, <3>2, <3>3
    <2> QED BY <2>4, <2>5, <2>6, <2>7, <2>8
  <1>4. ASSUME NEW q \in Talk!Responses, Talk!PlayDelta(q) PROVE Nested' /\ Begun' /\ Quiet' /\ NotRun' /\ Written'
    BY <1>k, <1>4 DEF Talk!PlayDelta
  <1>5. ASSUME NEW q \in Talk!Responses, Talk!TextDone(q) PROVE Nested' /\ Begun' /\ Quiet' /\ NotRun' /\ Written'
    <2>1. UNCHANGED <<objs, vendor, entry, overtaken, ran>> /\ said[q] = "worded"
          /\ said' = [said EXCEPT ![q] = "told"]
      BY <1>5 DEF Talk!TextDone
    <2> QED BY <1>k, <1>s, <2>1
  <1>6. ASSUME NEW q \in Talk!Responses, NEW calls \in BOOLEAN, Talk!Done(q, calls)
        PROVE  Nested' /\ Begun' /\ Quiet' /\ NotRun' /\ Written'
    <2>1. UNCHANGED <<objs, vendor, entry, overtaken, ran>> /\ said' = [said EXCEPT ![q] = "done"]
      BY <1>6 DEF Talk!Done
    <2> QED BY <1>k, <1>s, <2>1
  <1>7. CASE Talk!Committed \/ Talk!Expire BY <1>k, <1>7 DEF Talk!Committed, Talk!Expire
  <1>8. CASE Talk!Greet
    <2>1. UNCHANGED <<vendor, said, ran>> /\ overtaken' = overtaken \cup objs[1].text BY <1>8
         DEF Talk!Greet
    <2>2. entry = 1 /\ \A o \in Talk!Objects : objs'[o] = IF o = 2 THEN objs[1] ELSE objs[o] BY <1>8, Greeted
    <2>3. Nested' BY <1>i, <1>s, <2>2
    <2>4. Begun' BY <1>i, <1>s, <2>1, <2>2
    <2>5. Quiet' BY <1>i, <1>s, <2>1, <2>2
    <2>6. NotRun' BY <1>i, <2>1
    <2>7. Written'
      <3>1. ASSUME NEW r \in Talk!Responses \ overtaken', said'[r] \in Writing PROVE FALSE
        <4>1. ~Talk!Closed BY <1>t, <2>2
        <4>2. r \in objs[1].text BY <1>i, <2>1, <2>2, <3>1, <4>1
        <4> QED BY <2>1, <3>1, <4>2
      <3> QED BY <3>1
    <2> QED BY <2>3, <2>4, <2>5, <2>6, <2>7
  <1>9. ASSUME Talk!Hangup PROVE Nested' /\ Begun' /\ Quiet' /\ NotRun' /\ Written'
    <2>1. UNCHANGED <<vendor, said, ran, overtaken>> BY <1>9 DEF Talk!Hangup
    <2>2. Talk!Closed' BY <1>9 DEF Talk!Hangup, Talk!Closed
    <2> QED BY <1>k, <1>s, <1>9, <2>1, <2>2, HungUp
  <1>10. ASSUME NEW h \in handlers, Talk!HandleCreated(h) \/ Talk!Empty(h)
         PROVE  Nested' /\ Begun' /\ Quiet' /\ NotRun' /\ Written'
    <2>1. Reset(h.obj) /\ h.obj \in Talk!Objects
      <3>1. h.obj \in Talk!Objects BY <1>s DEF Talk!HandlerKind
      <3> QED BY <1>10, <3>1, ResetIs DEF Talk!HandleCreated, Talk!Empty
    <2>2. UNCHANGED <<vendor, said, ran>> BY <1>10 DEF Talk!HandleCreated, Talk!Empty
    <2>3. overtaken \subseteq overtaken' BY <1>10, OvertakenGrows DEF Talk!HandleCreated,
         Talk!Empty
    <2>4. \/ h.ev = "created" /\ h.at = "logging"
          \/ h.ev \in {"done", "called"} /\ h.at \in {"logging", "emptying"}
      BY <1>10 DEF Talk!HandleCreated, Talk!Empty, Talk!Happened
    <2>5. \A r \in Talk!Responses \ overtaken : said[r] \notin Writing BY <2>4, NoneLate
    <2> QED BY <1>e, <2>1, <2>2, <2>3, <2>5
  <1>11. ASSUME NEW h \in handlers, Talk!HandleText(h) \/ Talk!RunTool(h)
         PROVE  Nested' /\ Begun' /\ Quiet' /\ NotRun' /\ Written'
    <2>1. UNCHANGED <<objs, vendor, entry, overtaken, said>> /\ ran' = [ran EXCEPT ![h.r] = @ + 1]
      BY <1>11 DEF Talk!HandleText, Talk!RunTool
    <2>2. \A r \in Talk!Responses : said[r] \in Early => r # h.r BY <1>11
         DEF Talk!HandleText, Talk!RunTool, Talk!Happened
    <2> QED BY <1>k, <1>s, <2>1, <2>2
  <1>12. ASSUME NEW h \in handlers, Talk!HandleMuted(h)
         PROVE  Nested' /\ Begun' /\ Quiet' /\ NotRun' /\ Written'
    <2>1. UNCHANGED <<objs, vendor, entry, said>> /\ overtaken \subseteq overtaken'
          /\ h.ev \in {"done", "called"} /\ h.at = "logging"
      BY <1>12, OvertakenGrows DEF Talk!HandleMuted
    <2>2. \A r \in Talk!Responses \ overtaken : said[r] \notin Writing BY <2>1, NoneLate
    <2>3. \A r \in Talk!Responses : said[r] \in {"none", "created"} => ran'[r] = ran[r]
      <3>1. h.obj \in Talk!Objects BY <1>s DEF Talk!HandlerKind
      <3>2. \A r \in Talk!Responses : said[r] \in {"none", "created"} => r \notin objs[h.obj].whole BY <1>i, <3>1
      <3> QED BY <1>s, <1>12, <3>2 DEF Talk!HandleMuted
    <2>4. NotRun' BY <1>i, <2>1, <2>2, <2>3
    <2>5. Written' BY <2>1, <2>2
    <2>6. Nested' /\ Begun' /\ Quiet' BY <1>i, <2>1
    <2> QED BY <2>4, <2>5, <2>6
  <1>13. ASSUME NEW h \in handlers, Talk!Respond(h) \/ Talk!Finish(h)
         PROVE  Nested' /\ Begun' /\ Quiet' /\ NotRun' /\ Written'
    <2>1. UNCHANGED <<objs, vendor, overtaken, said, ran>> /\ (entry' = entry \/ entry' = 3)
      BY <1>13 DEF Talk!Respond, Talk!Finish, Talk!Refresh
    <2> QED BY <1>k, <1>t, <2>1
  <1> QED BY <1>1, <1>2, <1>3, <1>4, <1>5, <1>6, <1>7, <1>8, <1>9, <1>10, <1>11, <1>12, <1>13
          DEF Talk!Next, Talk!Close, Talk!HandleExpired

LEMMA CancelledStep ==
  ASSUME Talk!ModelEventsConstants, Talk!TypeOK, Talk!InTurn, Talk!Happened, Talk!Undisturbed, Talk!InBuffer, Talk!Cancelled, Talk!Next
  PROVE  Talk!Cancelled'
  <1>s. /\ said \in [Talk!Responses -> {"none", "created", "announced", "worded", "told", "done"}]
        /\ handlers \subseteq Talk!HandlerKind /\ ran \in [Talk!Responses -> Nat] /\ Talk!Responses \subseteq Nat
        /\ objs \in [Talk!Objects -> Talk!ObjectKind] /\ Talk!Objects = {1, 2, 3} /\ cut \subseteq Talk!Responses
    BY DEF Talk!TypeOK, Talk!Objects, Talk!Responses, Talk!ModelEventsConstants
  <1>d. \A r \in cut : said[r] = "done" BY DEF Talk!InTurn
  \* A step that leaves alone what is known of one response.
  <1>k. ASSUME NEW r \in cut \ overtaken, ran'[r] = ran[r],
               \A o \in Talk!Objects : /\ r \in objs'[o].whole <=> r \in objs[o].whole
                                       /\ objs[o].muted => objs'[o].muted,
               \A g \in handlers : g.ev = "done" /\ g.at \in {"logging", "emptying"} => g \in handlers',
               \A g \in handlers' : g.at = "emptying" => g \in handlers
        PROVE  Talk!HasRun(r)' \/ \E h \in handlers' : Talk!Waits(r, h)'
    <2>1. Talk!HasRun(r) => Talk!HasRun(r)' BY <1>k DEF Talk!HasRun
    <2>2. ASSUME NEW h \in handlers, Talk!Waits(r, h) PROVE h \in handlers' /\ Talk!Waits(r, h)'
      <3>1. h \in handlers' /\ h.obj \in Talk!Objects BY <1>k, <1>s, <2>2 DEF Talk!Waits,
           Talk!HandlerKind
      <3> QED BY <1>k, <2>2, <3>1 DEF Talk!Waits
    <2> QED BY <2>1, <2>2 DEF Talk!Cancelled
  <1>1. ASSUME NEW q \in Talk!Responses, Talk!Create(q) \/ Talk!TextDone(q) PROVE Talk!Cancelled'
    <2>1. UNCHANGED <<objs, ran, overtaken, cut>> BY <1>1 DEF Talk!Create, Talk!TextDone
    <2>2. \E m \in Talk!HandlerKind : m.at = "logging" /\ handlers' = handlers \cup {m}
      BY <1>1, EventsCome DEF Comes
    <2> QED BY <1>k, <2>1, <2>2 DEF Talk!Cancelled
  <1>2. CASE Talk!Committed \/ Talk!Expire
    <2>1. UNCHANGED <<objs, ran, overtaken, cut>> BY <1>2 DEF Talk!Committed, Talk!Expire
    <2>2. Comes("committed", 0) \/ Comes("expired", 0)
      <3>1. CASE Talk!Committed BY <3>1, EventComes DEF Talk!Committed,
           Talk!ModelEventsConstants
      <3>2. CASE Talk!Expire BY <3>2, EventComes DEF Talk!Expire, Talk!ModelEventsConstants
      <3> QED BY <1>2, <3>1, <3>2
    <2>3. \E m \in Talk!HandlerKind : m.at = "logging" /\ handlers' = handlers \cup {m} BY <2>2 DEF Comes
    <2> QED BY <1>k, <2>1, <2>3 DEF Talk!Cancelled
  <1>3. ASSUME NEW q \in Talk!Responses, Talk!Announce(q) \/ Talk!PlayDelta(q) PROVE Talk!Cancelled'
    <2>1. UNCHANGED <<ran, cut, handlers>> /\ overtaken \subseteq overtaken'
      BY <1>3, OvertakenGrows DEF Talk!Announce, Talk!PlayDelta
    <2>2. \A o \in Talk!Objects : objs'[o].whole = objs[o].whole /\ (objs[o].muted => objs'[o].muted)
      BY <1>3, Announced DEF Talk!PlayDelta
    <2> QED BY <1>k, <2>1, <2>2 DEF Talk!Cancelled
  <1>4. ASSUME NEW q \in Talk!Responses, Talk!Word(q) PROVE Talk!Cancelled'
    <2>1. UNCHANGED <<ran, cut, handlers>> /\ overtaken \subseteq overtaken' /\ said[q] = "announced"
      BY <1>4, OvertakenGrows DEF Talk!Word
    <2>2. \A o \in Talk!Objects : /\ objs'[o].muted = objs[o].muted
                                  /\ objs'[o].whole = IF o = entry THEN objs[o].whole \cup ({q} \cap objs[o].text)
                                                      ELSE objs[o].whole
      BY <1>4, Worded
    <2>3. q \notin cut BY <1>d, <2>1
    <2>4. \A r \in cut : \A o \in Talk!Objects : r \in objs'[o].whole <=> r \in objs[o].whole BY <2>2, <2>3
    <2> QED BY <1>k, <2>1, <2>2, <2>4 DEF Talk!Cancelled
  <1>5. ASSUME NEW q \in Talk!Responses, NEW calls \in BOOLEAN, Talk!Done(q, calls) PROVE Talk!Cancelled'
    <2>1. UNCHANGED <<objs, ran, overtaken>> /\ ~Talk!Closed
          /\ cut' = IF said[q] = "worded" THEN cut \cup {q} ELSE cut
      BY <1>5 DEF Talk!Done
    <2>2. \E m \in Talk!HandlerKind : m.at = "logging" /\ handlers' = handlers \cup {m}
      BY <1>5, EventsCome DEF Comes
    <2>3. \A r \in cut \ overtaken : Talk!HasRun(r)' \/ \E h \in handlers' : Talk!Waits(r, h)' BY <1>k, <2>1, <2>2
    <2>4. ASSUME said[q] = "worded", q \notin overtaken PROVE \E h \in handlers' : Talk!Waits(q, h)'
      <3>1. calls = FALSE /\ entry \in Talk!Objects
        <4>1. vendor # "openai" BY <2>4 DEF Talk!InTurn
        <4> QED BY <1>5, <4>1 DEF Talk!Done, Talk!Closed, Talk!TypeOK, Talk!Objects
      <3>2. PICK m \in Talk!HandlerKind : /\ m.ev = "done" /\ m.r = q /\ m.obj = entry /\ m.at = "logging"
                                          /\ handlers' = handlers \cup {m}
        <4>1. Talk!Event("done", q) /\ q \in 0 .. MaxResponses
          BY <1>5, <3>1 DEF Talk!Done, Talk!Responses, Talk!ModelEventsConstants
        <4> QED BY <2>1, <4>1, EventComes DEF Comes
      <3>3. /\ objs[entry].muted /\ q \in objs[entry].whole /\ ran[q] = 0
            /\ \A o \in Talk!Objects : q \in objs[o].text => o = entry
        BY <2>1, <2>4 DEF Talk!InBuffer
      <3>4. \A o \in Talk!Objects : q \in objs[o].whole => o = entry BY <3>3 DEF Talk!InBuffer
      <3>5. ASSUME NEW g \in handlers', g.at = "emptying" PROVE g.r < q
        <4>1. g \in handlers BY <3>2, <3>5
        <4>2. g.r \in Talk!Responses /\ said[g.r] = "done" BY <3>5, <4>1 DEF Talk!Happened
        <4>3. ~(q < g.r) BY <2>4, <4>2 DEF Talk!InTurn
        <4>4. g.r # q BY <2>4, <4>2
        <4>5. q \in Nat /\ g.r \in Nat BY <1>s, <4>2
        <4> QED BY <4>3, <4>4, <4>5
      <3>6. Talk!Waits(q, m)' BY <2>1, <3>2, <3>3, <3>4, <3>5 DEF Talk!Waits
      <3> QED BY <3>2, <3>6
    <2> QED BY <2>1, <2>3, <2>4 DEF Talk!Cancelled
  <1>6. CASE Talk!Greet
    <2>1. UNCHANGED <<cut, ran, handlers>> /\ overtaken' = overtaken \cup objs[1].text BY <1>6 DEF Talk!Greet
    <2>2. entry = 1 /\ \A o \in Talk!Objects : objs'[o] = IF o = 2 THEN objs[1] ELSE objs[o] BY <1>6, Greeted
    <2>3. SUFFICES ASSUME NEW r \in cut \ overtaken' PROVE Talk!HasRun(r)' \/ \E h \in handlers' : Talk!Waits(r, h)'
      BY <2>1 DEF Talk!Cancelled
    <2>4. r \in cut \ overtaken /\ r \notin objs[1].whole BY <1>s, <2>1 DEF Talk!InBuffer
    <2>5. \A o \in Talk!Objects : r \in objs'[o].whole => r \in objs[o].whole BY <2>2, <2>4
    <2>6. Talk!HasRun(r) => Talk!HasRun(r)' BY <2>1, <2>5 DEF Talk!HasRun
    <2>7. ASSUME NEW h \in handlers, Talk!Waits(r, h) PROVE Talk!Waits(r, h)'
      <3>1. h.obj = 1 BY <2>2 DEF Talk!Happened
      <3>2. h.at # "logging" BY <2>4, <2>7, <3>1 DEF Talk!Waits
      <3> QED BY <2>1, <2>5, <2>7, <3>2 DEF Talk!Waits
    <2> QED BY <2>1, <2>4, <2>6, <2>7 DEF Talk!Cancelled
  <1>7. ASSUME Talk!Hangup, \A g \in handlers : g.ev = "done" => g \in handlers', handlers' \subseteq handlers
        PROVE  Talk!Cancelled'
    <2>1. UNCHANGED <<ran, overtaken, cut>> BY <1>7 DEF Talk!Hangup
    <2> QED BY <1>k, <1>7, <2>1, HungUp DEF Talk!Cancelled
  <1>8. ASSUME NEW h \in handlers, Talk!HandleCreated(h) PROVE Talk!Cancelled'
    <2>1. /\ h.ev = "created" /\ h.at = "logging" /\ UNCHANGED <<ran, cut>>
          /\ overtaken' = Talk!Overtaken(h.ev, h.r) /\ overtaken \subseteq overtaken' /\ h.r \in Talk!Responses
      BY <1>8, OvertakenGrows DEF Talk!HandleCreated, Talk!Happened
    <2>2. Reset(h.obj) /\ h.obj \in Talk!Objects
      <3>1. h.obj \in Talk!Objects BY <1>s DEF Talk!HandlerKind
      <3> QED BY <1>8, <3>1, ResetIs DEF Talk!HandleCreated
    <2>3. SUFFICES ASSUME NEW r \in cut \ overtaken' PROVE Talk!HasRun(r)' BY <2>1
         DEF Talk!Cancelled
    <2>4. r \in cut \ overtaken /\ r \in Talk!Responses BY <1>s, <2>1
    <2>5. h.r > r BY <2>1, <2>4 DEF Talk!Undisturbed, Talk!Buffered
    <2>6. ASSUME NEW g \in handlers, Talk!Waits(r, g) PROVE FALSE
      <3>1. Talk!Before(g, h.ev, h.r) BY <2>5, <2>6 DEF Talk!Waits, Talk!Before
      <3>2. g.r = r BY <2>6 DEF Talk!Waits
      <3>3. r \in Talk!Overtaken(h.ev, h.r) BY <2>4, <3>1, <3>2 DEF Talk!Overtaken
      <3> QED BY <2>1, <3>3
    <2>7. Talk!HasRun(r) BY <2>4, <2>6 DEF Talk!Cancelled
    <2> QED BY <2>1, <2>2, <2>7 DEF Talk!HasRun, Reset
  <1>9. ASSUME NEW h \in handlers, Talk!HandleText(h) PROVE Talk!Cancelled'
    <2>1. UNCHANGED <<objs, overtaken, cut>> /\ h.ev = "text" /\ handlers' = handlers \ {h}
          /\ ran' = [ran EXCEPT ![h.r] = @ + 1]
      BY <1>9 DEF Talk!HandleText, Talk!Leave
    <2>2. \A r \in cut : ran'[r] = ran[r]
      <3>1. h.r \notin cut BY <2>1 DEF Talk!Happened
      <3> QED BY <1>s, <2>1, <3>1
    <2> QED BY <1>k, <2>1, <2>2 DEF Talk!Cancelled
  <1>10. ASSUME NEW h \in handlers, Talk!HandleMuted(h) PROVE Talk!Cancelled'
    <2>1. /\ h.ev \in {"done", "called"} /\ h.at = "logging" /\ UNCHANGED <<objs, cut>>
          /\ overtaken' = Talk!Overtaken(h.ev, h.r) /\ overtaken \subseteq overtaken' /\ h.r \in Talk!Responses
          /\ h.obj \in Talk!Objects
      BY <1>10, <1>s, OvertakenGrows DEF Talk!HandleMuted, Talk!Happened, Talk!HandlerKind
    <2>2. SUFFICES ASSUME NEW r \in cut \ overtaken' PROVE Talk!HasRun(r)' \/ \E g \in handlers' : Talk!Waits(r, g)'
      BY <2>1 DEF Talk!Cancelled
    <2>3. r \in cut \ overtaken /\ r \in Talk!Responses BY <1>s, <2>1
    <2>4. CASE Talk!HasRun(r)
      <3>1. r \notin objs[h.obj].whole BY <2>1, <2>4 DEF Talk!HasRun
      <3>2. ran'[r] = ran[r] BY <1>10, <2>3, <3>1 DEF Talk!HandleMuted
      <3> QED BY <2>1, <2>4, <3>2 DEF Talk!HasRun
    <2>5. ASSUME Talk!Waits(r, h) PROVE \E g \in handlers' : Talk!Waits(r, g)'
      <3>1. ran[r] = 0 /\ r \in objs[h.obj].whole /\ objs[h.obj].muted BY <2>1,
           <2>5 DEF Talk!Waits
      <3>2. objs[h.obj].text # {} BY <2>1, <3>1 DEF Talk!InBuffer
      <3>3. ran'[r] = 1 /\ Talk!Move(h, "emptying") BY <1>10, <2>3, <3>1,
           <3>2 DEF Talk!HandleMuted
      <3>4. PICK m \in Talk!HandlerKind : /\ m.ev = h.ev /\ m.r = h.r /\ m.obj = h.obj /\ m.at = "emptying"
                                          /\ handlers' = (handlers \ {h}) \cup {m}
        BY <3>3, MoveGoesOn DEF GoesOn
      <3>5. Talk!Waits(r, m)' BY <2>1, <2>5, <3>3, <3>4 DEF Talk!Waits
      <3> QED BY <3>4, <3>5
    <2>6. ASSUME NEW g \in handlers, Talk!Waits(r, g), g # h PROVE FALSE
      <3>1. g.ev = "done" /\ g.r = r /\ g.at \in {"logging", "emptying"} BY <2>6 DEF Talk!Waits
      <3>2. h.r # r BY <2>1, <2>6, <3>1 DEF Talk!Happened
      <3>3. h.r >= r BY <2>1, <2>3 DEF Talk!Undisturbed, Talk!Buffered
      <3>4. r < h.r
        <4>1. r \in Nat /\ h.r \in Nat BY <1>s, <2>1, <2>3
        <4> QED BY <3>2, <3>3, <4>1
      <3>5. Talk!Before(g, h.ev, h.r) BY <3>1, <3>4 DEF Talk!Before
      <3>6. r \in Talk!Overtaken(h.ev, h.r) BY <2>3, <3>1, <3>5 DEF Talk!Overtaken
      <3> QED BY <2>1, <3>6
    <2> QED BY <2>3, <2>4, <2>5, <2>6 DEF Talk!Cancelled
  <1>11. ASSUME NEW h \in handlers, Talk!Empty(h) PROVE Talk!Cancelled'
    <2>1. /\ h.ev \in {"done", "called"} /\ h.at = "emptying" /\ UNCHANGED <<ran, cut, overtaken>>
          /\ h.r \in Talk!Responses
      BY <1>11 DEF Talk!Empty, Talk!Happened
    <2>2. Reset(h.obj) /\ h.obj \in Talk!Objects
      <3>1. h.obj \in Talk!Objects BY <1>s DEF Talk!HandlerKind
      <3> QED BY <1>11, <3>1, ResetIs DEF Talk!Empty
    <2>3. \A o \in Talk!Objects : objs'[o].whole \subseteq objs[o].whole /\ objs'[h.obj].whole = {}
      BY <2>2 DEF Reset
    <2>4. SUFFICES ASSUME NEW r \in cut \ overtaken PROVE Talk!HasRun(r)' \/ \E g \in handlers' : Talk!Waits(r, g)'
      BY <2>1 DEF Talk!Cancelled
    <2>5. CASE Talk!HasRun(r) BY <2>1, <2>3, <2>5 DEF Talk!HasRun
    <2>6. CASE Talk!Waits(r, h) BY <2>1, <2>3, <2>6 DEF Talk!Waits, Talk!HasRun
    <2>7. ASSUME NEW g \in handlers, Talk!Waits(r, g), g # h PROVE g \in handlers' /\ Talk!Waits(r, g)'
      <3>1. g.at = "emptying"
        <4>1. ~(h.r < r)
          <5>1. h.r >= r BY <1>s, <2>1 DEF Talk!Undisturbed, Talk!Buffered
          <5>2. r \in Nat /\ h.r \in Nat BY <1>s, <2>1, <2>4
          <5> QED BY <5>1, <5>2
        <4> QED BY <2>1, <2>7, <4>1 DEF Talk!Waits
      <3>2. g \in handlers' BY <1>11, <2>7 DEF Talk!Empty, Talk!Move
      <3> QED BY <2>1, <2>3, <2>7, <3>1, <3>2 DEF Talk!Waits
    <2> QED BY <2>4, <2>5, <2>6, <2>7 DEF Talk!Cancelled
  <1>12. ASSUME NEW h \in handlers, Talk!RunTool(h) \/ Talk!Respond(h) PROVE Talk!Cancelled'
    <2>1. h.ev = "called" BY <1>12 DEF Talk!RunTool, Talk!Respond, Talk!Happened
    <2>2. cut = {} BY <2>1 DEF Talk!Happened, Talk!InTurn
    <2>3. cut' = cut BY <1>12 DEF Talk!RunTool, Talk!Respond
    <2> QED BY <2>2, <2>3 DEF Talk!Cancelled
  <1>13. ASSUME NEW h \in handlers, Talk!Finish(h) PROVE Talk!Cancelled'
    <2>1. UNCHANGED <<objs, ran, overtaken, cut>> /\ handlers' = handlers \ {h}
          /\ ~(h.ev = "done" /\ h.at \in {"logging", "emptying"})
      BY <1>13 DEF Talk!Finish, Talk!Leave
    <2> QED BY <1>k, <2>1 DEF Talk!Cancelled
  <1>14. ASSUME NEW h \in handlers, Talk!HandleExpired(h) PROVE Talk!Cancelled'
    <2>1. Talk!Hangup /\ h.ev = "expired" /\ handlers' = handlers \ {h} BY <1>14
         DEF Talk!HandleExpired, Talk!Leave
    <2> QED BY <1>7, <2>1
  <1>15. CASE Talk!Close BY <1>7, <1>15 DEF Talk!Close
  <1> QED BY <1>1, <1>2, <1>3, <1>4, <1>5, <1>6, <1>8, <1>9, <1>10, <1>11, <1>12, <1>13, <1>14,
       <1>15 DEF Talk!Next

LEMMA EventsInit == ASSUME Talk!ModelEventsConstants, Talk!Init PROVE Talk!IInv
  <1> DEFINE old == [Talk!NewObject EXCEPT !.conn = TRUE]
  <1>1. /\ Talk!NewObject \in Talk!ObjectKind /\ Talk!NewObject.text = {} /\ Talk!NewObject.whole = {}
        /\ old \in Talk!ObjectKind /\ old.text = {} /\ old.whole = {} /\ old.conn
    BY DEF Talk!NewObject, Talk!ObjectKind
  <1>2. objs = [o \in Talk!Objects |-> IF o = 1 THEN old ELSE Talk!NewObject] BY DEF Talk!Init
  <1> HIDE DEF old
  <1>3. /\ objs \in [Talk!Objects -> Talk!ObjectKind] /\ objs[1].conn
        /\ \A o \in Talk!Objects : objs[o].text = {} /\ objs[o].whole = {}
    BY <1>1, <1>2 DEF Talk!Objects
  <1>4. Talk!TypeOK
    <2>1. handlers \subseteq Talk!HandlerKind /\ entry \in 0 .. 3 BY DEF Talk!Init
    <2>2. /\ said \in [Talk!Responses -> {"none", "created", "announced", "worded", "told", "done"}]
          /\ ran \in [Talk!Responses -> Nat] /\ vendor \in {"yandex", "openai"}
      BY DEF Talk!Init
    <2>3. answered \subseteq Talk!Responses /\ played \subseteq Talk!Responses
          /\ overtaken \subseteq Talk!Responses /\ cut \subseteq Talk!Responses
          /\ mute \subseteq Talk!Responses
      BY DEF Talk!Init
    <2> QED BY <1>3, <2>1, <2>2, <2>3 DEF Talk!TypeOK
  <1>5. Talk!InTurn BY DEF Talk!Init, Talk!InTurn
  <1>6. Talk!Happened BY DEF Talk!Init, Talk!Happened
  <1>7. Talk!Connected
    <2>1. \A r \in Talk!Responses : ran[r] = 0 BY DEF Talk!Init
    <2> QED BY <1>3, <2>1 DEF Talk!Init, Talk!Connected
  <1>8. Talk!Undisturbed BY DEF Talk!Init, Talk!Undisturbed
  <1>9. Talk!InBuffer BY <1>3 DEF Talk!Init, Talk!InBuffer
  <1>10. Talk!Cancelled /\ Talk!Unheard BY DEF Talk!Init, Talk!Cancelled, Talk!Unheard
  <1> QED BY <1>4, <1>5, <1>6, <1>7, <1>8, <1>9, <1>10 DEF Talk!IInv

LEMMA EventsStep == ASSUME Talk!ModelEventsConstants, Talk!IInv, Talk!Next PROVE Talk!IInv'
  BY EventTypes, InTurnStep, HappenedStep, ConnectedStep, UnheardStep, UndisturbedStep,
       InBufferStep,
     CancelledStep DEF Talk!IInv

LEMMA EventsStay == ASSUME Talk!IInv, UNCHANGED Talk!vars PROVE Talk!IInv'
  BY DEF Talk!IInv, Talk!vars, Talk!TypeOK, Talk!InTurn, Talk!Happened,
       Talk!Connected, Talk!Closed, Talk!Undisturbed, Talk!Buffered, Talk!InBuffer,
       Talk!Cancelled,
         Talk!Waits, Talk!HasRun, Talk!Unheard

LEMMA EventsAre == ASSUME Talk!IInv PROVE Talk!ToolCallsSettled
  <1>1. Talk!CancelledRunsOnce
    <2>1. SUFFICES ASSUME NEW r \in Talk!Responses \ overtaken
                   PROVE  /\ r \notin played
                          /\ r \in cut => ran[r] <= 1 /\ (Talk!Handlers("done", r) = {} => ran[r] = 1)
      BY DEF Talk!CancelledRunsOnce
    <2>2. r \notin played BY DEF Talk!IInv, Talk!Unheard
    <2>3. ASSUME r \in cut PROVE ran[r] <= 1 /\ (Talk!Handlers("done", r) = {} => ran[r] = 1)
      <3>1. CASE Talk!HasRun(r) BY <3>1 DEF Talk!HasRun
      <3>2. ASSUME NEW h \in handlers, Talk!Waits(r, h) PROVE ran[r] <= 1 /\ h \in Talk!Handlers("done", r)
        BY <3>2 DEF Talk!Waits, Talk!Handlers
      <3> QED BY <2>3, <3>1, <3>2 DEF Talk!IInv, Talk!Cancelled
    <2> QED BY <2>2, <2>3
  <1>2. Talk!ToolsAnswered
    <2>1. SUFFICES ASSUME NEW r \in Talk!Responses, vendor = "openai", ran[r] > 0, Talk!Handlers("called", r) = {}, ~Talk!Closed
                   PROVE  r \in answered \cup mute
      BY DEF Talk!ToolsAnswered
    <2> QED BY <2>1 DEF Talk!IInv, Talk!Connected, Talk!Handlers
  <1> QED BY <1>1, <1>2 DEF Talk!ToolCallsSettled

LEMMA EventsAlways == Spec => [](which = "Talk" => Talk!IInv)
  <1> DEFINE I == which = "Talk" => Talk!IInv
  <1>1. Init => I BY EventsInit, ComponentConstants DEF Init
  <1>2. I /\ [Next]_vars => I'
    <2>1. ASSUME Talk!IInv, [Talk!Next]_Talk!vars PROVE Talk!IInv'
      BY <2>1, EventsStep, EventsStay, ComponentConstants
    <2>2. ASSUME [Next]_vars, which' = "Talk"
          PROVE  which = "Talk" /\ [Talk!Next]_Talk!vars
      BY <2>2 DEF Next, vars, Talk!vars
    <2> QED BY <2>1, <2>2
  <1> QED BY <1>1, <1>2, PTL DEF Spec

------------------------
\* The pipeline: a turn holds its own signal, and the conversation waits for one result at
\* most (Turn!IInv).

\* What a step makes of one turn.
Moves(t, at, round, calls, sig) ==
  /\ turns' \in [Turn!Turns -> Turn!TurnKind]
  /\ turns'[t].at = at /\ turns'[t].round = round /\ turns'[t].calls = calls /\ turns'[t].sig = sig
  /\ \A u \in Turn!Turns : u # t => turns'[u] = turns[u]

Places == {"transcribing", "asking", "streaming", "last", "tooling", "running", "over"}

LEMMA TurnSet ==
  ASSUME Turn!TypeOK, NEW t \in Turn!Turns, NEW new \in Turn!TurnKind, turns' = [turns EXCEPT ![t] = new]
  PROVE  Moves(t, new.at, new.round, new.calls, new.sig)
  <1>1. turns' \in [Turn!Turns -> Turn!TurnKind] /\ \A u \in Turn!Turns : turns'[u] = IF u = t THEN new ELSE turns[u]
    BY DEF Turn!TypeOK
  <1> QED BY <1>1 DEF Moves

LEMMA TurnIs ==
  ASSUME Turn!TypeOK, NEW t \in Turn!Turns
  PROVE  /\ turns[t] \in Turn!TurnKind
         /\ turns[t].round \in 0 .. MaxRounds /\ turns[t].calls \in BOOLEAN /\ turns[t].sig \in 0 .. MaxTurns
  BY DEF Turn!TypeOK, Turn!TurnKind

LEMMA GotoIs ==
  ASSUME Turn!TypeOK, NEW t \in Turn!Turns, NEW at \in Places, Turn!Goto(t, at)
  PROVE  Moves(t, at, turns[t].round, turns[t].calls, turns[t].sig)
  <1> DEFINE new == [turns[t] EXCEPT !.at = at]
  <1>1. /\ new \in Turn!TurnKind /\ new.at = at /\ new.round = turns[t].round
        /\ new.calls = turns[t].calls /\ new.sig = turns[t].sig
    BY TurnIs DEF Turn!TurnKind, Places
  <1>2. turns' = [turns EXCEPT ![t] = new] BY DEF Turn!Goto
  <1> HIDE DEF new
  <1>3. Moves(t, new.at, new.round, new.calls, new.sig) BY <1>1, <1>2, TurnSet
  <1> QED BY <1>1, <1>3

\* Who speaks does so with the session's signal.
LEMMA Speaks ==
  ASSUME Turn!TypeOK, NEW t \in Turn!Turns \cup {0}, Turn!Speak(t), MaxTurns \in Nat, MaxRounds \in Nat
  PROVE  /\ speech' \subseteq Turn!SpeechKind /\ speaking' = TRUE /\ stream' = TRUE
         /\ \A s \in speech' : s \in speech \/ (s.turn = t /\ s.sig = abort)
  <1> DEFINE new == [turn |-> t, round |-> IF t = 0 THEN 0 ELSE turns[t].round, sig |-> abort]
  <1>1. new \in Turn!SpeechKind /\ new.turn = t /\ new.sig = abort
    <2>1. t \in 0 .. MaxTurns /\ abort \in 0 .. MaxTurns BY DEF Turn!TypeOK, Turn!Turns
    <2>2. (IF t = 0 THEN 0 ELSE turns[t].round) \in 0 .. MaxRounds
      <3>1. CASE t = 0 BY <3>1
      <3>2. CASE t # 0 BY <3>2, TurnIs
      <3> QED BY <3>1, <3>2
    <2> QED BY <2>1, <2>2 DEF Turn!SpeechKind
  <1>2. speech' = speech \cup {new} /\ speaking' = TRUE /\ stream' = TRUE BY DEF Turn!Speak
  <1> HIDE DEF new
  <1> QED BY <1>1, <1>2 DEF Turn!TypeOK

\* The conversation, message by message.
LEMMA MessageIs ==
  ASSUME Turn!TypeOK, NEW t \in Turn!Turns, NEW role \in {"user", "call", "tool", "reply"}
  PROVE  /\ Turn!Message(role, t) \in Turn!MessageKind /\ Turn!Message(role, t).role = role
         /\ Turn!Message("call", t) = [Turn!Message(role, t) EXCEPT !.role = "call"]
         /\ Turn!Message("tool", t) = [Turn!Message(role, t) EXCEPT !.role = "tool"]
  BY TurnIs DEF Turn!Message, Turn!MessageKind, Turn!Turns

LEMMA AppendChained ==
  ASSUME NEW ms \in Seq(Turn!MessageKind), NEW m \in Turn!MessageKind, Turn!Chained(ms),
         m.role = "tool" => ms # <<>> /\ ms[Len(ms)] = [m EXCEPT !.role = "call"],
         ms # <<>> /\ ms[Len(ms)].role = "call" => m = [ms[Len(ms)] EXCEPT !.role = "tool"]
  PROVE  Turn!Chained(Append(ms, m))
  <1> DEFINE new == Append(ms, m)
  <1>1. Len(new) = Len(ms) + 1 /\ Len(ms) \in Nat /\ DOMAIN new = 1 .. Len(ms) + 1 /\ DOMAIN ms = 1 .. Len(ms)
        /\ new[Len(ms) + 1] = m /\ \A i \in 1 .. Len(ms) : new[i] = ms[i]
    OBVIOUS
  <1>2. ms # <<>> => Len(ms) >= 1 OBVIOUS
  <1> HIDE DEF new
  <1>3. SUFFICES ASSUME NEW i \in 1 .. Len(ms) + 1
                 PROVE  /\ new[i].role = "tool" => i > 1 /\ new[i - 1] = [new[i] EXCEPT !.role = "call"]
                        /\ new[i].role = "call" /\ i < Len(new) => new[i + 1] = [new[i] EXCEPT !.role = "tool"]
    BY <1>1 DEF Turn!Chained, new
  <1>4. CASE i = Len(ms) + 1
    <2>1. new[i] = m /\ ~(i < Len(new)) BY <1>1, <1>4
    <2>2. ASSUME m.role = "tool" PROVE i > 1 /\ new[i - 1] = [new[i] EXCEPT !.role = "call"]
      <3>1. Len(ms) >= 1 /\ i - 1 = Len(ms) BY <1>1, <1>2, <1>4, <2>2
      <3>2. new[i - 1] = ms[Len(ms)] BY <1>1, <3>1
      <3> QED BY <1>1, <1>4, <2>1, <2>2, <3>1, <3>2
    <2> QED BY <2>1, <2>2
  <1>5. CASE i # Len(ms) + 1
    <2>1. i \in 1 .. Len(ms) /\ new[i] = ms[i] BY <1>1, <1>5
    <2>2. ms[i].role = "tool" => i > 1 /\ ms[i - 1] = [ms[i] EXCEPT !.role = "call"] BY <1>1, <2>1 DEF Turn!Chained
    <2>3. i > 1 => new[i - 1] = ms[i - 1] BY <1>1, <2>1
    <2>4. ASSUME ms[i].role = "call" PROVE new[i + 1] = [ms[i] EXCEPT !.role = "tool"]
      <3>1. CASE i < Len(ms)
        <4>1. ms[i + 1] = [ms[i] EXCEPT !.role = "tool"] BY <1>1, <2>1, <2>4,
             <3>1 DEF Turn!Chained
        <4>2. new[i + 1] = ms[i + 1] BY <1>1, <2>1, <3>1
        <4> QED BY <4>1, <4>2
      <3>2. CASE i = Len(ms)
        <4>1. ms # <<>> BY <1>1, <2>1
        <4>2. new[i + 1] = m BY <1>1, <3>2
        <4> QED BY <2>4, <3>2, <4>1, <4>2
      <3> QED BY <1>1, <2>1, <3>1, <3>2
    <2> QED BY <2>1, <2>2, <2>3, <2>4
  <1> QED BY <1>4, <1>5

LEMMA TrimIs ==
  ASSUME Keep \in Nat \ {0}, NEW ms \in Seq(Turn!MessageKind), ms # <<>>, Len(ms) > Keep
  PROVE  /\ Turn!Trim(ms) \in Seq(Turn!MessageKind) /\ Len(Turn!Trim(ms)) = Keep /\ DOMAIN Turn!Trim(ms) = 1 .. Keep
         /\ Turn!Trim(ms)[1] = ms[1] /\ \A i \in 2 .. Keep : Turn!Trim(ms)[i] = ms[Len(ms) - Keep + i]
  <1> DEFINE tail == SubSeq(ms, Len(ms) - Keep + 2, Len(ms))
  <1>1. Len(ms) \in Nat /\ ms[1] \in Turn!MessageKind OBVIOUS
  <1>2. tail \in Seq(Turn!MessageKind) /\ Len(tail) = Keep - 1
        /\ \A i \in 1 .. Keep - 1 : tail[i] = ms[Len(ms) - Keep + 2 + i - 1]
    BY <1>1
  <1>3. Turn!Trim(ms) = <<ms[1]>> \o tail BY <1>1 DEF Turn!Trim
  <1> HIDE DEF tail
  <1>4. Turn!Trim(ms) \in Seq(Turn!MessageKind) /\ Len(Turn!Trim(ms)) = Keep BY <1>1,
       <1>2, <1>3
  <1>5. Turn!Trim(ms)[1] = ms[1] /\ \A i \in 2 .. Keep : Turn!Trim(ms)[i] = tail[i - 1] BY <1>1, <1>2, <1>3
  <1>6. ASSUME NEW i \in 2 .. Keep PROVE Turn!Trim(ms)[i] = ms[Len(ms) - Keep + i]
    <2>1. i - 1 \in 1 .. Keep - 1 /\ Len(ms) - Keep + 2 + (i - 1) - 1 = Len(ms) - Keep + i BY <1>1
    <2> QED BY <1>2, <1>5, <2>1
  <1> QED BY <1>4, <1>5, <1>6

LEMMA TrimChained ==
  ASSUME Keep \in Nat \ {0}, NEW ms \in Seq(Turn!MessageKind), ms # <<>>, Turn!Chained(ms),
         Len(ms) > Keep => ms[1].role # "call" /\ ms[Len(ms) - Keep + 1].role # "call"
  PROVE  /\ Turn!Chained(Turn!Trim(ms)) /\ Turn!Trim(ms) \in Seq(Turn!MessageKind) /\ Turn!Trim(ms) # <<>>
         /\ Turn!Trim(ms)[Len(Turn!Trim(ms))].role = "call" => ms[Len(ms)].role = "call"
         /\ ms[Len(ms)].role = "call" => Turn!Trim(ms)[Len(Turn!Trim(ms))] = ms[Len(ms)]
  <1>1. CASE Len(ms) <= Keep BY <1>1 DEF Turn!Trim
  <1>2. CASE Len(ms) > Keep
    <2> DEFINE new == Turn!Trim(ms)
               n   == Len(ms)
    <2>1. /\ new \in Seq(Turn!MessageKind) /\ Len(new) = Keep /\ DOMAIN new = 1 .. Keep
          /\ new[1] = ms[1] /\ \A i \in 2 .. Keep : new[i] = ms[n - Keep + i]
      BY <1>2, TrimIs
    <2>2. n \in Nat /\ n > Keep /\ DOMAIN ms = 1 .. n /\ Keep >= 1 BY <1>2
    <2>c. \A i \in 1 .. n :
            /\ ms[i].role = "tool" => i > 1 /\ ms[i - 1] = [ms[i] EXCEPT !.role = "call"]
            /\ ms[i].role = "call" /\ i < n => ms[i + 1] = [ms[i] EXCEPT !.role = "tool"]
      BY <2>2 DEF Turn!Chained
    <2>3. ms[1].role \notin {"tool", "call"} /\ ms[n - Keep + 1].role # "call"
      <3>1. 1 \in 1 .. n /\ ~(1 > 1) BY <2>2
      <3>2. ms[1].role # "tool" BY <2>c, <3>1
      <3> QED BY <1>2, <3>2
    <2>4. \A i \in 1 .. n : ms[i] \in Turn!MessageKind BY <2>2
    <2> HIDE DEF new, n
    <2>5. ASSUME NEW i \in 2 .. Keep, new[i].role = "tool"
          PROVE  new[i - 1] = [new[i] EXCEPT !.role = "call"]
      <3>1. n - Keep + i \in 1 .. n /\ (n - Keep + i) - 1 \in 1 .. n /\ (n - Keep + i) - 1 = n - Keep + (i - 1) BY <2>2
      <3>2. ms[n - Keep + (i - 1)] = [new[i] EXCEPT !.role = "call"]
        <4>1. new[i] = ms[n - Keep + i] BY <2>1
        <4>2. ms[(n - Keep + i) - 1] = [ms[n - Keep + i] EXCEPT !.role = "call"] BY <2>c, <2>5, <3>1, <4>1
        <4> QED BY <3>1, <4>1, <4>2
      <3>3. i # 2
        <4>1. [new[i] EXCEPT !.role = "call"].role = "call"
          <5>1. new[i] \in Turn!MessageKind BY <2>1, <2>4, <3>1
          <5> QED BY <5>1 DEF Turn!MessageKind
        <4>2. i = 2 => n - Keep + (i - 1) = n - Keep + 1 BY <2>2
        <4> QED BY <2>3, <3>2, <4>1, <4>2
      <3>4. i - 1 \in 2 .. Keep BY <3>3
      <3> QED BY <2>1, <3>2, <3>4
    <2>6. ASSUME NEW i \in 2 .. Keep, new[i].role = "call", i < Keep
          PROVE  new[i + 1] = [new[i] EXCEPT !.role = "tool"]
      <3>1. n - Keep + i \in 1 .. n /\ n - Keep + i < n /\ (n - Keep + i) + 1 = n - Keep + (i + 1) BY <2>2, <2>6
      <3>2. ms[n - Keep + (i + 1)] = [new[i] EXCEPT !.role = "tool"]
        <4>1. new[i] = ms[n - Keep + i] BY <2>1
        <4>2. ms[(n - Keep + i) + 1] = [ms[n - Keep + i] EXCEPT !.role = "tool"] BY <2>c, <2>6, <3>1, <4>1
        <4> QED BY <3>1, <4>1, <4>2
      <3>3. i + 1 \in 2 .. Keep BY <2>6
      <3> QED BY <2>1, <3>2, <3>3
    <2>7. Turn!Chained(new)
      <3>1. SUFFICES ASSUME NEW i \in 1 .. Keep
                     PROVE  /\ new[i].role = "tool" => i > 1 /\ new[i - 1] = [new[i] EXCEPT !.role = "call"]
                            /\ new[i].role = "call" /\ i < Keep => new[i + 1] = [new[i] EXCEPT !.role = "tool"]
        BY <2>1 DEF Turn!Chained
      <3>2. CASE i = 1 BY <2>1, <2>3, <3>2
      <3>3. CASE i # 1
        <4>1. i \in 2 .. Keep /\ i > 1 BY <3>3
        <4> QED BY <2>5, <2>6, <4>1
      <3> QED BY <3>2, <3>3
    <2>8. new[Len(new)].role = "call" => ms[n].role = "call"
      <3>1. CASE Keep = 1 BY <2>1, <2>3, <3>1
      <3>2. CASE Keep > 1
        <4>1. Keep \in 2 .. Keep /\ n - Keep + Keep = n BY <2>2, <3>2
        <4> QED BY <2>1, <4>1
      <3> QED BY <2>2, <3>1, <3>2
    <2>9. ms[n].role = "call" => new[Len(new)] = ms[n]
      <3>1. CASE Keep = 1
        <4>1. n - Keep + 1 = n BY <2>2, <3>1
        <4> QED BY <2>3, <4>1
      <3>2. CASE Keep > 1
        <4>1. Keep \in 2 .. Keep /\ n - Keep + Keep = n BY <2>2, <3>2
        <4> QED BY <2>1, <4>1
      <3> QED BY <2>2, <3>1, <3>2
    <2>10. new # <<>> BY <2>1, <2>2
    <2> QED BY <2>1, <2>7, <2>8, <2>9, <2>10 DEF new, n
  <1>3. Len(ms) \in Nat OBVIOUS
  <1> QED BY <1>1, <1>2, <1>3

LEMMA Says ==
  ASSUME Turn!PipelineConstants, Turn!TypeOK, NEW t \in Turn!Turns, NEW role \in {"user", "call", "reply"}, Turn!Say(role, t)
  PROVE  /\ messages' \in Seq(Turn!MessageKind) /\ parted' \in BOOLEAN /\ (parted => parted')
         /\ ~parted' /\ Turn!Chained(messages) /\ (messages # <<>> => messages[Len(messages)].role # "call") =>
               /\ Turn!Chained(messages')
               /\ messages' # <<>> /\ messages'[Len(messages')].role = "call" => role = "call"
               /\ role = "call" => messages' # <<>> /\ messages'[Len(messages')] = Turn!Message("call", t)
  <1> DEFINE m  == Turn!Message(role, t)
             ms == Append(messages, m)
             Apart == Len(ms) > Keep /\ "call" \in {ms[1].role, ms[Len(ms) - Keep + 1].role}
  <1>1. m \in Turn!MessageKind /\ m.role = role BY MessageIs
  <1>2. messages' = Turn!Trim(ms) /\ parted' = (parted \/ Apart) BY DEF Turn!Say
  <1>3. messages \in Seq(Turn!MessageKind) /\ Keep \in Nat \ {0} BY DEF Turn!TypeOK,
       Turn!PipelineConstants
  <1> HIDE DEF m
  <1>4. ms \in Seq(Turn!MessageKind) /\ ms # <<>> /\ Len(ms) \in Nat /\ ms[Len(ms)] = m BY <1>1, <1>3
  <1>5. Turn!Trim(ms) \in Seq(Turn!MessageKind)
    <2>1. CASE Len(ms) <= Keep BY <1>4, <2>1 DEF Turn!Trim
    <2>2. CASE Len(ms) > Keep BY <1>3, <1>4, <2>2, TrimIs
    <2> QED BY <1>3, <1>4, <2>1, <2>2
  <1>6. parted' \in BOOLEAN /\ (parted => parted')
    <2> HIDE DEF Apart
    <2> QED BY <1>2
  <1>7. ASSUME ~parted', Turn!Chained(messages), messages # <<>> => messages[Len(messages)].role # "call"
        PROVE  /\ Turn!Chained(messages')
               /\ messages' # <<>> /\ messages'[Len(messages')].role = "call" => role = "call"
               /\ role = "call" => messages' # <<>> /\ messages'[Len(messages')] = Turn!Message("call", t)
    <2>1. ~Apart
      <3> HIDE DEF Apart
      <3> QED BY <1>2, <1>7
    <2>2. Turn!Chained(ms) BY <1>1, <1>3, <1>7, AppendChained
    <2> HIDE DEF ms
    <2>3. Len(ms) > Keep => ms[1].role # "call" /\ ms[Len(ms) - Keep + 1].role # "call" BY <2>1
    <2>4. /\ Turn!Chained(Turn!Trim(ms)) /\ Turn!Trim(ms) # <<>>
          /\ Turn!Trim(ms)[Len(Turn!Trim(ms))].role = "call" => ms[Len(ms)].role = "call"
          /\ ms[Len(ms)].role = "call" => Turn!Trim(ms)[Len(Turn!Trim(ms))] = ms[Len(ms)]
      BY <1>3, <1>4, <2>2, <2>3, TrimChained
    <2> QED BY <1>1, <1>2, <1>4, <2>4 DEF m
  <1> QED BY <1>2, <1>5, <1>6, <1>7

\* What the steps make of the turns.
LEMMA TurnSteps ==
  ASSUME Turn!PipelineConstants, Turn!TypeOK, NEW t \in Turn!Turns,
         turns[t].at = "running" => turns[t].round < MaxRounds
  PROVE  /\ \A b \in BOOLEAN : Turn!Transcribe(t, b) =>
               \E at \in {"asking", "over"} : Moves(t, at, turns[t].round, turns[t].calls, turns[t].sig)
         /\ Turn!Ask(t) =>
               \E at \in {"streaming", "over"} : Moves(t, at, turns[t].round, turns[t].calls, turns[t].sig)
         /\ \A b \in BOOLEAN : Turn!EndStream(t, b) =>
               \/ Moves(t, "over", turns[t].round, turns[t].calls, turns[t].sig)
               \/ \E c \in BOOLEAN : /\ c => turns[t].round < MaxRounds
                                     /\ Moves(t, "last", turns[t].round, c, turns[t].sig)
         /\ Turn!Settle(t) =>
               \/ Moves(t, "over", turns[t].round, turns[t].calls, turns[t].sig)
               \/ turns[t].calls /\ Moves(t, "tooling", turns[t].round, turns[t].calls, abort)
         /\ Turn!StartTool(t) =>
               \E at \in {"running", "over"} : Moves(t, at, turns[t].round, turns[t].calls, turns[t].sig)
         /\ (\E b \in BOOLEAN : Turn!EndTool(t, b)) =>
               \/ Moves(t, "over", turns[t].round, turns[t].calls, turns[t].sig)
               \/ Moves(t, "streaming", turns[t].round + 1, turns[t].calls, turns[t].sig)
  <1>1. ASSUME NEW b \in BOOLEAN, Turn!Transcribe(t, b)
        PROVE  \E at \in {"asking", "over"} : Moves(t, at, turns[t].round, turns[t].calls, turns[t].sig)
    BY <1>1, GotoIs DEF Turn!Transcribe, Places
  <1>2. ASSUME Turn!Ask(t)
        PROVE  \E at \in {"streaming", "over"} : Moves(t, at, turns[t].round, turns[t].calls, turns[t].sig)
    BY <1>2, GotoIs DEF Turn!Ask, Turn!Request, Places
  <1>3. ASSUME NEW b \in BOOLEAN, Turn!EndStream(t, b)
        PROVE  \/ Moves(t, "over", turns[t].round, turns[t].calls, turns[t].sig)
               \/ \E c \in BOOLEAN : /\ c => turns[t].round < MaxRounds
                                     /\ Moves(t, "last", turns[t].round, c, turns[t].sig)
    <2>1. CASE Turn!Silenced(t) BY <1>3, <2>1, GotoIs DEF Turn!EndStream, Places
    <2>2. CASE ~Turn!Silenced(t)
      <3> DEFINE c   == b /\ turns[t].round < MaxRounds
                 old == turns[t]
                 new == [[old EXCEPT !.at = "last"] EXCEPT !.calls = c]
      <3>1. turns' = [turns EXCEPT ![t] = new] BY <1>3, <2>2 DEF Turn!EndStream
      <3>2. c \in BOOLEAN /\ (c => turns[t].round < MaxRounds) OBVIOUS
      <3> HIDE DEF c
      <3>3. /\ new \in Turn!TurnKind /\ new.at = "last" /\ new.round = turns[t].round
            /\ new.calls = c /\ new.sig = turns[t].sig
        BY <3>2, TurnIs DEF Turn!TurnKind
      <3> HIDE DEF new, old
      <3>4. Moves(t, "last", turns[t].round, c, turns[t].sig)
        <4>1. Moves(t, new.at, new.round, new.calls, new.sig) BY <3>1, <3>3, TurnSet
        <4> QED BY <3>3, <4>1
      <3> QED BY <3>2, <3>4
    <2> QED BY <2>1, <2>2
  <1>4. ASSUME Turn!Settle(t)
        PROVE  \/ Moves(t, "over", turns[t].round, turns[t].calls, turns[t].sig)
               \/ turns[t].calls /\ Moves(t, "tooling", turns[t].round, turns[t].calls, abort)
    <2>1. CASE ~turns[t].calls BY <1>4, <2>1, GotoIs DEF Turn!Settle, Places
    <2>2. CASE turns[t].calls
      <3> DEFINE old == turns[t]
                 new == [[old EXCEPT !.at = "tooling"] EXCEPT !.sig = abort]
      <3>1. turns' = [turns EXCEPT ![t] = new] BY <1>4, <2>2 DEF Turn!Settle
      <3>2. /\ new \in Turn!TurnKind /\ new.at = "tooling" /\ new.round = turns[t].round
            /\ new.calls = turns[t].calls /\ new.sig = abort
        <4>1. abort \in 0 .. MaxTurns BY DEF Turn!TypeOK
        <4> QED BY <4>1, TurnIs DEF Turn!TurnKind
      <3> HIDE DEF new, old
      <3>3. Moves(t, new.at, new.round, new.calls, new.sig) BY <3>1, <3>2, TurnSet
      <3> QED BY <2>2, <3>2, <3>3
    <2> QED BY <2>1, <2>2
  <1>5. ASSUME Turn!StartTool(t)
        PROVE  \E at \in {"running", "over"} : Moves(t, at, turns[t].round, turns[t].calls, turns[t].sig)
    BY <1>5, GotoIs DEF Turn!StartTool, Places
  <1>6. ASSUME (\E b \in BOOLEAN : Turn!EndTool(t, b))
        PROVE  \/ Moves(t, "over", turns[t].round, turns[t].calls, turns[t].sig)
               \/ Moves(t, "streaming", turns[t].round + 1, turns[t].calls, turns[t].sig)
    <2>1. CASE Turn!Goto(t, "over") BY <2>1, GotoIs DEF Places
    <2>2. CASE turns' = [turns EXCEPT ![t].at = "streaming", ![t].round = @ + 1]
      <3> DEFINE old == turns[t]
                 new == [[old EXCEPT !.at = "streaming"] EXCEPT !.round = old.round + 1]
      <3>1. turns' = [turns EXCEPT ![t] = new] BY <2>2
      <3>2. turns[t].round + 1 \in 0 .. MaxRounds
        <4>1. turns[t].at = "running" BY <1>6 DEF Turn!EndTool
        <4> QED BY <4>1, TurnIs DEF Turn!PipelineConstants
      <3>3. /\ new \in Turn!TurnKind /\ new.at = "streaming" /\ new.round = turns[t].round + 1
            /\ new.calls = turns[t].calls /\ new.sig = turns[t].sig
        BY <3>2, TurnIs DEF Turn!TurnKind
      <3> HIDE DEF new, old
      <3>4. Moves(t, new.at, new.round, new.calls, new.sig) BY <3>1, <3>3, TurnSet
      <3> QED BY <3>3, <3>4
    <2> QED BY <1>6, <2>1, <2>2 DEF Turn!EndTool
  <1> QED BY <1>1, <1>2, <1>3, <1>4, <1>5, <1>6

LEMMA TurnBegins ==
  ASSUME Turn!TypeOK, NEW t \in Turn!Turns, NEW at \in {"asking", "transcribing"}, Turn!Goto(t, at)
  PROVE  Moves(t, at, turns[t].round, turns[t].calls, turns[t].sig)
  BY GotoIs DEF Places

LEMMA PipelineTypes ==
  ASSUME Turn!PipelineConstants, Turn!TypeOK, Turn!Signals, Turn!Next
  PROVE  Turn!TypeOK'
  <1>c. MaxTurns \in Nat /\ MaxRounds \in Nat /\ 0 \in 0 .. MaxTurns /\ \A t \in Turn!Turns : t \in 0 .. MaxTurns
    BY DEF Turn!PipelineConstants, Turn!Turns
  <1>r. \A t \in Turn!Turns : turns[t].at = "running" => turns[t].round < MaxRounds BY DEF Turn!Signals
  <1>a. Turn!AbortPipeline => aborted' \subseteq Turn!Turns
    <2>1. abort = 0 \/ abort \in Turn!Turns BY DEF Turn!TypeOK, Turn!Turns
    <2> QED BY <2>1 DEF Turn!AbortPipeline, Turn!TypeOK
  <1>1. CASE Turn!Create
    <2>1. <<[role |-> "system", turn |-> 0, round |-> 0]>> \in Seq(Turn!MessageKind)
      <3>1. [role |-> "system", turn |-> 0, round |-> 0] \in Turn!MessageKind BY <1>c
           DEF Turn!MessageKind
      <3> QED BY <3>1
    <2> QED BY <1>1, <2>1 DEF Turn!Create, Turn!TypeOK, Turn!history
  <1>2. CASE Turn!Greet
    <2>1. speech' \subseteq Turn!SpeechKind /\ speaking' \in BOOLEAN /\ stream' \in BOOLEAN
      <3>1. CASE Turn!Speak(0) BY <1>c, <3>1, Speaks
      <3>2. CASE Turn!Quiet BY <3>2 DEF Turn!Quiet, Turn!TypeOK
      <3> QED BY <1>2, <3>1, <3>2 DEF Turn!Greet
    <2> QED BY <1>2, <2>1 DEF Turn!Greet, Turn!TypeOK, Turn!history
  <1>3. CASE Turn!Close
    <2>1. torn' \subseteq Turn!Turns /\ strays' \subseteq Turn!Turns BY <1>3
         DEF Turn!Close, Turn!TypeOK, Turn!Tooling
    <2>2. late' \subseteq {"frame", "greeting"} BY <1>3 DEF Turn!Close
    <2>3. aborted' \subseteq Turn!Turns BY <1>3, <1>a DEF Turn!Close
    <2>4. messages' \in Seq(Turn!MessageKind) BY <1>3 DEF Turn!Close
    <2> QED BY <1>3, <1>c, <2>1, <2>2, <2>3, <2>4 DEF Turn!Close, Turn!TypeOK
  <1>4. CASE Turn!Frame BY <1>4 DEF Turn!Frame, Turn!TypeOK, Turn!history
  <1>5. CASE Turn!SpeechStart
    <2>1. aborted' \subseteq Turn!Turns BY <1>5, <1>a DEF Turn!SpeechStart, Turn!TypeOK
    <2>2. torn' \subseteq Turn!Turns /\ abort' \in 0 .. MaxTurns /\ speaking' \in BOOLEAN
      BY <1>5, <1>c DEF Turn!SpeechStart, Turn!TypeOK, Turn!Tooling
    <2> QED BY <1>5, <2>1, <2>2 DEF Turn!SpeechStart, Turn!TypeOK
  <1>6. CASE Turn!SpeechEnd
    <2>1. PICK t \in Turn!Turns :
            /\ frame' = FALSE /\ vad' = "idle" /\ Turn!AbortPipeline /\ abort' = t /\ speaking' = FALSE
            /\ Turn!Goto(t, IF native THEN "asking" ELSE "transcribing") /\ torn' = torn \cup Turn!Tooling
            /\ UNCHANGED <<native, session, greeting, speech, stream, messages, strays, parted, broken, stale, late, mute>>
      BY <1>6 DEF Turn!SpeechEnd
    <2>2. turns' \in [Turn!Turns -> Turn!TurnKind]
      <3>1. CASE native BY <2>1, <3>1, TurnBegins DEF Moves
      <3>2. CASE ~native BY <2>1, <3>2, TurnBegins DEF Moves
      <3> QED BY <3>1, <3>2
    <2>3. torn' \subseteq Turn!Turns BY <2>1 DEF Turn!TypeOK, Turn!Tooling
    <2>4. aborted' \subseteq Turn!Turns BY <1>a, <2>1
    <2> QED BY <1>c, <2>1, <2>2, <2>3, <2>4 DEF Turn!TypeOK
  <1>7. ASSUME NEW t \in Turn!Turns, NEW b \in BOOLEAN, Turn!Transcribe(t, b) PROVE Turn!TypeOK'
    <2>1. turns' \in [Turn!Turns -> Turn!TurnKind] BY <1>7, <1>r, TurnSteps DEF Moves
    <2>2. messages' \in Seq(Turn!MessageKind) /\ parted' \in BOOLEAN
      <3>1. Turn!Say("user", t) \/ UNCHANGED <<messages, parted>> BY <1>7
           DEF Turn!Transcribe
      <3> QED BY <3>1, Says DEF Turn!TypeOK
    <2> QED BY <1>7, <2>1, <2>2 DEF Turn!Transcribe, Turn!TypeOK
  <1>8. ASSUME NEW t \in Turn!Turns, Turn!Ask(t) PROVE Turn!TypeOK'
    <2>1. turns' \in [Turn!Turns -> Turn!TurnKind] BY <1>8, <1>r, TurnSteps DEF Moves
    <2>2. broken' \subseteq Turn!Turns BY <1>8 DEF Turn!Ask, Turn!Request,
         Turn!TypeOK
    <2> QED BY <1>8, <2>1, <2>2 DEF Turn!Ask, Turn!TypeOK
  <1>9. ASSUME NEW t \in Turn!Turns, Turn!Sentence(t) PROVE Turn!TypeOK'
    <2>1. speech' \subseteq Turn!SpeechKind /\ speaking' \in BOOLEAN /\ stream' \in BOOLEAN
      BY <1>9, <1>c, Speaks DEF Turn!Sentence
    <2> QED BY <1>9, <2>1 DEF Turn!Sentence, Turn!TypeOK, Turn!history
  <1>10. ASSUME NEW t \in Turn!Turns, NEW b \in BOOLEAN, Turn!EndStream(t, b) PROVE Turn!TypeOK'
    <2>1. turns' \in [Turn!Turns -> Turn!TurnKind] BY <1>10, <1>r, TurnSteps DEF Moves
    <2>2. speech' \subseteq Turn!SpeechKind /\ speaking' \in BOOLEAN /\ stream' \in BOOLEAN
      <3>1. CASE Turn!Speak(t) BY <1>c, <3>1, Speaks
      <3>2. CASE Turn!Quiet BY <3>2 DEF Turn!Quiet, Turn!TypeOK
      <3> QED BY <1>10, <3>1, <3>2 DEF Turn!EndStream
    <2> QED BY <1>10, <2>1, <2>2 DEF Turn!EndStream, Turn!TypeOK, Turn!history
  <1>11. ASSUME NEW t \in Turn!Turns, Turn!Settle(t) PROVE Turn!TypeOK'
    <2>1. turns' \in [Turn!Turns -> Turn!TurnKind] BY <1>11, <1>r, TurnSteps DEF Moves
    <2>2. messages' \in Seq(Turn!MessageKind) /\ parted' \in BOOLEAN
      <3>1. Turn!Say("call", t) \/ Turn!Say("reply", t) BY <1>11 DEF Turn!Settle
      <3> QED BY <3>1, Says
    <2>3. strays' \subseteq Turn!Turns BY <1>11 DEF Turn!Settle, Turn!TypeOK
    <2> QED BY <1>11, <2>1, <2>2, <2>3 DEF Turn!Settle, Turn!TypeOK
  <1>12. ASSUME NEW t \in Turn!Turns, Turn!StartTool(t) PROVE Turn!TypeOK'
    <2>1. turns' \in [Turn!Turns -> Turn!TurnKind] BY <1>12, <1>r, TurnSteps DEF Moves
    <2> QED BY <1>12, <2>1 DEF Turn!StartTool, Turn!TypeOK, Turn!history
  <1>13. ASSUME NEW t \in Turn!Turns, (\E b \in BOOLEAN : Turn!EndTool(t, b)) PROVE Turn!TypeOK'
    <2>1. turns' \in [Turn!Turns -> Turn!TurnKind] BY <1>13, <1>r, TurnSteps DEF Moves
    <2>2. messages' \in Seq(Turn!MessageKind)
      <3>1. Turn!Message("tool", t) \in Turn!MessageKind BY MessageIs
      <3> QED BY <1>13, <3>1 DEF Turn!EndTool, Turn!TypeOK
    <2>3. broken' \subseteq Turn!Turns BY <1>13 DEF Turn!EndTool, Turn!TypeOK
    <2> QED BY <1>13, <2>1, <2>2, <2>3 DEF Turn!EndTool, Turn!TypeOK
  <1>14. ASSUME NEW s \in speech, Turn!Play(s) PROVE Turn!TypeOK'
    <2>1. s.turn \in 0 .. MaxTurns BY DEF Turn!TypeOK, Turn!SpeechKind
    <2> QED BY <1>14, <2>1 DEF Turn!Play, Turn!TypeOK
  <1>15. ASSUME NEW s \in speech, Turn!EndSpeech(s) PROVE Turn!TypeOK'
    BY <1>15 DEF Turn!EndSpeech, Turn!TypeOK, Turn!history
  <1> QED BY <1>1, <1>2, <1>3, <1>4, <1>5, <1>6, <1>7, <1>8, <1>9, <1>10, <1>11, <1>12, <1>13,
       <1>14, <1>15 DEF Turn!Next

LEMMA MovesOn ==
  ASSUME Turn!TypeOK, NEW t \in Turn!Turns, turns[t].at # "idle",
         NEW at \in Places, NEW round, NEW calls, NEW sig, Moves(t, at, round, calls, sig)
  PROVE  /\ Turn!Begun' = Turn!Begun
         /\ at \notin {"tooling", "running"} => Turn!Tooling' = Turn!Tooling \ {t}
         /\ at \in {"tooling", "running"} => Turn!Tooling' = Turn!Tooling \cup {t}
  <1>1. \A u \in Turn!Turns : u # t => (u \in Turn!Begun' <=> u \in Turn!Begun) /\ (u \in Turn!Tooling' <=> u \in Turn!Tooling)
    BY DEF Moves, Turn!Begun, Turn!Tooling
  <1>2. t \in Turn!Begun /\ t \in Turn!Begun' BY DEF Moves, Turn!Begun, Places
  <1>3. t \in Turn!Tooling' <=> at \in {"tooling", "running"} BY DEF Moves, Turn!Tooling
  <1>4. Turn!Begun \subseteq Turn!Turns /\ Turn!Begun' \subseteq Turn!Turns /\ Turn!Tooling \subseteq Turn!Turns /\ Turn!Tooling' \subseteq Turn!Turns
    BY DEF Turn!Begun, Turn!Tooling
  <1> QED BY <1>1, <1>2, <1>3, <1>4

LEMMA TurnStarts ==
  ASSUME Turn!PipelineConstants, Turn!TypeOK, Turn!Signals, Turn!SpeechEnd
  PROVE  \E t \in Turn!Turns, at \in {"asking", "transcribing"} :
           /\ Turn!Begun = 1 .. t - 1 /\ Turn!Begun' = 1 .. t /\ Turn!Tooling' = Turn!Tooling
           /\ Moves(t, at, turns[t].round, turns[t].calls, turns[t].sig)
           /\ frame /\ frame' = FALSE /\ Turn!AbortPipeline /\ abort' = t /\ torn' = torn \cup Turn!Tooling
           /\ UNCHANGED <<session, greeting, speech, stream, messages, strays, parted, broken, stale, late>>
  <1>1. PICK t \in Turn!Turns :
          /\ Turn!Begun = 1 .. t - 1 /\ Turn!Goto(t, IF native THEN "asking" ELSE "transcribing")
          /\ frame /\ frame' = FALSE /\ Turn!AbortPipeline /\ abort' = t /\ torn' = torn \cup Turn!Tooling
          /\ UNCHANGED <<session, greeting, speech, stream, messages, strays, parted, broken, stale, late>>
    BY DEF Turn!SpeechEnd
  <1>2. PICK at \in {"asking", "transcribing"} : Moves(t, at, turns[t].round, turns[t].calls, turns[t].sig)
    <2>1. CASE native BY <1>1, <2>1, TurnBegins
    <2>2. CASE ~native BY <1>1, <2>2, TurnBegins
    <2> QED BY <2>1, <2>2
  <1>3. Turn!Begun' = 1 .. t
    <2>1. \A u \in Turn!Turns : u \in Turn!Begun' <=> (u \in Turn!Begun \/ u = t) BY <1>2 DEF Moves, Turn!Begun
    <2>2. Turn!Begun' \subseteq Turn!Turns BY DEF Turn!Begun
    <2>3. \A u \in 1 .. t : u \in Turn!Turns /\ (u \in 1 .. t - 1 \/ u = t) BY DEF Turn!Turns, Turn!PipelineConstants
    <2>4. \A u \in 1 .. t - 1 : u \in 1 .. t BY DEF Turn!Turns, Turn!PipelineConstants
    <2>5. t \in 1 .. t BY DEF Turn!Turns, Turn!PipelineConstants
    <2> QED BY <1>1, <2>1, <2>2, <2>3, <2>4, <2>5
  <1>4. Turn!Tooling' = Turn!Tooling
    <2>1. t \notin Turn!Begun BY <1>1 DEF Turn!Turns, Turn!PipelineConstants
    <2>2. t \notin Turn!Tooling BY <2>1 DEF Turn!Begun, Turn!Tooling
    <2>3. \A u \in Turn!Turns : u \in Turn!Tooling' <=> u \in Turn!Tooling BY <1>2,
         <2>2 DEF Moves, Turn!Tooling
    <2> QED BY <2>3 DEF Turn!Tooling
  <1> QED BY <1>1, <1>2, <1>3, <1>4

LEMMA SignalsStep ==
  ASSUME Turn!PipelineConstants, Turn!TypeOK, Turn!Signals, Turn!Next
  PROVE  Turn!Signals'
  <1> DEFINE Room(t) == turns[t].at \in {"tooling", "running"} \/ (turns[t].at = "last" /\ turns[t].calls)
                        => turns[t].round < MaxRounds
             Control == /\ abort = 0 \/ (abort \in Turn!Turns \ aborted /\ Turn!Begun = 1 .. abort)
                        /\ \A t \in Turn!Begun : t = abort \/ t \in aborted
                        /\ aborted \subseteq Turn!Begun
  <1>i. Control /\ (session = "none" => ~frame /\ Turn!Begun = {}) /\ \A t \in Turn!Turns : Room(t)
    BY DEF Turn!Signals
  <1>g. SUFFICES Control' /\ (session' = "none" => ~frame' /\ Turn!Begun' = {}) /\ \A t \in Turn!Turns : Room(t)'
    BY DEF Turn!Signals
  <1>s. /\ aborted \subseteq Turn!Turns /\ abort \in 0 .. MaxTurns
        /\ \A t \in Turn!Turns : turns[t].at = "running" => turns[t].round < MaxRounds
    BY <1>i DEF Turn!TypeOK
  \* A step that gives no turn the session's signal, and takes none away.
  <1>k. ASSUME UNCHANGED <<turns, abort, aborted>>, session' = "none" => session = "none" /\ frame' = frame
        PROVE  Control' /\ (session' = "none" => ~frame' /\ Turn!Begun' = {}) /\ \A t \in Turn!Turns : Room(t)'
    <2>1. Turn!Begun' = Turn!Begun BY <1>k DEF Turn!Begun
    <2> QED BY <1>i, <1>k, <2>1
  \* One that takes the signal away.
  <1>a. ASSUME turns' = turns, Turn!AbortPipeline, abort' = 0, session' # "none"
        PROVE  Control' /\ (session' = "none" => ~frame' /\ Turn!Begun' = {}) /\ \A t \in Turn!Turns : Room(t)'
    <2>1. Turn!Begun' = Turn!Begun BY <1>a DEF Turn!Begun
    <2>2. abort # 0 => abort \in Turn!Begun
      <3>1. abort # 0 => abort \in 1 .. abort BY <1>s DEF Turn!PipelineConstants
      <3> QED BY <1>i, <3>1
    <2>3. aborted' = IF abort = 0 THEN aborted ELSE aborted \cup {abort} BY <1>a
         DEF Turn!AbortPipeline
    <2>4. \A t \in Turn!Begun : t # 0 BY DEF Turn!Begun, Turn!Turns
    <2> QED BY <1>i, <1>a, <2>1, <2>2, <2>3, <2>4
  \* One by which a turn goes on.
  <1>m. ASSUME NEW t \in Turn!Turns, turns[t].at # "idle",
               NEW at \in Places, NEW round \in Nat, NEW calls \in BOOLEAN, NEW sig,
               Moves(t, at, round, calls, sig),
               at \in {"tooling", "running"} \/ (at = "last" /\ calls) => round < MaxRounds,
               UNCHANGED <<abort, aborted, session, frame>>
        PROVE  Control' /\ (session' = "none" => ~frame' /\ Turn!Begun' = {}) /\ \A u \in Turn!Turns : Room(u)'
    <2>1. Turn!Begun' = Turn!Begun BY <1>m, MovesOn
    <2>2. \A u \in Turn!Turns : Room(u)' BY <1>i, <1>m DEF Moves
    <2> QED BY <1>i, <1>m, <2>1, <2>2
  <1>1. CASE Turn!Create \/ Turn!Greet \/ Turn!Frame BY <1>k,
       <1>1 DEF Turn!Create, Turn!Greet, Turn!Frame, Turn!history
  <1>2. CASE Turn!Close BY <1>a, <1>2 DEF Turn!Close
  <1>3. CASE Turn!SpeechStart
    <2>1. session # "none" /\ session' = session /\ turns' = turns BY <1>i,
         <1>3 DEF Turn!SpeechStart
    <2>2. CASE speaking BY <1>a, <1>3, <2>1, <2>2 DEF Turn!SpeechStart
    <2>3. CASE ~speaking BY <1>k, <1>3, <2>1, <2>3 DEF Turn!SpeechStart
    <2> QED BY <2>2, <2>3
  <1>4. CASE Turn!SpeechEnd
    <2>1. PICK t \in Turn!Turns, at \in {"asking", "transcribing"} :
            /\ Turn!Begun = 1 .. t - 1 /\ Turn!Begun' = 1 .. t /\ Turn!Tooling' = Turn!Tooling
            /\ Moves(t, at, turns[t].round, turns[t].calls, turns[t].sig)
            /\ frame /\ Turn!AbortPipeline /\ abort' = t /\ session' = session
      BY <1>4, TurnStarts
    <2>2. session' # "none" BY <1>i, <2>1
    <2>3. aborted' = IF abort = 0 THEN aborted ELSE aborted \cup {abort} BY <2>1
         DEF Turn!AbortPipeline
    <2>4. abort # 0 => abort \in Turn!Begun
      <3>1. abort # 0 => abort \in 1 .. abort BY <1>s DEF Turn!PipelineConstants
      <3> QED BY <1>i, <3>1
    <2>5. aborted' \subseteq Turn!Begun BY <1>i, <2>3, <2>4
    <2>6. Turn!Begun \subseteq Turn!Begun' /\ t \notin Turn!Begun /\ \A u \in Turn!Begun' : u \in Turn!Begun \/ u = t
      BY <2>1 DEF Turn!Turns, Turn!PipelineConstants
    <2>7. \A u \in Turn!Begun : u \in aborted'
      <3>1. \A u \in Turn!Begun : u # 0 BY DEF Turn!Begun, Turn!Turns
      <3> QED BY <1>i, <2>3, <3>1
    <2>8. \A u \in Turn!Turns : Room(u)' BY <1>i, <2>1 DEF Moves
    <2> QED BY <2>1, <2>2, <2>5, <2>6, <2>7, <2>8
  <1>5. ASSUME NEW t \in Turn!Turns, NEW b \in BOOLEAN, Turn!Transcribe(t, b)
        PROVE  Control' /\ (session' = "none" => ~frame' /\ Turn!Begun' = {}) /\ \A u \in Turn!Turns : Room(u)'
    <2>1. PICK at \in {"asking", "over"} : Moves(t, at, turns[t].round, turns[t].calls, turns[t].sig)
      BY <1>5, <1>s, TurnSteps
    <2>2. turns[t].at # "idle" /\ UNCHANGED <<abort, aborted, session, frame>> BY <1>5
         DEF Turn!Transcribe
    <2> QED BY <1>m, <2>1, <2>2, TurnIs DEF Places
  <1>6. ASSUME NEW t \in Turn!Turns, Turn!Ask(t)
        PROVE  Control' /\ (session' = "none" => ~frame' /\ Turn!Begun' = {}) /\ \A u \in Turn!Turns : Room(u)'
    <2>1. PICK at \in {"streaming", "over"} : Moves(t, at, turns[t].round, turns[t].calls, turns[t].sig)
      BY <1>6, <1>s, TurnSteps
    <2>2. turns[t].at # "idle" /\ UNCHANGED <<abort, aborted, session, frame>> BY <1>6
         DEF Turn!Ask
    <2> QED BY <1>m, <2>1, <2>2, TurnIs DEF Places
  <1>7. ASSUME NEW t \in Turn!Turns, Turn!Sentence(t)
        PROVE  Control' /\ (session' = "none" => ~frame' /\ Turn!Begun' = {}) /\ \A u \in Turn!Turns : Room(u)'
    BY <1>k, <1>7 DEF Turn!Sentence, Turn!history
  <1>8. ASSUME NEW t \in Turn!Turns, NEW b \in BOOLEAN, Turn!EndStream(t, b)
        PROVE  Control' /\ (session' = "none" => ~frame' /\ Turn!Begun' = {}) /\ \A u \in Turn!Turns : Room(u)'
    <2>1. turns[t].at # "idle" /\ UNCHANGED <<abort, aborted, session, frame>> BY <1>8
         DEF Turn!EndStream
    <2>2. CASE Moves(t, "over", turns[t].round, turns[t].calls, turns[t].sig) BY <1>m, <2>1, <2>2, TurnIs DEF Places
    <2>3. ASSUME NEW c \in BOOLEAN, c => turns[t].round < MaxRounds,
                 Moves(t, "last", turns[t].round, c, turns[t].sig)
          PROVE  Control' /\ (session' = "none" => ~frame' /\ Turn!Begun' = {}) /\ \A u \in Turn!Turns : Room(u)'
      BY <1>m, <2>1, <2>3, TurnIs DEF Places
    <2> QED BY <1>8, <1>s, <2>2, <2>3, TurnSteps
  <1>9. ASSUME NEW t \in Turn!Turns, Turn!Settle(t)
        PROVE  Control' /\ (session' = "none" => ~frame' /\ Turn!Begun' = {}) /\ \A u \in Turn!Turns : Room(u)'
    <2>1. turns[t].at = "last" /\ UNCHANGED <<abort, aborted, session, frame>> BY <1>9
         DEF Turn!Settle
    <2>2. CASE Moves(t, "over", turns[t].round, turns[t].calls, turns[t].sig) BY <1>m, <2>1, <2>2, TurnIs DEF Places
    <2>3. CASE turns[t].calls /\ Moves(t, "tooling", turns[t].round, turns[t].calls, abort)
      <3>1. turns[t].round < MaxRounds BY <1>i, <2>1, <2>3
      <3>2. turns[t].round \in Nat /\ turns[t].calls \in BOOLEAN /\ "tooling" \in Places /\ turns[t].at # "idle"
        BY <2>1, TurnIs DEF Places
      <3> HIDE DEF Control, Room
      <3> QED BY <1>m, <2>1, <2>3, <3>1, <3>2
    <2> QED BY <1>9, <1>s, <2>2, <2>3, TurnSteps
  <1>10. ASSUME NEW t \in Turn!Turns, Turn!StartTool(t)
        PROVE  Control' /\ (session' = "none" => ~frame' /\ Turn!Begun' = {}) /\ \A u \in Turn!Turns : Room(u)'
    <2>1. turns[t].at = "tooling" /\ UNCHANGED <<abort, aborted, session, frame>> BY <1>10
         DEF Turn!StartTool
    <2>2. PICK at \in {"running", "over"} : Moves(t, at, turns[t].round, turns[t].calls, turns[t].sig)
      BY <1>10, <1>s, TurnSteps
    <2>3. turns[t].round < MaxRounds BY <1>i, <2>1
    <2> QED BY <1>m, <2>1, <2>2, <2>3, TurnIs DEF Places
  <1>11. ASSUME NEW t \in Turn!Turns, (\E b \in BOOLEAN : Turn!EndTool(t, b))
        PROVE  Control' /\ (session' = "none" => ~frame' /\ Turn!Begun' = {}) /\ \A u \in Turn!Turns : Room(u)'
    <2>1. turns[t].at # "idle" /\ UNCHANGED <<abort, aborted, session, frame>> BY <1>11
         DEF Turn!EndTool
    <2>2. CASE Moves(t, "over", turns[t].round, turns[t].calls, turns[t].sig) BY <1>m, <2>1, <2>2, TurnIs DEF Places
    <2>3. CASE Moves(t, "streaming", turns[t].round + 1, turns[t].calls, turns[t].sig)
      <3>1. turns[t].round + 1 \in Nat BY TurnIs
      <3> QED BY <1>m, <2>1, <2>3, <3>1, TurnIs DEF Places
    <2> QED BY <1>11, <1>s, <2>2, <2>3, TurnSteps
  <1>12. ASSUME NEW s \in speech, Turn!Play(s) \/ Turn!EndSpeech(s)
        PROVE  Control' /\ (session' = "none" => ~frame' /\ Turn!Begun' = {}) /\ \A u \in Turn!Turns : Room(u)'
    BY <1>k, <1>12 DEF Turn!Play, Turn!EndSpeech, Turn!history
  <1> QED BY <1>1, <1>2, <1>3, <1>4, <1>5, <1>6, <1>7, <1>8, <1>9, <1>10, <1>11,
       <1>12 DEF Turn!Next

\* A turn that still speaks has the session's signal, unless it has been interrupted before.
LEMMA NotSilenced ==
  ASSUME Turn!PipelineConstants, Turn!TypeOK, Turn!Signals, Turn!OwnSignal, NEW t \in Turn!Begun, ~Turn!Silenced(t)
  PROVE  t \in strays \/ t = abort
  <1>1. t \in Turn!Turns /\ turns[t].round \in 0 .. MaxRounds BY TurnIs DEF Turn!Begun
  <1>2. CASE turns[t].round = 0 BY <1>2 DEF Turn!Silenced, Turn!Signals
  <1>3. CASE turns[t].round # 0 /\ t \notin strays
    <2>1. turns[t].sig = t BY <1>1, <1>3 DEF Turn!OwnSignal
    <2> QED BY <1>3, <2>1 DEF Turn!Silenced, Turn!Signals
  <1> QED BY <1>2, <1>3

LEMMA OwnSignalStep ==
  ASSUME Turn!PipelineConstants, Turn!TypeOK, Turn!Signals, Turn!OwnSignal, Turn!Next
  PROVE  Turn!OwnSignal'
  <1> DEFINE Own(t)  == turns[t].round > 0 \/ t \in Turn!Tooling => turns[t].sig = t
             Mine(s) == /\ s.turn \in Turn!Begun \cup {0}
                        /\ s.turn \in strays \cup {0} \/ s.sig = s.turn
  <1>i. (\A t \in Turn!Turns \ strays : Own(t)) /\ \A s \in speech : Mine(s) BY DEF Turn!OwnSignal
  <1>g. SUFFICES (\A t \in Turn!Turns \ strays' : Own(t)') /\ \A s \in speech' : Mine(s)' BY DEF Turn!OwnSignal
  <1>s. \A t \in Turn!Turns : turns[t].at = "running" => turns[t].round < MaxRounds BY DEF Turn!Signals
  \* A step that moves no turn.
  <1>k. ASSUME turns' = turns, strays \subseteq strays', speech' \subseteq speech
        PROVE  (\A t \in Turn!Turns \ strays' : Own(t)') /\ \A s \in speech' : Mine(s)'
    <2>1. Turn!Begun' = Turn!Begun /\ Turn!Tooling' = Turn!Tooling BY <1>k
         DEF Turn!Begun, Turn!Tooling
    <2> QED BY <1>i, <1>k, <2>1
  \* One by which a turn goes on.
  <1>m. ASSUME NEW t \in Turn!Turns, turns[t].at # "idle",
               NEW at \in Places, NEW round, NEW calls, NEW sig, Moves(t, at, round, calls, sig),
               strays \subseteq strays',
               t \notin strays' /\ (round > 0 \/ at \in {"tooling", "running"}) => sig = t
        PROVE  /\ \A u \in Turn!Turns \ strays' : Own(u)'
               /\ \A s \in speech : Mine(s)'
    <2>1. Turn!Begun' = Turn!Begun BY <1>m, MovesOn
    <2>2. \A u \in Turn!Turns : u # t => turns'[u] = turns[u] /\ (u \in Turn!Tooling' <=> u \in Turn!Tooling)
      BY <1>m DEF Moves, Turn!Tooling
    <2>3. t \in Turn!Tooling' => at \in {"tooling", "running"} BY <1>m DEF Moves,
         Turn!Tooling
    <2>4. turns'[t].round = round /\ turns'[t].sig = sig BY <1>m DEF Moves
    <2>5. \A u \in Turn!Turns \ strays' : Own(u)' BY <1>i, <1>m, <2>2, <2>3, <2>4
    <2> QED BY <1>i, <1>m, <2>1, <2>5
  \* Who speaks.
  <1>p. ASSUME NEW t \in Turn!Turns, turns[t].at = "streaming", ~Turn!Silenced(t), Turn!Speak(t), strays' = strays, Turn!Begun' = Turn!Begun
        PROVE  \A s \in speech' : s \in speech \/ Mine(s)'
    <2>1. t \in Turn!Begun BY <1>p DEF Turn!Begun
    <2>2. t \in strays \/ t = abort BY <1>p, <2>1, NotSilenced
    <2>3. \A s \in speech' : s \in speech \/ (s.turn = t /\ s.sig = abort)
      BY <1>p, Speaks DEF Turn!PipelineConstants
    <2> QED BY <1>p, <2>1, <2>2, <2>3
  <1>1. CASE Turn!Create \/ Turn!Close \/ Turn!Frame \/ Turn!SpeechStart
    BY <1>k, <1>1 DEF Turn!Create, Turn!Close, Turn!Frame, Turn!SpeechStart,
         Turn!history
  <1>2. CASE Turn!Greet
    <2>1. turns' = turns /\ strays' = strays /\ Turn!Begun' = Turn!Begun /\ Turn!Tooling' = Turn!Tooling
      BY <1>2 DEF Turn!Greet, Turn!history, Turn!Begun, Turn!Tooling
    <2>2. \A s \in speech' : s \in speech \/ s.turn = 0
      <3>1. CASE Turn!Speak(0) BY <3>1, Speaks DEF Turn!PipelineConstants
      <3>2. CASE Turn!Quiet BY <3>2 DEF Turn!Quiet
      <3> QED BY <1>2, <3>1, <3>2 DEF Turn!Greet
    <2> QED BY <1>i, <2>1, <2>2
  <1>4. CASE Turn!SpeechEnd
    <2>1. PICK t \in Turn!Turns, at \in {"asking", "transcribing"} :
            /\ Turn!Begun = 1 .. t - 1 /\ Turn!Begun' = 1 .. t /\ Turn!Tooling' = Turn!Tooling
            /\ Moves(t, at, turns[t].round, turns[t].calls, turns[t].sig)
            /\ speech' = speech /\ strays' = strays
      BY <1>4, TurnStarts
    <2>2. Turn!Begun \subseteq Turn!Begun' BY <2>1 DEF Turn!Turns,
         Turn!PipelineConstants
    <2>3. \A u \in Turn!Turns : turns'[u].round = turns[u].round /\ turns'[u].sig = turns[u].sig BY <2>1 DEF Moves
    <2> QED BY <1>i, <2>1, <2>2, <2>3
  <1>5. ASSUME NEW t \in Turn!Turns, (\E b \in BOOLEAN : Turn!Transcribe(t, b)) \/ Turn!Ask(t) \/ Turn!StartTool(t)
        PROVE  (\A u \in Turn!Turns \ strays' : Own(u)') /\ \A s \in speech' : Mine(s)'
    <2>1. PICK at \in {"asking", "streaming", "running", "over"} :
               /\ Moves(t, at, turns[t].round, turns[t].calls, turns[t].sig)
               /\ at = "running" => turns[t].at = "tooling"
      <3>1. CASE \E b \in BOOLEAN : Turn!Transcribe(t, b) BY <1>s, <3>1, TurnSteps
      <3>2. CASE Turn!Ask(t) BY <1>s, <3>2, TurnSteps
      <3>3. CASE Turn!StartTool(t)
        <4>1. turns[t].at = "tooling" BY <3>3 DEF Turn!StartTool
        <4> QED BY <1>s, <3>3, <4>1, TurnSteps
      <3> QED BY <1>5, <3>1, <3>2, <3>3
    <2>2. turns[t].at # "idle" /\ UNCHANGED <<speech, strays>>
      BY <1>5 DEF Turn!Transcribe, Turn!Ask, Turn!StartTool, Turn!history
    <2>3. t \notin strays /\ (turns[t].round > 0 \/ at \in {"tooling", "running"}) => turns[t].sig = t
      <3>1. at \in {"tooling", "running"} => t \in Turn!Tooling BY <2>1 DEF Turn!Tooling
      <3> QED BY <1>i, <3>1
    <2>4. at \in Places BY DEF Places
    <2>5. (\A u \in Turn!Turns \ strays' : Own(u)') /\ \A s \in speech : Mine(s)'
      <3> HIDE DEF Own, Mine
      <3> QED BY <1>m, <2>1, <2>2, <2>3, <2>4
    <2> QED BY <2>2, <2>5
  <1>6. ASSUME NEW t \in Turn!Turns, Turn!Sentence(t)
        PROVE  (\A u \in Turn!Turns \ strays' : Own(u)') /\ \A s \in speech' : Mine(s)'
    <2>1. turns' = turns /\ strays' = strays /\ Turn!Begun' = Turn!Begun /\ Turn!Tooling' = Turn!Tooling
      BY <1>6 DEF Turn!Sentence, Turn!history, Turn!Begun, Turn!Tooling
    <2>2. \A s \in speech' : s \in speech \/ Mine(s)' BY <1>6, <1>p, <2>1 DEF Turn!Sentence
    <2> QED BY <1>i, <2>1, <2>2
  <1>7. ASSUME NEW t \in Turn!Turns, NEW b \in BOOLEAN, Turn!EndStream(t, b)
        PROVE  (\A u \in Turn!Turns \ strays' : Own(u)') /\ \A s \in speech' : Mine(s)'
    <2>1. turns[t].at = "streaming" /\ strays' = strays BY <1>7 DEF Turn!EndStream,
         Turn!history
    <2>2. PICK at \in {"over", "last"}, c \in BOOLEAN : Moves(t, at, turns[t].round, c, turns[t].sig)
      BY <1>7, <1>s, TurnSteps, TurnIs
    <2>3. t \notin strays /\ (turns[t].round > 0 \/ at \in {"tooling", "running"}) => turns[t].sig = t BY <1>i
    <2>4. at \in Places BY DEF Places
    <2>5. (\A u \in Turn!Turns \ strays' : Own(u)') /\ \A s \in speech : Mine(s)'
      <3> HIDE DEF Own, Mine
      <3> QED BY <1>m, <2>1, <2>2, <2>3, <2>4
    <2>6. Turn!Begun' = Turn!Begun BY <2>1, <2>2, <2>4, MovesOn
    <2>7. CASE Turn!Silenced(t)
      <3>1. speech' = speech BY <1>7, <2>7 DEF Turn!EndStream, Turn!Quiet
      <3> QED BY <2>5, <3>1
    <2>8. CASE ~Turn!Silenced(t)
      <3>1. Turn!Speak(t) BY <1>7, <2>8 DEF Turn!EndStream
      <3>2. \A s \in speech' : s \in speech \/ Mine(s)' BY <1>p, <2>1, <2>6, <2>8, <3>1
      <3> QED BY <2>5, <3>2
    <2> QED BY <2>7, <2>8
  <1>8. ASSUME NEW t \in Turn!Turns, Turn!Settle(t)
        PROVE  (\A u \in Turn!Turns \ strays' : Own(u)') /\ \A s \in speech' : Mine(s)'
    <2>1. turns[t].at = "last" /\ strays \subseteq strays' /\ speech' = speech /\ (t \notin strays' => abort = t)
      BY <1>8 DEF Turn!Settle
    <2>2. PICK at \in {"over", "tooling"}, sig \in {abort, turns[t].sig} :
                 /\ Moves(t, at, turns[t].round, turns[t].calls, sig)
                 /\ sig = abort \/ (at = "over" /\ sig = turns[t].sig)
      BY <1>8, <1>s, TurnSteps
    <2>3. t \notin strays' /\ (turns[t].round > 0 \/ at \in {"tooling", "running"}) => sig = t
      <3>1. t \notin strays' => t \notin strays BY <2>1
      <3>2. t \notin strays /\ turns[t].round > 0 => turns[t].sig = t BY <1>i
      <3> QED BY <2>1, <2>2, <3>1, <3>2
    <2>4. at \in Places /\ turns[t].at # "idle" BY <2>1 DEF Places
    <2>5. (\A u \in Turn!Turns \ strays' : Own(u)') /\ \A s \in speech : Mine(s)'
      <3> HIDE DEF Own, Mine
      <3> QED BY <1>m, <2>1, <2>2, <2>3, <2>4
    <2> QED BY <2>1, <2>5
  <1>9. ASSUME NEW t \in Turn!Turns, (\E b \in BOOLEAN : Turn!EndTool(t, b))
        PROVE  (\A u \in Turn!Turns \ strays' : Own(u)') /\ \A s \in speech' : Mine(s)'
    <2>1. turns[t].at = "running" /\ UNCHANGED <<speech, strays>> BY <1>9 DEF Turn!EndTool
    <2>2. PICK at \in {"over", "streaming"}, round \in {turns[t].round, turns[t].round + 1} : Moves(t, at, round, turns[t].calls, turns[t].sig)
      BY <1>9, <1>s, TurnSteps
    <2>3. t \notin strays => turns[t].sig = t
      <3>1. t \in Turn!Tooling BY <2>1 DEF Turn!Tooling
      <3> QED BY <1>i, <3>1
    <2>4. at \in Places /\ turns[t].at # "idle" BY <2>1 DEF Places
    <2>5. (\A u \in Turn!Turns \ strays' : Own(u)') /\ \A s \in speech : Mine(s)'
      <3> HIDE DEF Own, Mine
      <3> QED BY <1>m, <2>1, <2>2, <2>3, <2>4
    <2> QED BY <2>1, <2>5
  <1>10. ASSUME NEW s \in speech, Turn!Play(s) \/ Turn!EndSpeech(s)
         PROVE  (\A u \in Turn!Turns \ strays' : Own(u)') /\ \A r \in speech' : Mine(r)'
    BY <1>k, <1>10 DEF Turn!Play, Turn!EndSpeech, Turn!history
  <1> QED BY <1>1, <1>2, <1>4, <1>5, <1>6, <1>7, <1>8, <1>9, <1>10 DEF Turn!Next

LEMMA ClosedStep ==
  ASSUME Turn!PipelineConstants, Turn!TypeOK, Turn!Signals, Turn!OwnSignal, Turn!Closed, Turn!Next
  PROVE  Turn!Closed'
  <1> DEFINE Shut == session = "closed" /\ late = {}
             Left == ~frame /\ greeting # "cdr" /\ abort = 0 /\ (strays = {} => ~stream)
  <1>i. Shut => Left BY DEF Turn!Closed
  <1>g. SUFFICES ASSUME Shut' PROVE Left' BY DEF Turn!Closed
  <1>s. stream \in BOOLEAN BY DEF Turn!TypeOK
  <1>1. CASE Turn!Create \/ Turn!Frame BY <1>g, <1>1 DEF Turn!Create, Turn!Frame
  <1>2. CASE Turn!Greet BY <1>g, <1>i, <1>2 DEF Turn!Greet, Turn!history
  <1>3. CASE Turn!Close
    <2>1. late' = (IF frame THEN {"frame"} ELSE {}) \cup (IF greeting = "cdr" THEN {"greeting"} ELSE {})
          /\ UNCHANGED <<greeting, frame>> /\ abort' = 0 /\ stream' = FALSE
      BY <1>3 DEF Turn!Close
    <2>2. ~frame /\ greeting # "cdr" BY <1>g, <2>1
    <2> QED BY <2>1, <2>2
  <1>4. CASE Turn!SpeechStart \/ Turn!SpeechEnd BY <1>g, <1>i,
       <1>4 DEF Turn!SpeechStart, Turn!SpeechEnd
  <1>5. ASSUME UNCHANGED <<session, late, frame, greeting, abort, stream>>, strays \subseteq strays'
        PROVE  Left'
    BY <1>g, <1>i, <1>5
  <1>6. ASSUME NEW t \in Turn!Turns, (\E b \in BOOLEAN : Turn!Transcribe(t, b)) \/ Turn!Ask(t) \/ Turn!Settle(t) \/ Turn!StartTool(t) \/ (\E b \in BOOLEAN : Turn!EndTool(t, b))
        PROVE  Left'
    BY <1>5, <1>6 DEF Turn!Transcribe, Turn!Ask, Turn!Settle, Turn!StartTool,
         Turn!EndTool, Turn!history
  <1>7. ASSUME NEW t \in Turn!Turns, Turn!Sentence(t) \/ \E b \in BOOLEAN : Turn!EndStream(t, b) PROVE Left'
    <2>1. UNCHANGED <<session, late, frame, greeting, abort, strays>> /\ turns[t].at = "streaming"
      BY <1>7 DEF Turn!Sentence, Turn!EndStream, Turn!history
    <2>2. CASE Turn!Silenced(t)
      <3>1. stream' = stream BY <1>7, <2>2 DEF Turn!Sentence, Turn!EndStream, Turn!Quiet
      <3> QED BY <1>5, <2>1, <3>1
    <2>3. CASE ~Turn!Silenced(t)
      <3>1. t \in Turn!Begun BY <2>1 DEF Turn!Begun
      <3>2. abort = 0 /\ t # 0 BY <1>g, <1>i, <2>1 DEF Turn!Turns
      <3>3. t \in strays BY <2>3, <3>1, <3>2, NotSilenced
      <3> QED BY <1>g, <1>i, <2>1, <3>3
    <2> QED BY <2>2, <2>3
  <1>8. ASSUME NEW s \in speech, Turn!Play(s) \/ Turn!EndSpeech(s) PROVE Left'
    BY <1>5, <1>8 DEF Turn!Play, Turn!EndSpeech, Turn!history
  <1> QED BY <1>1, <1>2, <1>3, <1>4, <1>6, <1>7, <1>8 DEF Turn!Next

LEMMA StaleStep ==
  ASSUME Turn!PipelineConstants, Turn!TypeOK, Turn!Signals, Turn!OwnSignal, Turn!NoStaleAudio, Turn!Next
  PROVE  Turn!NoStaleAudio'
  <1>1. ASSUME stale' = stale, strays \subseteq strays' PROVE Turn!NoStaleAudio' BY <1>1 DEF Turn!NoStaleAudio
  <1>2. ASSUME NEW s \in speech, Turn!Play(s) PROVE Turn!NoStaleAudio'
    <2>1. s.sig \notin aborted /\ strays' = strays
          /\ stale' = IF \E t \in Turn!Begun : t > s.turn THEN stale \cup {s.turn} ELSE stale
      BY <1>2 DEF Turn!Play
    <2>2. ASSUME NEW t \in Turn!Begun, t > s.turn PROVE s.turn \in strays \cup {0}
      <3>1. SUFFICES ASSUME s.turn \notin strays \cup {0} PROVE FALSE OBVIOUS
      <3>2. s.sig = s.turn /\ s.turn \in Turn!Begun BY <3>1 DEF Turn!OwnSignal
      <3>3. s.turn = abort BY <2>1, <3>2 DEF Turn!Signals
      <3>4. abort # 0 => Turn!Begun = 1 .. abort BY DEF Turn!Signals
      <3>5. t \in 1 .. abort /\ abort \in Nat
        <4>1. abort # 0 BY <3>1, <3>3
        <4> QED BY <3>4, <4>1 DEF Turn!TypeOK, Turn!PipelineConstants
      <3> QED BY <2>2, <3>3, <3>5
    <2> QED BY <2>1, <2>2 DEF Turn!NoStaleAudio
  <1>3. CASE Turn!Create \/ Turn!Greet \/ Turn!Close \/ Turn!Frame \/ Turn!SpeechStart \/ Turn!SpeechEnd
    BY <1>1, <1>3 DEF Turn!Create, Turn!Greet, Turn!Close, Turn!Frame,
         Turn!SpeechStart, Turn!SpeechEnd, Turn!history
  <1>4. ASSUME NEW t \in Turn!Turns, \/ \E b \in BOOLEAN : Turn!Transcribe(t, b) \/ Turn!EndStream(t, b)
                                     \/ Turn!Ask(t) \/ Turn!Sentence(t) \/ Turn!Settle(t) \/ Turn!StartTool(t) \/ (\E b \in BOOLEAN : Turn!EndTool(t, b))
        PROVE  Turn!NoStaleAudio'
    BY <1>1, <1>4 DEF Turn!Transcribe, Turn!EndStream, Turn!Ask, Turn!Sentence,
         Turn!Settle, Turn!StartTool, Turn!EndTool, Turn!history
  <1>5. ASSUME NEW s \in speech, Turn!EndSpeech(s) PROVE Turn!NoStaleAudio'
    BY <1>1, <1>5 DEF Turn!EndSpeech, Turn!history
  <1> QED BY <1>2, <1>3, <1>4, <1>5 DEF Turn!Next

\* A conversation that waits for no result is one the model accepts.
LEMMA WellFormedIs ==
  ASSUME NEW ms \in Seq(Turn!MessageKind), Turn!Chained(ms), ms # <<>> => ms[Len(ms)].role # "call"
  PROVE  Turn!WellFormed(ms)
  <1>1. DOMAIN ms = 1 .. Len(ms) /\ Len(ms) \in Nat OBVIOUS
  <1>2. ASSUME NEW i \in 1 .. Len(ms), ms[i].role = "call" PROVE i < Len(ms)
    <2>1. ms # <<>> BY <1>1
    <2>2. i # Len(ms) BY <1>2, <2>1
    <2>3. Len(ms) \in Nat BY <1>1
    <2> QED BY <1>2, <2>2, <2>3
  <1> QED BY <1>1, <1>2 DEF Turn!Chained, Turn!WellFormed

LEMMA DialogueStep ==
  ASSUME Turn!PipelineConstants, Turn!TypeOK, Turn!Signals, Turn!OwnSignal, Turn!Dialogue, Turn!Next
  PROVE  Turn!Dialogue'
  <1> DEFINE Waits == messages # <<>> /\ messages[Len(messages)].role = "call"
             Asked(t) == messages # <<>> /\ messages[Len(messages)] = Turn!Message("call", t)
             Good == /\ broken = {} /\ Turn!Tooling \subseteq {abort} /\ Turn!Chained(messages)
                     /\ Waits => Turn!Tooling # {}
                     /\ \A t \in Turn!Tooling : Asked(t)
  <1>s. \A t \in Turn!Turns : turns[t].at = "running" => turns[t].round < MaxRounds BY DEF Turn!Signals
  <1>g. SUFFICES ASSUME ~parted', torn' = {}, strays' = {}, mute' = {} PROVE Good' BY DEF Turn!Dialogue
  <1>h. ~parted /\ torn = {} /\ strays = {} /\ mute = {}
    <2>1. CASE Turn!Create \/ Turn!Greet \/ Turn!Close \/ Turn!Frame \/ Turn!SpeechStart \/ Turn!SpeechEnd
      BY <1>g, <2>1 DEF Turn!Create, Turn!Greet, Turn!Close, Turn!Frame,
           Turn!SpeechStart, Turn!SpeechEnd, Turn!history
    <2>2. ASSUME NEW t \in Turn!Turns, NEW b \in BOOLEAN, Turn!Transcribe(t, b) PROVE ~parted /\ torn = {} /\ strays = {} /\ mute = {}
      <3>1. Turn!Say("user", t) \/ parted' = parted BY <2>2 DEF Turn!Transcribe
      <3> QED BY <1>g, <2>2, <3>1, Says DEF Turn!Transcribe
    <2>3. ASSUME NEW t \in Turn!Turns, Turn!Settle(t) PROVE ~parted /\ torn = {} /\ strays = {} /\ mute = {}
      <3>1. Turn!Say("call", t) \/ Turn!Say("reply", t) BY <2>3 DEF Turn!Settle
      <3>2. ~parted BY <1>g, <3>1, Says
      <3> QED BY <1>g, <2>3, <3>2 DEF Turn!Settle
    <2>4. ASSUME NEW t \in Turn!Turns, (\E b \in BOOLEAN : Turn!EndStream(t, b)) \/ Turn!Ask(t) \/ Turn!Sentence(t) \/ Turn!StartTool(t) \/ (\E b \in BOOLEAN : Turn!EndTool(t, b))
          PROVE  ~parted /\ torn = {} /\ strays = {} /\ mute = {}
      BY <1>g, <2>4 DEF Turn!EndStream, Turn!Ask, Turn!Sentence, Turn!StartTool,
           Turn!EndTool, Turn!history
    <2>5. ASSUME NEW s \in speech, Turn!Play(s) \/ Turn!EndSpeech(s) PROVE ~parted /\ torn = {} /\ strays = {} /\ mute = {}
      BY <1>g, <2>5 DEF Turn!Play, Turn!EndSpeech, Turn!history
    <2> QED BY <2>1, <2>2, <2>3, <2>4, <2>5 DEF Turn!Next
  <1>i. Good BY <1>h DEF Turn!Dialogue
  <1>a. \A t \in Turn!Tooling : t = abort /\ t \notin aborted /\ t \in Turn!Turns /\ turns[t].sig = t
    <2>1. \A t \in Turn!Tooling : t \in Turn!Turns /\ t # 0 BY DEF Turn!Tooling,
         Turn!Turns
    <2>2. \A t \in Turn!Tooling : turns[t].sig = t BY <1>h, <2>1 DEF Turn!OwnSignal
    <2> QED BY <1>i, <2>1, <2>2 DEF Turn!Signals
  \* A turn that is not aborted and has no tools under way finds none of another's.
  <1>b. ASSUME NEW t \in Turn!Begun, t \notin aborted, t \notin Turn!Tooling PROVE Turn!Tooling = {}
    BY <1>a, <1>b DEF Turn!Signals
  <1>c. Turn!Tooling = {} => ~Waits BY <1>i
  \* A step that adds no message, and moves no turn to or from its tools.
  <1>k. ASSUME UNCHANGED <<messages, abort, broken>>, Turn!Tooling' = Turn!Tooling,
               \A t \in Turn!Tooling : turns'[t].round = turns[t].round
        PROVE  Good'
    <2>1. \A t \in Turn!Tooling : Turn!Message("call", t)' = Turn!Message("call", t) BY <1>k DEF Turn!Message
    <2> HIDE DEF Waits
    <2>2. Waits' = Waits BY <1>k DEF Waits
    <2> QED BY <1>i, <1>k, <2>1, <2>2 DEF Turn!Chained
  \* One after which no turn has tools under way.
  <1>n. ASSUME Turn!Tooling' = {}, broken' = {}, Turn!Chained(messages'), ~Waits' PROVE Good'
    BY <1>n
  \* One by which a turn goes on and says nothing.
  <1>m. ASSUME NEW t \in Turn!Turns, turns[t].at # "idle", NEW at \in Places, NEW calls, NEW sig,
               Moves(t, at, turns[t].round, calls, sig),
               at \in {"tooling", "running"} <=> t \in Turn!Tooling,
               UNCHANGED <<messages, abort, broken>>
        PROVE  Good'
    <2>1. Turn!Tooling' = Turn!Tooling BY <1>m, MovesOn
    <2>2. \A u \in Turn!Turns : turns'[u].round = turns[u].round BY <1>m DEF Moves
    <2>3. Turn!Tooling \subseteq Turn!Turns BY DEF Turn!Tooling
    <2> QED BY <1>k, <1>m, <2>1, <2>2, <2>3
  <1>1. CASE Turn!Create
    <2>1. Turn!Tooling = {} BY <1>1 DEF Turn!Create, Turn!Signals, Turn!Begun,
         Turn!Tooling
    <2>2. Turn!Tooling' = {} BY <1>1, <2>1 DEF Turn!Create, Turn!Tooling
    <2>3. broken' = {} BY <1>1, <1>i DEF Turn!Create, Turn!history
    <2> DEFINE first == [role |-> "system", turn |-> 0, round |-> 0]
    <2>4. messages' = <<first>> /\ first.role = "system" BY <1>1 DEF Turn!Create
    <2>5. Turn!Chained(messages') /\ ~Waits'
      <3> HIDE DEF first
      <3>1. messages'[1].role = "system" /\ DOMAIN messages' = {1} /\ Len(messages') = 1 BY <2>4
      <3> QED BY <3>1 DEF Turn!Chained
    <2> QED BY <1>n, <2>2, <2>3, <2>5
  <1>2. CASE Turn!Greet \/ Turn!Frame
    <2>1. UNCHANGED <<messages, abort, broken, turns>> BY <1>2 DEF Turn!Greet,
         Turn!Frame, Turn!history
    <2>2. Turn!Tooling' = Turn!Tooling BY <2>1 DEF Turn!Tooling
    <2> QED BY <1>k, <2>1, <2>2
  <1>3. CASE Turn!Close
    <2>1. Turn!Tooling = {} BY <1>3, <1>g DEF Turn!Close
    <2>2. Turn!Tooling' = {} BY <1>3, <2>1 DEF Turn!Close, Turn!Tooling
    <2>3. broken' = {} /\ messages' = <<>> BY <1>3, <1>i DEF Turn!Close
    <2>4. Turn!Chained(messages') BY <2>3 DEF Turn!Chained
    <2> QED BY <1>n, <2>2, <2>3, <2>4
  <1>4. CASE Turn!SpeechStart
    <2>1. UNCHANGED <<messages, broken, turns>> BY <1>4 DEF Turn!SpeechStart
    <2>2. Turn!Tooling' = Turn!Tooling BY <2>1 DEF Turn!Tooling
    <2>3. CASE speaking
      <3>1. {abort} \cap Turn!Tooling = {} BY <1>4, <1>g, <2>3 DEF Turn!SpeechStart
      <3>2. Turn!Tooling = {} BY <1>a, <3>1
      <3>3. Turn!Chained(messages') /\ ~Waits' /\ broken' = {} BY <1>c, <1>i, <2>1,
           <3>2 DEF Turn!Chained
      <3> QED BY <1>n, <2>2, <3>2, <3>3
    <2>4. CASE ~speaking
      <3>1. abort' = abort BY <1>4, <2>4 DEF Turn!SpeechStart
      <3> QED BY <1>k, <2>1, <2>2, <3>1
    <2> QED BY <2>3, <2>4
  <1>5. CASE Turn!SpeechEnd
    <2>1. Turn!Tooling' = Turn!Tooling /\ torn' = torn \cup Turn!Tooling /\ UNCHANGED <<messages, broken>>
      BY <1>5, TurnStarts
    <2>2. Turn!Tooling = {} BY <1>g, <2>1
    <2>3. Turn!Chained(messages') /\ ~Waits' /\ broken' = {} BY <1>c, <1>i, <2>1,
         <2>2 DEF Turn!Chained
    <2> QED BY <1>n, <2>1, <2>2, <2>3
  <1>6. ASSUME NEW t \in Turn!Turns, NEW b \in BOOLEAN, Turn!Transcribe(t, b) PROVE Good'
    <2>1. turns[t].at = "transcribing" /\ UNCHANGED <<abort, broken>> BY <1>6
         DEF Turn!Transcribe
    <2>2. PICK at \in {"asking", "over"} : Moves(t, at, turns[t].round, turns[t].calls, turns[t].sig)
      BY <1>6, <1>s, TurnSteps
    <2>3. t \in Turn!Begun /\ t \notin Turn!Tooling BY <2>1 DEF Turn!Begun,
         Turn!Tooling
    <2>4. at \in Places /\ at \notin {"tooling", "running"} BY DEF Places
    <2>5. CASE t \notin aborted /\ Turn!Say("user", t)
      <3>1. Turn!Tooling = {} BY <1>b, <2>3, <2>5
      <3>2. Turn!Tooling' = {} BY <2>1, <2>2, <2>4, <3>1, MovesOn
      <3>3. Turn!Chained(messages') /\ ~Waits' BY <1>c, <1>g, <1>i, <2>5, <3>1, Says
      <3> QED BY <1>i, <1>n, <2>1, <3>2, <3>3
    <2>6. CASE UNCHANGED messages
      <3> HIDE DEF Good
      <3> QED BY <1>m, <2>1, <2>2, <2>3, <2>4, <2>6
    <2> QED BY <1>6, <2>5, <2>6 DEF Turn!Transcribe
  <1>7. ASSUME NEW t \in Turn!Turns, Turn!Ask(t) PROVE Good'
    <2>1. turns[t].at = "asking" /\ UNCHANGED <<abort, messages>> BY <1>7 DEF Turn!Ask
    <2>2. PICK at \in {"streaming", "over"} : Moves(t, at, turns[t].round, turns[t].calls, turns[t].sig)
      BY <1>7, <1>s, TurnSteps
    <2>3. t \in Turn!Begun /\ t \notin Turn!Tooling BY <2>1 DEF Turn!Begun,
         Turn!Tooling
    <2>4. at \in Places /\ at \notin {"tooling", "running"} BY DEF Places
    <2>5. broken' = broken
      <3>1. CASE t \in aborted BY <1>7, <3>1 DEF Turn!Ask
      <3>2. CASE t \notin aborted
        <4>1. Turn!Tooling = {} BY <1>b, <2>3, <3>2
        <4>2. Turn!WellFormed(messages) BY <1>c, <1>i, <4>1, WellFormedIs DEF Turn!TypeOK
        <4> QED BY <1>7, <3>2, <4>2 DEF Turn!Ask, Turn!Request
      <3> QED BY <3>1, <3>2
    <2> HIDE DEF Good
    <2> QED BY <1>m, <2>1, <2>2, <2>3, <2>4, <2>5
  <1>8. ASSUME NEW t \in Turn!Turns, Turn!Sentence(t) PROVE Good'
    <2>1. UNCHANGED <<messages, abort, broken, turns>> BY <1>8 DEF Turn!Sentence,
         Turn!history
    <2>2. Turn!Tooling' = Turn!Tooling BY <2>1 DEF Turn!Tooling
    <2> QED BY <1>k, <2>1, <2>2
  <1>9. ASSUME NEW t \in Turn!Turns, NEW b \in BOOLEAN, Turn!EndStream(t, b) PROVE Good'
    <2>1. turns[t].at = "streaming" /\ UNCHANGED <<abort, messages, broken>> BY <1>9
         DEF Turn!EndStream, Turn!history
    <2>2. PICK at \in {"over", "last"}, c \in BOOLEAN : Moves(t, at, turns[t].round, c, turns[t].sig)
      BY <1>9, <1>s, TurnSteps, TurnIs
    <2>3. at \in Places /\ t \notin Turn!Tooling BY <2>1 DEF Places, Turn!Tooling
    <2> HIDE DEF Good
    <2> QED BY <1>m, <2>1, <2>2, <2>3
  <1>10. ASSUME NEW t \in Turn!Turns, Turn!Settle(t) PROVE Good'
    <2>1. turns[t].at = "last" /\ UNCHANGED <<abort, broken>> /\ abort = t BY <1>10, <1>g, <1>h DEF Turn!Settle
    <2>2. t \in Turn!Begun /\ t \notin Turn!Tooling /\ turns[t].at # "idle" BY <2>1
         DEF Turn!Begun, Turn!Tooling
    <2>3. t \notin aborted
      <3>1. abort # 0 BY <2>1 DEF Turn!Turns
      <3> QED BY <2>1, <3>1 DEF Turn!Signals
    <2>4. Turn!Tooling = {} /\ ~Waits /\ Turn!Chained(messages) /\ broken = {}
      <3>1. Turn!Tooling = {} BY <1>b, <2>2, <2>3
      <3> QED BY <1>c, <1>i, <3>1
    <2>5. CASE ~turns[t].calls
      <3>1. Turn!Say("reply", t) BY <1>10, <2>5 DEF Turn!Settle
      <3>2. Turn!Chained(messages') /\ ~Waits' BY <1>g, <2>4, <3>1, Says
      <3>3. Moves(t, "over", turns[t].round, turns[t].calls, turns[t].sig) BY <1>10, <1>s, <2>5, TurnSteps
      <3>4. Turn!Tooling' = {} BY <2>2, <2>4, <3>3, MovesOn DEF Places
      <3> HIDE DEF Good
      <3> QED BY <1>n, <2>1, <2>4, <3>2, <3>4
    <2>6. CASE turns[t].calls
      <3>1. Turn!Say("call", t) BY <1>10, <2>6 DEF Turn!Settle
      <3>2. Turn!Chained(messages') /\ messages' # <<>> /\ messages'[Len(messages')] = Turn!Message("call", t)
        BY <1>g, <2>4, <3>1, Says
      <3>3. PICK at \in {"over", "tooling"}, sig \in {abort, turns[t].sig} : Moves(t, at, turns[t].round, turns[t].calls, sig)
        BY <1>10, <1>s, TurnSteps
      <3>4. at = "tooling"
        <4>1. turns'[t].at = "tooling" BY <1>10, <2>6 DEF Turn!Settle, Turn!TypeOK,
             Turn!TurnKind
        <4> QED BY <3>3, <4>1 DEF Moves
      <3>5. Turn!Tooling' = {t} BY <2>2, <2>4, <3>3, <3>4, MovesOn DEF Places
      <3>6. Turn!Message("call", t)' = Turn!Message("call", t)
        <4>1. turns'[t].round = turns[t].round BY <3>3 DEF Moves
        <4> QED BY <4>1 DEF Turn!Message
      <3> QED BY <2>1, <2>4, <3>2, <3>5, <3>6
    <2> QED BY <2>5, <2>6, TurnIs
  <1>11. ASSUME NEW t \in Turn!Turns, Turn!StartTool(t) PROVE Good'
    <2>1. turns[t].at = "tooling" /\ t \in Turn!Tooling /\ UNCHANGED <<messages, abort, broken>>
      BY <1>11 DEF Turn!StartTool, Turn!history, Turn!Tooling
    <2>2. turns[t].sig \notin aborted BY <1>a, <2>1
    <2>3. Moves(t, "running", turns[t].round, turns[t].calls, turns[t].sig)
      BY <1>11, <2>2, GotoIs DEF Turn!StartTool, Places
    <2>4. "running" \in Places BY DEF Places
    <2> HIDE DEF Good
    <2> QED BY <1>m, <2>1, <2>3, <2>4
  <1>12. ASSUME NEW t \in Turn!Turns, (\E b \in BOOLEAN : Turn!EndTool(t, b)) PROVE Good'
    <2>0. PICK b \in BOOLEAN : Turn!EndTool(t, b) BY <1>12
    <2>0a. ~b BY <1>g, <2>0 DEF Turn!EndTool
    <2>1. turns[t].at = "running" /\ t \in Turn!Tooling /\ messages' = Append(messages, Turn!Message("tool", t))
      BY <2>0, <2>0a DEF Turn!EndTool, Turn!Tooling
    <2>2. turns[t].sig \notin aborted /\ Turn!Tooling = {t} BY <1>a, <2>1
    <2> DEFINE m == Turn!Message("tool", t)
    <2>3. m \in Turn!MessageKind /\ m.role = "tool" /\ messages \in Seq(Turn!MessageKind)
          /\ Turn!Message("call", t) = [m EXCEPT !.role = "call"] /\ m = [Turn!Message("call", t) EXCEPT !.role = "tool"]
      <3>1. m \in Turn!MessageKind /\ m.role = "tool" /\ Turn!Message("call", t) = [m EXCEPT !.role = "call"] BY MessageIs
      <3>2. m = [Turn!Message("call", t) EXCEPT !.role = "tool"] BY MessageIs
      <3> QED BY <3>1, <3>2 DEF Turn!TypeOK
    <2>4. messages # <<>> /\ messages[Len(messages)] = Turn!Message("call", t) BY <1>i, <2>1
    <2> HIDE DEF m
    <2>5. messages' = Append(messages, m) BY <2>1 DEF m
    <2>6. Turn!Chained(messages') BY <1>i, <2>3, <2>4, <2>5, AppendChained
    <2>7. messages' \in Seq(Turn!MessageKind) /\ messages' # <<>> /\ messages'[Len(messages')] = m BY <2>3, <2>5
    <2>8. ~Waits' BY <2>3, <2>7
    <2>9. Turn!WellFormed(messages') BY <2>3, <2>6, <2>7, WellFormedIs
    <2>10. broken' = {} BY <2>0, <1>i, <2>2, <2>9 DEF Turn!EndTool
    <2>11. PICK at \in {"over", "streaming"}, round \in {turns[t].round, turns[t].round + 1} : Moves(t, at, round, turns[t].calls, turns[t].sig)
      BY <1>12, <1>s, TurnSteps
    <2>12. Turn!Tooling' = {} BY <2>1, <2>2, <2>11, MovesOn DEF Places
    <2> HIDE DEF Good
    <2> QED BY <1>n, <2>6, <2>8, <2>10, <2>12
  <1>13. ASSUME NEW s \in speech, Turn!Play(s) \/ Turn!EndSpeech(s) PROVE Good'
    <2>1. UNCHANGED <<messages, abort, broken, turns>> BY <1>13 DEF Turn!Play,
         Turn!EndSpeech, Turn!history
    <2>2. Turn!Tooling' = Turn!Tooling BY <2>1 DEF Turn!Tooling
    <2> QED BY <1>k, <2>1, <2>2
  <1> QED BY <1>1, <1>2, <1>3, <1>4, <1>5, <1>6, <1>7, <1>8, <1>9, <1>10, <1>11, <1>12,
       <1>13 DEF Turn!Next

LEMMA PipelineInit ==
  ASSUME Turn!PipelineConstants, Turn!Init
  PROVE  Turn!IInv
  <1>1. turns \in [Turn!Turns -> Turn!TurnKind]
    <2>1. Turn!Idle \in Turn!TurnKind BY DEF Turn!Idle, Turn!TurnKind,
         Turn!PipelineConstants
    <2> QED BY <2>1 DEF Turn!Init
  <1>2. messages \in Seq(Turn!MessageKind) BY DEF Turn!Init
  <1>3. Turn!TypeOK
    <2>1. 0 \in 0 .. MaxTurns BY DEF Turn!PipelineConstants
    <2>2. native \in BOOLEAN /\ frame \in BOOLEAN /\ speaking \in BOOLEAN /\ stream \in BOOLEAN /\ parted \in BOOLEAN
      BY DEF Turn!Init
    <2>3. /\ session \in {"none", "open", "closed"} /\ greeting \in {"none", "cdr", "done"} /\ vad \in {"idle", "speaking"}
          /\ abort \in 0 .. MaxTurns
      BY <2>1 DEF Turn!Init
    <2>4. /\ aborted \subseteq Turn!Turns /\ speech \subseteq Turn!SpeechKind /\ strays \subseteq Turn!Turns /\ torn \subseteq Turn!Turns
          /\ broken \subseteq Turn!Turns /\ stale \subseteq 0 .. MaxTurns /\ late \subseteq {"frame", "greeting"}
          /\ mute \subseteq Turn!Turns
      BY DEF Turn!Init
    <2> QED BY <1>1, <1>2, <2>2, <2>3, <2>4 DEF Turn!TypeOK
  <1>4. Turn!Begun = {} /\ Turn!Tooling = {} /\ \A t \in Turn!Turns : turns[t].at = "idle" /\ turns[t].round = 0
    BY DEF Turn!Init, Turn!Idle, Turn!Begun, Turn!Tooling
  <1>5. Turn!Signals BY <1>4 DEF Turn!Init, Turn!Signals
  <1>6. Turn!OwnSignal BY <1>4 DEF Turn!Init, Turn!OwnSignal
  <1>7. Turn!Closed /\ Turn!NoStaleAudio BY DEF Turn!Init, Turn!Closed,
       Turn!NoStaleAudio
  <1>8. Turn!Dialogue BY <1>4 DEF Turn!Init, Turn!Dialogue, Turn!Chained
  <1> QED BY <1>3, <1>5, <1>6, <1>7, <1>8 DEF Turn!IInv

LEMMA PipelineStep ==
  ASSUME Turn!PipelineConstants, Turn!IInv, Turn!Next
  PROVE  Turn!IInv'
  BY PipelineTypes, SignalsStep, OwnSignalStep, ClosedStep, DialogueStep,
       StaleStep DEF Turn!IInv

LEMMA PipelineStay ==
  ASSUME Turn!IInv, UNCHANGED Turn!vars
  PROVE  Turn!IInv'
  <1>1. UNCHANGED <<native, session, greeting, frame, vad, abort, aborted, speaking, turns, speech,
                    stream, messages, strays, torn, parted, broken, stale, late, mute>>
    BY DEF Turn!vars
  <1>2. Turn!Begun' = Turn!Begun /\ Turn!Tooling' = Turn!Tooling BY <1>1
       DEF Turn!Begun, Turn!Tooling
  <1>3. Turn!TypeOK' BY <1>1 DEF Turn!IInv, Turn!TypeOK
  <1>4. Turn!Signals' BY <1>1, <1>2 DEF Turn!IInv, Turn!Signals
  <1>5. Turn!OwnSignal' BY <1>1, <1>2 DEF Turn!IInv, Turn!OwnSignal
  <1>6. Turn!Closed' /\ Turn!NoStaleAudio' BY <1>1 DEF Turn!IInv, Turn!Closed,
       Turn!NoStaleAudio
  <1>7. Turn!Dialogue' BY <1>1, <1>2 DEF Turn!IInv, Turn!Dialogue, Turn!Chained,
       Turn!Message
  <1> QED BY <1>3, <1>4, <1>5, <1>6, <1>7 DEF Turn!IInv

LEMMA PipelineIs ==
  ASSUME Turn!IInv
  PROVE  Turn!NoStaleAudio /\ Turn!RequestsAccepted /\ Turn!ClosedIsQuiet
  <1>1. Turn!RequestsAccepted BY DEF Turn!IInv, Turn!Dialogue, Turn!RequestsAccepted
  <1>2. Turn!ClosedIsQuiet BY DEF Turn!IInv, Turn!Closed, Turn!ClosedIsQuiet
  <1> QED BY <1>1, <1>2 DEF Turn!IInv

LEMMA PipelineAlways == Spec => [](which = "Turn" => Turn!IInv)
  <1> DEFINE I == which = "Turn" => Turn!IInv
  <1>1. Init => I BY PipelineInit, ComponentConstants DEF Init
  <1>2. I /\ [Next]_vars => I'
    <2>1. ASSUME Turn!IInv, [Turn!Next]_Turn!vars PROVE Turn!IInv'
      BY <2>1, PipelineStep, PipelineStay, ComponentConstants
    <2>2. ASSUME [Next]_vars, which' = "Turn"
          PROVE  which = "Turn" /\ [Turn!Next]_Turn!vars
      BY <2>2 DEF Next, vars, Turn!vars
    <2> QED BY <2>1, <2>2
  <1> QED BY <1>1, <1>2, PTL DEF Spec

\* dataDecode, loggingEvents, handleToolCalls; runPipeline, synthesizeAndPlay: for any
\* number of responses, events and turns of the caller, a tool call runs once and is
\* answered, nothing of a turn is heard after the next has begun, no request is refused
\* and no stream is made after the end, but for what the histories name.
THEOREM TurnsAreSettled == Spec => []TurnsSettled
  <1>1. (which = "Talk" => Talk!IInv) /\ (which = "Turn" => Turn!IInv) => TurnsSettled
    BY EventsAre, PipelineIs DEF TurnsSettled
  <1> QED BY <1>1, EventsAlways, PipelineAlways, PTL

\* Every component of a call keeps its variables in their ranges, for any constants.
THEOREM CallTypesCorrect == Spec => []TypeOK
  <1>1. /\ which = "Stream" => Stream!IInv
        /\ which = "Wire" => Wire!IInv
        /\ which = "Call" => Call!IInv
        /\ which = "Rtp" => Rtp!IInv
        /\ which = "Talk" => Talk!IInv
        /\ which = "Turn" => Turn!IInv
        => TypeOK
    BY DEF TypeOK, Stream!IInv, Wire!IInv, Call!IInv, Rtp!IInv, Talk!IInv, Turn!IInv
  <1> QED BY <1>1, StreamAlways, ConnectionAlways, SessionAlways, VoiceAlways, EventsAlways,
             PipelineAlways, PTL
=============================================================================
