----------------------------- MODULE CallSession -----------------------------
(***************************************************************************)
(* One telephone call in AriConnection and CallSession: the StasisStart    *)
(* handler gathers what the call needs, over many requests to Asterisk and *)
(* the database, and the StasisEnd handler, or the disconnection of the    *)
(* PBX, gives it back.  Nothing keeps the two from running at the same     *)
(* time, and events of the voice model run beside both.                    *)
(*                                                                         *)
(* held is what exists of the call outside the CallSession object: in      *)
(* Asterisk, the stream service and OpenAiService; rtp counts its entries  *)
(* in the RTP server, one for each address its voice was reported from.    *)
(* Realtime pipeline; each step is what runs between two awaits.           *)
(***************************************************************************)
EXTENDS Naturals, FiniteSets

CONSTANTS Moh,        \* whether the assistant may have music on hold
          MaxFaults,  \* bound: requests that fail though the channel is there
          MaxAddresses \* bound: addresses of the voice of the call, greetings at once

CallSessionConstants ==
    Moh \subseteq BOOLEAN /\ MaxFaults \in Nat /\ MaxAddresses \in Nat \ {0}

VARIABLES channel,     \* in Asterisk: none, up, or left (hung up or transferred)
          listening,   \* the ARI connection is there to hear of it
          moh,
          init,        \* how far the StasisStart handler is
          registered,  \* AriConnection.sessions has the call
          cleanedUp,
          cleaner,     \* how far each run of cleanup is
          held,
          cdr,         \* the CDR has been created
          hangups,     \* cdrHangup has been run this often
          event,       \* a response.done of the model is in hand
          orderly,     \* see EndsClean
          lost,        \* what Asterisk failed to release
          faults,
          linked,      \* externalChannelToParentChannel has the external channel
          rtp,         \* entries of the call in the RTP server
          addresses,   \* how often it was entered under a new address
          greetings    \* handlers configuring the model for a new address

vars == <<channel, listening, moh, init, registered, cleanedUp, cleaner, held, cdr,
          hangups, event, orderly, lost, faults, linked, rtp, addresses, greetings>>
voice == <<linked, rtp, addresses, greetings>>

-----------------------------------------------------------------------------
Resources == {"connection", "handlers", "entry", "bridge", "playBridge", "external",
              "stream"}

Cleaners == {"stasisEnd", "disconnect"}

Goto(label) == init' = label

MayFail == faults < MaxFaults

\* A request about the channel fails once it has left.
Succeeds == channel = "up"

Step(from, to) == init = from /\ Goto(to)

\* What the model's events need to reach the call.
Hearing == {"connection", "handlers"} \subseteq held

\* The cleanup is past the closing of the model.
ModelClosed ==
    /\ cleanedUp
    /\ \A k \in Cleaners :
          cleaner[k] \notin {"bridge", "playBridge", "external", "hangingUp", "closing"}

-----------------------------------------------------------------------------
StasisStart ==
    /\ channel = "none"
    /\ listening
    /\ channel' = "up"
    /\ Step("idle", "resolving")
    /\ UNCHANGED <<listening, moh, registered, cleanedUp, cleaner, held, cdr, hangups,
                   event, orderly, lost, faults, voice>>

\* The assistant is found and the session put into the map, or not found.
ResolveAssistant ==
    /\ \/ Step("resolving", "connecting") /\ registered' = TRUE
       \/ Step("resolving", "failed") /\ UNCHANGED registered
    /\ UNCHANGED <<channel, listening, moh, cleanedUp, cleaner, held, cdr, hangups,
                   event, orderly, lost, faults, voice>>

\* createConnection, which asks for the balance first, and the handlers.
ConnectModel ==
    /\ \/ /\ Step("connecting", "bridging")
          /\ held' = held \cup {"connection", "entry", "handlers"}
       \/ /\ Step("connecting", "failed")
          /\ UNCHANGED held
    /\ UNCHANGED <<channel, listening, moh, registered, cleanedUp, cleaner, cdr, hangups,
                   event, orderly, lost, faults, voice>>

Acquire(from, resource, to) ==
    /\ Step(from, to)
    /\ held' = held \cup {resource}
    /\ UNCHANGED <<channel, listening, moh, registered, cleanedUp, cleaner, cdr, hangups,
                   event, orderly, lost, faults, voice>>

CreateBridge == Acquire("bridging", "bridge", "adding")

\* addChannelToBridge and answerChannel.
AddAndAnswer ==
    /\ Succeeds /\ "bridge" \in held
    /\ Step("adding", IF moh THEN "music" ELSE "media")
    /\ UNCHANGED <<channel, listening, moh, registered, cleanedUp, cleaner, held, cdr,
                   hangups, event, orderly, lost, faults, voice>>

CreatePlayBridge == Succeeds /\ Acquire("music", "playBridge", "media")

\* externalMedia makes a channel of its own; it does not ask for the caller's.
CreateExternalMedia == Acquire("media", "external", "joining")

\* sessions.set of the RTP server, at an address it has the call for or a new one.
Enter ==
    \/ rtp > 0 /\ UNCHANGED <<rtp, addresses>>
    \/ addresses < MaxAddresses /\ rtp' = rtp + 1 /\ addresses' = addresses + 1

\* The external channel joins the bridge, and the call its entry in the RTP
\* server; with a port known already, the model is configured next.
StartStreaming ==
    /\ {"bridge", "external"} \subseteq held
    /\ Enter
    /\ Step("joining", "updating") \/ Step("joining", "done")
    /\ UNCHANGED <<channel, listening, moh, registered, cleanedUp, cleaner, held, cdr,
                   hangups, event, orderly, lost, faults, linked, greetings>>

\* updateRtAudioSession asks the MCP registry for tools.
UpdateModel ==
    /\ Step("updating", "greeting")
    /\ UNCHANGED <<channel, listening, moh, registered, cleanedUp, cleaner, held, cdr,
                   hangups, event, orderly, lost, faults, voice>>

\* rtInitAudioResponse writes the session entry, also when it is gone.
Greet == Acquire("greeting", "entry", "done")

\* Mutant: nothing catches what initializeAri throws.
InitFailsUncaught ==
    /\ init \in {"bridging", "adding", "music", "media", "joining"}
    /\ Goto("thrown")
    /\ UNCHANGED <<channel, listening, moh, registered, cleanedUp, cleaner, held, cdr,
                   hangups, event, orderly, lost, faults, voice>>

\* A step of initializeAri throws: the request fails, or must.
InitFails ==
    /\ init \in {"bridging", "adding", "music", "media", "joining"}
    /\ Goto("failed")
    /\ \/ /\ \/ init \in {"adding", "music"} /\ ~(Succeeds /\ "bridge" \in held)
             \/ init = "joining" /\ ~({"bridge", "external"} \subseteq held)
          /\ UNCHANGED faults
       \/ MayFail /\ faults' = faults + 1
    /\ UNCHANGED <<channel, listening, moh, registered, cleanedUp, cleaner, held, cdr,
                   hangups, event, orderly, lost, voice>>

\* The catch of handleStasisStart; a channel already gone is no matter.
HangUpFailed ==
    /\ Step("failed", "done")
    /\ \/ channel' = "left" /\ UNCHANGED faults
       \/ MayFail /\ faults' = faults + 1 /\ UNCHANGED channel
    /\ UNCHANGED <<listening, moh, registered, cleanedUp, cleaner, held, cdr, hangups,
                   event, orderly, lost, voice>>

-----------------------------------------------------------------------------
\* StasisStart of the external channel, while the call is known.
Link ==
    /\ registered /\ "external" \in held
    /\ linked' = TRUE
    /\ UNCHANGED <<channel, listening, moh, init, registered, cleanedUp, cleaner, held, cdr,
                   hangups, event, orderly, lost, faults, rtp, addresses, greetings>>

\* The model is about to be configured; nothing keeps that from a call that is over.
BeginGreeting ==
    /\ greetings < MaxAddresses
    /\ greetings' = greetings + 1
    /\ orderly' = (orderly /\ ~ModelClosed)

\* updateRtpParams: Asterisk reports the address, or the port, of the external channel.
ReportRtp ==
    /\ registered /\ linked
    /\ Enter
    /\ BeginGreeting
    /\ UNCHANGED <<channel, listening, moh, init, registered, cleanedUp, cleaner, held, cdr,
                   hangups, event, lost, faults, linked>>

\* A packet of the call; the first configures the model if no report has.
FirstPacket ==
    /\ rtp > 0
    /\ BeginGreeting
    /\ UNCHANGED <<channel, listening, moh, init, registered, cleanedUp, cleaner, held, cdr,
                   hangups, event, lost, faults, linked, rtp, addresses>>

\* RTP NAT remap: a packet from an unknown address is taken for a call that has had none.
NatRemap ==
    /\ rtp > 0 /\ addresses < MaxAddresses
    /\ rtp' = rtp + 1
    /\ addresses' = addresses + 1
    /\ UNCHANGED <<channel, listening, moh, init, registered, cleanedUp, cleaner, held, cdr,
                   hangups, event, orderly, lost, faults, linked, greetings>>

\* Another call reports the address of this one as its own.
AddressTaken ==
    /\ rtp > 0
    /\ rtp' = rtp - 1
    /\ UNCHANGED <<channel, listening, moh, init, registered, cleanedUp, cleaner, held, cdr,
                   hangups, event, orderly, lost, faults, linked, addresses, greetings>>

\* updateRtAudioSession, and rtInitAudioResponse writes the session entry.
EndGreeting ==
    /\ greetings > 0
    /\ greetings' = greetings - 1
    /\ held' = held \cup {"entry"}
    /\ UNCHANGED <<channel, listening, moh, init, registered, cleanedUp, cleaner, cdr,
                   hangups, event, orderly, lost, faults, linked, rtp, addresses>>

-----------------------------------------------------------------------------
\* The caller, the model's hangup_call or transfer_call, a fatal error.
ChannelLeaves ==
    /\ channel = "up"
    /\ channel' = "left"
    /\ UNCHANGED <<listening, moh, init, registered, cleanedUp, cleaner, held, cdr,
                   hangups, event, orderly, lost, faults, voice>>

\* session.created of the model.
CreateCdr ==
    /\ Hearing
    /\ cdr' = TRUE
    /\ UNCHANGED <<channel, listening, moh, init, registered, cleanedUp, cleaner, held,
                   hangups, event, orderly, lost, faults, voice>>

\* audioDelta adds the stream when it is not there.
AudioDelta ==
    /\ Hearing
    /\ held' = held \cup {"stream"}
    /\ UNCHANGED <<channel, listening, moh, init, registered, cleanedUp, cleaner, cdr,
                   hangups, event, orderly, lost, faults, voice>>

\* response.done: the tokens are counted, and then the session is updated, or
\* made anew.
ResponseDone ==
    /\ Hearing
    /\ ~event
    /\ event' = TRUE
    /\ UNCHANGED <<channel, listening, moh, init, registered, cleanedUp, cleaner, held,
                   cdr, hangups, orderly, lost, faults, voice>>

UpdateSession ==
    /\ event
    /\ event' = FALSE
    /\ held' = held \cup {"entry"}
    /\ UNCHANGED <<channel, listening, moh, init, registered, cleanedUp, cleaner, cdr,
                   hangups, orderly, lost, faults, voice>>

-----------------------------------------------------------------------------
Clean(k, from, to) == cleaner[k] = from /\ cleaner' = [cleaner EXCEPT ![k] = to]

\* Mutant: the flag is set when the cleanup is over.
BeginCleanupAgain(k) ==
    /\ cleaner[k] = "idle"
    /\ cleaner' = [cleaner EXCEPT ![k] = IF registered THEN "bridge" ELSE "done"]
    /\ orderly' = (registered /\ init = "done" /\ cdr)
    /\ UNCHANGED cleanedUp

\* orderly is no field: the handler of StasisStart was through, and the CDR was
\* there, when cleanup began.
BeginCleanup(k) ==
    /\ cleaner[k] = "idle"
    /\ \/ /\ registered /\ ~cleanedUp
          /\ cleaner' = [cleaner EXCEPT ![k] = "bridge"]
          /\ cleanedUp' = TRUE
          /\ orderly' = (init = "done" /\ cdr)
       \/ /\ registered /\ cleanedUp
          /\ cleaner' = [cleaner EXCEPT ![k] = "deleting"]
          /\ UNCHANGED <<cleanedUp, orderly>>
       \/ /\ ~registered
          /\ cleaner' = [cleaner EXCEPT ![k] = "done"]
          /\ UNCHANGED <<cleanedUp, orderly>>

\* StasisEnd; the first step of cleanupSession, which forgets the external channel, and
\* of cleanup.
StasisEnd ==
    /\ channel = "left"
    /\ listening
    /\ BeginCleanup("stasisEnd")
    /\ linked' = (linked /\ ~registered)
    /\ UNCHANGED <<channel, listening, moh, init, registered, held, cdr, hangups, event,
                   lost, faults, rtp, addresses, greetings>>

\* disconnect(): the server was changed or removed, or found offline.  Its events are
\* heard until every call has been cleaned up.
Disconnect ==
    /\ listening
    /\ BeginCleanup("disconnect")
    /\ listening' = registered
    /\ UNCHANGED <<channel, moh, init, registered, held, cdr, hangups, event, lost, faults,
                   voice>>

\* Mutant: the first request that fails ends the cleanup.
ReleaseOrThrow(k, from, resource, to) ==
    /\ \/ Clean(k, from, to) /\ held' = held \ {resource} /\ UNCHANGED <<lost, faults>>
       \/ /\ Clean(k, from, "deleting")
          /\ resource \in held /\ MayFail
          /\ lost' = lost \cup {resource}
          /\ faults' = faults + 1
          /\ UNCHANGED held
    /\ UNCHANGED <<channel, listening, moh, init, registered, cleanedUp, cdr, hangups,
                   event, orderly, voice>>

\* What there is of a bridge or channel is released; a failure is ignored.
Release(k, from, resource, to) ==
    /\ Clean(k, from, to)
    /\ \/ held' = held \ {resource} /\ UNCHANGED <<lost, faults>>
       \/ /\ resource \in held /\ MayFail
          /\ lost' = lost \cup {resource}
          /\ faults' = faults + 1
          /\ UNCHANGED held
    /\ UNCHANGED <<channel, listening, moh, init, registered, cleanedUp, cdr, hangups,
                   event, orderly, voice>>

ReleaseAsterisk(k) ==
    \/ Release(k, "bridge", "bridge", "playBridge")
    \/ Release(k, "playBridge", "playBridge", "external")
    \/ Release(k, "external", "external", "hangingUp")

\* call.hangup.  cdrHangup throws without a CDR, and cleanup is over.
HangUpCdr(k) ==
    /\ \/ cdr /\ Clean(k, "hangingUp", "closing") /\ UNCHANGED <<orderly, faults>>
       \/ ~cdr /\ Clean(k, "hangingUp", "deleting") /\ UNCHANGED <<orderly, faults>>
       \/ /\ MayFail /\ Clean(k, "hangingUp", "deleting")
          /\ faults' = faults + 1
          /\ orderly' = FALSE
    /\ hangups' = hangups + 1
    /\ UNCHANGED <<channel, listening, moh, init, registered, cleanedUp, held, cdr, event,
                   lost, voice>>

\* Handlers off, and closeConnection of the session OpenAiService knows.
CloseModel(k) ==
    /\ Clean(k, "closing", "stream")
    /\ held' = held \ (IF "entry" \in held THEN {"handlers", "entry", "connection"}
                                           ELSE {"handlers"})
    /\ orderly' = (orderly /\ ~event /\ greetings = 0)
    /\ UNCHANGED <<channel, listening, moh, init, registered, cleanedUp, cdr, hangups,
                   event, lost, faults, voice>>

Drop(k, from, resources, to) ==
    /\ Clean(k, from, to)
    /\ held' = held \ resources
    /\ UNCHANGED <<channel, listening, moh, init, registered, cleanedUp, cdr, hangups,
                   event, orderly, lost, faults, voice>>

RemoveStream(k) == Drop(k, "stream", {"stream"}, "rtp")

\* handleSessionEnd finds the first entry of the call, closes its connection and deletes it.
EndRtp(k) ==
    /\ Clean(k, "rtp", "deleting")
    /\ IF rtp > 0 THEN rtp' = rtp - 1 /\ held' = held \ {"connection"}
                  ELSE UNCHANGED <<rtp, held>>
    /\ UNCHANGED <<channel, listening, moh, init, registered, cleanedUp, cdr, hangups, event,
                   orderly, lost, faults, linked, addresses, greetings>>

\* cleanupSession deletes the call; disconnect clears the map, and closes the socket.
Forget(k) ==
    /\ Clean(k, "deleting", "done")
    /\ registered' = FALSE
    /\ listening' = (listening /\ k # "disconnect")
    /\ UNCHANGED <<channel, moh, init, cleanedUp, held, cdr, hangups, event, orderly, lost,
                   faults, voice>>

-----------------------------------------------------------------------------
Init ==
    /\ channel = "none"
    /\ listening = TRUE
    /\ moh \in Moh
    /\ init = "idle"
    /\ registered = FALSE
    /\ cleanedUp = FALSE
    /\ cleaner = [k \in Cleaners |-> "idle"]
    /\ held = {}
    /\ cdr = FALSE
    /\ hangups = 0
    /\ event = FALSE
    /\ orderly = FALSE
    /\ lost = {}
    /\ faults = 0
    /\ linked = FALSE
    /\ rtp = 0 /\ addresses = 0 /\ greetings = 0

Initialize ==
    \/ ResolveAssistant \/ ConnectModel \/ CreateBridge \/ AddAndAnswer
    \/ CreatePlayBridge \/ CreateExternalMedia \/ StartStreaming \/ UpdateModel
    \/ Greet \/ InitFails \/ HangUpFailed

Cleanup(k) ==
    \/ ReleaseAsterisk(k) \/ HangUpCdr(k) \/ CloseModel(k) \/ RemoveStream(k)
    \/ EndRtp(k) \/ Forget(k)

Next ==
    \/ StasisStart \/ Initialize
    \/ Link \/ ReportRtp \/ FirstPacket \/ NatRemap \/ AddressTaken \/ EndGreeting
    \/ ChannelLeaves \/ CreateCdr \/ AudioDelta \/ ResponseDone \/ UpdateSession
    \/ StasisEnd \/ Disconnect
    \/ \E k \in Cleaners : Cleanup(k)

Spec == Init /\ [][Next]_vars

-----------------------------------------------------------------------------
VoiceOK ==
    /\ linked \in BOOLEAN
    /\ addresses \in 0..MaxAddresses /\ rtp \in 0..addresses /\ greetings \in 0..MaxAddresses

\* Labels and resources stay within their sets.
TypeOK ==
    /\ channel \in {"none", "up", "left"}
    /\ listening \in BOOLEAN /\ moh \in BOOLEAN /\ registered \in BOOLEAN
    /\ cleanedUp \in BOOLEAN /\ cdr \in BOOLEAN /\ event \in BOOLEAN
    /\ init \in {"idle", "resolving", "connecting", "bridging", "adding", "music",
                 "media", "joining", "updating", "greeting", "failed", "done"}
    /\ cleaner \in [Cleaners -> {"idle", "bridge", "playBridge", "external", "hangingUp",
                                 "closing", "stream", "rtp", "deleting", "done"}]
    /\ held \subseteq Resources /\ lost \subseteq Resources
    /\ hangups \in Nat /\ faults \in 0..MaxFaults
    /\ VoiceOK

Idle == /\ init = "done" /\ ~event /\ greetings = 0
        /\ \A k \in Cleaners : cleaner[k] \in {"idle", "done"}

\* A call that ends after it was set up, its CDR made, billed without an error and
\* nothing of the model or the RTP server in hand, leaves nothing behind but what Asterisk
\* failed to release and the entries of further addresses in the RTP server: one failed
\* request does not keep the rest, the audio that arrives until the very end does not
\* bring a stream back, and a call with one address leaves no entry.
EndsClean ==
    orderly /\ Idle => held = lost /\ ~registered /\ (rtp > 0 => addresses > 1)

\* A call is finalized, and billed, once, although the hangup and the loss of the
\* PBX may clean it up together (the flag cleanedUp).
HangUpOnce == hangups <= 1

\* The invariants below carry the proof that SessionEnds holds; Reached says that
\* no run of cleanup is at a place before the one named.
Before(place) ==
    CASE place = "playBridge" -> {"bridge"}
      [] place = "external"    -> {"bridge", "playBridge"}
      [] place = "hangingUp"  -> {"bridge", "playBridge", "external"}
      [] place = "closing"     -> {"bridge", "playBridge", "external", "hangingUp"}
      [] place = "stream" -> {"bridge", "playBridge", "external", "hangingUp", "closing"}
      [] place = "rtp" -> {"bridge", "playBridge", "external", "hangingUp", "closing", "stream"}
      [] place = "deleting" -> {"bridge", "playBridge", "external", "hangingUp", "closing",
                                "stream", "rtp"}
Reached(place) == \A k \in Cleaners : cleaner[k] \notin Before(place)

\* One run of cleanup works through the places, the other goes straight to the end.
OneWorks ==
    /\ \A k, l \in Cleaners :
          cleaner[k] \in Before("deleting") /\ cleaner[l] \in Before("deleting") => k = l
    /\ (\E k \in Cleaners : cleaner[k] \in Before("deleting") \cup {"deleting"}) => cleanedUp
    /\ ~cleanedUp => hangups = 0 /\ ~orderly
    /\ (\E k \in Cleaners : cleaner[k] \in Before("closing")) => hangups = 0
    /\ hangups <= 1
    /\ orderly => init = "done" /\ cdr

\* The session knows the connection until the model is closed.
Known ==
    (~cleanedUp \/ \E k \in Cleaners : cleaner[k] \in Before("stream")) =>
       /\ "handlers" \in held <=> "connection" \in held
       /\ "connection" \in held => "entry" \in held

\* What is lost is still held, and was lost at a place that is past.
LostHeld ==
    /\ lost \subseteq held /\ lost \subseteq {"bridge", "playBridge", "external"}
    /\ ~cleanedUp => lost = {}
    /\ \A k \in Cleaners : /\ cleaner[k] = "bridge" => lost = {}
                           /\ cleaner[k] = "playBridge" => lost \subseteq {"bridge"}
                           /\ cleaner[k] = "external" => lost \subseteq {"bridge", "playBridge"}

\* What an orderly call has given back when the cleanup is past it.
GivenBack ==
    orderly =>
       /\ Reached("playBridge") => {"bridge"} \cap held \subseteq lost
       /\ Reached("external") => {"playBridge"} \cap held \subseteq lost
       /\ Reached("hangingUp") => {"external"} \cap held \subseteq lost
       /\ Reached("stream") => /\ ~event /\ greetings = 0
                               /\ {"connection", "handlers", "entry"} \cap held = {}
       /\ Reached("rtp") => "stream" \notin held
       /\ Reached("deleting") => (rtp > 0 => rtp < addresses)
       /\ registered => \E k \in Cleaners : cleaner[k] \in Before("deleting") \cup {"deleting"}

IInv == TypeOK /\ OneWorks /\ Known /\ LostHeld /\ GivenBack
=============================================================================
