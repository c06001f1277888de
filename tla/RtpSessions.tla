----------------------------- MODULE RtpSessions -----------------------------
(***************************************************************************)
(* The map of RtpUdpServerService that tells which call a packet of voice  *)
(* belongs to: written by CallSession when the external media channel is   *)
(* there and when Asterisk reports its RTP variables, rewritten by the     *)
(* server itself for packets from an address it does not know, and cleared *)
(* when a call ends.                                                       *)
(*                                                                         *)
(* A map keeps the order its keys were first set in, and several keys may  *)
(* hold the same session object: entries is a sequence of keys and object  *)
(* numbers, objects what the numbers stand for.                            *)
(***************************************************************************)
EXTENDS Naturals, Sequences, FiniteSets, FiniteSetsExt, SequencesExt

CONSTANTS Calls,
          Translated,   \* whether packets may come through NAT (Docker)
          PortKnown,    \* whether the answer to externalMedia may lack the port
          MaxUpdates    \* bound: RTP variables that are reported

RtpConstants ==
    /\ Translated \subseteq BOOLEAN /\ PortKnown \subseteq BOOLEAN
    /\ MaxUpdates \in Nat

VARIABLES translated,  \* this deployment is behind NAT
          phase,       \* of each call: none, dialled, live, ended
          entries,     \* sessions: [key, object] in the order of the keys
          objects,     \* session objects: call, init, _rtpReceived
          updates,     \* RTP variables reported for each call
          greeted,     \* times the model was configured and told to greet
          heard,       \* whose voice reached which call, and in which phase it was
          portless     \* calls registered before their RTP port was known

vars == <<translated, phase, entries, objects, updates, greeted, heard, portless>>

-----------------------------------------------------------------------------
\* host:port of the external media channel of a call, the address its packets
\* come from, and the key of every call the port of which is not known.
Announced(c) == <<"announced", c>>
Source(c)    == IF translated THEN <<"translated", c>> ELSE Announced(c)
NoPort       == <<"host", "undefined">>

Index(key) == SelectInSeq(entries, LAMBDA e : e.key = key)

\* Mutant: sessions as a list of registrations.
PushEntry(key, object) == entries' = Append(entries, [key |-> key, object |-> object])

\* Map.set: an old key keeps its place.
SetEntry(key, object) ==
    LET e == [key |-> key, object |-> object] IN
    entries' = IF Index(key) = 0 THEN Append(entries, e)
               ELSE [entries EXCEPT ![Index(key)] = e]

Waiting(e) == ~objects[e.object].received

\* Mutant: the session is not marked as initialized.
PutSessionUnmarked(c, key, init) ==
    /\ objects' = Append(objects, [call |-> c, init |-> FALSE, received |-> FALSE])
    /\ SetEntry(key, Len(objects) + 1)
    /\ greeted' = IF init THEN [greeted EXCEPT ![c] = @ + 1] ELSE greeted

\* startStreaming with a new object, then triggerOpenAiInit, for which an object
\* that is new is never initialized.
PutSession(c, key, init) ==
    /\ objects' = Append(objects, [call |-> c, init |-> init, received |-> FALSE])
    /\ SetEntry(key, Len(objects) + 1)
    /\ greeted' = IF init THEN [greeted EXCEPT ![c] = @ + 1] ELSE greeted

-----------------------------------------------------------------------------
\* The external media channel is made and joins the bridge: from here on packets
\* may arrive.
Dial(c) ==
    /\ phase[c] = "none"
    /\ phase' = [phase EXCEPT ![c] = "dialled"]
    /\ UNCHANGED <<translated, entries, objects, updates, greeted, heard, portless>>

\* The last steps of initializeAri.
Register(c) ==
    /\ phase[c] = "dialled"
    /\ phase' = [phase EXCEPT ![c] = "live"]
    /\ \/ /\ TRUE \in PortKnown
          /\ PutSession(c, Announced(c), TRUE)
          /\ UNCHANGED portless
       \/ /\ FALSE \in PortKnown
          /\ PutSession(c, NoPort, FALSE)
          /\ portless' = portless \cup {c}
    /\ UNCHANGED <<translated, updates, heard>>

\* updateRtpParams, once address and port are both known.
UpdateRtpParams(c) ==
    /\ phase[c] = "live"
    /\ MapThenSumSet(LAMBDA d : updates[d], Calls) < MaxUpdates
    /\ updates' = [updates EXCEPT ![c] = @ + 1]
    /\ PutSession(c, Announced(c), TRUE)
    /\ UNCHANGED <<translated, phase, heard, portless>>

\* The session takes the packet; its first one may have to wake the model.
Deliver(c, object) ==
    LET s == objects[object] IN
    /\ objects' = [objects EXCEPT ![object].received = TRUE, ![object].init = TRUE]
    /\ greeted' = IF s.init THEN greeted ELSE [greeted EXCEPT ![s.call] = @ + 1]
    /\ heard' = heard \cup {[from |-> c, to |-> s.call, phase |-> phase[c]]}

\* Mutant: a session that waits for its first packet goes before the exact match.
PacketToWaiting(c) ==
    LET first == SelectInSeq(entries, Waiting) IN
    /\ phase[c] \in {"dialled", "live"}
    /\ first # 0
    /\ Deliver(c, entries[first].object)
    /\ SetEntry(Source(c), entries[first].object)
    /\ UNCHANGED <<translated, phase, updates, portless>>

\* A packet from an address that is no key goes to the first session that waits
\* for one, which is stored under that address as well; else it is dropped.
Packet(c) ==
    LET exact == Index(Source(c))
        first == SelectInSeq(entries, Waiting) IN
    /\ phase[c] \in {"dialled", "live"}
    /\ \/ /\ exact # 0
          /\ Deliver(c, entries[exact].object)
          /\ UNCHANGED entries
       \/ /\ exact = 0 /\ first # 0
          /\ Deliver(c, entries[first].object)
          /\ SetEntry(Source(c), entries[first].object)
    /\ UNCHANGED <<translated, phase, updates, portless>>

\* handleSessionEnd removes the first key whose session is of the call.
HandleSessionEnd(c) ==
    LET first == SelectInSeq(entries, LAMBDA e : objects[e.object].call = c) IN
    /\ phase[c] = "live"
    /\ phase' = [phase EXCEPT ![c] = "ended"]
    /\ entries' = IF first = 0 THEN entries ELSE RemoveAt(entries, first)
    /\ UNCHANGED <<translated, objects, updates, greeted, heard, portless>>

-----------------------------------------------------------------------------
Init ==
    /\ translated \in Translated
    /\ phase = [c \in Calls |-> "none"]
    /\ entries = <<>>
    /\ objects = <<>>
    /\ updates = [c \in Calls |-> 0]
    /\ greeted = [c \in Calls |-> 0]
    /\ heard = {}
    /\ portless = {}

Next == \E c \in Calls : \/ Dial(c) \/ Register(c) \/ UpdateRtpParams(c)
                         \/ Packet(c) \/ HandleSessionEnd(c)

Spec == Init /\ [][Next]_vars

-----------------------------------------------------------------------------
Keys == {NoPort} \cup {"announced", "translated"} \X Calls

\* A map has each key once, and every entry an object.
TypeOK ==
    /\ translated \in BOOLEAN
    /\ phase \in [Calls -> {"none", "dialled", "live", "ended"}]
    /\ objects \in Seq([call : Calls, init : BOOLEAN, received : BOOLEAN])
    /\ entries \in Seq([key : Keys, object : DOMAIN objects])
    /\ \A i, j \in DOMAIN entries : entries[i].key = entries[j].key => i = j
    /\ updates \in [Calls -> Nat] /\ greeted \in [Calls -> Nat]
    /\ portless \subseteq Calls
    /\ heard \subseteq [from : Calls, to : Calls, phase : {"dialled", "live"}]

\* Without NAT a call whose RTP port was known hears its own caller: no packet of
\* another call that comes early and is taken for a waiting one can take over an
\* address that is registered, or keep one that will be.
DirectVoice ==
    ~translated /\ portless = {} => \A h \in heard : h.phase = "live" => h.to = h.from

\* The model of a call is not configured by the call and again by its first packet
\* ("Mark as initialized to prevent double init from UDP server"), as long as
\* Asterisk reports no RTP variable afterwards, which makes a new object.
GreetedOnce == \A c \in Calls : updates[c] = 0 => greeted[c] <= 1

\* The invariants below carry the proof that VoiceRight holds.  Without NAT a call
\* that is set up has its own address in the map, for its own session.
OwnAddress ==
    ~translated /\ portless = {} =>
        \A c \in Calls : phase[c] = "live" =>
            \E i \in DOMAIN entries : /\ entries[i].key = Announced(c)
                                      /\ objects[entries[i].object].call = c

\* A call for which nothing was reported has one object at most, none before it is
\* set up, and is still to be greeted as long as the object is not initialized.
OneObject ==
    \A c \in Calls : updates[c] = 0 =>
        /\ \A j, k \in DOMAIN objects : objects[j].call = c /\ objects[k].call = c => j = k
        /\ \A k \in DOMAIN objects : objects[k].call = c /\ ~objects[k].init => greeted[c] = 0
        /\ greeted[c] <= 1
        /\ phase[c] \in {"none", "dialled"} =>
               greeted[c] = 0 /\ \A k \in DOMAIN objects : objects[k].call # c

IInv == TypeOK /\ OwnAddress /\ OneObject /\ DirectVoice
=============================================================================
