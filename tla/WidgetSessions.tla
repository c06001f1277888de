---------------------------- MODULE WidgetSessions ----------------------------
(***************************************************************************)
(* Calls from the web widget over WebRTC: an offer takes one of the key's  *)
(* slots (a row), makes the peer and the connection to the model; hanging  *)
(* up, or a peer that fails, gives everything back.  A peer fails or hangs *)
(* up whenever it likes, also while its offer is still being answered.     *)
(***************************************************************************)
EXTENDS Integers, FiniteSets

CONSTANTS Offers,     \* one per offer; the session it makes bears its name
          Hangups,    \* runs of handleDisconnect
          Limit,      \* maxConcurrentSessions of the key
          MaxCrashes  \* bound: restarts of the server

VARIABLES offer,   \* what every offer waits for
          hangup,  \* every run of handleDisconnect: [at, s]
          rows,    \* widget_sessions: "none", "active" or "ended"
          peers,   \* the map of peer sessions
          channel, \* sessions whose openAiChannelId is set
          conns,   \* sessions with a connection to the model
          wired,   \* sessions whose handlers of the model's events are registered
          waiting, \* sessions whose handler waits, once, for the connection to open
          crashes,
          raced,   \* history: offers that were validated while another was
          early,   \* history: sessions that were hung up before their offer was answered
          unheard, \* history: those hung up after it, before the connection was open
          stuck,   \* history: hangups that an error ended
          lost     \* history: sessions that a restart, or an offer's error, left behind

vars == <<offer, hangup, rows, peers, channel, conns, wired, waiting, crashes, raced, early, unheard, stuck, lost>>
history == <<raced, early, unheard, stuck, lost>>

Goto(o, at) == offer' = [offer EXCEPT ![o] = at]
Step(h, at) == hangup' = [hangup EXCEPT ![h].at = at]
Active == {o \in Offers : rows[o] = "active"}

\* Mutant: the count is not asked for.
ValidateAny(o) ==
    /\ offer[o] = "idle"
    /\ Goto(o, "create")
    /\ raced' = IF \E p \in Offers : offer[p] = "create" THEN raced \cup {o} ELSE raced
    /\ UNCHANGED <<hangup, rows, peers, channel, conns, wired, waiting, crashes, early, unheard, stuck, lost>>

-----------------------------------------------------------------------------
\* handleOffer: validateKey counts the active sessions of the key.
Validate(o) ==
    /\ offer[o] = "idle" /\ Cardinality(Active) < Limit
    /\ Goto(o, "create")
    /\ raced' = IF \E p \in Offers : offer[p] = "create" THEN raced \cup {o} ELSE raced
    /\ UNCHANGED <<hangup, rows, peers, channel, conns, wired, waiting, crashes, early, unheard, stuck, lost>>

CreateRow(o) ==
    /\ offer[o] = "create"
    /\ rows' = [rows EXCEPT ![o] = "active"]
    /\ Goto(o, "find")
    /\ UNCHANGED <<hangup, peers, channel, conns, wired, waiting, crashes, history>>

\* findSessionById, and the peer joins the map.
AddPeer(o) ==
    /\ offer[o] = "find"
    /\ peers' = peers \cup {o}
    /\ Goto(o, "describe")
    /\ UNCHANGED <<hangup, rows, channel, conns, wired, waiting, crashes, history>>

\* The descriptions, then createConnection, which the balance may refuse.
Describe(o) ==
    /\ offer[o] = "describe"
    /\ Goto(o, "connect")
    /\ UNCHANGED <<hangup, rows, peers, channel, conns, wired, waiting, crashes, history>>

Fail(o) ==
    /\ offer[o] \in {"find", "describe", "connect"}
    /\ Goto(o, "over")
    /\ lost' = lost \cup {o}
    /\ UNCHANGED <<hangup, rows, peers, channel, conns, wired, waiting, crashes, raced, early, unheard, stuck>>

Connect(o) ==
    /\ offer[o] = "connect"
    /\ conns' = conns \cup {o} /\ channel' = channel \cup {o} /\ wired' = wired \cup {o}
    /\ waiting' = waiting \cup {o}
    /\ Goto(o, "over")
    /\ UNCHANGED <<hangup, rows, peers, crashes, history>>

\* The connection opens, and the handler that waited for it is called and gone.
Opened(o) ==
    /\ o \in waiting \cap conns
    /\ waiting' = waiting \ {o}
    /\ UNCHANGED <<offer, hangup, rows, peers, channel, conns, wired, crashes, history>>

\* Mutant: the connection to the model stays open.
BeginUnwired(h, o) ==
    /\ hangup[h].at = "idle" /\ o \in peers
    /\ early' = IF o \notin channel THEN early \cup {o} ELSE early
    /\ unheard' = IF o \in channel \cap waiting THEN unheard \cup {o} ELSE unheard
    /\ hangup' = [hangup EXCEPT ![h] = [at |-> IF o \in channel THEN "cdr" ELSE "close", s |-> o]]
    /\ wired' = wired \ {o}
    /\ UNCHANGED <<offer, rows, peers, channel, conns, waiting, crashes, raced, stuck, lost>>

-----------------------------------------------------------------------------
\* handleDisconnect, called by the client's hangup, by the model's, and when the peer
\* connection fails or is closed.  It takes off the handlers of the model's events and closes
\* the connection, and leaves the handler that still waits for it to open.
Begin(h, o) ==
    /\ hangup[h].at = "idle" /\ o \in peers
    /\ early' = IF o \notin channel THEN early \cup {o} ELSE early
    /\ unheard' = IF o \in channel \cap waiting THEN unheard \cup {o} ELSE unheard
    /\ IF o \in channel
       THEN /\ wired' = wired \ {o} /\ conns' = conns \ {o}
            /\ hangup' = [hangup EXCEPT ![h] = [at |-> "cdr", s |-> o]]
       ELSE /\ hangup' = [hangup EXCEPT ![h] = [at |-> "close", s |-> o]]
            /\ UNCHANGED <<wired, conns>>
    /\ UNCHANGED <<offer, rows, peers, channel, waiting, crashes, raced, stuck, lost>>

\* cdrHangup; an error there ends the hangup.
HangUpCdr(h, ok) ==
    /\ hangup[h].at = "cdr"
    /\ Step(h, IF ok THEN "close" ELSE "over")
    /\ stuck' = IF ok THEN stuck ELSE stuck \cup {hangup[h].s}
    /\ UNCHANGED <<offer, rows, peers, channel, conns, wired, waiting, crashes, raced, early, unheard, lost>>

\* The peer connection closes, which calls handleDisconnect again, and endSession finds the row.
ClosePeer(h) ==
    /\ hangup[h].at = "close"
    /\ Step(h, "end")
    /\ UNCHANGED <<offer, rows, peers, channel, conns, wired, waiting, crashes, history>>

End(h) ==
    /\ hangup[h].at = "end"
    /\ rows' = [rows EXCEPT ![hangup[h].s] = "ended"]
    /\ Step(h, "forget")
    /\ UNCHANGED <<offer, peers, channel, conns, wired, waiting, crashes, history>>

Forget(h) ==
    /\ hangup[h].at = "forget"
    /\ peers' = peers \ {hangup[h].s}
    /\ hangup' = [hangup EXCEPT ![h] = [at |-> "idle", s |-> hangup[h].s]]
    /\ UNCHANGED <<offer, rows, channel, conns, wired, waiting, crashes, history>>

\* The server restarts: the rows stay.
Crash ==
    /\ crashes < MaxCrashes
    /\ crashes' = crashes + 1
    /\ offer' = [o \in Offers |-> IF offer[o] = "idle" THEN "idle" ELSE "over"]
    /\ hangup' = [h \in Hangups |-> [hangup[h] EXCEPT !.at = "idle"]]
    /\ peers' = {} /\ channel' = {} /\ conns' = {} /\ wired' = {} /\ waiting' = {}
    /\ lost' = lost \cup Active
    /\ UNCHANGED <<rows, raced, early, unheard, stuck>>

-----------------------------------------------------------------------------
Init ==
    /\ offer = [o \in Offers |-> "idle"]
    /\ hangup = [h \in Hangups |-> [at |-> "idle", s |-> CHOOSE o \in Offers : TRUE]]
    /\ rows = [o \in Offers |-> "none"]
    /\ peers = {} /\ channel = {} /\ conns = {} /\ wired = {} /\ waiting = {} /\ crashes = 0
    /\ raced = {} /\ early = {} /\ unheard = {} /\ stuck = {} /\ lost = {}

Next ==
    \/ \E o \in Offers : \/ Validate(o) \/ CreateRow(o) \/ AddPeer(o) \/ Describe(o) \/ Fail(o) \/ Connect(o) \/ Opened(o)
                         \/ \E h \in Hangups : Begin(h, o)
    \/ \E h \in Hangups : \/ ClosePeer(h) \/ End(h) \/ Forget(h)
                          \/ \E ok \in BOOLEAN : HangUpCdr(h, ok)
    \/ Crash

Spec == Init /\ [][Next]_vars

-----------------------------------------------------------------------------
TypeOK ==
    /\ offer \in [Offers -> {"idle", "create", "find", "describe", "connect", "over"}]
    /\ hangup \in [Hangups -> [at : {"idle", "cdr", "close", "end", "forget", "over"}, s : Offers]]
    /\ rows \in [Offers -> {"none", "active", "ended"}]
    /\ \A S \in {peers, channel, conns, wired, waiting} : S \subseteq Offers

\* "Maximum concurrent sessions limit reached": the key never serves more sessions than it
\* may, unless two offers were validated at once.
WithinLimit == raced = {} => Cardinality(Active) <= Limit

\* A session that was hung up keeps neither its connection to the model nor its handlers,
\* unless it was hung up before its offer was answered; only the handler that waits for the
\* connection to open outlives a session that was hung up before it did, and nothing calls
\* it then.  A session that lives keeps its slot.
GivenBack ==
    \A o \in Offers \ early :
        /\ rows[o] = "ended" => o \notin conns \cup wired /\ (o \in waiting => o \in unheard)
        /\ o \in conns => o \in peers /\ rows[o] = "active"
        /\ o \in conns => o \notin unheard

\* "Cleanup method to be called periodically": nothing calls it, so a slot is given back
\* only by the hangup.
FairSpec ==
    /\ Spec
    /\ \A h \in Hangups : WF_vars(ClosePeer(h) \/ End(h) \/ Forget(h) \/ HangUpCdr(h, TRUE))
    /\ \A o \in Offers : WF_vars(CreateRow(o) \/ AddPeer(o) \/ Describe(o) \/ Connect(o))
    /\ \A o \in Offers : WF_vars(\E h \in Hangups : Begin(h, o))
SlotsComeBack == \A o \in Offers : rows[o] = "active" ~> rows[o] = "ended"

-----------------------------------------------------------------------------
WidgetConstants == Offers # {} /\ IsFiniteSet(Offers) /\ Limit \in Nat /\ MaxCrashes \in Nat

\* In turn, an offer that was validated still has its slot.
Counted ==
    raced = {} =>
        /\ \A o, p \in Offers : offer[o] = "create" /\ offer[p] = "create" => o = p
        /\ Cardinality(Active) <= Limit
        /\ (\E o \in Offers : offer[o] = "create") => Cardinality(Active) < Limit

HungUp(o) == \E h \in Hangups : hangup[h].s = o /\ hangup[h].at \in {"cdr", "close", "end", "forget"}

\* An offer that is not answered has taken what its place says and is not hung up.
Taken ==
    \A o \in Offers \ early :
        /\ offer[o] \in {"idle", "create"} => rows[o] = "none" /\ o \notin peers
        /\ offer[o] = "find" => rows[o] = "active" /\ o \notin peers
        /\ offer[o] \in {"describe", "connect"} => rows[o] = "active" /\ o \in peers
        /\ offer[o] # "over" => o \notin channel \cup conns \cup wired \cup waiting \cup unheard
        /\ HungUp(o) \/ rows[o] = "ended" =>
              offer[o] = "over" /\ o \notin conns \cup wired /\ (o \in waiting => o \in unheard)

IInv == TypeOK /\ Counted /\ Taken /\ GivenBack
==============================================================================
