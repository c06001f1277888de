------------------------- MODULE RealtimeConnection -------------------------
(***************************************************************************)
(* OpenAiConnection: the WebSocket to the realtime voice model of one      *)
(* call.  It is dialled when the object is made, and again, with backoff,  *)
(* only when somebody wants to send and finds it down; what is sent in the *)
(* meantime is queued.  After too many dials, or an error that dialling    *)
(* again does not cure, it gives up for good.                              *)
(*                                                                         *)
(* Messages are numbered in the order they are sent.  Every handler runs   *)
(* without an await, and so is one action.                                 *)
(***************************************************************************)
EXTENDS Integers, Sequences

CONSTANTS MaxReconnect,   \* MAX_RECONNECT_ATTEMPTS
          Configured,     \* whether the vendor's base URL may be set
          Messages        \* bound: messages sent

RealtimeConstants ==
    /\ MaxReconnect \in Nat /\ Messages \in Nat
    /\ Configured \subseteq BOOLEAN

VARIABLES configured,  \* the vendor has a base URL
          ws,          \* readyState of the socket: down is closing or closed
          queue,       \* sendQueue
          timer,       \* a reconnectTimer is set
          attempts,    \* reconnectAttempts
          fatal,       \* isFatal
          manual,      \* isManualClose
          accepted,    \* messages sent before the connection was dead
          sent,        \* messages handed to a socket, in order
          dials,       \* sockets made since one was last open
          owner,       \* the call: talking, told of a fatal error, or hung up
          hooked,      \* a once() handler waits for openai.connected
          ahead        \* history: the message it sent before the queue, 0 for none

vars == <<configured, ws, queue, timer, attempts, fatal, manual, accepted, sent,
          dials, owner, hooked, ahead>>

-----------------------------------------------------------------------------
Dead == fatal \/ manual

\* What markFatal and close share.
TearDown ==
    /\ manual' = TRUE
    /\ timer' = FALSE
    /\ queue' = <<>>
    /\ ws' = "none"

\* The part of connect() that makes a socket.
Dial ==
    IF configured THEN ws' = "connecting" /\ dials' = dials + 1
                  ELSE UNCHANGED <<ws, dials>>

\* openai.connected is emitted before the queue is flushed.  The playground's handler
\* and the widget's configure the model at once; what the configuration waits for,
\* the tools of an MCP server, makes it an ordinary Send later on.
Configure ==
    /\ hooked' = FALSE
    /\ \/ /\ hooked /\ accepted < Messages
          /\ accepted' = accepted + 1
          /\ ahead' = accepted + 1
       \/ UNCHANGED <<accepted, ahead>>

First == IF ahead' = ahead THEN <<>> ELSE <<ahead'>>

\* Mutant: the queue is left for the next send.
OpenedUnflushed ==
    /\ ws = "connecting"
    /\ ws' = "open"
    /\ attempts' = 0
    /\ dials' = 0
    /\ Configure
    /\ sent' = sent \o First
    /\ UNCHANGED <<configured, timer, fatal, manual, queue, owner>>

\* The open event: those who waited for it, then flushQueue.
Opened ==
    /\ ws = "connecting"
    /\ ws' = "open"
    /\ attempts' = 0
    /\ dials' = 0
    /\ Configure
    /\ sent' = sent \o First \o queue
    /\ queue' = <<>>
    /\ UNCHANGED <<configured, timer, fatal, manual, owner>>

\* The socket fails or is closed by the other side; error and close only log.
Dropped ==
    /\ ws \in {"connecting", "open"}
    /\ ws' = "down"
    /\ UNCHANGED <<configured, queue, timer, attempts, fatal, manual, accepted,
                   sent, dials, owner, hooked, ahead>>

\* Mutant: one attempt more than the limit.
ScheduleOnceMore ==
    /\ attempts <= MaxReconnect
    /\ queue' = Append(queue, accepted + 1)
    /\ timer' = TRUE
    /\ attempts' = attempts + 1
    /\ UNCHANGED <<ws, fatal, manual>>

\* scheduleReconnect, after the message has been queued.
ScheduleReconnect ==
    \/ /\ timer
       /\ queue' = Append(queue, accepted + 1)
       /\ UNCHANGED <<ws, timer, attempts, fatal, manual>>
    \/ /\ ~timer
       /\ attempts < MaxReconnect
       /\ queue' = Append(queue, accepted + 1)
       /\ timer' = TRUE
       /\ attempts' = attempts + 1
       /\ UNCHANGED <<ws, fatal, manual>>
    \/ /\ ~timer
       /\ attempts >= MaxReconnect
       /\ fatal' = TRUE
       /\ TearDown
       /\ UNCHANGED attempts

\* What is sent after the end is discarded.
Send ==
    /\ ~Dead
    /\ accepted < Messages
    /\ accepted' = accepted + 1
    /\ \/ /\ ws \in {"none", "down"}
          /\ ScheduleReconnect
          /\ UNCHANGED sent
       \/ /\ ws = "connecting"
          /\ queue' = Append(queue, accepted + 1)
          /\ UNCHANGED <<ws, timer, attempts, fatal, manual, sent>>
       \/ /\ ws = "open"
          /\ sent' = Append(sent, accepted + 1)
          /\ UNCHANGED <<ws, queue, timer, attempts, fatal, manual>>
    /\ UNCHANGED <<configured, dials, owner, hooked, ahead>>

\* Mutant: the count of attempts starts again with the new socket.
TimerForgets ==
    /\ timer
    /\ timer' = FALSE
    /\ attempts' = 0
    /\ Dial
    /\ UNCHANGED <<configured, queue, fatal, manual, accepted, sent,
                   owner, hooked, ahead>>

TimerFires ==
    /\ timer
    /\ timer' = FALSE
    /\ IF Dead THEN UNCHANGED <<ws, dials>> ELSE Dial
    /\ UNCHANGED <<configured, queue, attempts, fatal, manual, accepted, sent,
                   owner, hooked, ahead>>

\* handleMessage of an error no reconnect cures: markFatal, and the event goes
\* to the owner, who logs it before he acts on it.
FatalError ==
    /\ ws = "open"
    /\ fatal' = TRUE
    /\ TearDown
    /\ owner' = "told"
    /\ UNCHANGED <<configured, attempts, accepted, sent, dials,
                   hooked, ahead>>

\* dataDecode of the error: closeConnection and HangupCall.
OwnerHangsUp ==
    /\ owner = "told"
    /\ TearDown
    /\ owner' = "ended"
    /\ UNCHANGED <<configured, attempts, fatal, accepted, sent, dials,
                   hooked, ahead>>

\* Mutant: the timer is not cleared.
CloseKeepingTimer ==
    /\ owner # "ended"
    /\ owner' = "ended"
    /\ manual' = TRUE
    /\ queue' = <<>>
    /\ ws' = "none"
    /\ UNCHANGED <<configured, timer, attempts, fatal, accepted, sent, dials,
                   hooked, ahead>>

\* close(): the call has ended.
Close ==
    /\ owner # "ended"
    /\ owner' = "ended"
    /\ TearDown
    /\ UNCHANGED <<configured, attempts, fatal, accepted, sent, dials,
                   hooked, ahead>>

-----------------------------------------------------------------------------
Init ==
    /\ configured \in Configured
    /\ ws = IF configured THEN "connecting" ELSE "none"
    /\ queue = <<>>
    /\ timer = FALSE
    /\ attempts = 0
    /\ fatal = FALSE
    /\ manual = FALSE
    /\ accepted = 0
    /\ sent = <<>>
    /\ dials = IF configured THEN 1 ELSE 0
    /\ owner = "talking"
    /\ hooked \in BOOLEAN
    /\ ahead = 0

Next ==
    \/ Opened \/ Dropped \/ Send \/ TimerFires
    \/ FatalError \/ OwnerHangsUp \/ Close

Spec == Init /\ [][Next]_vars

\* Timers fire and handlers that have begun go on; the caller need not hang up,
\* nor the other side accept a connection.
FairSpec == Spec /\ WF_vars(TimerFires) /\ WF_vars(OwnerHangsUp)

-----------------------------------------------------------------------------
\* The fields keep their ranges, the attempts their limit.
Flags == /\ configured \in BOOLEAN /\ timer \in BOOLEAN /\ fatal \in BOOLEAN
         /\ manual \in BOOLEAN /\ hooked \in BOOLEAN

Ranges ==
    /\ ws \in {"none", "connecting", "open", "down"}
    /\ queue \in Seq(1..Messages) /\ sent \in Seq(1..Messages)
    /\ attempts \in 0..MaxReconnect
    /\ accepted \in 0..Messages /\ ahead \in 0..accepted
    /\ dials \in Nat
    /\ owner \in {"talking", "told", "ended"}

TypeOK == Flags /\ Ranges

\* Nothing is lost, repeated or overtaken on its way to the socket, through every
\* reconnect, but by the configuration that whoever waited for the first connection
\* sends when it is there: it goes before all that was queued by then.  What was sent
\* and what waits are, in that order, what was accepted; only the end of the connection
\* discards what waits.
Nth(m) == IF m > ahead THEN m ELSE IF m = 1 THEN ahead ELSE m - 1

SentInOrder ==
    /\ ~Dead => sent \o queue = [m \in 1..accepted |-> Nth(m)]
    /\ Len(sent) <= accepted /\ sent = [m \in 1..Len(sent) |-> Nth(m)]

\* A pending reconnect never replaces a socket that works or is being opened, and
\* a dead connection has neither: no socket comes back after the call has ended.
TimerOnlyWhenDown ==
    /\ timer => ws \in {"none", "down"}
    /\ Dead => ~timer /\ ws = "none" /\ queue = <<>>

\* However sends and failures fall together, the vendor is dialled no more often
\* than the attempts allow until a connection opens ("Reconnecting only storms
\* logs", realtime-fatal-error.ts).
NoStorm == dials <= MaxReconnect + 1

\* What a connection keeps, whatever the network and the call do.
ConnectionSound == TypeOK /\ SentInOrder /\ TimerOnlyWhenDown /\ NoStorm

-----------------------------------------------------------------------------
\* A pending dial is one the attempts have counted, and an open socket leaves nothing
\* queued.
DialInv ==
    /\ dials + (IF timer THEN 1 ELSE 0) <= attempts + 1
    /\ ws = "open" => queue = <<>>

\* Whoever waits for the first connection has none, and nothing has been sent; what went
\* ahead of the queue has been.
Unopened ==
    /\ hooked => sent = <<>> /\ ws # "open"
    /\ ahead <= Len(sent)

IInv == TypeOK /\ SentInOrder /\ TimerOnlyWhenDown /\ DialInv /\ Unopened
=============================================================================
