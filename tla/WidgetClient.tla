---------------------------- MODULE WidgetClient ----------------------------
(***************************************************************************)
(* The widget in a visitor's page: the window with its buttons             *)
(* (AIVoiceWidget, ModalWindow) and WebRTCManager, which opens the         *)
(* microphone, a SIP user agent and a call, one after the other, and has   *)
(* one field for each.                                                     *)
(*                                                                         *)
(* A start and a stop are asynchronous functions; what they await lies     *)
(* with the browser and with sip.js, whose objects are named after the     *)
(* start that made them.  A cleanup empties the fields, whoever's they are.*)
(***************************************************************************)
EXTENDS FiniteSets

CONSTANTS Starts,   \* runs of startSession
          Stops,    \* runs of stopSession
          None

VARIABLES starting,    \* what each start awaits: "mic", "agent", "invite"
          stopping,    \* what each stop awaits: "call", "agent"
          mic,         \* external: the microphone each start was given
          agent,       \* external: its user agent
          call,        \* external: its call
          ending,      \* the user agent each stop has asked to stop
          localStream, session, userAgent,   \* the manager's fields: a start's, or None
          isSessionActive,
          shown,       \* the window is visible
          status,      \* its status, which says what buttons can be pressed
          overlapped   \* history: starts that met another start, its call, or a stop

vars == <<starting, stopping, mic, agent, call, ending, localStream, session, userAgent,
          isSessionActive, shown, status, overlapped>>
outside == <<mic, agent, call>>
fields  == <<localStream, session, userAgent>>

-----------------------------------------------------------------------------
UnderWay(s) == starting[s] \in {"mic", "agent", "invite"}
Going(s) == call[s] \in {"inviting", "established", "terminating"}
Engaged(s) == UnderWay(s) \/ session = s \/ userAgent = s \/ Going(s)
Met(s) == {t \in Starts \ {s} : Engaged(t)}
Halting == {x \in Stops : stopping[x] \in {"call", "agent"}}

Goto(s, label)   == starting' = [starting EXCEPT ![s] = label]
Say(what, active) == status' = what /\ isSessionActive' = active

\* cleanup() silences the microphone and forgets call and user agent.
Cleanup ==
    /\ mic' = [s \in Starts |-> IF s = localStream THEN "off" ELSE mic[s]]
    /\ localStream' = None /\ session' = None /\ userAgent' = None

\* Mutant: the fields are emptied, the tracks go on.
CleanupSilently ==
    /\ localStream' = None /\ session' = None /\ userAgent' = None
    /\ UNCHANGED mic

\* The handler of 'stopped' comes after a cleanup.
CleanupAndStopped == Cleanup /\ Say("ready", FALSE)

\* The catch of startSession: 'error', then cleanup.
CleanupAfterError == Cleanup /\ Say("error", FALSE)

-----------------------------------------------------------------------------
\* A click on the floating button.
Open ==
    /\ ~isSessionActive /\ shown' = TRUE
    /\ UNCHANGED <<starting, stopping, outside, ending, fields, isSessionActive, status, overlapped>>

\* The start button, which stays enabled until 'connected' or 'connecting'.
Start(s) ==
    /\ starting[s] = "idle" /\ shown /\ status \in {"ready", "error"}
    /\ overlapped' = IF Met(s) = {} /\ Halting = {} THEN overlapped ELSE overlapped \cup Met(s) \cup {s}
    /\ Goto(s, "mic")
    /\ UNCHANGED <<stopping, outside, ending, fields, isSessionActive, shown, status>>

\* getUserMedia resolves, and a new user agent begins to start.
Granted(s) ==
    /\ starting[s] = "mic"
    /\ mic' = [mic EXCEPT ![s] = "on"] /\ localStream' = s
    /\ agent' = [agent EXCEPT ![s] = "starting"] /\ userAgent' = s
    /\ Goto(s, "agent")
    /\ UNCHANGED <<stopping, call, ending, session, isSessionActive, shown, status, overlapped>>

Denied(s) ==
    /\ starting[s] = "mic"
    /\ CleanupAfterError /\ Goto(s, "over")
    /\ UNCHANGED <<stopping, agent, call, ending, shown, overlapped>>

\* onConnect: 'connected', while the start still waits for the user agent.
Connected(s) ==
    /\ agent[s] = "starting"
    /\ agent' = [agent EXCEPT ![s] = "up"]
    /\ Say("connected", TRUE)
    /\ UNCHANGED <<starting, stopping, mic, call, ending, fields, shown, overlapped>>

\* userAgent.start() resolves; the call is made on the user agent the manager has now,
\* and without one the constructor throws.
Invite(s) ==
    /\ starting[s] = "agent" /\ agent[s] \notin {"none", "starting"}
    /\ IF userAgent = None
       THEN CleanupAfterError /\ Goto(s, "over") /\ UNCHANGED call
       ELSE /\ session' = s /\ call' = [call EXCEPT ![s] = "inviting"]
            /\ status' = "connecting" /\ Goto(s, "invite")
            /\ UNCHANGED <<mic, localStream, userAgent, isSessionActive>>
    /\ UNCHANGED <<stopping, agent, ending, shown, overlapped>>

\* It rejects: the server cannot be reached, or the user agent has been stopped.
AgentFails(s) ==
    /\ starting[s] = "agent"
    /\ agent' = [agent EXCEPT ![s] = IF @ = "starting" THEN "failed" ELSE @]
    /\ CleanupAfterError /\ Goto(s, "over")
    /\ UNCHANGED <<stopping, call, ending, shown, overlapped>>

\* invite() resolves when the INVITE is sent.
Invited(s) ==
    /\ starting[s] = "invite" /\ Goto(s, "over")
    /\ UNCHANGED <<stopping, outside, ending, fields, isSessionActive, shown, status, overlapped>>

\* It rejects, and its call is terminated.
InviteFails(s) ==
    /\ starting[s] = "invite"
    /\ call' = [call EXCEPT ![s] = "terminated"]
    /\ CleanupAfterError /\ Goto(s, "over")
    /\ UNCHANGED <<stopping, agent, ending, shown, overlapped>>

-----------------------------------------------------------------------------
\* The call is answered.
Established(s) ==
    /\ call[s] = "inviting" /\ starting[s] = "over"
    /\ call' = [call EXCEPT ![s] = "established"]
    /\ UNCHANGED <<starting, stopping, mic, agent, ending, fields, isSessionActive, shown, status, overlapped>>

\* It ends, or is rejected: then 'error' comes before 'stopped', or after it.
Terminated(s) ==
    /\ Going(s) /\ starting[s] = "over"
    /\ call' = [call EXCEPT ![s] = "terminated"]
    /\ CleanupAndStopped \/ (call[s] = "inviting" /\ CleanupAfterError)
    /\ UNCHANGED <<starting, stopping, agent, ending, shown, overlapped>>

\* stopSession when its awaits for the call are over.
StopAgent(x) ==
    IF userAgent = None
    THEN /\ CleanupAndStopped
         /\ stopping' = [stopping EXCEPT ![x] = "over"] /\ UNCHANGED ending
    ELSE /\ stopping' = [stopping EXCEPT ![x] = "agent"]
         /\ ending' = [ending EXCEPT ![x] = userAgent]
         /\ UNCHANGED <<mic, fields, status, isSessionActive>>

\* stopSession: a call is cancelled or ended, by its state.
StopSession(x) ==
    /\ stopping[x] = "idle"
    /\ IF session # None /\ call[session] \in {"inviting", "established"}
       THEN /\ call' = [call EXCEPT ![session] = "terminating"]
            /\ stopping' = [stopping EXCEPT ![x] = "call"]
            /\ UNCHANGED <<mic, ending, fields, status, isSessionActive>>
       ELSE StopAgent(x) /\ UNCHANGED call

\* The close button hides the window, and stops only what is active.
Close(x) ==
    /\ shown /\ shown' = FALSE
    /\ IF isSessionActive
       THEN StopSession(x)
       ELSE UNCHANGED <<stopping, mic, call, ending, fields, isSessionActive, status>>
    /\ UNCHANGED <<starting, agent, overlapped>>

\* The stop button, enabled by 'connected' alone; the page may call stop() when it likes.
Stop(x) ==
    /\ StopSession(x)
    /\ UNCHANGED <<starting, agent, shown, overlapped>>

\* onDisconnect: 'disconnected'.
Disconnected(s, x) ==
    /\ agent[s] = "up" /\ agent' = [agent EXCEPT ![s] = "stopped"]
    /\ StopSession(x)
    /\ UNCHANGED <<starting, shown, overlapped>>

\* bye() or cancel() settles, whatever with.
CallSettled(x) ==
    /\ stopping[x] = "call"
    /\ StopAgent(x)
    /\ UNCHANGED <<starting, agent, call, shown, overlapped>>

\* userAgent.stop() settles: its calls are over, and cleanup() comes last.
AgentStopped(x) ==
    /\ stopping[x] = "agent"
    /\ agent' = [agent EXCEPT ![ending[x]] = "stopped"]
    /\ call' = [call EXCEPT ![ending[x]] = IF @ = "none" THEN @ ELSE "terminated"]
    /\ CleanupAndStopped
    /\ stopping' = [stopping EXCEPT ![x] = "over"]
    /\ UNCHANGED <<starting, ending, shown, overlapped>>

-----------------------------------------------------------------------------
Init ==
    /\ starting = [s \in Starts |-> "idle"] /\ stopping = [x \in Stops |-> "idle"]
    /\ mic = [s \in Starts |-> "off"] /\ agent = [s \in Starts |-> "none"]
    /\ call = [s \in Starts |-> "none"] /\ ending = [x \in Stops |-> None]
    /\ localStream = None /\ session = None /\ userAgent = None
    /\ isSessionActive = FALSE /\ shown = FALSE /\ status = "ready"
    /\ overlapped = {}

Next ==
    \/ Open
    \/ \E s \in Starts :
          \/ Start(s) \/ Granted(s) \/ Denied(s) \/ Connected(s) \/ Invite(s) \/ AgentFails(s)
          \/ Invited(s) \/ InviteFails(s) \/ Established(s) \/ Terminated(s)
    \/ \E x \in Stops : Close(x) \/ Stop(x) \/ CallSettled(x) \/ AgentStopped(x)
    \/ \E s \in Starts, x \in Stops : Disconnected(s, x)

Spec == Init /\ [][Next]_vars

-----------------------------------------------------------------------------
TypeOK ==
    /\ starting \in [Starts -> {"idle", "mic", "agent", "invite", "over"}]
    /\ stopping \in [Stops -> {"idle", "call", "agent", "over"}]
    /\ mic \in [Starts -> {"off", "on"}]
    /\ agent \in [Starts -> {"none", "starting", "up", "failed", "stopped"}]
    /\ call \in [Starts -> {"none", "inviting", "established", "terminating", "terminated"}]
    /\ {localStream, session, userAgent} \subseteq Starts \cup {None}
    /\ status \in {"ready", "connecting", "connected", "error"}

\* A visitor is not recorded when no call is there or on its way: a microphone that is
\* on has a start that goes on, or the call the manager can end, unless the start met another, or a stop.
MicrophoneReleased ==
    \A s \in Starts \ overlapped : mic[s] = "on" => UnderWay(s) \/ session = s

\* A call that goes on is the manager's, which alone can end it, or is being ended.
CallInHand ==
    \A s \in Starts \ overlapped : call[s] \in {"inviting", "established"} => session = s

\* What the window takes for an active session is one, or one on its way.
ActiveIsReal ==
    isSessionActive => session # None \/ Halting # {} \/ \E s \in Starts : UnderWay(s)

ClientSound == MicrophoneReleased /\ CallInHand /\ ActiveIsReal

-----------------------------------------------------------------------------
ClientConstants == None \notin Starts

Places ==
    /\ ending \in [Stops -> Starts \cup {None}]
    /\ isSessionActive \in BOOLEAN /\ shown \in BOOLEAN /\ overlapped \subseteq Starts
    /\ \A x \in Stops : stopping[x] = "agent" => ending[x] # None
    /\ session # None => userAgent # None
    /\ \A s \in Starts : /\ starting[s] \in {"idle", "mic", "agent"} => call[s] = "none"
                         /\ agent[s] = "starting" => starting[s] = "agent"

\* A start that met nobody has the manager to itself, and who stops a user agent stops its own.
OnItsOwn ==
    \A s \in Starts \ overlapped : Engaged(s) =>
        /\ \A t \in Starts \ {s} : ~Engaged(t)
        /\ \A x \in Stops : stopping[x] = "agent" => ending[x] = s

\* The microphone that is on is the manager's, and its call too once that is made.
Heard ==
    \A s \in Starts \ overlapped : mic[s] = "on" =>
        localStream = s /\ (starting[s] \in {"mic", "agent"} \/ session = s)

\* What the window shows as active has a call, or a start that has not come to it.
Shown == isSessionActive => session # None \/ Halting # {} \/ \E s \in Starts : starting[s] \in {"mic", "agent"}

IInv == TypeOK /\ Places /\ OnItsOwn /\ Heard /\ CallInHand /\ Shown
=============================================================================
