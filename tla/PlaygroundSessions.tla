-------------------------- MODULE PlaygroundSessions --------------------------
(***************************************************************************)
(* The playground: a browser tab talks to an assistant over its socket.    *)
(* Every run of handleInit and of handleStop is a process; both wait for   *)
(* the log, the database and the model between their steps.  All sessions  *)
(* of a socket share one channel, and so one connection to the model.      *)
(***************************************************************************)
EXTENDS Integers, FiniteSets

CONSTANTS Inits, Stops  \* runs of handleInit and of handleStop; a session bears the name of
                        \* the run that makes it

VARIABLES at,        \* what every run waits for
          obj,       \* the session that a run makes or cleans up
          entry,     \* sessions.get(socketId), or None
          initing,   \* initializingSocketIds has the socket
          realtime,  \* sessions of the realtime pipeline
          conn,      \* the connection to the model on the channel: the session it was made for
          wired,     \* the sessions whose handlers are registered
          gone,      \* the browser has disconnected
          early,     \* history: sessions that were cleaned up before they had their connection
          crossed    \* history: sessions that shared the channel with another's cleanup

vars == <<at, obj, entry, initing, realtime, conn, wired, gone, early, crossed>>

Runs == Inits \cup Stops
None == "none"
Goto(p, l) == at' = [at EXCEPT ![p] = l]
Cleaning == {p \in Runs : at[p] \in {"clean", "forget"}}

-----------------------------------------------------------------------------
\* handleInit: one at a time for the socket.
InitBegin(i) ==
    /\ at[i] = "idle" /\ ~gone
    /\ IF initing THEN Goto(i, "over") /\ UNCHANGED initing
                  ELSE Goto(i, "find") /\ initing' = TRUE
    /\ UNCHANGED <<obj, entry, realtime, conn, wired, gone, early, crossed>>

\* The assistant, and the session that is there already.
Find(i) ==
    /\ at[i] = "find"
    /\ IF entry = None
       THEN Goto(i, "set") /\ UNCHANGED obj
       ELSE Goto(i, "clean") /\ obj' = [obj EXCEPT ![i] = entry]
    /\ UNCHANGED <<entry, initing, realtime, conn, wired, gone, early, crossed>>

Missing(i) ==
    /\ at[i] = "find"
    /\ Goto(i, "over") /\ initing' = FALSE
    /\ UNCHANGED <<obj, entry, realtime, conn, wired, gone, early, crossed>>

\* The session joins the map.  createSession (non-realtime) is there at once and awaits the
\* CDR and the greeting; createConnection (realtime) awaits the balance first.
Set(i, rt) ==
    /\ at[i] = "set"
    /\ entry' = i
    /\ obj' = [obj EXCEPT ![i] = i]
    /\ IF rt
       THEN Goto(i, "connect") /\ realtime' = realtime \cup {i} /\ UNCHANGED <<conn, wired>>
       ELSE /\ Goto(i, "record") /\ wired' = wired \cup {i}
            /\ conn' = IF conn = None THEN i ELSE conn
            /\ UNCHANGED realtime
    /\ crossed' = IF Cleaning # {} THEN crossed \cup {i} ELSE crossed
    /\ UNCHANGED <<initing, gone, early>>

\* A channel that has a connection keeps it.
Connect(i) ==
    /\ at[i] = "connect"
    /\ conn' = IF conn = None THEN i ELSE conn
    /\ wired' = wired \cup {i}
    /\ Goto(i, "record")
    /\ UNCHANGED <<obj, entry, initing, realtime, gone, early, crossed>>

\* The balance is spent: the session stays in the map.
Refuse(i) ==
    /\ at[i] = "connect"
    /\ Goto(i, "over") /\ initing' = FALSE
    /\ UNCHANGED <<obj, entry, realtime, conn, wired, gone, early, crossed>>

Record(i) ==
    /\ at[i] = "record"
    /\ Goto(i, "over") /\ initing' = FALSE
    /\ UNCHANGED <<obj, entry, realtime, conn, wired, gone, early, crossed>>

-----------------------------------------------------------------------------
\* handleStop, called by the browser, by its disconnect and by the model's hangup.
StopBegin(s) ==
    /\ at[s] = "idle"
    /\ IF entry = None THEN Goto(s, "over") /\ UNCHANGED obj
       ELSE Goto(s, "clean") /\ obj' = [obj EXCEPT ![s] = entry]
    /\ gone' \in {gone, TRUE}
    /\ UNCHANGED <<entry, initing, realtime, conn, wired, early, crossed>>

Uncross(p) ==
    crossed' = crossed \cup {i \in Inits : i # obj[p] /\ (entry = i \/ conn = i)}

\* Mutant: the listeners stay.
CleanWired(p) ==
    /\ at[p] = "clean"
    /\ conn' = IF obj[p] \in realtime THEN conn ELSE None
    /\ early' = IF at[obj[p]] = "connect" THEN early \cup {obj[p]} ELSE early
    /\ Uncross(p)
    /\ Goto(p, "forget")
    /\ UNCHANGED <<obj, entry, initing, realtime, wired, gone>>

\* cleanupSession: the listeners go first, and the session of the non-realtime pipeline;
\* then the CDR hangup is awaited.
Clean(p) ==
    /\ at[p] = "clean"
    /\ wired' = wired \ {obj[p]}
    /\ conn' = IF obj[p] \in realtime THEN conn ELSE None
    /\ early' = IF at[obj[p]] = "connect" THEN early \cup {obj[p]} ELSE early
    /\ Uncross(p)
    /\ Goto(p, "forget")
    /\ UNCHANGED <<obj, entry, initing, realtime, gone>>

\* closeConnection, and the socket's session goes, whichever it is by now.
Forget(p) ==
    /\ at[p] = "forget"
    /\ conn' = IF obj[p] \in realtime THEN None ELSE conn
    /\ entry' = None
    /\ Uncross(p)
    /\ Goto(p, IF p \in Inits THEN "set" ELSE "over")
    /\ UNCHANGED <<obj, initing, realtime, wired, gone, early>>

-----------------------------------------------------------------------------
Init ==
    /\ at = [p \in Runs |-> "idle"]
    /\ obj = [p \in Runs |-> None]
    /\ entry = None /\ initing = FALSE /\ realtime = {} /\ conn = None /\ wired = {}
    /\ gone = FALSE /\ early = {} /\ crossed = {}

Next ==
    \/ \E i \in Inits : \/ InitBegin(i) \/ Find(i) \/ Missing(i) \/ Connect(i) \/ Refuse(i) \/ Record(i)
                        \/ \E rt \in BOOLEAN : Set(i, rt)
    \/ \E s \in Stops : StopBegin(s)
    \/ \E p \in Runs : Clean(p) \/ Forget(p)

Spec == Init /\ [][Next]_vars

-----------------------------------------------------------------------------
TypeOK ==
    /\ at \in [Runs -> {"idle", "find", "clean", "forget", "set", "connect", "record", "over"}]
    /\ entry \in Inits \cup {None} /\ conn \in Inits \cup {None} /\ wired \subseteq Inits

\* "Clean up existing session": once no run is under way a socket has one session at most,
\* and nothing of the sessions before it is left: neither their handlers nor their
\* connection, unless one was cleaned up before it had its connection, or while another
\* used the same channel.
NothingLeft ==
    (\A p \in Runs : at[p] \in {"idle", "over"}) =>
        \A i \in Inits \ (early \cup crossed) : i # entry => i \notin wired /\ conn # i

-----------------------------------------------------------------------------
PlaygroundConstants == Inits \cap Stops = {} /\ None \notin Inits

Begun == {"connect", "record", "over"}

\* One run of handleInit is under way, and it sets its session when there is none.
OneInit ==
    \A i \in Inits : at[i] \notin {"idle", "over"} =>
        /\ initing
        /\ \A j \in Inits : at[j] \notin {"idle", "over"} => i = j
        /\ at[i] = "set" => entry = None

\* What the map has, or a run cleans up, has been set.
Known ==
    /\ obj \in [Runs -> Inits \cup {None}]
    /\ \A p \in Cleaning : obj[p] # None /\ at[obj[p]] \in Begun
    /\ entry # None => at[entry] \in Begun
    /\ \A p \in Stops : at[p] \in {"idle", "clean", "forget", "over"}

\* What a session still has is the socket's session's, or its cleanup is not over.
Reached ==
    \A i \in Inits \ (early \cup crossed) :
        i \in wired \/ conn = i \/ at[i] = "connect" =>
            entry = i \/ \E p \in Cleaning : obj[p] = i

\* The first half of a cleanup is done.
Unwired ==
    \A p \in Runs : at[p] = "forget" /\ obj[p] \notin early \cup crossed =>
        /\ obj[p] \notin wired /\ at[obj[p]] # "connect"
        /\ conn = obj[p] => obj[p] \in realtime

IInv == TypeOK /\ OneInit /\ Known /\ Reached /\ Unwired
==============================================================================
