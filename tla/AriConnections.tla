---------------------------- MODULE AriConnections ----------------------------
(***************************************************************************)
(* AriService and the connections to the Asterisk servers it keeps: the    *)
(* minute's watchdog and the administrator's changes both connect and      *)
(* disconnect, a WebSocket that breaks dials again by itself.              *)
(*                                                                         *)
(* connections is an array, and who removes from it has found the index    *)
(* before waiting for the calls of that connection to be cleaned up.       *)
(***************************************************************************)
EXTENDS Integers, Sequences, FiniteSets, SequencesExt, SequenceTheorems, FiniteSetTheorems, TLAPS

CONSTANTS Servers,
          Conns,       \* bound: AriConnection objects at a time
          NoConn,
          Watchdogs,   \* runs of watchdogCheck that may be under way at a time
          Admins,      \* requests of PbxServersService likewise
          MaxChanges,  \* bound: changes the administrators make
          MaxFaults    \* bound: connections that fail or break

ASSUME AriConstants ==
    /\ Servers # {} /\ NoConn \notin Conns
    /\ Watchdogs \cap Admins = {}
    /\ MaxChanges \in Nat /\ MaxFaults \in Nat

Ops == Watchdogs \cup Admins

VARIABLES db,           \* servers the table has
          deleted,      \* servers it had; uniqueId does not come back
          conns,        \* AriConnection objects; off once disconnected
          connections,  \* the array of AriService
          op,           \* locals of the operations under way
          overlapped,   \* two of them have been under way at the same time
          changes,
          faults

vars == <<db, deleted, conns, connections, op, overlapped, changes, faults>>

------------------------
AnyServer == CHOOSE s \in Servers : TRUE

NoOp == [pc |-> "idle", then |-> "idle", server |-> AnyServer, conn |-> NoConn,
         index |-> 0, list |-> <<>>, missing |-> {}, sweeping |-> FALSE]

Busy(o) == op[o].pc # "idle"

Begun(o) == overlapped' = (overlapped \/ \E q \in Ops : Busy(q))

Set(o, new) == op' = [op EXCEPT ![o] = new]

Registered == Range(connections)

\* Objects that nothing refers to any more are used again, whichever of them.
Free == {c \in Conns : /\ conns[c].ws = "off"
                       /\ c \notin Registered
                       /\ \A o \in Ops : c # op[o].conn /\ c \notin Range(op[o].list)}

MayFail == faults < MaxFaults

\* What an operation does when it is through with a server: a watchdog goes on
\* with the connections it has not looked at, or the servers that have none.
Through(o) ==
    Set(o, IF o \in Admins \/ (op[o].sweeping /\ op[o].missing = {}) THEN NoOp
           ELSE [op[o] EXCEPT !.pc = IF op[o].sweeping THEN "sweeping" ELSE "checking",
                              !.conn = NoConn, !.index = 0])

------------------------
\* create() and update(): the row, then connectToPbx.
SaveServer(o, s) ==
    /\ ~Busy(o)
    /\ changes < MaxChanges
    /\ s \notin deleted
    /\ changes' = changes + 1
    /\ db' = db \cup {s}
    /\ Set(o, [NoOp EXCEPT !.pc = "finding", !.then = "testing", !.server = s])
    /\ Begun(o)
    /\ UNCHANGED <<deleted, conns, connections, faults>>

\* delete(): disconnectFromPbx, then the row.
DeleteServer(o, s) ==
    /\ ~Busy(o)
    /\ changes < MaxChanges
    /\ s \in db
    /\ changes' = changes + 1
    /\ Set(o, [NoOp EXCEPT !.pc = "finding", !.then = "deleting", !.server = s])
    /\ Begun(o)
    /\ UNCHANGED <<db, deleted, conns, connections, faults>>

DeleteRow(o) ==
    /\ op[o].pc = "deleting"
    /\ db' = db \ {op[o].server}
    /\ deleted' = deleted \cup {op[o].server}
    /\ Set(o, NoOp)
    /\ UNCHANGED <<conns, connections, overlapped, changes, faults>>

StartWatchdog(o) ==
    /\ ~Busy(o)
    /\ Set(o, [NoOp EXCEPT !.pc = "checking", !.list = connections])
    /\ Begun(o)
    /\ UNCHANGED <<db, deleted, conns, connections, changes, faults>>

\* The next connection of the copy; one that is offline is disconnected.
CheckNext(o) ==
    LET c == Head(op[o].list) IN
    /\ op[o].pc = "checking"
    /\ op[o].list # <<>>
    /\ Set(o, [op[o] EXCEPT !.list = Tail(@), !.server = conns[c].server,
                            !.pc = IF conns[c].ws = "open" THEN "checking" ELSE "finding",
                            !.then = "looking"])
    /\ UNCHANGED <<db, deleted, conns, connections, overlapped, changes, faults>>

\* getAll: a server that still exists is connected again.
LookUpServer(o) ==
    /\ op[o].pc = "looking"
    /\ IF op[o].server \in db
       THEN Set(o, [op[o] EXCEPT !.pc = "finding", !.then = "testing"])
       ELSE Through(o)
    /\ UNCHANGED <<db, deleted, conns, connections, overlapped, changes, faults>>

\* Mutant: the watchdog looks after the connections it knows only.
ListNothing(o) ==
    /\ op[o].pc = "checking"
    /\ op[o].list = <<>>
    /\ Set(o, NoOp)
    /\ UNCHANGED <<db, deleted, conns, connections, overlapped, changes, faults>>

\* getAll again: the servers without a connection.
ListMissing(o) ==
    LET missing == db \ {conns[c].server : c \in Registered} IN
    /\ op[o].pc = "checking"
    /\ op[o].list = <<>>
    /\ Set(o, IF missing = {} THEN NoOp
              ELSE [op[o] EXCEPT !.pc = "sweeping", !.missing = missing, !.sweeping = TRUE])
    /\ UNCHANGED <<db, deleted, conns, connections, overlapped, changes, faults>>

ConnectMissing(o) ==
    /\ op[o].pc = "sweeping"
    /\ \E s \in op[o].missing :
          Set(o, [op[o] EXCEPT !.pc = "finding", !.then = "testing", !.server = s,
                               !.missing = @ \ {s}])
    /\ UNCHANGED <<db, deleted, conns, connections, overlapped, changes, faults>>

------------------------
\* Mutant: connectToPbx does not disconnect.
FindNothing(o) ==
    /\ op[o].pc = "finding"
    /\ Set(o, [op[o] EXCEPT !.pc = op[o].then])
    /\ UNCHANGED <<db, deleted, conns, connections, overlapped, changes, faults>>

\* disconnectFromPbx: the index of the server's connection, if it has one.
FindIndex(o) ==
    LET i == SelectInSeq(connections, LAMBDA c : conns[c].server = op[o].server) IN
    /\ op[o].pc = "finding"
    /\ Set(o, IF i = 0 THEN [op[o] EXCEPT !.pc = op[o].then]
              ELSE [op[o] EXCEPT !.pc = "removing", !.index = i, !.conn = connections[i]])
    /\ UNCHANGED <<db, deleted, conns, connections, overlapped, changes, faults>>

\* The calls of the connection are cleaned up, its WebSocket is closed for good,
\* and splice removes what is at the index by now.
RemoveConnection(o) ==
    LET i == op[o].index IN
    /\ op[o].pc = "removing"
    /\ conns' = [conns EXCEPT ![op[o].conn].ws = "off", ![op[o].conn].stray = FALSE]
    /\ connections' = IF i > Len(connections) THEN connections ELSE RemoveAt(connections, i)
    /\ Set(o, [op[o] EXCEPT !.pc = op[o].then, !.conn = NoConn, !.index = 0])
    /\ UNCHANGED <<db, deleted, overlapped, changes, faults>>

\* testConnection over HTTP, and the WebSocket.
TestConnection(o) ==
    /\ op[o].pc = "testing"
    /\ \/ LET c == CHOOSE c \in Free : TRUE IN
             /\ Free # {}
             /\ conns' = [conns EXCEPT ![c] = [server |-> op[o].server, ws |-> "connecting",
                                               stray |-> FALSE]]
             /\ Set(o, [op[o] EXCEPT !.pc = "dialling", !.conn = c])
             /\ UNCHANGED faults
       \/ /\ MayFail
          /\ faults' = faults + 1
          /\ Through(o)
          /\ UNCHANGED conns
    /\ UNCHANGED <<db, deleted, connections, overlapped, changes>>

\* Mutant: the row is registered instead of the connection.
PushServer(o) ==
    /\ op[o].pc = "dialling"
    /\ conns' = [conns EXCEPT ![op[o].conn].ws = "open"]
    /\ connections' = Append(connections, op[o].server)
    /\ Through(o)
    /\ UNCHANGED <<db, deleted, overlapped, changes, faults>>

DialOpens(o) ==
    /\ op[o].pc = "dialling"
    /\ conns' = [conns EXCEPT ![op[o].conn].ws = "open"]
    /\ connections' = Append(connections, op[o].conn)
    /\ Through(o)
    /\ UNCHANGED <<db, deleted, overlapped, changes, faults>>

\* connect() throws and the connection is not registered, but its close event
\* has it dial again: stray.
DialFails(o) ==
    /\ op[o].pc = "dialling"
    /\ MayFail
    /\ faults' = faults + 1
    /\ conns' = [conns EXCEPT ![op[o].conn].ws = "waiting", ![op[o].conn].stray = TRUE]
    /\ Through(o)
    /\ UNCHANGED <<db, deleted, connections, overlapped, changes>>

------------------------
Dialling(c) == \E o \in Ops : op[o].pc = "dialling" /\ op[o].conn = c

\* The server goes away, or a ping is not answered in time.
Break(c) ==
    /\ conns[c].ws = "open"
    /\ MayFail
    /\ faults' = faults + 1
    /\ conns' = [conns EXCEPT ![c].ws = "waiting"]
    /\ UNCHANGED <<db, deleted, connections, op, overlapped, changes>>

\* The five seconds are over; webSocket is not null.
Redial(c) ==
    /\ conns[c].ws = "waiting"
    /\ conns' = [conns EXCEPT ![c].ws = "connecting"]
    /\ UNCHANGED <<db, deleted, connections, op, overlapped, changes, faults>>

Reopen(c) ==
    /\ conns[c].ws = "connecting"
    /\ ~Dialling(c)
    /\ conns' = [conns EXCEPT ![c].ws = "open"]
    /\ UNCHANGED <<db, deleted, connections, op, overlapped, changes, faults>>

RedialFails(c) ==
    /\ conns[c].ws = "connecting"
    /\ ~Dialling(c)
    /\ MayFail
    /\ faults' = faults + 1
    /\ conns' = [conns EXCEPT ![c].ws = "waiting"]
    /\ UNCHANGED <<db, deleted, connections, op, overlapped, changes>>

------------------------
Init ==
    /\ db \in SUBSET Servers
    /\ deleted = {}
    /\ conns = [c \in Conns |-> [server |-> AnyServer, ws |-> "off", stray |-> FALSE]]
    /\ connections = <<>>
    /\ op = [o \in Ops |-> NoOp]
    /\ overlapped = FALSE
    /\ changes = 0
    /\ faults = 0

Advance(o) ==
    \/ DeleteRow(o) \/ CheckNext(o) \/ LookUpServer(o) \/ ListMissing(o)
    \/ ConnectMissing(o) \/ FindIndex(o) \/ RemoveConnection(o) \/ TestConnection(o)
    \/ DialOpens(o)

Next ==
    \/ \E o \in Admins, s \in Servers : SaveServer(o, s) \/ DeleteServer(o, s)
    \/ \E o \in Watchdogs : StartWatchdog(o)
    \/ \E o \in Ops : Advance(o) \/ DialFails(o)
    \/ \E c \in Conns : Break(c) \/ Redial(c) \/ Reopen(c) \/ RedialFails(c)

Spec == Init /\ [][Next]_vars

\* The cron starts the watchdog every minute, what has begun goes on, and a
\* WebSocket that does not fail opens.
FairSpec ==
    /\ Spec
    /\ \A o \in Watchdogs : WF_vars(StartWatchdog(o))
    /\ \A o \in Ops : WF_vars(Advance(o))
    /\ \A c \in Conns : WF_vars(Redial(c)) /\ WF_vars(Reopen(c))

------------------------
\* Locals, objects and the array keep their shapes.
TypeOK ==
    /\ db \cup deleted \subseteq Servers
    /\ conns \in [Conns -> [server : Servers, stray : BOOLEAN,
                            ws : {"off", "connecting", "open", "waiting"}]]
    /\ connections \in Seq(Conns)
    /\ \A o \in Ops :
          /\ op[o].pc \in {"idle", "checking", "looking", "sweeping", "finding",
                           "removing", "testing", "dialling", "deleting"}
          /\ op[o].then \in {"idle", "looking", "testing", "deleting"}
          /\ op[o].server \in Servers /\ op[o].conn \in Conns \cup {NoConn}
          /\ op[o].list \in Seq(Conns) /\ op[o].missing \subseteq Servers
    /\ overlapped \in BOOLEAN

Open(s) == {c \in Conns : conns[c].server = s /\ conns[c].ws = "open"}

\* As long as the watchdog and the administrators take turns, a server has one
\* connection at most, registered, and none after its deletion, apart from
\* those the first dial of which failed.
OneConnectionInTurn ==
    ~overlapped => \A s \in Servers :
       LET own == {c \in Open(s) : ~conns[c].stray} IN
       /\ Cardinality(own) <= 1
       /\ own \subseteq Registered
       /\ Len(connections) = Cardinality(Registered)
       /\ s \notin db => own = {}

\* The shapes of the objects and of the array, and what taking turns guarantees.
InTurn == TypeOK /\ OneConnectionInTurn

\* When nothing fails any more, a server that stays in the table is connected in
\* the end and stays so, whatever failed or overlapped before.
ServersComeOnline ==
    \A s \in Servers :
       <>[](s \in db) => <>[](\E c \in Registered : conns[c].server = s /\ conns[c].ws = "open")

------------------------
(***************************************************************************)
(* Proofs.                                                                 *)
(***************************************************************************)
Locals == [pc : {"idle", "checking", "looking", "sweeping", "finding",
                 "removing", "testing", "dialling", "deleting"},
           then : {"idle", "looking", "testing", "deleting"},
           server : Servers, conn : Conns \cup {NoConn}, index : Nat,
           list : Seq(Conns), missing : SUBSET Servers, sweeping : BOOLEAN]

Shapes ==
    /\ db \subseteq Servers /\ deleted \subseteq Servers
    /\ conns \in [Conns -> [server : Servers, stray : BOOLEAN,
                            ws : {"off", "connecting", "open", "waiting"}]]
    /\ connections \in Seq(Conns)
    /\ op \in [Ops -> Locals]
    /\ overlapped \in BOOLEAN
    /\ \A o \in Ops : /\ op[o].pc = "removing" => op[o].conn \in Conns /\ op[o].index > 0
                      /\ op[o].pc = "dialling" => op[o].conn \in Conns

Without(s) == \A c \in Registered : conns[c].server # s

\* One is under way at a time.
Sole == \A o, q \in Ops : Busy(o) /\ Busy(q) => o = q

\* The array and the objects between two operations.
Settled ==
    /\ \A i, k \in DOMAIN connections :
          conns[connections[i]].server = conns[connections[k]].server => i = k
    /\ \A c \in Registered : conns[c].ws # "off" /\ ~conns[c].stray /\ conns[c].server \in db
    /\ \A c \in Conns : conns[c].ws # "off" /\ ~conns[c].stray => c \in Registered \/ Dialling(c)

\* What the operation under way has found out and may rely on.
Proceeds(o) ==
    /\ op[o].pc = "removing" => /\ op[o].index \in DOMAIN connections
                                /\ connections[op[o].index] = op[o].conn
                                /\ conns[op[o].conn].server = op[o].server
    /\ op[o].pc \in {"testing", "dialling", "deleting", "looking"} => Without(op[o].server)
    /\ op[o].pc \in {"testing", "dialling"} => op[o].server \in db
    /\ op[o].pc \in {"finding", "removing"} =>
          /\ op[o].then \in {"looking", "testing", "deleting"}
          /\ op[o].then = "testing" => op[o].server \in db
    /\ op[o].pc = "dialling" =>
          /\ op[o].conn \notin Registered
          /\ conns[op[o].conn] = [server |-> op[o].server, ws |-> "connecting", stray |-> FALSE]
    /\ op[o].pc = "sweeping" => op[o].sweeping
    /\ Busy(o) /\ op[o].sweeping => op[o].missing \subseteq db

Taking == ~overlapped => Sole /\ Settled /\ \A o \in Ops : Proceeds(o)

IInv == Shapes /\ Taking

------------------------
\* Lemmas on the array.
LEMMA CutOut ==
    ASSUME NEW S, NEW s \in Seq(S), NEW i \in 1 .. Len(s)
    PROVE  /\ RemoveAt(s, i) \in Seq(S)
           /\ Len(RemoveAt(s, i)) = Len(s) - 1
           /\ \A k \in 1 .. Len(s) - 1 : RemoveAt(s, i)[k] = IF k < i THEN s[k] ELSE s[k + 1]
<1> DEFINE a == SubSeq(s, 1, i - 1)
           b == SubSeq(s, i + 1, Len(s))
<1>0. Len(s) \in Nat /\ i \in Nat /\ i >= 1 /\ i <= Len(s) /\ \A k \in 1 .. Len(s) : s[k] \in S BY LenProperties
<1>1. /\ a \in Seq(S) /\ Len(a) = i - 1
      /\ \A k \in 1 .. i - 1 : a[k] = s[k]
  <2>1. \A k \in 1 .. i - 1 : s[k] \in S BY <1>0
  <2>2. /\ a \in Seq(S) /\ Len(a) = IF 1 <= i - 1 THEN (i - 1) - 1 + 1 ELSE 0
        /\ \A k \in 1 .. (i - 1) - 1 + 1 : a[k] = s[1 + k - 1]
    BY <1>0, <2>1, SubSeqProperties
  <2> QED BY <1>0, <2>2
<1>2. /\ b \in Seq(S) /\ Len(b) = Len(s) - i
      /\ \A k \in 1 .. Len(s) - i : b[k] = s[i + k]
  <2>1. \A k \in i + 1 .. Len(s) : s[k] \in S BY <1>0
  <2>2. /\ b \in Seq(S) /\ Len(b) = IF i + 1 <= Len(s) THEN Len(s) - (i + 1) + 1 ELSE 0
        /\ \A k \in 1 .. Len(s) - (i + 1) + 1 : b[k] = s[(i + 1) + k - 1]
    BY <1>0, <2>1, SubSeqProperties
  <2> QED BY <1>0, <2>2
<1>3. RemoveAt(s, i) = a \o b BY DEF RemoveAt
<1> HIDE DEF a, b
<1>4. /\ a \o b \in Seq(S) /\ Len(a \o b) = Len(a) + Len(b)
      /\ \A k \in 1 .. Len(a) + Len(b) : (a \o b)[k] = IF k <= Len(a) THEN a[k] ELSE b[k - Len(a)]
  BY <1>1, <1>2, ConcatProperties
<1> QED BY <1>0, <1>1, <1>2, <1>3, <1>4

\* A set of naturals that has a member has a least one.
LEMMA LeastIndex ==
    ASSUME NEW I \in SUBSET Nat, I # {}
    PROVE  Min(I) \in I
<1>1. IsWellFoundedOn(OpToRel(<, Nat), Nat) BY NatLessThanWellFounded
<1>2. PICK m \in I : \A k \in I : <<k, m>> \notin OpToRel(<, Nat) BY <1>1, WFMin
<1>3. OpToRel(<, Nat) = {ss \in Nat \X Nat : ss[1] < ss[2]} BY DEF OpToRel
<1>4. \A k \in I : ~(k < m) BY <1>2, <1>3
<1>5. \A k \in I : m <= k BY <1>4
<1> QED BY <1>5 DEF Min

\* disconnectFromPbx finds the index of a connection of the server, or there is none.
LEMMA IndexFound ==
    ASSUME Shapes, NEW s \in Servers
    PROVE  LET i == SelectInSeq(connections, LAMBDA c : conns[c].server = s) IN
           \/ i = 0 /\ Without(s)
           \/ i \in 1 .. Len(connections) /\ conns[connections[i]].server = s
<1> DEFINE I == {i \in 1 .. Len(connections) : conns[connections[i]].server = s}
<1>1. Len(connections) \in Nat /\ DOMAIN connections = 1 .. Len(connections) BY LenProperties DEF Shapes
<1>2. SelectInSeq(connections, LAMBDA c : conns[c].server = s) = IF I # {} THEN Min(I) ELSE 0 BY DEF SelectInSeq
<1>3. I # {} => Min(I) \in I
  <2>1. I \in SUBSET Nat BY <1>1
  <2> HIDE DEF I
  <2> QED BY <2>1, LeastIndex
<1>4. I = {} => Without(s) BY <1>1 DEF Without, Registered, Range
<1> HIDE DEF I
<1>5. CASE I = {} BY <1>2, <1>4, <1>5
<1>6. CASE I # {} BY <1>2, <1>3, <1>6 DEF I
<1> QED BY <1>5, <1>6

------------------------
\* What a step does to the locals of the operations.
LEMMA SetEffect ==
    ASSUME Shapes, NEW o \in Ops, NEW new \in Locals, Set(o, new)
    PROVE  op' \in [Ops -> Locals] /\ op'[o] = new /\ \A q \in Ops : q # o => op'[q] = op[q]
  BY DEF Set, Shapes

LEMMA NoOpIsLocal == NoOp \in Locals
<1>1. AnyServer \in Servers BY AriConstants DEF AnyServer
<1>2. <<>> \in Seq(Conns) BY EmptySeq
<1> QED BY <1>1, <1>2 DEF NoOp, Locals

LEMMA ThroughEffect ==
    ASSUME Shapes, NEW o \in Ops, Through(o)
    PROVE  /\ op' \in [Ops -> Locals] /\ \A q \in Ops : q # o => op'[q] = op[q]
           /\ op'[o].pc \in {"idle", "checking", "sweeping"}
           /\ op'[o].pc # "idle" => op'[o].sweeping = op[o].sweeping /\ op'[o].missing = op[o].missing
           /\ op'[o].pc = "sweeping" => op'[o].sweeping
<1> DEFINE new == [op[o] EXCEPT !.pc = IF op[o].sweeping THEN "sweeping" ELSE "checking",
                                !.conn = NoConn, !.index = 0]
<1>1. op[o] \in Locals BY DEF Shapes
<1>2. /\ new \in Locals /\ new.pc \in {"checking", "sweeping"}
      /\ new.sweeping = op[o].sweeping /\ new.missing = op[o].missing
      /\ new.pc = "sweeping" => new.sweeping
  BY <1>1 DEF Locals
<1>3. NoOp \in Locals /\ NoOp.pc = "idle" BY NoOpIsLocal DEF NoOp
<1>4. Set(o, NoOp) \/ Set(o, new) BY DEF Through
<1> HIDE DEF new
<1> QED BY <1>2, <1>3, <1>4, SetEffect

\* A step of an operation that is under way, or that begins, has to keep only the
\* array and what this operation relies on: the others are idle, if none overlap.
Alone(o) == \A q \in Ops : q # o => ~Busy(q)

LEMMA TurnTaken ==
    ASSUME IInv, NEW o \in Ops, \A q \in Ops : q # o => op'[q] = op[q],
           \/ Busy(o) /\ overlapped' = overlapped
           \/ Begun(o),
           Sole /\ Settled /\ Proceeds(o) /\ Alone(o) /\ Alone(o)' => Settled' /\ Proceeds(o)'
    PROVE  Taking'
<1> SUFFICES ASSUME ~overlapped'
             PROVE  Sole' /\ Settled' /\ \A q \in Ops : Proceeds(q)'
  BY DEF Taking
<1>1. ~overlapped /\ Alone(o)
  <2>1. CASE Busy(o) /\ overlapped' = overlapped BY <2>1 DEF IInv, Taking, Sole, Alone
  <2>2. CASE Begun(o)
    <3>1. ~(overlapped \/ \E q \in Ops : Busy(q)) BY <2>2, Zenon DEF Begun
    <3> QED BY <3>1 DEF Alone
  <2> QED BY <2>1, <2>2
<1>2. Sole /\ Settled /\ Proceeds(o) BY <1>1 DEF IInv, Taking
<1>3. \A q \in Ops : q # o => op'[q].pc = "idle" BY <1>1 DEF Alone, Busy
<1>4. Alone(o)' BY <1>3 DEF Alone, Busy
<1>5. Settled' /\ Proceeds(o)' BY <1>1, <1>2, <1>4
<1>6. \A q \in Ops : q # o => Proceeds(q)' BY <1>3 DEF Proceeds, Busy
<1>7. Sole' BY <1>4 DEF Sole, Alone
<1> QED BY <1>5, <1>6, <1>7

LEMMA SettledStays ==
    ASSUME Settled, conns' = conns, connections' = connections, db \subseteq db',
           \A c \in Conns : Dialling(c) => Dialling(c)'
    PROVE  Settled'
<1>1. Registered' = Registered BY DEF Registered
<1>2. \A c \in Registered : conns'[c].ws # "off" /\ ~conns'[c].stray /\ conns'[c].server \in db' BY DEF Settled
<1>3. \A c \in Conns : conns'[c].ws # "off" /\ ~conns'[c].stray => c \in Registered \/ Dialling(c)' BY DEF Settled
<1> QED BY <1>1, <1>2, <1>3 DEF Settled

LEMMA NoneDials ==
    ASSUME NEW o \in Ops, Alone(o), op[o].pc # "dialling"
    PROVE  \A c \in Conns : ~Dialling(c)
  BY DEF Alone, Busy, Dialling

------------------------
\* The operations that neither touch a connection nor the array.
LEMMA SaveServerKeeps ==
    ASSUME IInv, NEW o \in Admins, NEW s \in Servers, SaveServer(o, s)
    PROVE  IInv'
<1> DEFINE new == [NoOp EXCEPT !.pc = "finding", !.then = "testing", !.server = s]
<1>0. Shapes /\ Taking /\ o \in Ops BY DEF IInv, Ops
<1>1. /\ new \in Locals
      /\ new.pc = "finding" /\ new.then = "testing" /\ new.server = s /\ new.sweeping = FALSE
  BY NoOpIsLocal DEF Locals, NoOp
<1>2. /\ db' = db \cup {s} /\ conns' = conns /\ connections' = connections /\ deleted' = deleted
      /\ Set(o, new) /\ Begun(o) /\ op[o].pc = "idle"
  BY DEF SaveServer, Busy
<1> HIDE DEF new
<1>3. op' \in [Ops -> Locals] /\ op'[o] = new /\ \A q \in Ops : q # o => op'[q] = op[q]
  BY <1>0, <1>1, <1>2, SetEffect
<1>4. Shapes'
  <2>1. overlapped' \in BOOLEAN BY <1>0, <1>2, Zenon DEF Shapes, Begun
  <2>2. \A q \in Ops : /\ op'[q].pc = "removing" => op'[q].conn \in Conns /\ op'[q].index > 0
                       /\ op'[q].pc = "dialling" => op'[q].conn \in Conns
    BY <1>0, <1>1, <1>3 DEF Shapes
  <2> QED BY <1>0, <1>2, <1>3, <2>1, <2>2 DEF Shapes
<1>5. ASSUME Settled, Alone(o) PROVE Settled' /\ Proceeds(o)'
  <2>1. \A c \in Conns : ~Dialling(c) BY <1>0, <1>2, <1>5, NoneDials
  <2>2. Settled' BY <1>2, <1>5, <2>1, SettledStays
  <2>3. Proceeds(o)' BY <1>1, <1>2, <1>3 DEF Proceeds, Busy
  <2> QED BY <2>2, <2>3
<1>6. Taking' BY <1>0, <1>2, <1>3, <1>5, TurnTaken
<1> QED BY <1>4, <1>6 DEF IInv

LEMMA LocalStep ==
    ASSUME IInv, NEW o \in Ops, UNCHANGED <<db, deleted, conns, connections>>,
           op' \in [Ops -> Locals], \A q \in Ops : q # o => op'[q] = op[q],
           op[o].pc # "dialling", op'[o].pc # "dialling",
           op'[o].pc = "removing" => op'[o].conn \in Conns /\ op'[o].index > 0,
           \/ Busy(o) /\ overlapped' = overlapped
           \/ Begun(o),
           Settled /\ Proceeds(o) => Proceeds(o)'
    PROVE  IInv'
<1>0. Shapes BY DEF IInv
<1>1. Shapes'
  <2>1. overlapped' \in BOOLEAN
    <3>1. CASE overlapped' = overlapped BY <1>0, <3>1 DEF Shapes
    <3>2. CASE Begun(o) BY <3>2, Zenon DEF Begun
    <3> QED BY <3>1, <3>2
  <2>2. \A q \in Ops : /\ op'[q].pc = "removing" => op'[q].conn \in Conns /\ op'[q].index > 0
                       /\ op'[q].pc = "dialling" => op'[q].conn \in Conns
    BY <1>0 DEF Shapes
  <2> QED BY <1>0, <2>1, <2>2 DEF Shapes
<1>2. ASSUME Settled, Proceeds(o), Alone(o) PROVE Settled' /\ Proceeds(o)'
  <2>1. \A c \in Conns : ~Dialling(c) BY <1>2, NoneDials
  <2> QED BY <1>2, <2>1, SettledStays
<1>3. Taking' BY <1>2, TurnTaken
<1> QED BY <1>1, <1>3 DEF IInv

LEMMA DeleteServerKeeps ==
    ASSUME IInv, NEW o \in Admins, NEW s \in Servers, DeleteServer(o, s)
    PROVE  IInv'
<1> DEFINE new == [NoOp EXCEPT !.pc = "finding", !.then = "deleting", !.server = s]
<1>0. Shapes /\ o \in Ops BY DEF IInv, Ops
<1>1. new \in Locals /\ new.pc = "finding" /\ new.then = "deleting" /\ new.sweeping = FALSE
  BY NoOpIsLocal DEF Locals, NoOp
<1>2. Set(o, new) /\ Begun(o) /\ op[o].pc = "idle" /\ UNCHANGED <<db, deleted, conns, connections>>
  BY DEF DeleteServer, Busy
<1> HIDE DEF new
<1>3. op' \in [Ops -> Locals] /\ op'[o] = new /\ \A q \in Ops : q # o => op'[q] = op[q]
  BY <1>0, <1>1, <1>2, SetEffect
<1>4. Proceeds(o)' BY <1>1, <1>3 DEF Proceeds, Busy
<1> QED BY <1>0, <1>1, <1>2, <1>3, <1>4, LocalStep

LEMMA StartWatchdogKeeps ==
    ASSUME IInv, NEW o \in Watchdogs, StartWatchdog(o)
    PROVE  IInv'
<1> DEFINE new == [NoOp EXCEPT !.pc = "checking", !.list = connections]
<1>0. Shapes /\ o \in Ops BY DEF IInv, Ops
<1>1. new \in Locals /\ new.pc = "checking" /\ new.sweeping = FALSE BY <1>0, NoOpIsLocal DEF Locals, NoOp, Shapes
<1>2. Set(o, new) /\ Begun(o) /\ op[o].pc = "idle" /\ UNCHANGED <<db, deleted, conns, connections>>
  BY DEF StartWatchdog, Busy
<1> HIDE DEF new
<1>3. op' \in [Ops -> Locals] /\ op'[o] = new /\ \A q \in Ops : q # o => op'[q] = op[q]
  BY <1>0, <1>1, <1>2, SetEffect
<1>4. Proceeds(o)' BY <1>1, <1>3 DEF Proceeds, Busy
<1> QED BY <1>0, <1>1, <1>2, <1>3, <1>4, LocalStep

LEMMA CheckNextKeeps ==
    ASSUME IInv, NEW o \in Ops, CheckNext(o)
    PROVE  IInv'
<1> DEFINE c   == Head(op[o].list)
           new == [op[o] EXCEPT !.list = Tail(@), !.server = conns[c].server,
                                !.pc = IF conns[c].ws = "open" THEN "checking" ELSE "finding",
                                !.then = "looking"]
<1>0. Shapes /\ op[o] \in Locals BY DEF IInv, Shapes
<1>1. op[o].list \in Seq(Conns) /\ op[o].list # <<>> /\ op[o].pc = "checking" BY <1>0 DEF CheckNext, Locals
<1>2. c \in Conns /\ Tail(op[o].list) \in Seq(Conns) BY <1>1, HeadTailProperties
<1>3. conns[c].server \in Servers BY <1>0, <1>2 DEF Shapes
<1>4. Set(o, new) /\ UNCHANGED <<db, deleted, conns, connections, overlapped>> BY DEF CheckNext
<1> HIDE DEF c
<1>5. /\ new \in Locals /\ new.pc \in {"checking", "finding"} /\ new.then = "looking"
      /\ new.sweeping = op[o].sweeping /\ new.missing = op[o].missing
  BY <1>0, <1>2, <1>3 DEF Locals
<1> HIDE DEF new
<1>6. op' \in [Ops -> Locals] /\ op'[o] = new /\ \A q \in Ops : q # o => op'[q] = op[q]
  BY <1>0, <1>4, <1>5, SetEffect
<1>7. Proceeds(o) => Proceeds(o)' BY <1>1, <1>4, <1>5, <1>6 DEF Proceeds, Busy
<1> QED BY <1>1, <1>4, <1>5, <1>6, <1>7, LocalStep DEF Busy

LEMMA LookUpServerKeeps ==
    ASSUME IInv, NEW o \in Ops, LookUpServer(o)
    PROVE  IInv'
<1> DEFINE new == [op[o] EXCEPT !.pc = "finding", !.then = "testing"]
<1>0. Shapes /\ op[o] \in Locals BY DEF IInv, Shapes
<1>1. op[o].pc = "looking" /\ UNCHANGED <<db, deleted, conns, connections, overlapped>> BY DEF LookUpServer
<1>2. CASE op[o].server \in db
  <2>1. /\ new \in Locals /\ new.pc = "finding" /\ new.then = "testing" /\ new.server = op[o].server
        /\ new.sweeping = op[o].sweeping /\ new.missing = op[o].missing
    BY <1>0 DEF Locals
  <2>2. Set(o, new) BY <1>2 DEF LookUpServer
  <2> HIDE DEF new
  <2>3. op' \in [Ops -> Locals] /\ op'[o] = new /\ \A q \in Ops : q # o => op'[q] = op[q]
    BY <1>0, <2>1, <2>2, SetEffect
  <2>4. Proceeds(o) => Proceeds(o)' BY <1>1, <1>2, <2>1, <2>3 DEF Proceeds, Busy
  <2> QED BY <1>1, <2>1, <2>3, <2>4, LocalStep DEF Busy
<1>3. CASE op[o].server \notin db
  <2>1. Through(o) BY <1>3 DEF LookUpServer
  <2>2. /\ op' \in [Ops -> Locals] /\ \A q \in Ops : q # o => op'[q] = op[q]
        /\ op'[o].pc \in {"idle", "checking", "sweeping"}
        /\ op'[o].pc # "idle" => op'[o].sweeping = op[o].sweeping /\ op'[o].missing = op[o].missing
        /\ op'[o].pc = "sweeping" => op'[o].sweeping
    BY <1>0, <2>1, ThroughEffect
  <2>3. Proceeds(o) => Proceeds(o)' BY <1>1, <2>2 DEF Proceeds, Busy
  <2> QED BY <1>1, <2>2, <2>3, LocalStep DEF Busy
<1> QED BY <1>2, <1>3

LEMMA ListMissingKeeps ==
    ASSUME IInv, NEW o \in Ops, ListMissing(o)
    PROVE  IInv'
<1> DEFINE missing == db \ {conns[c].server : c \in Registered}
           new == [op[o] EXCEPT !.pc = "sweeping", !.missing = missing, !.sweeping = TRUE]
<1>0. Shapes /\ op[o] \in Locals BY DEF IInv, Shapes
<1>1. op[o].pc = "checking" /\ UNCHANGED <<db, deleted, conns, connections, overlapped>> BY DEF ListMissing
<1>2. missing \subseteq db /\ missing \subseteq Servers BY <1>0 DEF Shapes
<1>3. Set(o, NoOp) \/ Set(o, new) BY DEF ListMissing
<1> HIDE DEF missing
<1>4. new \in Locals /\ new.pc = "sweeping" /\ new.sweeping /\ new.missing = missing BY <1>0, <1>2 DEF Locals
<1>5. NoOp \in Locals /\ NoOp.pc = "idle" BY NoOpIsLocal DEF NoOp
<1> HIDE DEF new
<1>6. /\ op' \in [Ops -> Locals] /\ \A q \in Ops : q # o => op'[q] = op[q]
      /\ op'[o] = NoOp \/ op'[o] = new
  BY <1>0, <1>3, <1>4, <1>5, SetEffect
<1>7. Proceeds(o)' BY <1>1, <1>2, <1>4, <1>5, <1>6 DEF Proceeds, Busy
<1> QED BY <1>1, <1>4, <1>5, <1>6, <1>7, LocalStep DEF Busy

LEMMA ConnectMissingKeeps ==
    ASSUME IInv, NEW o \in Ops, ConnectMissing(o)
    PROVE  IInv'
<1>0. Shapes /\ op[o] \in Locals BY DEF IInv, Shapes
<1>1. op[o].pc = "sweeping" /\ UNCHANGED <<db, deleted, conns, connections, overlapped>> BY DEF ConnectMissing
<1>2. PICK s \in op[o].missing :
         Set(o, [op[o] EXCEPT !.pc = "finding", !.then = "testing", !.server = s, !.missing = @ \ {s}])
  BY DEF ConnectMissing
<1> DEFINE new == [op[o] EXCEPT !.pc = "finding", !.then = "testing", !.server = s, !.missing = @ \ {s}]
<1>3. op[o].missing \subseteq Servers /\ s \in Servers BY <1>0, <1>2 DEF Locals
<1>4. /\ new \in Locals /\ new.pc = "finding" /\ new.then = "testing" /\ new.server = s
      /\ new.sweeping = op[o].sweeping /\ new.missing = op[o].missing \ {s}
  BY <1>0, <1>3 DEF Locals
<1>5. Set(o, new) BY <1>2
<1> HIDE DEF new
<1>6. op' \in [Ops -> Locals] /\ op'[o] = new /\ \A q \in Ops : q # o => op'[q] = op[q]
  BY <1>0, <1>4, <1>5, SetEffect
<1>7. Proceeds(o) => Proceeds(o)' BY <1>1, <1>2, <1>4, <1>6 DEF Proceeds, Busy
<1> QED BY <1>1, <1>4, <1>6, <1>7, LocalStep DEF Busy

LEMMA FindIndexKeeps ==
    ASSUME IInv, NEW o \in Ops, FindIndex(o)
    PROVE  IInv'
<1> DEFINE i   == SelectInSeq(connections, LAMBDA c : conns[c].server = op[o].server)
           go  == [op[o] EXCEPT !.pc = op[o].then]
           rem == [op[o] EXCEPT !.pc = "removing", !.index = i, !.conn = connections[i]]
<1>0. Shapes /\ op[o] \in Locals /\ op[o].server \in Servers BY DEF IInv, Shapes, Locals
<1>1. op[o].pc = "finding" /\ UNCHANGED <<db, deleted, conns, connections, overlapped>> BY DEF FindIndex
<1>2. \/ i = 0 /\ Without(op[o].server)
      \/ i \in 1 .. Len(connections) /\ conns[connections[i]].server = op[o].server
  BY <1>0, IndexFound
<1>3. Set(o, IF i = 0 THEN go ELSE rem) BY DEF FindIndex
<1> HIDE DEF i
<1>4. Len(connections) \in Nat /\ DOMAIN connections = 1 .. Len(connections)
      /\ \A k \in 1 .. Len(connections) : connections[k] \in Conns
  BY <1>0, LenProperties DEF Shapes
<1>5. CASE i = 0
  <2>1. /\ go \in Locals /\ go.pc = op[o].then /\ go.server = op[o].server
        /\ go.sweeping = op[o].sweeping /\ go.missing = op[o].missing
        /\ op[o].then \in {"idle", "looking", "testing", "deleting"}
    BY <1>0 DEF Locals
  <2>2. Set(o, go) /\ Without(op[o].server) BY <1>2, <1>3, <1>4, <1>5
  <2> HIDE DEF go, rem
  <2>3. op' \in [Ops -> Locals] /\ op'[o] = go /\ \A q \in Ops : q # o => op'[q] = op[q]
    BY <1>0, <2>1, <2>2, SetEffect
  <2>4. Without(op'[o].server) BY <2>1, <2>2, <2>3
  <2>5. Proceeds(o) => Proceeds(o)'
    <3>1. \A c \in Registered' : conns'[c].server # op'[o].server BY <1>1, <2>4 DEF Without, Registered
    <3> QED BY <1>1, <2>1, <2>3, <3>1 DEF Proceeds, Busy, Without
  <2> QED BY <1>1, <2>1, <2>3, <2>5, LocalStep DEF Busy
<1>6. CASE i # 0
  <2>1. i \in 1 .. Len(connections) /\ conns[connections[i]].server = op[o].server /\ i \in Nat /\ i > 0
    BY <1>2, <1>4, <1>6
  <2>2. /\ rem \in Locals /\ rem.pc = "removing" /\ rem.index = i /\ rem.conn = connections[i]
        /\ rem.server = op[o].server /\ rem.then = op[o].then
        /\ rem.sweeping = op[o].sweeping /\ rem.missing = op[o].missing
    BY <1>0, <1>4, <2>1 DEF Locals
  <2>3. Set(o, rem) BY <1>3, <1>6
  <2> HIDE DEF go, rem
  <2>4. op' \in [Ops -> Locals] /\ op'[o] = rem /\ \A q \in Ops : q # o => op'[q] = op[q]
    BY <1>0, <2>2, <2>3, SetEffect
  <2>5. Proceeds(o) => Proceeds(o)' BY <1>1, <1>4, <2>1, <2>2, <2>4 DEF Proceeds, Busy
  <2> QED BY <1>1, <1>4, <2>1, <2>2, <2>4, <2>5, LocalStep DEF Busy
<1> QED BY <1>5, <1>6

\* The row goes: nothing connects to the server any more.
LEMMA DeleteRowKeeps ==
    ASSUME IInv, NEW o \in Ops, DeleteRow(o)
    PROVE  IInv'
<1>0. Shapes /\ op[o].server \in Servers BY DEF IInv, Shapes, Locals
<1>1. /\ op[o].pc = "deleting" /\ UNCHANGED <<conns, connections, overlapped>>
      /\ db' = db \ {op[o].server} /\ deleted' = deleted \cup {op[o].server}
  BY DEF DeleteRow
<1>2. NoOp \in Locals /\ NoOp.pc = "idle" BY NoOpIsLocal DEF NoOp
<1>3. op' \in [Ops -> Locals] /\ op'[o] = NoOp /\ \A q \in Ops : q # o => op'[q] = op[q]
  BY <1>0, <1>2, SetEffect DEF DeleteRow
<1>4. Shapes'
  <2>1. \A q \in Ops : /\ op'[q].pc = "removing" => op'[q].conn \in Conns /\ op'[q].index > 0
                       /\ op'[q].pc = "dialling" => op'[q].conn \in Conns
    BY <1>0, <1>2, <1>3 DEF Shapes
  <2> QED BY <1>0, <1>1, <1>3, <2>1 DEF Shapes
<1>5. ASSUME Settled, Proceeds(o), Alone(o) PROVE Settled' /\ Proceeds(o)'
  <2>1. \A c \in Conns : ~Dialling(c) BY <1>1, <1>5, NoneDials
  <2>2. Without(op[o].server) BY <1>1, <1>5 DEF Proceeds
  <2>3. Registered' = Registered BY <1>1 DEF Registered
  <2>4. \A c \in Registered : conns'[c].ws # "off" /\ ~conns'[c].stray /\ conns'[c].server \in db'
    BY <1>1, <1>5, <2>2 DEF Settled, Without
  <2>5. \A c \in Conns : conns'[c].ws # "off" /\ ~conns'[c].stray => c \in Registered
    BY <1>1, <1>5, <2>1 DEF Settled
  <2>6. Settled' BY <1>1, <1>5, <2>3, <2>4, <2>5 DEF Settled
  <2>7. Proceeds(o)' BY <1>2, <1>3 DEF Proceeds, Busy
  <2> QED BY <2>6, <2>7
<1>6. Taking' BY <1>1, <1>3, <1>5, TurnTaken DEF Busy
<1> QED BY <1>4, <1>6 DEF IInv

\* splice at an index that still names the connection leaves the others as they are.
LEMMA RemoveConnectionKeeps ==
    ASSUME IInv, NEW o \in Ops, RemoveConnection(o)
    PROVE  IInv'
<1> DEFINE i   == op[o].index
           c   == op[o].conn
           new == [op[o] EXCEPT !.pc = op[o].then, !.conn = NoConn, !.index = 0]
<1>0. Shapes /\ op[o] \in Locals BY DEF IInv, Shapes
<1>1. /\ op[o].pc = "removing" /\ UNCHANGED <<db, deleted, overlapped>>
      /\ conns' = [conns EXCEPT ![c].ws = "off", ![c].stray = FALSE]
      /\ connections' = IF i > Len(connections) THEN connections ELSE RemoveAt(connections, i)
      /\ Set(o, new)
  BY DEF RemoveConnection
<1>2. i \in Nat /\ i > 0 /\ c \in Conns BY <1>0, <1>1 DEF Shapes, Locals
<1>3. /\ new \in Locals /\ new.pc = op[o].then /\ new.server = op[o].server
      /\ new.sweeping = op[o].sweeping /\ new.missing = op[o].missing
      /\ op[o].then \in {"idle", "looking", "testing", "deleting"}
  BY <1>0 DEF Locals
<1>4. connections \in Seq(Conns) /\ Len(connections) \in Nat /\ DOMAIN connections = 1 .. Len(connections)
      /\ \A k \in 1 .. Len(connections) : connections[k] \in Conns
  BY <1>0, LenProperties DEF Shapes
<1> HIDE DEF new, i, c
<1>5. op' \in [Ops -> Locals] /\ op'[o] = new /\ \A q \in Ops : q # o => op'[q] = op[q]
  BY <1>0, <1>1, <1>3, SetEffect
<1>6. i <= Len(connections) =>
        /\ connections' \in Seq(Conns) /\ Len(connections') = Len(connections) - 1
        /\ \A k \in 1 .. Len(connections) - 1 :
              connections'[k] = IF k < i THEN connections[k] ELSE connections[k + 1]
  <2> SUFFICES ASSUME i <= Len(connections)
               PROVE  /\ RemoveAt(connections, i) \in Seq(Conns)
                      /\ Len(RemoveAt(connections, i)) = Len(connections) - 1
                      /\ \A k \in 1 .. Len(connections) - 1 :
                            RemoveAt(connections, i)[k] = IF k < i THEN connections[k] ELSE connections[k + 1]
    BY <1>1, <1>2, <1>4
  <2>1. i \in 1 .. Len(connections) BY <1>2, <1>4
  <2> QED BY <1>4, <2>1, CutOut
<1>7. /\ conns' \in [Conns -> [server : Servers, stray : BOOLEAN,
                               ws : {"off", "connecting", "open", "waiting"}]]
      /\ conns'[c].ws = "off" /\ conns'[c].server = conns[c].server
      /\ \A d \in Conns : d # c => conns'[d] = conns[d]
      /\ \A d \in Conns : conns'[d].server = conns[d].server
  BY <1>0, <1>1, <1>2 DEF Shapes
<1>8. Shapes'
  <2>1. \A q \in Ops : /\ op'[q].pc = "removing" => op'[q].conn \in Conns /\ op'[q].index > 0
                       /\ op'[q].pc = "dialling" => op'[q].conn \in Conns
    BY <1>0, <1>3, <1>5 DEF Shapes
  <2>2. connections' \in Seq(Conns)
    <3>1. CASE i > Len(connections) BY <1>1, <1>4, <3>1
    <3>2. CASE ~(i > Len(connections))
      <4>1. i <= Len(connections) BY <1>2, <1>4, <3>2
      <4> QED BY <1>6, <4>1
    <3> QED BY <3>1, <3>2
  <2> QED BY <1>0, <1>1, <1>5, <1>7, <2>1, <2>2 DEF Shapes
<1>9. ASSUME Settled, Proceeds(o), Alone(o) PROVE Settled' /\ Proceeds(o)'
  <2>1. i \in 1 .. Len(connections) /\ connections[i] = c /\ conns[c].server = op[o].server
    BY <1>1, <1>4, <1>9 DEF Proceeds, i, c
  <2>2. /\ Len(connections') = Len(connections) - 1 /\ DOMAIN connections' = 1 .. Len(connections) - 1
        /\ \A k \in 1 .. Len(connections) - 1 :
              connections'[k] = IF k < i THEN connections[k] ELSE connections[k + 1]
    <3>1. i <= Len(connections) BY <1>4, <2>1
    <3>2. connections' \in Seq(Conns) BY <1>6, <3>1
    <3>3. DOMAIN connections' = 1 .. Len(connections') BY <3>2, LenProperties
    <3> QED BY <1>6, <3>1, <3>3
  <2>3. \A k, l \in 1 .. Len(connections) :
           conns[connections[k]].server = conns[connections[l]].server => k = l
    BY <1>4, <1>9 DEF Settled
  <2>4. \A k \in 1 .. Len(connections) - 1 :
          \E l \in 1 .. Len(connections) : l # i /\ connections'[k] = connections[l]
                                           /\ l = IF k < i THEN k ELSE k + 1
    BY <1>4, <2>1, <2>2
  <2>5. Registered' = Registered \ {c}
    <3>1. ASSUME NEW d \in Registered' PROVE d \in Registered /\ d # c
      <4>1. PICK k \in 1 .. Len(connections) - 1 : d = connections'[k] BY <2>2 DEF Registered, Range
      <4>2. PICK l \in 1 .. Len(connections) : l # i /\ connections'[k] = connections[l] BY <2>4
      <4>3. connections[l] # c BY <2>1, <2>3, <4>2
      <4> QED BY <1>4, <4>1, <4>2, <4>3 DEF Registered, Range
    <3>2. ASSUME NEW d \in Registered, d # c PROVE d \in Registered'
      <4>1. PICK l \in 1 .. Len(connections) : d = connections[l] BY <1>4 DEF Registered, Range
      <4>2. l # i BY <2>1, <3>2, <4>1
      <4>3. CASE l < i
        <5>1. l \in 1 .. Len(connections) - 1 /\ connections'[l] = d BY <1>4, <2>1, <2>2, <4>1, <4>3
        <5> QED BY <2>2, <5>1 DEF Registered, Range
      <4>4. CASE l > i
        <5>1. l - 1 \in 1 .. Len(connections) - 1 /\ connections'[l - 1] = d BY <1>4, <2>1, <2>2, <4>1, <4>4
        <5> QED BY <2>2, <5>1 DEF Registered, Range
      <4> QED BY <2>1, <4>2, <4>3, <4>4
    <3> QED BY <3>1, <3>2
  <2>6. Registered \subseteq Conns BY <1>4 DEF Registered, Range
  <2>7. \A k, l \in DOMAIN connections' :
           conns'[connections'[k]].server = conns'[connections'[l]].server => k = l
    <3> SUFFICES ASSUME NEW k \in 1 .. Len(connections) - 1, NEW l \in 1 .. Len(connections) - 1,
                        conns'[connections'[k]].server = conns'[connections'[l]].server
                 PROVE  k = l
      BY <2>2
    <3>1. PICK a \in 1 .. Len(connections) : connections'[k] = connections[a] /\ a = IF k < i THEN k ELSE k + 1
      BY <2>4
    <3>2. PICK b \in 1 .. Len(connections) : connections'[l] = connections[b] /\ b = IF l < i THEN l ELSE l + 1
      BY <2>4
    <3>3. a = b BY <1>4, <1>7, <2>3, <3>1, <3>2
    <3> QED BY <1>4, <2>1, <3>1, <3>2, <3>3
  <2>8. \A d \in Registered' : conns'[d].ws # "off" /\ ~conns'[d].stray /\ conns'[d].server \in db'
    BY <1>1, <1>7, <1>9, <2>5, <2>6 DEF Settled
  <2>9. \A d \in Conns : ~Dialling(d) BY <1>1, <1>9, NoneDials
  <2>10. \A d \in Conns : conns'[d].ws # "off" /\ ~conns'[d].stray => d \in Registered'
    BY <1>7, <1>9, <2>5, <2>9 DEF Settled
  <2>11. Without(op[o].server)'
    <3> SUFFICES ASSUME NEW d \in Registered' PROVE conns'[d].server # op[o].server
      BY <1>3, <1>5 DEF Without, Registered
    <3>1. d \in Registered /\ d # c /\ d \in Conns BY <2>5, <2>6
    <3>2. PICK l \in 1 .. Len(connections) : d = connections[l] BY <1>4, <3>1 DEF Registered, Range
    <3> QED BY <1>7, <2>1, <2>3, <3>1, <3>2
  <2>12. Proceeds(o)' BY <1>1, <1>3, <1>5, <1>9, <2>11 DEF Proceeds, Busy
  <2> QED BY <2>7, <2>8, <2>10, <2>12 DEF Settled
<1>10. Taking' BY <1>1, <1>5, <1>9, TurnTaken DEF Busy
<1> QED BY <1>8, <1>10 DEF IInv

LEMMA TestConnectionKeeps ==
    ASSUME IInv, NEW o \in Ops, TestConnection(o)
    PROVE  IInv'
<1> DEFINE c   == CHOOSE x \in Free : TRUE
           rec == [server |-> op[o].server, ws |-> "connecting", stray |-> FALSE]
           new == [op[o] EXCEPT !.pc = "dialling", !.conn = c]
<1>0. Shapes /\ op[o] \in Locals /\ op[o].server \in Servers BY DEF IInv, Shapes, Locals
<1>1. op[o].pc = "testing" /\ UNCHANGED <<db, deleted, connections, overlapped>> BY DEF TestConnection
<1>2. CASE Through(o) /\ UNCHANGED conns
  <2>1. /\ op' \in [Ops -> Locals] /\ \A q \in Ops : q # o => op'[q] = op[q]
        /\ op'[o].pc \in {"idle", "checking", "sweeping"}
        /\ op'[o].pc # "idle" => op'[o].sweeping = op[o].sweeping /\ op'[o].missing = op[o].missing
        /\ op'[o].pc = "sweeping" => op'[o].sweeping
    BY <1>0, <1>2, ThroughEffect
  <2>2. Proceeds(o) => Proceeds(o)' BY <1>1, <2>1 DEF Proceeds, Busy
  <2> QED BY <1>1, <1>2, <2>1, <2>2, LocalStep DEF Busy
<1>3. CASE Free # {} /\ conns' = [conns EXCEPT ![c] = rec] /\ Set(o, new)
  <2>1. c \in Free BY <1>3
  <2> HIDE DEF c
  <2>2. c \in Conns /\ conns[c].ws = "off" /\ c \notin Registered BY <2>1 DEF Free
  <2>3. rec \in [server : Servers, stray : BOOLEAN, ws : {"off", "connecting", "open", "waiting"}] BY <1>0
  <2>4. /\ new \in Locals /\ new.pc = "dialling" /\ new.conn = c /\ new.server = op[o].server
        /\ new.sweeping = op[o].sweeping /\ new.missing = op[o].missing
    BY <1>0, <2>2 DEF Locals
  <2>5. /\ rec.server = op[o].server /\ rec.ws = "connecting" /\ ~rec.stray
        /\ rec = [server |-> op[o].server, ws |-> "connecting", stray |-> FALSE]
    OBVIOUS
  <2> HIDE DEF rec, new
  <2>6. /\ conns' \in [Conns -> [server : Servers, stray : BOOLEAN,
                                 ws : {"off", "connecting", "open", "waiting"}]]
        /\ conns'[c] = rec /\ \A d \in Conns : d # c => conns'[d] = conns[d]
    BY <1>0, <1>3, <2>2, <2>3 DEF Shapes
  <2>7. op' \in [Ops -> Locals] /\ op'[o] = new /\ \A q \in Ops : q # o => op'[q] = op[q]
    BY <1>0, <1>3, <2>4, SetEffect
  <2>8. Shapes'
    <3>1. \A q \in Ops : /\ op'[q].pc = "removing" => op'[q].conn \in Conns /\ op'[q].index > 0
                         /\ op'[q].pc = "dialling" => op'[q].conn \in Conns
      BY <1>0, <2>2, <2>4, <2>7 DEF Shapes
    <3> QED BY <1>0, <1>1, <2>6, <2>7, <3>1 DEF Shapes
  <2>9. ASSUME Settled, Proceeds(o), Alone(o) PROVE Settled' /\ Proceeds(o)'
    <3>1. Registered' = Registered /\ Registered \subseteq Conns
      BY <1>0, <1>1, LenProperties DEF Registered, Range, Shapes
    <3>2. \A d \in Registered : conns'[d] = conns[d] BY <2>2, <2>6, <3>1
    <3>3. \A k \in DOMAIN connections : connections[k] \in Registered BY DEF Registered, Range
    <3>4. \A k, l \in DOMAIN connections :
             conns'[connections[k]].server = conns'[connections[l]].server => k = l
      BY <2>9, <3>2, <3>3 DEF Settled
    <3>5. \A d \in Registered : conns'[d].ws # "off" /\ ~conns'[d].stray /\ conns'[d].server \in db'
      BY <1>1, <2>9, <3>2 DEF Settled
    <3>6. \A d \in Conns : ~Dialling(d) BY <1>1, <2>9, NoneDials
    <3>7. \A d \in Conns : d = c => Dialling(d)' BY <2>4, <2>7 DEF Dialling
    <3>8. \A d \in Conns : conns'[d].ws # "off" /\ ~conns'[d].stray => d \in Registered \/ Dialling(d)'
      BY <2>6, <2>9, <3>6, <3>7 DEF Settled
    <3>9. Settled' BY <1>1, <3>1, <3>4, <3>5, <3>8 DEF Settled
    <3>10. op'[o].server = op[o].server /\ op'[o].pc = "dialling" /\ op'[o].conn = c BY <2>4, <2>7
    <3>11. /\ \A d \in Registered' : conns'[d].server # op'[o].server
           /\ op'[o].server \in db'
           /\ op'[o].sweeping => op'[o].missing \subseteq db'
      BY <1>1, <2>4, <2>7, <2>9, <3>1, <3>2 DEF Proceeds, Without, Busy
    <3>12. Proceeds(o)' BY <2>2, <2>5, <2>6, <3>1, <3>10, <3>11 DEF Proceeds, Without
    <3> QED BY <3>9, <3>12
  <2>10. Taking' BY <1>1, <2>7, <2>9, TurnTaken DEF Busy
  <2> QED BY <2>8, <2>10 DEF IInv
<1> QED BY <1>2, <1>3 DEF TestConnection

\* The first dial succeeds and the connection is registered, or it fails and the
\* connection is a stray one.
LEMMA DialOpensKeeps ==
    ASSUME IInv, NEW o \in Ops, DialOpens(o)
    PROVE  IInv'
<1> DEFINE c == op[o].conn
           n == Len(connections)
<1>0. Shapes BY DEF IInv
<1>1. /\ op[o].pc = "dialling" /\ UNCHANGED <<db, deleted, overlapped>>
      /\ conns' = [conns EXCEPT ![c].ws = "open"] /\ connections' = Append(connections, c) /\ Through(o)
  BY DEF DialOpens
<1>2. c \in Conns BY <1>0, <1>1 DEF Shapes
<1>3. /\ op' \in [Ops -> Locals] /\ \A q \in Ops : q # o => op'[q] = op[q]
      /\ op'[o].pc \in {"idle", "checking", "sweeping"}
      /\ op'[o].pc # "idle" => op'[o].sweeping = op[o].sweeping /\ op'[o].missing = op[o].missing
      /\ op'[o].pc = "sweeping" => op'[o].sweeping
  BY <1>0, <1>1, ThroughEffect
<1> HIDE DEF c
<1>4. /\ conns' \in [Conns -> [server : Servers, stray : BOOLEAN,
                               ws : {"off", "connecting", "open", "waiting"}]]
      /\ conns'[c].ws = "open" /\ conns'[c].stray = conns[c].stray
      /\ \A d \in Conns : d # c => conns'[d] = conns[d]
      /\ \A d \in Conns : conns'[d].server = conns[d].server
  BY <1>0, <1>1, <1>2 DEF Shapes
<1>5. /\ connections \in Seq(Conns) /\ n \in Nat /\ DOMAIN connections = 1 .. n
      /\ \A k \in 1 .. n : connections[k] \in Conns
  BY <1>0, LenProperties DEF Shapes
<1>6. /\ connections' \in Seq(Conns) /\ DOMAIN connections' = 1 .. n + 1
      /\ \A k \in 1 .. n + 1 : connections'[k] = IF k <= n THEN connections[k] ELSE c
  <2>1. connections' \in Seq(Conns) /\ Len(connections') = n + 1 BY <1>1, <1>2, <1>5
  <2>2. \A k \in 1 .. n + 1 : connections'[k] = IF k <= n THEN connections[k] ELSE c BY <1>1, <1>2, <1>5
  <2> QED BY <2>1, <2>2, LenProperties
<1> HIDE DEF n
<1>7. Shapes'
  <2>1. \A q \in Ops : /\ op'[q].pc = "removing" => op'[q].conn \in Conns /\ op'[q].index > 0
                       /\ op'[q].pc = "dialling" => op'[q].conn \in Conns
    BY <1>0, <1>3 DEF Shapes
  <2> QED BY <1>0, <1>1, <1>3, <1>4, <1>6, <2>1 DEF Shapes
<1>8. ASSUME Settled, Proceeds(o), Alone(o) PROVE Settled' /\ Proceeds(o)'
  <2>1. /\ c \notin Registered /\ ~conns[c].stray /\ conns[c].server = op[o].server
        /\ Without(op[o].server) /\ op[o].server \in db
    BY <1>1, <1>8 DEF Proceeds, c
  <2>2. Registered' = Registered \cup {c} /\ Registered \subseteq Conns
    <3>1. \A k \in 1 .. n : k \in 1 .. n + 1 /\ k <= n BY <1>5
    <3>2. n + 1 \in 1 .. n + 1 /\ ~(n + 1 <= n) BY <1>5
    <3>3. \A k \in 1 .. n + 1 : k <= n => k \in 1 .. n BY <1>5
    <3>4. Registered' = {connections'[k] : k \in 1 .. n + 1} BY <1>6 DEF Registered, Range
    <3>5. Registered = {connections[k] : k \in 1 .. n} BY <1>5 DEF Registered, Range
    <3>6. \A d \in Registered' : d \in Registered \/ d = c BY <1>6, <3>3, <3>4, <3>5
    <3>7. c \in Registered' /\ \A d \in Registered : d \in Registered' BY <1>6, <3>1, <3>2, <3>4, <3>5
    <3> QED BY <1>5, <3>5, <3>6, <3>7
  <2>3. \A k, l \in 1 .. n + 1 :
           conns'[connections'[k]].server = conns'[connections'[l]].server => k = l
    <3> SUFFICES ASSUME NEW k \in 1 .. n + 1, NEW l \in 1 .. n + 1,
                        conns'[connections'[k]].server = conns'[connections'[l]].server
                 PROVE  k = l
      OBVIOUS
    <3>1. connections'[k] \in Conns /\ connections'[l] \in Conns BY <1>2, <1>5, <1>6
    <3>2. conns[connections'[k]].server = conns[connections'[l]].server BY <1>4, <3>1
    <3>3. \A m \in 1 .. n : connections[m] \in Registered BY <1>5 DEF Registered, Range
    <3>4. CASE k \in 1 .. n /\ l \in 1 .. n BY <1>5, <1>6, <1>8, <3>2, <3>4 DEF Settled
    <3>5. CASE k = n + 1 /\ l = n + 1 BY <3>5
    <3>6. CASE k = n + 1 /\ l \in 1 .. n BY <1>5, <1>6, <2>1, <3>2, <3>3, <3>6 DEF Without
    <3>7. CASE k \in 1 .. n /\ l = n + 1 BY <1>5, <1>6, <2>1, <3>2, <3>3, <3>7 DEF Without
    <3> QED BY <1>5, <3>4, <3>5, <3>6, <3>7
  <2>4. \A d \in Registered' : conns'[d].ws # "off" /\ ~conns'[d].stray /\ conns'[d].server \in db'
    BY <1>1, <1>2, <1>4, <1>8, <2>1, <2>2 DEF Settled
  <2>5. \A d \in Conns : Dialling(d) => d = c BY <1>8 DEF Alone, Busy, Dialling, c
  <2>6. \A d \in Conns : conns'[d].ws # "off" /\ ~conns'[d].stray => d \in Registered'
    BY <1>4, <1>8, <2>2, <2>5 DEF Settled
  <2>7. Settled' BY <1>6, <2>3, <2>4, <2>6 DEF Settled
  <2>8. Proceeds(o)' BY <1>1, <1>3, <1>8 DEF Proceeds, Busy
  <2> QED BY <2>7, <2>8
<1>9. Taking' BY <1>1, <1>3, <1>8, TurnTaken DEF Busy
<1> QED BY <1>7, <1>9 DEF IInv

LEMMA DialFailsKeeps ==
    ASSUME IInv, NEW o \in Ops, DialFails(o)
    PROVE  IInv'
<1> DEFINE c == op[o].conn
<1>0. Shapes BY DEF IInv
<1>1. /\ op[o].pc = "dialling" /\ UNCHANGED <<db, deleted, connections, overlapped>>
      /\ conns' = [conns EXCEPT ![c].ws = "waiting", ![c].stray = TRUE] /\ Through(o)
  BY DEF DialFails
<1>2. c \in Conns BY <1>0, <1>1 DEF Shapes
<1>3. /\ op' \in [Ops -> Locals] /\ \A q \in Ops : q # o => op'[q] = op[q]
      /\ op'[o].pc \in {"idle", "checking", "sweeping"}
      /\ op'[o].pc # "idle" => op'[o].sweeping = op[o].sweeping /\ op'[o].missing = op[o].missing
      /\ op'[o].pc = "sweeping" => op'[o].sweeping
  BY <1>0, <1>1, ThroughEffect
<1> HIDE DEF c
<1>4. /\ conns' \in [Conns -> [server : Servers, stray : BOOLEAN,
                               ws : {"off", "connecting", "open", "waiting"}]]
      /\ conns'[c].stray
      /\ \A d \in Conns : d # c => conns'[d] = conns[d]
  BY <1>0, <1>1, <1>2 DEF Shapes
<1>5. Shapes'
  <2>1. \A q \in Ops : /\ op'[q].pc = "removing" => op'[q].conn \in Conns /\ op'[q].index > 0
                       /\ op'[q].pc = "dialling" => op'[q].conn \in Conns
    BY <1>0, <1>3 DEF Shapes
  <2> QED BY <1>0, <1>1, <1>3, <1>4, <2>1 DEF Shapes
<1>6. ASSUME Settled, Proceeds(o), Alone(o) PROVE Settled' /\ Proceeds(o)'
  <2>1. c \notin Registered BY <1>1, <1>6 DEF Proceeds, c
  <2>2. Registered' = Registered /\ Registered \subseteq Conns
    BY <1>0, <1>1, LenProperties DEF Registered, Range, Shapes
  <2>3. \A d \in Registered : conns'[d] = conns[d] BY <1>4, <2>1, <2>2
  <2>4. \A k \in DOMAIN connections : connections[k] \in Registered BY DEF Registered, Range
  <2>5. \A k, l \in DOMAIN connections :
           conns'[connections[k]].server = conns'[connections[l]].server => k = l
    BY <1>6, <2>3, <2>4 DEF Settled
  <2>6. \A d \in Registered : conns'[d].ws # "off" /\ ~conns'[d].stray /\ conns'[d].server \in db'
    <3>1. db' = db BY <1>1
    <3>2. \A d \in Registered : conns[d].ws # "off" /\ ~conns[d].stray /\ conns[d].server \in db BY <1>6 DEF Settled
    <3> QED BY <2>3, <3>1, <3>2
  <2>7. \A d \in Conns : Dialling(d) => d = c BY <1>6 DEF Alone, Busy, Dialling, c
  <2>8. \A d \in Conns : conns'[d].ws # "off" /\ ~conns'[d].stray => d \in Registered
    BY <1>4, <1>6, <2>7 DEF Settled
  <2>9. Settled' BY <1>1, <2>2, <2>5, <2>6, <2>8 DEF Settled
  <2>10. Proceeds(o)' BY <1>1, <1>3, <1>6 DEF Proceeds, Busy
  <2> QED BY <2>9, <2>10
<1>7. Taking' BY <1>1, <1>3, <1>6, TurnTaken DEF Busy
<1> QED BY <1>5, <1>7 DEF IInv

------------------------
\* A WebSocket breaks and dials again: not the one an operation is dialling, in turn.
LEMMA SocketKeeps ==
    ASSUME IInv, NEW c \in Conns, conns[c].ws # "off", NEW w \in {"connecting", "open", "waiting"},
           ~overlapped => ~Dialling(c),
           conns' = [conns EXCEPT ![c].ws = w],
           UNCHANGED <<db, deleted, connections, op, overlapped>>
    PROVE  IInv'
<1>0. Shapes /\ Taking BY DEF IInv
<1>1. /\ conns' \in [Conns -> [server : Servers, stray : BOOLEAN,
                               ws : {"off", "connecting", "open", "waiting"}]]
      /\ conns'[c].ws # "off" /\ conns'[c].stray = conns[c].stray
      /\ \A d \in Conns : d # c => conns'[d] = conns[d]
      /\ \A d \in Conns : conns'[d].server = conns[d].server
  BY <1>0 DEF Shapes
<1>2. Shapes' BY <1>0, <1>1 DEF Shapes
<1>3. Registered' = Registered /\ Registered \subseteq Conns BY <1>0, LenProperties DEF Registered, Range, Shapes
<1>4. \A d \in Conns : Dialling(d)' <=> Dialling(d) BY DEF Dialling
<1>5. ASSUME ~overlapped' PROVE Sole' /\ Settled' /\ \A o \in Ops : Proceeds(o)'
  <2>1. Sole /\ Settled /\ (\A o \in Ops : Proceeds(o)) /\ ~Dialling(c) BY <1>0, <1>5 DEF Taking
  <2>2. Sole' BY <2>1 DEF Sole, Busy
  <2>3. \A k \in DOMAIN connections : connections[k] \in Registered BY DEF Registered, Range
  <2>4. \A k, l \in DOMAIN connections :
           conns'[connections[k]].server = conns'[connections[l]].server => k = l
    BY <1>1, <1>3, <2>1, <2>3 DEF Settled
  <2>5. \A d \in Registered : conns'[d].ws # "off" /\ ~conns'[d].stray /\ conns'[d].server \in db
    <3>1. \A d \in Registered : d \in Conns /\ conns[d].ws # "off" /\ ~conns[d].stray /\ conns[d].server \in db
      BY <1>3, <2>1 DEF Settled
    <3> QED BY <1>1, <3>1
  <2>6. \A d \in Conns : conns'[d].ws # "off" /\ ~conns'[d].stray => d \in Registered \/ Dialling(d)
    BY <1>1, <2>1 DEF Settled
  <2>7. Settled' BY <1>3, <1>4, <2>4, <2>5, <2>6 DEF Settled
  <2>8. ASSUME NEW o \in Ops PROVE Proceeds(o)'
    <3>1. op'[o] = op[o] /\ Proceeds(o) /\ op[o] \in Locals BY <1>0, <2>1 DEF Shapes
    <3>2. \A s \in Servers : Without(s) => Without(s)' BY <1>1, <1>3 DEF Without
    <3>3. op[o].pc = "dialling" => op[o].conn # c /\ op[o].conn \in Conns BY <1>0, <2>1 DEF Dialling, Shapes
    <3>4. op[o].pc = "dialling" => conns'[op[o].conn] = conns[op[o].conn] BY <1>1, <3>3
    <3>5. op[o].pc = "removing" => op[o].conn \in Conns BY <1>0 DEF Shapes
    <3>6. op[o].server \in Servers BY <3>1 DEF Locals
    <3>7. Without(op[o].server) => \A d \in Registered : conns'[d].server # op[o].server BY <1>1, <1>3 DEF Without
    <3> QED BY <1>1, <1>3, <3>1, <3>4, <3>5, <3>7 DEF Proceeds, Without, Busy
  <2> QED BY <2>2, <2>7, <2>8
<1> QED BY <1>2, <1>5 DEF IInv, Taking

LEMMA NotDialling ==
    ASSUME IInv, NEW c \in Conns, conns[c].ws # "connecting", ~overlapped
    PROVE  ~Dialling(c)
<1> SUFFICES ASSUME NEW o \in Ops, op[o].pc = "dialling", op[o].conn = c
             PROVE  FALSE
  BY Zenon DEF Dialling
<1>1. Proceeds(o) BY DEF IInv, Taking
<1>2. conns[c] = [server |-> op[o].server, ws |-> "connecting", stray |-> FALSE] BY <1>1 DEF Proceeds
<1> QED BY <1>2

LEMMA SocketEvents ==
    ASSUME IInv, NEW c \in Conns, Break(c) \/ Redial(c) \/ Reopen(c) \/ RedialFails(c)
    PROVE  IInv'
<1>1. CASE Break(c) BY <1>1, NotDialling, SocketKeeps DEF Break
<1>2. CASE Redial(c) BY <1>2, NotDialling, SocketKeeps DEF Redial
<1>3. CASE Reopen(c) BY <1>3, SocketKeeps DEF Reopen
<1>4. CASE RedialFails(c) BY <1>4, SocketKeeps DEF RedialFails
<1> QED BY <1>1, <1>2, <1>3, <1>4

LEMMA InitHolds == Init => IInv
<1> SUFFICES ASSUME Init PROVE IInv OBVIOUS
<1>1. AnyServer \in Servers BY AriConstants DEF AnyServer
<1>2. connections = <<>> /\ connections \in Seq(Conns) /\ DOMAIN connections = {} BY EmptySeq DEF Init
<1>3. \A o \in Ops : op[o] = NoOp /\ op[o].pc = "idle" BY DEF Init, NoOp
<1>4. op \in [Ops -> Locals] BY NoOpIsLocal DEF Init
<1>5. Shapes BY <1>1, <1>2, <1>3, <1>4 DEF Init, Shapes
<1>6. Registered = {} BY <1>2 DEF Registered, Range
<1>7. Settled BY <1>2, <1>6 DEF Init, Settled
<1>8. Sole /\ \A o \in Ops : Proceeds(o) BY <1>3 DEF Sole, Proceeds, Busy
<1> QED BY <1>5, <1>7, <1>8 DEF IInv, Taking

LEMMA NextKeeps == IInv /\ [Next]_vars => IInv'
<1> SUFFICES ASSUME IInv, [Next]_vars PROVE IInv' OBVIOUS
<1>1. ASSUME NEW o \in Ops, Advance(o) PROVE IInv'
  BY <1>1, DeleteRowKeeps, CheckNextKeeps, LookUpServerKeeps, ListMissingKeeps, ConnectMissingKeeps,
     FindIndexKeeps, RemoveConnectionKeeps, TestConnectionKeeps, DialOpensKeeps DEF Advance
<1>2. CASE Next
  BY <1>1, <1>2, SaveServerKeeps, DeleteServerKeeps, StartWatchdogKeeps, DialFailsKeeps, SocketEvents DEF Next
<1>3. CASE UNCHANGED vars
  <2>1. Shapes' BY <1>3 DEF vars, IInv, Shapes
  <2>2. Taking' BY <1>3 DEF vars, IInv, Taking, Sole, Settled, Proceeds, Busy, Without, Registered, Dialling
  <2> QED BY <2>1, <2>2 DEF IInv
<1> QED BY <1>2, <1>3

\* In every behaviour, for any servers, connections, watchdogs and administrators: as
\* long as no two operations overlap, a server has one open connection at most that
\* is not a stray one, the array has it once, and a server that is deleted has none.
THEOREM ConnectionsTakeTurns == Spec => []InTurn
<1>1. IInv => InTurn
  <2> SUFFICES ASSUME IInv PROVE InTurn OBVIOUS
  <2>0. Shapes /\ Taking BY DEF IInv
  <2>1. TypeOK BY <2>0 DEF Shapes, TypeOK, Locals
  <2>2. ASSUME ~overlapped, NEW s \in Servers
        PROVE  LET own == {c \in Open(s) : ~conns[c].stray} IN
               /\ Cardinality(own) <= 1
               /\ own \subseteq Registered
               /\ Len(connections) = Cardinality(Registered)
               /\ s \notin db => own = {}
    <3> DEFINE own == {c \in Open(s) : ~conns[c].stray}
               n   == Len(connections)
    <3>0. Settled /\ \A o \in Ops : Proceeds(o) BY <2>0, <2>2 DEF Taking
    <3>1. ASSUME NEW c \in own PROVE c \in Registered /\ conns[c].server = s
      <4>1. c \in Conns /\ conns[c].server = s /\ conns[c].ws = "open" /\ ~conns[c].stray BY DEF Open
      <4>2. ~Dialling(c) BY <4>1, <2>2, NotDialling
      <4> QED BY <3>0, <4>1, <4>2 DEF Settled
    <3> HIDE DEF own
    <3>2. \A c, d \in own : c = d
      <4> SUFFICES ASSUME NEW c \in own, NEW d \in own PROVE c = d OBVIOUS
      <4>1. PICK k \in DOMAIN connections : c = connections[k] BY <3>1 DEF Registered, Range
      <4>2. PICK l \in DOMAIN connections : d = connections[l] BY <3>1 DEF Registered, Range
      <4> QED BY <3>0, <3>1, <4>1, <4>2 DEF Settled
    <3>3. Cardinality(own) <= 1
      <4>1. CASE own = {} BY <4>1, FS_EmptySet
      <4>2. CASE own # {}
        <5>1. PICK c : own = {c} BY <3>2, <4>2
        <5> QED BY <5>1, FS_Singleton
      <4> QED BY <4>1, <4>2
    <3>4. n = Cardinality(Registered)
      <4>1. n \in Nat /\ DOMAIN connections = 1 .. n /\ connections \in [1 .. n -> Conns]
        BY <2>0, LenProperties DEF Shapes
      <4>2. \A k, l \in 1 .. n : connections[k] = connections[l] => k = l BY <3>0, <4>1 DEF Settled
      <4>3. Registered = {connections[k] : k \in 1 .. n} BY <4>1 DEF Registered, Range
      <4> HIDE DEF n
      <4>4. connections \in [1 .. n -> Registered] BY <4>1, <4>3
      <4>5. connections \in Bijection(1 .. n, Registered)
        <5>1. IsInjective(connections) BY <4>1, <4>2 DEF IsInjective
        <5>2. connections \in Injection(1 .. n, Registered) BY <4>4, <5>1 DEF Injection
        <5>3. \A t \in Registered : \E k \in 1 .. n : connections[k] = t BY <4>3
        <5>4. connections \in Surjection(1 .. n, Registered) BY <4>4, <5>3 DEF Surjection
        <5> QED BY <5>2, <5>4 DEF Bijection
      <4> QED BY <4>1, <4>5, FS_CountingElements DEF ExistsBijection
    <3>5. s \notin db => own = {} BY <3>0, <3>1 DEF Settled
    <3> QED BY <3>1, <3>3, <3>4, <3>5 DEF own
  <2> QED BY <2>1, <2>2 DEF InTurn, OneConnectionInTurn
<1> QED
  BY InitHolds, NextKeeps, <1>1, PTL DEF Spec
=============================================================================
