------------------------------- MODULE SipUris -------------------------------
(***************************************************************************)
(* The SIP URI of an assistant: a row of SipAccounts, and on the PBX one   *)
(* dialplan file per assistant which lets in calls from one address.  The  *)
(* PBX is told over HTTP; requests for the same assistant may overlap.     *)
(***************************************************************************)
EXTENDS FiniteSets, Integers

CONSTANTS Servers,
          Creates, Updates, Deletes, \* requests
          Casts,     \* bound: the sets of requests that come together
          MaxFaults, \* bound: calls that fail
          Absent     \* no server, no file

UriConstants ==
    /\ MaxFaults \in Nat
    /\ Creates \cap (Updates \cup Deletes) = {} /\ Updates \cap Deletes = {}
    /\ Absent \notin Servers \cup Creates \cup Updates \cup Deletes
    /\ Absent \notin [by : Creates \cup Updates \cup Deletes \cup {Absent}, header : {"sip", "pjsip", Absent}]

Techs == {"sip", "pjsip"}
Ops == Creates \cup Updates \cup Deletes

VARIABLES tech,     \* sipTechnology of every server
          rows,     \* the rows of the assistant: [by, server, active]
          file,     \* the dialplan file on every server
          loaded,   \* the dialplan Asterisk has read there
          op,       \* every request: [at, row, new]; new is the row it writes
          cast, faults,
          moved,    \* history: servers the assistant was moved away from
          troubled  \* history: two requests overlapped, or a call failed

vars == <<tech, rows, file, loaded, op, cast, faults, moved, troubled>>

Rows == [by : Ops, server : Servers, active : BOOLEAN]
NoRow == [by |-> Absent, server |-> Absent, active |-> FALSE]
Live(p) == op[p].at \notin {"idle", "over"}
Goto(p, at) == op' = [op EXCEPT ![p].at = at]
Begin(p, at, row, new) ==
    /\ op[p].at = "idle" /\ p \in cast
    /\ op' = [op EXCEPT ![p] = [at |-> at, row |-> row, new |-> new]]
    /\ troubled' = (troubled \/ \E q \in Ops : Live(q))
    /\ UNCHANGED <<tech, rows, file, loaded, cast, faults, moved>>

-----------------------------------------------------------------------------
\* createSipUri: no row of the assistant may exist when it looks.
BeginCreate(p, s, active) ==
    /\ rows = {}
    /\ Begin(p, "insert", NoRow, [by |-> p, server |-> s, active |-> active])

\* No constraint of the table repeats that check.
Insert(p) ==
    /\ op[p].at = "insert"
    /\ rows' = rows \cup {op[p].new}
    /\ Goto(p, "post")
    /\ UNCHANGED <<tech, file, loaded, cast, faults, moved, troubled>>

\* updateSipUri: the row and the server are loaded,
BeginUpdate(p, s, active) ==
    \E row \in rows : Begin(p, "save", row, [by |-> p, server |-> s, active |-> active])

\* and the row is saved before the server hears of it; the old server does not.
Save(p) ==
    /\ op[p].at = "save"
    /\ rows' = IF op[p].row \in rows THEN (rows \ {op[p].row}) \cup {op[p].new} ELSE rows
    /\ moved' = (moved \cup {op[p].row.server}) \ {op[p].new.server}
    /\ Goto(p, "post")
    /\ UNCHANGED <<tech, file, loaded, cast, faults, troubled>>

\* deleteSipUri: the row is loaded.
BeginDelete(p) == \E row \in rows : Begin(p, "unlink", row, row)

-----------------------------------------------------------------------------
\* The technology an update names is the default one, whatever the server has.
Header(p) == IF p \in Creates THEN tech[op[p].new.server] ELSE "pjsip"

\* Mutant: a file is written only when the URI is active.
WriteIfActive(p) ==
    /\ op[p].at = "post"
    /\ file' = IF op[p].new.active THEN [file EXCEPT ![op[p].new.server] = [by |-> op[p].new.by, header |-> Header(p)]]
               ELSE file
    /\ Goto(p, "reload")
    /\ UNCHANGED <<tech, rows, loaded, cast, faults, moved, troubled>>

-----------------------------------------------------------------------------
\* The script's createSipUri writes the file; that of an inactive URI is empty.
Write(p) ==
    /\ op[p].at = "post"
    /\ LET text == IF op[p].new.active THEN [by |-> op[p].new.by, header |-> Header(p)]
                   ELSE [by |-> Absent, header |-> Absent]
       IN file' = [file EXCEPT ![op[p].new.server] = text]
    /\ Goto(p, "reload")
    /\ UNCHANGED <<tech, rows, loaded, cast, faults, moved, troubled>>

\* deleteSipUri of the script removes it; without a file there is nothing to reload.
Unlink(p) ==
    /\ op[p].at = "unlink"
    /\ LET s == op[p].row.server IN
       /\ file' = [file EXCEPT ![s] = Absent]
       /\ Goto(p, IF file[s] = Absent THEN "answer" ELSE "reload")
    /\ UNCHANGED <<tech, rows, loaded, cast, faults, moved, troubled>>

\* Asterisk reads the dialplan; a failure of it is answered as success.
Reload(p) ==
    /\ op[p].at = "reload"
    /\ loaded' = [loaded EXCEPT ![op[p].new.server] = file[op[p].new.server]]
    /\ Goto(p, "answer")
    /\ UNCHANGED <<tech, rows, file, cast, faults, moved, troubled>>

ReloadFails(p) ==
    /\ op[p].at = "reload" /\ faults < MaxFaults
    /\ faults' = faults + 1 /\ troubled' = TRUE
    /\ Goto(p, "answer")
    /\ UNCHANGED <<tech, rows, file, loaded, cast, moved>>

\* The server is out of reach, or refuses the request: the row stays as it was saved.
PostFails(p) ==
    /\ op[p].at \in {"post", "unlink"} /\ faults < MaxFaults
    /\ faults' = faults + 1 /\ troubled' = TRUE
    /\ Goto(p, "over")
    /\ UNCHANGED <<tech, rows, file, loaded, cast, moved>>

\* A deletion then destroys every row of the assistant.
Answer(p) ==
    /\ op[p].at = "answer"
    /\ rows' = IF p \in Deletes THEN {} ELSE rows
    /\ Goto(p, "over")
    /\ UNCHANGED <<tech, file, loaded, cast, faults, moved, troubled>>

-----------------------------------------------------------------------------
Init ==
    /\ tech \in [Servers -> Techs] /\ rows = {} /\ cast \in Casts /\ faults = 0
    /\ file = [s \in Servers |-> Absent] /\ loaded = [s \in Servers |-> Absent]
    /\ op = [p \in Ops |-> [at |-> "idle", row |-> NoRow, new |-> NoRow]]
    /\ moved = {} /\ troubled = FALSE

Next ==
    \/ \E p \in Creates, s \in Servers, active \in BOOLEAN : BeginCreate(p, s, active)
    \/ \E p \in Updates, s \in Servers, active \in BOOLEAN : BeginUpdate(p, s, active)
    \/ \E p \in Deletes : BeginDelete(p)
    \/ \E p \in Ops : \/ Insert(p) \/ Save(p) \/ Write(p) \/ Unlink(p) \/ Reload(p)
                      \/ ReloadFails(p) \/ PostFails(p) \/ Answer(p)

Spec == Init /\ [][Next]_vars

-----------------------------------------------------------------------------
Texts == {Absent} \cup [by : Ops \cup {Absent}, header : Techs \cup {Absent}]

TypeOK ==
    /\ tech \in [Servers -> Techs] /\ rows \subseteq Rows
    /\ file \in [Servers -> Texts] /\ loaded \in [Servers -> Texts]
    /\ op \in [Ops -> [at : {"idle", "insert", "save", "post", "unlink", "reload", "answer", "over"},
                       row : Rows \cup {NoRow}, new : Rows \cup {NoRow}]]
    /\ faults \in 0..MaxFaults /\ moved \subseteq Servers /\ troubled \in BOOLEAN

\* When no request is under way, none overlapped and no call failed, the assistant has
\* at most one URI, and Asterisk lets in on a server exactly what the row says: the
\* dialplan of the request that saved the row last if it is active, nothing otherwise.
\* A server the assistant was moved away from is let alone.
UriAsConfigured ==
    ~troubled /\ (\A p \in Ops : ~Live(p)) =>
        /\ Cardinality(rows) <= 1
        /\ \A s \in Servers \ moved :
               LET active == {row \in rows : row.server = s /\ row.active} IN
               /\ loaded[s] = file[s]
               /\ {row.by : row \in active} = {t.by : t \in {loaded[s]} \ {Absent}} \ {Absent}

-----------------------------------------------------------------------------
\* What else holds in every state, as the proof of it needs it.  A request that writes
\* knows what;
Aims(p, o) ==
    /\ o.at \in {"insert", "save"} => p \notin Deletes
    /\ o.at = "unlink" => p \in Deletes /\ o.new = o.row
    /\ o.at = "save" => o.row \in Rows
    /\ o.at \notin {"idle", "over"} => o.new \in Rows

\* whom the file on a server lets in by, and whom the rows say;
Lets(s) == {t.by : t \in {file[s]} \ {Absent}} \ {Absent}
Told(rs, s) == {row.by : row \in {row \in rs : row.server = s /\ row.active}}
Settled(s) == loaded[s] = file[s] /\ Lets(s) = Told(rows, s)

\* and, without trouble, one request at a time takes them out of step and back.
Alone == \A p, q \in Ops : Live(p) /\ Live(q) => p = q
OneRow == \A r, s \in rows : r = s
Target(o) == IF o.at \in {"post", "reload"} THEN {o.new.server} ELSE {}
InStep(p, o) ==
    /\ o.at = "insert" => rows = {}
    /\ o.at \in {"save", "unlink"} => o.row \in rows
    /\ o.at \in {"post", "reload"} => o.new \in rows
    /\ o.at = "post" => p \notin Deletes
    /\ o.at = "reload" =>
          IF p \in Deletes THEN file[o.new.server] = Absent
          ELSE Lets(o.new.server) = Told(rows, o.new.server)
    /\ IF o.at = "answer" /\ p \in Deletes
       THEN \A s \in Servers \ moved : loaded[s] = file[s] /\ Lets(s) = {}
       ELSE \A s \in Servers \ (moved \cup Target(o)) : Settled(s)
Untroubled ==
    ~troubled =>
        /\ Alone /\ OneRow
        /\ \A p \in Ops : Live(p) => InStep(p, op[p])
        /\ (\A p \in Ops : ~Live(p)) => \A s \in Servers \ moved : Settled(s)

IInv == TypeOK /\ (\A p \in Ops : Aims(p, op[p])) /\ Untroubled
=============================================================================
