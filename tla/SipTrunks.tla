------------------------------ MODULE SipTrunks ------------------------------
(***************************************************************************)
(* SIP trunks: a row in the backend's database, and on the PBX the files   *)
(* of a trunk and its dialplan that a script writes there over HTTP and    *)
(* Asterisk loads when it is told to.  Requests for the same trunk may     *)
(* overlap, on either side.                                                *)
(***************************************************************************)
EXTENDS FiniteSets, Integers

CONSTANTS Trunks, Servers, Assistants,
          Creates, Updates, Removes, \* requests
          Casts,     \* bound: the sets of requests that come together
          MaxRetechs,\* bound: changes of a server's technology
          MaxFaults, \* bound: calls that fail
          Prefixed,  \* the script names the files of a trunk by its technology too
          NoOne      \* no text, no trunk

\* The other version of the script leaves the files of a technology that a server has given
\* up: what is claimed with it is claimed of servers that keep theirs.
TrunkConstants ==
    /\ MaxRetechs \in Nat /\ MaxFaults \in Nat /\ Prefixed \in BOOLEAN
    /\ Prefixed => MaxRetechs = 0
    /\ Creates \cap (Updates \cup Removes) = {} /\ Updates \cap Removes = {}
    /\ NoOne \notin Servers

Techs == {"sip", "pjsip"}
Ops == Creates \cup Updates \cup Removes

VARIABLES row,      \* every trunk: [server, assistant, active, by]; by names the last request
          tech,     \* sipTechnology of every server
          files,    \* the configuration files: [server, trunk, assistant, kind, text]
          loaded,   \* what Asterisk has read of them
          op,       \* every request: [at, trunk, want, tech, full]
          cast, retechs, faults,
          troubled  \* history: trunks that overlapped, moved or failed

vars == <<row, tech, files, loaded, op, cast, retechs, faults, troubled>>

Settings == [server : Servers, assistant : Assistants, active : BOOLEAN, by : Ops]
NoRow == [server |-> NoOne, assistant |-> NoOne, active |-> FALSE, by |-> NoOne]
Live(p) == op[p].at \notin {"idle", "over"}
Goto(p, at) == op' = [op EXCEPT ![p].at = at]
Busy(t) == \E p \in Ops : Live(p) /\ op[p].trunk = t
Begin(p, t, at, want, full) ==
    /\ op[p].at = "idle" /\ p \in cast
    /\ op' = [op EXCEPT ![p] = [at |-> at, trunk |-> t, want |-> want, tech |-> tech[want.server], full |-> full]]
    /\ troubled' = IF Busy(t) THEN troubled \cup {t} ELSE troubled
    /\ UNCHANGED <<row, tech, files, loaded, cast, retechs, faults>>
Trouble(p) == troubled' = troubled \cup {op[p].trunk}
OnlyFiles == UNCHANGED <<row, tech, loaded, cast, retechs, faults, troubled>>

-----------------------------------------------------------------------------
\* create: the server and the assistant are looked up, then the row is made.
BeginCreate(p, t, s) == row[t] = NoRow /\ s.by = p /\ Begin(p, t, "row", s, TRUE)

\* update: the trunk and the server are loaded; without authName in the request the
\* token is made of the name.
BeginUpdate(p, t, s, full) == row[t] # NoRow /\ s.by = p /\ Begin(p, t, "row", s, full)

\* remove: the trunk is loaded.
BeginRemove(p, t) == row[t] # NoRow /\ Begin(p, t, "post", row[t], TRUE)

\* The row is written before the server hears of it; an update that moves the trunk
\* to another server or assistant says nothing to the old one.
WriteRow(p) ==
    /\ op[p].at = "row"
    /\ LET t == op[p].trunk IN
       /\ row' = IF p \in Creates \/ row[t] # NoRow THEN [row EXCEPT ![t] = op[p].want] ELSE row
       /\ troubled' = IF row[t] # NoRow /\ (row[t].server # op[p].want.server \/ row[t].assistant # op[p].want.assistant)
                      THEN troubled \cup {t} ELSE troubled
    /\ Goto(p, "post")
    /\ UNCHANGED <<tech, files, loaded, cast, retechs, faults>>

\* The script checks the token against authName, which it gets from the row.
Post(p) ==
    /\ op[p].at = "post" /\ op[p].full
    /\ Goto(p, IF p \in Creates THEN "trunk" ELSE "unlink")
    /\ OnlyFiles /\ UNCHANGED files

\* It refuses the token, or is out of reach: the row stays as it is.
PostFails(p) ==
    /\ op[p].at = "post"
    /\ \/ ~op[p].full /\ UNCHANGED faults
       \/ faults < MaxFaults /\ faults' = faults + 1
    /\ Goto(p, "over") /\ Trouble(p)
    /\ UNCHANGED <<row, tech, files, loaded, cast, retechs>>

-----------------------------------------------------------------------------
File(p, kind, text) ==
    [server |-> op[p].want.server, trunk |-> op[p].trunk, assistant |-> op[p].want.assistant,
     kind |-> kind, text |-> text]
\* The files of the trunk and assistant that the script knows by name, of these kinds.
Named(p, kinds) ==
    {f \in files : /\ f.server = op[p].want.server /\ f.trunk = op[p].trunk
                   /\ f.assistant = op[p].want.assistant /\ f.kind \in kinds}
Text(p) == IF op[p].want.active THEN op[p].want.by ELSE NoOne

\* Mutant: only the files of the technology at hand are removed.
OldFilesAtHand(p) == Named(p, {op[p].tech, "dialplan"})

-----------------------------------------------------------------------------
\* updateSipTrunk and deleteSipTrunk remove both technologies' files;
OldFiles(p) == Named(p, Techs \cup {"dialplan"})
\* the other version of the script looks for them under the new technology's name.
OldFilesPrefixed(p) == Named(p, {op[p].tech, "dialplan"})

Unlink(p) ==
    /\ op[p].at = "unlink"
    /\ files' = files \ (IF Prefixed THEN OldFilesPrefixed(p) ELSE OldFiles(p))
    /\ Goto(p, IF p \in Updates THEN "trunk" ELSE "reload")
    /\ OnlyFiles

\* createSipTrunk: the trunk's file,
WriteTrunk(p) ==
    /\ op[p].at = "trunk"
    /\ files' = (files \ Named(p, {op[p].tech})) \cup {File(p, op[p].tech, Text(p))}
    /\ Goto(p, "dialplan")
    /\ OnlyFiles

\* then its dialplan,
WriteDialplan(p) ==
    /\ op[p].at = "dialplan"
    /\ files' = (files \ Named(p, {"dialplan"})) \cup {File(p, "dialplan", Text(p))}
    /\ Goto(p, "reload")
    /\ OnlyFiles

\* which the disk may refuse after the first was written.
DialplanFails(p) ==
    /\ op[p].at = "dialplan" /\ faults < MaxFaults
    /\ faults' = faults + 1
    /\ Goto(p, "over") /\ Trouble(p)
    /\ UNCHANGED <<row, tech, files, loaded, cast, retechs>>

Read(server, kinds) ==
    {f \in loaded : f.server # server \/ f.kind \notin kinds}
        \cup {f \in files : f.server = server /\ f.kind \in kinds}

\* Mutant: the dialplan is not read again.
ReloadSipOnly(p) ==
    /\ op[p].at = "reload"
    /\ loaded' = Read(op[p].want.server, {op[p].tech})
    /\ Goto(p, "answer")
    /\ UNCHANGED <<row, tech, files, cast, retechs, faults, troubled>>

\* The module of the technology at hand and the dialplan read their files again; the
\* script answers success whether they did or not.
Reload(p) ==
    /\ op[p].at = "reload"
    /\ \/ /\ loaded' = Read(op[p].want.server, {op[p].tech, "dialplan"})
          /\ UNCHANGED <<faults, troubled>>
       \/ /\ faults < MaxFaults /\ faults' = faults + 1
          /\ Trouble(p) /\ UNCHANGED loaded
    /\ Goto(p, "answer")
    /\ UNCHANGED <<row, tech, files, cast, retechs>>

\* Mutant: the row stays after the files are gone.
AnswerOnly(p) ==
    /\ op[p].at = "answer"
    /\ Goto(p, "over")
    /\ OnlyFiles /\ UNCHANGED files

-----------------------------------------------------------------------------
\* The answer arrives, upon which a removal destroys the row, or is lost.
Answer(p) ==
    /\ op[p].at = "answer"
    /\ \/ /\ row' = IF p \in Removes THEN [row EXCEPT ![op[p].trunk] = NoRow] ELSE row
          /\ UNCHANGED <<faults, troubled>>
       \/ /\ faults < MaxFaults /\ faults' = faults + 1
          /\ Trouble(p) /\ UNCHANGED row
    /\ Goto(p, "over")
    /\ UNCHANGED <<tech, files, loaded, cast, retechs>>

\* PbxServersService.update: the server changes its technology, its trunks' files do not.
Retech(s) ==
    /\ retechs < MaxRetechs /\ retechs' = retechs + 1
    /\ tech' = [tech EXCEPT ![s] = IF @ = "sip" THEN "pjsip" ELSE "sip"]
    /\ UNCHANGED <<row, files, loaded, op, cast, faults, troubled>>

-----------------------------------------------------------------------------
Init ==
    /\ row = [t \in Trunks |-> NoRow] /\ tech = [s \in Servers |-> "sip"]
    /\ files = {} /\ loaded = {} /\ cast \in Casts /\ retechs = 0 /\ faults = 0 /\ troubled = {}
    /\ op = [p \in Ops |-> [at |-> "idle", trunk |-> NoOne, want |-> NoRow, tech |-> "sip", full |-> TRUE]]

Next ==
    \/ \E p \in Creates, t \in Trunks, s \in Settings : BeginCreate(p, t, s)
    \/ \E p \in Updates, t \in Trunks, s \in Settings, full \in BOOLEAN : BeginUpdate(p, t, s, full)
    \/ \E p \in Removes, t \in Trunks : BeginRemove(p, t)
    \/ \E p \in Ops : \/ WriteRow(p) \/ Post(p) \/ PostFails(p) \/ Unlink(p) \/ WriteTrunk(p)
                      \/ WriteDialplan(p) \/ DialplanFails(p) \/ Reload(p) \/ Answer(p)
    \/ \E s \in Servers : Retech(s)

Spec == Init /\ [][Next]_vars

-----------------------------------------------------------------------------
Kept == [server : Servers, trunk : Trunks, assistant : Assistants, kind : Techs \cup {"dialplan"}, text : Ops \cup {NoOne}]

TypeOK ==
    /\ row \in [Trunks -> Settings \cup {NoRow}] /\ tech \in [Servers -> Techs]
    /\ files \subseteq Kept /\ loaded \subseteq Kept /\ troubled \subseteq Trunks
    /\ op \in [Ops -> [at : {"idle", "row", "post", "unlink", "trunk", "dialplan", "reload", "answer", "over"},
                       trunk : Trunks \cup {NoOne}, want : Settings \cup {NoRow}, tech : Techs, full : BOOLEAN]]
    /\ retechs \in 0..MaxRetechs /\ faults \in 0..MaxFaults

Quiet(t) == t \notin troubled /\ ~Busy(t)
Of(t) == {f \in files : f.trunk = t}

\* A trunk that nothing disturbed has, on its server, one file of one technology and a
\* dialplan, as its row says, also after the server changed its technology; one that
\* was removed has none anywhere.
FilesAsConfigured ==
    \A t \in Trunks : Quiet(t) =>
        IF row[t] = NoRow THEN Of(t) = {}
        ELSE \E k \in Techs :
                 Of(t) = {[server |-> row[t].server, trunk |-> t, assistant |-> row[t].assistant, kind |-> kind,
                           text |-> IF row[t].active THEN row[t].by ELSE NoOne] : kind \in {k, "dialplan"}}

\* What was written is loaded once its request was answered, and the dialplan of a
\* removed trunk is not.
LoadedAsWritten ==
    \A t \in Trunks : Quiet(t) =>
        /\ Of(t) \subseteq loaded
        /\ \A f \in loaded : f.trunk = t /\ f.kind = "dialplan" => f \in files

-----------------------------------------------------------------------------
\* What else holds in every state, as the proof of both needs it.  A request that is under
\* way knows its trunk and settings;
Aims(p, o) ==
    /\ o.at \notin {"idle", "over"} => o.trunk \in Trunks /\ o.want \in Settings
    /\ o.at \in {"row", "trunk", "dialplan"} => p \notin Removes
    /\ o.at = "unlink" => p \notin Creates

\* technologies are all the same where the script tells them apart;
OneTech ==
    Prefixed => /\ \A s \in Servers : tech[s] = "sip"
                /\ \A p \in Ops : op[p].tech = "sip"
                /\ \A f \in files : f.kind \in {"sip", "dialplan"}

\* what the files and the dialplans of a trunk are when nothing is under way,
FileOf(t, set, kind) ==
    [server |-> set.server, trunk |-> t, assistant |-> set.assistant, kind |-> kind,
     text |-> IF set.active THEN set.by ELSE NoOne]
Right(t) ==
    IF row[t] = NoRow THEN Of(t) = {}
    ELSE \E k \in Techs : Of(t) = {FileOf(t, row[t], kind) : kind \in {k, "dialplan"}}
Heard(t) == Of(t) \subseteq loaded /\ \A f \in loaded : f.trunk = t /\ f.kind = "dialplan" => f \in files
\* and while a request changes them.
OnServer(t, s) == \A f \in loaded : f.trunk = t /\ f.kind = "dialplan" => f.server = s
InStep(p, o) ==
    LET t == o.trunk IN
    /\ o.at = "row" => Right(t) /\ (row[t] = NoRow <=> p \in Creates)
    /\ o.at \notin {"row", "idle", "over"} => row[t] = o.want
    /\ o.at \in {"row", "post", "unlink", "answer"} => Heard(t)
    /\ o.at \in {"trunk", "dialplan", "reload"} => OnServer(t, o.want.server)
    /\ o.at = "post" /\ p \in Creates => Of(t) = {}
    /\ o.at \in {"post", "unlink"} =>
          \A f \in Of(t) : f.server = o.want.server /\ f.assistant = o.want.assistant
    /\ o.at = "trunk" => Of(t) = {}
    /\ o.at = "dialplan" => Of(t) = {FileOf(t, o.want, o.tech)}
    /\ o.at \in {"reload", "answer"} =>
          IF p \in Removes THEN Of(t) = {}
          ELSE Of(t) = {FileOf(t, o.want, kind) : kind \in {o.tech, "dialplan"}}
Untroubled(t) ==
    t \notin troubled =>
        /\ \A p, q \in Ops : Live(p) /\ Live(q) /\ op[p].trunk = t /\ op[q].trunk = t => p = q
        /\ \A p \in Ops : Live(p) /\ op[p].trunk = t => InStep(p, op[p])
        /\ ~Busy(t) => Right(t) /\ Heard(t)

IInv == TypeOK /\ (\A p \in Ops : Aims(p, op[p])) /\ OneTech /\ \A t \in Trunks : Untroubled(t)
=============================================================================
