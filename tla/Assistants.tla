------------------------------- MODULE Assistants -------------------------------
(***************************************************************************)
(* The assistants of an owner: the row, the tools linked to it, the file   *)
(* of its own voice, and the prompt a language model writes for it, which  *)
(* is charged; and the widget keys that name an assistant.                 *)
(*                                                                         *)
(* A form sends back the whole assistant it was filled with, the voice     *)
(* included, or with another voice chosen; a new assistant may be a copy,  *)
(* with the voice of the one it was copied from.  A body is written as it  *)
(* comes: only uploads and deletions remove files.  A request awaits the   *)
(* database between two steps; a file is written or removed at once.       *)
(***************************************************************************)
EXTENDS Integers, Sequences, FiniteSets

CONSTANTS Assistants, Tools,
          Creates, Edits, Uploads, Deletes, Prompts,   \* requests
          KeyCreates, KeyEdits,                        \* requests about widget keys
          About,            \* [requests -> Assistants]; a creation's assistant
          Urls, NoUrl,      \* what a key's apiUrl may be
          Price, Tokens,    \* of a text token; tokens a prompt takes
          Casts, MaxFaults  \* bounds

VARIABLES rows,             \* assistants: the voice of each, or absent
          links,            \* tools linked to each
          files,            \* voices in tts_voices, named after their upload
          keys,             \* widget_keys: [assistant, url, token], the token's url
          records, debits,  \* billing records of prompts and their debits: costs
          pc, held,
          asked,            \* history: the tools that were asked for last
          used,             \* history: tokens of each prompt
          loose,            \* history: files that a body let go of or named again
          crossed,          \* history: assistants with overlapping requests or a failure
          broken, faults    \* history: prompts a statement failed in; bound

vars == <<rows, links, files, keys, records, debits, pc, held, asked, used, loose, crossed, broken, faults>>
catalogue == <<rows, links, files, asked, loose, crossed>>
charges   == <<keys, records, debits, used, broken>>

-----------------------------------------------------------------------------
Absent == "absent"
Stock  == "stock"           \* a voice that is no file of ours
None   == [voice |-> Stock, links |-> {}, cost |-> 0]
NoKey  == [assistant |-> Absent, url |-> NoUrl, token |-> NoUrl]

Requests == Creates \cup Edits \cup Uploads \cup Deletes \cup Prompts \cup KeyCreates \cup KeyEdits
Present == {a \in Assistants : rows[a] # Absent}
Busy(q) == pc[q] \notin {"idle", "done"}
Goto(q, label) == pc' = [pc EXCEPT ![q] = label]
Fault == faults < MaxFaults /\ faults' = faults + 1
Begins(q) == crossed' = IF \E p \in Requests \ {q} : Busy(p) /\ About[p] = About[q]
                        THEN crossed \cup {About[q]} ELSE crossed

Init == /\ rows = [a \in Assistants |-> Absent] /\ links = [a \in Assistants |-> {}]
        /\ files = {} /\ keys = [k \in KeyCreates |-> NoKey]
        /\ records = [p \in Prompts |-> 0] /\ debits = [p \in Prompts |-> 0]
        /\ \E cast \in Casts : pc = [q \in Requests |-> IF q \in cast THEN "idle" ELSE "done"]
        /\ held = [q \in Requests |-> None]
        /\ asked = [a \in Assistants |-> {}] /\ used = [p \in Prompts |-> 0]
        /\ loose = {} /\ crossed = {} /\ broken = {} /\ faults = 0

-----------------------------------------------------------------------------
(* The row and its tools                                                   *)

\* create
Create(c) ==
  /\ c \in Creates /\ pc[c] = "idle"
  /\ \E voice \in {Stock} \cup {rows[a] : a \in Present} :
       /\ rows' = [rows EXCEPT ![About[c]] = voice]
       /\ loose' = loose \cup ({voice} \ {Stock})
  /\ \E ts \in SUBSET Tools :
       /\ asked' = [asked EXCEPT ![About[c]] = ts]
       /\ held' = [held EXCEPT ![c].links = ts]
       /\ Goto(c, IF ts = {} THEN "done" ELSE "links")
  /\ UNCHANGED <<links, files, charges, crossed, faults>>

\* A form is opened, and filled with the assistant as it is.
Open(e) ==
  /\ e \in Edits /\ pc[e] = "idle" /\ rows[About[e]] # Absent
  /\ held' = [held EXCEPT ![e].voice = rows[About[e]]]
  /\ Begins(e) /\ Goto(e, "save")
  /\ UNCHANGED <<rows, links, files, asked, loose, charges, faults>>

\* update: the voice of the body, which the form held or the user chose instead, and its
\* tools, if it has any list of them.
Update(e) ==
  /\ e \in Edits /\ pc[e] = "save"
  /\ IF rows[About[e]] = Absent
     THEN Goto(e, "done") /\ UNCHANGED <<rows, asked, loose, held>>
     ELSE /\ \E voice \in {held[e].voice, rows[About[e]], Stock} :
               /\ rows' = [rows EXCEPT ![About[e]] = voice]
               /\ loose' = IF voice = rows[About[e]] THEN loose
                           ELSE loose \cup ({rows[About[e]], voice} \ {Stock})
          /\ \/ Goto(e, "done") /\ UNCHANGED <<asked, held>>
             \/ \E ts \in SUBSET Tools : /\ asked' = [asked EXCEPT ![About[e]] = ts]
                                         /\ held' = [held EXCEPT ![e].links = ts]
                                         /\ Goto(e, "links")
  /\ UNCHANGED <<links, files, charges, crossed, faults>>

\* $set: the links that are there are read, those not asked for are taken away, those
\* not there are made.
ReadLinks(q) ==
  /\ q \in Creates \cup Edits /\ pc[q] = "links"
  /\ held' = [held EXCEPT ![q].links = [old |-> links[About[q]], new |-> @]]
  /\ Goto(q, "set")
  /\ UNCHANGED <<catalogue, charges, faults>>

\* Mutant: links are only added.
AddLinks(q) ==
  LET h == held[q].links a == About[q] IN
  /\ q \in Creates \cup Edits /\ pc[q] = "set"
  /\ links' = IF rows[a] = Absent THEN links ELSE [links EXCEPT ![a] = @ \cup h.new]
  /\ held' = [held EXCEPT ![q].links = {}]
  /\ Goto(q, "done")
  /\ UNCHANGED <<rows, files, asked, loose, crossed, charges, faults>>

SetLinks(q) ==
  LET h == held[q].links a == About[q] IN
  /\ q \in Creates \cup Edits /\ pc[q] = "set"
  /\ links' = IF rows[a] = Absent THEN links
              ELSE [links EXCEPT ![a] = (@ \ (h.old \ h.new)) \cup (h.new \ h.old)]
  /\ held' = [held EXCEPT ![q].links = {}]
  /\ Goto(q, "done")
  /\ UNCHANGED <<rows, files, asked, loose, crossed, charges, faults>>

\* delete: the file goes, then the row.
Find(d) ==
  /\ d \in Deletes /\ pc[d] = "idle" /\ rows[About[d]] # Absent
  /\ files' = files \ {rows[About[d]]}
  /\ crossed' = crossed \cup {About[d]}
  /\ Goto(d, "destroy")
  /\ UNCHANGED <<rows, links, asked, loose, held, charges, faults>>

\* An assistant a widget key names cannot go.
Destroy(d) ==
  /\ d \in Deletes /\ pc[d] = "destroy"
  /\ IF \E k \in KeyCreates : keys[k].assistant = About[d] THEN UNCHANGED <<rows, links>>
     ELSE rows' = [rows EXCEPT ![About[d]] = Absent] /\ links' = [links EXCEPT ![About[d]] = {}]
  /\ Goto(d, "done")
  /\ UNCHANGED <<files, asked, loose, crossed, held, charges, faults>>

-----------------------------------------------------------------------------
(* uploadTtsVoice                                                          *)

Load(u) ==
  /\ u \in Uploads /\ pc[u] = "idle" /\ rows[About[u]] # Absent
  /\ held' = [held EXCEPT ![u].voice = rows[About[u]]]
  /\ Begins(u) /\ Goto(u, "write")
  /\ UNCHANGED <<rows, links, files, asked, loose, charges, faults>>

\* The new file is written and the old one removed before the row names the new.
\* Mutant: what was read is not removed.
WriteOnly(u) ==
  /\ u \in Uploads /\ pc[u] = "write"
  /\ files' = files \cup {u}
  /\ Goto(u, "name")
  /\ UNCHANGED <<rows, links, asked, loose, crossed, held, charges, faults>>

Write(u) ==
  /\ u \in Uploads /\ pc[u] = "write"
  /\ files' = (files \cup {u}) \ {held[u].voice}
  /\ Goto(u, "name")
  /\ UNCHANGED <<rows, links, asked, loose, crossed, held, charges, faults>>

Name(u) ==
  /\ u \in Uploads /\ pc[u] = "name"
  /\ rows' = IF rows[About[u]] = Absent THEN rows ELSE [rows EXCEPT ![About[u]] = u]
  /\ Goto(u, "done")
  /\ UNCHANGED <<links, files, asked, loose, crossed, held, charges, faults>>

\* A statement of a request about an assistant fails.
Break(q) ==
  /\ q \in Creates \cup Edits \cup Uploads \cup Deletes /\ Busy(q) /\ Fault
  /\ crossed' = crossed \cup {About[q]}
  /\ Goto(q, "done")
  /\ UNCHANGED <<rows, links, files, asked, loose, held, charges>>

-----------------------------------------------------------------------------
(* WidgetKeysService                                                       *)

\* getAssistantById, of a new key or for another assistant of a key
CheckAssistant(q) ==
  /\ q \in KeyCreates \cup KeyEdits /\ pc[q] = "idle"
  /\ Goto(q, IF rows[About[q]] = Absent THEN "done" ELSE "key")
  /\ UNCHANGED <<catalogue, held, charges, faults>>

\* create: the token is signed for the url, if there is one.
MakeKey(q) ==
  /\ q \in KeyCreates /\ pc[q] = "key"
  /\ \E u \in Urls \cup {NoUrl} :
       keys' = IF rows[About[q]] = Absent THEN keys
               ELSE [keys EXCEPT ![q] = [assistant |-> About[q], url |-> u, token |-> u]]
  /\ Goto(q, "done")
  /\ UNCHANGED <<catalogue, held, records, debits, used, broken, faults>>

\* update: the url is compared with the one that has just been written.
ChangeKey(q) ==
  /\ q \in KeyEdits /\ pc[q] = "key"
  /\ \E k \in KeyCreates, u \in Urls :
       /\ keys[k] # NoKey
       /\ keys' = IF rows[About[q]] = Absent THEN keys
                  ELSE [keys EXCEPT ![k].assistant = About[q], ![k].url = u]
  /\ Goto(q, "done")
  /\ UNCHANGED <<catalogue, held, records, debits, used, broken, faults>>

\* remove
RemoveKey(q) ==
  /\ q \in KeyEdits /\ pc[q] = "idle"
  /\ \E k \in KeyCreates : keys[k] # NoKey /\ keys' = [keys EXCEPT ![k] = NoKey]
  /\ Goto(q, "done")
  /\ UNCHANGED <<catalogue, held, records, debits, used, broken, faults>>

-----------------------------------------------------------------------------
(* generatePrompt                                                          *)

\* The model answers; tokens are charged when the owner has a price.
Complete(p) ==
  /\ p \in Prompts /\ pc[p] = "idle"
  /\ \E n \in Tokens :
       /\ used' = [used EXCEPT ![p] = n]
       /\ held' = [held EXCEPT ![p].cost = n * Price]
       /\ Goto(p, IF n > 0 /\ Price > 0 THEN "record" ELSE "done")
  /\ UNCHANGED <<catalogue, keys, records, debits, broken, faults>>

RecordPrompt(p) ==
  /\ p \in Prompts /\ pc[p] = "record"
  /\ records' = [records EXCEPT ![p] = held[p].cost]
  /\ Goto(p, "debit")
  /\ UNCHANGED <<catalogue, keys, debits, used, broken, held, faults>>

\* decrementUserBalance, under the record's own external id; then the answer is read,
\* and one that cannot be is an error though it has been paid.
Debit(p) ==
  /\ p \in Prompts /\ pc[p] = "debit"
  /\ debits' = [debits EXCEPT ![p] = @ + held[p].cost]
  /\ Goto(p, "done")
  /\ UNCHANGED <<catalogue, keys, records, used, broken, held, faults>>

BreakPrompt(p) ==
  /\ p \in Prompts /\ Busy(p) /\ Fault
  /\ broken' = broken \cup {p}
  /\ Goto(p, "done")
  /\ UNCHANGED <<catalogue, keys, records, debits, used, held>>

Next == \E q \in Requests :
          \/ Create(q) \/ Open(q) \/ Update(q) \/ ReadLinks(q) \/ SetLinks(q)
          \/ Find(q) \/ Destroy(q) \/ Load(q) \/ Write(q) \/ Name(q) \/ Break(q)
          \/ CheckAssistant(q) \/ MakeKey(q) \/ ChangeKey(q) \/ RemoveKey(q)
          \/ Complete(q) \/ RecordPrompt(q) \/ Debit(q) \/ BreakPrompt(q)

Spec == Init /\ [][Next]_vars

-----------------------------------------------------------------------------
TypeOK == /\ files \subseteq Uploads /\ loose \subseteq Uploads
          /\ \A a \in Assistants : rows[a] \in Uploads \cup {Absent, Stock} /\ links[a] \subseteq Tools
          /\ \A p \in Prompts : records[p] \in Nat /\ debits[p] \in Nat
          /\ faults \in 0..MaxFaults

\* When no two requests overlapped on an assistant, none failed and it was not deleted,
\* the file of its voice is there, and none but it is left of those uploaded for it, and its
\* tools are those asked for last.  Files are told apart that a body let go of, which stay,
\* and that one made the voice of another assistant, which go with either.  A prompt is
\* debited what it was recorded for, and both only together.
AsAsked ==
  /\ \A a \in Assistants \ crossed :
       (\A q \in Requests : About[q] = a => ~Busy(q)) /\ rows[a] # Absent =>
         /\ rows[a] \in files \cup loose \cup {Stock}
         /\ {u \in files : About[u] = a} \subseteq {rows[a]} \cup loose
         /\ links[a] = asked[a]
  /\ \A p \in Prompts : /\ debits[p] <= records[p] /\ records[p] <= used[p] * Price
                        /\ ~Busy(p) /\ p \notin broken => debits[p] = used[p] * Price
================================================================================
