------------------------------ MODULE MCOffice ------------------------------
(***************************************************************************)
(* What is set up and sent around the calls, one component at a time:      *)
(* invoices, documents and the parties they go to, accounts and users,     *)
(* trunks and SIP addresses.  `which` says which is at work, and the       *)
(* variables of the others do not move.                                    *)
(***************************************************************************)
EXTENDS Integers, Sequences, FiniteSets, SequenceTheorems, FiniteSetTheorems, WellFoundedInduction,
        TLAPS, TLC

CONSTANTS Customers, Requests, Calendar, ViaEdo, MinWidth, Earlier,
          MaxSeq,                                   \* of InvoiceNumbers
          Outgoing, Resends, Retries, Payments, AutoSend, DocumentCasts, Deferred,
          Signing, MaxAttempts, MaxManual,          \* of DocumentExchange
          Parties, Issuers, Home, Sends, Syncs, Checks, EdoCasts, MaxInvites,
          MaxEdits,                                 \* of EdoInvitations
          Edits, MaxOrgs,                           \* of Issuers
          Branches, Lookups, NoKpp, MaxEvents,      \* of CounterpartyLookup
          Logins, Signups, Activations, Socials,
          MaxCodes,                                 \* of Accounts
          Creates, SubCreates, Moves, Deletes, UserCasts,
          MaxUsers,                                 \* of Tenants
          Trunks, TrunkServers, Assistants, TrunkCreates, TrunkUpdates, Removes,
          TrunkCasts, MaxRetechs, Prefixed, NoOne,  \* of SipTrunks
          Servers, UriCreates, UriUpdates, UriDeletes, UriCasts,
          NoFile,                                   \* of SipUris
          MaxFaults                                 \* of those that can fail

VARIABLES which,   \* the component at work
          today, counter, docs, drafts, toDraft, pc, req, faults, status, linked,
          attempts, amount, saby, job, manual, pending, marks, disturbed, org,
          invites, direct, op, cast, edits, routes, rows, last, doubtful, registry,
          cache, session, live, logins, kills, changes, known, sole, row, drawn,
          mailed, entered, tokens, crossed, parent, manages, priced, next, stale,
          cut, tech, files, loaded, retechs, troubled, file, moved, logging, refused

vars == <<which, today, counter, docs, drafts, toDraft, pc, req, faults, status, linked,
          attempts, amount, saby, job, manual, pending, marks, disturbed, org,
          invites, direct, op, cast, edits, routes, rows, last, doubtful,
          registry, cache, session, live, logins, kills, changes, known, sole,
          row, drawn, mailed, entered, tokens, crossed, parent, manages,
          priced, next, stale, cut, tech, files, loaded, retechs, troubled,
          file, moved, logging, refused>>

------------------------

\* Days whose digits begin alike: the 142nd of a year and of the next.
TwoYears == [n \in 1..2 |-> [year |-> 2025 + n, day |-> 142]]

\* The tenth and eleventh invoice of a day, and the first two of that day next year.
Bill == INSTANCE InvoiceNumbers WITH
  Orgs <- Customers

\* A document sent by its job, by hand and by the retry, while its payment comes in.
Sbis == INSTANCE DocumentExchange WITH
  Casts <- DocumentCasts, Invoices <- Outgoing

\* An organization that changes its requisites while its route to one of two issuers is asked for.
Edo == INSTANCE EdoInvitations WITH
  Casts <- EdoCasts

\* Three edits of the issuers by administrators.
Firm == INSTANCE Issuers

\* Two lookups of one INN, by branch or without, the SBIS session ended once.
Party == INSTANCE CounterpartyLookup

\* Logins, a sign-up and activations of one address.
Code == INSTANCE Accounts

\* Users made, moved and deleted at once.
User == INSTANCE Tenants WITH
  Casts <- UserCasts

\* A trunk that is made, updated and removed on a server that changes its technology.
Trunk == INSTANCE SipTrunks WITH
  Servers <- TrunkServers, Creates <- TrunkCreates, Updates <- TrunkUpdates,
  Casts <- TrunkCasts

\* A SIP URI made twice, updated and deleted, on two servers.
Uri == INSTANCE SipUris WITH
  Creates <- UriCreates, Updates <- UriUpdates, Deletes <- UriDeletes,
  Casts <- UriCasts, Absent <- NoFile

\* What the components ask of their constants.
ASSUME ComponentConstants ==
  /\ Bill!InvoiceConstants
  /\ Sbis!ExchangeConstants
  /\ Edo!EdoConstants
  /\ Firm!IssuerConstants
  /\ Party!LookupConstants
  /\ Code!AccountConstants
  /\ User!TenantConstants
  /\ Trunk!TrunkConstants
  /\ Uri!UriConstants

------------------------
Init ==
  \/ which = "Bill" /\ Bill!Init
       /\ status = 0 /\ linked = 0 /\ attempts = 0 /\ amount = 0 /\ saby = 0
       /\ job = 0 /\ manual = 0 /\ pending = 0 /\ marks = 0 /\ disturbed = 0
       /\ org = 0 /\ invites = 0 /\ direct = 0 /\ op = 0 /\ cast = 0 /\ edits = 0
       /\ routes = 0 /\ rows = 0 /\ last = 0 /\ doubtful = 0 /\ registry = 0
       /\ cache = 0 /\ session = 0 /\ live = 0 /\ logins = 0 /\ kills = 0
       /\ changes = 0 /\ known = 0 /\ sole = 0 /\ row = 0 /\ drawn = 0 /\ mailed = 0
       /\ entered = 0 /\ tokens = 0 /\ crossed = 0 /\ parent = 0 /\ manages = 0
       /\ priced = 0 /\ next = 0 /\ stale = 0 /\ cut = 0 /\ tech = 0 /\ files = 0
       /\ loaded = 0 /\ retechs = 0 /\ troubled = 0 /\ file = 0 /\ moved = 0
       /\ logging = 0 /\ refused = 0
  \/ which = "Sbis" /\ Sbis!Init
       /\ today = 0 /\ counter = 0 /\ docs = 0 /\ drafts = 0 /\ toDraft = 0 /\ req = 0
       /\ org = 0 /\ invites = 0 /\ direct = 0 /\ op = 0 /\ cast = 0 /\ edits = 0
       /\ routes = 0 /\ rows = 0 /\ last = 0 /\ doubtful = 0 /\ registry = 0
       /\ cache = 0 /\ session = 0 /\ live = 0 /\ logins = 0 /\ kills = 0
       /\ changes = 0 /\ known = 0 /\ sole = 0 /\ row = 0 /\ drawn = 0 /\ mailed = 0
       /\ entered = 0 /\ tokens = 0 /\ crossed = 0 /\ parent = 0 /\ manages = 0
       /\ priced = 0 /\ next = 0 /\ stale = 0 /\ cut = 0 /\ tech = 0 /\ files = 0
       /\ loaded = 0 /\ retechs = 0 /\ troubled = 0 /\ file = 0 /\ moved = 0
       /\ logging = 0 /\ refused = 0
  \/ which = "Edo" /\ Edo!Init
       /\ today = 0 /\ counter = 0 /\ docs = 0 /\ drafts = 0 /\ toDraft = 0 /\ pc = 0
       /\ req = 0 /\ status = 0 /\ linked = 0 /\ attempts = 0 /\ amount = 0
       /\ saby = 0 /\ job = 0 /\ manual = 0 /\ pending = 0 /\ marks = 0
       /\ disturbed = 0 /\ rows = 0 /\ last = 0 /\ doubtful = 0 /\ registry = 0
       /\ cache = 0 /\ session = 0 /\ live = 0 /\ logins = 0 /\ kills = 0
       /\ changes = 0 /\ known = 0 /\ sole = 0 /\ row = 0 /\ drawn = 0 /\ mailed = 0
       /\ entered = 0 /\ tokens = 0 /\ crossed = 0 /\ parent = 0 /\ manages = 0
       /\ priced = 0 /\ next = 0 /\ stale = 0 /\ cut = 0 /\ tech = 0 /\ files = 0
       /\ loaded = 0 /\ retechs = 0 /\ troubled = 0 /\ file = 0 /\ moved = 0
       /\ logging = 0 /\ refused = 0
  \/ which = "Firm" /\ Firm!Init
       /\ today = 0 /\ counter = 0 /\ docs = 0 /\ drafts = 0 /\ toDraft = 0 /\ pc = 0
       /\ req = 0 /\ faults = 0 /\ status = 0 /\ linked = 0 /\ attempts = 0
       /\ amount = 0 /\ saby = 0 /\ job = 0 /\ manual = 0 /\ pending = 0 /\ marks = 0
       /\ disturbed = 0 /\ org = 0 /\ invites = 0 /\ direct = 0 /\ cast = 0
       /\ edits = 0 /\ routes = 0 /\ registry = 0 /\ cache = 0 /\ session = 0
       /\ live = 0 /\ logins = 0 /\ kills = 0 /\ changes = 0 /\ known = 0 /\ sole = 0
       /\ row = 0 /\ drawn = 0 /\ mailed = 0 /\ entered = 0 /\ tokens = 0
       /\ crossed = 0 /\ parent = 0 /\ manages = 0 /\ priced = 0 /\ next = 0
       /\ stale = 0 /\ cut = 0 /\ tech = 0 /\ files = 0 /\ loaded = 0 /\ retechs = 0
       /\ troubled = 0 /\ file = 0 /\ moved = 0 /\ logging = 0 /\ refused = 0
  \/ which = "Party" /\ Party!Init
       /\ today = 0 /\ counter = 0 /\ docs = 0 /\ drafts = 0 /\ toDraft = 0 /\ pc = 0
       /\ req = 0 /\ status = 0 /\ linked = 0 /\ attempts = 0 /\ amount = 0
       /\ saby = 0 /\ job = 0 /\ manual = 0 /\ pending = 0 /\ marks = 0
       /\ disturbed = 0 /\ org = 0 /\ invites = 0 /\ direct = 0 /\ cast = 0
       /\ edits = 0 /\ routes = 0 /\ rows = 0 /\ last = 0 /\ doubtful = 0 /\ row = 0
       /\ drawn = 0 /\ mailed = 0 /\ entered = 0 /\ tokens = 0 /\ crossed = 0
       /\ parent = 0 /\ manages = 0 /\ priced = 0 /\ next = 0 /\ stale = 0 /\ cut = 0
       /\ tech = 0 /\ files = 0 /\ loaded = 0 /\ retechs = 0 /\ troubled = 0
       /\ file = 0 /\ moved = 0
  \/ which = "Code" /\ Code!Init
       /\ today = 0 /\ counter = 0 /\ docs = 0 /\ drafts = 0 /\ toDraft = 0 /\ pc = 0
       /\ req = 0 /\ faults = 0 /\ status = 0 /\ linked = 0 /\ attempts = 0
       /\ amount = 0 /\ saby = 0 /\ job = 0 /\ manual = 0 /\ pending = 0 /\ marks = 0
       /\ disturbed = 0 /\ org = 0 /\ invites = 0 /\ direct = 0 /\ cast = 0
       /\ edits = 0 /\ routes = 0 /\ rows = 0 /\ doubtful = 0 /\ registry = 0
       /\ cache = 0 /\ session = 0 /\ live = 0 /\ logins = 0 /\ kills = 0
       /\ changes = 0 /\ known = 0 /\ sole = 0 /\ parent = 0 /\ manages = 0
       /\ priced = 0 /\ next = 0 /\ stale = 0 /\ cut = 0 /\ tech = 0 /\ files = 0
       /\ loaded = 0 /\ retechs = 0 /\ troubled = 0 /\ file = 0 /\ moved = 0
       /\ logging = 0 /\ refused = 0
  \/ which = "User" /\ User!Init
       /\ today = 0 /\ counter = 0 /\ docs = 0 /\ drafts = 0 /\ toDraft = 0 /\ pc = 0
       /\ req = 0 /\ status = 0 /\ linked = 0 /\ attempts = 0 /\ amount = 0
       /\ saby = 0 /\ job = 0 /\ manual = 0 /\ pending = 0 /\ marks = 0
       /\ disturbed = 0 /\ org = 0 /\ invites = 0 /\ direct = 0 /\ edits = 0
       /\ routes = 0 /\ last = 0 /\ doubtful = 0 /\ registry = 0 /\ cache = 0
       /\ session = 0 /\ live = 0 /\ logins = 0 /\ kills = 0 /\ changes = 0
       /\ known = 0 /\ sole = 0 /\ row = 0 /\ drawn = 0 /\ mailed = 0 /\ entered = 0
       /\ tech = 0 /\ files = 0 /\ loaded = 0 /\ retechs = 0 /\ troubled = 0
       /\ file = 0 /\ moved = 0 /\ logging = 0 /\ refused = 0
  \/ which = "Trunk" /\ Trunk!Init
       /\ today = 0 /\ counter = 0 /\ docs = 0 /\ drafts = 0 /\ toDraft = 0 /\ pc = 0
       /\ req = 0 /\ status = 0 /\ linked = 0 /\ attempts = 0 /\ amount = 0
       /\ saby = 0 /\ job = 0 /\ manual = 0 /\ pending = 0 /\ marks = 0
       /\ disturbed = 0 /\ org = 0 /\ invites = 0 /\ direct = 0 /\ edits = 0
       /\ routes = 0 /\ rows = 0 /\ last = 0 /\ doubtful = 0 /\ registry = 0
       /\ cache = 0 /\ session = 0 /\ live = 0 /\ logins = 0 /\ kills = 0
       /\ changes = 0 /\ known = 0 /\ sole = 0 /\ drawn = 0 /\ mailed = 0
       /\ entered = 0 /\ tokens = 0 /\ crossed = 0 /\ parent = 0 /\ manages = 0
       /\ priced = 0 /\ next = 0 /\ stale = 0 /\ cut = 0 /\ file = 0 /\ moved = 0
       /\ logging = 0 /\ refused = 0
  \/ which = "Uri" /\ Uri!Init
       /\ today = 0 /\ counter = 0 /\ docs = 0 /\ drafts = 0 /\ toDraft = 0 /\ pc = 0
       /\ req = 0 /\ status = 0 /\ linked = 0 /\ attempts = 0 /\ amount = 0
       /\ saby = 0 /\ job = 0 /\ manual = 0 /\ pending = 0 /\ marks = 0
       /\ disturbed = 0 /\ org = 0 /\ invites = 0 /\ direct = 0 /\ edits = 0
       /\ routes = 0 /\ last = 0 /\ doubtful = 0 /\ registry = 0 /\ cache = 0
       /\ session = 0 /\ live = 0 /\ logins = 0 /\ kills = 0 /\ changes = 0
       /\ known = 0 /\ sole = 0 /\ row = 0 /\ drawn = 0 /\ mailed = 0 /\ entered = 0
       /\ tokens = 0 /\ crossed = 0 /\ parent = 0 /\ manages = 0 /\ priced = 0
       /\ next = 0 /\ stale = 0 /\ cut = 0 /\ files = 0 /\ retechs = 0 /\ logging = 0
       /\ refused = 0

Next ==
  \/ which = "Bill" /\ Bill!Next
       /\ UNCHANGED <<which, status, linked, attempts, amount, saby, job, manual,
                      pending, marks, disturbed, org, invites, direct, op, cast,
                      edits, routes, rows, last, doubtful, registry, cache, session,
                      live, logins, kills, changes, known, sole, row, drawn, mailed,
                      entered, tokens, crossed, parent, manages, priced, next, stale,
                      cut, tech, files, loaded, retechs, troubled, file, moved,
                      logging, refused>>
  \/ which = "Sbis" /\ Sbis!Next
       /\ UNCHANGED <<which, today, counter, docs, drafts, toDraft, req, org, invites,
                      direct, op, cast, edits, routes, rows, last, doubtful, registry,
                      cache, session, live, logins, kills, changes, known, sole, row,
                      drawn, mailed, entered, tokens, crossed, parent, manages,
                      priced, next, stale, cut, tech, files, loaded, retechs,
                      troubled, file, moved, logging, refused>>
  \/ which = "Edo" /\ Edo!Next
       /\ UNCHANGED <<which, today, counter, docs, drafts, toDraft, pc, req, status,
                      linked, attempts, amount, saby, job, manual, pending, marks,
                      disturbed, rows, last, doubtful, registry, cache, session, live,
                      logins, kills, changes, known, sole, row, drawn, mailed,
                      entered, tokens, crossed, parent, manages, priced, next, stale,
                      cut, tech, files, loaded, retechs, troubled, file, moved,
                      logging, refused>>
  \/ which = "Firm" /\ Firm!Next
       /\ UNCHANGED <<which, today, counter, docs, drafts, toDraft, pc, req, faults,
                      status, linked, attempts, amount, saby, job, manual, pending,
                      marks, disturbed, org, invites, direct, cast, edits, routes,
                      registry, cache, session, live, logins, kills, changes, known,
                      sole, row, drawn, mailed, entered, tokens, crossed, parent,
                      manages, priced, next, stale, cut, tech, files, loaded, retechs,
                      troubled, file, moved, logging, refused>>
  \/ which = "Party" /\ Party!Next
       /\ UNCHANGED <<which, today, counter, docs, drafts, toDraft, pc, req, status,
                      linked, attempts, amount, saby, job, manual, pending, marks,
                      disturbed, org, invites, direct, cast, edits, routes, rows,
                      last, doubtful, row, drawn, mailed, entered, tokens, crossed,
                      parent, manages, priced, next, stale, cut, tech, files, loaded,
                      retechs, troubled, file, moved>>
  \/ which = "Code" /\ Code!Next
       /\ UNCHANGED <<which, today, counter, docs, drafts, toDraft, pc, req, faults,
                      status, linked, attempts, amount, saby, job, manual, pending,
                      marks, disturbed, org, invites, direct, cast, edits, routes,
                      rows, doubtful, registry, cache, session, live, logins, kills,
                      changes, known, sole, parent, manages, priced, next, stale, cut,
                      tech, files, loaded, retechs, troubled, file, moved, logging,
                      refused>>
  \/ which = "User" /\ User!Next
       /\ UNCHANGED <<which, today, counter, docs, drafts, toDraft, pc, req, status,
                      linked, attempts, amount, saby, job, manual, pending, marks,
                      disturbed, org, invites, direct, edits, routes, last, doubtful,
                      registry, cache, session, live, logins, kills, changes, known,
                      sole, row, drawn, mailed, entered, tech, files, loaded, retechs,
                      troubled, file, moved, logging, refused>>
  \/ which = "Trunk" /\ Trunk!Next
       /\ UNCHANGED <<which, today, counter, docs, drafts, toDraft, pc, req, status,
                      linked, attempts, amount, saby, job, manual, pending, marks,
                      disturbed, org, invites, direct, edits, routes, rows, last,
                      doubtful, registry, cache, session, live, logins, kills,
                      changes, known, sole, drawn, mailed, entered, tokens, crossed,
                      parent, manages, priced, next, stale, cut, file, moved, logging,
                      refused>>
  \/ which = "Uri" /\ Uri!Next
       /\ UNCHANGED <<which, today, counter, docs, drafts, toDraft, pc, req, status,
                      linked, attempts, amount, saby, job, manual, pending, marks,
                      disturbed, org, invites, direct, edits, routes, last, doubtful,
                      registry, cache, session, live, logins, kills, changes, known,
                      sole, row, drawn, mailed, entered, tokens, crossed, parent,
                      manages, priced, next, stale, cut, files, retechs, logging,
                      refused>>

Spec == Init /\ [][Next]_vars

------------------------
TypeOK ==
  /\ which = "Bill" => Bill!TypeOK
  /\ which = "Sbis" => Sbis!TypeOK
  /\ which = "Edo" => Edo!TypeOK
  /\ which = "Firm" => Firm!TypeOK
  /\ which = "Party" => Party!TypeOK
  /\ which = "Code" => Code!TypeOK
  /\ which = "User" => User!TypeOK
  /\ which = "Trunk" => Trunk!TypeOK
  /\ which = "Uri" => Uri!TypeOK

\* Invoices of a day have numbers without a gap, and no two are printed alike
\* (InvoiceNumbers).
Gapless == which = "Bill" => Bill!Gapless

\* What is said of a document is what SBIS has of it, and a payment marks one document
\* once (DocumentExchange).
DocumentsTrue ==
  which = "Sbis" => Sbis!StatusTellsTheTruth /\ Sbis!MarkedOnce

\* A route is known only to the party it was found for, a looked up party is the one asked
\* for, and one issuer at most is primary, edits at a time apart (EdoInvitations,
\* CounterpartyLookup, Issuers).
RoutesTrue ==
  /\ which = "Edo" => Edo!RouteKnown
  /\ which = "Party" => Party!LookupTrue
  /\ which = "Firm" => Firm!OnePrimary

\* Users have an owner or are one, new ones have prices, and a code admits once
\* (Tenants, Accounts).
OwnersSound ==
  /\ which = "User" => User!TreeIsFlat /\ User!PricedOrCut
  /\ which = "Code" => Code!CodeUsedOnce /\ Code!NewestCodeWorks

\* Files on the PBX are those of the rows there are, what Asterisk loaded is what the files
\* say, unless a call failed or requests overlapped (SipTrunks, SipUris).
SipInStep ==
  /\ which = "Trunk" => Trunk!FilesAsConfigured /\ Trunk!LoadedAsWritten
  /\ which = "Uri" => Uri!UriAsConfigured

------------------------
\* The invoices: a number that is taken and not committed is the next one, and nobody else
\* has one (Bill!IInv).

\* FiniteSets is the same there as here.
LEMMA NumbersCounts ==
  \A S : Bill!Cardinality(S) = Cardinality(S) /\ (Bill!IsFiniteSet(S) <=> IsFiniteSet(S))
  BY DEF Cardinality, Bill!Cardinality, IsFiniteSet, Bill!IsFiniteSet



LEMMA DatesPass == ASSUME NEW i \in DOMAIN Calendar PROVE Calendar[i] \in Bill!Dates
  BY DEF Bill!Dates

LEMMA DaysAre == \A date \in Bill!Dates : date.day \in Nat
  <1>1. \A date \in Bill!Dates : date.day \in 1..366 BY ComponentConstants
       DEF Bill!InvoiceConstants
  <1> QED BY <1>1

\* A number has one to six digits, a larger one no fewer.
LEMMA DigitsAre == ASSUME NEW n \in Nat PROVE Bill!Digits(n) \in 1..6
  <1>1. IsFiniteSet(1..5) /\ Cardinality(1..5) = 5
    <2>1. 1 \in Int /\ 5 \in Int OBVIOUS
    <2>2. IsFiniteSet(1..5) /\ Cardinality(1..5) = IF 1 > 5 THEN 0 ELSE 5 - 1 + 1 BY <2>1, FS_Interval
    <2> QED BY <2>2
  <1>2. {k \in 1..5 : Bill!TenTo[k] <= n} \subseteq 1..5 OBVIOUS
  <1>3. /\ IsFiniteSet({k \in 1..5 : Bill!TenTo[k] <= n})
        /\ Cardinality({k \in 1..5 : Bill!TenTo[k] <= n}) <= 5
    BY <1>1, <1>2, FS_Subset
  <1>4. Cardinality({k \in 1..5 : Bill!TenTo[k] <= n}) \in Nat BY <1>3, FS_CardinalityType
  <1> QED BY NumbersCounts, <1>3, <1>4 DEF Bill!Digits

LEMMA DigitsGrow == ASSUME NEW n \in Nat, NEW m \in Nat, n < m
                    PROVE  Bill!Digits(n) <= Bill!Digits(m)
  <1> DEFINE S(x) == {k \in 1..5 : Bill!TenTo[k] <= x}
  <1>1. IsFiniteSet(1..5)
    <2>1. 1 \in Int /\ 5 \in Int OBVIOUS
    <2> QED BY <2>1, FS_Interval
  <1>2. IsFiniteSet(S(n)) /\ IsFiniteSet(S(m)) BY <1>1, FS_Subset
  <1>3. \A k \in 1..5 : Bill!TenTo[k] \in Nat BY DEF Bill!TenTo
  <1>4. S(n) \subseteq S(m) BY <1>3
  <1>5. Cardinality(S(n)) <= Cardinality(S(m)) BY <1>2, <1>4, FS_Subset
  <1>6. Cardinality(S(n)) \in Nat /\ Cardinality(S(m)) \in Nat BY <1>2, FS_CardinalityType
  <1>7. Bill!Digits(n) = 1 + Cardinality(S(n)) /\ Bill!Digits(m) = 1 + Cardinality(S(m))
    BY NumbersCounts DEF Bill!Digits
  <1> HIDE DEF S
  <1> QED BY <1>5, <1>6, <1>7

LEMMA TensGrow ==
  ASSUME NEW i \in 1..6, NEW j \in 1..6, i <= j
  PROVE  Bill!TenTo[i] \in Nat /\ Bill!TenTo[j] \in Nat /\ Bill!TenTo[i] <= Bill!TenTo[j]
  BY DEF Bill!TenTo

LEMMA NumberIs ==
  ASSUME NEW n \in Nat, NEW day \in Nat
  PROVE  Bill!FormatInvoiceNumber(n, day) \in Bill!InvoiceNumber
  <1>1. Bill!Digits(n) \in 1..6 BY DigitsAre
  <1>2. Bill!TenTo[Bill!Digits(n)] \in Nat BY <1>1, TensGrow
  <1>3. day * Bill!TenTo[Bill!Digits(n)] + n \in Nat BY <1>2
  <1>4. MinWidth \in Nat BY ComponentConstants DEF Bill!InvoiceConstants
  <1> QED BY <1>1, <1>3, <1>4 DEF Bill!FormatInvoiceNumber, Bill!InvoiceNumber

\* Of two invoices of a day the later one has the larger number.
LEMMA NumbersGrow ==
  ASSUME NEW n \in Nat, NEW m \in Nat, NEW day \in Nat, n < m
  PROVE  Bill!FormatInvoiceNumber(n, day).value < Bill!FormatInvoiceNumber(m, day).value
  <1> DEFINE a == Bill!TenTo[Bill!Digits(n)]
             b == Bill!TenTo[Bill!Digits(m)]
  <1>1. a \in Nat /\ b \in Nat /\ a <= b
    <2>1. Bill!Digits(n) \in 1..6 /\ Bill!Digits(m) \in 1..6 /\ Bill!Digits(n) <= Bill!Digits(m)
      BY DigitsAre, DigitsGrow
    <2> QED BY <2>1, TensGrow
  <1>2. /\ Bill!FormatInvoiceNumber(n, day).value = day * a + n
        /\ Bill!FormatInvoiceNumber(m, day).value = day * b + m
    BY DEF Bill!FormatInvoiceNumber
  <1> HIDE DEF a, b
  <1>3. day * a \in Nat /\ day * b \in Nat /\ day * a <= day * b BY <1>1
  <1> QED BY <1>2, <1>3

LEMMA InvoiceIs ==
  ASSUME NEW o \in Customers, NEW date \in Bill!Dates, NEW n \in Nat
  PROVE  /\ Bill!NumberedInvoice(o, date, n) \in Bill!Invoices
         /\ Bill!NumberedInvoice(o, date, n).org = o
         /\ Bill!NumberedInvoice(o, date, n).date = date
         /\ Bill!NumberedInvoice(o, date, n).seq = n
         /\ Bill!NumberedInvoice(o, date, n).number = Bill!FormatInvoiceNumber(n, date.day)
  <1>1. date.day \in Nat BY DaysAre
  <1>2. Bill!FormatInvoiceNumber(n, date.day) \in Bill!InvoiceNumber BY <1>1, NumberIs
  <1> QED BY <1>2 DEF Bill!NumberedInvoice, Bill!Invoices

LEMMA InitIInv == ASSUME Bill!Init PROVE Bill!IInv
  <1>1. 1 \in DOMAIN Calendar BY ComponentConstants DEF Bill!InvoiceConstants
  <1>2. Bill!Flags BY DEF Bill!Init, Bill!Flags
  <1>3. PICK o \in Customers : docs = {Bill!NumberedInvoice(o, Calendar[1], n) : n \in 1..Earlier} BY DEF Bill!Init
  <1>4. /\ \A d \in docs : d.date = Calendar[1] /\ d.seq \in 1..Earlier
        /\ \A d \in docs : d = Bill!NumberedInvoice(o, Calendar[1], d.seq)
        /\ \A n \in 1..Earlier : \E d \in docs : d.date = Calendar[1] /\ d.seq = n
    <2>1. \A n : /\ Bill!NumberedInvoice(o, Calendar[1], n).date = Calendar[1]
                 /\ Bill!NumberedInvoice(o, Calendar[1], n).seq = n
      BY DEF Bill!NumberedInvoice
    <2> QED BY <1>3, <2>1
  <1>5. Calendar[1] \in Bill!Dates /\ counter[Calendar[1]] = Earlier
        /\ \A d \in Bill!Dates : d # Calendar[1] => counter[d] = 0
    BY <1>1, DatesPass DEF Bill!Init
  <1>6. counter \in [Bill!Dates -> Nat]
    <2>1. Earlier \in Nat BY ComponentConstants DEF Bill!InvoiceConstants
    <2> QED BY <2>1 DEF Bill!Init
  <1>7. req \in [Requests -> [org : Customers, date : Bill!Dates, seq : Nat, edo : BOOLEAN]]
    <2>1. [org : Customers, date : {Calendar[1]}, seq : {0}, edo : {FALSE}]
             \subseteq [org : Customers, date : Bill!Dates, seq : Nat, edo : BOOLEAN]
      <3>1. {Calendar[1]} \subseteq Bill!Dates /\ {0} \subseteq Nat /\ {FALSE} \subseteq BOOLEAN BY <1>5
      <3> QED BY <3>1
    <2> QED BY <2>1 DEF Bill!Init
  <1>8. Bill!Shape
    <2>1. \A d \in docs : d.date \in Bill!Dates /\ d.seq \in 1..counter[d.date] BY <1>4, <1>5
    <2>2. today \in DOMAIN Calendar /\ drafts = {} /\ toDraft = {} BY <1>1 DEF Bill!Init
    <2>3. \A d \in docs : d \in Bill!Invoices /\ d.number = Bill!FormatInvoiceNumber(d.seq, d.date.day)
      <3>1. \A d \in docs : d.seq \in Nat
        <4>1. Earlier \in Nat BY ComponentConstants DEF Bill!InvoiceConstants
        <4> QED BY <1>4, <4>1
      <3> QED BY <1>4, <1>5, <3>1, InvoiceIs
    <2> QED BY <1>6, <1>7, <2>1, <2>2, <2>3 DEF Bill!Shape
  <1>9. Bill!HoldInv BY DEF Bill!Init, Bill!HoldInv
  <1>10. Bill!DocsInv BY <1>4, <1>5 DEF Bill!DocsInv
  <1> QED BY <1>2, <1>8, <1>9, <1>10 DEF Bill!IInv

\* A request that moves on without taking or committing a number disturbs nothing.
LEMMA RequestFrame ==
  ASSUME Bill!Flags, Bill!HoldInv, Bill!DocsInv, Bill!Shape, NEW r \in Requests,
         NEW label,
         Bill!Goto(r, label), label \in {"begun", "creating", "refused", "free"},
         \A q \in Requests : q # r => req'[q] = req[q],
         UNCHANGED <<counter, docs>>
  PROVE  Bill!HoldInv' /\ Bill!DocsInv'
  <1>1. \A q \in Requests : pc'[q] = IF q = r THEN label ELSE pc[q] BY DEF Bill!Goto, Bill!Flags
  <1>2. Bill!HoldInv' BY <1>1 DEF Bill!HoldInv
  <1> QED BY <1>2 DEF Bill!DocsInv

\* The request that gets the lock takes the next number.
LEMMA TakeFrame ==
  ASSUME Bill!Flags, Bill!HoldInv, Bill!DocsInv, Bill!Shape, NEW r \in Requests,
         Bill!Goto(r, "numbered"), Bill!Holding(req[r].date) = {},
         req' = [req EXCEPT ![r].seq = counter[req[r].date] + 1],
         UNCHANGED <<counter, docs>>
  PROVE  Bill!HoldInv' /\ Bill!DocsInv'
  <1>1. \A q \in Requests : pc'[q] = IF q = r THEN "numbered" ELSE pc[q] BY DEF Bill!Goto, Bill!Flags
  <1>2. /\ \A q \in Requests : q # r => req'[q] = req[q]
        /\ req'[r].seq = counter[req[r].date] + 1 /\ req'[r].date = req[r].date
    BY DEF Bill!Shape
  <1>3. \A q \in Requests : pc[q] \in {"numbered", "stored"} => req[q].date # req[r].date BY DEF Bill!Holding
  <1>4. Bill!HoldInv' BY <1>1, <1>2, <1>3 DEF Bill!HoldInv
  <1> QED BY <1>4 DEF Bill!DocsInv

LEMMA StepFlags == ASSUME Bill!Flags, Bill!Next PROVE Bill!Flags'
  BY DEF Bill!Flags, Bill!Next, Bill!NextDay, Bill!IssueInvoice, Bill!NextNumber,
       Bill!CreateCounter, Bill!StoreInvoice,
         Bill!Commit, Bill!Rollback, Bill!Answer, Bill!DraftInvoice, Bill!Goto

\* What a commit adds: the next invoice of its day.
LEMMA CommitAdds ==
  ASSUME Bill!Flags, Bill!HoldInv, Bill!Shape, NEW r \in Requests, Bill!Commit(r)
  PROVE  /\ req[r].date \in Bill!Dates /\ counter[req[r].date] \in Nat
         /\ counter' \in [Bill!Dates -> Nat]
         /\ \A date \in Bill!Dates :
               counter'[date] = counter[date] + (IF date = req[r].date THEN 1 ELSE 0)
         /\ docs' = docs \cup {Bill!Invoice(r)}
         /\ Bill!Invoice(r).date = req[r].date
         /\ Bill!Invoice(r).seq = counter[req[r].date] + 1
         /\ req' = req
         /\ \A q \in Requests : pc'[q] = IF q = r THEN "issued" ELSE pc[q]
  <1>1. req[r].date \in Bill!Dates /\ req[r].seq = counter[req[r].date] + 1
    BY DEF Bill!Commit, Bill!HoldInv, Bill!Shape
  <1>2. counter[req[r].date] \in Nat BY <1>1 DEF Bill!Shape
  <1>3. counter' = [counter EXCEPT ![req[r].date] = counter[req[r].date] + 1] BY <1>1 DEF Bill!Commit
  <1>4. counter' \in [Bill!Dates -> Nat] BY <1>1, <1>2, <1>3 DEF Bill!Shape
  <1>5. \A date \in Bill!Dates :
           counter'[date] = counter[date] + (IF date = req[r].date THEN 1 ELSE 0)
    BY <1>1, <1>2, <1>3 DEF Bill!Shape
  <1>6. Bill!Invoice(r).date = req[r].date /\ Bill!Invoice(r).seq = req[r].seq
    BY DEF Bill!Invoice, Bill!NumberedInvoice
  <1>7. \A q \in Requests : pc'[q] = IF q = r THEN "issued" ELSE pc[q] BY DEF Bill!Commit, Bill!Goto, Bill!Flags
  <1> QED BY <1>1, <1>2, <1>4, <1>5, <1>6, <1>7 DEF Bill!Commit

LEMMA StepShape == ASSUME Bill!Flags, Bill!HoldInv, Bill!Shape, Bill!Next
                   PROVE  Bill!Shape'
  <1>1. CASE Bill!NextDay
    <2>1. today' \in DOMAIN Calendar BY <1>1, ComponentConstants DEF Bill!NextDay, Bill!Shape, Bill!InvoiceConstants
    <2> QED BY <1>1, <2>1 DEF Bill!NextDay, Bill!Shape
  <1>2. ASSUME NEW r \in Requests, Bill!IssueInvoice(r) PROVE Bill!Shape'
    <2>1. Calendar[today] \in Bill!Dates BY DatesPass DEF Bill!Shape
    <2>2. PICK o \in Customers, edo \in ViaEdo :
             req' = [req EXCEPT ![r] = [org |-> o, date |-> Calendar[today],
                                        seq |-> 0, edo |-> edo]]
      BY <1>2 DEF Bill!IssueInvoice
    <2>3. req' \in [Requests -> [org : Customers, date : Bill!Dates, seq : Nat, edo : BOOLEAN]]
      BY <2>1, <2>2, ComponentConstants DEF Bill!Shape, Bill!InvoiceConstants
    <2> QED BY <1>2, <2>3 DEF Bill!IssueInvoice, Bill!Shape
  <1>3. ASSUME NEW r \in Requests, NEW n \in Nat,
               req' = req \/ req' = [req EXCEPT ![r].seq = n],
               UNCHANGED <<today, counter, docs, drafts, toDraft>>
        PROVE  Bill!Shape'
    <2>1. req' \in [Requests -> [org : Customers, date : Bill!Dates, seq : Nat, edo : BOOLEAN]]
      BY <1>3 DEF Bill!Shape
    <2> QED BY <1>3, <2>1 DEF Bill!Shape
  <1>4. ASSUME NEW r \in Requests, Bill!NextNumber(r) PROVE Bill!Shape'
    <2>1. counter[req[r].date] + 1 \in Nat /\ 0 \in Nat BY DEF Bill!Shape
    <2> QED BY <1>3, <1>4, <2>1 DEF Bill!NextNumber
  <1>5. ASSUME NEW r \in Requests, Bill!CreateCounter(r) PROVE Bill!Shape' BY <1>3, <1>5 DEF Bill!CreateCounter
  <1>6. ASSUME NEW r \in Requests, Bill!StoreInvoice(r) \/ Bill!Rollback(r)
        PROVE  Bill!Shape'
    BY <1>6 DEF Bill!StoreInvoice, Bill!Rollback, Bill!Shape
  <1>7. ASSUME NEW r \in Requests, Bill!Answer(r) PROVE Bill!Shape' BY <1>3, <1>7 DEF Bill!Answer
  <1>8. ASSUME NEW r \in Requests, Bill!Commit(r) PROVE Bill!Shape'
    <2>1. /\ Bill!Invoice(r) \in Bill!Invoices /\ Bill!Invoice(r).date = req[r].date
          /\ Bill!Invoice(r).number = Bill!FormatInvoiceNumber(Bill!Invoice(r).seq, Bill!Invoice(r).date.day)
      BY InvoiceIs DEF Bill!Invoice, Bill!Shape
    <2>2. \A d \in docs : d.date \in Bill!Dates BY DEF Bill!Shape, Bill!Invoices
    <2>3. \A d \in docs : d.seq \in 1..counter'[d.date]
      <3>1. \A d \in docs : d.seq \in 1..counter[d.date] BY DEF Bill!Shape
      <3>2. \A d \in docs : counter[d.date] \in Nat BY <2>2 DEF Bill!Shape
      <3> QED BY <1>8, <2>2, <3>1, <3>2, CommitAdds
    <2>4. Bill!Invoice(r).seq \in 1..counter'[Bill!Invoice(r).date] BY <1>8, CommitAdds
    <2>5. /\ docs' = docs \cup {Bill!Invoice(r)} /\ toDraft' \subseteq toDraft \cup {Bill!Invoice(r)}
          /\ UNCHANGED <<today, drafts, req>>
      BY <1>8 DEF Bill!Commit
    <2>6. docs' \subseteq Bill!Invoices /\ drafts' \subseteq Bill!Invoices /\ toDraft' \subseteq Bill!Invoices
      BY <2>1, <2>5 DEF Bill!Shape
    <2>7. \A d \in docs' :
             d.seq \in 1..counter'[d.date] /\ d.number = Bill!FormatInvoiceNumber(d.seq, d.date.day)
      BY <2>1, <2>3, <2>4, <2>5 DEF Bill!Shape
    <2>8. counter' \in [Bill!Dates -> Nat] BY <1>8, CommitAdds
    <2> QED BY <2>5, <2>6, <2>7, <2>8 DEF Bill!Shape
  <1>9. ASSUME NEW d \in toDraft, Bill!DraftInvoice(d) PROVE Bill!Shape' BY <1>9 DEF Bill!DraftInvoice, Bill!Shape
  <1> QED BY <1>1, <1>2, <1>4, <1>5, <1>6, <1>7, <1>8, <1>9 DEF Bill!Next

LEMMA StepNumbers ==
  ASSUME Bill!Flags, Bill!Shape, Bill!HoldInv, Bill!DocsInv, Bill!Next
  PROVE  Bill!HoldInv' /\ Bill!DocsInv'
  <1>1. CASE Bill!NextDay BY <1>1 DEF Bill!NextDay, Bill!HoldInv, Bill!DocsInv
  <1>2. ASSUME NEW r \in Requests, Bill!IssueInvoice(r)
        PROVE  Bill!HoldInv' /\ Bill!DocsInv'
    <2>1. \A q \in Requests : q # r => req'[q] = req[q] BY <1>2 DEF Bill!IssueInvoice, Bill!Shape
    <2> QED BY <1>2, <2>1, RequestFrame DEF Bill!IssueInvoice
  <1>3. ASSUME NEW r \in Requests, Bill!NextNumber(r) PROVE Bill!HoldInv' /\ Bill!DocsInv'
    <2>1. CASE counter[req[r].date] = 0 /\ Bill!Goto(r, "creating") /\ UNCHANGED req
      BY <1>3, <2>1, RequestFrame DEF Bill!NextNumber
    <2>2. CASE counter[req[r].date] > 0 BY <1>3, <2>2, TakeFrame DEF Bill!NextNumber
    <2> QED BY <1>3, <2>1, <2>2 DEF Bill!NextNumber
  <1>4. ASSUME NEW r \in Requests, Bill!CreateCounter(r)
        PROVE  Bill!HoldInv' /\ Bill!DocsInv'
    <2>1. CASE counter[req[r].date] = 0
      <3>0. ~(counter[req[r].date] > 0) /\ counter[req[r].date] + 1 = 1 BY <2>1
      <3>1. req' = [req EXCEPT ![r].seq = 1] BY <1>4, <3>0 DEF Bill!CreateCounter
      <3>2. req' = [req EXCEPT ![r].seq = counter[req[r].date] + 1] BY <3>0, <3>1
      <3> QED BY <1>4, <3>0, <3>2, TakeFrame DEF Bill!CreateCounter
    <2>2. CASE Bill!Goto(r, "refused") /\ UNCHANGED req BY <1>4, <2>2, RequestFrame DEF Bill!CreateCounter
    <2> QED BY <1>4, <2>1, <2>2 DEF Bill!CreateCounter
  <1>5. ASSUME NEW r \in Requests, Bill!StoreInvoice(r)
        PROVE  Bill!HoldInv' /\ Bill!DocsInv'
    <2>1. CASE Bill!Goto(r, "refused") BY <1>5, <2>1, RequestFrame DEF Bill!StoreInvoice
    <2>2. CASE Bill!Goto(r, "stored")
      <3>1. \A q \in Requests : pc'[q] = IF q = r THEN "stored" ELSE pc[q] BY <2>2 DEF Bill!Goto, Bill!Flags
      <3> QED BY <1>5, <3>1 DEF Bill!StoreInvoice, Bill!HoldInv, Bill!DocsInv
    <2> QED BY <1>5, <2>1, <2>2 DEF Bill!StoreInvoice
  <1>6. ASSUME NEW r \in Requests, Bill!Rollback(r) PROVE Bill!HoldInv' /\ Bill!DocsInv'
    BY <1>6, RequestFrame DEF Bill!Rollback
  <1>7. ASSUME NEW r \in Requests, Bill!Answer(r) PROVE Bill!HoldInv' /\ Bill!DocsInv'
    <2>1. \A q \in Requests : q # r => req'[q] = req[q] BY <1>7 DEF Bill!Answer, Bill!Shape
    <2> QED BY <1>7, <2>1, RequestFrame DEF Bill!Answer
  <1>8. ASSUME NEW r \in Requests, Bill!Commit(r) PROVE Bill!HoldInv' /\ Bill!DocsInv'
    <2>1. \A q \in Requests : pc[q] \in {"numbered", "stored"} /\ q # r =>
             req[q].date # req[r].date /\ req[q].date \in Bill!Dates
      BY <1>8 DEF Bill!Commit, Bill!HoldInv, Bill!Shape
    <2>2. Bill!HoldInv' BY <1>8, <2>1, CommitAdds DEF Bill!HoldInv, Bill!Shape
    <2>3. ASSUME NEW date \in Bill!Dates, NEW n \in 1..counter'[date]
          PROVE  \E d \in docs' : d.date = date /\ d.seq = n
      <3>1. CASE n \in 1..counter[date]
        <4>1. PICK d \in docs : d.date = date /\ d.seq = n BY <3>1 DEF Bill!DocsInv
        <4>2. d \in docs' BY <1>8, CommitAdds
        <4> QED BY <4>1, <4>2
      <3>2. CASE n \notin 1..counter[date]
        <4>1. date = req[r].date /\ n = counter[date] + 1 BY <1>8, <3>2, CommitAdds DEF Bill!Shape
        <4> QED BY <1>8, <4>1, CommitAdds
      <3> QED BY <3>1, <3>2
    <2>4. \A d \in docs : d.date = req[r].date => d.seq # counter[req[r].date] + 1
      BY <1>8, CommitAdds DEF Bill!Shape
    <2>5. \A d, e \in docs' : d.date = e.date /\ d.seq = e.seq => d = e BY <1>8, <2>4, CommitAdds DEF Bill!DocsInv
    <2> QED BY <2>2, <2>3, <2>5 DEF Bill!DocsInv
  <1>9. ASSUME NEW d \in toDraft, Bill!DraftInvoice(d) PROVE Bill!HoldInv' /\ Bill!DocsInv'
    BY <1>9 DEF Bill!DraftInvoice, Bill!HoldInv, Bill!DocsInv
  <1> QED BY <1>1, <1>2, <1>3, <1>4, <1>5, <1>6, <1>7, <1>8, <1>9 DEF Bill!Next

LEMMA NumbersStep == ASSUME Bill!IInv, Bill!Next PROVE Bill!IInv'
  BY StepFlags, StepShape, StepNumbers DEF Bill!IInv

LEMMA NumbersStay == ASSUME Bill!IInv, UNCHANGED Bill!vars PROVE Bill!IInv'
  <1>1. UNCHANGED <<today, counter, docs, drafts, toDraft, pc, req, faults>> BY DEF Bill!vars
  <1> QED BY <1>1 DEF Bill!IInv, Bill!Flags, Bill!Shape, Bill!HoldInv, Bill!DocsInv

LEMMA NumbersAre == ASSUME Bill!IInv PROVE Bill!TypeOK /\ Bill!Gapless
  <1>1. Bill!TypeOK BY DEF Bill!IInv, Bill!Flags, Bill!Shape, Bill!TypeOK
  <1>2. \A d \in docs : d.date \in Bill!Dates BY DEF Bill!IInv, Bill!Shape,
       Bill!Invoices
  <1>3. ASSUME NEW date \in Bill!Dates
        PROVE  {d.seq : d \in {e \in docs : e.date = date}} = 1..counter[date]
    <2>1. \A d \in docs : d.seq \in 1..counter[d.date] BY DEF Bill!IInv, Bill!Shape
    <2> QED BY <2>1 DEF Bill!IInv, Bill!DocsInv
  <1>4. Bill!NumberedInTurn BY <1>3 DEF Bill!IInv, Bill!DocsInv, Bill!NumberedInTurn
  <1>5. ASSUME NEW d \in docs, NEW e \in docs, d.date = e.date, d.number = e.number
        PROVE  d = e
    <2>1. d.seq \in Nat /\ e.seq \in Nat /\ d.date.day \in Nat
      <3>1. d \in Bill!Invoices /\ e \in Bill!Invoices BY DEF Bill!IInv, Bill!Shape
      <3>2. d.seq \in Nat /\ e.seq \in Nat BY <3>1 DEF Bill!Invoices
      <3> QED BY <1>2, <3>2, DaysAre
    <2>2. /\ Bill!FormatInvoiceNumber(d.seq, d.date.day).value = d.number.value
          /\ Bill!FormatInvoiceNumber(e.seq, d.date.day).value = d.number.value
          /\ d.number.value \in Nat
      <3>1. d \in Bill!Invoices BY DEF Bill!IInv, Bill!Shape
      <3>2. d.number.value \in Nat BY <3>1 DEF Bill!Invoices, Bill!InvoiceNumber
      <3> QED BY <1>5, <3>2 DEF Bill!IInv, Bill!Shape
    <2>3. ~(d.seq < e.seq) BY <2>1, <2>2, NumbersGrow
    <2>4. ~(e.seq < d.seq) BY <2>1, <2>2, NumbersGrow
    <2>5. d.seq = e.seq BY <2>1, <2>3, <2>4
    <2> QED BY <1>5, <2>5 DEF Bill!IInv, Bill!DocsInv
  <1> QED BY <1>1, <1>4, <1>5 DEF Bill!Gapless

LEMMA NumbersAlways == Spec => [](which = "Bill" => Bill!IInv)
  <1> DEFINE I == which = "Bill" => Bill!IInv
  <1>1. Init => I BY InitIInv, ComponentConstants DEF Init
  <1>2. I /\ [Next]_vars => I'
    <2>1. ASSUME Bill!IInv, [Bill!Next]_Bill!vars PROVE Bill!IInv'
      BY <2>1, NumbersStep, NumbersStay, ComponentConstants
    <2>2. ASSUME [Next]_vars, which' = "Bill"
          PROVE  which = "Bill" /\ [Bill!Next]_Bill!vars
      BY <2>2 DEF Next, vars, Bill!vars
    <2> QED BY <2>1, <2>2
  <1> QED BY <1>1, <1>2, PTL DEF Spec

\* nextNumber, issueInvoice, formatInvoiceNumber: for any organizations, requests and
\* calendar, across midnight, collisions on the first row of a day and rollbacks, the
\* invoices of a day are numbered in turn, and no two are printed alike.
THEOREM InvoicesAreNumberedInTurn == Spec => []Gapless
  <1>1. (which = "Bill" => Bill!IInv) => Gapless BY NumbersAre DEF Gapless
  <1> QED BY <1>1, NumbersAlways, PTL

------------------------
\* The documents: what a handler still has to write is what SBIS has been told, unless
\* another handler is at work (Sbis!IInv).

\* FiniteSets is the same there as here.
LEMMA ExchangeCounts ==
  \A S : Sbis!Cardinality(S) = Cardinality(S) /\ (Sbis!IsFiniteSet(S) <=> IsFiniteSet(S))
  BY DEF Cardinality, Sbis!Cardinality, IsFiniteSet, Sbis!IsFiniteSet


\* Who moved where; a handler is no invoice.
LEMMA DocumentGotoIs ==
  ASSUME Sbis!ExchangeConstants, Sbis!Shapes, NEW p \in Outgoing \cup Sbis!Handlers,
         NEW label, Sbis!Goto(p, label)
  PROVE  /\ pc'[p] = label
         /\ \A q \in Outgoing \cup Sbis!Handlers : q # p => pc'[q] = pc[q]
         /\ p \in Outgoing => \A h \in Sbis!Handlers : pc'[h] = pc[h]
         /\ p \in Sbis!Handlers => \A d \in Outgoing : pc'[d] = pc[d]
  <1>1. \A q \in Outgoing \cup Sbis!Handlers : pc'[q] = IF q = p THEN label ELSE pc[q] BY DEF Sbis!Goto, Sbis!Shapes
  <1>2. Outgoing \cap Sbis!Handlers = {} BY DEF Sbis!ExchangeConstants, Sbis!Handlers
  <1> QED BY <1>1, <1>2

\* The places of handlers, and what a step of one may do to its job.
Active == {"reading", "preparing", "executing", "checking", "ok", "failing"}

LEMMA JobIs ==
  ASSUME Sbis!Shapes, NEW h \in Sbis!Handlers,
         \/ UNCHANGED job
         \/ job' = [job EXCEPT ![h].prepared = TRUE]
         \/ job' = [job EXCEPT ![h].deferred = TRUE]
  PROVE  /\ job' \in [Sbis!Handlers -> Sbis!JobKind]
         /\ \A g \in Sbis!Handlers : /\ job'[g].doc = job[g].doc
                                     /\ job'[g].status = job[g].status
                                     /\ job'[g].attempts = job[g].attempts
  <1>1. job \in [Sbis!Handlers -> Sbis!JobKind] BY DEF Sbis!Shapes
  <1>2. ASSUME NEW r \in Sbis!JobKind
        PROVE  /\ [r EXCEPT !.prepared = TRUE] \in Sbis!JobKind /\ [r EXCEPT !.deferred = TRUE] \in Sbis!JobKind
               /\ [r EXCEPT !.prepared = TRUE].doc = r.doc /\ [r EXCEPT !.deferred = TRUE].doc = r.doc
               /\ [r EXCEPT !.prepared = TRUE].status = r.status /\ [r EXCEPT !.deferred = TRUE].status = r.status
               /\ [r EXCEPT !.prepared = TRUE].attempts = r.attempts /\ [r EXCEPT !.deferred = TRUE].attempts = r.attempts
    BY DEF Sbis!JobKind
  <1>3. \/ UNCHANGED job
        \/ job' = [job EXCEPT ![h] = [job[h] EXCEPT !.prepared = TRUE]]
        \/ job' = [job EXCEPT ![h] = [job[h] EXCEPT !.deferred = TRUE]]
    OBVIOUS
  <1>4. ASSUME NEW r \in Sbis!JobKind, r.doc = job[h].doc, r.status = job[h].status,
               r.attempts = job[h].attempts,
               job' = [job EXCEPT ![h] = r]
        PROVE  /\ job' \in [Sbis!Handlers -> Sbis!JobKind]
               /\ \A g \in Sbis!Handlers : /\ job'[g].doc = job[g].doc
                                           /\ job'[g].status = job[g].status
                                           /\ job'[g].attempts = job[g].attempts
    BY <1>1, <1>4
  <1>5. job[h] \in Sbis!JobKind BY <1>1
  <1>6. CASE UNCHANGED job BY <1>1, <1>6
  <1>7. CASE job' = [job EXCEPT ![h] = [job[h] EXCEPT !.prepared = TRUE]] BY <1>2, <1>4, <1>5, <1>7
  <1>8. CASE job' = [job EXCEPT ![h] = [job[h] EXCEPT !.deferred = TRUE]] BY <1>2, <1>4, <1>5, <1>8
  <1> QED BY <1>3, <1>6, <1>7, <1>8

\* A field of a document changes, or the document is written anew.
LEMMA DocumentIs ==
  ASSUME Sbis!Shapes, NEW d \in Outgoing
  PROVE  /\ \A x \in {"absent", "draft", "queued", "sent"} : saby' = [saby EXCEPT ![d].state = x] =>
              saby' \in [Outgoing -> Sbis!DocumentKind] /\ saby'[d].state = x /\ \A e \in Outgoing \ {d} : saby'[e] = saby[e]
         /\ \A x \in BOOLEAN : saby' = [saby EXCEPT ![d].formal = x] =>
              saby' \in [Outgoing -> Sbis!DocumentKind] /\ \A e \in Outgoing : saby'[e].state = saby[e].state
         /\ \A x \in 0 .. 2 : saby' = [saby EXCEPT ![d].prepares = x] =>
              saby' \in [Outgoing -> Sbis!DocumentKind] /\ \A e \in Outgoing : saby'[e].state = saby[e].state
         /\ \A s \in Signing : saby' = [saby EXCEPT ![d] = [Sbis!Absent EXCEPT !.state = "draft", !.signing = s]] =>
              saby' \in [Outgoing -> Sbis!DocumentKind] /\ saby'[d].state = "draft" /\ \A e \in Outgoing \ {d} : saby'[e] = saby[e]
  <1>1. saby \in [Outgoing -> Sbis!DocumentKind] BY DEF Sbis!Shapes
  <1>2. ASSUME NEW r \in Sbis!DocumentKind
        PROVE  /\ \A x \in {"absent", "draft", "queued", "sent"} : [r EXCEPT !.state = x] \in Sbis!DocumentKind /\ [r EXCEPT !.state = x].state = x
               /\ \A x \in BOOLEAN : [r EXCEPT !.formal = x] \in Sbis!DocumentKind /\ [r EXCEPT !.formal = x].state = r.state
               /\ \A x \in 0 .. 2 : [r EXCEPT !.prepares = x] \in Sbis!DocumentKind /\ [r EXCEPT !.prepares = x].state = r.state
    BY DEF Sbis!DocumentKind
  <1>3. \A s \in Signing : [Sbis!Absent EXCEPT !.state = "draft", !.signing = s] \in Sbis!DocumentKind
                           /\ [Sbis!Absent EXCEPT !.state = "draft", !.signing = s].state = "draft"
    <2>1. Sbis!Absent \in Sbis!DocumentKind BY DEF Sbis!Absent, Sbis!DocumentKind
    <2>2. ASSUME NEW r \in Sbis!DocumentKind, NEW s \in Signing
          PROVE  [r EXCEPT !.state = "draft", !.signing = s] \in Sbis!DocumentKind /\ [r EXCEPT !.state = "draft", !.signing = s].state = "draft"
      BY DEF Sbis!DocumentKind
    <2> QED BY <2>1, <2>2
  <1>4. \A x : [saby EXCEPT ![d].state = x] = [saby EXCEPT ![d] = [saby[d] EXCEPT !.state = x]] OBVIOUS
  <1>5. \A x : [saby EXCEPT ![d].formal = x] = [saby EXCEPT ![d] = [saby[d] EXCEPT !.formal = x]] OBVIOUS
  <1>6. \A x : [saby EXCEPT ![d].prepares = x] = [saby EXCEPT ![d] = [saby[d] EXCEPT !.prepares = x]] OBVIOUS
  <1>7. ASSUME NEW r \in Sbis!DocumentKind, saby' = [saby EXCEPT ![d] = r]
        PROVE  saby' \in [Outgoing -> Sbis!DocumentKind] /\ saby'[d] = r /\ \A e \in Outgoing \ {d} : saby'[e] = saby[e]
    BY <1>1, <1>7
  <1>8. saby[d] \in Sbis!DocumentKind BY <1>1
  <1>9. \A x \in {"absent", "draft", "queued", "sent"} : saby' = [saby EXCEPT ![d].state = x] =>
              saby' \in [Outgoing -> Sbis!DocumentKind] /\ saby'[d].state = x /\ \A e \in Outgoing \ {d} : saby'[e] = saby[e]
    <2>1. ASSUME NEW x \in {"absent", "draft", "queued", "sent"}, saby' = [saby EXCEPT ![d].state = x]
          PROVE  saby' \in [Outgoing -> Sbis!DocumentKind] /\ saby'[d].state = x /\ \A e \in Outgoing \ {d} : saby'[e] = saby[e]
      <3>1. [saby[d] EXCEPT !.state = x] \in Sbis!DocumentKind /\ [saby[d] EXCEPT !.state = x].state = x
        BY <1>2, <1>8
      <3>2. saby' = [saby EXCEPT ![d] = [saby[d] EXCEPT !.state = x]] BY <2>1, <1>4
      <3>3. PICK r \in Sbis!DocumentKind : r.state = x /\ saby' = [saby EXCEPT ![d] = r] BY <3>1, <3>2
      <3>4. saby' \in [Outgoing -> Sbis!DocumentKind] /\ saby'[d] = r /\ \A e \in Outgoing \ {d} : saby'[e] = saby[e]
        BY <1>7, <3>3
      <3> QED BY <3>3, <3>4
    <2> QED BY <2>1
  <1>10. \A x \in BOOLEAN : saby' = [saby EXCEPT ![d].formal = x] =>
              saby' \in [Outgoing -> Sbis!DocumentKind] /\ \A e \in Outgoing : saby'[e].state = saby[e].state
    <2>1. ASSUME NEW x \in BOOLEAN, saby' = [saby EXCEPT ![d].formal = x]
          PROVE  saby' \in [Outgoing -> Sbis!DocumentKind] /\ \A e \in Outgoing : saby'[e].state = saby[e].state
      <3>1. [saby[d] EXCEPT !.formal = x] \in Sbis!DocumentKind /\ [saby[d] EXCEPT !.formal = x].state = saby[d].state
        BY <1>2, <1>8
      <3>2. saby' = [saby EXCEPT ![d] = [saby[d] EXCEPT !.formal = x]] BY <2>1, <1>5
      <3>3. PICK r \in Sbis!DocumentKind : r.state = saby[d].state /\ saby' = [saby EXCEPT ![d] = r] BY <3>1, <3>2
      <3>4. saby' \in [Outgoing -> Sbis!DocumentKind] /\ saby'[d] = r /\ \A e \in Outgoing \ {d} : saby'[e] = saby[e]
        BY <1>7, <3>3
      <3> QED BY <3>3, <3>4
    <2> QED BY <2>1
  <1>11. \A x \in 0 .. 2 : saby' = [saby EXCEPT ![d].prepares = x] =>
              saby' \in [Outgoing -> Sbis!DocumentKind] /\ \A e \in Outgoing : saby'[e].state = saby[e].state
    <2>1. ASSUME NEW x \in 0 .. 2, saby' = [saby EXCEPT ![d].prepares = x]
          PROVE  saby' \in [Outgoing -> Sbis!DocumentKind] /\ \A e \in Outgoing : saby'[e].state = saby[e].state
      <3>1. [saby[d] EXCEPT !.prepares = x] \in Sbis!DocumentKind /\ [saby[d] EXCEPT !.prepares = x].state = saby[d].state
        BY <1>2, <1>8
      <3>2. saby' = [saby EXCEPT ![d] = [saby[d] EXCEPT !.prepares = x]] BY <2>1, <1>6
      <3>3. PICK r \in Sbis!DocumentKind : r.state = saby[d].state /\ saby' = [saby EXCEPT ![d] = r] BY <3>1, <3>2
      <3>4. saby' \in [Outgoing -> Sbis!DocumentKind] /\ saby'[d] = r /\ \A e \in Outgoing \ {d} : saby'[e] = saby[e]
        BY <1>7, <3>3
      <3> QED BY <3>3, <3>4
    <2> QED BY <2>1
  <1>12. \A s \in Signing : saby' = [saby EXCEPT ![d] = [Sbis!Absent EXCEPT !.state = "draft", !.signing = s]] =>
              saby' \in [Outgoing -> Sbis!DocumentKind] /\ saby'[d].state = "draft" /\ \A e \in Outgoing \ {d} : saby'[e] = saby[e]
    BY <1>3, <1>7
  <1> QED BY <1>9, <1>10, <1>11, <1>12

\* What SBIS has taken it keeps.
LEMMA HandOverIs ==
  ASSUME Sbis!Shapes, NEW d \in Outgoing, Sbis!HandOver(d)
  PROVE  /\ saby' \in [Outgoing -> Sbis!DocumentKind]
         /\ saby'[d].state \in Sbis!Past /\ \A e \in Outgoing \ {d} : saby'[e] = saby[e]
  <1>1. PICK s \in Sbis!Past : saby' = [saby EXCEPT ![d].state = s] BY DEF Sbis!HandOver
  <1>2. s \in {"absent", "draft", "queued", "sent"} BY DEF Sbis!Past
  <1>3. saby' \in [Outgoing -> Sbis!DocumentKind] /\ saby'[d].state = s /\ \A e \in Outgoing \ {d} : saby'[e] = saby[e]
    BY <1>1, <1>2, DocumentIs
  <1> QED BY <1>1, <1>3

\* What the steps of a handler that has begun do.
LEMMA HandlerSteps ==
  ASSUME Sbis!ExchangeConstants, Sbis!Shapes, NEW h \in Sbis!Handlers,
         Sbis!ReadDocument(h) \/ Sbis!Prepare(h) \/ Sbis!Execute(h) \/ Sbis!CheckSent(h) \/ Sbis!LoseCall(h)
  PROVE  /\ pc[h] \in Active
         /\ pc'[h] \in Active
         /\ \A q \in Outgoing \cup Sbis!Handlers : q # h => pc'[q] = pc[q]
         /\ pc' \in [Outgoing \cup Sbis!Handlers -> Active \cup {"issued", "attaching", "linking", "idle", "done"}]
         /\ job' \in [Sbis!Handlers -> Sbis!JobKind]
         /\ \A g \in Sbis!Handlers : /\ job'[g].doc = job[g].doc
                                     /\ job'[g].status = job[g].status
                                     /\ job'[g].attempts = job[g].attempts
         /\ saby' \in [Outgoing -> Sbis!DocumentKind]
         /\ \A d \in Outgoing : saby'[d].state \in {saby[d].state} \cup Sbis!Past
         /\ UNCHANGED <<status, linked, attempts, amount, manual, pending, marks>>
         /\ disturbed \subseteq disturbed' /\ disturbed' \subseteq Outgoing
  <1> USE DEF Sbis!Shapes, Active
  <1>d. job[h].doc \in Outgoing BY DEF Sbis!JobKind
  <1>1. CASE Sbis!ReadDocument(h)
    <2>1. \E label \in {"ok", "preparing", "executing"} : Sbis!Goto(h, label) BY <1>1
         DEF Sbis!ReadDocument
    <2> QED BY <1>1, <2>1, JobIs DEF Sbis!ReadDocument, Sbis!rows, Sbis!Goto
  <1>2. CASE Sbis!Prepare(h)
    <2>1. \E label \in {"failing", "executing"} : Sbis!Goto(h, label) BY <1>2
         DEF Sbis!Prepare
    <2>2. job' = job \/ job' = [job EXCEPT ![h].prepared = TRUE] BY <1>2 DEF Sbis!Prepare
    <2>3. \/ saby' = saby
          \/ \E n \in 0 .. 2 : saby' = [saby EXCEPT ![job[h].doc].prepares = n]
      <3>1. saby[job[h].doc].prepares \in 0 .. 2 BY <1>d DEF Sbis!DocumentKind
      <3>2. (IF saby[job[h].doc].prepares < 2 THEN saby[job[h].doc].prepares + 1 ELSE saby[job[h].doc].prepares) \in 0 .. 2
        BY <3>1
      <3> QED BY <1>2, <3>2 DEF Sbis!Prepare
    <2>4. /\ saby' \in [Outgoing -> Sbis!DocumentKind]
          /\ \A d \in Outgoing : saby'[d].state = saby[d].state
      BY <1>d, <2>3, DocumentIs
    <2> QED BY <1>2, <2>1, <2>2, <2>4, JobIs DEF Sbis!Prepare, Sbis!rows, Sbis!Goto
  <1>3. CASE Sbis!Execute(h)
    <2>1. \E label \in {"ok", "preparing", "executing", "failing", "checking"} : Sbis!Goto(h, label)
      <3>1. UNCHANGED pc => Sbis!Goto(h, "executing") BY <1>3 DEF Sbis!Execute,
           Sbis!Goto
      <3> QED BY <1>3, <3>1 DEF Sbis!Execute
    <2>2. job' = job \/ job' = [job EXCEPT ![h].deferred = TRUE] BY <1>3 DEF Sbis!Execute
    <2>3. saby' = saby \/ Sbis!HandOver(job[h].doc) BY <1>3
         DEF Sbis!Execute
    <2>4. /\ saby' \in [Outgoing -> Sbis!DocumentKind]
          /\ \A d \in Outgoing : saby'[d].state \in {saby[d].state} \cup Sbis!Past
      BY <1>d, <2>3, HandOverIs
    <2> QED BY <1>3, <2>1, <2>2, <2>4, JobIs DEF Sbis!Execute, Sbis!rows, Sbis!Goto
  <1>4. CASE Sbis!CheckSent(h)
    <2>1. \E label \in {"ok", "failing"} : Sbis!Goto(h, label) BY <1>4 DEF Sbis!CheckSent
    <2> QED BY <1>4, <2>1, JobIs DEF Sbis!CheckSent, Sbis!rows, Sbis!Goto
  <1>5. CASE Sbis!LoseCall(h)
    <2>3. saby' = saby \/ Sbis!HandOver(job[h].doc) BY <1>5
         DEF Sbis!LoseCall
    <2>4. /\ saby' \in [Outgoing -> Sbis!DocumentKind]
          /\ \A d \in Outgoing : saby'[d].state \in {saby[d].state} \cup Sbis!Past
      BY <1>d, <2>3, HandOverIs
    <2> QED BY <1>5, <1>d, <2>4, JobIs DEF Sbis!LoseCall, Sbis!rows, Sbis!Goto
  <1> QED BY <1>1, <1>2, <1>3, <1>4, <1>5

\* A draft is written and linked: only the document and its own draft are concerned.
LEMMA DraftSteps ==
  ASSUME Sbis!ExchangeConstants, Sbis!Shapes, NEW d \in Outgoing,
         Sbis!WriteShell(d) \/ Sbis!WriteAttachment(d) \/ Sbis!LinkDraft(d)
  PROVE  /\ pc[d] # "done" /\ pc'[d] \in {"attaching", "linking", "done"}
         /\ \A q \in Outgoing \cup Sbis!Handlers : q # d => pc'[q] = pc[q]
         /\ \A h \in Sbis!Handlers : pc'[h] = pc[h]
         /\ saby' \in [Outgoing -> Sbis!DocumentKind]
         /\ \A e \in Outgoing : \/ saby'[e].state = saby[e].state
                                \/ e = d /\ pc[e] = "issued" /\ saby'[e].state = "draft"
         /\ linked' \subseteq Outgoing
         /\ \/ UNCHANGED attempts
            \/ attempts' = [attempts EXCEPT ![d] = @ + 1] /\ pc'[d] = "done"
         /\ UNCHANGED <<status, amount, job, manual, pending, marks, disturbed>>
  <1> USE DEF Sbis!Shapes
  <1>0. \A label : Sbis!Goto(d, label) => \A h \in Sbis!Handlers : pc'[h] = pc[h] BY DocumentGotoIs
  <1>1. CASE Sbis!WriteShell(d)
    <2>1. \E label \in {"attaching", "done"} : Sbis!Goto(d, label) BY <1>1
         DEF Sbis!WriteShell
    <2>2. \/ saby' = saby
          \/ \E s \in Signing : saby' = [saby EXCEPT ![d] = [Sbis!Absent EXCEPT !.state = "draft", !.signing = s]]
      BY <1>1 DEF Sbis!WriteShell
    <2>3. /\ saby' \in [Outgoing -> Sbis!DocumentKind]
          /\ \A e \in Outgoing : saby'[e].state = saby[e].state \/ (e = d /\ saby'[e].state = "draft")
      <3>1. ASSUME NEW s \in Signing,
                   saby' = [saby EXCEPT ![d] = [Sbis!Absent EXCEPT !.state = "draft", !.signing = s]]
            PROVE  saby' \in [Outgoing -> Sbis!DocumentKind] /\ saby'[d].state = "draft" /\ \A e \in Outgoing \ {d} : saby'[e] = saby[e]
        BY <3>1, DocumentIs
      <3>2. CASE saby' = saby BY <3>2
      <3>3. CASE saby' # saby
        <4>1. saby' \in [Outgoing -> Sbis!DocumentKind] /\ saby'[d].state = "draft" /\ \A e \in Outgoing \ {d} : saby'[e] = saby[e]
          BY <2>2, <3>1, <3>3
        <4> QED BY <4>1
      <3> QED BY <3>2, <3>3
    <2>4. \/ UNCHANGED attempts
          \/ attempts' = [attempts EXCEPT ![d] = @ + 1] /\ pc'[d] = "done"
      BY <1>1 DEF Sbis!WriteShell, Sbis!Goto
    <2> QED BY <1>0, <1>1, <2>1, <2>3, <2>4 DEF Sbis!WriteShell, Sbis!Goto
  <1>2. CASE Sbis!WriteAttachment(d)
    <2>1. \E label \in {"linking", "done"} : Sbis!Goto(d, label) BY <1>2
         DEF Sbis!WriteAttachment
    <2>2. \/ saby' = saby
          \/ \E s \in BOOLEAN : saby' = [saby EXCEPT ![d].formal = s]
      BY <1>2 DEF Sbis!WriteAttachment
    <2>4. \/ UNCHANGED attempts
          \/ attempts' = [attempts EXCEPT ![d] = @ + 1] /\ pc'[d] = "done"
      BY <1>2 DEF Sbis!WriteAttachment, Sbis!Goto
    <2>5. saby' \in [Outgoing -> Sbis!DocumentKind] /\ \A e \in Outgoing : saby'[e].state = saby[e].state
      BY <2>2, DocumentIs
    <2> QED BY <1>0, <1>2, <2>1, <2>4, <2>5 DEF Sbis!WriteAttachment, Sbis!Goto
  <1>3. CASE Sbis!LinkDraft(d) BY <1>0, <1>3 DEF Sbis!LinkDraft, Sbis!Goto
  <1> QED BY <1>1, <1>2, <1>3

LEMMA DocumentBeginSteps ==
  ASSUME Sbis!ExchangeConstants, Sbis!Shapes, NEW h \in Sbis!Handlers,
         NEW d \in Outgoing,
         Sbis!BeginResend(h, d) \/ Sbis!BeginRetry(h, d)
  PROVE  /\ pc[h] = "idle" /\ pc'[h] \in {"reading", "failing", "ok"}
         /\ pc'[h] = "ok" <=> ~AutoSend
         /\ pc'[h] = "failing" => status[d] = "failed" /\ disturbed' = (IF Sbis!On(d) = {} THEN disturbed ELSE disturbed \cup {d})
         /\ pc'[h] = "reading" => disturbed' = IF Sbis!On(d) = {} THEN disturbed \ {d} ELSE disturbed \cup {d}
         /\ \A q \in Outgoing \cup Sbis!Handlers : q # h => pc'[q] = pc[q]
         /\ job' \in [Sbis!Handlers -> Sbis!JobKind]
         /\ job'[h].doc = d /\ job'[h].status = status[d] /\ job'[h].attempts = attempts[d]
         /\ \A g \in Sbis!Handlers : g # h => job'[g] = job[g]
         /\ disturbed' \subseteq Outgoing
         /\ UNCHANGED <<status, linked, attempts, amount, saby, faults, manual, pending, marks>>
  <1> USE DEF Sbis!Shapes
  <1>1. \E label \in {"reading", "failing", "ok"} : Sbis!Goto(h, label) BY DEF Sbis!BeginResend, Sbis!BeginRetry
  <1>2. job' = [job EXCEPT ![h] = [doc |-> d, status |-> status[d], attempts |-> attempts[d],
                               prepared |-> FALSE, deferred |-> FALSE]]
    BY DEF Sbis!BeginResend, Sbis!BeginRetry, Sbis!Take
  <1>3. /\ job' \in [Sbis!Handlers -> Sbis!JobKind]
        /\ job'[h].doc = d /\ job'[h].status = status[d] /\ job'[h].attempts = attempts[d]
        /\ \A g \in Sbis!Handlers : g # h => job'[g] = job[g]
    <2>1. [doc |-> d, status |-> status[d], attempts |-> attempts[d], prepared |-> FALSE, deferred |-> FALSE] \in Sbis!JobKind
      BY DEF Sbis!JobKind
    <2> QED BY <1>2, <2>1
  <1>4. pc'[h] = (IF AutoSend THEN "reading" ELSE "ok") \/ (status[d] = "failed" /\ pc'[h] = (IF AutoSend THEN "failing" ELSE "ok"))
    BY DEF Sbis!BeginResend, Sbis!BeginRetry, Sbis!Goto
  <1>5. disturbed' \subseteq Outgoing BY DEF Sbis!BeginResend, Sbis!BeginRetry
  <1>6. AutoSend \in BOOLEAN BY DEF Sbis!ExchangeConstants
  <1>7. pc[h] = "idle" /\ UNCHANGED <<status, linked, attempts, amount, saby, faults, manual, pending, marks>>
    BY DEF Sbis!BeginResend, Sbis!BeginRetry, Sbis!rows
  <1>8. \A q \in Outgoing \cup Sbis!Handlers : q # h => pc'[q] = pc[q] BY <1>1 DEF Sbis!Goto
  <1>9. CASE Sbis!BeginResend(h, d)
    <2>1. pc'[h] = (IF AutoSend THEN "reading" ELSE "ok") BY <1>9 DEF Sbis!BeginResend,
         Sbis!Goto
    <2>2. disturbed' = IF Sbis!On(d) = {} THEN disturbed \ {d} ELSE disturbed \cup {d} BY <1>9 DEF Sbis!BeginResend
    <2> QED BY <1>3, <1>5, <1>6, <1>7, <1>8, <2>1, <2>2
  <1>10. CASE Sbis!BeginRetry(h, d)
    <2>1. status[d] = "failed" /\ pc'[h] = (IF AutoSend THEN "failing" ELSE "ok") BY <1>10
         DEF Sbis!BeginRetry, Sbis!Goto
    <2>2. disturbed' = IF Sbis!On(d) = {} THEN disturbed ELSE disturbed \cup {d} BY <1>10
         DEF Sbis!BeginRetry
    <2> QED BY <1>3, <1>5, <1>6, <1>7, <1>8, <2>1, <2>2
  <1> QED BY <1>9, <1>10

LEMMA FinishStep ==
  ASSUME Sbis!ExchangeConstants, Sbis!Shapes, NEW h \in Sbis!Handlers,
         Sbis!Finish(h)
  PROVE  /\ pc[h] \in {"ok", "failing"} /\ pc'[h] = "done"
         /\ \A q \in Outgoing \cup Sbis!Handlers : q # h => pc'[q] = pc[q]
         /\ job[h].doc \in Outgoing
         /\ status' \in [Outgoing -> Sbis!Statuses]
         /\ \A d \in Outgoing : d # job[h].doc => status'[d] = status[d]
         /\ status'[job[h].doc] =
              LET now == status[job[h].doc]
                  outcome == IF pc[h] = "ok" THEN "sent_to_sbis" ELSE "failed"
              IN IF now = "none" \/ outcome = job[h].status THEN now ELSE outcome
         /\ attempts' = [attempts EXCEPT ![job[h].doc] = job[h].attempts + 1]
         /\ UNCHANGED <<linked, amount, saby, job, faults, manual, pending, marks, disturbed>>
  <1>1. job[h].doc \in Outgoing BY DEF Sbis!Shapes, Sbis!JobKind
  <1>2. pc' = [pc EXCEPT ![h] = "done"] BY DEF Sbis!Finish, Sbis!Goto
  <1>3. status' = [status EXCEPT ![job[h].doc] =
                     IF @ = "none" \/ (IF pc[h] = "ok" THEN "sent_to_sbis" ELSE "failed") = job[h].status
                     THEN @ ELSE IF pc[h] = "ok" THEN "sent_to_sbis" ELSE "failed"]
    BY DEF Sbis!Finish
  <1>4. status' \in [Outgoing -> Sbis!Statuses] BY <1>1, <1>3 DEF Sbis!Shapes,
       Sbis!Statuses
  <1> QED BY <1>1, <1>2, <1>3, <1>4 DEF Sbis!Finish, Sbis!Shapes

\* Payments, edits, deletions and sends by hand.
LEMMA OtherSteps ==
  ASSUME Sbis!ExchangeConstants, Sbis!Shapes,
         \/ \E p \in Payments : Sbis!Pay(p)
         \/ \E d \in Outgoing : Sbis!Edit(d) \/ Sbis!Remove(d) \/ Sbis!SendByHand(d) \/ Sbis!OwnerSigns(d)
  PROVE  /\ UNCHANGED <<linked, attempts, pc, job>>
         /\ status' \in [Outgoing -> Sbis!Statuses]
         /\ \A d \in Outgoing : \/ status'[d] = status[d] \/ status'[d] = "none"
                                \/ status[d] = "issued" /\ status'[d] = "paid"
         /\ marks' \in [Outgoing -> Nat]
         /\ \A d \in Outgoing : \/ marks'[d] = marks[d]
                                \/ marks'[d] = marks[d] + 1 /\ status[d] = "issued" /\ status'[d] = "paid"
         /\ saby' \in [Outgoing -> Sbis!DocumentKind]
         /\ disturbed \subseteq disturbed' /\ disturbed' \subseteq Outgoing
         /\ \A d \in Outgoing : \/ saby'[d].state = saby[d].state
                                \/ saby[d].state = "draft" /\ saby'[d].state = "sent" /\ d \in disturbed'
                                \/ saby[d].state = "queued" /\ saby'[d].state = "sent"
  <1> USE DEF Sbis!Shapes, Sbis!Statuses
  <1>1. ASSUME NEW p \in Payments, Sbis!Pay(p)
        PROVE  UNCHANGED <<linked, attempts, saby, pc, job, disturbed>>
                /\ (\/ \E d \in Outgoing : status[d] = "issued" /\ status' = [status EXCEPT ![d] = "paid"] /\ marks' = [marks EXCEPT ![d] = @ + 1]
                    \/ UNCHANGED <<status, marks>>)
    BY <1>1 DEF Sbis!Pay
  <1>2. ASSUME NEW d \in Outgoing, status[d] = "issued", status' = [status EXCEPT ![d] = "paid"],
               marks' = [marks EXCEPT ![d] = @ + 1]
        PROVE  /\ status' \in [Outgoing -> Sbis!Statuses]
               /\ \A e \in Outgoing : status'[e] = status[e] \/ (status[e] = "issued" /\ status'[e] = "paid")
               /\ marks' \in [Outgoing -> Nat]
               /\ \A e \in Outgoing : marks'[e] = marks[e] \/ (marks'[e] = marks[e] + 1 /\ status[e] = "issued" /\ status'[e] = "paid")
    <2>1. marks[d] + 1 \in Nat BY DEF Sbis!Shapes
    <2>2. marks' = [marks EXCEPT ![d] = marks[d] + 1] BY <1>2
    <2>3. marks' \in [Outgoing -> Nat] BY <2>1, <2>2
    <2>4. status' \in [Outgoing -> Sbis!Statuses] BY <1>2
    <2>5. \A e \in Outgoing : e # d => status'[e] = status[e] /\ marks'[e] = marks[e] BY <1>2, <2>2
    <2>6. status'[d] = "paid" /\ marks'[d] = marks[d] + 1 BY <1>2, <2>2
    <2>7. \A e \in Outgoing : status'[e] = status[e] \/ (status[e] = "issued" /\ status'[e] = "paid")
      BY <1>2, <2>5, <2>6
    <2>8. \A e \in Outgoing : marks'[e] = marks[e] \/ (marks'[e] = marks[e] + 1 /\ status[e] = "issued" /\ status'[e] = "paid")
      BY <1>2, <2>5, <2>6
    <2> QED BY <2>3, <2>4, <2>7, <2>8
  <1>3. CASE \E p \in Payments : Sbis!Pay(p) BY <1>1, <1>2, <1>3
  <1>4. ASSUME NEW d \in Outgoing, Sbis!Edit(d) \/ Sbis!Remove(d) \/ Sbis!SendByHand(d) \/ Sbis!OwnerSigns(d)
        PROVE  /\ UNCHANGED <<linked, attempts, pc, job, marks>>
               /\ status' = status \/ status' = [status EXCEPT ![d] = "none"]
               /\ \/ UNCHANGED <<saby, disturbed>>
                  \/ saby[d].state = "draft" /\ saby' = [saby EXCEPT ![d].state = "sent"] /\ disturbed' = disturbed \cup {d}
                  \/ saby[d].state = "queued" /\ saby' = [saby EXCEPT ![d].state = "sent"] /\ disturbed' = disturbed
    BY <1>4 DEF Sbis!Edit, Sbis!Remove, Sbis!SendByHand, Sbis!OwnerSigns, Sbis!HasSendStage,
         Sbis!rows
  <1>5. CASE \E d \in Outgoing : Sbis!Edit(d) \/ Sbis!Remove(d) \/ Sbis!SendByHand(d) \/ Sbis!OwnerSigns(d)
    <2>1. PICK d \in Outgoing : Sbis!Edit(d) \/ Sbis!Remove(d) \/ Sbis!SendByHand(d) \/ Sbis!OwnerSigns(d) BY <1>5
    <2>2. status' \in [Outgoing -> Sbis!Statuses] /\ \A e \in Outgoing : status'[e] = status[e] \/ status'[e] = "none"
      BY <1>4, <2>1
    <2>3. marks' \in [Outgoing -> Nat] BY <1>4, <2>1
    <2>4. saby' \in [Outgoing -> Sbis!DocumentKind] /\ disturbed \subseteq disturbed' /\ disturbed' \subseteq Outgoing
          /\ \A e \in Outgoing : \/ saby'[e].state = saby[e].state
                                 \/ saby[e].state = "draft" /\ saby'[e].state = "sent" /\ e \in disturbed'
                                 \/ saby[e].state = "queued" /\ saby'[e].state = "sent"
      <3>1. saby' = [saby EXCEPT ![d].state = "sent"] =>
              saby' \in [Outgoing -> Sbis!DocumentKind] /\ saby'[d].state = "sent" /\ \A e \in Outgoing \ {d} : saby'[e] = saby[e]
        BY DocumentIs
      <3>2. \/ UNCHANGED <<saby, disturbed>>
            \/ saby[d].state = "draft" /\ saby' = [saby EXCEPT ![d].state = "sent"] /\ disturbed' = disturbed \cup {d}
            \/ saby[d].state = "queued" /\ saby' = [saby EXCEPT ![d].state = "sent"] /\ disturbed' = disturbed
        BY <1>4, <2>1
      <3>3. CASE UNCHANGED <<saby, disturbed>> BY <3>3
      <3>4. CASE saby[d].state = "draft" /\ saby' = [saby EXCEPT ![d].state = "sent"] /\ disturbed' = disturbed \cup {d}
        <4>1. saby' \in [Outgoing -> Sbis!DocumentKind] /\ saby'[d].state = "sent" /\ \A e \in Outgoing \ {d} : saby'[e] = saby[e]
          BY <3>1, <3>4
        <4> QED BY <3>4, <4>1
      <3>5. CASE saby[d].state = "queued" /\ saby' = [saby EXCEPT ![d].state = "sent"] /\ disturbed' = disturbed
        <4>1. saby' \in [Outgoing -> Sbis!DocumentKind] /\ saby'[d].state = "sent" /\ \A e \in Outgoing \ {d} : saby'[e] = saby[e]
          BY <3>1, <3>5
        <4> QED BY <3>5, <4>1
      <3> QED BY <3>2, <3>3, <3>4, <3>5
    <2> QED BY <1>4, <2>1, <2>2, <2>3, <2>4
  <1> QED BY <1>3, <1>5

LEMMA NextIs ==
  ASSUME Sbis!Next
  PROVE  \/ \E d \in Outgoing : Sbis!WriteShell(d) \/ Sbis!WriteAttachment(d) \/ Sbis!LinkDraft(d)
         \/ \E h \in Sbis!Handlers, d \in Outgoing : Sbis!BeginResend(h, d) \/ Sbis!BeginRetry(h, d)
         \/ \E h \in Sbis!Handlers : Sbis!ReadDocument(h) \/ Sbis!Prepare(h) \/ Sbis!Execute(h) \/ Sbis!CheckSent(h) \/ Sbis!LoseCall(h)
         \/ \E h \in Sbis!Handlers : Sbis!Finish(h)
         \/ \/ \E p \in Payments : Sbis!Pay(p)
            \/ \E d \in Outgoing : Sbis!Edit(d) \/ Sbis!Remove(d) \/ Sbis!SendByHand(d) \/ Sbis!OwnerSigns(d)
  BY DEF Sbis!Next, Sbis!Handlers

LEMMA ShapesStep ==
  ASSUME Sbis!ExchangeConstants, Sbis!Shapes, Sbis!Marked, Sbis!Next
  PROVE  Sbis!Shapes'
  <1> DEFINE Places == {"issued", "attaching", "linking", "idle", "reading", "preparing",
                        "executing", "checking", "ok", "failing", "done"}
  <1>0. ASSUME NEW label \in Places, NEW p \in Outgoing \cup Sbis!Handlers,
               Sbis!Goto(p, label)
        PROVE  pc' \in [Outgoing \cup Sbis!Handlers -> Places]
    BY <1>0 DEF Sbis!Goto, Sbis!Shapes
  <1>g. ASSUME NEW p \in Outgoing \cup Sbis!Handlers, pc' = [pc EXCEPT ![p] = pc'[p]],
               pc'[p] \in Places
        PROVE  pc' \in [Outgoing \cup Sbis!Handlers -> Places]
    BY <1>g, <1>0 DEF Sbis!Goto
  <1>1. ASSUME NEW d \in Outgoing,
               Sbis!WriteShell(d) \/ Sbis!WriteAttachment(d) \/ Sbis!LinkDraft(d)
        PROVE  Sbis!Shapes'
    <2>1. pc' \in [Outgoing \cup Sbis!Handlers -> Places]
      <3>1. \E label \in {"attaching", "linking", "done"} : Sbis!Goto(d, label)
        BY <1>1 DEF Sbis!WriteShell, Sbis!WriteAttachment, Sbis!LinkDraft
      <3> QED BY <1>0, <3>1
    <2>2. attempts' \in [Outgoing -> Nat]
      <3>1. attempts[d] + 1 \in Nat BY DEF Sbis!Shapes
      <3>2. attempts' = attempts \/ attempts' = [attempts EXCEPT ![d] = attempts[d] + 1] BY <1>1,
           DraftSteps
      <3> QED BY <3>1, <3>2 DEF Sbis!Shapes
    <2>3. saby' \in [Outgoing -> Sbis!DocumentKind] /\ linked' \subseteq Outgoing /\ UNCHANGED <<status, amount, job, manual, pending, marks, disturbed>>
      BY <1>1, DraftSteps
    <2> QED BY <2>1, <2>2, <2>3 DEF Sbis!Shapes
  <1>2. ASSUME NEW h \in Sbis!Handlers, NEW d \in Outgoing,
               Sbis!BeginResend(h, d) \/ Sbis!BeginRetry(h, d)
        PROVE  Sbis!Shapes'
    <2>1. pc' \in [Outgoing \cup Sbis!Handlers -> Places]
      <3>1. \E label \in {"reading", "failing", "ok"} : Sbis!Goto(h, label)
        BY <1>2 DEF Sbis!BeginResend, Sbis!BeginRetry
      <3> QED BY <1>0, <3>1
    <2>2. /\ job' \in [Sbis!Handlers -> Sbis!JobKind] /\ disturbed' \subseteq Outgoing
          /\ UNCHANGED <<status, linked, attempts, saby, marks>>
      BY <1>2, DocumentBeginSteps
    <2> QED BY <2>1, <2>2 DEF Sbis!Shapes
  <1>3. ASSUME NEW h \in Sbis!Handlers,
               Sbis!ReadDocument(h) \/ Sbis!Prepare(h) \/ Sbis!Execute(h) \/ Sbis!CheckSent(h) \/ Sbis!LoseCall(h)
        PROVE  Sbis!Shapes'
    <2>1. pc' \in [Outgoing \cup Sbis!Handlers -> Places] BY <1>3, HandlerSteps DEF Active
    <2>2. /\ job' \in [Sbis!Handlers -> Sbis!JobKind] /\ disturbed' \subseteq Outgoing /\ saby' \in [Outgoing -> Sbis!DocumentKind]
          /\ UNCHANGED <<status, linked, attempts, marks>>
      BY <1>3, HandlerSteps
    <2> QED BY <2>1, <2>2 DEF Sbis!Shapes
  <1>4. ASSUME NEW h \in Sbis!Handlers, Sbis!Finish(h) PROVE Sbis!Shapes'
    <2>1. pc' \in [Outgoing \cup Sbis!Handlers -> Places] BY <1>0, <1>4 DEF Sbis!Finish
    <2>2. attempts' \in [Outgoing -> Nat]
      <3>1. job[h].attempts + 1 \in Nat /\ job[h].doc \in Outgoing BY DEF Sbis!Shapes,
           Sbis!JobKind
      <3>2. attempts' = [attempts EXCEPT ![job[h].doc] = job[h].attempts + 1] BY <1>4, FinishStep
      <3> QED BY <3>1, <3>2 DEF Sbis!Shapes
    <2>3. status' \in [Outgoing -> Sbis!Statuses] /\ UNCHANGED <<linked, saby, job, marks, disturbed>>
      BY <1>4, FinishStep
    <2> QED BY <2>1, <2>2, <2>3 DEF Sbis!Shapes
  <1>5. CASE \/ \E p \in Payments : Sbis!Pay(p)
             \/ \E d \in Outgoing : Sbis!Edit(d) \/ Sbis!Remove(d) \/ Sbis!SendByHand(d) \/ Sbis!OwnerSigns(d)
    <2>1. marks' \in [Outgoing -> {0, 1}]
      <3>1. ASSUME NEW d \in Outgoing PROVE marks'[d] \in {0, 1}
        <4>1. marks[d] \in {0, 1} /\ (marks[d] = 1 => status[d] # "issued") BY DEF Sbis!Shapes, Sbis!Marked
        <4>2. marks'[d] = marks[d] \/ (marks'[d] = marks[d] + 1 /\ status[d] = "issued") BY <1>5,
             OtherSteps
        <4> QED BY <4>1, <4>2
      <3>2. marks' \in [Outgoing -> Nat] BY <1>5, OtherSteps
      <3> QED BY <3>1, <3>2
    <2>2. /\ status' \in [Outgoing -> Sbis!Statuses] /\ saby' \in [Outgoing -> Sbis!DocumentKind] /\ disturbed' \subseteq Outgoing
          /\ UNCHANGED <<linked, attempts, pc, job>>
      BY <1>5, OtherSteps
    <2> QED BY <2>1, <2>2 DEF Sbis!Shapes
  <1> QED BY <1>1, <1>2, <1>3, <1>4, <1>5, NextIs

LEMMA DoneIs ==
  ASSUME Sbis!ExchangeConstants, Sbis!Shapes
  PROVE  /\ IsFiniteSet(Sbis!Done) /\ Cardinality(Sbis!Done) \in Nat
         /\ Cardinality(Sbis!Done) <= Cardinality(Sbis!Handlers) /\ Cardinality(Sbis!Handlers) \in Nat
         /\ \A h \in Sbis!Handlers \ Sbis!Done : Cardinality(Sbis!Done \cup {h}) = Cardinality(Sbis!Done) + 1
  <1>1. IsFiniteSet(Sbis!Handlers) /\ Sbis!Done \subseteq Sbis!Handlers
    BY ExchangeCounts DEF Sbis!ExchangeConstants, Sbis!Handlers, Sbis!Done
  <1>2. IsFiniteSet(Sbis!Done) /\ Cardinality(Sbis!Done) <= Cardinality(Sbis!Handlers) BY <1>1, FS_Subset
  <1>3. Cardinality(Sbis!Done) \in Nat /\ Cardinality(Sbis!Handlers) \in Nat BY <1>1,
       <1>2, FS_CardinalityType
  <1>4. \A h \in Sbis!Handlers \ Sbis!Done : Cardinality(Sbis!Done \cup {h}) = Cardinality(Sbis!Done) + 1
    BY <1>2, FS_AddElement
  <1> QED BY <1>2, <1>3, <1>4

LEMMA CountedStep ==
  ASSUME Sbis!ExchangeConstants, Sbis!Shapes, Sbis!Counted, Sbis!Next
  PROVE  Sbis!Counted'
  <1>t. /\ attempts \in [Outgoing -> Nat] /\ \A h \in Sbis!Handlers : job[h].attempts \in Nat /\ job[h].doc \in Outgoing
        /\ Outgoing \cap Sbis!Handlers = {}
    BY DEF Sbis!Shapes, Sbis!JobKind, Sbis!ExchangeConstants, Sbis!Handlers
  <1> DEFINE C == Cardinality(Sbis!Done)
  <1>c. /\ C \in Nat
        /\ \A d \in Outgoing : attempts[d] <= Sbis!Drafted(d) + C
        /\ \A h \in Sbis!Handlers : job[h].attempts <= Sbis!Drafted(job[h].doc) + C
        /\ \A d \in Outgoing : Sbis!Drafted(d) \in {0, 1}
    BY ExchangeCounts, DoneIs DEF Sbis!Counted, Sbis!Drafted
  <1>1. ASSUME NEW d \in Outgoing,
               Sbis!WriteShell(d) \/ Sbis!WriteAttachment(d) \/ Sbis!LinkDraft(d)
        PROVE  Sbis!Counted'
    <2>1. Sbis!Done' = Sbis!Done BY <1>1, DraftSteps DEF Sbis!Done
    <2>2. pc[d] # "done" /\ \A e \in Outgoing : e # d => pc'[e] = pc[e] BY <1>1, DraftSteps
    <2>3. ASSUME NEW e \in Outgoing PROVE attempts'[e] <= Sbis!Drafted(e)' + C
      <3>1. CASE UNCHANGED attempts BY <1>c, <1>t, <2>2, <3>1 DEF Sbis!Drafted
      <3>2. CASE attempts' = [attempts EXCEPT ![d] = @ + 1] /\ pc'[d] = "done"
        <4>1. CASE e = d
          <5>1. attempts'[e] = attempts[e] + 1 BY <1>t, <3>2, <4>1
          <5> QED BY <1>c, <1>t, <2>2, <3>2, <4>1, <5>1 DEF Sbis!Drafted
        <4>2. CASE e # d BY <1>c, <1>t, <2>2, <3>2, <4>2 DEF Sbis!Drafted
        <4> QED BY <4>1, <4>2
      <3> QED BY <1>1, <3>1, <3>2, DraftSteps
    <2>5. \A e \in Outgoing : Sbis!Drafted(e) <= Sbis!Drafted(e)' BY <2>2
         DEF Sbis!Drafted
    <2>6. \A e \in Outgoing : Sbis!Drafted(e)' \in {0, 1} BY DEF Sbis!Drafted
    <2>4. \A h \in Sbis!Handlers : job'[h].attempts <= Sbis!Drafted(job[h].doc)' + C
      <3>1. ASSUME NEW h \in Sbis!Handlers, NEW e \in Outgoing, e = job[h].doc
            PROVE  job[h].attempts <= Sbis!Drafted(e)' + C
        BY <1>c, <1>t, <2>5, <2>6, <3>1
      <3>2. UNCHANGED job BY <1>1, DraftSteps
      <3> QED BY <1>t, <3>1, <3>2
    <2> QED BY ExchangeCounts, <2>1, <2>3, <2>4 DEF Sbis!Counted
  <1>2. ASSUME NEW h \in Sbis!Handlers, NEW d \in Outgoing,
               Sbis!BeginResend(h, d) \/ Sbis!BeginRetry(h, d)
        PROVE  Sbis!Counted'
    <2>1. /\ \A q \in Outgoing \cup Sbis!Handlers : q # h => pc'[q] = pc[q]
          /\ pc[h] # "done" /\ pc'[h] # "done"
          /\ job'[h].attempts = attempts[d] /\ \A g \in Sbis!Handlers : g # h => job'[g] = job[g]
          /\ UNCHANGED attempts
      BY <1>2, DocumentBeginSteps
    <2>2. Sbis!Done' = Sbis!Done BY <2>1 DEF Sbis!Done
    <2>5. \A e \in Outgoing : Sbis!Drafted(e)' = Sbis!Drafted(e) BY <1>t,
         <2>1 DEF Sbis!Drafted
    <2>3. \A e \in Outgoing : attempts'[e] <= Sbis!Drafted(e)' + C BY <1>c, <2>1, <2>5
    <2>6. \A g \in Sbis!Handlers : Sbis!Drafted(job[g].doc)' = IF pc'[job'[g].doc] = "done" THEN 1 ELSE 0
      BY DEF Sbis!Drafted
    <2>4. \A g \in Sbis!Handlers : job'[g].attempts <= Sbis!Drafted(job[g].doc)' + C
      BY <1>c, <1>t, <2>1, <2>5, <2>6, <1>2, DocumentBeginSteps DEF Sbis!Drafted
    <2> QED BY ExchangeCounts, <2>2, <2>3, <2>4 DEF Sbis!Counted
  <1>3. ASSUME NEW h \in Sbis!Handlers,
               Sbis!ReadDocument(h) \/ Sbis!Prepare(h) \/ Sbis!Execute(h) \/ Sbis!CheckSent(h) \/ Sbis!LoseCall(h)
        PROVE  Sbis!Counted'
    <2>1. /\ \A q \in Outgoing \cup Sbis!Handlers : q # h => pc'[q] = pc[q]
          /\ pc[h] # "done" /\ pc'[h] # "done"
          /\ \A g \in Sbis!Handlers : job'[g].attempts = job[g].attempts
          /\ UNCHANGED attempts
      BY <1>3, HandlerSteps DEF Active
    <2>2. Sbis!Done' = Sbis!Done BY <2>1 DEF Sbis!Done
    <2>5. \A e \in Outgoing : Sbis!Drafted(e)' = Sbis!Drafted(e) BY <1>t,
         <2>1 DEF Sbis!Drafted
    <2>3. \A e \in Outgoing : attempts'[e] <= Sbis!Drafted(e)' + C BY <1>c, <2>1, <2>5
    <2>6. \A g \in Sbis!Handlers : Sbis!Drafted(job[g].doc)' = IF pc'[job'[g].doc] = "done" THEN 1 ELSE 0
      BY DEF Sbis!Drafted
    <2>4. \A g \in Sbis!Handlers : job'[g].attempts <= Sbis!Drafted(job[g].doc)' + C
      BY <1>c, <1>t, <2>1, <2>5, <2>6, <1>3, HandlerSteps DEF Sbis!Drafted
    <2> QED BY ExchangeCounts, <2>2, <2>3, <2>4 DEF Sbis!Counted
  <1>4. ASSUME NEW h \in Sbis!Handlers, Sbis!Finish(h) PROVE Sbis!Counted'
    <2>1. /\ pc[h] # "done" /\ pc'[h] = "done" /\ \A q \in Outgoing \cup Sbis!Handlers : q # h => pc'[q] = pc[q]
          /\ attempts' = [attempts EXCEPT ![job[h].doc] = job[h].attempts + 1] /\ UNCHANGED job
      BY <1>4, FinishStep
    <2>2. Sbis!Done' = Sbis!Done \cup {h} BY <2>1 DEF Sbis!Done
    <2>3. Cardinality(Sbis!Done') = C + 1 BY <2>1, <2>2, DoneIs DEF Sbis!Done
    <2>6. \A e \in Outgoing : Sbis!Drafted(e)' = Sbis!Drafted(e) /\ Sbis!Drafted(e) \in {0, 1}
      BY <1>t, <2>1 DEF Sbis!Drafted
    <2>7. \A g \in Sbis!Handlers : job'[g] = job[g] /\ Sbis!Drafted(job[g].doc)' = Sbis!Drafted(job[g].doc)
      BY <1>t, <2>1 DEF Sbis!Drafted
    <2>4. ASSUME NEW e \in Outgoing PROVE attempts'[e] <= Sbis!Drafted(e)' + (C + 1)
      <3>1. attempts'[e] = attempts[e] \/ (attempts'[e] = job[h].attempts + 1 /\ e = job[h].doc) BY <1>t, <2>1
      <3>2. Sbis!Drafted(e)' = Sbis!Drafted(e) /\ Sbis!Drafted(e) \in {0, 1} BY <2>6
      <3>3. attempts[e] \in Nat /\ job[h].attempts \in Nat BY <1>t
      <3>4. CASE attempts'[e] = attempts[e] BY <1>c, <3>2, <3>3, <3>4
      <3>5. CASE attempts'[e] = job[h].attempts + 1 /\ e = job[h].doc
        <4> QED BY <1>c, <3>2, <3>3, <3>5
      <3> QED BY <3>1, <3>4, <3>5
    <2>5. \A g \in Sbis!Handlers : job'[g].attempts <= Sbis!Drafted(job[g].doc)' + (C + 1) BY <1>c, <1>t, <2>6, <2>7
    <2> QED BY ExchangeCounts, <2>3, <2>4, <2>5 DEF Sbis!Counted
  <1>5. CASE \/ \E p \in Payments : Sbis!Pay(p)
             \/ \E d \in Outgoing : Sbis!Edit(d) \/ Sbis!Remove(d) \/ Sbis!SendByHand(d) \/ Sbis!OwnerSigns(d)
    <2>1. UNCHANGED <<attempts, pc, job>> BY <1>5, OtherSteps
    <2> QED BY <2>1 DEF Sbis!Counted, Sbis!Done, Sbis!Drafted
  <1> QED BY <1>1, <1>2, <1>3, <1>4, <1>5, NextIs

LEMMA MarkedStep ==
  ASSUME Sbis!ExchangeConstants, Sbis!Shapes, Sbis!Marked, Sbis!Next
  PROVE  Sbis!Marked'
  <1>1. ASSUME NEW h \in Sbis!Handlers, Sbis!Finish(h) PROVE Sbis!Marked'
    <2>1. \A d \in Outgoing : status'[d] = status[d] \/ status'[d] \in {"sent_to_sbis", "failed"}
      BY <1>1, FinishStep
    <2> QED BY <1>1, <2>1, FinishStep DEF Sbis!Marked
  <1>2. ASSUME \/ \E p \in Payments : Sbis!Pay(p)
               \/ \E d \in Outgoing : Sbis!Edit(d) \/ Sbis!Remove(d) \/ Sbis!SendByHand(d) \/ Sbis!OwnerSigns(d)
        PROVE  Sbis!Marked'
    <2>1. ASSUME NEW d \in Outgoing PROVE marks'[d] = 1 => status'[d] # "issued"
      <3>1. status'[d] = status[d] \/ status'[d] \in {"none", "paid"} BY <1>2, OtherSteps
      <3>2. marks'[d] = marks[d] \/ status'[d] = "paid" BY <1>2, OtherSteps
      <3> QED BY <3>1, <3>2 DEF Sbis!Marked
    <2> QED BY <2>1 DEF Sbis!Marked
  <1>3. ASSUME UNCHANGED <<status, marks>> PROVE Sbis!Marked' BY <1>3 DEF Sbis!Marked
  <1> QED BY <1>1, <1>2, <1>3, NextIs, DraftSteps, DocumentBeginSteps, HandlerSteps

\* Who is at work on a document after a step of one handler.
LEMMA OnIs ==
  ASSUME Sbis!Shapes, NEW h \in Sbis!Handlers,
         \A q \in Sbis!Handlers : q # h => pc'[q] = pc[q] /\ job'[q].doc = job[q].doc
  PROVE  \A d \in Outgoing :
            /\ Sbis!On(d)' = (Sbis!On(d) \ {h}) \cup (IF pc'[h] \notin {"idle", "done"} /\ job'[h].doc = d THEN {h} ELSE {})
            /\ pc[h] \in Active => (h \in Sbis!On(d) <=> job[h].doc = d)
  BY DEF Sbis!On, Sbis!Idle, Active

LEMMA SureStep ==
  ASSUME Sbis!ExchangeConstants, AutoSend, Sbis!Shapes, Sbis!Sure, Sbis!Next
  PROVE  Sbis!Sure'
  <1>t. /\ \A h \in Sbis!Handlers : job[h].doc \in Outgoing
        /\ Outgoing \cap Sbis!Handlers = {}
    BY DEF Sbis!Shapes, Sbis!JobKind, Sbis!ExchangeConstants, Sbis!Handlers
  <1>1. ASSUME NEW d \in Outgoing,
               Sbis!WriteShell(d) \/ Sbis!WriteAttachment(d) \/ Sbis!LinkDraft(d)
        PROVE  Sbis!Sure'
    <2>1. /\ pc'[d] \in {"attaching", "linking", "done"}
          /\ \A q \in Outgoing \cup Sbis!Handlers : q # d => pc'[q] = pc[q]
          /\ \A h \in Sbis!Handlers : pc'[h] = pc[h]
          /\ UNCHANGED <<status, job>>
          /\ \A e \in Outgoing : saby'[e].state = saby[e].state \/ (e = d /\ pc[e] = "issued")
      BY <1>1, DraftSteps
    <2>2. \A e \in Outgoing : saby[e].state \in Sbis!Past => saby'[e].state \in Sbis!Past BY <2>1
         DEF Sbis!Sure, Sbis!Past
    <2>3. \A e \in Outgoing : Sbis!On(e)' = Sbis!On(e) BY <2>1 DEF Sbis!On,
         Sbis!Idle
    <2>4. linked' \subseteq linked \cup {d} BY <1>1 DEF Sbis!WriteShell,
         Sbis!WriteAttachment, Sbis!LinkDraft
    <2>5. \A e \in Outgoing : pc'[e] = "issued" =>
             saby'[e].state = "absent" /\ e \notin linked' /\ status'[e] # "failed" /\ Sbis!On(e)' = {}
      BY <2>1, <2>3, <2>4 DEF Sbis!Sure, Sbis!PastSendStage
    <2> QED BY <1>t, <2>1, <2>2, <2>5 DEF Sbis!Sure, Sbis!PastSendStage
  <1>2. ASSUME NEW h \in Sbis!Handlers, NEW d \in Outgoing,
               Sbis!BeginResend(h, d) \/ Sbis!BeginRetry(h, d)
        PROVE  Sbis!Sure'
    <2>1. /\ pc'[h] # "ok" /\ \A q \in Outgoing \cup Sbis!Handlers : q # h => pc'[q] = pc[q]
          /\ \A g \in Sbis!Handlers : g # h => job'[g] = job[g]
          /\ job'[h].doc = d
          /\ UNCHANGED <<status, saby, linked>>
      BY <1>2, DocumentBeginSteps
    <2>2. d \in linked \/ status[d] = "failed" BY <1>2 DEF Sbis!BeginResend, Sbis!BeginRetry
    <2>3. \A e \in Outgoing : e # d => Sbis!On(e)' \subseteq Sbis!On(e) BY <2>1, OnIs
    <2>4. \A e \in Outgoing : pc'[e] = "issued" =>
             saby'[e].state = "absent" /\ e \notin linked' /\ status'[e] # "failed" /\ Sbis!On(e)' = {}
      BY <1>t, <2>1, <2>2, <2>3 DEF Sbis!Sure, Sbis!PastSendStage
    <2> QED BY <1>t, <2>1, <2>4 DEF Sbis!Sure, Sbis!PastSendStage
  <1>3. ASSUME NEW h \in Sbis!Handlers,
               Sbis!ReadDocument(h) \/ Sbis!Prepare(h) \/ Sbis!Execute(h) \/ Sbis!CheckSent(h) \/ Sbis!LoseCall(h)
        PROVE  Sbis!Sure'
    <2>1. /\ pc[h] \in Active /\ \A q \in Outgoing \cup Sbis!Handlers : q # h => pc'[q] = pc[q]
          /\ \A g \in Sbis!Handlers : job'[g].doc = job[g].doc
          /\ \A d \in Outgoing : saby'[d].state \in {saby[d].state} \cup Sbis!Past
          /\ UNCHANGED <<status, linked>>
      BY <1>3, HandlerSteps
    <2>2. \A e \in Outgoing : e # job[h].doc => saby'[e].state = saby[e].state
      <3>1. \/ UNCHANGED saby
            \/ Sbis!HandOver(job[h].doc)
            \/ \E x \in 0 .. 2 : saby' = [saby EXCEPT ![job[h].doc].prepares = x]
        <4>1. saby[job[h].doc].prepares \in 0 .. 2 BY <1>t DEF Sbis!Shapes,
             Sbis!DocumentKind
        <4>2. (IF saby[job[h].doc].prepares < 2 THEN saby[job[h].doc].prepares + 1 ELSE saby[job[h].doc].prepares) \in 0 .. 2
          BY <4>1
        <4> QED BY <1>3, <4>2 DEF Sbis!ReadDocument, Sbis!Prepare, Sbis!Execute,
             Sbis!CheckSent, Sbis!LoseCall
      <3>2. CASE Sbis!HandOver(job[h].doc) BY <1>t, <3>2, HandOverIs
      <3>3. CASE \E x \in 0 .. 2 : saby' = [saby EXCEPT ![job[h].doc].prepares = x] BY <1>t, <3>3, DocumentIs
      <3> QED BY <3>1, <3>2, <3>3
    <2>3. \A e \in Outgoing : Sbis!On(e)' \subseteq Sbis!On(e) BY <2>1, OnIs DEF Active
    <2>4. h \in Sbis!On(job[h].doc) BY <1>t, <2>1 DEF Sbis!On, Sbis!Idle, Active
    <2>5. \A e \in Outgoing : pc'[e] = "issued" =>
             saby'[e].state = "absent" /\ e \notin linked' /\ status'[e] # "failed" /\ Sbis!On(e)' = {}
      BY <1>t, <2>1, <2>2, <2>3, <2>4 DEF Sbis!Sure, Sbis!PastSendStage
    <2>6. pc'[h] = "ok" => saby'[job[h].doc].state \in Sbis!Past
      <3>1. CASE Sbis!ReadDocument(h) \/ Sbis!CheckSent(h)
        <4>1. UNCHANGED saby BY <3>1 DEF Sbis!ReadDocument, Sbis!CheckSent
        <4>2. ~Sbis!PastSendStage(job[h].doc) => \E x \in {"preparing", "executing", "failing"} : Sbis!Goto(h, x)
          BY <3>1 DEF Sbis!ReadDocument, Sbis!CheckSent
        <4> QED BY <1>t, <4>1, <4>2, DocumentGotoIs DEF Sbis!PastSendStage
      <3>2. CASE Sbis!Prepare(h) \/ Sbis!LoseCall(h)
        <4>1. \E x \in {"executing", "failing"} : Sbis!Goto(h, x) BY <3>2
             DEF Sbis!Prepare, Sbis!LoseCall
        <4> QED BY <4>1, DocumentGotoIs
      <3>3. CASE Sbis!Execute(h)
        <4>1. CASE Sbis!HandOver(job[h].doc) BY <1>t, <4>1, HandOverIs
        <4>2. CASE (\E x \in {"preparing", "failing", "checking"} : Sbis!Goto(h, x)) \/ UNCHANGED pc
          <5>1. pc[h] = "executing" BY <3>3 DEF Sbis!Execute
          <5> QED BY <4>2, <5>1, DocumentGotoIs
        <4> QED BY <3>3, <4>1, <4>2 DEF Sbis!Execute
      <3> QED BY <1>3, <3>1, <3>2, <3>3
    <2> QED BY <1>t, <2>1, <2>5, <2>6 DEF Sbis!Sure, Sbis!PastSendStage
  <1>4. ASSUME NEW h \in Sbis!Handlers, Sbis!Finish(h) PROVE Sbis!Sure'
    <2>1. /\ pc[h] \in Active /\ pc'[h] = "done" /\ \A q \in Outgoing \cup Sbis!Handlers : q # h => pc'[q] = pc[q]
          /\ UNCHANGED <<saby, job, linked>>
          /\ \A d \in Outgoing : d # job[h].doc => status'[d] = status[d]
          /\ status'[job[h].doc] \in {status[job[h].doc], IF pc[h] = "ok" THEN "sent_to_sbis" ELSE "failed"}
      BY <1>4, FinishStep DEF Active
    <2>2. \A d \in Outgoing : status'[d] = "sent_to_sbis" => status[d] = "sent_to_sbis" \/ (d = job[h].doc /\ pc[h] = "ok")
      BY <2>1
    <2>3. \A e \in Outgoing : Sbis!On(e)' \subseteq Sbis!On(e) BY <2>1, OnIs
    <2>4. h \in Sbis!On(job[h].doc) BY <1>t, <2>1 DEF Sbis!On, Sbis!Idle, Active
    <2>5. \A e \in Outgoing : pc'[e] = "issued" =>
             saby'[e].state = "absent" /\ e \notin linked' /\ status'[e] # "failed" /\ Sbis!On(e)' = {}
      BY <1>t, <2>1, <2>3, <2>4 DEF Sbis!Sure, Sbis!PastSendStage
    <2> QED BY <1>t, <2>1, <2>2, <2>5 DEF Sbis!Sure, Sbis!PastSendStage
  <1>5. CASE \/ \E p \in Payments : Sbis!Pay(p)
             \/ \E d \in Outgoing : Sbis!Edit(d) \/ Sbis!Remove(d) \/ Sbis!SendByHand(d) \/ Sbis!OwnerSigns(d)
    <2>1. /\ UNCHANGED <<pc, job, linked>>
          /\ \A d \in Outgoing : status'[d] = status[d] \/ status'[d] \in {"none", "paid"}
          /\ \A d \in Outgoing : saby'[d].state = saby[d].state \/ (saby[d].state # "absent" /\ saby'[d].state \in Sbis!Past)
      BY <1>5, OtherSteps DEF Sbis!Past
    <2>2. \A e \in Outgoing : Sbis!On(e)' = Sbis!On(e) BY <2>1 DEF Sbis!On,
         Sbis!Idle
    <2> QED BY <1>t, <2>1, <2>2 DEF Sbis!Sure, Sbis!PastSendStage
  <1> QED BY <1>1, <1>2, <1>3, <1>4, <1>5, NextIs

LEMMA OneHandlerStep ==
  ASSUME Sbis!ExchangeConstants, AutoSend, Sbis!Shapes, Sbis!Sure,
         Sbis!OneHandler, Sbis!Next
  PROVE  Sbis!OneHandler'
  <1>t. /\ \A h \in Sbis!Handlers : job[h].doc \in Outgoing
        /\ Outgoing \cap Sbis!Handlers = {}
    BY DEF Sbis!Shapes, Sbis!JobKind, Sbis!ExchangeConstants, Sbis!Handlers
  <1> DEFINE Trying == {"preparing", "executing", "checking", "failing"}
             Quiet(d) == /\ \A h, g \in Sbis!On(d) : h = g
                         /\ \A h \in Sbis!On(d) : /\ status[d] \in {job[h].status, "none", "paid"}
                                                  /\ pc[h] \in Trying => saby[d].state \notin Sbis!Past
                         /\ status[d] = "failed" /\ Sbis!On(d) = {} => saby[d].state \notin Sbis!Past
  <1>q. Sbis!OneHandler <=> \A d \in Outgoing \ disturbed : Quiet(d) BY DEF Sbis!OneHandler, Sbis!PastSendStage
  <1>p. Sbis!OneHandler' <=> \A d \in Outgoing \ disturbed' : Quiet(d)' BY DEF Sbis!OneHandler, Sbis!PastSendStage
  <1>1. ASSUME NEW d \in Outgoing,
               Sbis!WriteShell(d) \/ Sbis!WriteAttachment(d) \/ Sbis!LinkDraft(d)
        PROVE  Sbis!OneHandler'
    <2>1. /\ \A h \in Sbis!Handlers : pc'[h] = pc[h]
          /\ UNCHANGED <<status, job, disturbed>>
          /\ \A e \in Outgoing : saby'[e].state = saby[e].state \/ saby'[e].state \notin Sbis!Past
      BY <1>1, DraftSteps DEF Sbis!Past
    <2>2. \A e \in Outgoing : Sbis!On(e)' = Sbis!On(e) /\ Sbis!On(e) \subseteq Sbis!Handlers
      BY <2>1 DEF Sbis!On, Sbis!Idle
    <2> QED BY <1>p, <1>q, <2>1, <2>2
  <1>2. ASSUME NEW h \in Sbis!Handlers, NEW d \in Outgoing,
               Sbis!BeginResend(h, d) \/ Sbis!BeginRetry(h, d)
        PROVE  Sbis!OneHandler'
    <2>1. /\ pc[h] = "idle" /\ pc'[h] \in {"reading", "failing"} /\ \A q \in Outgoing \cup Sbis!Handlers : q # h => pc'[q] = pc[q]
          /\ \A g \in Sbis!Handlers : g # h => job'[g] = job[g]
          /\ job'[h].doc = d /\ job'[h].status = status[d]
          /\ pc'[h] = "failing" => status[d] = "failed" /\ disturbed' = (IF Sbis!On(d) = {} THEN disturbed ELSE disturbed \cup {d})
          /\ pc'[h] = "reading" => disturbed' = IF Sbis!On(d) = {} THEN disturbed \ {d} ELSE disturbed \cup {d}
          /\ UNCHANGED <<status, saby>>
      BY <1>2, DocumentBeginSteps
    <2>2. h \notin Sbis!On(d) /\ \A e \in Outgoing : Sbis!On(e) \subseteq Sbis!Handlers /\ h \notin Sbis!On(e)
      BY <2>1 DEF Sbis!On, Sbis!Idle
    <2>3. Sbis!On(d)' = Sbis!On(d) \cup {h} /\ \A e \in Outgoing : e # d => Sbis!On(e)' = Sbis!On(e)
      <3>1. \A e \in Outgoing : Sbis!On(e)' = (Sbis!On(e) \ {h}) \cup (IF pc'[h] \notin {"idle", "done"} /\ job'[h].doc = e THEN {h} ELSE {})
        BY <2>1, OnIs
      <3> QED BY <2>1, <2>2, <3>1
    <2>4. ASSUME NEW e \in Outgoing \ disturbed', e # d PROVE Quiet(e)'
      <3>1. e \notin disturbed BY <2>1, <2>4
      <3> QED BY <1>q, <2>1, <2>2, <2>3, <2>4, <3>1
    <2>5. ASSUME d \notin disturbed' PROVE Quiet(d)'
      <3>1. Sbis!On(d) = {} /\ Sbis!On(d)' = {h} BY <2>1, <2>3, <2>5
      <3>2. pc'[h] = "failing" => saby[d].state \notin Sbis!Past BY <1>q, <2>1, <2>5, <3>1
      <3> QED BY <2>1, <3>1, <3>2
    <2> QED BY <1>p, <2>4, <2>5
  <1>3. ASSUME NEW h \in Sbis!Handlers,
               Sbis!ReadDocument(h) \/ Sbis!Prepare(h) \/ Sbis!Execute(h) \/ Sbis!CheckSent(h) \/ Sbis!LoseCall(h)
        PROVE  Sbis!OneHandler'
    <2>1. /\ pc[h] \in Active /\ pc'[h] \in Active /\ \A q \in Outgoing \cup Sbis!Handlers : q # h => pc'[q] = pc[q]
          /\ \A g \in Sbis!Handlers : job'[g].doc = job[g].doc /\ job'[g].status = job[g].status
          /\ disturbed \subseteq disturbed'
          /\ UNCHANGED status
      BY <1>3, HandlerSteps
    <2>2. \A e \in Outgoing : Sbis!On(e)' = Sbis!On(e) /\ Sbis!On(e) \subseteq Sbis!Handlers /\ (h \in Sbis!On(e) <=> job[h].doc = e)
      BY <2>1, OnIs DEF Active, Sbis!On
    <2>3. \A e \in Outgoing : e # job[h].doc => saby'[e].state = saby[e].state
      <3>1. \/ UNCHANGED saby
            \/ Sbis!HandOver(job[h].doc)
            \/ \E x \in 0 .. 2 : saby' = [saby EXCEPT ![job[h].doc].prepares = x]
        <4>1. saby[job[h].doc].prepares \in 0 .. 2 BY <1>t DEF Sbis!Shapes,
             Sbis!DocumentKind
        <4>2. (IF saby[job[h].doc].prepares < 2 THEN saby[job[h].doc].prepares + 1 ELSE saby[job[h].doc].prepares) \in 0 .. 2
          BY <4>1
        <4> QED BY <1>3, <4>2 DEF Sbis!ReadDocument, Sbis!Prepare, Sbis!Execute,
             Sbis!CheckSent, Sbis!LoseCall
      <3>2. CASE Sbis!HandOver(job[h].doc) BY <1>t, <3>2, HandOverIs
      <3>3. CASE \E x \in 0 .. 2 : saby' = [saby EXCEPT ![job[h].doc].prepares = x] BY <1>t, <3>3, DocumentIs
      <3> QED BY <3>1, <3>2, <3>3
    <2>4. ASSUME NEW e \in Outgoing \ disturbed', e # job[h].doc PROVE Quiet(e)' BY <1>q, <2>1, <2>2, <2>3, <2>4
    <2>5. ASSUME NEW d \in Outgoing \ disturbed', d = job[h].doc PROVE Quiet(d)'
      <3>1. d \in Outgoing \ disturbed /\ ~Sbis!LoseCall(h) BY <1>t, <2>1,
           <2>5 DEF Sbis!LoseCall
      <3>2. Sbis!On(d)' = {h} /\ Sbis!On(d) = {h} /\ job'[h].doc = d BY <1>q, <2>1, <2>2,
           <2>5, <3>1
      <3>3. status[d] \in {job[h].status, "none", "paid"} /\ (pc[h] \in Trying => saby[d].state \notin Sbis!Past)
        BY <1>q, <3>1, <3>2
      <3>4. pc'[h] \in Trying => saby'[d].state \notin Sbis!Past
        <4>1. CASE Sbis!ReadDocument(h)
          <5>1. UNCHANGED saby BY <4>1 DEF Sbis!ReadDocument
          <5>2. Sbis!PastSendStage(d) => Sbis!Goto(h, "ok") BY <2>5,
               <4>1 DEF Sbis!ReadDocument
          <5> QED BY <5>1, <5>2, DocumentGotoIs DEF Sbis!PastSendStage
        <4>2. CASE Sbis!Prepare(h)
          <5>1. pc[h] = "preparing" BY <4>2 DEF Sbis!Prepare
          <5>2. saby[d].state \notin Sbis!Past BY <3>3, <5>1
          <5>3. saby' = [saby EXCEPT ![d].prepares = IF @ < 2 THEN @ + 1 ELSE @] BY <2>5, <4>2,
               <5>2 DEF Sbis!Prepare, Sbis!PastSendStage
          <5>4. saby'[d].state = saby[d].state
            <6>1. saby[d] \in Sbis!DocumentKind /\ saby \in [Outgoing -> Sbis!DocumentKind] BY <1>t DEF Sbis!Shapes
            <6>2. saby'[d] = [saby[d] EXCEPT !.prepares = IF @ < 2 THEN @ + 1 ELSE @] BY <5>3,
                 <6>1, <1>t
            <6> QED BY <6>1, <6>2 DEF Sbis!DocumentKind
          <5> QED BY <5>2, <5>4
        <4>3. CASE Sbis!Execute(h)
          <5>1. saby[d].state \notin Sbis!Past BY <3>3, <4>3 DEF Sbis!Execute
          <5>2. CASE UNCHANGED saby BY <5>1, <5>2
          <5>3. CASE Sbis!Goto(h, "ok") BY <5>3, DocumentGotoIs
          <5> QED BY <4>3, <5>2, <5>3 DEF Sbis!Execute
        <4>4. CASE Sbis!CheckSent(h)
          <5>1. UNCHANGED saby /\ pc[h] = "checking" BY <4>4 DEF Sbis!CheckSent
          <5> QED BY <3>3, <5>1
        <4> QED BY <1>3, <3>1, <4>1, <4>2, <4>3, <4>4
      <3> QED BY <2>1, <3>2, <3>3, <3>4
    <2> QED BY <1>p, <1>t, <2>4, <2>5
  <1>4. ASSUME NEW h \in Sbis!Handlers, Sbis!Finish(h) PROVE Sbis!OneHandler'
    <2>0. PICK d \in Outgoing : d = job[h].doc BY <1>t
    <2>1. /\ pc[h] \in {"ok", "failing"} /\ pc'[h] = "done" /\ \A q \in Outgoing \cup Sbis!Handlers : q # h => pc'[q] = pc[q]
          /\ \A e \in Outgoing : e # d => status'[e] = status[e]
          /\ status'[d] = LET outcome == IF pc[h] = "ok" THEN "sent_to_sbis" ELSE "failed"
                          IN IF status[d] = "none" \/ outcome = job[h].status THEN status[d] ELSE outcome
          /\ UNCHANGED <<saby, job, disturbed>>
      BY <1>4, <2>0, FinishStep
    <2>2. \A e \in Outgoing : Sbis!On(e)' = Sbis!On(e) \ {h} /\ Sbis!On(e) \subseteq Sbis!Handlers /\ (h \in Sbis!On(e) <=> e = d)
      BY <2>0, <2>1, OnIs DEF Active, Sbis!On
    <2>3. ASSUME NEW e \in Outgoing \ disturbed', e # d PROVE Quiet(e)' BY <1>q, <2>1, <2>2, <2>3
    <2>4. ASSUME d \notin disturbed' PROVE Quiet(d)'
      <3>1. Sbis!On(d)' = {} BY <1>q, <2>0, <2>1, <2>2, <2>4
      <3>2. status[d] \in {job[h].status, "none", "paid"} /\ (pc[h] = "failing" => saby[d].state \notin Sbis!Past)
        BY <1>q, <2>0, <2>1, <2>2, <2>4
      <3>3. status'[d] = "failed" => saby[d].state \notin Sbis!Past BY <2>1, <3>2
      <3> QED BY <2>1, <3>1, <3>3
    <2> QED BY <1>p, <2>3, <2>4
  <1>5. CASE \/ \E p \in Payments : Sbis!Pay(p)
             \/ \E d \in Outgoing : Sbis!Edit(d) \/ Sbis!Remove(d) \/ Sbis!SendByHand(d) \/ Sbis!OwnerSigns(d)
    <2>1. /\ UNCHANGED <<pc, job>>
          /\ disturbed \subseteq disturbed'
          /\ \A d \in Outgoing : status'[d] = status[d] \/ status'[d] \in {"none", "paid"}
          /\ \A d \in Outgoing : (saby'[d].state \in Sbis!Past <=> saby[d].state \in Sbis!Past) \/ d \in disturbed'
      BY <1>5, OtherSteps DEF Sbis!Past
    <2>2. \A e \in Outgoing : Sbis!On(e)' = Sbis!On(e) /\ Sbis!On(e) \subseteq Sbis!Handlers
      BY <2>1 DEF Sbis!On, Sbis!Idle
    <2> QED BY <1>p, <1>q, <2>1, <2>2
  <1> QED BY <1>1, <1>2, <1>3, <1>4, <1>5, NextIs

LEMMA ExchangeInit ==
  ASSUME Sbis!ExchangeConstants, Sbis!Init
  PROVE  Sbis!IInv
  <1>1. /\ \A h \in Sbis!Handlers : pc[h] \in {"done", "idle"} /\ job[h].attempts = 0
        /\ \A d \in Outgoing : pc[d] \in {"done", "issued"}
        /\ pc \in [Outgoing \cup Sbis!Handlers -> {"done", "idle", "issued"}]
    BY DEF Sbis!Init, Sbis!ExchangeConstants, Sbis!Handlers
  <1>2. Sbis!Absent \in Sbis!DocumentKind BY DEF Sbis!Absent, Sbis!DocumentKind
  <1>3. job \in [Sbis!Handlers -> Sbis!JobKind]
    <2>1. PICK first \in Outgoing : first = CHOOSE d \in Outgoing : TRUE BY DEF Sbis!ExchangeConstants
    <2>2. job \in [Sbis!Handlers -> [doc : {first}, status : {"issued"}, attempts : {0}, prepared : {FALSE}, deferred : {FALSE}]]
      BY <2>1 DEF Sbis!Init
    <2>3. [doc : {first}, status : {"issued"}, attempts : {0}, prepared : {FALSE}, deferred : {FALSE}] \subseteq Sbis!JobKind
      <3>1. ASSUME NEW r \in [doc : {first}, status : {"issued"}, attempts : {0}, prepared : {FALSE}, deferred : {FALSE}]
            PROVE  r \in Sbis!JobKind
        <4>1. r = [doc |-> first, status |-> "issued", attempts |-> 0, prepared |-> FALSE, deferred |-> FALSE]
          OBVIOUS
        <4>2. "issued" \in Sbis!Statuses /\ 0 \in Nat BY DEF Sbis!Statuses
        <4>3. [doc |-> first, status |-> "issued", attempts |-> 0, prepared |-> FALSE, deferred |-> FALSE] \in Sbis!JobKind
          BY <4>2 DEF Sbis!JobKind
        <4> QED BY <4>1, <4>3
      <3> QED BY <3>1
    <2> QED BY <2>2, <2>3
  <1>4. Sbis!Shapes
    <2>1. saby \in [Outgoing -> Sbis!DocumentKind] BY <1>2 DEF Sbis!Init
    <2>2. status \in [Outgoing -> Sbis!Statuses] /\ attempts \in [Outgoing -> Nat] /\ marks \in [Outgoing -> {0, 1}]
      BY DEF Sbis!Init, Sbis!Statuses
    <2> QED BY <1>1, <1>3, <2>1, <2>2 DEF Sbis!Shapes, Sbis!Init
  <1>5. Sbis!Counted
    <2>1. Cardinality(Sbis!Done) \in Nat BY <1>4, DoneIs
    <2> QED BY ExchangeCounts, <1>1, <2>1 DEF Sbis!Counted, Sbis!Drafted, Sbis!Init
  <1>6. \A d \in Outgoing : Sbis!On(d) = {} BY <1>1 DEF Sbis!On, Sbis!Idle
  <1>7. Sbis!Marked /\ Sbis!Sure /\ Sbis!OneHandler BY <1>1, <1>6 DEF Sbis!Init,
       Sbis!Marked, Sbis!Sure, Sbis!OneHandler, Sbis!Absent
  <1> QED BY <1>4, <1>5, <1>7 DEF Sbis!IInv

LEMMA ExchangeStep ==
  ASSUME Sbis!ExchangeConstants, Sbis!IInv, Sbis!Next
  PROVE  Sbis!IInv'
  BY ShapesStep, CountedStep, MarkedStep, SureStep, OneHandlerStep DEF Sbis!IInv

LEMMA ExchangeStay ==
  ASSUME Sbis!IInv, UNCHANGED Sbis!vars
  PROVE  Sbis!IInv'
  <1>1. \A d \in Outgoing : Sbis!On(d)' = Sbis!On(d) BY DEF Sbis!vars, Sbis!On,
       Sbis!Idle
  <1>2. Sbis!Shapes' /\ Sbis!Marked' BY DEF Sbis!vars, Sbis!IInv,
       Sbis!Shapes, Sbis!Marked
  <1>3. Sbis!Counted' BY DEF Sbis!vars, Sbis!IInv, Sbis!Counted,
       Sbis!Drafted, Sbis!Done
  <1>4. AutoSend => Sbis!Sure' /\ Sbis!OneHandler' BY <1>1 DEF Sbis!vars,
       Sbis!IInv, Sbis!Sure, Sbis!OneHandler, Sbis!PastSendStage
  <1> QED BY <1>2, <1>3, <1>4 DEF Sbis!IInv

LEMMA ExchangeIs ==
  ASSUME Sbis!ExchangeConstants, Sbis!IInv
  PROVE  Sbis!TypeOK /\ Sbis!StatusTellsTheTruth /\ Sbis!MarkedOnce
  <1>1. Sbis!TypeOK
    <2>1. ASSUME NEW d \in Outgoing
          PROVE  attempts[d] \in 0 .. MaxAttempts + Cardinality(Sbis!Handlers)
      <3>1. Sbis!Drafted(d) \in {0, 1} BY DEF Sbis!Drafted
      <3> QED BY ExchangeCounts, <3>1, DoneIs DEF Sbis!IInv, Sbis!Shapes,
           Sbis!Counted, Sbis!ExchangeConstants
    <2> QED BY ExchangeCounts, <2>1 DEF Sbis!TypeOK, Sbis!IInv, Sbis!Shapes,
         Sbis!Statuses, Sbis!DocumentKind
  <1>2. Sbis!StatusTellsTheTruth BY DEF Sbis!IInv, Sbis!Sure, Sbis!OneHandler,
       Sbis!StatusTellsTheTruth
  <1>3. Sbis!MarkedOnce BY DEF Sbis!IInv, Sbis!Shapes, Sbis!MarkedOnce
  <1> QED BY <1>1, <1>2, <1>3

LEMMA ExchangeAlways == Spec => [](which = "Sbis" => Sbis!IInv)
  <1> DEFINE I == which = "Sbis" => Sbis!IInv
  <1>1. Init => I BY ExchangeInit, ComponentConstants DEF Init
  <1>2. I /\ [Next]_vars => I'
    <2>1. ASSUME Sbis!IInv, [Sbis!Next]_Sbis!vars PROVE Sbis!IInv'
      BY <2>1, ExchangeStep, ExchangeStay, ComponentConstants
    <2>2. ASSUME [Next]_vars, which' = "Sbis"
          PROVE  which = "Sbis" /\ [Sbis!Next]_Sbis!vars
      BY <2>2 DEF Next, vars, Sbis!vars
    <2> QED BY <2>1, <2>2
  <1> QED BY <1>1, <1>2, PTL DEF Spec

\* DocumentExchange: however the job, resends, retries, edits and payments of any number of
\* documents interleave and fail, what a row says of SBIS is so unless somebody else was at
\* work on it, and a payment marks its document once.
THEOREM DocumentsAreTrue == Spec => []DocumentsTrue
  <1>1. (which = "Sbis" => Sbis!IInv) => DocumentsTrue BY ExchangeIs, ComponentConstants DEF DocumentsTrue
  <1> QED BY <1>1, ExchangeAlways, PTL

------------------------
\* The routes: what a request has read of the row and of SBIS is a route there ever was
\* (Edo!IInv).

Places == {"idle", "send", "peek", "read", "list", "save", "over"}
States == {Edo!None, Edo!Sent, Edo!Ready, Edo!Broken}
Inquiry == [at : Places, issuer : Issuers, seen : Edo!Row, inv : 0..MaxInvites, state : States]
Invitation == [from : Issuers, to : Parties, state : {Edo!Sent, Edo!Ready, Edo!Broken}]

\* Where a step takes inquiry p, and what it has then.
EdoMoved(p, at, inv, state) ==
  /\ op' \in [Edo!Ops -> Inquiry]
  /\ op'[p].at = at /\ op'[p].inv = inv /\ op'[p].state = state /\ op'[p].seen = op[p].seen
  /\ \A q \in Edo!Ops \ {p} : op'[q] = op[q]

LEMMA RequestIs ==
  ASSUME Edo!TypeOK, NEW p \in Edo!Ops
  PROVE  /\ op \in [Edo!Ops -> Inquiry] /\ op[p] \in Inquiry
         /\ op[p].at \in Places /\ op[p].issuer \in Issuers /\ op[p].seen \in Edo!Row
         /\ op[p].inv \in 0..MaxInvites /\ op[p].state \in States
         /\ op[p].seen.who \in Parties /\ op[p].seen.inv \in 0..MaxInvites
         /\ op[p].seen.state \in States
  <1>1. op \in [Edo!Ops -> Inquiry] /\ op[p] \in Inquiry BY DEF Edo!TypeOK, Inquiry, Places, States
  <1>2. /\ op[p].at \in Places /\ op[p].issuer \in Issuers /\ op[p].seen \in Edo!Row
        /\ op[p].inv \in 0..MaxInvites /\ op[p].state \in States
    BY <1>1 DEF Inquiry
  <1> QED BY <1>1, <1>2 DEF Edo!Row, States

LEMMA EdoGotoIs ==
  ASSUME Edo!TypeOK, NEW p \in Edo!Ops, NEW at \in Places, Edo!Goto(p, at)
  PROVE  EdoMoved(p, at, op[p].inv, op[p].state)
  <1> DEFINE r == [op[p] EXCEPT !.at = at]
  <1>1. /\ op \in [Edo!Ops -> Inquiry] /\ op[p] \in Inquiry
        /\ op[p].inv \in 0..MaxInvites /\ op[p].state \in States
    BY RequestIs
  <1>2. op' = [op EXCEPT ![p] = r] BY DEF Edo!Goto
  <1>3. /\ r \in Inquiry /\ r.at = at /\ r.inv = op[p].inv
        /\ r.state = op[p].state /\ r.seen = op[p].seen
    <2>1. \A x \in Inquiry :
             LET y == [x EXCEPT !.at = at]
             IN  y \in Inquiry /\ y.at = at /\ y.inv = x.inv /\ y.state = x.state /\ y.seen = x.seen
      BY DEF Inquiry
    <2> QED BY <1>1, <2>1
  <1> HIDE DEF r
  <1> QED BY <1>1, <1>2, <1>3 DEF EdoMoved

LEMMA AnsweredIs ==
  ASSUME Edo!TypeOK, NEW p \in Edo!Ops, NEW at \in Places,
         NEW inv \in 0..MaxInvites,
         NEW state \in States, Edo!Answered(p, at, inv, state)
  PROVE  EdoMoved(p, at, inv, state)
  <1>1. op \in [Edo!Ops -> Inquiry] /\ op[p] \in Inquiry BY RequestIs
  <1>2. op' = [op EXCEPT ![p] = [op[p] EXCEPT !.at = at, !.inv = inv, !.state = state]]
    BY <1>1 DEF Edo!Answered, Inquiry
  <1> DEFINE r == [op[p] EXCEPT !.at = at, !.inv = inv, !.state = state]
  <1>3. /\ r \in Inquiry /\ r.at = at /\ r.inv = inv /\ r.state = state
        /\ r.seen = op[p].seen
    BY <1>1 DEF Inquiry
  <1> HIDE DEF r
  <1>4. op' = [op EXCEPT ![p] = r] BY <1>2 DEF r
  <1> QED BY <1>1, <1>3, <1>4 DEF EdoMoved

\* The invitations there are, and those that are added.
LEMMA InvitationsAre ==
  ASSUME Edo!TypeOK
  PROVE  /\ invites \in Seq(Invitation) /\ Len(invites) \in Nat
         /\ \A k \in 1..Len(invites) :
              /\ invites[k] \in Invitation /\ invites[k].from \in Issuers
              /\ invites[k].to \in Parties /\ invites[k].state \in {Edo!Sent, Edo!Ready, Edo!Broken}
  <1>1. invites \in Seq(Invitation) /\ Len(invites) \in Nat BY DEF Edo!TypeOK, Invitation
  <1>2. \A k \in 1..Len(invites) : invites[k] \in Invitation BY <1>1
  <1> QED BY <1>1, <1>2 DEF Invitation

\* Edo are not withdrawn, and name whom they did.
EdoGrown ==
  /\ invites' \in Seq(Invitation) /\ Len(invites') <= MaxInvites
  /\ Len(invites) <= Len(invites')
  /\ \A k \in 1..Len(invites) : invites'[k].to = invites[k].to

LEMMA NamesKept ==
  ASSUME Edo!IInv, EdoGrown, UNCHANGED <<org, edits>>, routes \subseteq routes',
         NEW inv \in 0..MaxInvites, NEW state, Edo!Names(inv, state)
  PROVE  Edo!Names(inv, state)' /\ (Edo!Apt(inv, state) => Edo!Apt(inv, state)')
  <1>1. Len(invites) \in Nat /\ Len(invites') \in Nat BY InvitationsAre DEF Edo!IInv, EdoGrown
  <1>2. Edo!Names(inv, state)' BY <1>1 DEF Edo!Names, EdoGrown
  <1>3. ASSUME inv # Edo!None PROVE invites'[inv].to = invites[inv].to
    <2>1. inv \in 1..Len(invites) BY <1>1, <1>3 DEF Edo!Names, Edo!None
    <2> QED BY <2>1 DEF EdoGrown
  <1>4. Edo!Routed(org.who) => Edo!Routed(org.who)' BY DEF Edo!Routed
  <1> QED BY <1>2, <1>3, <1>4 DEF Edo!Apt

\* A step of an inquiry that found out something.
LEMMA AnswerKeeps ==
  ASSUME Edo!IInv, EdoGrown, UNCHANGED <<org, direct, routes, edits>>,
         Edo!TypeOK', Edo!Known',
         NEW p \in Edo!Ops, op[p].at # "idle",
         NEW at \in {"peek", "save", "send", "over"}, NEW inv \in 0..MaxInvites,
         NEW state \in States, EdoMoved(p, at, inv, state),
         Edo!Names(inv, state)', at = "peek" => inv # Edo!None,
         op[p].seen.inv # Edo!None /\ at \in {"peek", "save"} => inv # Edo!None,
         edits = 0 => Edo!Apt(inv, state)'
  PROVE  Edo!IInv'
  <1> USE DEF Edo!IInv
  <1>1. routes \subseteq routes' OBVIOUS
  <1>2. ASSUME NEW q \in Edo!Ops
        PROVE  /\ op'[q].seen = op[q].seen
               /\ op[q].seen.inv \in 0..MaxInvites /\ op[q].inv \in 0..MaxInvites
               /\ (q = p /\ op'[q].inv = inv /\ op'[q].state = state /\ op'[q].at = at)
                  \/ (q # p /\ op'[q] = op[q])
    BY RequestIs DEF EdoMoved
  <1>3. \A i \in 0..MaxInvites, s \in States :
           Edo!Names(i, s) => Edo!Names(i, s)' /\ (Edo!Apt(i, s) => Edo!Apt(i, s)')
    BY <1>1, NamesKept
  <1>4. org.inv \in 0..MaxInvites /\ org.state \in States BY DEF Edo!TypeOK, Edo!Row, States
  <1>5. Edo!Held'
    <2>1. Edo!Names(org.inv, org.state)' BY <1>3, <1>4 DEF Edo!Held, Edo!Names
    <2>2. ASSUME NEW q \in Edo!Ops
          PROVE  Edo!Names(op[q].seen.inv, op[q].seen.state)' /\ Edo!Names(op[q].inv, op[q].state)'
      <3>1. /\ op[q].seen.inv \in 0..MaxInvites /\ op[q].inv \in 0..MaxInvites
            /\ op[q].seen.state \in States /\ op[q].state \in States
        BY RequestIs
      <3>2. Edo!Names(op[q].seen.inv, op[q].seen.state) /\ Edo!Names(op[q].inv, op[q].state) BY DEF Edo!Held
      <3>3. Edo!Names(op[q].seen.inv, op[q].seen.state)' BY <1>2, <1>3, <3>1, <3>2 DEF Edo!Names
      <3>4. CASE q = p BY <1>2, <3>3, <3>4 DEF Edo!Names
      <3>5. CASE q # p
        <4>1. Edo!Names(op[q].inv, op[q].state)' BY <1>2, <1>3, <3>1, <3>2, <3>5 DEF Edo!Names
        <4> QED BY <3>3, <4>1
      <3> QED BY <3>4, <3>5
    <2>3. ASSUME NEW q \in Edo!Ops
          PROVE  /\ op'[q].at = "peek" => op'[q].inv # Edo!None
                 /\ op'[q].seen.inv # Edo!None =>
                       org'.inv # Edo!None /\ (op'[q].at \in {"peek", "save"} => op'[q].inv # Edo!None)
                 /\ op'[q].at = "read" => op'[q].seen.inv # Edo!None
      BY <1>2 DEF Edo!Held
    <2> QED BY <2>1, <2>2, <2>3 DEF Edo!Held
  <1>6. Edo!About'
    <2> SUFFICES ASSUME edits = 0
                 PROVE  /\ Edo!Apt(org.inv, org.state)'
                        /\ \A q \in Edo!Ops :
                             /\ (op[q].at # "idle" => op[q].seen.who = org.who)'
                             /\ Edo!Apt(op[q].seen.inv, op[q].seen.state)'
                             /\ Edo!Apt(op[q].inv, op[q].state)'
      BY DEF Edo!About
    <2>1. Edo!Apt(org.inv, org.state)' BY <1>3, <1>4 DEF Edo!About, Edo!Held, Edo!Apt
    <2>2. ASSUME NEW q \in Edo!Ops
          PROVE  /\ (op[q].at # "idle" => op[q].seen.who = org.who)'
                 /\ Edo!Apt(op[q].seen.inv, op[q].seen.state)'
                 /\ Edo!Apt(op[q].inv, op[q].state)'
      <3>1. /\ op[q].seen.inv \in 0..MaxInvites /\ op[q].inv \in 0..MaxInvites
            /\ op[q].seen.state \in States /\ op[q].state \in States
        BY RequestIs
      <3>2. /\ Edo!Names(op[q].seen.inv, op[q].seen.state) /\ Edo!Names(op[q].inv, op[q].state)
            /\ Edo!Apt(op[q].seen.inv, op[q].seen.state) /\ Edo!Apt(op[q].inv, op[q].state)
            /\ op[q].at # "idle" => op[q].seen.who = org.who
        BY DEF Edo!Held, Edo!About
      <3>3. Edo!Apt(op[q].seen.inv, op[q].seen.state)' BY <1>2, <1>3, <3>1, <3>2 DEF Edo!Apt
      <3>4. (op[q].at # "idle" => op[q].seen.who = org.who)' BY <1>2, <3>2
      <3>5. CASE q = p BY <1>2, <3>3, <3>4, <3>5 DEF Edo!Apt
      <3>6. CASE q # p
        <4>1. Edo!Apt(op[q].inv, op[q].state)' BY <1>2, <1>3, <3>1, <3>2, <3>6 DEF Edo!Apt
        <4> QED BY <3>3, <3>4, <4>1
      <3> QED BY <3>5, <3>6
    <2> QED BY <2>1, <2>2
  <1> QED BY <1>5, <1>6


LEMMA MovedTypes ==
  ASSUME Edo!TypeOK, NEW p \in Edo!Ops, NEW at, NEW inv, NEW state,
         EdoMoved(p, at, inv, state),
         EdoGrown, faults' \in 0..MaxFaults, UNCHANGED <<org, direct, routes, edits>>
  PROVE  Edo!TypeOK'
  BY DEF EdoMoved, EdoGrown, Edo!TypeOK, Inquiry, Places, States, Invitation

\* Nothing new is heard of an invitation.
LEMMA SameInvitations ==
  ASSUME Edo!TypeOK, UNCHANGED invites
  PROVE  EdoGrown
  BY InvitationsAre DEF EdoGrown, Edo!TypeOK

LEMMA KnownStays ==
  ASSUME Edo!Known, UNCHANGED <<invites, direct, routes>>
  PROVE  Edo!Known'
  BY DEF Edo!Known

\* What an invitation to the party of the row says is true of the row.
LEMMA Said ==
  ASSUME Edo!IInv, UNCHANGED <<org, invites, routes>>,
         NEW k \in 1..Len(invites)
  PROVE  /\ Edo!Names(k, invites[k].state)'
         /\ invites[k].to = org.who => Edo!Apt(k, invites[k].state)'
  <1> USE DEF Edo!IInv
  <1>1. /\ invites[k].from \in Issuers /\ invites[k].state \in {Edo!Sent, Edo!Ready, Edo!Broken}
        /\ Len(invites) \in Nat
    BY InvitationsAre
  <1>2. k # Edo!None /\ k <= Len(invites) BY <1>1 DEF Edo!None
  <1>3. invites[k].state = Edo!Ready => <<invites[k].from, invites[k].to>> \in routes BY DEF Edo!Known
  <1>4. Edo!Names(k, invites[k].state)' BY <1>2 DEF Edo!Names
  <1>5. invites[k].to = org.who => Edo!Apt(k, invites[k].state)' BY <1>1, <1>3 DEF Edo!Apt, Edo!Routed
  <1> QED BY <1>4, <1>5

LEMMA InviteStep ==
  ASSUME Edo!IInv, NEW p \in Edo!Ops, Edo!Invite(p)
  PROVE  Edo!IInv'
  <1> USE DEF Edo!IInv
  <1> DEFINE from == op[p].issuer
             to == op[p].seen.who
  <1>1. /\ op[p].at = "send" /\ UNCHANGED <<org, direct, routes, edits, faults>>
        /\ from \in Issuers /\ to \in Parties /\ op[p].seen.inv \in 0..MaxInvites
        /\ Len(invites) \in Nat /\ MaxInvites \in Nat
    BY RequestIs, InvitationsAre, ComponentConstants DEF Edo!Invite, Edo!Still,
         Edo!EdoConstants
  <1>2. edits = 0 => to = org.who BY <1>1 DEF Edo!About
  <1>3. CASE <<from, to>> \in direct
    <2>1. Edo!Answered(p, "save", op[p].seen.inv, Edo!Ready) /\ UNCHANGED invites BY <1>3 DEF Edo!Invite
    <2>2. EdoMoved(p, "save", op[p].seen.inv, Edo!Ready) BY <1>1, <2>1, AnsweredIs DEF Places, States
    <2>3. EdoGrown /\ Edo!TypeOK' /\ Edo!Known'
      BY <1>1, <2>1, <2>2, SameInvitations, MovedTypes, KnownStays DEF Edo!TypeOK
    <2>4. Edo!Names(op[p].seen.inv, op[p].seen.state) BY DEF Edo!Held
    <2> DEFINE inv == op[p].seen.inv
    <2>5. Edo!Names(inv, Edo!Ready) BY <2>4 DEF Edo!Names, Edo!Ready, Edo!Sent
    <2>6. ASSUME edits = 0 PROVE Edo!Apt(inv, Edo!Ready)
      <3>1. Edo!Apt(op[p].seen.inv, op[p].seen.state) BY <2>6 DEF Edo!About
      <3>2. Edo!Routed(org.who) BY <1>1, <1>2, <1>3, <2>6 DEF Edo!Known, Edo!Routed
      <3> QED BY <3>1, <3>2 DEF Edo!Apt
    <2> HIDE DEF inv, from, to
    <2>7. \A i \in 0..MaxInvites, s \in States :
            Edo!Names(i, s) => Edo!Names(i, s)' /\ (Edo!Apt(i, s) => Edo!Apt(i, s)')
      BY <1>1, <2>3, NamesKept
    <2>8. inv \in 0..MaxInvites /\ Edo!Ready \in States BY <1>1 DEF inv, States
    <2>9. PICK i \in 0..MaxInvites : i = inv BY <2>8
    <2>10. Edo!Names(i, Edo!Ready)' /\ (edits = 0 => Edo!Apt(i, Edo!Ready)') BY <2>5, <2>6, <2>7, <2>8, <2>9
    <2>11. EdoMoved(p, "save", i, Edo!Ready) /\ (op[p].seen.inv # Edo!None => i # Edo!None) BY <2>2, <2>9 DEF inv
    <2> QED BY <1>1, <2>3, <2>8, <2>10, <2>11, AnswerKeeps
  <1>4. CASE <<from, to>> \notin direct
    <2> DEFINE new == [from |-> from, to |-> to, state |-> Edo!Sent]
               n == Len(invites) + 1
    <2>1. /\ Len(invites) < MaxInvites /\ invites' = Append(invites, new)
          /\ Edo!Answered(p, "peek", n, Edo!Sent)
      BY <1>4 DEF Edo!Invite
    <2>2. n \in 0..MaxInvites /\ n # Edo!None /\ Edo!Sent \in States /\ Edo!Sent # Edo!Ready
      BY <1>1, <2>1 DEF Edo!None, States, Edo!Sent, Edo!Ready
    <2>3. new \in Invitation /\ new.to = to /\ new.state = Edo!Sent BY <1>1 DEF Invitation
    <2> HIDE DEF new
    <2>4. /\ Len(invites') = n /\ invites' \in Seq(Invitation) /\ invites'[n] = new
          /\ \A k \in 1..Len(invites) : invites'[k] = invites[k]
      BY <2>1, <2>3, InvitationsAre
    <2>5. EdoGrown BY <1>1, <2>1, <2>4 DEF EdoGrown
    <2>6. EdoMoved(p, "peek", n, Edo!Sent) BY <2>1, <2>2, AnsweredIs DEF Places
    <2>7. Edo!TypeOK' BY <1>1, <2>5, <2>6, MovedTypes DEF Edo!TypeOK
    <2>8. Edo!Known'
      <3> SUFFICES ASSUME NEW k \in 1..Len(invites'),
                          invites'[k].state \in {Edo!Ready, Edo!Broken}
                   PROVE  <<invites'[k].from, invites'[k].to>> \in routes
        BY <1>1 DEF Edo!Known
      <3>1. Edo!Sent \notin {Edo!Ready, Edo!Broken} BY DEF Edo!Sent, Edo!Ready, Edo!Broken
      <3>2. k # n BY <3>1, <2>3, <2>4
      <3>3. k \in 1..Len(invites) BY <3>2, <2>4, <1>1
      <3> QED BY <3>3, <2>4 DEF Edo!Known
    <2> HIDE DEF n
    <2>9. PICK i \in 0..MaxInvites : i = n BY <2>2
    <2>10. i # Edo!None /\ i <= Len(invites') /\ invites'[i].to = to BY <1>1, <2>2, <2>3, <2>4, <2>9 DEF n
    <2>11. Edo!Names(i, Edo!Sent)' BY <2>10 DEF Edo!Names
    <2>12. edits = 0 => Edo!Apt(i, Edo!Sent)' BY <1>1, <1>2, <2>2, <2>10 DEF Edo!Apt
    <2>13. EdoMoved(p, "peek", i, Edo!Sent) BY <2>6, <2>9
    <2> HIDE DEF from, to
    <2> QED BY <1>1, <2>2, <2>5, <2>7, <2>8, <2>10, <2>11, <2>12, <2>13, AnswerKeeps
  <1> QED BY <1>3, <1>4

\* An inquiry that read the state of an invitation to its party.
LEMMA ToldKeeps ==
  ASSUME Edo!IInv, NEW p \in Edo!Ops, op[p].at # "idle", NEW k \in 1..Len(invites),
         Edo!Answered(p, "save", k, invites[k].state),
         UNCHANGED <<invites, faults, routes>>, Edo!Still,
         edits = 0 => invites[k].to = org.who
  PROVE  Edo!IInv'
  <1> USE DEF Edo!IInv
  <1>1. UNCHANGED <<org, direct, routes, edits, faults>> BY DEF Edo!Still
  <1>2. PICK state : state = invites[k].state OBVIOUS
  <1>3. Len(invites) \in Nat /\ Len(invites) <= MaxInvites /\ MaxInvites \in Nat
    BY ComponentConstants, InvitationsAre DEF Edo!TypeOK, Edo!EdoConstants
  <1>4. k \in 0..MaxInvites /\ k # Edo!None /\ state \in States BY <1>2, <1>3, InvitationsAre DEF Edo!None, States
  <1>5. EdoMoved(p, "save", k, state) BY <1>2, <1>4, AnsweredIs DEF Places
  <1>6. EdoGrown BY SameInvitations
  <1>7. faults' \in 0..MaxFaults BY DEF Edo!TypeOK
  <1>8. Edo!TypeOK' BY <1>1, <1>5, <1>6, <1>7, MovedTypes
  <1>9. Edo!Known' BY <1>1, KnownStays
  <1>10. Edo!Names(k, state)' /\ (edits = 0 => Edo!Apt(k, state)') BY <1>1, <1>2, Said DEF Edo!Names, Edo!Apt
  <1> QED BY <1>1, <1>4, <1>5, <1>6, <1>8, <1>9, <1>10, AnswerKeeps


\* One that read of a route; its id stays what it was.
LEMMA RouteKeeps ==
  ASSUME Edo!IInv, NEW p \in Edo!Ops, op[p].at # "idle", NEW k \in 1..Len(invites),
         invites[k].state = Edo!Ready, Edo!Answered(p, "save", op[p].seen.inv, Edo!Ready),
         UNCHANGED <<invites, faults, routes>>, Edo!Still,
         edits = 0 => invites[k].to = org.who
  PROVE  Edo!IInv'
  <1> USE DEF Edo!IInv
  <1>1. UNCHANGED <<org, direct, routes, edits, faults>> BY DEF Edo!Still
  <1>2. PICK inv \in 0..MaxInvites : inv = op[p].seen.inv BY RequestIs
  <1>3. Edo!Ready \in States /\ Edo!Ready # Edo!Sent BY DEF States, Edo!Ready, Edo!Sent
  <1>4. EdoMoved(p, "save", inv, Edo!Ready) BY <1>2, <1>3, AnsweredIs DEF Places
  <1>5. EdoGrown BY SameInvitations
  <1>6. faults' \in 0..MaxFaults BY DEF Edo!TypeOK
  <1>7. Edo!TypeOK' /\ Edo!Known' BY <1>1, <1>4, <1>5, <1>6, MovedTypes, KnownStays
  <1>8. Edo!Names(inv, op[p].seen.state) BY <1>2 DEF Edo!Held
  <1>9. Edo!Names(inv, Edo!Ready)' BY <1>3, <1>8 DEF Edo!Names
  <1>10. ASSUME edits = 0 PROVE Edo!Apt(inv, Edo!Ready)'
    <2>1. Edo!Apt(inv, op[p].seen.state) BY <1>2, <1>10 DEF Edo!About
    <2>2. <<invites[k].from, org.who>> \in routes /\ invites[k].from \in Issuers
      BY <1>10, InvitationsAre DEF Edo!Known
    <2> QED BY <1>1, <2>1, <2>2 DEF Edo!Apt, Edo!Routed
  <1> QED BY <1>1, <1>2, <1>3, <1>4, <1>5, <1>7, <1>9, <1>10, AnswerKeeps

LEMMA PeekStep ==
  ASSUME Edo!IInv, NEW p \in Edo!Ops, Edo!Peek(p)
  PROVE  Edo!IInv'
  <1> USE DEF Edo!IInv
  <1>1. /\ op[p].at = "peek" /\ UNCHANGED <<invites, routes>> /\ Edo!Still
        /\ op[p].inv \in 0..MaxInvites /\ op[p].inv # Edo!None /\ Len(invites) \in Nat
        /\ Edo!Names(op[p].inv, op[p].state)
        /\ UNCHANGED <<org, direct, edits>>
    BY RequestIs, InvitationsAre DEF Edo!Peek, Edo!Held, Edo!Still
  <1>2. PICK k \in 1..Len(invites) : k = op[p].inv BY <1>1 DEF Edo!Names, Edo!None
  <1>3. edits = 0 => Edo!Apt(op[p].inv, op[p].state) /\ invites[k].to = org.who BY <1>1, <1>2 DEF Edo!About, Edo!Apt
  <1>4. CASE /\ Edo!Answered(p, "save", IF invites[k].state = Edo!Ready THEN op[p].seen.inv ELSE k,
                             invites[k].state)
             /\ UNCHANGED faults
    <2>1. CASE invites[k].state = Edo!Ready
      <3>1. Edo!Answered(p, "save", op[p].seen.inv, Edo!Ready) BY <1>4, <2>1
      <3> QED BY <1>1, <1>3, <1>4, <2>1, <3>1, RouteKeeps
    <2>2. CASE invites[k].state # Edo!Ready
      <3>1. Edo!Answered(p, "save", k, invites[k].state) BY <1>4, <2>2
      <3> QED BY <1>1, <1>3, <1>4, <3>1, ToldKeeps
    <2> QED BY <2>1, <2>2
  <1>5. CASE faults < MaxFaults /\ faults' = faults + 1 /\ Edo!Goto(p, "save")
    <2>1. faults' \in 0..MaxFaults BY <1>5, ComponentConstants DEF Edo!TypeOK, Edo!EdoConstants
    <2>2. PICK inv \in 0..MaxInvites, state \in States : inv = op[p].inv /\ state = op[p].state BY RequestIs
    <2>3. EdoMoved(p, "save", inv, state) BY <1>5, <2>2, EdoGotoIs DEF Places
    <2>4. EdoGrown /\ Edo!TypeOK' /\ Edo!Known' BY <1>1, <2>1, <2>3, SameInvitations, MovedTypes, KnownStays
    <2>5. Edo!Names(inv, state)' /\ (edits = 0 => Edo!Apt(inv, state)')
      BY <1>1, <1>3, <2>2 DEF Edo!Names, Edo!Apt, Edo!Routed
    <2> QED BY <1>1, <2>2, <2>3, <2>4, <2>5, AnswerKeeps
  <1> QED BY <1>2, <1>4, <1>5 DEF Edo!Peek

LEMMA ReadStep ==
  ASSUME Edo!IInv, NEW p \in Edo!Ops, Edo!Read(p)
  PROVE  Edo!IInv'
  <1> USE DEF Edo!IInv
  <1>1. /\ op[p].at = "read" /\ UNCHANGED <<invites, faults, routes>> /\ Edo!Still
        /\ op[p].seen.inv \in 0..MaxInvites /\ op[p].seen.inv # Edo!None /\ Len(invites) \in Nat
        /\ Edo!Names(op[p].seen.inv, op[p].seen.state)
    BY RequestIs, InvitationsAre DEF Edo!Read, Edo!Held
  <1>2. PICK k \in 1..Len(invites) : k = op[p].seen.inv BY <1>1 DEF Edo!Names, Edo!None
  <1>3. edits = 0 => invites[k].to = org.who BY <1>1, <1>2 DEF Edo!About, Edo!Apt
  <1>4. Edo!Answered(p, "save", k, invites[k].state) BY <1>2 DEF Edo!Read
  <1> QED BY <1>1, <1>3, <1>4, ToldKeeps

\* An inquiry that goes on or ends without news.
LEMMA GoneKeeps ==
  ASSUME Edo!IInv, NEW p \in Edo!Ops, op[p].at # "idle",
         NEW at \in {"send", "over"}, Edo!Goto(p, at),
         UNCHANGED <<invites, routes>>, Edo!Still, faults' \in 0..MaxFaults
  PROVE  Edo!IInv'
  <1> USE DEF Edo!IInv
  <1>1. UNCHANGED <<org, direct, routes, edits>> BY DEF Edo!Still
  <1>2. PICK inv \in 0..MaxInvites, state \in States : inv = op[p].inv /\ state = op[p].state BY RequestIs
  <1>3. EdoMoved(p, at, inv, state) BY <1>2, EdoGotoIs DEF Places
  <1>4. EdoGrown /\ Edo!TypeOK' /\ Edo!Known' BY <1>1, <1>3, SameInvitations, MovedTypes, KnownStays
  <1>5. Edo!Names(inv, state)' /\ (edits = 0 => Edo!Apt(inv, state)')
    BY <1>1, <1>2 DEF Edo!Held, Edo!About, Edo!Names, Edo!Apt,
         Edo!Routed
  <1> QED BY <1>1, <1>3, <1>4, <1>5, AnswerKeeps

LEMMA ListStep ==
  ASSUME Edo!IInv, NEW p \in Edo!Ops,
         Edo!List(p) \/ Edo!CallFails(p)
  PROVE  Edo!IInv'
  <1> USE DEF Edo!IInv
  <1>1. CASE Edo!CallFails(p)
    <2>1. faults' \in 0..MaxFaults
      BY <1>1, ComponentConstants DEF Edo!CallFails, Edo!TypeOK,
           Edo!EdoConstants
    <2> QED BY <1>1, <2>1, GoneKeeps DEF Edo!CallFails
  <1>2. ASSUME NEW k \in 1..Len(invites), op[p].at = "list", Edo!Matches(p, k),
               Edo!Found(p, k),
               UNCHANGED <<invites, faults, routes>>, Edo!Still
        PROVE  Edo!IInv'
    <2>1. Edo!Answered(p, "save", k, invites[k].state) BY <1>2 DEF Edo!Found
    <2>2. edits = 0 => invites[k].to = org.who BY <1>2 DEF Edo!Matches, Edo!About
    <2> QED BY <1>2, <2>1, <2>2, ToldKeeps
  <1>3. ASSUME op[p].at = "list", Edo!Unmatched(p),
               UNCHANGED <<invites, faults, routes>>, Edo!Still
        PROVE  Edo!IInv'
    <2>1. PICK at \in {"send", "over"} : Edo!Goto(p, at) BY <1>3 DEF Edo!Unmatched
    <2>2. faults' \in 0..MaxFaults BY <1>3 DEF Edo!TypeOK
    <2> QED BY <1>3, <2>1, <2>2, GoneKeeps
  <1> QED BY <1>1, <1>2, <1>3 DEF Edo!List


LEMMA BeginStep ==
  ASSUME Edo!IInv, NEW p \in Edo!Ops, NEW i \in Issuers, Edo!Begin(p, i)
  PROVE  Edo!IInv'
  <1> USE DEF Edo!IInv
  <1> DEFINE at == IF p \in Sends THEN "send" ELSE IF org.inv # Edo!None THEN "read" ELSE "list"
             r == [op[p] EXCEPT !.issuer = i, !.seen = org, !.at = at]
  <1>1. /\ op[p].at = "idle" /\ UNCHANGED <<invites, faults, routes, org, direct, cast, edits>>
        /\ op \in [Edo!Ops -> Inquiry] /\ op[p] \in Inquiry /\ org \in Edo!Row
    BY RequestIs DEF Edo!Begin, Edo!Still, Edo!TypeOK
  <1>2. op' = [op EXCEPT ![p] = r] BY <1>1 DEF Edo!Begin, Inquiry
  <1>3. at \in {"send", "read", "list"} /\ (at = "read" => org.inv # Edo!None) OBVIOUS
  <1> HIDE DEF at
  <1>4. /\ r \in Inquiry /\ r.at = at /\ r.seen = org /\ r.inv = op[p].inv
        /\ r.state = op[p].state
    BY <1>1, <1>3 DEF Inquiry, Places
  <1> HIDE DEF r
  <1>5. /\ op' \in [Edo!Ops -> Inquiry] /\ op'[p] = r
        /\ \A q \in Edo!Ops \ {p} : op'[q] = op[q]
    BY <1>1, <1>2, <1>4
  <1>6. Edo!TypeOK' BY <1>1, <1>5 DEF Edo!TypeOK, Inquiry, Places, States
  <1>7. Edo!Known' BY <1>1, KnownStays
  <1>8. Edo!Held'
    <2>1. Edo!Names(org.inv, org.state)' BY <1>1 DEF Edo!Held, Edo!Names
    <2>2. ASSUME NEW q \in Edo!Ops
          PROVE  /\ Edo!Names(op[q].seen.inv, op[q].seen.state)' /\ Edo!Names(op[q].inv, op[q].state)'
                 /\ (op[q].at = "peek" => op[q].inv # Edo!None)'
                 /\ (op[q].seen.inv # Edo!None =>
                      org.inv # Edo!None /\ (op[q].at \in {"peek", "save"} => op[q].inv # Edo!None))'
                 /\ (op[q].at = "read" => op[q].seen.inv # Edo!None)'
      <3>1. CASE q = p
        <4>1. Edo!Names(op[q].seen.inv, op[q].seen.state)' BY <1>1, <1>4, <1>5, <3>1 DEF Edo!Held, Edo!Names
        <4>2. Edo!Names(op[q].inv, op[q].state)' BY <1>1, <1>4, <1>5, <3>1 DEF Edo!Held, Edo!Names
        <4> QED BY <4>1, <4>2, <1>1, <1>3, <1>4, <1>5, <3>1
      <3>2. CASE q # p BY <3>2, <1>1, <1>5 DEF Edo!Held, Edo!Names
      <3> QED BY <3>1, <3>2
    <2> QED BY <2>1, <2>2 DEF Edo!Held
  <1>9. Edo!About'
    <2> SUFFICES ASSUME edits = 0
                 PROVE  /\ Edo!Apt(org.inv, org.state)'
                        /\ \A q \in Edo!Ops :
                             /\ (op[q].at # "idle" => op[q].seen.who = org.who)'
                             /\ Edo!Apt(op[q].seen.inv, op[q].seen.state)'
                             /\ Edo!Apt(op[q].inv, op[q].state)'
      BY <1>1 DEF Edo!About
    <2>1. Edo!Apt(org.inv, org.state)' BY <1>1 DEF Edo!About, Edo!Apt, Edo!Routed
    <2>2. ASSUME NEW q \in Edo!Ops
          PROVE  /\ (op[q].at # "idle" => op[q].seen.who = org.who)'
                 /\ Edo!Apt(op[q].seen.inv, op[q].seen.state)'
                 /\ Edo!Apt(op[q].inv, op[q].state)'
      <3>1. CASE q = p BY <1>1, <1>4, <1>5, <3>1 DEF Edo!About, Edo!Apt, Edo!Routed
      <3>2. CASE q # p BY <3>2, <1>1, <1>5 DEF Edo!About, Edo!Apt, Edo!Routed
      <3> QED BY <3>1, <3>2
    <2> QED BY <2>1, <2>2
  <1> QED BY <1>6, <1>7, <1>8, <1>9

LEMMA EdoSaveStep ==
  ASSUME Edo!IInv, NEW p \in Edo!Ops, Edo!Save(p)
  PROVE  Edo!IInv'
  <1> USE DEF Edo!IInv
  <1>1. /\ op[p].at = "save" /\ UNCHANGED <<invites, direct, cast, edits, faults, routes>>
        /\ org \in Edo!Row
    BY DEF Edo!Save, Edo!TypeOK
  <1>2. EdoMoved(p, "over", op[p].inv, op[p].state) BY EdoGotoIs DEF Edo!Save, Places
  <1> DEFINE seen == op[p].seen
             inv == Edo!Changed(seen.inv, op[p].inv, org.inv)
             state == Edo!Changed(seen.state, op[p].state, org.state)
  <1>3. /\ inv \in {org.inv, op[p].inv} /\ state \in {org.state, op[p].state}
        /\ inv \in 0..MaxInvites /\ state \in States
    BY <1>1, RequestIs DEF Edo!Changed, Edo!Row, States
  <1>4. org' = [org EXCEPT !.inv = inv, !.state = state] BY <1>1 DEF Edo!Save, Edo!Row
  <1>5. /\ Edo!Names(org.inv, org.state) /\ Edo!Names(op[p].inv, op[p].state)
        /\ seen.inv # Edo!None => org.inv # Edo!None /\ op[p].inv # Edo!None
    BY <1>1 DEF Edo!Held
  <1>6. org.inv # Edo!None => inv # Edo!None BY <1>5 DEF Edo!Changed
  <1>7. state = Edo!Sent => inv # Edo!None
    <2> SUFFICES ASSUME state = Edo!Sent, inv = Edo!None PROVE FALSE OBVIOUS
    <2>1. org.inv = Edo!None /\ seen.inv = Edo!None BY <1>5, <1>6
    <2>2. op[p].inv = Edo!None BY <2>1 DEF Edo!Changed
    <2> QED BY <2>1, <2>2, <1>3, <1>5 DEF Edo!Names
  <1>8. Edo!Names(inv, state) BY <1>3, <1>5, <1>7 DEF Edo!Names
  <1>9. edits = 0 => Edo!Apt(inv, state) BY <1>3 DEF Edo!About, Edo!Apt
  <1> HIDE DEF inv, state
  <1>10. org' \in Edo!Row /\ org'.inv = inv /\ org'.state = state /\ org'.who = org.who
    BY <1>1, <1>3, <1>4 DEF Edo!Row, States
  <1>11. /\ op' \in [Edo!Ops -> Inquiry]
         /\ \A q \in Edo!Ops : /\ op'[q].seen = op[q].seen /\ op'[q].inv = op[q].inv
                               /\ op'[q].state = op[q].state
                               /\ (op'[q].at = "over" /\ op[q].at # "idle") \/ op'[q].at = op[q].at
    BY <1>1, <1>2 DEF EdoMoved
  <1>12. Edo!TypeOK' BY <1>1, <1>10, <1>11 DEF Edo!TypeOK, Inquiry, Places, States
  <1>13. Edo!Known' BY <1>1, KnownStays
  <1>14. Edo!Held'
    <2>1. Edo!Names(org.inv, org.state)' BY <1>1, <1>8, <1>10 DEF Edo!Names
    <2>2. ASSUME NEW q \in Edo!Ops
          PROVE  /\ Edo!Names(op[q].seen.inv, op[q].seen.state)' /\ Edo!Names(op[q].inv, op[q].state)'
                 /\ (op[q].at = "peek" => op[q].inv # Edo!None)'
                 /\ (op[q].seen.inv # Edo!None =>
                      org.inv # Edo!None /\ (op[q].at \in {"peek", "save"} => op[q].inv # Edo!None))'
                 /\ (op[q].at = "read" => op[q].seen.inv # Edo!None)'
      <3>1. Edo!Names(op[q].seen.inv, op[q].seen.state)' /\ Edo!Names(op[q].inv, op[q].state)'
        BY <1>1, <1>11 DEF Edo!Held, Edo!Names
      <3> QED BY <3>1, <1>6, <1>10, <1>11 DEF Edo!Held
    <2> QED BY <2>1, <2>2 DEF Edo!Held
  <1>15. Edo!About'
    <2> SUFFICES ASSUME edits = 0
                 PROVE  /\ Edo!Apt(org.inv, org.state)'
                        /\ \A q \in Edo!Ops :
                             /\ (op[q].at # "idle" => op[q].seen.who = org.who)'
                             /\ Edo!Apt(op[q].seen.inv, op[q].seen.state)'
                             /\ Edo!Apt(op[q].inv, op[q].state)'
      BY <1>1 DEF Edo!About
    <2>1. Edo!Apt(org.inv, org.state)' BY <1>1, <1>9, <1>10 DEF Edo!Apt, Edo!Routed
    <2>2. ASSUME NEW q \in Edo!Ops
          PROVE  /\ (op[q].at # "idle" => op[q].seen.who = org.who)'
                 /\ Edo!Apt(op[q].seen.inv, op[q].seen.state)'
                 /\ Edo!Apt(op[q].inv, op[q].state)'
      BY <1>1, <1>10, <1>11 DEF Edo!About, Edo!Apt, Edo!Routed
    <2> QED BY <2>1, <2>2
  <1> QED BY <1>12, <1>13, <1>14, <1>15

\* What happens at SBIS, whether or not anybody asks.
LEMMA EdoWorldKeeps ==
  ASSUME Edo!IInv, EdoGrown, UNCHANGED <<org, op, direct, edits, faults>>,
         routes \subseteq routes',
         routes' \subseteq Issuers \X Parties, Edo!Known'
  PROVE  Edo!IInv'
  <1> USE DEF Edo!IInv
  <1>1. Edo!TypeOK' BY DEF Edo!TypeOK, EdoGrown, Invitation
  <1>2. \A i \in 0..MaxInvites, s \in States :
           Edo!Names(i, s) => Edo!Names(i, s)' /\ (Edo!Apt(i, s) => Edo!Apt(i, s)')
    BY NamesKept
  <1>3. org.inv \in 0..MaxInvites /\ org.state \in States BY DEF Edo!TypeOK, Edo!Row, States
  <1>4. Edo!Names(org.inv, org.state)' /\ (edits = 0 => Edo!Apt(org.inv, org.state)')
    <2>1. Edo!Names(org.inv, org.state)' BY <1>2, <1>3 DEF Edo!Held, Edo!Names
    <2>2. edits = 0 => Edo!Apt(org.inv, org.state)' BY <1>2, <1>3 DEF Edo!Held, Edo!About, Edo!Apt
    <2> QED BY <2>1, <2>2
  <1>5. ASSUME NEW q \in Edo!Ops
        PROVE  /\ Edo!Names(op[q].seen.inv, op[q].seen.state)' /\ Edo!Names(op[q].inv, op[q].state)'
               /\ edits = 0 => /\ Edo!Apt(op[q].seen.inv, op[q].seen.state)'
                               /\ Edo!Apt(op[q].inv, op[q].state)'
    <2>1. /\ op[q].seen.inv \in 0..MaxInvites /\ op[q].inv \in 0..MaxInvites
          /\ op[q].seen.state \in States /\ op[q].state \in States
      BY RequestIs
    <2>2. /\ Edo!Names(op[q].seen.inv, op[q].seen.state) /\ Edo!Names(op[q].inv, op[q].state)
          /\ edits = 0 => /\ Edo!Apt(op[q].seen.inv, op[q].seen.state)
                          /\ Edo!Apt(op[q].inv, op[q].state)
      BY DEF Edo!Held, Edo!About
    <2>3. Edo!Names(op[q].seen.inv, op[q].seen.state)' /\ Edo!Names(op[q].inv, op[q].state)'
      BY <1>2, <2>1, <2>2 DEF Edo!Names
    <2>4. edits = 0 => /\ Edo!Apt(op[q].seen.inv, op[q].seen.state)'
                       /\ Edo!Apt(op[q].inv, op[q].state)'
      BY <1>2, <2>1, <2>2 DEF Edo!Apt
    <2> QED BY <2>3, <2>4
  <1>6. Edo!Held' /\ Edo!About' BY <1>4, <1>5 DEF Edo!Held, Edo!About
  <1> QED BY <1>1, <1>6

LEMMA EditStep ==
  ASSUME Edo!IInv, NEW w \in Parties, Edo!Edit(w)
  PROVE  Edo!IInv'
  <1> USE DEF Edo!IInv
  <1>1. /\ UNCHANGED <<invites, direct, op, cast, faults, routes>> /\ org' = [org EXCEPT !.who = w]
        /\ org \in Edo!Row /\ edits \in Nat /\ edits' = edits + 1 /\ edits' \in 0..MaxEdits
    BY ComponentConstants DEF Edo!Edit, Edo!TypeOK, Edo!EdoConstants
  <1>2. org' \in Edo!Row /\ org'.inv = org.inv /\ org'.state = org.state BY <1>1 DEF Edo!Row
  <1>3. Edo!TypeOK' /\ Edo!Known' BY <1>1, <1>2, KnownStays DEF Edo!TypeOK
  <1>4. Edo!Held' BY <1>1, <1>2 DEF Edo!Held, Edo!Names
  <1>5. Edo!About' BY <1>1 DEF Edo!About
  <1> QED BY <1>3, <1>4, <1>5

LEMMA OtherStep ==
  ASSUME Edo!IInv, NEW i \in Issuers, NEW w \in Parties, Edo!InviteOther(i, w)
  PROVE  Edo!IInv'
  <1> USE DEF Edo!IInv
  <1> DEFINE new == [from |-> i, to |-> w, state |-> Edo!Sent]
  <1>1. /\ UNCHANGED <<op, faults, routes, org, direct, edits>> /\ Len(invites) < MaxInvites
        /\ invites' = Append(invites, new) /\ Len(invites) \in Nat /\ MaxInvites \in Nat
    BY InvitationsAre, ComponentConstants DEF Edo!InviteOther, Edo!Still,
         Edo!EdoConstants
  <1>2. new \in Invitation /\ new.state = Edo!Sent BY DEF Invitation
  <1> HIDE DEF new
  <1>3. /\ Len(invites') = Len(invites) + 1 /\ invites' \in Seq(Invitation)
        /\ invites'[Len(invites) + 1] = new
        /\ \A k \in 1..Len(invites) : invites'[k] = invites[k]
    BY <1>1, <1>2, InvitationsAre
  <1>4. EdoGrown BY <1>1, <1>3 DEF EdoGrown
  <1>5. Edo!Known'
    <2> SUFFICES ASSUME NEW k \in 1..Len(invites'),
                        invites'[k].state \in {Edo!Ready, Edo!Broken}
                 PROVE  <<invites'[k].from, invites'[k].to>> \in routes
      BY <1>1 DEF Edo!Known
    <2>1. Edo!Sent \notin {Edo!Ready, Edo!Broken} BY DEF Edo!Sent, Edo!Ready, Edo!Broken
    <2>2. k # Len(invites) + 1 BY <2>1, <1>2, <1>3
    <2>3. k \in 1..Len(invites) BY <2>2, <1>1, <1>3
    <2> QED BY <2>3, <1>3 DEF Edo!Known
  <1>6. routes' \subseteq Issuers \X Parties BY <1>1 DEF Edo!TypeOK
  <1> QED BY <1>1, <1>4, <1>5, <1>6, EdoWorldKeeps

LEMMA AcceptStep ==
  ASSUME Edo!IInv, NEW k \in 1..Len(invites), Edo!Accept(k) \/ Edo!Break(k)
  PROVE  Edo!IInv'
  <1> USE DEF Edo!IInv
  <1>1. UNCHANGED <<op, faults, org, direct, edits>> BY DEF Edo!Accept, Edo!Break, Edo!Still
  <1>2. PICK state \in {Edo!Ready, Edo!Broken} : invites' = [invites EXCEPT ![k].state = state]
    BY DEF Edo!Accept, Edo!Break
  <1> DEFINE new == [invites[k] EXCEPT !.state = state]
  <1>3. invites \in Seq(Invitation) /\ invites[k] \in Invitation /\ Len(invites) \in Nat BY InvitationsAre
  <1>4. new \in Invitation /\ new.from = invites[k].from /\ new.to = invites[k].to BY <1>2, <1>3 DEF Invitation
  <1> HIDE DEF new
  <1>5. invites' = [invites EXCEPT ![k] = new] BY <1>2 DEF new
  <1>6. /\ invites' \in Seq(Invitation) /\ Len(invites') = Len(invites)
        /\ invites'[k] = new /\ \A n \in 1..Len(invites) : n # k => invites'[n] = invites[n]
    BY <1>3, <1>4, <1>5, ExceptSeq
  <1>7. Len(invites) <= MaxInvites BY DEF Edo!TypeOK
  <1>8. EdoGrown BY <1>3, <1>4, <1>6, <1>7 DEF EdoGrown
  <1>9. routes' \subseteq Issuers \X Parties /\ routes \subseteq routes'
    BY InvitationsAre DEF Edo!Accept, Edo!Break, Edo!TypeOK
  <1>10. <<invites[k].from, invites[k].to>> \in routes' BY DEF Edo!Accept, Edo!Break, Edo!Known
  <1>11. Edo!Known'
    <2> SUFFICES ASSUME NEW n \in 1..Len(invites),
                        invites'[n].state \in {Edo!Ready, Edo!Broken}
                 PROVE  <<invites'[n].from, invites'[n].to>> \in routes'
      BY <1>1, <1>6, <1>9 DEF Edo!Known
    <2>1. CASE n = k BY <2>1, <1>4, <1>6, <1>10
    <2>2. CASE n # k BY <2>2, <1>6, <1>9 DEF Edo!Known
    <2> QED BY <2>1, <2>2
  <1> QED BY <1>1, <1>8, <1>9, <1>11, EdoWorldKeeps

LEMMA InvitationsInit ==
  ASSUME Edo!Init
  PROVE  Edo!IInv
  <1>1. /\ org \in Edo!Row /\ org.inv = Edo!None /\ org.state = Edo!None
        /\ invites = <<>> /\ direct \in {{}, {<<Home, org.who>>}} /\ routes = direct
        /\ faults = 0 /\ edits = 0
    BY DEF Edo!Init
  <1>2. PICK first : first = Edo!NoRow /\ first.inv = Edo!None /\ first.state = Edo!None /\ first \in Edo!Row
    <2>1. PICK w : w = CHOOSE x \in Parties : TRUE OBVIOUS
    <2>2. org.who \in Parties BY <1>1 DEF Edo!Row
    <2>3. w \in Parties BY <2>1, <2>2
    <2>4. Edo!NoRow = [who |-> w, inv |-> Edo!None, state |-> Edo!None] BY <2>1 DEF Edo!NoRow
    <2>5. 0 \in 0..MaxInvites BY ComponentConstants DEF Edo!EdoConstants
    <2> QED BY <2>3, <2>4, <2>5 DEF Edo!Row, Edo!None
  <1> DEFINE r == [at |-> "idle", issuer |-> Home, seen |-> first, inv |-> Edo!None, state |-> Edo!None]
  <1>3. op = [p \in Edo!Ops |-> r] BY <1>2 DEF Edo!Init
  <1>4. /\ r \in Inquiry /\ r.at = "idle" /\ r.seen = first /\ r.inv = Edo!None /\ r.state = Edo!None
    BY <1>2, ComponentConstants DEF Inquiry, Places, States, Edo!None,
         Edo!EdoConstants
  <1> HIDE DEF r
  <1>5. \A p \in Edo!Ops : /\ op[p].at = "idle" /\ op[p].seen = first
                           /\ op[p].inv = Edo!None /\ op[p].state = Edo!None
    BY <1>3, <1>4
  <1>6. op \in [Edo!Ops -> Inquiry] BY <1>3, <1>4
  <1>7. Edo!TypeOK
    <2>1. direct \subseteq Issuers \X Parties BY <1>1, ComponentConstants DEF Edo!Row, Edo!EdoConstants
    <2>2. invites \in Seq([from : Issuers, to : Parties, state : {Edo!Sent, Edo!Ready, Edo!Broken}])
          /\ Len(invites) <= MaxInvites
      BY <1>1, ComponentConstants DEF Edo!EdoConstants
    <2>3. faults \in 0..MaxFaults /\ edits \in 0..MaxEdits BY <1>1, ComponentConstants DEF Edo!EdoConstants
    <2> QED BY <1>1, <1>6, <2>1, <2>2, <2>3 DEF Edo!TypeOK, Inquiry, Places, States
  <1>8. Edo!Known BY <1>1 DEF Edo!Known
  <1>9. Edo!Names(Edo!None, Edo!None) /\ Edo!Apt(Edo!None, Edo!None)
    BY <1>1 DEF Edo!Names, Edo!Apt, Edo!None, Edo!Sent,
         Edo!Ready
  <1>10. Edo!Held BY <1>1, <1>2, <1>5, <1>9 DEF Edo!Held
  <1>11. Edo!About BY <1>1, <1>2, <1>5, <1>9 DEF Edo!About
  <1> QED BY <1>7, <1>8, <1>10, <1>11 DEF Edo!IInv

LEMMA InvitationsStep ==
  ASSUME Edo!IInv, Edo!Next
  PROVE  Edo!IInv'
  BY BeginStep, InviteStep, PeekStep, ReadStep, ListStep, EdoSaveStep, EditStep, OtherStep,
     AcceptStep DEF Edo!Next

LEMMA InvitationsStay ==
  ASSUME Edo!IInv, UNCHANGED Edo!vars
  PROVE  Edo!IInv'
  <1>1. Edo!TypeOK' /\ Edo!Known' BY DEF Edo!IInv, Edo!vars, Edo!TypeOK, Edo!Known
  <1>2. Edo!Held' /\ Edo!About'
    BY DEF Edo!IInv, Edo!vars, Edo!Held, Edo!About,
         Edo!Names, Edo!Apt, Edo!Routed
  <1> QED BY <1>1, <1>2 DEF Edo!IInv

LEMMA InvitationsIs ==
  ASSUME Edo!IInv
  PROVE  Edo!TypeOK /\ Edo!RouteKnown
  BY DEF Edo!IInv, Edo!RouteKnown, Edo!Held, Edo!Names,
       Edo!About, Edo!Apt, Edo!Routed

LEMMA InvitationsAlways == Spec => [](which = "Edo" => Edo!IInv)
  <1> DEFINE I == which = "Edo" => Edo!IInv
  <1>1. Init => I BY InvitationsInit, ComponentConstants DEF Init
  <1>2. I /\ [Next]_vars => I'
    <2>1. ASSUME Edo!IInv, [Edo!Next]_Edo!vars PROVE Edo!IInv'
      BY <2>1, InvitationsStep, InvitationsStay, ComponentConstants
    <2>2. ASSUME [Next]_vars, which' = "Edo"
          PROVE  which = "Edo" /\ [Edo!Next]_Edo!vars
      BY <2>2 DEF Next, vars, Edo!vars
    <2> QED BY <2>1, <2>2
  <1> QED BY <1>1, <1>2, PTL DEF Spec

------------------------
\* The issuers: a request on its own leaves one primary organization at every step
\* (Firm!IInv).

\* FiniteSets is the same there as here.
LEMMA IssuingCounts ==
  \A S : Firm!Cardinality(S) = Cardinality(S) /\ (Firm!IsFiniteSet(S) <=> IsFiniteSet(S))
  BY DEF Cardinality, Firm!Cardinality, IsFiniteSet, Firm!IsFiniteSet



Request == [at : {"idle", "clear", "insert", "save", "destroy", "promote", "over"},
            id : 0..MaxOrgs, primary : BOOLEAN, alone : BOOLEAN]

\* What a step of request p leaves as it is: the other requests, and all of p but its place.
LEMMA GoneTo ==
  ASSUME Firm!TypeOK, NEW p \in Edits,
         NEW at \in {"idle", "clear", "insert", "save", "destroy", "promote", "over"},
         Firm!Goto(p, at)
  PROVE  /\ op' \in [Edits -> Request]
         /\ op'[p].at = at
         /\ op'[p].id = op[p].id /\ op'[p].primary = op[p].primary
         /\ op'[p].alone = op[p].alone
         /\ \A q \in Edits \ {p} : op'[q] = op[q]
  <1>1. op[p] \in Request BY DEF Firm!TypeOK, Request
  <1>2. [op[p] EXCEPT !.at = at] \in Request BY <1>1 DEF Request
  <1>3. op' = [op EXCEPT ![p] = [op[p] EXCEPT !.at = at]] BY DEF Firm!Goto
  <1>4. op' \in [Edits -> Request] BY <1>2, <1>3 DEF Firm!TypeOK, Request
  <1>5. op'[p] = [op[p] EXCEPT !.at = at] BY <1>3 DEF Firm!TypeOK
  <1>6. /\ op'[p].at = at /\ op'[p].id = op[p].id
        /\ op'[p].primary = op[p].primary /\ op'[p].alone = op[p].alone
    BY <1>1, <1>5 DEF Request
  <1>7. \A q \in Edits \ {p} : op'[q] = op[q] BY <1>3 DEF Firm!TypeOK
  <1> QED BY <1>4, <1>6, <1>7

\* A request that begins is alone if it has no company, and the others no longer are.
LEMMA Begun ==
  ASSUME Firm!TypeOK, NEW p \in Edits, NEW at \in {"clear", "insert", "save", "destroy"},
         NEW id \in 0..MaxOrgs, NEW primary \in BOOLEAN, Firm!Begin(p, at, id, primary)
  PROVE  /\ Firm!TypeOK'
         /\ op'[p] = [at |-> at, id |-> id, primary |-> primary, alone |-> Firm!Alone(p)]
         /\ \A q \in Edits \ {p} :
              /\ op'[q].at = op[q].at /\ op'[q].id = op[q].id
              /\ op'[q].primary = op[q].primary
              /\ op'[q].alone <=> op[q].alone /\ ~Firm!Live(q)
  <1> DEFINE new == [at |-> at, id |-> id, primary |-> primary, alone |-> Firm!Alone(p)]
  <1>1. Firm!Alone(p) \in BOOLEAN BY DEF Firm!Alone, Firm!Live
  <1>2. new \in Request BY <1>1 DEF Request
  <1>3. op'[p] = new BY DEF Firm!Begin
  <1>4. ASSUME NEW q \in Edits \ {p}
        PROVE  /\ op'[q] \in Request
               /\ op'[q].at = op[q].at /\ op'[q].id = op[q].id
               /\ op'[q].primary = op[q].primary
               /\ op'[q].alone <=> op[q].alone /\ ~Firm!Live(q)
    <2>1. op[q] \in Request BY DEF Firm!TypeOK, Request
    <2>2. (op[q].alone /\ ~Firm!Live(q)) \in BOOLEAN OBVIOUS
    <2>3. op'[q] = [op[q] EXCEPT !.alone = op[q].alone /\ ~Firm!Live(q)] BY DEF Firm!Begin
    <2>4. /\ op'[q].at = op[q].at /\ op'[q].id = op[q].id
          /\ op'[q].primary = op[q].primary
      BY <2>1, <2>3 DEF Request
    <2>5. op'[q].alone = (op[q].alone /\ ~Firm!Live(q)) BY <2>1, <2>3 DEF Request
    <2>6. op'[q] \in Request BY <2>1, <2>2, <2>3 DEF Request
    <2> QED BY <2>4, <2>5, <2>6
  <1>5. op' \in [Edits -> Request]
    <2> DEFINE f(q) == IF q = p THEN new ELSE [op[q] EXCEPT !.alone = @ /\ ~Firm!Live(q)]
    <2>1. op' = [q \in Edits |-> f(q)] BY DEF Firm!Begin
    <2>2. \A q \in Edits : op'[q] = f(q) BY <2>1
    <2>3. \A q \in Edits : op'[q] \in Request BY <1>2, <1>3, <1>4
    <2> HIDE DEF f
    <2> QED BY <2>1, <2>2, <2>3
  <1>6. doubtful' \in BOOLEAN BY DEF Firm!Begin, Firm!Alone, Firm!Live, Firm!TypeOK
  <1>7. UNCHANGED <<rows, last>> BY DEF Firm!Begin
  <1>8. Firm!TypeOK' BY <1>5, <1>6, <1>7 DEF Firm!TypeOK, Request, Firm!Orgs
  <1> QED BY <1>3, <1>4, <1>8


\* What a request finds when it begins.
Entry(at, id, primary) ==
  /\ at = "clear" => primary /\ (id # Firm!New => id \in Firm!There)
  /\ at = "insert" => ~primary /\ Firm!There # {}
  /\ at = "save" => id \in Firm!There /\ (primary => Firm!There = {id})
  /\ at = "destroy" => id \in Firm!There /\ (primary <=> rows[id] = "primary")

LEMMA BeginKeeps ==
  ASSUME Firm!IInv, NEW p \in Edits, NEW at \in {"clear", "insert", "save", "destroy"},
         NEW id \in 0..MaxOrgs, NEW primary \in BOOLEAN, Firm!Begin(p, at, id, primary),
         Entry(at, id, primary)
  PROVE  Firm!IInv'
  <1> USE DEF Firm!IInv
  <1>1. /\ Firm!TypeOK'
        /\ op'[p] = [at |-> at, id |-> id, primary |-> primary, alone |-> Firm!Alone(p)]
        /\ \A q \in Edits \ {p} :
             /\ op'[q].at = op[q].at /\ op'[q].id = op[q].id
             /\ op'[q].primary = op[q].primary
             /\ op'[q].alone <=> op[q].alone /\ ~Firm!Live(q)
    BY Begun
  <1>2. /\ op'[p].at = at /\ op'[p].id = id /\ op'[p].primary = primary
        /\ op'[p].alone = Firm!Alone(p)
    BY <1>1
  <1>3. /\ UNCHANGED <<rows, last, Firm!There, Firm!Primaries>> /\ op[p].at = "idle"
        /\ doubtful' <=> (doubtful \/ ~Firm!Alone(p))
    BY DEF Firm!Begin, Firm!There, Firm!Primaries
  <1>4. /\ ~Firm!Live(p)
        /\ \A q \in Edits \ {p} : Firm!Live(q)' <=> Firm!Live(q)
    BY <1>1, <1>3 DEF Firm!Live
  <1>5. Firm!Alone(p)' <=> Firm!Alone(p) BY <1>4 DEF Firm!Alone
  <1>6. Firm!Numbered' BY <1>3 DEF Firm!Numbered
  <1>7. Firm!Apart'
    <2> SUFFICES ASSUME NEW q \in Edits, Firm!Live(q)', op'[q].alone \/ ~doubtful'
                 PROVE  op'[q].alone /\ Firm!Alone(q)'
      BY DEF Firm!Apart
    <2>1. CASE q = p BY <2>1, <1>2, <1>3, <1>5
    <2>2. CASE q # p
      <3>1. Firm!Live(q) /\ ~op'[q].alone BY <2>2, <1>1, <1>4
      <3>2. Firm!Alone(p) BY <3>1, <1>3
      <3> QED BY <3>1, <3>2, <2>2 DEF Firm!Alone
    <2> QED BY <2>1, <2>2
  <1>8. Firm!Aimed'
    <2> SUFFICES ASSUME NEW q \in Edits, op'[q].alone
                 PROVE  /\ op'[q].at = "clear" =>
                              op'[q].primary /\ (op'[q].id # Firm!New => op'[q].id \in Firm!There')
                        /\ op'[q].at = "insert" =>
                              IF op'[q].primary THEN Firm!Primaries' = {} ELSE Firm!There' # {}
                        /\ op'[q].at = "save" =>
                              /\ op'[q].id \in Firm!There'
                              /\ op'[q].primary => Firm!Primaries' \subseteq {op'[q].id}
                        /\ op'[q].at = "destroy" =>
                              /\ op'[q].id \in Firm!There'
                              /\ op'[q].primary <=> rows'[op'[q].id] = "primary"
      BY DEF Firm!Aimed
    <2>1. CASE q = p
      <3>1. Firm!Primaries \subseteq Firm!There BY DEF Firm!Primaries, Firm!There
      <3> QED BY <2>1, <3>1, <1>2, <1>3 DEF Entry
    <2>2. CASE q # p
      <3>1. op'[q].at \in {"idle", "over"} BY <2>2, <1>1 DEF Firm!Live
      <3> QED BY <3>1
    <2> QED BY <2>1, <2>2
  <1>9. Firm!SingleInTurn'
    <2> SUFFICES ASSUME ~doubtful'
                 PROVE  Firm!Single' /\ \A q \in Edits : op'[q].at # "promote"
      BY DEF Firm!SingleInTurn
    <2>1. ~doubtful /\ Firm!Alone(p) BY <1>3
    <2>2. \A q \in Edits : ~Firm!Live(q) BY <2>1, <1>4 DEF Firm!Alone
    <2>3. Firm!Single BY <2>1, <2>2 DEF Firm!SingleInTurn
    <2>4. Firm!Single' BY <2>3, <1>3 DEF Firm!Single
    <2>5. \A q \in Edits : op'[q].at # "promote" BY <2>2, <1>1, <1>2 DEF Firm!Live
    <2> QED BY <2>4, <2>5
  <1> QED BY <1>1, <1>6, <1>7, <1>8, <1>9

LEMMA IssuerBeginSteps ==
  ASSUME Firm!IInv, NEW p \in Edits, NEW wanted \in BOOLEAN, NEW i,
         Firm!BeginCreate(p, wanted) \/ Firm!BeginUpdate(p, i, wanted) \/ Firm!BeginDelete(p, i)
  PROVE  Firm!IInv'
  <1>1. CASE Firm!BeginCreate(p, wanted)
    <2> DEFINE primary == wanted \/ Firm!There = {}
               at == IF primary THEN "clear" ELSE "insert"
    <2>1. Firm!Begin(p, at, Firm!New, primary) /\ primary \in BOOLEAN BY <1>1 DEF Firm!BeginCreate
    <2>2. Entry(at, Firm!New, primary) BY DEF Entry
    <2>3. at \in {"clear", "insert", "save", "destroy"} /\ Firm!New \in 0..MaxOrgs
      BY ComponentConstants DEF Firm!New, Firm!IssuerConstants
    <2> HIDE DEF primary, at
    <2> QED BY <2>1, <2>2, <2>3, BeginKeeps
  <1>2. CASE Firm!BeginUpdate(p, i, wanted)
    <2> DEFINE primary == wanted \/ (rows[i] = "primary" /\ Firm!There = {i})
               at == IF wanted THEN "clear" ELSE "save"
    <2>1. Firm!Begin(p, at, i, primary) /\ primary \in BOOLEAN BY <1>2 DEF Firm!BeginUpdate
    <2>2. Entry(at, i, primary) BY <1>2 DEF Entry, Firm!BeginUpdate
    <2>3. at \in {"clear", "insert", "save", "destroy"} /\ i \in 0..MaxOrgs
      BY <1>2, ComponentConstants DEF Firm!BeginUpdate, Firm!There, Firm!Orgs,
           Firm!IssuerConstants
    <2> HIDE DEF primary, at
    <2> QED BY <2>1, <2>2, <2>3, BeginKeeps
  <1>3. CASE Firm!BeginDelete(p, i)
    <2> DEFINE primary == rows[i] = "primary"
    <2>1. Firm!Begin(p, "destroy", i, primary) /\ primary \in BOOLEAN BY <1>3 DEF Firm!BeginDelete
    <2>2. Entry("destroy", i, primary) BY <1>3 DEF Entry, Firm!BeginDelete
    <2>3. i \in 0..MaxOrgs
      BY <1>3, ComponentConstants DEF Firm!BeginDelete, Firm!There, Firm!Orgs,
           Firm!IssuerConstants
    <2> HIDE DEF primary
    <2> QED BY <2>1, <2>2, <2>3, BeginKeeps
  <1> QED BY <1>1, <1>2, <1>3

\* Steps of a request that is under way, in terms of what they do: request q # p is where it
\* was, and p is where it went.
LEMMA OthersIs ==
  ASSUME Firm!TypeOK, NEW p \in Edits, Firm!Live(p),
         NEW at \in {"idle", "clear", "insert", "save", "destroy", "promote", "over"},
         Firm!Goto(p, at)
  PROVE  /\ \A q \in Edits \ {p} : Firm!Live(q)' <=> Firm!Live(q)
         /\ Firm!Alone(p)' <=> Firm!Alone(p)
         /\ \A q \in Edits \ {p} : ~Firm!Alone(q)
  <1>1. \A q \in Edits \ {p} : op'[q] = op[q] BY GoneTo
  <1>2. \A q \in Edits \ {p} : Firm!Live(q)' <=> Firm!Live(q) BY <1>1 DEF Firm!Live
  <1>3. Firm!Alone(p)' <=> Firm!Alone(p) BY <1>2 DEF Firm!Alone
  <1>4. \A q \in Edits \ {p} : ~Firm!Alone(q) BY DEF Firm!Alone
  <1> QED BY <1>2, <1>3, <1>4


LEMMA WorkKeeps ==
  ASSUME Firm!IInv, NEW p \in Edits, Firm!Live(p),
         NEW at \in {"insert", "save", "promote", "over"}, Firm!Goto(p, at),
         Firm!TypeOK', Firm!Numbered', doubtful => doubtful' \/ (op[p].alone /\ at = "over"),
         op[p].alone =>
           /\ at = "insert" => IF op[p].primary THEN Firm!Primaries' = {} ELSE Firm!There' # {}
           /\ at = "save" => /\ op[p].id \in Firm!There'
                             /\ op[p].primary => Firm!Primaries' \subseteq {op[p].id},
         op[p].alone /\ ~doubtful' =>
           /\ at = "promote" => Firm!Primaries' = {}
           /\ (at = "over" \/ (at \in {"insert", "save"} /\ ~op[p].primary)) => Firm!Single'
  PROVE  Firm!IInv'
  <1> USE DEF Firm!IInv
  <1>1. /\ op'[p].at = at /\ op'[p].id = op[p].id /\ op'[p].primary = op[p].primary
        /\ op'[p].alone = op[p].alone
        /\ \A q \in Edits \ {p} : op'[q] = op[q]
    BY GoneTo
  <1>2. /\ \A q \in Edits \ {p} : Firm!Live(q)' <=> Firm!Live(q)
        /\ Firm!Alone(p)' <=> Firm!Alone(p)
        /\ \A q \in Edits \ {p} : ~Firm!Alone(q)
    BY OthersIs
  <1>3. op[p].alone => Firm!Alone(p) BY DEF Firm!Apart
  <1>4. ~doubtful' => op[p].alone BY DEF Firm!Apart
  <1>5. ASSUME NEW q \in Edits \ {p}, op[q].alone \/ ~doubtful'
        PROVE  ~Firm!Live(q)
    <2>1. CASE op[q].alone BY <2>1, <1>2 DEF Firm!Apart
    <2>2. CASE ~doubtful' BY <2>2, <1>3, <1>4 DEF Firm!Alone
    <2> QED BY <2>1, <2>2, <1>5
  <1>6. Firm!Apart'
    <2> SUFFICES ASSUME NEW q \in Edits, Firm!Live(q)', op'[q].alone \/ ~doubtful'
                 PROVE  op'[q].alone /\ Firm!Alone(q)'
      BY DEF Firm!Apart
    <2>1. CASE q = p BY <2>1, <1>1, <1>2, <1>3, <1>4
    <2>2. CASE q # p BY <2>2, <1>1, <1>2, <1>5
    <2> QED BY <2>1, <2>2
  <1>7. Firm!Aimed'
    <2> SUFFICES ASSUME NEW q \in Edits, op'[q].alone
                 PROVE  /\ op'[q].at = "clear" =>
                              op'[q].primary /\ (op'[q].id # Firm!New => op'[q].id \in Firm!There')
                        /\ op'[q].at = "insert" =>
                              IF op'[q].primary THEN Firm!Primaries' = {} ELSE Firm!There' # {}
                        /\ op'[q].at = "save" =>
                              /\ op'[q].id \in Firm!There'
                              /\ op'[q].primary => Firm!Primaries' \subseteq {op'[q].id}
                        /\ op'[q].at = "destroy" =>
                              /\ op'[q].id \in Firm!There'
                              /\ op'[q].primary <=> rows'[op'[q].id] = "primary"
      BY DEF Firm!Aimed
    <2>1. CASE q = p BY <2>1, <1>1
    <2>2. CASE q # p
      <3>1. op'[q].at \in {"idle", "over"} BY <2>2, <1>1, <1>5 DEF Firm!Live
      <3> QED BY <3>1
    <2> QED BY <2>1, <2>2
  <1>8. Firm!SingleInTurn'
    <2> SUFFICES ASSUME ~doubtful'
                 PROVE  /\ (\A q \in Edits : Firm!Live(q)' => Firm!Sparing(q)') => Firm!Single'
                        /\ \A q \in Edits : op'[q].at = "promote" => Firm!Primaries' = {}
      BY DEF Firm!SingleInTurn
    <2>1. op[p].alone BY <1>4
    <2>2. ASSUME \A q \in Edits : Firm!Live(q)' => Firm!Sparing(q)'
          PROVE  Firm!Single'
      <3>1. at = "over" \/ (at \in {"insert", "save"} /\ ~op[p].primary) BY <2>2, <1>1 DEF Firm!Live, Firm!Sparing
      <3> QED BY <3>1, <2>1
    <2>3. ASSUME NEW q \in Edits, op'[q].at = "promote"
          PROVE  Firm!Primaries' = {}
      <3>1. q = p BY <2>3, <1>1, <1>5 DEF Firm!Live
      <3> QED BY <3>1, <2>1, <2>3, <1>1
    <2> QED BY <2>2, <2>3
  <1> QED BY <1>6, <1>7, <1>8

LEMMA ClearStep ==
  ASSUME Firm!IInv, NEW p \in Edits, Firm!Clear(p)
  PROVE  Firm!IInv'
  <1> USE DEF Firm!IInv
  <1> DEFINE at == IF op[p].id = Firm!New THEN "insert" ELSE "save"
  <1>1. at \in {"insert", "save", "promote", "over"} /\ Firm!Live(p) /\ Firm!Goto(p, at)
    BY DEF Firm!Clear, Firm!Live
  <1>2. UNCHANGED <<last, doubtful>> BY DEF Firm!Clear
  <1>3. /\ rows' \in [Firm!Orgs -> {"none", "plain", "primary"}]
        /\ \A i \in Firm!Orgs :
             rows'[i] = IF rows[i] = "primary" /\ i # op[p].id THEN "plain" ELSE rows[i]
    BY DEF Firm!Clear, Firm!TypeOK
  <1>4. Firm!TypeOK' BY <1>1, <1>2, <1>3, GoneTo DEF Firm!TypeOK, Request
  <1>5. Firm!Numbered' BY <1>2, <1>3 DEF Firm!Numbered
  <1>6. Firm!There' = Firm!There /\ Firm!Primaries' \subseteq {op[p].id} BY <1>3 DEF Firm!There, Firm!Primaries
  <1>7. op[p].id = Firm!New => Firm!Primaries' = {}
    BY <1>6, ComponentConstants DEF Firm!New, Firm!Primaries, Firm!Orgs,
         Firm!IssuerConstants
  <1>8. op[p].alone => op[p].primary /\ (op[p].id # Firm!New => op[p].id \in Firm!There)
    BY DEF Firm!Aimed, Firm!Clear
  <1> HIDE DEF at
  <1>9. /\ at = "insert" => op[p].id = Firm!New
        /\ at = "save" => op[p].id # Firm!New
        /\ at \in {"insert", "save"}
    BY DEF at
  <1> QED BY <1>1, <1>2, <1>4, <1>5, <1>6, <1>7, <1>8, <1>9, WorkKeeps

LEMMA IssuerInsertStep ==
  ASSUME Firm!IInv, NEW p \in Edits, Firm!Insert(p)
  PROVE  Firm!IInv'
  <1> USE DEF Firm!IInv
  <1>1. Firm!Live(p) /\ Firm!Goto(p, "over") /\ op[p].at = "insert" BY DEF Firm!Insert, Firm!Live
  <1> DEFINE i == last + 1
             new == IF op[p].primary THEN "primary" ELSE "plain"
  <1>2. /\ last' = i /\ i \in Firm!Orgs /\ last \in 0..MaxOrgs /\ i \in 0..MaxOrgs
        /\ doubtful' = (doubtful /\ ~(op[p].primary /\ op[p].alone))
        /\ doubtful' \in BOOLEAN
    BY ComponentConstants DEF Firm!Insert, Firm!TypeOK, Firm!Orgs, Firm!IssuerConstants
  <1>3. /\ rows' \in [Firm!Orgs -> {"none", "plain", "primary"}]
        /\ rows'[i] = new
        /\ \A j \in Firm!Orgs \ {i} : rows'[j] = rows[j]
    BY <1>2 DEF Firm!Insert, Firm!TypeOK
  <1>4. Firm!TypeOK' BY <1>1, <1>2, <1>3, GoneTo DEF Firm!TypeOK, Request
  <1>5. Firm!Numbered'
    <2> SUFFICES ASSUME NEW j \in Firm!Orgs, j > i PROVE rows'[j] = "none" BY <1>2 DEF Firm!Numbered
    <2>1. j \in Int /\ last \in Int /\ j > last /\ j # i
      BY <1>2, ComponentConstants DEF Firm!Orgs, Firm!IssuerConstants
    <2> QED BY <2>1, <1>3 DEF Firm!Numbered
  <1>6. rows[i] = "none"
    <2>1. i > last BY <1>2, ComponentConstants DEF Firm!IssuerConstants
    <2> QED BY <1>2, <2>1 DEF Firm!Numbered
  <1> HIDE DEF i
  <1>7. ASSUME op[p].alone, ~doubtful' PROVE Firm!Single'
    <2>1. IF op[p].primary THEN Firm!Primaries = {} ELSE Firm!There # {} BY <1>1, <1>7 DEF Firm!Aimed
    <2>2. CASE op[p].primary
      <3>1. Firm!Primaries' = {i} BY <2>1, <2>2, <1>2, <1>3 DEF Firm!Primaries
      <3> QED BY <3>1, <1>2 DEF Firm!Single
    <2>3. CASE ~op[p].primary
      <3>1. ~doubtful BY <2>3, <1>2, <1>7
      <3>2. \A q \in Edits : Firm!Live(q) => Firm!Sparing(q)
        BY <2>3, <1>1, <1>7 DEF Firm!Apart, Firm!Alone, Firm!Sparing
      <3>3. Firm!Single BY <3>1, <3>2 DEF Firm!SingleInTurn
      <3>4. Firm!Primaries' = Firm!Primaries BY <2>3, <1>2, <1>3, <1>6 DEF Firm!Primaries
      <3> QED BY <3>3, <3>4, <2>1, <2>3 DEF Firm!Single
    <2> QED BY <2>2, <2>3
  <1>8. doubtful => doubtful' \/ op[p].alone BY <1>2
  <1> QED BY <1>1, <1>4, <1>5, <1>7, <1>8, WorkKeeps

LEMMA IssuerSaveStep ==
  ASSUME Firm!IInv, NEW p \in Edits, Firm!Save(p)
  PROVE  Firm!IInv'
  <1> USE DEF Firm!IInv
  <1>1. Firm!Live(p) /\ Firm!Goto(p, "over") /\ op[p].at = "save" BY DEF Firm!Save, Firm!Live
  <1> DEFINE i == op[p].id
             new == IF op[p].primary THEN "primary" ELSE "plain"
  <1>2. /\ UNCHANGED last
        /\ rows' = IF rows[i] = "none" THEN rows ELSE [rows EXCEPT ![i] = new]
        /\ doubtful' = IF op[p].primary THEN doubtful /\ ~op[p].alone
                       ELSE doubtful \/ rows[i] = "primary"
        /\ op[p] \in Request
    BY DEF Firm!Save, Firm!TypeOK, Request
  <1>3. doubtful' \in BOOLEAN BY <1>2 DEF Firm!TypeOK
  <1>4. /\ rows' \in [Firm!Orgs -> {"none", "plain", "primary"}]
        /\ \A j \in Firm!Orgs :
             rows'[j] = IF j = i /\ rows[j] # "none" THEN new ELSE rows[j]
    BY <1>2 DEF Firm!TypeOK
  <1>5. Firm!TypeOK' BY <1>1, <1>2, <1>3, <1>4, GoneTo DEF Firm!TypeOK, Request
  <1>6. Firm!Numbered' BY <1>2, <1>4 DEF Firm!Numbered
  <1>7. ASSUME op[p].alone, ~doubtful' PROVE Firm!Single'
    <2>1. i \in Firm!There /\ (op[p].primary => Firm!Primaries \subseteq {i}) BY <1>1, <1>7 DEF Firm!Aimed
    <2>2. i \in Firm!Orgs /\ rows[i] # "none" BY <2>1 DEF Firm!There
    <2>3. CASE op[p].primary
      <3>1. Firm!Primaries' = {i} BY <2>1, <2>2, <2>3, <1>4 DEF Firm!Primaries
      <3> QED BY <3>1, <2>2 DEF Firm!Single
    <2>4. CASE ~op[p].primary
      <3>1. ~doubtful /\ rows[i] # "primary" BY <2>4, <1>2, <1>7
      <3>2. \A q \in Edits : Firm!Live(q) => Firm!Sparing(q)
        BY <2>4, <1>1, <1>7 DEF Firm!Apart, Firm!Alone, Firm!Sparing
      <3>3. Firm!Single BY <3>1, <3>2 DEF Firm!SingleInTurn
      <3>4. Firm!Primaries' = Firm!Primaries BY <2>4, <3>1, <1>4 DEF Firm!Primaries
      <3>5. Firm!There # {} BY <2>1
      <3> QED BY <3>3, <3>4, <3>5 DEF Firm!Single
    <2> QED BY <2>3, <2>4
  <1>8. doubtful => doubtful' \/ op[p].alone BY <1>2
  <1> QED BY <1>1, <1>5, <1>6, <1>7, <1>8, WorkKeeps

LEMMA IssuerDestroyStep ==
  ASSUME Firm!IInv, NEW p \in Edits, Firm!Destroy(p)
  PROVE  Firm!IInv'
  <1> USE DEF Firm!IInv
  <1> DEFINE at == IF op[p].primary THEN "promote" ELSE "over"
             i == op[p].id
  <1>1. at \in {"insert", "save", "promote", "over"} /\ Firm!Live(p) /\ Firm!Goto(p, at)
        /\ op[p].at = "destroy"
    BY DEF Firm!Destroy, Firm!Live
  <1>2. UNCHANGED <<last, doubtful>> BY DEF Firm!Destroy
  <1>3. /\ rows' \in [Firm!Orgs -> {"none", "plain", "primary"}]
        /\ \A j \in Firm!Orgs : rows'[j] = IF j = i THEN "none" ELSE rows[j]
    BY DEF Firm!Destroy, Firm!TypeOK
  <1>4. Firm!TypeOK' BY <1>1, <1>2, <1>3, GoneTo DEF Firm!TypeOK, Request
  <1>5. Firm!Numbered' BY <1>2, <1>3 DEF Firm!Numbered
  <1>6. ASSUME op[p].alone, ~doubtful' 
        PROVE  /\ op[p].primary => Firm!Primaries' = {}
               /\ ~op[p].primary => Firm!Single'
    <2>1. i \in Firm!There /\ (op[p].primary <=> rows[i] = "primary") BY <1>1, <1>6 DEF Firm!Aimed
    <2>2. \A q \in Edits : Firm!Live(q) => Firm!Sparing(q) BY <1>1, <1>6 DEF Firm!Apart, Firm!Alone, Firm!Sparing
    <2>3. Firm!Single BY <2>2, <1>2, <1>6 DEF Firm!SingleInTurn
    <2>4. PICK one \in Firm!Orgs : Firm!Primaries = {one} BY <2>1, <2>3 DEF Firm!Single
    <2>5. CASE op[p].primary
      <3>1. one = i BY <2>1, <2>4, <2>5 DEF Firm!Primaries, Firm!There
      <3>2. Firm!Primaries' = {} BY <3>1, <2>4, <1>3 DEF Firm!Primaries
      <3> QED BY <3>2, <2>5
    <2>6. CASE ~op[p].primary
      <3>1. Firm!Primaries' = Firm!Primaries BY <2>1, <2>6, <1>3 DEF Firm!Primaries, Firm!There
      <3> QED BY <3>1, <2>4, <2>6 DEF Firm!Single
    <2> QED BY <2>5, <2>6
  <1> HIDE DEF at, i
  <1>7. /\ at = "promote" => op[p].primary
        /\ at = "over" => ~op[p].primary
        /\ at \in {"promote", "over"}
    BY DEF at
  <1> QED BY <1>1, <1>2, <1>4, <1>5, <1>6, <1>7, WorkKeeps

\* The oldest of the organizations there are, if there are any.
LEMMA OldestIs ==
  ASSUME Firm!There # {}
  PROVE  \E i \in Firm!There : \A j \in Firm!There : i <= j
  <1>1. Firm!There \subseteq Nat BY ComponentConstants DEF Firm!There, Firm!Orgs, Firm!IssuerConstants
  <1> DEFINE less == {ss \in Nat \X Nat : ss[1] < ss[2]}
  <1>2. OpToRel(<, Nat) = less BY Zenon DEF OpToRel
  <1>3. IsWellFoundedOn(less, Nat) BY <1>2, NatLessThanWellFounded
  <1>4. PICK i \in Firm!There : \A j \in Firm!There : ~(<<j, i>> \in less) BY <1>1, <1>3, WFMin
  <1>5. ASSUME NEW j \in Firm!There PROVE i <= j
    <2>1. i \in Nat /\ j \in Nat BY <1>1
    <2> SUFFICES ASSUME j < i PROVE FALSE BY <2>1
    <2>2. <<j, i>> \in Nat \X Nat /\ <<j, i>>[1] = j /\ <<j, i>>[2] = i BY <2>1
    <2>3. <<j, i>> \in less BY <2>2
    <2> QED BY <2>3, <1>4
  <1> QED BY <1>5

LEMMA PromoteStep ==
  ASSUME Firm!IInv, NEW p \in Edits, Firm!Promote(p)
  PROVE  Firm!IInv'
  <1> USE DEF Firm!IInv
  <1>1. Firm!Live(p) /\ Firm!Goto(p, "over") /\ op[p].at = "promote" BY DEF Firm!Promote, Firm!Live
  <1>2. UNCHANGED <<last, doubtful>> BY DEF Firm!Promote
  <1>3. /\ rows' \in [Firm!Orgs -> {"none", "plain", "primary"}]
        /\ \A i \in Firm!Orgs : rows'[i] = IF i \in Firm!There /\ \A j \in Firm!There : i <= j
                                   THEN "primary" ELSE rows[i]
    BY DEF Firm!Promote, Firm!TypeOK
  <1>4. Firm!TypeOK' BY <1>1, <1>2, <1>3, GoneTo DEF Firm!TypeOK, Request
  <1>5. \A i \in Firm!Orgs : rows[i] = "none" => rows'[i] = "none" BY <1>3 DEF Firm!There
  <1>6. Firm!Numbered' BY <1>2, <1>5 DEF Firm!Numbered
  <1>7. ASSUME ~doubtful' PROVE Firm!Single'
    <2> SUFFICES ASSUME Firm!There' # {} PROVE Firm!Single' BY DEF Firm!Single
    <2>1. Firm!Primaries = {} BY <1>1, <1>2, <1>7 DEF Firm!SingleInTurn
    <2>2. Firm!There # {} BY <1>5 DEF Firm!There
    <2>3. PICK i \in Firm!There : \A j \in Firm!There : i <= j BY <2>2, OldestIs
    <2>4. Firm!Primaries' = {i}
      <3>1. Firm!There \subseteq Nat /\ i \in Firm!Orgs
        BY ComponentConstants DEF Firm!There, Firm!Orgs, Firm!IssuerConstants
      <3>2. i \in Firm!Primaries' BY <2>3, <3>1, <1>3 DEF Firm!Primaries
      <3>3. ASSUME NEW k \in Firm!Primaries' PROVE k = i
        <4>1. k \in Firm!Orgs /\ rows'[k] = "primary" /\ rows[k] # "primary" BY <3>3, <2>1 DEF Firm!Primaries
        <4>2. k \in Firm!There /\ \A j \in Firm!There : k <= j BY <4>1, <1>3
        <4> QED BY <4>2, <2>3, <3>1
      <3> QED BY <3>2, <3>3
    <2> QED BY <2>3, <2>4 DEF Firm!Single, Firm!There
  <1> QED BY <1>1, <1>2, <1>4, <1>6, <1>7, WorkKeeps

LEMMA IssuerFailStep ==
  ASSUME Firm!IInv, NEW p \in Edits, Firm!Fail(p)
  PROVE  Firm!IInv'
  <1> USE DEF Firm!IInv
  <1>1. Firm!Live(p) /\ Firm!Goto(p, "over") BY DEF Firm!Fail
  <1>2. /\ UNCHANGED <<rows, last, Firm!There, Firm!Primaries>>
        /\ doubtful' <=> (doubtful \/ Firm!Halfway(p))
        /\ doubtful' \in BOOLEAN
    BY DEF Firm!Fail, Firm!There, Firm!Primaries, Firm!TypeOK, Firm!Halfway
  <1>3. Firm!TypeOK' BY <1>1, <1>2, GoneTo DEF Firm!TypeOK, Request
  <1>4. Firm!Numbered' BY <1>2 DEF Firm!Numbered
  <1>5. ASSUME op[p].alone, ~doubtful' PROVE Firm!Single'
    <2>1. ~doubtful /\ ~Firm!Halfway(p) BY <1>5, <1>2
    <2>2. CASE Firm!Sparing(p)
      <3>1. \A q \in Edits : Firm!Live(q) => Firm!Sparing(q) BY <2>2, <1>1, <1>5 DEF Firm!Apart, Firm!Alone
      <3>2. Firm!Single BY <3>1, <2>1 DEF Firm!SingleInTurn
      <3> QED BY <3>2, <1>2 DEF Firm!Single
    <2>3. CASE ~Firm!Sparing(p)
      <3>1. op[p].at = "save" /\ op[p].primary /\ rows[op[p].id] = "primary"
        <4>1. op[p].at \in {"insert", "save", "promote", "clear", "destroy"} /\ op[p].primary \in BOOLEAN
          BY <1>1 DEF Firm!Live, Firm!TypeOK
        <4> QED BY <4>1, <2>1, <2>3 DEF Firm!Sparing, Firm!Halfway
      <3>2. op[p].id \in Firm!There /\ Firm!Primaries \subseteq {op[p].id} BY <3>1, <1>5 DEF Firm!Aimed
      <3>3. op[p].id \in Firm!Orgs /\ Firm!Primaries = {op[p].id} BY <3>1, <3>2 DEF Firm!There, Firm!Primaries
      <3> QED BY <3>3, <1>2 DEF Firm!Single
    <2> QED BY <2>2, <2>3
  <1> QED BY <1>1, <1>2, <1>3, <1>4, <1>5, WorkKeeps

LEMMA IssuingInit ==
  ASSUME Firm!Init PROVE Firm!IInv
  <1> DEFINE first == [at |-> "idle", id |-> Firm!New, primary |-> FALSE, alone |-> FALSE]
  <1>1. Firm!TypeOK
    <2>1. first \in Request BY ComponentConstants DEF Request, Firm!New, Firm!IssuerConstants
    <2>2. op \in [Edits -> Request] BY <2>1 DEF Firm!Init
    <2>3. rows = [i \in Firm!Orgs |-> "none"] /\ last = 0 /\ doubtful = FALSE BY DEF Firm!Init
    <2>4. rows \in [Firm!Orgs -> {"none", "plain", "primary"}] BY <2>3
    <2>5. 0 \in 0..MaxOrgs BY ComponentConstants DEF Firm!IssuerConstants
    <2>6. last \in 0..MaxOrgs /\ doubtful \in BOOLEAN BY <2>3, <2>5
    <2> QED BY <2>2, <2>4, <2>6 DEF Firm!TypeOK, Request
  <1>2. Firm!There = {} /\ \A p \in Edits : ~Firm!Live(p) /\ op[p].alone = FALSE
    BY DEF Firm!Init, Firm!There, Firm!Live
  <1> QED
    BY <1>1, <1>2 DEF Firm!Init, Firm!IInv, Firm!Numbered, Firm!Apart, Firm!Aimed,
         Firm!SingleInTurn, Firm!Single, Firm!Live

LEMMA IssuingStep ==
  ASSUME Firm!IInv, Firm!Next PROVE Firm!IInv'
  <1>1. PICK p \in Edits :
          \/ \E wanted \in BOOLEAN, i \in Firm!Orgs \cup {Firm!New} :
               Firm!BeginCreate(p, wanted) \/ Firm!BeginUpdate(p, i, wanted) \/ Firm!BeginDelete(p, i)
          \/ Firm!Clear(p) \/ Firm!Insert(p) \/ Firm!Save(p) \/ Firm!Destroy(p) \/ Firm!Promote(p)
          \/ Firm!Fail(p)
    BY DEF Firm!Next
  <1> QED
    BY <1>1, IssuerBeginSteps, ClearStep, IssuerInsertStep, IssuerSaveStep, IssuerDestroyStep,
         PromoteStep, IssuerFailStep

LEMMA IssuingStay ==
  ASSUME Firm!IInv, UNCHANGED Firm!vars PROVE Firm!IInv'
  <1>1. UNCHANGED <<Firm!There, Firm!Primaries, Firm!Single, Firm!Numbered>>
    BY DEF Firm!vars, Firm!There, Firm!Primaries, Firm!Single, Firm!Numbered
  <1>2. ASSUME NEW p \in Edits
        PROVE  UNCHANGED <<Firm!Live(p), Firm!Alone(p), Firm!Sparing(p)>>
    BY DEF Firm!vars, Firm!Live, Firm!Alone, Firm!Sparing
  <1>3. Firm!TypeOK' /\ Firm!Apart' /\ Firm!Aimed' /\ Firm!SingleInTurn'
    BY <1>1, <1>2 DEF Firm!vars, Firm!IInv, Firm!TypeOK, Firm!Apart, Firm!Aimed,
         Firm!SingleInTurn
  <1> QED BY <1>1, <1>3 DEF Firm!IInv

LEMMA IssuingIs ==
  ASSUME Firm!IInv PROVE Firm!TypeOK /\ Firm!OnePrimary
  <1>1. ASSUME ~doubtful, Firm!There # {}, \A p \in Edits : ~Firm!Live(p)
        PROVE  Cardinality(Firm!Primaries) = 1
    <2>1. PICK i \in Firm!Orgs : Firm!Primaries = {i} BY <1>1 DEF Firm!IInv, Firm!SingleInTurn, Firm!Single
    <2> QED BY <2>1, FS_Singleton
  <1> QED BY IssuingCounts, <1>1 DEF Firm!IInv, Firm!OnePrimary

LEMMA IssuingAlways == Spec => [](which = "Firm" => Firm!IInv)
  <1> DEFINE I == which = "Firm" => Firm!IInv
  <1>1. Init => I BY IssuingInit, ComponentConstants DEF Init
  <1>2. I /\ [Next]_vars => I'
    <2>1. ASSUME Firm!IInv, [Firm!Next]_Firm!vars PROVE Firm!IInv'
      BY <2>1, IssuingStep, IssuingStay, ComponentConstants
    <2>2. ASSUME [Next]_vars, which' = "Firm"
          PROVE  which = "Firm" /\ [Firm!Next]_Firm!vars
      BY <2>2 DEF Next, vars, Firm!vars
    <2> QED BY <2>1, <2>2
  <1> QED BY <1>1, <1>2, PTL DEF Spec

------------------------
\* The lookups: a session that is dead stays so, and an answer is a branch there was
\* (Party!IInv).

\* FiniteSets is the same there as here.
LEMMA LookupCounts ==
  \A S : Party!Cardinality(S) = Cardinality(S) /\ (Party!IsFiniteSet(S) <=> IsFiniteSet(S))
  BY DEF Cardinality, Party!Cardinality, IsFiniteSet, Party!IsFiniteSet



Keys == Branches \cup {NoKpp}
Verdicts == {"none", "single", "choose", "requires_kpp", "error"}
AnswerKind == [status : Verdicts, kpp : Keys, cached : BOOLEAN]
LookupPlaces == Party!Calls \cup {"idle", "store", "over"}
LookupKind == [at : LookupPlaces, want : Keys, kpp : Keys, sid : Nat, retried : BOOLEAN,
               found : BOOLEAN, answer : AnswerKind]
Fine(p, r) == Party!GoesRight(p, r) /\ Party!Answered(p, r)

LEMMA LookupIs ==
  ASSUME Party!TypeOK, NEW p \in Lookups
  PROVE  /\ op \in [Lookups -> LookupKind] /\ op[p] \in LookupKind /\ op[p].sid \in 0..logins
         /\ op[p].at \in LookupPlaces /\ op[p].want \in Keys /\ op[p].kpp \in Keys
         /\ op[p].found \in BOOLEAN /\ op[p].retried \in BOOLEAN
         /\ op[p].answer \in AnswerKind
  <1>1. logins \in Nat BY DEF Party!TypeOK, Party!MaxLogins
  <1>2. op[p] \in [at : LookupPlaces, want : Keys, kpp : Keys, sid : 0..logins,
                   retried : BOOLEAN, found : BOOLEAN, answer : AnswerKind]
    BY DEF Party!TypeOK, LookupPlaces, Keys, AnswerKind, Verdicts
  <1>3. op \in [Lookups -> LookupKind]
    <2>1. \A q \in Lookups : op[q] \in LookupKind
      <3> SUFFICES ASSUME NEW q \in Lookups PROVE op[q] \in LookupKind OBVIOUS
      <3>1. op[q] \in [at : LookupPlaces, want : Keys, kpp : Keys, sid : 0..logins,
                       retried : BOOLEAN, found : BOOLEAN, answer : AnswerKind]
        BY DEF Party!TypeOK, LookupPlaces, Keys, AnswerKind, Verdicts
      <3> QED BY <3>1, <1>1 DEF LookupKind
    <2> QED BY <2>1 DEF Party!TypeOK
  <1> QED BY <1>2, <1>3

\* One lookup moved to r.
Turned(p, r) ==
  r \in LookupKind /\ r.sid \in 0..logins' /\ op' = [op EXCEPT ![p] = r]

\* It has the session it had, or none.
Steps(p, r) == Turned(p, r) /\ r.sid \in {op[p].sid, 0}

\* A lookup ends with what was not in the cache.
Closes(p, verdict, kpp) == Party!Ends(p, verdict, kpp, FALSE)

LEMMA EndsIs ==
  ASSUME Party!TypeOK, logins' = logins, NEW p \in Lookups, NEW verdict \in Verdicts,
         NEW kpp \in Keys,
         Closes(p, verdict, kpp)
  PROVE  \E r \in LookupKind :
           /\ Steps(p, r) /\ r.at = "over" /\ r.want = op[p].want /\ r.kpp = op[p].kpp
           /\ ~r.found /\ r.answer.status = verdict /\ r.answer.kpp = kpp
           /\ ~r.answer.cached
  <1> DEFINE a == [status |-> verdict, kpp |-> kpp, cached |-> FALSE]
  <1>1. a \in AnswerKind /\ a.status = verdict /\ a.kpp = kpp /\ ~a.cached BY DEF AnswerKind
  <1>2. op[p] \in LookupKind /\ op[p].sid \in 0..logins /\ op \in [Lookups -> LookupKind] BY LookupIs
  <1> HIDE DEF a
  <1> DEFINE r == [op[p] EXCEPT !.at = "over", !.sid = Party!NoSession, !.retried = FALSE,
                                !.found = FALSE, !.answer = a]
  <1>3. op' = [op EXCEPT ![p] = r] BY <1>2 DEF Closes, Party!Ends, a, LookupKind
  <1>4. /\ r \in LookupKind /\ r.at = "over" /\ r.want = op[p].want /\ r.kpp = op[p].kpp
        /\ ~r.found /\ r.answer = a /\ r.sid = 0
    BY <1>1, <1>2 DEF LookupKind, LookupPlaces, Party!NoSession
  <1> HIDE DEF r
  <1>5. 0 \in 0..logins' BY DEF Party!TypeOK, Party!MaxLogins
  <1> QED BY <1>1, <1>3, <1>4, <1>5 DEF Turned, Steps


\* A lookup that begins a call, goes to another place, has a session, or lost one.
Calling(p, call, kpp) == op' = [op EXCEPT ![p] = Party!Starts(p, call, kpp)]
Finding(p, call, kpp, found) ==
  op' = [op EXCEPT ![p] = [Party!Starts(p, call, kpp) EXCEPT !.found = found]]
Wanting(p, call, kpp, want) ==
  op' = [op EXCEPT ![p] = [Party!Starts(p, call, kpp) EXCEPT !.want = want]]

LEMMA StartedIs ==
  ASSUME Party!TypeOK, NEW p \in Lookups, NEW call \in Party!Calls, NEW kpp \in Keys
  PROVE  /\ Party!Starts(p, call, kpp) \in LookupKind
         /\ Party!Starts(p, call, kpp).at = call /\ Party!Starts(p, call, kpp).kpp = kpp
         /\ Party!Starts(p, call, kpp).sid = 0 /\ ~Party!Starts(p, call, kpp).retried
         /\ Party!Starts(p, call, kpp).want = op[p].want
         /\ Party!Starts(p, call, kpp).found = op[p].found
         /\ Party!Starts(p, call, kpp).answer = op[p].answer
  <1>1. op[p] \in LookupKind BY LookupIs
  <1> QED BY <1>1 DEF Party!Starts, LookupKind, LookupPlaces, Party!NoSession

LEMMA StartsIs ==
  ASSUME Party!TypeOK, logins' = logins, NEW p \in Lookups, NEW call \in Party!Calls,
         NEW kpp \in Keys,
         Calling(p, call, kpp)
  PROVE  \E r \in LookupKind :
           /\ Steps(p, r) /\ r.at = call /\ r.kpp = kpp /\ ~r.retried
           /\ r.want = op[p].want /\ r.found = op[p].found /\ r.answer = op[p].answer
  <1> DEFINE o == Party!Starts(p, call, kpp)
             r == o
  <1>1. /\ o \in LookupKind /\ o.at = call /\ o.kpp = kpp /\ o.sid = 0 /\ ~o.retried
        /\ o.want = op[p].want /\ o.found = op[p].found /\ o.answer = op[p].answer
    BY StartedIs
  <1>2. op' = [op EXCEPT ![p] = r] BY DEF Calling
  <1> HIDE DEF o
  <1>3. /\ r \in LookupKind /\ r.at = call /\ r.kpp = kpp /\ r.sid = 0 /\ ~r.retried
        /\ r.want = op[p].want /\ r.found = op[p].found /\ r.answer = op[p].answer
    BY <1>1 DEF LookupKind
  <1> HIDE DEF r
  <1>4. 0 \in 0..logins' BY DEF Party!TypeOK, Party!MaxLogins
  <1> QED BY <1>2, <1>3, <1>4 DEF Turned, Steps

LEMMA FindsIs ==
  ASSUME Party!TypeOK, logins' = logins, NEW p \in Lookups, NEW call \in Party!Calls,
         NEW kpp \in Keys,
         NEW found \in BOOLEAN,
         Finding(p, call, kpp, found)
  PROVE  \E r \in LookupKind :
           /\ Steps(p, r) /\ r.at = call /\ r.kpp = kpp /\ ~r.retried
           /\ r.want = op[p].want /\ r.found = found /\ r.answer = op[p].answer
  <1> DEFINE o == Party!Starts(p, call, kpp)
             r == [o EXCEPT !.found = found]
  <1>1. /\ o \in LookupKind /\ o.at = call /\ o.kpp = kpp /\ o.sid = 0 /\ ~o.retried
        /\ o.want = op[p].want /\ o.found = op[p].found /\ o.answer = op[p].answer
    BY StartedIs
  <1>2. op' = [op EXCEPT ![p] = r] BY DEF Finding
  <1> HIDE DEF o
  <1>3. /\ r \in LookupKind /\ r.at = call /\ r.kpp = kpp /\ r.sid = 0 /\ ~r.retried
        /\ r.want = op[p].want /\ r.found = found /\ r.answer = op[p].answer
    BY <1>1 DEF LookupKind
  <1> HIDE DEF r
  <1>4. 0 \in 0..logins' BY DEF Party!TypeOK, Party!MaxLogins
  <1> QED BY <1>2, <1>3, <1>4 DEF Turned, Steps

LEMMA WantsIs ==
  ASSUME Party!TypeOK, logins' = logins, NEW p \in Lookups, NEW call \in Party!Calls,
         NEW kpp \in Keys,
         NEW want \in Keys,
         Wanting(p, call, kpp, want)
  PROVE  \E r \in LookupKind :
           /\ Steps(p, r) /\ r.at = call /\ r.kpp = kpp /\ ~r.retried
           /\ r.want = want /\ r.found = op[p].found /\ r.answer = op[p].answer
  <1> DEFINE o == Party!Starts(p, call, kpp)
             r == [o EXCEPT !.want = want]
  <1>1. /\ o \in LookupKind /\ o.at = call /\ o.kpp = kpp /\ o.sid = 0 /\ ~o.retried
        /\ o.want = op[p].want /\ o.found = op[p].found /\ o.answer = op[p].answer
    BY StartedIs
  <1>2. op' = [op EXCEPT ![p] = r] BY DEF Wanting
  <1> HIDE DEF o
  <1>3. /\ r \in LookupKind /\ r.at = call /\ r.kpp = kpp /\ r.sid = 0 /\ ~r.retried
        /\ r.want = want /\ r.found = op[p].found /\ r.answer = op[p].answer
    BY <1>1 DEF LookupKind
  <1> HIDE DEF r
  <1>4. 0 \in 0..logins' BY DEF Party!TypeOK, Party!MaxLogins
  <1> QED BY <1>2, <1>3, <1>4 DEF Turned, Steps

LEMMA PlacedIs ==
  ASSUME Party!TypeOK, logins' = logins, NEW p \in Lookups, NEW at \in LookupPlaces,
         op' = [op EXCEPT ![p].at = at]
  PROVE  \E r \in LookupKind :
           /\ Steps(p, r) /\ r.at = at /\ r.kpp = op[p].kpp
           /\ r.want = op[p].want /\ r.found = op[p].found /\ r.answer = op[p].answer
  <1>1. op[p] \in LookupKind /\ op[p].sid \in 0..logins BY LookupIs
  <1> DEFINE r == [op[p] EXCEPT !.at = at]
  <1>2. /\ r \in LookupKind /\ r.at = at /\ r.kpp = op[p].kpp /\ r.sid = op[p].sid
        /\ r.want = op[p].want /\ r.found = op[p].found /\ r.answer = op[p].answer
    BY <1>1 DEF LookupKind
  <1>3. op' = [op EXCEPT ![p] = r] OBVIOUS
  <1> HIDE DEF r
  <1> QED BY <1>1, <1>2, <1>3 DEF Turned, Steps

LEMMA SessionIs ==
  ASSUME Party!TypeOK, NEW p \in Lookups, NEW sid \in 0..logins', logins' \in Nat,
         op' = [op EXCEPT ![p].sid = sid]
  PROVE  \E r \in LookupKind :
           /\ Turned(p, r) /\ r.at = op[p].at /\ r.kpp = op[p].kpp /\ r.sid = sid
           /\ r.retried = op[p].retried
           /\ r.want = op[p].want /\ r.found = op[p].found /\ r.answer = op[p].answer
  <1>1. op[p] \in LookupKind BY LookupIs
  <1> DEFINE r == [op[p] EXCEPT !.sid = sid]
  <1>2. /\ r \in LookupKind /\ r.at = op[p].at /\ r.kpp = op[p].kpp /\ r.sid = sid
        /\ r.retried = op[p].retried
        /\ r.want = op[p].want /\ r.found = op[p].found /\ r.answer = op[p].answer
    BY <1>1 DEF LookupKind
  <1>3. op' = [op EXCEPT ![p] = r] OBVIOUS
  <1> HIDE DEF r
  <1> QED BY <1>1, <1>2, <1>3 DEF Turned

LEMMA RepeatIs ==
  ASSUME Party!TypeOK, NEW p \in Lookups, logins' = logins,
         op' = [op EXCEPT ![p].sid = Party!NoSession, ![p].retried = TRUE]
  PROVE  \E r \in LookupKind :
           /\ Steps(p, r) /\ r.at = op[p].at /\ r.kpp = op[p].kpp /\ r.sid = Party!NoSession
           /\ r.want = op[p].want /\ r.found = op[p].found /\ r.answer = op[p].answer
  <1>1. op[p] \in LookupKind /\ op \in [Lookups -> LookupKind] /\ 0 \in 0..logins'
    BY LookupIs DEF Party!TypeOK, Party!MaxLogins
  <1> DEFINE r == [op[p] EXCEPT !.sid = Party!NoSession, !.retried = TRUE]
  <1>2. /\ r \in LookupKind /\ r.at = op[p].at /\ r.kpp = op[p].kpp /\ r.sid = Party!NoSession
        /\ r.want = op[p].want /\ r.found = op[p].found /\ r.answer = op[p].answer
    BY <1>1 DEF LookupKind, Party!NoSession
  <1>3. op' = [op EXCEPT ![p] = r] BY <1>1 DEF LookupKind
  <1> HIDE DEF r
  <1> QED BY <1>1, <1>2, <1>3 DEF Turned, Steps, Party!NoSession


\* What the world does between the steps of a lookup: nothing that was is undone, and a
\* session that was ended is not taken up again, unless it is in the answer to a login.
LookupGrown ==
  /\ known \subseteq known' /\ sole \subseteq sole' /\ Party!Dead \subseteq Party!Dead'
  /\ session' \in {session} \cup Party!Coming \/ session' \notin Party!Dead
  /\ \A s \in Party!Coming' : s \in Party!Dead => s \in Party!Coming

LEMMA FineKept ==
  ASSUME LookupGrown, NEW p, NEW r, Fine(p, r)
  PROVE  Fine(p, r)'
  <1>1. ASSUME NEW s \in Party!Dead, s \notin {session, r.sid} \cup Party!Coming
        PROVE  s \in Party!Dead' /\ s \notin {session', r.sid} \cup Party!Coming'
    BY <1>1 DEF LookupGrown
  <1>2. Party!GoesRight(p, r)' BY <1>1 DEF LookupGrown, Fine, Party!GoesRight
  <1>3. Party!Answered(p, r)' BY DEF LookupGrown, Fine, Party!Answered
  <1> QED BY <1>2, <1>3 DEF Fine

\* A lookup that waits for no login takes nobody's session.
LEMMA FreshKept ==
  ASSUME Party!TypeOK, Party!Fresh, NEW p \in Lookups, NEW r, Steps(p, r),
         logging' = logging \ {p}, session' = session
  PROVE  Party!Fresh' /\ Party!Coming' \subseteq Party!Coming
  <1>1. op'[p].sid \in {op[p].sid, 0} /\ \A q \in Lookups \ {p} : op'[q] = op[q] BY DEF Steps, Turned, Party!TypeOK
  <1>2. logging' \subseteq Lookups /\ p \notin logging' /\ logging' \subseteq logging BY DEF Party!TypeOK
  <1>3. ASSUME NEW q \in logging'
        PROVE  /\ op'[q].at \in Party!Calls /\ op'[q].sid \notin {Party!NoSession, session'}
               /\ \A o \in Lookups \ {q} : op'[o].sid # op'[q].sid
    <2>1. q \in logging /\ q \in Lookups /\ q # p /\ op'[q] = op[q] BY <1>1, <1>2
    <2>2. /\ op[q].at \in Party!Calls /\ op[q].sid \notin {Party!NoSession, session}
          /\ \A o \in Lookups \ {q} : op[o].sid # op[q].sid
      BY <2>1 DEF Party!Fresh
    <2>3. ASSUME NEW o \in Lookups \ {q} PROVE op'[o].sid # op'[q].sid
      <3>1. CASE o = p BY <3>1, <2>1, <2>2, <1>1 DEF Party!NoSession
      <3>2. CASE o # p BY <3>2, <2>1, <2>2, <1>1
      <3> QED BY <3>1, <3>2
    <2> QED BY <2>1, <2>2, <2>3
  <1>4. Party!Fresh' BY <1>3 DEF Party!Fresh, Party!Calls
  <1>5. Party!Coming' \subseteq Party!Coming BY <1>1, <1>2 DEF Party!Coming
  <1> QED BY <1>4, <1>5

\* All lookups are right when the one that moved is, and the world goes on.
LEMMA TurnKeeps ==
  ASSUME Party!IInv, NEW p \in Lookups, NEW r, Turned(p, r), LookupGrown, Fine(p, r)',
         Party!SessionsCounted', Party!Fresh', logging' \subseteq Lookups,
         refused' \in BOOLEAN, registry' \subseteq Branches, known' \subseteq Branches,
         cache' \in Keys, logins' \in 0 .. Party!MaxLogins, logins' >= logins,
         live' \subseteq 1..logins', sole' \subseteq Lookups
  PROVE  Party!IInv'
  <1> USE DEF Party!IInv
  <1>1. logins \in Nat /\ logins' \in Nat BY DEF Party!TypeOK, Party!MaxLogins
  <1>2. ASSUME NEW q \in Lookups
        PROVE  /\ op'[q] \in [at : LookupPlaces, want : Keys, kpp : Keys, sid : 0..logins',
                              retried : BOOLEAN, found : BOOLEAN, answer : AnswerKind]
               /\ Party!GoesRight(q, op[q])' /\ Party!Answered(q, op[q])'
    <2>1. op[q] \in LookupKind /\ op[q].sid \in 0..logins' BY <1>1, LookupIs
    <2>2. PICK o \in LookupKind : o = op'[q] /\ Fine(q, o)' /\ o.sid \in 0..logins'
      <3>1. CASE q = p
        <4>1. op'[q] = r BY <3>1 DEF Turned, Party!TypeOK
        <4> QED BY <4>1, <3>1 DEF Turned
      <3>2. CASE q # p
        <4>1. PICK o \in LookupKind : o = op[q] /\ o.sid \in 0..logins' BY <2>1
        <4>2. Fine(q, o) BY <4>1 DEF Fine
        <4>3. Fine(q, o)' BY <4>2, FineKept
        <4>4. op'[q] = o BY <4>1, <3>2 DEF Turned
        <4> QED BY <4>1, <4>3, <4>4
      <3> QED BY <3>1, <3>2
    <2>3. o \in [at : LookupPlaces, want : Keys, kpp : Keys, sid : 0..logins',
                 retried : BOOLEAN, found : BOOLEAN, answer : AnswerKind]
      BY <2>2 DEF LookupKind
    <2>4. Party!GoesRight(q, op[q])' BY <2>2 DEF Fine, Party!GoesRight
    <2>5. Party!Answered(q, op[q])' BY <2>2 DEF Fine, Party!Answered
    <2> QED BY <2>2, <2>3, <2>4, <2>5
  <1>3. op' \in [Lookups -> [at : LookupPlaces, want : Keys, kpp : Keys, sid : 0..logins',
                             retried : BOOLEAN, found : BOOLEAN, answer : AnswerKind]]
    <2>1. op' = [op EXCEPT ![p] = r] /\ DOMAIN op = Lookups BY DEF Turned, Party!TypeOK
    <2>2. op' = [q \in Lookups |-> op'[q]] BY <2>1
    <2> QED BY <2>2, <1>2
  <1>4. session' \in 0..logins' BY DEF Party!SessionsCounted
  <1>5. Party!TypeOK' BY <1>3, <1>4 DEF Party!TypeOK, LookupPlaces, Keys, AnswerKind, Verdicts
  <1> QED BY <1>2, <1>5

\* The sessions that were ended.
LEMMA DeadIs ==
  ASSUME Party!TypeOK
  PROVE  logins \in Nat /\ IsFiniteSet(Party!Dead) /\ 0 \notin Party!Dead /\ Party!Dead \subseteq 1..logins
  <1>1. logins \in Nat BY DEF Party!TypeOK, Party!MaxLogins
  <1>2. IsFiniteSet(1..logins) BY <1>1, FS_Interval
  <1> QED BY <1>1, <1>2, FS_Subset DEF Party!Dead

\* A step of a lookup that leaves the sessions and the branches alone.
\* p waits for no login any more, and what is said of refusals is so.
Orderly(p) ==
  logging' = logging \ {p} /\ refused' \in BOOLEAN /\ (refused' => kills >= 2)

LEMMA LookupQuietKeeps ==
  ASSUME Party!IInv, NEW p \in Lookups, NEW r, Steps(p, r),
         UNCHANGED <<registry, session, live, logins, kills, known>>,
         Orderly(p), sole \subseteq sole', sole' \subseteq Lookups,
         cache' \in Keys, cache' \in known \cup {NoKpp}, Fine(p, r)'
  PROVE  Party!IInv'
  <1> USE DEF Party!IInv
  <1>1. Party!Fresh' /\ Party!Coming' \subseteq Party!Coming BY FreshKept DEF Orderly
  <1>2. LookupGrown BY <1>1 DEF LookupGrown, Party!Dead
  <1>3. Party!SessionsCounted' BY DEF Party!SessionsCounted, Party!Dead, Orderly
  <1>4. logins' >= logins BY DeadIs
  <1>5. logging' \subseteq Lookups /\ refused' \in BOOLEAN BY DEF Party!TypeOK, Orderly
  <1> QED BY <1>1, <1>2, <1>3, <1>4, <1>5, TurnKeeps DEF Steps, Party!TypeOK

\* A lookup that uses a session, or is not in a call, leaves the logins alone.
LEMMA OrderlyIs ==
  ASSUME Party!IInv, NEW p \in Lookups, p \notin logging \/ op[p].at \notin Party!Calls,
         UNCHANGED <<logging, refused>>
  PROVE  Orderly(p)
  <1>1. p \notin logging BY DEF Party!IInv, Party!Fresh
  <1>2. logging' = logging \ {p} BY <1>1
  <1> QED BY <1>2 DEF Orderly, Party!IInv, Party!TypeOK, Party!SessionsCounted

LEMMA LookupBegins ==
  ASSUME Party!IInv, NEW p \in Lookups, NEW want \in Keys, Party!Begin(p, want)
  PROVE  Party!IInv'
  <1> USE DEF Party!IInv
  <1>1. /\ op[p].at = "idle" /\ ~op[p].found /\ op[p].answer.status = "none"
        /\ UNCHANGED <<cache, session, live, logins, sole, registry, kills, known, logging, refused>>
        /\ cache \in Keys /\ sole \subseteq Lookups
        /\ cache \in known \cup {NoKpp}
        /\ op[p] \in LookupKind /\ op[p].sid \in 0..logins
    BY LookupIs DEF Party!Begin, Party!Remote, Party!World, Party!TypeOK, Keys, Party!SessionsCounted,
         Party!GoesRight
  <1>a. Orderly(p) BY <1>1, OrderlyIs DEF Party!Calls
  <1>2. CASE Party!Usable(want)
    <2> DEFINE a == [status |-> "single", kpp |-> cache, cached |-> TRUE]
               r == [op[p] EXCEPT !.at = "over", !.want = want, !.answer = a]
    <2>1. op' = [op EXCEPT ![p] = r] BY <1>2 DEF Party!Begin
    <2>2. a \in AnswerKind /\ a.status = "single" /\ a.kpp = cache /\ a.cached BY <1>1 DEF AnswerKind, Verdicts
    <2> HIDE DEF a
    <2>3. /\ r \in LookupKind /\ r.at = "over" /\ r.want = want /\ r.answer = a
          /\ r.sid = op[p].sid /\ ~r.found
      BY <1>1, <2>2 DEF LookupKind, LookupPlaces
    <2> HIDE DEF r
    <2>4. PICK o \in LookupKind : o = r BY <2>3
    <2>5. Steps(p, o) BY <1>1, <2>1, <2>3, <2>4 DEF Turned, Steps
    <2>6. Party!GoesRight(p, o)' BY <2>3, <2>4 DEF Party!GoesRight, Party!Calls
    <2>7. Party!Answered(p, o)' BY <1>1, <1>2, <2>2, <2>3, <2>4 DEF Party!Answered, Party!Usable
    <2> QED BY <1>1, <1>a, <2>5, <2>6, <2>7, LookupQuietKeeps DEF Fine
  <1>3. CASE ~Party!Usable(want)
    <2> DEFINE call == IF want = NoKpp THEN "find" ELSE "full"
    <2>1. Wanting(p, call, want, want) BY <1>3 DEF Party!Begin, Wanting
    <2>2. call \in Party!Calls /\ (call = "full" <=> want # NoKpp) /\ call # "info" BY DEF Party!Calls
    <2> HIDE DEF call
    <2>a. logins' = logins /\ call \in Party!Calls /\ Party!TypeOK BY <1>1, <2>2
    <2>3. PICK r \in LookupKind :
             /\ Steps(p, r) /\ r.at = call /\ r.kpp = want /\ ~r.retried
             /\ r.want = want /\ r.found = op[p].found /\ r.answer = op[p].answer
      BY <2>1, <2>a, WantsIs
    <2>4. Party!GoesRight(p, r)' BY <1>1, <2>2, <2>3 DEF Party!GoesRight, Party!Calls
    <2>5. Party!Answered(p, r)' BY <1>1, <2>3 DEF Party!Answered
    <2> QED BY <1>1, <1>a, <2>3, <2>4, <2>5, LookupQuietKeeps DEF Fine
  <1> QED BY <1>2, <1>3


\* What is known of a lookup that is in the middle of a call.
LEMMA CallingIs ==
  ASSUME Party!IInv, NEW p \in Lookups, op[p].at \in Party!Calls
  PROVE  /\ op[p].answer.status = "none"
         /\ op[p].at \in {"full", "info"} =>
              IF op[p].want = NoKpp THEN p \in sole ELSE op[p].kpp = op[p].want
         /\ op[p].found => op[p].kpp \in known
         /\ op[p].retried => \E s \in Party!Dead : s \notin {session, op[p].sid} \cup Party!Coming
  BY DEF Party!IInv, Party!GoesRight, Party!Calls

\* The session at hand is nobody's answer; a new one is p's.
LEMMA AuthStep ==
  ASSUME Party!IInv, NEW p \in Lookups, Party!Auth(p)
  PROVE  Party!IInv'
  <1> USE DEF Party!IInv
  <1>1. /\ op[p].at \in Party!Calls /\ op[p].sid = Party!NoSession
        /\ UNCHANGED <<cache, session, sole, refused, registry, kills, known>>
        /\ logins \in Nat /\ session \in 0..logins
    BY DeadIs DEF Party!Auth, Party!World, Party!SessionsCounted
  <1>2. p \notin logging BY <1>1 DEF Party!Fresh
  <1>3. CASE session # Party!NoSession
    <2>1. op' = [op EXCEPT ![p].sid = session] /\ UNCHANGED <<live, logins, logging>> BY <1>3 DEF Party!Auth
    <2>2. session \in 0..logins' /\ logins' \in Nat BY <1>1, <2>1
    <2>3. PICK r \in LookupKind :
             /\ Turned(p, r) /\ r.at = op[p].at /\ r.kpp = op[p].kpp /\ r.sid = session
             /\ r.retried = op[p].retried
             /\ r.want = op[p].want /\ r.found = op[p].found /\ r.answer = op[p].answer
      BY <2>1, <2>2, SessionIs
    <2>4. op'[p].sid = session /\ \A q \in Lookups \ {p} : op'[q] = op[q] BY <2>3 DEF Turned, Party!TypeOK
    <2>5. ASSUME NEW q \in logging
          PROVE  /\ op'[q].at \in Party!Calls /\ op'[q].sid \notin {Party!NoSession, session}
                 /\ \A o \in Lookups \ {q} : op'[o].sid # op'[q].sid
                 /\ op'[q].sid = op[q].sid
      <3>1. q \in Lookups /\ q # p /\ op'[q] = op[q] BY <1>2, <2>4 DEF Party!TypeOK
      <3>2. /\ op[q].at \in Party!Calls /\ op[q].sid \notin {Party!NoSession, session}
            /\ \A o \in Lookups \ {q} : op[o].sid # op[q].sid
        BY DEF Party!Fresh
      <3>3. \A o \in Lookups \ {q} : op'[o].sid # op'[q].sid BY <3>1, <3>2, <2>4
      <3> QED BY <3>1, <3>2, <3>3
    <2>6. Party!Fresh' BY <1>1, <2>1, <2>5 DEF Party!Fresh, Party!Calls
    <2>7. Party!Coming' = Party!Coming BY <2>1, <2>5 DEF Party!Coming
    <2>8. LookupGrown BY <1>1, <2>1, <2>7 DEF LookupGrown, Party!Dead
    <2>9. Party!SessionsCounted' BY <1>1, <2>1 DEF Party!SessionsCounted, Party!Dead
    <2>10. Party!GoesRight(p, r)'
      <3>1. op[p].at \notin {"idle", "over", "store"} BY <1>1 DEF Party!Calls
      <3>2. Party!Dead' = Party!Dead BY <2>1 DEF Party!Dead
      <3>3. op[p].retried => \E s \in Party!Dead : s \notin {session, session} \cup Party!Coming BY <1>1, CallingIs
      <3> QED BY <1>1, <2>3, <2>7, <3>1, <3>2, <3>3, CallingIs DEF Party!GoesRight, Party!Calls
    <2>11. Party!Answered(p, r)' BY <1>1, <2>3, CallingIs DEF Party!Answered
    <2> QED
      BY <1>1, <2>1, <2>3, <2>6, <2>8, <2>9, <2>10, <2>11, TurnKeeps, DeadIs
         DEF Fine, Party!TypeOK, Keys
  <1>4. CASE session = Party!NoSession
    <2>1. /\ logins < Party!MaxLogins /\ logins' = logins + 1 /\ live' = live \cup {logins'}
          /\ op' = [op EXCEPT ![p].sid = logins'] /\ logging' = logging \cup {p}
      BY <1>4 DEF Party!Auth
    <2>2. Party!MaxLogins \in Nat
      BY LookupCounts, ComponentConstants, FS_CardinalityType DEF Party!MaxLogins,
           Party!LookupConstants
    <2>3. live \subseteq 1..logins /\ logging \subseteq Lookups BY DEF Party!TypeOK
    <2>4. /\ Party!Dead' = Party!Dead /\ logins' \notin Party!Dead
          /\ logins' \in 0 .. Party!MaxLogins /\ live' \subseteq 1..logins'
          /\ logins' \in 0..logins' /\ logins' \in Nat /\ logins' >= logins
          /\ logging' \subseteq Lookups
      BY <1>1, <2>1, <2>2, <2>3 DEF Party!Dead
    <2>5. PICK r \in LookupKind :
             /\ Turned(p, r) /\ r.at = op[p].at /\ r.kpp = op[p].kpp /\ r.sid = logins'
             /\ r.retried = op[p].retried
             /\ r.want = op[p].want /\ r.found = op[p].found /\ r.answer = op[p].answer
      BY <2>1, <2>4, SessionIs
    <2>6. /\ op'[p].sid = logins' /\ op'[p].at = op[p].at
          /\ \A q \in Lookups \ {p} : op'[q] = op[q] /\ op[q].sid # logins'
      <3>1. \A q \in Lookups : op[q].sid \in 0..logins BY LookupIs
      <3> QED BY <3>1, <1>1, <2>1, <2>5 DEF Turned, Party!TypeOK
    <2>7. ASSUME NEW q \in logging'
          PROVE  /\ op'[q].at \in Party!Calls /\ op'[q].sid \notin {Party!NoSession, session}
                 /\ \A o \in Lookups \ {q} : op'[o].sid # op'[q].sid
      <3>1. CASE q = p BY <3>1, <1>1, <1>4, <2>1, <2>6 DEF Party!NoSession
      <3>2. CASE q # p
        <4>1. q \in logging /\ q \in Lookups /\ op'[q] = op[q] /\ op[q].sid # logins' BY <3>2, <2>1, <2>3, <2>6
        <4>2. /\ op[q].at \in Party!Calls /\ op[q].sid \notin {Party!NoSession, session}
              /\ \A o \in Lookups \ {q} : op[o].sid # op[q].sid
          BY <4>1 DEF Party!Fresh
        <4>3. \A o \in Lookups \ {q} : op'[o].sid # op'[q].sid BY <4>1, <4>2, <2>6
        <4> QED BY <4>1, <4>2, <4>3
      <3> QED BY <3>1, <3>2
    <2>8. Party!Fresh' BY <1>1, <2>7 DEF Party!Fresh, Party!Calls
    <2>9. Party!Coming' \subseteq Party!Coming \cup {logins'} BY <2>1, <2>3, <2>6 DEF Party!Coming
    <2>10. LookupGrown BY <1>1, <2>4, <2>9 DEF LookupGrown
    <2>11. Party!SessionsCounted' BY <1>1, <2>1, <2>4 DEF Party!SessionsCounted
    <2>12. Party!GoesRight(p, r)'
      <3>1. op[p].at \notin {"idle", "over", "store"} BY <1>1 DEF Party!Calls
      <3>2. op[p].retried =>
              \E s \in Party!Dead : s \notin {session, logins'} \cup Party!Coming'
        BY <1>1, <2>4, <2>9, CallingIs
      <3> QED BY <1>1, <2>4, <2>5, <3>1, <3>2, CallingIs DEF Party!GoesRight, Party!Calls
    <2>13. Party!Answered(p, r)' BY <1>1, <2>5, CallingIs DEF Party!Answered
    <2> QED BY <1>1, <2>4, <2>5, <2>8, <2>10, <2>11, <2>12, <2>13, TurnKeeps DEF Fine, Party!TypeOK, Keys
  <1> QED BY <1>3, <1>4

LEMMA RefusedStep ==
  ASSUME Party!IInv, NEW p \in Lookups, Party!Refused(p)
  PROVE  Party!IInv'
  <1> USE DEF Party!IInv
  <1>1. /\ op[p].at \in Party!Calls /\ op[p].sid \notin live /\ op[p].sid # Party!NoSession
        /\ p \notin logging /\ session' = Party!NoSession
        /\ UNCHANGED <<cache, live, logins, logging, sole, refused, registry, kills, known>>
        /\ op[p].sid \in 0..logins /\ logins \in Nat /\ logging \subseteq Lookups
    BY DeadIs, LookupIs DEF Party!Refused, Party!Turned401, Party!World, Party!TypeOK
  <1>2. PICK r \in LookupKind :
             /\ Steps(p, r) /\ r.at = op[p].at /\ r.kpp = op[p].kpp /\ r.sid = Party!NoSession
             /\ r.want = op[p].want /\ r.found = op[p].found /\ r.answer = op[p].answer
    BY <1>1, RepeatIs DEF Party!Refused
  <1>3. op[p].sid \in Party!Dead BY <1>1 DEF Party!Dead, Party!NoSession
  <1>4. op'[p].sid = 0 /\ \A q \in Lookups \ {p} : op'[q] = op[q]
    BY <1>2 DEF Steps, Turned, Party!TypeOK, Party!NoSession
  <1>5. ASSUME NEW q \in logging
        PROVE  /\ op'[q].at \in Party!Calls /\ op'[q].sid \notin {Party!NoSession, session'}
               /\ \A o \in Lookups \ {q} : op'[o].sid # op'[q].sid
               /\ op'[q].sid = op[q].sid /\ op[q].sid # op[p].sid
    <2>1. q \in Lookups /\ q # p /\ op'[q] = op[q] BY <1>1, <1>4
    <2>2. /\ op[q].at \in Party!Calls /\ op[q].sid \notin {Party!NoSession, session}
          /\ \A o \in Lookups \ {q} : op[o].sid # op[q].sid
      BY DEF Party!Fresh
    <2>3. ASSUME NEW o \in Lookups \ {q} PROVE op'[o].sid # op'[q].sid BY <2>1, <2>2, <1>4 DEF Party!NoSession
    <2> QED BY <1>1, <2>1, <2>2, <2>3
  <1>6. Party!Fresh' BY <1>1, <1>5 DEF Party!Fresh, Party!Calls
  <1>7. Party!Coming' = Party!Coming /\ op[p].sid \notin Party!Coming BY <1>1, <1>5 DEF Party!Coming
  <1>8. LookupGrown BY <1>1, <1>7, DeadIs DEF LookupGrown, Party!Dead, Party!NoSession
  <1>9. Party!SessionsCounted' BY <1>1 DEF Party!SessionsCounted, Party!Dead, Party!NoSession
  <1>10. Party!GoesRight(p, r)'
    <2>1. op[p].at \notin {"idle", "over", "store"} BY <1>1 DEF Party!Calls
    <2>2. Party!Dead' = Party!Dead BY <1>1 DEF Party!Dead
    <2>3. \E s \in Party!Dead : s \notin {session', r.sid} \cup Party!Coming' BY <1>1, <1>2, <1>3, <1>7
    <2> QED BY <1>1, <1>2, <2>1, <2>2, <2>3, CallingIs DEF Party!GoesRight, Party!Calls
  <1>11. Party!Answered(p, r)' BY <1>1, <1>2, CallingIs DEF Party!Answered
  <1>12. Turned(p, r) BY <1>2 DEF Steps
  <1> QED BY <1>1, <1>6, <1>8, <1>9, <1>10, <1>11, <1>12, TurnKeeps DEF Party!TypeOK, Keys, Fine

LEMMA TwoIs ==
  ASSUME NEW s, NEW x, s # x
  PROVE  Cardinality({s, x}) = 2
  <1> DEFINE one == {s}
  <1>1. IsFiniteSet(one) /\ Cardinality(one) = 1 /\ x \notin one BY FS_Singleton
  <1>2. {s, x} = one \cup {x} OBVIOUS
  <1> HIDE DEF one
  <1>3. Cardinality(one \cup {x}) = 2 BY <1>1, FS_AddElement
  <1> QED BY <1>2, <1>3

\* A lookup that ends without a branch.
LEMMA EndKeeps ==
  ASSUME Party!IInv, NEW p \in Lookups, op[p].at \in Party!Calls,
         NEW verdict \in {"choose", "requires_kpp", "error"}, Closes(p, verdict, NoKpp),
         UNCHANGED cache, sole \subseteq sole', sole' \subseteq Lookups, Orderly(p), Party!Remote
  PROVE  Party!IInv'
  <1> USE DEF Party!IInv
  <1>1. /\ UNCHANGED <<cache, session, live, logins, registry, kills, known>>
        /\ verdict \in Verdicts /\ NoKpp \in Keys
    BY DEF Party!Remote, Party!World, Keys, Verdicts
  <1>2. logins' = logins /\ Party!TypeOK BY <1>1
  <1>3. PICK r \in LookupKind :
             /\ Steps(p, r) /\ r.at = "over" /\ r.want = op[p].want /\ r.kpp = op[p].kpp
             /\ ~r.found /\ r.answer.status = verdict /\ r.answer.kpp = NoKpp
             /\ ~r.answer.cached
    BY <1>1, <1>2, EndsIs
  <1>4. Party!GoesRight(p, r)' BY <1>1, <1>3, CallingIs DEF Party!GoesRight, Party!Calls
  <1>5. Party!Answered(p, r)' BY <1>1, <1>3 DEF Party!Answered
  <1> QED
    BY <1>1, <1>3, <1>4, <1>5, LookupQuietKeeps DEF Party!TypeOK, Keys, Party!SessionsCounted,
         Fine

\* One that goes on to tell about a branch.
LEMMA TellKeeps ==
  ASSUME Party!IInv, NEW p \in Lookups, op[p].at \in Party!Calls, NEW found \in BOOLEAN, NEW r,
         Steps(p, r), r.at \in {"full", "info", "store"}, r.want = op[p].want,
         r.answer = op[p].answer, IF r.at = "store" THEN TRUE ELSE ~r.retried,
         r.found \/ r.at = "store" => r.kpp \in known,
         IF r.want = NoKpp THEN p \in sole' ELSE r.kpp = r.want,
         UNCHANGED cache, sole \subseteq sole', sole' \subseteq Lookups, Orderly(p), Party!Remote
  PROVE  Party!IInv'
  <1> USE DEF Party!IInv
  <1>1. UNCHANGED <<cache, session, live, logins, registry, kills, known>> BY DEF Party!Remote, Party!World
  <1>2. Party!GoesRight(p, r)' BY <1>1, CallingIs DEF Party!GoesRight, Party!Calls
  <1>3. Party!Answered(p, r)' BY <1>1, CallingIs DEF Party!Answered
  <1> QED BY <1>1, <1>2, <1>3, LookupQuietKeeps DEF Party!TypeOK, Keys, Party!SessionsCounted, Fine


LEMMA FindStep ==
  ASSUME Party!IInv, NEW p \in Lookups, Party!Find(p)
  PROVE  Party!IInv'
  <1> USE DEF Party!IInv
  <1>a. Orderly(p) BY OrderlyIs DEF Party!Find, Party!Accepted
  <1>1. /\ op[p].at \in Party!Calls /\ op[p].at = "find" /\ UNCHANGED cache /\ Party!Remote
        /\ sole' = IF Cardinality(registry) = 1 THEN sole \cup {p} ELSE sole
    BY LookupCounts DEF Party!Find, Party!Accepted, Party!Calls
  <1>2. sole \subseteq sole' /\ sole' \subseteq Lookups BY <1>1 DEF Party!TypeOK
  <1>3. CASE Closes(p, "requires_kpp", NoKpp) \/ Closes(p, "choose", NoKpp) BY <1>1, <1>2, <1>3, <1>a, EndKeeps
  <1>4. ASSUME NEW k \in registry, registry = {k}, Calling(p, "full", k)
        PROVE  Party!IInv'
    <2>1. logins' = logins /\ "full" \in Party!Calls /\ k \in Keys
      BY <1>1 DEF Party!Remote, Party!Calls, Party!TypeOK, Keys
    <2>2. PICK r \in LookupKind :
             /\ Steps(p, r) /\ r.at = "full" /\ r.kpp = k /\ ~r.retried
             /\ r.want = op[p].want /\ r.found = op[p].found /\ r.answer = op[p].answer
      BY <1>4, <2>1, StartsIs
    <2>3. Cardinality(registry) = 1 BY <1>4, FS_Singleton
    <2>4. k \in known /\ p \in sole' BY <1>1, <1>4, <2>3 DEF Party!SessionsCounted
    <2>5. op[p].want = NoKpp BY <1>1 DEF Party!GoesRight
    <2> QED BY <1>1, <1>2, <2>2, <2>4, <2>5, <1>a, TellKeeps
  <1> QED BY <1>3, <1>4 DEF Party!Find, Closes, Calling


LEMMA FullStep ==
  ASSUME Party!IInv, NEW p \in Lookups, Party!Full(p)
  PROVE  Party!IInv'
  <1> USE DEF Party!IInv
  <1> DEFINE found == op[p].kpp \in registry
  <1>a. Orderly(p) BY OrderlyIs DEF Party!Full, Party!Accepted
  <1>1. /\ op[p].at \in Party!Calls /\ op[p].at = "full" /\ UNCHANGED <<cache, sole>> /\ Party!Remote
        /\ op[p].kpp \in Keys /\ found \in BOOLEAN /\ (found => op[p].kpp \in known)
    BY LookupIs DEF Party!Full, Party!Accepted, Party!Calls, Party!SessionsCounted
  <1>2. op' = [op EXCEPT ![p] = [Party!Starts(p, "info", op[p].kpp) EXCEPT !.found = found]]
    BY LookupIs DEF Party!Full
  <1> HIDE DEF found
  <1>3. Finding(p, "info", op[p].kpp, found) BY <1>2 DEF Finding
  <1>4. logins' = logins /\ "info" \in Party!Calls BY <1>1 DEF Party!Remote, Party!Calls
  <1>5. PICK r \in LookupKind :
             /\ Steps(p, r) /\ r.at = "info" /\ r.kpp = op[p].kpp /\ ~r.retried
             /\ r.want = op[p].want /\ r.found = found /\ r.answer = op[p].answer
    BY <1>1, <1>3, <1>4, FindsIs
  <1>6. IF op[p].want = NoKpp THEN p \in sole ELSE op[p].kpp = op[p].want BY <1>1, CallingIs
  <1>7. sole' \subseteq Lookups BY <1>1 DEF Party!TypeOK
  <1> QED BY <1>1, <1>5, <1>6, <1>7, <1>a, TellKeeps

LEMMA InfoStep ==
  ASSUME Party!IInv, NEW p \in Lookups, Party!Info(p)
  PROVE  Party!IInv'
  <1> USE DEF Party!IInv
  <1>a. Orderly(p) BY OrderlyIs DEF Party!Info, Party!Accepted
  <1>1. /\ op[p].at \in Party!Calls /\ op[p].at = "info" /\ UNCHANGED <<cache, sole>> /\ Party!Remote
        /\ op[p].kpp \in registry => op[p].kpp \in known
        /\ sole' \subseteq Lookups /\ logins' = logins
    BY DEF Party!Info, Party!Accepted, Party!Calls, Party!SessionsCounted, Party!TypeOK,
         Party!Remote
  <1>2. CASE op[p].found \/ op[p].kpp \in registry
    <2>1. op' = [op EXCEPT ![p].at = "store"] /\ "store" \in LookupPlaces BY <1>2 DEF Party!Info, LookupPlaces
    <2>2. PICK r \in LookupKind :
             /\ Steps(p, r) /\ r.at = "store" /\ r.kpp = op[p].kpp
             /\ r.want = op[p].want /\ r.found = op[p].found /\ r.answer = op[p].answer
      BY <1>1, <2>1, PlacedIs
    <2>3. r.kpp \in known BY <1>1, <1>2, <2>2, CallingIs
    <2> QED BY <1>1, <2>2, <2>3, CallingIs, <1>a, TellKeeps
  <1>3. CASE ~(op[p].found \/ op[p].kpp \in registry)
    <2>1. PICK verdict \in {"choose", "requires_kpp", "error"} : Closes(p, verdict, NoKpp)
      BY <1>3 DEF Party!Info, Party!Nameless, Closes
    <2> QED BY <1>1, <2>1, <1>a, EndKeeps
  <1> QED BY <1>2, <1>3

\* A call that failed, for whatever reason.
LEMMA CallFailedKeeps ==
  ASSUME Party!IInv, NEW p \in Lookups, op[p].at \in Party!Calls, Party!CallFailed(p),
         Orderly(p), UNCHANGED <<cache, sole>>, Party!Remote
  PROVE  Party!IInv'
  <1> USE DEF Party!IInv
  <1>1. sole' \subseteq Lookups /\ logins' = logins BY DEF Party!TypeOK, Party!Remote
  <1>2. ASSUME NEW verdict \in {"requires_kpp", "error"}, Closes(p, verdict, NoKpp)
        PROVE  Party!IInv'
    BY <1>1, <1>2, EndKeeps
  <1>3. CASE op[p].at = "full" /\ op' = [op EXCEPT ![p] = Party!Starts(p, "info", @.kpp)]
    <2>1. op' = [op EXCEPT ![p] = Party!Starts(p, "info", op[p].kpp)] BY <1>3, LookupIs
    <2>2. Calling(p, "info", op[p].kpp) /\ "info" \in Party!Calls /\ op[p].kpp \in Keys
      BY <2>1, LookupIs DEF Calling, Party!Calls
    <2>3. PICK r \in LookupKind :
             /\ Steps(p, r) /\ r.at = "info" /\ r.kpp = op[p].kpp /\ ~r.retried
             /\ r.want = op[p].want /\ r.found = op[p].found /\ r.answer = op[p].answer
      BY <1>1, <2>2, StartsIs
    <2> QED BY <1>1, <1>3, <2>3, CallingIs, TellKeeps
  <1>4. CASE op[p].at = "info" /\ op[p].found /\ op' = [op EXCEPT ![p].at = "store"]
    <2>1. "store" \in LookupPlaces BY DEF LookupPlaces
    <2>2. PICK r \in LookupKind :
             /\ Steps(p, r) /\ r.at = "store" /\ r.kpp = op[p].kpp
             /\ r.want = op[p].want /\ r.found = op[p].found /\ r.answer = op[p].answer
      BY <1>1, <1>4, <2>1, PlacedIs
    <2> QED BY <1>1, <1>4, <2>2, CallingIs, TellKeeps
  <1> QED BY <1>2, <1>3, <1>4 DEF Party!CallFailed, Party!Nameless, Closes

LEMMA LookupFails ==
  ASSUME Party!IInv, NEW p \in Lookups, Party!CallFails(p)
  PROVE  Party!IInv'
  <1>1. Orderly(p) BY DEF Orderly, Party!CallFails, Party!IInv, Party!TypeOK, Party!SessionsCounted
  <1> QED BY <1>1, CallFailedKeeps DEF Party!CallFails

\* A call is refused for the second time only after two sessions were ended.
LEMMA RefusedAgainStep ==
  ASSUME Party!IInv, NEW p \in Lookups, Party!RefusedAgain(p)
  PROVE  Party!IInv'
  <1> USE DEF Party!IInv
  <1>1. /\ op[p].at \in Party!Calls /\ op[p].sid \notin live /\ op[p].sid # Party!NoSession
        /\ op[p].retried /\ p \notin logging /\ UNCHANGED logging /\ refused' = TRUE
        /\ op[p].sid \in 0..logins /\ logins \in Nat
    BY DeadIs, LookupIs DEF Party!RefusedAgain, Party!Turned401
  <1>2. PICK s \in Party!Dead : s # op[p].sid BY <1>1, CallingIs
  <1>3. op[p].sid \in Party!Dead BY <1>1 DEF Party!Dead, Party!NoSession
  <1>4. kills >= 2
    <2>1. PICK two : two = {s, op[p].sid} /\ Cardinality(two) = 2 BY <1>2, TwoIs
    <2>2. two \subseteq Party!Dead BY <2>1, <1>2, <1>3
    <2>3. Cardinality(two) <= Cardinality(Party!Dead) BY <2>2, DeadIs, FS_Subset
    <2>4. Cardinality(Party!Dead) \in Nat BY DeadIs, FS_CardinalityType
    <2> QED BY LookupCounts, <2>1, <2>3, <2>4 DEF Party!SessionsCounted
  <1>5. Orderly(p) BY <1>1, <1>4 DEF Orderly
  <1> QED BY <1>1, <1>5, CallFailedKeeps DEF Party!RefusedAgain

LEMMA StoreStep ==
  ASSUME Party!IInv, NEW p \in Lookups, Party!Store(p)
  PROVE  Party!IInv'
  <1> USE DEF Party!IInv
  <1>a. Orderly(p) BY OrderlyIs DEF Party!Store, Party!Calls
  <1>1. /\ op[p].at = "store" /\ cache' = op[p].kpp /\ Closes(p, "single", op[p].kpp)
        /\ UNCHANGED <<session, live, logins, sole, logging, refused, registry, kills, known>>
        /\ op[p].kpp \in Keys /\ "single" \in Verdicts
        /\ sole' \subseteq Lookups
    BY LookupIs DEF Party!Store, Party!Remote, Party!World, Closes, Verdicts, Party!TypeOK
  <1>2. /\ op[p].kpp \in known
        /\ IF op[p].want = NoKpp THEN p \in sole ELSE op[p].kpp = op[p].want
    BY <1>1 DEF Party!GoesRight
  <1>3. logins' = logins BY <1>1
  <1>4. PICK r \in LookupKind :
             /\ Steps(p, r) /\ r.at = "over" /\ r.want = op[p].want /\ r.kpp = op[p].kpp
             /\ ~r.found /\ r.answer.status = "single" /\ r.answer.kpp = op[p].kpp
             /\ ~r.answer.cached
    BY <1>1, <1>3, EndsIs
  <1>5. Party!GoesRight(p, r)' BY <1>1, <1>2, <1>4 DEF Party!GoesRight, Party!Calls
  <1>6. Party!Answered(p, r)' BY <1>1, <1>2, <1>4 DEF Party!Answered
  <1> QED BY <1>1, <1>2, <1>4, <1>5, <1>6, <1>a, LookupQuietKeeps DEF Fine

\* What happens while no lookup moves.
LEMMA LookupWorldKeeps ==
  ASSUME Party!IInv, UNCHANGED <<op, logins, sole, refused>>, LookupGrown,
         Party!SessionsCounted', Party!Fresh', logging' \subseteq Lookups,
         registry' \subseteq Branches, known' \subseteq Branches, cache' \in Keys,
         live' \subseteq 1..logins
  PROVE  Party!IInv'
  <1> USE DEF Party!IInv
  <1>1. session' \in 0..logins' BY DEF Party!SessionsCounted
  <1>2. Party!TypeOK' BY <1>1 DEF Party!TypeOK, Keys
  <1>3. ASSUME NEW p \in Lookups
        PROVE  Party!GoesRight(p, op[p])' /\ Party!Answered(p, op[p])'
    <2>1. PICK o : o = op[p] OBVIOUS
    <2>2. Fine(p, o)' BY <2>1, FineKept DEF Fine
    <2> QED BY <2>1, <2>2 DEF Fine, Party!GoesRight, Party!Answered
  <1> QED BY <1>2, <1>3

\* While the logins stay as they are.
LEMMA LoginsKept ==
  ASSUME Party!IInv, UNCHANGED <<op, logging>>, session' \in {session, Party!NoSession}
  PROVE  Party!Fresh' /\ Party!Coming' = Party!Coming /\ logging' \subseteq Lookups
  BY DEF Party!IInv, Party!Fresh, Party!Coming, Party!Calls, Party!TypeOK

\* The answer to a login is the session at hand from now on.
LEMMA LogInStep ==
  ASSUME Party!IInv, NEW p \in Lookups, Party!LogIn(p)
  PROVE  Party!IInv'
  <1> USE DEF Party!IInv
  <1>1. /\ p \in logging /\ logging' = logging \ {p} /\ session' = op[p].sid
        /\ UNCHANGED <<registry, cache, live, logins, op, kills, known, sole, refused>>
        /\ op[p].sid \in 0..logins
    BY LookupIs DEF Party!LogIn, Party!World
  <1>2. Party!Fresh'
    <2>1. ASSUME NEW q \in logging'
          PROVE  /\ op[q].at \in Party!Calls /\ op[q].sid \notin {Party!NoSession, op[p].sid}
                 /\ \A o \in Lookups \ {q} : op[o].sid # op[q].sid
      BY <1>1 DEF Party!Fresh
    <2> QED BY <1>1, <2>1 DEF Party!Fresh, Party!Calls
  <1>3. op[p].sid \in Party!Coming /\ Party!Coming' \subseteq Party!Coming BY <1>1 DEF Party!Coming
  <1>4. LookupGrown BY <1>1, <1>3 DEF LookupGrown, Party!Dead
  <1>5. Party!SessionsCounted' BY <1>1 DEF Party!SessionsCounted, Party!Dead
  <1> QED BY <1>1, <1>2, <1>4, <1>5, LookupWorldKeeps DEF Party!TypeOK, Keys

LEMMA KillStep ==
  ASSUME Party!IInv, NEW s \in live, Party!Kill(s)
  PROVE  Party!IInv'
  <1> USE DEF Party!IInv
  <1>1. /\ kills' = kills + 1 /\ live' = live \ {s} /\ live \subseteq 1..logins
        /\ UNCHANGED <<registry, cache, session, logins, op, logging, known, sole, refused>>
    BY DEF Party!Kill, Party!TypeOK
  <1>2. Party!Dead' = Party!Dead \cup {s} /\ s \notin Party!Dead BY <1>1 DEF Party!Dead
  <1>3. Cardinality(Party!Dead \cup {s}) = Cardinality(Party!Dead) + 1 /\ Cardinality(Party!Dead) \in Nat
    BY <1>2, DeadIs, FS_AddElement, FS_CardinalityType
  <1>4. Party!SessionsCounted' BY LookupCounts, <1>1, <1>2, <1>3 DEF Party!SessionsCounted
  <1>5. Party!Fresh' /\ Party!Coming' = Party!Coming /\ logging' \subseteq Lookups BY <1>1, LoginsKept
  <1>6. LookupGrown BY <1>1, <1>2, <1>5 DEF LookupGrown
  <1> QED BY <1>1, <1>4, <1>5, <1>6, LookupWorldKeeps DEF Party!TypeOK, Keys

LEMMA LapseStep ==
  ASSUME Party!IInv, Party!Lapse
  PROVE  Party!IInv'
  <1> USE DEF Party!IInv
  <1>1. /\ UNCHANGED <<registry, live, logins, op, logging, kills, known, sole, refused>>
        /\ session' \in {session, Party!NoSession} /\ cache' \in {cache, NoKpp}
    BY DEF Party!Lapse
  <1>2. Party!SessionsCounted' BY <1>1, DeadIs DEF Party!SessionsCounted, Party!Dead, Party!NoSession
  <1>3. Party!Fresh' /\ Party!Coming' = Party!Coming /\ logging' \subseteq Lookups BY <1>1, LoginsKept
  <1>4. LookupGrown BY <1>1, <1>3, DeadIs DEF LookupGrown, Party!Dead, Party!NoSession
  <1> QED BY <1>1, <1>2, <1>3, <1>4, LookupWorldKeeps DEF Party!TypeOK, Keys

LEMMA RegisterStep ==
  ASSUME Party!IInv, NEW k \in Branches, Party!Register(k)
  PROVE  Party!IInv'
  <1> USE DEF Party!IInv
  <1>1. /\ UNCHANGED <<cache, session, live, logins, op, logging, kills, sole, refused>>
        /\ registry' \subseteq Branches /\ known' = known \cup registry'
    BY DEF Party!Register, Party!TypeOK
  <1>2. Party!SessionsCounted' BY <1>1 DEF Party!SessionsCounted, Party!Dead
  <1>3. Party!Fresh' /\ Party!Coming' = Party!Coming /\ logging' \subseteq Lookups BY <1>1, LoginsKept
  <1>4. LookupGrown BY <1>1, <1>3 DEF LookupGrown, Party!Dead
  <1> QED BY <1>1, <1>2, <1>3, <1>4, LookupWorldKeeps DEF Party!TypeOK, Keys

LEMMA LookupInit ==
  ASSUME Party!Init
  PROVE  Party!IInv
  <1> DEFINE first == [at |-> "idle", want |-> NoKpp, kpp |-> NoKpp, sid |-> Party!NoSession,
                       retried |-> FALSE, found |-> FALSE, answer |-> Party!NoAnswer]
             Kind == [at : LookupPlaces, want : Keys, kpp : Keys, sid : 0..0,
                      retried : BOOLEAN, found : BOOLEAN, answer : AnswerKind]
  <1>1. /\ registry \subseteq Branches /\ known = registry /\ cache = NoKpp
        /\ session = 0 /\ live = {} /\ logins = 0 /\ kills = 0 /\ sole = {}
        /\ logging = {} /\ refused = FALSE
        /\ op = [p \in Lookups |-> first]
    BY DEF Party!Init, Party!NoSession
  <1>2. Party!NoAnswer \in AnswerKind /\ Party!NoAnswer.status = "none"
    BY DEF Party!NoAnswer, AnswerKind, Verdicts, Keys
  <1>3. /\ first \in Kind /\ first.at = "idle" /\ ~first.found /\ ~first.retried
        /\ first.answer = Party!NoAnswer
    BY <1>2 DEF LookupPlaces, Keys, Party!NoSession
  <1> HIDE DEF first
  <1>4. Party!Dead = {} /\ Cardinality(Party!Dead) = 0 BY <1>1, FS_EmptySet DEF Party!Dead
  <1>5. Party!SessionsCounted BY LookupCounts, <1>1, <1>4 DEF Party!SessionsCounted
  <1>6. 0 \in 0 .. Party!MaxLogins
    BY LookupCounts, ComponentConstants, FS_CardinalityType DEF Party!MaxLogins,
         Party!LookupConstants
  <1>7. op \in [Lookups -> Kind] BY <1>1, <1>3
  <1>8. Party!TypeOK
    <2>1. /\ cache \in Branches \cup {NoKpp} /\ logins \in 0..Party!MaxLogins
          /\ session \in 0..logins /\ live \subseteq 1..logins
      BY <1>1, <1>6
    <2>2. logging \subseteq Lookups /\ sole \subseteq Lookups /\ refused \in BOOLEAN BY <1>1
    <2>3. op \in [Lookups -> [at : LookupPlaces, want : Keys, kpp : Keys, sid : 0..logins,
                              retried : BOOLEAN, found : BOOLEAN, answer : AnswerKind]]
      BY <1>1, <1>7
    <2> QED BY <1>1, <2>1, <2>2, <2>3 DEF Party!TypeOK, LookupPlaces, Keys, AnswerKind, Verdicts
  <1>9. \A p \in Lookups : Party!GoesRight(p, op[p]) /\ Party!Answered(p, op[p])
    <2>1. \A p \in Lookups : op[p] = first BY <1>1
    <2> QED BY <2>1, <1>2, <1>3 DEF Party!GoesRight, Party!Answered, Party!Calls
  <1>10. Party!Fresh BY <1>1 DEF Party!Fresh
  <1> QED BY <1>5, <1>8, <1>9, <1>10 DEF Party!IInv

LEMMA LookupStep ==
  ASSUME Party!IInv, Party!Next
  PROVE  Party!IInv'
  BY LookupBegins, AuthStep, LogInStep, RefusedStep, RefusedAgainStep, FindStep, FullStep, InfoStep,
     LookupFails, StoreStep, KillStep, LapseStep, RegisterStep DEF Party!Next, Keys

LEMMA LookupStay ==
  ASSUME Party!IInv, UNCHANGED Party!vars
  PROVE  Party!IInv'
  <1>1. UNCHANGED <<registry, cache, session, live, logins, op, logging, kills, known, sole, refused>>
    BY DEF Party!vars
  <1>2. Party!Fresh' /\ Party!Coming' = Party!Coming /\ logging' \subseteq Lookups BY <1>1, LoginsKept
  <1>3. LookupGrown BY <1>1, <1>2 DEF LookupGrown, Party!Dead
  <1>4. Party!SessionsCounted' BY <1>1 DEF Party!IInv, Party!SessionsCounted, Party!Dead
  <1> QED BY <1>1, <1>2, <1>3, <1>4, LookupWorldKeeps DEF Party!IInv, Party!TypeOK, Keys

LEMMA LookupIsTrue ==
  ASSUME Party!IInv
  PROVE  Party!TypeOK /\ Party!LookupTrue
  BY DEF Party!IInv, Party!LookupTrue, Party!Answered, Party!SessionsCounted

LEMMA LookupAlways == Spec => [](which = "Party" => Party!IInv)
  <1> DEFINE I == which = "Party" => Party!IInv
  <1>1. Init => I BY LookupInit, ComponentConstants DEF Init
  <1>2. I /\ [Next]_vars => I'
    <2>1. ASSUME Party!IInv, [Party!Next]_Party!vars PROVE Party!IInv'
      BY <2>1, LookupStep, LookupStay, ComponentConstants
    <2>2. ASSUME [Next]_vars, which' = "Party"
          PROVE  which = "Party" /\ [Party!Next]_Party!vars
      BY <2>2 DEF Next, vars, Party!vars
    <2> QED BY <2>1, <2>2
  <1> QED BY <1>1, <1>2, PTL DEF Spec

\* Any requests at a time for the route of an organization, a counterparty or the issuers: a
\* route that is kept was there, a looked up party has the KPP asked for, and there is one
\* primary issuer unless requests overlapped.
THEOREM RoutesAreTrue == Spec => []RoutesTrue
  <1>1. /\ which = "Edo" => Edo!IInv
        /\ which = "Party" => Party!IInv
        /\ which = "Firm" => Firm!IInv
        => RoutesTrue
    BY InvitationsIs, LookupIsTrue, IssuingIs DEF RoutesTrue
  <1> QED BY <1>1, InvitationsAlways, LookupAlways, IssuingAlways, PTL

------------------------
\* The accounts: a code is drawn once, and only the newest one is stored by a request on
\* its own (Code!IInv).

\* FiniteSets is the same there as here.
LEMMA CodesCounts ==
  \A S : Code!Cardinality(S) = Cardinality(S) /\ (Code!IsFiniteSet(S) <=> IsFiniteSet(S))
  BY DEF Cardinality, Code!Cardinality, IsFiniteSet, Code!IsFiniteSet



CodePlaces == {"idle", "save", "create", "mail", "activate", "join", "sign", "over"}
CodeKind == [at : CodePlaces, code : Code!Codes \cup {Code!NoCode}]

\* One request moves; an activation that ends is counted.
AccountMoved(p, r) == op' = [op EXCEPT ![p] = r]

LEMMA OpOf ==
  ASSUME Code!IInv, NEW p \in Code!Ops
  PROVE  /\ op[p].at \in CodePlaces /\ op[p].code \in Code!Codes \cup {Code!NoCode}
         /\ op[p] \in CodeKind
  BY DEF Code!IInv, Code!TypeOK, CodePlaces, CodeKind

LEMMA MovedIs ==
  ASSUME Code!IInv, NEW p \in Code!Ops, NEW r \in CodeKind, AccountMoved(p, r)
  PROVE  /\ op' \in [Code!Ops -> CodeKind] /\ op'[p] = r
         /\ \A q \in Code!Ops \ {p} : op'[q] = op[q]
         /\ \A q \in Code!Ops \ {p} : Code!Live(q)' <=> Code!Live(q)
  <1>1. op \in [Code!Ops -> CodeKind] BY DEF Code!IInv, Code!TypeOK, CodePlaces, CodeKind
  <1>2. /\ op' \in [Code!Ops -> CodeKind] /\ op'[p] = r
        /\ \A q \in Code!Ops \ {p} : op'[q] = op[q]
    BY <1>1 DEF AccountMoved
  <1> QED BY <1>2 DEF Code!Live

LEMMA CountKept ==
  ASSUME Code!IInv, NEW p \in Code!Ops, NEW r \in CodeKind, AccountMoved(p, r),
         entered' = entered,
         p \in Activations => op[p].at # "over" /\ r.at # "over"
  PROVE  Code!Counted'
  <1>1. \A c \in Code!Codes : Code!Ended(c)' = Code!Ended(c) BY MovedIs DEF Code!Ended, Code!Ops
  <1> QED BY <1>1 DEF Code!IInv, Code!Counted, Code!Codes

LEMMA EnteredIs ==
  ASSUME Code!IInv, NEW c \in Code!Codes
  PROVE  entered[c] \in Nat
  <1>1. Cardinality(Activations) \in Nat
    BY CodesCounts, ComponentConstants, FS_CardinalityType DEF Code!AccountConstants
  <1> QED BY <1>1 DEF Code!IInv, Code!TypeOK


\* A step of a request that draws no code, lets nobody in and leaves the codes that are
\* known as they are.
LEMMA AccountQuietKeeps ==
  ASSUME Code!IInv, NEW p \in Code!Ops, NEW r \in CodeKind, AccountMoved(p, r),
         UNCHANGED <<row, drawn, mailed, last, entered, crossed>>,
         p \in Activations => op[p].at # "over" /\ r.at # "over",
         r.at \notin {"save", "create", "mail"}, r.code <= drawn,
         r.at = "activate" => r.code # Code!NoCode /\ r.code = row.code,
         r.at \in {"join", "sign"} => r.code = Code!NoCode, tokens' \subseteq Code!Ops
  PROVE  Code!IInv'
  <1> USE MovedIs
  <1>1. Code!TypeOK' BY DEF Code!IInv, Code!TypeOK, CodePlaces, CodeKind, Code!Rows, Code!Codes, Code!Ops
  <1>2. Code!Counted' BY CountKept
  <1>3. Code!DrawnOnce' BY DEF Code!IInv, Code!DrawnOnce, Code!Drawing
  <1>4. Code!UsedUp'
    <2> SUFFICES ASSUME NEW c \in Code!Codes, c \notin crossed, entered[c] # 0
        PROVE entered[c] = 1 /\ row.code # c /\ \A q \in Code!Ops : Code!Live(q)' => op'[q].code # c
      BY DEF Code!UsedUp, Code!Codes
    <2>1. entered[c] = 1 /\ row.code # c /\ \A q \in Code!Ops : Code!Live(q) => op[q].code # c
      BY DEF Code!IInv, Code!UsedUp
    <2>2. Code!Live(p)' => r.code # c BY <2>1 DEF Code!Live, CodeKind, CodePlaces, Code!Codes, Code!NoCode
    <2> QED BY <2>1, <2>2
  <1>5. Code!NewestSafe'
    <2> SUFFICES ASSUME drawn > 0, drawn \notin crossed, Code!Stored(drawn)'
        PROVE /\ row.exists /\ (row.code = drawn \/ (row.code = Code!NoCode /\ entered[drawn] > 0))
              /\ \A q \in Code!Ops : /\ op'[q].at \notin {"save", "create"}
                                     /\ op'[q].at = "activate" => op'[q].code = drawn
      BY DEF Code!NewestSafe
    <2>1. Code!Stored(drawn) BY DEF Code!Stored
    <2>2. /\ row.exists /\ (row.code = drawn \/ (row.code = Code!NoCode /\ entered[drawn] > 0))
          /\ \A q \in Code!Ops : /\ op[q].at \notin {"save", "create"}
                                 /\ op[q].at = "activate" => op[q].code = drawn
      BY <2>1 DEF Code!IInv, Code!NewestSafe
    <2> QED BY <2>2
  <1> QED BY <1>1, <1>2, <1>3, <1>4, <1>5 DEF Code!IInv

LEMMA NotYetEntered ==
  ASSUME Code!IInv, NEW c \in Code!Codes, c > drawn
  PROVE  entered[c] = 0
  <1>1. Code!Ended(c) = {}
    <2> SUFFICES ASSUME NEW p \in Code!Ended(c) PROVE FALSE OBVIOUS
    <2>1. p \in Code!Ops /\ op[p].code = c BY DEF Code!Ended, Code!Ops
    <2>2. op[p].code <= drawn BY <2>1 DEF Code!IInv, Code!DrawnOnce
    <2> QED BY <2>1, <2>2 DEF Code!IInv, Code!TypeOK, Code!Codes
  <1> QED BY CodesCounts, <1>1, FS_EmptySet DEF Code!IInv, Code!Counted

LEMMA DrawStep ==
  ASSUME Code!IInv, NEW p \in Logins \cup Signups, NEW at \in {"save", "create"},
         op[p].at = "idle",
         at = "save" => row.exists, Code!Draw(p, at),
         UNCHANGED <<row, mailed, last, entered, tokens, crossed>>
  PROVE  Code!IInv'
  <1> DEFINE r == [at |-> at, code |-> drawn + 1]
  <1>0. /\ drawn \in Nat /\ drawn + 1 \in Code!Codes /\ MaxCodes \in Nat /\ drawn' = drawn + 1
        /\ drawn < MaxCodes
    BY ComponentConstants DEF Code!IInv, Code!TypeOK, Code!Codes, Code!AccountConstants,
         Code!Draw
  <1>1. r \in CodeKind /\ r.at = at /\ r.code = drawn + 1 BY <1>0 DEF CodeKind, CodePlaces
  <1>2. AccountMoved(p, r) BY DEF Code!Draw, AccountMoved
  <1> HIDE DEF r
  <1>3. p \in Code!Ops /\ p \notin Activations BY ComponentConstants DEF Code!Ops, Code!AccountConstants
  <1>4. /\ op' \in [Code!Ops -> CodeKind] /\ op'[p] = r
        /\ \A q \in Code!Ops \ {p} : op'[q] = op[q]
        /\ \A q \in Code!Ops \ {p} : Code!Live(q)' <=> Code!Live(q)
    BY <1>1, <1>2, <1>3, MovedIs
  <1>5. Code!TypeOK'
    BY <1>0, <1>3, <1>4 DEF Code!IInv, Code!TypeOK, CodePlaces, CodeKind, Code!Rows,
         Code!Codes, Code!Ops
  <1>6. Code!Counted' BY <1>1, <1>2, <1>3, CountKept
  <1>7. Code!DrawnOnce'
    <2>1. row.code <= drawn' /\ row.code \in Nat
      BY <1>0 DEF Code!IInv, Code!DrawnOnce, Code!TypeOK, Code!Rows, Code!Codes, Code!NoCode
    <2>2. \A c \in mailed : c <= drawn /\ c \in Nat BY DEF Code!IInv, Code!DrawnOnce, Code!TypeOK, Code!Codes
    <2>3. \A q \in Code!Ops : op[q].code <= drawn /\ op[q].code \in Nat
      BY OpOf DEF Code!IInv, Code!DrawnOnce, Code!Codes, Code!NoCode
    <2>4. \A c \in mailed : c <= drawn' /\ \A q \in Code!Ops : Code!Drawing(q)' => op'[q].code # c
      BY <1>0, <1>1, <1>4, <2>2 DEF Code!IInv, Code!DrawnOnce, Code!Drawing
    <2>5. \A q \in Code!Ops : /\ op'[q].code <= drawn'
                              /\ Code!Drawing(q)' \/ op'[q].at = "activate" => op'[q].code # Code!NoCode
                              /\ op'[q].at = "save" => row'.exists
      BY <1>0, <1>1, <1>4, <2>3 DEF Code!IInv, Code!DrawnOnce, Code!Drawing, Code!NoCode
    <2>6. \A q \in Code!Ops : op'[q].code = drawn + 1 => q = p BY <1>0, <1>4, <2>3
    <2>7. \A q, s \in Code!Ops : q # s /\ Code!Drawing(q)' /\ Code!Drawing(s)' => op'[q].code # op'[s].code
      BY <1>1, <1>4, <2>6 DEF Code!IInv, Code!DrawnOnce, Code!Drawing
    <2>8. last' \in mailed' \cup {Code!NoCode} BY DEF Code!IInv, Code!DrawnOnce
    <2> QED BY <2>1, <2>4, <2>5, <2>7, <2>8 DEF Code!DrawnOnce, Code!Drawing
  <1>8. Code!UsedUp'
    <2> SUFFICES ASSUME NEW c \in Code!Codes, c \notin crossed, entered[c] # 0
        PROVE entered[c] = 1 /\ row.code # c /\ \A q \in Code!Ops : Code!Live(q)' => op'[q].code # c
      BY DEF Code!UsedUp, Code!Codes
    <2>1. entered[c] = 1 /\ row.code # c /\ \A q \in Code!Ops : Code!Live(q) => op[q].code # c
      BY DEF Code!IInv, Code!UsedUp
    <2>2. c # drawn + 1 BY <1>0, NotYetEntered
    <2> QED BY <2>1, <2>2, <1>1, <1>4
  <1>9. Code!NewestSafe'
    <2>0. PICK n \in Code!Codes : n = drawn + 1 BY <1>0
    <2>1. ~Code!Stored(n)'
      <3>1. n \notin mailed BY <1>0, <2>0 DEF Code!IInv, Code!DrawnOnce
      <3>2. \A q \in Code!Ops \ {p} : op[q].at # "mail" \/ op[q].code # n
        BY <1>0, <2>0 DEF Code!IInv, Code!DrawnOnce
      <3> QED BY <3>1, <3>2, <1>1, <1>4 DEF Code!Stored
    <2>2. drawn' = n BY <1>0, <2>0
    <2> QED BY <2>1, <2>2 DEF Code!NewestSafe
  <1> QED BY <1>5, <1>6, <1>7, <1>8, <1>9 DEF Code!IInv

\* A code is stored: with another request under way, both are crossed.
Puts(p, exists) ==
    /\ row' \in Code!Rows /\ row'.exists /\ row'.code = op[p].code /\ (exists => row.exists)
    /\ Code!Cross(p, op[p].code)

LEMMA CrossIs ==
  ASSUME Code!IInv, NEW p \in Code!Ops, NEW c \in Code!Codes \cup {Code!NoCode},
         Code!Cross(p, c)
  PROVE  /\ crossed \subseteq crossed' /\ crossed' \subseteq Code!Codes \cup {Code!NoCode}
         /\ \A q \in Code!Ops \ {p} : Code!Live(q) => c \in crossed' /\ op[q].code \in crossed'
  BY OpOf DEF Code!Cross, Code!IInv, Code!TypeOK

LEMMA PutKeeps ==
  ASSUME Code!IInv, NEW p \in Code!Ops, p \notin Activations, NEW exists, Puts(p, exists),
         op[p].at \in {"save", "create"}, op[p].at = "save" => row.exists,
         Code!Goto(p, "mail"), UNCHANGED <<drawn, mailed, last, entered, tokens>>
  PROVE  Code!IInv'
  <1> DEFINE r == [op[p] EXCEPT !.at = "mail"]
  <1> DEFINE d == op[p].code
  <1>0. /\ op[p] \in CodeKind /\ d \in Code!Codes /\ d <= drawn
        /\ Code!Live(p) /\ Code!Drawing(p)
    BY OpOf DEF Code!IInv, Code!DrawnOnce, Code!Drawing, Code!Live
  <1>1. r \in CodeKind /\ r.at = "mail" /\ r.code = d BY <1>0 DEF CodeKind, CodePlaces
  <1>2. AccountMoved(p, r)
    <2>1. op \in [Code!Ops -> CodeKind] BY DEF Code!IInv, Code!TypeOK, CodeKind, CodePlaces
    <2> QED BY <2>1 DEF Code!Goto, AccountMoved
  <1>3. /\ row' \in Code!Rows /\ row'.exists /\ row'.code = d
        /\ crossed \subseteq crossed' /\ crossed' \subseteq Code!Codes \cup {Code!NoCode}
        /\ \A q \in Code!Ops \ {p} : Code!Live(q) => d \in crossed' /\ op[q].code \in crossed'
    BY <1>0, CrossIs DEF Puts
  <1> HIDE DEF r
  <1>4. /\ op' \in [Code!Ops -> CodeKind] /\ op'[p] = r
        /\ \A q \in Code!Ops \ {p} : op'[q] = op[q]
        /\ \A q \in Code!Ops \ {p} : Code!Live(q)' <=> Code!Live(q)
    BY <1>1, <1>2, MovedIs
  <1> HIDE DEF d
  <1>5. Code!TypeOK' BY <1>3, <1>4 DEF Code!IInv, Code!TypeOK, CodePlaces, CodeKind, Code!Codes, Code!Ops
  <1>6. Code!Counted' BY <1>1, <1>2, CountKept
  <1>7. Code!DrawnOnce' BY <1>0, <1>1, <1>3, <1>4 DEF Code!IInv, Code!DrawnOnce, Code!Drawing, d
  <1>8. Code!UsedUp'
    <2> SUFFICES ASSUME NEW c \in Code!Codes, c \notin crossed', entered[c] # 0
        PROVE entered[c] = 1 /\ row'.code # c /\ \A q \in Code!Ops : Code!Live(q)' => op'[q].code # c
      BY DEF Code!UsedUp, Code!Codes
    <2>1. entered[c] = 1 /\ row.code # c /\ \A q \in Code!Ops : Code!Live(q) => op[q].code # c
      BY <1>3 DEF Code!IInv, Code!UsedUp
    <2> QED BY <2>1, <1>0, <1>1, <1>3, <1>4 DEF d
  <1>9. Code!NewestSafe'
    <2> SUFFICES ASSUME drawn > 0, drawn \notin crossed', Code!Stored(drawn)'
        PROVE /\ row'.exists /\ (row'.code = drawn \/ (row'.code = Code!NoCode /\ entered[drawn] > 0))
              /\ \A q \in Code!Ops : /\ op'[q].at \notin {"save", "create"}
                                     /\ op'[q].at = "activate" => op'[q].code = drawn
      BY DEF Code!NewestSafe
    <2>1. CASE d = drawn
      <3>1. \A q \in Code!Ops \ {p} : ~Code!Live(q) BY <1>3, <2>1
      <3>2. \A q \in Code!Ops \ {p} : op[q].at \notin {"save", "create", "activate"} BY <3>1 DEF Code!Live
      <3> QED BY <3>2, <2>1, <1>1, <1>3, <1>4
    <2>2. CASE d # drawn
      <3>1. Code!Stored(drawn) BY <2>2, <1>1, <1>4 DEF Code!Stored
      <3>2. op[p].at \notin {"save", "create"} BY <3>1, <1>3 DEF Code!IInv, Code!NewestSafe
      <3> QED BY <3>2
    <2> QED BY <2>1, <2>2
  <1> QED BY <1>5, <1>6, <1>7, <1>8, <1>9 DEF Code!IInv

LEMMA SaveCodeStep ==
  ASSUME Code!IInv, NEW p \in Logins \cup Signups, Code!SaveCode(p)
  PROVE  Code!IInv'
  <1>1. p \in Code!Ops /\ p \notin Activations BY ComponentConstants DEF Code!Ops, Code!AccountConstants
  <1>2. op[p].at = "save" /\ row.exists /\ row \in Code!Rows /\ op[p].code \in Code!Codes \cup {Code!NoCode}
    BY <1>1, OpOf DEF Code!SaveCode, Code!IInv, Code!DrawnOnce, Code!TypeOK
  <1>3. row' \in Code!Rows /\ row'.exists /\ row'.code = op[p].code BY <1>2 DEF Code!SaveCode, Code!Rows
  <1>4. Puts(p, TRUE) BY <1>2, <1>3 DEF Puts, Code!SaveCode
  <1> QED BY <1>1, <1>2, <1>4, PutKeeps DEF Code!SaveCode

LEMMA MovedTo ==
  ASSUME Code!IInv, NEW p \in Code!Ops, NEW at \in CodePlaces, Code!Goto(p, at)
  PROVE  \E r \in CodeKind : r.at = at /\ r.code = op[p].code /\ AccountMoved(p, r)
  <1> DEFINE r == [op[p] EXCEPT !.at = at]
  <1>1. op \in [Code!Ops -> CodeKind] BY DEF Code!IInv, Code!TypeOK, CodeKind, CodePlaces
  <1>2. r \in CodeKind /\ r.at = at /\ r.code = op[p].code BY <1>1 DEF CodeKind
  <1>3. AccountMoved(p, r) BY <1>1 DEF Code!Goto, AccountMoved
  <1> QED BY <1>2, <1>3

LEMMA CreateStep ==
  ASSUME Code!IInv, NEW p \in Signups, Code!CreateAccount(p)
  PROVE  Code!IInv'
  <1>1. p \in Code!Ops /\ p \notin Activations /\ op[p].at = "create"
    BY ComponentConstants DEF Code!Ops, Code!AccountConstants, Code!CreateAccount
  <1>0. tokens \subseteq Code!Ops BY DEF Code!IInv, Code!TypeOK
  <1>2. CASE row.exists
    <2>1. PICK r \in CodeKind : r.at = "over" /\ r.code = op[p].code /\ AccountMoved(p, r)
      BY <1>1, <1>2, MovedTo DEF Code!CreateAccount, CodePlaces
    <2>2. r.code <= drawn BY <1>1, <2>1 DEF Code!IInv, Code!DrawnOnce
    <2> QED BY <1>1, <1>2, <2>1, <2>2, <1>0, AccountQuietKeeps DEF Code!CreateAccount
  <1>3. CASE ~row.exists
    <2>1. op[p].code \in Code!Codes \cup {Code!NoCode} BY <1>1, OpOf
    <2>2. row' \in Code!Rows /\ row'.exists /\ row'.code = op[p].code
      <3>1. row' = [exists |-> TRUE, active |-> FALSE, code |-> op[p].code, expired |-> FALSE]
        BY <1>3 DEF Code!CreateAccount
      <3> QED BY <2>1, <3>1 DEF Code!Rows
    <2>3. Puts(p, FALSE) BY <1>3, <2>2 DEF Puts, Code!CreateAccount
    <2> QED BY <1>1, <1>3, <2>3, PutKeeps DEF Code!CreateAccount
  <1> QED BY <1>2, <1>3

LEMMA SendMailStep ==
  ASSUME Code!IInv, NEW p \in Logins \cup Signups, NEW sent \in BOOLEAN, Code!SendMail(p, sent)
  PROVE  Code!IInv'
  <1>1. p \in Code!Ops /\ p \notin Activations /\ op[p].at = "mail"
    BY ComponentConstants DEF Code!Ops, Code!AccountConstants, Code!SendMail
  <1>2. PICK r \in CodeKind : r.at = "over" /\ r.code = op[p].code /\ AccountMoved(p, r)
    BY <1>1, MovedTo DEF Code!SendMail, CodePlaces
  <1>3. r.code <= drawn /\ r.code \in Code!Codes BY <1>1, <1>2, OpOf DEF Code!IInv, Code!DrawnOnce, Code!Drawing
  <1>0. tokens \subseteq Code!Ops BY DEF Code!IInv, Code!TypeOK
  <1>4. CASE ~sent BY <1>0, <1>1, <1>2, <1>3, <1>4, AccountQuietKeeps DEF Code!SendMail
  <1>5. CASE sent
    <2>1. /\ mailed' = mailed \cup {r.code} /\ last' = r.code
          /\ UNCHANGED <<row, drawn, entered, tokens, crossed>>
      BY <1>2, <1>5 DEF Code!SendMail
    <2>2. /\ op' \in [Code!Ops -> CodeKind] /\ op'[p] = r
          /\ \A q \in Code!Ops \ {p} : op'[q] = op[q]
          /\ \A q \in Code!Ops \ {p} : Code!Live(q)' <=> Code!Live(q)
      BY <1>1, <1>2, MovedIs
    <2>3. Code!TypeOK'
      BY <1>3, <2>1, <2>2 DEF Code!IInv, Code!TypeOK, CodePlaces, CodeKind, Code!Codes,
           Code!Ops, Code!Rows
    <2>4. Code!Counted' BY <1>1, <1>2, <2>1, CountKept
    <2>5. Code!DrawnOnce' BY <1>1, <1>2, <1>3, <2>1, <2>2 DEF Code!IInv, Code!DrawnOnce, Code!Drawing
    <2>6. Code!UsedUp'
      <3> SUFFICES ASSUME NEW c \in Code!Codes, c \notin crossed, entered[c] # 0
          PROVE entered[c] = 1 /\ row.code # c /\ \A q \in Code!Ops : Code!Live(q)' => op'[q].code # c
        BY <2>1 DEF Code!UsedUp, Code!Codes
      <3>1. entered[c] = 1 /\ row.code # c /\ \A q \in Code!Ops : Code!Live(q) => op[q].code # c
        BY DEF Code!IInv, Code!UsedUp
      <3>2. ~Code!Live(p)' BY <1>2, <2>2 DEF Code!Live
      <3> QED BY <3>1, <3>2, <2>2
    <2>7. Code!NewestSafe'
      <3> SUFFICES ASSUME drawn > 0, drawn \notin crossed, Code!Stored(drawn)'
          PROVE /\ row.exists /\ (row.code = drawn \/ (row.code = Code!NoCode /\ entered[drawn] > 0))
                /\ \A q \in Code!Ops : /\ op'[q].at \notin {"save", "create"}
                                       /\ op'[q].at = "activate" => op'[q].code = drawn
        BY <2>1 DEF Code!NewestSafe
      <3>1. Code!Stored(drawn) BY <1>1, <1>2, <2>1, <2>2 DEF Code!Stored
      <3>2. /\ row.exists /\ (row.code = drawn \/ (row.code = Code!NoCode /\ entered[drawn] > 0))
            /\ \A q \in Code!Ops : /\ op[q].at \notin {"save", "create"}
                                   /\ op[q].at = "activate" => op[q].code = drawn
        BY <3>1 DEF Code!IInv, Code!NewestSafe
      <3> QED BY <3>2, <1>2, <2>2
    <2> QED BY <2>3, <2>4, <2>5, <2>6, <2>7 DEF Code!IInv
  <1> QED BY <1>4, <1>5

LEMMA CheckCodeStep ==
  ASSUME Code!IInv, NEW p \in Activations, NEW c \in Code!Codes, Code!CheckCode(p, c)
  PROVE  Code!IInv'
  <1> DEFINE r == [at |-> "activate", code |-> c]
  <1>1. r \in CodeKind /\ r.at = "activate" /\ r.code = c BY DEF CodeKind, CodePlaces
  <1>2. AccountMoved(p, r) /\ p \in Code!Ops BY DEF Code!CheckCode, AccountMoved, Code!Ops
  <1>3. c <= drawn /\ c # Code!NoCode /\ c = row.code BY DEF Code!CheckCode, Code!IInv, Code!DrawnOnce
  <1> HIDE DEF r
  <1>4. tokens \subseteq Code!Ops BY DEF Code!IInv, Code!TypeOK
  <1> QED BY <1>1, <1>2, <1>3, <1>4, AccountQuietKeeps DEF Code!CheckCode, Code!ReadsOnly

LEMMA ActivateStep ==
  ASSUME Code!IInv, NEW p \in Activations, Code!Activate(p)
  PROVE  Code!IInv'
  <1>1. p \in Code!Ops /\ op[p].at = "activate" /\ Code!Live(p) BY DEF Code!Ops, Code!Activate, Code!Live
  <1>2. PICK d \in Code!Codes : d = op[p].code /\ d <= drawn BY <1>1, OpOf DEF Code!IInv, Code!DrawnOnce
  <1>3. PICK r \in CodeKind : r.at = "over" /\ r.code = d /\ AccountMoved(p, r)
    BY <1>1, <1>2, MovedTo DEF Code!Activate, CodePlaces
  <1>4. /\ op' \in [Code!Ops -> CodeKind] /\ op'[p] = r
        /\ \A q \in Code!Ops \ {p} : op'[q] = op[q]
        /\ \A q \in Code!Ops \ {p} : Code!Live(q)' <=> Code!Live(q)
    BY <1>1, <1>3, MovedIs
  <1>5. /\ row' \in Code!Rows /\ row'.exists = row.exists /\ row'.code = Code!NoCode
        /\ tokens' = tokens \cup {p} /\ UNCHANGED <<drawn, mailed, last>>
    BY DEF Code!Activate, Code!IInv, Code!TypeOK, Code!Rows
  <1>6. /\ crossed \subseteq crossed' /\ crossed' \subseteq Code!Codes \cup {Code!NoCode}
        /\ \A q \in Code!Ops \ {p} : Code!Live(q) => d \in crossed'
    <2>1. Code!Cross(p, d) BY <1>2 DEF Code!Activate
    <2> QED BY <1>1, <2>1, CrossIs
  <1>7. /\ entered' = [entered EXCEPT ![d] = @ + 1]
        /\ DOMAIN entered = Code!Codes
    BY <1>2 DEF Code!Activate, Code!IInv, Code!TypeOK
  <1>8. Code!Counted'
    <2>1. IsFiniteSet(Code!Ended(d)) /\ p \notin Code!Ended(d)
      <3>1. Code!Ended(d) \subseteq Activations BY DEF Code!Ended
      <3> QED
        BY CodesCounts, <3>1, <1>1, ComponentConstants, FS_Subset DEF Code!Ended,
             Code!AccountConstants
    <2>2. Code!Ended(d)' = Code!Ended(d) \cup {p} BY <1>1, <1>3, <1>4 DEF Code!Ended, Code!Ops
    <2>3. ASSUME NEW c \in Code!Codes, c # d PROVE Code!Ended(c)' = Code!Ended(c)
      BY <1>1, <1>3, <1>4, <2>3 DEF Code!Ended, Code!Ops
    <2>4. Cardinality(Code!Ended(d)') = Cardinality(Code!Ended(d)) + 1 BY <2>1, <2>2, FS_AddElement
    <2>5. \A c \in Code!Codes : entered'[c] = IF c = d THEN entered[c] + 1 ELSE entered[c] BY <1>2, <1>7
    <2>6. \A c \in Code!Codes : entered[c] = Cardinality(Code!Ended(c)) BY CodesCounts DEF Code!IInv, Code!Counted
    <2> QED BY CodesCounts, <2>3, <2>4, <2>5, <2>6 DEF Code!Counted, Code!Codes
  <1>9. entered' \in [Code!Codes -> 0..Cardinality(Activations)]
    <2> SUFFICES ASSUME NEW c \in Code!Codes PROVE entered'[c] \in 0..Cardinality(Activations) BY <1>7
    <2>1. Code!Ended(c)' \subseteq Activations BY DEF Code!Ended
    <2>2. /\ Cardinality(Code!Ended(c)') <= Cardinality(Activations) /\ Cardinality(Code!Ended(c)') \in Nat
          /\ Cardinality(Activations) \in Nat
      BY CodesCounts, <2>1, ComponentConstants, FS_Subset,
           FS_CardinalityType DEF Code!AccountConstants
    <2>3. entered'[c] = Cardinality(Code!Ended(c)') BY CodesCounts, <1>8 DEF Code!Counted, Code!Codes
    <2> QED BY <2>2, <2>3
  <1>10. Code!TypeOK'
    BY CodesCounts, <1>1, <1>4, <1>5, <1>6, <1>9 DEF Code!IInv, Code!TypeOK, CodePlaces,
         CodeKind, Code!Codes, Code!Ops
  <1>11. Code!DrawnOnce'
    <2>1. Code!NoCode <= drawn BY ComponentConstants DEF Code!IInv, Code!TypeOK, Code!NoCode, Code!AccountConstants
    <2> QED BY <2>1, <1>2, <1>3, <1>4, <1>5 DEF Code!IInv, Code!DrawnOnce, Code!Drawing
  <1>12. Code!UsedUp'
    <2> SUFFICES ASSUME NEW c \in Code!Codes, c \notin crossed', entered'[c] # 0
        PROVE entered'[c] = 1 /\ row'.code # c /\ \A q \in Code!Ops : Code!Live(q)' => op'[q].code # c
      BY DEF Code!UsedUp, Code!Codes
    <2>0. c # Code!NoCode /\ ~Code!Live(p)' BY <1>3, <1>4 DEF Code!Codes, Code!NoCode, Code!Live
    <2>1. CASE c = d
      <3>1. \A q \in Code!Ops \ {p} : ~Code!Live(q) BY <1>6, <2>1
      <3>2. entered[d] = 0 BY <1>1, <1>2, <1>6, <2>1 DEF Code!IInv, Code!UsedUp
      <3>3. entered'[c] = 1 BY <1>2, <1>7, <2>1, <3>2
      <3> QED BY <2>0, <3>1, <3>3, <1>4, <1>5
    <2>2. CASE c # d
      <3>1. entered'[c] = entered[c] BY <1>7, <2>2
      <3>2. entered[c] = 1 /\ \A q \in Code!Ops : Code!Live(q) => op[q].code # c
        BY <1>6, <3>1 DEF Code!IInv, Code!UsedUp
      <3> QED BY <2>0, <3>1, <3>2, <1>4, <1>5
    <2> QED BY <2>1, <2>2
  <1>13. Code!NewestSafe'
    <2> SUFFICES ASSUME drawn > 0, drawn \notin crossed', Code!Stored(drawn)'
        PROVE /\ row'.exists /\ (row'.code = drawn \/ (row'.code = Code!NoCode /\ entered'[drawn] > 0))
              /\ \A q \in Code!Ops : /\ op'[q].at \notin {"save", "create"}
                                     /\ op'[q].at = "activate" => op'[q].code = drawn
      BY <1>5 DEF Code!NewestSafe
    <2>1. Code!Stored(drawn) BY <1>3, <1>4, <1>5 DEF Code!Stored
    <2>2. /\ row.exists
          /\ \A q \in Code!Ops : /\ op[q].at \notin {"save", "create"}
                                 /\ op[q].at = "activate" => op[q].code = drawn
      BY <2>1, <1>6 DEF Code!IInv, Code!NewestSafe
    <2>3. d = drawn BY <2>2, <1>1, <1>2
    <2>4. entered'[drawn] = entered[d] + 1 /\ entered[d] \in Nat BY <2>3, <1>2, <1>7, EnteredIs
    <2>5. entered'[drawn] > 0 BY <2>4
    <2> QED BY <2>2, <2>5, <1>3, <1>4, <1>5
  <1> QED BY <1>8, <1>10, <1>11, <1>12, <1>13 DEF Code!IInv

LEMMA SocialStep ==
  ASSUME Code!IInv, NEW p \in Socials, Code!BeginSocial(p) \/ Code!Join(p) \/ Code!Sign(p)
  PROVE  Code!IInv'
  <1>0. tokens \subseteq Code!Ops BY DEF Code!IInv, Code!TypeOK
  <1>1. p \in Code!Ops /\ p \notin Activations BY ComponentConstants DEF Code!Ops, Code!AccountConstants
  <1>2. Code!NoCode <= drawn BY ComponentConstants DEF Code!IInv, Code!TypeOK, Code!NoCode, Code!AccountConstants
  <1>3. CASE Code!BeginSocial(p)
    <2> DEFINE r == [at |-> IF row.exists THEN "sign" ELSE "join", code |-> Code!NoCode]
    <2>1. r \in CodeKind /\ r.at \in {"sign", "join"} /\ r.code = Code!NoCode BY DEF CodeKind, CodePlaces
    <2>2. AccountMoved(p, r) BY <1>3 DEF Code!BeginSocial, AccountMoved
    <2> HIDE DEF r
    <2> QED
      BY <1>1, <1>2, <1>3, <2>1, <2>2, <1>0, AccountQuietKeeps DEF Code!BeginSocial,
           Code!ReadsOnly
  <1>4. op[p].code <= drawn BY <1>1 DEF Code!IInv, Code!DrawnOnce
  <1>5. CASE Code!Sign(p)
    <2>1. PICK r \in CodeKind : r.at = "over" /\ r.code = op[p].code /\ AccountMoved(p, r)
      BY <1>1, <1>5, MovedTo DEF Code!Sign, CodePlaces
    <2> QED BY <1>1, <1>4, <1>5, <2>1, <1>0, AccountQuietKeeps DEF Code!Sign
  <1>6. CASE Code!Join(p) /\ row.exists
    <2>1. PICK r \in CodeKind : r.at = "over" /\ r.code = op[p].code /\ AccountMoved(p, r)
      BY <1>1, <1>6, MovedTo DEF Code!Join, CodePlaces
    <2> QED BY <1>1, <1>4, <1>6, <2>1, <1>0, AccountQuietKeeps DEF Code!Join
  <1>7. CASE Code!Join(p) /\ ~row.exists
    <2>1. PICK r \in CodeKind : r.at = "sign" /\ r.code = op[p].code /\ AccountMoved(p, r)
      BY <1>1, <1>7, MovedTo DEF Code!Join, CodePlaces
    <2>2. /\ op' \in [Code!Ops -> CodeKind] /\ op'[p] = r
          /\ \A q \in Code!Ops \ {p} : op'[q] = op[q]
          /\ \A q \in Code!Ops \ {p} : Code!Live(q)' <=> Code!Live(q)
      BY <1>1, <2>1, MovedIs
    <2>3. /\ row' \in Code!Rows /\ row'.exists /\ row'.code = Code!NoCode
          /\ UNCHANGED <<drawn, mailed, last, entered, tokens>>
      BY <1>7 DEF Code!Join, Code!Rows, Code!NoRow
    <2>4. crossed \subseteq crossed' /\ crossed' \subseteq Code!Codes \cup {Code!NoCode}
      BY <1>1, <1>7, CrossIs DEF Code!Join
    <2>5. Code!Live(p) /\ Code!Live(p)' BY <1>7, <2>1, <2>2 DEF Code!Join, Code!Live
    <2>6. Code!TypeOK' BY <2>2, <2>3, <2>4 DEF Code!IInv, Code!TypeOK, CodePlaces, CodeKind, Code!Codes, Code!Ops
    <2>7. Code!Counted' BY <1>1, <2>1, <2>3, CountKept
    <2>8. Code!DrawnOnce' BY <1>2, <1>4, <2>1, <2>2, <2>3 DEF Code!IInv, Code!DrawnOnce, Code!Drawing
    <2>9. Code!UsedUp'
      <3> SUFFICES ASSUME NEW c \in Code!Codes, c \notin crossed', entered[c] # 0
          PROVE entered[c] = 1 /\ row'.code # c /\ \A q \in Code!Ops : Code!Live(q)' => op'[q].code # c
        BY <2>3 DEF Code!UsedUp, Code!Codes
      <3>1. entered[c] = 1 /\ row.code # c /\ \A q \in Code!Ops : Code!Live(q) => op[q].code # c
        BY <2>4 DEF Code!IInv, Code!UsedUp
      <3>2. c # Code!NoCode BY DEF Code!Codes, Code!NoCode
      <3> QED BY <3>1, <3>2, <2>1, <2>2, <2>3, <2>5, <1>1
    <2>10. Code!NewestSafe'
      <3> SUFFICES ASSUME drawn > 0, drawn \notin crossed', Code!Stored(drawn)' PROVE FALSE
        BY <2>3 DEF Code!NewestSafe
      <3>1. Code!Stored(drawn) BY <2>1, <2>2, <2>3 DEF Code!Stored
      <3>2. row.exists BY <3>1, <2>4 DEF Code!IInv, Code!NewestSafe
      <3> QED BY <3>2, <1>7
    <2> QED BY <2>6, <2>7, <2>8, <2>9, <2>10 DEF Code!IInv
  <1> QED BY <1>3, <1>5, <1>6, <1>7

LEMMA CodeStays ==
  ASSUME Code!IInv, row' \in Code!Rows, row'.exists = row.exists, row'.code = row.code,
         UNCHANGED <<op, drawn, mailed, last, entered, tokens, crossed>>
  PROVE  Code!IInv'
  <1>1. Code!TypeOK' BY DEF Code!IInv, Code!TypeOK, Code!Codes, Code!Ops
  <1>2. Code!Counted' BY CodesCounts DEF Code!IInv, Code!Counted, Code!Ended, Code!Codes, Code!Ops
  <1>3. Code!DrawnOnce' BY DEF Code!IInv, Code!DrawnOnce, Code!Drawing, Code!Ops
  <1>4. Code!UsedUp' BY DEF Code!IInv, Code!UsedUp, Code!Live, Code!Codes, Code!Ops
  <1>5. Code!NewestSafe'
    <2>1. Code!Stored(drawn)' <=> Code!Stored(drawn) BY DEF Code!Stored
    <2> QED BY <2>1 DEF Code!IInv, Code!NewestSafe
  <1> QED BY <1>1, <1>2, <1>3, <1>4, <1>5 DEF Code!IInv

LEMMA AccountsInit ==
  ASSUME Code!Init
  PROVE  Code!IInv
  <1> DEFINE first == [at |-> "idle", code |-> Code!NoCode]
  <1>1. /\ row = Code!NoRow /\ drawn = 0 /\ mailed = {} /\ last = Code!NoCode /\ tokens = {} /\ crossed = {}
        /\ op = [p \in Code!Ops |-> first] /\ entered = [c \in Code!Codes |-> 0]
    BY DEF Code!Init
  <1>2. first \in CodeKind /\ first.at = "idle" /\ first.code = 0 BY DEF CodeKind, CodePlaces, Code!NoCode
  <1>3. Code!NoRow \in Code!Rows /\ Code!NoRow.code = 0 BY DEF Code!NoRow, Code!Rows, Code!NoCode
  <1> HIDE DEF first
  <1>4. 0 \in 0..MaxCodes /\ 0 \in 0..Cardinality(Activations)
    BY CodesCounts, ComponentConstants, FS_CardinalityType DEF Code!AccountConstants
  <1>5. Code!TypeOK BY CodesCounts, <1>1, <1>2, <1>3, <1>4 DEF Code!TypeOK, CodeKind, CodePlaces
  <1>6. \A c \in Code!Codes : Code!Ended(c) = {} BY <1>1, <1>2 DEF Code!Ended, Code!Ops
  <1>7. Code!Counted BY CodesCounts, <1>1, <1>6, FS_EmptySet DEF Code!Counted
  <1>8. Code!DrawnOnce BY <1>1, <1>2, <1>3 DEF Code!DrawnOnce, Code!Drawing
  <1> QED BY <1>1, <1>5, <1>7, <1>8 DEF Code!IInv, Code!UsedUp, Code!NewestSafe

LEMMA AccountsStep ==
  ASSUME Code!IInv, Code!Next
  PROVE  Code!IInv'
  <1>1. ASSUME NEW p \in Logins, Code!BeginLogin(p) PROVE Code!IInv' BY <1>1, DrawStep DEF Code!BeginLogin
  <1>2. ASSUME NEW p \in Signups, Code!BeginSignup(p) PROVE Code!IInv'
    <2> DEFINE at == IF row.exists THEN "save" ELSE "create"
    <2>1. at \in {"save", "create"} /\ (at = "save" => row.exists) OBVIOUS
    <2>2. Code!Draw(p, at) BY <1>2 DEF Code!BeginSignup
    <2> HIDE DEF at
    <2> QED BY <1>2, <2>1, <2>2, DrawStep DEF Code!BeginSignup
  <1>3. ASSUME Code!Expire PROVE Code!IInv'
    <2>1. row' \in Code!Rows /\ row'.exists = row.exists /\ row'.code = row.code
      BY <1>3 DEF Code!Expire, Code!IInv, Code!TypeOK, Code!Rows
    <2> QED BY <2>1, <1>3, CodeStays DEF Code!Expire
  <1> QED
    BY <1>1, <1>2, <1>3, CreateStep, SaveCodeStep, SendMailStep, CheckCodeStep, ActivateStep,
       SocialStep DEF Code!Next

LEMMA AccountsStay ==
  ASSUME Code!IInv, UNCHANGED Code!vars
  PROVE  Code!IInv'
  BY CodeStays DEF Code!vars, Code!IInv, Code!TypeOK

LEMMA AccountsAre ==
  ASSUME Code!IInv
  PROVE  Code!TypeOK /\ Code!CodeUsedOnce /\ Code!NewestCodeWorks
  <1>1. Code!CodeUsedOnce BY EnteredIs DEF Code!IInv, Code!UsedUp, Code!CodeUsedOnce
  <1>2. Code!NewestCodeWorks
    <2> SUFFICES ASSUME drawn > 0, last = drawn, last \notin crossed
        PROVE row.code = last \/ entered[last] > 0
      BY DEF Code!NewestCodeWorks
    <2>1. Code!Stored(drawn) BY DEF Code!IInv, Code!DrawnOnce, Code!Stored, Code!NoCode
    <2> QED BY <2>1 DEF Code!IInv, Code!NewestSafe
  <1> QED BY <1>1, <1>2 DEF Code!IInv

LEMMA CodesAlways == Spec => [](which = "Code" => Code!IInv)
  <1> DEFINE I == which = "Code" => Code!IInv
  <1>1. Init => I BY AccountsInit, ComponentConstants DEF Init
  <1>2. I /\ [Next]_vars => I'
    <2>1. ASSUME Code!IInv, [Code!Next]_Code!vars PROVE Code!IInv'
      BY <2>1, AccountsStep, AccountsStay, ComponentConstants
    <2>2. ASSUME [Next]_vars, which' = "Code"
          PROVE  which = "Code" /\ [Code!Next]_Code!vars
      BY <2>2 DEF Next, vars, Code!vars
    <2> QED BY <2>1, <2>2
  <1> QED BY <1>1, <1>2, PTL DEF Spec

------------------------
\* The users: what a request has read holds until another overwrites it (User!IInv).

TenantPlaces == {"idle", "insert", "role", "price", "undo", "owner", "parent", "count",
                 "move", "permit", "list", "destroy", "over"}
TenantKind == [at : TenantPlaces, user : User!Ids \cup {User!Nobody}, owner : User!Ids \cup {User!Nobody},
               was : User!Ids \cup {User!Nobody}, by : User!Ids \cup {User!Nobody}, subs : SUBSET User!Ids]
TenantMoves(p, r) == op' = [op EXCEPT ![p] = r]
\* A request that has issued its identifiers, and is about a user where it must be.
Wellformed(o) == User!Issued(o) /\ (o.at \in User!Creating \cup User!Changing => o.user \in User!Ids)

\* What was read about other users than these holds on.
HoldsOn(users) ==
    \A o \in TenantKind :
        Wellformed(o) /\ {o.user, o.owner} \cap users \subseteq {User!Nobody} /\ User!StillSo(o) => User!StillSo(o)'

LEMMA IdsAre ==
  /\ MaxUsers \in Nat /\ MaxFaults \in Nat /\ 3 \in User!Ids
  /\ \A u \in User!Ids : u \in Nat /\ u # User!Nobody /\ u > 0
  /\ User!Nobody \in Nat /\ User!Nobody = 0
  BY ComponentConstants DEF User!TenantConstants, User!Ids, User!Nobody

LEMMA TenantOp ==
  ASSUME User!IInv, NEW p \in User!Ops
  PROVE  op[p] \in TenantKind /\ Wellformed(op[p])
  BY DEF User!IInv, User!TypeOK, TenantKind, TenantPlaces, User!InTurn, User!AboutSome,
       Wellformed

LEMMA TenantMoved ==
  ASSUME User!IInv, NEW p \in User!Ops, NEW r \in TenantKind, TenantMoves(p, r)
  PROVE  /\ op' \in [User!Ops -> TenantKind] /\ op'[p] = r
         /\ \A q \in User!Ops \ {p} : op'[q] = op[q]
  <1>1. op \in [User!Ops -> TenantKind] BY DEF User!IInv, User!TypeOK, TenantKind, TenantPlaces
  <1> QED BY <1>1 DEF TenantMoves

LEMMA NothingRead ==
  ASSUME NEW o, o.at \in {"idle", "over", "owner"}
  PROVE  User!StillSo(o) /\ User!StillSo(o)'
  BY DEF User!StillSo, User!Creating, User!Changing

LEMMA ReadsFollow ==
  ASSUME User!IInv, NEW p \in User!Ops, NEW r \in TenantKind, TenantMoves(p, r), NEW users,
         stale \subseteq stale', crossed => crossed',
         \A q \in User!Ops \ {p} : op[q].at \notin {"idle", "over"} /\ User!Watched(q) \cap users # {}
                             => q \in stale',
         ~crossed' => HoldsOn(users),
         ~crossed' /\ p \notin stale' => User!StillSo(r)'
  PROVE  User!ReadsHold'
  <1> SUFFICES ASSUME ~crossed', NEW q \in User!Ops, q \notin stale'
      PROVE  User!StillSo(op[q])'
    BY DEF User!ReadsHold
  <1>1. CASE q = p
    <2>1. op'[q] = r BY <1>1, TenantMoved
    <2>2. User!StillSo(r)' BY <1>1
    <2> QED
      BY <2>1, <2>2 DEF User!StillSo, User!Creating, User!Changing, User!MayBeParent,
           User!Subs, User!IsOwner
  <1>2. CASE q # p
    <2>1. PICK o \in TenantKind : o = op[q] /\ Wellformed(o) BY TenantOp
    <2>2. op'[q] = o BY <1>2, <2>1, TenantMoved
    <2>3. User!StillSo(o)
      <3>1. ~crossed /\ q \notin stale OBVIOUS
      <3> QED BY <2>1, <3>1 DEF User!IInv, User!ReadsHold
    <2>4. User!StillSo(o)'
      <3>1. CASE o.at \in {"idle", "over"} BY <3>1, NothingRead
      <3>2. CASE o.at \notin {"idle", "over"}
        <4>1. User!Watched(q) \cap users = {} BY <1>2, <2>1, <3>2
        <4>2. {o.user, o.owner} \cap users \subseteq {User!Nobody} BY <2>1, <4>1 DEF User!Watched
        <4> QED BY <2>1, <2>3, <4>2 DEF HoldsOn
      <3> QED BY <3>1, <3>2
    <2> QED
      BY <2>2, <2>4 DEF User!StillSo, User!Creating, User!Changing, User!MayBeParent,
           User!Subs, User!IsOwner
  <1> QED BY <1>1, <1>2

LEMMA PricedFollows ==
  ASSUME User!IInv, NEW p \in User!Ops, NEW r \in TenantKind, TenantMoves(p, r),
         \A u \in rows' \ (priced' \cup cut') :
             \/ r.user = u /\ r.at \in User!Creating /\ p \in Creates \cup SubCreates
             \/ /\ u \in rows \ (priced \cup cut)
                /\ op[p].user # u \/ op[p].at \notin User!Creating
  PROVE  User!PricedOrCut'
  <1> SUFFICES ASSUME NEW u \in rows' \ (priced' \cup cut')
      PROVE  \E q \in Creates \cup SubCreates : op'[q].user = u /\ op'[q].at \in {"role", "price", "undo"}
    BY DEF User!PricedOrCut
  <1>1. CASE r.user = u /\ r.at \in User!Creating /\ p \in Creates \cup SubCreates
    BY <1>1, TenantMoved DEF User!Creating
  <1>2. CASE /\ u \in rows \ (priced \cup cut)
             /\ op[p].user # u \/ op[p].at \notin User!Creating
    <2>1. PICK q \in Creates \cup SubCreates : op[q].user = u /\ op[q].at \in {"role", "price", "undo"}
      BY <1>2 DEF User!IInv, User!PricedOrCut
    <2>2. q \in User!Ops /\ q # p BY <1>2, <2>1 DEF User!Ops, User!Creating
    <2> QED BY <2>1, <2>2, TenantMoved
  <1> QED BY <1>1, <1>2

\* A step that leaves the tree as it is.
LEMMA TreeStays ==
  ASSUME User!IInv, NEW p \in User!Ops, NEW r \in TenantKind, TenantMoves(p, r),
         UNCHANGED <<rows, parent, tokens, next, crossed>>,
         manages' \subseteq User!Ids, priced \subseteq priced', priced' \subseteq User!Ids,
         cut \subseteq cut', cut' \subseteq User!Ids, faults' \in 0..MaxFaults,
         stale \subseteq stale', stale' \subseteq User!Ops, Wellformed(r),
         ~crossed /\ p \notin stale' => User!StillSo(r),
         op[p].at \in User!Creating =>
             \/ r.at \in User!Creating /\ r.user = op[p].user /\ p \in Creates \cup SubCreates
             \/ op[p].user \in priced' \cup cut'
  PROVE  User!IInv'
  <1>1. User!TypeOK'
    <2>1. op' \in [User!Ops -> TenantKind] BY TenantMoved
    <2> QED BY <2>1 DEF User!IInv, User!TypeOK, TenantKind, TenantPlaces, User!Ids, User!Ops
  <1>2. User!InTurn' BY TenantMoved DEF User!IInv, User!InTurn, User!Issued, Wellformed, User!Ids, User!Ops
  <1>3. User!AboutSome'
    BY TenantMoved DEF User!IInv, User!AboutSome, Wellformed, User!Ids, User!Ops,
         User!Creating, User!Changing
  <1>4. HoldsOn({})
    BY DEF HoldsOn, User!StillSo, User!MayBeParent, User!Subs, User!IsOwner, User!Creating,
         User!Changing
  <1>5. ~crossed' /\ p \notin stale' => User!StillSo(r)'
    BY DEF User!StillSo, User!MayBeParent, User!Subs, User!IsOwner, User!Creating,
         User!Changing
  <1>6. User!ReadsHold' BY <1>4, <1>5, ReadsFollow
  <1>7. User!TreeIsFlat' BY DEF User!IInv, User!TreeIsFlat, User!IsOwner
  <1>8. User!PricedOrCut'
    <2>1. \A u \in rows' \ (priced' \cup cut') :
               \/ r.user = u /\ r.at \in User!Creating /\ p \in Creates \cup SubCreates
               \/ /\ u \in rows \ (priced \cup cut)
                  /\ op[p].user # u \/ op[p].at \notin User!Creating
      OBVIOUS
    <2> QED BY <2>1, PricedFollows
  <1> QED BY <1>1, <1>2, <1>3, <1>6, <1>7, <1>8 DEF User!IInv

LEMMA TenantGoes ==
  ASSUME User!IInv, NEW p \in User!Ops, NEW at \in TenantPlaces, User!Goto(p, at)
  PROVE  \E r \in TenantKind :
             /\ TenantMoves(p, r) /\ r.at = at /\ r.user = op[p].user /\ r.owner = op[p].owner
             /\ r.was = op[p].was /\ r.by = op[p].by /\ r.subs = op[p].subs
             /\ User!Issued(r)
  <1> DEFINE r == [op[p] EXCEPT !.at = at]
  <1>1. op \in [User!Ops -> TenantKind] BY DEF User!IInv, User!TypeOK, TenantKind, TenantPlaces
  <1>2. /\ r \in TenantKind /\ r.at = at /\ r.user = op[p].user /\ r.owner = op[p].owner
        /\ r.was = op[p].was /\ r.by = op[p].by /\ r.subs = op[p].subs
    BY <1>1 DEF TenantKind
  <1>3. TenantMoves(p, r) BY <1>1 DEF User!Goto, TenantMoves
  <1>4. User!Issued(op[p]) BY DEF User!IInv, User!InTurn
  <1> HIDE DEF r
  <1> QED BY <1>2, <1>3, <1>4 DEF User!Issued

\* A step that only reads and goes on, where what it read is so.
LEMMA TenantReads ==
  ASSUME User!IInv, NEW p \in User!Ops, NEW at \in TenantPlaces, User!Goto(p, at),
         User!ReadsOnly,
         op[p].at \notin User!Creating \/ (at \in User!Creating /\ p \in Creates \cup SubCreates),
         at \in User!Creating \cup User!Changing => op[p].at \in User!Creating \cup User!Changing,
         \A r \in TenantKind :
             /\ r.at = at /\ r.user = op[p].user /\ r.owner = op[p].owner /\ r.was = op[p].was
             /\ r.subs = op[p].subs /\ ~crossed /\ p \notin stale /\ User!StillSo(op[p])
             => User!StillSo(r)
  PROVE  User!IInv'
  <1>1. PICK r \in TenantKind :
               /\ TenantMoves(p, r) /\ r.at = at /\ r.user = op[p].user /\ r.owner = op[p].owner
               /\ r.was = op[p].was /\ r.by = op[p].by /\ r.subs = op[p].subs
               /\ User!Issued(r)
    BY TenantGoes
  <1>2. Wellformed(r) BY <1>1, TenantOp DEF Wellformed
  <1>3. ~crossed /\ p \notin stale => User!StillSo(op[p]) BY DEF User!IInv, User!ReadsHold
  <1>4. ~crossed /\ p \notin stale => User!StillSo(r) BY <1>1, <1>3
  <1>5. /\ UNCHANGED <<rows, parent, tokens, next, crossed, stale, manages, priced, cut, faults>>
        /\ manages \subseteq User!Ids /\ priced \subseteq User!Ids /\ cut \subseteq User!Ids /\ stale \subseteq User!Ops
        /\ faults \in 0..MaxFaults
    BY DEF User!ReadsOnly, User!IInv, User!TypeOK
  <1> QED BY <1>1, <1>2, <1>4, <1>5, TreeStays

\* A step that ends the request.
LEMMA TenantEnds ==
  ASSUME User!IInv, NEW p \in User!Ops, User!Goto(p, "over"),
         UNCHANGED <<rows, parent, tokens, next, crossed, stale, manages, priced>>,
         cut \subseteq cut', cut' \subseteq User!Ids, faults' \in 0..MaxFaults,
         op[p].at \in User!Creating => op[p].user \in priced \cup cut'
  PROVE  User!IInv'
  <1>1. PICK r \in TenantKind : TenantMoves(p, r) /\ r.at = "over" /\ User!Issued(r)
    <2>1. "over" \in TenantPlaces BY DEF TenantPlaces
    <2> QED BY <2>1, TenantGoes
  <1>2. Wellformed(r) /\ User!StillSo(r) BY <1>1, NothingRead DEF Wellformed, User!Creating, User!Changing
  <1>3. /\ manages \subseteq User!Ids /\ priced \subseteq User!Ids /\ stale \subseteq User!Ops
    BY DEF User!IInv, User!TypeOK
  <1> QED BY <1>1, <1>2, <1>3, TreeStays

  -----------------------------------------------------------------------------
LEMMA TenantBegins ==
  ASSUME User!IInv, NEW p \in User!Ops, op[p].at = "idle", NEW r \in TenantKind,
         TenantMoves(p, r),
         User!Issued(r), r.at \in User!Changing => r.user \in User!Ids, r.at \notin User!Creating,
         UNCHANGED <<rows, parent, manages, tokens, priced, next, faults, crossed, cut>>,
         stale \subseteq stale', stale' \subseteq User!Ops, p \notin stale' => User!StillSo(r)
  PROVE  User!IInv'
  <1>1. Wellformed(r) /\ op[p].at \notin User!Creating BY DEF Wellformed, User!Creating
  <1>2. /\ manages \subseteq User!Ids /\ priced \subseteq User!Ids /\ cut \subseteq User!Ids
        /\ faults \in 0..MaxFaults
    BY DEF User!IInv, User!TypeOK
  <1> QED BY <1>1, <1>2, TreeStays

LEMMA TenantOps ==
  ASSUME User!IInv
  PROVE  /\ op \in [User!Ops -> TenantKind] /\ \A p \in User!Ops : op[p] \in TenantKind /\ User!Issued(op[p])
         /\ stale \subseteq User!Ops /\ next \in Nat /\ next > 0
         /\ \A u \in rows : u \in User!Ids /\ u < next /\ parent[u] < next /\ parent[u] \in User!Ids \cup {User!Nobody}
  BY IdsAre DEF User!IInv, User!TypeOK, TenantKind, TenantPlaces, User!InTurn

LEMMA BeginCreateStep ==
  ASSUME User!IInv, NEW p \in User!Ops, NEW raw \in User!Ids \cup {User!Nobody},
         User!BeginCreate(p, raw)
  PROVE  User!IInv'
  <1> DEFINE r == [op[p] EXCEPT !.at = "insert", !.owner = raw]
  <1>1. op[p] \in TenantKind /\ op \in [User!Ops -> TenantKind] /\ User!Issued(op[p]) /\ stale \subseteq User!Ops
    BY TenantOps
  <1>2. /\ r \in TenantKind /\ r.at = "insert" /\ r.owner = raw /\ r.user = op[p].user
        /\ r.was = op[p].was /\ r.subs = op[p].subs
    BY <1>1 DEF TenantKind, TenantPlaces
  <1>3. TenantMoves(p, r) BY <1>1 DEF User!BeginCreate, TenantMoves
  <1> HIDE DEF r
  <1>4. raw < next
    <2>1. raw \in rows \/ raw = User!Nobody BY DEF User!BeginCreate, User!MayBeParent
    <2> QED BY <2>1, IdsAre, TenantOps
  <1>5. User!Issued(r) /\ r.at \notin User!Changing /\ r.at \notin User!Creating
    BY <1>1, <1>2, <1>4 DEF User!Issued, User!Creating, User!Changing
  <1>6. User!StillSo(r) BY <1>2 DEF User!BeginCreate, User!StillSo, User!Creating, User!Changing
  <1> QED BY <1>1, <1>2, <1>3, <1>5, <1>6, TenantBegins DEF User!BeginCreate, User!ReadsOnly

LEMMA BeginOwnCreateStep ==
  ASSUME User!IInv, NEW p \in User!Ops, NEW raw \in User!Ids, User!BeginOwnCreate(p, raw)
  PROVE  User!IInv'
  <1> DEFINE r == [op[p] EXCEPT !.at = "insert", !.owner = raw]
  <1>1. op[p] \in TenantKind /\ op \in [User!Ops -> TenantKind] /\ User!Issued(op[p]) /\ stale \subseteq User!Ops
    BY TenantOps
  <1>2. /\ r \in TenantKind /\ r.at = "insert" /\ r.owner = raw /\ r.user = op[p].user
        /\ r.was = op[p].was /\ r.subs = op[p].subs
    BY <1>1 DEF TenantKind, TenantPlaces
  <1>3. TenantMoves(p, r) BY <1>1 DEF User!BeginOwnCreate, TenantMoves
  <1> HIDE DEF r
  <1>4. raw < next BY DEF User!BeginOwnCreate, User!IInv, User!InTurn
  <1>5. User!Issued(r) /\ r.at \notin User!Changing /\ r.at \notin User!Creating
    BY <1>1, <1>2, <1>4 DEF User!Issued, User!Creating, User!Changing
  <1>6. stale \subseteq stale' /\ stale' \subseteq User!Ops BY <1>1 DEF User!BeginOwnCreate
  <1>7. p \notin stale' => User!StillSo(r)
    BY <1>2 DEF User!BeginOwnCreate, User!StillSo, User!Creating, User!Changing,
         User!MayBeParent
  <1> QED BY <1>1, <1>2, <1>3, <1>5, <1>6, <1>7, TenantBegins DEF User!BeginOwnCreate

LEMMA ManagedIs ==
  ASSUME User!IInv, NEW u \in rows
  PROVE  User!Managed(u) \in User!Ids \cup {User!Nobody} /\ User!Managed(u) < next
  BY TenantOps, IdsAre DEF User!Managed

LEMMA BeginSubCreateStep ==
  ASSUME User!IInv, NEW p \in User!Ops, NEW u \in User!Ids, User!BeginSubCreate(p, u)
  PROVE  User!IInv'
  <1> DEFINE r == [op[p] EXCEPT !.at = "owner", !.owner = User!Managed(u)]
  <1>1. op[p] \in TenantKind /\ op \in [User!Ops -> TenantKind] /\ User!Issued(op[p]) /\ stale \subseteq User!Ops
    BY TenantOps
  <1>2. User!Managed(u) \in User!Ids \cup {User!Nobody} /\ User!Managed(u) < next
    BY ManagedIs DEF User!BeginSubCreate
  <1>3. /\ r \in TenantKind /\ r.at = "owner" /\ r.owner = User!Managed(u) /\ r.user = op[p].user
        /\ r.was = op[p].was /\ r.subs = op[p].subs
    BY <1>1, <1>2 DEF TenantKind, TenantPlaces
  <1>4. TenantMoves(p, r) BY <1>1 DEF User!BeginSubCreate, TenantMoves
  <1> HIDE DEF r
  <1>5. User!Issued(r) /\ r.at \notin User!Changing /\ r.at \notin User!Creating
    BY <1>1, <1>2, <1>3 DEF User!Issued, User!Creating, User!Changing
  <1>6. User!StillSo(r) BY <1>3, NothingRead
  <1> QED BY <1>1, <1>3, <1>4, <1>5, <1>6, TenantBegins DEF User!BeginSubCreate, User!ReadsOnly

LEMMA LoadMovedStep ==
  ASSUME User!IInv, NEW p \in User!Ops, NEW u \in User!Ids,
         NEW raw \in User!Ids \cup {User!Nobody}, User!LoadMoved(p, u, raw)
  PROVE  User!IInv'
  <1> DEFINE r == [op[p] EXCEPT !.at = "parent", !.user = u, !.owner = raw, !.was = parent[u]]
  <1>1. op[p] \in TenantKind /\ op \in [User!Ops -> TenantKind] /\ User!Issued(op[p]) /\ stale \subseteq User!Ops
    BY TenantOps
  <1>2. /\ u < next /\ parent[u] < next /\ parent[u] \in User!Ids \cup {User!Nobody}
        /\ raw < next
    BY TenantOps, IdsAre DEF User!LoadMoved
  <1>3. /\ r \in TenantKind /\ r.at = "parent" /\ r.owner = raw /\ r.user = u
        /\ r.was = parent[u] /\ r.subs = op[p].subs
    BY <1>1, <1>2 DEF TenantKind, TenantPlaces
  <1>4. TenantMoves(p, r) BY <1>1 DEF User!LoadMoved, TenantMoves
  <1> HIDE DEF r
  <1>5. User!Issued(r) /\ r.at \notin User!Creating BY <1>1, <1>2, <1>3 DEF User!Issued, User!Creating
  <1>6. User!StillSo(r) BY <1>3 DEF User!StillSo, User!Creating, User!Changing
  <1> QED BY <1>1, <1>3, <1>4, <1>5, <1>6, TenantBegins DEF User!LoadMoved, User!ReadsOnly

LEMMA LoadDeletedStep ==
  ASSUME User!IInv, NEW p \in User!Ops, NEW u \in User!Ids,
         NEW by \in User!Ids \cup {User!Nobody}, User!LoadDeleted(p, u, by)
  PROVE  User!IInv'
  <1> DEFINE r == [op[p] EXCEPT !.at = "permit", !.user = u, !.was = parent[u], !.by = by]
  <1>1. op[p] \in TenantKind /\ op \in [User!Ops -> TenantKind] /\ User!Issued(op[p]) /\ stale \subseteq User!Ops
    BY TenantOps
  <1>2. u < next /\ parent[u] < next /\ parent[u] \in User!Ids \cup {User!Nobody}
    BY TenantOps, IdsAre DEF User!LoadDeleted
  <1>3. /\ r \in TenantKind /\ r.at = "permit" /\ r.owner = op[p].owner /\ r.user = u
        /\ r.was = parent[u] /\ r.subs = op[p].subs
    BY <1>1, <1>2 DEF TenantKind, TenantPlaces
  <1>4. TenantMoves(p, r) BY <1>1 DEF User!LoadDeleted, TenantMoves
  <1> HIDE DEF r
  <1>5. User!Issued(r) /\ r.at \notin User!Creating BY <1>1, <1>2, <1>3 DEF User!Issued, User!Creating
  <1>6. User!StillSo(r) BY <1>3 DEF User!StillSo, User!Creating, User!Changing
  <1> QED BY <1>1, <1>3, <1>4, <1>5, <1>6, TenantBegins DEF User!LoadDeleted, User!ReadsOnly

  -----------------------------------------------------------------------------
LEMMA SetRoleStep ==
  ASSUME User!IInv, NEW p \in Creates \cup SubCreates, User!SetRole(p)
  PROVE  User!IInv'
  <1>1. p \in User!Ops /\ op[p].at = "role" /\ User!Goto(p, "price") /\ User!ReadsOnly BY DEF User!Ops, User!SetRole
  <1>2. \A r \in TenantKind :
            r.at = "price" /\ r.user = op[p].user /\ User!StillSo(op[p]) => User!StillSo(r)
    BY <1>1 DEF User!StillSo, User!Creating, User!Changing
  <1>3. "price" \in TenantPlaces /\ "price" \in User!Creating /\ op[p].at \in User!Creating
    BY <1>1 DEF TenantPlaces, User!Creating
  <1> QED BY <1>1, <1>2, <1>3, TenantReads

LEMMA SetPriceStep ==
  ASSUME User!IInv, NEW p \in Creates \cup SubCreates, User!SetPrice(p)
  PROVE  User!IInv'
  <1>1. p \in User!Ops BY DEF User!Ops
  <1>2. PICK r \in TenantKind : TenantMoves(p, r) /\ r.at = "over" /\ User!Issued(r)
    <2>1. "over" \in TenantPlaces BY DEF TenantPlaces
    <2> QED BY <1>1, <2>1, TenantGoes DEF User!SetPrice
  <1>3. Wellformed(r) /\ User!StillSo(r) BY <1>2, NothingRead DEF Wellformed, User!Creating, User!Changing
  <1>4. /\ manages \subseteq User!Ids /\ priced' \subseteq User!Ids /\ stale \subseteq User!Ops /\ cut \subseteq User!Ids
        /\ faults \in 0..MaxFaults /\ priced \subseteq priced' /\ op[p].user \in priced'
    BY DEF User!IInv, User!TypeOK, User!SetPrice
  <1> QED BY <1>1, <1>2, <1>3, <1>4, TreeStays DEF User!SetPrice

LEMMA FaultyIs ==
  ASSUME User!IInv, User!Faulty \/ UNCHANGED faults
  PROVE  faults' \in 0..MaxFaults
  BY IdsAre DEF User!Faulty, User!IInv, User!TypeOK

LEMMA FailCreationStep ==
  ASSUME User!IInv, NEW p \in Creates \cup SubCreates, User!FailCreation(p)
  PROVE  User!IInv'
  <1>1. p \in User!Ops /\ op[p].at \in {"role", "price"} /\ op[p].at \in User!Creating /\ faults' \in 0..MaxFaults
    BY FaultyIs DEF User!Ops, User!FailCreation, User!Creating
  <1>2. op[p].user \in User!Ids /\ cut \subseteq User!Ids BY <1>1 DEF User!IInv, User!AboutSome, User!TypeOK
  <1>3. CASE p \in Creates
    <2>1. User!Goto(p, "undo") /\ UNCHANGED cut BY <1>3 DEF User!FailCreation
    <2>2. "undo" \in TenantPlaces /\ "undo" \in User!Creating BY DEF TenantPlaces, User!Creating
    <2>3. PICK r \in TenantKind : TenantMoves(p, r) /\ r.at = "undo" /\ r.user = op[p].user /\ User!Issued(r)
      BY <1>1, <2>1, <2>2, TenantGoes
    <2>4. Wellformed(r) BY <1>2, <2>3 DEF Wellformed
    <2>5. ~crossed /\ p \notin stale => User!StillSo(r)
      <3>1. ~crossed /\ p \notin stale => User!StillSo(op[p]) BY <1>1 DEF User!IInv, User!ReadsHold
      <3> QED BY <1>1, <2>3, <3>1 DEF User!StillSo, User!Creating, User!Changing
    <2>6. UNCHANGED <<rows, parent, manages, tokens, priced, next, stale, crossed>> BY DEF User!FailCreation
    <2>7. manages \subseteq User!Ids /\ priced \subseteq User!Ids /\ stale \subseteq User!Ops
      BY DEF User!IInv, User!TypeOK
    <2> QED BY <1>1, <1>2, <2>1, <2>2, <2>3, <2>4, <2>5, <2>6, <2>7, TreeStays
  <1>4. CASE p \notin Creates BY <1>1, <1>2, <1>4, TenantEnds DEF User!FailCreation
  <1> QED BY <1>3, <1>4

LEMMA CheckOwnerStep ==
  ASSUME User!IInv, NEW p \in SubCreates, User!CheckOwner(p)
  PROVE  User!IInv'
  <1>1. p \in User!Ops /\ op[p].at = "owner" /\ User!ReadsOnly BY DEF User!Ops, User!CheckOwner
  <1>2. op[p].at \notin User!Creating BY <1>1 DEF User!Creating
  <1>3. CASE op[p].owner \in rows /\ User!IsOwner(op[p].owner)
    <2>1. User!Goto(p, "insert") /\ "insert" \in TenantPlaces /\ "insert" \notin User!Creating \cup User!Changing
      BY <1>3 DEF User!CheckOwner, TenantPlaces, User!Creating, User!Changing
    <2>2. \A r \in TenantKind : r.at = "insert" /\ r.owner = op[p].owner => User!StillSo(r)
      BY <1>3 DEF User!StillSo, User!Creating, User!Changing, User!MayBeParent
    <2> QED BY <1>1, <1>2, <2>1, <2>2, TenantReads
  <1>4. CASE ~(op[p].owner \in rows /\ User!IsOwner(op[p].owner))
    BY <1>1, <1>2, <1>4, TenantEnds DEF User!CheckOwner, User!ReadsOnly, User!IInv, User!TypeOK
  <1> QED BY <1>3, <1>4

LEMMA ResolveParentStep ==
  ASSUME User!IInv, NEW p \in Moves, User!ResolveParent(p)
  PROVE  User!IInv'
  <1>1. p \in User!Ops /\ op[p].at = "parent" /\ User!ReadsOnly BY DEF User!Ops, User!ResolveParent
  <1>2. op[p].at \notin User!Creating /\ op[p].at \in User!Changing BY <1>1 DEF User!Creating, User!Changing
  <1>3. CASE ~User!MayBeParent(op[p].owner) \/ op[p].owner = op[p].user
    BY <1>1, <1>2, <1>3, TenantEnds DEF User!ResolveParent, User!ReadsOnly, User!IInv,
         User!TypeOK
  <1>4. CASE /\ User!MayBeParent(op[p].owner) /\ op[p].owner # op[p].user
             /\ op[p].was = User!Nobody /\ op[p].owner # User!Nobody
    <2>1. User!Goto(p, "count") /\ "count" \in TenantPlaces BY <1>4 DEF User!ResolveParent, TenantPlaces
    <2>2. \A r \in TenantKind :
            r.at = "count" /\ r.user = op[p].user /\ r.owner = op[p].owner /\ r.was = op[p].was /\ User!StillSo(op[p])
            => User!StillSo(r)
      <3> SUFFICES ASSUME NEW r \in TenantKind, r.at = "count", r.user = op[p].user,
                          r.owner = op[p].owner, r.was = op[p].was, User!StillSo(op[p])
                   PROVE  User!StillSo(r)
        OBVIOUS
      <3>1. parent[r.user] = r.was BY <1>2 DEF User!StillSo
      <3> QED BY <1>1, <1>2, <1>4, <3>1 DEF User!StillSo, User!Creating
    <2> QED BY <1>1, <1>2, <2>1, <2>2, TenantReads
  <1>5. CASE /\ User!MayBeParent(op[p].owner) /\ op[p].owner # op[p].user
             /\ ~(op[p].was = User!Nobody /\ op[p].owner # User!Nobody)
    <2>1. User!Goto(p, "move") /\ "move" \in TenantPlaces BY <1>5 DEF User!ResolveParent, TenantPlaces
    <2>2. \A r \in TenantKind :
            r.at = "move" /\ r.user = op[p].user /\ r.owner = op[p].owner /\ r.was = op[p].was /\ User!StillSo(op[p])
            => User!StillSo(r)
      <3> SUFFICES ASSUME NEW r \in TenantKind, r.at = "move", r.user = op[p].user,
                          r.owner = op[p].owner, r.was = op[p].was, User!StillSo(op[p])
                   PROVE  User!StillSo(r)
        OBVIOUS
      <3>1. parent[r.user] = r.was BY <1>2 DEF User!StillSo
      <3> QED BY <1>1, <1>2, <1>5, <3>1 DEF User!StillSo, User!Creating
    <2> QED BY <1>1, <1>2, <2>1, <2>2, TenantReads
  <1> QED BY <1>3, <1>4, <1>5

LEMMA CountSubsStep ==
  ASSUME User!IInv, NEW p \in Moves, User!CountSubs(p)
  PROVE  User!IInv'
  <1>1. p \in User!Ops /\ op[p].at = "count" /\ User!ReadsOnly BY DEF User!Ops, User!CountSubs
  <1>2. op[p].at \notin User!Creating /\ op[p].at \in User!Changing BY <1>1 DEF User!Creating, User!Changing
  <1>3. CASE User!Subs(op[p].user) # {}
    BY <1>1, <1>2, <1>3, TenantEnds DEF User!CountSubs, User!ReadsOnly, User!IInv, User!TypeOK
  <1>4. CASE User!Subs(op[p].user) = {}
    <2>1. User!Goto(p, "move") /\ "move" \in TenantPlaces BY <1>4 DEF User!CountSubs, TenantPlaces
    <2>2. \A r \in TenantKind :
            r.at = "move" /\ r.user = op[p].user /\ r.owner = op[p].owner /\ r.was = op[p].was /\ User!StillSo(op[p])
            => User!StillSo(r)
      <3> SUFFICES ASSUME NEW r \in TenantKind, r.at = "move", r.user = op[p].user,
                          r.owner = op[p].owner, r.was = op[p].was, User!StillSo(op[p])
                   PROVE  User!StillSo(r)
        OBVIOUS
      <3>1. parent[r.user] = r.was BY <1>2 DEF User!StillSo
      <3>2. User!MayBeParent(r.owner) /\ r.owner # r.user BY <1>1 DEF User!StillSo
      <3> QED BY <1>1, <1>2, <1>4, <3>2, <3>1 DEF User!StillSo, User!Creating
    <2> QED BY <1>1, <1>2, <2>1, <2>2, TenantReads
  <1> QED BY <1>3, <1>4

LEMMA PermitStep ==
  ASSUME User!IInv, NEW p \in Deletes, User!Permit(p)
  PROVE  User!IInv'
  <1>1. p \in User!Ops /\ op[p].at = "permit" /\ User!ReadsOnly BY DEF User!Ops, User!Permit
  <1>2. op[p].at \notin User!Creating /\ op[p].at \in User!Changing BY <1>1 DEF User!Creating, User!Changing
  <1>3. CASE ~User!Permitted(op[p])
    BY <1>1, <1>2, <1>3, TenantEnds DEF User!Permit, User!ReadsOnly, User!IInv, User!TypeOK
  <1>4. CASE User!Permitted(op[p])
    <2>1. User!Goto(p, "list") /\ "list" \in TenantPlaces BY <1>4 DEF User!Permit, TenantPlaces
    <2>2. \A r \in TenantKind :
            r.at = "list" /\ r.user = op[p].user /\ r.owner = op[p].owner /\ r.was = op[p].was /\ User!StillSo(op[p])
            => User!StillSo(r)
      <3> SUFFICES ASSUME NEW r \in TenantKind, r.at = "list", r.user = op[p].user,
                          r.owner = op[p].owner, r.was = op[p].was, User!StillSo(op[p])
                   PROVE  User!StillSo(r)
        OBVIOUS
      <3>1. parent[r.user] = r.was BY <1>2 DEF User!StillSo
      <3> QED BY <1>1, <1>2, <3>1 DEF User!StillSo, User!Creating
    <2> QED BY <1>1, <1>2, <2>1, <2>2, TenantReads
  <1> QED BY <1>3, <1>4

LEMMA RollbackStep ==
  ASSUME User!IInv, NEW p \in Deletes, User!Rollback(p)
  PROVE  User!IInv'
  <1>1. p \in User!Ops /\ op[p].at \in {"list", "destroy"} /\ faults' \in 0..MaxFaults
    BY FaultyIs DEF User!Ops, User!Rollback
  <1>2. op[p].at \notin User!Creating /\ cut \subseteq User!Ids BY <1>1 DEF User!Creating, User!IInv, User!TypeOK
  <1> QED BY <1>1, <1>2, TenantEnds DEF User!Rollback

LEMMA ListSubsStep ==
  ASSUME User!IInv, NEW p \in Deletes, User!ListSubs(p)
  PROVE  User!IInv'
  <1> DEFINE found == IF op[p].was = User!Nobody THEN User!Subs(op[p].user) ELSE {}
  <1> DEFINE r == [op[p] EXCEPT !.at = "destroy", !.subs = found]
  <1>1. /\ op[p] \in TenantKind /\ op \in [User!Ops -> TenantKind] /\ User!Issued(op[p]) /\ p \in User!Ops
        /\ stale \subseteq User!Ops
    BY TenantOps DEF User!Ops
  <1>2. found \subseteq rows /\ found \subseteq User!Ids BY DEF User!Subs, User!IInv, User!TypeOK
  <1>3. /\ r \in TenantKind /\ r.at = "destroy" /\ r.owner = op[p].owner /\ r.user = op[p].user
        /\ r.was = op[p].was /\ r.subs = found
    BY <1>1, <1>2 DEF TenantKind, TenantPlaces
  <1>4. TenantMoves(p, r) BY <1>1 DEF User!ListSubs, TenantMoves
  <1>5. op[p].at = "list" /\ User!ReadsOnly BY DEF User!ListSubs
  <1> HIDE DEF r
  <1>6. User!Issued(r) BY <1>1, <1>2, <1>3, TenantOps DEF User!Issued
  <1>7. op[p].user \in User!Ids BY <1>1, <1>5 DEF User!IInv, User!AboutSome, User!Changing
  <1>8. Wellformed(r) BY <1>3, <1>6, <1>7 DEF Wellformed
  <1>9. ~crossed /\ p \notin stale => User!StillSo(r)
    <2>1. ~crossed /\ p \notin stale => parent[op[p].user] = op[p].was
      BY <1>1, <1>5 DEF User!IInv, User!ReadsHold, User!StillSo, User!Changing
    <2> QED BY <1>3, <2>1 DEF User!StillSo, User!Creating, User!Changing, User!Subs
  <1>10. op[p].at \notin User!Creating BY <1>5 DEF User!Creating
  <1>11. /\ UNCHANGED <<rows, parent, tokens, next, crossed, stale, manages, priced, cut, faults>>
         /\ manages \subseteq User!Ids /\ priced \subseteq User!Ids /\ cut \subseteq User!Ids
         /\ faults \in 0..MaxFaults
    BY <1>5 DEF User!ReadsOnly, User!IInv, User!TypeOK
  <1> QED
    BY <1>1, <1>3, <1>4, <1>8, <1>9, <1>10, <1>11, TreeStays
  -----------------------------------------------------------------------------
LEMMA ReadHolds ==
  ASSUME NEW o \in TenantKind, Wellformed(o), User!StillSo(o),
         o.owner \in rows => o.owner \in rows' /\ parent'[o.owner] = parent[o.owner],
         o.user \in User!Ids =>
             /\ parent'[o.user] = parent[o.user] /\ User!Subs(o.user)' \subseteq User!Subs(o.user)
             /\ \A s \in o.subs \cap rows' : s \in rows /\ (parent[s] = o.user => parent'[s] = o.user)
  PROVE  User!StillSo(o)'
  <1>1. User!MayBeParent(o.owner) => User!MayBeParent(o.owner)' BY DEF User!MayBeParent, User!IsOwner
  <1>2. o.at \in User!Creating \cup User!Changing => o.user \in User!Ids BY DEF Wellformed
  <1>3. o.at = "insert" => User!MayBeParent(o.owner)' BY <1>1 DEF User!StillSo
  <1>4. o.at \in User!Creating => User!Subs(o.user)' = {} BY <1>2 DEF User!StillSo
  <1>5. o.at \in User!Changing => parent'[o.user] = o.was BY <1>2 DEF User!StillSo
  <1>6. o.at \in {"count", "move"} => User!MayBeParent(o.owner)' /\ o.owner # o.user BY <1>1 DEF User!StillSo
  <1>7. o.at = "move" /\ o.was = User!Nobody /\ o.owner # User!Nobody => User!Subs(o.user)' = {}
    BY <1>2 DEF User!StillSo, User!Changing
  <1>8. o.at = "destroy" /\ o.was = User!Nobody =>
            User!Subs(o.user)' \subseteq o.subs /\ \A s \in o.subs \cap rows' : parent'[s] = o.user
    BY <1>2 DEF User!StillSo, User!Changing
  <1>9. o.at = "destroy" /\ o.was # User!Nobody => o.subs = {} BY DEF User!StillSo
  <1> QED BY <1>3, <1>4, <1>5, <1>6, <1>7, <1>8, <1>9 DEF User!StillSo, User!Creating, User!Changing

LEMMA UserInsertStep ==
  ASSUME User!IInv, NEW p \in Creates \cup SubCreates, NEW manager \in BOOLEAN,
         User!Insert(p, manager)
  PROVE  User!IInv'
  <1>1. /\ op[p] \in TenantKind /\ op \in [User!Ops -> TenantKind] /\ User!Issued(op[p]) /\ p \in User!Ops
        /\ stale \subseteq User!Ops
    BY TenantOps DEF User!Ops
  <1>2. PICK n \in User!Ids : n = next /\ n \in Nat /\ n > 0 BY IdsAre DEF User!Insert
  <1>3. PICK owner \in User!Ids \cup {User!Nobody} : owner = op[p].owner /\ owner < n
    BY <1>1, <1>2 DEF TenantKind, User!Issued
  <1>4. PICK r \in TenantKind : /\ r.at = "role" /\ r.owner = owner /\ r.user = n
                                /\ r.was = op[p].was /\ r.subs = op[p].subs /\ TenantMoves(p, r)
    <2> DEFINE new == [op[p] EXCEPT !.at = "role", !.user = n]
    <2>1. /\ new \in TenantKind /\ new.at = "role" /\ new.owner = owner /\ new.user = n
          /\ new.was = op[p].was /\ new.subs = op[p].subs
      BY <1>1, <1>2, <1>3 DEF TenantKind, TenantPlaces
    <2>2. TenantMoves(p, new) BY <1>1, <1>2 DEF User!Insert, TenantMoves
    <2> QED BY <2>1, <2>2
  <1>5. TenantMoves(p, r) BY <1>4
  <1>6. /\ rows' = rows \cup {n} /\ parent' = [parent EXCEPT ![n] = owner]
        /\ n \notin rows /\ parent \in [User!Ids -> User!Ids \cup {User!Nobody}] /\ op[p].at = "insert"
        /\ UNCHANGED <<priced, faults, cut>> /\ User!Overwrites(p, {owner}) /\ next' = n + 1
    BY <1>2, <1>3 DEF User!Insert, User!IInv, User!TypeOK, User!InTurn
  <1>7. /\ \A u \in User!Ids : u # n => parent'[u] = parent[u]
        /\ parent'[n] = owner
    BY <1>2, <1>6
  <1>8. /\ stale \subseteq stale' /\ stale' \subseteq User!Ops /\ (crossed' <=> crossed \/ p \in stale)
        /\ \A q \in User!Ops \ {p} : op[q].at \notin {"idle", "over"} /\ User!Watched(q) \cap {owner} # {}
                               => q \in stale'
    BY <1>1, <1>6 DEF User!Overwrites
  <1>9. n + 1 \in 1..(MaxUsers + 1) BY <1>2, IdsAre DEF User!Ids
  <1>10. User!TypeOK'
    <2>1. op' \in [User!Ops -> TenantKind] BY <1>1, <1>4, <1>5, TenantMoved
    <2>2. rows' \subseteq User!Ids /\ parent' \in [User!Ids -> User!Ids \cup {User!Nobody}]
      BY <1>2, <1>6 DEF User!IInv, User!TypeOK
    <2>3. manages' \subseteq User!Ids /\ tokens' \subseteq User!Ids BY <1>2 DEF User!IInv, User!TypeOK, User!Insert
    <2>4. crossed' \in BOOLEAN BY <1>6 DEF User!Overwrites
    <2> QED
      BY <1>6, <1>8, <1>9, <2>1, <2>2, <2>3, <2>4 DEF User!IInv, User!TypeOK, TenantKind,
           TenantPlaces, User!Ids, User!Ops
  <1>11. User!InTurn'
    <2>1. \A u \in rows \cup tokens : u < n /\ u \in Nat BY <1>2, IdsAre DEF User!IInv, User!InTurn, User!TypeOK
    <2>2. \A u \in rows' \cup tokens' : u < n + 1 BY <1>2, <1>6, <2>1 DEF User!Insert
    <2>3. \A u \in User!Ids : parent[u] < n /\ parent[u] \in Nat BY <1>2, <1>6, IdsAre DEF User!IInv, User!InTurn
    <2>4. \A u \in User!Ids : parent'[u] < n + 1
      <3>1. owner \in Nat BY IdsAre
      <3>2. ASSUME NEW u \in User!Ids PROVE parent'[u] < n + 1
        <4>1. CASE u = n BY <4>1, <3>1, <1>2, <1>3, <1>7
        <4>2. CASE u # n BY <4>2, <2>3, <1>2, <1>7
        <4> QED BY <4>1, <4>2
      <3> QED BY <3>2
    <2>5. ASSUME NEW q \in User!Ops PROVE User!Issued(op[q])'
      <3>1. PICK o \in TenantKind : o = op[q] BY TenantOps
      <3>2. /\ o.user < n /\ o.owner < n /\ o.was < n /\ \A s \in o.subs : s < n
            /\ o.user \in Nat /\ o.owner \in Nat /\ o.was \in Nat /\ \A s \in o.subs : s \in Nat
        BY <1>2, <3>1, TenantOps, IdsAre DEF User!Issued, TenantKind
      <3>3. CASE q = p
        <4>1. op'[q] = r BY <3>3, <1>1, <1>4, <1>5, TenantMoved
        <4>2. r.user < n + 1 /\ r.owner < n + 1 /\ r.was < n + 1 /\ \A s \in r.subs : s < n + 1
          BY <3>1, <3>2, <3>3, <1>2, <1>3, <1>4
        <4> QED BY <4>1, <4>2, <1>6 DEF User!Issued
      <3>4. CASE q # p
        <4>1. op'[q] = o BY <3>1, <3>4, <1>1, <1>4, <1>5, TenantMoved
        <4>2. o.user < n + 1 /\ o.owner < n + 1 /\ o.was < n + 1 /\ \A s \in o.subs : s < n + 1 BY <3>2, <1>2
        <4> QED BY <4>1, <4>2, <1>6 DEF User!Issued
      <3> QED BY <3>3, <3>4
    <2> QED BY <2>2, <2>4, <2>5, <1>6 DEF User!InTurn, User!Ids, User!Ops
  <1>12. User!AboutSome'
    BY <1>1, <1>2, <1>4, <1>5, TenantMoved DEF User!IInv, User!AboutSome, User!Ids, User!Ops,
         User!Creating, User!Changing
  <1>13. HoldsOn({owner})
    <2> SUFFICES ASSUME NEW o \in TenantKind, Wellformed(o),
                        {o.user, o.owner} \cap {owner} \subseteq {User!Nobody}, User!StillSo(o)
                 PROVE  User!StillSo(o)'
      BY DEF HoldsOn
    <2>1. o.owner \in rows => o.owner \in rows' /\ parent'[o.owner] = parent[o.owner]
      BY <1>6, <1>7 DEF User!IInv, User!TypeOK
    <2>2. ASSUME o.user \in User!Ids PROVE o.user # n /\ o.user # owner /\ n \notin o.subs
      <3>1. o.user < n /\ o.user \in Nat /\ o.user # User!Nobody BY <1>2, <2>2, IdsAre DEF Wellformed, User!Issued
      <3>2. \A s \in o.subs : s < n /\ s \in Nat BY <1>2, IdsAre DEF Wellformed, User!Issued, TenantKind
      <3>3. o.user # owner BY <3>1
      <3> QED BY <3>1, <3>2, <3>3, <1>2
    <2>3. o.user \in User!Ids =>
               /\ parent'[o.user] = parent[o.user] /\ User!Subs(o.user)' \subseteq User!Subs(o.user)
               /\ \A s \in o.subs \cap rows' : s \in rows /\ (parent[s] = o.user => parent'[s] = o.user)
      BY <1>6, <1>7, <2>2 DEF User!Subs, User!IInv, User!TypeOK
    <2> QED BY <2>1, <2>3, ReadHolds
  <1>14. User!StillSo(r)'
    <2>1. \A u \in rows : parent[u] < n /\ parent[u] \in Nat /\ u \in User!Ids
      BY <1>2, <1>6, IdsAre DEF User!IInv, User!InTurn, User!TypeOK
    <2>2. User!Subs(n)' = {} BY <1>2, <1>3, <1>6, <1>7, <2>1, IdsAre DEF User!Subs
    <2>3. User!Subs(r.user)' = {}
      <3>1. \A u \in rows' : parent'[u] # n BY <2>2 DEF User!Subs
      <3> QED BY <1>4, <3>1 DEF User!Subs
    <2> QED BY <1>4, <2>3 DEF User!StillSo, User!Creating, User!Changing
  <1>15. User!ReadsHold' BY <1>1, <1>4, <1>5, <1>8, <1>13, <1>14, ReadsFollow
  <1>16. User!TreeIsFlat'
    <2> SUFFICES ASSUME ~crossed', NEW u \in rows', ~User!IsOwner(u)'
                 PROVE  parent'[u] \in rows' /\ User!IsOwner(parent[u])'
      BY DEF User!TreeIsFlat
    <2>1. ~crossed /\ p \notin stale BY <1>8
    <2>2. CASE u = n
      <3>1. owner # User!Nobody BY <2>2, <1>7 DEF User!IsOwner
      <3>2. owner \in rows /\ User!IsOwner(owner)
        BY <1>1, <1>3, <1>6, <2>1, <3>1 DEF User!IInv, User!ReadsHold, User!StillSo,
             User!MayBeParent
      <3> QED BY <2>2, <3>2, <1>6, <1>7 DEF User!IsOwner, User!IInv, User!TypeOK
    <2>3. CASE u # n
      <3>1. u \in rows /\ u \in User!Ids /\ parent'[u] = parent[u] BY <2>3, <1>6, <1>7 DEF User!IInv, User!TypeOK
      <3>2. parent[u] \in rows /\ parent[parent[u]] = User!Nobody
        BY <2>1, <3>1 DEF User!IInv, User!TreeIsFlat, User!IsOwner
      <3> QED BY <3>1, <3>2, <1>6, <1>7 DEF User!IsOwner, User!IInv, User!TypeOK
    <2> QED BY <2>2, <2>3
  <1>17. User!PricedOrCut'
    <2>1. op[p].at \notin User!Creating /\ r.at \in User!Creating BY <1>4, <1>6 DEF User!Creating
    <2>2. \A u \in rows' \ (priced' \cup cut') :
               \/ r.user = u /\ r.at \in User!Creating /\ p \in Creates \cup SubCreates
               \/ /\ u \in rows \ (priced \cup cut)
                  /\ op[p].user # u \/ op[p].at \notin User!Creating
      BY <1>4, <1>6, <2>1
    <2> QED BY <1>1, <1>4, <1>5, <2>2, PricedFollows
  <1> QED BY <1>10, <1>11, <1>12, <1>15, <1>16, <1>17 DEF User!IInv

  -----------------------------------------------------------------------------
\* Users go away; nothing else changes but what is kept about them.
LEMMA TenantsLeave ==
  ASSUME User!IInv, NEW p \in User!Ops, User!Goto(p, "over"), NEW gone, NEW users,
         gone \subseteq users,
         rows' = rows \ gone, priced' = priced \ gone, User!Overwrites(p, users),
         UNCHANGED <<parent, manages, tokens, next, faults, cut>>,
         op[p].at \in User!Creating => op[p].user \in gone,
         ~crossed /\ p \notin stale => \A u \in rows \ gone : ~User!IsOwner(u) => parent[u] \notin gone
  PROVE  User!IInv'
  <1>1. PICK r \in TenantKind : TenantMoves(p, r) /\ r.at = "over" /\ User!Issued(r)
    <2>1. "over" \in TenantPlaces BY DEF TenantPlaces
    <2> QED BY <2>1, TenantGoes
  <1>2. /\ stale \subseteq stale' /\ stale' \subseteq User!Ops /\ (crossed' <=> crossed \/ p \in stale)
        /\ crossed' \in BOOLEAN
        /\ \A q \in User!Ops \ {p} : op[q].at \notin {"idle", "over"} /\ User!Watched(q) \cap users # {}
                               => q \in stale'
    BY TenantOps DEF User!Overwrites
  <1>3. /\ op' \in [User!Ops -> TenantKind] /\ op'[p] = r
        /\ \A q \in User!Ops \ {p} : op'[q] = op[q]
    BY <1>1, TenantMoved
  <1>4. User!TypeOK' BY <1>2, <1>3 DEF User!IInv, User!TypeOK, TenantKind, TenantPlaces, User!Ids, User!Ops
  <1>5. User!InTurn' BY <1>1, <1>3 DEF User!IInv, User!InTurn, User!Issued, User!Ids, User!Ops
  <1>6. User!AboutSome'
    BY <1>1, <1>3 DEF User!IInv, User!AboutSome, User!Ids, User!Ops, User!Creating,
         User!Changing
  <1>7. HoldsOn(users)
    <2> SUFFICES ASSUME NEW o \in TenantKind, Wellformed(o),
                        {o.user, o.owner} \cap users \subseteq {User!Nobody}, User!StillSo(o)
                 PROVE  User!StillSo(o)'
      BY DEF HoldsOn
    <2>1. o.owner \in rows => o.owner \in rows' /\ parent'[o.owner] = parent[o.owner]
      BY IdsAre DEF User!IInv, User!TypeOK
    <2>2. o.user \in User!Ids =>
               /\ parent'[o.user] = parent[o.user] /\ User!Subs(o.user)' \subseteq User!Subs(o.user)
               /\ \A s \in o.subs \cap rows' : s \in rows /\ (parent[s] = o.user => parent'[s] = o.user)
      BY DEF User!Subs
    <2> QED BY <2>1, <2>2, ReadHolds
  <1>8. User!StillSo(r)' BY <1>1, NothingRead
  <1>9. User!ReadsHold' BY <1>1, <1>2, <1>7, <1>8, ReadsFollow
  <1>10. User!TreeIsFlat' BY <1>2 DEF User!IInv, User!TreeIsFlat, User!IsOwner
  <1>11. User!PricedOrCut'
    <2>1. \A u \in rows' \ (priced' \cup cut') :
               /\ u \in rows \ (priced \cup cut)
               /\ op[p].user # u \/ op[p].at \notin User!Creating
      OBVIOUS
    <2> QED BY <1>1, <2>1, PricedFollows
  <1> QED BY <1>4, <1>5, <1>6, <1>9, <1>10, <1>11 DEF User!IInv

LEMMA UndoStep ==
  ASSUME User!IInv, NEW p \in Creates, User!Undo(p)
  PROVE  User!IInv'
  <1>1. p \in User!Ops /\ op[p].at = "undo" /\ op[p].at \in User!Creating /\ User!Goto(p, "over")
    BY DEF User!Ops, User!Undo, User!Creating
  <1>2. op[p].user \in User!Ids /\ cut \subseteq User!Ids BY <1>1 DEF User!IInv, User!AboutSome, User!TypeOK
  <1>3. CASE /\ rows' = rows \ {op[p].user} /\ priced' = priced \ {op[p].user}
             /\ User!Overwrites(p, {op[p].user})
             /\ UNCHANGED <<parent, manages, tokens, next, faults, cut>>
    <2>1. ~crossed /\ p \notin stale =>
              \A u \in rows \ {op[p].user} : ~User!IsOwner(u) => parent[u] \notin {op[p].user}
      BY <1>1 DEF User!IInv, User!ReadsHold, User!StillSo, User!Subs
    <2> QED BY <1>1, <1>3, <2>1, TenantsLeave
  <1>4. CASE /\ User!Faulty /\ cut' = cut \cup {op[p].user}
             /\ UNCHANGED <<rows, parent, manages, tokens, priced, next, stale, crossed>>
    BY <1>1, <1>2, <1>4, FaultyIs, TenantEnds
  <1> QED BY <1>3, <1>4 DEF User!Undo

LEMMA UserDestroyStep ==
  ASSUME User!IInv, NEW p \in Deletes, User!Destroy(p)
  PROVE  User!IInv'
  <1> DEFINE gone == op[p].subs \cup {op[p].user}
  <1>1. p \in User!Ops /\ op[p].at = "destroy" /\ op[p].at \notin User!Creating /\ User!Goto(p, "over")
    BY DEF User!Ops, User!Destroy, User!Creating
  <1>2. /\ rows' = rows \ gone /\ priced' = priced \ gone /\ User!Overwrites(p, gone \cup {op[p].was})
        /\ UNCHANGED <<parent, manages, tokens, next, faults, cut>>
    BY DEF User!Destroy, User!Cascade
  <1>3. op[p].user \in User!Ids BY <1>1 DEF User!IInv, User!AboutSome, User!Changing
  <1>4. ASSUME ~crossed, p \notin stale, NEW u \in rows \ gone, ~User!IsOwner(u),
               parent[u] \in gone
        PROVE  FALSE
    <2>1. User!StillSo(op[p]) BY <1>1, <1>4 DEF User!IInv, User!ReadsHold
    <2>2. parent[u] \in rows /\ parent[parent[u]] = User!Nobody BY <1>4 DEF User!IInv, User!TreeIsFlat, User!IsOwner
    <2>3. parent[op[p].user] = op[p].was BY <1>1, <2>1 DEF User!StillSo, User!Changing
    <2>4. CASE parent[u] = op[p].user
      <3>1. op[p].was = User!Nobody BY <2>2, <2>3, <2>4
      <3>2. User!Subs(op[p].user) \subseteq op[p].subs BY <1>1, <2>1, <3>1 DEF User!StillSo
      <3> QED BY <1>4, <2>4, <3>2 DEF User!Subs
    <2>5. CASE parent[u] \in op[p].subs
      <3>1. op[p].was = User!Nobody BY <1>1, <2>1, <2>5 DEF User!StillSo
      <3>2. \A s \in op[p].subs \cap rows : parent[s] = op[p].user BY <1>1, <2>1, <3>1 DEF User!StillSo
      <3>3. op[p].user = User!Nobody BY <2>2, <2>5, <3>2
      <3> QED BY <1>3, <3>3, IdsAre
    <2> QED BY <1>4, <2>4, <2>5
  <1> HIDE DEF gone
  <1> QED BY <1>1, <1>2, <1>4, TenantsLeave

  -----------------------------------------------------------------------------
LEMMA MoveStep ==
  ASSUME User!IInv, NEW p \in Moves, User!Move(p)
  PROVE  User!IInv'
  <1>1. p \in User!Ops /\ op[p].at = "move" /\ op[p].at \notin User!Creating /\ User!Goto(p, "over")
    BY DEF User!Ops, User!Move, User!Creating
  <1>2. PICK r \in TenantKind : TenantMoves(p, r) /\ r.at = "over" /\ User!Issued(r)
    <2>1. "over" \in TenantPlaces BY DEF TenantPlaces
    <2> QED BY <1>1, <2>1, TenantGoes
  <1>3. Wellformed(r) /\ User!StillSo(r) /\ User!StillSo(r)'
    BY <1>2, NothingRead DEF Wellformed, User!Creating, User!Changing
  <1>4. /\ manages' \subseteq User!Ids /\ priced \subseteq User!Ids /\ cut \subseteq User!Ids /\ stale \subseteq User!Ops
        /\ faults \in 0..MaxFaults /\ UNCHANGED <<rows, priced, next, faults, cut>>
    BY DEF User!IInv, User!TypeOK, User!Move
  <1>5. CASE UNCHANGED <<parent, tokens, stale, crossed>> BY <1>1, <1>2, <1>3, <1>4, <1>5, TreeStays
  <1>6. CASE op[p].owner # op[p].was /\ op[p].user \in rows
    <2>1. PICK user \in User!Ids : user = op[p].user /\ user \in rows BY <1>6 DEF User!IInv, User!TypeOK
    <2>2. PICK o \in TenantKind : o = op[p] /\ User!Issued(o) BY <1>1, TenantOps
    <2>3. PICK owner \in User!Ids \cup {User!Nobody}, was \in User!Ids \cup {User!Nobody} :
              owner = o.owner /\ was = o.was /\ owner < next /\ user < next /\ owner # was
      BY <1>6, <2>1, <2>2 DEF TenantKind, User!Issued
    <2>4. /\ parent' = [parent EXCEPT ![user] = owner] /\ parent \in [User!Ids -> User!Ids \cup {User!Nobody}]
          /\ tokens' \subseteq tokens \cup {user} /\ User!Overwrites(p, {user, owner, was})
      BY <1>6, <2>1, <2>2, <2>3 DEF User!Move, User!IInv, User!TypeOK
    <2>5. parent'[user] = owner /\ \A u \in User!Ids : u # user => parent'[u] = parent[u] BY <2>4
    <2>6. /\ stale \subseteq stale' /\ stale' \subseteq User!Ops /\ (crossed' <=> crossed \/ p \in stale)
          /\ crossed' \in BOOLEAN
          /\ \A q \in User!Ops \ {p} : /\ op[q].at \notin {"idle", "over"}
                                       /\ User!Watched(q) \cap {user, owner, was} # {}
                                       => q \in stale'
      BY <1>4, <2>4 DEF User!Overwrites
    <2>7. /\ op' \in [User!Ops -> TenantKind] /\ op'[p] = r
          /\ \A q \in User!Ops \ {p} : op'[q] = op[q]
      BY <1>1, <1>2, TenantMoved
    <2>8. User!TypeOK'
      BY <1>4, <2>4, <2>6, <2>7 DEF User!IInv, User!TypeOK, TenantKind, TenantPlaces,
           User!Ids, User!Ops
    <2>9. User!InTurn'
      BY <1>2, <1>4, <2>3, <2>4, <2>5, <2>7 DEF User!IInv, User!InTurn, User!Issued,
           User!Ids, User!Ops
    <2>10. User!AboutSome'
      BY <1>2, <2>7 DEF User!IInv, User!AboutSome, User!Ids, User!Ops, User!Creating,
           User!Changing
    <2>11. ASSUME ~crossed'
           PROVE  /\ parent[user] = was /\ owner # user /\ (owner # User!Nobody => owner \in rows /\ parent[owner] = User!Nobody)
                  /\ (was = User!Nobody => User!Subs(user) = {})
      <3>1. User!StillSo(o) BY <1>1, <2>2, <2>6, <2>11 DEF User!IInv, User!ReadsHold
      <3>2. o.at = "move" /\ o.user = user BY <1>1, <2>1, <2>2
      <3>3. o.at \in User!Changing BY <3>2 DEF User!Changing
      <3>4. parent[user] = was BY <2>3, <3>1, <3>2, <3>3 DEF User!StillSo
      <3>5. User!MayBeParent(owner) /\ owner # user BY <2>3, <3>1, <3>2 DEF User!StillSo
      <3>6. was = User!Nobody => User!Subs(user) = {} BY <2>3, <3>1, <3>2 DEF User!StillSo
      <3> QED BY <3>4, <3>5, <3>6 DEF User!MayBeParent, User!IsOwner
    <2>12. ASSUME ~crossed' PROVE HoldsOn({user, owner, was})
      <3> SUFFICES ASSUME NEW q \in TenantKind, Wellformed(q),
                          {q.user, q.owner} \cap {user, owner, was} \subseteq {User!Nobody}, User!StillSo(q)
                   PROVE  User!StillSo(q)'
        BY DEF HoldsOn
      <3>1. q.owner \in rows => q.owner \in rows' /\ parent'[q.owner] = parent[q.owner]
        BY <1>4, <2>5, IdsAre DEF User!IInv, User!TypeOK
      <3>2. q.user \in User!Ids => q.user # user /\ q.user # owner /\ q.user # was BY IdsAre
      <3>3. parent[user] = was BY <2>11, <2>12
      <3>4. q.user \in User!Ids =>
                /\ parent'[q.user] = parent[q.user] /\ User!Subs(q.user)' \subseteq User!Subs(q.user)
                /\ \A s \in q.subs \cap rows' : s \in rows /\ (parent[s] = q.user => parent'[s] = q.user)
        BY <1>4, <2>5, <3>2, <3>3 DEF User!Subs, User!IInv, User!TypeOK
      <3> QED BY <3>1, <3>4, ReadHolds
    <2>13. User!ReadsHold' BY <1>1, <1>2, <1>3, <2>6, <2>12, ReadsFollow
    <2>14. User!TreeIsFlat'
      <3> SUFFICES ASSUME ~crossed', NEW u \in rows, parent'[u] # User!Nobody
                   PROVE  parent'[u] \in rows /\ parent'[parent'[u]] = User!Nobody
        BY <1>4 DEF User!TreeIsFlat, User!IsOwner
      <3>1. /\ parent[user] = was /\ owner # user /\ (owner # User!Nobody => owner \in rows /\ parent[owner] = User!Nobody)
            /\ (was = User!Nobody => User!Subs(user) = {})
        BY <2>11
      <3>2. u \in User!Ids /\ rows \subseteq User!Ids /\ ~crossed BY <2>6 DEF User!IInv, User!TypeOK
      <3>3. CASE u = user BY <2>5, <3>1, <3>2, <3>3
      <3>4. CASE u # user
        <4>1. parent'[u] = parent[u] BY <2>5, <3>2, <3>4
        <4>2. parent[u] \in rows /\ parent[parent[u]] = User!Nobody
          BY <3>2, <4>1 DEF User!IInv, User!TreeIsFlat, User!IsOwner
        <4>3. parent[u] # user BY <3>1, <4>2 DEF User!Subs
        <4> QED BY <2>5, <3>2, <4>1, <4>2, <4>3
      <3> QED BY <3>3, <3>4
    <2>15. User!PricedOrCut'
      <3>1. \A u \in rows' \ (priced' \cup cut') :
                 /\ u \in rows \ (priced \cup cut)
                 /\ op[p].user # u \/ op[p].at \notin User!Creating
        BY <1>1, <1>4
      <3> QED BY <1>1, <1>2, <3>1, PricedFollows
    <2> QED BY <2>8, <2>9, <2>10, <2>13, <2>14, <2>15 DEF User!IInv
  <1> QED BY <1>5, <1>6 DEF User!Move

  -----------------------------------------------------------------------------
LEMMA TenantsInit ==
  ASSUME User!Init
  PROVE  User!IInv
  <1> DEFINE first == [at |-> "idle", user |-> User!Nobody, owner |-> User!Nobody, was |-> User!Nobody,
                       by |-> User!Nobody, subs |-> {}]
  <1>1. /\ rows = {1, 2, 3} /\ priced = {1, 2, 3} /\ manages = {2} /\ tokens = {1, 3} /\ next = 4
        /\ parent = [u \in User!Ids |-> IF u = 2 THEN 1 ELSE User!Nobody]
        /\ op = [p \in User!Ops |-> first]
        /\ faults = 0 /\ stale = {} /\ crossed = FALSE /\ cut = {}
    BY DEF User!Init
  <1>2. {1, 2, 3} \subseteq User!Ids /\ 4 \in 1..(MaxUsers + 1) /\ 0 \in 0..MaxFaults /\ User!Nobody = 0
    BY ComponentConstants DEF User!TenantConstants, User!Ids, User!Nobody
  <1>3. first \in TenantKind /\ first.at = "idle" BY DEF TenantKind, TenantPlaces
  <1>4. first.user = 0 /\ first.owner = 0 /\ first.was = 0 /\ first.subs = {} BY <1>2
  <1> HIDE DEF first
  <1>5. op \in [User!Ops -> TenantKind] /\ \A p \in User!Ops : op[p] = first BY <1>1, <1>3
  <1>6. parent \in [User!Ids -> User!Ids \cup {User!Nobody}] BY <1>1, <1>2
  <1>7. User!TypeOK BY <1>1, <1>2, <1>5, <1>6 DEF User!TypeOK, TenantKind, TenantPlaces
  <1>8. User!InTurn BY <1>1, <1>2, <1>4, <1>5 DEF User!InTurn, User!Issued
  <1>9. User!AboutSome /\ User!ReadsHold
    BY <1>3, <1>5, NothingRead DEF User!AboutSome, User!ReadsHold, User!Creating, User!Changing
  <1>10. User!TreeIsFlat BY <1>1, <1>2 DEF User!TreeIsFlat, User!IsOwner
  <1>11. User!PricedOrCut BY <1>1 DEF User!PricedOrCut
  <1> QED BY <1>7, <1>8, <1>9, <1>10, <1>11 DEF User!IInv

LEMMA TenantsStep ==
  ASSUME User!IInv, User!Next
  PROVE  User!IInv'
  <1>1. Creates \subseteq User!Ops /\ SubCreates \subseteq User!Ops /\ Moves \subseteq User!Ops /\ Deletes \subseteq User!Ops
    BY DEF User!Ops
  <1>2. CASE \E p \in Creates : \/ \E raw \in User!Ids \cup {User!Nobody} : User!BeginCreate(p, raw)
                                \/ \E r \in User!Ids : User!BeginOwnCreate(p, r)
                                \/ User!Undo(p)
    BY <1>1, <1>2, BeginCreateStep, BeginOwnCreateStep, UndoStep
  <1>3. CASE \E p \in SubCreates : User!CheckOwner(p) \/ \E r \in User!Ids : User!BeginSubCreate(p, r)
    BY <1>1, <1>3, CheckOwnerStep, BeginSubCreateStep
  <1>4. CASE \E p \in Creates \cup SubCreates : \/ \E manager \in BOOLEAN : User!Insert(p, manager)
                                                \/ User!SetRole(p) \/ User!SetPrice(p) \/ User!FailCreation(p)
    BY <1>4, UserInsertStep, SetRoleStep, SetPriceStep, FailCreationStep
  <1>5. CASE \E p \in Moves : \/ \E u \in User!Ids, raw \in User!Ids \cup {User!Nobody} : User!LoadMoved(p, u, raw)
                              \/ User!ResolveParent(p) \/ User!CountSubs(p) \/ User!Move(p)
    BY <1>1, <1>5, LoadMovedStep, ResolveParentStep, CountSubsStep, MoveStep
  <1>6. CASE \E p \in Deletes : \/ \E u \in User!Ids, r \in User!Ids \cup {User!Nobody} : User!LoadDeleted(p, u, r)
                                \/ User!Permit(p) \/ User!ListSubs(p) \/ User!Destroy(p) \/ User!Rollback(p)
    BY <1>1, <1>6, LoadDeletedStep, PermitStep, ListSubsStep, UserDestroyStep, RollbackStep
  <1> QED BY <1>2, <1>3, <1>4, <1>5, <1>6 DEF User!Next

LEMMA TenantsStay ==
  ASSUME User!IInv, UNCHANGED User!vars
  PROVE  User!IInv'
  <1>1. UNCHANGED <<rows, parent, manages, tokens, priced, next, op, faults, stale, crossed, cut>> BY DEF User!vars
  <1>2. User!TypeOK' BY <1>1 DEF User!IInv, User!TypeOK, User!Ids, User!Ops
  <1>3. User!InTurn' BY <1>1 DEF User!IInv, User!InTurn, User!Issued, User!Ids, User!Ops
  <1>4. User!AboutSome' BY <1>1 DEF User!IInv, User!AboutSome, User!Ids, User!Ops, User!Creating, User!Changing
  <1>5. User!ReadsHold'
    BY <1>1 DEF User!IInv, User!ReadsHold, User!StillSo, User!MayBeParent, User!Subs,
         User!IsOwner, User!Creating, User!Changing, User!Ops
  <1>6. User!TreeIsFlat' BY <1>1 DEF User!IInv, User!TreeIsFlat, User!IsOwner
  <1>7. User!PricedOrCut' BY <1>1 DEF User!IInv, User!PricedOrCut
  <1> QED BY <1>2, <1>3, <1>4, <1>5, <1>6, <1>7 DEF User!IInv

LEMMA TenantsAre ==
  ASSUME User!IInv
  PROVE  User!TypeOK /\ User!TreeIsFlat /\ User!PricedOrCut
  BY DEF User!IInv

LEMMA UsersAlways == Spec => [](which = "User" => User!IInv)
  <1> DEFINE I == which = "User" => User!IInv
  <1>1. Init => I BY TenantsInit, ComponentConstants DEF Init
  <1>2. I /\ [Next]_vars => I'
    <2>1. ASSUME User!IInv, [User!Next]_User!vars PROVE User!IInv'
      BY <2>1, TenantsStep, TenantsStay, ComponentConstants
    <2>2. ASSUME [Next]_vars, which' = "User"
          PROVE  which = "User" /\ [User!Next]_User!vars
      BY <2>2 DEF Next, vars, User!vars
    <2> QED BY <2>1, <2>2
  <1> QED BY <1>1, <1>2, PTL DEF Spec

\* UsersService, AuthService: with any number of requests at once, users have no owner below
\* another one unless reads were overwritten, new ones have prices, a code lets in once and
\* the newest one works, for the requests and failures the histories do not name.
THEOREM OwnersAreSound == Spec => []OwnersSound
  <1>1. (which = "User" => User!IInv) /\ (which = "Code" => Code!IInv) => OwnersSound
    BY TenantsAre, AccountsAre DEF OwnersSound
  <1> QED BY <1>1, UsersAlways, CodesAlways, PTL

------------------------
\* The trunks: files say what the row says, or what the request at work will make it say
\* (Trunk!IInv).

TrunkPlaces == {"idle", "row", "post", "unlink", "trunk", "dialplan", "reload", "answer", "over"}
TrunkKind == [at : TrunkPlaces, trunk : Trunks \cup {NoOne}, want : Trunk!Settings \cup {Trunk!NoRow},
              tech : Trunk!Techs, full : BOOLEAN]
TrunkMoves(p, r) == op' = [op EXCEPT ![p] = r]
Finished(o) == o.at \in {"idle", "over"}

\* What a step about one trunk leaves of another, which other requests may be about.
Elsewhere(u) ==
    /\ Trunk!Of(u)' = Trunk!Of(u) /\ row'[u] = row[u] /\ (Trunk!Heard(u) => Trunk!Heard(u)')
    /\ \A s \in TrunkServers : Trunk!OnServer(u, s) /\ (\A f \in Trunk!Of(u) : f.server = s) => Trunk!OnServer(u, s)'

LEMMA TrunkOps ==
  ASSUME Trunk!IInv
  PROVE  /\ op \in [Trunk!Ops -> TrunkKind] /\ \A p \in Trunk!Ops : op[p] \in TrunkKind /\ Trunk!Aims(p, op[p])
         /\ faults \in 0..MaxFaults /\ MaxFaults \in Nat /\ troubled \subseteq Trunks
         /\ files \subseteq Trunk!Kept /\ loaded \subseteq Trunk!Kept
         /\ row \in [Trunks -> Trunk!Settings \cup {Trunk!NoRow}] /\ Trunk!NoRow \notin Trunk!Settings
  <1>1. Trunk!NoRow \notin Trunk!Settings
    BY ComponentConstants DEF Trunk!TrunkConstants, Trunk!NoRow, Trunk!Settings
  <1> QED
    BY <1>1, ComponentConstants DEF Trunk!IInv, Trunk!TypeOK, TrunkKind, TrunkPlaces,
         Trunk!TrunkConstants

LEMMA TrunkMoved ==
  ASSUME Trunk!IInv, NEW p \in Trunk!Ops, NEW r \in TrunkKind, TrunkMoves(p, r)
  PROVE  /\ op' \in [Trunk!Ops -> TrunkKind] /\ op'[p] = r
         /\ \A q \in Trunk!Ops \ {p} : op'[q] = op[q]
  BY TrunkOps DEF TrunkMoves

LEMMA StepElsewhere ==
  ASSUME Trunk!IInv, NEW p \in Trunk!Ops, NEW o \in TrunkKind, Trunk!Aims(p, o),
         ~Finished(o),
         Trunk!InStep(p, o), Elsewhere(o.trunk)
  PROVE  Trunk!InStep(p, o)'
  <1> DEFINE t == o.trunk
  <1>1. t \in Trunks /\ o.want \in Trunk!Settings /\ o.want.server \in TrunkServers
    BY DEF Trunk!Aims, Finished, Trunk!Settings
  <1>2. /\ Trunk!Of(t)' = Trunk!Of(t) /\ row'[t] = row[t] /\ (Trunk!Heard(t) => Trunk!Heard(t)')
        /\ \A s \in TrunkServers : Trunk!OnServer(t, s) /\ (\A f \in Trunk!Of(t) : f.server = s) => Trunk!OnServer(t, s)'
    BY DEF Elsewhere
  <1>3. Trunk!Right(t)' <=> Trunk!Right(t) BY <1>2 DEF Trunk!Right, Trunk!FileOf
  <1>4. o.at \in {"trunk", "dialplan", "reload"} => \A f \in Trunk!Of(t) : f.server = o.want.server
    <2>1. CASE o.at = "trunk" BY <2>1 DEF Trunk!InStep
    <2>2. CASE o.at = "dialplan" BY <2>2 DEF Trunk!InStep, Trunk!FileOf
    <2>3. CASE o.at = "reload" BY <2>3 DEF Trunk!InStep, Trunk!FileOf
    <2> QED BY <2>1, <2>2, <2>3
  <1>5. o.at \in {"trunk", "dialplan", "reload"} => Trunk!OnServer(t, o.want.server)'
    BY <1>1, <1>2, <1>4 DEF Trunk!InStep
  <1>6. o.at \in {"row", "post", "unlink", "answer"} => Trunk!Heard(t)' BY <1>2 DEF Trunk!InStep
  <1> QED BY <1>2, <1>3, <1>5, <1>6 DEF Trunk!InStep, Trunk!FileOf

LEMMA TrunkFollows ==
  ASSUME Trunk!IInv, NEW p \in Trunk!Ops, NEW r \in TrunkKind, TrunkMoves(p, r),
         Trunk!Aims(p, r),
         NEW t \in Trunks, Finished(op[p]) \/ op[p].trunk = t, Finished(r) \/ r.trunk = t,
         row' \in [Trunks -> Trunk!Settings \cup {Trunk!NoRow}], tech' = tech, Trunk!OneTech',
         files' \subseteq Trunk!Kept, loaded' \subseteq Trunk!Kept, retechs' = retechs,
         faults' \in 0..MaxFaults, troubled \subseteq troubled', troubled' \subseteq Trunks,
         \A u \in Trunks \ {t} : Elsewhere(u),
         t \notin troubled' => ~Finished(op[p]) \/ ~Trunk!Busy(t),
         t \notin troubled' /\ ~Finished(r) => Trunk!InStep(p, r)',
         t \notin troubled' /\ Finished(r) => Trunk!Right(t)' /\ Trunk!Heard(t)'
  PROVE  Trunk!IInv'
  <1>1. /\ op' \in [Trunk!Ops -> TrunkKind] /\ op'[p] = r
        /\ \A q \in Trunk!Ops \ {p} : op'[q] = op[q]
    BY TrunkMoved
  <1>2. Trunk!TypeOK'
    BY <1>1 DEF Trunk!IInv, Trunk!TypeOK, TrunkKind, TrunkPlaces, Trunk!Settings,
         Trunk!NoRow, Trunk!Ops, Trunk!Kept
  <1>3. \A q \in Trunk!Ops : Trunk!Aims(q, op[q])'
    <2>1. \A q \in Trunk!Ops : Trunk!Aims(q, op'[q]) BY <1>1, TrunkOps
    <2> QED BY <2>1 DEF Trunk!Aims
  <1>4. \A q \in Trunk!Ops : Trunk!Live(q)' <=> ~Finished(op'[q]) BY DEF Trunk!Live, Finished
  <1>5. ASSUME NEW u \in Trunks, u \notin troubled' PROVE Trunk!Untroubled(u)'
    <2>1. /\ u \notin troubled
          /\ \A q, s \in Trunk!Ops : ~Finished(op[q]) /\ ~Finished(op[s]) /\ op[q].trunk = u /\ op[s].trunk = u => q = s
          /\ \A q \in Trunk!Ops : ~Finished(op[q]) /\ op[q].trunk = u => Trunk!InStep(q, op[q])
          /\ (\A q \in Trunk!Ops : ~(~Finished(op[q]) /\ op[q].trunk = u)) => Trunk!Right(u) /\ Trunk!Heard(u)
      BY <1>5 DEF Trunk!IInv, Trunk!Untroubled, Trunk!Live, Finished, Trunk!Busy
    <2>2. CASE u # t
      <3>1. \A q \in Trunk!Ops : ~Finished(op'[q]) /\ op'[q].trunk = u => q # p /\ op'[q] = op[q] BY <1>1, <2>2
      <3>2. \A q, s \in Trunk!Ops : ~Finished(op'[q]) /\ ~Finished(op'[s]) /\ op'[q].trunk = u /\ op'[s].trunk = u => q = s
        BY <2>1, <3>1
      <3>3. ASSUME NEW q \in Trunk!Ops, ~Finished(op'[q]), op'[q].trunk = u
            PROVE  Trunk!InStep(q, op[q])'
        <4>1. PICK o \in TrunkKind : o = op[q] /\ op'[q] = o /\ ~Finished(o) /\ o.trunk = u /\ Trunk!Aims(q, o)
          BY <3>1, <3>3, TrunkOps
        <4>2. Trunk!InStep(q, o) BY <2>1, <4>1
        <4>3. Trunk!InStep(q, o)' BY <2>2, <4>1, <4>2, StepElsewhere
        <4> QED
          BY <4>1, <4>3 DEF Trunk!InStep, Trunk!Right, Trunk!Heard, Trunk!OnServer,
               Trunk!Of, Trunk!FileOf
      <3>4. ASSUME \A q \in Trunk!Ops : ~(~Finished(op'[q]) /\ op'[q].trunk = u)
            PROVE  Trunk!Right(u)' /\ Trunk!Heard(u)'
        <4>1. \A q \in Trunk!Ops : ~(~Finished(op[q]) /\ op[q].trunk = u) BY <1>1, <2>2, <3>4
        <4>2. Trunk!Right(u) /\ Trunk!Heard(u) /\ Elsewhere(u) BY <2>1, <2>2, <4>1
        <4> QED BY <4>2 DEF Elsewhere, Trunk!Right, Trunk!FileOf
      <3> QED BY <1>4, <3>2, <3>3, <3>4 DEF Trunk!Untroubled, Trunk!Busy, Trunk!Ops
    <2>3. CASE u = t
      <3>1. \A q \in Trunk!Ops \ {p} : ~(~Finished(op[q]) /\ op[q].trunk = t)
        <4>1. CASE ~Finished(op[p]) BY <2>1, <2>3, <4>1
        <4>2. CASE ~Trunk!Busy(t) BY <4>2 DEF Trunk!Busy, Trunk!Live, Finished
        <4> QED BY <1>5, <2>3, <4>1, <4>2
      <3>2. \A q \in Trunk!Ops : ~Finished(op'[q]) /\ op'[q].trunk = t => q = p /\ ~Finished(r) /\ op'[q] = r
        BY <1>1, <3>1
      <3>3. ASSUME NEW q \in Trunk!Ops, ~Finished(op'[q]), op'[q].trunk = u
            PROVE  Trunk!InStep(q, op[q])'
        <4>1. q = p /\ op'[q] = r /\ Trunk!InStep(p, r)' BY <1>5, <2>3, <3>2, <3>3
        <4> QED
          BY <4>1 DEF Trunk!InStep, Trunk!Right, Trunk!Heard, Trunk!OnServer,
               Trunk!Of, Trunk!FileOf
      <3>4. ASSUME \A q \in Trunk!Ops : ~(~Finished(op'[q]) /\ op'[q].trunk = u)
            PROVE  Trunk!Right(u)' /\ Trunk!Heard(u)'
        BY <1>1, <1>5, <2>3, <3>4
      <3> QED BY <1>4, <2>3, <3>2, <3>3, <3>4 DEF Trunk!Untroubled, Trunk!Busy, Trunk!Ops
    <2> QED BY <2>2, <2>3
  <1>6. \A u \in Trunks : Trunk!Untroubled(u)' BY <1>5 DEF Trunk!Untroubled
  <1> QED BY <1>2, <1>3, <1>6 DEF Trunk!IInv, Trunk!Ops

\* A step that moves no files and loads none.
LEMMA TrunkStays ==
  ASSUME Trunk!IInv, NEW p \in Trunk!Ops, NEW r \in TrunkKind, TrunkMoves(p, r),
         Trunk!Aims(p, r),
         NEW t \in Trunks, Finished(op[p]) \/ op[p].trunk = t, Finished(r) \/ r.trunk = t,
         r.tech = op[p].tech \/ (Prefixed => r.tech = "sip"),
         row' \in [Trunks -> Trunk!Settings \cup {Trunk!NoRow}], \A u \in Trunks \ {t} : row'[u] = row[u],
         UNCHANGED <<tech, files, loaded, retechs>>,
         faults' \in 0..MaxFaults, troubled \subseteq troubled', troubled' \subseteq Trunks,
         t \notin troubled' => ~Finished(op[p]) \/ ~Trunk!Busy(t),
         t \notin troubled' /\ ~Finished(r) => Trunk!InStep(p, r)',
         t \notin troubled' /\ Finished(r) => Trunk!Right(t)' /\ Trunk!Heard(t)'
  PROVE  Trunk!IInv'
  <1>1. \A u \in Trunks \ {t} : Elsewhere(u) BY DEF Elsewhere, Trunk!Of, Trunk!Heard, Trunk!OnServer
  <1>2. Trunk!OneTech'
    <2>1. Trunk!OneTech BY DEF Trunk!IInv
    <2>2. Prefixed => \A q \in Trunk!Ops : op'[q].tech = "sip" BY <2>1, TrunkMoved DEF Trunk!OneTech
    <2> QED BY <2>1, <2>2 DEF Trunk!OneTech, Trunk!Ops
  <1> QED BY <1>1, <1>2, TrunkOps, TrunkFollows

LEMMA TrunkBegins ==
  ASSUME Trunk!IInv, NEW p \in Trunk!Ops, NEW t \in Trunks, NEW at \in {"row", "post"},
         NEW want \in Trunk!Settings, NEW full \in BOOLEAN, Trunk!Begin(p, t, at, want, full),
         at = "row" => p \notin Removes /\ (row[t] = Trunk!NoRow <=> p \in TrunkCreates),
         at = "post" => p \notin TrunkCreates /\ row[t] = want
  PROVE  Trunk!IInv'
  <1>0. want.server \in TrunkServers /\ tech \in [TrunkServers -> Trunk!Techs]
    BY DEF Trunk!Settings, Trunk!IInv, Trunk!TypeOK
  <1>1. PICK r \in TrunkKind : /\ r.at = at /\ r.trunk = t /\ r.want = want
                               /\ r.tech = tech[want.server] /\ TrunkMoves(p, r)
    <2> DEFINE r == [at |-> at, trunk |-> t, want |-> want, tech |-> tech[want.server], full |-> full]
    <2>1. /\ r \in TrunkKind /\ r.at = at /\ r.trunk = t /\ r.want = want
          /\ r.tech = tech[want.server]
      BY <1>0 DEF TrunkKind, TrunkPlaces
    <2>2. TrunkMoves(p, r) BY DEF Trunk!Begin, TrunkMoves
    <2> QED BY <2>1, <2>2
  <1>2. /\ op[p].at = "idle" /\ UNCHANGED <<row, tech, files, loaded, retechs, faults>>
        /\ troubled' = IF Trunk!Busy(t) THEN troubled \cup {t} ELSE troubled
    BY DEF Trunk!Begin
  <1>3. Trunk!Aims(p, r) BY <1>1 DEF Trunk!Aims
  <1>4. Prefixed => r.tech = "sip" BY <1>0, <1>1 DEF Trunk!IInv, Trunk!OneTech
  <1>5. Finished(op[p]) /\ ~Finished(r) BY <1>1, <1>2 DEF Finished
  <1>6. ASSUME t \notin troubled' PROVE ~Trunk!Busy(t) /\ Trunk!InStep(p, r)'
    <2>1. ~Trunk!Busy(t) /\ t \notin troubled BY <1>2, <1>6
    <2>2. Trunk!Right(t) /\ Trunk!Heard(t) BY <2>1 DEF Trunk!IInv, Trunk!Untroubled
    <2>3. Trunk!Right(t)' /\ Trunk!Heard(t)' BY <1>2, <2>2 DEF Trunk!Right, Trunk!Heard, Trunk!Of, Trunk!FileOf
    <2>4. CASE at = "row" BY <1>1, <1>2, <2>1, <2>3, <2>4 DEF Trunk!InStep
    <2>5. CASE at = "post"
      <3>1. row[t] # Trunk!NoRow BY <2>5, TrunkOps
      <3>2. \A f \in Trunk!Of(t) : f.server = want.server /\ f.assistant = want.assistant
        BY <2>2, <2>5, <3>1 DEF Trunk!Right, Trunk!FileOf
      <3>3. Trunk!Of(t)' = Trunk!Of(t) BY <1>2 DEF Trunk!Of
      <3> QED BY <1>1, <1>2, <2>1, <2>3, <2>5, <3>2, <3>3 DEF Trunk!InStep
    <2> QED BY <2>4, <2>5
  <1>7. troubled \subseteq troubled' /\ troubled' \subseteq Trunks /\ faults \in 0..MaxFaults BY <1>2, TrunkOps
  <1>8. row' \in [Trunks -> Trunk!Settings \cup {Trunk!NoRow}] BY <1>2, TrunkOps
  <1> QED BY <1>1, <1>2, <1>3, <1>4, <1>5, <1>6, <1>7, <1>8, TrunkStays

LEMMA BeginTrunkStep ==
  ASSUME Trunk!IInv,
         \/ \E p \in TrunkCreates, t \in Trunks, s \in Trunk!Settings : Trunk!BeginCreate(p, t, s)
         \/ \E p \in TrunkUpdates, t \in Trunks, s \in Trunk!Settings, full \in BOOLEAN : Trunk!BeginUpdate(p, t, s, full)
         \/ \E p \in Removes, t \in Trunks : Trunk!BeginRemove(p, t)
  PROVE  Trunk!IInv'
  <1>1. ASSUME NEW p \in TrunkCreates, NEW t \in Trunks, NEW s \in Trunk!Settings,
               Trunk!BeginCreate(p, t, s)
        PROVE  Trunk!IInv'
    <2>1. p \in Trunk!Ops /\ p \notin Removes BY ComponentConstants DEF Trunk!TrunkConstants, Trunk!Ops
    <2> QED BY <1>1, <2>1, TrunkBegins DEF Trunk!BeginCreate
  <1>2. ASSUME NEW p \in TrunkUpdates, NEW t \in Trunks, NEW s \in Trunk!Settings,
               NEW full \in BOOLEAN,
               Trunk!BeginUpdate(p, t, s, full)
        PROVE  Trunk!IInv'
    <2>1. p \in Trunk!Ops /\ p \notin Removes /\ p \notin TrunkCreates
      BY ComponentConstants DEF Trunk!TrunkConstants, Trunk!Ops
    <2> QED BY <1>2, <2>1, TrunkBegins DEF Trunk!BeginUpdate
  <1>3. ASSUME NEW p \in Removes, NEW t \in Trunks, Trunk!BeginRemove(p, t)
        PROVE  Trunk!IInv'
    <2>1. p \in Trunk!Ops /\ p \notin TrunkCreates BY ComponentConstants DEF Trunk!TrunkConstants, Trunk!Ops
    <2>2. row[t] \in Trunk!Settings BY <1>3, TrunkOps DEF Trunk!BeginRemove
    <2> QED BY <1>3, <2>1, <2>2, TrunkBegins DEF Trunk!BeginRemove
  <1> QED BY <1>1, <1>2, <1>3

LEMMA TrunkGoes ==
  ASSUME Trunk!IInv, NEW p \in Trunk!Ops, NEW at \in TrunkPlaces, Trunk!Goto(p, at)
  PROVE  \E r \in TrunkKind :
             /\ TrunkMoves(p, r) /\ r.at = at /\ r.trunk = op[p].trunk /\ r.want = op[p].want
             /\ r.tech = op[p].tech
  <1> DEFINE r == [op[p] EXCEPT !.at = at]
  <1>1. op \in [Trunk!Ops -> TrunkKind] BY TrunkOps
  <1>2. /\ r \in TrunkKind /\ r.at = at /\ r.trunk = op[p].trunk /\ r.want = op[p].want
        /\ r.tech = op[p].tech
    BY <1>1 DEF TrunkKind
  <1>3. TrunkMoves(p, r) BY <1>1 DEF Trunk!Goto, TrunkMoves
  <1> QED BY <1>2, <1>3

\* What a request under way knows of itself and its trunk.
LEMMA TrunkKnows ==
  ASSUME Trunk!IInv, NEW p \in Trunk!Ops, op[p].at \notin {"idle", "over"}
  PROVE  /\ op[p].trunk \in Trunks /\ op[p].want \in Trunk!Settings /\ ~Finished(op[p])
         /\ op[p].tech \in Trunk!Techs /\ op[p].want.server \in TrunkServers
         /\ (op[p].trunk \notin troubled => Trunk!InStep(p, op[p]))
  <1>1. op[p].trunk \in Trunks /\ op[p].want \in Trunk!Settings /\ op[p].tech \in Trunk!Techs
    BY TrunkOps DEF Trunk!Aims, TrunkKind
  <1> QED BY <1>1 DEF Trunk!IInv, Trunk!Untroubled, Trunk!Live, Finished, Trunk!Settings

\* A failure troubles the trunk.
LEMMA TrunkTroubles ==
  ASSUME Trunk!IInv, NEW p \in Trunk!Ops, op[p].at \notin {"idle", "over"},
         NEW at \in {"answer", "over"},
         Trunk!Goto(p, at), Trunk!Trouble(p), faults' \in 0..MaxFaults,
         UNCHANGED <<row, tech, files, loaded, retechs>>
  PROVE  Trunk!IInv'
  <1>1. PICK r \in TrunkKind :
               /\ TrunkMoves(p, r) /\ r.at = at /\ r.trunk = op[p].trunk /\ r.want = op[p].want
               /\ r.tech = op[p].tech
    BY TrunkGoes DEF TrunkPlaces
  <1>2. PICK t \in Trunks : t = op[p].trunk BY TrunkKnows
  <1>3. troubled' = troubled \cup {t} BY <1>2 DEF Trunk!Trouble
  <1>4. Trunk!Aims(p, r) BY <1>1, TrunkKnows DEF Trunk!Aims
  <1>5. row' \in [Trunks -> Trunk!Settings \cup {Trunk!NoRow}] /\ troubled' \subseteq Trunks BY <1>3, TrunkOps
  <1> QED BY <1>1, <1>2, <1>3, <1>4, <1>5, TrunkStays

LEMMA WriteRowStep ==
  ASSUME Trunk!IInv, NEW p \in Trunk!Ops, Trunk!WriteRow(p)
  PROVE  Trunk!IInv'
  <1>1. op[p].at = "row" /\ Trunk!Goto(p, "post") /\ UNCHANGED <<tech, files, loaded, retechs, faults>>
    BY DEF Trunk!WriteRow
  <1>2. PICK r \in TrunkKind :
               /\ TrunkMoves(p, r) /\ r.at = "post" /\ r.trunk = op[p].trunk /\ r.want = op[p].want
               /\ r.tech = op[p].tech
    BY <1>1, TrunkGoes DEF TrunkPlaces
  <1>3. PICK t \in Trunks : t = r.trunk /\ t = op[p].trunk BY <1>1, <1>2, TrunkKnows
  <1>4. r.want \in Trunk!Settings /\ ~Finished(op[p]) /\ (t \notin troubled => Trunk!InStep(p, op[p])) /\ p \notin Removes
    BY <1>1, <1>2, <1>3, TrunkKnows, TrunkOps DEF Trunk!Aims
  <1>5. /\ row' = IF p \in TrunkCreates \/ row[t] # Trunk!NoRow THEN [row EXCEPT ![t] = r.want] ELSE row
        /\ troubled' = IF row[t] # Trunk!NoRow /\ (row[t].server # r.want.server \/ row[t].assistant # r.want.assistant)
                       THEN troubled \cup {t} ELSE troubled
    BY <1>2, <1>3 DEF Trunk!WriteRow
  <1>6. /\ row' \in [Trunks -> Trunk!Settings \cup {Trunk!NoRow}] /\ \A u \in Trunks \ {t} : row'[u] = row[u]
        /\ (p \in TrunkCreates \/ row[t] # Trunk!NoRow => row'[t] = r.want)
    BY <1>4, <1>5, TrunkOps
  <1>7. Trunk!Aims(p, r) /\ ~Finished(r) BY <1>2, <1>3, <1>4 DEF Trunk!Aims, Finished
  <1>8. ASSUME t \notin troubled' PROVE Trunk!InStep(p, r)'
    <2>1. t \notin troubled BY <1>5, <1>8
    <2>2. Trunk!Right(t) /\ Trunk!Heard(t) /\ (row[t] = Trunk!NoRow <=> p \in TrunkCreates)
      BY <1>1, <1>3, <1>4, <2>1 DEF Trunk!InStep
    <2>3. row'[t] = r.want BY <1>6, <2>2
    <2>4. Trunk!Heard(t)' /\ Trunk!Of(t)' = Trunk!Of(t) BY <1>1, <2>2 DEF Trunk!Heard, Trunk!Of
    <2>5. p \in TrunkCreates => Trunk!Of(t) = {} BY <2>2 DEF Trunk!Right
    <2>6. ASSUME p \notin TrunkCreates, NEW f \in Trunk!Of(t)
          PROVE  f.server = r.want.server /\ f.assistant = r.want.assistant
      <3>1. row[t] # Trunk!NoRow /\ row[t].server = r.want.server /\ row[t].assistant = r.want.assistant
        BY <1>5, <1>8, <2>2, <2>6
      <3> QED BY <2>2, <2>6, <3>1 DEF Trunk!Right, Trunk!FileOf
    <2>7. \A f \in Trunk!Of(t) : f.server = r.want.server /\ f.assistant = r.want.assistant BY <2>5, <2>6
    <2> QED BY <1>2, <1>3, <2>3, <2>4, <2>5, <2>7 DEF Trunk!InStep
  <1>9. troubled \subseteq troubled' /\ troubled' \subseteq Trunks /\ faults' \in 0..MaxFaults
    BY <1>1, <1>5, TrunkOps
  <1> QED BY <1>1, <1>2, <1>3, <1>4, <1>6, <1>7, <1>8, <1>9, TrunkStays

LEMMA PostStep ==
  ASSUME Trunk!IInv, NEW p \in Trunk!Ops, Trunk!Post(p)
  PROVE  Trunk!IInv'
  <1>1. op[p].at = "post" /\ UNCHANGED <<row, tech, files, loaded, retechs, faults, troubled>>
    BY DEF Trunk!Post, Trunk!OnlyFiles
  <1> DEFINE at == IF p \in TrunkCreates THEN "trunk" ELSE "unlink"
  <1>2. PICK r \in TrunkKind :
               /\ TrunkMoves(p, r) /\ r.at = at /\ r.trunk = op[p].trunk /\ r.want = op[p].want
               /\ r.tech = op[p].tech
    <2>1. Trunk!Goto(p, at) /\ at \in TrunkPlaces BY DEF Trunk!Post, TrunkPlaces
    <2> HIDE DEF at
    <2> QED BY <2>1, TrunkGoes
  <1>3. PICK t \in Trunks : t = r.trunk /\ t = op[p].trunk BY <1>1, <1>2, TrunkKnows
  <1>4. r.want \in Trunk!Settings /\ ~Finished(op[p]) /\ (t \notin troubled => Trunk!InStep(p, op[p]))
    BY <1>1, <1>2, <1>3, TrunkKnows
  <1>5. Trunk!Aims(p, r) /\ ~Finished(r)
    BY <1>2, <1>3, <1>4, ComponentConstants DEF Trunk!Aims, Finished, Trunk!TrunkConstants
  <1>6. ASSUME t \notin troubled PROVE Trunk!InStep(p, r)'
    <2>1. /\ Trunk!Heard(t) /\ row[t] = r.want
          /\ (p \in TrunkCreates => Trunk!Of(t) = {})
          /\ \A f \in Trunk!Of(t) : f.server = r.want.server /\ f.assistant = r.want.assistant
      BY <1>1, <1>2, <1>3, <1>4, <1>6 DEF Trunk!InStep
    <2>2. Trunk!Heard(t)' /\ Trunk!Of(t)' = Trunk!Of(t) BY <1>1, <2>1 DEF Trunk!Heard, Trunk!Of
    <2>3. CASE p \in TrunkCreates
      <3>1. r.at = "trunk" BY <1>2, <2>3
      <3>2. \A f \in loaded : f.trunk = t /\ f.kind = "dialplan" => FALSE BY <2>1, <2>3 DEF Trunk!Heard, Trunk!Of
      <3>3. Trunk!OnServer(t, r.want.server)' BY <1>1, <3>2 DEF Trunk!OnServer
      <3> QED BY <1>1, <1>3, <2>1, <2>2, <2>3, <3>1, <3>3 DEF Trunk!InStep
    <2>4. CASE p \notin TrunkCreates
      <3>1. r.at = "unlink" BY <1>2, <2>4
      <3> QED BY <1>1, <1>3, <2>1, <2>2, <3>1 DEF Trunk!InStep
    <2> QED BY <2>3, <2>4
  <1>7. troubled \subseteq Trunks /\ faults \in 0..MaxFaults /\ row \in [Trunks -> Trunk!Settings \cup {Trunk!NoRow}]
    BY TrunkOps
  <1> QED BY <1>1, <1>2, <1>3, <1>4, <1>5, <1>6, <1>7, TrunkStays

  -----------------------------------------------------------------------------
\* A step that writes or removes files of its trunk.
LEMMA FilesFollow ==
  ASSUME Trunk!IInv, NEW p \in Trunk!Ops, op[p].at \notin {"idle", "over"},
         NEW at \in TrunkPlaces,
         Trunk!Goto(p, at), Trunk!OnlyFiles, files' \subseteq Trunk!Kept,
         \A f : f.trunk # op[p].trunk => (f \in files' <=> f \in files),
         \A f \in files' \ files : f.kind \in {op[p].tech, "dialplan"},
         NEW r \in TrunkKind, TrunkMoves(p, r), r.at = at, r.trunk = op[p].trunk,
         r.want = op[p].want, r.tech = op[p].tech, Trunk!Aims(p, r), ~Finished(r),
         op[p].trunk \notin troubled => Trunk!InStep(p, r)'
  PROVE  Trunk!IInv'
  <1>1. PICK t \in Trunks : t = op[p].trunk BY TrunkKnows
  <1>2. UNCHANGED <<row, tech, loaded, retechs, faults, troubled>> BY DEF Trunk!OnlyFiles
  <1>3. ASSUME NEW u \in Trunks \ {t} PROVE Elsewhere(u)
    <2>1. Trunk!Of(u)' = Trunk!Of(u) BY <1>1 DEF Trunk!Of
    <2>2. Trunk!Heard(u) => Trunk!Heard(u)' BY <1>1, <1>2, <2>1 DEF Trunk!Heard
    <2> QED BY <1>2, <2>1, <2>2 DEF Elsewhere, Trunk!OnServer
  <1>4. Trunk!OneTech'
    <2>1. Trunk!OneTech /\ op[p].tech \in Trunk!Techs BY TrunkKnows DEF Trunk!IInv
    <2>2. Prefixed => \A q \in Trunk!Ops : op'[q].tech = "sip" BY <2>1, TrunkMoved DEF Trunk!OneTech
    <2> QED BY <1>2, <2>1, <2>2 DEF Trunk!OneTech, Trunk!Ops
  <1>5. /\ row' \in [Trunks -> Trunk!Settings \cup {Trunk!NoRow}] /\ loaded' \subseteq Trunk!Kept
        /\ faults' \in 0..MaxFaults /\ troubled' \subseteq Trunks
    BY <1>2, TrunkOps
  <1>6. ~Finished(op[p]) BY DEF Finished
  <1> QED BY <1>1, <1>2, <1>3, <1>4, <1>5, <1>6, TrunkFollows

LEMMA OldFilesAre ==
  ASSUME Trunk!IInv, NEW p \in Trunk!Ops
  PROVE  (IF Prefixed THEN Trunk!OldFilesPrefixed(p) ELSE Trunk!OldFiles(p)) =
             {f \in files : /\ f.server = op[p].want.server /\ f.trunk = op[p].trunk
                            /\ f.assistant = op[p].want.assistant}
  <1>1. \A f \in files : f.kind \in Trunk!Techs \cup {"dialplan"} BY TrunkOps DEF Trunk!Kept
  <1>2. CASE ~Prefixed BY <1>1, <1>2 DEF Trunk!OldFiles, Trunk!Named
  <1>3. CASE Prefixed
    <2>1. op[p].tech = "sip" /\ \A f \in files : f.kind \in {"sip", "dialplan"}
      BY <1>3 DEF Trunk!IInv, Trunk!OneTech
    <2> QED BY <1>3, <2>1 DEF Trunk!OldFilesPrefixed, Trunk!Named
  <1> QED BY <1>2, <1>3

LEMMA UnlinkTrunkStep ==
  ASSUME Trunk!IInv, NEW p \in Trunk!Ops, Trunk!Unlink(p)
  PROVE  Trunk!IInv'
  <1>1. op[p].at = "unlink" /\ UNCHANGED <<row, tech, loaded, retechs, faults, troubled>> /\ Trunk!OnlyFiles
    BY DEF Trunk!Unlink, Trunk!OnlyFiles
  <1> DEFINE at == IF p \in TrunkUpdates THEN "trunk" ELSE "reload"
  <1>2. PICK r \in TrunkKind :
               /\ TrunkMoves(p, r) /\ r.at = at /\ r.trunk = op[p].trunk /\ r.want = op[p].want
               /\ r.tech = op[p].tech
    <2>1. Trunk!Goto(p, at) /\ at \in TrunkPlaces BY DEF Trunk!Unlink, TrunkPlaces
    <2> HIDE DEF at
    <2> QED BY <2>1, TrunkGoes
  <1>3. PICK t \in Trunks : t = r.trunk /\ t = op[p].trunk BY <1>1, <1>2, TrunkKnows
  <1>4. r.want \in Trunk!Settings /\ ~Finished(op[p]) /\ (t \notin troubled => Trunk!InStep(p, op[p])) /\ p \notin TrunkCreates
    BY <1>1, <1>2, <1>3, TrunkKnows, TrunkOps DEF Trunk!Aims
  <1>5. Trunk!Aims(p, r) /\ ~Finished(r)
    <2>1. p \in TrunkUpdates => p \notin Removes BY ComponentConstants DEF Trunk!TrunkConstants
    <2> QED BY <1>2, <1>3, <1>4, <2>1 DEF Trunk!Aims, Finished
  <1>6. files' = files \ {f \in files : /\ f.server = r.want.server /\ f.trunk = t
                                        /\ f.assistant = r.want.assistant}
    BY <1>2, <1>3, OldFilesAre DEF Trunk!Unlink
  <1>7. ASSUME t \notin troubled PROVE Trunk!InStep(p, r)'
    <2>1. /\ Trunk!Heard(t) /\ row[t] = r.want
          /\ \A f \in Trunk!Of(t) : f.server = r.want.server /\ f.assistant = r.want.assistant
      BY <1>1, <1>2, <1>3, <1>4, <1>7 DEF Trunk!InStep
    <2>2. Trunk!Of(t)' = {} BY <1>6, <2>1 DEF Trunk!Of
    <2>3. Trunk!OnServer(t, r.want.server)' BY <1>1, <2>1 DEF Trunk!OnServer, Trunk!Heard, Trunk!Of
    <2>4. CASE p \in TrunkUpdates
      <3>1. r.at = "trunk" BY <1>2, <2>4
      <3> QED BY <1>1, <1>3, <2>1, <2>2, <2>3, <3>1 DEF Trunk!InStep
    <2>5. CASE p \notin TrunkUpdates
      <3>1. r.at = "reload" /\ p \in Removes BY <1>2, <1>4, <2>5 DEF Trunk!Ops
      <3> QED BY <1>1, <1>3, <2>1, <2>2, <2>3, <3>1 DEF Trunk!InStep
    <2> QED BY <2>4, <2>5
  <1>8. files' \subseteq Trunk!Kept /\ \A f : f.trunk # op[p].trunk => (f \in files' <=> f \in files)
    BY <1>3, <1>6, TrunkOps
  <1>9. files' \ files = {} BY <1>6
  <1>10. Trunk!Goto(p, at) /\ at \in TrunkPlaces BY DEF Trunk!Unlink, TrunkPlaces
  <1> HIDE DEF at
  <1> QED BY <1>1, <1>2, <1>3, <1>5, <1>7, <1>8, <1>9, <1>10, FilesFollow

\* A file that a request writes is one that is kept.
LEMMA FileKept ==
  ASSUME Trunk!IInv, NEW p \in Trunk!Ops, op[p].at \notin {"idle", "over"},
         NEW kind \in Trunk!Techs \cup {"dialplan"}
  PROVE  /\ Trunk!File(p, kind, Trunk!Text(p)) = Trunk!FileOf(op[p].trunk, op[p].want, kind)
         /\ Trunk!FileOf(op[p].trunk, op[p].want, kind) \in Trunk!Kept
  <1>1. op[p].trunk \in Trunks /\ op[p].want \in Trunk!Settings BY TrunkKnows
  <1> QED BY <1>1 DEF Trunk!File, Trunk!Text, Trunk!FileOf, Trunk!Kept, Trunk!Settings

LEMMA WriteTrunkStep ==
  ASSUME Trunk!IInv, NEW p \in Trunk!Ops, Trunk!WriteTrunk(p)
  PROVE  Trunk!IInv'
  <1>1. /\ op[p].at = "trunk" /\ UNCHANGED <<row, tech, loaded, retechs, faults, troubled>> /\ Trunk!OnlyFiles
        /\ Trunk!Goto(p, "dialplan") /\ "dialplan" \in TrunkPlaces
    BY DEF Trunk!WriteTrunk, Trunk!OnlyFiles, TrunkPlaces
  <1>2. PICK r \in TrunkKind :
               /\ TrunkMoves(p, r) /\ r.at = "dialplan" /\ r.trunk = op[p].trunk /\ r.want = op[p].want
               /\ r.tech = op[p].tech
    BY <1>1, TrunkGoes
  <1>3. PICK t \in Trunks : t = r.trunk /\ t = op[p].trunk BY <1>1, <1>2, TrunkKnows
  <1>4. /\ r.want \in Trunk!Settings /\ r.tech \in Trunk!Techs /\ (t \notin troubled => Trunk!InStep(p, op[p]))
        /\ p \notin Removes
    BY <1>1, <1>2, <1>3, TrunkKnows, TrunkOps DEF Trunk!Aims
  <1>5. Trunk!Aims(p, r) /\ ~Finished(r) BY <1>2, <1>3, <1>4 DEF Trunk!Aims, Finished
  <1>6. PICK new \in Trunk!Kept : new = Trunk!FileOf(t, r.want, r.tech) /\ new = Trunk!File(p, r.tech, Trunk!Text(p))
    BY <1>1, <1>2, <1>3, <1>4, FileKept
  <1>7. new.trunk = t /\ new.kind = r.tech BY <1>6 DEF Trunk!FileOf
  <1>8. /\ files' \subseteq files \cup {new} /\ new \in files'
        /\ \A f \in files : f.trunk # t => f \in files'
    <2>1. files' = (files \ Trunk!Named(p, {r.tech})) \cup {new} BY <1>2, <1>6 DEF Trunk!WriteTrunk
    <2> QED BY <1>3, <2>1 DEF Trunk!Named
  <1>9. ASSUME t \notin troubled PROVE Trunk!InStep(p, r)'
    <2>1. row[t] = r.want /\ Trunk!OnServer(t, r.want.server) /\ Trunk!Of(t) = {}
      BY <1>1, <1>2, <1>3, <1>4, <1>9 DEF Trunk!InStep
    <2>2. Trunk!Of(t)' = {new} BY <1>7, <1>8, <2>1 DEF Trunk!Of
    <2>3. Trunk!OnServer(t, r.want.server)' BY <1>1, <2>1 DEF Trunk!OnServer
    <2> QED BY <1>1, <1>2, <1>3, <1>6, <2>1, <2>2, <2>3 DEF Trunk!InStep, Trunk!FileOf
  <1>10. /\ files' \subseteq Trunk!Kept /\ \A f : f.trunk # op[p].trunk => (f \in files' <=> f \in files)
         /\ \A f \in files' \ files : f.kind \in {op[p].tech, "dialplan"}
    BY <1>2, <1>3, <1>7, <1>8, TrunkOps
  <1> QED BY <1>1, <1>2, <1>3, <1>5, <1>9, <1>10, FilesFollow

LEMMA WriteDialplanStep ==
  ASSUME Trunk!IInv, NEW p \in Trunk!Ops, Trunk!WriteDialplan(p)
  PROVE  Trunk!IInv'
  <1>1. /\ op[p].at = "dialplan" /\ UNCHANGED <<row, tech, loaded, retechs, faults, troubled>> /\ Trunk!OnlyFiles
        /\ Trunk!Goto(p, "reload") /\ "reload" \in TrunkPlaces
    BY DEF Trunk!WriteDialplan, Trunk!OnlyFiles, TrunkPlaces
  <1>2. PICK r \in TrunkKind :
               /\ TrunkMoves(p, r) /\ r.at = "reload" /\ r.trunk = op[p].trunk /\ r.want = op[p].want
               /\ r.tech = op[p].tech
    BY <1>1, TrunkGoes
  <1>3. PICK t \in Trunks : t = r.trunk /\ t = op[p].trunk BY <1>1, <1>2, TrunkKnows
  <1>4. /\ r.want \in Trunk!Settings /\ r.tech \in Trunk!Techs /\ (t \notin troubled => Trunk!InStep(p, op[p]))
        /\ p \notin Removes
    BY <1>1, <1>2, <1>3, TrunkKnows, TrunkOps DEF Trunk!Aims
  <1>5. Trunk!Aims(p, r) /\ ~Finished(r) BY <1>2, <1>3, <1>4 DEF Trunk!Aims, Finished
  <1>6. PICK new \in Trunk!Kept : new = Trunk!FileOf(t, r.want, "dialplan") /\ new = Trunk!File(p, "dialplan", Trunk!Text(p))
    BY <1>1, <1>2, <1>3, FileKept
  <1>7. new.trunk = t /\ new.kind = "dialplan" BY <1>6 DEF Trunk!FileOf
  <1>8. files' = (files \ Trunk!Named(p, {"dialplan"})) \cup {new} BY <1>6 DEF Trunk!WriteDialplan
  <1>9. /\ files' \subseteq files \cup {new} /\ new \in files'
        /\ \A f \in files : f.trunk # t => f \in files'
    BY <1>3, <1>8 DEF Trunk!Named
  <1>10. ASSUME t \notin troubled PROVE Trunk!InStep(p, r)'
    <2>1. row[t] = r.want /\ Trunk!OnServer(t, r.want.server) /\ Trunk!Of(t) = {Trunk!FileOf(t, r.want, r.tech)}
      BY <1>1, <1>2, <1>3, <1>4, <1>10 DEF Trunk!InStep
    <2>2. PICK old : old = Trunk!FileOf(t, r.want, r.tech) OBVIOUS
    <2>3. old.trunk = t /\ old.kind # "dialplan" BY <1>4, <2>2 DEF Trunk!FileOf, Trunk!Techs
    <2>4. old \in files' BY <1>8, <2>1, <2>2, <2>3 DEF Trunk!Named, Trunk!Of
    <2>5. Trunk!Of(t)' = {old, new} BY <1>7, <1>9, <2>1, <2>2, <2>3, <2>4 DEF Trunk!Of
    <2>6. Trunk!Of(t)' = {Trunk!FileOf(t, r.want, kind) : kind \in {r.tech, "dialplan"}} BY <1>6, <2>2, <2>5
    <2>7. Trunk!OnServer(t, r.want.server)' BY <1>1, <2>1 DEF Trunk!OnServer
    <2> QED BY <1>1, <1>2, <1>3, <1>4, <2>1, <2>6, <2>7 DEF Trunk!InStep, Trunk!FileOf
  <1>11. /\ files' \subseteq Trunk!Kept /\ \A f : f.trunk # op[p].trunk => (f \in files' <=> f \in files)
         /\ \A f \in files' \ files : f.kind \in {op[p].tech, "dialplan"}
    BY <1>2, <1>3, <1>7, <1>9, TrunkOps
  <1> QED BY <1>1, <1>2, <1>3, <1>5, <1>10, <1>11, FilesFollow

LEMMA ReloadStep ==
  ASSUME Trunk!IInv, NEW p \in Trunk!Ops, Trunk!Reload(p)
  PROVE  Trunk!IInv'
  <1>1. op[p].at = "reload" /\ Trunk!Goto(p, "answer") /\ UNCHANGED <<row, tech, files, retechs>>
    BY DEF Trunk!Reload
  <1>2. CASE faults < MaxFaults /\ faults' = faults + 1 /\ Trunk!Trouble(p) /\ UNCHANGED loaded
    <2>1. faults' \in 0..MaxFaults BY <1>2, TrunkOps
    <2> QED BY <1>1, <1>2, <2>1, TrunkTroubles
  <1>3. CASE loaded' = Trunk!Read(op[p].want.server, {op[p].tech, "dialplan"}) /\ UNCHANGED <<faults, troubled>>
    <2>1. PICK r \in TrunkKind :
               /\ TrunkMoves(p, r) /\ r.at = "answer" /\ r.trunk = op[p].trunk /\ r.want = op[p].want
               /\ r.tech = op[p].tech
      BY <1>1, TrunkGoes DEF TrunkPlaces
    <2>2. PICK t \in Trunks : t = r.trunk /\ t = op[p].trunk BY <1>1, <2>1, TrunkKnows
    <2>3. PICK server \in TrunkServers : server = r.want.server BY <1>1, <2>1, TrunkKnows
    <2>4. /\ r.want \in Trunk!Settings /\ r.tech \in Trunk!Techs /\ (t \notin troubled => Trunk!InStep(p, op[p]))
          /\ ~Finished(op[p])
      BY <1>1, <2>1, <2>2, TrunkKnows
    <2>5. loaded' = {f \in loaded : f.server # server \/ f.kind \notin {r.tech, "dialplan"}}
                        \cup {f \in files : f.server = server /\ f.kind \in {r.tech, "dialplan"}}
      BY <1>3, <2>1, <2>3 DEF Trunk!Read
    <2>6. ASSUME NEW u \in Trunks PROVE Elsewhere(u)
      <3>1. Trunk!Of(u)' = Trunk!Of(u) BY <1>1 DEF Trunk!Of
      <3>2. Trunk!Heard(u) => Trunk!Heard(u)' BY <1>1, <2>5 DEF Trunk!Heard, Trunk!Of
      <3>3. ASSUME NEW s \in TrunkServers, Trunk!OnServer(u, s),
                   \A f \in Trunk!Of(u) : f.server = s
            PROVE  Trunk!OnServer(u, s)'
        BY <2>5, <3>3 DEF Trunk!OnServer, Trunk!Of
      <3> QED BY <1>1, <3>1, <3>2, <3>3 DEF Elsewhere
    <2>7. Trunk!Aims(p, r) /\ ~Finished(r) BY <2>1, <2>2, <2>4 DEF Trunk!Aims, Finished
    <2>8. ASSUME t \notin troubled PROVE Trunk!InStep(p, r)'
      <3>1. /\ row[t] = r.want /\ Trunk!OnServer(t, server)
            /\ IF p \in Removes THEN Trunk!Of(t) = {}
               ELSE Trunk!Of(t) = {Trunk!FileOf(t, r.want, kind) : kind \in {r.tech, "dialplan"}}
        BY <1>1, <2>1, <2>2, <2>3, <2>4, <2>8 DEF Trunk!InStep
      <3>2. Trunk!Of(t)' = Trunk!Of(t) BY <1>1 DEF Trunk!Of
      <3>3. \A f \in Trunk!Of(t) : f.server = server /\ f.kind \in {r.tech, "dialplan"}
        BY <2>3, <3>1 DEF Trunk!FileOf
      <3>4. Trunk!Of(t) \subseteq loaded' BY <2>5, <3>3 DEF Trunk!Of
      <3>5. \A f \in loaded' : f.trunk = t /\ f.kind = "dialplan" => f \in files BY <2>5, <3>1 DEF Trunk!OnServer
      <3>6. Trunk!Heard(t)' BY <1>1, <3>2, <3>4, <3>5 DEF Trunk!Heard
      <3>7. row'[t] = r.want BY <1>1, <3>1
      <3>8. IF p \in Removes THEN Trunk!Of(t)' = {}
            ELSE Trunk!Of(t)' = {Trunk!FileOf(t, r.want, kind) : kind \in {r.tech, "dialplan"}}
        BY <3>1, <3>2
      <3> QED BY <2>1, <2>2, <3>6, <3>7, <3>8 DEF Trunk!InStep, Trunk!FileOf
    <2>9. Trunk!OneTech'
      <3>1. Trunk!OneTech BY DEF Trunk!IInv
      <3>2. Prefixed => \A q \in Trunk!Ops : op'[q].tech = "sip" BY <2>1, <3>1, TrunkMoved DEF Trunk!OneTech
      <3> QED BY <1>1, <3>1, <3>2 DEF Trunk!OneTech, Trunk!Ops
    <2>10. /\ row' \in [Trunks -> Trunk!Settings \cup {Trunk!NoRow}] /\ files' \subseteq Trunk!Kept /\ loaded' \subseteq Trunk!Kept
           /\ faults' \in 0..MaxFaults /\ troubled' \subseteq Trunks
      BY <1>1, <1>3, <2>5, TrunkOps
    <2> QED BY <1>1, <1>3, <2>1, <2>2, <2>4, <2>6, <2>7, <2>8, <2>9, <2>10, TrunkFollows
  <1> QED BY <1>2, <1>3 DEF Trunk!Reload

LEMMA AnswerTrunkStep ==
  ASSUME Trunk!IInv, NEW p \in Trunk!Ops, Trunk!Answer(p)
  PROVE  Trunk!IInv'
  <1>1. op[p].at = "answer" /\ Trunk!Goto(p, "over") /\ UNCHANGED <<tech, files, loaded, retechs>>
    BY DEF Trunk!Answer
  <1>2. CASE faults < MaxFaults /\ faults' = faults + 1 /\ Trunk!Trouble(p) /\ UNCHANGED row
    <2>1. faults' \in 0..MaxFaults BY <1>2, TrunkOps
    <2> QED BY <1>1, <1>2, <2>1, TrunkTroubles
  <1>3. CASE /\ row' = IF p \in Removes THEN [row EXCEPT ![op[p].trunk] = Trunk!NoRow] ELSE row
             /\ UNCHANGED <<faults, troubled>>
    <2>1. PICK r \in TrunkKind :
               /\ TrunkMoves(p, r) /\ r.at = "over" /\ r.trunk = op[p].trunk /\ r.want = op[p].want
               /\ r.tech = op[p].tech
      BY <1>1, TrunkGoes DEF TrunkPlaces
    <2>2. PICK t \in Trunks : t = r.trunk /\ t = op[p].trunk BY <1>1, <2>1, TrunkKnows
    <2>3. /\ r.want \in Trunk!Settings /\ r.tech \in Trunk!Techs /\ (t \notin troubled => Trunk!InStep(p, op[p]))
          /\ ~Finished(op[p])
      BY <1>1, <2>1, <2>2, TrunkKnows
    <2>4. /\ row' \in [Trunks -> Trunk!Settings \cup {Trunk!NoRow}] /\ \A u \in Trunks \ {t} : row'[u] = row[u]
          /\ row'[t] = IF p \in Removes THEN Trunk!NoRow ELSE row[t]
      BY <1>3, <2>2, TrunkOps
    <2>5. Trunk!Aims(p, r) /\ Finished(r) BY <2>1 DEF Trunk!Aims, Finished
    <2>6. ASSUME t \notin troubled PROVE Trunk!Right(t)' /\ Trunk!Heard(t)'
      <3>1. /\ row[t] = r.want /\ Trunk!Heard(t)
            /\ IF p \in Removes THEN Trunk!Of(t) = {}
               ELSE Trunk!Of(t) = {Trunk!FileOf(t, r.want, kind) : kind \in {r.tech, "dialplan"}}
        BY <1>1, <2>1, <2>2, <2>3, <2>6 DEF Trunk!InStep
      <3>2. Trunk!Of(t)' = Trunk!Of(t) /\ Trunk!Heard(t)' BY <1>1, <3>1 DEF Trunk!Of, Trunk!Heard
      <3>3. CASE p \in Removes BY <2>4, <3>1, <3>2, <3>3 DEF Trunk!Right
      <3>4. CASE p \notin Removes
        <4>1. row'[t] = r.want /\ r.want # Trunk!NoRow BY <2>3, <2>4, <3>1, <3>4, TrunkOps
        <4>2. Trunk!Of(t)' = {Trunk!FileOf(t, row'[t], kind) : kind \in {r.tech, "dialplan"}}
          BY <3>1, <3>2, <3>4, <4>1
        <4> QED BY <2>3, <3>2, <4>1, <4>2 DEF Trunk!Right, Trunk!FileOf
      <3> QED BY <3>3, <3>4
    <2>7. troubled' \subseteq Trunks /\ faults' \in 0..MaxFaults BY <1>3, TrunkOps
    <2> QED BY <1>1, <1>3, <2>1, <2>2, <2>3, <2>4, <2>5, <2>6, <2>7, TrunkStays
  <1> QED BY <1>2, <1>3 DEF Trunk!Answer

LEMMA TrunkStill ==
  ASSUME Trunk!IInv, UNCHANGED <<row, files, loaded, op, troubled>>, faults' \in 0..MaxFaults,
         tech' \in [TrunkServers -> Trunk!Techs], retechs' \in 0..MaxRetechs, Prefixed => tech' = tech
  PROVE  Trunk!IInv'
  <1>1. Trunk!TypeOK'
    BY DEF Trunk!IInv, Trunk!TypeOK, Trunk!Settings, Trunk!NoRow, Trunk!Ops,
         Trunk!Kept
  <1>2. \A p \in Trunk!Ops : Trunk!Aims(p, op[p])' BY DEF Trunk!IInv, Trunk!Aims
  <1>3. Trunk!OneTech' BY DEF Trunk!IInv, Trunk!OneTech, Trunk!Ops
  <1>4. ASSUME NEW t \in Trunks PROVE Trunk!Untroubled(t)'
    <2>1. /\ Trunk!Right(t)' <=> Trunk!Right(t)
          /\ Trunk!Heard(t)' <=> Trunk!Heard(t)
          /\ Trunk!Busy(t)' <=> Trunk!Busy(t)
          /\ \A p \in Trunk!Ops : Trunk!Live(p)' <=> Trunk!Live(p)
      BY DEF Trunk!Right, Trunk!Heard, Trunk!Of, Trunk!FileOf, Trunk!Busy,
           Trunk!Live, Trunk!Ops
    <2>2. \A p \in Trunk!Ops : Trunk!InStep(p, op[p])' <=> Trunk!InStep(p, op[p])
      BY DEF Trunk!InStep, Trunk!Right, Trunk!Heard, Trunk!OnServer, Trunk!Of,
           Trunk!FileOf
    <2> QED BY <2>1, <2>2 DEF Trunk!IInv, Trunk!Untroubled, Trunk!Ops
  <1> QED BY <1>1, <1>2, <1>3, <1>4 DEF Trunk!IInv, Trunk!Ops

LEMMA TrunksInit ==
  ASSUME Trunk!Init
  PROVE  Trunk!IInv
  <1> DEFINE first == [at |-> "idle", trunk |-> NoOne, want |-> Trunk!NoRow, tech |-> "sip", full |-> TRUE]
  <1>1. /\ row = [t \in Trunks |-> Trunk!NoRow] /\ tech = [s \in TrunkServers |-> "sip"]
        /\ files = {} /\ loaded = {} /\ retechs = 0 /\ faults = 0 /\ troubled = {}
        /\ op = [p \in Trunk!Ops |-> first]
    BY DEF Trunk!Init
  <1>2. first \in TrunkKind /\ first.at = "idle" /\ first.tech = "sip" BY DEF TrunkKind, TrunkPlaces, Trunk!Techs
  <1> HIDE DEF first
  <1>3. 0 \in 0..MaxFaults /\ 0 \in 0..MaxRetechs BY ComponentConstants DEF Trunk!TrunkConstants
  <1>4. Trunk!TypeOK BY <1>1, <1>2, <1>3 DEF Trunk!TypeOK, TrunkKind, TrunkPlaces, Trunk!Techs
  <1>5. \A p \in Trunk!Ops : op[p].at = "idle" BY <1>1, <1>2
  <1>6. \A p \in Trunk!Ops : Trunk!Aims(p, op[p]) /\ ~Trunk!Live(p) BY <1>5 DEF Trunk!Aims, Trunk!Live
  <1>7. Trunk!OneTech BY <1>1, <1>2 DEF Trunk!OneTech
  <1>8. \A t \in Trunks : Trunk!Right(t) /\ Trunk!Heard(t) BY <1>1 DEF Trunk!Right, Trunk!Heard, Trunk!Of
  <1> QED BY <1>4, <1>6, <1>7, <1>8 DEF Trunk!IInv, Trunk!Untroubled

LEMMA TrunksStep ==
  ASSUME Trunk!IInv, Trunk!Next
  PROVE  Trunk!IInv'
  <1>1. ASSUME NEW p \in Trunk!Ops, Trunk!PostFails(p) \/ Trunk!DialplanFails(p)
        PROVE  Trunk!IInv'
    <2>1. faults' \in 0..MaxFaults BY <1>1, TrunkOps DEF Trunk!PostFails, Trunk!DialplanFails
    <2> QED BY <1>1, <2>1, TrunkTroubles DEF Trunk!PostFails, Trunk!DialplanFails
  <1>2. ASSUME NEW s \in TrunkServers, Trunk!Retech(s) PROVE Trunk!IInv'
    <2>1. tech' \in [TrunkServers -> Trunk!Techs] /\ faults' \in 0..MaxFaults
      BY <1>2 DEF Trunk!Retech, Trunk!IInv, Trunk!TypeOK, Trunk!Techs
    <2>2. retechs' \in 0..MaxRetechs /\ ~Prefixed
      BY <1>2, ComponentConstants DEF Trunk!Retech, Trunk!IInv, Trunk!TypeOK,
           Trunk!TrunkConstants
    <2> QED BY <1>2, <2>1, <2>2, TrunkStill DEF Trunk!Retech
  <1> QED
    BY <1>1, <1>2, BeginTrunkStep, WriteRowStep, PostStep, UnlinkTrunkStep, WriteTrunkStep,
       WriteDialplanStep, ReloadStep, AnswerTrunkStep DEF Trunk!Next

LEMMA TrunksStay ==
  ASSUME Trunk!IInv, UNCHANGED Trunk!vars
  PROVE  Trunk!IInv'
  BY TrunkStill DEF Trunk!vars, Trunk!IInv, Trunk!TypeOK

LEMMA TrunksAre ==
  ASSUME Trunk!IInv
  PROVE  Trunk!TypeOK /\ Trunk!FilesAsConfigured /\ Trunk!LoadedAsWritten
  <1>1. \A t \in Trunks : Trunk!Quiet(t) => Trunk!Right(t) /\ Trunk!Heard(t)
    BY DEF Trunk!IInv, Trunk!Untroubled, Trunk!Quiet
  <1>2. Trunk!FilesAsConfigured BY <1>1 DEF Trunk!FilesAsConfigured, Trunk!Right, Trunk!FileOf
  <1>3. Trunk!LoadedAsWritten BY <1>1 DEF Trunk!LoadedAsWritten, Trunk!Heard
  <1> QED BY <1>2, <1>3 DEF Trunk!IInv

LEMMA TrunkingAlways == Spec => [](which = "Trunk" => Trunk!IInv)
  <1> DEFINE I == which = "Trunk" => Trunk!IInv
  <1>1. Init => I BY TrunksInit, ComponentConstants DEF Init
  <1>2. I /\ [Next]_vars => I'
    <2>1. ASSUME Trunk!IInv, [Trunk!Next]_Trunk!vars PROVE Trunk!IInv'
      BY <2>1, TrunksStep, TrunksStay, ComponentConstants
    <2>2. ASSUME [Next]_vars, which' = "Trunk"
          PROVE  which = "Trunk" /\ [Trunk!Next]_Trunk!vars
      BY <2>2 DEF Next, vars, Trunk!vars
    <2> QED BY <2>1, <2>2
  <1> QED BY <1>1, <1>2, PTL DEF Spec

------------------------
\* The URIs: the file of a server is the one of the row, or of the request at work
\* (Uri!IInv).

\* FiniteSets is the same there as here.
LEMMA UrisCounts ==
  \A S : Uri!Cardinality(S) = Cardinality(S) /\ (Uri!IsFiniteSet(S) <=> IsFiniteSet(S))
  BY DEF Cardinality, Uri!Cardinality, IsFiniteSet, Uri!IsFiniteSet



UriPlaces == {"idle", "insert", "save", "post", "unlink", "reload", "answer", "over"}
UriKind == [at : UriPlaces, row : Uri!Rows \cup {Uri!NoRow}, new : Uri!Rows \cup {Uri!NoRow}]
UriMoves(p, r) == op' = [op EXCEPT ![p] = r]
Still(o) == o.at \in {"idle", "over"}

LEMMA UriOps ==
  ASSUME Uri!IInv
  PROVE  /\ op \in [Uri!Ops -> UriKind] /\ \A p \in Uri!Ops : op[p] \in UriKind /\ Uri!Aims(p, op[p])
         /\ faults \in 0..MaxFaults /\ MaxFaults \in Nat
  BY ComponentConstants DEF Uri!IInv, Uri!TypeOK, UriKind, UriPlaces, Uri!UriConstants

LEMMA UriMoved ==
  ASSUME Uri!IInv, NEW p \in Uri!Ops, NEW r \in UriKind, UriMoves(p, r)
  PROVE  /\ op' \in [Uri!Ops -> UriKind] /\ op'[p] = r
         /\ \A q \in Uri!Ops \ {p} : op'[q] = op[q]
  BY UriOps DEF UriMoves

LEMMA UriFollows ==
  ASSUME Uri!IInv, NEW p \in Uri!Ops, NEW r \in UriKind, UriMoves(p, r), Uri!Aims(p, r),
         rows' \subseteq Uri!Rows, file' \in [Servers -> Uri!Texts], loaded' \in [Servers -> Uri!Texts],
         UNCHANGED tech, faults' \in 0..MaxFaults, moved' \subseteq Servers,
         troubled' \in BOOLEAN, troubled => troubled',
         ~troubled' => ~Still(op[p]) \/ \A q \in Uri!Ops : ~Uri!Live(q),
         ~troubled' => Uri!OneRow',
         ~troubled' /\ ~Still(r) => Uri!InStep(p, r)',
         ~troubled' /\ Still(r) => \A s \in Servers \ moved' : Uri!Settled(s)'
  PROVE  Uri!IInv'
  <1>1. Uri!TypeOK'
    BY UriMoved DEF Uri!IInv, Uri!TypeOK, UriKind, UriPlaces, Uri!Rows, Uri!NoRow,
         Uri!Texts, Uri!Ops
  <1>2. \A q \in Uri!Ops : Uri!Aims(q, op'[q]) BY UriMoved DEF Uri!IInv
  <1>3. ASSUME ~troubled' PROVE \A q \in Uri!Ops \ {p} : Still(op'[q])
    <2>1. ~troubled BY <1>3
    <2>2. \A q \in Uri!Ops \ {p} : ~Uri!Live(q)
      BY <1>3, <2>1 DEF Uri!IInv, Uri!Untroubled, Uri!Alone, Uri!Live, Still
    <2> QED BY <2>2, UriMoved DEF Uri!Live, Still
  <1>4. \A q \in Uri!Ops : Uri!Live(q)' <=> ~Still(op'[q]) BY DEF Uri!Live, Still
  <1>5. Uri!Untroubled'
    <2> SUFFICES ASSUME ~troubled'
                 PROVE  /\ Uri!Alone' /\ Uri!OneRow'
                        /\ \A q \in Uri!Ops : Uri!Live(q)' => Uri!InStep(q, op[q])'
                        /\ (\A q \in Uri!Ops : ~Uri!Live(q)') => \A s \in Servers \ moved' : Uri!Settled(s)'
      BY DEF Uri!Untroubled, Uri!Ops
    <2>1. Uri!Alone' /\ Uri!OneRow' BY <1>3, <1>4 DEF Uri!Alone, Uri!Ops
    <2>2. ASSUME NEW q \in Uri!Ops, Uri!Live(q)' PROVE Uri!InStep(q, op[q])'
      <3>1. q = p /\ op'[q] = r /\ ~Still(r) BY <1>3, <1>4, <2>2, UriMoved
      <3>2. Uri!InStep(p, r)' BY <3>1
      <3> QED BY <3>1, <3>2 DEF Uri!InStep, Uri!Settled, Uri!Lets, Uri!Told, Uri!Target
    <2>3. ASSUME \A q \in Uri!Ops : ~Uri!Live(q)'
          PROVE  \A s \in Servers \ moved' : Uri!Settled(s)'
      BY <1>4, <2>3, UriMoved
    <2> QED BY <2>1, <2>2, <2>3
  <1>6. \A q \in Uri!Ops : Uri!Aims(q, op[q])' BY <1>2 DEF Uri!Aims
  <1> QED BY <1>1, <1>5, <1>6 DEF Uri!IInv, Uri!Ops

LEMMA UriBegins ==
  ASSUME Uri!IInv, NEW p \in Uri!Ops, NEW at \in {"insert", "save", "unlink"},
         NEW was \in Uri!Rows \cup {Uri!NoRow}, NEW new \in Uri!Rows, Uri!Begin(p, at, was, new),
         at \in {"save", "unlink"} => was \in rows, at = "insert" => rows = {},
         at = "unlink" => p \in UriDeletes /\ new = was, at # "unlink" => p \notin UriDeletes
  PROVE  Uri!IInv'
  <1> DEFINE r == [at |-> at, row |-> was, new |-> new]
  <1>1. r \in UriKind /\ r.at = at /\ r.row = was /\ r.new = new BY DEF UriKind, UriPlaces
  <1>2. UriMoves(p, r) BY DEF Uri!Begin, UriMoves
  <1> HIDE DEF r
  <1>3. rows \subseteq Uri!Rows BY DEF Uri!IInv, Uri!TypeOK
  <1>4. Uri!Aims(p, r) BY <1>1, <1>3 DEF Uri!Aims
  <1>5. /\ UNCHANGED <<tech, rows, file, loaded, faults, moved>> /\ troubled' \in BOOLEAN
        /\ (troubled' <=> troubled \/ \E q \in Uri!Ops : Uri!Live(q))
    BY DEF Uri!Begin, Uri!IInv, Uri!TypeOK
  <1>6. ASSUME ~troubled' PROVE Uri!InStep(p, r)' /\ Uri!OneRow'
    <2>1. Uri!OneRow /\ \A s \in Servers \ moved : Uri!Settled(s) BY <1>5, <1>6 DEF Uri!IInv, Uri!Untroubled
    <2> QED
      BY <1>1, <1>5, <2>1 DEF Uri!InStep, Uri!OneRow, Uri!Target, Uri!Settled, Uri!Lets,
           Uri!Told
  <1>7. ~Still(r) BY <1>1 DEF Still
  <1> QED BY <1>1, <1>2, <1>4, <1>5, <1>6, <1>7, UriFollows DEF Uri!IInv, Uri!TypeOK

LEMMA BeginUriStep ==
  ASSUME Uri!IInv,
         \/ \E p \in UriCreates, s \in Servers, active \in BOOLEAN : Uri!BeginCreate(p, s, active)
         \/ \E p \in UriUpdates, s \in Servers, active \in BOOLEAN : Uri!BeginUpdate(p, s, active)
         \/ \E p \in UriDeletes : Uri!BeginDelete(p)
  PROVE  Uri!IInv'
  <1>1. rows \subseteq Uri!Rows BY DEF Uri!IInv, Uri!TypeOK
  <1>2. ASSUME NEW p \in UriCreates \cup UriUpdates, NEW s \in Servers, NEW active \in BOOLEAN
        PROVE  [by |-> p, server |-> s, active |-> active] \in Uri!Rows /\ p \in Uri!Ops /\ p \notin UriDeletes
    BY ComponentConstants DEF Uri!Rows, Uri!Ops, Uri!UriConstants
  <1>3. ASSUME NEW p \in UriCreates, NEW s \in Servers, NEW active \in BOOLEAN,
               Uri!BeginCreate(p, s, active)
        PROVE  Uri!IInv'
    BY <1>2, <1>3, UriBegins DEF Uri!BeginCreate
  <1>4. ASSUME NEW p \in UriUpdates, NEW s \in Servers, NEW active \in BOOLEAN,
               Uri!BeginUpdate(p, s, active)
        PROVE  Uri!IInv'
    BY <1>1, <1>2, <1>4, UriBegins DEF Uri!BeginUpdate
  <1>5. ASSUME NEW p \in UriDeletes, Uri!BeginDelete(p)
        PROVE  Uri!IInv'
    BY <1>1, <1>5, UriBegins DEF Uri!BeginDelete, Uri!Ops
  <1> QED BY <1>3, <1>4, <1>5

LEMMA UriGoes ==
  ASSUME Uri!IInv, NEW p \in Uri!Ops, NEW at \in UriPlaces, Uri!Goto(p, at)
  PROVE  \E r \in UriKind :
             UriMoves(p, r) /\ r.at = at /\ r.row = op[p].row /\ r.new = op[p].new
  <1> DEFINE r == [op[p] EXCEPT !.at = at]
  <1>1. op \in [Uri!Ops -> UriKind] BY UriOps
  <1>2. r \in UriKind /\ r.at = at /\ r.row = op[p].row /\ r.new = op[p].new BY <1>1 DEF UriKind
  <1>3. UriMoves(p, r) BY <1>1 DEF Uri!Goto, UriMoves
  <1> QED BY <1>2, <1>3

\* What a request under way knows of itself and of the rest.
LEMMA UriKnows ==
  ASSUME Uri!IInv, NEW p \in Uri!Ops, op[p].at \notin {"idle", "over"}
  PROVE  /\ op[p].new \in Uri!Rows /\ op[p].new.server \in Servers /\ op[p].new.by \in Uri!Ops
         /\ op[p].new.by # NoFile /\ op[p].new.active \in BOOLEAN
         /\ rows \subseteq Uri!Rows /\ moved \subseteq Servers
         /\ file \in [Servers -> Uri!Texts] /\ loaded \in [Servers -> Uri!Texts]
         /\ ~Still(op[p]) /\ (~troubled => Uri!OneRow /\ Uri!InStep(p, op[p]))
  <1>1. op[p].new \in Uri!Rows BY UriOps DEF Uri!Aims
  <1>2. NoFile \notin Uri!Ops BY ComponentConstants DEF Uri!UriConstants, Uri!Ops
  <1> QED BY <1>1, <1>2 DEF Uri!Rows, Uri!IInv, Uri!TypeOK, Uri!Untroubled, Uri!Live, Still

LEMMA UriTroubles ==
  ASSUME Uri!IInv, NEW p \in Uri!Ops, op[p].at \notin {"idle", "over"},
         NEW at \in {"answer", "over"},
         Uri!Goto(p, at), faults < MaxFaults, faults' = faults + 1, troubled' = TRUE,
         UNCHANGED <<tech, rows, file, loaded, moved>>
  PROVE  Uri!IInv'
  <1>1. PICK r \in UriKind :
               UriMoves(p, r) /\ r.at = at /\ r.row = op[p].row /\ r.new = op[p].new
    BY UriGoes DEF UriPlaces
  <1>2. Uri!Aims(p, r) BY <1>1, UriKnows DEF Uri!Aims
  <1>3. faults' \in 0..MaxFaults BY UriOps
  <1> QED BY <1>1, <1>2, <1>3, UriKnows, UriFollows

LEMMA InsertUriStep ==
  ASSUME Uri!IInv, NEW p \in Uri!Ops, Uri!Insert(p)
  PROVE  Uri!IInv'
  <1>1. op[p].at = "insert" /\ Uri!Goto(p, "post") BY DEF Uri!Insert
  <1>2. PICK r \in UriKind :
               UriMoves(p, r) /\ r.at = "post" /\ r.row = op[p].row /\ r.new = op[p].new
    BY <1>1, UriGoes DEF UriPlaces
  <1>3. /\ r.new \in Uri!Rows /\ r.new.server \in Servers /\ p \notin UriDeletes
        /\ rows \subseteq Uri!Rows /\ ~Still(op[p]) /\ (~troubled => Uri!OneRow /\ Uri!InStep(p, op[p]))
    BY <1>1, <1>2, UriKnows, UriOps DEF Uri!Aims
  <1>4. /\ rows' = rows \cup {r.new} /\ UNCHANGED <<tech, file, loaded, faults, moved, troubled>>
    BY <1>2 DEF Uri!Insert
  <1>5. Uri!Aims(p, r) BY <1>2, <1>3 DEF Uri!Aims
  <1>6. ASSUME ~troubled PROVE Uri!OneRow' /\ Uri!InStep(p, r)'
    <2>1. rows = {} /\ \A s \in Servers \ moved : Uri!Settled(s) BY <1>1, <1>3, <1>6 DEF Uri!InStep, Uri!Target
    <2>2. rows' = {r.new} BY <1>4, <2>1
    <2>3. Uri!OneRow' BY <2>2 DEF Uri!OneRow
    <2>4. ASSUME NEW s \in Servers \ (moved \cup {r.new.server}) PROVE Uri!Settled(s)'
      <3>1. Uri!Told(rows, s) = {} BY <2>1 DEF Uri!Told
      <3>2. Uri!Told({r.new}, s) = {} BY <2>4 DEF Uri!Told
      <3>3. loaded[s] = file[s] /\ Uri!Lets(s) = {} BY <2>1, <2>4, <3>1 DEF Uri!Settled
      <3> QED BY <1>4, <2>2, <3>2, <3>3 DEF Uri!Settled, Uri!Lets, Uri!Told
    <2> QED BY <1>2, <1>3, <1>4, <2>2, <2>3, <2>4 DEF Uri!InStep, Uri!Target
  <1>7. ~Still(r) BY <1>2 DEF Still
  <1> QED BY <1>2, <1>3, <1>4, <1>5, <1>6, <1>7, UriFollows DEF Uri!IInv, Uri!TypeOK

LEMMA SaveUriStep ==
  ASSUME Uri!IInv, NEW p \in Uri!Ops, Uri!Save(p)
  PROVE  Uri!IInv'
  <1>1. op[p].at = "save" /\ Uri!Goto(p, "post") BY DEF Uri!Save
  <1>2. PICK r \in UriKind :
               UriMoves(p, r) /\ r.at = "post" /\ r.row = op[p].row /\ r.new = op[p].new
    BY <1>1, UriGoes DEF UriPlaces
  <1>3. /\ r.new \in Uri!Rows /\ r.new.server \in Servers /\ p \notin UriDeletes /\ r.row \in Uri!Rows
        /\ r.row.server \in Servers /\ moved \subseteq Servers
        /\ rows \subseteq Uri!Rows /\ ~Still(op[p]) /\ (~troubled => Uri!OneRow /\ Uri!InStep(p, op[p]))
    BY <1>1, <1>2, UriKnows, UriOps DEF Uri!Aims, Uri!Rows
  <1>4. /\ rows' = IF r.row \in rows THEN (rows \ {r.row}) \cup {r.new} ELSE rows
        /\ moved' = (moved \cup {r.row.server}) \ {r.new.server}
        /\ UNCHANGED <<tech, file, loaded, faults, troubled>>
    BY <1>2 DEF Uri!Save
  <1>5. Uri!Aims(p, r) BY <1>2, <1>3 DEF Uri!Aims
  <1>6. ASSUME ~troubled PROVE Uri!OneRow' /\ Uri!InStep(p, r)'
    <2>1. rows = {r.row} /\ \A s \in Servers \ moved : Uri!Settled(s)
      BY <1>1, <1>2, <1>3, <1>6 DEF Uri!InStep, Uri!Target, Uri!OneRow
    <2>2. rows' = {r.new} BY <1>4, <2>1
    <2>3. Uri!OneRow' BY <2>2 DEF Uri!OneRow
    <2>4. ASSUME NEW s \in Servers \ (moved' \cup {r.new.server}) PROVE Uri!Settled(s)'
      <3>0. s \notin moved /\ s # r.row.server BY <1>4, <2>4
      <3>1. Uri!Told(rows, s) = {} BY <2>1, <3>0 DEF Uri!Told
      <3>2. Uri!Told({r.new}, s) = {} BY <2>4 DEF Uri!Told
      <3>3. loaded[s] = file[s] /\ Uri!Lets(s) = {} BY <2>1, <2>4, <3>0, <3>1 DEF Uri!Settled
      <3> QED BY <1>4, <2>2, <3>2, <3>3 DEF Uri!Settled, Uri!Lets, Uri!Told
    <2> QED BY <1>2, <1>3, <1>4, <2>2, <2>3, <2>4 DEF Uri!InStep, Uri!Target
  <1>7. ~Still(r) /\ rows' \subseteq Uri!Rows /\ moved' \subseteq Servers BY <1>2, <1>3, <1>4 DEF Still
  <1> QED BY <1>2, <1>3, <1>4, <1>5, <1>6, <1>7, UriFollows DEF Uri!IInv, Uri!TypeOK

LEMMA WriteUriStep ==
  ASSUME Uri!IInv, NEW p \in Uri!Ops, Uri!Write(p)
  PROVE  Uri!IInv'
  <1>1. op[p].at = "post" /\ Uri!Goto(p, "reload") BY DEF Uri!Write
  <1>2. PICK r \in UriKind :
               UriMoves(p, r) /\ r.at = "reload" /\ r.row = op[p].row /\ r.new = op[p].new
    BY <1>1, UriGoes DEF UriPlaces
  <1>3. /\ r.new \in Uri!Rows /\ r.new.server \in Servers /\ r.new.by \in Uri!Ops /\ r.new.by # NoFile
        /\ r.new.active \in BOOLEAN
        /\ rows \subseteq Uri!Rows /\ ~Still(op[p]) /\ (~troubled => Uri!OneRow /\ Uri!InStep(p, op[p]))
    BY <1>1, <1>2, UriKnows
  <1>4. PICK text \in Uri!Texts :
            /\ file' = [file EXCEPT ![r.new.server] = text] /\ text # NoFile
            /\ text.by = IF r.new.active THEN r.new.by ELSE NoFile
    <2> DEFINE text == IF r.new.active THEN [by |-> r.new.by, header |-> Uri!Header(p)]
                       ELSE [by |-> NoFile, header |-> NoFile]
    <2>1. Uri!Header(p) \in Uri!Techs BY <1>2, <1>3 DEF Uri!Header, Uri!Techs, Uri!IInv, Uri!TypeOK
    <2>2. text \in [by : Uri!Ops \cup {NoFile}, header : Uri!Techs \cup {NoFile}] BY <1>3, <2>1
    <2>3. text # NoFile BY <2>2, ComponentConstants DEF Uri!UriConstants, Uri!Ops, Uri!Techs
    <2>4. file' = [file EXCEPT ![r.new.server] = text] BY <1>2 DEF Uri!Write
    <2>5. text.by = IF r.new.active THEN r.new.by ELSE NoFile OBVIOUS
    <2> QED BY <2>2, <2>3, <2>4, <2>5 DEF Uri!Texts
  <1>5. /\ file \in [Servers -> Uri!Texts] /\ UNCHANGED <<tech, rows, loaded, faults, moved, troubled>>
    BY DEF Uri!Write, Uri!IInv, Uri!TypeOK
  <1>6. /\ file' \in [Servers -> Uri!Texts] /\ file'[r.new.server] = text
        /\ \A s \in Servers \ {r.new.server} : file'[s] = file[s]
    BY <1>3, <1>4, <1>5
  <1>7. Uri!Aims(p, r) BY <1>2, <1>3 DEF Uri!Aims
  <1>8. ASSUME ~troubled PROVE Uri!OneRow' /\ Uri!InStep(p, r)'
    <2>1. /\ r.new \in rows /\ p \notin UriDeletes
          /\ \A s \in Servers \ (moved \cup {r.new.server}) : Uri!Settled(s)
      BY <1>1, <1>2, <1>3, <1>8 DEF Uri!InStep, Uri!Target
    <2>2. rows = {r.new} BY <1>3, <1>8, <2>1 DEF Uri!OneRow
    <2>3. Uri!OneRow' BY <1>3, <1>5, <1>8 DEF Uri!OneRow
    <2>4. ASSUME NEW s \in Servers \ (moved \cup {r.new.server}) PROVE Uri!Settled(s)'
      BY <1>5, <1>6, <2>1, <2>4 DEF Uri!Settled, Uri!Lets, Uri!Told
    <2>5. {t.by : t \in {text} \ {NoFile}} \ {NoFile} = Uri!Told({r.new}, r.new.server)
      <3>1. {t.by : t \in {text} \ {NoFile}} = {text.by} BY <1>4
      <3>2. Uri!Told({r.new}, r.new.server) = IF r.new.active THEN {r.new.by} ELSE {} BY <1>3 DEF Uri!Told
      <3> QED BY <1>3, <1>4, <3>1, <3>2
    <2>6. Uri!Lets(r.new.server)' = Uri!Told(rows, r.new.server)' BY <1>5, <1>6, <2>2, <2>5 DEF Uri!Lets, Uri!Told
    <2> QED BY <1>2, <1>5, <2>1, <2>3, <2>4, <2>6 DEF Uri!InStep, Uri!Target
  <1>9. ~Still(r) BY <1>2 DEF Still
  <1> QED BY <1>2, <1>3, <1>5, <1>6, <1>7, <1>8, <1>9, UriFollows DEF Uri!IInv, Uri!TypeOK

LEMMA UnlinkUriStep ==
  ASSUME Uri!IInv, NEW p \in Uri!Ops, Uri!Unlink(p)
  PROVE  Uri!IInv'
  <1> DEFINE there == file[op[p].row.server] # NoFile
  <1>1. op[p].at = "unlink" /\ p \in UriDeletes /\ op[p].new = op[p].row BY UriOps DEF Uri!Unlink, Uri!Aims
  <1>2. PICK r \in UriKind :
               /\ UriMoves(p, r) /\ r.at = IF there THEN "reload" ELSE "answer"
               /\ r.row = op[p].row /\ r.new = op[p].new
    <2>1. Uri!Goto(p, IF there THEN "reload" ELSE "answer") BY DEF Uri!Unlink
    <2>2. (IF there THEN "reload" ELSE "answer") \in UriPlaces BY DEF UriPlaces
    <2> HIDE DEF there
    <2> QED BY <2>1, <2>2, UriGoes
  <1>3. /\ r.new \in Uri!Rows /\ r.new.server \in Servers
        /\ rows \subseteq Uri!Rows /\ ~Still(op[p]) /\ (~troubled => Uri!OneRow /\ Uri!InStep(p, op[p]))
    BY <1>1, <1>2, UriKnows
  <1>4. PICK server \in Servers : server = r.new.server BY <1>3
  <1>5. /\ file \in [Servers -> Uri!Texts] /\ UNCHANGED <<tech, rows, loaded, faults, moved, troubled>>
        /\ file' = [file EXCEPT ![server] = NoFile] /\ NoFile \in Uri!Texts
    BY <1>1, <1>2, <1>4 DEF Uri!Unlink, Uri!IInv, Uri!TypeOK, Uri!Texts
  <1>6. /\ file' \in [Servers -> Uri!Texts] /\ file'[server] = NoFile
        /\ \A s \in Servers \ {server} : file'[s] = file[s]
    BY <1>5
  <1>7. Uri!Aims(p, r) BY <1>2, <1>3 DEF Uri!Aims
  <1>8. ASSUME ~troubled PROVE Uri!OneRow' /\ Uri!InStep(p, r)'
    <2>1. r.new \in rows /\ \A s \in Servers \ moved : Uri!Settled(s)
      BY <1>1, <1>2, <1>3, <1>8 DEF Uri!InStep, Uri!Target
    <2>2. rows = {r.new} BY <1>3, <1>8, <2>1 DEF Uri!OneRow
    <2>3. Uri!OneRow' BY <1>3, <1>5, <1>8 DEF Uri!OneRow
    <2>4. ASSUME NEW s \in Servers \ (moved \cup {server})
          PROVE  Uri!Settled(s)' /\ Uri!Lets(s)' = {}
      <3>1. Uri!Told({r.new}, s) = {} BY <1>4, <2>4 DEF Uri!Told
      <3>2. Uri!Settled(s) BY <2>1, <2>4
      <3> QED BY <1>5, <1>6, <2>2, <2>4, <3>1, <3>2 DEF Uri!Settled, Uri!Lets, Uri!Told
    <2>5. CASE there
      <3>1. r.at = "reload" BY <1>2, <2>5
      <3> QED BY <1>1, <1>4, <1>5, <1>6, <2>1, <2>3, <2>4, <3>1 DEF Uri!InStep, Uri!Target
    <2>6. CASE ~there
      <3>1. r.at = "answer" BY <1>2, <2>6
      <3>2. file[server] = NoFile BY <1>1, <1>2, <1>4, <2>6
      <3>3. \A s \in Servers \ moved : loaded'[s] = file'[s]
        <4>1. \A s \in Servers \ moved : loaded[s] = file[s] BY <2>1 DEF Uri!Settled
        <4>2. \A s \in Servers : file'[s] = file[s] BY <1>6, <3>2
        <4> QED BY <1>5, <4>1, <4>2
      <3>4. Uri!Lets(server)' = {} BY <1>6 DEF Uri!Lets
      <3>5. \A s \in Servers \ moved : Uri!Lets(s)' = {} BY <2>4, <3>4
      <3> QED BY <1>1, <1>5, <2>3, <3>1, <3>3, <3>5 DEF Uri!InStep
    <2> QED BY <2>5, <2>6
  <1>9. ~Still(r) BY <1>2 DEF Still
  <1> HIDE DEF there
  <1> QED BY <1>2, <1>3, <1>5, <1>6, <1>7, <1>8, <1>9, UriFollows DEF Uri!IInv, Uri!TypeOK

LEMMA ReloadUriStep ==
  ASSUME Uri!IInv, NEW p \in Uri!Ops, Uri!Reload(p)
  PROVE  Uri!IInv'
  <1>1. op[p].at = "reload" /\ Uri!Goto(p, "answer") BY DEF Uri!Reload
  <1>2. PICK r \in UriKind :
               UriMoves(p, r) /\ r.at = "answer" /\ r.row = op[p].row /\ r.new = op[p].new
    BY <1>1, UriGoes DEF UriPlaces
  <1>3. /\ r.new \in Uri!Rows /\ r.new.server \in Servers
        /\ rows \subseteq Uri!Rows /\ ~Still(op[p]) /\ (~troubled => Uri!OneRow /\ Uri!InStep(p, op[p]))
    BY <1>1, <1>2, UriKnows
  <1>4. PICK server \in Servers : server = r.new.server BY <1>3
  <1>5. /\ loaded \in [Servers -> Uri!Texts] /\ file \in [Servers -> Uri!Texts]
        /\ UNCHANGED <<tech, rows, file, faults, moved, troubled>>
        /\ loaded' = [loaded EXCEPT ![server] = file[server]]
    BY <1>2, <1>4 DEF Uri!Reload, Uri!IInv, Uri!TypeOK
  <1>6. /\ loaded' \in [Servers -> Uri!Texts] /\ loaded'[server] = file[server]
        /\ \A s \in Servers \ {server} : loaded'[s] = loaded[s]
    BY <1>5
  <1>7. Uri!Aims(p, r) BY <1>2, <1>3 DEF Uri!Aims
  <1>8. ASSUME ~troubled PROVE Uri!OneRow' /\ Uri!InStep(p, r)'
    <2>1. /\ r.new \in rows /\ \A s \in Servers \ (moved \cup {server}) : Uri!Settled(s)
          /\ IF p \in UriDeletes THEN file[server] = NoFile ELSE Uri!Lets(server) = Uri!Told(rows, server)
      BY <1>1, <1>2, <1>3, <1>4, <1>8 DEF Uri!InStep, Uri!Target
    <2>2. rows = {r.new} BY <1>3, <1>8, <2>1 DEF Uri!OneRow
    <2>3. Uri!OneRow' BY <1>3, <1>5, <1>8 DEF Uri!OneRow
    <2>4. \A s \in Servers \ moved : loaded'[s] = file'[s] BY <1>5, <1>6, <2>1 DEF Uri!Settled
    <2>5. CASE p \in UriDeletes
      <3>1. \A s \in Servers \ (moved \cup {server}) : Uri!Told({r.new}, s) = {} BY <1>4 DEF Uri!Told
      <3>2. \A s \in Servers \ (moved \cup {server}) : Uri!Lets(s) = {} BY <2>1, <2>2, <3>1 DEF Uri!Settled
      <3>3. Uri!Lets(server) = {} BY <2>1, <2>5 DEF Uri!Lets
      <3>4. \A s \in Servers \ moved : Uri!Lets(s)' = {} BY <1>5, <3>2, <3>3 DEF Uri!Lets
      <3> QED BY <1>2, <1>5, <2>3, <2>4, <2>5, <3>4 DEF Uri!InStep
    <2>6. CASE p \notin UriDeletes
      <3>1. \A s \in Servers \ moved : Uri!Lets(s) = Uri!Told(rows, s) BY <2>1, <2>6 DEF Uri!Settled
      <3>2. \A s \in Servers \ moved : Uri!Settled(s)' BY <1>5, <2>4, <3>1 DEF Uri!Settled, Uri!Lets, Uri!Told
      <3> QED BY <1>2, <1>5, <2>3, <2>6, <3>2 DEF Uri!InStep, Uri!Target
    <2> QED BY <2>5, <2>6
  <1>9. ~Still(r) BY <1>2 DEF Still
  <1> QED BY <1>2, <1>3, <1>5, <1>6, <1>7, <1>8, <1>9, UriFollows DEF Uri!IInv, Uri!TypeOK

LEMMA AnswerUriStep ==
  ASSUME Uri!IInv, NEW p \in Uri!Ops, Uri!Answer(p)
  PROVE  Uri!IInv'
  <1>1. op[p].at = "answer" /\ Uri!Goto(p, "over") BY DEF Uri!Answer
  <1>2. PICK r \in UriKind :
               UriMoves(p, r) /\ r.at = "over" /\ r.row = op[p].row /\ r.new = op[p].new
    BY <1>1, UriGoes DEF UriPlaces
  <1>3. rows \subseteq Uri!Rows /\ ~Still(op[p]) /\ (~troubled => Uri!OneRow /\ Uri!InStep(p, op[p]))
    BY <1>1, <1>2, UriKnows
  <1>4. /\ UNCHANGED <<tech, file, loaded, faults, moved, troubled>>
        /\ rows' = IF p \in UriDeletes THEN {} ELSE rows
    BY DEF Uri!Answer
  <1>5. Uri!Aims(p, r) /\ Still(r) BY <1>2 DEF Uri!Aims, Still
  <1>6. ASSUME ~troubled PROVE Uri!OneRow' /\ \A s \in Servers \ moved : Uri!Settled(s)'
    <2>1. Uri!OneRow' BY <1>3, <1>4, <1>6 DEF Uri!OneRow
    <2>2. CASE p \in UriDeletes
      <3>1. \A s \in Servers \ moved : loaded[s] = file[s] /\ Uri!Lets(s) = {}
        BY <1>1, <1>3, <1>6, <2>2 DEF Uri!InStep
      <3>2. \A s \in Servers : Uri!Told({}, s) = {} BY DEF Uri!Told
      <3> QED BY <1>4, <2>1, <2>2, <3>1, <3>2 DEF Uri!Settled, Uri!Lets, Uri!Told
    <2>3. CASE p \notin UriDeletes
      <3>1. \A s \in Servers \ moved : Uri!Settled(s) BY <1>1, <1>3, <1>6, <2>3 DEF Uri!InStep, Uri!Target
      <3> QED BY <1>4, <2>1, <2>3, <3>1 DEF Uri!Settled, Uri!Lets, Uri!Told
    <2> QED BY <2>2, <2>3
  <1> QED BY <1>2, <1>3, <1>4, <1>5, <1>6, UriFollows DEF Uri!IInv, Uri!TypeOK

LEMMA UrisInit ==
  ASSUME Uri!Init
  PROVE  Uri!IInv
  <1> DEFINE first == [at |-> "idle", row |-> Uri!NoRow, new |-> Uri!NoRow]
  <1>1. /\ tech \in [Servers -> Uri!Techs] /\ rows = {} /\ faults = 0 /\ moved = {} /\ troubled = FALSE
        /\ file = [s \in Servers |-> NoFile] /\ loaded = [s \in Servers |-> NoFile]
        /\ op = [p \in Uri!Ops |-> first]
    BY DEF Uri!Init
  <1>2. first \in UriKind /\ first.at = "idle" BY DEF UriKind, UriPlaces
  <1> HIDE DEF first
  <1>3. 0 \in 0..MaxFaults /\ NoFile \in Uri!Texts BY ComponentConstants DEF Uri!UriConstants, Uri!Texts
  <1>4. Uri!TypeOK BY <1>1, <1>2, <1>3 DEF Uri!TypeOK, UriKind, UriPlaces
  <1>5. \A p \in Uri!Ops : op[p].at = "idle" BY <1>1, <1>2
  <1>6. \A p \in Uri!Ops : Uri!Aims(p, op[p]) /\ ~Uri!Live(p) BY <1>5 DEF Uri!Aims, Uri!Live
  <1>7. \A s \in Servers : Uri!Settled(s)
    <2> SUFFICES ASSUME NEW s \in Servers PROVE Uri!Settled(s) OBVIOUS
    <2>1. file[s] = NoFile /\ loaded[s] = NoFile BY <1>1
    <2>2. Uri!Lets(s) = {} /\ Uri!Told(rows, s) = {} BY <1>1, <2>1 DEF Uri!Lets, Uri!Told
    <2> QED BY <2>1, <2>2 DEF Uri!Settled
  <1>8. Uri!Untroubled BY <1>1, <1>6, <1>7 DEF Uri!Untroubled, Uri!Alone, Uri!OneRow
  <1> QED BY <1>4, <1>6, <1>8 DEF Uri!IInv

LEMMA UrisStep ==
  ASSUME Uri!IInv, Uri!Next
  PROVE  Uri!IInv'
  <1>1. ASSUME NEW p \in Uri!Ops, Uri!ReloadFails(p) \/ Uri!PostFails(p) PROVE Uri!IInv'
    BY <1>1, UriTroubles DEF Uri!ReloadFails, Uri!PostFails
  <1> QED
    BY <1>1, BeginUriStep, InsertUriStep, SaveUriStep, WriteUriStep, UnlinkUriStep,
       ReloadUriStep, AnswerUriStep DEF Uri!Next

LEMMA UrisStay ==
  ASSUME Uri!IInv, UNCHANGED Uri!vars
  PROVE  Uri!IInv'
  <1>1. UNCHANGED <<tech, rows, file, loaded, op, faults, moved, troubled>> BY DEF Uri!vars
  <1>2. Uri!TypeOK' BY <1>1 DEF Uri!IInv, Uri!TypeOK, Uri!Rows, Uri!NoRow, Uri!Texts, Uri!Ops
  <1>3. \A p \in Uri!Ops : Uri!Aims(p, op[p])' BY <1>1 DEF Uri!IInv, Uri!Aims
  <1>4. Uri!Untroubled'
    <2>1. /\ Uri!Alone' <=> Uri!Alone
          /\ Uri!OneRow' <=> Uri!OneRow
          /\ \A p \in Uri!Ops : Uri!Live(p)' <=> Uri!Live(p)
      BY <1>1 DEF Uri!Alone, Uri!OneRow, Uri!Live, Uri!Ops
    <2>2. \A s \in Servers : Uri!Settled(s)' <=> Uri!Settled(s) BY <1>1 DEF Uri!Settled, Uri!Lets, Uri!Told
    <2>3. \A p \in Uri!Ops : Uri!InStep(p, op[p])' <=> Uri!InStep(p, op[p])
      BY <1>1 DEF Uri!InStep, Uri!Target, Uri!Settled, Uri!Lets, Uri!Told
    <2> QED BY <1>1, <2>1, <2>2, <2>3 DEF Uri!IInv, Uri!Untroubled, Uri!Ops
  <1> QED BY <1>2, <1>3, <1>4 DEF Uri!IInv, Uri!Ops

LEMMA UrisAre ==
  ASSUME Uri!IInv
  PROVE  Uri!TypeOK /\ Uri!UriAsConfigured
  <1>1. ASSUME ~troubled, \A p \in Uri!Ops : ~Uri!Live(p)
        PROVE  /\ Cardinality(rows) <= 1
               /\ \A s \in Servers \ moved : loaded[s] = file[s] /\ Uri!Lets(s) = Uri!Told(rows, s)
    <2>1. Uri!OneRow /\ \A s \in Servers \ moved : Uri!Settled(s) BY <1>1 DEF Uri!IInv, Uri!Untroubled
    <2>2. CASE rows = {} BY <2>1, <2>2, FS_EmptySet DEF Uri!Settled
    <2>3. CASE rows # {}
      <3>1. PICK r \in rows : rows = {r} BY <2>1, <2>3 DEF Uri!OneRow
      <3>2. Cardinality(rows) = 1 BY <3>1, FS_Singleton
      <3> QED BY <2>1, <3>2 DEF Uri!Settled
    <2> QED BY <2>2, <2>3
  <1>2. Uri!UriAsConfigured BY UrisCounts, <1>1 DEF Uri!UriAsConfigured, Uri!Lets, Uri!Told
  <1> QED BY <1>2 DEF Uri!IInv

LEMMA UrisAlways == Spec => [](which = "Uri" => Uri!IInv)
  <1> DEFINE I == which = "Uri" => Uri!IInv
  <1>1. Init => I BY UrisInit, ComponentConstants DEF Init
  <1>2. I /\ [Next]_vars => I'
    <2>1. ASSUME Uri!IInv, [Uri!Next]_Uri!vars PROVE Uri!IInv' BY <2>1, UrisStep, UrisStay, ComponentConstants
    <2>2. ASSUME [Next]_vars, which' = "Uri"
          PROVE  which = "Uri" /\ [Uri!Next]_Uri!vars
      BY <2>2 DEF Next, vars, Uri!vars
    <2> QED BY <2>1, <2>2
  <1> QED BY <1>1, <1>2, PTL DEF Spec

\* SipTrunksService, SipUrisService: for any number of trunks, servers and requests, the
\* files on a PBX and what Asterisk has read of them are those of the rows, but for what
\* overlapped, failed, or was moved away.
THEOREM SipStaysInStep == Spec => []SipInStep
  <1>1. (which = "Trunk" => Trunk!IInv) /\ (which = "Uri" => Uri!IInv) => SipInStep
    BY TrunksAre, UrisAre DEF SipInStep
  <1> QED BY <1>1, TrunkingAlways, UrisAlways, PTL

\* Every component keeps its variables in their ranges, for any constants.
THEOREM OfficeTypesCorrect == Spec => []TypeOK
  <1>1. /\ which = "Bill" => Bill!IInv
        /\ which = "Sbis" => Sbis!IInv
        /\ which = "Edo" => Edo!IInv
        /\ which = "Firm" => Firm!IInv
        /\ which = "Party" => Party!IInv
        /\ which = "Code" => Code!IInv
        /\ which = "User" => User!IInv
        /\ which = "Trunk" => Trunk!IInv
        /\ which = "Uri" => Uri!IInv
        => TypeOK
    BY NumbersAre, ExchangeIs, InvitationsIs, IssuingIs, LookupIsTrue, AccountsAre,
       TenantsAre, TrunksAre, UrisAre, ComponentConstants DEF TypeOK
  <1> QED BY <1>1, NumbersAlways, ExchangeAlways, InvitationsAlways, IssuingAlways,
             LookupAlways, CodesAlways, UsersAlways, TrunkingAlways, UrisAlways, PTL
=============================================================================
