------------------------- MODULE CounterpartyLookup -------------------------
(***************************************************************************)
(* Looking up a legal entity by its INN, and KPP when the caller has one,  *)
(* through SBIS calls that share one login session, with a cache that      *)
(* keeps one row for each INN.  Here the INN is fixed: the branches of the *)
(* entity differ by their KPP.                                             *)
(***************************************************************************)
EXTENDS FiniteSets, Integers

CONSTANTS Branches,   \* KPPs
          Lookups,    \* requests
          NoKpp,      \* no KPP
          MaxEvents   \* bound: sessions that SBIS ends, calls that fail, branches opened
                      \* and closed, and the cache and the session running out

LookupConstants == NoKpp \notin Branches /\ IsFiniteSet(Lookups) /\ MaxEvents \in Nat

Calls == {"find", "full", "info"}  \* the calls a lookup may be in the middle of
NoSession == 0
MaxLogins == 6 * Cardinality(Lookups) \* two for each of the calls

VARIABLES registry, \* the branches there are
          cache,    \* the KPP of the cached row, or NoKpp
          session,  \* sessionId
          live,     \* sessions that SBIS still accepts
          logins,   \* sessions handed out
          op,       \* every lookup: [at, want, kpp, sid, retried, found, answer]
          logging,  \* lookups that wait for the answer to their login, in which sid is
          kills, faults, changes,
          known,    \* history: branches there ever were
          sole,     \* history: lookups for which SBIS knew one branch only
          refused   \* history: a call was refused once more after it was repeated

vars == <<registry, cache, session, live, logins, op, logging, kills, faults, changes, known, sole, refused>>

NoAnswer == [status |-> "none", kpp |-> NoKpp, cached |-> FALSE]
Ends(p, status, kpp, cached) ==
    op' = [op EXCEPT ![p] = [@ EXCEPT !.at = "over", !.sid = NoSession, !.retried = FALSE, !.found = FALSE,
                                      !.answer = [status |-> status, kpp |-> kpp, cached |-> cached]]]
Starts(p, call, kpp) == [op[p] EXCEPT !.at = call, !.kpp = kpp, !.sid = NoSession, !.retried = FALSE]
World == <<registry, kills, changes, known>>
Remote == UNCHANGED <<session, live, logins>> /\ UNCHANGED World

-----------------------------------------------------------------------------
\* Mutant: whichever branch the row is of.
UsableAnyway(want) == cache # NoKpp

-----------------------------------------------------------------------------
\* lookupCounterparty: a valid row of the cache answers when it is of the branch that is
\* asked for, or none is.
Usable(want) == cache # NoKpp /\ want \in {NoKpp, cache}

Begin(p, want) ==
    /\ op[p].at = "idle"
    /\ op' = [op EXCEPT ![p] =
                 IF Usable(want)
                 THEN [@ EXCEPT !.at = "over", !.want = want, !.answer = [status |-> "single", kpp |-> cache, cached |-> TRUE]]
                 ELSE [Starts(p, IF want = NoKpp THEN "find" ELSE "full", want) EXCEPT !.want = want]]
    /\ UNCHANGED <<cache, logging, faults, sole, refused>> /\ Remote

\* auth: the session at hand, or the lookup waits for a new one; others may meanwhile.
Auth(p) ==
    /\ op[p].at \in Calls /\ op[p].sid = NoSession
    /\ IF session # NoSession
       THEN op' = [op EXCEPT ![p].sid = session] /\ UNCHANGED <<live, logins, logging>>
       ELSE /\ logins < MaxLogins /\ logins' = logins + 1 /\ live' = live \cup {logins'}
            /\ op' = [op EXCEPT ![p].sid = logins'] /\ logging' = logging \cup {p}
    /\ UNCHANGED <<cache, session, faults, sole, refused>> /\ UNCHANGED World

\* Whichever answer comes last is the session at hand.
LogIn(p) ==
    /\ p \in logging /\ logging' = logging \ {p}
    /\ session' = op[p].sid
    /\ UNCHANGED <<cache, live, logins, op, faults, sole, refused>> /\ UNCHANGED World

-----------------------------------------------------------------------------
\* 401: the session is forgotten, whichever it is by now, and the call repeated once.
Turned401(p) == op[p].at \in Calls /\ p \notin logging /\ op[p].sid \notin live \cup {NoSession}

\* Mutant: the session stays when SBIS refuses it.
RefusedKept(p) ==
    /\ Turned401(p) /\ ~op[p].retried
    /\ op' = [op EXCEPT ![p].sid = NoSession, ![p].retried = TRUE]
    /\ UNCHANGED <<cache, session, live, logins, logging, faults, sole, refused>> /\ UNCHANGED World

-----------------------------------------------------------------------------
Refused(p) ==
    /\ Turned401(p) /\ ~op[p].retried
    /\ session' = NoSession
    /\ op' = [op EXCEPT ![p].sid = NoSession, ![p].retried = TRUE]
    /\ UNCHANGED <<cache, live, logins, logging, faults, sole, refused>> /\ UNCHANGED World

\* A call that failed is followed by the next one all the same, unless it was the only
\* one or the one before it failed, too.
Nameless(p) ==
    \/ op[p].want = NoKpp /\ Ends(p, "requires_kpp", NoKpp, FALSE)
    \/ Ends(p, "error", NoKpp, FALSE)
CallFailed(p) ==
    \/ op[p].at = "full" /\ op' = [op EXCEPT ![p] = Starts(p, "info", @.kpp)]
    \/ op[p].at = "info" /\ op[p].found /\ op' = [op EXCEPT ![p].at = "store"]
    \/ (op[p].at = "find" \/ (op[p].at = "info" /\ ~op[p].found)) /\ Nameless(p)

\* The second 401 is a call that failed, and so is a login that failed, and an error of
\* any other kind; none of these is repeated.
RefusedAgain(p) ==
    /\ Turned401(p) /\ op[p].retried
    /\ CallFailed(p)
    /\ refused' = TRUE
    /\ UNCHANGED <<cache, logging, faults, sole>> /\ Remote

CallFails(p) ==
    /\ op[p].at \in Calls /\ op[p].sid # NoSession /\ kills + faults + changes < MaxEvents
    /\ faults' = faults + 1
    /\ CallFailed(p)
    /\ logging' = logging \ {p}
    /\ UNCHANGED <<cache, sole, refused>> /\ Remote

-----------------------------------------------------------------------------
Accepted(p, call) == op[p].at = call /\ p \notin logging /\ op[p].sid \in live

\* lookupCounterpartyByInnOnly: one branch is looked up in full, several are offered.
Find(p) ==
    /\ Accepted(p, "find")
    /\ sole' = IF Cardinality(registry) = 1 THEN sole \cup {p} ELSE sole
    /\ \/ registry = {} /\ Ends(p, "requires_kpp", NoKpp, FALSE)
       \/ \E k \in registry : registry = {k} /\ op' = [op EXCEPT ![p] = Starts(p, "full", k)]
       \/ Cardinality(registry) > 1 /\ Ends(p, "choose", NoKpp, FALSE)
    /\ UNCHANGED <<cache, logging, faults, refused>> /\ Remote

\* lookupCounterpartyFull: one call finds the branch, another tells about it; either is
\* enough.
Full(p) ==
    /\ Accepted(p, "full")
    /\ op' = [op EXCEPT ![p] = [Starts(p, "info", @.kpp) EXCEPT !.found = op[p].kpp \in registry]]
    /\ UNCHANGED <<cache, logging, faults, sole, refused>> /\ Remote

Info(p) ==
    /\ Accepted(p, "info")
    /\ IF op[p].found \/ op[p].kpp \in registry
       THEN op' = [op EXCEPT ![p].at = "store"]
       ELSE Nameless(p)
    /\ UNCHANGED <<cache, logging, faults, sole, refused>> /\ Remote

\* The result replaces the row of the INN.
Store(p) ==
    /\ op[p].at = "store"
    /\ cache' = op[p].kpp
    /\ Ends(p, "single", op[p].kpp, FALSE)
    /\ UNCHANGED <<logging, faults, sole, refused>> /\ Remote

-----------------------------------------------------------------------------
\* SBIS ends a session before its time here is up; the hour passes here.
Kill(s) ==
    /\ s \in live /\ kills + faults + changes < MaxEvents /\ kills' = kills + 1 /\ live' = live \ {s}
    /\ UNCHANGED <<registry, cache, session, logins, op, logging, faults, changes, known, sole, refused>>

Lapse ==
    /\ kills + faults + changes < MaxEvents /\ changes' = changes + 1
    /\ \/ session # NoSession /\ session' = NoSession /\ UNCHANGED cache
       \/ cache # NoKpp /\ cache' = NoKpp /\ UNCHANGED session
    /\ UNCHANGED <<registry, live, logins, op, logging, kills, faults, known, sole, refused>>

Register(k) ==
    /\ kills + faults + changes < MaxEvents /\ changes' = changes + 1
    /\ registry' = IF k \in registry THEN registry \ {k} ELSE registry \cup {k}
    /\ known' = known \cup registry'
    /\ UNCHANGED <<cache, session, live, logins, op, logging, kills, faults, sole, refused>>

-----------------------------------------------------------------------------
Init ==
    /\ registry \in SUBSET Branches /\ known = registry /\ cache = NoKpp
    /\ session = NoSession /\ live = {} /\ logins = 0 /\ kills = 0 /\ faults = 0 /\ changes = 0
    /\ logging = {} /\ sole = {} /\ refused = FALSE
    /\ op = [p \in Lookups |-> [at |-> "idle", want |-> NoKpp, kpp |-> NoKpp, sid |-> NoSession,
                                retried |-> FALSE, found |-> FALSE, answer |-> NoAnswer]]

Next ==
    \/ \E p \in Lookups : \/ \E want \in Branches \cup {NoKpp} : Begin(p, want)
                          \/ Auth(p) \/ LogIn(p) \/ Refused(p) \/ RefusedAgain(p) \/ Find(p) \/ Full(p) \/ Info(p)
                          \/ CallFails(p) \/ Store(p)
    \/ \E s \in live : Kill(s)
    \/ Lapse
    \/ \E k \in Branches : Register(k)

Spec == Init /\ [][Next]_vars

-----------------------------------------------------------------------------
TypeOK ==
    /\ registry \subseteq Branches /\ known \subseteq Branches /\ cache \in Branches \cup {NoKpp}
    /\ logins \in 0..MaxLogins /\ session \in 0..logins /\ live \subseteq 1..logins
    /\ logging \subseteq Lookups /\ sole \subseteq Lookups /\ refused \in BOOLEAN
    /\ op \in [Lookups -> [at : Calls \cup {"idle", "store", "over"}, want : Branches \cup {NoKpp},
                           kpp : Branches \cup {NoKpp}, sid : 0..logins, retried : BOOLEAN, found : BOOLEAN,
                           answer : [status : {"none", "single", "choose", "requires_kpp", "error"},
                                     kpp : Branches \cup {NoKpp}, cached : BOOLEAN]]]

\* A lookup answers with the branch it was asked for, which there was; without a KPP it
\* picks a branch only when SBIS knew no other one, or when the cache had one, in which
\* case the choice is not offered.  And a call fails for its session only after SBIS
\* ended two: one that ends is replaced on the way, however many lookups share it, log in
\* at the same time and have their answers overtake each other.
LookupTrue ==
    /\ \A p \in Lookups : LET a == op[p].answer IN
         a.status = "single" => /\ op[p].want \in {NoKpp, a.kpp} /\ a.kpp \in known
                                /\ op[p].want = NoKpp /\ ~a.cached => p \in sole
    /\ refused => kills >= 2

-----------------------------------------------------------------------------
\* What else holds in every state, as the proof of LookupTrue needs it.  SBIS ended every
\* session that it no longer accepts;
Dead == (1..logins) \ live
SessionsCounted ==
    /\ kills = Cardinality(Dead) /\ session \in 0..logins /\ (refused => kills >= 2)
    /\ registry \subseteq known /\ cache \in known \cup {NoKpp}

\* one that is in the answer to a login is nobody else's yet;
Coming == {op[p].sid : p \in logging}
Fresh ==
    \A p \in logging :
        /\ op[p].at \in Calls /\ op[p].sid \notin {NoSession, session}
        /\ \A q \in Lookups \ {p} : op[q].sid # op[p].sid

\* a lookup that goes on is after the branch it was asked for or the only one there was,
\* says that it found a branch only when there was one, and repeats its call after a
\* session that it no longer uses, and nobody will use again, was ended;
GoesRight(p, r) ==
    /\ r.at # "over" => r.answer.status = "none"
    /\ (r.at = "idle" => ~r.found) /\ (r.at = "find" => r.want = NoKpp)
    /\ r.at \in {"full", "info", "store"} => IF r.want = NoKpp THEN p \in sole ELSE r.kpp = r.want
    /\ r.found \/ r.at = "store" => r.kpp \in known
    /\ r.at \in Calls /\ r.retried => \E s \in Dead : s \notin {session, r.sid} \cup Coming

\* and what it answered was so.
Answered(p, r) ==
    r.answer.status = "single" =>
        /\ r.want \in {NoKpp, r.answer.kpp} /\ r.answer.kpp \in known
        /\ r.want = NoKpp /\ ~r.answer.cached => p \in sole

IInv == TypeOK /\ SessionsCounted /\ Fresh /\ \A p \in Lookups : GoesRight(p, op[p]) /\ Answered(p, op[p])
=============================================================================
