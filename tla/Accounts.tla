------------------------------- MODULE Accounts -------------------------------
(***************************************************************************)
(* Signing up and in with a code that is mailed: one account's row, the    *)
(* requests that read it and write it later, and the mails between.  Any   *)
(* number of requests may be under way for the same address.               *)
(***************************************************************************)
EXTENDS Integers, FiniteSets

CONSTANTS Logins, Signups, Activations, Socials, \* requests: by mail, with a code, by Google or Telegram
          MaxCodes \* bound: codes that are drawn

AccountConstants ==
    /\ MaxCodes \in Nat /\ IsFiniteSet(Activations)
    /\ Activations \cap (Logins \cup Signups \cup Socials) = {}

Codes == 1..MaxCodes
NoCode == 0
Ops == Logins \cup Signups \cup Activations \cup Socials

VARIABLES row,     \* the account: [exists, active, code, expired]
          op,      \* every request: [at, code]
          drawn,   \* how many codes were drawn
          mailed,  \* codes the user has got
          last,    \* the last code the user has got
          entered, \* how often every code let the user in
          tokens,  \* requests that were answered with a token
          crossed  \* history: codes whose request overlapped the write of another

vars == <<row, op, drawn, mailed, last, entered, tokens, crossed>>

NoRow == [exists |-> FALSE, active |-> FALSE, code |-> NoCode, expired |-> FALSE]
Goto(p, at) == op' = [op EXCEPT ![p].at = at]
\* The requests that have read the row, or drawn a code, and have not ended.
Live(p) == op[p].at \notin {"idle", "over"}
\* A write crosses every other request under way, and they cross it.
Cross(p, c) ==
    LET others == {q \in Ops \ {p} : Live(q)} IN
    crossed' = IF others = {} THEN crossed ELSE crossed \cup {c} \cup {op[q].code : q \in others}
ReadsOnly == UNCHANGED <<row, drawn, mailed, last, entered, tokens, crossed>>

\* A code is drawn, and whoever is under way meets it.
Draw(p, at) ==
    /\ drawn < MaxCodes /\ drawn' = drawn + 1
    /\ op' = [op EXCEPT ![p] = [at |-> at, code |-> drawn + 1]]

-----------------------------------------------------------------------------
\* login: the candidate must exist.
BeginLogin(p) ==
    /\ op[p].at = "idle" /\ row.exists
    /\ Draw(p, "save")
    /\ UNCHANGED <<row, mailed, last, entered, tokens, crossed>>

\* signup: an account that is active is refused; one that is not gets another code.
BeginSignup(p) ==
    /\ op[p].at = "idle" /\ ~(row.exists /\ row.active)
    /\ Draw(p, IF row.exists THEN "save" ELSE "create")
    /\ UNCHANGED <<row, mailed, last, entered, tokens, crossed>>

\* Mutant: the code is mailed but not stored.
SaveTimeOnly(p) ==
    /\ op[p].at = "save"
    /\ row' = [row EXCEPT !.expired = FALSE]
    /\ Cross(p, op[p].code)
    /\ Goto(p, "mail")
    /\ UNCHANGED <<drawn, mailed, last, entered, tokens>>

\* The new code and its ten minutes replace what was stored.
SaveCode(p) ==
    /\ op[p].at = "save"
    /\ row' = [row EXCEPT !.code = op[p].code, !.expired = FALSE]
    /\ Cross(p, op[p].code)
    /\ Goto(p, "mail")
    /\ UNCHANGED <<drawn, mailed, last, entered, tokens>>

\* A new account; the address is unique in the table, so the second of two fails.
CreateAccount(p) ==
    /\ op[p].at = "create"
    /\ IF row.exists
       THEN Goto(p, "over") /\ UNCHANGED <<row, crossed>>
       ELSE /\ row' = [exists |-> TRUE, active |-> FALSE, code |-> op[p].code, expired |-> FALSE]
            /\ Cross(p, op[p].code)
            /\ Goto(p, "mail")
    /\ UNCHANGED <<drawn, mailed, last, entered, tokens>>

\* The mail reaches the user or is lost.
SendMail(p, sent) ==
    /\ op[p].at = "mail"
    /\ IF sent THEN mailed' = mailed \cup {op[p].code} /\ last' = op[p].code
               ELSE UNCHANGED <<mailed, last>>
    /\ Goto(p, "over")
    /\ UNCHANGED <<row, drawn, entered, tokens, crossed>>

\* Ten minutes pass since the code was stored.
Expire ==
    /\ row.code # NoCode /\ ~row.expired
    /\ row' = [row EXCEPT !.expired = TRUE]
    /\ UNCHANGED <<op, drawn, mailed, last, entered, tokens, crossed>>

-----------------------------------------------------------------------------
\* activate: the user types a code it has got, and the candidate's is compared with it.
CheckCode(p, c) ==
    /\ op[p].at = "idle" /\ c \in mailed
    /\ row.exists /\ row.code # NoCode /\ ~row.expired /\ row.code = c
    /\ op' = [op EXCEPT ![p] = [at |-> "activate", code |-> c]]
    /\ ReadsOnly

\* Mutant: the code stays.
ActivateOnly(p) ==
    /\ op[p].at = "activate"
    /\ row' = [row EXCEPT !.active = TRUE]
    /\ entered' = [entered EXCEPT ![op[p].code] = @ + 1]
    /\ tokens' = tokens \cup {p}
    /\ Cross(p, op[p].code)
    /\ Goto(p, "over")
    /\ UNCHANGED <<drawn, mailed, last>>

\* The candidate is saved as active and without a code, whatever code is stored by now,
\* and the token is signed.
Activate(p) ==
    /\ op[p].at = "activate"
    /\ row' = [row EXCEPT !.active = TRUE, !.code = NoCode]
    /\ entered' = [entered EXCEPT ![op[p].code] = @ + 1]
    /\ tokens' = tokens \cup {p}
    /\ Cross(p, op[p].code)
    /\ Goto(p, "over")
    /\ UNCHANGED <<drawn, mailed, last>>

-----------------------------------------------------------------------------
\* signupWithGoogle and loginWithGoogle read the account by its address;
BeginSocial(p) ==
    /\ op[p].at = "idle"
    /\ op' = [op EXCEPT ![p] = [at |-> IF row.exists THEN "sign" ELSE "join", code |-> NoCode]]
    /\ ReadsOnly

\* a sign-up makes it active at once, unless another has made it meanwhile,
Join(p) ==
    /\ op[p].at = "join"
    /\ IF row.exists
       THEN Goto(p, "over") /\ UNCHANGED <<row, crossed>>
       ELSE /\ row' = [NoRow EXCEPT !.exists = TRUE, !.active = TRUE]
            /\ Cross(p, NoCode)
            /\ Goto(p, "sign")
    /\ UNCHANGED <<drawn, mailed, last, entered, tokens>>

\* and a login saves the profile and signs a token, also for an account not yet active.
Sign(p) ==
    /\ op[p].at = "sign"
    /\ tokens' = tokens \cup {p}
    /\ Goto(p, "over")
    /\ UNCHANGED <<row, drawn, mailed, last, entered, crossed>>

-----------------------------------------------------------------------------
Init ==
    /\ row = NoRow /\ drawn = 0 /\ mailed = {} /\ last = NoCode /\ tokens = {} /\ crossed = {}
    /\ op = [p \in Ops |-> [at |-> "idle", code |-> NoCode]]
    /\ entered = [c \in Codes |-> 0]

Next ==
    \/ \E p \in Logins : BeginLogin(p)
    \/ \E p \in Signups : BeginSignup(p) \/ CreateAccount(p)
    \/ \E p \in Logins \cup Signups : SaveCode(p) \/ \E sent \in BOOLEAN : SendMail(p, sent)
    \/ \E p \in Activations : Activate(p) \/ \E c \in Codes : CheckCode(p, c)
    \/ \E p \in Socials : BeginSocial(p) \/ Join(p) \/ Sign(p)
    \/ Expire

Spec == Init /\ [][Next]_vars

-----------------------------------------------------------------------------
Rows == [exists : BOOLEAN, active : BOOLEAN, code : Codes \cup {NoCode}, expired : BOOLEAN]

TypeOK ==
    /\ row \in Rows /\ drawn \in 0..MaxCodes /\ mailed \subseteq Codes /\ last \in Codes \cup {NoCode}
    /\ op \in [Ops -> [at : {"idle", "save", "create", "mail", "activate", "join", "sign", "over"},
                       code : Codes \cup {NoCode}]]
    /\ entered \in [Codes -> 0..Cardinality(Activations)] /\ tokens \subseteq Ops
    /\ crossed \subseteq Codes \cup {NoCode}

\* A mailed code lets the user in at most once, unless two requests with it overlapped
\* between the comparison and the save.
CodeUsedOnce == \A c \in Codes \ crossed : entered[c] <= 1

\* The newest code, once the user has got it, is the one that is stored, or it has been
\* used, unless its request and the write of another crossed: an activation's save
\* forgets the code of a login that came after its comparison.
NewestCodeWorks == drawn > 0 /\ last = drawn /\ last \notin crossed => row.code = last \/ entered[last] > 0

-----------------------------------------------------------------------------
\* What else holds in every state, as the proof of both needs it.  A code lets in as many
\* activations as have ended with it;
Ended(c) == {p \in Activations : op[p].at = "over" /\ op[p].code = c}
Counted == \A c \in Codes : entered[c] = Cardinality(Ended(c))

\* codes are drawn in turn, each by one request, for a row that there is or is to be;
Drawing(p) == op[p].at \in {"save", "create", "mail"}
DrawnOnce ==
    /\ row.code <= drawn /\ last \in mailed \cup {NoCode}
    /\ \A c \in mailed : c <= drawn /\ \A p \in Ops : Drawing(p) => op[p].code # c
    /\ \A p \in Ops : /\ op[p].code <= drawn
                      /\ Drawing(p) \/ op[p].at = "activate" => op[p].code # NoCode
                      /\ op[p].at = "save" => row.exists
                      /\ \A q \in Ops \ {p} : Drawing(p) /\ Drawing(q) => op[p].code # op[q].code

\* one that was used is neither stored nor about to be used again;
UsedUp ==
    \A c \in Codes \ crossed :
        entered[c] # 0 => entered[c] = 1 /\ row.code # c /\ \A p \in Ops : Live(p) => op[p].code # c

\* and nobody is about to overwrite the newest once it is stored.
Stored(c) == c \in mailed \/ \E p \in Ops : op[p].at = "mail" /\ op[p].code = c
NewestSafe ==
    drawn > 0 /\ drawn \notin crossed /\ Stored(drawn) =>
        /\ row.exists /\ (row.code = drawn \/ (row.code = NoCode /\ entered[drawn] > 0))
        /\ \A p \in Ops : /\ op[p].at \notin {"save", "create"}
                          /\ op[p].at = "activate" => op[p].code = drawn

IInv == TypeOK /\ Counted /\ DrawnOnce /\ UsedUp /\ NewestSafe
=============================================================================
