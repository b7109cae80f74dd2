------------------------------ MODULE Accounts ------------------------------
(***************************************************************************)
(* Accounts: registration, verification by mail, the requests that log in  *)
(* and pass the JWT middleware, and the two cleanups that tick beside them *)
(* (app/user, pkg/middleware/jwt.go, internal/service).                    *)
(*                                                                         *)
(* Every registration makes an account id of its own, so an account is     *)
(* named by its registration.  Time is what the code compares it with:     *)
(* half an hour, after which a token is old, and a week, after which an    *)
(* account that was not verified is.                                       *)
(***************************************************************************)
EXTENDS Naturals, FiniteSets

CONSTANTS
  Registrations,  \* requests to UserRegister
  Verifications,  \* requests to UserVerify
  Emails

ASSUME AccountsAssumption ==
  IsFiniteSet(Registrations) /\ IsFiniteSet(Verifications)

VARIABLES
  reg,      \* where each registration is
  email,    \* the address it gives
  mail,     \* accounts whose link was sent
  account,  \* each account's row: "none", "unverified" or "verified"
  expires,  \* its expires_at: "nil", "week" or "passed"
  token,    \* its token's row: "none", "unused", "used" or "cleaned"
  old,      \* accounts whose token's half hour is over
  ver,      \* where each verification is
  link,     \* the account each verification is for: {} or a singleton
  logged,   \* accounts somebody holds an auth_token of
  owners,   \* accounts that have files
  ticking,  \* TokenCleanup's goroutine lives
  stale,    \* what it selected and will delete
  doomed    \* what AccountCleanup selected and will delete

users == <<account, expires, token>>
requests == <<reg, mail, ver, link, logged, owners>>
cleanups == <<ticking, stale, doomed>>
vars == <<users, email, old, requests, cleanups>>

Init ==
  /\ reg = [r \in Registrations |-> "start"]
  /\ email \in [Registrations -> Emails]
  /\ mail = {}
  /\ account = [r \in Registrations |-> "none"]
  /\ expires = [r \in Registrations |-> "nil"]
  /\ token = [r \in Registrations |-> "none"]
  /\ old = {}
  /\ ver = [v \in Verifications |-> "start"]
  /\ link = [v \in Verifications |-> {}]
  /\ logged = {}
  /\ owners = {}
  /\ ticking = TRUE
  /\ stale = {}
  /\ doomed = {}

-----------------------------------------------------------------------------
(***************************************************************************)
(* UserRegister.                                                           *)
(***************************************************************************)
RegGoto(r, from, to) ==
  /\ reg[r] = from
  /\ reg' = [reg EXCEPT ![r] = to]

Registered(e) == \E q \in Registrations : account[q] # "none" /\ email[q] = e

\* The address is looked up; then the password is hashed and a token made.
Check(r) ==
  /\ RegGoto(r, "start", IF Registered(email[r]) THEN "conflict" ELSE "mail")
  /\ UNCHANGED <<users, email, old, mail, ver, link, logged, owners, cleanups>>

\* The body, the database, the hash, the ids, the mail or the row fails.
RegisterFails(r) ==
  /\ reg[r] \in {"start", "mail", "create"}
  /\ RegGoto(r, reg[r], "failed")
  /\ UNCHANGED <<users, email, old, mail, ver, link, logged, owners, cleanups>>

\* The link is sent before there is an account; an error may come after it.
Mail(r) ==
  /\ \E to \in {"create", "failed"} : RegGoto(r, "mail", to)
  /\ mail' = mail \cup {r}
  /\ UNCHANGED <<users, email, old, ver, link, logged, owners, cleanups>>

TrustsTheCheck(r) == TRUE

\* The email column is unique.
Insertable(r) == ~Registered(email[r])

\* The account with its token and Stats, in one transaction; the cookie.
Create(r) ==
  /\ Insertable(r)
  /\ RegGoto(r, "create", "done")
  /\ account' = [account EXCEPT ![r] = "unverified"]
  /\ expires' = [expires EXCEPT ![r] = "week"]
  /\ token' = [token EXCEPT ![r] = "unused"]
  /\ UNCHANGED <<email, old, mail, ver, link, logged, owners, cleanups>>

-----------------------------------------------------------------------------
(***************************************************************************)
(* UserVerify.                                                             *)
(***************************************************************************)
VerGoto(v, from, to) ==
  /\ ver[v] = from
  /\ ver' = [ver EXCEPT ![v] = to]

IgnoresAge(r) == token[r] = "unused"

IgnoresRow(r) == r \notin old

Usable(r) == token[r] = "unused" /\ r \notin old

\* Somebody follows a link that was sent: the token's row is read and judged.
Verify(v, r) ==
  /\ r \in mail
  /\ VerGoto(v, "start", IF Usable(r) THEN "checked" ELSE "refused")
  /\ link' = [link EXCEPT ![v] = {r}]
  /\ UNCHANGED <<users, email, old, reg, mail, logged, owners, cleanups>>

\* The transaction fails.
VerifyFails(v) ==
  /\ VerGoto(v, "checked", "refused")
  /\ UNCHANGED <<users, email, old, reg, mail, link, logged, owners, cleanups>>

\* The transaction: the token, if it is still there, and the account, which
\* does not expire any more.
Confirm(v) ==
  /\ VerGoto(v, "checked", "verified")
  /\ \E r \in link[v] :
       /\ token' = [token EXCEPT ![r] = IF @ = "unused" THEN "used" ELSE @]
       /\ account' = [account EXCEPT ![r] = "verified"]
       /\ expires' = [expires EXCEPT ![r] = "nil"]
  /\ UNCHANGED <<email, old, reg, mail, link, logged, owners, cleanups>>

-----------------------------------------------------------------------------
(***************************************************************************)
(* UserLogin, which asks for no verification, and the JWT middleware,      *)
(* which does, before any handler that adds a file.                        *)
(***************************************************************************)
Login(r) ==
  /\ account[r] # "none"
  /\ logged' = logged \cup {r}
  /\ UNCHANGED <<users, email, old, reg, mail, ver, link, owners, cleanups>>

Admitted(r) == r \in logged /\ account[r] = "verified"

AddsFile(r) ==
  /\ Admitted(r)
  /\ owners' = owners \cup {r}
  /\ UNCHANGED <<users, email, old, reg, mail, ver, link, logged, cleanups>>

-----------------------------------------------------------------------------
(***************************************************************************)
(* Time.  No request lasts for half an hour, let alone for a week.         *)
(***************************************************************************)
TokenAges(r) ==
  /\ token[r] # "none" \/ r \in mail
  /\ r \notin old
  /\ reg[r] \notin {"mail", "create"}
  /\ old' = old \cup {r}
  /\ UNCHANGED <<users, email, requests, cleanups>>

WeekPasses(r) ==
  /\ expires[r] = "week"
  /\ r \in old
  /\ \A v \in Verifications : ver[v] = "checked" => link[v] # {r}
  /\ expires' = [expires EXCEPT ![r] = "passed"]
  /\ UNCHANGED <<account, token, email, old, requests, cleanups>>

-----------------------------------------------------------------------------
(***************************************************************************)
(* TokenCleanup and AccountCleanup: at a tick one selects, then deletes.   *)
(***************************************************************************)
\* What a statement over a list of ids may delete.  It compares a column with
\* the list by LIKE, which SQLite refuses unless the list is of one.
Deletable(ids) == {{}} \cup {s \in {ids} : Cardinality(s) = 1}

AllTokens == {r \in Registrations : token[r] \in {"unused", "used"}}

\* The tokens that no one can use any more.
Expired == {r \in Registrations : token[r] \in {"unused", "used"} /\ r \in old}

TokenTick ==
  /\ ticking /\ stale = {}
  /\ Expired # {}
  /\ stale' = Expired
  /\ UNCHANGED <<users, email, old, requests, ticking, doomed>>

\* A select that fails ends the goroutine for good.
TokenTickFails ==
  /\ ticking /\ stale = {}
  /\ ticking' = FALSE
  /\ UNCHANGED <<users, email, old, requests, stale, doomed>>

TokenDelete ==
  /\ stale # {}
  /\ \E gone \in Deletable(stale) :
       token' = [r \in Registrations |-> IF r \in gone THEN "cleaned" ELSE token[r]]
  /\ stale' = {}
  /\ UNCHANGED <<account, expires, email, old, requests, ticking, doomed>>

AccountTick ==
  /\ doomed = {}
  /\ \E r \in Registrations : expires[r] = "passed"
  /\ doomed' = {r \in Registrations : expires[r] = "passed"}
  /\ UNCHANGED <<users, email, old, requests, ticking, stale>>

\* The files of the accounts are deleted from the bucket, or some or none of
\* them: two columns are read into a list of strings, which may fail or give
\* anything, and S3 may fail.  The statement that is to delete the accounts names
\* a column the table does not have: it fails.
AccountDelete ==
  /\ doomed # {}
  /\ \E gone \in Deletable(doomed) :
       \E lost \in SUBSET gone : owners' = owners \ lost
  /\ doomed' = {}
  /\ UNCHANGED <<users, email, old, reg, mail, ver, link, logged, ticking, stale>>

-----------------------------------------------------------------------------
Request(r) == Check(r) \/ RegisterFails(r) \/ Mail(r) \/ Create(r)
Visit(r) == Login(r) \/ AddsFile(r)
Time(r) == TokenAges(r) \/ WeekPasses(r)
Verification(v) ==
  VerifyFails(v) \/ Confirm(v) \/ \E r \in Registrations : Verify(v, r)
Cleanup == TokenTick \/ TokenTickFails \/ TokenDelete \/ AccountTick \/ AccountDelete

Next ==
  \/ \E r \in Registrations : Request(r) \/ Visit(r) \/ Time(r)
  \/ \E v \in Verifications : Verification(v)
  \/ Cleanup

Spec == Init /\ [][Next]_vars

-----------------------------------------------------------------------------
\* Types; and an account and its token come together, whoever follows the link
\* before there is an account (register.go sends it first).
TypeOK ==
  /\ reg \in [Registrations ->
                {"start", "conflict", "mail", "create", "done", "failed"}]
  /\ email \in [Registrations -> Emails]
  /\ account \in [Registrations -> {"none", "unverified", "verified"}]
  /\ expires \in [Registrations -> {"nil", "week", "passed"}]
  /\ token \in [Registrations -> {"none", "unused", "used", "cleaned"}]
  /\ ver \in [Verifications -> {"start", "checked", "verified", "refused"}]
  /\ link \in [Verifications -> {{}} \cup {{r} : r \in Registrations}]
  /\ {mail, old, logged, owners, stale, doomed} \subseteq SUBSET Registrations
  /\ ticking \in BOOLEAN
  /\ \A r \in Registrations : account[r] = "none" <=> token[r] = "none"

\* No two accounts share an address, although registrations look it up long
\* before they insert it (register.go:63-83 and 141-153).
EmailsAreUnique ==
  \A r, q \in Registrations :
    account[r] # "none" /\ account[q] # "none" /\ email[r] = email[q] => r = q

\* A link that was sent for an account works for half an hour, until the
\* account is verified: no cleanup takes its token (token_cleanup.go).
LinksWork ==
  \A r \in Registrations :
    account[r] = "unverified" /\ r \notin old => token[r] = "unused"

\* AccountCleanup deletes the files of accounts it selected before: none of
\* them has had the time to be verified and to get files (account_cleanup.go).
DoomedOwnNothing == doomed \cap owners = {}
=============================================================================
