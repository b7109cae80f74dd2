--------------------------- MODULE AccountsProofs ---------------------------
(***************************************************************************)
(* Proofs about Accounts, for any number of registrations, verifications   *)
(* and addresses.                                                          *)
(***************************************************************************)
EXTENDS Accounts, TLAPS

\* A verification that judged a link good has the token of an account, and no
\* week has passed for it.
Checked ==
  \A v \in Verifications : ver[v] = "checked" =>
    \A r \in link[v] : token[r] # "none" /\ expires[r] # "passed"

\* What an account's row says agrees with where its registration is.
Rows ==
  \A r \in Registrations :
    /\ account[r] # "none" => reg[r] = "done"
    /\ expires[r] # "nil" => account[r] = "unverified"
    /\ account[r] = "verified" => expires[r] = "nil"
    /\ expires[r] = "passed" => r \in old

\* What the cleanups selected is still what they selected it for.
Selected ==
  /\ \A r \in stale : r \in old /\ token[r] # "none"
  /\ \A r \in doomed : expires[r] = "passed"
  /\ \A r \in owners : account[r] = "verified"

AccountsInv ==
  TypeOK /\ EmailsAreUnique /\ LinksWork /\ Checked /\ Rows /\ Selected

-----------------------------------------------------------------------------
LEMMA InvInit == Init => AccountsInv
<1> SUFFICES ASSUME Init PROVE AccountsInv
  OBVIOUS
<1>1. TypeOK
  BY DEF Init, TypeOK
<1>2. EmailsAreUnique /\ LinksWork /\ Checked /\ Rows /\ Selected
  BY DEF Init, EmailsAreUnique, LinksWork, Checked, Rows, Selected
<1> QED
  BY <1>1, <1>2 DEF AccountsInv

\* Steps that leave the accounts' rows, the verifications and the cleanups as
\* they are, and take no registration from "done".
LEMMA RegistrationMoves ==
  ASSUME AccountsInv, NEW r \in Registrations, NEW to,
         to \in {"start", "conflict", "mail", "create", "done", "failed"},
         reg[r] # "done", reg' = [reg EXCEPT ![r] = to], mail' \subseteq Registrations,
         UNCHANGED <<users, email, old, ver, link, logged, owners, cleanups>>
  PROVE  AccountsInv'
<1> USE DEF AccountsInv, users, cleanups
<1>1. TypeOK'
  BY DEF TypeOK
<1>2. EmailsAreUnique' /\ LinksWork'
  BY DEF EmailsAreUnique, LinksWork
<1>3. Checked' /\ Selected'
  BY DEF Checked, Selected
<1>4. Rows'
  BY DEF TypeOK, Rows
<1> QED
  BY <1>1, <1>2, <1>3, <1>4

LEMMA CreateKeeps ==
  ASSUME AccountsInv, NEW r \in Registrations, Create(r)
  PROVE  AccountsInv'
<1> USE DEF AccountsInv, Create, RegGoto, cleanups
<1>0. account[r] = "none" /\ token[r] = "none" /\ expires[r] = "nil"
  BY DEF Rows, TypeOK
<1>1. TypeOK'
  BY DEF TypeOK
<1>2. EmailsAreUnique'
  BY DEF EmailsAreUnique, Insertable, Registered, TypeOK
<1>3. LinksWork'
  BY DEF LinksWork, TypeOK
<1>4. Checked'
  BY <1>0 DEF Checked, TypeOK
<1>5. Rows'
  BY DEF Rows, TypeOK
<1>6. Selected'
  BY <1>0 DEF Selected, TypeOK
<1> QED
  BY <1>1, <1>2, <1>3, <1>4, <1>5, <1>6

LEMMA VerifyKeeps ==
  ASSUME AccountsInv, NEW v \in Verifications, NEW r \in Registrations, Verify(v, r)
  PROVE  AccountsInv'
<1> USE DEF AccountsInv, Verify, VerGoto, cleanups, users
<1>1. TypeOK'
  BY DEF TypeOK
<1>2. EmailsAreUnique' /\ LinksWork' /\ Rows' /\ Selected'
  BY DEF EmailsAreUnique, LinksWork, Rows, Selected
<1>3. Checked'
  <2> SUFFICES ASSUME NEW w \in Verifications, ver'[w] = "checked",
                      NEW q \in Registrations, q \in link'[w]
               PROVE  token[q] # "none" /\ expires[q] # "passed"
    BY <1>1 DEF Checked, TypeOK
  <2>1. CASE w = v
    <3>1. q = r /\ Usable(r)
      BY <2>1 DEF TypeOK
    <3> QED
      BY <3>1 DEF Usable, Rows
  <2>2. CASE w # v
    BY <2>2 DEF Checked, TypeOK
  <2> QED
    BY <2>1, <2>2
<1> QED
  BY <1>1, <1>2, <1>3

LEMMA ConfirmKeeps ==
  ASSUME AccountsInv, NEW v \in Verifications, Confirm(v)
  PROVE  AccountsInv'
<1> USE DEF AccountsInv, VerGoto, cleanups
<1>0. PICK r \in link[v] :
        /\ token' = [token EXCEPT ![r] = IF token[r] = "unused" THEN "used" ELSE token[r]]
        /\ account' = [account EXCEPT ![r] = "verified"]
        /\ expires' = [expires EXCEPT ![r] = "nil"]
  BY DEF Confirm
<1>1. /\ ver[v] = "checked" /\ ver' = [ver EXCEPT ![v] = "verified"]
      /\ UNCHANGED <<email, old, reg, mail, link, logged, owners, cleanups>>
  BY DEF Confirm
<1>2. /\ token[r] # "none" /\ account[r] # "none" /\ expires[r] # "passed"
      /\ r \in Registrations
  BY <1>0, <1>1 DEF Checked, TypeOK
<1>3. TypeOK'
  BY <1>0, <1>1, <1>2 DEF TypeOK
<1>4. EmailsAreUnique' /\ LinksWork'
  BY <1>0, <1>1, <1>2 DEF EmailsAreUnique, LinksWork, TypeOK
<1>5. Checked'
  BY <1>0, <1>1, <1>2 DEF Checked, TypeOK
<1>6. Rows'
  BY <1>0, <1>1, <1>2 DEF Rows, TypeOK
<1>7. Selected'
  BY <1>0, <1>1, <1>2 DEF Selected, TypeOK
<1> QED
  BY <1>3, <1>4, <1>5, <1>6, <1>7

LEMMA VisitKeeps ==
  ASSUME AccountsInv, NEW r \in Registrations, Visit(r)
  PROVE  AccountsInv'
<1> USE DEF AccountsInv, cleanups, users
<1>1. /\ UNCHANGED <<users, email, old, reg, mail, ver, link, cleanups>>
      /\ logged' \subseteq Registrations
      /\ owners' \subseteq owners \cup {r}
      /\ (owners' = owners \/ account[r] = "verified")
  BY DEF Visit, Login, AddsFile, Admitted, TypeOK
<1>2. TypeOK'
  BY <1>1 DEF TypeOK
<1>3. EmailsAreUnique' /\ LinksWork' /\ Checked' /\ Rows' /\ Selected'
  BY <1>1 DEF EmailsAreUnique, LinksWork, Checked, Rows, Selected
<1> QED
  BY <1>2, <1>3

LEMMA TimeKeeps ==
  ASSUME AccountsInv, NEW r \in Registrations, Time(r)
  PROVE  AccountsInv'
<1> USE DEF AccountsInv, cleanups, users, requests
<1>1. CASE TokenAges(r)
  <2>1. TypeOK'
    BY <1>1 DEF TokenAges, TypeOK
  <2>2. EmailsAreUnique' /\ LinksWork' /\ Checked' /\ Rows' /\ Selected'
    BY <1>1 DEF TokenAges, EmailsAreUnique, LinksWork, Checked, Rows, Selected
  <2> QED
    BY <2>1, <2>2
<1>2. CASE WeekPasses(r)
  <2>1. TypeOK'
    BY <1>2 DEF WeekPasses, TypeOK
  <2>2. EmailsAreUnique' /\ LinksWork'
    BY <1>2 DEF WeekPasses, EmailsAreUnique, LinksWork
  <2>3. Rows' /\ Selected'
    BY <1>2 DEF WeekPasses, Rows, Selected, TypeOK
  <2>4. Checked'
    <3> SUFFICES ASSUME NEW v \in Verifications, ver[v] = "checked", NEW q \in link[v]
                 PROVE  token[q] # "none" /\ expires'[q] # "passed"
      BY <1>2 DEF WeekPasses, Checked
    <3>1. link[v] = {q} /\ q \in Registrations
      BY DEF TypeOK
    <3>2. q # r
      BY <1>2, <3>1 DEF WeekPasses
    <3> QED
      BY <1>2, <3>1, <3>2 DEF WeekPasses, Checked, TypeOK
  <2> QED
    BY <2>1, <2>2, <2>3, <2>4
<1> QED
  BY <1>1, <1>2 DEF Time

LEMMA CleanupKeeps ==
  ASSUME AccountsInv, Cleanup
  PROVE  AccountsInv'
<1> USE DEF AccountsInv, users, requests
<1>1. CASE TokenDelete
  <2>1. PICK gone \in SUBSET stale :
          /\ token' = [r \in Registrations |-> IF r \in gone THEN "cleaned" ELSE token[r]]
          /\ stale' = {}
          /\ UNCHANGED <<account, expires, email, old, requests, ticking, doomed>>
    BY <1>1 DEF TokenDelete, Deletable
  <2>2. TypeOK'
    <3> SUFFICES ASSUME NEW r \in Registrations
                 PROVE  account[r] = "none" <=> token'[r] = "none"
      BY <2>1 DEF TypeOK
    <3>1. r \in gone => token[r] # "none"
      BY <2>1 DEF Selected
    <3> QED
      BY <2>1, <3>1 DEF TypeOK
  <2>3. EmailsAreUnique' /\ Checked' /\ Rows' /\ Selected'
    BY <2>1 DEF EmailsAreUnique, Checked, Rows, Selected, TypeOK
  <2>4. LinksWork'
    BY <2>1 DEF LinksWork, Selected
  <2> QED
    BY <2>2, <2>3, <2>4
<1>2. CASE TokenTick \/ TokenTickFails
  <2>1. /\ UNCHANGED <<users, email, old, requests, doomed>>
        /\ ticking' \in BOOLEAN /\ stale' \subseteq Registrations
        /\ \A r \in stale' : r \in old /\ token[r] # "none"
    BY <1>2 DEF TokenTick, TokenTickFails, Expired, TypeOK, Selected
  <2>2. TypeOK'
    BY <2>1 DEF TypeOK
  <2>3. EmailsAreUnique' /\ LinksWork' /\ Checked' /\ Rows' /\ Selected'
    BY <2>1 DEF EmailsAreUnique, LinksWork, Checked, Rows, Selected
  <2> QED
    BY <2>2, <2>3
<1>3. CASE AccountTick
  <2>1. TypeOK'
    BY <1>3 DEF AccountTick, TypeOK
  <2>2. EmailsAreUnique' /\ LinksWork' /\ Checked' /\ Rows' /\ Selected'
    BY <1>3 DEF AccountTick, EmailsAreUnique, LinksWork, Checked, Rows, Selected
  <2> QED
    BY <2>1, <2>2
<1>4. CASE AccountDelete
  <2>1. TypeOK'
    BY <1>4 DEF AccountDelete, Deletable, TypeOK
  <2>2. EmailsAreUnique' /\ LinksWork' /\ Checked' /\ Rows' /\ Selected'
    BY <1>4 DEF AccountDelete, EmailsAreUnique, LinksWork, Checked, Rows, Selected
  <2> QED
    BY <2>1, <2>2
<1> QED
  BY <1>1, <1>2, <1>3, <1>4 DEF Cleanup

LEMMA InvStep == AccountsInv /\ [Next]_vars => AccountsInv'
<1> SUFFICES ASSUME AccountsInv, [Next]_vars PROVE AccountsInv'
  OBVIOUS
<1>1. ASSUME NEW r \in Registrations, Request(r) PROVE AccountsInv'
  <2>1. CASE Create(r)
    BY <2>1, CreateKeeps
  <2>2. CASE Check(r) \/ RegisterFails(r) \/ Mail(r)
    <3>1. PICK to \in {"start", "conflict", "mail", "create", "done", "failed"} :
            reg[r] # "done" /\ reg' = [reg EXCEPT ![r] = to]
      BY <2>2 DEF Check, RegisterFails, Mail, RegGoto
    <3>2. /\ mail' \subseteq Registrations
          /\ UNCHANGED <<users, email, old, ver, link, logged, owners, cleanups>>
      BY <2>2 DEF Check, RegisterFails, Mail, AccountsInv, TypeOK
    <3> QED
      BY <3>1, <3>2, RegistrationMoves
  <2> QED
    BY <1>1, <2>1, <2>2 DEF Request
<1>2. ASSUME NEW v \in Verifications, Verification(v) PROVE AccountsInv'
  <2>1. CASE VerifyFails(v)
    <3>1. TypeOK'
      BY <2>1 DEF VerifyFails, VerGoto, AccountsInv, TypeOK, cleanups, users
    <3>2. EmailsAreUnique' /\ LinksWork' /\ Rows' /\ Selected'
      BY <2>1 DEF VerifyFails, VerGoto, AccountsInv, EmailsAreUnique, LinksWork,
         Rows, Selected, cleanups, users
    <3>3. Checked'
      BY <2>1 DEF VerifyFails, VerGoto, AccountsInv, Checked, TypeOK, cleanups, users
    <3> QED
      BY <3>1, <3>2, <3>3 DEF AccountsInv
  <2> QED
    BY <1>2, <2>1, VerifyKeeps, ConfirmKeeps DEF Verification
<1>3. CASE UNCHANGED vars
  <2>1. TypeOK'
    BY <1>3 DEF vars, users, requests, cleanups, AccountsInv, TypeOK
  <2>2. EmailsAreUnique' /\ LinksWork' /\ Checked' /\ Rows' /\ Selected'
    BY <1>3 DEF vars, users, requests, cleanups, AccountsInv, EmailsAreUnique,
       LinksWork, Checked, Rows, Selected
  <2> QED
    BY <2>1, <2>2 DEF AccountsInv
<1> QED
  BY <1>1, <1>2, <1>3, VisitKeeps, TimeKeeps, CleanupKeeps DEF Next

\* The inductive invariant: what a verification judged, what an account's row
\* says and what a cleanup selected still hold when they are used.
THEOREM AccountsInvCorrect == Spec => []AccountsInv
  BY InvInit, InvStep, PTL DEF Spec

-----------------------------------------------------------------------------
\* Types, and an account and its token come together (TypeOK).
THEOREM TypeCorrect == Spec => []TypeOK
<1>1. AccountsInv => TypeOK
  BY DEF AccountsInv
<1> QED
  BY <1>1, AccountsInvCorrect, PTL

\* No two accounts share an address, however many registrations found it free
\* at once (EmailsAreUnique).
THEOREM EmailsStayUnique == Spec => []EmailsAreUnique
<1>1. AccountsInv => EmailsAreUnique
  BY DEF AccountsInv
<1> QED
  BY <1>1, AccountsInvCorrect, PTL

\* No cleanup takes the token of a link that still has time (LinksWork).
THEOREM LinksStayGood == Spec => []LinksWork
<1>1. AccountsInv => LinksWork
  BY DEF AccountsInv
<1> QED
  BY <1>1, AccountsInvCorrect, PTL

\* No account that AccountCleanup selected gets files before they are deleted
\* (DoomedOwnNothing).
THEOREM DoomedStayEmpty == Spec => []DoomedOwnNothing
<1>1. AccountsInv => DoomedOwnNothing
  BY DEF AccountsInv, Rows, Selected, TypeOK, DoomedOwnNothing
<1> QED
  BY <1>1, AccountsInvCorrect, PTL
=============================================================================
