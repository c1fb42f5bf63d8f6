------------------------------ MODULE Accounts ------------------------------
(***************************************************************************)
(* Accounts, passwords and logins: internal/auth/auth.go and accounts.go   *)
(* over the tables of internal/store/users.go.                             *)
(*                                                                         *)
(* A request is a thread that makes one SQL statement or transaction per   *)
(* step; SQLite serialises the statements, everything between them         *)
(* interleaves. Password hashes are modelled by the passwords themselves,  *)
(* a login token by its name and the claim its signature protects. The     *)
(* rate limiter can refuse any request before its first step, which        *)
(* changes nothing here.                                                   *)
(***************************************************************************)
EXTENDS Integers

CONSTANTS
    Users,        \* account numbers, never issued twice (AUTOINCREMENT)
    Admins,       \* the built-in administrator's number
    Passwords,
    Tokens,       \* login tokens, never issued twice (a random nonce each)
    Threads,      \* goroutines serving requests
    None,
    UseMail,      \* cfg.SMTP.Configured()
    MaxRequests   \* bound: requests in one behaviour

ASSUME AccountAssumption ==
    /\ Admins \subseteq Users
    /\ UseMail \in BOOLEAN
    /\ None \notin Users \cup Passwords \cup Tokens

Statuses   == {"none", "active", "disabled", "deleting", "delete_failed", "gone"}
Frozen     == {"deleting", "delete_failed"}
Deliveries == {"manual", "pending", "sent", "failed"}

\* A row of the users table. author is history: who chose the password.
Row == [status : Statuses, password : Passwords, version : Nat,
        mustChange : BOOLEAN, delivery : Deliveries,
        author : {"owner", "admin"}]

\* What a token's signature covers: the account and its version. password and
\* author are history: what its holder proved to know when he logged in.
Claim == [user : Users, version : Nat, password : Passwords,
          author : {"owner", "admin"}]

Steps == {"idle", "login", "auth", "using", "logout", "change", "swap",
          "pending", "manual", "send", "record"}

\* A request and its local variables. seen: the copy of the row it read; old
\* and new: the passwords of the form; outcome: what the mail server answered.
Job == [op : {"none", "login", "use", "logout", "change", "reset", "create"},
        user : Users \cup {None}, token : Tokens \cup {None},
        seen : Row \cup {None}, old : Passwords \cup {None},
        new : Passwords \cup {None}, mail : BOOLEAN,
        outcome : {"sent", "failed"}]
NoJob == [op |-> "none", user |-> None, token |-> None, seen |-> None,
          old |-> None, new |-> None, mail |-> FALSE, outcome |-> "failed"]

VARIABLES
    user,       \* the users table
    claim,      \* the tokens handed out
    logins,     \* the login_sessions table: its rows' tokens
    expired,    \* tokens older than seven days
    mails,      \* history: the credentials mailed
    wasSet,     \* history: the credentials accounts have had
    pc, job,    \* each thread's next step and local variables
    requests

vars == <<user, claim, logins, expired, mails, wasSet, pc, job, requests>>
data == <<user, claim, logins, expired, mails, wasSet>>

TypeOK ==
    /\ user \in [Users -> Row]
    /\ claim \in [Tokens -> Claim \cup {None}]
    /\ logins \subseteq Tokens
    /\ expired \subseteq Tokens
    /\ mails \subseteq Users \X Passwords
    /\ wasSet \subseteq Users \X Passwords
    /\ pc \in [Threads -> Steps]
    /\ job \in [Threads -> Job]
    /\ requests \in Nat

----------------------------------------------------------------------------
(* Helpers                                                                 *)

Issued(t) == claim[t] # None

\* LoginSessionValid: the login's row, joined with the account's.
Usable(t) ==
    /\ t \in logins \ expired
    /\ Issued(t)
    /\ user[claim[t].user].status = "active"
    /\ user[claim[t].user].version = claim[t].version

Submit(h, step, j) ==
    /\ pc[h] = "idle"
    /\ requests < MaxRequests
    /\ requests' = requests + 1
    /\ pc' = [pc EXCEPT ![h] = step]
    /\ job' = [job EXCEPT ![h] = j]

Goto(h, step) == /\ pc' = [pc EXCEPT ![h] = step]
                 /\ UNCHANGED <<job, requests>>

Return(h) == /\ pc' = [pc EXCEPT ![h] = "idle"]
             /\ job' = [job EXCEPT ![h] = NoJob]
             /\ UNCHANGED requests

\* Seeded faults: the version is not incremented.
SetPasswordKeepsVersion(u, p, must, by) ==
    /\ user' = [user EXCEPT ![u] =
                   [user[u] EXCEPT !.password = p, !.mustChange = must, !.author = by]]
    /\ wasSet' = wasSet \cup {<<u, p>>}

SetStatusKeepsVersion(u, s) == user' = [user EXCEPT ![u].status = s]

\* Every change of a password, and of status by an administrator, is one
\* statement that also increments the version.
SetPassword(u, p, must, by) ==
    /\ user' = [user EXCEPT ![u] =
                   [user[u] EXCEPT !.password = p, !.mustChange = must,
                                   !.version = user[u].version + 1, !.author = by]]
    /\ wasSet' = wasSet \cup {<<u, p>>}

SetStatus(u, s) ==
    user' = [user EXCEPT ![u] =
                [user[u] EXCEPT !.status = s, !.version = user[u].version + 1]]

----------------------------------------------------------------------------
(* Logging in: the account is read, the password compared with its hash,   *)
(* and the login inserted only if the account is still at the version read.*)

LoginRead(h, u, p) ==
    /\ user[u].status = "active"
    /\ user[u].password = p
    /\ Submit(h, "login", [NoJob EXCEPT !.op = "login", !.user = u,
                                        !.seen = user[u], !.old = p])
    /\ UNCHANGED data

\* CreateLoginSession: one transaction, which also drops expired logins.
LoginInsert(h) ==
    LET u == job[h].user IN
    /\ pc[h] = "login"
    /\ \/ /\ user[u].status = "active"
          /\ user[u].version = job[h].seen.version
          /\ \E t \in Tokens :
                /\ ~Issued(t)
                /\ claim' = [claim EXCEPT ![t] =
                                [user |-> u, version |-> job[h].seen.version,
                                 password |-> job[h].old,
                                 author |-> job[h].seen.author]]
                /\ logins' = (logins \ expired) \cup {t}
       \/ /\ user[u].status # "active" \/ user[u].version # job[h].seen.version
          /\ UNCHANGED <<claim, logins>>
    /\ Return(h)
    /\ UNCHANGED <<user, expired, mails, wasSet>>

Expire(t) ==
    /\ Issued(t)
    /\ t \notin expired
    /\ expired' = expired \cup {t}
    /\ UNCHANGED <<user, claim, logins, mails, wasSet, pc, job, requests>>

----------------------------------------------------------------------------
(* Every other request carries a token: ValidateToken reads the account,   *)
(* then the login, in two statements.                                      *)

AuthRead(h, t, op, old, new) ==
    /\ Issued(t)
    /\ t \notin expired
    /\ LET u == claim[t].user IN
       /\ user[u].status = "active"
       /\ user[u].version = claim[t].version
       /\ Submit(h, "auth", [NoJob EXCEPT !.op = op, !.user = u, !.token = t,
                             !.seen = user[u], !.old = old, !.new = new])
    /\ UNCHANGED data

\* Seeded fault: the login is looked up without joining the account.
AuthCheckRowOnly(h) ==
    LET valid == job[h].token \in logins \ expired IN
    /\ pc[h] = "auth"
    /\ \/ /\ valid
          /\ \/ job[h].op = "use" /\ ~job[h].seen.mustChange /\ Goto(h, "using")
             \/ job[h].op = "use" /\ job[h].seen.mustChange /\ Return(h)
             \/ job[h].op \in {"logout", "change"} /\ Goto(h, job[h].op)
       \/ ~valid /\ Return(h)
    /\ UNCHANGED data

\* The login is looked up; the request then goes on with the copy of the
\* account read before. RequirePasswordChanged guards everything but changing
\* the password and logging out.
AuthCheck(h) ==
    /\ pc[h] = "auth"
    /\ \/ /\ Usable(job[h].token)
          /\ \/ job[h].op = "use" /\ ~job[h].seen.mustChange /\ Goto(h, "using")
             \/ job[h].op = "use" /\ job[h].seen.mustChange /\ Return(h)
             \/ job[h].op \in {"logout", "change"} /\ Goto(h, job[h].op)
       \/ ~Usable(job[h].token) /\ Return(h)
    /\ UNCHANGED data

\* Whatever the request is for: instances, files, streams.
Use(h) ==
    /\ pc[h] = "using"
    /\ Return(h)
    /\ UNCHANGED data

Logout(h) ==
    /\ pc[h] = "logout"
    /\ logins' = logins \ {job[h].token}
    /\ Return(h)
    /\ UNCHANGED <<user, claim, expired, mails, wasSet>>

----------------------------------------------------------------------------
(* Changing a password: the account is read again, the current password    *)
(* compared, and the new one stored if the version is still the one read.  *)

ChangeRead(h) ==
    LET u == job[h].user IN
    /\ pc[h] = "change"
    /\ \/ /\ user[u].status = "active"
          /\ user[u].password = job[h].old
          /\ job[h].new # job[h].old
          /\ pc' = [pc EXCEPT ![h] = "swap"]
          /\ job' = [job EXCEPT ![h].seen = user[u]]
          /\ UNCHANGED requests
       \/ /\ \/ user[u].status # "active"
             \/ user[u].password # job[h].old
             \/ job[h].new = job[h].old
          /\ Return(h)
    /\ UNCHANGED data

\* An administrator sets a password, his own or a generated one, to be mailed
\* or handed over. "initial": ResendWelcome, only before the first change.
ResetRead(h, u, p, mail, initial) ==
    /\ u \notin Admins
    /\ user[u].status = "active"
    /\ mail => UseMail
    /\ initial => user[u].mustChange /\ mail
    /\ Submit(h, "swap", [NoJob EXCEPT !.op = "reset", !.user = u, !.seen = user[u],
                                       !.new = p, !.mail = mail])
    /\ UNCHANGED data

\* The owner's own password ends the obligation to change it; an
\* administrator's is temporary, and is delivered.
Store(h) ==
    \/ /\ job[h].op = "change"
       /\ SetPassword(job[h].user, job[h].new, FALSE, "owner")
       /\ Return(h)
    \/ /\ job[h].op # "change"
       /\ SetPassword(job[h].user, job[h].new, TRUE, "admin")
       /\ Goto(h, IF job[h].mail THEN "pending" ELSE "manual")

\* Seeded faults: the version is not compared; a conflict is not reported.
SwapUnconditional(h) ==
    /\ pc[h] = "swap"
    /\ user[job[h].user].status = "active"
    /\ Store(h)
    /\ UNCHANGED <<claim, logins, expired, mails>>

SwapIgnoresConflict(h) ==
    LET u == job[h].user IN
    /\ pc[h] = "swap"
    /\ \/ /\ user[u].status = "active"
          /\ user[u].version = job[h].seen.version
          /\ Store(h)
       \/ /\ user[u].status # "active" \/ user[u].version # job[h].seen.version
          /\ UNCHANGED <<user, wasSet>>
          /\ \/ job[h].op = "change" /\ Return(h)
             \/ job[h].op # "change" /\ Goto(h, IF job[h].mail THEN "pending" ELSE "manual")
    /\ UNCHANGED <<claim, logins, expired, mails>>

\* CompareAndUpdateUserPassword, for both.
Swap(h) ==
    LET u == job[h].user IN
    /\ pc[h] = "swap"
    /\ \/ /\ user[u].status = "active"
          /\ user[u].version = job[h].seen.version
          /\ Store(h)
       \/ /\ user[u].status # "active" \/ user[u].version # job[h].seen.version
          /\ Return(h)
          /\ UNCHANGED <<user, wasSet>>
    /\ UNCHANGED <<claim, logins, expired, mails>>

\* The reset-password command: no version is compared.
ResetAdminPassword(u, p) ==
    /\ u \in Admins
    /\ requests < MaxRequests
    /\ requests' = requests + 1
    /\ SetPassword(u, p, FALSE, "owner")
    /\ UNCHANGED <<claim, logins, expired, mails, pc, job>>

----------------------------------------------------------------------------
(* Delivering credentials: outside any transaction, recorded by account.   *)

\* UpdateUserDelivery finds no row once the account is gone; before sending,
\* its error ends the request.
UpdateDelivery(u, d) == user' = [user EXCEPT ![u].delivery =
                                     IF user[u].status = "gone" THEN @ ELSE d]

MarkDelivery(h) ==
    LET u == job[h].user IN
    /\ pc[h] \in {"pending", "manual"}
    /\ UpdateDelivery(u, pc[h])
    /\ \/ pc[h] = "pending" /\ user[u].status # "gone" /\ Goto(h, "send")
       \/ pc[h] = "manual" /\ Return(h)
       \/ user[u].status = "gone" /\ Return(h)
    /\ UNCHANGED <<claim, logins, expired, mails, wasSet>>

\* SendCredentials: a mail server that answers with an error, or not in time,
\* may have taken the mail all the same.
Send(h) ==
    /\ pc[h] = "send"
    /\ \E outcome \in {"sent", "failed"}, arrives \in BOOLEAN :
          /\ outcome = "sent" => arrives
          /\ job' = [job EXCEPT ![h].outcome = outcome]
          /\ mails' = IF arrives THEN mails \cup {<<job[h].user, job[h].new>>}
                      ELSE mails
    /\ pc' = [pc EXCEPT ![h] = "record"]
    /\ UNCHANGED <<user, claim, logins, expired, wasSet, requests>>

Record(h) ==
    /\ pc[h] = "record"
    /\ UpdateDelivery(job[h].user, job[h].outcome)
    /\ Return(h)
    /\ UNCHANGED <<claim, logins, expired, mails, wasSet>>

----------------------------------------------------------------------------
(* Creating, disabling and deleting accounts. Each is one transaction that *)
(* checks again what the administrator's page had read.                    *)

CreateUser(h, u, p, mail) ==
    /\ user[u].status = "none"
    /\ mail => UseMail
    /\ Submit(h, IF mail THEN "send" ELSE "idle",
              IF mail THEN [NoJob EXCEPT !.op = "create", !.user = u, !.new = p,
                                         !.mail = TRUE]
              ELSE NoJob)
    /\ user' = [user EXCEPT ![u] =
                   [status |-> "active", password |-> p, version |-> 1,
                    mustChange |-> TRUE, author |-> "admin",
                    delivery |-> IF mail THEN "pending" ELSE "manual"]]
    /\ wasSet' = wasSet \cup {<<u, p>>}
    /\ UNCHANGED <<claim, logins, expired, mails>>

SetUserStatus(u, s) ==
    /\ u \notin Admins
    /\ user[u].status \in {"active", "disabled"} \ {s}
    /\ requests < MaxRequests
    /\ requests' = requests + 1
    /\ SetStatus(u, s)
    /\ UNCHANGED <<claim, logins, expired, mails, wasSet, pc, job>>

MarkUserDeleting(u) ==
    /\ u \notin Admins
    /\ user[u].status \in {"active", "disabled", "delete_failed"}
    /\ requests < MaxRequests
    /\ requests' = requests + 1
    /\ SetStatus(u, "deleting")
    /\ UNCHANGED <<claim, logins, expired, mails, wasSet, pc, job>>

\* The instances could not all be removed (see Instances), or they were: the
\* row goes, and its logins with it (ON DELETE CASCADE).
SetUserDeletionError(u) ==
    /\ user[u].status = "deleting"
    /\ user' = [user EXCEPT ![u].status = "delete_failed"]
    /\ UNCHANGED <<claim, logins, expired, mails, wasSet, pc, job, requests>>

DeleteUser(u) ==
    /\ user[u].status \in Frozen
    /\ user' = [user EXCEPT ![u].status = "gone"]
    /\ logins' = {t \in logins : claim[t] = None \/ claim[t].user # u}
    /\ UNCHANGED <<claim, expired, mails, wasSet, pc, job, requests>>

\* The client goes away, the database fails or the process dies: the handler
\* ends between two statements.
Interrupt(h) ==
    /\ pc[h] # "idle"
    /\ Return(h)
    /\ UNCHANGED data

----------------------------------------------------------------------------
(* InitDefaultUser has made the administrator; other accounts may exist.   *)
Init ==
    /\ \E p \in Passwords, present \in SUBSET Users :
        /\ Admins \subseteq present
        /\ user = [u \in Users |->
                      [status |-> IF u \in present THEN "active" ELSE "none",
                       password |-> p, version |-> 1, mustChange |-> FALSE,
                       delivery |-> "manual", author |-> "owner"]]
        /\ wasSet = present \X {p}
    /\ claim = [t \in Tokens |-> None]
    /\ logins = {}
    /\ expired = {}
    /\ mails = {}
    /\ pc = [h \in Threads |-> "idle"]
    /\ job = [h \in Threads |-> NoJob]
    /\ requests = 0

Begin(h) ==
    \/ \E u \in Users, p \in Passwords : LoginRead(h, u, p)
    \/ \E t \in Tokens, op \in {"use", "logout"} : AuthRead(h, t, op, None, None)
    \/ \E t \in Tokens, p, q \in Passwords : AuthRead(h, t, "change", p, q)
    \/ \E u \in Users, p \in Passwords, mail, initial \in BOOLEAN :
           ResetRead(h, u, p, mail, initial)
    \/ \E u \in Users, p \in Passwords, mail \in BOOLEAN : CreateUser(h, u, p, mail)

Continue(h) ==
    \/ LoginInsert(h)
    \/ AuthCheck(h)
    \/ Use(h)
    \/ Logout(h)
    \/ ChangeRead(h)
    \/ Swap(h)
    \/ MarkDelivery(h)
    \/ Send(h)
    \/ Record(h)
    \/ Interrupt(h)

Administer(u) ==
    \/ \E p \in Passwords : ResetAdminPassword(u, p)
    \/ \E s \in {"active", "disabled"} : SetUserStatus(u, s)
    \/ MarkUserDeleting(u)
    \/ SetUserDeletionError(u)
    \/ DeleteUser(u)

Next ==
    \/ \E h \in Threads : Begin(h) \/ Continue(h)
    \/ \E u \in Users : Administer(u)
    \/ \E t \in Tokens : Expire(t)

Spec == Init /\ [][Next]_vars

----------------------------------------------------------------------------
(* Properties                                                              *)

\* A login that would be accepted was made with the password the account has
\* now: no order of logging in, changing, resetting, disabling and enabling
\* leaves a login of an older password usable (CreateLoginSession compares the
\* version that the password was checked under).
LoginsKnowThePassword ==
    \A t \in Tokens : Usable(t) => claim[t].password = user[claim[t].user].password

\* A login once unusable is never usable again: not by enabling the account,
\* nor by setting an old password again.
RevokedStaysRevoked ==
    [][\A t \in Tokens : Issued(t) /\ ~Usable(t) => ~Usable(t)']_vars

\* A request is let in to instances only by a login that is usable at that
\* moment, whose password the account's owner chose himself: though the account
\* is read before the login is, a reset in between is never overlooked, and an
\* administrator's temporary password opens nothing.
OnlyOwnersGetIn ==
    [][\A h \in Threads : pc[h] # "using" /\ pc'[h] = "using" =>
          LET t == job[h].token IN
          /\ Usable(t)
          /\ claim[t].author = "owner"
          /\ ~user[claim[t].user].mustChange]_vars

\* A changed or reset password replaces the one its author saw: of two changes
\* under way, or a change and a reset, the later neither undoes the other nor
\* succeeds on a password that is no longer the account's.
ChangesReplaceWhatTheySaw ==
    [][\A h \in Threads : pc[h] = "swap" /\ user' # user =>
          \/ pc'[h] = "swap"
          \/ LET u == job[h].user IN
             /\ user[u].password = job[h].seen.password
             /\ job[h].op = "change" => user[u].password = job[h].old]_vars

\* Nobody is mailed a password that his account never had: a reset that lost a
\* race is not announced.
MailedPasswordsWereSet == mails \subseteq wasSet
=============================================================================
