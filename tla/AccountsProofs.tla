---------------------------- MODULE AccountsProofs ----------------------------
(* Proofs about Accounts, for any number of accounts, tokens and threads. The *)
(* invariant says what a request still knows when it comes to its next        *)
(* statement: whatever it read of an account is still so if the account's     *)
(* version is, because every change of a password or a status to active       *)
(* increments the version.                                                    *)
EXTENDS Accounts, TLAPS

----------------------------------------------------------------------------
(* The invariant.                                                          *)

\* What was read of account u at a version: true as long as that is the version.
Current(u, version, password, author) ==
    /\ user[u].status # "none"
    /\ version <= user[u].version
    /\ version = user[u].version
         => user[u].password = password /\ user[u].author = author

ClaimsHold ==
    \A t \in Tokens : Issued(t) =>
        Current(claim[t].user, claim[t].version, claim[t].password, claim[t].author)

\* Only the owner's own choice ends the obligation to change the password.
Chosen(r) == r.author = "owner" <=> ~r.mustChange

SeenHolds(h) ==
    pc[h] \in {"login", "auth", "swap"} =>
        /\ job[h].user \in Users
        /\ job[h].seen \in Row
        /\ Current(job[h].user, job[h].seen.version, job[h].seen.password,
                   job[h].seen.author)
        /\ Chosen(job[h].seen)

\* What the form said, and what was compared with it.
FormHolds(h) ==
    /\ pc[h] = "login" => job[h].old = job[h].seen.password
    /\ pc[h] \in {"auth", "change"} =>
          /\ job[h].user \in Users
          /\ job[h].op = "change" => job[h].old \in Passwords /\ job[h].new \in Passwords
    /\ pc[h] = "change" => job[h].op = "change"
    /\ pc[h] = "swap" =>
          /\ job[h].new \in Passwords
          /\ job[h].op = "change" => job[h].seen.password = job[h].old

TokenHolds(h) ==
    pc[h] = "auth" =>
        /\ job[h].token \in Tokens
        /\ Issued(job[h].token)
        /\ claim[job[h].token].user = job[h].user
        /\ claim[job[h].token].version = job[h].seen.version

MailHolds(h) ==
    pc[h] \in {"pending", "manual", "send", "record"} =>
        /\ job[h].user \in Users
        /\ job[h].new \in Passwords
        /\ <<job[h].user, job[h].new>> \in wasSet

JobHolds(h) == SeenHolds(h) /\ FormHolds(h) /\ TokenHolds(h) /\ MailHolds(h)

Inv ==
    /\ TypeOK
    /\ ClaimsHold
    /\ \A u \in Users : Chosen(user[u])
    /\ \A u \in Admins : user[u].status # "none"
    /\ \A h \in Threads : JobHolds(h)
    /\ MailedPasswordsWereSet

----------------------------------------------------------------------------
(* What a step does to the tables.                                         *)

\* An account changes its password, or becomes active, only with its version.
Moved(u) ==
    user[u].status # "none" =>
        /\ user'[u].status # "none"
        /\ user[u].version <= user'[u].version
        /\ user[u].version = user'[u].version =>
              /\ user'[u].password = user[u].password
              /\ user'[u].author = user[u].author
              /\ user'[u].status = "active" => user[u].status = "active"

Rows ==
    /\ user' \in [Users -> Row]
    /\ wasSet \subseteq wasSet'
    /\ wasSet' \subseteq Users \X Passwords
    /\ \A u \in Users : Moved(u) /\ Chosen(user'[u])

TokensKept ==
    /\ claim' \in [Tokens -> Claim \cup {None}]
    /\ logins' \subseteq Tokens
    /\ expired' \subseteq Tokens
    /\ expired \subseteq expired'
    /\ \A t \in Tokens : Issued(t) =>
          /\ claim'[t] = claim[t]
          /\ t \in logins' => t \in logins

\* A thread has done nothing, or what it knows now is true.
ThreadsStep ==
    /\ pc' \in [Threads -> Steps]
    /\ job' \in [Threads -> Job]
    /\ requests' \in Nat
    /\ \A g \in Threads : \/ pc'[g] = pc[g] /\ job'[g] = job[g]
                          \/ JobHolds(g)'

Good ==
    /\ Rows
    /\ TokensKept
    /\ ClaimsHold'
    /\ ThreadsStep
    /\ mails' \subseteq wasSet'

LEMMA SamePlace ==
    ASSUME Inv, UNCHANGED user, UNCHANGED wasSet
    PROVE  Rows
  BY DEF Inv, TypeOK, Rows, Moved, Row

LEMMA SameTokens ==
    ASSUME Inv, UNCHANGED <<claim, logins, expired>>
    PROVE  TokensKept
  BY DEF Inv, TypeOK, TokensKept

LEMMA NoJobIsJob == NoJob \in Job
  BY DEF NoJob, Job

\* A change of one row that increments its version.
LEMMA Incremented ==
    ASSUME Inv, NEW u \in Users, NEW r \in Row, r.version = user[u].version + 1,
           r.status # "none", Chosen(r), user' = [user EXCEPT ![u] = r],
           wasSet \subseteq wasSet', wasSet' \subseteq Users \X Passwords
    PROVE  Rows
<1>1. user \in [Users -> Row] /\ user[u].version \in Nat
  BY DEF Inv, TypeOK, Row
<1>2. user'[u] = r /\ \A v \in Users \ {u} : user'[v] = user[v]
  BY <1>1
<1>3. \A v \in Users : Moved(v)
  <2> TAKE v \in Users
  <2>1. CASE v = u
    BY <1>1, <1>2, <2>1 DEF Moved
  <2>2. CASE v # u
    <3>1. user'[v] = user[v] /\ user[v].version \in Nat
      BY <1>1, <1>2, <2>2 DEF Row
    <3> QED BY <3>1 DEF Moved
  <2> QED BY <2>1, <2>2
<1>4. \A v \in Users : Chosen(user'[v])
  BY <1>2 DEF Inv
<1>5. user' \in [Users -> Row]
  BY <1>1
<1> QED BY <1>3, <1>4, <1>5 DEF Rows

\* A change of one row that leaves password, version and author alone.
LEMMA Kept ==
    ASSUME Inv, NEW u \in Users, NEW r \in Row, r.version = user[u].version,
           r.password = user[u].password, r.author = user[u].author,
           r.mustChange = user[u].mustChange,
           r.status = user[u].status \/ r.status \notin {"none", "active"},
           user' = [user EXCEPT ![u] = r], UNCHANGED wasSet
    PROVE  Rows
<1>1. user \in [Users -> Row] /\ user[u].version \in Nat
  BY DEF Inv, TypeOK, Row
<1>2. user'[u] = r /\ \A v \in Users \ {u} : user'[v] = user[v]
  BY <1>1
<1>3. \A v \in Users : Moved(v)
  <2> TAKE v \in Users
  <2>1. CASE v = u
    BY <1>1, <1>2, <2>1 DEF Moved
  <2>2. CASE v # u
    <3>1. user'[v] = user[v] /\ user[v].version \in Nat
      BY <1>1, <1>2, <2>2 DEF Row
    <3> QED BY <3>1 DEF Moved
  <2> QED BY <2>1, <2>2
<1>4. \A v \in Users : Chosen(user'[v])
  BY <1>2 DEF Inv, Chosen
<1>5. user' \in [Users -> Row]
  BY <1>1
<1> QED BY <1>3, <1>4, <1>5 DEF Rows, Inv, TypeOK

\* What every statement that sets a password, or a status, does to the rows.
LEMMA SetPasswordRows ==
    ASSUME Inv, NEW u \in Users, NEW p \in Passwords, NEW must \in BOOLEAN,
           NEW by \in {"owner", "admin"}, by = "owner" <=> ~must,
           user[u].status # "none", SetPassword(u, p, must, by)
    PROVE  Rows /\ <<u, p>> \in wasSet'
<1> DEFINE r == [user[u] EXCEPT !.password = p, !.mustChange = must,
                                !.version = user[u].version + 1, !.author = by]
<1>1. user[u] \in Row
  BY DEF Inv, TypeOK
<1>2. user[u].version + 1 \in Nat
  BY <1>1 DEF Row
<1>3. r.version = user[u].version + 1 /\ r.status = user[u].status
  BY <1>1 DEF Row
<1>4. r \in Row
  BY <1>1, <1>2 DEF Row
<1>5. r.author = by /\ r.mustChange = must
  BY <1>1 DEF Row
<1>6. Chosen(r)
  BY <1>5, Zenon DEF Chosen
<1>7. user' = [user EXCEPT ![u] = r] /\ wasSet' = wasSet \cup {<<u, p>>}
  BY DEF SetPassword
<1>8. wasSet \subseteq wasSet' /\ wasSet' \subseteq Users \X Passwords
  BY <1>7 DEF Inv, TypeOK
<1> HIDE DEF r
<1> QED BY <1>3, <1>4, <1>6, <1>7, <1>8, Incremented

LEMMA SetStatusRows ==
    ASSUME Inv, NEW u \in Users, NEW s \in Statuses, s # "none",
           SetStatus(u, s), UNCHANGED wasSet
    PROVE  Rows
<1> DEFINE r == [user[u] EXCEPT !.status = s, !.version = user[u].version + 1]
<1>1. user[u] \in Row /\ Chosen(user[u])
  BY DEF Inv, TypeOK
<1>2. user[u].version + 1 \in Nat
  BY <1>1 DEF Row
<1>3. r.version = user[u].version + 1 /\ r.status = s
  BY <1>1 DEF Row
<1>4. r \in Row
  BY <1>1, <1>2 DEF Row
<1>5. r.author = user[u].author /\ r.mustChange = user[u].mustChange
  BY <1>1 DEF Row
<1>6. Chosen(r)
  BY <1>5, <1>1, Zenon DEF Chosen
<1>7. user' = [user EXCEPT ![u] = r]
  BY DEF SetStatus
<1>8. wasSet \subseteq wasSet' /\ wasSet' \subseteq Users \X Passwords
  BY DEF Inv, TypeOK
<1> HIDE DEF r
<1> QED BY <1>3, <1>4, <1>6, <1>7, <1>8, Incremented

LEMMA UpdateDeliveryRows ==
    ASSUME Inv, NEW u \in Users, NEW d \in Deliveries,
           UpdateDelivery(u, d), UNCHANGED wasSet
    PROVE  Rows
<1> DEFINE r == [user[u] EXCEPT !.delivery = IF user[u].status = "gone"
                                             THEN user[u].delivery ELSE d]
<1>1. user[u] \in Row /\ user \in [Users -> Row]
  BY DEF Inv, TypeOK
<1>2. /\ r \in Row /\ r.version = user[u].version /\ r.password = user[u].password
      /\ r.author = user[u].author /\ r.mustChange = user[u].mustChange
      /\ r.status = user[u].status
  BY <1>1 DEF Row
<1>3. user' = [user EXCEPT ![u] = r]
  BY <1>1 DEF UpdateDelivery
<1> HIDE DEF r
<1> QED BY <1>2, <1>3, Kept

----------------------------------------------------------------------------
(* What a step leaves known.                                               *)

LEMMA CurrentKept ==
    ASSUME Inv, Rows, NEW u \in Users, NEW v \in Nat, NEW p, NEW a, Current(u, v, p, a)
    PROVE  Current(u, v, p, a)'
<1>1. user[u].version \in Nat /\ user'[u].version \in Nat
  BY DEF Inv, TypeOK, Rows, Row
<1>2. Moved(u)
  BY DEF Rows
<1> QED BY <1>1, <1>2 DEF Moved, Current

LEMMA ClaimsKept ==
    ASSUME Inv, Rows, NEW t \in Tokens, Issued(t), claim'[t] = claim[t]
    PROVE  Current(claim[t].user, claim[t].version, claim[t].password,
                   claim[t].author)'
<1>1. claim[t] \in Claim
  BY DEF Inv, TypeOK, Issued
<1>2. /\ claim[t].user \in Users
      /\ claim[t].version \in Nat
      /\ Current(claim[t].user, claim[t].version, claim[t].password, claim[t].author)
  BY <1>1 DEF Claim, Inv, ClaimsHold
<1>3. ASSUME NEW c, c = claim[t]
      PROVE  Current(c.user, c.version, c.password, c.author)'
  BY <1>2, <1>3, CurrentKept
<1>4. \A c : c = claim[t] => Current(c.user, c.version, c.password, c.author)'
  BY <1>3
<1> QED BY <1>4 DEF Current

LEMMA SameClaims ==
    ASSUME Inv, Rows, UNCHANGED claim
    PROVE  ClaimsHold'
<1>1. \A t \in Tokens : Issued(t) =>
         Current(claim[t].user, claim[t].version, claim[t].password, claim[t].author)'
  BY ClaimsKept
<1> QED BY <1>1 DEF ClaimsHold, Issued

\* What a thread that does nothing knows stays true.
LEMMA OthersKnow ==
    ASSUME Inv, Rows, TokensKept, NEW g \in Threads,
           pc'[g] = pc[g], job'[g] = job[g]
    PROVE  JobHolds(g)'
<1>1. JobHolds(g) /\ job[g] \in Job
  BY DEF Inv, TypeOK
<1>2. SeenHolds(g)'
  <2> SUFFICES ASSUME pc[g] \in {"login", "auth", "swap"}
               PROVE  /\ job[g].user \in Users
                      /\ job[g].seen \in Row
                      /\ Current(job[g].user, job[g].seen.version,
                                 job[g].seen.password, job[g].seen.author)'
                      /\ Chosen(job[g].seen)
    BY DEF SeenHolds, Current, Chosen
  <2>1. /\ job[g].user \in Users /\ job[g].seen \in Row /\ Chosen(job[g].seen)
        /\ Current(job[g].user, job[g].seen.version,
                   job[g].seen.password, job[g].seen.author)
    BY <1>1 DEF JobHolds, SeenHolds
  <2>2. ASSUME NEW c, c = job[g]
        PROVE  Current(c.user, c.seen.version, c.seen.password, c.seen.author)'
    <3>1. c.seen.version \in Nat
      BY <2>1, <2>2 DEF Row
    <3> QED BY <2>1, <2>2, <3>1, CurrentKept
  <2>3. \A c : c = job[g] => Current(c.user, c.seen.version, c.seen.password,
                                     c.seen.author)'
    BY <2>2
  <2> QED BY <2>1, <2>3 DEF Current
<1>3. FormHolds(g)'
  BY <1>1 DEF JobHolds, FormHolds
<1>4. TokenHolds(g)'
  BY <1>1 DEF JobHolds, TokenHolds, TokensKept, Issued
<1>5. MailHolds(g)'
  BY <1>1 DEF JobHolds, MailHolds, Rows
<1> QED BY <1>2, <1>3, <1>4, <1>5 DEF JobHolds

LEMMA GoodKeepsInv ==
    ASSUME Inv, Good
    PROVE  Inv'
<1>1. TypeOK'
  <2>1. mails' \subseteq Users \X Passwords
    BY DEF Good, Rows
  <2> QED BY <2>1 DEF Good, Rows, TokensKept, ThreadsStep, TypeOK
<1>2. \A u \in Users : Chosen(user[u])'
  BY DEF Good, Rows, Chosen
<1>3. \A h \in Threads : JobHolds(h)'
  BY OthersKnow DEF Good, ThreadsStep
<1>4. \A u \in Admins : (user[u].status # "none")'
  BY AccountAssumption DEF Good, Rows, Moved, Inv
<1> QED BY <1>1, <1>2, <1>3, <1>4 DEF Good, Inv, MailedPasswordsWereSet

\* A request ends, or moves on, or begins.
LEMMA Returned ==
    ASSUME Inv, NEW h \in Threads, Return(h)
    PROVE  ThreadsStep
<1>1. JobHolds(h)'
  BY DEF Return, Inv, TypeOK, JobHolds, SeenHolds, FormHolds, TokenHolds, MailHolds
<1>2. "idle" \in Steps
  BY DEF Steps
<1> QED BY <1>1, <1>2, NoJobIsJob DEF Return, Inv, TypeOK, ThreadsStep

LEMMA WentOn ==
    ASSUME Inv, NEW h \in Threads, NEW next \in Steps, Goto(h, next), JobHolds(h)'
    PROVE  ThreadsStep
  BY DEF Goto, Inv, TypeOK, ThreadsStep

LEMMA Submitted ==
    ASSUME Inv, NEW h \in Threads, NEW step \in Steps, NEW j \in Job,
           Submit(h, step, j), JobHolds(h)'
    PROVE  ThreadsStep
  BY DEF Submit, Inv, TypeOK, ThreadsStep
----------------------------------------------------------------------------
(* Every action leaves what Good says.                                     *)

\* The facts that most actions need: the tables they leave alone.
LEMMA OnlyThreads ==
    ASSUME Inv, UNCHANGED data, ThreadsStep
    PROVE  Good
<1>1. Rows /\ TokensKept
  BY SamePlace, SameTokens DEF data
<1>2. ClaimsHold'
  BY <1>1, SameClaims DEF data
<1> QED BY <1>1, <1>2 DEF Good, data, Inv, MailedPasswordsWereSet

LEMMA OnlyRows ==
    ASSUME Inv, Rows, UNCHANGED <<claim, logins, expired, mails>>, ThreadsStep
    PROVE  Good
<1>1. TokensKept /\ ClaimsHold'
  BY SameTokens, SameClaims
<1> QED BY <1>1 DEF Good, Inv, MailedPasswordsWereSet, Rows

LEMMA OnlyRequests ==
    ASSUME Inv, UNCHANGED <<pc, job>>, requests' \in Nat
    PROVE  ThreadsStep
  BY DEF Inv, TypeOK, ThreadsStep

\* A row that was read is current.
LEMMA JustRead ==
    ASSUME Inv, NEW u \in Users, user[u].status = "active"
    PROVE  /\ user[u] \in Row
           /\ Current(u, user[u].version, user[u].password, user[u].author)
           /\ Chosen(user[u])
  BY DEF Inv, TypeOK, Row, Current

LEMMA LoginReadGood ==
    ASSUME Inv, NEW h \in Threads, NEW u \in Users, NEW p \in Passwords,
           LoginRead(h, u, p)
    PROVE  Good
<1> DEFINE j == [NoJob EXCEPT !.op = "login", !.user = u, !.seen = user[u], !.old = p]
<1>1. user[u].status = "active" /\ user[u].password = p /\ UNCHANGED data
  BY DEF LoginRead
<1>2. Submit(h, "login", j)
  BY DEF LoginRead
<1>3. /\ user[u] \in Row /\ Chosen(user[u])
      /\ Current(u, user[u].version, user[u].password, user[u].author)
  BY <1>1, JustRead
<1>4. /\ j \in Job /\ j.user = u /\ j.seen = user[u] /\ j.old = p
  BY <1>3 DEF NoJob, Job
<1> HIDE DEF j
<1>5. pc'[h] = "login" /\ job'[h] = j /\ "login" \in Steps
  BY <1>2 DEF Submit, Inv, TypeOK, Steps
<1>6. JobHolds(h)'
  <2>1. SeenHolds(h)'
    BY <1>1, <1>3, <1>4, <1>5 DEF SeenHolds, Current, Chosen, data
  <2> QED BY <2>1, <1>1, <1>4, <1>5
          DEF JobHolds, FormHolds, TokenHolds, MailHolds
<1> QED BY <1>1, <1>2, <1>4, <1>5, <1>6, Submitted, OnlyThreads

LEMMA LoginInsertGood ==
    ASSUME Inv, NEW h \in Threads, LoginInsert(h)
    PROVE  Good
<1> DEFINE u == job[h].user
<1>1. Return(h) /\ UNCHANGED <<user, expired, mails, wasSet>> /\ pc[h] = "login"
  BY DEF LoginInsert
<1>2. ThreadsStep /\ Rows
  BY <1>1, Returned, SamePlace
<1>3. CASE UNCHANGED <<claim, logins>>
  BY <1>1, <1>2, <1>3, OnlyThreads DEF data
<1>4. CASE \E t \in Tokens :
              /\ ~Issued(t)
              /\ claim' = [claim EXCEPT ![t] =
                              [user |-> u, version |-> job[h].seen.version,
                               password |-> job[h].old,
                               author |-> job[h].seen.author]]
              /\ logins' = (logins \ expired) \cup {t}
  <2>1. PICK t \in Tokens :
              /\ ~Issued(t)
              /\ claim' = [claim EXCEPT ![t] =
                              [user |-> u, version |-> job[h].seen.version,
                               password |-> job[h].old,
                               author |-> job[h].seen.author]]
              /\ logins' = (logins \ expired) \cup {t}
    BY <1>4
  <2>2. /\ u \in Users /\ job[h].seen \in Row
        /\ Current(u, job[h].seen.version, job[h].seen.password, job[h].seen.author)
        /\ job[h].old = job[h].seen.password
    BY <1>1 DEF Inv, JobHolds, SeenHolds, FormHolds
  <2> DEFINE c == [user |-> u, version |-> job[h].seen.version,
                   password |-> job[h].old, author |-> job[h].seen.author]
  <2>3. c \in Claim
    BY <2>2 DEF Claim, Row
  <2>4. /\ Current(c.user, c.version, c.password, c.author)
    BY <2>2
  <2>5. claim' = [claim EXCEPT ![t] = c] /\ claim \in [Tokens -> Claim \cup {None}]
    BY <2>1 DEF Inv, TypeOK
  <2> HIDE DEF c
  <2>6. claim'[t] = c /\ \A s \in Tokens \ {t} : claim'[s] = claim[s]
    BY <2>5
  <2>7. TokensKept
    BY <1>1, <2>1, <2>3, <2>5, <2>6 DEF TokensKept, Inv, TypeOK
  <2>8. ClaimsHold'
    <3> SUFFICES ASSUME NEW s \in Tokens, Issued(s)'
                 PROVE  Current(claim[s].user, claim[s].version,
                                claim[s].password, claim[s].author)'
      BY DEF ClaimsHold
    <3>1. CASE s = t
      BY <1>1, <2>4, <2>6, <3>1 DEF Current
    <3>2. CASE s # t
      <4>1. claim'[s] = claim[s] /\ Issued(s)
        BY <2>6, <3>2 DEF Issued
      <4> QED BY <1>2, <4>1, ClaimsKept DEF Current
    <3> QED BY <3>1, <3>2
  <2> QED BY <1>1, <1>2, <2>7, <2>8 DEF Good, Inv, MailedPasswordsWereSet
<1> QED BY <1>3, <1>4 DEF LoginInsert

LEMMA ExpireGood ==
    ASSUME Inv, NEW t \in Tokens, Expire(t)
    PROVE  Good
<1>1. /\ expired' = expired \cup {t}
      /\ UNCHANGED <<user, claim, logins, mails, wasSet, pc, job, requests>>
  BY DEF Expire
<1>2. Rows /\ TokensKept /\ ThreadsStep
  BY <1>1, SamePlace DEF TokensKept, ThreadsStep, Inv, TypeOK
<1> QED BY <1>1, <1>2, SameClaims DEF Good, Inv, MailedPasswordsWereSet

LEMMA AuthReadGood ==
    ASSUME Inv, NEW h \in Threads, NEW t \in Tokens,
           NEW op \in {"use", "logout", "change"},
           NEW old \in Passwords \cup {None}, NEW new \in Passwords \cup {None},
           op = "change" => old \in Passwords /\ new \in Passwords,
           AuthRead(h, t, op, old, new)
    PROVE  Good
<1> DEFINE u == claim[t].user
           j == [NoJob EXCEPT !.op = op, !.user = u, !.token = t,
                              !.seen = user[u], !.old = old, !.new = new]
<1>1. /\ Issued(t) /\ user[u].status = "active" /\ user[u].version = claim[t].version
      /\ Submit(h, "auth", j) /\ UNCHANGED data
  BY DEF AuthRead
<1>2. u \in Users
  BY <1>1 DEF Inv, TypeOK, Issued, Claim
<1>3. /\ user[u] \in Row /\ Chosen(user[u])
      /\ Current(u, user[u].version, user[u].password, user[u].author)
  BY <1>1, <1>2, JustRead
<1>4. /\ j \in Job /\ j.user = u /\ j.seen = user[u] /\ j.old = old
      /\ j.new = new /\ j.token = t /\ j.op = op
  BY <1>2, <1>3 DEF NoJob, Job
<1> HIDE DEF j
<1>5. pc'[h] = "auth" /\ job'[h] = j /\ "auth" \in Steps
  BY <1>1 DEF Submit, Inv, TypeOK, Steps
<1>6. JobHolds(h)'
  <2>1. SeenHolds(h)'
    BY <1>1, <1>2, <1>3, <1>4, <1>5 DEF SeenHolds, Current, Chosen, data
  <2>2. FormHolds(h)' /\ TokenHolds(h)'
    BY <1>1, <1>2, <1>4, <1>5 DEF FormHolds, TokenHolds, Issued, data
  <2> QED BY <2>1, <2>2, <1>5 DEF JobHolds, MailHolds
<1> QED BY <1>1, <1>4, <1>5, <1>6, Submitted, OnlyThreads

LEMMA AuthCheckGood ==
    ASSUME Inv, NEW h \in Threads, AuthCheck(h)
    PROVE  Good
<1>1. UNCHANGED data /\ pc[h] = "auth"
  BY DEF AuthCheck
<1>2. CASE Return(h)
  BY <1>1, <1>2, Returned, OnlyThreads
<1>3. CASE Goto(h, "using")
  <2>1. pc'[h] = "using" /\ "using" \in Steps
    BY <1>3 DEF Goto, Inv, TypeOK, Steps
  <2>2. JobHolds(h)'
    BY <2>1 DEF JobHolds, SeenHolds, FormHolds, TokenHolds, MailHolds
  <2> QED BY <1>1, <1>3, <2>1, <2>2, WentOn, OnlyThreads
<1>4. CASE job[h].op \in {"logout", "change"} /\ Goto(h, job[h].op)
  <2>1. /\ pc'[h] = job[h].op /\ job' = job /\ pc'[h] \in {"logout", "change"}
        /\ job[h].op \in Steps
    BY <1>4 DEF Goto, Inv, TypeOK, Steps
  <2>2. FormHolds(h)
    BY DEF Inv, JobHolds
  <2>3. JobHolds(h)'
    BY <1>1, <2>1, <2>2 DEF JobHolds, SeenHolds, FormHolds, TokenHolds, MailHolds
  <2> QED BY <1>1, <1>4, <2>1, <2>3, WentOn, OnlyThreads
<1> QED BY <1>2, <1>3, <1>4 DEF AuthCheck

LEMMA LogoutGood ==
    ASSUME Inv, NEW h \in Threads, Logout(h)
    PROVE  Good
<1>1. /\ logins' = logins \ {job[h].token} /\ Return(h)
      /\ UNCHANGED <<user, claim, expired, mails, wasSet>>
  BY DEF Logout
<1>2. Rows /\ ThreadsStep /\ TokensKept
  BY <1>1, SamePlace, Returned DEF TokensKept, Inv, TypeOK
<1> QED BY <1>1, <1>2, SameClaims DEF Good, Inv, MailedPasswordsWereSet

LEMMA ChangeReadGood ==
    ASSUME Inv, NEW h \in Threads, ChangeRead(h)
    PROVE  Good
<1> DEFINE u == job[h].user
<1>1. UNCHANGED data /\ pc[h] = "change"
  BY DEF ChangeRead
<1>2. CASE Return(h)
  BY <1>1, <1>2, Returned, OnlyThreads
<1>3. CASE /\ user[u].status = "active"
           /\ user[u].password = job[h].old
           /\ pc' = [pc EXCEPT ![h] = "swap"]
           /\ job' = [job EXCEPT ![h].seen = user[u]]
           /\ UNCHANGED requests
  <2>1. /\ u \in Users /\ job[h].op = "change"
        /\ job[h].old \in Passwords /\ job[h].new \in Passwords
    BY <1>1 DEF Inv, JobHolds, FormHolds
  <2>2. /\ user[u] \in Row /\ Chosen(user[u])
        /\ Current(u, user[u].version, user[u].password, user[u].author)
    BY <1>3, <2>1, JustRead
  <2>3. pc'[h] = "swap" /\ job[h] \in Job /\ job'[h] = [job[h] EXCEPT !.seen = user[u]]
    BY <1>3 DEF Inv, TypeOK
  <2>4. /\ job'[h] \in Job /\ job'[h].user = u /\ job'[h].seen = user[u]
        /\ job'[h].old = job[h].old /\ job'[h].new = job[h].new
        /\ job'[h].op = "change"
    BY <2>1, <2>2, <2>3 DEF Job
  <2>5. SeenHolds(h)'
    BY <1>1, <2>1, <2>2, <2>3, <2>4 DEF SeenHolds, Current, Chosen, data
  <2>6. JobHolds(h)'
    BY <1>3, <2>1, <2>3, <2>4, <2>5 DEF JobHolds, FormHolds, TokenHolds, MailHolds
  <2>7. ThreadsStep
    BY <1>3, <2>4, <2>6 DEF ThreadsStep, Inv, TypeOK, Steps
  <2> QED BY <1>1, <2>7, OnlyThreads
<1> QED BY <1>2, <1>3 DEF ChangeRead

LEMMA ResetReadGood ==
    ASSUME Inv, NEW h \in Threads, NEW u \in Users, NEW p \in Passwords,
           NEW mail \in BOOLEAN, NEW initial \in BOOLEAN,
           ResetRead(h, u, p, mail, initial)
    PROVE  Good
<1> DEFINE j == [NoJob EXCEPT !.op = "reset", !.user = u, !.seen = user[u],
                              !.new = p, !.mail = mail]
<1>1. user[u].status = "active" /\ Submit(h, "swap", j) /\ UNCHANGED data
  BY DEF ResetRead
<1>2. /\ user[u] \in Row /\ Chosen(user[u])
      /\ Current(u, user[u].version, user[u].password, user[u].author)
  BY <1>1, JustRead
<1>3. /\ j \in Job /\ j.user = u /\ j.seen = user[u] /\ j.new = p /\ j.op = "reset"
  BY <1>2 DEF NoJob, Job
<1> HIDE DEF j
<1>4. pc'[h] = "swap" /\ job'[h] = j /\ "swap" \in Steps
  BY <1>1 DEF Submit, Inv, TypeOK, Steps
<1>5. SeenHolds(h)'
  BY <1>1, <1>2, <1>3, <1>4 DEF SeenHolds, Current, Chosen, data
<1>6. JobHolds(h)'
  BY <1>3, <1>4, <1>5 DEF JobHolds, FormHolds, TokenHolds, MailHolds
<1> QED BY <1>1, <1>3, <1>4, <1>6, Submitted, OnlyThreads

\* What a request that is to store a password has in hand.
LEMMA InSwap ==
    ASSUME Inv, NEW h \in Threads, pc[h] = "swap"
    PROVE  /\ job[h].user \in Users /\ job[h].new \in Passwords
           /\ Current(job[h].user, job[h].seen.version, job[h].seen.password,
                      job[h].seen.author)
           /\ job[h].op = "change" => job[h].seen.password = job[h].old
  BY DEF Inv, JobHolds, SeenHolds, FormHolds

LEMMA StoreGood ==
    ASSUME Inv, NEW h \in Threads, pc[h] = "swap", user[job[h].user].status # "none",
           Store(h), UNCHANGED <<claim, logins, expired, mails>>
    PROVE  Good
<1> DEFINE next == IF job[h].mail THEN "pending" ELSE "manual"
<1>1. job[h].user \in Users /\ job[h].new \in Passwords
  BY InSwap
<1>2. CASE SetPassword(job[h].user, job[h].new, FALSE, "owner") /\ Return(h)
  BY <1>1, <1>2, SetPasswordRows, Returned, OnlyRows
<1>3. CASE SetPassword(job[h].user, job[h].new, TRUE, "admin") /\ Goto(h, next)
  <2>1. Rows /\ <<job[h].user, job[h].new>> \in wasSet'
    BY <1>1, <1>3, SetPasswordRows
  <2>2. /\ pc'[h] = next /\ job' = job
        /\ next \in {"pending", "manual"} /\ next \in Steps
    BY <1>3 DEF Goto, Inv, TypeOK, Steps
  <2>3. JobHolds(h)'
    BY <1>1, <2>1, <2>2 DEF JobHolds, SeenHolds, FormHolds, TokenHolds, MailHolds
  <2> QED BY <1>3, <2>1, <2>2, <2>3, WentOn, OnlyRows
<1> QED BY <1>2, <1>3 DEF Store

LEMMA SwapGood ==
    ASSUME Inv, NEW h \in Threads, Swap(h)
    PROVE  Good
<1>1. /\ pc[h] = "swap" /\ UNCHANGED <<claim, logins, expired, mails>>
      /\ \/ user[job[h].user].status = "active" /\ Store(h)
         \/ Return(h) /\ UNCHANGED <<user, wasSet>>
  BY DEF Swap
<1>2. CASE Return(h) /\ UNCHANGED <<user, wasSet>>
  BY <1>1, <1>2, Returned, OnlyThreads DEF data
<1>3. CASE user[job[h].user].status = "active" /\ Store(h)
  BY <1>1, <1>3, StoreGood
<1> QED BY <1>1, <1>2, <1>3

LEMMA ResetAdminPasswordGood ==
    ASSUME Inv, NEW u \in Users, NEW p \in Passwords,
           ResetAdminPassword(u, p)
    PROVE  Good
<1>1. Rows
  <2>1. user[u].status # "none" /\ SetPassword(u, p, FALSE, "owner")
    BY DEF ResetAdminPassword, Inv
  <2> QED BY <2>1, SetPasswordRows
<1>2. ThreadsStep
  BY OnlyRequests DEF ResetAdminPassword, Inv, TypeOK
<1> QED BY <1>1, <1>2, OnlyRows DEF ResetAdminPassword

\* Credentials under way.
LEMMA InMail ==
    ASSUME Inv, NEW h \in Threads, pc[h] \in {"pending", "manual", "send", "record"}
    PROVE  /\ job[h].user \in Users /\ job[h].new \in Passwords
           /\ <<job[h].user, job[h].new>> \in wasSet
  BY DEF Inv, JobHolds, MailHolds

LEMMA MarkDeliveryGood ==
    ASSUME Inv, NEW h \in Threads, MarkDelivery(h)
    PROVE  Good
<1>1. /\ pc[h] \in {"pending", "manual"} /\ UpdateDelivery(job[h].user, pc[h])
      /\ UNCHANGED <<claim, logins, expired, mails, wasSet>>
  BY DEF MarkDelivery
<1>2. Rows
  BY <1>1, InMail, UpdateDeliveryRows DEF Deliveries
<1>3. CASE Return(h)
  BY <1>1, <1>2, <1>3, Returned, OnlyRows
<1>4. CASE Goto(h, "send")
  <2>1. pc'[h] = "send" /\ job' = job /\ "send" \in Steps
    BY <1>4 DEF Goto, Inv, TypeOK, Steps
  <2>2. JobHolds(h)'
    BY <1>1, <2>1, InMail DEF JobHolds, SeenHolds, FormHolds, TokenHolds, MailHolds
  <2> QED BY <1>1, <1>2, <1>4, <2>1, <2>2, WentOn, OnlyRows
<1> QED BY <1>3, <1>4 DEF MarkDelivery

LEMMA SendGood ==
    ASSUME Inv, NEW h \in Threads, Send(h)
    PROVE  Good
<1>1. /\ pc[h] = "send" /\ pc' = [pc EXCEPT ![h] = "record"]
      /\ UNCHANGED <<user, claim, logins, expired, wasSet, requests>>
  BY DEF Send
<1>2. PICK outcome \in {"sent", "failed"} : job' = [job EXCEPT ![h].outcome = outcome]
  BY DEF Send
<1>3. mails' \subseteq mails \cup {<<job[h].user, job[h].new>>}
  BY DEF Send
<1>4. /\ job[h].user \in Users /\ job[h].new \in Passwords
      /\ <<job[h].user, job[h].new>> \in wasSet
  BY <1>1, InMail
<1>5. Rows /\ TokensKept /\ ClaimsHold'
  BY <1>1, SamePlace, SameTokens, SameClaims
<1>6. job[h] \in Job /\ job'[h] = [job[h] EXCEPT !.outcome = outcome]
  BY <1>2 DEF Inv, TypeOK
<1>7. job'[h] \in Job /\ job'[h].user = job[h].user /\ job'[h].new = job[h].new
  BY <1>6 DEF Job
<1>8. JobHolds(h)'
  <2>1. pc'[h] = "record"
    BY <1>1 DEF Inv, TypeOK
  <2> QED BY <1>1, <1>4, <1>7, <2>1 DEF JobHolds, SeenHolds, FormHolds, TokenHolds, MailHolds
<1>9. ThreadsStep
  BY <1>1, <1>2, <1>7, <1>8 DEF ThreadsStep, Inv, TypeOK, Steps
<1> QED BY <1>1, <1>3, <1>4, <1>5, <1>9 DEF Good, Inv, MailedPasswordsWereSet

LEMMA RecordGood ==
    ASSUME Inv, NEW h \in Threads, Record(h)
    PROVE  Good
<1>1. /\ pc[h] = "record" /\ UpdateDelivery(job[h].user, job[h].outcome) /\ Return(h)
      /\ UNCHANGED <<claim, logins, expired, mails, wasSet>>
  BY DEF Record
<1>2. job[h].outcome \in Deliveries
  BY DEF Inv, TypeOK, Job, Deliveries
<1> QED BY <1>1, <1>2, InMail, UpdateDeliveryRows, Returned, OnlyRows

LEMMA CreateUserGood ==
    ASSUME Inv, NEW h \in Threads, NEW u \in Users, NEW p \in Passwords,
           NEW mail \in BOOLEAN, CreateUser(h, u, p, mail)
    PROVE  Good
<1> DEFINE r == [status |-> "active", password |-> p, version |-> 1,
                 mustChange |-> TRUE, author |-> "admin",
                 delivery |-> IF mail THEN "pending" ELSE "manual"]
           step == IF mail THEN "send" ELSE "idle"
           j == IF mail THEN [NoJob EXCEPT !.op = "create", !.user = u, !.new = p,
                                           !.mail = TRUE]
                ELSE NoJob
<1>1. /\ user[u].status = "none" /\ user' = [user EXCEPT ![u] = r]
      /\ wasSet' = wasSet \cup {<<u, p>>} /\ Submit(h, step, j)
      /\ UNCHANGED <<claim, logins, expired, mails>>
  BY DEF CreateUser
<1>2. r \in Row /\ Chosen(r)
  BY DEF Row, Statuses, Deliveries, Chosen
<1>3. Rows
  <2> HIDE DEF r
  <2>1. user' \in [Users -> Row] /\ user'[u] = r /\ \A v \in Users \ {u} : user'[v] = user[v]
    BY <1>1, <1>2 DEF Inv, TypeOK
  <2>2. \A v \in Users : Moved(v)
    <3> TAKE v \in Users
    <3>1. user[v].version \in Nat
      BY DEF Inv, TypeOK, Row
    <3> QED BY <1>1, <2>1, <3>1 DEF Moved
  <2>3. \A v \in Users : Chosen(user'[v])
    BY <1>2, <2>1 DEF Inv
  <2>4. wasSet \subseteq wasSet' /\ wasSet' \subseteq Users \X Passwords
    BY <1>1 DEF Inv, TypeOK
  <2> QED BY <2>1, <2>2, <2>3, <2>4 DEF Rows
<1>4. j \in Job /\ (mail => j.user = u /\ j.new = p)
  BY NoJobIsJob DEF NoJob, Job
<1>5. step \in Steps /\ (mail => step = "send") /\ (~mail => step = "idle")
  BY DEF Steps
<1> HIDE DEF r, j, step
<1>6. JobHolds(h)'
  <2>1. pc'[h] = step /\ job'[h] = j
    BY <1>1 DEF Submit, Inv, TypeOK
  <2> QED BY <1>1, <1>4, <1>5, <2>1
          DEF JobHolds, SeenHolds, FormHolds, TokenHolds, MailHolds
<1> QED BY <1>1, <1>3, <1>4, <1>5, <1>6, Submitted, OnlyRows

LEMMA SetUserStatusGood ==
    ASSUME Inv, NEW u \in Users, NEW s \in {"active", "disabled"}, SetUserStatus(u, s)
    PROVE  Good
  BY SetStatusRows, OnlyRequests, OnlyRows DEF SetUserStatus, Statuses, Inv, TypeOK

LEMMA MarkUserDeletingGood ==
    ASSUME Inv, NEW u \in Users, MarkUserDeleting(u)
    PROVE  Good
  BY SetStatusRows, OnlyRequests, OnlyRows DEF MarkUserDeleting, Statuses, Inv, TypeOK

\* The end of an account, which keeps its version.
LEMMA StatusOnly ==
    ASSUME Inv, NEW u \in Users, NEW s \in Statuses \ {"none", "active"},
           user' = [user EXCEPT ![u].status = s], UNCHANGED wasSet
    PROVE  Rows
<1> DEFINE r == [user[u] EXCEPT !.status = s]
<1>1. user[u] \in Row
  BY DEF Inv, TypeOK
<1>2. /\ r \in Row /\ r.version = user[u].version /\ r.password = user[u].password
      /\ r.author = user[u].author /\ r.mustChange = user[u].mustChange
      /\ r.status = s
  BY <1>1 DEF Row
<1>3. user' = [user EXCEPT ![u] = r]
  OBVIOUS
<1> HIDE DEF r
<1> QED BY <1>2, <1>3, Kept

LEMMA SetUserDeletionErrorGood ==
    ASSUME Inv, NEW u \in Users, SetUserDeletionError(u)
    PROVE  Good
<1>1. Rows
  BY StatusOnly DEF SetUserDeletionError, Statuses
<1>2. ThreadsStep
  BY OnlyRequests DEF SetUserDeletionError, Inv, TypeOK
<1> QED BY <1>1, <1>2, OnlyRows DEF SetUserDeletionError

LEMMA DeleteUserGood ==
    ASSUME Inv, NEW u \in Users, DeleteUser(u)
    PROVE  Good
<1>1. Rows
  BY StatusOnly DEF DeleteUser, Statuses
<1>2. ThreadsStep
  BY OnlyRequests DEF DeleteUser, Inv, TypeOK
<1>3. TokensKept
  BY DEF DeleteUser, TokensKept, Inv, TypeOK
<1> QED BY <1>1, <1>2, <1>3, SameClaims DEF DeleteUser, Good, Inv, MailedPasswordsWereSet

----------------------------------------------------------------------------
(* Every reachable state.                                                  *)

LEMMA InitInv == Init => Inv
<1> SUFFICES ASSUME Init PROVE Inv
  OBVIOUS
<1>1. PICK p \in Passwords, present \in SUBSET Users :
         /\ Admins \subseteq present
         /\ user = [u \in Users |->
                       [status |-> IF u \in present THEN "active" ELSE "none",
                        password |-> p, version |-> 1, mustChange |-> FALSE,
                        delivery |-> "manual", author |-> "owner"]]
         /\ wasSet = present \X {p}
  BY DEF Init
<1>2. \A u \in Users :
         /\ user[u].status = IF u \in present THEN "active" ELSE "none"
         /\ user[u].author = "owner"
         /\ ~user[u].mustChange
  BY <1>1
<1>3. user \in [Users -> Row]
  BY <1>1 DEF Row, Statuses, Deliveries
<1>4. \A u \in Users : Chosen(user[u])
  BY <1>2, Zenon DEF Chosen
<1>5. TypeOK
  BY <1>1, <1>3, NoJobIsJob DEF Init, TypeOK, Steps
<1>6. ClaimsHold /\ MailedPasswordsWereSet
  BY DEF Init, ClaimsHold, Issued, MailedPasswordsWereSet
<1>7. \A h \in Threads : JobHolds(h)
  BY DEF Init, JobHolds, SeenHolds, FormHolds, TokenHolds, MailHolds
<1>8. \A u \in Admins : user[u].status # "none"
  BY <1>1, <1>2, AccountAssumption
<1> QED BY <1>4, <1>5, <1>6, <1>7, <1>8 DEF Inv

LEMMA NextGood == Inv /\ Next => Good
<1> SUFFICES ASSUME Inv, Next PROVE Good
  OBVIOUS
<1>1. ASSUME NEW h \in Threads, Begin(h) PROVE Good
  <2>1. ASSUME NEW u \in Users, NEW p \in Passwords, LoginRead(h, u, p) PROVE Good
    BY <2>1, LoginReadGood
  <2>2. ASSUME NEW t \in Tokens, NEW op \in {"use", "logout"},
               AuthRead(h, t, op, None, None)
        PROVE  Good
    BY <2>2, AuthReadGood
  <2>3. ASSUME NEW t \in Tokens, NEW p \in Passwords, NEW q \in Passwords,
               AuthRead(h, t, "change", p, q)
        PROVE  Good
    BY <2>3, AuthReadGood
  <2>4. ASSUME NEW u \in Users, NEW p \in Passwords, NEW mail \in BOOLEAN,
               NEW initial \in BOOLEAN, ResetRead(h, u, p, mail, initial)
        PROVE  Good
    BY <2>4, ResetReadGood
  <2>5. ASSUME NEW u \in Users, NEW p \in Passwords, NEW mail \in BOOLEAN,
               CreateUser(h, u, p, mail)
        PROVE  Good
    BY <2>5, CreateUserGood
  <2> QED BY <1>1, <2>1, <2>2, <2>3, <2>4, <2>5 DEF Begin
<1>2. ASSUME NEW h \in Threads, Continue(h) PROVE Good
  <2>1. CASE Use(h)
    BY <2>1, Returned, OnlyThreads DEF Use
  <2>2. CASE Interrupt(h)
    BY <2>2, Returned, OnlyThreads DEF Interrupt
  <2> QED BY <1>2, <2>1, <2>2, LoginInsertGood, AuthCheckGood, LogoutGood,
             ChangeReadGood, SwapGood, MarkDeliveryGood, SendGood, RecordGood
          DEF Continue
<1>3. ASSUME NEW u \in Users, Administer(u) PROVE Good
  BY <1>3, ResetAdminPasswordGood, SetUserStatusGood, MarkUserDeletingGood,
     SetUserDeletionErrorGood, DeleteUserGood
  DEF Administer
<1>4. ASSUME NEW t \in Tokens, Expire(t) PROVE Good
  BY <1>4, ExpireGood
<1> QED BY <1>1, <1>2, <1>3, <1>4 DEF Next

LEMMA StutterInv == Inv /\ UNCHANGED vars => Inv'
  BY SamePlace, SameTokens, SameClaims, GoodKeepsInv
  DEF vars, Good, ThreadsStep, Inv, TypeOK, MailedPasswordsWereSet

\* What every request knows and every token proves, in every reachable state.
THEOREM Invariance == Spec => []Inv
<1>1. Inv /\ [Next]_vars => Inv'
  BY NextGood, GoodKeepsInv, StutterInv
<1> QED BY InitInv, <1>1, PTL DEF Spec

\* The type invariant.
THEOREM TypeCorrect == Spec => []TypeOK
<1>1. Inv => TypeOK
  BY DEF Inv
<1> QED BY <1>1, Invariance, PTL

\* A login that is accepted was made with the account's password of now: the
\* version it carries is the account's, and no version has had two passwords.
THEOREM LoginsKnow == Spec => []LoginsKnowThePassword
<1>1. Inv => LoginsKnowThePassword
  BY DEF Inv, ClaimsHold, Current, LoginsKnowThePassword, Usable
<1> QED BY <1>1, Invariance, PTL

\* Only passwords that accounts have had are mailed.
THEOREM MailsAreTrue == Spec => []MailedPasswordsWereSet
<1>1. Inv => MailedPasswordsWereSet
  BY DEF Inv
<1> QED BY <1>1, Invariance, PTL

\* A login that is not usable never becomes so: tokens are not issued again,
\* their age and the versions only grow, and an account that is enabled has a
\* version that no token carries.
THEOREM RevocationIsFinal == Spec => RevokedStaysRevoked
<1>1. ASSUME Inv, Next, NEW t \in Tokens, Issued(t), ~Usable(t), Usable(t)'
      PROVE  FALSE
  <2>1. Rows /\ TokensKept
    BY <1>1, NextGood DEF Good
  <2>2. claim'[t] = claim[t] /\ t \in logins /\ t \notin expired
    BY <1>1, <2>1 DEF TokensKept, Usable
  <2> DEFINE u == claim[t].user
  <2>3. /\ u \in Users /\ user[u].status # "none"
        /\ claim[t].version \in Nat /\ claim[t].version <= user[u].version
    BY <1>1 DEF Inv, TypeOK, Issued, Claim, ClaimsHold, Current
  <2>4. Moved(u) /\ user[u].version \in Nat /\ user'[u].version \in Nat
    BY <1>1, <2>1, <2>3 DEF Rows, Inv, TypeOK, Row
  <2>5. user'[u].status = "active" /\ user'[u].version = claim[t].version
    BY <1>1, <2>2 DEF Usable
  <2>6. user[u].version = user'[u].version
    BY <2>3, <2>4, <2>5 DEF Moved
  <2>7. user[u].status = "active"
    BY <2>3, <2>4, <2>5, <2>6 DEF Moved
  <2> QED BY <1>1, <2>2, <2>5, <2>6, <2>7 DEF Usable
<1>2. Inv /\ [Next]_vars
        => [\A t \in Tokens : Issued(t) /\ ~Usable(t) => ~Usable(t)']_vars
  BY <1>1
<1> QED BY <1>2, Invariance, PTL DEF Spec, RevokedStaysRevoked

\* Whoever is let in has a usable login of the owner's own password: the copy
\* of the account that was read first is of the login's version, the login is
\* usable, so it is of the account's, and no version has had two authors.
THEOREM OnlyOwners == Spec => OnlyOwnersGetIn
<1>1. ASSUME Next, NEW h \in Threads, Inv, pc[h] # "using", pc'[h] = "using"
      PROVE  AuthCheck(h) /\ pc[h] = "auth" /\ Usable(job[h].token)
             /\ ~job[h].seen.mustChange
  <2>1. ASSUME NEW g \in Threads, Begin(g) PROVE FALSE
    BY <1>1, <2>1 DEF Begin, LoginRead, AuthRead, ResetRead, CreateUser, Submit, Inv, TypeOK
  <2>2. ASSUME NEW g \in Threads, Continue(g) PROVE g = h /\ AuthCheck(h)
    <3>1. ~LoginInsert(g) /\ ~Use(g) /\ ~Logout(g) /\ ~Record(g) /\ ~Interrupt(g)
      BY <1>1, <2>2 DEF LoginInsert, Use, Logout, Record, Interrupt, Return, Inv, TypeOK
    <3>2. ~ChangeRead(g) /\ ~MarkDelivery(g) /\ ~Send(g)
      BY <1>1 DEF ChangeRead, MarkDelivery, Send, Return, Goto, Inv, TypeOK
    <3>3. ~Swap(g)
      BY <1>1 DEF Swap, Store, Return, Goto, Inv, TypeOK
    <3>4. AuthCheck(g)
      BY <2>2, <3>1, <3>2, <3>3 DEF Continue
    <3>5. g = h
      BY <1>1, <3>4 DEF AuthCheck, Goto, Return, Inv, TypeOK
    <3> QED BY <3>4, <3>5
  <2>3. AuthCheck(h)
    BY <1>1, <2>1, <2>2
       DEF Next, Administer, Expire, ResetAdminPassword, SetUserStatus,
           MarkUserDeleting, SetUserDeletionError, DeleteUser
  <2> QED BY <1>1, <2>3 DEF AuthCheck, Goto, Return, Inv, TypeOK
<1>2. ASSUME Next, NEW h \in Threads, Inv, pc[h] # "using", pc'[h] = "using"
      PROVE  LET t == job[h].token IN
             /\ Usable(t)
             /\ claim[t].author = "owner"
             /\ ~user[claim[t].user].mustChange
  <2> DEFINE t == job[h].token
             u == job[h].user
             seen == job[h].seen
  <2>1. pc[h] = "auth" /\ Usable(t) /\ ~seen.mustChange
    BY <1>1, <1>2, Zenon
  <2>2. /\ t \in Tokens /\ u \in Users /\ claim[t].user = u
        /\ claim[t].version = seen.version /\ user[u].version = claim[t].version
    BY <2>1, <1>2 DEF Inv, JobHolds, SeenHolds, TokenHolds, Usable
  <2>3. Chosen(seen) /\ Chosen(user[u])
    BY <2>1, <2>2, <1>2 DEF Inv, JobHolds, SeenHolds
  <2>4. user[u].author = seen.author
    BY <2>1, <2>2, <1>2 DEF Inv, JobHolds, SeenHolds, Current
  <2>5. user[u].author = claim[t].author
    BY <2>1, <2>2, <1>2 DEF Inv, ClaimsHold, Current, Usable
  <2>6. seen.author = "owner"
    BY <2>1, <2>3, Zenon DEF Chosen
  <2>7. ~user[u].mustChange
    BY <2>3, <2>4, <2>6, Zenon DEF Chosen
  <2> QED BY <2>1, <2>2, <2>4, <2>5, <2>6, <2>7, Zenon
<1>3. Inv /\ [Next]_vars
        => [\A h \in Threads : pc[h] # "using" /\ pc'[h] = "using" =>
               LET t == job[h].token IN
               /\ Usable(t)
               /\ claim[t].author = "owner"
               /\ ~user[claim[t].user].mustChange]_vars
  BY <1>2
<1> QED BY <1>3, Invariance, PTL DEF Spec, OnlyOwnersGetIn

\* A password is replaced only by whoever saw it: the version compared is that
\* of the copy read, and no version has had two passwords.
THEOREM ChangesReplace == Spec => ChangesReplaceWhatTheySaw
<1>1. ASSUME Next, Inv, NEW h \in Threads, pc[h] = "swap", user' # user
      PROVE  \/ pc'[h] = "swap"
             \/ user[job[h].user].version = job[h].seen.version
  <2> SUFFICES ASSUME pc'[h] # "swap"
               PROVE  user[job[h].user].version = job[h].seen.version
    OBVIOUS
  <2>1. ASSUME NEW g \in Threads, Begin(g) PROVE FALSE
    BY <1>1, <2>1 DEF Begin, LoginRead, AuthRead, ResetRead, CreateUser, Submit, Inv, TypeOK
  <2>2. ASSUME NEW g \in Threads, Continue(g) PROVE g = h /\ Swap(h)
    <3>1. ~LoginInsert(g) /\ ~AuthCheck(g) /\ ~Use(g) /\ ~Logout(g) /\ ~ChangeRead(g)
          /\ ~Send(g) /\ ~Interrupt(g)
      BY <1>1 DEF LoginInsert, AuthCheck, Use, Logout, ChangeRead, Send, Interrupt, data
    <3>2. ~MarkDelivery(g) /\ ~Record(g)
      BY <1>1 DEF MarkDelivery, Record, Return, Goto, Inv, TypeOK
    <3>3. Swap(g)
      BY <2>2, <3>1, <3>2 DEF Continue
    <3>4. g = h
      BY <1>1, <3>3 DEF Swap, Store, Goto, Return, Inv, TypeOK
    <3> QED BY <3>3, <3>4
  <2>3. Swap(h)
    BY <1>1, <2>1, <2>2
       DEF Next, Administer, Expire, ResetAdminPassword, SetUserStatus,
           MarkUserDeleting, SetUserDeletionError, DeleteUser
  <2> QED BY <1>1, <2>3 DEF Swap
<1>2. ASSUME Next, Inv, NEW h \in Threads, pc[h] = "swap", user' # user
      PROVE  \/ pc'[h] = "swap"
             \/ LET u == job[h].user IN
                /\ user[u].password = job[h].seen.password
                /\ job[h].op = "change" => user[u].password = job[h].old
  BY <1>1, <1>2, InSwap DEF Current
<1>3. Inv /\ [Next]_vars
        => [\A h \in Threads : pc[h] = "swap" /\ user' # user =>
               \/ pc'[h] = "swap"
               \/ LET u == job[h].user IN
                  /\ user[u].password = job[h].seen.password
                  /\ job[h].op = "change" => user[u].password = job[h].old]_vars
  BY <1>2
<1> QED BY <1>3, Invariance, PTL DEF Spec, ChangesReplaceWhatTheySaw
=============================================================================
