------------------------------ MODULE ReportVc ------------------------------
(***************************************************************************)
(* The report-credential workflow: report-vc.service.ts over               *)
(* report-vc.store.ts, with the Issuer extension (ReportIssueGuard.java,   *)
(* ReportIssueController.java) it drives.                                  *)
(*                                                                         *)
(* A row of ReportVcAttempt is one link, issue or verify attempt.  Several *)
(* HTTP handlers run at once, in any number of backend processes; between  *)
(* two awaits of a handler anything else may happen, time included.  Each  *)
(* action below is one await-to-await stretch of a handler, one database   *)
(* transaction, or one step of the Issuer, of a phone or of the clock.     *)
(*                                                                         *)
(* Abstracted: CX checks, the evidence/anchor reads of issue(), the rate   *)
(* budget and malformed provider answers only ever refuse a request before *)
(* it changes state, so a handler may simply not start (or its gateway     *)
(* call may fail).  A token (randomUUID) is the name of the handler that   *)
(* drew it.                                                                *)
(***************************************************************************)
EXTENDS Integers, FiniteSets

CONSTANTS
  Users,       \* accounts
  Dids,        \* holder DIDs
  Roots,       \* saved and anchored evidence roots
  Keys,        \* idempotency keys a browser may send
  Ids,         \* attempt identifiers (randomUUID)
  Reqs,        \* handler slots: bounds how many requests are in flight
  AttemptTtl,  \* 180 s lifetime of an attempt
  OfferTtls,   \* lifetimes the Issuer or Verifier may give an offer
  LeaseTtl,    \* 60 s polling lease
  PollGap,     \* 2 s between polls
  Retention,   \* 24 h between expiry and deletion
  MaxNow,      \* bound on the clock
  Purposes,    \* the purposes this instance exercises
  None         \* SQL NULL

ASSUME ConstantsAssumption ==
  /\ {AttemptTtl, LeaseTtl, PollGap, Retention, MaxNow} \subseteq Nat
  /\ OfferTtls \subseteq Nat
  /\ Purposes \subseteq {"link", "issue", "verify"}
  /\ None \notin (Users \cup Dids \cup Roots \cup Keys \cup Ids \cup Reqs)

VARIABLES
  attempts,    \* the ReportVcAttempt table
  wallets,     \* ReportVcWallet: the DID an account is linked to
  credentials, \* ReportVcCredential, by issuance id
  issuer,      \* the Issuer's verawallet_report_offer rows and their VCs
  presented,   \* what a phone has presented to the Verifier for an offer
  cookie,      \* attempts whose browser holds the binding cookie (and the QR)
  reqs,        \* handlers in flight
  now          \* the clock

vars == <<attempts, wallets, credentials, issuer, presented, cookie, reqs, now>>

Statuses == {"absent", "creating", "pending", "linked", "issued", "verified",
             "rejected", "failed", "cancelled"}

TERMINAL == {"linked", "issued", "verified", "rejected", "failed", "cancelled"}

Steps == {"idle", "issuing", "offering", "offered", "failing", "polling",
          "resulted", "releasing", "cancelling", "cancelled"}

Attempt == [purpose: {"link", "issue", "verify"}, user: Users \cup {None},
            status: Statuses, holder: Dids \cup {None}, root: Roots \cup {None},
            key: Keys \cup {None}, upstream: BOOLEAN, expiresAt: Nat,
            nextPollAt: Nat, token: Reqs \cup {None},
            leaseUntil: Nat,    \* 0 is NULL
            subject: Ids \cup {None},   \* _credentialId of a verification's result
            gone: BOOLEAN]      \* deleted by cleanup(); kept here as history

Absent == [purpose |-> "verify", user |-> None, status |-> "absent",
           holder |-> None, root |-> None, key |-> None, upstream |-> FALSE,
           expiresAt |-> 0, nextPollAt |-> 0, token |-> None, leaseUntil |-> 0,
           subject |-> None, gone |-> FALSE]

Request == [step: Steps, id: Ids \cup {None}, user: Users \cup {None},
            holder: Dids \cup {None}, root: Roots \cup {None},
            key: Keys \cup {None}, expiresAt: Nat, subject: Ids \cup {None},
            outcome: {"linked", "issued", "verified", "rejected"}]

Idle == [step |-> "idle", id |-> None, user |-> None, holder |-> None,
         root |-> None, key |-> None, expiresAt |-> 0, subject |-> None,
         outcome |-> "rejected"]

\* One row of the Issuer: the offer, the VC it led to, and its frozen claims.
IssuerRow == [state: {"none", "offered", "bound", "active", "revoked"},
              cancelled: BOOLEAN, expiresAt: Nat,
              holder: Dids \cup {None}, root: Roots \cup {None}]

NoOffer == [state |-> "none", cancelled |-> FALSE, expiresAt |-> 0,
            holder |-> None, root |-> None]

Credential == [user: Users, holder: Dids, root: Roots]

NoCredential == [user |-> None, holder |-> None, root |-> None]

Init ==
  /\ attempts = [i \in Ids |-> Absent]
  /\ wallets = [u \in Users |-> None]
  /\ credentials = [i \in Ids |-> NoCredential]
  /\ issuer = [i \in Ids |-> NoOffer]
  /\ presented = [i \in Ids |-> None]
  /\ cookie = {}
  /\ reqs = [r \in Reqs |-> Idle]
  /\ now = 0

-----------------------------------------------------------------------------
(* Queries of the store.                                                    *)

\* A row that is still in the table.
Row(i) == attempts[i].status # "absent" /\ ~attempts[i].gone

\* status in (creating, pending) and expiresAt > now: what the store counts as
\* an operation in progress.
Active(i) ==
  /\ Row(i)
  /\ attempts[i].status \in {"creating", "pending"}
  /\ attempts[i].expiresAt > now

\* Fault: an attempt still being created does not count.
BusyPending(u) ==
  \E i \in Ids : attempts[i].user = u /\ Active(i) /\ attempts[i].status = "pending"

\* The count of create() and unlink(): something of the account is in progress.
Busy(u) == \E i \in Ids : attempts[i].user = u /\ Active(i)

\* The row the unique index (userId, idempotencyKey) finds.
Existing(u, k) == {i \in Ids : Row(i) /\ attempts[i].user = u /\ attempts[i].key = k}

\* bound(): the browser's cookie matches and the attempt has not expired.
Bound(i) == Row(i) /\ i \in cookie /\ attempts[i].expiresAt > now

\* A token is never drawn twice: a slot whose token a row still carries is not
\* reused.
FreshToken(r) == reqs[r].step = "idle" /\ \A i \in Ids : attempts[i].token # r

To(r, step) == reqs' = [reqs EXCEPT ![r].step = step]
Done(r) == reqs' = [reqs EXCEPT ![r] = Idle]

-----------------------------------------------------------------------------
(* Creating an attempt and its offer.                                       *)

\* The row newAttempt() inserts.
NewAttempt(purpose, u, d, root, k) ==
  [Absent EXCEPT !.purpose = purpose, !.user = u, !.status = "creating",
                 !.holder = d, !.root = root, !.key = k,
                 !.expiresAt = now + AttemptTtl, !.nextPollAt = now]

\* create(): the insert that ends the transaction; the caller goes on to offer().
Create(r, purpose, u, d, root, k) ==
  \E i \in Ids :
    /\ attempts[i].status = "absent"
    /\ attempts' = [attempts EXCEPT ![i] = NewAttempt(purpose, u, d, root, k)]
    /\ reqs' = [reqs EXCEPT ![r] = [Idle EXCEPT !.step = "offering", !.id = i]]
    /\ UNCHANGED <<wallets, credentials, issuer, presented, cookie, now>>

\* link(): no active link to resume; create() refuses an account that has a
\* wallet or any active attempt.  (The reads of link() are repeated by create()
\* under the account lock, so they are one step here.)
Link(r, u) ==
  /\ "link" \in Purposes
  /\ FreshToken(r)
  /\ wallets[u] = None
  /\ ~Busy(u)
  /\ Create(r, "link", u, None, None, None)

\* verify(): public, so no account lock and no limit.
Verify(r) ==
  /\ "verify" \in Purposes
  /\ FreshToken(r)
  /\ Create(r, "verify", None, None, None, None)

\* issue(), up to create(): the wallet is read without the account lock.
IssueRead(r, u, root, k) ==
  /\ "issue" \in Purposes
  /\ FreshToken(r)
  /\ wallets[u] # None
  /\ reqs' = [reqs EXCEPT ![r] = [Idle EXCEPT !.step = "issuing", !.user = u,
                                    !.holder = wallets[u], !.root = root, !.key = k]]
  /\ UNCHANGED <<attempts, wallets, credentials, issuer, presented, cookie, now>>

\* issue(), the create() transaction: insert, when the wallet is still the one
\* that was read and nothing of the account is in progress.
IssueCreate(r) ==
  LET q == reqs[r] IN
  /\ q.step = "issuing"
  /\ Existing(q.user, q.key) = {}
  /\ wallets[q.user] = q.holder
  /\ ~Busy(q.user)
  /\ Create(r, "issue", q.user, q.holder, q.root, q.key)

\* Fault: a replay hands out the cookie of a row that is still being created.
IssueReplayEarlyCookie(r) ==
  LET q == reqs[r] IN
  /\ q.step = "issuing"
  /\ \E i \in Existing(q.user, q.key) : cookie' = cookie \cup {i}
  /\ Done(r)
  /\ UNCHANGED <<attempts, wallets, credentials, issuer, presented, now>>

\* create() finds the idempotency key.  A row still being created goes through
\* offer() again; any other row is answered as it stands, with its cookie.
IssueReplay(r) ==
  LET q == reqs[r] IN
  /\ q.step = "issuing"
  /\ \E i \in Existing(q.user, q.key) :
       /\ attempts[i].root = q.root
       /\ \/ /\ attempts[i].status = "creating"
             /\ reqs' = [reqs EXCEPT ![r] = [Idle EXCEPT !.step = "offering", !.id = i]]
             /\ UNCHANGED cookie
          \/ /\ attempts[i].status # "creating"
             /\ cookie' = cookie \cup {i}
             /\ Done(r)
  /\ UNCHANGED <<attempts, wallets, credentials, issuer, presented, now>>

\* create() refuses: key reused for another root, wallet changed or gone, or
\* an operation in progress.
IssueRefused(r) ==
  LET q == reqs[r] IN
  /\ q.step = "issuing"
  /\ \/ \E i \in Existing(q.user, q.key) : attempts[i].root # q.root
     \/ Existing(q.user, q.key) = {} /\ (wallets[q.user] # q.holder \/ Busy(q.user))
  /\ Done(r)
  /\ UNCHANGED <<attempts, wallets, credentials, issuer, presented, cookie, now>>

\* Fault: a repeated call replaces the stored offer.
IssuerOfferReplaced(i, ttl) ==
  IF attempts[i].purpose = "issue"
  THEN [issuer EXCEPT ![i] = [state |-> "offered", cancelled |-> FALSE,
         expiresAt |-> now + ttl, holder |-> attempts[i].holder, root |-> attempts[i].root]]
  ELSE issuer

\* POST /offers of the Issuer: the first call of a request id freezes holder and
\* root, a repeated one returns the stored offer.
IssuerOffer(i, ttl) ==
  IF attempts[i].purpose = "issue" /\ issuer[i].state = "none"
  THEN [issuer EXCEPT ![i] = [state |-> "offered", cancelled |-> FALSE,
         expiresAt |-> now + ttl, holder |-> attempts[i].holder, root |-> attempts[i].root]]
  ELSE issuer

\* Fault: the attempt lives as long as the offer.
ExpiryOfOffer(i, until) == until

\* The expiry activate() stores: the earlier of the attempt's own and the offer's.
AttemptExpiry(i, until) ==
  IF until < attempts[i].expiresAt THEN until ELSE attempts[i].expiresAt

\* offer(): the gateway answers; an offer that is already over is a failure.
OfferAnswered(r) ==
  LET i == reqs[r].id IN
  /\ reqs[r].step = "offering"
  /\ \E ttl \in OfferTtls :
       LET until == IF attempts[i].purpose = "issue"
                    THEN IssuerOffer(i, ttl)[i].expiresAt ELSE now + ttl
           expiresAt == AttemptExpiry(i, until)
       IN /\ issuer' = IssuerOffer(i, ttl)
          /\ reqs' = [reqs EXCEPT ![r] = [Idle EXCEPT !.id = i, !.expiresAt = expiresAt,
                         !.step = IF expiresAt > now THEN "offered" ELSE "failing"]]
  /\ UNCHANGED <<attempts, wallets, credentials, presented, cookie, now>>

\* offer(): the call fails, before or after the Issuer stored the offer.
OfferFailed(r) ==
  /\ reqs[r].step = "offering"
  /\ \/ UNCHANGED issuer
     \/ \E ttl \in OfferTtls : issuer' = IssuerOffer(reqs[r].id, ttl)
  /\ To(r, "failing")
  /\ UNCHANGED <<attempts, wallets, credentials, presented, cookie, now>>

\* The row activate() writes.
Activated(a, expiresAt) ==
  [a EXCEPT !.status = "pending", !.upstream = TRUE, !.expiresAt = expiresAt]

\* Fault: activate() without its condition on the status.
ActivateAnyStatus(r) ==
  LET i == reqs[r].id IN
  /\ reqs[r].step = "offered"
  /\ attempts' = [attempts EXCEPT ![i] = Activated(@, reqs[r].expiresAt)]
  /\ cookie' = cookie \cup {i}
  /\ Done(r)
  /\ UNCHANGED <<wallets, credentials, issuer, presented, now>>

\* activate(), the re-read and the cookie of the response.
Activate(r) ==
  LET i == reqs[r].id IN
  /\ reqs[r].step = "offered"
  /\ attempts' = IF Row(i) /\ attempts[i].status = "creating"
                 THEN [attempts EXCEPT ![i] = Activated(@, reqs[r].expiresAt)]
                 ELSE attempts
  /\ cookie' = IF Row(i) THEN cookie \cup {i} ELSE cookie
  /\ Done(r)
  /\ UNCHANGED <<wallets, credentials, issuer, presented, now>>

\* The catch of offer(): fail() and rethrow.
Fail(r) ==
  LET i == reqs[r].id IN
  /\ reqs[r].step = "failing"
  /\ attempts' = IF Row(i) /\ attempts[i].status = "creating"
                 THEN [attempts EXCEPT ![i] = [@ EXCEPT !.status = "failed"]]
                 ELSE attempts
  /\ Done(r)
  /\ UNCHANGED <<wallets, credentials, issuer, presented, cookie, now>>

-----------------------------------------------------------------------------
(* Polling for the result.                                                  *)

\* The row acquire() writes, and the one release() leaves.
Leased(a, r) ==
  [a EXCEPT !.token = r, !.leaseUntil = now + LeaseTtl, !.nextPollAt = now + PollGap]

Unleased(a) == [a EXCEPT !.token = None, !.leaseUntil = 0]

\* poll(): bound(), not terminal, and acquire() takes the lease.
Poll(r, i) ==
  /\ FreshToken(r)
  /\ Bound(i)
  /\ attempts[i].status = "pending"
  /\ attempts[i].nextPollAt <= now
  /\ attempts[i].leaseUntil <= now
  /\ attempts' = [attempts EXCEPT ![i] = Leased(@, r)]
  /\ reqs' = [reqs EXCEPT ![r] = [Idle EXCEPT !.step = "polling", !.id = i]]
  /\ UNCHANGED <<wallets, credentials, issuer, presented, cookie, now>>

\* The result call of a link: the Verifier confirms a presentation by a DID.
LinkResult(r) ==
  LET i == reqs[r].id IN
  /\ reqs[r].step = "polling"
  /\ attempts[i].purpose = "link"
  /\ presented[i] \in Dids
  /\ reqs' = [reqs EXCEPT ![r] = [Idle EXCEPT !.step = "resulted", !.id = i,
                                    !.holder = presented[i], !.outcome = "linked"]]
  /\ UNCHANGED <<attempts, wallets, credentials, issuer, presented, cookie, now>>

\* POST /result of the Issuer: not cancelled, a VC was issued, and the receipt
\* matches the holder and the root of the attempt.
IssueResult(r) ==
  LET i == reqs[r].id IN
  /\ reqs[r].step = "polling"
  /\ attempts[i].purpose = "issue"
  /\ ~issuer[i].cancelled
  /\ issuer[i].state \in {"active", "revoked"}
  /\ issuer[i].holder = attempts[i].holder
  /\ issuer[i].root = attempts[i].root
  /\ reqs' = [reqs EXCEPT ![r] = [Idle EXCEPT !.step = "resulted", !.id = i,
                                    !.outcome = "issued"]]
  /\ UNCHANGED <<attempts, wallets, credentials, issuer, presented, cookie, now>>

\* Fault: any VC of the Issuer is accepted, recorded here or not.
VerifyResultAnyVc(r) ==
  LET c == presented[reqs[r].id] IN
  /\ reqs[r].step = "polling"
  /\ c \in Ids
  /\ reqs' = [reqs EXCEPT ![r].step = "resulted", ![r].subject = c, ![r].outcome = "verified"]
  /\ UNCHANGED <<attempts, wallets, credentials, issuer, presented, cookie, now>>

\* finishVerification() up to complete(): the presented VC is one this
\* application recorded, with the same holder and root.  The chain inspection
\* may come out either way.
VerifyResult(r) ==
  LET i == reqs[r].id
      c == presented[i]
  IN
  /\ reqs[r].step = "polling"
  /\ attempts[i].purpose = "verify"
  /\ c \in Ids
  /\ credentials[c] # NoCredential
  /\ credentials[c].holder = issuer[c].holder
  /\ credentials[c].root = issuer[c].root
  /\ \E chainPass \in BOOLEAN :
       reqs' = [reqs EXCEPT ![r] = [Idle EXCEPT !.step = "resulted", !.id = i, !.subject = c,
                  !.outcome = IF issuer[c].state = "active" /\ chainPass
                                 THEN "verified" ELSE "rejected"]]
  /\ UNCHANGED <<attempts, wallets, credentials, issuer, presented, cookie, now>>

\* The result is pending, refused, or the call fails: on to the finally.
NoResult(r) ==
  /\ reqs[r].step = "polling"
  /\ To(r, "releasing")
  /\ UNCHANGED <<attempts, wallets, credentials, issuer, presented, cookie, now>>

\* The updateMany of complete() matches: this handler's lease, still running,
\* on a pending and unexpired attempt.
Completes(r, i) ==
  /\ Row(i)
  /\ attempts[i].token = r
  /\ attempts[i].leaseUntil > now
  /\ attempts[i].expiresAt > now
  /\ attempts[i].status = "pending"

\* The row complete() writes.
Completed(a, q) == [Unleased(a) EXCEPT !.status = q.outcome, !.subject = q.subject]

\* complete() of a link, under the account lock: no account holds the DID.  The lookup
\* and the unique indexes behind it are one guard here.
CompleteLink(r) ==
  LET i == reqs[r].id IN
  /\ reqs[r].step = "resulted"
  /\ attempts[i].purpose = "link"
  /\ Completes(r, i)
  /\ \A u \in Users : wallets[u] # reqs[r].holder
  /\ wallets[attempts[i].user] = None
  /\ attempts' = [attempts EXCEPT ![i] = Completed(@, reqs[r])]
  /\ wallets' = [wallets EXCEPT ![attempts[i].user] = reqs[r].holder]
  /\ Done(r)
  /\ UNCHANGED <<credentials, issuer, presented, cookie, now>>

\* complete() of an issuance also records the credential.
CompleteIssue(r) ==
  LET i == reqs[r].id IN
  /\ reqs[r].step = "resulted"
  /\ attempts[i].purpose = "issue"
  /\ Completes(r, i)
  /\ credentials[i] = NoCredential
  /\ attempts' = [attempts EXCEPT ![i] = Completed(@, reqs[r])]
  /\ credentials' = [credentials EXCEPT ![i] =
       [user |-> attempts[i].user, holder |-> attempts[i].holder, root |-> attempts[i].root]]
  /\ Done(r)
  /\ UNCHANGED <<wallets, issuer, presented, cookie, now>>

CompleteVerify(r) ==
  LET i == reqs[r].id IN
  /\ reqs[r].step = "resulted"
  /\ attempts[i].purpose = "verify"
  /\ Completes(r, i)
  /\ attempts' = [attempts EXCEPT ![i] = Completed(@, reqs[r])]
  /\ Done(r)
  /\ UNCHANGED <<wallets, credentials, issuer, presented, cookie, now>>

\* complete() rejects and its transaction rolls back: the update matched no row,
\* or a unique constraint refused the wallet or the credential.
CompleteRejected(r) ==
  LET i == reqs[r].id IN
  /\ reqs[r].step = "resulted"
  /\ ~ /\ Completes(r, i)
       /\ attempts[i].purpose = "link" =>
            /\ \A u \in Users : wallets[u] # reqs[r].holder
            /\ wallets[attempts[i].user] = None
       /\ attempts[i].purpose = "issue" => credentials[i] = NoCredential
  /\ To(r, "releasing")
  /\ UNCHANGED <<attempts, wallets, credentials, issuer, presented, cookie, now>>

\* release() in the finally of poll(): only the lease this handler holds.
Release(r) ==
  LET i == reqs[r].id IN
  /\ reqs[r].step = "releasing"
  /\ attempts' = IF Row(i) /\ attempts[i].token = r
                 THEN [attempts EXCEPT ![i] = Unleased(@)]
                 ELSE attempts
  /\ Done(r)
  /\ UNCHANGED <<wallets, credentials, issuer, presented, cookie, now>>

-----------------------------------------------------------------------------
(* Cancelling, unlinking, cleaning up.                                      *)

\* cancel(): bound() lets a cancelled attempt through; a terminal one returns.
\* Only an attempt with an upstream offer calls the gateway.
Cancel(r, i) ==
  /\ FreshToken(r)
  /\ Bound(i)
  /\ attempts[i].status \notin TERMINAL
  /\ reqs' = [reqs EXCEPT ![r] = [Idle EXCEPT !.id = i,
                !.step = IF attempts[i].upstream THEN "cancelling" ELSE "cancelled"]]
  /\ UNCHANGED <<attempts, wallets, credentials, issuer, presented, cookie, now>>

\* POST /cancel of the Issuer marks the offer; the Verifier has no such call.
UpstreamCancel(r) ==
  LET i == reqs[r].id IN
  /\ reqs[r].step = "cancelling"
  /\ issuer' = IF attempts[i].purpose = "issue" /\ issuer[i].state # "none"
               THEN [issuer EXCEPT ![i].cancelled = TRUE] ELSE issuer
  /\ To(r, "cancelled")
  /\ UNCHANGED <<attempts, wallets, credentials, presented, cookie, now>>

\* The Issuer's answer is lost, or it cancelled nothing: cancel() throws.
UpstreamCancelFailed(r) ==
  LET i == reqs[r].id IN
  /\ reqs[r].step = "cancelling"
  /\ attempts[i].purpose = "issue"
  /\ \/ UNCHANGED issuer
     \/ issuer[i].state # "none" /\ issuer' = [issuer EXCEPT ![i].cancelled = TRUE]
  /\ Done(r)
  /\ UNCHANGED <<attempts, wallets, credentials, presented, cookie, now>>

\* store.cancel().
StoreCancel(r) ==
  LET i == reqs[r].id IN
  /\ reqs[r].step = "cancelled"
  /\ attempts' = IF Row(i) /\ attempts[i].status \in {"creating", "pending"}
                 THEN [attempts EXCEPT ![i] = [Unleased(@) EXCEPT !.status = "cancelled"]]
                 ELSE attempts
  /\ Done(r)
  /\ UNCHANGED <<wallets, credentials, issuer, presented, cookie, now>>

\* unlink(): one transaction under the account lock.
Unlink(u) ==
  /\ wallets[u] # None
  /\ ~Busy(u)
  /\ wallets' = [wallets EXCEPT ![u] = None]
  /\ UNCHANGED <<attempts, credentials, issuer, presented, cookie, reqs, now>>

\* cleanup(): rows whose expiry is more than the retention ago leave the table.
Cleanup ==
  LET old == {i \in Ids : Row(i) /\ attempts[i].expiresAt < now - Retention} IN
  /\ old # {}
  /\ attempts' = [i \in Ids |-> IF i \in old THEN [attempts[i] EXCEPT !.gone = TRUE]
                                ELSE attempts[i]]
  /\ UNCHANGED <<wallets, credentials, issuer, presented, cookie, reqs, now>>

-----------------------------------------------------------------------------
(* The phone, the Issuer's own steps, failures and time.                    *)

\* The phone scans the QR of a link and presents a credential of a DID it owns.
PresentDid(i, d) ==
  /\ attempts[i].purpose = "link" /\ i \in cookie
  /\ presented[i] = None
  /\ presented' = [presented EXCEPT ![i] = d]
  /\ UNCHANGED <<attempts, wallets, credentials, issuer, cookie, reqs, now>>

\* The phone scans the QR of a verification and presents a report VC.
PresentVc(i, c) ==
  /\ attempts[i].purpose = "verify" /\ i \in cookie
  /\ presented[i] = None
  /\ issuer[c].state \in {"active", "revoked"}
  /\ presented' = [presented EXCEPT ![i] = c]
  /\ UNCHANGED <<attempts, wallets, credentials, issuer, cookie, reqs, now>>

\* ReportIssueGuard.bind(): a live, unbound offer takes the phone's transaction.
Bind(i) ==
  /\ i \in cookie
  /\ issuer[i].state = "offered" /\ ~issuer[i].cancelled /\ issuer[i].expiresAt > now
  /\ issuer' = [issuer EXCEPT ![i].state = "bound"]
  /\ UNCHANGED <<attempts, wallets, credentials, presented, cookie, reqs, now>>

\* ReportIssueGuard.claims(), under the row lock, then the native issuance.
IssueVc(i) ==
  /\ issuer[i].state = "bound" /\ ~issuer[i].cancelled /\ issuer[i].expiresAt > now
  /\ issuer' = [issuer EXCEPT ![i].state = "active"]
  /\ UNCHANGED <<attempts, wallets, credentials, presented, cookie, reqs, now>>

Revoke(i) ==
  /\ issuer[i].state = "active"
  /\ issuer' = [issuer EXCEPT ![i].state = "revoked"]
  /\ UNCHANGED <<attempts, wallets, credentials, presented, cookie, reqs, now>>

\* A process dies or a handler is abandoned between two of its steps.
Crash(r) ==
  /\ reqs[r].step # "idle"
  /\ Done(r)
  /\ UNCHANGED <<attempts, wallets, credentials, issuer, presented, cookie, now>>

Tick ==
  /\ now < MaxNow
  /\ now' = now + 1
  /\ UNCHANGED <<attempts, wallets, credentials, issuer, presented, cookie, reqs>>

Handler(r) ==
  \/ IssueCreate(r) \/ IssueReplay(r) \/ IssueRefused(r)
  \/ OfferAnswered(r) \/ OfferFailed(r) \/ Activate(r) \/ Fail(r)
  \/ LinkResult(r) \/ IssueResult(r) \/ VerifyResult(r) \/ NoResult(r)
  \/ CompleteLink(r) \/ CompleteIssue(r) \/ CompleteVerify(r) \/ CompleteRejected(r)
  \/ Release(r) \/ UpstreamCancel(r) \/ UpstreamCancelFailed(r) \/ StoreCancel(r)

Browser(r) ==
  \/ \E u \in Users : Link(r, u)
  \/ \E u \in Users, root \in Roots, k \in Keys : IssueRead(r, u, root, k)
  \/ Verify(r)
  \/ \E i \in Ids : Poll(r, i) \/ Cancel(r, i)

Phone ==
  \E i \in Ids :
    \/ \E d \in Dids : PresentDid(i, d)
    \/ \E c \in Ids : PresentVc(i, c)
    \/ Bind(i) \/ IssueVc(i) \/ Revoke(i)

Next ==
  \/ \E r \in Reqs : Handler(r) \/ Browser(r) \/ Crash(r)
  \/ \E u \in Users : Unlink(u)
  \/ Cleanup \/ Phone \/ Tick

Spec == Init /\ [][Next]_vars

-----------------------------------------------------------------------------
(* Properties.                                                              *)

\* Every table and every handler record keeps its shape.
TypeOK ==
  /\ attempts \in [Ids -> Attempt]
  /\ wallets \in [Users -> Dids \cup {None}]
  /\ credentials \in [Ids -> Credential \cup {NoCredential}]
  /\ issuer \in [Ids -> IssuerRow]
  /\ presented \in [Ids -> Dids \cup Ids \cup {None}]
  /\ cookie \subseteq Ids
  /\ reqs \in [Reqs -> Request]
  /\ now \in Nat

\* An account never has two operations in progress, however link, issue, replay
\* and activation interleave: create() serializes them and activate() must not
\* bring an expired attempt back (report-vc.store.ts:40, :59).
OneActivePerAccount ==
  \A i, j \in Ids :
    Active(i) /\ Active(j) /\ attempts[i].user = attempts[j].user
      /\ attempts[i].user # None => i = j

\* While an issuance is in progress the account stays linked to the very DID the
\* Issuer was asked to bind the credential to: issue() reads the wallet outside
\* the lock, unlink() and a new link race with it.
IssuanceHolderLinked ==
  \A i \in Ids :
    Active(i) /\ attempts[i].purpose = "issue"
      => wallets[attempts[i].user] = attempts[i].holder

\* The application's credential table agrees with the Issuer and with the
\* attempts: a credential is recorded exactly for the issued attempts, cancelled
\* and expired ones never record one, and its holder and root are those of the
\* VC the Issuer really issued for that request.
CredentialIsReal ==
  \A i \in Ids :
    /\ (credentials[i] # NoCredential) <=> (attempts[i].status = "issued")
    /\ credentials[i] # NoCredential =>
         /\ issuer[i].state \in {"active", "revoked"}
         /\ credentials[i].holder = issuer[i].holder
         /\ credentials[i].root = issuer[i].root
         /\ credentials[i].user = attempts[i].user

\* A cancelled issuance is dead at the Issuer too: "Issuer must invalidate the
\* offer, not just stop the browser's spinner" (report-vc.service.ts:165).  It
\* rests on the cookie that cancel() asks for being handed out only once the
\* attempt has left "creating", whatever replays of the same key are in flight.
CancelledIsDeadUpstream ==
  \A i \in Ids :
    attempts[i].status = "cancelled" /\ attempts[i].purpose = "issue"
      => issuer[i].cancelled

\* A verification only succeeds on a credential this application recorded.
VerifiedIsRecorded ==
  \A i \in Ids :
    attempts[i].status = "verified" =>
      attempts[i].subject \in Ids /\ credentials[attempts[i].subject] # NoCredential

\* The life of an attempt as its owner sees it.
Stage(i) ==
  CASE attempts[i].status = "absent" -> "fresh"
    [] attempts[i].status \in {"linked", "issued", "verified"} -> "won"
    [] Active(i) -> "open"
    [] OTHER -> "lost"

Lifecycle == INSTANCE AttemptLifecycle WITH
  Owners <- Users,
  state <- [i \in Ids |-> Stage(i)],
  owner <- [i \in Ids |-> attempts[i].user]

\* The whole workflow, with its leases, replays, crashes and clock, implements the
\* lifecycle: one open attempt per account, won at most once and only while open,
\* never reopened.
ImplementsLifecycle == Lifecycle!Spec

-----------------------------------------------------------------------------
(* The strengthening that makes the account invariants inductive.           *)

\* Rows: issue and link rows carry their account, issue rows also their holder
\* and root; the cookie follows activation; an activated issuance has its offer.
RowsOK ==
  \A i \in Ids :
    LET a == attempts[i] IN
    /\ a.status # "absent" /\ a.purpose \in {"link", "issue"} => a.user \in Users
    /\ a.status # "absent" /\ a.purpose = "issue" => a.holder \in Dids /\ a.root \in Roots
    /\ a.status = "absent" => a.purpose = "verify" /\ ~a.gone
    /\ i \in cookie => a.status \notin {"absent", "creating"}
    /\ a.status = "pending" => a.upstream
    /\ a.upstream /\ a.purpose = "issue" => issuer[i].state # "none"
    /\ issuer[i].state = "none" => ~issuer[i].cancelled

\* Handlers: what each one has established about its attempt by the step it is at.
HandlersOK ==
  \A r \in Reqs :
    LET q == reqs[r]
        i == q.id
    IN
    /\ q.step = "issuing" => q.user \in Users /\ q.holder \in Dids /\ q.root \in Roots
    /\ q.step \notin {"idle", "issuing"} => i \in Ids /\ attempts[i].status # "absent"
    /\ q.step = "offered" =>
         /\ attempts[i].status = "creating" => q.expiresAt <= attempts[i].expiresAt
         /\ attempts[i].purpose = "issue" => issuer[i].state # "none"
    /\ q.step = "resulted" =>
         /\ attempts[i].purpose = "link" => q.outcome = "linked" /\ q.holder \in Dids
         /\ attempts[i].purpose = "issue" =>
              /\ q.outcome = "issued"
              /\ issuer[i].state \in {"active", "revoked"}
              /\ issuer[i].holder = attempts[i].holder
              /\ issuer[i].root = attempts[i].root
         /\ attempts[i].purpose = "verify" => q.outcome \in {"verified", "rejected"}
    /\ q.step \in {"cancelling", "cancelled"} =>
         /\ attempts[i].status # "creating"
         /\ attempts[i].upstream
    /\ q.step = "cancelled" /\ attempts[i].purpose = "issue" => issuer[i].cancelled

IInv ==
  /\ TypeOK
  /\ RowsOK
  /\ HandlersOK
  /\ OneActivePerAccount
  /\ IssuanceHolderLinked
  /\ CredentialIsReal
  /\ CancelledIsDeadUpstream
=============================================================================
