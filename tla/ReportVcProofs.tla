--------------------------- MODULE ReportVcProofs ---------------------------
(***************************************************************************)
(* The account invariants of the report-credential workflow, for every set *)
(* of accounts, DIDs, roots, keys, attempts and handlers and every value of *)
(* the time constants.                                                     *)
(*                                                                         *)
(* The argument.  OneActivePerAccount alone is not inductive: a late       *)
(* Activate could lengthen an expired attempt, so the handler that is about*)
(* to activate must carry an expiry no later than the row's (HandlersOK).  *)
(* IssuanceHolderLinked needs OneActivePerAccount, because completing a    *)
(* link changes the wallet.  CredentialIsReal and CancelledIsDeadUpstream  *)
(* need what a handler learned from the Issuer to stay true until it acts  *)
(* on it (IssuerKeeps), and that nobody holds the cookie of a row that is  *)
(* still being created (RowsOK).                                           *)
(*                                                                         *)
(* On top of it: every step opens one attempt, completes one or is quiet   *)
(* (Effects), which gives the refinement of AttemptLifecycle; a verified   *)
(* presentation is recorded.                                               *)
(***************************************************************************)
EXTENDS ReportVc, TLAPS

\* The tables every invariant is about, without the Issuer.
tables == <<attempts, wallets, credentials, cookie, now>>

\* What the Issuer never takes back: an offer's frozen claims, an issued VC, a
\* cancellation.
IssuerKeeps ==
  \A i \in Ids :
    /\ issuer[i].cancelled => issuer'[i].cancelled
    /\ issuer[i].state # "none" =>
         /\ issuer'[i].state # "none"
         /\ issuer'[i].holder = issuer[i].holder
         /\ issuer'[i].root = issuer[i].root
    /\ issuer[i].state \in {"active", "revoked"} => issuer'[i].state \in {"active", "revoked"}
    /\ issuer'[i].state = "none" => ~issuer'[i].cancelled

\* The initial state satisfies the inductive invariant.
LEMMA InitIInv == Init => IInv
BY ConstantsAssumption
DEF Init, IInv, TypeOK, RowsOK, HandlersOK, OneActivePerAccount, IssuanceHolderLinked,
    CredentialIsReal, CancelledIsDeadUpstream, Attempt, Absent, Request, Idle, IssuerRow,
    NoOffer, Credential, NoCredential, Active, Row, Statuses, Steps

\* A handler past create() has an attempt that exists.
LEMMA HandlerHasRow ==
  ASSUME IInv, NEW r \in Reqs, reqs[r].step \notin {"idle", "issuing"}
  PROVE  reqs[r].id \in Ids /\ attempts[reqs[r].id].status # "absent"
BY DEF IInv, HandlersOK

\* A step that leaves the tables alone keeps the invariant if it keeps the types,
\* the handlers' knowledge and the Issuer's promises.
LEMMA TablesUnchanged ==
  ASSUME IInv, UNCHANGED tables, TypeOK', HandlersOK', IssuerKeeps
  PROVE  IInv'
<1>1. RowsOK'
  BY DEF IInv, RowsOK, IssuerKeeps, tables
<1>2. OneActivePerAccount' /\ IssuanceHolderLinked'
  BY DEF IInv, OneActivePerAccount, IssuanceHolderLinked, Active, Row, tables
<1>3. CredentialIsReal'
  BY DEF IInv, CredentialIsReal, IssuerKeeps, tables
<1>4. CancelledIsDeadUpstream'
  BY DEF IInv, CancelledIsDeadUpstream, IssuerKeeps, tables
<1> QED
  BY <1>1, <1>2, <1>3, <1>4 DEF IInv

\* An unchanged Issuer keeps its promises.
LEMMA IssuerUnchanged == ASSUME IInv, UNCHANGED issuer PROVE IssuerKeeps
BY DEF IInv, RowsOK, IssuerKeeps

\* An abandoned handler leaves the tables alone.
LEMMA CrashStep ==
  ASSUME IInv, NEW r \in Reqs, Crash(r)
  PROVE  IInv'
<1>1. TypeOK'
  BY DEF IInv, TypeOK, HandlersOK, Crash, Done, Idle, Request, Steps
<1>2. HandlersOK'
  BY DEF IInv, TypeOK, RowsOK, HandlersOK, Crash, Done, Idle, Request, Attempt
<1> QED
  BY <1>1, <1>2, TablesUnchanged, IssuerUnchanged DEF tables, Crash

\* issue() has only read the wallet.
LEMMA IssueReadStep ==
  ASSUME IInv, NEW r \in Reqs, NEW u \in Users, NEW root \in Roots, NEW k \in Keys,
         IssueRead(r, u, root, k)
  PROVE  IInv'
<1>1. TypeOK'
  BY DEF IInv, TypeOK, HandlersOK, IssueRead, FreshToken, Idle, Request, Steps
<1>2. HandlersOK'
  BY DEF IInv, TypeOK, RowsOK, HandlersOK, IssueRead, FreshToken, Idle, Request, Attempt
<1> QED
  BY <1>1, <1>2, TablesUnchanged, IssuerUnchanged DEF tables, IssueRead

\* A refused issue() changes nothing.
LEMMA IssueRefusedStep ==
  ASSUME IInv, NEW r \in Reqs, IssueRefused(r)
  PROVE  IInv'
<1>1. TypeOK'
  BY DEF IInv, TypeOK, HandlersOK, IssueRefused, Done, Idle, Request, Steps
<1>2. HandlersOK'
  BY DEF IInv, TypeOK, RowsOK, HandlersOK, IssueRefused, Done, Idle, Request, Attempt
<1> QED
  BY <1>1, <1>2, TablesUnchanged, IssuerUnchanged DEF tables, IssueRefused

\* The Verifier's answer is only remembered.
LEMMA LinkResultStep ==
  ASSUME IInv, NEW r \in Reqs, LinkResult(r)
  PROVE  IInv'
<1>0. reqs[r].id \in Ids
  BY HandlerHasRow DEF LinkResult
<1>1. TypeOK'
  BY <1>0 DEF IInv, TypeOK, HandlersOK, LinkResult, Idle, Request, Steps
<1>2. HandlersOK'
  BY <1>0 DEF IInv, TypeOK, RowsOK, HandlersOK, LinkResult, Idle, Request, Attempt
<1> QED
  BY <1>1, <1>2, TablesUnchanged, IssuerUnchanged DEF tables, LinkResult

\* The Issuer's receipt was matched against the attempt.
LEMMA IssueResultStep ==
  ASSUME IInv, NEW r \in Reqs, IssueResult(r)
  PROVE  IInv'
<1>0. reqs[r].id \in Ids
  BY HandlerHasRow DEF IssueResult
<1>1. TypeOK'
  BY <1>0 DEF IInv, TypeOK, HandlersOK, IssueResult, Idle, Request, Steps
<1>2. HandlersOK'
  BY <1>0 DEF IInv, TypeOK, RowsOK, HandlersOK, IssueResult, Idle, Request, Attempt
<1> QED
  BY <1>1, <1>2, TablesUnchanged, IssuerUnchanged DEF tables, IssueResult

\* The presented credential is only remembered.
LEMMA VerifyResultStep ==
  ASSUME IInv, NEW r \in Reqs, VerifyResult(r)
  PROVE  IInv'
<1> DEFINE i == reqs[r].id
<1>0. i \in Ids
  BY HandlerHasRow DEF VerifyResult
<1>1. PICK o \in {"verified", "rejected"} :
        reqs' = [reqs EXCEPT ![r] = [Idle EXCEPT !.step = "resulted", !.id = i,
                                       !.subject = presented[i], !.outcome = o]]
  BY DEF VerifyResult
<1>2. TypeOK'
  BY <1>0, <1>1 DEF IInv, TypeOK, VerifyResult, Idle, Request, Steps
<1>3. HandlersOK'
  BY <1>0, <1>1 DEF IInv, TypeOK, HandlersOK, VerifyResult, Idle, Request
<1> QED
  BY <1>2, <1>3, TablesUnchanged, IssuerUnchanged DEF tables, VerifyResult

\* Nothing to complete.
LEMMA NoResultStep ==
  ASSUME IInv, NEW r \in Reqs, NoResult(r)
  PROVE  IInv'
<1>0. reqs[r].id \in Ids
  BY HandlerHasRow DEF NoResult
<1>1. TypeOK'
  BY <1>0 DEF IInv, TypeOK, HandlersOK, NoResult, To, Idle, Request, Steps
<1>2. HandlersOK'
  BY <1>0 DEF IInv, TypeOK, RowsOK, HandlersOK, NoResult, To, Idle, Request, Attempt
<1> QED
  BY <1>1, <1>2, TablesUnchanged, IssuerUnchanged DEF tables, NoResult

\* A rolled-back complete() changes nothing.
LEMMA CompleteRejectedStep ==
  ASSUME IInv, NEW r \in Reqs, CompleteRejected(r)
  PROVE  IInv'
<1>0. reqs[r].id \in Ids
  BY HandlerHasRow DEF CompleteRejected
<1>1. TypeOK'
  BY <1>0 DEF IInv, TypeOK, HandlersOK, CompleteRejected, To, Idle, Request, Steps
<1>2. HandlersOK'
  BY <1>0 DEF IInv, TypeOK, RowsOK, HandlersOK, CompleteRejected, To, Idle, Request, Attempt
<1> QED
  BY <1>1, <1>2, TablesUnchanged, IssuerUnchanged DEF tables, CompleteRejected

\* The browser that may cancel holds the cookie, so the attempt is activated.
LEMMA CancelStep ==
  ASSUME IInv, NEW r \in Reqs, NEW i \in Ids, Cancel(r, i)
  PROVE  IInv'
<1>1. TypeOK'
  BY DEF IInv, TypeOK, HandlersOK, Cancel, FreshToken, Bound, Row, TERMINAL, Statuses, Idle, Request, Steps
<1>2. HandlersOK'
  BY DEF IInv, TypeOK, RowsOK, HandlersOK, Cancel, FreshToken, Bound, Row, TERMINAL, Statuses, Idle, Request, Attempt
<1> QED
  BY <1>1, <1>2, TablesUnchanged, IssuerUnchanged DEF tables, Cancel

\* A presentation is seen only by the Verifier.
LEMMA PresentDidStep ==
  ASSUME IInv, NEW i \in Ids, NEW d \in Dids, PresentDid(i, d)
  PROVE  IInv'
<1>1. TypeOK'
  BY DEF IInv, TypeOK, PresentDid
<1>2. HandlersOK'
  BY DEF IInv, HandlersOK, PresentDid
<1> QED
  BY <1>1, <1>2, TablesUnchanged, IssuerUnchanged DEF tables, PresentDid

\* A presentation is seen only by the Verifier.
LEMMA PresentVcStep ==
  ASSUME IInv, NEW i \in Ids, NEW c \in Ids, PresentVc(i, c)
  PROVE  IInv'
<1>1. TypeOK'
  BY DEF IInv, TypeOK, PresentVc
<1>2. HandlersOK'
  BY DEF IInv, HandlersOK, PresentVc
<1> QED
  BY <1>1, <1>2, TablesUnchanged, IssuerUnchanged DEF tables, PresentVc

\* Binding an offer keeps its claims.
LEMMA BindStep ==
  ASSUME IInv, NEW i \in Ids, Bind(i)
  PROVE  IInv'
<1>1. TypeOK'
  BY DEF IInv, TypeOK, Bind, IssuerRow
<1>2. IssuerKeeps
  BY DEF IInv, TypeOK, RowsOK, Bind, IssuerRow, IssuerKeeps
<1>3. HandlersOK'
  BY <1>2 DEF IInv, TypeOK, HandlersOK, Bind, IssuerKeeps
<1> QED
  BY <1>1, <1>2, <1>3, TablesUnchanged DEF tables, Bind

\* Issuing keeps the claims of the offer.
LEMMA IssueVcStep ==
  ASSUME IInv, NEW i \in Ids, IssueVc(i)
  PROVE  IInv'
<1>1. TypeOK'
  BY DEF IInv, TypeOK, IssueVc, IssuerRow
<1>2. IssuerKeeps
  BY DEF IInv, TypeOK, RowsOK, IssueVc, IssuerRow, IssuerKeeps
<1>3. HandlersOK'
  BY <1>2 DEF IInv, TypeOK, HandlersOK, IssueVc, IssuerKeeps
<1> QED
  BY <1>1, <1>2, <1>3, TablesUnchanged DEF tables, IssueVc

\* A revoked VC is still a VC that was issued.
LEMMA RevokeStep ==
  ASSUME IInv, NEW i \in Ids, Revoke(i)
  PROVE  IInv'
<1>1. TypeOK'
  BY DEF IInv, TypeOK, Revoke, IssuerRow
<1>2. IssuerKeeps
  BY DEF IInv, TypeOK, RowsOK, Revoke, IssuerRow, IssuerKeeps
<1>3. HandlersOK'
  BY <1>2 DEF IInv, TypeOK, HandlersOK, Revoke, IssuerKeeps
<1> QED
  BY <1>1, <1>2, <1>3, TablesUnchanged DEF tables, Revoke

\* The Issuer's answer to /offers, first or repeated, keeps its promises, and an
\* issue request has an offer afterwards.
LEMMA IssuerOfferKeeps ==
  ASSUME IInv, NEW i \in Ids, attempts[i].status # "absent", NEW ttl \in OfferTtls,
         issuer' = IssuerOffer(i, ttl)
  PROVE  /\ issuer' \in [Ids -> IssuerRow]
         /\ IssuerKeeps
         /\ attempts[i].purpose = "issue" => issuer'[i].state # "none"
<1>1. issuer \in [Ids -> IssuerRow] /\ attempts[i] \in Attempt /\ now \in Nat /\ ttl \in Nat
  BY ConstantsAssumption DEF IInv, TypeOK
<1>2. CASE issuer' = issuer /\ ~(attempts[i].purpose = "issue" /\ issuer[i].state = "none")
  BY <1>1, <1>2, IssuerUnchanged
<1>3. CASE /\ issuer[i].state = "none" /\ attempts[i].purpose = "issue"
           /\ issuer' = [issuer EXCEPT ![i] =
                [state |-> "offered", cancelled |-> FALSE, expiresAt |-> now + ttl,
                 holder |-> attempts[i].holder, root |-> attempts[i].root]]
  <2>1. issuer' \in [Ids -> IssuerRow]
    BY <1>1, <1>3 DEF IssuerRow, Attempt
  <2>2. ~issuer[i].cancelled
    BY <1>3 DEF IInv, RowsOK
  <2>3. \A j \in Ids : issuer[j].state = "none" => ~issuer[j].cancelled
    BY DEF IInv, RowsOK
  <2> QED
    BY <1>1, <1>3, <2>1, <2>2, <2>3 DEF IssuerKeeps
<1> QED
  BY <1>2, <1>3 DEF IssuerOffer

\* offer(): the answer is remembered with an expiry no later than the row's.
LEMMA OfferAnsweredStep ==
  ASSUME IInv, NEW r \in Reqs, OfferAnswered(r)
  PROVE  IInv'
<1> DEFINE i == reqs[r].id
<1>0. i \in Ids /\ attempts[i].status # "absent"
  BY HandlerHasRow DEF OfferAnswered
<1>1. PICK ttl \in OfferTtls :
        LET until == IF attempts[i].purpose = "issue"
                     THEN IssuerOffer(i, ttl)[i].expiresAt ELSE now + ttl
            expiresAt == AttemptExpiry(i, until)
        IN /\ issuer' = IssuerOffer(i, ttl)
           /\ reqs' = [reqs EXCEPT ![r] = [Idle EXCEPT !.id = i, !.expiresAt = expiresAt,
                          !.step = IF expiresAt > now THEN "offered" ELSE "failing"]]
  BY DEF OfferAnswered
<1>2. /\ issuer' \in [Ids -> IssuerRow]
      /\ IssuerKeeps
      /\ attempts[i].purpose = "issue" => issuer'[i].state # "none"
  BY <1>0, <1>1, IssuerOfferKeeps
<1> DEFINE until == IF attempts[i].purpose = "issue" THEN issuer'[i].expiresAt ELSE now + ttl
           expiresAt == AttemptExpiry(i, until)
<1>3. until \in Nat
  BY <1>0, <1>2, ConstantsAssumption DEF IssuerRow, IInv, TypeOK
<1>4. expiresAt \in Nat /\ expiresAt <= attempts[i].expiresAt
  BY <1>0, <1>3 DEF AttemptExpiry, IInv, TypeOK, Attempt
<1>5. /\ reqs' = [reqs EXCEPT ![r] = [Idle EXCEPT !.id = i, !.expiresAt = expiresAt,
                     !.step = IF expiresAt > now THEN "offered" ELSE "failing"]]
      /\ UNCHANGED <<attempts, wallets, credentials, presented, cookie, now>>
  BY <1>1 DEF OfferAnswered
<1> HIDE DEF until, expiresAt
<1>6. TypeOK'
  BY <1>0, <1>2, <1>4, <1>5 DEF IInv, TypeOK, Idle, Request, Steps
<1>7. HandlersOK'
  BY <1>0, <1>2, <1>4, <1>5 DEF IInv, TypeOK, HandlersOK, IssuerKeeps, Idle, Request
<1> QED
  BY <1>2, <1>5, <1>6, <1>7, TablesUnchanged DEF tables

\* offer() fails: the Issuer may have stored the offer all the same.
LEMMA OfferFailedStep ==
  ASSUME IInv, NEW r \in Reqs, OfferFailed(r)
  PROVE  IInv'
<1> DEFINE i == reqs[r].id
<1>0. i \in Ids /\ attempts[i].status # "absent"
  BY HandlerHasRow DEF OfferFailed
<1>1. issuer' \in [Ids -> IssuerRow] /\ IssuerKeeps
  BY <1>0, IssuerOfferKeeps, IssuerUnchanged DEF OfferFailed, IInv, TypeOK
<1>2. TypeOK'
  BY <1>1 DEF IInv, TypeOK, OfferFailed, To, Request, Steps
<1>3. HandlersOK'
  BY <1>0, <1>1 DEF IInv, TypeOK, HandlersOK, IssuerKeeps, OfferFailed, To, Request
<1> QED
  BY <1>1, <1>2, <1>3, TablesUnchanged DEF tables, OfferFailed

\* Cancelling a stored offer at the Issuer takes nothing else back.
LEMMA IssuerMarks ==
  ASSUME IInv, NEW i \in Ids, issuer[i].state # "none",
         issuer' = [issuer EXCEPT ![i].cancelled = TRUE]
  PROVE  issuer' \in [Ids -> IssuerRow] /\ IssuerKeeps /\ issuer'[i].cancelled
<1>1. issuer \in [Ids -> IssuerRow]
  BY DEF IInv, TypeOK
<1>2. issuer' \in [Ids -> IssuerRow]
  BY <1>1 DEF IssuerRow
<1>3. \A j \in Ids : /\ issuer'[j].state = issuer[j].state
                     /\ issuer'[j].holder = issuer[j].holder
                     /\ issuer'[j].root = issuer[j].root
                     /\ issuer'[j].cancelled = (j = i \/ issuer[j].cancelled)
  BY <1>1 DEF IssuerRow
<1>4. \A j \in Ids : issuer[j].state = "none" => ~issuer[j].cancelled
  BY DEF IInv, RowsOK
<1> QED
  BY <1>2, <1>3, <1>4 DEF IssuerKeeps

\* The Issuer marks the offer of the attempt being cancelled.
LEMMA UpstreamCancelStep ==
  ASSUME IInv, NEW r \in Reqs, UpstreamCancel(r)
  PROVE  IInv'
<1> DEFINE i == reqs[r].id
<1>0. i \in Ids
  BY HandlerHasRow DEF UpstreamCancel
<1>1. /\ issuer' \in [Ids -> IssuerRow] /\ IssuerKeeps
      /\ attempts[i].purpose = "issue" => issuer'[i].cancelled
  <2>1. CASE UNCHANGED issuer /\ attempts[i].purpose # "issue"
    BY <2>1, IssuerUnchanged DEF IInv, TypeOK
  <2>2. CASE issuer[i].state # "none" /\ issuer' = [issuer EXCEPT ![i].cancelled = TRUE]
    BY <1>0, <2>2, IssuerMarks
  <2> QED
    BY <1>0, <2>1, <2>2 DEF UpstreamCancel, IInv, RowsOK, HandlersOK
<1>2. TypeOK'
  BY <1>1 DEF IInv, TypeOK, UpstreamCancel, To, Request, Steps
<1>3. HandlersOK'
  BY <1>0, <1>1 DEF IInv, TypeOK, HandlersOK, IssuerKeeps, UpstreamCancel, To, Request
<1> QED
  BY <1>1, <1>2, <1>3, TablesUnchanged DEF tables, UpstreamCancel

\* A cancellation whose answer is lost may still have reached the Issuer.
LEMMA UpstreamCancelFailedStep ==
  ASSUME IInv, NEW r \in Reqs, UpstreamCancelFailed(r)
  PROVE  IInv'
<1> DEFINE i == reqs[r].id
<1>0. i \in Ids
  BY HandlerHasRow DEF UpstreamCancelFailed
<1>1. issuer' \in [Ids -> IssuerRow] /\ IssuerKeeps
  <2>1. CASE UNCHANGED issuer
    BY <2>1, IssuerUnchanged DEF IInv, TypeOK
  <2>2. CASE issuer[i].state # "none" /\ issuer' = [issuer EXCEPT ![i].cancelled = TRUE]
    BY <1>0, <2>2, IssuerMarks
  <2> QED
    BY <2>1, <2>2 DEF UpstreamCancelFailed
<1>2. TypeOK'
  BY <1>1 DEF IInv, TypeOK, UpstreamCancelFailed, Done, Idle, Request, Steps
<1>3. HandlersOK'
  BY <1>0, <1>1 DEF IInv, TypeOK, HandlersOK, IssuerKeeps, UpstreamCancelFailed, Done, Idle
<1> QED
  BY <1>1, <1>2, <1>3, TablesUnchanged DEF tables, UpstreamCancelFailed

-----------------------------------------------------------------------------
(* Steps that write one row of the attempt table.                           *)

\* The columns no update of an attempt touches.
SameIdentity(a, b) ==
  /\ b.purpose = a.purpose /\ b.user = a.user /\ b.holder = a.holder
  /\ b.root = a.root /\ b.gone = a.gone

\* The time constants are naturals.
LEMMA Times == AttemptTtl \in Nat /\ LeaseTtl \in Nat /\ PollGap \in Nat
BY ConstantsAssumption

\* A new row has the shape of a row.
LEMMA NewAttemptType ==
  ASSUME NEW purpose \in {"link", "issue", "verify"}, NEW u \in Users \cup {None},
         NEW d \in Dids \cup {None}, NEW root \in Roots \cup {None},
         NEW k \in Keys \cup {None}, now \in Nat
  PROVE  NewAttempt(purpose, u, d, root, k) \in Attempt
<1>1. Absent \in Attempt
  BY DEF Absent, Attempt, Statuses
<1>2. now + AttemptTtl \in Nat
  BY Times
<1>3. ASSUME NEW a \in Attempt, NEW e \in Nat
      PROVE  [a EXCEPT !.purpose = purpose, !.user = u, !.status = "creating",
                       !.holder = d, !.root = root, !.key = k,
                       !.expiresAt = e, !.nextPollAt = now] \in Attempt
  BY DEF Attempt, Statuses
<1> QED
  BY <1>1, <1>2, <1>3 DEF NewAttempt

\* What activate() writes.
LEMMA ActivatedType ==
  ASSUME NEW a \in Attempt, NEW e \in Nat
  PROVE  LET b == Activated(a, e) IN
         /\ b \in Attempt /\ SameIdentity(a, b)
         /\ b.status = "pending" /\ b.upstream /\ b.expiresAt = e
BY DEF Attempt, Statuses, Activated, SameIdentity

\* What acquire() writes.
LEMMA LeasedType ==
  ASSUME NEW a \in Attempt, NEW r \in Reqs, now \in Nat
  PROVE  LET b == Leased(a, r) IN
         /\ b \in Attempt /\ SameIdentity(a, b)
         /\ b.status = a.status /\ b.upstream = a.upstream /\ b.expiresAt = a.expiresAt
<1>1. now + LeaseTtl \in Nat /\ now + PollGap \in Nat
  BY Times
<1>2. ASSUME NEW x \in Nat, NEW y \in Nat
      PROVE  LET b == [a EXCEPT !.token = r, !.leaseUntil = x, !.nextPollAt = y] IN
             /\ b \in Attempt /\ SameIdentity(a, b)
             /\ b.status = a.status /\ b.upstream = a.upstream /\ b.expiresAt = a.expiresAt
  BY DEF Attempt, Statuses, SameIdentity
<1> QED
  BY <1>1, <1>2 DEF Leased

\* What release() writes.
LEMMA UnleasedType ==
  ASSUME NEW a \in Attempt
  PROVE  LET b == Unleased(a) IN
         /\ b \in Attempt /\ SameIdentity(a, b)
         /\ b.status = a.status /\ b.upstream = a.upstream /\ b.expiresAt = a.expiresAt
BY DEF Attempt, Statuses, Unleased, SameIdentity

\* What fail() and cancel() write.
LEMMA EndedType ==
  ASSUME NEW a \in Attempt, NEW st \in Statuses
  PROVE  LET b == [a EXCEPT !.status = st] IN
         /\ b \in Attempt /\ SameIdentity(a, b)
         /\ b.status = st /\ b.upstream = a.upstream /\ b.expiresAt = a.expiresAt
BY DEF Attempt, Statuses, SameIdentity

\* What complete() writes.
LEMMA CompletedType ==
  ASSUME NEW a \in Attempt, NEW q \in Request
  PROVE  LET b == Completed(a, q) IN
         /\ b \in Attempt /\ SameIdentity(a, b)
         /\ b.status = q.outcome /\ b.upstream = a.upstream /\ b.expiresAt = a.expiresAt
<1> DEFINE c == Unleased(a)
           b == [c EXCEPT !.status = q.outcome, !.subject = q.subject]
<1>1. q.outcome \in Statuses /\ q.subject \in Ids \cup {None}
  BY DEF Request, Statuses
<1>2. /\ c \in Attempt /\ SameIdentity(a, c)
      /\ c.upstream = a.upstream /\ c.expiresAt = a.expiresAt
  BY UnleasedType
<1> HIDE DEF c
<1>3. b \in Attempt
  BY <1>1, <1>2 DEF Attempt
<1>4. /\ SameIdentity(c, b)
      /\ b.status = q.outcome /\ b.upstream = c.upstream /\ b.expiresAt = c.expiresAt
  BY <1>2 DEF Attempt, SameIdentity
<1>5. Completed(a, q) = b
  BY DEF Completed, c
<1> HIDE DEF b
<1> QED
  BY <1>2, <1>3, <1>4, <1>5 DEF SameIdentity

\* A handler record that is idle, or that has just taken up a row.
HandlerStarts(q) ==
  /\ q \in Request
  /\ \/ q.step = "idle"
     \/ q.step \in {"polling", "offering"} /\ q.id \in Ids /\ attempts[q.id].status # "absent"

\* The idle record and the ones poll() and a replay install start a handler.
LEMMA Starts ==
  ASSUME NEW i \in Ids, attempts[i].status # "absent", NEW st \in {"polling", "offering"}
  PROVE  HandlerStarts(Idle) /\ HandlerStarts([Idle EXCEPT !.step = st, !.id = i])
BY DEF HandlerStarts, Idle, Request, Steps

\* One row is written within these limits: what follows for everything except the
\* credential table and the links.
LEMMA RowWrite ==
  ASSUME IInv, NEW i \in Ids, NEW b \in Attempt, NEW r \in Reqs, NEW q, HandlerStarts(q),
         attempts' = [attempts EXCEPT ![i] = b],
         reqs' = [reqs EXCEPT ![r] = q],
         UNCHANGED <<issuer, presented, now>>,
         wallets' \in [Users -> Dids \cup {None}],
         credentials' \in [Ids -> Credential \cup {NoCredential}],
         cookie' \subseteq cookie \cup {i},
         i \in cookie' => b.status # "creating",
         attempts[i].status # "absent", b.status # "absent",
         SameIdentity(attempts[i], b),
         b.status \in {"creating", "pending"} =>
           attempts[i].status \in {"creating", "pending"} /\ b.expiresAt <= attempts[i].expiresAt,
         b.status = "creating" =>
           attempts[i].status = "creating" /\ b.expiresAt = attempts[i].expiresAt,
         attempts[i].upstream => b.upstream,
         b.status = "pending" => b.upstream,
         b.upstream /\ b.purpose = "issue" => issuer[i].state # "none",
         b.status = "cancelled" /\ b.purpose = "issue" => issuer[i].cancelled
  PROVE  /\ TypeOK' /\ RowsOK' /\ HandlersOK' /\ OneActivePerAccount' /\ CancelledIsDeadUpstream'
         /\ \A j \in Ids : Active(j)' => Active(j)
         /\ \A j \in Ids : SameIdentity(attempts[j], attempts'[j])
         /\ attempts'[i] = b /\ \A j \in Ids \ {i} : attempts'[j] = attempts[j]
<1>1. attempts' \in [Ids -> Attempt] /\ attempts'[i] = b
      /\ \A j \in Ids \ {i} : attempts'[j] = attempts[j]
  BY DEF IInv, TypeOK
<1>2. reqs' \in [Reqs -> Request] /\ reqs'[r] = q /\ \A s \in Reqs \ {r} : reqs'[s] = reqs[s]
  BY DEF IInv, TypeOK, HandlerStarts
<1>3. TypeOK'
  BY <1>1, <1>2 DEF IInv, TypeOK
<1>4. RowsOK'
  BY <1>1 DEF IInv, TypeOK, RowsOK, SameIdentity
<1>5. HandlersOK'
  <2> SUFFICES ASSUME NEW s \in Reqs
               PROVE  HandlersOK!(s)'
    BY DEF HandlersOK
  <2>1. CASE s = r
    BY <1>1, <1>2, <2>1 DEF IInv, HandlersOK, HandlerStarts
  <2>2. CASE s # r
    BY <1>1, <1>2, <2>2 DEF IInv, TypeOK, Attempt, HandlersOK, SameIdentity
  <2> QED
    BY <2>1, <2>2
<1>6. \A j \in Ids : Active(j)' => Active(j)
  BY <1>1 DEF IInv, TypeOK, Attempt, Active, Row, SameIdentity
<1>7. \A j \in Ids : SameIdentity(attempts[j], attempts'[j])
  BY <1>1 DEF SameIdentity
<1>8. OneActivePerAccount'
  BY <1>6, <1>7 DEF IInv, OneActivePerAccount, SameIdentity
<1>9. CancelledIsDeadUpstream'
  BY <1>1, <1>7 DEF IInv, CancelledIsDeadUpstream, SameIdentity
<1> QED
  BY <1>1, <1>3, <1>4, <1>5, <1>6, <1>7, <1>8, <1>9

\* Such a write keeps the invariant when it leaves the links and the credentials
\* alone and does not turn an attempt into an issued one.
LEMMA RowUpdateKeeps ==
  ASSUME IInv, NEW i \in Ids, NEW b \in Attempt, NEW r \in Reqs, NEW q, HandlerStarts(q),
         attempts' = [attempts EXCEPT ![i] = b],
         reqs' = [reqs EXCEPT ![r] = q],
         UNCHANGED <<wallets, credentials, issuer, presented, now>>,
         cookie' \subseteq cookie \cup {i},
         i \in cookie' => b.status # "creating",
         attempts[i].status # "absent", b.status # "absent",
         SameIdentity(attempts[i], b),
         b.status \in {"creating", "pending"} =>
           attempts[i].status \in {"creating", "pending"} /\ b.expiresAt <= attempts[i].expiresAt,
         b.status = "creating" =>
           attempts[i].status = "creating" /\ b.expiresAt = attempts[i].expiresAt,
         attempts[i].upstream => b.upstream,
         b.status = "pending" => b.upstream,
         b.upstream /\ b.purpose = "issue" => issuer[i].state # "none",
         (b.status = "issued") <=> (attempts[i].status = "issued"),
         b.status = "cancelled" /\ b.purpose = "issue" => issuer[i].cancelled
  PROVE  IInv'
<1>1. /\ wallets' \in [Users -> Dids \cup {None}]
      /\ credentials' \in [Ids -> Credential \cup {NoCredential}]
  BY DEF IInv, TypeOK
<1>2. /\ TypeOK' /\ RowsOK' /\ HandlersOK' /\ OneActivePerAccount' /\ CancelledIsDeadUpstream'
      /\ \A j \in Ids : Active(j)' => Active(j)
      /\ \A j \in Ids : SameIdentity(attempts[j], attempts'[j])
      /\ attempts'[i] = b /\ \A j \in Ids \ {i} : attempts'[j] = attempts[j]
  BY <1>1, RowWrite
<1>3. IssuanceHolderLinked'
  BY <1>2 DEF IInv, IssuanceHolderLinked, SameIdentity
<1>4. CredentialIsReal'
  BY <1>2 DEF IInv, CredentialIsReal, SameIdentity
<1> QED
  BY <1>2, <1>3, <1>4 DEF IInv

\* The same with the row as it is: only a handler and the cookie change.
LEMMA RowUntouched ==
  ASSUME IInv, NEW i \in Ids, NEW r \in Reqs, NEW q, HandlerStarts(q),
         UNCHANGED <<attempts, wallets, credentials, issuer, presented, now>>,
         reqs' = [reqs EXCEPT ![r] = q],
         cookie' \subseteq cookie \cup {i},
         attempts[i].status # "absent",
         i \in cookie' => attempts[i].status # "creating"
  PROVE  IInv'
<1>1. attempts[i] \in Attempt /\ attempts' = [attempts EXCEPT ![i] = attempts[i]]
  BY DEF IInv, TypeOK
<1>2. attempts[i].expiresAt <= attempts[i].expiresAt
  BY <1>1 DEF Attempt
<1>3. /\ attempts[i].status = "pending" => attempts[i].upstream
      /\ attempts[i].upstream /\ attempts[i].purpose = "issue" => issuer[i].state # "none"
      /\ attempts[i].status = "cancelled" /\ attempts[i].purpose = "issue" => issuer[i].cancelled
  BY DEF IInv, RowsOK, CancelledIsDeadUpstream
<1>4. SameIdentity(attempts[i], attempts[i])
  BY DEF SameIdentity
<1> QED
  BY <1>1, <1>2, <1>3, <1>4, RowUpdateKeeps

\* activate() never lengthens an attempt's life.
LEMMA ActivateStep ==
  ASSUME IInv, NEW r \in Reqs, Activate(r)
  PROVE  IInv'
<1> DEFINE i == reqs[r].id
           b == Activated(attempts[i], reqs[r].expiresAt)
<1>0. i \in Ids /\ attempts[i].status # "absent" /\ attempts[i] \in Attempt /\ HandlerStarts(Idle)
  BY HandlerHasRow, Starts DEF Activate, IInv, TypeOK
<1>1. /\ reqs[r].step = "offered"
      /\ reqs' = [reqs EXCEPT ![r] = Idle]
      /\ cookie' \subseteq cookie \cup {i}
      /\ UNCHANGED <<wallets, credentials, issuer, presented, now>>
  BY DEF Activate, Done
<1>2. CASE Row(i) /\ attempts[i].status = "creating"
  <2>1. attempts' = [attempts EXCEPT ![i] = b]
    BY <1>0, <1>2 DEF Activate
  <2>2. reqs[r].expiresAt \in Nat
    BY DEF IInv, TypeOK, Request
  <2>3. /\ reqs[r].expiresAt <= attempts[i].expiresAt
        /\ attempts[i].purpose = "issue" => issuer[i].state # "none"
    BY <1>1, <1>2 DEF IInv, HandlersOK
  <2>4. /\ b \in Attempt /\ SameIdentity(attempts[i], b)
        /\ b.status = "pending" /\ b.upstream /\ b.expiresAt = reqs[r].expiresAt
    BY <1>0, <2>2, ActivatedType
  <2>5. b.purpose = attempts[i].purpose
    BY <2>4 DEF SameIdentity
  <2> HIDE DEF b
  <2> QED
    BY <1>0, <1>1, <1>2, <2>1, <2>3, <2>4, <2>5, RowUpdateKeeps
<1>3. CASE ~(Row(i) /\ attempts[i].status = "creating")
  <2>1. attempts' = attempts /\ (i \in cookie' => attempts[i].status # "creating")
    BY <1>0, <1>3 DEF Activate, IInv, RowsOK
  <2> QED
    BY <1>0, <1>1, <2>1, RowUntouched
<1> QED
  BY <1>2, <1>3

\* fail() ends a row that is still being created.
LEMMA FailStep ==
  ASSUME IInv, NEW r \in Reqs, Fail(r)
  PROVE  IInv'
<1> DEFINE i == reqs[r].id
           b == [attempts[i] EXCEPT !.status = "failed"]
<1>0. i \in Ids /\ attempts[i].status # "absent" /\ attempts[i] \in Attempt /\ HandlerStarts(Idle)
  BY HandlerHasRow, Starts DEF Fail, IInv, TypeOK
<1>1. /\ reqs' = [reqs EXCEPT ![r] = Idle]
      /\ UNCHANGED <<wallets, credentials, issuer, presented, cookie, now>>
  BY DEF Fail, Done
<1>2. CASE Row(i) /\ attempts[i].status = "creating"
  <2>1. attempts' = [attempts EXCEPT ![i] = b]
    BY <1>0, <1>2 DEF Fail
  <2>2. /\ b \in Attempt /\ SameIdentity(attempts[i], b)
        /\ b.status = "failed" /\ b.upstream = attempts[i].upstream
    BY <1>0, EndedType DEF Statuses
  <2>3. b.purpose = attempts[i].purpose
    BY <2>2 DEF SameIdentity
  <2>4. attempts[i].upstream /\ attempts[i].purpose = "issue" => issuer[i].state # "none"
    BY <1>0 DEF IInv, RowsOK
  <2> HIDE DEF b
  <2> QED
    BY <1>0, <1>1, <1>2, <2>1, <2>2, <2>3, <2>4, RowUpdateKeeps
<1>3. CASE ~(Row(i) /\ attempts[i].status = "creating")
  <2>1. attempts' = attempts /\ (i \in cookie' => attempts[i].status # "creating")
    BY <1>0, <1>1, <1>3 DEF Fail, IInv, RowsOK
  <2> QED
    BY <1>0, <1>1, <2>1, RowUntouched
<1> QED
  BY <1>2, <1>3

\* release() gives back the lease and nothing else.
LEMMA ReleaseStep ==
  ASSUME IInv, NEW r \in Reqs, Release(r)
  PROVE  IInv'
<1> DEFINE i == reqs[r].id
           b == Unleased(attempts[i])
<1>0. i \in Ids /\ attempts[i].status # "absent" /\ attempts[i] \in Attempt /\ HandlerStarts(Idle)
  BY HandlerHasRow, Starts DEF Release, IInv, TypeOK
<1>1. /\ reqs' = [reqs EXCEPT ![r] = Idle]
      /\ UNCHANGED <<wallets, credentials, issuer, presented, cookie, now>>
  BY DEF Release, Done
<1>2. /\ attempts[i].expiresAt <= attempts[i].expiresAt
      /\ i \in cookie => attempts[i].status # "creating"
      /\ attempts[i].status = "pending" => attempts[i].upstream
      /\ attempts[i].upstream /\ attempts[i].purpose = "issue" => issuer[i].state # "none"
      /\ attempts[i].status = "cancelled" /\ attempts[i].purpose = "issue" => issuer[i].cancelled
  BY <1>0 DEF IInv, RowsOK, CancelledIsDeadUpstream, Attempt
<1>3. CASE Row(i) /\ attempts[i].token = r
  <2>1. attempts' = [attempts EXCEPT ![i] = b]
    BY <1>0, <1>3 DEF Release
  <2>2. /\ b \in Attempt /\ SameIdentity(attempts[i], b) /\ b.status = attempts[i].status
        /\ b.upstream = attempts[i].upstream /\ b.expiresAt = attempts[i].expiresAt
    BY <1>0, UnleasedType
  <2>3. b.purpose = attempts[i].purpose
    BY <2>2 DEF SameIdentity
  <2> HIDE DEF b
  <2> QED
    BY <1>0, <1>1, <1>2, <2>1, <2>2, <2>3, RowUpdateKeeps
<1>4. CASE ~(Row(i) /\ attempts[i].token = r)
  <2>1. attempts' = attempts
    BY <1>4 DEF Release
  <2> QED
    BY <1>0, <1>1, <1>2, <2>1, RowUntouched
<1> QED
  BY <1>3, <1>4

\* store.cancel() comes after the Issuer's cancellation.
LEMMA StoreCancelStep ==
  ASSUME IInv, NEW r \in Reqs, StoreCancel(r)
  PROVE  IInv'
<1> DEFINE i == reqs[r].id
           b == [Unleased(attempts[i]) EXCEPT !.status = "cancelled"]
<1>0. i \in Ids /\ attempts[i].status # "absent" /\ attempts[i] \in Attempt /\ HandlerStarts(Idle)
  BY HandlerHasRow, Starts DEF StoreCancel, IInv, TypeOK
<1>1. /\ reqs[r].step = "cancelled"
      /\ reqs' = [reqs EXCEPT ![r] = Idle]
      /\ UNCHANGED <<wallets, credentials, issuer, presented, cookie, now>>
  BY DEF StoreCancel, Done
<1>2. /\ attempts[i].purpose = "issue" => issuer[i].cancelled
      /\ attempts[i].upstream /\ attempts[i].purpose = "issue" => issuer[i].state # "none"
      /\ attempts[i].status # "creating"
  BY <1>0, <1>1 DEF IInv, HandlersOK, RowsOK
<1>3. CASE Row(i) /\ attempts[i].status \in {"creating", "pending"}
  <2>1. attempts' = [attempts EXCEPT ![i] = b]
    BY <1>0, <1>3 DEF StoreCancel
  <2>2. /\ b \in Attempt /\ SameIdentity(attempts[i], b)
        /\ b.status = "cancelled" /\ b.upstream = attempts[i].upstream
    <3>1. /\ Unleased(attempts[i]) \in Attempt /\ SameIdentity(attempts[i], Unleased(attempts[i]))
          /\ Unleased(attempts[i]).upstream = attempts[i].upstream
      BY <1>0, UnleasedType
    <3>2. "cancelled" \in Statuses
      BY DEF Statuses
    <3> QED
      BY <3>1, <3>2, EndedType DEF SameIdentity
  <2>3. b.purpose = attempts[i].purpose
    BY <2>2 DEF SameIdentity
  <2> HIDE DEF b
  <2> QED
    BY <1>0, <1>1, <1>2, <1>3, <2>1, <2>2, <2>3, RowUpdateKeeps
<1>4. CASE ~(Row(i) /\ attempts[i].status \in {"creating", "pending"})
  <2>1. attempts' = attempts
    BY <1>4 DEF StoreCancel
  <2> QED
    BY <1>0, <1>1, <1>2, <2>1, RowUntouched
<1> QED
  BY <1>3, <1>4

\* acquire() takes a lease on a pending row.
LEMMA PollStep ==
  ASSUME IInv, NEW r \in Reqs, NEW i \in Ids, Poll(r, i)
  PROVE  IInv'
<1> DEFINE b == Leased(attempts[i], r)
           q == [Idle EXCEPT !.step = "polling", !.id = i]
<1>1. /\ attempts[i].status = "pending" /\ attempts[i] \in Attempt
      /\ attempts' = [attempts EXCEPT ![i] = b]
      /\ reqs' = [reqs EXCEPT ![r] = q]
      /\ UNCHANGED <<wallets, credentials, issuer, presented, cookie, now>>
  BY DEF Poll, IInv, TypeOK
<1>2. HandlerStarts(q)
  BY <1>1, Starts
<1>3. /\ b \in Attempt /\ SameIdentity(attempts[i], b) /\ b.status = attempts[i].status
      /\ b.upstream = attempts[i].upstream /\ b.expiresAt = attempts[i].expiresAt
  BY <1>1, LeasedType DEF IInv, TypeOK
<1>4. b.purpose = attempts[i].purpose
  BY <1>3 DEF SameIdentity
<1>5. /\ attempts[i].expiresAt <= attempts[i].expiresAt
      /\ attempts[i].upstream
      /\ attempts[i].purpose = "issue" => issuer[i].state # "none"
  BY <1>1 DEF IInv, RowsOK, Attempt
<1> HIDE DEF b, q
<1> QED
  BY <1>1, <1>2, <1>3, <1>4, <1>5, RowUpdateKeeps

\* A replay takes up a row that is being created, or hands out a cookie.
LEMMA IssueReplayStep ==
  ASSUME IInv, NEW r \in Reqs, IssueReplay(r)
  PROVE  IInv'
<1>1. PICK i \in Ids :
        /\ attempts[i].status # "absent"
        /\ \/ /\ attempts[i].status = "creating"
              /\ reqs' = [reqs EXCEPT ![r] = [Idle EXCEPT !.step = "offering", !.id = i]]
              /\ UNCHANGED cookie
           \/ /\ attempts[i].status # "creating"
              /\ cookie' = cookie \cup {i}
              /\ reqs' = [reqs EXCEPT ![r] = Idle]
  BY DEF IssueReplay, Existing, Row, Done
<1>2. UNCHANGED <<attempts, wallets, credentials, issuer, presented, now>>
  BY DEF IssueReplay
<1>3. HandlerStarts(Idle) /\ HandlerStarts([Idle EXCEPT !.step = "offering", !.id = i])
  BY <1>1, Starts
<1>4. i \in cookie' => attempts[i].status # "creating"
  BY <1>1 DEF IInv, RowsOK
<1>5. CASE reqs' = [reqs EXCEPT ![r] = Idle] /\ cookie' = cookie \cup {i}
  BY <1>1, <1>2, <1>3, <1>4, <1>5, RowUntouched
<1>6. CASE reqs' = [reqs EXCEPT ![r] = [Idle EXCEPT !.step = "offering", !.id = i]] /\ UNCHANGED cookie
  BY <1>1, <1>2, <1>3, <1>4, <1>6, RowUntouched
<1> QED
  BY <1>1, <1>5, <1>6

-----------------------------------------------------------------------------
(* Opening and completing an attempt.                                       *)

\* An attempt is opened for an account with nothing in progress; an issuance for
\* the DID the account is linked to.
LEMMA CreateKeeps ==
  ASSUME IInv, NEW r \in Reqs, NEW purpose \in {"link", "issue", "verify"},
         NEW u \in Users \cup {None}, NEW d \in Dids \cup {None},
         NEW root \in Roots \cup {None}, NEW k \in Keys \cup {None},
         purpose \in {"link", "issue"} => u \in Users,
         purpose = "issue" => d \in Dids /\ root \in Roots /\ wallets[u] = d,
         u # None => ~Busy(u),
         Create(r, purpose, u, d, root, k)
  PROVE  IInv'
<1> DEFINE b == NewAttempt(purpose, u, d, root, k)
<1>1. PICK i \in Ids :
        /\ attempts[i].status = "absent"
        /\ attempts' = [attempts EXCEPT ![i] = b]
        /\ reqs' = [reqs EXCEPT ![r] = [Idle EXCEPT !.step = "offering", !.id = i]]
        /\ UNCHANGED <<wallets, credentials, issuer, presented, cookie, now>>
  BY DEF Create
<1>2. b \in Attempt
  BY NewAttemptType DEF IInv, TypeOK
<1>3. /\ b.purpose = purpose /\ b.user = u /\ b.holder = d /\ b.root = root
      /\ b.status = "creating" /\ ~b.upstream /\ ~b.gone
  BY DEF NewAttempt, Absent
<1> HIDE DEF b
<1>4. attempts' \in [Ids -> Attempt] /\ attempts'[i] = b
      /\ \A j \in Ids \ {i} : attempts'[j] = attempts[j]
  BY <1>1, <1>2 DEF IInv, TypeOK
<1> DEFINE q == [Idle EXCEPT !.step = "offering", !.id = i]
<1>5. q \in Request /\ q.step = "offering" /\ q.id = i
  BY <1>1 DEF Idle, Request, Steps
<1> HIDE DEF q
<1>6. reqs' \in [Reqs -> Request] /\ reqs'[r] = q /\ \A s \in Reqs \ {r} : reqs'[s] = reqs[s]
  BY <1>1, <1>5 DEF IInv, TypeOK, q
<1>7. TypeOK'
  BY <1>1, <1>4, <1>6 DEF IInv, TypeOK
<1>8. RowsOK'
  BY <1>1, <1>3, <1>4 DEF IInv, RowsOK
<1>9. HandlersOK'
  <2> SUFFICES ASSUME NEW s \in Reqs
               PROVE  HandlersOK!(s)'
    BY DEF HandlersOK
  <2>1. CASE s = r
    BY <1>3, <1>4, <1>5, <1>6, <2>1 DEF HandlersOK
  <2>2. CASE s # r
    BY <1>1, <1>4, <1>6, <2>2 DEF IInv, HandlersOK
  <2> QED
    BY <2>1, <2>2
<1>10. \A j \in Ids \ {i} : Active(j)' => Active(j)
  BY <1>1, <1>4 DEF Active, Row
<1>11. \A j \in Ids \ {i} : attempts[j].user = u /\ u # None => ~Active(j)
  BY DEF Busy
<1>12. OneActivePerAccount'
  BY <1>3, <1>4, <1>10, <1>11 DEF IInv, OneActivePerAccount
<1>13. IssuanceHolderLinked'
  BY <1>1, <1>3, <1>4, <1>10 DEF IInv, IssuanceHolderLinked
<1>14. CredentialIsReal'
  BY <1>1, <1>3, <1>4 DEF IInv, CredentialIsReal
<1>15. CancelledIsDeadUpstream'
  BY <1>1, <1>3, <1>4 DEF IInv, CancelledIsDeadUpstream
<1> QED
  BY <1>7, <1>8, <1>9, <1>12, <1>13, <1>14, <1>15 DEF IInv

\* link(), verify() and issue() open an attempt.
LEMMA OpenStep ==
  ASSUME IInv, NEW r \in Reqs,
         (\E u \in Users : Link(r, u)) \/ Verify(r) \/ IssueCreate(r)
  PROVE  IInv'
<1>1. ASSUME NEW u \in Users, Link(r, u) PROVE IInv'
  BY <1>1, CreateKeeps DEF Link
<1>2. CASE Verify(r)
  BY <1>2, CreateKeeps DEF Verify
<1>3. CASE IssueCreate(r)
  <2>1. /\ reqs[r].user \in Users /\ reqs[r].holder \in Dids /\ reqs[r].root \in Roots
        /\ reqs[r].key \in Keys \cup {None}
    BY <1>3 DEF IssueCreate, IInv, HandlersOK, TypeOK, Request
  <2> QED
    BY <1>3, <2>1, CreateKeeps DEF IssueCreate
<1> QED
  BY <1>1, <1>2, <1>3

\* What the row written by complete() satisfies.
LEMMA CompletesRow ==
  ASSUME IInv, NEW r \in Reqs, NEW i \in Ids, Completes(r, i)
  PROVE  LET b == Completed(attempts[i], reqs[r]) IN
         /\ b \in Attempt /\ SameIdentity(attempts[i], b) /\ b.purpose = attempts[i].purpose
         /\ b.status = reqs[r].outcome /\ b.upstream = attempts[i].upstream
         /\ b.status \in {"linked", "issued", "verified", "rejected"}
         /\ attempts[i].status = "pending" /\ Active(i)
         /\ attempts[i].upstream /\ attempts[i].purpose = "issue" => issuer[i].state # "none"
<1>1. attempts[i] \in Attempt /\ reqs[r] \in Request
  BY DEF IInv, TypeOK
<1>2. reqs[r].outcome \in {"linked", "issued", "verified", "rejected"}
  BY <1>1 DEF Request
<1>3. attempts[i].status = "pending" /\ Active(i)
  BY DEF Completes, Active
<1>4. attempts[i].upstream /\ attempts[i].purpose = "issue" => issuer[i].state # "none"
  BY DEF IInv, RowsOK
<1> DEFINE b == Completed(attempts[i], reqs[r])
<1>5. /\ b \in Attempt /\ SameIdentity(attempts[i], b)
      /\ b.status = reqs[r].outcome /\ b.upstream = attempts[i].upstream
  BY <1>1, CompletedType
<1> HIDE DEF b
<1>6. b.purpose = attempts[i].purpose
  BY <1>5 DEF SameIdentity
<1>7. QED
  BY <1>2, <1>3, <1>4, <1>5, <1>6 DEF b

\* A link completes: the account had no other attempt in progress, so no issuance
\* depends on the wallet that changes.
LEMMA CompleteLinkStep ==
  ASSUME IInv, NEW r \in Reqs, CompleteLink(r)
  PROVE  IInv'
<1> DEFINE i == reqs[r].id
           u == attempts[i].user
           b == Completed(attempts[i], reqs[r])
<1>0. i \in Ids /\ attempts[i].status # "absent" /\ HandlerStarts(Idle)
  BY HandlerHasRow, Starts DEF CompleteLink
<1>1. /\ Completes(r, i) /\ attempts[i].purpose = "link" /\ reqs[r].step = "resulted"
      /\ attempts' = [attempts EXCEPT ![i] = b]
      /\ wallets' = [wallets EXCEPT ![u] = reqs[r].holder]
      /\ reqs' = [reqs EXCEPT ![r] = Idle]
      /\ UNCHANGED <<credentials, issuer, presented, cookie, now>>
  BY DEF CompleteLink, Done
<1>2. /\ b \in Attempt /\ SameIdentity(attempts[i], b) /\ b.purpose = attempts[i].purpose
      /\ b.upstream = attempts[i].upstream /\ b.status = reqs[r].outcome
      /\ attempts[i].status = "pending" /\ Active(i)
      /\ attempts[i].upstream /\ attempts[i].purpose = "issue" => issuer[i].state # "none"
  BY <1>0, <1>1, CompletesRow
<1>3. u \in Users /\ reqs[r].holder \in Dids /\ b.status = "linked" /\ u # None
  BY <1>0, <1>1, <1>2, ConstantsAssumption DEF IInv, RowsOK, HandlersOK
<1> HIDE DEF b
<1>4. /\ wallets' \in [Users -> Dids \cup {None}]
      /\ credentials' \in [Ids -> Credential \cup {NoCredential}]
  BY <1>1, <1>3 DEF IInv, TypeOK
<1>5. /\ TypeOK' /\ RowsOK' /\ HandlersOK' /\ OneActivePerAccount' /\ CancelledIsDeadUpstream'
      /\ \A j \in Ids : Active(j)' => Active(j)
      /\ \A j \in Ids : SameIdentity(attempts[j], attempts'[j])
      /\ attempts'[i] = b /\ \A j \in Ids \ {i} : attempts'[j] = attempts[j]
  BY <1>0, <1>1, <1>2, <1>3, <1>4, RowWrite
<1>6. IssuanceHolderLinked'
  <2> SUFFICES ASSUME NEW j \in Ids, Active(j)', attempts'[j].purpose = "issue"
               PROVE  wallets'[attempts'[j].user] = attempts'[j].holder
    BY DEF IssuanceHolderLinked
  <2>1. j # i
    BY <1>1, <1>2, <1>5
  <2>2. Active(j) /\ attempts'[j] = attempts[j]
    BY <1>5, <2>1
  <2>3. attempts[j].user # u
    BY <1>0, <1>2, <1>3, <2>1, <2>2 DEF IInv, OneActivePerAccount
  <2>4. wallets[attempts[j].user] = attempts[j].holder /\ attempts[j].user \in Users
    BY <2>2 DEF IInv, IssuanceHolderLinked, RowsOK, Active, Row
  <2> QED
    BY <1>1, <2>2, <2>3, <2>4 DEF IInv, TypeOK
<1>7. CredentialIsReal'
  BY <1>1, <1>2, <1>3, <1>5 DEF IInv, CredentialIsReal, SameIdentity
<1> QED
  BY <1>5, <1>6, <1>7 DEF IInv

\* An issuance completes with the claims its handler matched against the Issuer.
LEMMA CompleteIssueStep ==
  ASSUME IInv, NEW r \in Reqs, CompleteIssue(r)
  PROVE  IInv'
<1> DEFINE i == reqs[r].id
           a == attempts[i]
           b == Completed(attempts[i], reqs[r])
           c == [user |-> a.user, holder |-> a.holder, root |-> a.root]
<1>0. i \in Ids /\ attempts[i].status # "absent" /\ HandlerStarts(Idle)
  BY HandlerHasRow, Starts DEF CompleteIssue
<1>1. /\ Completes(r, i) /\ a.purpose = "issue" /\ reqs[r].step = "resulted"
      /\ attempts' = [attempts EXCEPT ![i] = b]
      /\ credentials' = [credentials EXCEPT ![i] = c]
      /\ reqs' = [reqs EXCEPT ![r] = Idle]
      /\ UNCHANGED <<wallets, issuer, presented, cookie, now>>
  BY DEF CompleteIssue, Done
<1>2. /\ b \in Attempt /\ SameIdentity(a, b) /\ b.purpose = a.purpose
      /\ b.upstream = a.upstream /\ b.status = reqs[r].outcome
      /\ a.status = "pending" /\ Active(i)
      /\ a.upstream /\ a.purpose = "issue" => issuer[i].state # "none"
  BY <1>0, <1>1, CompletesRow
<1>3. /\ a.user \in Users /\ a.holder \in Dids /\ a.root \in Roots /\ b.status = "issued"
      /\ issuer[i].state \in {"active", "revoked"}
      /\ issuer[i].holder = a.holder /\ issuer[i].root = a.root
  BY <1>0, <1>1, <1>2 DEF IInv, RowsOK, HandlersOK
<1> HIDE DEF b
<1>4. /\ c \in Credential /\ c # NoCredential
      /\ c.user = a.user /\ c.holder = a.holder /\ c.root = a.root
  BY <1>3, ConstantsAssumption DEF Credential, NoCredential
<1> HIDE DEF c
<1>5. /\ wallets' \in [Users -> Dids \cup {None}]
      /\ credentials' \in [Ids -> Credential \cup {NoCredential}]
      /\ credentials'[i] = c /\ \A j \in Ids \ {i} : credentials'[j] = credentials[j]
  BY <1>0, <1>1, <1>4 DEF IInv, TypeOK
<1>6. /\ TypeOK' /\ RowsOK' /\ HandlersOK' /\ OneActivePerAccount' /\ CancelledIsDeadUpstream'
      /\ \A j \in Ids : Active(j)' => Active(j)
      /\ \A j \in Ids : SameIdentity(attempts[j], attempts'[j])
      /\ attempts'[i] = b /\ \A j \in Ids \ {i} : attempts'[j] = attempts[j]
  BY <1>0, <1>1, <1>2, <1>3, <1>5, RowWrite
<1>7. IssuanceHolderLinked'
  BY <1>1, <1>6 DEF IInv, IssuanceHolderLinked, SameIdentity
<1>8. CredentialIsReal'
  <2> SUFFICES ASSUME NEW j \in Ids PROVE CredentialIsReal!(j)'
    BY DEF CredentialIsReal
  <2>1. CASE j = i
    BY <1>1, <1>2, <1>3, <1>4, <1>5, <1>6, <2>1 DEF SameIdentity
  <2>2. CASE j # i
    BY <1>1, <1>5, <1>6, <2>2 DEF IInv, CredentialIsReal
  <2> QED
    BY <2>1, <2>2
<1> QED
  BY <1>6, <1>7, <1>8 DEF IInv

\* A verification records nothing but its own result.
LEMMA CompleteVerifyStep ==
  ASSUME IInv, NEW r \in Reqs, CompleteVerify(r)
  PROVE  IInv'
<1> DEFINE i == reqs[r].id
           b == Completed(attempts[i], reqs[r])
<1>0. i \in Ids /\ attempts[i].status # "absent" /\ HandlerStarts(Idle)
  BY HandlerHasRow, Starts DEF CompleteVerify
<1>1. /\ Completes(r, i) /\ attempts[i].purpose = "verify" /\ reqs[r].step = "resulted"
      /\ attempts' = [attempts EXCEPT ![i] = b]
      /\ reqs' = [reqs EXCEPT ![r] = Idle]
      /\ UNCHANGED <<wallets, credentials, issuer, presented, cookie, now>>
  BY DEF CompleteVerify, Done
<1>2. /\ b \in Attempt /\ SameIdentity(attempts[i], b) /\ b.purpose = attempts[i].purpose
      /\ b.upstream = attempts[i].upstream /\ b.status = reqs[r].outcome
      /\ attempts[i].status = "pending" /\ Active(i)
  BY <1>0, <1>1, CompletesRow
<1>3. b.status \in {"verified", "rejected"}
  BY <1>0, <1>1, <1>2 DEF IInv, HandlersOK
<1> HIDE DEF b
<1> QED
  BY <1>0, <1>1, <1>2, <1>3, RowUpdateKeeps

-----------------------------------------------------------------------------
(* The clock, cleanup(), unlink() and the whole next-state relation.        *)

\* Time only ends attempts.
LEMMA TickStep ==
  ASSUME IInv, Tick
  PROVE  IInv'
<1>1. TypeOK'
  BY DEF IInv, TypeOK, Tick
<1>2. RowsOK' /\ HandlersOK' /\ CredentialIsReal' /\ CancelledIsDeadUpstream'
  BY DEF IInv, RowsOK, HandlersOK, CredentialIsReal, CancelledIsDeadUpstream, Tick
<1>3. \A i \in Ids : Active(i)' => Active(i)
  BY DEF IInv, TypeOK, Attempt, Tick, Active, Row
<1>4. OneActivePerAccount' /\ IssuanceHolderLinked'
  BY <1>3 DEF IInv, OneActivePerAccount, IssuanceHolderLinked, Tick
<1> QED
  BY <1>1, <1>2, <1>4 DEF IInv

\* cleanup() only removes rows.
LEMMA CleanupStep ==
  ASSUME IInv, Cleanup
  PROVE  IInv'
<1> DEFINE old == {i \in Ids : Row(i) /\ attempts[i].expiresAt < now - Retention}
<1>1. /\ \A i \in old : Row(i)
      /\ attempts' = [i \in Ids |-> IF i \in old THEN [attempts[i] EXCEPT !.gone = TRUE]
                                    ELSE attempts[i]]
      /\ UNCHANGED <<wallets, credentials, issuer, presented, cookie, reqs, now>>
  BY DEF Cleanup
<1> HIDE DEF old
<1>2. ASSUME NEW a \in Attempt PROVE
        LET b == [a EXCEPT !.gone = TRUE] IN
        /\ b \in Attempt /\ b.gone /\ b.purpose = a.purpose /\ b.user = a.user
        /\ b.status = a.status /\ b.holder = a.holder /\ b.root = a.root
        /\ b.upstream = a.upstream /\ b.expiresAt = a.expiresAt
  BY DEF Attempt, Statuses
<1>3. attempts \in [Ids -> Attempt]
  BY DEF IInv, TypeOK
<1>4. \A i \in Ids :
        LET a == attempts[i] b == attempts'[i] IN
        /\ b \in Attempt /\ b.gone = (a.gone \/ i \in old) /\ b.purpose = a.purpose
        /\ b.user = a.user /\ b.status = a.status /\ b.holder = a.holder /\ b.root = a.root
        /\ b.upstream = a.upstream /\ b.expiresAt = a.expiresAt
  <2> SUFFICES ASSUME NEW i \in Ids
               PROVE  LET a == attempts[i] b == attempts'[i] IN
        /\ b \in Attempt /\ b.gone = (a.gone \/ i \in old) /\ b.purpose = a.purpose
        /\ b.user = a.user /\ b.status = a.status /\ b.holder = a.holder /\ b.root = a.root
        /\ b.upstream = a.upstream /\ b.expiresAt = a.expiresAt
    OBVIOUS
  <2>1. CASE i \in old
    BY <1>1, <1>2, <1>3, <2>1 DEF Attempt
  <2>2. CASE i \notin old
    BY <1>1, <1>3, <2>2 DEF Attempt
  <2> QED
    BY <2>1, <2>2
<1>5. TypeOK'
  BY <1>1, <1>4 DEF IInv, TypeOK
<1>6. RowsOK'
  BY <1>1, <1>4 DEF IInv, RowsOK, Row
<1>7. HandlersOK'
  BY <1>1, <1>4 DEF IInv, HandlersOK
<1>8. \A i \in Ids : Active(i)' => Active(i)
  BY <1>1, <1>4 DEF Active, Row
<1>9. OneActivePerAccount'
  BY <1>4, <1>8 DEF IInv, OneActivePerAccount
<1>10. IssuanceHolderLinked'
  BY <1>1, <1>4, <1>8 DEF IInv, IssuanceHolderLinked
<1>11. CredentialIsReal'
  BY <1>1, <1>4 DEF IInv, CredentialIsReal
<1>12. CancelledIsDeadUpstream'
  BY <1>1, <1>4 DEF IInv, CancelledIsDeadUpstream
<1> QED
  BY <1>5, <1>6, <1>7, <1>9, <1>10, <1>11, <1>12 DEF IInv

\* unlink() refuses while an issuance depends on the link.
LEMMA UnlinkStep ==
  ASSUME IInv, NEW u \in Users, Unlink(u)
  PROVE  IInv'
<1>1. TypeOK'
  BY DEF IInv, TypeOK, Unlink
<1>2. RowsOK' /\ HandlersOK' /\ CredentialIsReal' /\ CancelledIsDeadUpstream'
  BY DEF IInv, RowsOK, HandlersOK, CredentialIsReal, CancelledIsDeadUpstream, Unlink
<1>3. \A i \in Ids : Active(i)' <=> Active(i)
  BY DEF Unlink, Active, Row
<1>4. OneActivePerAccount'
  BY <1>3 DEF IInv, OneActivePerAccount, Unlink
<1>5. IssuanceHolderLinked'
  BY <1>3 DEF IInv, TypeOK, IssuanceHolderLinked, RowsOK, Unlink, Busy, Active, Row
<1> QED
  BY <1>1, <1>2, <1>4, <1>5 DEF IInv

\* Every step keeps the inductive invariant.
LEMMA NextIInv == IInv /\ [Next]_vars => IInv'
<1> SUFFICES ASSUME IInv, [Next]_vars PROVE IInv'
  OBVIOUS
<1>1. ASSUME NEW r \in Reqs, Handler(r) PROVE IInv'
  BY <1>1, OpenStep, IssueReplayStep, IssueRefusedStep, OfferAnsweredStep, OfferFailedStep,
     ActivateStep, FailStep, LinkResultStep, IssueResultStep, VerifyResultStep, NoResultStep,
     CompleteLinkStep, CompleteIssueStep, CompleteVerifyStep, CompleteRejectedStep,
     ReleaseStep, UpstreamCancelStep, UpstreamCancelFailedStep, StoreCancelStep
  DEF Handler
<1>2. ASSUME NEW r \in Reqs, Browser(r) PROVE IInv'
  BY <1>2, OpenStep, IssueReadStep, PollStep, CancelStep DEF Browser
<1>3. ASSUME Phone PROVE IInv'
  BY <1>3, PresentDidStep, PresentVcStep, BindStep, IssueVcStep, RevokeStep DEF Phone
<1>4. CASE UNCHANGED vars
  <2>1. TypeOK' /\ HandlersOK'
    BY <1>4 DEF IInv, TypeOK, HandlersOK, vars
  <2> QED
    BY <1>4, <2>1, TablesUnchanged, IssuerUnchanged DEF tables, vars
<1> QED
  BY <1>1, <1>2, <1>3, <1>4, CrashStep, UnlinkStep, CleanupStep, TickStep DEF Next

-----------------------------------------------------------------------------
(* Theorems.                                                                *)

\* The inductive invariant holds in every reachable state.
THEOREM InductiveInvariant == Spec => []IInv
BY InitIInv, NextIInv, PTL DEF Spec

\* Every table, cookie jar and handler record keeps its shape.
THEOREM TypeCorrect == Spec => []TypeOK
BY InductiveInvariant, PTL DEF IInv

\* However requests, replays, activations, crashes and time interleave, an account
\* never has two operations in progress (create() and activate() of the store).
THEOREM AccountExclusion == Spec => []OneActivePerAccount
BY InductiveInvariant, PTL DEF IInv

\* The account stays linked to the DID an issuance in progress was opened for
\* (create(), unlink() and complete() of the store).
THEOREM HolderStaysLinked == Spec => []IssuanceHolderLinked
BY InductiveInvariant, PTL DEF IInv

\* The credential table agrees with the attempts and with the Issuer: complete()
\* never records a cancelled, expired or mismatching issuance.
THEOREM CredentialsAreReal == Spec => []CredentialIsReal
BY InductiveInvariant, PTL DEF IInv

\* A cancelled issuance is cancelled at the Issuer (cancel() of the service).
THEOREM CancellationReachesIssuer == Spec => []CancelledIsDeadUpstream
BY InductiveInvariant, PTL DEF IInv

-----------------------------------------------------------------------------
(* What a step does to the attempts: it opens one, completes one, or is     *)
(* quiet.  From this follow the refinement and the last two invariants.     *)

Won == {"linked", "issued", "verified"}

\* A row that is neither opened nor completed: it may only end.
QuietRow(a, b) ==
  /\ b.user = a.user
  /\ (b.status = "absent") <=> (a.status = "absent")
  /\ a.status \in Won => b.status = a.status
  /\ b.status \in Won => b.status = a.status /\ b.subject = a.subject

Quiet == \A i \in Ids : QuietRow(attempts[i], attempts'[i]) /\ (Active(i)' => Active(i))

Completing(r) == CompleteLink(r) \/ CompleteIssue(r) \/ CompleteVerify(r)

\* An attempt is opened, for no account or for one that has nothing in progress.
Opening ==
  \E i \in Ids, u \in Users \cup {None} :
    /\ attempts[i].status = "absent" /\ attempts'[i].status = "creating" /\ attempts'[i].user = u
    /\ u # None => ~Busy(u)
    /\ \A j \in Ids \ {i} : attempts'[j] = attempts[j]
    /\ now' = now

LEMMA QuietUnchanged ==
  ASSUME UNCHANGED <<attempts, now>>
  PROVE  Quiet
BY DEF Quiet, QuietRow, Active, Row

\* One row is written and no lifetime is lengthened.
LEMMA QuietWrite ==
  ASSUME IInv, NEW i \in Ids, NEW b \in Attempt, UNCHANGED now,
         attempts' = [attempts EXCEPT ![i] = b],
         QuietRow(attempts[i], b),
         b.status \in {"creating", "pending"} =>
           /\ attempts[i].status \in {"creating", "pending"}
           /\ b.expiresAt <= attempts[i].expiresAt /\ b.gone = attempts[i].gone
  PROVE  Quiet
<1>1. attempts \in [Ids -> Attempt] /\ now \in Nat
  BY DEF IInv, TypeOK
<1>2. attempts'[i] = b /\ \A j \in Ids \ {i} : attempts'[j] = attempts[j]
  BY <1>1
<1>3. \A j \in Ids : QuietRow(attempts[j], attempts'[j])
  BY <1>2 DEF QuietRow
<1>4. Active(i)' => Active(i)
  BY <1>1, <1>2 DEF Active, Row, Attempt
<1>5. \A j \in Ids \ {i} : Active(j)' => Active(j)
  BY <1>2 DEF Active, Row
<1> QED
  BY <1>3, <1>4, <1>5 DEF Quiet

\* release() and cancel() leave the result of an attempt alone.
LEMMA UnleasedSubject ==
  ASSUME NEW a \in Attempt
  PROVE  Unleased(a).subject = a.subject
BY DEF Attempt, Unleased

LEMMA CompletedSubject ==
  ASSUME NEW a \in Attempt, NEW q \in Request
  PROVE  Completed(a, q).subject = q.subject
<1> DEFINE c == Unleased(a)
           b == [c EXCEPT !.status = q.outcome, !.subject = q.subject]
<1>1. c \in Attempt
  BY UnleasedType
<1> HIDE DEF c
<1>2. b.subject = q.subject
  BY <1>1 DEF Attempt
<1> QED
  BY <1>2 DEF Completed, c

LEMMA ActivateQuiet ==
  ASSUME IInv, NEW r \in Reqs, Activate(r)
  PROVE  Quiet
<1> DEFINE i == reqs[r].id
           b == Activated(attempts[i], reqs[r].expiresAt)
<1>1. i \in Ids /\ attempts[i] \in Attempt /\ reqs[r].step = "offered" /\ UNCHANGED now
  BY HandlerHasRow DEF Activate, IInv, TypeOK
<1>2. CASE Row(i) /\ attempts[i].status = "creating"
  <2>1. attempts' = [attempts EXCEPT ![i] = b]
    BY <1>1, <1>2 DEF Activate
  <2>2. reqs[r].expiresAt \in Nat /\ reqs[r].expiresAt <= attempts[i].expiresAt
    BY <1>1, <1>2 DEF IInv, TypeOK, Request, HandlersOK
  <2>3. /\ b \in Attempt /\ SameIdentity(attempts[i], b)
        /\ b.status = "pending" /\ b.expiresAt = reqs[r].expiresAt
    BY <1>1, <2>2, ActivatedType
  <2> HIDE DEF b
  <2>4. QuietRow(attempts[i], b) /\ b.gone = attempts[i].gone
    BY <1>2, <2>3 DEF QuietRow, SameIdentity, Won
  <2> QED
    BY <1>1, <1>2, <2>1, <2>2, <2>3, <2>4, QuietWrite
<1>3. CASE ~(Row(i) /\ attempts[i].status = "creating")
  BY <1>1, <1>3, QuietUnchanged DEF Activate
<1> QED
  BY <1>2, <1>3

LEMMA FailQuiet ==
  ASSUME IInv, NEW r \in Reqs, Fail(r)
  PROVE  Quiet
<1> DEFINE i == reqs[r].id
           b == [attempts[i] EXCEPT !.status = "failed"]
<1>1. i \in Ids /\ attempts[i] \in Attempt /\ UNCHANGED now
  BY HandlerHasRow DEF Fail, IInv, TypeOK
<1>2. CASE Row(i) /\ attempts[i].status = "creating"
  <2>1. attempts' = [attempts EXCEPT ![i] = b]
    BY <1>1, <1>2 DEF Fail
  <2>2. b \in Attempt /\ SameIdentity(attempts[i], b) /\ b.status = "failed"
    BY <1>1, EndedType DEF Statuses
  <2> HIDE DEF b
  <2>3. QuietRow(attempts[i], b)
    BY <1>2, <2>2 DEF QuietRow, SameIdentity, Won
  <2> QED
    BY <1>1, <2>1, <2>2, <2>3, QuietWrite
<1>3. CASE ~(Row(i) /\ attempts[i].status = "creating")
  BY <1>1, <1>3, QuietUnchanged DEF Fail
<1> QED
  BY <1>2, <1>3

LEMMA ReleaseQuiet ==
  ASSUME IInv, NEW r \in Reqs, Release(r)
  PROVE  Quiet
<1> DEFINE i == reqs[r].id
           b == Unleased(attempts[i])
<1>1. i \in Ids /\ attempts[i] \in Attempt /\ UNCHANGED now
  BY HandlerHasRow DEF Release, IInv, TypeOK
<1>2. CASE Row(i) /\ attempts[i].token = r
  <2>1. attempts' = [attempts EXCEPT ![i] = b]
    BY <1>1, <1>2 DEF Release
  <2>2. /\ b \in Attempt /\ SameIdentity(attempts[i], b) /\ b.status = attempts[i].status
        /\ b.expiresAt = attempts[i].expiresAt /\ b.subject = attempts[i].subject
    BY <1>1, UnleasedType, UnleasedSubject
  <2> HIDE DEF b
  <2>3. QuietRow(attempts[i], b) /\ b.gone = attempts[i].gone
        /\ b.expiresAt <= attempts[i].expiresAt
    BY <1>1, <2>2 DEF QuietRow, SameIdentity, Won, Attempt
  <2> QED
    BY <1>1, <2>1, <2>2, <2>3, QuietWrite
<1>3. CASE ~(Row(i) /\ attempts[i].token = r)
  BY <1>1, <1>3, QuietUnchanged DEF Release
<1> QED
  BY <1>2, <1>3

LEMMA StoreCancelQuiet ==
  ASSUME IInv, NEW r \in Reqs, StoreCancel(r)
  PROVE  Quiet
<1> DEFINE i == reqs[r].id
           a == Unleased(attempts[i])
           b == [a EXCEPT !.status = "cancelled"]
<1>1. i \in Ids /\ attempts[i] \in Attempt /\ UNCHANGED now
  BY HandlerHasRow DEF StoreCancel, IInv, TypeOK
<1>2. CASE Row(i) /\ attempts[i].status \in {"creating", "pending"}
  <2>1. attempts' = [attempts EXCEPT ![i] = b]
    BY <1>1, <1>2 DEF StoreCancel
  <2>2. a \in Attempt /\ SameIdentity(attempts[i], a)
    BY <1>1, UnleasedType
  <2> HIDE DEF a
  <2>3. b \in Attempt /\ SameIdentity(a, b) /\ b.status = "cancelled"
    BY <2>2, EndedType DEF Statuses
  <2> HIDE DEF b
  <2>4. QuietRow(attempts[i], b)
    BY <1>2, <2>2, <2>3 DEF QuietRow, SameIdentity, Won
  <2> QED
    BY <1>1, <2>1, <2>3, <2>4, QuietWrite
<1>3. CASE ~(Row(i) /\ attempts[i].status \in {"creating", "pending"})
  BY <1>1, <1>3, QuietUnchanged DEF StoreCancel
<1> QED
  BY <1>2, <1>3

LEMMA PollQuiet ==
  ASSUME IInv, NEW r \in Reqs, NEW i \in Ids, Poll(r, i)
  PROVE  Quiet
<1> DEFINE b == Leased(attempts[i], r)
<1>1. /\ attempts[i].status = "pending" /\ attempts[i] \in Attempt /\ now \in Nat
      /\ attempts' = [attempts EXCEPT ![i] = b] /\ UNCHANGED now
  BY DEF Poll, IInv, TypeOK
<1>2. /\ b \in Attempt /\ SameIdentity(attempts[i], b) /\ b.status = attempts[i].status
      /\ b.expiresAt = attempts[i].expiresAt
  BY <1>1, LeasedType
<1> HIDE DEF b
<1>3. QuietRow(attempts[i], b) /\ b.gone = attempts[i].gone
      /\ b.expiresAt <= attempts[i].expiresAt
  BY <1>1, <1>2 DEF QuietRow, SameIdentity, Won, Attempt
<1> QED
  BY <1>1, <1>2, <1>3, QuietWrite

\* Time and cleanup() end attempts; cleanup() removes only rows that are over.
LEMMA OutsideQuiet ==
  ASSUME IInv, Tick \/ Cleanup
  PROVE  Quiet
<1>1. attempts \in [Ids -> Attempt] /\ now \in Nat
  BY DEF IInv, TypeOK
<1>2. CASE Tick
  <2>1. attempts' = attempts /\ now' = now + 1
    BY <1>2 DEF Tick
  <2>2. \A i \in Ids : attempts[i].expiresAt \in Nat
    BY <1>1 DEF Attempt
  <2> QED
    BY <1>1, <2>1, <2>2 DEF Quiet, QuietRow, Active, Row
<1>3. CASE Cleanup
  <2>1. /\ UNCHANGED now
        /\ \A i \in Ids : attempts'[i] = attempts[i] \/ attempts'[i] = [attempts[i] EXCEPT !.gone = TRUE]
    BY <1>3 DEF Cleanup
  <2>2. ASSUME NEW a \in Attempt
        PROVE  LET b == [a EXCEPT !.gone = TRUE] IN
               b.gone /\ b.user = a.user /\ b.status = a.status /\ b.subject = a.subject
    BY DEF Attempt
  <2>3. \A i \in Ids : attempts'[i] = attempts[i]
          \/ /\ attempts'[i].gone /\ attempts'[i].user = attempts[i].user
             /\ attempts'[i].status = attempts[i].status /\ attempts'[i].subject = attempts[i].subject
    BY <1>1, <2>1, <2>2
  <2> QED
    BY <2>1, <2>3 DEF Quiet, QuietRow, Active, Row
<1> QED
  BY <1>2, <1>3

LEMMA CreateOpens ==
  ASSUME IInv, NEW r \in Reqs, NEW purpose, NEW u \in Users \cup {None}, NEW d, NEW root, NEW k,
         u # None => ~Busy(u), Create(r, purpose, u, d, root, k)
  PROVE  Opening
<1> DEFINE b == NewAttempt(purpose, u, d, root, k)
<1>1. PICK i \in Ids :
        /\ attempts[i].status = "absent"
        /\ attempts' = [attempts EXCEPT ![i] = b]
        /\ UNCHANGED now
  BY DEF Create
<1>2. b.user = u /\ b.status = "creating"
  BY DEF NewAttempt, Absent
<1> HIDE DEF b
<1>3. attempts'[i] = b /\ \A j \in Ids \ {i} : attempts'[j] = attempts[j]
  BY <1>1 DEF IInv, TypeOK
<1> QED
  BY <1>1, <1>2, <1>3 DEF Opening

LEMMA Effects ==
  ASSUME IInv, [Next]_vars
  PROVE  Quiet \/ Opening \/ \E r \in Reqs : Completing(r)
<1>1. ASSUME NEW r \in Reqs, Handler(r) PROVE Quiet \/ Opening \/ Completing(r)
  <2>1. CASE IssueCreate(r)
    <3>1. reqs[r].user \in Users
      BY <2>1 DEF IssueCreate, IInv, HandlersOK
    <3> QED
      BY <2>1, <3>1, CreateOpens DEF IssueCreate
  <2>2. CASE Activate(r) \/ Fail(r) \/ Release(r) \/ StoreCancel(r)
    BY <2>2, ActivateQuiet, FailQuiet, ReleaseQuiet, StoreCancelQuiet
  <2>3. CASE \/ IssueReplay(r) \/ IssueRefused(r) \/ OfferAnswered(r) \/ OfferFailed(r)
             \/ LinkResult(r) \/ IssueResult(r) \/ VerifyResult(r) \/ NoResult(r)
             \/ CompleteRejected(r) \/ UpstreamCancel(r) \/ UpstreamCancelFailed(r)
    BY <2>3, QuietUnchanged DEF IssueReplay, IssueRefused, OfferAnswered, OfferFailed, LinkResult,
       IssueResult, VerifyResult, NoResult, CompleteRejected, UpstreamCancel, UpstreamCancelFailed
  <2> QED
    BY <1>1, <2>1, <2>2, <2>3 DEF Handler, Completing
<1>2. ASSUME NEW r \in Reqs, Browser(r) PROVE Quiet \/ Opening
  <2>1. ASSUME NEW u \in Users, Link(r, u) PROVE Opening
    BY <2>1, CreateOpens DEF Link
  <2>2. CASE Verify(r)
    BY <2>2, CreateOpens DEF Verify
  <2>3. ASSUME NEW i \in Ids, Poll(r, i) PROVE Quiet
    BY <2>3, PollQuiet
  <2>4. CASE \/ \E i \in Ids : Cancel(r, i)
             \/ \E u \in Users, root \in Roots, k \in Keys : IssueRead(r, u, root, k)
    BY <2>4, QuietUnchanged DEF Cancel, IssueRead
  <2> QED
    BY <1>2, <2>1, <2>2, <2>3, <2>4 DEF Browser
<1>3. CASE \/ Phone \/ (\E r \in Reqs : Crash(r)) \/ (\E u \in Users : Unlink(u)) \/ UNCHANGED vars
  BY <1>3, QuietUnchanged DEF Phone, PresentDid, PresentVc, Bind, IssueVc, Revoke, Crash, Unlink, vars
<1>4. CASE Cleanup \/ Tick
  BY <1>4, OutsideQuiet
<1> QED
  BY <1>1, <1>2, <1>3, <1>4 DEF Next

\* What a completion writes: an attempt that was open is won, or rejected.
LEMMA CompletingFacts ==
  ASSUME IInv, NEW r \in Reqs, Completing(r)
  PROVE  LET i == reqs[r].id IN
         /\ i \in Ids /\ reqs[r].step = "resulted" /\ Active(i) /\ UNCHANGED now
         /\ attempts'[i].user = attempts[i].user
         /\ attempts'[i].status = reqs[r].outcome /\ attempts'[i].subject = reqs[r].subject
         /\ attempts'[i].status \in Won \cup {"rejected"}
         /\ \A j \in Ids \ {i} : attempts'[j] = attempts[j]
<1> DEFINE i == reqs[r].id
           b == Completed(attempts[i], reqs[r])
<1>1. /\ reqs[r].step = "resulted" /\ Completes(r, i) /\ UNCHANGED now
      /\ attempts' = [attempts EXCEPT ![i] = b]
  BY DEF Completing, CompleteLink, CompleteIssue, CompleteVerify
<1>2. i \in Ids
  BY <1>1, HandlerHasRow
<1>3. attempts \in [Ids -> Attempt] /\ attempts[i] \in Attempt /\ reqs[r] \in Request
  BY <1>2 DEF IInv, TypeOK
<1>4. /\ SameIdentity(attempts[i], b) /\ b.status = reqs[r].outcome
      /\ b.status \in {"linked", "issued", "verified", "rejected"} /\ Active(i)
  BY <1>1, <1>2, CompletesRow
<1>5. b.subject = reqs[r].subject
  BY <1>3, CompletedSubject
<1> HIDE DEF b
<1>6. attempts'[i] = b /\ \A j \in Ids \ {i} : attempts'[j] = attempts[j]
  BY <1>1, <1>2, <1>3
<1>7. attempts'[i].user = attempts[i].user
  BY <1>4, <1>6 DEF SameIdentity
<1> QED
  BY <1>1, <1>2, <1>4, <1>5, <1>6, <1>7 DEF Won

-----------------------------------------------------------------------------
(* The refinement of AttemptLifecycle.                                      *)

\* An attempt is open exactly while it is active.
LEMMA Stages ==
  \A i \in Ids :
    /\ (Stage(i) = "fresh") <=> (attempts[i].status = "absent")
    /\ (Stage(i) = "won") <=> (attempts[i].status \in Won)
    /\ (Stage(i) = "open") <=> Active(i)
    /\ Stage(i) \in {"fresh", "won", "open", "lost"}
BY DEF Stage, Won, Active, Row

\* Whatever ends at once was open.
LEMMA QuietRefines ==
  ASSUME Quiet
  PROVE  [Lifecycle!Next]_(Lifecycle!vars)
<1> DEFINE S == {j \in Ids : Stage(j) # Stage(j)'}
<1>1. ASSUME NEW j \in Ids, Stage(j) # Stage(j)'
      PROVE  Stage(j) = "open" /\ Stage(j)' = "lost"
  <2>1. QuietRow(attempts[j], attempts'[j]) /\ (Active(j)' => Active(j))
    BY DEF Quiet
  <2> QED
    BY <1>1, <2>1 DEF Stage, QuietRow, Won, Active, Row
<1>2. S \in SUBSET Lifecycle!OpenIds
  BY <1>1 DEF Lifecycle!OpenIds
<1>3. [j \in Ids |-> Stage(j)]' =
        [j \in Ids |-> IF j \in S THEN "lost" ELSE [k \in Ids |-> Stage(k)][j]]
  BY <1>1
<1>4. [j \in Ids |-> attempts[j].user]' = [j \in Ids |-> attempts[j].user]
  BY DEF Quiet, QuietRow
<1>5. CASE S = {}
  BY <1>3, <1>4, <1>5 DEF Lifecycle!vars
<1>6. CASE S # {}
  <2> HIDE DEF S
  <2>1. Lifecycle!Close(S)
    BY <1>3, <1>4, <1>6 DEF Lifecycle!Close
  <2> QED
    BY <1>2, <2>1 DEF Lifecycle!Next
<1> QED
  BY <1>5, <1>6

LEMMA OpeningRefines ==
  ASSUME IInv, Opening
  PROVE  [Lifecycle!Next]_(Lifecycle!vars)
<1>1. PICK i \in Ids, u \in Users \cup {None} :
        /\ attempts[i].status = "absent" /\ attempts'[i].status = "creating"
        /\ attempts'[i].user = u
        /\ u # None => ~Busy(u)
        /\ \A j \in Ids \ {i} : attempts'[j] = attempts[j]
        /\ now' = now
  BY DEF Opening
<1>2. Stage(i) = "fresh" /\ Stage(i)' \in {"open", "lost"}
  BY <1>1 DEF Stage, Active, Row
<1>3. \A j \in Ids \ {i} : Stage(j)' = Stage(j)
  BY <1>1 DEF Stage, Active, Row
<1>4. PICK st \in {"open", "lost"} : st = Stage(i)'
  BY <1>2
<1>5. [j \in Ids |-> Stage(j)]' =
        [j \in Ids |-> IF j = i THEN st ELSE IF j \in {} THEN "lost" ELSE [k \in Ids |-> Stage(k)][j]]
  BY <1>3, <1>4
<1>6. [j \in Ids |-> attempts[j].user]' = [[j \in Ids |-> attempts[j].user] EXCEPT ![i] = u]
  BY <1>1
<1>7. u # None => \A j \in Lifecycle!OpenIds : [k \in Ids |-> attempts[k].user][j] # u
  BY <1>1, Stages DEF Lifecycle!OpenIds, Busy
<1>8. {} \in SUBSET Lifecycle!OpenIds
  OBVIOUS
<1>9. Lifecycle!Open(i, u)
  BY <1>2, <1>5, <1>6, <1>7, <1>8 DEF Lifecycle!Open
<1> QED
  BY <1>9 DEF Lifecycle!Next

LEMMA CompletingRefines ==
  ASSUME IInv, NEW r \in Reqs, Completing(r)
  PROVE  [Lifecycle!Next]_(Lifecycle!vars)
<1>1. PICK i \in Ids :
        /\ Active(i) /\ UNCHANGED now /\ attempts'[i].user = attempts[i].user
        /\ attempts'[i].status \in Won \cup {"rejected"}
        /\ \A j \in Ids \ {i} : attempts'[j] = attempts[j]
  BY CompletingFacts
<1>2. CASE attempts'[i].status = "rejected"
  <2>1. \A j \in Ids : QuietRow(attempts[j], attempts'[j])
    BY <1>1, <1>2 DEF QuietRow, Won, Active, Row
  <2>2. \A j \in Ids : Active(j)' => Active(j)
    BY <1>1 DEF Active, Row
  <2> QED
    BY <2>1, <2>2, QuietRefines DEF Quiet
<1>3. CASE attempts'[i].status \in Won
  <2>1. Stage(i) = "open"
    BY <1>1, Stages
  <2>2. Stage(i)' = "won"
    BY <1>3 DEF Stage, Won, Active, Row
  <2>3. \A j \in Ids \ {i} : Stage(j)' = Stage(j)
    BY <1>1 DEF Stage, Active, Row
  <2>4. [j \in Ids |-> Stage(j)]' = [[j \in Ids |-> Stage(j)] EXCEPT ![i] = "won"]
    BY <2>2, <2>3
  <2>5. [j \in Ids |-> attempts[j].user]' = [j \in Ids |-> attempts[j].user]
    BY <1>1
  <2>6. Lifecycle!Win(i)
    BY <2>1, <2>4, <2>5 DEF Lifecycle!Win
  <2> QED
    BY <2>6 DEF Lifecycle!Next
<1> QED
  BY <1>1, <1>2, <1>3

\* The workflow implements the attempt lifecycle: every step of the handlers, the phone, the
\* Issuer and the clock opens an attempt of an account that has none open, wins an open one,
\* ends open ones, or is invisible there (create(), activate(), complete(), cancel() of the
\* store).
THEOREM RefinementTheorem == Spec => ImplementsLifecycle
<1>1. Init => Lifecycle!Init
  BY DEF Init, Lifecycle!Init, Stage, Active, Row, Absent
<1>2. IInv /\ [Next]_vars => [Lifecycle!Next]_(Lifecycle!vars)
  BY Effects, QuietRefines, OpeningRefines, CompletingRefines
<1> QED
  BY <1>1, <1>2, InductiveInvariant, PTL DEF Spec, ImplementsLifecycle, Lifecycle!Spec

-----------------------------------------------------------------------------
(* Verified presentations.                                                  *)

\* A credential this application recorded.
Recorded(c, table) == c \in Ids /\ table[c] # NoCredential

\* A handler that is about to store "verified" has found the credential in the table.
ResultsRecorded ==
  \A r \in Reqs :
    reqs[r].step = "resulted" /\ reqs[r].outcome = "verified" =>
      Recorded(reqs[r].subject, credentials)

\* Records are added and never removed.
LEMMA RecordsKept ==
  ASSUME IInv, [Next]_vars
  PROVE  \A c : Recorded(c, credentials) => Recorded(c, credentials')
<1>1. credentials' = credentials \/ \E r \in Reqs : CompleteIssue(r)
  <2>1. ASSUME NEW r \in Reqs, Handler(r) PROVE credentials' = credentials \/ CompleteIssue(r)
    BY <2>1 DEF Handler, Create, IssueCreate, IssueReplay, IssueRefused, OfferAnswered,
       OfferFailed, Activate, Fail, LinkResult, IssueResult, VerifyResult, NoResult,
       CompleteLink, CompleteVerify, CompleteRejected, Release, UpstreamCancel,
       UpstreamCancelFailed, StoreCancel
  <2>2. ASSUME NEW r \in Reqs, Browser(r) \/ Crash(r) PROVE credentials' = credentials
    BY <2>2 DEF Browser, Link, Verify, Create, IssueRead, Poll, Cancel, Crash
  <2>3. CASE Phone \/ Cleanup \/ Tick \/ (\E u \in Users : Unlink(u)) \/ UNCHANGED vars
    BY <2>3 DEF Phone, PresentDid, PresentVc, Bind, IssueVc, Revoke, Cleanup, Tick, Unlink, vars
  <2> QED
    BY <2>1, <2>2, <2>3 DEF Next
<1>2. CASE credentials' = credentials
  BY <1>2
<1>3. ASSUME NEW r \in Reqs, CompleteIssue(r)
      PROVE  \A c : Recorded(c, credentials) => Recorded(c, credentials')
  <2>1. credentials \in [Ids -> Credential \cup {NoCredential}]
    BY DEF IInv, TypeOK
  <2>2. PICK new : credentials' = [credentials EXCEPT ![reqs[r].id] = new]
    BY <1>3 DEF CompleteIssue
  <2>3. credentials[reqs[r].id] = NoCredential
    BY <1>3 DEF CompleteIssue
  <2>4. \A c \in Ids : c = reqs[r].id \/ credentials'[c] = credentials[c]
    BY <2>1, <2>2
  <2> QED
    BY <2>3, <2>4 DEF Recorded
<1> QED
  BY <1>1, <1>2, <1>3

\* A handler keeps its result, loses it, or has just looked it up.
LEMMA ResultsKept ==
  ASSUME IInv, ResultsRecorded, [Next]_vars
  PROVE  ResultsRecorded'
<1> SUFFICES ASSUME NEW s \in Reqs, reqs'[s].step = "resulted", reqs'[s].outcome = "verified"
             PROVE  Recorded(reqs'[s].subject, credentials')
  BY DEF ResultsRecorded
<1>1. reqs \in [Reqs -> Request] /\ presented \in [Ids -> Dids \cup Ids \cup {None}]
  BY DEF IInv, TypeOK
<1>2. CASE reqs'[s] = reqs[s]
  BY <1>2, RecordsKept DEF ResultsRecorded
<1>3. CASE VerifyResult(s)
  <2> DEFINE i == reqs[s].id
  <2>1. Recorded(presented[i], credentials) /\ credentials' = credentials
    BY <1>3 DEF VerifyResult, Recorded
  <2>2. PICK o \in {"verified", "rejected"} :
          reqs' = [reqs EXCEPT ![s] = [Idle EXCEPT !.step = "resulted", !.id = i,
                                         !.subject = presented[i], !.outcome = o]]
    BY <1>3 DEF VerifyResult
  <2> DEFINE q == [Idle EXCEPT !.step = "resulted", !.id = i,
                               !.subject = presented[i], !.outcome = o]
  <2>3. q.subject = presented[i]
    BY DEF Idle
  <2>4. reqs'[s] = q
    BY <1>1, <2>2
  <2> HIDE DEF q
  <2> QED
    BY <2>1, <2>3, <2>4
<1>4. ~LinkResult(s) /\ ~IssueResult(s)
  <2> DEFINE i == reqs[s].id
             l == [Idle EXCEPT !.step = "resulted", !.id = i, !.holder = presented[i],
                               !.outcome = "linked"]
             v == [Idle EXCEPT !.step = "resulted", !.id = i, !.outcome = "issued"]
  <2>1. l.outcome = "linked" /\ v.outcome = "issued"
    BY DEF Idle
  <2>2. /\ LinkResult(s) => reqs'[s] = l
        /\ IssueResult(s) => reqs'[s] = v
    BY <1>1 DEF LinkResult, IssueResult
  <2> HIDE DEF l, v
  <2> QED
    BY <2>1, <2>2
\* A record some other step installs carries no result.
<1>5. ASSUME NEW r \in Reqs, NEW q, reqs' = [reqs EXCEPT ![r] = q], q.step # "resulted"
      PROVE  reqs'[s] = reqs[s]
  BY <1>1, <1>5
<1>6. ASSUME NEW r \in Reqs, Done(r) PROVE reqs'[s] = reqs[s]
  BY <1>5, <1>6 DEF Done, Idle
<1>7. ASSUME NEW r \in Reqs, NEW st, st # "resulted", To(r, st) PROVE reqs'[s] = reqs[s]
  <2>1. reqs'[r].step = st /\ (s # r => reqs'[s] = reqs[s])
    BY <1>1, <1>7 DEF To, Request
  <2> QED
    BY <1>7, <2>1
<1>8. ASSUME NEW r \in Reqs, NEW i, NEW st \in {"offering", "polling", "cancelling", "cancelled"},
             reqs' = [reqs EXCEPT ![r] = [Idle EXCEPT !.step = st, !.id = i]]
      PROVE  reqs'[s] = reqs[s]
  <2> DEFINE q == [Idle EXCEPT !.step = st, !.id = i]
  <2>1. q.step # "resulted"
    BY DEF Idle
  <2> HIDE DEF q
  <2> QED
    BY <1>5, <1>8, <2>1 DEF q
<1>9. ASSUME NEW r \in Reqs, OfferAnswered(r) PROVE reqs'[s] = reqs[s]
  <2> DEFINE i == reqs[r].id
             e(ttl) == AttemptExpiry(i, IF attempts[i].purpose = "issue"
                                        THEN IssuerOffer(i, ttl)[i].expiresAt ELSE now + ttl)
  <2>1. PICK ttl \in OfferTtls :
          reqs' = [reqs EXCEPT ![r] = [Idle EXCEPT !.id = i, !.expiresAt = e(ttl),
                         !.step = IF e(ttl) > now THEN "offered" ELSE "failing"]]
    BY <1>9 DEF OfferAnswered
  <2> DEFINE q == [Idle EXCEPT !.id = i, !.expiresAt = e(ttl),
                               !.step = IF e(ttl) > now THEN "offered" ELSE "failing"]
  <2> HIDE DEF e
  <2>2. q.step # "resulted"
    BY DEF Idle
  <2> HIDE DEF q
  <2> QED
    BY <1>5, <2>1, <2>2 DEF q
<1>10. ASSUME NEW r \in Reqs, NEW u \in Users, NEW root \in Roots, NEW k \in Keys,
              IssueRead(r, u, root, k)
       PROVE  reqs'[s] = reqs[s]
  <2> DEFINE q == [Idle EXCEPT !.step = "issuing", !.user = u, !.holder = wallets[u],
                               !.root = root, !.key = k]
  <2>1. q.step # "resulted"
    BY DEF Idle
  <2>2. reqs' = [reqs EXCEPT ![r] = q]
    BY <1>10 DEF IssueRead
  <2> HIDE DEF q
  <2> QED
    BY <1>5, <2>1, <2>2
<1>11. ASSUME NEW r \in Reqs, Handler(r) PROVE reqs'[s] = reqs[s] \/ VerifyResult(s)
  <2>1. CASE \/ IssueRefused(r) \/ Activate(r) \/ Fail(r) \/ CompleteLink(r) \/ CompleteIssue(r)
             \/ CompleteVerify(r) \/ Release(r) \/ UpstreamCancelFailed(r) \/ StoreCancel(r)
    BY <1>6, <2>1 DEF IssueRefused, Activate, Fail, CompleteLink, CompleteIssue, CompleteVerify,
       Release, UpstreamCancelFailed, StoreCancel
  <2>2. CASE OfferFailed(r) \/ NoResult(r) \/ CompleteRejected(r) \/ UpstreamCancel(r)
    BY <1>7, <2>2 DEF OfferFailed, NoResult, CompleteRejected, UpstreamCancel
  <2>3. CASE IssueCreate(r) \/ IssueReplay(r)
    BY <1>6, <1>8, <2>3 DEF IssueCreate, IssueReplay, Create
  <2>4. CASE LinkResult(r) \/ IssueResult(r) \/ VerifyResult(r)
    <3>1. r # s => reqs'[s] = reqs[s]
      BY <1>1, <2>4 DEF LinkResult, IssueResult, VerifyResult
    <3> QED
      BY <1>4, <2>4, <3>1
  <2> QED
    BY <1>9, <1>11, <2>1, <2>2, <2>3, <2>4 DEF Handler
<1>12. ASSUME NEW r \in Reqs, Browser(r) PROVE reqs'[s] = reqs[s]
  <2>1. ASSUME NEW i \in Ids, Cancel(r, i) PROVE reqs'[s] = reqs[s]
    <3>1. PICK st \in {"cancelling", "cancelled"} :
            reqs' = [reqs EXCEPT ![r] = [Idle EXCEPT !.id = i, !.step = st]]
      BY <2>1 DEF Cancel
    <3> DEFINE q == [Idle EXCEPT !.id = i, !.step = st]
    <3>2. q.step # "resulted"
      BY DEF Idle
    <3> HIDE DEF q
    <3> QED
      BY <1>5, <3>1, <3>2 DEF q
  <2>2. CASE (\E u \in Users : Link(r, u)) \/ Verify(r)
    BY <1>8, <2>2 DEF Link, Verify, Create
  <2>3. ASSUME NEW i \in Ids, Poll(r, i) PROVE reqs'[s] = reqs[s]
    BY <1>8, <2>3 DEF Poll
  <2> QED
    BY <1>10, <1>12, <2>1, <2>2, <2>3 DEF Browser
<1>13. ASSUME NEW r \in Reqs, Crash(r) PROVE reqs'[s] = reqs[s]
  BY <1>6, <1>13 DEF Crash
<1>14. ASSUME Phone \/ Cleanup \/ Tick \/ (\E u \in Users : Unlink(u)) \/ UNCHANGED vars
       PROVE  reqs'[s] = reqs[s]
  BY <1>14 DEF Phone, PresentDid, PresentVc, Bind, IssueVc, Revoke, Cleanup, Tick, Unlink, vars
<1>15. reqs'[s] = reqs[s] \/ VerifyResult(s)
  BY <1>11, <1>12, <1>13, <1>14 DEF Next
<1> QED
  BY <1>2, <1>3, <1>15

\* A verification that succeeded rests on a credential this application recorded, however
\* long after the look-up its result is stored and whatever is revoked or completed meanwhile
\* (finishVerification() and complete()).
THEOREM VerifiedTheorem == Spec => []VerifiedIsRecorded
<1> DEFINE V == VerifiedIsRecorded /\ ResultsRecorded
<1>1. Init => V
  BY DEF Init, VerifiedIsRecorded, ResultsRecorded, Absent, Idle
<1>2. ASSUME IInv, V, [Next]_vars PROVE VerifiedIsRecorded'
  <2> SUFFICES ASSUME NEW i \in Ids, attempts'[i].status = "verified"
               PROVE  Recorded(attempts'[i].subject, credentials')
    BY DEF VerifiedIsRecorded, Recorded
  <2>1. CASE attempts[i].status = "verified" /\ attempts'[i].subject = attempts[i].subject
    BY <1>2, <2>1, RecordsKept DEF VerifiedIsRecorded, Recorded
  <2>2. CASE Quiet
    BY <2>1, <2>2 DEF Quiet, QuietRow, Won
  <2>3. CASE Opening
    BY <2>1, <2>3 DEF Opening
  <2>4. ASSUME NEW r \in Reqs, Completing(r) PROVE Recorded(attempts'[i].subject, credentials')
    <3>1. CASE i = reqs[r].id
      <4>1. /\ reqs[r].step = "resulted" /\ attempts'[i].status = reqs[r].outcome
            /\ attempts'[i].subject = reqs[r].subject
        BY <1>2, <2>4, <3>1, CompletingFacts
      <4> QED
        BY <1>2, <4>1, RecordsKept DEF ResultsRecorded
    <3>2. CASE i # reqs[r].id
      <4>1. attempts'[i] = attempts[i]
        BY <1>2, <2>4, <3>2, CompletingFacts
      <4> QED
        BY <2>1, <4>1
    <3> QED
      BY <3>1, <3>2
  <2> QED
    BY <1>2, <2>2, <2>3, <2>4, Effects
<1>3. IInv /\ V /\ [Next]_vars => V'
  BY <1>2, ResultsKept
<1>4. V => VerifiedIsRecorded
  OBVIOUS
<1> HIDE DEF V
<1> QED
  BY <1>1, <1>3, <1>4, InductiveInvariant, PTL DEF Spec
=============================================================================
