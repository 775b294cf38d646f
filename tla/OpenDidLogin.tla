---------------------------- MODULE OpenDidLogin ----------------------------
(***************************************************************************)
(* Login with an Open DID wallet: opendid-login.service.ts over            *)
(* opendid-attempt.store.ts.                                               *)
(*                                                                         *)
(* A browser asks for an offer, gets a cookie with the secret of that      *)
(* attempt, and polls present() until the Verifier has seen the phone's    *)
(* presentation; present() then consumes the attempt and signs a session.  *)
(* Requests carry the cookie the browser had when it sent them, so answers *)
(* and requests of one browser cross freely.  Every secret belongs to one  *)
(* attempt, so a secret is named by its attempt; a lease token (randomUUID)*)
(* is the handler that drew it.                                            *)
(*                                                                         *)
(* Abstracted: origin, policy and country checks, and the request budget,  *)
(* refuse a request before it changes an attempt.                          *)
(***************************************************************************)
EXTENDS Integers, FiniteSets

CONSTANTS
  Browsers,   \* browsers, one cookie jar each
  Holders,    \* registered holders (didHash of the verified subject)
  Ids,        \* attempts
  Reqs,       \* handler slots: bounds how many requests are in flight
  OfferTtls,  \* lifetimes of an offer, at most OPENDID_ATTEMPT_TTL_SECONDS
  LeaseTtl,   \* Verifier timeout + 5 s
  PollGap,    \* pollAfterMs
  Retention,  \* 60 s between expiry and deletion
  MaxNow,     \* bound on the clock
  None

ASSUME ConstantsAssumption ==
  /\ {LeaseTtl, PollGap, Retention, MaxNow} \subseteq Nat
  /\ OfferTtls \subseteq Nat \ {0}
  /\ None \notin (Browsers \cup Holders \cup Ids \cup Reqs)

VARIABLES
  attempts,   \* the OpenDidAttempt table
  jar,        \* the attempt whose secret a browser's cookie holds
  presented,  \* the holder whose presentation the Verifier accepted for an offer
  verified,   \* IdentityVerification rows, counted by attempt
  sessions,   \* sessions signed: attempt, holder and the browser that got it
  reqs,       \* handlers in flight
  now

vars == <<attempts, jar, presented, verified, sessions, reqs, now>>

Statuses == {"absent", "pending", "processing", "expired", "rejected", "consumed"}

Steps == {"idle", "offering", "answering", "presenting", "checking", "releasing",
          "completing", "signing", "failing"}

Attempt == [status: Statuses, browser: Browsers \cup {None}, expiresAt: Nat,
            nextPollAt: Nat, token: Reqs \cup {None}, leaseUntil: Nat,
            previous: Ids \cup {None},  \* history: the attempt its create() superseded
            gone: BOOLEAN]              \* deleted by cleanup(); kept here as history

Absent == [status |-> "absent", browser |-> None, expiresAt |-> 0, nextPollAt |-> 0,
           token |-> None, leaseUntil |-> 0, previous |-> None, gone |-> FALSE]

Request == [step: Steps, browser: Browsers \cup {None}, id: Ids \cup {None},
            result: {"pending", "expired", "rejected"}, holder: Holders \cup {None}]

Idle == [step |-> "idle", browser |-> None, id |-> None, result |-> "pending", holder |-> None]

Session == [id: Ids, holder: Holders, browser: Browsers]

Init ==
  /\ attempts = [i \in Ids |-> Absent]
  /\ jar = [b \in Browsers |-> None]
  /\ presented = [i \in Ids |-> None]
  /\ verified = [i \in Ids |-> 0]
  /\ sessions = {}
  /\ reqs = [r \in Reqs |-> Idle]
  /\ now = 0

Row(i) == attempts[i].status # "absent" /\ ~attempts[i].gone

\* A token is never drawn twice: a slot whose token a row carries is not reused.
FreshToken(r) == reqs[r].step = "idle" /\ \A i \in Ids : attempts[i].token # r

To(r, step) == reqs' = [reqs EXCEPT ![r].step = step]
Done(r) == reqs' = [reqs EXCEPT ![r] = Idle]

-----------------------------------------------------------------------------
(* offer()                                                                  *)

\* The request leaves the browser with the secret its jar holds.
Offer(r, b) ==
  /\ reqs[r].step = "idle"
  /\ reqs' = [reqs EXCEPT ![r] = [Idle EXCEPT !.step = "offering", !.browser = b, !.id = jar[b]]]
  /\ UNCHANGED <<attempts, jar, presented, verified, sessions, now>>

\* What create() does to the rows of the previous secret.
Superseded(a, i, previous) ==
  IF i = previous /\ a.status \in {"pending", "processing"} /\ ~a.gone
  THEN [a EXCEPT !.status = "expired", !.token = None] ELSE a

\* The Verifier answers and create() expires the previous attempt of the browser
\* and inserts the new one.
Create(r) ==
  LET q == reqs[r] IN
  /\ q.step = "offering"
  /\ \E i \in Ids, ttl \in OfferTtls :
       /\ attempts[i].status = "absent"
       /\ attempts' = [j \in Ids |->
            IF j = i
            THEN [Absent EXCEPT !.status = "pending", !.browser = q.browser,
                                !.expiresAt = now + ttl, !.nextPollAt = now,
                                !.previous = q.id]
            ELSE Superseded(attempts[j], j, q.id)]
       /\ reqs' = [reqs EXCEPT ![r] = [Idle EXCEPT !.step = "answering",
                                         !.browser = q.browser, !.id = i]]
  /\ UNCHANGED <<jar, presented, verified, sessions, now>>

\* The answer reaches the browser: the cookie is replaced.
OfferAnswer(r) ==
  /\ reqs[r].step = "answering"
  /\ jar' = [jar EXCEPT ![reqs[r].browser] = reqs[r].id]
  /\ Done(r)
  /\ UNCHANGED <<attempts, presented, verified, sessions, now>>

-----------------------------------------------------------------------------
(* present()                                                                *)

\* Fault: the secret of the request is not compared with the attempt's.
PresentAnyOffer(r, b, i) ==
  /\ FreshToken(r)
  /\ jar[b] # None
  /\ reqs' = [reqs EXCEPT ![r] = [Idle EXCEPT !.step = "presenting", !.browser = b, !.id = i]]
  /\ UNCHANGED <<attempts, jar, presented, verified, sessions, now>>

\* The browser polls for offer i; only the secret of i is accepted for it.
Present(r, b, i) ==
  /\ FreshToken(r)
  /\ jar[b] = i
  /\ reqs' = [reqs EXCEPT ![r] = [Idle EXCEPT !.step = "presenting", !.browser = b, !.id = i]]
  /\ UNCHANGED <<attempts, jar, presented, verified, sessions, now>>

\* The where clause of acquire().
Acquirable(i) ==
  /\ Row(i)
  /\ attempts[i].expiresAt > now
  /\ attempts[i].nextPollAt <= now
  /\ \/ attempts[i].status = "pending"
     \/ attempts[i].status = "processing" /\ attempts[i].leaseUntil <= now

Acquired(a, r) == [a EXCEPT !.status = "processing", !.token = r, !.leaseUntil = now + LeaseTtl]

\* The checks on the row that was found are repeated by acquire(): one step.
Acquire(r) ==
  LET i == reqs[r].id IN
  /\ reqs[r].step = "presenting"
  /\ \/ /\ Acquirable(i)
        /\ attempts' = [attempts EXCEPT ![i] = Acquired(@, r)]
        /\ To(r, "checking")
     \/ /\ ~Acquirable(i)
        /\ Done(r)
        /\ UNCHANGED attempts
  /\ UNCHANGED <<jar, presented, verified, sessions, now>>

\* checkVerification(): the Verifier has accepted a presentation of a holder.
CheckVerified(r) ==
  LET i == reqs[r].id IN
  /\ reqs[r].step = "checking"
  /\ presented[i] \in Holders
  /\ reqs' = [reqs EXCEPT ![r].step = "completing", ![r].holder = presented[i]]
  /\ UNCHANGED <<attempts, jar, presented, verified, sessions, now>>

\* checkVerification(): nothing yet, over, or refused.
CheckOther(r) ==
  /\ reqs[r].step = "checking"
  /\ \E result \in {"pending", "expired", "rejected"} :
       reqs' = [reqs EXCEPT ![r].step = "releasing", ![r].result = result]
  /\ UNCHANGED <<attempts, jar, presented, verified, sessions, now>>

\* The Verifier is unavailable, complete() or the signature throws: to the catch.
Throws(r) ==
  /\ reqs[r].step \in {"checking", "completing", "signing"}
  /\ To(r, "failing")
  /\ UNCHANGED <<attempts, jar, presented, verified, sessions, now>>

\* Fault: release() without its conditions on the status and the lease.
ReleasedAny(a, r, status) ==
  IF ~a.gone
  THEN [a EXCEPT !.status = status, !.nextPollAt = now + PollGap, !.token = None, !.leaseUntil = 0]
  ELSE a

\* release(): only a row this handler still holds.
Released(a, r, status) ==
  IF ~a.gone /\ a.status = "processing" /\ a.token = r
  THEN [a EXCEPT !.status = status, !.nextPollAt = now + PollGap, !.token = None, !.leaseUntil = 0]
  ELSE a

\* The result is written; "expired", "rejected" and an attempt that ran out
\* meanwhile throw inside the try, so the catch releases once more.
Release(r) ==
  LET i == reqs[r].id
      throws == reqs[r].result # "pending" \/ attempts[i].expiresAt <= now
  IN
  /\ reqs[r].step = "releasing"
  /\ attempts' = [attempts EXCEPT ![i] = Released(@, r, reqs[r].result)]
  /\ IF throws THEN To(r, "failing") ELSE Done(r)
  /\ UNCHANGED <<jar, presented, verified, sessions, now>>

\* The where clause of complete().
Completes(r, i) ==
  /\ Row(i)
  /\ attempts[i].token = r
  /\ attempts[i].status = "processing"
  /\ attempts[i].expiresAt > now
  /\ attempts[i].leaseUntil > now

Consumed(a) == [a EXCEPT !.status = "consumed", !.token = None, !.leaseUntil = 0]

\* Fault: complete() looks at the lease time but not at the token.
CompleteAnyToken(r) ==
  LET i == reqs[r].id IN
  /\ reqs[r].step = "completing"
  /\ Row(i) /\ attempts[i].expiresAt > now
  /\ attempts' = [attempts EXCEPT ![i] = Consumed(@)]
  /\ verified' = [verified EXCEPT ![i] = @ + 1]
  /\ To(r, "signing")
  /\ UNCHANGED <<jar, presented, sessions, now>>

\* complete(): consume the attempt and record the verification in one
\* transaction, or find that the lease is no longer this handler's.
Complete(r) ==
  LET i == reqs[r].id IN
  /\ reqs[r].step = "completing"
  /\ \/ /\ Completes(r, i)
        /\ attempts' = [attempts EXCEPT ![i] = Consumed(@)]
        /\ verified' = [verified EXCEPT ![i] = @ + 1]
        /\ To(r, "signing")
     \/ /\ ~Completes(r, i)
        /\ To(r, "failing")
        /\ UNCHANGED <<attempts, verified>>
  /\ UNCHANGED <<jar, presented, sessions, now>>

\* issueSession() and the answer that clears the cookie.
IssueSession(r) ==
  LET q == reqs[r] IN
  /\ q.step = "signing"
  /\ sessions' = sessions \cup {[id |-> q.id, holder |-> q.holder, browser |-> q.browser]}
  /\ jar' = [jar EXCEPT ![q.browser] = None]
  /\ Done(r)
  /\ UNCHANGED <<attempts, presented, verified, now>>

\* The catch of present(): release as pending, then rethrow.
Fail(r) ==
  /\ reqs[r].step = "failing"
  /\ attempts' = [attempts EXCEPT ![reqs[r].id] = Released(@, r, "pending")]
  /\ Done(r)
  /\ UNCHANGED <<jar, presented, verified, sessions, now>>

-----------------------------------------------------------------------------
(* Failures, the phone, cleanup and time.                                   *)

\* A process dies, or a request or its answer is lost, between two steps.
Crash(r) ==
  /\ reqs[r].step # "idle"
  /\ Done(r)
  /\ UNCHANGED <<attempts, jar, presented, verified, sessions, now>>

\* A phone shows the Verifier a presentation for an offer that is on some screen.
PhonePresents(i, h) ==
  /\ attempts[i].status # "absent"
  /\ presented[i] = None
  /\ presented' = [presented EXCEPT ![i] = h]
  /\ UNCHANGED <<attempts, jar, verified, sessions, reqs, now>>

\* cleanup(): rows that expired a retention ago.
Cleanup ==
  LET old == {i \in Ids : Row(i) /\ attempts[i].expiresAt <= now - Retention} IN
  /\ old # {}
  /\ attempts' = [i \in Ids |-> IF i \in old THEN [attempts[i] EXCEPT !.gone = TRUE]
                                ELSE attempts[i]]
  /\ UNCHANGED <<jar, presented, verified, sessions, reqs, now>>

Tick ==
  /\ now < MaxNow
  /\ now' = now + 1
  /\ UNCHANGED <<attempts, jar, presented, verified, sessions, reqs>>

Handler(r) ==
  \/ Create(r) \/ OfferAnswer(r) \/ Acquire(r) \/ CheckVerified(r) \/ CheckOther(r)
  \/ Throws(r) \/ Release(r) \/ Complete(r) \/ IssueSession(r) \/ Fail(r)

Next ==
  \/ \E r \in Reqs :
       \/ Handler(r) \/ Crash(r)
       \/ \E b \in Browsers : Offer(r, b) \/ \E i \in Ids : Present(r, b, i)
  \/ \E i \in Ids, h \in Holders : PhonePresents(i, h)
  \/ Cleanup \/ Tick

Spec == Init /\ [][Next]_vars

-----------------------------------------------------------------------------
(* Properties.                                                              *)

\* A presentation logs in once: an attempt is consumed, and its verification
\* recorded, by at most one handler, however many polls hold or held its lease
\* (complete(), opendid-attempt.store.ts:60).
ConsumedOnce ==
  \A i \in Ids :
    /\ verified[i] = (IF attempts[i].status = "consumed" THEN 1 ELSE 0)
    /\ \A s, t \in sessions : s.id = t.id => s = t
    /\ \A s \in sessions : verified[s.id] = 1

\* The session goes to the browser the offer was made to, for the holder the
\* Verifier saw on that very offer (the secret check of present()); and an offer the
\* browser gave up by asking for another one never logs anyone in afterwards, even if a
\* poll of it is under way (create(), :23).
SessionIsBrowsers ==
  /\ \A s \in sessions : s.browser = attempts[s.id].browser /\ s.holder = presented[s.id]
  /\ \A i, j \in Ids :
       attempts[j].previous = i /\ Row(i) => attempts[i].status \notin {"pending", "processing"}

\* Open from the insert to the first of consumption, refusal, supersession and
\* expiry; a browser may have several open (two offers in flight at once).
Stage(i) ==
  CASE attempts[i].status = "absent" -> "fresh"
    [] attempts[i].status = "consumed" -> "won"
    [] Row(i) /\ attempts[i].status \in {"pending", "processing"}
         /\ attempts[i].expiresAt > now -> "open"
    [] OTHER -> "lost"

Lifecycle == INSTANCE AttemptLifecycle WITH
  Owners <- {},
  state <- [i \in Ids |-> Stage(i)],
  owner <- [i \in Ids |-> None]

\* The login implements the attempt lifecycle: consumed at most once and only
\* while open, never reopened.
ImplementsLifecycle == Lifecycle!Spec
=============================================================================
