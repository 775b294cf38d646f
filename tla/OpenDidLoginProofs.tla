------------------------ MODULE OpenDidLoginProofs ------------------------
(***************************************************************************)
(* The login signs one session per presentation, for the browser and the   *)
(* holder it belongs to, and its table implements the attempt lifecycle:   *)
(* for any browsers, holders, offers, handlers and times.                  *)
(*                                                                         *)
(* The argument.  A row is only ever moved forward: a write that is not an *)
(* insert or a consumption keeps the row's browser, never reopens it and   *)
(* never touches a consumed one (QuietRows).  What a handler has learned   *)
(* therefore stays true until it acts on it (Knows), and the handler that  *)
(* consumed an attempt is the only one that may sign for it (OneSigner).   *)
(***************************************************************************)
EXTENDS OpenDidLogin, TLAPS

\* The shape of the tables, the jars and the handlers.
Types ==
  /\ attempts \in [Ids -> Attempt]
  /\ jar \in [Browsers -> Ids \cup {None}]
  /\ presented \in [Ids -> Holders \cup {None}]
  /\ verified \in [Ids -> Nat]
  /\ sessions \subseteq Session
  /\ reqs \in [Reqs -> Request]
  /\ now \in Nat

\* Attempt i is a row of the table rows that was made for browser b.
Owned(rows, b, i) ==
  b \in Browsers /\ i \in Ids /\ rows[i].status # "absent" /\ rows[i].browser = b

\* What a handler q knows of the rows and of what was presented.  An offer carries the
\* secret of an attempt of its own browser, or none; a poll is of an attempt of its own
\* browser; past the Verifier's answer it has the holder of the presentation; and a
\* handler that is about to sign has consumed the attempt.
Knows(q, rows, seen) ==
  /\ q.step = "offering" => q.browser \in Browsers /\ (q.id # None => Owned(rows, q.browser, q.id))
  /\ q.step \notin {"idle", "offering"} => Owned(rows, q.browser, q.id)
  /\ q.step \in {"completing", "signing"} => q.holder \in Holders /\ seen[q.id] = q.holder
  /\ q.step = "signing" => rows[q.id].status = "consumed"

ReqsOK == \A r \in Reqs : Knows(reqs[r], attempts, presented)

\* A cookie holds the secret of an attempt of its browser.
JarOK == \A b \in Browsers : jar[b] # None => Owned(attempts, b, jar[b])

\* An attempt is signed for by one handler, and that one has not signed yet.
OneSigner ==
  \A r \in Reqs : reqs[r].step = "signing" =>
    /\ \A o \in Reqs : reqs[o].step = "signing" /\ reqs[o].id = reqs[r].id => o = r
    /\ \A s \in sessions : s.id # reqs[r].id

\* What an insert superseded had been inserted before it.
Chained == \A j \in Ids : attempts[j].previous # None => attempts[attempts[j].previous].status # "absent"

IInv == Types /\ ReqsOK /\ JarOK /\ OneSigner /\ Chained /\ ConsumedOnce /\ SessionIsBrowsers

\* A write that is neither an insert nor a consumption.
QuietRows ==
  \A i \in Ids :
    LET a == attempts[i]  b == attempts'[i] IN
    /\ a.status = "absent" <=> b.status = "absent"
    /\ a.status = "consumed" <=> b.status = "consumed"
    /\ b.browser = a.browser /\ b.previous = a.previous /\ b.expiresAt = a.expiresAt
    /\ a.gone => b.gone
    /\ b.status \in {"pending", "processing"} => a.status \in {"pending", "processing"}

\* What no write takes back.
RowsKeep ==
  \A i \in Ids : attempts[i].status # "absent" =>
    /\ attempts'[i].status # "absent"
    /\ attempts'[i].browser = attempts[i].browser
    /\ attempts[i].status = "consumed" => attempts'[i].status = "consumed"

PresentedKeeps == \A i \in Ids : presented[i] # None => presented'[i] = presented[i]

LEMMA Initially == Init => IInv
<1> SUFFICES ASSUME Init PROVE IInv
  OBVIOUS
<1>1. Types
  BY DEF Init, Types, Absent, Attempt, Statuses, Idle, Request, Steps
<1>2. ReqsOK /\ JarOK /\ OneSigner /\ Chained
  BY DEF Init, ReqsOK, Knows, JarOK, OneSigner, Chained, Idle, Absent
<1>3. ConsumedOnce /\ SessionIsBrowsers
  BY DEF Init, ConsumedOnce, SessionIsBrowsers, Absent
<1> QED
  BY <1>1, <1>2, <1>3 DEF IInv

LEMMA QuietUnchanged == ASSUME UNCHANGED attempts PROVE QuietRows
BY DEF QuietRows

LEMMA QuietKeeps == QuietRows => RowsKeep
BY DEF QuietRows, RowsKeep

\* What a handler knows stays true.
LEMMA KnowsKeeps ==
  ASSUME Types, RowsKeep, PresentedKeeps, NEW q, Knows(q, attempts, presented)
  PROVE  Knows(q, attempts', presented')
BY ConstantsAssumption DEF Knows, Owned, RowsKeep, PresentedKeeps

\* A step of handler r keeps what the others know.
LEMMA OthersKeep ==
  ASSUME Types, ReqsOK, RowsKeep, PresentedKeeps, NEW r \in Reqs,
         \A o \in Reqs : o # r => reqs'[o] = reqs[o],
         Knows(reqs'[r], attempts', presented')
  PROVE  ReqsOK'
<1> SUFFICES ASSUME NEW o \in Reqs, o # r PROVE Knows(reqs'[o], attempts', presented')
  BY DEF ReqsOK
<1>1. reqs'[o] = reqs[o] /\ Knows(reqs[o], attempts, presented)
  BY DEF ReqsOK
<1> QED
  BY <1>1, KnowsKeeps

\* What a quiet write keeps of the tables.
LEMMA TablesKeep ==
  ASSUME IInv, QuietRows, PresentedKeeps, UNCHANGED <<verified, sessions>>
  PROVE  Chained' /\ ConsumedOnce' /\ SessionIsBrowsers'
<1>1. Chained'
  BY DEF IInv, Types, Attempt, Chained, QuietRows
<1>2. ConsumedOnce'
  BY DEF IInv, ConsumedOnce, QuietRows
<1>3. \A s \in sessions : s.id \in Ids /\ s.holder \in Holders
  BY DEF IInv, Types, Session
<1>4. \A s \in sessions' : s.browser = attempts'[s.id].browser /\ s.holder = presented'[s.id]
  BY <1>3, ConstantsAssumption DEF IInv, SessionIsBrowsers, QuietRows, PresentedKeeps
<1>5. \A i, j \in Ids : attempts'[j].previous = i /\ attempts'[i].status # "absent" /\ ~attempts'[i].gone
         => attempts'[i].status \notin {"pending", "processing"}
  BY DEF IInv, SessionIsBrowsers, Row, QuietRows
<1> QED
  BY <1>1, <1>2, <1>4, <1>5 DEF SessionIsBrowsers, Row

LEMMA JarKeeps == ASSUME JarOK, RowsKeep, UNCHANGED jar PROVE JarOK'
BY DEF JarOK, Owned, RowsKeep

\* No handler starts to sign.
LEMMA SignersKeep ==
  ASSUME OneSigner, UNCHANGED sessions, NEW r \in Reqs,
         \A o \in Reqs : o # r => reqs'[o] = reqs[o], reqs'[r].step # "signing"
  PROVE  OneSigner'
BY DEF OneSigner

\* A quiet step maps to the end of some open attempts, or to nothing.
LEMMA QuietRefines ==
  ASSUME IInv, QuietRows, now' \in Nat, now' >= now, attempts' \in [Ids -> Attempt]
  PROVE  [Lifecycle!Next]_(Lifecycle!vars)
<1> DEFINE S == {i \in Ids : Stage(i) # Stage(i)'}
<1>1. ASSUME NEW i \in Ids, Stage(i) # Stage(i)'
      PROVE  Stage(i) = "open" /\ Stage(i)' = "lost"
  <2>1. attempts[i].expiresAt \in Nat /\ now \in Nat /\ now' \in Nat
        /\ attempts'[i].expiresAt = attempts[i].expiresAt
    BY DEF IInv, Types, Attempt, QuietRows
  <2>2. attempts'[i].expiresAt > now' => attempts[i].expiresAt > now
    BY <2>1
  <2> QED
    BY <1>1, <2>2 DEF Stage, Row, QuietRows
<1>2. [i \in Ids |-> Stage(i)]' = [j \in Ids |-> IF j \in S THEN "lost" ELSE [i \in Ids |-> Stage(i)][j]]
  BY <1>1
<1>3. S \in SUBSET Lifecycle!OpenIds
  BY <1>1 DEF Lifecycle!OpenIds
<1>4. CASE S = {}
  BY <1>4 DEF Lifecycle!vars
<1>5. CASE S # {}
  BY <1>2, <1>3, <1>5 DEF Lifecycle!Next, Lifecycle!Close
<1> QED
  BY <1>4, <1>5

\* What the simulation asks of a step.
Good == IInv' /\ [Lifecycle!Next]_(Lifecycle!vars)

\* A quiet step of handler r that leaves sessions and verifications alone.
LEMMA QuietStep ==
  ASSUME IInv, QuietRows, PresentedKeeps, NEW r \in Reqs, UNCHANGED <<verified, sessions, now>>,
         attempts' \in [Ids -> Attempt], presented' \in [Ids -> Holders \cup {None}],
         jar' \in [Browsers -> Ids \cup {None}], JarOK',
         reqs' \in [Reqs -> Request], \A o \in Reqs : o # r => reqs'[o] = reqs[o],
         Knows(reqs'[r], attempts', presented'), reqs'[r].step # "signing"
  PROVE  Good
<1>1. ReqsOK'
  BY OthersKeep, QuietKeeps DEF IInv
<1>2. OneSigner'
  BY SignersKeep DEF IInv
<1>3. Chained' /\ ConsumedOnce' /\ SessionIsBrowsers'
  BY TablesKeep
<1>4. Types'
  BY DEF IInv, Types
<1>5. now' \in Nat /\ now' >= now
  BY DEF IInv, Types
<1>6. [Lifecycle!Next]_(Lifecycle!vars)
  BY <1>5, QuietRefines
<1> QED
  BY <1>1, <1>2, <1>3, <1>4, <1>6 DEF Good, IInv

LEMMA IdleType == Idle \in Request /\ Idle.step = "idle"
BY DEF Idle, Request, Steps

\* The handler ends.
LEMMA DoneMoves ==
  ASSUME Types, NEW r \in Reqs, Done(r)
  PROVE  /\ reqs' \in [Reqs -> Request]
         /\ \A o \in Reqs : o # r => reqs'[o] = reqs[o]
         /\ Knows(reqs'[r], attempts', presented') /\ reqs'[r].step # "signing"
<1>1. reqs'[r] = Idle /\ \A o \in Reqs : o # r => reqs'[o] = reqs[o]
  BY DEF Done, Types
<1>2. reqs' \in [Reqs -> Request]
  BY IdleType DEF Done, Types
<1> QED
  BY <1>1, <1>2, IdleType DEF Knows

LEMMA ToMoves ==
  ASSUME Types, NEW r \in Reqs, NEW s \in Steps, To(r, s)
  PROVE  /\ reqs' \in [Reqs -> Request]
         /\ \A o \in Reqs : o # r => reqs'[o] = reqs[o]
         /\ reqs'[r].step = s
         /\ reqs'[r].browser = reqs[r].browser
         /\ reqs'[r].id = reqs[r].id
         /\ reqs'[r].holder = reqs[r].holder
BY DEF To, Types, Request

\* The handler of an attempt it may act on goes on, to a step that is not signing.
LEMMA ToKnows ==
  ASSUME IInv, QuietRows, PresentedKeeps, NEW r \in Reqs, NEW s \in Steps, To(r, s),
         s \notin {"idle", "completing", "signing"}, reqs[r].step \notin {"idle", "offering"},
         s # "offering"
  PROVE  /\ reqs' \in [Reqs -> Request]
         /\ \A o \in Reqs : o # r => reqs'[o] = reqs[o]
         /\ Knows(reqs'[r], attempts', presented') /\ reqs'[r].step # "signing"
<1>1. Knows(reqs[r], attempts', presented')
  BY KnowsKeeps, QuietKeeps DEF IInv, ReqsOK
<1>2. /\ reqs' \in [Reqs -> Request]
      /\ \A o \in Reqs : o # r => reqs'[o] = reqs[o]
      /\ reqs'[r].step = s
      /\ reqs'[r].browser = reqs[r].browser
      /\ reqs'[r].id = reqs[r].id
  BY ToMoves DEF IInv
<1> QED
  BY <1>1, <1>2 DEF Knows

\* A request of browser b about attempt i is installed in a slot.
Started(s, b, i) == [Idle EXCEPT !.step = s, !.browser = b, !.id = i]

LEMMA RequestType ==
  ASSUME NEW s \in Steps, NEW b \in Browsers, NEW i \in Ids \cup {None}
  PROVE  LET c == Started(s, b, i) IN
         c \in Request /\ c.step = s /\ c.browser = b /\ c.id = i
<1>1. ASSUME NEW a \in Request
      PROVE  LET c == [a EXCEPT !.step = s, !.browser = b, !.id = i] IN
             c \in Request /\ c.step = s /\ c.browser = b /\ c.id = i
  BY DEF Request
<1> QED
  BY <1>1, IdleType DEF Started

LEMMA Installs ==
  ASSUME Types, NEW r \in Reqs, NEW q \in Request, reqs' = [reqs EXCEPT ![r] = q]
  PROVE  /\ reqs' \in [Reqs -> Request]
         /\ \A o \in Reqs : o # r => reqs'[o] = reqs[o]
         /\ reqs'[r] = q
BY DEF Types

LEMMA OfferKeeps == ASSUME IInv, NEW r \in Reqs, NEW b \in Browsers, Offer(r, b) PROVE Good
<1>1. QuietRows /\ PresentedKeeps
  BY QuietUnchanged DEF Offer, PresentedKeeps
<1> DEFINE q == Started("offering", b, jar[b])
<1>2. q \in Request /\ q.step = "offering" /\ q.browser = b /\ q.id = jar[b]
  <2>1. "offering" \in Steps /\ jar[b] \in Ids \cup {None}
    BY DEF IInv, Types, Steps
  <2> QED
    BY <2>1, RequestType
<1>3. reqs' = [reqs EXCEPT ![r] = q]
  BY DEF Offer, Started
<1> HIDE DEF q
<1>4. /\ reqs' \in [Reqs -> Request]
      /\ \A o \in Reqs : o # r => reqs'[o] = reqs[o]
      /\ reqs'[r] = q
  BY <1>2, <1>3, Installs DEF IInv
<1>5. Knows(reqs'[r], attempts', presented')
  BY <1>2, <1>4 DEF IInv, JarOK, Knows, Offer
<1>6. /\ UNCHANGED <<attempts, jar, presented, verified, sessions, now>>
  BY DEF Offer
<1>7. JarOK' /\ Types!1' /\ Types!2' /\ Types!3'
  BY <1>1, <1>6, JarKeeps, QuietKeeps DEF IInv, Types
<1> QED
  BY <1>1, <1>2, <1>4, <1>5, <1>6, <1>7, QuietStep DEF Types

LEMMA PresentKeeps ==
  ASSUME IInv, NEW r \in Reqs, NEW b \in Browsers, NEW i \in Ids, Present(r, b, i)
  PROVE  Good
<1>1. QuietRows /\ PresentedKeeps
  BY QuietUnchanged DEF Present, PresentedKeeps
<1> DEFINE q == Started("presenting", b, i)
<1>2. q \in Request /\ q.step = "presenting" /\ q.browser = b /\ q.id = i
  <2>1. "presenting" \in Steps /\ i \in Ids \cup {None}
    BY DEF IInv, Types, Steps
  <2> QED
    BY <2>1, RequestType
<1>3. reqs' = [reqs EXCEPT ![r] = q]
  BY DEF Present, Started
<1> HIDE DEF q
<1>4. /\ reqs' \in [Reqs -> Request]
      /\ \A o \in Reqs : o # r => reqs'[o] = reqs[o]
      /\ reqs'[r] = q
  BY <1>2, <1>3, Installs DEF IInv
<1>5. Knows(reqs'[r], attempts', presented')
  BY <1>2, <1>4, ConstantsAssumption DEF IInv, JarOK, Knows, Present
<1>6. UNCHANGED <<attempts, jar, presented, verified, sessions, now>>
  BY DEF Present
<1>7. JarOK' /\ Types!1' /\ Types!2' /\ Types!3'
  BY <1>1, <1>6, JarKeeps, QuietKeeps DEF IInv, Types
<1> QED
  BY <1>1, <1>2, <1>4, <1>5, <1>6, <1>7, QuietStep DEF Types

\* The jar gets the secret of the offer that was made to it.
LEMMA OfferAnswerKeeps == ASSUME IInv, NEW r \in Reqs, OfferAnswer(r) PROVE Good
<1>1. QuietRows /\ PresentedKeeps
  BY QuietUnchanged DEF OfferAnswer, PresentedKeeps
<1>2. Owned(attempts, reqs[r].browser, reqs[r].id)
  BY DEF IInv, ReqsOK, Knows, OfferAnswer
<1>3. UNCHANGED <<attempts, presented, verified, sessions, now>>
      /\ jar' = [jar EXCEPT ![reqs[r].browser] = reqs[r].id]
  BY DEF OfferAnswer
<1>4. jar' \in [Browsers -> Ids \cup {None}] /\ JarOK'
  BY <1>2, <1>3 DEF IInv, Types, JarOK, Owned
<1>5. /\ reqs' \in [Reqs -> Request]
      /\ \A o \in Reqs : o # r => reqs'[o] = reqs[o]
      /\ Knows(reqs'[r], attempts', presented') /\ reqs'[r].step # "signing"
  BY DoneMoves DEF IInv, OfferAnswer
<1> QED
  BY <1>1, <1>3, <1>4, <1>5, QuietStep DEF IInv, Types

\* What one row may become in a quiet write.
QuietRow(a, b) ==
  /\ a.status = "absent" <=> b.status = "absent"
  /\ a.status = "consumed" <=> b.status = "consumed"
  /\ b.browser = a.browser /\ b.previous = a.previous /\ b.expiresAt = a.expiresAt
  /\ a.gone => b.gone
  /\ b.status \in {"pending", "processing"} => a.status \in {"pending", "processing"}

LEMMA QuietWrite ==
  ASSUME Types, NEW i \in Ids, NEW b \in Attempt, QuietRow(attempts[i], b),
         attempts' = [attempts EXCEPT ![i] = b]
  PROVE  QuietRows /\ attempts' \in [Ids -> Attempt]
BY DEF Types, QuietRow, QuietRows

\* acquire() writes a row that may be polled.
LEMMA AcquiredQuiet ==
  ASSUME NEW a \in Attempt, NEW r \in Reqs, now \in Nat, a.status \in {"pending", "processing"}
  PROVE  Acquired(a, r) \in Attempt /\ QuietRow(a, Acquired(a, r))
<1>1. now + LeaseTtl \in Nat
  BY ConstantsAssumption
<1>2. ASSUME NEW e \in Nat
      PROVE  LET b == [a EXCEPT !.status = "processing", !.token = r, !.leaseUntil = e] IN
             b \in Attempt /\ QuietRow(a, b)
  BY DEF Attempt, Statuses, QuietRow
<1> QED
  BY <1>1, <1>2 DEF Acquired

\* release() writes only a row the handler holds, and never makes one of another kind of it.
LEMMA ReleasedQuiet ==
  ASSUME NEW a \in Attempt, NEW r \in Reqs, now \in Nat,
         NEW st \in {"pending", "expired", "rejected"}
  PROVE  Released(a, r, st) \in Attempt /\ QuietRow(a, Released(a, r, st))
<1>1. now + PollGap \in Nat
  BY ConstantsAssumption
<1>2. ASSUME NEW e \in Nat, a.status = "processing"
      PROVE  LET b == [a EXCEPT !.status = st, !.nextPollAt = e, !.token = None, !.leaseUntil = 0] IN
             b \in Attempt /\ QuietRow(a, b)
  BY <1>2 DEF Attempt, Statuses, QuietRow
<1>3. CASE ~a.gone /\ a.status = "processing" /\ a.token = r
  BY <1>1, <1>2, <1>3 DEF Released
<1>4. CASE ~(~a.gone /\ a.status = "processing" /\ a.token = r)
  <2>1. Released(a, r, st) = a
    BY <1>4 DEF Released
  <2> QED
    BY <2>1 DEF QuietRow
<1> QED
  BY <1>3, <1>4

\* A handler past its first step is about a row of its browser.
LEMMA AboutRow ==
  ASSUME IInv, NEW r \in Reqs, reqs[r].step \notin {"idle", "offering"}
  PROVE  Owned(attempts, reqs[r].browser, reqs[r].id) /\ attempts[reqs[r].id] \in Attempt
BY DEF IInv, Types, ReqsOK, Knows, Owned

LEMMA AcquireKeeps == ASSUME IInv, NEW r \in Reqs, Acquire(r) PROVE Good
<1> DEFINE i == reqs[r].id
<1>1. i \in Ids /\ attempts[i] \in Attempt
  BY AboutRow DEF Acquire, Owned
<1>2. PresentedKeeps /\ UNCHANGED <<jar, presented, verified, sessions, now>>
  BY DEF Acquire, PresentedKeeps
<1>3. CASE Acquirable(i) /\ attempts' = [attempts EXCEPT ![i] = Acquired(@, r)] /\ To(r, "checking")
  <2>1. Acquired(attempts[i], r) \in Attempt /\ QuietRow(attempts[i], Acquired(attempts[i], r))
    BY <1>1, <1>3, AcquiredQuiet DEF Acquirable, IInv, Types
  <2>2. attempts' = [attempts EXCEPT ![i] = Acquired(attempts[i], r)]
    BY <1>3
  <2>3. QuietRows /\ attempts' \in [Ids -> Attempt]
    BY <1>1, <2>1, <2>2, QuietWrite DEF IInv
  <2>4. /\ reqs' \in [Reqs -> Request]
        /\ \A o \in Reqs : o # r => reqs'[o] = reqs[o]
        /\ Knows(reqs'[r], attempts', presented') /\ reqs'[r].step # "signing"
    BY <1>2, <1>3, <2>3, ToKnows DEF Acquire, Steps
  <2>5. JarOK'
    BY <1>2, <2>3, JarKeeps, QuietKeeps DEF IInv
  <2> QED
    BY <1>2, <2>3, <2>4, <2>5, QuietStep DEF IInv, Types
<1>4. CASE Done(r) /\ UNCHANGED attempts
  <2>1. QuietRows /\ JarOK'
    BY <1>2, <1>4, QuietUnchanged, JarKeeps, QuietKeeps DEF IInv
  <2>2. /\ reqs' \in [Reqs -> Request]
        /\ \A o \in Reqs : o # r => reqs'[o] = reqs[o]
        /\ Knows(reqs'[r], attempts', presented') /\ reqs'[r].step # "signing"
    BY <1>4, DoneMoves DEF IInv
  <2> QED
    BY <1>2, <1>4, <2>1, <2>2, QuietStep DEF IInv, Types
<1> QED
  BY <1>3, <1>4 DEF Acquire

\* A step of handler r that touches nothing but its own slot.
LEMMA SlotStep ==
  ASSUME IInv, NEW r \in Reqs, UNCHANGED <<attempts, jar, presented, verified, sessions, now>>,
         reqs' \in [Reqs -> Request], \A o \in Reqs : o # r => reqs'[o] = reqs[o],
         Knows(reqs'[r], attempts', presented'), reqs'[r].step # "signing"
  PROVE  Good
<1>1. QuietRows /\ PresentedKeeps
  BY QuietUnchanged DEF PresentedKeeps
<1>2. JarOK'
  BY <1>1, JarKeeps, QuietKeeps DEF IInv
<1> QED
  BY <1>1, <1>2, QuietStep DEF IInv, Types

LEMMA CheckVerifiedKeeps == ASSUME IInv, NEW r \in Reqs, CheckVerified(r) PROVE Good
<1>1. Owned(attempts, reqs[r].browser, reqs[r].id)
  BY AboutRow DEF CheckVerified
<1>2. /\ reqs' \in [Reqs -> Request]
      /\ \A o \in Reqs : o # r => reqs'[o] = reqs[o]
      /\ reqs'[r].step = "completing" /\ reqs'[r].holder = presented[reqs[r].id]
      /\ reqs'[r].browser = reqs[r].browser /\ reqs'[r].id = reqs[r].id
  BY DEF CheckVerified, IInv, Types, Request, Steps
<1>3. Knows(reqs'[r], attempts', presented')
  BY <1>1, <1>2 DEF CheckVerified, Knows
<1> QED
  BY <1>2, <1>3, SlotStep DEF CheckVerified

LEMMA CheckOtherKeeps == ASSUME IInv, NEW r \in Reqs, CheckOther(r) PROVE Good
<1>1. Owned(attempts, reqs[r].browser, reqs[r].id)
  BY AboutRow DEF CheckOther
<1>2. PICK result \in {"pending", "expired", "rejected"} :
        reqs' = [reqs EXCEPT ![r].step = "releasing", ![r].result = result]
  BY DEF CheckOther
<1>3. /\ reqs' \in [Reqs -> Request]
      /\ \A o \in Reqs : o # r => reqs'[o] = reqs[o]
      /\ reqs'[r].step = "releasing"
      /\ reqs'[r].browser = reqs[r].browser /\ reqs'[r].id = reqs[r].id
  BY <1>2 DEF IInv, Types, Request, Steps
<1>4. Knows(reqs'[r], attempts', presented')
  BY <1>1, <1>3 DEF CheckOther, Knows
<1> QED
  BY <1>3, <1>4, SlotStep DEF CheckOther

LEMMA ThrowsKeeps == ASSUME IInv, NEW r \in Reqs, Throws(r) PROVE Good
<1>1. QuietRows /\ PresentedKeeps
  BY QuietUnchanged DEF Throws, PresentedKeeps
<1>2. /\ reqs' \in [Reqs -> Request]
      /\ \A o \in Reqs : o # r => reqs'[o] = reqs[o]
      /\ Knows(reqs'[r], attempts', presented') /\ reqs'[r].step # "signing"
  BY <1>1, ToKnows DEF Throws, Steps
<1> QED
  BY <1>2, SlotStep DEF Throws

LEMMA CrashKeeps == ASSUME IInv, NEW r \in Reqs, Crash(r) PROVE Good
<1>1. /\ reqs' \in [Reqs -> Request]
      /\ \A o \in Reqs : o # r => reqs'[o] = reqs[o]
      /\ Knows(reqs'[r], attempts', presented') /\ reqs'[r].step # "signing"
  BY DoneMoves DEF Crash, IInv
<1> QED
  BY <1>1, SlotStep DEF Crash

LEMMA ReleaseKeeps == ASSUME IInv, NEW r \in Reqs, Release(r) \/ Fail(r) PROVE Good
<1> DEFINE i == reqs[r].id
<1>1. i \in Ids /\ attempts[i] \in Attempt
  BY AboutRow DEF Release, Fail, Owned
<1>2. PresentedKeeps /\ UNCHANGED <<jar, presented, verified, sessions, now>>
  BY DEF Release, Fail, PresentedKeeps
<1>3. PICK st \in {"pending", "expired", "rejected"} :
        attempts' = [attempts EXCEPT ![i] = Released(attempts[i], r, st)]
  BY DEF Release, Fail, IInv, Types, Request
<1>4. /\ Released(attempts[i], r, st) \in Attempt
      /\ QuietRow(attempts[i], Released(attempts[i], r, st))
  BY <1>1, ReleasedQuiet DEF IInv, Types
<1>5. QuietRows /\ attempts' \in [Ids -> Attempt]
  BY <1>1, <1>3, <1>4, QuietWrite DEF IInv
<1>6. /\ reqs' \in [Reqs -> Request]
      /\ \A o \in Reqs : o # r => reqs'[o] = reqs[o]
      /\ Knows(reqs'[r], attempts', presented') /\ reqs'[r].step # "signing"
  <2>1. CASE Done(r)
    BY <2>1, DoneMoves DEF IInv
  <2>2. CASE To(r, "failing")
    BY <1>2, <1>5, <2>2, ToKnows DEF Release, Fail, Steps
  <2> QED
    BY <2>1, <2>2 DEF Release, Fail
<1>7. JarOK'
  BY <1>2, <1>5, JarKeeps, QuietKeeps DEF IInv
<1> QED
  BY <1>2, <1>5, <1>6, <1>7, QuietStep DEF IInv, Types

\* A quiet step that no handler takes.
LEMMA WorldStep ==
  ASSUME IInv, QuietRows, PresentedKeeps, UNCHANGED <<jar, verified, sessions, reqs>>,
         attempts' \in [Ids -> Attempt], presented' \in [Ids -> Holders \cup {None}],
         now' \in Nat, now' >= now
  PROVE  Good
<1>1. ReqsOK'
  <2> SUFFICES ASSUME NEW r \in Reqs PROVE Knows(reqs[r], attempts', presented')
    BY DEF ReqsOK
  <2> QED
    BY KnowsKeeps, QuietKeeps DEF IInv, ReqsOK
<1>2. JarOK' /\ OneSigner'
  BY JarKeeps, QuietKeeps DEF IInv, OneSigner
<1>3. Chained' /\ ConsumedOnce' /\ SessionIsBrowsers'
  BY TablesKeep
<1>4. [Lifecycle!Next]_(Lifecycle!vars)
  BY QuietRefines
<1> QED
  BY <1>1, <1>2, <1>3, <1>4 DEF Good, IInv, Types

LEMMA PhonePresentsKeeps ==
  ASSUME IInv, NEW i \in Ids, NEW h \in Holders, PhonePresents(i, h)
  PROVE  Good
<1>1. QuietRows /\ PresentedKeeps /\ presented' \in [Ids -> Holders \cup {None}]
  BY QuietUnchanged DEF PhonePresents, PresentedKeeps, IInv, Types
<1>2. now' \in Nat /\ now' >= now
  BY DEF PhonePresents, IInv, Types
<1> QED
  BY <1>1, <1>2, WorldStep DEF PhonePresents, IInv, Types

LEMMA CleanupKeeps == ASSUME IInv, Cleanup PROVE Good
<1> DEFINE old == {i \in Ids : Row(i) /\ attempts[i].expiresAt <= now - Retention}
<1>1. attempts' = [i \in Ids |-> IF i \in old THEN [attempts[i] EXCEPT !.gone = TRUE]
                                 ELSE attempts[i]]
  BY DEF Cleanup
<1> HIDE DEF old
<1>2. ASSUME NEW a \in Attempt
      PROVE  [a EXCEPT !.gone = TRUE] \in Attempt /\ QuietRow(a, [a EXCEPT !.gone = TRUE])
  BY DEF Attempt, QuietRow
<1>3. ASSUME NEW i \in Ids PROVE attempts'[i] \in Attempt /\ QuietRow(attempts[i], attempts'[i])
  <2>0. attempts[i] \in Attempt
    BY DEF IInv, Types
  <2>1. CASE i \in old
    <3>1. attempts'[i] = [attempts[i] EXCEPT !.gone = TRUE]
      BY <1>1, <2>1
    <3> QED
      BY <1>2, <2>0, <3>1
  <2>2. CASE i \notin old
    <3>1. attempts'[i] = attempts[i]
      BY <1>1, <2>2
    <3> QED
      BY <2>0, <3>1 DEF QuietRow
  <2> QED
    BY <2>1, <2>2
<1>4. attempts' \in [Ids -> Attempt] /\ QuietRows
  BY <1>1, <1>3 DEF QuietRows, QuietRow
<1>5. now' \in Nat /\ now' >= now /\ PresentedKeeps /\ UNCHANGED <<presented, jar, verified, sessions, reqs>>
  BY DEF Cleanup, IInv, Types, PresentedKeeps
<1> QED
  BY <1>4, <1>5, WorldStep DEF IInv, Types

LEMMA TickKeeps == ASSUME IInv, Tick PROVE Good
<1>1. QuietRows /\ PresentedKeeps
  BY QuietUnchanged DEF Tick, PresentedKeeps
<1>2. now' \in Nat /\ now' >= now
  BY DEF Tick, IInv, Types
<1> QED
  BY <1>1, <1>2, WorldStep DEF Tick, IInv, Types

\* The handler that consumes the attempt becomes its only signer: nobody else can be
\* signing or have signed for a row that is not consumed yet.
LEMMA CompleteKeeps == ASSUME IInv, NEW r \in Reqs, Complete(r) PROVE Good
<1> DEFINE i == reqs[r].id
<1>1. Owned(attempts, reqs[r].browser, i) /\ i \in Ids /\ attempts[i] \in Attempt
  BY AboutRow DEF Complete, Owned
<1>2. PresentedKeeps /\ UNCHANGED <<jar, presented, sessions, now>>
  BY DEF Complete, PresentedKeeps
<1>3. CASE To(r, "failing") /\ UNCHANGED <<attempts, verified>>
  <2>1. QuietRows
    BY <1>3, QuietUnchanged
  <2>2. /\ reqs' \in [Reqs -> Request]
        /\ \A o \in Reqs : o # r => reqs'[o] = reqs[o]
        /\ Knows(reqs'[r], attempts', presented') /\ reqs'[r].step # "signing"
    BY <1>2, <1>3, <2>1, ToKnows DEF Complete, Steps
  <2> QED
    BY <1>2, <1>3, <2>2, SlotStep
<1>4. CASE /\ Completes(r, i)
           /\ attempts' = [attempts EXCEPT ![i] = Consumed(@)]
           /\ verified' = [verified EXCEPT ![i] = @ + 1]
           /\ To(r, "signing")
  <2> DEFINE b == Consumed(attempts[i])
  <2>1. attempts[i].status = "processing" /\ Row(i) /\ attempts[i].expiresAt > now
    BY <1>4 DEF Completes
  <2>2. b \in Attempt /\ b.status = "consumed" /\ b.browser = attempts[i].browser
        /\ b.previous = attempts[i].previous
    <3>1. ASSUME NEW a \in Attempt
          PROVE  LET c == [a EXCEPT !.status = "consumed", !.token = None, !.leaseUntil = 0] IN
                 c \in Attempt /\ c.status = "consumed" /\ c.browser = a.browser
                 /\ c.previous = a.previous
      BY DEF Attempt, Statuses
    <3> QED
      BY <1>1, <3>1 DEF Consumed
  <2>3. attempts' = [attempts EXCEPT ![i] = b]
    BY <1>4
  <2> HIDE DEF b
  <2>4. attempts' \in [Ids -> Attempt] /\ attempts'[i] = b
        /\ \A j \in Ids : j # i => attempts'[j] = attempts[j]
    BY <1>1, <2>2, <2>3 DEF IInv, Types
  <2>5. RowsKeep
    BY <2>2, <2>4 DEF RowsKeep
  <2>6. /\ reqs' \in [Reqs -> Request]
        /\ \A o \in Reqs : o # r => reqs'[o] = reqs[o]
        /\ reqs'[r].step = "signing"
        /\ reqs'[r].browser = reqs[r].browser
        /\ reqs'[r].id = i
        /\ reqs'[r].holder = reqs[r].holder
    BY <1>4, ToMoves DEF IInv, Steps
  <2>7. ReqsOK'
    <3>1. Knows(reqs[r], attempts', presented')
      BY <1>2, <2>5, KnowsKeeps DEF IInv, ReqsOK
    <3>2. Knows(reqs'[r], attempts', presented')
      BY <2>2, <2>4, <2>6, <3>1 DEF Knows, Complete
    <3> QED
      BY <1>2, <2>5, <2>6, <3>2, OthersKeep DEF IInv
  <2>8. OneSigner'
    <3>1. \A o \in Reqs : o # r /\ reqs[o].step = "signing" => reqs[o].id # i
      BY <2>1 DEF IInv, ReqsOK, Knows
    <3>2. \A s \in sessions : s.id # i
      <4>1. \A s \in sessions : verified[s.id] = 1
        BY <1>1 DEF IInv, ConsumedOnce
      <4>2. verified[i] = 0
        BY <1>1, <2>1 DEF IInv, ConsumedOnce
      <4> QED
        BY <4>1, <4>2
    <3> QED
      BY <1>2, <2>6, <3>1, <3>2 DEF IInv, OneSigner
  <2>9. JarOK'
    BY <1>2, <2>5, JarKeeps DEF IInv
  <2>10. Chained'
    BY <2>2, <2>4 DEF IInv, Types, Attempt, Chained
  <2>11. ConsumedOnce' /\ verified' \in [Ids -> Nat]
    <3>1. verified[i] = 0 /\ verified'[i] = 1 /\ \A j \in Ids : j # i => verified'[j] = verified[j]
      BY <1>1, <1>4, <2>1 DEF IInv, Types, ConsumedOnce
    <3>2. \A s \in sessions : s.id \in Ids
      BY DEF IInv, Types, Session
    <3> QED
      BY <1>2, <1>4, <2>2, <2>4, <3>1, <3>2 DEF IInv, Types, ConsumedOnce
  <2>12. SessionIsBrowsers'
    <3>1. \A j \in Ids : attempts'[j].browser = attempts[j].browser
                         /\ attempts'[j].previous = attempts[j].previous
      BY <2>2, <2>4
    <3>2. \A j \in Ids : Row(j)' /\ attempts'[j].status \in {"pending", "processing"}
                         => attempts'[j] = attempts[j]
      BY <2>2, <2>4
    <3> QED
      BY <1>2, <3>1, <3>2 DEF IInv, Types, Session, SessionIsBrowsers, Row
  <2>13. [Lifecycle!Next]_(Lifecycle!vars)
    <3>1. PICK k \in Ids : k = i
      BY <1>1
    <3>2. Stage(k) = "open"
      BY <2>1, <3>1 DEF Stage
    <3>3. Stage(k)' = "won" /\ \A j \in Ids : j # k => Stage(j)' = Stage(j)
      BY <1>2, <2>2, <2>4, <3>1 DEF Stage, Row
    <3>4. Lifecycle!Win(k)
      BY <3>2, <3>3 DEF Lifecycle!Win
    <3> QED
      BY <3>4 DEF Lifecycle!Next
  <2> QED
    BY <1>2, <2>4, <2>6, <2>7, <2>8, <2>9, <2>10, <2>11, <2>12, <2>13 DEF Good, IInv, Types
<1> QED
  BY <1>3, <1>4 DEF Complete

\* The one signer signs: no session of the attempt was there before it.
LEMMA IssueSessionKeeps == ASSUME IInv, NEW r \in Reqs, IssueSession(r) PROVE Good
<1> DEFINE q == reqs[r]
           s == [id |-> q.id, holder |-> q.holder, browser |-> q.browser]
<1>1. /\ q.step = "signing" /\ sessions' = sessions \cup {s} /\ Done(r)
      /\ jar' = [jar EXCEPT ![q.browser] = None]
      /\ UNCHANGED <<attempts, presented, verified, now>>
  BY DEF IssueSession
<1>2. /\ Owned(attempts, q.browser, q.id) /\ q.id \in Ids
      /\ q.holder \in Holders /\ presented[q.id] = q.holder
      /\ attempts[q.id].status = "consumed" /\ q.browser \in Browsers
  BY <1>1 DEF IInv, ReqsOK, Knows, Owned
<1>3. /\ s \in Session
      /\ s.id = q.id /\ s.browser = attempts[s.id].browser /\ s.holder = presented[s.id]
  BY <1>2 DEF Session, Owned
<1>4. /\ \A t \in sessions : t.id # q.id
      /\ \A o \in Reqs : o # r /\ reqs[o].step = "signing" => reqs[o].id # q.id
  BY <1>1 DEF IInv, OneSigner
<1>5. verified[q.id] = 1
  BY <1>2 DEF IInv, ConsumedOnce
<1> HIDE DEF s
<1>6. ConsumedOnce'
  <2>1. \A t, u \in sessions' : t.id = u.id => t = u
    <3>1. \A t, u \in sessions : t.id = u.id => t = u
      BY <1>2 DEF IInv, ConsumedOnce
    <3> QED
      BY <1>1, <1>3, <1>4, <3>1
  <2>2. \A t \in sessions' : verified[t.id] = 1
    BY <1>1, <1>2, <1>3, <1>5 DEF IInv, ConsumedOnce
  <2> QED
    BY <1>1, <2>1, <2>2 DEF IInv, ConsumedOnce
<1>7. SessionIsBrowsers'
  BY <1>1, <1>3 DEF IInv, SessionIsBrowsers, Row
<1>8. QuietRows /\ PresentedKeeps
  BY <1>1, QuietUnchanged DEF PresentedKeeps
<1>9. /\ reqs' \in [Reqs -> Request]
      /\ \A o \in Reqs : o # r => reqs'[o] = reqs[o]
      /\ Knows(reqs'[r], attempts', presented') /\ reqs'[r].step # "signing"
  BY <1>1, DoneMoves DEF IInv
<1>10. ReqsOK'
  BY <1>8, <1>9, QuietKeeps, OthersKeep DEF IInv
<1>11. OneSigner'
  BY <1>1, <1>3, <1>4, <1>9 DEF IInv, OneSigner
<1>12. JarOK' /\ jar' \in [Browsers -> Ids \cup {None}]
  BY <1>1, <1>2 DEF IInv, Types, JarOK
<1>13. Chained'
  BY <1>1 DEF IInv, Chained
<1>14. [Lifecycle!Next]_(Lifecycle!vars)
  <2>1. now' \in Nat /\ now' >= now /\ attempts' \in [Ids -> Attempt]
    BY <1>1 DEF IInv, Types
  <2> QED
    BY <1>8, <2>1, QuietRefines
<1> QED
  BY <1>1, <1>3, <1>6, <1>7, <1>9, <1>10, <1>11, <1>12, <1>13, <1>14 DEF Good, IInv, Types

\* create() ends the row of the previous secret, if it is still open.
LEMMA SupersededQuiet ==
  ASSUME NEW a \in Attempt, NEW j, NEW p
  PROVE  /\ Superseded(a, j, p) \in Attempt /\ QuietRow(a, Superseded(a, j, p))
         /\ j = p /\ ~a.gone => Superseded(a, j, p).status \notin {"pending", "processing"}
<1>1. ASSUME NEW c \in Attempt, c.status \in {"pending", "processing"}
      PROVE  LET b == [c EXCEPT !.status = "expired", !.token = None] IN
             b \in Attempt /\ QuietRow(c, b) /\ b.status = "expired"
  BY <1>1 DEF Attempt, Statuses, QuietRow
<1>2. CASE j = p /\ a.status \in {"pending", "processing"} /\ ~a.gone
  BY <1>1, <1>2 DEF Superseded
<1>3. CASE ~(j = p /\ a.status \in {"pending", "processing"} /\ ~a.gone)
  <2>1. Superseded(a, j, p) = a
    BY <1>3 DEF Superseded
  <2> QED
    BY <1>3, <2>1 DEF QuietRow
<1> QED
  BY <1>2, <1>3

\* The row create() inserts.
Inserted(b, e, p) == [Absent EXCEPT !.status = "pending", !.browser = b, !.expiresAt = e,
                                    !.nextPollAt = now, !.previous = p]

LEMMA InsertedType ==
  ASSUME NEW b \in Browsers, NEW e \in Nat, NEW p \in Ids \cup {None}, now \in Nat
  PROVE  LET a == Inserted(b, e, p) IN
         /\ a \in Attempt /\ a.status = "pending" /\ a.browser = b /\ a.expiresAt = e
         /\ a.previous = p /\ ~a.gone
<1>1. Absent \in Attempt /\ ~Absent.gone
  BY DEF Absent, Attempt, Statuses
<1>2. ASSUME NEW c \in Attempt, ~c.gone
      PROVE  LET a == [c EXCEPT !.status = "pending", !.browser = b, !.expiresAt = e,
                                !.nextPollAt = now, !.previous = p] IN
             /\ a \in Attempt /\ a.status = "pending" /\ a.browser = b /\ a.expiresAt = e
             /\ a.previous = p /\ ~a.gone
  BY <1>2 DEF Attempt, Statuses
<1> QED
  BY <1>1, <1>2 DEF Inserted

LEMMA CreateKeeps == ASSUME IInv, NEW r \in Reqs, Create(r) PROVE Good
<1> DEFINE q == reqs[r]
<1>1. q.step = "offering" /\ UNCHANGED <<jar, presented, verified, sessions, now>> /\ PresentedKeeps
  BY DEF Create, PresentedKeeps
<1>2. PICK i \in Ids, ttl \in OfferTtls :
        /\ attempts[i].status = "absent"
        /\ attempts' = [j \in Ids |->
             IF j = i
             THEN [Absent EXCEPT !.status = "pending", !.browser = q.browser,
                                 !.expiresAt = now + ttl, !.nextPollAt = now,
                                 !.previous = q.id]
             ELSE Superseded(attempts[j], j, q.id)]
        /\ reqs' = [reqs EXCEPT ![r] = [Idle EXCEPT !.step = "answering",
                                          !.browser = q.browser, !.id = i]]
  BY DEF Create
<1>3. q.browser \in Browsers /\ q.id \in Ids \cup {None}
      /\ (q.id # None => Owned(attempts, q.browser, q.id))
  BY <1>1 DEF IInv, Types, Request, ReqsOK, Knows
<1>4. PICK b \in Browsers, p \in Ids \cup {None} : b = q.browser /\ p = q.id
  BY <1>3
<1>5. now \in Nat /\ now + ttl \in Nat /\ now + ttl > now
  BY ConstantsAssumption DEF IInv, Types
<1> DEFINE a == Inserted(b, now + ttl, p)
<1>6. /\ a \in Attempt /\ a.status = "pending" /\ a.browser = b /\ a.expiresAt = now + ttl
      /\ a.previous = p /\ ~a.gone
  BY <1>5, InsertedType
<1>7. attempts' = [j \in Ids |-> IF j = i THEN a ELSE Superseded(attempts[j], j, p)]
  BY <1>2, <1>4 DEF Inserted
<1> HIDE DEF a
<1>8. \A j \in Ids : attempts[j] \in Attempt
  BY DEF IInv, Types
<1>9. attempts'[i] = a /\ \A j \in Ids : j # i => attempts'[j] = Superseded(attempts[j], j, p)
  BY <1>7
<1>10. ASSUME NEW j \in Ids, j # i
       PROVE  /\ attempts'[j] \in Attempt /\ QuietRow(attempts[j], attempts'[j])
              /\ j = p /\ ~attempts[j].gone => attempts'[j].status \notin {"pending", "processing"}
  BY <1>8, <1>9, <1>10, SupersededQuiet
<1>11. attempts' \in [Ids -> Attempt]
  BY <1>6, <1>7, <1>9, <1>10
<1>12. RowsKeep
  BY <1>2, <1>10 DEF RowsKeep, QuietRow
<1>13. /\ reqs' \in [Reqs -> Request]
       /\ \A o \in Reqs : o # r => reqs'[o] = reqs[o]
       /\ reqs'[r].step = "answering" /\ reqs'[r].browser = b /\ reqs'[r].id = i
  <2> DEFINE n == Started("answering", b, i)
  <2>1. reqs' = [reqs EXCEPT ![r] = n]
    BY <1>2, <1>4 DEF Started
  <2>2. n \in Request /\ n.step = "answering" /\ n.browser = b /\ n.id = i
    <3>1. "answering" \in Steps
      BY DEF Steps
    <3> QED
      BY <3>1, RequestType
  <2> HIDE DEF n
  <2>3. /\ reqs' \in [Reqs -> Request]
        /\ \A o \in Reqs : o # r => reqs'[o] = reqs[o]
        /\ reqs'[r] = n
    BY <2>1, <2>2, Installs DEF IInv
  <2> QED
    BY <2>2, <2>3
<1>14. ReqsOK'
  <2>1. Knows(reqs'[r], attempts', presented')
    BY <1>6, <1>9, <1>13 DEF Knows, Owned
  <2> QED
    BY <1>1, <1>12, <1>13, <2>1, OthersKeep DEF IInv
<1>15. JarOK' /\ OneSigner'
  BY <1>1, <1>12, <1>13, JarKeeps, SignersKeep DEF IInv
<1>16. Chained'
  <2> SUFFICES ASSUME NEW j \in Ids, attempts'[j].previous # None
               PROVE  attempts'[attempts'[j].previous].status # "absent"
    BY DEF Chained
  <2>1. CASE j = i
    BY <1>3, <1>4, <1>6, <1>9, <1>12, <2>1 DEF Owned, RowsKeep
  <2>2. CASE j # i
    BY <1>8, <1>10, <1>12, <2>2 DEF QuietRow, Attempt, IInv, Chained, RowsKeep
  <2> QED
    BY <2>1, <2>2
<1>17. ConsumedOnce'
  <2>1. \A j \in Ids : attempts'[j].status = "consumed" <=> attempts[j].status = "consumed"
    BY <1>2, <1>6, <1>9, <1>10 DEF QuietRow
  <2> QED
    BY <1>1, <2>1 DEF IInv, ConsumedOnce
<1>18. SessionIsBrowsers'
  <2>1. \A s \in sessions : s.id \in Ids /\ attempts[s.id].status = "consumed"
    BY DEF IInv, Types, Session, ConsumedOnce
  <2>2. \A s \in sessions' : s.browser = attempts'[s.id].browser /\ s.holder = presented'[s.id]
    BY <1>1, <1>12, <2>1 DEF IInv, SessionIsBrowsers, RowsKeep
  <2>3. ASSUME NEW k \in Ids, NEW j \in Ids, attempts'[j].previous = k,
               ~attempts'[k].gone
        PROVE  attempts'[k].status \notin {"pending", "processing"}
    <3>1. attempts[k].status # "absent" /\ k # i
      <4>1. CASE j = i
        BY <1>2, <1>3, <1>4, <1>6, <1>9, <2>3, <4>1, ConstantsAssumption DEF Owned
      <4>2. CASE j # i
        BY <1>2, <1>10, <2>3, <4>2, ConstantsAssumption DEF QuietRow, IInv, Chained
      <4> QED
        BY <4>1, <4>2
    <3>2. ~attempts[k].gone
      BY <1>10, <2>3, <3>1 DEF QuietRow
    <3>3. CASE j = i
      BY <1>6, <1>9, <1>10, <2>3, <3>1, <3>2, <3>3
    <3>4. CASE j # i
      <4>1. attempts[j].previous = k
        BY <1>10, <2>3, <3>4 DEF QuietRow
      <4>2. attempts[k].status \notin {"pending", "processing"}
        BY <3>1, <3>2, <4>1 DEF IInv, SessionIsBrowsers, Row
      <4> QED
        BY <1>10, <3>1, <4>2 DEF QuietRow
    <3> QED
      BY <3>3, <3>4
  <2> QED
    BY <2>2, <2>3 DEF SessionIsBrowsers, Row
<1>19. [Lifecycle!Next]_(Lifecycle!vars)
  <2> DEFINE S == {j \in Ids : j # i /\ Stage(j) # Stage(j)'}
  <2>1. Stage(i) = "fresh" /\ Stage(i)' = "open"
    BY <1>1, <1>2, <1>5, <1>6, <1>9 DEF Stage, Row
  <2>2. ASSUME NEW j \in Ids, j # i, Stage(j) # Stage(j)'
        PROVE  Stage(j) = "open" /\ Stage(j)' = "lost"
    BY <1>1, <1>10, <2>2 DEF Stage, Row, QuietRow
  <2>3. S \in SUBSET Lifecycle!OpenIds
    BY <2>2 DEF Lifecycle!OpenIds
  <2>4. [j \in Ids |-> Stage(j)]' =
          [j \in Ids |-> IF j = i THEN "open"
                         ELSE IF j \in S THEN "lost" ELSE [k \in Ids |-> Stage(k)][j]]
    BY <2>1, <2>2
  <2> HIDE DEF S
  <2>5. Lifecycle!Open(i, None)
    BY <2>1, <2>3, <2>4 DEF Lifecycle!Open
  <2> QED
    BY <2>5 DEF Lifecycle!Next
<1> QED
  BY <1>1, <1>11, <1>13, <1>14, <1>15, <1>16, <1>17, <1>18, <1>19 DEF Good, IInv, Types

LEMMA StepKeeps == ASSUME IInv, [Next]_vars PROVE Good
<1>1. ASSUME NEW r \in Reqs, Handler(r) PROVE Good
  BY <1>1, CreateKeeps, OfferAnswerKeeps, AcquireKeeps, CheckVerifiedKeeps, CheckOtherKeeps,
     ThrowsKeeps, ReleaseKeeps, CompleteKeeps, IssueSessionKeeps DEF Handler
<1>2. ASSUME NEW r \in Reqs, Crash(r) PROVE Good
  BY <1>2, CrashKeeps
<1>3. ASSUME NEW r \in Reqs, NEW b \in Browsers, Offer(r, b) \/ \E i \in Ids : Present(r, b, i)
      PROVE  Good
  BY <1>3, OfferKeeps, PresentKeeps
<1>4. ASSUME NEW i \in Ids, NEW h \in Holders, PhonePresents(i, h) PROVE Good
  BY <1>4, PhonePresentsKeeps
<1>5. CASE Cleanup \/ Tick
  BY <1>5, CleanupKeeps, TickKeeps
<1>6. CASE UNCHANGED vars
  <2>1. UNCHANGED <<attempts, jar, presented, verified, sessions, reqs, now>>
    BY <1>6 DEF vars
  <2>2. QuietRows /\ PresentedKeeps /\ now' \in Nat /\ now' >= now
    BY <2>1, QuietUnchanged DEF PresentedKeeps, IInv, Types
  <2> QED
    BY <2>1, <2>2, WorldStep DEF IInv, Types
<1> QED
  BY <1>1, <1>2, <1>3, <1>4, <1>5, <1>6 DEF Next

\* The inductive invariant: what the handlers, the cookies and the tables have in common.
THEOREM InductiveInvariant == Spec => []IInv
<1>1. Init => IInv
  BY Initially
<1>2. IInv /\ [Next]_vars => IInv'
  BY StepKeeps DEF Good
<1> QED
  BY <1>1, <1>2, PTL DEF Spec

\* A presentation logs in once, however many polls hold or held the lease of its attempt,
\* time out, are answered late or die (complete(), opendid-attempt.store.ts).
THEOREM ConsumedOnceTheorem == Spec => []ConsumedOnce
<1>1. IInv => ConsumedOnce
  BY DEF IInv
<1> QED
  BY <1>1, InductiveInvariant, PTL

\* A session goes to the browser its offer was made to, for the holder the Verifier saw on
\* that offer, and an offer that a newer one superseded is never open again (the secret
\* check of present(), create()).
THEOREM SessionTheorem == Spec => []SessionIsBrowsers
<1>1. IInv => SessionIsBrowsers
  BY DEF IInv
<1> QED
  BY <1>1, InductiveInvariant, PTL

\* The login implements the attempt lifecycle: every step of it opens an attempt, wins an
\* open one, ends open ones, or is invisible there.
THEOREM RefinementTheorem == Spec => ImplementsLifecycle
<1>1. Init => Lifecycle!Init
  BY DEF Init, Lifecycle!Init, Stage, Absent
<1>2. IInv /\ [Next]_vars => [Lifecycle!Next]_(Lifecycle!vars)
  BY StepKeeps DEF Good
<1> QED
  BY <1>1, <1>2, InductiveInvariant, PTL DEF Spec, ImplementsLifecycle, Lifecycle!Spec
=============================================================================
