---------------------------- MODULE LedgerCache ----------------------------
(***************************************************************************)
(* How one account's ledger is read in one process: the snapshot cache     *)
(* around the repository (CachedTransactionRepository), the read gate of   *)
(* TransactionAvailabilityService and the memo of cost-basis folds         *)
(* (CostBasisSnapshotService).                                             *)
(*                                                                         *)
(* The ledger is its version: every committed write makes the next one,    *)
(* and version 0 is the empty ledger.  What the rows hold is LedgerRows,   *)
(* what a fold computes is CostBasis.  A rows array is an instance: caches *)
(* compare arrays by identity.  A fold runs in a microtask, so no reply of *)
(* the database comes between its start and its end.  snapshotFor() and    *)
(* holdingsFor() are the same code on two tables; this is one of them.     *)
(***************************************************************************)
EXTENDS Integers, FiniteSets

CONSTANTS
  Readers,    \* reads in progress: a bound
  Arrays,     \* identities of rows arrays
  MaxVersion, \* writes: a bound
  Ttl,        \* LEDGER_SNAPSHOT_TTL_MS
  MaxLoad,    \* how long a database read takes at most
  Horizon,    \* ages are counted up to here: a bound
  None

ASSUME LedgerCacheAssumption ==
  /\ Cardinality(Arrays) > Cardinality(Readers)
  /\ MaxVersion \in Nat /\ Ttl \in Nat \ {0} /\ MaxLoad \in Nat
  /\ Horizon \in Nat /\ Horizon >= Ttl + MaxLoad
  /\ None \notin Readers \cup Arrays

VARIABLES
  version,    \* of the ledger in the database
  old,        \* old[v]: how long ago version v was superseded
  writing,    \* a write is committed and has not returned to the decorator
  snapshot,   \* the entry of snapshots: array and age
  load,       \* the entry of inflight: what the database read saw, and its age
  array,      \* the rows arrays in use: version, price probe and folds memoized on it
  reader      \* the reads

cacheVars == <<version, old, writing, snapshot, load, array, reader>>

\* Second-level keys: the price map of the array, or NO_PRICES.
Keys == {"prices", "none"}

NoArray == [version |-> 0, probe |-> "absent", folds |-> [k \in Keys |-> None]]
NoReader == [step |-> "idle", array |-> None, gated |-> FALSE, key |-> None, fold |-> None]

CacheInit ==
  /\ version = 0
  /\ old = [v \in 0..MaxVersion |-> 0]
  /\ writing = FALSE
  /\ snapshot = None /\ load = None
  /\ array = [a \in Arrays |-> NoArray]
  /\ reader = [r \in Readers |-> NoReader]

Upto(age, limit) == IF age < limit THEN age + 1 ELSE limit

\* An array lives as long as the snapshot or a read holds it, and the memos on it with it.
Held(a, rd, sn) == (sn # None /\ sn.array = a) \/ \E r \in Readers : rd[r].array = a
Swept(arr, rd, sn) == [a \in Arrays |-> IF Held(a, rd, sn) THEN arr[a] ELSE NoArray]

-----------------------------------------------------------------------------
(* Writes and the clock.                                                    *)

\* save(), updatePayload(), deleteSupersededRows() or deleteAllForBinding() commits.
Commit ==
  /\ version < MaxVersion /\ ~writing
  /\ version' = version + 1
  /\ writing' = TRUE
  /\ UNCHANGED <<old, snapshot, load, array, reader>>

\* The write returns: the snapshot is dropped, a load under way is not.
Invalidate ==
  /\ writing
  /\ writing' = FALSE
  /\ snapshot' = None
  /\ array' = Swept(array, reader, None)
  /\ UNCHANGED <<version, old, load, reader>>

\* The write throws after part of it was committed: nothing is invalidated.
WriteFails ==
  /\ writing
  /\ writing' = FALSE
  /\ UNCHANGED <<version, old, snapshot, load, array, reader>>

CacheTick ==
  /\ load # None => load.age < MaxLoad
  /\ old' = [v \in DOMAIN old |-> IF v < version THEN Upto(old[v], Horizon) ELSE 0]
  /\ snapshot' = IF snapshot = None THEN None ELSE [snapshot EXCEPT !.age = Upto(@, Ttl)]
  /\ load' = IF load = None THEN None ELSE [load EXCEPT !.age = @ + 1]
  /\ UNCHANGED <<version, writing, array, reader>>

-----------------------------------------------------------------------------
(* listForUser() of the decorator.                                          *)

\* Fault: the age of the snapshot is not looked at.
HitAnyAge == snapshot # None

Hit == snapshot # None /\ snapshot.age < Ttl

Listed(rd, rs, a) == [r \in Readers |-> IF r \in rs THEN [rd[r] EXCEPT !.step = "rows", !.array = a] ELSE rd[r]]

\* A snapshot in time is handed out, a load under way is joined, or one is started.
List(r) ==
  /\ reader[r].step = "ask"
  /\ \/ /\ Hit
        /\ reader' = Listed(reader, {r}, snapshot.array)
        /\ UNCHANGED load
     \/ /\ ~Hit
        /\ load' = IF load # None THEN load ELSE [saw |-> None, age |-> 0]
        /\ reader' = [reader EXCEPT ![r].step = "list"]
  /\ UNCHANGED <<version, old, writing, snapshot, array>>

\* The database answers from the version it has at one moment of the load.
LoadReads ==
  /\ load # None /\ load.saw = None
  /\ load' = [load EXCEPT !.saw = version]
  /\ UNCHANGED <<version, old, writing, snapshot, array, reader>>

Joined == {r \in Readers : reader[r].step = "list"}

\* The load settles: a new array, installed whatever was invalidated meanwhile.
LoadEnds ==
  /\ load # None /\ load.saw # None
  /\ \E a \in Arrays :
       /\ ~Held(a, reader, None)
       /\ snapshot' = [array |-> a, age |-> 0]
       /\ reader' = Listed(reader, Joined, a)
       /\ array' = Swept([array EXCEPT ![a] = [NoArray EXCEPT !.version = load.saw]], reader', snapshot')
  /\ load' = None
  /\ UNCHANGED <<version, old, writing>>

\* The load rejects: so does every read that joined it.
LoadFails ==
  /\ load # None
  /\ load' = None
  /\ reader' = [r \in Readers |-> IF r \in Joined THEN NoReader ELSE reader[r]]
  /\ UNCHANGED <<version, old, writing, snapshot, array>>

\* listOrSync(): an empty ledger waits for the first sync, a while, and is listed again.
Gate(r) ==
  /\ reader[r].step = "rows" /\ array[reader[r].array].version = 0 /\ ~reader[r].gated
  /\ reader' = [reader EXCEPT ![r] = [NoReader EXCEPT !.step = "gate", !.gated = TRUE]]
  /\ array' = Swept(array, reader', snapshot)
  /\ UNCHANGED <<version, old, writing, snapshot, load>>

GateOpens(r) ==
  /\ reader[r].step = "gate"
  /\ reader' = [reader EXCEPT ![r].step = "ask"]
  /\ UNCHANGED <<version, old, writing, snapshot, load, array>>

\* The first sync failed within that while: so does the read.
GateFails(r) ==
  /\ reader[r].step = "gate"
  /\ reader' = [reader EXCEPT ![r] = NoReader]
  /\ UNCHANGED <<version, old, writing, snapshot, load, array>>

-----------------------------------------------------------------------------
(* holdingsFor(): the price probe and the fold.                             *)

HasRows(r) ==
  reader[r].step = "rows" /\ (array[reader[r].array].version = 0 => reader[r].gated)

\* Fault: folds are memoized on the array alone.
FoldKeyArrayOnly(key) == "none"

FoldKey(key) == key

\* The reads rs of array a, whose price map is key, take the memoized fold; if there is
\* none it is computed now with key, or throws, which leaves no memo.
Fold(rs, a, probe, key, ok) ==
  LET memo == array[a].folds[FoldKey(key)]
      fold == IF memo # None THEN memo ELSE key
  IN IF memo # None \/ ok
     THEN /\ reader' = [r \in Readers |-> IF r \notin rs THEN reader[r] ELSE
                           [reader[r] EXCEPT !.step = "done", !.gated = FALSE, !.key = key, !.fold = fold]]
          /\ array' = [array EXCEPT ![a] = [@ EXCEPT !.probe = probe, !.folds[FoldKey(key)] = fold]]
     ELSE /\ reader' = [r \in Readers |-> IF r \in rs THEN NoReader ELSE reader[r]]
          /\ array' = Swept([array EXCEPT ![a].probe = probe], reader', snapshot)

\* nativePricesFor(): the price map is memoized on the array, as a promise.
Probe(r, ok) ==
  /\ HasRows(r)
  /\ LET a == reader[r].array
     IN \/ array[a].probe = "ok" /\ Fold({r}, a, "ok", "prices", ok)
        \/ /\ array[a].probe # "ok"
           /\ reader' = [reader EXCEPT ![r] = [@ EXCEPT !.step = "probe", !.gated = FALSE]]
           /\ array' = [array EXCEPT ![a].probe = "pending"]
  /\ UNCHANGED <<version, old, writing, snapshot, load>>

\* The probe answers, or fails: then it is forgotten and its reads go on without prices.
ProbeEnds(a, answers, ok) ==
  /\ array[a].probe = "pending"
  /\ Fold({r \in Readers : reader[r].step = "probe" /\ reader[r].array = a}, a,
          IF answers THEN "ok" ELSE "absent", IF answers THEN "prices" ELSE "none", ok)
  /\ UNCHANGED <<version, old, writing, snapshot, load>>

\* The read is over.
Return(r) ==
  /\ reader' = [reader EXCEPT ![r] = NoReader]
  /\ array' = Swept(array, reader', snapshot)
  /\ UNCHANGED <<version, old, writing, snapshot, load>>

-----------------------------------------------------------------------------
(* Properties.                                                              *)

\* A snapshot that is handed out lags behind the database for less than its TTL and the
\* time a load takes, although a load may install what it read before a write that has
\* already invalidated the cache, and a write that throws half-way invalidates nothing.
SnapshotIsRecent == Hit => old[array[snapshot.array].version] < Ttl + MaxLoad

\* A read gets a fold made with prices exactly if its own probe answered: a fold made
\* while the price cache was down is not handed to a read that found the prices.
FoldsAsProbed == \A r \in Readers : reader[r].step = "done" => reader[r].fold = reader[r].key
=============================================================================
