--------------------------- MODULE PortfolioProofs ---------------------------
(***************************************************************************)
(* Theorems about LedgerCache and Portfolio, for any number of reads,      *)
(* arrays, writes, wallets and scopes and any times: how far what is       *)
(* served lags behind the ledger, which fold a read gets, and whose        *)
(* failure takes an entry out of a memo.                                   *)
(***************************************************************************)
EXTENDS Portfolio, TLAPS

Version == 0..MaxVersion

RowsArray == [version: Version, probe: {"absent", "pending", "ok"}, folds: [Keys -> Keys \cup {None}]]

Unlisting == {"idle", "ask", "list", "gate"}
Listing == {"rows", "probe", "done"}

Reading == [step: Unlisting \cup Listing, array: Arrays \cup {None}, gated: BOOLEAN,
            key: Keys \cup {None}, fold: Keys \cup {None}]

CacheTypes ==
  /\ version \in Version
  /\ old \in [Version -> Nat]
  /\ snapshot = None \/ snapshot \in [array: Arrays, age: Nat]
  /\ load = None \/ load \in [saw: Version \cup {None}, age: 0..MaxLoad]
  /\ array \in [Arrays -> RowsArray]
  /\ reader \in [Readers -> Reading]

\* A read holds an array exactly from the time it is listed, leaves nothing behind when it
\* is over, and has the fold of its own key when it is done.
Sound(x) ==
  /\ x \in Reading
  /\ IF x.step \in Unlisting THEN x.array = None ELSE x.array \in Arrays
  /\ x.step = "idle" => x = NoReader
  /\ x.step = "done" => x.fold = x.key
ReadsSound == \A r \in Readers : Sound(reader[r])

\* Versions that are not superseded have no age.
CurrentIsNew == \A v \in Version : v >= version => old[v] = 0

\* What a load saw was superseded during the load at the earliest.
LoadIsRecent == load # None /\ load.saw # None => old[load.saw] <= load.age

\* What a snapshot in time shows is older by its age and one load at most.
SnapshotAge ==
  snapshot # None /\ snapshot.age < Ttl => old[array[snapshot.array].version] <= snapshot.age + MaxLoad

\* A memoized fold was made with the key it is found under.
FoldsKeyed == \A a \in Arrays, k \in Keys : array[a].folds[k] \in {None, k}

CacheInv ==
  /\ CacheTypes /\ ReadsSound /\ FoldsKeyed
  /\ CurrentIsNew /\ LoadIsRecent /\ SnapshotAge

LoadShape == [step: {"idle", "wallets", "ledger", "reads", "rejected"}, scope: Scopes \cup {None},
              todo: Seq(ToSet(Wallets)), waits: Readers \cup {None}]

\* A load has a scope, and wallets left or to wait for only once it has its rows; it waits
\* for the balances of the first wallet it has left.
Fit(l) ==
  /\ l.step # "idle" => l.scope \in Scopes
  /\ l.step \in {"idle", "wallets", "ledger"} => l.waits = None /\ l.todo = <<>>
  /\ l.waits # None => l.todo # <<>>
LoadRec == {l \in LoadShape : Fit(l)}

MemoTypes ==
  /\ memo \in [Scopes -> Entry \cup {None}]
  /\ balanceMemo \in [ToSet(Wallets) -> BalanceEntry \cup {None}]
  /\ hload \in [Readers -> LoadRec]

\* A load that has not asked for the ledger reads nothing.
NotReading == \A h \in Readers : hload[h].step \in {"idle", "wallets"} => reader[h].step = "idle"

\* What an answer in time was computed from, and what the load of an entry in time listed,
\* is older by the age of the entry than a snapshot can be: the entry was made before the
\* ledger was asked.
AnswersRecent ==
  \A s \in Scopes : Unexpired(memo[s]) /\ memo[s].by = None =>
    memo[s].from \in Version /\ old[memo[s].from] < Ttl + MaxLoad + memo[s].age
ListedRecent ==
  \A s \in Scopes : Unexpired(memo[s]) /\ memo[s].by # None /\ reader[memo[s].by].array # None =>
    old[array[reader[memo[s].by].array].version] < Ttl + MaxLoad + memo[s].age

MemoInv == MemoTypes /\ NotReading /\ AnswersRecent /\ ListedRecent

-----------------------------------------------------------------------------
(* The cache: its writes, its clock and its loads.                          *)

LEMMA Times == /\ MaxVersion \in Nat /\ Ttl \in Nat \ {0} /\ MaxLoad \in Nat /\ Horizon \in Nat
               /\ HoldingsTtl \in Nat \ {0} /\ None \notin Readers /\ None \notin Arrays
  BY LedgerCacheAssumption, PortfolioAssumption

LEMMA Empties == /\ NoArray \in RowsArray /\ NoArray.version = 0
                 /\ \A k \in Keys : NoArray.folds[k] = None
                 /\ Sound(NoReader) /\ NoReader.step = "idle" /\ NoReader.array = None
  BY Times DEF NoArray, RowsArray, NoReader, Sound, Reading, Unlisting, Listing, Version, Keys

LEMMA CacheInitially == ASSUME CacheInit PROVE CacheInv
<1>1. CacheTypes
  BY Times, Empties DEF CacheInit, CacheTypes, Version, Sound
<1>2. ReadsSound
  BY Empties DEF CacheInit, ReadsSound
<1>3. CurrentIsNew /\ LoadIsRecent /\ SnapshotAge /\ FoldsKeyed
  BY Empties DEF CacheInit, CurrentIsNew, LoadIsRecent, SnapshotAge, FoldsKeyed, Version
<1> QED
  BY <1>1, <1>2, <1>3 DEF CacheInv

\* The arrays that are held stay as they are when the others are collected.
LEMMA SweptKeeps ==
  ASSUME NEW arr \in [Arrays -> RowsArray], NEW rd, NEW sn,
         \A a \in Arrays, k \in Keys : arr[a].folds[k] \in {None, k}
  PROVE  /\ Swept(arr, rd, sn) \in [Arrays -> RowsArray]
         /\ \A a \in Arrays : Held(a, rd, sn) => Swept(arr, rd, sn)[a] = arr[a]
         /\ \A a \in Arrays, k \in Keys : Swept(arr, rd, sn)[a].folds[k] \in {None, k}
  BY Empties DEF Swept

\* What a step of the cache does to the reads: each holds no array, a recent one, or the
\* one it held, whose version is the same.
ReadersKept ==
  \A r \in Readers :
    \/ reader'[r].array = None
    \/ old[array'[reader'[r].array].version] < Ttl + MaxLoad
    \/ /\ reader'[r].array = reader[r].array
       /\ array'[reader[r].array].version = array[reader[r].array].version

\* Reads that are over stay so.
StaysIdle == \A r \in Readers : reader[r].step = "idle" => reader'[r] = reader[r]

CacheKept == CacheInv' /\ old' = old /\ ReadersKept
AllKept == CacheKept /\ StaysIdle

LEMMA WritesKeep ==
  ASSUME CacheInv, Commit \/ Invalidate \/ WriteFails
  PROVE  AllKept /\ reader' = reader
<1> USE DEF CacheInv
<1>1. old' = old /\ load' = load /\ reader' = reader
  BY DEF Commit, Invalidate, WriteFails
<1>2. /\ version' \in Version /\ version' >= version
      /\ snapshot' \in {snapshot, None}
  BY Times DEF Commit, Invalidate, WriteFails, CacheTypes, Version
<1>3. /\ array' \in [Arrays -> RowsArray]
      /\ \A a \in Arrays, k \in Keys : array'[a].folds[k] \in {None, k}
      /\ \A r \in Readers : reader[r].array \in Arrays => array'[reader[r].array] = array[reader[r].array]
      /\ snapshot' = None \/ array' = array
  <2>1. CASE Invalidate
    <3>1. array' = Swept(array, reader, None) /\ snapshot' = None
      BY <2>1 DEF Invalidate
    <3>2. \A r \in Readers : Held(reader[r].array, reader, None)
      BY DEF Held
    <3> QED
      BY <3>1, <3>2, SweptKeeps DEF CacheTypes, FoldsKeyed
  <2>2. CASE Commit \/ WriteFails
    BY <2>2 DEF Commit, WriteFails, CacheTypes, FoldsKeyed
  <2> QED
    BY <2>1, <2>2
<1>4. CacheTypes'
  BY <1>1, <1>2, <1>3 DEF CacheTypes
<1>5. ReadsSound'
  BY <1>1 DEF ReadsSound
<1>6. CurrentIsNew' /\ LoadIsRecent'
  BY <1>1, <1>2, Times DEF CurrentIsNew, LoadIsRecent, CacheTypes, Version
<1>7. SnapshotAge' /\ FoldsKeyed'
  BY <1>1, <1>2, <1>3 DEF SnapshotAge, FoldsKeyed
<1>8. ReadersKept
  BY <1>1, <1>3 DEF ReadersKept, CacheTypes, Reading
<1> QED
  BY <1>1, <1>4, <1>5, <1>6, <1>7, <1>8 DEF AllKept, CacheKept, StaysIdle

\* Nothing ages faster than the clock.
LEMMA UptoBound ==
  ASSUME NEW age \in Nat, NEW limit \in Nat
  PROVE  Upto(age, limit) \in Nat /\ Upto(age, limit) <= age + 1
         /\ (Upto(age, limit) < limit => Upto(age, limit) = age + 1)
  BY DEF Upto

LEMMA CacheTickKeeps ==
  ASSUME CacheInv, CacheTick
  PROVE  /\ CacheInv' /\ reader' = reader /\ array' = array
         /\ \A v \in Version : old'[v] <= old[v] + 1
<1> USE DEF CacheInv
<1>1. /\ UNCHANGED <<version, array, reader>>
      /\ old' = [v \in DOMAIN old |-> IF v < version THEN Upto(old[v], Horizon) ELSE 0]
      /\ load # None => load.age < MaxLoad
  BY DEF CacheTick
<1>2. /\ old' \in [Version -> Nat]
      /\ \A v \in Version : old'[v] <= old[v] + 1 /\ (v >= version => old'[v] = 0)
  <2>1. DOMAIN old = Version
    BY DEF CacheTypes
  <2>2. \A v \in Version : old[v] \in Nat /\ Upto(old[v], Horizon) \in Nat
                           /\ Upto(old[v], Horizon) <= old[v] + 1
    BY Times, UptoBound DEF CacheTypes
  <2> QED
    BY <1>1, <2>1, <2>2, Times DEF CacheTypes, Version
<1>3. \/ load' = None
      \/ /\ load # None /\ load' \in [saw: Version \cup {None}, age: 0..MaxLoad]
         /\ load'.saw = load.saw /\ load'.age = load.age + 1
  <2>1. CASE load = None
    BY <2>1 DEF CacheTick
  <2>2. CASE load # None
    <3>1. load' = [load EXCEPT !.age = @ + 1] /\ load \in [saw: Version \cup {None}, age: 0..MaxLoad]
      BY <2>2 DEF CacheTick, CacheTypes
    <3> QED
      BY <1>1, <2>2, <3>1, Times
  <2> QED
    BY <2>1, <2>2
<1>4. \/ snapshot' = None
      \/ /\ snapshot # None /\ snapshot' \in [array: Arrays, age: Nat]
         /\ snapshot'.array = snapshot.array
         /\ snapshot'.age < Ttl => snapshot.age < Ttl /\ snapshot'.age = snapshot.age + 1
  <2>1. CASE snapshot = None
    BY <2>1 DEF CacheTick
  <2>2. CASE snapshot # None
    <3>1. /\ snapshot' = [snapshot EXCEPT !.age = Upto(snapshot.age, Ttl)]
          /\ snapshot \in [array: Arrays, age: Nat]
      BY <2>2 DEF CacheTick, CacheTypes
    <3>2. /\ Upto(snapshot.age, Ttl) \in Nat
          /\ (Upto(snapshot.age, Ttl) < Ttl => Upto(snapshot.age, Ttl) = snapshot.age + 1)
      BY <3>1, Times, UptoBound
    <3>3. PICK n \in Nat : n = Upto(snapshot.age, Ttl)
      BY <3>2
    <3> QED
      BY <2>2, <3>1, <3>2, <3>3, Times
  <2> QED
    BY <2>1, <2>2
<1>5. CacheTypes'
  BY <1>1, <1>2, <1>3, <1>4 DEF CacheTypes
<1>6. ReadsSound' /\ FoldsKeyed'
  BY <1>1 DEF ReadsSound, FoldsKeyed
<1>7. CurrentIsNew'
  BY <1>1, <1>2 DEF CurrentIsNew
<1>8. LoadIsRecent'
  BY <1>2, <1>3, Times DEF LoadIsRecent, CacheTypes
<1>9. SnapshotAge'
  <2> SUFFICES ASSUME snapshot' # None, snapshot'.age < Ttl
               PROVE  old'[array[snapshot'.array].version] <= snapshot'.age + MaxLoad
    BY <1>1 DEF SnapshotAge
  <2>1. /\ snapshot # None /\ snapshot'.array = snapshot.array /\ snapshot.array \in Arrays
        /\ snapshot.age < Ttl /\ snapshot'.age = snapshot.age + 1 /\ snapshot.age \in Nat
    BY <1>4 DEF CacheTypes
  <2>2. array[snapshot.array].version \in Version
    BY <2>1 DEF CacheTypes, RowsArray
  <2>3. PICK v \in Version : v = array[snapshot.array].version
    BY <2>2
  <2>4. old[v] <= snapshot.age + MaxLoad /\ old[v] \in Nat /\ old'[v] \in Nat /\ old'[v] <= old[v] + 1
    BY <1>2, <2>1, <2>3 DEF SnapshotAge, CacheTypes
  <2> QED
    BY <2>1, <2>3, <2>4, Times
<1> QED
  BY <1>1, <1>2, <1>5, <1>6, <1>7, <1>8, <1>9

-----------------------------------------------------------------------------
(* The cache: the reads.                                                    *)

\* Reads go on, and arrays that nobody holds any more are collected.
LEMMA ReadsMove ==
  ASSUME CacheInv, UNCHANGED <<version, old, snapshot>>,
         load' = None \/ load' \in [saw: Version \cup {None}, age: 0..MaxLoad],
         load' # None /\ load'.saw # None => old[load'.saw] <= load'.age,
         reader' \in [Readers -> Reading], \A r \in Readers : Sound(reader'[r]),
         array' \in [Arrays -> RowsArray],
         \A a \in Arrays, k \in Keys : array'[a].folds[k] \in {None, k},
         \A a \in Arrays : Held(a, reader', snapshot) => array'[a].version = array[a].version,
         \A r \in Readers : \/ reader'[r].array \in {None, reader[r].array}
                            \/ Hit /\ reader'[r].array = snapshot.array
  PROVE  CacheKept
<1> USE DEF CacheInv
<1>1. CacheTypes' /\ ReadsSound' /\ FoldsKeyed'
  BY DEF CacheTypes, ReadsSound, FoldsKeyed
<1>2. CurrentIsNew' /\ LoadIsRecent'
  BY DEF CurrentIsNew, LoadIsRecent
<1>3. snapshot # None => snapshot.array \in Arrays /\ array'[snapshot.array].version = array[snapshot.array].version
  BY DEF CacheTypes, Held
<1>4. SnapshotAge'
  BY <1>3 DEF SnapshotAge
<1>5. ReadersKept
  <2> SUFFICES ASSUME NEW r \in Readers, reader'[r].array # None
               PROVE  \/ old[array'[reader'[r].array].version] < Ttl + MaxLoad
                      \/ /\ reader'[r].array = reader[r].array
                         /\ array'[reader[r].array].version = array[reader[r].array].version
    BY DEF ReadersKept
  <2>1. reader'[r].array \in Arrays
    BY DEF Reading
  <2>2. CASE reader'[r].array = reader[r].array
    BY <2>1, <2>2 DEF Held
  <2>3. CASE Hit /\ reader'[r].array = snapshot.array
    <3>1. /\ old[array[snapshot.array].version] <= snapshot.age + MaxLoad
          /\ array'[snapshot.array].version = array[snapshot.array].version
          /\ snapshot.age \in Nat /\ snapshot.age < Ttl
          /\ array[snapshot.array].version \in Version
      BY <1>3, <2>3 DEF Hit, SnapshotAge, CacheTypes, RowsArray
    <3>2. PICK v \in Version : v = array[snapshot.array].version
      BY <3>1
    <3>3. old[v] \in Nat
      BY DEF CacheTypes
    <3> QED
      BY <2>3, <3>1, <3>2, <3>3, Times
  <2> QED
    BY <2>2, <2>3
<1> QED
  BY <1>1, <1>2, <1>4, <1>5 DEF CacheKept

LEMMA ReadsGoOn ==
  ASSUME CacheInv, UNCHANGED <<version, old, snapshot>>,
         load' = None \/ load' \in [saw: Version \cup {None}, age: 0..MaxLoad],
         load' # None /\ load'.saw # None => old[load'.saw] <= load'.age,
         reader' \in [Readers -> Reading], \A r \in Readers : Sound(reader'[r]),
         array' \in [Arrays -> RowsArray],
         \A a \in Arrays, k \in Keys : array'[a].folds[k] \in {None, k},
         \A a \in Arrays : Held(a, reader', snapshot) => array'[a].version = array[a].version,
         \A r \in Readers : \/ reader'[r].array \in {None, reader[r].array}
                            \/ Hit /\ reader'[r].array = snapshot.array,
         StaysIdle
  PROVE  AllKept
  BY ReadsMove DEF AllKept

\* One read goes on, and no array changes.
LEMMA OneReadGoesOn ==
  ASSUME CacheInv, UNCHANGED <<version, old, snapshot>>, NEW r \in Readers, NEW x,
         load' = None \/ load' \in [saw: Version \cup {None}, age: 0..MaxLoad],
         load' # None /\ load'.saw # None => old[load'.saw] <= load'.age,
         reader' = [reader EXCEPT ![r] = x], Sound(x), reader[r].step # "idle",
         x.array \in {None, reader[r].array} \/ (Hit /\ x.array = snapshot.array),
         array' = array \/ array' = Swept(array, reader', snapshot)
  PROVE  AllKept
<1> USE DEF CacheInv
<1>1. x \in Reading /\ reader \in [Readers -> Reading]
  BY DEF Sound, CacheTypes
<1>2. /\ reader' \in [Readers -> Reading] /\ reader'[r] = x
      /\ \A p \in Readers \ {r} : reader'[p] = reader[p]
  BY <1>1
<1>3. \A p \in Readers : Sound(reader'[p])
  BY <1>2 DEF ReadsSound
<1>4. StaysIdle
  BY <1>2 DEF StaysIdle
<1>5. \A p \in Readers : \/ reader'[p].array \in {None, reader[p].array}
                         \/ Hit /\ reader'[p].array = snapshot.array
  BY <1>2
<1>6. /\ array' \in [Arrays -> RowsArray]
      /\ \A a \in Arrays, k \in Keys : array'[a].folds[k] \in {None, k}
      /\ \A a \in Arrays : Held(a, reader', snapshot) => array'[a].version = array[a].version
  <2>1. CASE array' = array
    BY <2>1 DEF CacheTypes, FoldsKeyed
  <2>2. CASE array' = Swept(array, reader', snapshot)
    BY <2>2, SweptKeeps DEF CacheTypes, FoldsKeyed
  <2> QED
    BY <2>1, <2>2
<1> QED
  BY <1>2, <1>3, <1>4, <1>5, <1>6, ReadsGoOn

\* The load that is joined or started.
LEMMA LoadKept ==
  ASSUME CacheInv, load' = load
  PROVE  /\ load' = None \/ load' \in [saw: Version \cup {None}, age: 0..MaxLoad]
         /\ load' # None /\ load'.saw # None => old[load'.saw] <= load'.age
  BY DEF CacheInv, CacheTypes, LoadIsRecent

LEMMA ListKeeps ==
  ASSUME CacheInv, NEW r \in Readers, List(r)
  PROVE  AllKept
<1>1. reader[r].step = "ask" /\ UNCHANGED <<version, old, snapshot>> /\ array' = array
  BY DEF List
<1>2. Sound(reader[r]) /\ reader \in [Readers -> Reading] /\ reader[r] \in Reading
  BY DEF CacheInv, ReadsSound, CacheTypes
<1>3. CASE Hit /\ reader' = Listed(reader, {r}, snapshot.array) /\ load' = load
  <2>1. PICK a \in Arrays : a = snapshot.array
    BY <1>3 DEF Hit, CacheInv, CacheTypes
  <2> DEFINE x == [reader[r] EXCEPT !.step = "rows", !.array = a]
  <2>2. Sound(x) /\ x.array = a
    BY <1>2, <2>1 DEF Sound, Reading, Unlisting, Listing
  <2>3. reader' = [reader EXCEPT ![r] = x]
    BY <1>2, <1>3, <2>1 DEF Listed
  <2> HIDE DEF x
  <2> QED
    BY <1>1, <1>3, <2>1, <2>2, <2>3, LoadKept, OneReadGoesOn
<1>4. CASE /\ load' = IF load # None THEN load ELSE [saw |-> None, age |-> 0]
           /\ reader' = [reader EXCEPT ![r].step = "list"]
  <2> DEFINE x == [reader[r] EXCEPT !.step = "list"]
  <2>1. Sound(x) /\ x.array = reader[r].array
    BY <1>1, <1>2 DEF Sound, Reading, Unlisting, Listing
  <2>2. reader' = [reader EXCEPT ![r] = x]
    BY <1>4
  <2>3. /\ load' = None \/ load' \in [saw: Version \cup {None}, age: 0..MaxLoad]
        /\ load' # None /\ load'.saw # None => old[load'.saw] <= load'.age
    <3>1. CASE load # None
      BY <1>4, <3>1, LoadKept
    <3>2. CASE load = None
      BY <1>4, <3>2, Times
    <3> QED
      BY <3>1, <3>2
  <2> HIDE DEF x
  <2> QED
    BY <1>1, <2>1, <2>2, <2>3, OneReadGoesOn
<1> QED
  BY <1>3, <1>4 DEF List

\* The gate: a read of an empty ledger starts again.
LEMMA GateKeeps ==
  ASSUME CacheInv, NEW r \in Readers, Gate(r) \/ GateOpens(r) \/ GateFails(r)
  PROVE  AllKept
<1>1. Sound(reader[r]) /\ reader[r] \in Reading
  BY DEF CacheInv, ReadsSound, CacheTypes
<1>2. CASE Gate(r)
  <2> DEFINE x == [NoReader EXCEPT !.step = "gate", !.gated = TRUE]
  <2>1. Sound(x) /\ x.array = None
    BY DEF Sound, NoReader, Reading, Unlisting, Listing
  <2>2. /\ reader' = [reader EXCEPT ![r] = x] /\ array' = Swept(array, reader', snapshot)
        /\ UNCHANGED <<version, old, snapshot>> /\ load' = load /\ reader[r].step # "idle"
    BY <1>2 DEF Gate
  <2> HIDE DEF x
  <2> QED
    BY <2>1, <2>2, LoadKept, OneReadGoesOn
<1>3. CASE GateOpens(r)
  <2> DEFINE x == [reader[r] EXCEPT !.step = "ask"]
  <2>1. Sound(x) /\ x.array = reader[r].array
    BY <1>1, <1>3 DEF GateOpens, Sound, Reading, Unlisting, Listing
  <2>2. /\ reader' = [reader EXCEPT ![r] = x] /\ array' = array
        /\ UNCHANGED <<version, old, snapshot>> /\ load' = load /\ reader[r].step # "idle"
    BY <1>3 DEF GateOpens
  <2> HIDE DEF x
  <2> QED
    BY <2>1, <2>2, LoadKept, OneReadGoesOn
<1>4. CASE GateFails(r)
  <2>1. /\ reader' = [reader EXCEPT ![r] = NoReader] /\ array' = array
        /\ UNCHANGED <<version, old, snapshot>> /\ load' = load /\ reader[r].step # "idle"
    BY <1>4 DEF GateFails
  <2> QED
    BY <2>1, Empties, LoadKept, OneReadGoesOn
<1> QED
  BY <1>2, <1>3, <1>4

LEMMA ReturnKeeps ==
  ASSUME CacheInv, NEW r \in Readers, Return(r), reader[r].step # "idle"
  PROVE  AllKept /\ reader'[r] = NoReader
<1>1. /\ reader' = [reader EXCEPT ![r] = NoReader] /\ array' = Swept(array, reader', snapshot)
      /\ UNCHANGED <<version, old, snapshot>> /\ load' = load
  BY DEF Return
<1> QED
  BY <1>1, Empties, LoadKept, OneReadGoesOn DEF CacheInv, CacheTypes

\* The load sees the version of that moment, which nothing has superseded.
LEMMA LoadReadsKeeps ==
  ASSUME CacheInv, LoadReads
  PROVE  AllKept /\ reader' = reader
<1>1. /\ UNCHANGED <<version, old, snapshot>> /\ reader' = reader /\ array' = array
      /\ load # None /\ load' = [load EXCEPT !.saw = version]
  BY DEF LoadReads
<1>2. load \in [saw: Version \cup {None}, age: 0..MaxLoad] /\ version \in Version /\ old[version] = 0
  BY <1>1, Times DEF CacheInv, CacheTypes, CurrentIsNew, Version
<1>3. load' \in [saw: Version \cup {None}, age: 0..MaxLoad] /\ old[load'.saw] <= load'.age
  BY <1>1, <1>2, Times
<1>4. StaysIdle /\ \A r \in Readers : reader'[r].array = reader[r].array
  BY <1>1 DEF StaysIdle
<1> QED
  BY <1>1, <1>3, <1>4, ReadsGoOn DEF CacheInv, CacheTypes, ReadsSound, FoldsKeyed

LEMMA LoadFailsKeeps ==
  ASSUME CacheInv, LoadFails
  PROVE  AllKept
<1>1. /\ UNCHANGED <<version, old, snapshot>> /\ array' = array /\ load' = None
      /\ reader' = [r \in Readers |-> IF r \in Joined THEN NoReader ELSE reader[r]]
  BY DEF LoadFails
<1>2. /\ reader' \in [Readers -> Reading] /\ \A r \in Readers : Sound(reader'[r])
      /\ \A r \in Readers : reader'[r].array \in {None, reader[r].array}
  BY <1>1, Empties DEF CacheInv, CacheTypes, ReadsSound, Sound
<1>3. StaysIdle
  BY <1>1 DEF StaysIdle, Joined
<1> QED
  BY <1>1, <1>2, <1>3, ReadsGoOn DEF CacheInv, CacheTypes, FoldsKeyed

LEMMA ArrayPut ==
  ASSUME NEW arr \in [Arrays -> RowsArray], NEW a \in Arrays, NEW x \in RowsArray
  PROVE  /\ [arr EXCEPT ![a] = x] \in [Arrays -> RowsArray]
         /\ [arr EXCEPT ![a] = x][a] = x
         /\ \A b \in Arrays \ {a} : [arr EXCEPT ![a] = x][b] = arr[b]
  OBVIOUS

\* The load installs what it saw: not older than the load took.
LEMMA LoadEndsKeeps ==
  ASSUME CacheInv, LoadEnds
  PROVE  AllKept
<1> USE DEF CacheInv
<1>1. PICK v \in Version : v = load.saw /\ old[v] <= MaxLoad /\ old[v] \in Nat
  <2>1. load \in [saw: Version \cup {None}, age: 0..MaxLoad] /\ load.saw # None /\ old[load.saw] <= load.age
    BY DEF LoadEnds, CacheTypes, LoadIsRecent
  <2>2. PICK v \in Version : v = load.saw
    BY <2>1
  <2>3. old[v] \in Nat
    BY DEF CacheTypes
  <2> QED
    BY <2>1, <2>2, <2>3, Times
<1> DEFINE new == [NoArray EXCEPT !.version = v]
<1>2. PICK a \in Arrays :
        /\ ~Held(a, reader, None)
        /\ snapshot' = [array |-> a, age |-> 0]
        /\ reader' = Listed(reader, Joined, a)
        /\ array' = Swept([array EXCEPT ![a] = new], reader', snapshot')
  BY <1>1 DEF LoadEnds
<1>3. load' = None /\ version' = version /\ old' = old
  BY DEF LoadEnds
<1>4. new \in RowsArray /\ new.version = v /\ \A k \in Keys : new.folds[k] = None
  BY DEF NoArray, RowsArray
<1> HIDE DEF new
<1>5. PICK arr \in [Arrays -> RowsArray] :
        /\ array' = Swept(arr, reader', snapshot')
        /\ arr[a] = new /\ \A b \in Arrays \ {a} : arr[b] = array[b]
  <2> DEFINE put == [array EXCEPT ![a] = new]
  <2>1. /\ put \in [Arrays -> RowsArray] /\ put[a] = new
        /\ \A b \in Arrays \ {a} : put[b] = array[b]
    BY <1>4, ArrayPut DEF CacheTypes
  <2>2. array' = Swept(put, reader', snapshot')
    BY <1>2
  <2> HIDE DEF put
  <2> QED
    BY <2>1, <2>2
<1>6. /\ \A b \in Arrays, k \in Keys : arr[b].folds[k] \in {None, k}
      /\ arr[a].version = v
  BY <1>4, <1>5 DEF FoldsKeyed
<1>7. /\ array' \in [Arrays -> RowsArray]
      /\ \A b \in Arrays, k \in Keys : array'[b].folds[k] \in {None, k}
      /\ \A b \in Arrays : Held(b, reader', snapshot') => array'[b] = arr[b]
  BY <1>5, <1>6, SweptKeeps
<1>8. /\ reader' \in [Readers -> Reading] /\ \A r \in Readers : Sound(reader'[r])
      /\ \A r \in Readers : reader'[r] = reader[r] \/ reader'[r].array = a
      /\ StaysIdle
  <2>1. \A r \in Readers : /\ r \in Joined => reader'[r] = [reader[r] EXCEPT !.step = "rows", !.array = a]
                           /\ r \notin Joined => reader'[r] = reader[r]
    BY <1>2 DEF Listed
  <2>2. \A r \in Readers : reader'[r] \in Reading /\ Sound(reader'[r])
                           /\ (reader'[r] = reader[r] \/ reader'[r].array = a)
    <3> SUFFICES ASSUME NEW r \in Readers
                 PROVE  reader'[r] \in Reading /\ Sound(reader'[r])
                        /\ (reader'[r] = reader[r] \/ reader'[r].array = a)
      OBVIOUS
    <3>1. Sound(reader[r])
      BY DEF ReadsSound
    <3>2. CASE r \in Joined
      BY <2>1, <3>1, <3>2 DEF Sound, Reading, Unlisting, Listing
    <3>3. CASE r \notin Joined
      BY <2>1, <3>1, <3>3 DEF Sound
    <3> QED
      BY <3>2, <3>3
  <2>3. reader' \in [Readers -> Reading]
    BY <1>2, <2>2 DEF Listed
  <2>4. StaysIdle
    BY <2>1 DEF StaysIdle, Joined
  <2> QED
    BY <2>2, <2>3, <2>4
<1>9. snapshot'.array = a /\ snapshot'.age = 0 /\ snapshot' \in [array: Arrays, age: Nat]
  BY <1>2
<1>10. CacheTypes' /\ ReadsSound' /\ FoldsKeyed'
  BY <1>3, <1>7, <1>8, <1>9 DEF CacheTypes, ReadsSound, FoldsKeyed
<1>11. CurrentIsNew' /\ LoadIsRecent'
  BY <1>3 DEF CurrentIsNew, LoadIsRecent
<1>12. snapshot' # None => array'[a].version = v
  BY <1>6, <1>7, <1>9 DEF Held
<1>13. SnapshotAge'
  BY <1>1, <1>3, <1>9, <1>12, Times DEF SnapshotAge
<1>14. ReadersKept
  <2> SUFFICES ASSUME NEW r \in Readers, reader'[r].array # None
               PROVE  \/ old[array'[reader'[r].array].version] < Ttl + MaxLoad
                      \/ /\ reader'[r].array = reader[r].array
                         /\ array'[reader[r].array].version = array[reader[r].array].version
    BY DEF ReadersKept
  <2>1. reader'[r].array \in Arrays /\ Held(reader'[r].array, reader', snapshot')
    BY <1>8 DEF Reading, Held
  <2>2. array'[reader'[r].array] = arr[reader'[r].array]
    BY <1>7, <2>1
  <2>3. CASE reader'[r].array = a
    BY <1>1, <1>6, <2>2, <2>3, Times
  <2>4. CASE reader'[r] = reader[r]
    <3>1. reader[r].array # a
      BY <1>2 DEF Held
    <3> QED
      BY <1>5, <2>1, <2>2, <2>4, <3>1
  <2> QED
    BY <1>8, <2>3, <2>4
<1> QED
  BY <1>3, <1>8, <1>10, <1>11, <1>13, <1>14 DEF AllKept, CacheKept

\* A fold, memoized or made now, is of the key it is asked for with.
LEMMA FoldKeeps ==
  ASSUME CacheInv, NEW rs \in SUBSET Readers, NEW a \in Arrays, NEW probe \in {"absent", "pending", "ok"},
         NEW key \in Keys, NEW ok \in BOOLEAN, Fold(rs, a, probe, key, ok),
         UNCHANGED <<version, old, snapshot>>, load' = load,
         \A r \in rs : reader[r].array = a /\ reader[r].step # "idle"
  PROVE  AllKept /\ \A r \in Readers : r \notin rs => reader'[r] = reader[r]
<1> USE DEF CacheInv
<1>1. array \in [Arrays -> RowsArray] /\ array[a] \in RowsArray /\ array[a].folds[key] \in {None, key}
  BY DEF CacheTypes, FoldsKeyed
<1> DEFINE memoized == array[a].folds[key]
           fold == IF memoized # None THEN memoized ELSE key
<1>2. fold = key
  BY <1>1
<1>3. CASE memoized # None \/ ok
  <2> DEFINE after(r) == [reader[r] EXCEPT !.step = "done", !.gated = FALSE, !.key = key, !.fold = key]
             kept == [array[a] EXCEPT !.probe = probe, !.folds[key] = key]
  <2>1. /\ reader' = [r \in Readers |-> IF r \notin rs THEN reader[r] ELSE after(r)]
        /\ array' = [array EXCEPT ![a] = kept]
    BY <1>1, <1>2, <1>3 DEF Fold, FoldKey
  <2>2. \A r \in rs : Sound(after(r)) /\ after(r).array = reader[r].array
    <3> SUFFICES ASSUME NEW r \in rs PROVE Sound(after(r)) /\ after(r).array = reader[r].array
      OBVIOUS
    <3>1. Sound(reader[r]) /\ reader[r] \in Reading /\ reader[r].array = a
      BY DEF ReadsSound, CacheTypes
    <3> QED
      BY <3>1 DEF Sound, Reading, Unlisting, Listing
  <2>3. kept \in RowsArray /\ kept.version = array[a].version
        /\ \A k \in Keys : kept.folds[k] = IF k = key THEN key ELSE array[a].folds[k]
    <3>1. [array[a].folds EXCEPT ![key] = key] \in [Keys -> Keys \cup {None}]
      BY <1>1 DEF RowsArray
    <3>2. PICK fs \in [Keys -> Keys \cup {None}] : fs = [array[a].folds EXCEPT ![key] = key]
      BY <3>1
    <3>3. \A k \in Keys : fs[k] = IF k = key THEN key ELSE array[a].folds[k]
      BY <1>1, <3>2 DEF RowsArray
    <3>4. kept = [[array[a] EXCEPT !.probe = probe] EXCEPT !.folds = fs]
      BY <3>2
    <3> QED
      BY <1>1, <3>3, <3>4 DEF RowsArray
  <2> HIDE DEF after, kept
  <2>4. /\ reader' \in [Readers -> Reading] /\ \A r \in Readers : Sound(reader'[r])
        /\ \A r \in Readers : reader'[r].array = reader[r].array
        /\ \A r \in Readers : r \notin rs => reader'[r] = reader[r]
        /\ StaysIdle
    BY <2>1, <2>2 DEF CacheTypes, ReadsSound, Sound, StaysIdle
  <2>5. /\ array' \in [Arrays -> RowsArray]
        /\ \A b \in Arrays, k \in Keys : array'[b].folds[k] \in {None, k}
        /\ \A b \in Arrays : array'[b].version = array[b].version
    BY <1>1, <2>1, <2>3 DEF FoldsKeyed
  <2> QED
    BY <2>4, <2>5, LoadKept, ReadsGoOn
<1>4. CASE ~(memoized # None \/ ok)
  <2> DEFINE kept == [array[a] EXCEPT !.probe = probe]
  <2>1. /\ reader' = [r \in Readers |-> IF r \in rs THEN NoReader ELSE reader[r]]
        /\ array' = Swept([array EXCEPT ![a] = kept], reader', snapshot)
    BY <1>1, <1>4 DEF Fold, FoldKey
  <2>2. kept \in RowsArray /\ kept.version = array[a].version /\ kept.folds = array[a].folds
    BY <1>1 DEF RowsArray
  <2> HIDE DEF kept
  <2>3. PICK arr \in [Arrays -> RowsArray] :
          /\ array' = Swept(arr, reader', snapshot)
          /\ arr[a] = kept /\ \A b \in Arrays \ {a} : arr[b] = array[b]
    <3> DEFINE put == [array EXCEPT ![a] = kept]
    <3>1. /\ put \in [Arrays -> RowsArray] /\ put[a] = kept
          /\ \A b \in Arrays \ {a} : put[b] = array[b]
      BY <1>1, <2>2, ArrayPut
    <3>2. array' = Swept(put, reader', snapshot)
      BY <2>1
    <3> HIDE DEF put
    <3> QED
      BY <3>1, <3>2
  <2>4. /\ \A b \in Arrays, k \in Keys : arr[b].folds[k] \in {None, k}
        /\ \A b \in Arrays : arr[b].version = array[b].version
    BY <2>2, <2>3 DEF FoldsKeyed
  <2>5. /\ array' \in [Arrays -> RowsArray]
        /\ \A b \in Arrays, k \in Keys : array'[b].folds[k] \in {None, k}
        /\ \A b \in Arrays : Held(b, reader', snapshot) => array'[b].version = array[b].version
    BY <2>3, <2>4, SweptKeeps
  <2>6. /\ reader' \in [Readers -> Reading] /\ \A r \in Readers : Sound(reader'[r])
        /\ \A r \in Readers : reader'[r].array \in {None, reader[r].array}
        /\ \A r \in Readers : r \notin rs => reader'[r] = reader[r]
        /\ StaysIdle
    BY <2>1, Empties DEF CacheTypes, ReadsSound, Sound, StaysIdle
  <2> QED
    BY <2>5, <2>6, LoadKept, ReadsGoOn
<1> QED
  BY <1>3, <1>4

LEMMA ProbeKeeps ==
  ASSUME CacheInv, NEW r \in Readers, NEW ok \in BOOLEAN, Probe(r, ok)
  PROVE  AllKept /\ \A p \in Readers \ {r} : reader'[p] = reader[p]
<1> USE DEF CacheInv
<1>1. /\ reader[r].step = "rows" /\ UNCHANGED <<version, old, snapshot>> /\ load' = load
  BY DEF Probe, HasRows
<1>2. Sound(reader[r]) /\ reader[r] \in Reading
  BY DEF ReadsSound, CacheTypes
<1>3. PICK a \in Arrays : a = reader[r].array
  BY <1>1, <1>2 DEF Sound, Unlisting
<1>4. CASE array[a].probe = "ok" /\ Fold({r}, a, "ok", "prices", ok)
  <2>1. /\ {r} \in SUBSET Readers /\ \A p \in {r} : reader[p].array = a /\ reader[p].step # "idle"
        /\ "ok" \in {"absent", "pending", "ok"} /\ "prices" \in Keys
    BY <1>1, <1>3 DEF Keys
  <2>2. PICK rs, probe, key : rs = {r} /\ probe = "ok" /\ key = "prices"
    OBVIOUS
  <2>3. AllKept /\ \A p \in Readers : p \notin rs => reader'[p] = reader[p]
    BY <1>1, <1>4, <2>1, <2>2, FoldKeeps
  <2> QED
    BY <2>2, <2>3
<1>5. CASE /\ reader' = [reader EXCEPT ![r] = [@ EXCEPT !.step = "probe", !.gated = FALSE]]
           /\ array' = [array EXCEPT ![a].probe = "pending"]
  <2> DEFINE x == [reader[r] EXCEPT !.step = "probe", !.gated = FALSE]
             kept == [array[a] EXCEPT !.probe = "pending"]
  <2>1. Sound(x) /\ x.array = reader[r].array
    BY <1>1, <1>2 DEF Sound, Reading, Unlisting, Listing
  <2>2. kept \in RowsArray /\ kept.version = array[a].version /\ kept.folds = array[a].folds
    BY DEF CacheTypes, RowsArray
  <2>3. reader' = [reader EXCEPT ![r] = x] /\ array' = [array EXCEPT ![a] = kept]
    BY <1>5
  <2> HIDE DEF x, kept
  <2>4. /\ reader' \in [Readers -> Reading] /\ \A p \in Readers : Sound(reader'[p])
        /\ \A p \in Readers : reader'[p].array = reader[p].array
        /\ \A p \in Readers \ {r} : reader'[p] = reader[p]
        /\ StaysIdle
    BY <1>1, <2>1, <2>3 DEF CacheTypes, ReadsSound, Sound, StaysIdle
  <2>5. /\ array' \in [Arrays -> RowsArray]
        /\ \A b \in Arrays, k \in Keys : array'[b].folds[k] \in {None, k}
        /\ \A b \in Arrays : array'[b].version = array[b].version
    BY <2>2, <2>3 DEF CacheTypes, FoldsKeyed
  <2> QED
    BY <1>1, <2>4, <2>5, LoadKept, ReadsGoOn
<1> QED
  BY <1>3, <1>4, <1>5 DEF Probe

LEMMA ProbeEndsKeeps ==
  ASSUME CacheInv, NEW a \in Arrays, NEW answers \in BOOLEAN, NEW ok \in BOOLEAN, ProbeEnds(a, answers, ok)
  PROVE  AllKept
<1> DEFINE rs == {r \in Readers : reader[r].step = "probe" /\ reader[r].array = a}
           probe == IF answers THEN "ok" ELSE "absent"
           key == IF answers THEN "prices" ELSE "none"
<1>1. /\ Fold(rs, a, probe, key, ok) /\ UNCHANGED <<version, old, snapshot>> /\ load' = load
  BY DEF ProbeEnds
<1>2. /\ rs \in SUBSET Readers /\ \A r \in rs : reader[r].array = a /\ reader[r].step # "idle"
      /\ probe \in {"absent", "pending", "ok"} /\ key \in Keys
  BY DEF Keys
<1> HIDE DEF rs, probe, key
<1> QED
  BY <1>1, <1>2, FoldKeeps

-----------------------------------------------------------------------------
(* The memos.                                                               *)

\* What the load of an entry has listed stays recent for the entry.
LEMMA KeptListed ==
  ASSUME MemoInv, CacheTypes, CacheTypes', ReadersKept, NEW s \in Scopes, memo[s] \in Entry, Unexpired(memo[s]),
         memo[s].by # None, reader'[memo[s].by].array # None
  PROVE  old[array'[reader'[memo[s].by].array].version] < Ttl + MaxLoad + memo[s].age
<1>1. PICK h \in Readers : h = memo[s].by
  BY DEF Entry
<1>2. PICK a \in Arrays : a = reader'[h].array
  BY <1>1 DEF CacheTypes, Reading
<1>3. PICK v \in Version : v = array'[a].version /\ old[v] \in Nat /\ memo[s].age \in Nat
  BY <1>2 DEF CacheTypes, RowsArray, Entry
<1>4. CASE old[v] < Ttl + MaxLoad
  BY <1>1, <1>2, <1>3, <1>4, Times
<1>5. CASE reader[h].array = a /\ array[a].version = v
  BY <1>1, <1>2, <1>3, <1>5 DEF MemoInv, ListedRecent
<1> QED
  BY <1>1, <1>2, <1>3, <1>4, <1>5 DEF ReadersKept

\* A step that adds no entry keeps what is said of the memo.
LEMMA MemoKept ==
  ASSUME CacheInv, MemoInv, CacheKept, MemoTypes', NotReading',
         \A s \in Scopes : memo'[s] \in {None, memo[s]}
  PROVE  MemoInv'
<1>1. old' = old /\ ReadersKept /\ CacheTypes /\ CacheTypes'
  BY DEF CacheKept, CacheInv
<1>2. AnswersRecent'
  BY <1>1 DEF MemoInv, AnswersRecent, Unexpired
<1>3. ListedRecent'
  <2> SUFFICES ASSUME NEW s \in Scopes, Unexpired(memo'[s]), memo'[s].by # None,
                      reader'[memo'[s].by].array # None
               PROVE  old[array'[reader'[memo'[s].by].array].version] < Ttl + MaxLoad + memo'[s].age
    BY <1>1 DEF ListedRecent
  <2>1. memo'[s] = memo[s] /\ memo[s] \in Entry
    BY DEF Unexpired, MemoInv, MemoTypes
  <2> QED
    BY <1>1, <2>1, KeptListed
<1> QED
  BY <1>2, <1>3 DEF MemoInv

LEMMA WritePreserves ==
  ASSUME CacheInv, MemoInv, Write
  PROVE  CacheInv' /\ MemoInv'
<1>1. AllKept /\ reader' = reader /\ UNCHANGED <<memo, balanceMemo, hload>>
  BY WritesKeep DEF Write, portfolioVars
<1>2. MemoTypes' /\ NotReading'
  BY <1>1 DEF MemoInv, MemoTypes, NotReading
<1> QED
  BY <1>1, <1>2, MemoKept DEF AllKept, CacheKept

\* A read goes on between two replies.
LEMMA ReadPreserves ==
  ASSUME CacheInv, MemoInv, NEW h \in Readers, List(h) \/ Gate(h), UNCHANGED portfolioVars
  PROVE  CacheInv' /\ MemoInv'
<1>1. AllKept /\ UNCHANGED <<memo, balanceMemo, hload>>
  BY ListKeeps, GateKeeps DEF portfolioVars
<1>2. MemoTypes' /\ NotReading'
  BY <1>1 DEF MemoInv, MemoTypes, NotReading, AllKept, StaysIdle
<1> QED
  BY <1>1, <1>2, MemoKept DEF AllKept, CacheKept

LEMMA EvictKeeps ==
  ASSUME NEW K, NEW E, NEW table \in [K -> E \cup {None}], NEW own
  PROVE  /\ Evict(table, own) \in [K -> E \cup {None}]
         /\ \A k \in K : Evict(table, own)[k] \in {None, table[k]}
  BY DEF Evict

LEMMA SweepKeeps ==
  ASSUME NEW K, NEW E, NEW table \in [K -> E \cup {None}]
  PROVE  /\ Sweep(table) \in [K -> E \cup {None}]
         /\ \A k \in K : Sweep(table)[k] \in {None, table[k]}
         /\ \A k \in K : Unexpired(table[k]) => Sweep(table)[k] = table[k]
  BY DEF Sweep

\* What a rejection leaves of the memo.
LEMMA WithoutKeeps ==
  ASSUME MemoTypes, NEW hs \in SUBSET Readers, memo' = Without(hs) \/ memo' = memo
  PROVE  /\ memo' \in [Scopes -> Entry \cup {None}]
         /\ \A s \in Scopes : memo'[s] \in {None, memo[s]}
         /\ \A s \in Scopes : memo[s] # None /\ memo'[s] = None =>
              memo[s].by \in Rejecting(hs) /\ hload[memo[s].by].scope = s
<1>1. memo \in [Scopes -> Entry \cup {None}]
  BY DEF MemoTypes
<1>2. CASE memo' = Without(hs)
  <2>1. PICK own :
          /\ memo' = Evict(memo, own)
          /\ \A s \in Scopes : <<s, memo[s].by>> \in own =>
               memo[s].by \in Rejecting(hs) /\ hload[memo[s].by].scope = s
    BY <1>2 DEF Without
  <2>2. memo' \in [Scopes -> Entry \cup {None}] /\ \A s \in Scopes : memo'[s] \in {None, memo[s]}
    BY <1>1, <2>1, EvictKeeps
  <2>3. \A s \in Scopes : memo[s] # None /\ memo'[s] = None => <<s, memo[s].by>> \in own
    BY <1>1, <2>1 DEF Evict
  <2> QED
    BY <2>1, <2>2, <2>3
<1>3. CASE memo' = memo
  BY <1>1, <1>3
<1> QED
  BY <1>2, <1>3

LEMMA NoLoadIdle == NoLoad \in LoadRec /\ NoLoad.step = "idle" /\ NoLoad.waits = None /\ NoLoad.todo = <<>>
  BY DEF NoLoad, LoadRec, LoadShape, Fit

\* A load in its rest is idle only when its read is.
LEMMA RestKeeps ==
  ASSUME NEW ls \in [Readers -> LoadRec], NEW rds,
         \A h \in Readers : ls[h].step \in {"idle", "wallets"} => rds[h].step = "idle"
  PROVE  /\ Rest(ls, rds) \in [Readers -> LoadRec]
         /\ \A h \in Readers : Rest(ls, rds)[h].step \in {"idle", "wallets"} => rds[h].step = "idle"
         /\ \A h \in Readers : Rest(ls, rds)[h] = ls[h] \/ Rest(ls, rds)[h] = NoLoad
  BY NoLoadIdle DEF Rest, Gone

\* A load is put into the table of loads.
LEMMA LoadPut ==
  ASSUME MemoTypes, NEW h \in Readers, NEW x \in LoadRec, hload' = [hload EXCEPT ![h] = x]
  PROVE  /\ hload' \in [Readers -> LoadRec] /\ hload'[h] = x
         /\ \A g \in Readers \ {h} : hload'[g] = hload[g]
  BY DEF MemoTypes

\* The bindings are read, and the ledger is asked for.
LEMMA WalletsReadPreserves ==
  ASSUME CacheInv, MemoInv, NEW h \in Readers, WalletsRead(h)
  PROVE  CacheInv' /\ MemoInv'
<1>1. /\ hload[h].step = "wallets" /\ hload' = [hload EXCEPT ![h].step = "ledger"]
      /\ reader' = [reader EXCEPT ![h].step = "ask"]
      /\ UNCHANGED <<version, old, snapshot>> /\ load' = load /\ array' = array
      /\ UNCHANGED <<memo, balanceMemo>>
  BY DEF WalletsRead
<1>2. reader[h] = NoReader /\ reader \in [Readers -> Reading] /\ hload[h] \in LoadRec
  BY <1>1 DEF MemoInv, MemoTypes, NotReading, CacheInv, ReadsSound, Sound, CacheTypes
<1> DEFINE x == [NoReader EXCEPT !.step = "ask"]
           y == [hload[h] EXCEPT !.step = "ledger"]
<1>3. Sound(x) /\ x.array = None
  BY DEF Sound, NoReader, Reading, Unlisting, Listing
<1>4. y \in LoadRec /\ y.step = "ledger"
  BY <1>1, <1>2 DEF LoadRec, LoadShape, Fit
<1>5. reader' = [reader EXCEPT ![h] = x] /\ hload' = [hload EXCEPT ![h] = y]
  BY <1>1, <1>2
<1> HIDE DEF x, y
<1>6. /\ reader' \in [Readers -> Reading] /\ \A r \in Readers : Sound(reader'[r])
      /\ \A r \in Readers : reader'[r].array \in {None, reader[r].array}
      /\ \A r \in Readers \ {h} : reader'[r] = reader[r]
  BY <1>2, <1>3, <1>5 DEF Sound, CacheInv, ReadsSound
<1>7. CacheKept
  BY <1>1, <1>6, LoadKept, ReadsMove DEF CacheInv, CacheTypes, FoldsKeyed
<1>8. MemoTypes' /\ NotReading'
  BY <1>1, <1>4, <1>5, <1>6, LoadPut DEF MemoInv, MemoTypes, NotReading
<1> QED
  BY <1>1, <1>7, <1>8, MemoKept DEF CacheKept

\* A cache that does not move.
LEMMA CacheStands ==
  ASSUME CacheInv, UNCHANGED cacheVars
  PROVE  AllKept /\ reader' = reader
<1>1. UNCHANGED <<version, old, snapshot>> /\ load' = load /\ array' = array /\ reader' = reader
  BY DEF cacheVars
<1>2. StaysIdle
  BY <1>1 DEF StaysIdle
<1> QED
  BY <1>1, <1>2, LoadKept, ReadsGoOn DEF CacheInv, CacheTypes, ReadsSound, FoldsKeyed

LEMMA NotFoundPreserves ==
  ASSUME CacheInv, MemoInv, NEW h \in Readers, NotFound(h)
  PROVE  CacheInv' /\ MemoInv'
<1>1. /\ hload[h].step = "wallets" /\ hload' = [hload EXCEPT ![h] = NoLoad]
      /\ memo' = Evict(memo, {<<hload[h].scope, h>>})
      /\ UNCHANGED cacheVars /\ balanceMemo' = balanceMemo
  BY DEF NotFound
<1>2. AllKept /\ reader' = reader
  BY <1>1, CacheStands
<1>3. memo' \in [Scopes -> Entry \cup {None}] /\ \A s \in Scopes : memo'[s] \in {None, memo[s]}
  <2>1. memo \in [Scopes -> Entry \cup {None}]
    BY DEF MemoInv, MemoTypes
  <2>2. PICK own : memo' = Evict(memo, own)
    BY <1>1
  <2> QED
    BY <2>1, <2>2, EvictKeeps
<1>4. MemoTypes' /\ NotReading'
  BY <1>1, <1>2, <1>3, LoadPut, NoLoadIdle DEF MemoInv, MemoTypes, NotReading
<1> QED
  BY <1>2, <1>3, <1>4, MemoKept DEF AllKept, CacheKept

\* A load begins with an entry of its own: it has listed nothing yet.
LEMMA CallPreserves ==
  ASSUME CacheInv, MemoInv, NEW s \in Scopes, Call(s)
  PROVE  CacheInv' /\ MemoInv'
<1>1. PICK h \in Readers :
        /\ hload[h] = NoLoad
        /\ memo' = [Sweep(memo) EXCEPT ![s] = [by |-> h, age |-> 0, from |-> None]]
        /\ hload' = [hload EXCEPT ![h] = [NoLoad EXCEPT !.step = "wallets", !.scope = s]]
  BY DEF Call
<1>2. UNCHANGED cacheVars /\ balanceMemo' = balanceMemo
  BY DEF Call
<1>3. AllKept /\ reader' = reader
  BY <1>2, CacheStands
<1>4. reader[h].step = "idle" /\ reader[h].array = None
  BY <1>1, NoLoadIdle DEF MemoInv, NotReading, CacheInv, ReadsSound, Sound, Unlisting
<1> DEFINE e == [by |-> h, age |-> 0, from |-> None]
           y == [NoLoad EXCEPT !.step = "wallets", !.scope = s]
<1>5. e \in Entry /\ e.by = h
  BY DEF Entry
<1>6. y \in LoadRec /\ y.step = "wallets"
  BY NoLoadIdle DEF LoadRec, LoadShape, Fit
<1>7. memo' = [Sweep(memo) EXCEPT ![s] = e] /\ hload' = [hload EXCEPT ![h] = y]
  BY <1>1
<1> HIDE DEF e, y
<1>8. PICK swept \in [Scopes -> Entry \cup {None}] :
        memo' = [swept EXCEPT ![s] = e] /\ \A t \in Scopes : swept[t] \in {None, memo[t]}
  BY <1>7, SweepKeeps DEF MemoInv, MemoTypes
<1>9. /\ memo' \in [Scopes -> Entry \cup {None}] /\ memo'[s] = e
      /\ \A t \in Scopes \ {s} : memo'[t] \in {None, memo[t]}
  BY <1>5, <1>8
<1>10. MemoTypes' /\ NotReading'
  BY <1>2, <1>3, <1>4, <1>6, <1>7, <1>9, LoadPut DEF MemoInv, MemoTypes, NotReading
<1>11. old' = old /\ array' = array
  BY <1>2 DEF cacheVars
<1>12. AnswersRecent'
  BY <1>5, <1>9, <1>11, Times DEF MemoInv, AnswersRecent, Unexpired
<1>13. ListedRecent'
  BY <1>3, <1>4, <1>5, <1>9, <1>11 DEF MemoInv, ListedRecent, Unexpired
<1> QED
  BY <1>3, <1>10, <1>12, <1>13 DEF MemoInv, AllKept, CacheKept

LEMMA AskedWallets ==
  ASSUME NEW s \in Scopes
  PROVE  Asked(s) \in Seq(ToSet(Wallets))
<1>1. CASE s = "all"
  BY <1>1, PortfolioAssumption DEF Asked
<1>2. CASE s # "all"
  <2>1. s \in ToSet(Wallets) /\ Asked(s) = <<s>>
    BY <1>2, PortfolioAssumption DEF Asked
  <2> QED
    BY <2>1
<1> QED
  BY <1>1, <1>2

\* The rows are there: the load reads on, or rejects with its fold.
LEMMA RowsReadPreserves ==
  ASSUME CacheInv, MemoInv, NEW h \in Readers, NEW ok \in BOOLEAN, RowsRead(h, ok)
  PROVE  CacheInv' /\ MemoInv'
<1>1. /\ hload[h].step = "ledger" /\ Probe(h, ok) /\ balanceMemo' = balanceMemo
      /\ memo' = Without({h}) \/ memo' = memo
  BY DEF RowsRead
<1>2. PICK st \in {"rejected", "reads"} :
        hload' = [hload EXCEPT ![h] = [hload[h] EXCEPT !.step = st, !.todo = Asked(hload[h].scope)]]
  BY DEF RowsRead
<1>3. AllKept /\ \A p \in Readers \ {h} : reader'[p] = reader[p]
  BY <1>1, ProbeKeeps
<1>4. memo' \in [Scopes -> Entry \cup {None}] /\ \A s \in Scopes : memo'[s] \in {None, memo[s]}
  BY <1>1, WithoutKeeps DEF MemoInv
<1> DEFINE y == [hload[h] EXCEPT !.step = st, !.todo = Asked(hload[h].scope)]
<1>5. hload' = [hload EXCEPT ![h] = y]
  BY <1>2
<1>6. y \in LoadRec /\ y.step = st
  <2>1. hload[h] \in LoadShape /\ hload[h].scope \in Scopes /\ hload[h].waits = None
    BY <1>1 DEF MemoInv, MemoTypes, LoadRec, Fit
  <2>2. Asked(hload[h].scope) \in Seq(ToSet(Wallets))
    BY <2>1, AskedWallets
  <2>3. PICK todo \in Seq(ToSet(Wallets)) : todo = Asked(hload[h].scope)
    BY <2>2
  <2>4. y = [hload[h] EXCEPT !.step = st, !.todo = todo]
    BY <2>3
  <2> QED
    BY <2>1, <2>4 DEF LoadRec, LoadShape, Fit
<1> HIDE DEF y
<1>7. MemoTypes' /\ NotReading'
  BY <1>1, <1>3, <1>4, <1>5, <1>6, LoadPut DEF MemoInv, MemoTypes, NotReading
<1> QED
  BY <1>3, <1>4, <1>7, MemoKept DEF AllKept, CacheKept

\* The next wallet of a load.
LEMMA NextWalletPreserves ==
  ASSUME CacheInv, MemoInv, NEW h \in Readers, NextWallet(h)
  PROVE  CacheInv' /\ MemoInv'
<1>1. /\ hload[h].todo # <<>> /\ hload[h].waits = None
      /\ UNCHANGED cacheVars /\ memo' = memo
  BY DEF NextWallet
<1>2. AllKept /\ reader' = reader
  BY <1>1, CacheStands
<1>3. /\ hload[h] \in LoadShape /\ Fit(hload[h]) /\ hload \in [Readers -> LoadRec]
      /\ hload[h].step \notin {"idle", "wallets", "ledger"}
  BY <1>1 DEF MemoInv, MemoTypes, LoadRec, Fit
<1>4. PICK todo \in Seq(ToSet(Wallets)) : todo = hload[h].todo
  BY <1>3 DEF LoadShape
<1>5. Head(todo) \in ToSet(Wallets) /\ Tail(todo) \in Seq(ToSet(Wallets))
  BY <1>1, <1>4
<1>6. PICK w \in ToSet(Wallets) : w = Head(hload[h].todo)
  BY <1>4, <1>5
<1>7. balanceMemo \in [ToSet(Wallets) -> BalanceEntry \cup {None}]
  BY DEF MemoInv, MemoTypes
<1>8. hload' \in [Readers -> LoadRec] /\ balanceMemo' \in [ToSet(Wallets) -> BalanceEntry \cup {None}]
      /\ NotReading'
  <2>1. CASE hload' = Rest([hload EXCEPT ![h].todo = Tail(@)], reader) /\ balanceMemo' = balanceMemo
    <3> DEFINE y == [hload[h] EXCEPT !.todo = Tail(todo)]
               put == [hload EXCEPT ![h] = y]
    <3>1. y \in LoadRec /\ y.step = hload[h].step
      BY <1>1, <1>3, <1>5 DEF LoadRec, LoadShape, Fit
    <3>2. hload' = Rest(put, reader)
      BY <1>4, <2>1
    <3> HIDE DEF y
    <3>3. put \in [Readers -> LoadRec] /\ \A g \in Readers : put[g].step = hload[g].step
      BY <1>3, <3>1
    <3> HIDE DEF put
    <3>4. \A g \in Readers : put[g].step \in {"idle", "wallets"} => reader[g].step = "idle"
      BY <3>3 DEF MemoInv, NotReading
    <3>5. balanceMemo' = balanceMemo
      BY <2>1
    <3> QED
      BY <1>2, <1>7, <3>2, <3>3, <3>4, <3>5, RestKeeps DEF NotReading
  <2>2. ASSUME NEW g \in Readers, hload' = [hload EXCEPT ![h].waits = g],
               balanceMemo' \in [ToSet(Wallets) -> BalanceEntry \cup {None}]
        PROVE  /\ hload' \in [Readers -> LoadRec] /\ balanceMemo' \in [ToSet(Wallets) -> BalanceEntry \cup {None}]
               /\ NotReading'
    <3> DEFINE y == [hload[h] EXCEPT !.waits = g]
    <3>1. y \in LoadRec /\ y.step = hload[h].step
      BY <1>1, <1>3 DEF LoadRec, LoadShape, Fit
    <3>2. hload' = [hload EXCEPT ![h] = y]
      BY <2>2
    <3> HIDE DEF y
    <3>3. hload' \in [Readers -> LoadRec] /\ \A p \in Readers : hload'[p].step = hload[p].step
      BY <1>3, <3>1, <3>2
    <3> QED
      BY <1>2, <2>2, <3>3 DEF MemoInv, NotReading
  <2>3. CASE /\ Unexpired(balanceMemo[w]) /\ balanceMemo[w].by # None
             /\ hload' = [hload EXCEPT ![h].waits = balanceMemo[w].by]
             /\ balanceMemo' = balanceMemo
    <3>1. balanceMemo[w].by \in Readers
      BY <1>7, <2>3 DEF Unexpired, BalanceEntry
    <3> QED
      BY <1>7, <2>2, <2>3, <3>1
  <2>4. CASE /\ hload' = [hload EXCEPT ![h].waits = h]
             /\ balanceMemo' = [Sweep(balanceMemo) EXCEPT ![w] = [by |-> h, age |-> 0]]
    <3> DEFINE e == [by |-> h, age |-> 0]
    <3>1. e \in BalanceEntry
      BY DEF BalanceEntry
    <3>2. balanceMemo' = [Sweep(balanceMemo) EXCEPT ![w] = e]
      BY <2>4
    <3> HIDE DEF e
    <3>3. Sweep(balanceMemo) \in [ToSet(Wallets) -> BalanceEntry \cup {None}]
      BY <1>7, SweepKeeps
    <3>4. balanceMemo' \in [ToSet(Wallets) -> BalanceEntry \cup {None}]
      BY <3>1, <3>2, <3>3
    <3> QED
      BY <2>2, <2>4, <3>4
  <2> QED
    BY <1>6, <2>1, <2>3, <2>4 DEF NextWallet
<1>9. MemoTypes' /\ \A s \in Scopes : memo'[s] = memo[s]
  BY <1>1, <1>8 DEF MemoInv, MemoTypes
<1> QED
  BY <1>2, <1>8, <1>9, MemoKept DEF AllKept, CacheKept

\* A load that waited is fit when the balances are there, or have failed.
LEMMA AfterFit ==
  ASSUME NEW l \in LoadRec, l.waits # None, NEW todo \in Seq(ToSet(Wallets)), NEW st \in {l.step, "rejected"}
  PROVE  /\ [l EXCEPT !.waits = None, !.todo = todo, !.step = st] \in LoadRec
         /\ [l EXCEPT !.waits = None, !.todo = todo, !.step = st].step = st
         /\ [l EXCEPT !.waits = None, !.todo = todo, !.step = st].waits = None
         /\ l.step \notin {"idle", "wallets", "ledger"}
  BY DEF LoadRec, LoadShape, Fit

\* A balance read ends.
LEMMA BalancesReadPreserves ==
  ASSUME CacheInv, MemoInv, NEW h \in Readers, NEW ok \in BOOLEAN, BalancesRead(h, ok)
  PROVE  CacheInv' /\ MemoInv'
<1> DEFINE w == Head(hload[h].todo)
           waiting == {g \in Readers : hload[g].waits = h}
           todo(g) == IF ok THEN Tail(hload[g].todo) ELSE <<>>
           st(g) == IF ok \/ g \notin Rejecting(waiting) THEN hload[g].step ELSE "rejected"
           after(g) == [hload[g] EXCEPT !.waits = None, !.todo = todo(g), !.step = st(g)]
           ls == [g \in Readers |-> IF g \in waiting THEN after(g) ELSE hload[g]]
<1>1. /\ hload[h].waits = h /\ UNCHANGED cacheVars
      /\ memo' = memo \/ memo' = Without(waiting)
      /\ hload' = Rest(ls, reader)
  BY DEF BalancesRead
<1>2. \/ \E own : balanceMemo' = Evict(balanceMemo, own)
      \/ /\ balanceMemo[w] # None /\ balanceMemo[w].by = h
         /\ balanceMemo' = [balanceMemo EXCEPT ![w].by = None]
      \/ balanceMemo' = balanceMemo
  BY DEF BalancesRead
<1>3. AllKept /\ reader' = reader
  BY <1>1, CacheStands
<1>4. /\ memo' \in [Scopes -> Entry \cup {None}]
      /\ \A s \in Scopes : memo'[s] \in {None, memo[s]}
  <2>1. waiting \in SUBSET Readers
    OBVIOUS
  <2> HIDE DEF waiting
  <2> QED
    BY <1>1, <2>1, WithoutKeeps DEF MemoInv
<1>5. \A g \in waiting : after(g) \in LoadRec /\ (after(g).step \in {"idle", "wallets"} => hload[g].step = after(g).step)
  <2> SUFFICES ASSUME NEW g \in waiting
               PROVE  after(g) \in LoadRec /\ (after(g).step \in {"idle", "wallets"} => hload[g].step = after(g).step)
    OBVIOUS
  <2>1. hload[g] \in LoadRec /\ hload[g].waits # None
    BY Times DEF MemoInv, MemoTypes
  <2>2. hload[g].todo \in Seq(ToSet(Wallets)) /\ hload[g].todo # <<>>
    BY <2>1 DEF LoadRec, LoadShape, Fit
  <2>3. todo(g) \in Seq(ToSet(Wallets)) /\ st(g) \in {hload[g].step, "rejected"}
    BY <2>2
  <2> HIDE DEF todo, st
  <2> QED
    BY <2>1, <2>3, AfterFit
<1>6. /\ ls \in [Readers -> LoadRec]
      /\ \A g \in Readers : ls[g].step \in {"idle", "wallets"} => reader[g].step = "idle"
  <2> HIDE DEF after
  <2> QED
    BY <1>5 DEF MemoInv, MemoTypes, NotReading
<1>7. hload' \in [Readers -> LoadRec] /\ NotReading'
  <2> HIDE DEF ls
  <2> QED
    BY <1>1, <1>3, <1>6, RestKeeps DEF NotReading
<1>8. balanceMemo' \in [ToSet(Wallets) -> BalanceEntry \cup {None}]
  <2>1. balanceMemo \in [ToSet(Wallets) -> BalanceEntry \cup {None}]
    BY DEF MemoInv, MemoTypes
  <2>2. CASE \E own : balanceMemo' = Evict(balanceMemo, own)
    <3>1. PICK own : balanceMemo' = Evict(balanceMemo, own)
      BY <2>2
    <3> QED
      BY <2>1, <3>1, EvictKeeps
  <2>3. CASE /\ balanceMemo[w] # None /\ balanceMemo[w].by = h
             /\ balanceMemo' = [balanceMemo EXCEPT ![w].by = None]
    <3>1. hload[h].todo \in Seq(ToSet(Wallets)) /\ hload[h].todo # <<>>
      BY <1>1, Times DEF MemoInv, MemoTypes, LoadRec, LoadShape, Fit
    <3>2. w \in ToSet(Wallets)
      BY <3>1
    <3>3. balanceMemo[w] \in BalanceEntry
      BY <2>1, <2>3, <3>2
    <3> DEFINE e == [balanceMemo[w] EXCEPT !.by = None]
    <3>4. e \in BalanceEntry
      BY <3>3 DEF BalanceEntry
    <3>5. balanceMemo' = [balanceMemo EXCEPT ![w] = e]
      BY <2>3
    <3> HIDE DEF e, w
    <3> QED
      BY <2>1, <3>2, <3>4, <3>5
  <2> QED
    BY <1>2, <2>1, <2>2, <2>3
<1>9. MemoTypes'
  BY <1>4, <1>7, <1>8 DEF MemoTypes
<1> QED
  BY <1>3, <1>4, <1>7, <1>9, MemoKept DEF AllKept, CacheKept

\* The ledger is read on, or the loads of the reads that fail reject.
LEMMA LedgerReplyPreserves ==
  ASSUME CacheInv, MemoInv, LedgerReply
  PROVE  CacheInv' /\ MemoInv'
<1> DEFINE lost == {h \in Readers : reader[h].step # "idle" /\ reader'[h].step = "idle"}
           ls == [h \in Readers |-> IF h \in lost THEN [hload[h] EXCEPT !.step = "rejected"] ELSE hload[h]]
<1>1. memo' = Without(lost) /\ hload' = Rest(ls, reader') /\ balanceMemo' = balanceMemo
  BY DEF LedgerReply
<1>2. AllKept
  <2>1. \/ LoadReads \/ LoadEnds \/ LoadFails
        \/ \E h \in Readers : GateOpens(h) \/ GateFails(h)
        \/ \E a \in Arrays, answers, ok \in BOOLEAN : ProbeEnds(a, answers, ok)
    BY DEF LedgerReply
  <2> QED
    BY <2>1, LoadReadsKeeps, LoadEndsKeeps, LoadFailsKeeps, GateKeeps, ProbeEndsKeeps
<1>3. /\ memo' \in [Scopes -> Entry \cup {None}]
      /\ \A s \in Scopes : memo'[s] \in {None, memo[s]}
  <2>1. lost \in SUBSET Readers
    OBVIOUS
  <2> HIDE DEF lost
  <2> QED
    BY <1>1, <2>1, WithoutKeeps DEF MemoInv
<1>4. /\ ls \in [Readers -> LoadRec]
      /\ \A g \in Readers : ls[g].step \in {"idle", "wallets"} => reader'[g].step = "idle"
  <2>1. ASSUME NEW g \in Readers
        PROVE  ls[g] \in LoadRec /\ (ls[g].step \in {"idle", "wallets"} => reader'[g].step = "idle")
    <3>1. hload[g] \in LoadShape /\ Fit(hload[g])
      BY DEF MemoInv, MemoTypes, LoadRec
    <3>2. CASE g \in lost
      <4>1. ls[g] = [hload[g] EXCEPT !.step = "rejected"]
        BY <3>2
      <4>2. hload[g].step # "idle" /\ reader'[g].step = "idle"
        BY <3>2 DEF MemoInv, NotReading
      <4> QED
        BY <3>1, <4>1, <4>2 DEF LoadRec, LoadShape, Fit
    <3>3. CASE g \notin lost
      <4>1. ls[g] = hload[g]
        BY <3>3
      <4>2. reader[g].step = "idle" => reader'[g].step = "idle"
        BY <1>2 DEF AllKept, StaysIdle
      <4> QED
        BY <3>1, <4>1, <4>2 DEF LoadRec, MemoInv, NotReading
    <3> QED
      BY <3>2, <3>3
  <2>2. ls = [g \in Readers |-> ls[g]]
    OBVIOUS
  <2> HIDE DEF ls
  <2> QED
    BY <2>1, <2>2
<1>5. hload' \in [Readers -> LoadRec] /\ NotReading'
  <2> HIDE DEF ls
  <2> QED
    BY <1>1, <1>4, RestKeeps DEF NotReading
<1>6. MemoTypes'
  BY <1>1, <1>3, <1>5 DEF MemoInv, MemoTypes
<1> QED
  BY <1>2, <1>3, <1>5, <1>6, MemoKept DEF AllKept, CacheKept

\* A fold that nobody waits for ends.
LEMMA LeftoverPreserves ==
  ASSUME CacheInv, MemoInv, NEW h \in Readers, Leftover(h)
  PROVE  CacheInv' /\ MemoInv'
<1>1. /\ Return(h) /\ reader[h].step # "idle" /\ hload' = Rest(hload, reader')
      /\ memo' = memo /\ balanceMemo' = balanceMemo
  BY DEF Leftover
<1>2. AllKept
  BY <1>1, ReturnKeeps
<1>3. /\ hload \in [Readers -> LoadRec]
      /\ \A g \in Readers : hload[g].step \in {"idle", "wallets"} => reader'[g].step = "idle"
  BY <1>2 DEF MemoInv, MemoTypes, NotReading, AllKept, StaysIdle
<1>4. hload' \in [Readers -> LoadRec] /\ NotReading'
  BY <1>1, <1>3, RestKeeps DEF NotReading
<1>5. MemoTypes' /\ \A s \in Scopes : memo'[s] = memo[s]
  BY <1>1, <1>4 DEF MemoInv, MemoTypes
<1> QED
  BY <1>2, <1>4, <1>5, MemoKept DEF AllKept, CacheKept

\* The load answers from the rows it listed, which were recent when its entry was made.
LEMMA AnswersPreserves ==
  ASSUME CacheInv, MemoInv, NEW h \in Readers, Answers(h)
  PROVE  CacheInv' /\ MemoInv'
<1>1. /\ hload[h].step = "reads" /\ reader[h].step = "done" /\ Return(h)
      /\ hload' = [hload EXCEPT ![h] = NoLoad] /\ balanceMemo' = balanceMemo
  BY DEF Answers
<1>2. AllKept /\ reader'[h] = NoReader
  BY <1>1, ReturnKeeps
<1>3. /\ hload' \in [Readers -> LoadRec] /\ hload'[h] = NoLoad
      /\ \A g \in Readers \ {h} : hload'[g] = hload[g]
  BY <1>1, NoLoadIdle, LoadPut DEF MemoInv
<1>4. NotReading'
  BY <1>2, <1>3, Empties DEF MemoInv, NotReading, AllKept, StaysIdle
<1>5. memo \in [Scopes -> Entry \cup {None}]
  BY DEF MemoInv, MemoTypes
<1>6. CASE memo' = memo
  <2>1. MemoTypes'
    BY <1>1, <1>3, <1>6 DEF MemoInv, MemoTypes
  <2> QED
    BY <1>2, <1>4, <1>6, <2>1, MemoKept DEF AllKept, CacheKept
<1>7. CASE ~(memo' = memo)
  <2>1. hload[h].scope \in Scopes
    BY <1>1 DEF MemoInv, MemoTypes, LoadRec, Fit
  <2>2. PICK s \in Scopes : s = hload[h].scope
    BY <2>1
  <2>3. /\ memo[s] # None /\ memo[s].by = h
        /\ memo' = [memo EXCEPT ![s] = [@ EXCEPT !.by = None, !.from = array[reader[h].array].version]]
    BY <1>7, <2>2 DEF Answers
  <2>4. reader[h].array \in Arrays
    BY <1>1 DEF CacheInv, ReadsSound, Sound, Unlisting
  <2>5. PICK v \in Version : v = array[reader[h].array].version
    BY <2>4 DEF CacheInv, CacheTypes, RowsArray
  <2>6. memo[s] \in Entry
    BY <1>5, <2>3
  <2> DEFINE e == [memo[s] EXCEPT !.by = None, !.from = v]
  <2>7. e \in Entry /\ e.by = None /\ e.from = v /\ e.age = memo[s].age
    BY <2>6 DEF Entry, Version
  <2>8. memo' = [memo EXCEPT ![s] = e]
    BY <2>3, <2>5
  <2>9. Unexpired(e) => old[v] < Ttl + MaxLoad + e.age
    <3>1. Unexpired(e) => Unexpired(memo[s])
      BY <2>3, <2>7 DEF Unexpired
    <3>2. Unexpired(memo[s]) => old[array[reader[h].array].version] < Ttl + MaxLoad + memo[s].age
      BY <2>3, <2>4, Times DEF MemoInv, ListedRecent
    <3> QED
      BY <2>5, <2>7, <3>1, <3>2
  <2> HIDE DEF e
  <2>10. /\ memo' \in [Scopes -> Entry \cup {None}] /\ memo'[s] = e
         /\ \A t \in Scopes \ {s} : memo'[t] = memo[t]
    BY <1>5, <2>7, <2>8
  <2>11. MemoTypes'
    BY <1>1, <1>3, <2>10 DEF MemoInv, MemoTypes
  <2>12. old' = old /\ ReadersKept /\ CacheInv'
    BY <1>2 DEF AllKept, CacheKept
  <2>13. AnswersRecent'
    BY <2>7, <2>9, <2>10, <2>12 DEF MemoInv, AnswersRecent, Unexpired
  <2>14. ListedRecent'
    <3> SUFFICES ASSUME NEW t \in Scopes, Unexpired(memo'[t]), memo'[t].by # None,
                        reader'[memo'[t].by].array # None
                 PROVE  old[array'[reader'[memo'[t].by].array].version] < Ttl + MaxLoad + memo'[t].age
      BY <2>12 DEF ListedRecent
    <3>1. t # s /\ memo'[t] = memo[t] /\ memo[t] \in Entry
      BY <1>5, <2>7, <2>10 DEF Unexpired
    <3> QED
      BY <2>12, <3>1, KeptListed DEF CacheInv
  <2> QED
    BY <1>4, <2>11, <2>12, <2>13, <2>14 DEF MemoInv
<1> QED
  BY <1>6, <1>7

\* Entries age by one, and expire.
LEMMA OlderEntry ==
  ASSUME NEW K, NEW table \in [K -> Entry \cup {None}], NEW k \in K
  PROVE  /\ Older(table)[k] \in Entry \cup {None}
         /\ Older(table)[k] = None <=> table[k] = None
         /\ table[k] # None =>
              /\ table[k] \in Entry /\ Older(table)[k].by = table[k].by /\ Older(table)[k].from = table[k].from
              /\ Unexpired(Older(table)[k]) => Unexpired(table[k]) /\ Older(table)[k].age = table[k].age + 1
<1>1. CASE table[k] = None
  BY <1>1 DEF Older
<1>2. CASE table[k] # None
  <2>1. table[k] \in Entry /\ table[k].age \in Nat
    BY <1>2 DEF Entry
  <2>2. PICK n \in Nat : n = Upto(table[k].age, HoldingsTtl) /\ (n < HoldingsTtl => n = table[k].age + 1)
    BY <2>1, Times, UptoBound
  <2>3. Older(table)[k] = [table[k] EXCEPT !.age = n]
    BY <1>2, <2>2 DEF Older
  <2> DEFINE e == [table[k] EXCEPT !.age = n]
  <2>4. e \in Entry /\ e.by = table[k].by /\ e.from = table[k].from /\ e.age = n
    BY <2>1 DEF Entry
  <2> HIDE DEF e
  <2>5. e # None
    BY <2>4, EntryAssumption
  <2>6. Unexpired(e) => Unexpired(table[k]) /\ e.age = table[k].age + 1
    BY <1>2, <2>1, <2>2, <2>4, Times DEF Unexpired
  <2> QED
    BY <1>2, <2>1, <2>3, <2>4, <2>5, <2>6 DEF e
<1> QED
  BY <1>1, <1>2

LEMMA OlderBalance ==
  ASSUME NEW K, NEW table \in [K -> BalanceEntry \cup {None}], NEW k \in K
  PROVE  /\ Older(table)[k] \in BalanceEntry \cup {None}
         /\ Older(table)[k] = None <=> table[k] = None
<1>1. CASE table[k] = None
  BY <1>1 DEF Older
<1>2. CASE table[k] # None
  <2>1. table[k] \in BalanceEntry /\ table[k].age \in Nat
    BY <1>2 DEF BalanceEntry
  <2>2. PICK n \in Nat : n = Upto(table[k].age, HoldingsTtl)
    BY <2>1, Times, UptoBound
  <2>3. Older(table)[k] = [table[k] EXCEPT !.age = n]
    BY <1>2, <2>2 DEF Older
  <2>4. [table[k] EXCEPT !.age = n] \in BalanceEntry
    BY <2>1 DEF BalanceEntry
  <2> QED
    BY <1>2, <2>3, <2>4, EntryAssumption
<1> QED
  BY <1>1, <1>2

LEMMA TickPreserves ==
  ASSUME CacheInv, MemoInv, Tick
  PROVE  CacheInv' /\ MemoInv'
<1>1. CacheTick /\ memo' = Older(memo) /\ balanceMemo' = Older(balanceMemo) /\ hload' = hload
  BY DEF Tick
<1>2. /\ CacheInv' /\ reader' = reader /\ array' = array
      /\ \A v \in Version : old'[v] <= old[v] + 1
  BY <1>1, CacheTickKeeps
<1>3. /\ memo \in [Scopes -> Entry \cup {None}]
      /\ balanceMemo \in [ToSet(Wallets) -> BalanceEntry \cup {None}]
  BY DEF MemoInv, MemoTypes
<1>4. \A s \in Scopes :
         /\ memo'[s] \in Entry \cup {None}
         /\ memo'[s] = None <=> memo[s] = None
         /\ memo[s] # None =>
              /\ memo[s] \in Entry /\ memo'[s].by = memo[s].by /\ memo'[s].from = memo[s].from
              /\ Unexpired(memo'[s]) => Unexpired(memo[s]) /\ memo'[s].age = memo[s].age + 1
  BY <1>1, <1>3, OlderEntry
<1>5. /\ memo' \in [Scopes -> Entry \cup {None}]
      /\ balanceMemo' \in [ToSet(Wallets) -> BalanceEntry \cup {None}]
  <2>1. memo' = [s \in Scopes |-> memo'[s]]
    BY <1>1, <1>3 DEF Older
  <2>2. balanceMemo' = [w \in ToSet(Wallets) |-> balanceMemo'[w]]
    BY <1>1, <1>3 DEF Older
  <2>3. \A w \in ToSet(Wallets) : balanceMemo'[w] \in BalanceEntry \cup {None}
    BY <1>1, <1>3, OlderBalance
  <2> QED
    BY <1>4, <2>1, <2>2, <2>3
<1>6. MemoTypes' /\ NotReading'
  BY <1>1, <1>2, <1>5 DEF MemoInv, MemoTypes, NotReading
<1>7. old \in [Version -> Nat] /\ old' \in [Version -> Nat]
  BY <1>2 DEF CacheInv, CacheTypes
<1>8. AnswersRecent'
  <2> SUFFICES ASSUME NEW s \in Scopes, Unexpired(memo'[s]), memo'[s].by = None
               PROVE  memo'[s].from \in Version /\ old'[memo'[s].from] < Ttl + MaxLoad + memo'[s].age
    BY DEF AnswersRecent
  <2>1. /\ memo[s] # None /\ memo[s].by = None /\ memo'[s].from = memo[s].from /\ memo[s].age \in Nat
        /\ Unexpired(memo[s]) /\ memo'[s].age = memo[s].age + 1
    BY <1>4 DEF Unexpired, Entry
  <2>2. PICK v \in Version : v = memo[s].from /\ old[v] < Ttl + MaxLoad + memo[s].age
    BY <2>1 DEF MemoInv, AnswersRecent
  <2>3. old'[v] <= old[v] + 1 /\ old[v] \in Nat /\ old'[v] \in Nat
    BY <1>2, <1>7
  <2> QED
    BY <2>1, <2>2, <2>3, Times
<1>9. ListedRecent'
  <2> SUFFICES ASSUME NEW s \in Scopes, Unexpired(memo'[s]), memo'[s].by # None,
                      reader[memo'[s].by].array # None
               PROVE  old'[array[reader[memo'[s].by].array].version] < Ttl + MaxLoad + memo'[s].age
    BY <1>2 DEF ListedRecent
  <2>1. /\ memo[s] # None /\ memo'[s].by = memo[s].by /\ memo[s].age \in Nat /\ memo[s].by \in Readers \cup {None}
        /\ Unexpired(memo[s]) /\ memo'[s].age = memo[s].age + 1
    BY <1>4 DEF Unexpired, Entry
  <2>2. reader[memo[s].by].array \in Arrays
    BY <2>1 DEF CacheInv, CacheTypes, Reading
  <2>3. PICK v \in Version : v = array[reader[memo[s].by].array].version
    BY <2>2 DEF CacheInv, CacheTypes, RowsArray
  <2>4. old[v] < Ttl + MaxLoad + memo[s].age
    BY <2>1, <2>3 DEF MemoInv, ListedRecent
  <2>5. old'[v] <= old[v] + 1 /\ old[v] \in Nat /\ old'[v] \in Nat
    BY <1>2, <1>7
  <2> QED
    BY <2>1, <2>3, <2>4, <2>5, Times
<1> QED
  BY <1>2, <1>6, <1>8, <1>9 DEF MemoInv

-----------------------------------------------------------------------------
(* What is served.                                                          *)

LEMMA Initially == ASSUME PortfolioInit PROVE CacheInv /\ MemoInv
<1>1. /\ CacheInit /\ memo = [s \in Scopes |-> None]
      /\ balanceMemo = [w \in ToSet(Wallets) |-> None] /\ hload = [h \in Readers |-> NoLoad]
  BY DEF PortfolioInit
<1>2. CacheInv
  BY <1>1, CacheInitially
<1>3. MemoTypes
  BY <1>1, NoLoadIdle DEF MemoTypes
<1>4. NotReading
  BY <1>1, Empties DEF NotReading, CacheInit
<1>5. AnswersRecent /\ ListedRecent
  BY <1>1 DEF AnswersRecent, ListedRecent, Unexpired
<1> QED
  BY <1>2, <1>3, <1>4, <1>5 DEF MemoInv

LEMMA StepPreserves ==
  ASSUME CacheInv, MemoInv, [Next]_<<cacheVars, portfolioVars>>
  PROVE  CacheInv' /\ MemoInv'
<1>1. ASSUME NEW h \in Readers, Goes(h)
      PROVE  CacheInv' /\ MemoInv'
  BY <1>1, ReadPreserves, RowsReadPreserves, NextWalletPreserves, LeftoverPreserves DEF Goes
<1>2. CASE Replies
  BY <1>2, LedgerReplyPreserves, CallPreserves, WalletsReadPreserves, NotFoundPreserves, AnswersPreserves,
     BalancesReadPreserves DEF Replies
<1>3. CASE Write \/ Tick
  BY <1>3, WritePreserves, TickPreserves
<1>4. CASE UNCHANGED <<cacheVars, portfolioVars>>
  <2>1. AllKept /\ reader' = reader
    BY <1>4, CacheStands
  <2>2. UNCHANGED <<memo, balanceMemo, hload>>
    BY <1>4 DEF portfolioVars
  <2>3. MemoTypes' /\ NotReading'
    BY <2>1, <2>2 DEF MemoInv, MemoTypes, NotReading
  <2> QED
    BY <2>1, <2>2, <2>3, MemoKept DEF AllKept, CacheKept
<1> QED
  BY <1>1, <1>2, <1>3, <1>4 DEF Next

\* The inductive invariant of the ledger read side and of the memos on it.
THEOREM PortfolioInductive == Spec => [](CacheInv /\ MemoInv)
<1>1. PortfolioInit => CacheInv /\ MemoInv
  BY Initially
<1>2. CacheInv /\ MemoInv /\ [Next]_<<cacheVars, portfolioVars>> => (CacheInv /\ MemoInv)'
  BY StepPreserves
<1> QED
  BY <1>1, <1>2, PTL DEF Spec

\* What is served lags behind the ledger for a bounded time: a snapshot that listForUser()
\* hands out for less than its TTL and one load, although a load under way is not dropped
\* by a write (invalidate()) and a write that throws invalidates nothing; holdings that
\* holdings() hands out for less than the TTL of the holdings memo more.
THEOREM ServedInTime == Spec => []ServedIsRecent
<1>1. CacheInv /\ MemoInv => ServedIsRecent
  <2> SUFFICES ASSUME CacheInv, MemoInv PROVE ServedIsRecent
    OBVIOUS
  <2>1. SnapshotIsRecent
    <3> SUFFICES ASSUME Hit PROVE old[array[snapshot.array].version] < Ttl + MaxLoad
      BY DEF SnapshotIsRecent
    <3>1. snapshot.array \in Arrays /\ snapshot.age \in Nat /\ snapshot.age < Ttl
      BY DEF Hit, CacheInv, CacheTypes
    <3>2. PICK v \in Version : v = array[snapshot.array].version
      BY <3>1 DEF CacheInv, CacheTypes, RowsArray
    <3>3. old[v] \in Nat /\ old[v] <= snapshot.age + MaxLoad
      BY <3>2 DEF Hit, CacheInv, CacheTypes, SnapshotAge
    <3> QED
      BY <3>1, <3>2, <3>3, Times
  <2>2. ASSUME NEW s \in Scopes, Unexpired(memo[s]), memo[s].by = None
        PROVE  old[memo[s].from] < Ttl + MaxLoad + HoldingsTtl
    <3>1. memo[s].age \in Nat /\ memo[s].age < HoldingsTtl
      BY <2>2 DEF MemoInv, MemoTypes, Entry, Unexpired
    <3>2. PICK v \in Version : v = memo[s].from /\ old[v] < Ttl + MaxLoad + memo[s].age
      BY <2>2 DEF MemoInv, AnswersRecent
    <3>3. old[v] \in Nat
      BY DEF CacheInv, CacheTypes
    <3> QED
      BY <3>1, <3>2, <3>3, Times
  <2> QED
    BY <2>1, <2>2 DEF ServedIsRecent
<1> QED
  BY <1>1, PortfolioInductive, PTL

\* A read gets a fold made with prices exactly if its own price probe answered: the memo of
\* CostBasisSnapshotService is keyed by the price map, so a fold made while the price cache
\* was down stays with the reads that had no prices.
THEOREM FoldsHonourProbes == Spec => []FoldsAsProbed
<1>1. CacheInv => FoldsAsProbed
  BY DEF CacheInv, ReadsSound, Sound, FoldsAsProbed
<1> QED
  BY <1>1, PortfolioInductive, PTL

-----------------------------------------------------------------------------
(* Who takes an entry out of a memo.                                        *)

MemoLeft ==
  \A s \in Scopes : Leaves(memo, s) =>
    memo[s].by # None /\ hload[memo[s].by].scope = s
    /\ hload'[memo[s].by].step \in {"idle", "rejected"}
BalancesLeft ==
  \A w \in ToSet(Wallets) : Leaves(balanceMemo, w) =>
    balanceMemo[w].by # None /\ hload[balanceMemo[w].by].waits = balanceMemo[w].by
    /\ hload'[balanceMemo[w].by].waits = None

\* Nothing leaves a table that is unchanged, or swept, or older.
LEMMA MemoStays ==
  ASSUME MemoTypes, memo' = memo \/ memo' = Older(memo)
  PROVE  MemoLeft
<1>1. \A s \in Scopes : memo'[s] = None => memo[s] = None
  BY OlderEntry DEF MemoTypes
<1> QED
  BY <1>1 DEF MemoLeft, Leaves, Unexpired

LEMMA BalancesStay ==
  ASSUME MemoTypes, balanceMemo' = balanceMemo \/ balanceMemo' = Older(balanceMemo)
  PROVE  BalancesLeft
<1>1. \A w \in ToSet(Wallets) : balanceMemo'[w] = None => balanceMemo[w] = None
  BY OlderBalance DEF MemoTypes
<1> QED
  BY <1>1 DEF BalancesLeft, Leaves, Unexpired

\* An entry is put into a table that was swept.
LEMMA SweptPut ==
  ASSUME NEW K, NEW E, NEW table \in [K -> E \cup {None}], None \notin E, NEW k \in K, NEW e \in E, NEW j \in K,
         Unexpired(table[j])
  PROVE  [Sweep(table) EXCEPT ![k] = e][j] # None
<1>1. Sweep(table) \in [K -> E \cup {None}] /\ Sweep(table)[j] = table[j]
  BY SweepKeeps
<1>2. table[j] # None
  BY DEF Unexpired
<1> QED
  BY <1>1, <1>2

LEMMA RestIs ==
  ASSUME NEW ls, NEW rds, NEW h \in Readers
  PROVE  Rest(ls, rds)[h] = ls[h] \/ Rest(ls, rds)[h] = NoLoad
  BY DEF Rest

LEMMA CallLeaves ==
  ASSUME MemoTypes, NEW s \in Scopes, Call(s)
  PROVE  MemoLeft /\ BalancesLeft
<1>1. PICK h \in Readers : memo' = [Sweep(memo) EXCEPT ![s] = [by |-> h, age |-> 0, from |-> None]]
  BY DEF Call
<1>2. PICK e \in Entry : memo' = [Sweep(memo) EXCEPT ![s] = e]
  <2> DEFINE e == [by |-> h, age |-> 0, from |-> None]
  <2>1. e \in Entry
    BY DEF Entry
  <2>2. memo' = [Sweep(memo) EXCEPT ![s] = e]
    BY <1>1
  <2> HIDE DEF e
  <2> QED
    BY <2>1, <2>2
<1>3. \A t \in Scopes : Unexpired(memo[t]) => memo'[t] # None
  BY <1>2, SweptPut, EntryAssumption DEF MemoTypes
<1>4. balanceMemo' = balanceMemo
  BY DEF Call
<1> QED
  BY <1>3, <1>4, BalancesStay DEF MemoLeft, Leaves

LEMMA NotFoundLeaves ==
  ASSUME MemoTypes, NEW h \in Readers, NotFound(h)
  PROVE  MemoLeft /\ BalancesLeft
<1>1. /\ memo' = Evict(memo, {<<hload[h].scope, h>>})
      /\ hload' = [hload EXCEPT ![h] = NoLoad] /\ balanceMemo' = balanceMemo
  BY DEF NotFound
<1>2. hload'[h].step = "idle"
  BY <1>1, NoLoadIdle, LoadPut
<1>3. \A s \in Scopes : memo[s] # None /\ memo'[s] = None => memo[s].by = h /\ hload[h].scope = s
  BY <1>1 DEF Evict, MemoTypes
<1>4. MemoLeft
  BY <1>2, <1>3, Times DEF MemoLeft, Leaves, Unexpired
<1> QED
  BY <1>1, <1>4, BalancesStay

LEMMA RowsReadLeaves ==
  ASSUME MemoTypes, NEW h \in Readers, NEW ok \in BOOLEAN, RowsRead(h, ok)
  PROVE  MemoLeft /\ BalancesLeft
<1>1. balanceMemo' = balanceMemo
  BY DEF RowsRead
<1>2. CASE memo' = memo
  BY <1>1, <1>2, MemoStays, BalancesStay
<1>3. CASE memo' # memo
  <2>1. /\ memo' = Without({h})
        /\ hload' = [hload EXCEPT ![h] = [@ EXCEPT !.step = "rejected", !.todo = Asked(hload[h].scope)]]
    BY <1>3 DEF RowsRead
  <2>2. hload'[h].step = "rejected"
    BY <2>1 DEF MemoTypes, LoadRec, LoadShape
  <2>3. \A s \in Scopes : memo[s] # None /\ memo'[s] = None => memo[s].by = h /\ hload[h].scope = s
    <3>1. memo' = Without({h})
      BY <2>1
    <3>2. PICK hs \in SUBSET Readers : hs = {h} /\ memo' = Without(hs)
      BY <3>1
    <3>3. \A s \in Scopes : memo[s] # None /\ memo'[s] = None =>
            memo[s].by \in Rejecting(hs) /\ hload[memo[s].by].scope = s
      BY <3>2, WithoutKeeps
    <3> QED
      BY <3>2, <3>3 DEF Rejecting
  <2> QED
    BY <1>1, <2>2, <2>3, Times, BalancesStay DEF MemoLeft, Leaves, Unexpired
<1> QED
  BY <1>2, <1>3

LEMMA NextWalletLeaves ==
  ASSUME MemoTypes, NEW h \in Readers, NextWallet(h)
  PROVE  MemoLeft /\ BalancesLeft
<1>1. memo' = memo
  BY DEF NextWallet
<1>2. CASE balanceMemo' = balanceMemo
  BY <1>1, <1>2, MemoStays, BalancesStay
<1>3. CASE balanceMemo' # balanceMemo
  <2>1. /\ hload[h].todo # <<>>
        /\ balanceMemo' = [Sweep(balanceMemo) EXCEPT ![Head(hload[h].todo)] = [by |-> h, age |-> 0]]
    BY <1>3 DEF NextWallet
  <2>2. hload[h].todo \in Seq(ToSet(Wallets))
    BY DEF MemoTypes, LoadRec, LoadShape
  <2>3. PICK w \in ToSet(Wallets) : w = Head(hload[h].todo)
    BY <2>1, <2>2
  <2>4. PICK e \in BalanceEntry : balanceMemo' = [Sweep(balanceMemo) EXCEPT ![w] = e]
    <3> DEFINE e == [by |-> h, age |-> 0]
    <3>1. e \in BalanceEntry
      BY DEF BalanceEntry
    <3>2. balanceMemo' = [Sweep(balanceMemo) EXCEPT ![w] = e]
      BY <2>1, <2>3
    <3> HIDE DEF e
    <3> QED
      BY <3>1, <3>2
  <2>5. \A v \in ToSet(Wallets) : Unexpired(balanceMemo[v]) => balanceMemo'[v] # None
    BY <2>4, SweptPut, EntryAssumption DEF MemoTypes
  <2> QED
    BY <1>1, <2>5, MemoStays DEF BalancesLeft, Leaves
<1> QED
  BY <1>2, <1>3

LEMMA LedgerReplyLeaves ==
  ASSUME MemoTypes, LedgerReply
  PROVE  MemoLeft /\ BalancesLeft
<1> DEFINE lost == {h \in Readers : reader[h].step # "idle" /\ reader'[h].step = "idle"}
           ls == [h \in Readers |-> IF h \in lost THEN [hload[h] EXCEPT !.step = "rejected"] ELSE hload[h]]
<1>1. memo' = Without(lost) /\ hload' = Rest(ls, reader') /\ balanceMemo' = balanceMemo
  BY DEF LedgerReply
<1>2. \A h \in lost : h \in Readers /\ ls[h].step = "rejected"
  BY DEF MemoTypes, LoadRec, LoadShape
<1>3. lost \in SUBSET Readers
  OBVIOUS
<1> HIDE DEF lost, ls
<1>4. \A h \in lost : hload'[h].step \in {"idle", "rejected"}
  BY <1>1, <1>2, NoLoadIdle, RestIs
<1>5. \A s \in Scopes : memo[s] # None /\ memo'[s] = None => memo[s].by \in lost /\ hload[memo[s].by].scope = s
  BY <1>1, <1>3, WithoutKeeps DEF Rejecting
<1>6. MemoLeft
  BY <1>3, <1>4, <1>5, Times DEF MemoLeft, Leaves, Unexpired
<1> QED
  BY <1>1, <1>6, BalancesStay

LEMMA AnswersLeaves ==
  ASSUME CacheInv, MemoInv, NEW h \in Readers, Answers(h)
  PROVE  MemoLeft /\ BalancesLeft
<1>1. balanceMemo' = balanceMemo /\ memo \in [Scopes -> Entry \cup {None}] /\ MemoTypes
  BY DEF Answers, MemoInv, MemoTypes
<1>2. CASE memo' = memo
  BY <1>1, <1>2, MemoStays, BalancesStay
<1>3. CASE memo' # memo
  <2>1. PICK s : /\ memo[s] # None
                 /\ memo' = [memo EXCEPT ![s] = [@ EXCEPT !.by = None, !.from = array[reader[h].array].version]]
                 /\ s = hload[h].scope
    BY <1>3 DEF Answers
  <2>2. s \in Scopes /\ memo[s] \in Entry
    BY <1>1, <2>1 DEF Answers, MemoInv, MemoTypes, LoadRec, Fit
  <2>3. reader[h].array \in Arrays
    BY DEF Answers, CacheInv, ReadsSound, Sound, Unlisting
  <2>4. PICK v \in Version : v = array[reader[h].array].version
    BY <2>3 DEF CacheInv, CacheTypes, RowsArray
  <2> DEFINE e == [memo[s] EXCEPT !.by = None, !.from = v]
  <2>5. e \in Entry
    BY <2>2 DEF Entry, Version
  <2>6. memo' = [memo EXCEPT ![s] = e]
    BY <2>1, <2>4
  <2> HIDE DEF e
  <2>7. \A t \in Scopes : memo'[t] = None => memo[t] = None
    BY <1>1, <2>2, <2>5, <2>6, EntryAssumption
  <2> QED
    BY <1>1, <2>7, BalancesStay DEF MemoLeft, Leaves, Unexpired
<1> QED
  BY <1>2, <1>3

LEMMA BalancesReadLeaves ==
  ASSUME MemoTypes, NEW h \in Readers, NEW ok \in BOOLEAN, BalancesRead(h, ok)
  PROVE  MemoLeft /\ BalancesLeft
<1> DEFINE w == Head(hload[h].todo)
           waiting == {g \in Readers : hload[g].waits = h}
           todo(g) == IF ok THEN Tail(hload[g].todo) ELSE <<>>
           st(g) == IF ok \/ g \notin Rejecting(waiting) THEN hload[g].step ELSE "rejected"
           after(g) == [hload[g] EXCEPT !.waits = None, !.todo = todo(g), !.step = st(g)]
           ls == [g \in Readers |-> IF g \in waiting THEN after(g) ELSE hload[g]]
<1>1. /\ hload[h].waits = h /\ hload' = Rest(ls, reader)
      /\ memo' = IF ok THEN memo ELSE Without(waiting)
      /\ balanceMemo' = IF ~ok THEN Evict(balanceMemo, {<<w, h>>})
                        ELSE IF balanceMemo[w] # None /\ balanceMemo[w].by = h
                             THEN [balanceMemo EXCEPT ![w].by = None] ELSE balanceMemo
  BY DEF BalancesRead
<1>2. \A g \in waiting : /\ g \in Readers /\ ls[g].waits = None
                         /\ ~ok /\ g \in Rejecting(waiting) => ls[g].step = "rejected"
  <2> SUFFICES ASSUME NEW g \in waiting
               PROVE  /\ ls[g].waits = None
                      /\ ~ok /\ g \in Rejecting(waiting) => ls[g].step = "rejected"
    OBVIOUS
  <2>1. hload[g] \in LoadRec /\ hload[g].waits # None
    BY Times DEF MemoTypes
  <2>2. hload[g].todo \in Seq(ToSet(Wallets)) /\ hload[g].todo # <<>>
    BY <2>1 DEF LoadRec, LoadShape, Fit
  <2>3. todo(g) \in Seq(ToSet(Wallets)) /\ st(g) \in {hload[g].step, "rejected"}
    BY <2>2
  <2>4. ls[g] = after(g) /\ (~ok /\ g \in Rejecting(waiting) => st(g) = "rejected")
    OBVIOUS
  <2> HIDE DEF todo, st, ls
  <2>5. after(g).waits = None /\ after(g).step = st(g)
    BY <2>1, <2>3, AfterFit
  <2> HIDE DEF after
  <2> QED
    BY <2>4, <2>5
<1>3. waiting \in SUBSET Readers /\ h \in waiting
  BY <1>1
<1> HIDE DEF waiting, ls
<1>4. \A g \in waiting : /\ hload'[g].waits = None
                         /\ ~ok /\ g \in Rejecting(waiting) => hload'[g].step \in {"idle", "rejected"}
  BY <1>1, <1>2, NoLoadIdle, RestIs
<1>5. MemoLeft
  <2>1. CASE ok
    BY <1>1, <2>1, MemoStays
  <2>2. CASE ~ok
    <3>1. memo' = Without(waiting)
      BY <1>1, <2>2
    <3>2. \A s \in Scopes : memo[s] # None /\ memo'[s] = None =>
            memo[s].by \in Rejecting(waiting) /\ hload[memo[s].by].scope = s
      BY <1>3, <3>1, WithoutKeeps
    <3>3. \A g \in Rejecting(waiting) : g \in waiting /\ g # None
      BY <1>3, Times DEF Rejecting
    <3> QED
      BY <1>4, <2>2, <3>2, <3>3 DEF MemoLeft, Leaves, Unexpired
  <2> QED
    BY <2>1, <2>2
<1>6. BalancesLeft
  <2>1. balanceMemo \in [ToSet(Wallets) -> BalanceEntry \cup {None}]
    BY DEF MemoTypes
  <2>2. CASE ~ok
    <3>1. balanceMemo' = Evict(balanceMemo, {<<w, h>>})
      BY <1>1, <2>2
    <3>2. \A v \in ToSet(Wallets) : balanceMemo[v] # None /\ balanceMemo'[v] = None => balanceMemo[v].by = h
      BY <2>1, <3>1 DEF Evict
    <3> QED
      BY <1>1, <1>3, <1>4, <3>2, Times DEF BalancesLeft, Leaves, Unexpired
  <2>3. CASE ok /\ balanceMemo[w] # None /\ balanceMemo[w].by = h
    <3>1. hload[h].todo \in Seq(ToSet(Wallets)) /\ hload[h].todo # <<>>
      BY <1>1, Times DEF MemoTypes, LoadRec, LoadShape, Fit
    <3>2. w \in ToSet(Wallets)
      BY <3>1
    <3> DEFINE e == [balanceMemo[w] EXCEPT !.by = None]
    <3>3. e \in BalanceEntry
      BY <2>1, <2>3, <3>2 DEF BalanceEntry
    <3>4. balanceMemo' = [balanceMemo EXCEPT ![w] = e]
      BY <1>1, <2>3
    <3> HIDE DEF e, w
    <3>5. \A v \in ToSet(Wallets) : balanceMemo'[v] = None => balanceMemo[v] = None
      BY <2>1, <3>2, <3>3, <3>4, EntryAssumption
    <3> QED
      BY <3>5 DEF BalancesLeft, Leaves, Unexpired
  <2>4. CASE balanceMemo' = balanceMemo
    BY <2>4, BalancesStay
  <2> QED
    BY <1>1, <2>2, <2>3, <2>4
<1> QED
  BY <1>5, <1>6

\* An entry in time leaves its memo only because its own load, or its own balance read,
\* fails: the identity checks of holdings() and readBalances() (memo.get(key) === entry) keep
\* the late rejection of an older one from taking the newer entry away.
THEOREM EntriesStay == Spec => EntriesKept
<1>1. CacheInv /\ MemoInv /\ [Next]_<<cacheVars, portfolioVars>>
        => [MemoLeft /\ BalancesLeft]_<<cacheVars, portfolioVars>>
  <2> SUFFICES ASSUME CacheInv, MemoInv, MemoTypes, Next
               PROVE  MemoLeft /\ BalancesLeft
    BY DEF MemoInv
  <2>1. ASSUME UNCHANGED <<memo, balanceMemo>> \/ Tick PROVE MemoLeft /\ BalancesLeft
    BY <2>1, MemoStays, BalancesStay DEF Tick
  <2>2. ASSUME NEW h \in Readers, Goes(h) PROVE MemoLeft /\ BalancesLeft
    <3>1. CASE (List(h) \/ Gate(h)) /\ UNCHANGED portfolioVars
      BY <2>1, <3>1 DEF portfolioVars
    <3>2. CASE Leftover(h)
      BY <2>1, <3>2 DEF Leftover
    <3> QED
      BY <2>2, <3>1, <3>2, RowsReadLeaves, NextWalletLeaves DEF Goes
  <2>3. CASE Replies
    <3>1. ASSUME NEW h \in Readers, WalletsRead(h) PROVE MemoLeft /\ BalancesLeft
      BY <2>1, <3>1 DEF WalletsRead
    <3> QED
      BY <2>3, <3>1, LedgerReplyLeaves, CallLeaves, NotFoundLeaves, AnswersLeaves, BalancesReadLeaves DEF Replies
  <2>4. CASE Write
    BY <2>1, <2>4 DEF Write, portfolioVars
  <2> QED
    BY <2>1, <2>2, <2>3, <2>4 DEF Next
<1> QED
  BY <1>1, PortfolioInductive, PTL DEF Spec, EntriesKept, MemoLeft, BalancesLeft
=============================================================================
