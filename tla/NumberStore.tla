----------------------------- MODULE NumberStore -----------------------------
(***************************************************************************)
(* storage/NumberStore and storage/SnapshotManager: the map of numbers to  *)
(* timestamps, guarded by the shared mutex dataMutex, and the cached       *)
(* snapshot that printAll serves, guarded by snapshotMutex and validated   *)
(* by two atomic version counters.                                         *)
(*                                                                         *)
(* A step is a maximal piece of a method that touches shared state once.   *)
(* The locks of the code are scoped (std::unique_lock, std::shared_lock,   *)
(* std::lock_guard), so who holds one is read off pc: a thread holds a     *)
(* lock exactly while its control is inside the block.                     *)
(***************************************************************************)
EXTENDS Naturals, Sequences, FiniteSets

CONSTANTS
    Threads,      \* the client-handler threads that call the store
    Numbers,      \* the numbers the clients use
    Timestamps,   \* the readings of the system clock, in seconds
    Absent,       \* what numbers maps a number to that is not stored
    MaxMutations  \* bound of the model: mutations in one behaviour

ASSUME ConstantsAssumption ==
    /\ IsFiniteSet(Numbers)
    /\ Timestamps # {} /\ Timestamps \subseteq Nat
    /\ Absent \notin Nat
    /\ MaxMutations \in Nat

VARIABLES
    numbers,          \* the std::map, as a total function
    cachedSnapshot,   \* SnapshotManager's shared_ptr; NoSnapshot is nullptr
    dataVersion,      \* bumped by notifyDataChanged, after dataMutex is released
    snapshotVersion,  \* the dataVersion cachedSnapshot was stamped with
    pc,               \* where each thread is
    arg,              \* the number an insert or a remove works on
    seen,             \* the version counter a reader has loaded, and its value
    snapshot,         \* printAll's local shared_ptr
    ret,              \* what the last insert, remove, clear or size returned
    \* History variables: no action's guard reads them.
    history,          \* the states numbers has gone through, oldest first
    mine,             \* the index in history of the mutation a thread has to notify
    visible,          \* the newest state that a completed call has reflected
    floor             \* visible, when the printAll in progress began

dataVars    == <<numbers, history>>
cacheVars   == <<cachedSnapshot, dataVersion, snapshotVersion>>
localVars   == <<arg, seen, snapshot, ret, mine, floor>>
vars == <<dataVars, cacheVars, pc, localVars, visible>>

Map == [Numbers -> Timestamps \cup {Absent}]
EmptyMap == [n \in Numbers |-> Absent]
Stored(map) == {n \in Numbers : map[n] # Absent}

\* A snapshot is a map and, for the properties, its place in history.
NoSnapshot == [map |-> EmptyMap, taken |-> 0]
NotLoaded == [of |-> "data", value |-> 0]
Returned(code, value) == [code |-> code, value |-> value]

Newest == Len(history)
Later(i, j) == IF i < j THEN j ELSE i

ReadSection == {"check", "compare", "lock", "copy", "load", "store", "fetch"}
PC == {"idle", "emplace", "erase", "notify", "format"} \cup ReadSection

-----------------------------------------------------------------------------
(* The two mutexes. *)

Readers == {t \in Threads : pc[t] \in ReadSection}
Writers == {t \in Threads : pc[t] \in {"emplace", "erase"}}
SnapshotHolders == {t \in Threads : pc[t] \in {"copy", "load", "store"}}

NoUniqueLock == TRUE  \* mutant of UniqueLock: the writers take no lock
UniqueLock == Readers = {} /\ Writers = {}

SharedLock == Writers = {}

NoSnapshotLock == TRUE  \* mutant of SnapshotLock: the readers do not exclude each other
SnapshotLock == SnapshotHolders = {}

\* Bound: a mutation is begun only while this holds.
RoomToMutate == Newest <= MaxMutations

-----------------------------------------------------------------------------
Init ==
    /\ numbers = EmptyMap
    /\ cachedSnapshot = NoSnapshot
    /\ dataVersion = 0
    /\ snapshotVersion = 0
    /\ pc = [t \in Threads |-> "idle"]
    /\ arg = [t \in Threads |-> Absent]
    /\ seen = [t \in Threads |-> NotLoaded]
    /\ snapshot = [t \in Threads |-> NoSnapshot]
    /\ ret = [t \in Threads |-> Returned("none", 0)]
    /\ history = <<EmptyMap>>
    /\ mine = [t \in Threads |-> 0]
    /\ visible = 1
    /\ floor = [t \in Threads |-> 0]

Goto(t, label) == pc' = [pc EXCEPT ![t] = label]
Return(t, code, value) == ret' = [ret EXCEPT ![t] = Returned(code, value)]

-----------------------------------------------------------------------------
(* The writers: the block that holds dataMutex exclusively, then           *)
(* notifyDataChanged with no lock held.                                    *)

\* The mutation itself; the lock is released and the notification is due.
Mutate(t, map) ==
    /\ numbers' = map
    /\ history' = Append(history, map)
    /\ mine' = [mine EXCEPT ![t] = Newest + 1]
    /\ Goto(t, "notify")
    /\ UNCHANGED <<cacheVars, arg, seen, snapshot, floor, visible>>

\* A find that settles the call: the lock is released, nothing is notified.
Refuse(t, code) ==
    /\ Return(t, code, 0)
    /\ UNCHANGED <<dataVars, cacheVars, pc, arg, seen, snapshot, mine, floor, visible>>

\* A find that lets the call go on, under the lock.
Proceed(t, n, label) ==
    /\ RoomToMutate
    /\ Goto(t, label)
    /\ arg' = [arg EXCEPT ![t] = n]
    /\ UNCHANGED <<dataVars, cacheVars, seen, snapshot, ret, mine, floor, visible>>

InsertFind(t, n) ==
    /\ pc[t] = "idle"
    /\ UniqueLock
    /\ \/ numbers[n] # Absent /\ Refuse(t, "DUPLICATE_NUMBER")
       \/ numbers[n] = Absent /\ Proceed(t, n, "emplace")

InsertPut(t) ==
    /\ pc[t] = "emplace"
    /\ \E now \in Timestamps : Mutate(t, [numbers EXCEPT ![arg[t]] = now])
    /\ Return(t, "SUCCESS", 0)

RemoveFind(t, n) ==
    /\ pc[t] = "idle"
    /\ UniqueLock
    /\ \/ numbers[n] = Absent /\ Refuse(t, "NUMBER_NOT_FOUND")
       \/ numbers[n] # Absent /\ Proceed(t, n, "erase")

\* Mutant of RemoveErase: the iterator is read after the erase.
EraseThenRead(t) ==
    /\ pc[t] = "erase"
    /\ Mutate(t, [numbers EXCEPT ![arg[t]] = Absent])
    /\ Return(t, "SUCCESS", numbers'[arg[t]])

\* The value returned is outtimestamp.
RemoveErase(t) ==
    /\ pc[t] = "erase"
    /\ Mutate(t, [numbers EXCEPT ![arg[t]] = Absent])
    /\ Return(t, "SUCCESS", numbers[arg[t]])

Clear(t) ==
    /\ pc[t] = "idle"
    /\ UniqueLock
    /\ RoomToMutate
    /\ Mutate(t, EmptyMap)
    /\ Return(t, "SUCCESS", 0)

\* The last thing a mutating call does: the call is complete.
Completed(t) ==
    /\ visible' = Later(visible, mine[t])
    /\ mine' = [mine EXCEPT ![t] = 0]
    /\ arg' = [arg EXCEPT ![t] = Absent]
    /\ Goto(t, "idle")
    /\ UNCHANGED <<dataVars, cachedSnapshot, snapshotVersion, seen, snapshot, ret, floor>>

\* Mutant of NotifyDataChanged: a mutation that leaves the version alone.
SilentChange(t) ==
    /\ pc[t] = "notify"
    /\ UNCHANGED dataVersion
    /\ Completed(t)

NotifyDataChanged(t) ==
    /\ pc[t] = "notify"
    /\ dataVersion' = dataVersion + 1
    /\ Completed(t)

Size(t) ==
    /\ pc[t] = "idle"
    /\ SharedLock
    /\ Return(t, "SUCCESS", Cardinality(Stored(numbers)))
    /\ UNCHANGED <<dataVars, cacheVars, pc, arg, seen, snapshot, mine, floor, visible>>

-----------------------------------------------------------------------------
(* printAll: a shared lock on dataMutex around SnapshotManager::getSnapshot. *)

PrintAll(t) ==
    /\ pc[t] = "idle"
    /\ SharedLock
    /\ Goto(t, "check")
    /\ floor' = [floor EXCEPT ![t] = visible]
    /\ UNCHANGED <<dataVars, cacheVars, arg, seen, snapshot, ret, mine, visible>>

(* The first needsUpdate runs without snapshotMutex: the test of the       *)
(* pointer and the two atomic loads are apart, and C++ leaves the order of *)
(* the two operands of != open. The pointer is read while another thread   *)
(* may be assigning it; being word-sized it is seen null or not null, and  *)
(* once it is not null it stays so.                                        *)
Load(t, which) ==
    seen' = [seen EXCEPT ![t] =
        [of |-> which, value |-> IF which = "data" THEN dataVersion ELSE snapshotVersion]]

CheckSnapshot(t) ==
    /\ pc[t] = "check"
    /\ \/ /\ cachedSnapshot.taken = 0
          /\ Goto(t, "lock")
          /\ UNCHANGED seen
       \/ /\ cachedSnapshot.taken # 0
          /\ Goto(t, "compare")
          /\ \E which \in {"data", "snapshot"} : Load(t, which)
    /\ UNCHANGED <<dataVars, cacheVars, arg, snapshot, ret, mine, floor, visible>>

\* The value of the operand of != that CheckSnapshot has not loaded.
OtherVersion(t) == IF seen[t].of = "data" THEN snapshotVersion ELSE dataVersion

\* Mutant of CompareVersions: a reader waits for the versions to agree.
SpinOnVersions(t) ==
    /\ pc[t] = "compare"
    /\ \/ OtherVersion(t) # seen[t].value /\ Goto(t, "check")
       \/ OtherVersion(t) = seen[t].value /\ Goto(t, "fetch")
    /\ seen' = [seen EXCEPT ![t] = NotLoaded]
    /\ UNCHANGED <<dataVars, cacheVars, arg, snapshot, ret, mine, floor, visible>>

CompareVersions(t) ==
    /\ pc[t] = "compare"
    /\ \/ OtherVersion(t) # seen[t].value /\ Goto(t, "lock")
       \/ OtherVersion(t) = seen[t].value /\ Goto(t, "fetch")
    /\ seen' = [seen EXCEPT ![t] = NotLoaded]
    /\ UNCHANGED <<dataVars, cacheVars, arg, snapshot, ret, mine, floor, visible>>

\* The second needsUpdate, under snapshotMutex: only dataVersion can still move.
NeedsUpdate == cachedSnapshot.taken = 0 \/ snapshotVersion # dataVersion

\* snapshotMutex is kept when the snapshot has to be made, else released.
LockAndRecheck(t) ==
    /\ pc[t] = "lock"
    /\ SnapshotLock
    /\ \/ NeedsUpdate /\ Goto(t, "copy")
       \/ ~NeedsUpdate /\ Goto(t, "fetch")
    /\ UNCHANGED <<dataVars, cacheVars, localVars, visible>>

CopyData(t) ==
    /\ pc[t] = "copy"
    /\ cachedSnapshot' = [map |-> numbers, taken |-> Newest]
    /\ Goto(t, "load")
    /\ UNCHANGED <<dataVars, dataVersion, snapshotVersion, localVars, visible>>

\* Mutant of LoadDataVersion: the stamp is the version after the copy's.
StampAhead(t) ==
    /\ pc[t] = "load"
    /\ seen' = [seen EXCEPT ![t] = [of |-> "data", value |-> dataVersion + 1]]
    /\ Goto(t, "store")
    /\ UNCHANGED <<dataVars, cacheVars, arg, snapshot, ret, mine, floor, visible>>

LoadDataVersion(t) ==
    /\ pc[t] = "load"
    /\ Load(t, "data")
    /\ Goto(t, "store")
    /\ UNCHANGED <<dataVars, cacheVars, arg, snapshot, ret, mine, floor, visible>>

\* Releases snapshotMutex.
StoreSnapshotVersion(t) ==
    /\ pc[t] = "store"
    /\ snapshotVersion' = seen[t].value
    /\ seen' = [seen EXCEPT ![t] = NotLoaded]
    /\ Goto(t, "fetch")
    /\ UNCHANGED <<dataVars, cachedSnapshot, dataVersion, arg, snapshot, ret, mine, floor, visible>>

\* Mutant of FetchSnapshot: the reader is handed the live map.
FetchLiveMap(t) ==
    /\ pc[t] = "fetch"
    /\ SnapshotLock
    /\ snapshot' = [snapshot EXCEPT ![t] = [cachedSnapshot EXCEPT !.map = numbers]]
    /\ Goto(t, "format")
    /\ UNCHANGED <<dataVars, cacheVars, arg, seen, ret, mine, floor, visible>>

\* getSnapshot locks snapshotMutex again to copy the pointer; then both locks go.
FetchSnapshot(t) ==
    /\ pc[t] = "fetch"
    /\ SnapshotLock
    /\ snapshot' = [snapshot EXCEPT ![t] = cachedSnapshot]
    /\ Goto(t, "format")
    /\ UNCHANGED <<dataVars, cacheVars, arg, seen, ret, mine, floor, visible>>

\* The text is made from the thread's own pointer, with no lock; printAll returns.
FormatSnapshot(t) ==
    /\ pc[t] = "format"
    /\ visible' = Later(visible, snapshot[t].taken)
    /\ snapshot' = [snapshot EXCEPT ![t] = NoSnapshot]
    /\ floor' = [floor EXCEPT ![t] = 0]
    /\ Goto(t, "idle")
    /\ UNCHANGED <<dataVars, cacheVars, arg, seen, ret, mine>>

-----------------------------------------------------------------------------
\* The steps of a call that is under way, apart from those that wait for a lock.
Continue(t) ==
    \/ InsertPut(t)
    \/ RemoveErase(t)
    \/ NotifyDataChanged(t)
    \/ CheckSnapshot(t)
    \/ CompareVersions(t)
    \/ CopyData(t)
    \/ LoadDataVersion(t)
    \/ StoreSnapshotVersion(t)
    \/ FormatSnapshot(t)

\* The steps that begin a call.
Call(t) ==
    \/ \E n \in Numbers : InsertFind(t, n) \/ RemoveFind(t, n)
    \/ Clear(t)
    \/ Size(t)
    \/ PrintAll(t)

Next ==
    \E t \in Threads :
        Call(t) \/ Continue(t) \/ LockAndRecheck(t) \/ FetchSnapshot(t)

Spec == Init /\ [][Next]_vars

-----------------------------------------------------------------------------
(* Properties *)

SnapshotRecord == [map : Map, taken : Nat]

TypeOK ==
    /\ numbers \in Map
    /\ cachedSnapshot \in SnapshotRecord
    /\ dataVersion \in Nat
    /\ snapshotVersion \in Nat
    /\ pc \in [Threads -> PC]
    /\ arg \in [Threads -> Numbers \cup {Absent}]
    /\ seen \in [Threads -> [of : {"data", "snapshot"}, value : Nat]]
    /\ snapshot \in [Threads -> SnapshotRecord]
    /\ ret \in [Threads -> [code : {"none", "SUCCESS", "DUPLICATE_NUMBER", "NUMBER_NOT_FOUND"},
                            value : Nat]]
    /\ history \in Seq(Map)
    /\ mine \in [Threads -> Nat]
    /\ visible \in Nat
    /\ floor \in [Threads -> Nat]

(* A printAll reflects every mutation whose call had returned when the     *)
(* printAll took dataMutex, and everything that an earlier, finished       *)
(* printAll of any client had shown: the version counters never validate a *)
(* snapshot that is too old (NumberStore.cxx:81, SnapshotManager.cxx:8).   *)
PrintIsFresh ==
    \A t \in Threads : pc[t] = "format" => floor[t] <= snapshot[t].taken

(* What printAll prints is the whole map as it was at one moment, never a  *)
(* mixture of two states, although the text is made after the locks are    *)
(* gone and the cache may have been replaced (NumberStore.cxx:89).         *)
PrintIsAPastState ==
    \A t \in Threads : pc[t] = "format" =>
        /\ snapshot[t].taken \in 1 .. Newest
        /\ snapshot[t].map = history[snapshot[t].taken]

(* An insert never overwrites: a number that is stored keeps its timestamp *)
(* until it is removed, however the finds and the writes of concurrent     *)
(* inserts interleave (NumberStore.cxx:17-25).                             *)
NeverOverwrites ==
    [][\A n \in Numbers :
        n \in Stored(numbers) \cap Stored(numbers') => numbers'[n] = numbers[n]]_vars

(* A thread inside a snapshot refresh is the only one there, and no writer *)
(* is inside dataMutex meanwhile: the copy and its stamp belong together   *)
(* (SnapshotManager.cxx:11-18).                                            *)
RefreshIsExclusive ==
    \A t \in SnapshotHolders : SnapshotHolders = {t} /\ Writers = {}

(* Every mutation eventually invalidates each snapshot that lacks it, so   *)
(* that the next print makes a new one: a writer's notification comes      *)
(* after its mutation and is never lost (NumberStore.cxx:32, :60, :76).    *)
StaleSnapshotsAreInvalidated ==
    \A i \in 1 .. MaxMutations + 1 :
        Newest >= i ~> (NeedsUpdate \/ cachedSnapshot.taken >= i)

(* A printAll that has begun returns: dataMutex and snapshotMutex are      *)
(* always taken in this order, snapshotMutex is let go before it is taken  *)
(* again, and the refresh is not retried (SnapshotManager.cxx:8-24).       *)
PrintReturns ==
    \A t \in Threads : pc[t] = "check" ~> pc[t] = "idle"

-----------------------------------------------------------------------------
(* The inductive invariant behind the safety properties. *)

\* The ghosts index history, and a snapshot is the map at its index.
IsSnapshotOf(s) == s.taken \in 1 .. Newest /\ s.map = history[s.taken]

HistoryInv ==
    /\ Newest >= 1
    /\ numbers = history[Newest]
    /\ visible \in 1 .. Newest
    /\ cachedSnapshot.taken # 0 => IsSnapshotOf(cachedSnapshot)
    /\ \A t \in Threads :
        /\ floor[t] <= visible
        /\ mine[t] <= Newest
        /\ pc[t] = "format" => IsSnapshotOf(snapshot[t])

\* What dataMutex and snapshotMutex exclude, and what a find has established.
LockInv ==
    /\ \A t, u \in Threads : t # u =>
        /\ t \in Writers => u \notin Writers \cup Readers
        /\ t \in SnapshotHolders => u \notin SnapshotHolders
    /\ \A t \in Threads :
        /\ pc[t] \in {"emplace", "erase"} => arg[t] \in Numbers
        /\ pc[t] = "emplace" => numbers[arg[t]] = Absent
        /\ pc[t] = "erase" => numbers[arg[t]] # Absent

\* Equal versions vouch for the cache; while the stamp is written it is exact.
VersionInv ==
    /\ snapshotVersion <= dataVersion
    /\ cachedSnapshot.taken # 0 /\ snapshotVersion = dataVersion
          => visible <= cachedSnapshot.taken
    /\ \A t \in Threads :
        /\ pc[t] \in {"load", "store"} => cachedSnapshot.taken = Newest
        /\ pc[t] = "store" => seen[t].value \in snapshotVersion .. dataVersion

\* What a reader may rely on once it has skipped the refresh or done it.
ReaderInv ==
    \A t \in Threads :
        /\ pc[t] = "compare" =>
            /\ cachedSnapshot.taken # 0
            /\ seen[t].of = "snapshot" => seen[t].value <= snapshotVersion
            /\ seen[t].of = "data" =>
                /\ seen[t].value <= dataVersion
                /\ snapshotVersion >= seen[t].value => floor[t] <= cachedSnapshot.taken
        /\ pc[t] = "fetch" => cachedSnapshot.taken # 0 /\ floor[t] <= cachedSnapshot.taken
        /\ pc[t] = "format" =>
            /\ floor[t] <= snapshot[t].taken
            /\ snapshot[t].taken <= cachedSnapshot.taken

(* The cache is only ever validated by a stamp that was read no earlier    *)
(* than the copy began and no mutation slipped in between: the conjunction *)
(* is inductive (SnapshotManager.cxx:8-24, NumberStore.cxx:12-101).        *)
StoreInv == TypeOK /\ HistoryInv /\ LockInv /\ VersionInv /\ ReaderInv

-----------------------------------------------------------------------------
(* The store implements SnapshotStore. *)

Phase(label) ==
    IF label \in ReadSection THEN "printing"
    ELSE IF label = "notify" THEN "mutated"
    ELSE IF label = "format" THEN "answered"
    ELSE "idle"

Phases == [t \in Threads |-> Phase(pc[t])]

Promise == INSTANCE SnapshotStore WITH phase <- Phases, answer <- snapshot

(* Every behaviour of the store is one that SnapshotStore allows: atomic   *)
(* mutations, and prints that are whole, fresh and never go back           *)
(* (NumberStore.cxx:12-101 with SnapshotManager.cxx:8-24).                 *)
KeepsItsPromise == Promise!Spec
=============================================================================
