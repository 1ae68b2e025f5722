-------------------------- MODULE NumberStoreProofs --------------------------
(***************************************************************************)
(* The safety properties of NumberStore, for any number of threads, any    *)
(* numbers, any clock readings and any bound on the mutations.             *)
(***************************************************************************)
EXTENDS NumberStore, SequenceTheorems, FiniteSetTheorems, TLAPS

USE DEF Newest

LEMMA EmptyMapType == EmptyMap \in Map
BY DEF EmptyMap, Map

\* What a writer does to history keeps the types.
LEMMA MutateType ==
    ASSUME TypeOK, NEW t \in Threads, NEW map \in Map, Mutate(t, map)
    PROVE  /\ numbers' \in Map
           /\ history' \in Seq(Map)
           /\ mine' \in [Threads -> Nat]
           /\ pc' \in [Threads -> PC]
<1>1. Len(history) \in Nat
  BY DEF TypeOK
<1> QED
  BY <1>1, AppendProperties DEF Mutate, TypeOK, Goto, PC

LEMMA LoadType ==
    ASSUME TypeOK, NEW t \in Threads, NEW which \in {"data", "snapshot"}, Load(t, which)
    PROVE  seen' \in [Threads -> [of : {"data", "snapshot"}, value : Nat]]
<1>1. (IF which = "data" THEN dataVersion ELSE snapshotVersion) \in Nat
  BY DEF TypeOK
<1> QED
  BY <1>1 DEF TypeOK, Load

LEMMA InitInv == Init => StoreInv
<1> SUFFICES ASSUME Init PROVE StoreInv
  OBVIOUS
<1>1. TypeOK
  BY ConstantsAssumption
     DEF Init, TypeOK, Map, EmptyMap, NoSnapshot, NotLoaded, Returned, SnapshotRecord, PC,
         ReadSection
<1>2. HistoryInv
  BY DEF Init, HistoryInv, NoSnapshot
<1>3. LockInv
  BY DEF Init, LockInv, Writers, Readers, SnapshotHolders, ReadSection
<1>4. VersionInv
  BY DEF Init, VersionInv, NoSnapshot
<1>5. ReaderInv
  BY DEF Init, ReaderInv
<1> QED
  BY <1>1, <1>2, <1>3, <1>4, <1>5 DEF StoreInv

-----------------------------------------------------------------------------
(* Type correctness *)

\* The lock invariant is what makes the timestamp a remove returns a number.
LEMMA TypeStep == TypeOK /\ LockInv /\ [Next]_vars => TypeOK'
<1> SUFFICES ASSUME TypeOK, LockInv, [Next]_vars
             PROVE  TypeOK'
  OBVIOUS
<1> USE DEF TypeOK
<1>n. Len(history) \in Nat
  OBVIOUS
<1>1. ASSUME NEW t \in Threads, NEW n \in Numbers, InsertFind(t, n)
      PROVE  TypeOK'
  <2>1. CASE Refuse(t, "DUPLICATE_NUMBER")
    BY <2>1 DEF Refuse, Return, Returned, dataVars, cacheVars
  <2>2. CASE Proceed(t, n, "emplace")
    BY <2>2 DEF Proceed, Goto, PC, dataVars, cacheVars
  <2> QED
    BY <1>1, <2>1, <2>2 DEF InsertFind
<1>2. ASSUME NEW t \in Threads, InsertPut(t)
      PROVE  TypeOK'
  <2>1. PICK now \in Timestamps : Mutate(t, [numbers EXCEPT ![arg[t]] = now])
    BY <1>2 DEF InsertPut
  <2>2. [numbers EXCEPT ![arg[t]] = now] \in Map
    BY DEF Map
  <2> QED
    BY <1>2, <2>1, <2>2, MutateType
       DEF InsertPut, Mutate, Return, Returned, cacheVars
<1>3. ASSUME NEW t \in Threads, NEW n \in Numbers, RemoveFind(t, n)
      PROVE  TypeOK'
  <2>1. CASE Refuse(t, "NUMBER_NOT_FOUND")
    BY <2>1 DEF Refuse, Return, Returned, dataVars, cacheVars
  <2>2. CASE Proceed(t, n, "erase")
    BY <2>2 DEF Proceed, Goto, PC, dataVars, cacheVars
  <2> QED
    BY <1>3, <2>1, <2>2 DEF RemoveFind
<1>4. ASSUME NEW t \in Threads, RemoveErase(t)
      PROVE  TypeOK'
  <2>1. [numbers EXCEPT ![arg[t]] = Absent] \in Map
    BY DEF Map
  <2>2. numbers[arg[t]] \in Nat
    BY <1>4, ConstantsAssumption DEF RemoveErase, LockInv, Map
  <2> QED
    BY <1>4, <2>1, <2>2, MutateType
       DEF RemoveErase, Mutate, Return, Returned, cacheVars
<1>5. ASSUME NEW t \in Threads, Clear(t)
      PROVE  TypeOK'
  BY <1>5, EmptyMapType, MutateType DEF Clear, Mutate, Return, Returned, cacheVars
<1>6. ASSUME NEW t \in Threads, NotifyDataChanged(t)
      PROVE  TypeOK'
  BY <1>6 DEF NotifyDataChanged, Completed, Later, Goto, PC, dataVars
<1>7. ASSUME NEW t \in Threads, Size(t)
      PROVE  TypeOK'
  <2>1. Cardinality(Stored(numbers)) \in Nat
    BY ConstantsAssumption, FS_Subset, FS_CardinalityType DEF Stored
  <2> QED
    BY <1>7, <2>1 DEF Size, Return, Returned, dataVars, cacheVars
<1>8. ASSUME NEW t \in Threads, PrintAll(t)
      PROVE  TypeOK'
  <2>1. pc' \in [Threads -> PC]
    BY <1>8 DEF PrintAll, Goto, PC, ReadSection
  <2>2. floor' \in [Threads -> Nat]
    BY <1>8 DEF PrintAll
  <2> QED
    BY <1>8, <2>1, <2>2, SMTT(30) DEF PrintAll, dataVars, cacheVars
<1>9. ASSUME NEW t \in Threads, CheckSnapshot(t)
      PROVE  TypeOK'
  <2>1. pc' \in [Threads -> PC]
    BY <1>9 DEF CheckSnapshot, Goto, PC, ReadSection
  <2>2. seen' \in [Threads -> [of : {"data", "snapshot"}, value : Nat]]
    BY <1>9, LoadType DEF CheckSnapshot
  <2> QED
    BY <1>9, <2>1, <2>2, SMTT(30) DEF CheckSnapshot, dataVars, cacheVars
<1>10. ASSUME NEW t \in Threads, CompareVersions(t)
       PROVE  TypeOK'
  BY <1>10 DEF CompareVersions, NotLoaded, Goto, PC, ReadSection, dataVars, cacheVars
<1>11. ASSUME NEW t \in Threads, LockAndRecheck(t)
       PROVE  TypeOK'
  BY <1>11 DEF LockAndRecheck, Goto, PC, ReadSection, dataVars, cacheVars, localVars
<1>12. ASSUME NEW t \in Threads, CopyData(t)
       PROVE  TypeOK'
  BY <1>n, <1>12 DEF CopyData, SnapshotRecord, Goto, PC, ReadSection, dataVars, localVars
<1>13. ASSUME NEW t \in Threads, LoadDataVersion(t)
       PROVE  TypeOK'
  BY <1>13, LoadType DEF LoadDataVersion, Goto, PC, ReadSection, dataVars, cacheVars
<1>14. ASSUME NEW t \in Threads, StoreSnapshotVersion(t)
       PROVE  TypeOK'
  BY <1>14 DEF StoreSnapshotVersion, NotLoaded, Goto, PC, ReadSection, dataVars
<1>15. ASSUME NEW t \in Threads, FetchSnapshot(t)
       PROVE  TypeOK'
  BY <1>15 DEF FetchSnapshot, Goto, PC, dataVars, cacheVars
<1>16. ASSUME NEW t \in Threads, FormatSnapshot(t)
       PROVE  TypeOK'
  BY <1>16, EmptyMapType
     DEF FormatSnapshot, Later, SnapshotRecord, NoSnapshot, Goto, PC, dataVars, cacheVars
<1>17. CASE UNCHANGED vars
  BY <1>17 DEF vars, dataVars, cacheVars, localVars
<1> QED
  BY <1>1, <1>2, <1>3, <1>4, <1>5, <1>6, <1>7, <1>8, <1>9, <1>10, <1>11, <1>12, <1>13,
     <1>14, <1>15, <1>16, <1>17
     DEF Next, Call, Continue

-----------------------------------------------------------------------------
(* Locks *)

\* A step that does not write numbers, nor enter a lock unless it is free.
LEMMA LockStep == TypeOK /\ LockInv /\ [Next]_vars => LockInv'
<1> SUFFICES ASSUME TypeOK, LockInv, [Next]_vars
             PROVE  LockInv'
  OBVIOUS
<1> USE DEF LockInv, Writers, Readers, SnapshotHolders, ReadSection
<1>t. pc \in [Threads -> PC] /\ numbers \in Map /\ arg \in [Threads -> Numbers \cup {Absent}]
  BY DEF TypeOK
<1>1. ASSUME NEW t \in Threads, NEW n \in Numbers, InsertFind(t, n)
      PROVE  LockInv'
  BY <1>t, <1>1 DEF InsertFind, UniqueLock, Refuse, Proceed, Goto, dataVars
<1>2. ASSUME NEW t \in Threads, InsertPut(t)
      PROVE  LockInv'
  BY <1>t, <1>2 DEF InsertPut, Mutate, Goto, Map
<1>3. ASSUME NEW t \in Threads, NEW n \in Numbers, RemoveFind(t, n)
      PROVE  LockInv'
  BY <1>t, <1>3 DEF RemoveFind, UniqueLock, Refuse, Proceed, Goto, dataVars
<1>4. ASSUME NEW t \in Threads, RemoveErase(t)
      PROVE  LockInv'
  BY <1>t, <1>4 DEF RemoveErase, Mutate, Goto, Map
<1>5. ASSUME NEW t \in Threads, Clear(t)
      PROVE  LockInv'
  BY <1>t, <1>5 DEF Clear, UniqueLock, Mutate, Goto, Map
<1>6. ASSUME NEW t \in Threads, NotifyDataChanged(t)
      PROVE  LockInv'
  BY <1>t, <1>6 DEF NotifyDataChanged, Completed, Goto, dataVars
<1>7. ASSUME NEW t \in Threads, Size(t)
      PROVE  LockInv'
  BY <1>7 DEF Size, dataVars
<1>8. ASSUME NEW t \in Threads, PrintAll(t)
      PROVE  LockInv'
  BY <1>t, <1>8 DEF PrintAll, SharedLock, Goto, dataVars
<1>9. ASSUME NEW t \in Threads, CheckSnapshot(t)
      PROVE  LockInv'
  BY <1>t, <1>9 DEF CheckSnapshot, Goto, dataVars
<1>10. ASSUME NEW t \in Threads, CompareVersions(t)
       PROVE  LockInv'
  BY <1>t, <1>10 DEF CompareVersions, Goto, dataVars
<1>11. ASSUME NEW t \in Threads, LockAndRecheck(t)
       PROVE  LockInv'
  BY <1>t, <1>11 DEF LockAndRecheck, SnapshotLock, Goto, dataVars, localVars
<1>12. ASSUME NEW t \in Threads, CopyData(t)
       PROVE  LockInv'
  BY <1>t, <1>12 DEF CopyData, Goto, dataVars, localVars
<1>13. ASSUME NEW t \in Threads, LoadDataVersion(t)
       PROVE  LockInv'
  BY <1>t, <1>13 DEF LoadDataVersion, Goto, dataVars
<1>14. ASSUME NEW t \in Threads, StoreSnapshotVersion(t)
       PROVE  LockInv'
  BY <1>t, <1>14 DEF StoreSnapshotVersion, Goto, dataVars
<1>15. ASSUME NEW t \in Threads, FetchSnapshot(t)
       PROVE  LockInv'
  BY <1>t, <1>15 DEF FetchSnapshot, Goto, dataVars
<1>16. ASSUME NEW t \in Threads, FormatSnapshot(t)
       PROVE  LockInv'
  BY <1>t, <1>16 DEF FormatSnapshot, Goto, dataVars
<1>17. CASE UNCHANGED vars
  BY <1>17 DEF vars, dataVars, localVars
<1> QED
  BY <1>1, <1>2, <1>3, <1>4, <1>5, <1>6, <1>7, <1>8, <1>9, <1>10, <1>11, <1>12, <1>13,
     <1>14, <1>15, <1>16, <1>17
     DEF Next, Call, Continue

-----------------------------------------------------------------------------
(* History *)

\* The maps the writers write.
LEMMA WrittenMaps ==
    ASSUME TypeOK, NEW n, NEW now \in Timestamps \cup {Absent}
    PROVE  [numbers EXCEPT ![n] = now] \in Map
BY DEF TypeOK, Map

\* A mutation extends history, and leaves what is in it where it is.
LEMMA MutateHistory ==
    ASSUME TypeOK, HistoryInv, NEW t \in Threads, NEW map \in Map, Mutate(t, map)
    PROVE  /\ Len(history') = Len(history) + 1
           /\ \A i \in 1 .. Len(history) : history'[i] = history[i]
           /\ HistoryInv'
<1>1. /\ Len(history') = Len(history) + 1
      /\ \A i \in 1 .. Len(history) : history'[i] = history[i]
      /\ history'[Len(history) + 1] = map
  BY AppendProperties DEF Mutate, TypeOK
<1>2. Len(history) \in Nat /\ Len(history') \in Nat
  BY <1>1 DEF TypeOK
<1>3. /\ cachedSnapshot' = cachedSnapshot /\ snapshot' = snapshot
      /\ floor' = floor /\ visible' = visible /\ numbers' = map
      /\ mine' = [mine EXCEPT ![t] = Len(history) + 1]
      /\ pc' = [pc EXCEPT ![t] = "notify"]
  BY DEF Mutate, Goto, cacheVars
<1>4. Len(history) >= 1 /\ numbers' = history'[Len(history')]
  BY <1>1, <1>2, <1>3 DEF HistoryInv
<1>5. visible' \in 1 .. Len(history')
  BY <1>1, <1>2, <1>3 DEF HistoryInv
<1>6. cachedSnapshot'.taken # 0 => IsSnapshotOf(cachedSnapshot)'
  BY <1>1, <1>2, <1>3 DEF HistoryInv, IsSnapshotOf
<1>7. ASSUME NEW u \in Threads
      PROVE  /\ floor'[u] <= visible'
             /\ mine'[u] <= Len(history')
             /\ pc'[u] = "format" => IsSnapshotOf(snapshot[u])'
  <2>1. floor'[u] <= visible'
    BY <1>3 DEF HistoryInv
  <2>2. mine'[u] <= Len(history')
    BY <1>1, <1>2, <1>3 DEF HistoryInv, TypeOK
  <2>3. ASSUME pc'[u] = "format" PROVE IsSnapshotOf(snapshot[u])'
    <3>1. pc[u] = "format"
      BY <1>3, <2>3 DEF TypeOK
    <3> QED
      BY <1>1, <1>2, <1>3, <3>1 DEF HistoryInv, IsSnapshotOf
  <2> QED
    BY <2>1, <2>2, <2>3
<1> QED
  BY <1>1, <1>2, <1>4, <1>5, <1>6, <1>7 DEF HistoryInv

\* Only the writers extend history; the readers copy its newest element.
LEMMA HistoryStep == TypeOK /\ HistoryInv /\ ReaderInv /\ [Next]_vars => HistoryInv'
<1> SUFFICES ASSUME TypeOK, HistoryInv, ReaderInv, [Next]_vars
             PROVE  HistoryInv'
  OBVIOUS
<1> USE DEF HistoryInv, IsSnapshotOf, SnapshotRecord
<1>t. /\ Len(history) \in Nat
      /\ pc \in [Threads -> PC] /\ floor \in [Threads -> Nat] /\ mine \in [Threads -> Nat]
      /\ visible \in Nat /\ cachedSnapshot \in SnapshotRecord
      /\ snapshot \in [Threads -> SnapshotRecord]
  BY DEF TypeOK
<1>1. ASSUME NEW t \in Threads, NEW n \in Numbers, InsertFind(t, n)
      PROVE  HistoryInv'
  BY <1>t, <1>1 DEF InsertFind, Refuse, Proceed, Goto, dataVars, cacheVars
<1>2. ASSUME NEW t \in Threads, InsertPut(t)
      PROVE  HistoryInv'
  BY MutateHistory, WrittenMaps, <1>2 DEF InsertPut
<1>3. ASSUME NEW t \in Threads, NEW n \in Numbers, RemoveFind(t, n)
      PROVE  HistoryInv'
  BY <1>t, <1>3 DEF RemoveFind, Refuse, Proceed, Goto, dataVars, cacheVars
<1>4. ASSUME NEW t \in Threads, RemoveErase(t)
      PROVE  HistoryInv'
  BY MutateHistory, WrittenMaps, <1>4 DEF RemoveErase
<1>5. ASSUME NEW t \in Threads, Clear(t)
      PROVE  HistoryInv'
  BY MutateHistory, EmptyMapType, <1>5 DEF Clear
<1>6. ASSUME NEW t \in Threads, NotifyDataChanged(t)
      PROVE  HistoryInv'
  BY <1>t, <1>6 DEF NotifyDataChanged, Completed, Later, Goto, dataVars, cacheVars
<1>7. ASSUME NEW t \in Threads, Size(t)
      PROVE  HistoryInv'
  BY <1>7 DEF Size, dataVars, cacheVars
<1>8. ASSUME NEW t \in Threads, PrintAll(t)
      PROVE  HistoryInv'
  BY <1>t, <1>8 DEF PrintAll, Goto, dataVars, cacheVars
<1>9. ASSUME NEW t \in Threads, CheckSnapshot(t)
      PROVE  HistoryInv'
  BY <1>t, <1>9 DEF CheckSnapshot, Goto, dataVars, cacheVars
<1>10. ASSUME NEW t \in Threads, CompareVersions(t)
       PROVE  HistoryInv'
  BY <1>t, <1>10 DEF CompareVersions, Goto, dataVars, cacheVars
<1>11. ASSUME NEW t \in Threads, LockAndRecheck(t)
       PROVE  HistoryInv'
  BY <1>t, <1>11 DEF LockAndRecheck, Goto, localVars, dataVars, cacheVars
<1>12. ASSUME NEW t \in Threads, CopyData(t)
       PROVE  HistoryInv'
  BY <1>t, <1>12 DEF CopyData, Goto, localVars, dataVars, cacheVars
<1>13. ASSUME NEW t \in Threads, LoadDataVersion(t)
       PROVE  HistoryInv'
  BY <1>t, <1>13 DEF LoadDataVersion, Goto, dataVars, cacheVars
<1>14. ASSUME NEW t \in Threads, StoreSnapshotVersion(t)
       PROVE  HistoryInv'
  BY <1>t, <1>14 DEF StoreSnapshotVersion, Goto, dataVars, cacheVars
<1>15. ASSUME NEW t \in Threads, FetchSnapshot(t)
       PROVE  HistoryInv'
  BY <1>t, <1>15 DEF FetchSnapshot, ReaderInv, Goto, dataVars, cacheVars
<1>16. ASSUME NEW t \in Threads, FormatSnapshot(t)
       PROVE  HistoryInv'
  BY <1>t, <1>16 DEF FormatSnapshot, Later, NoSnapshot, Goto, dataVars, cacheVars
<1>17. CASE UNCHANGED vars
  BY <1>17 DEF vars, dataVars, cacheVars, localVars
<1> QED
  BY <1>1, <1>2, <1>3, <1>4, <1>5, <1>6, <1>7, <1>8, <1>9, <1>10, <1>11, <1>12, <1>13,
     <1>14, <1>15, <1>16, <1>17
     DEF Next, Call, Continue

-----------------------------------------------------------------------------
(* Versions *)

\* While a writer mutates no reader is between the copy and its stamp.
LEMMA MutateVersion ==
    ASSUME TypeOK, VersionInv, NEW t \in Threads, NEW map \in Map, Mutate(t, map),
           \A u \in Threads \ {t} : u \notin Readers
    PROVE  VersionInv'
<1>1. /\ UNCHANGED <<cachedSnapshot, dataVersion, snapshotVersion, visible, seen>>
      /\ pc' = [pc EXCEPT ![t] = "notify"]
  BY DEF Mutate, Goto, cacheVars
<1>2. \A u \in Threads : pc'[u] \notin {"load", "store"}
  BY <1>1 DEF Readers, ReadSection, TypeOK
<1> QED
  BY <1>1, <1>2 DEF VersionInv

\* The stamp is never ahead of the copy it vouches for.
LEMMA VersionStep == TypeOK /\ HistoryInv /\ LockInv /\ VersionInv /\ ReaderInv /\ [Next]_vars => VersionInv'
<1> SUFFICES ASSUME TypeOK, HistoryInv, LockInv, VersionInv, ReaderInv, [Next]_vars
             PROVE  VersionInv'
  OBVIOUS
<1> USE DEF VersionInv, SnapshotRecord
<1>t. /\ Len(history) \in Nat /\ visible \in Nat
      /\ dataVersion \in Nat /\ snapshotVersion \in Nat
      /\ pc \in [Threads -> PC] /\ floor \in [Threads -> Nat]
      /\ cachedSnapshot \in SnapshotRecord
      /\ seen \in [Threads -> [of : {"data", "snapshot"}, value : Nat]]
      /\ snapshot \in [Threads -> SnapshotRecord]
  BY DEF TypeOK
<1>1. ASSUME NEW t \in Threads, NEW n \in Numbers, InsertFind(t, n)
      PROVE  VersionInv'
  BY <1>t, <1>1 DEF InsertFind, Refuse, Proceed, Goto, dataVars, cacheVars
<1>2. ASSUME NEW t \in Threads, InsertPut(t)
      PROVE  VersionInv'
  BY MutateVersion, WrittenMaps, <1>2 DEF InsertPut, LockInv, Writers
<1>3. ASSUME NEW t \in Threads, NEW n \in Numbers, RemoveFind(t, n)
      PROVE  VersionInv'
  BY <1>t, <1>3 DEF RemoveFind, Refuse, Proceed, Goto, dataVars, cacheVars
<1>4. ASSUME NEW t \in Threads, RemoveErase(t)
      PROVE  VersionInv'
  BY MutateVersion, WrittenMaps, <1>4 DEF RemoveErase, LockInv, Writers
<1>5. ASSUME NEW t \in Threads, Clear(t)
      PROVE  VersionInv'
  BY MutateVersion, EmptyMapType, <1>5 DEF Clear, UniqueLock
<1>6. ASSUME NEW t \in Threads, NotifyDataChanged(t)
      PROVE  VersionInv'
  BY <1>t, <1>6 DEF NotifyDataChanged, Completed, Goto, dataVars, cacheVars
<1>7. ASSUME NEW t \in Threads, Size(t)
      PROVE  VersionInv'
  BY <1>7 DEF Size, dataVars, cacheVars
<1>8. ASSUME NEW t \in Threads, PrintAll(t)
      PROVE  VersionInv'
  BY <1>t, <1>8 DEF PrintAll, Goto, dataVars, cacheVars
<1>9. ASSUME NEW t \in Threads, CheckSnapshot(t)
      PROVE  VersionInv'
  BY <1>t, <1>9 DEF CheckSnapshot, Load, Goto, dataVars, cacheVars
<1>10. ASSUME NEW t \in Threads, CompareVersions(t)
       PROVE  VersionInv'
  BY <1>t, <1>10 DEF CompareVersions, Goto, dataVars, cacheVars
<1>11. ASSUME NEW t \in Threads, LockAndRecheck(t)
       PROVE  VersionInv'
  BY <1>t, <1>11 DEF LockAndRecheck, Goto, localVars, dataVars, cacheVars
<1>12. ASSUME NEW t \in Threads, CopyData(t)
       PROVE  VersionInv'
  BY <1>t, <1>12 DEF CopyData, HistoryInv, Goto, localVars, dataVars
<1>13. ASSUME NEW t \in Threads, LoadDataVersion(t)
       PROVE  VersionInv'
  BY <1>t, <1>13 DEF LoadDataVersion, Load, Goto, dataVars, cacheVars
<1>14. ASSUME NEW t \in Threads, StoreSnapshotVersion(t)
       PROVE  VersionInv'
  BY <1>t, <1>14 DEF StoreSnapshotVersion, HistoryInv, LockInv, SnapshotHolders, Goto, dataVars
<1>15. ASSUME NEW t \in Threads, FetchSnapshot(t)
       PROVE  VersionInv'
  BY <1>t, <1>15 DEF FetchSnapshot, Goto, dataVars, cacheVars
<1>16. ASSUME NEW t \in Threads, FormatSnapshot(t)
       PROVE  VersionInv'
  BY <1>t, <1>16 DEF FormatSnapshot, ReaderInv, Later, Goto, dataVars, cacheVars
<1>17. CASE UNCHANGED vars
  BY <1>17 DEF vars, dataVars, cacheVars, localVars
<1> QED
  BY <1>1, <1>2, <1>3, <1>4, <1>5, <1>6, <1>7, <1>8, <1>9, <1>10, <1>11, <1>12, <1>13,
     <1>14, <1>15, <1>16, <1>17
     DEF Next, Call, Continue

-----------------------------------------------------------------------------
(* Readers *)

\* Whichever way a reader leaves getSnapshot, the cache is fresh enough for it.
LEMMA ReaderStep == TypeOK /\ HistoryInv /\ VersionInv /\ ReaderInv /\ [Next]_vars => ReaderInv'
<1> SUFFICES ASSUME TypeOK, HistoryInv, VersionInv, ReaderInv, [Next]_vars
             PROVE  ReaderInv'
  OBVIOUS
<1> USE DEF ReaderInv, SnapshotRecord
<1>t. /\ Len(history) \in Nat /\ visible \in Nat
      /\ dataVersion \in Nat /\ snapshotVersion \in Nat
      /\ pc \in [Threads -> PC] /\ floor \in [Threads -> Nat]
      /\ cachedSnapshot \in SnapshotRecord
      /\ seen \in [Threads -> [of : {"data", "snapshot"}, value : Nat]]
      /\ snapshot \in [Threads -> SnapshotRecord]
  BY DEF TypeOK
<1>1. ASSUME NEW t \in Threads, NEW n \in Numbers, InsertFind(t, n)
      PROVE  ReaderInv'
  BY <1>t, <1>1 DEF InsertFind, Refuse, Proceed, Goto, dataVars, cacheVars
<1>2. ASSUME NEW t \in Threads, InsertPut(t)
      PROVE  ReaderInv'
  BY <1>t, <1>2 DEF InsertPut, Mutate, Goto, cacheVars
<1>3. ASSUME NEW t \in Threads, NEW n \in Numbers, RemoveFind(t, n)
      PROVE  ReaderInv'
  BY <1>t, <1>3 DEF RemoveFind, Refuse, Proceed, Goto, dataVars, cacheVars
<1>4. ASSUME NEW t \in Threads, RemoveErase(t)
      PROVE  ReaderInv'
  BY <1>t, <1>4 DEF RemoveErase, Mutate, Goto, cacheVars
<1>5. ASSUME NEW t \in Threads, Clear(t)
      PROVE  ReaderInv'
  BY <1>t, <1>5 DEF Clear, Mutate, Goto, cacheVars
<1>6. ASSUME NEW t \in Threads, NotifyDataChanged(t)
      PROVE  ReaderInv'
  BY <1>t, <1>6 DEF NotifyDataChanged, Completed, Goto, dataVars, cacheVars
<1>7. ASSUME NEW t \in Threads, Size(t)
      PROVE  ReaderInv'
  BY <1>7 DEF Size, dataVars, cacheVars
<1>8. ASSUME NEW t \in Threads, PrintAll(t)
      PROVE  ReaderInv'
  BY <1>t, <1>8 DEF PrintAll, Goto, dataVars, cacheVars
<1>9. ASSUME NEW t \in Threads, CheckSnapshot(t)
      PROVE  ReaderInv'
  BY <1>t, <1>9 DEF CheckSnapshot, VersionInv, HistoryInv, Load, Goto, dataVars, cacheVars
<1>10. ASSUME NEW t \in Threads, CompareVersions(t)
       PROVE  ReaderInv'
  BY <1>t, <1>10 DEF CompareVersions, OtherVersion, VersionInv, HistoryInv, Goto, dataVars, cacheVars
<1>11. ASSUME NEW t \in Threads, LockAndRecheck(t)
       PROVE  ReaderInv'
  BY <1>t, <1>11 DEF LockAndRecheck, NeedsUpdate, VersionInv, HistoryInv, Goto, localVars, dataVars, cacheVars
<1>12. ASSUME NEW t \in Threads, CopyData(t)
       PROVE  ReaderInv'
  BY <1>t, <1>12 DEF CopyData, HistoryInv, IsSnapshotOf, Goto, localVars, dataVars
<1>13. ASSUME NEW t \in Threads, LoadDataVersion(t)
       PROVE  ReaderInv'
  BY <1>t, <1>13 DEF LoadDataVersion, Load, Goto, dataVars, cacheVars
<1>14. ASSUME NEW t \in Threads, StoreSnapshotVersion(t)
       PROVE  ReaderInv'
  BY <1>t, <1>14 DEF StoreSnapshotVersion, VersionInv, HistoryInv, Goto, dataVars
<1>15. ASSUME NEW t \in Threads, FetchSnapshot(t)
       PROVE  ReaderInv'
  BY <1>t, <1>15 DEF FetchSnapshot, Goto, dataVars, cacheVars
<1>16. ASSUME NEW t \in Threads, FormatSnapshot(t)
       PROVE  ReaderInv'
  BY <1>t, <1>16 DEF FormatSnapshot, NoSnapshot, Goto, dataVars, cacheVars
<1>17. CASE UNCHANGED vars
  BY <1>17 DEF vars, dataVars, cacheVars, localVars
<1> QED
  BY <1>1, <1>2, <1>3, <1>4, <1>5, <1>6, <1>7, <1>8, <1>9, <1>10, <1>11, <1>12, <1>13,
     <1>14, <1>15, <1>16, <1>17
     DEF Next, Call, Continue

-----------------------------------------------------------------------------
(* The theorems *)

LEMMA StoreInvStep == StoreInv /\ [Next]_vars => StoreInv'
BY TypeStep, HistoryStep, LockStep, VersionStep, ReaderStep DEF StoreInv

(* The inductive invariant holds in every reachable state of the store     *)
(* (NumberStore.cxx:12-106, SnapshotManager.cxx:8-48).                     *)
THEOREM StoreInvariant == Spec => []StoreInv
BY InitInv, StoreInvStep, PTL DEF Spec

(* Every variable keeps its type; in particular the timestamp a remove     *)
(* returns is one that insert stored (NumberStore.cxx:49).                 *)
THEOREM TypeCorrectness == Spec => []TypeOK
BY StoreInvariant, PTL DEF StoreInv

(* No print misses what had been made visible before it began, although    *)
(* the cache is validated without its lock (SnapshotManager.cxx:10).       *)
THEOREM PrintsAreFresh == Spec => []PrintIsFresh
<1>1. StoreInv => PrintIsFresh
  BY DEF StoreInv, ReaderInv, PrintIsFresh
<1> QED
  BY <1>1, StoreInvariant, PTL

(* Every print is the map as one mutation left it (NumberStore.cxx:89).    *)
THEOREM PrintsArePastStates == Spec => []PrintIsAPastState
<1>1. StoreInv => PrintIsAPastState
  BY DEF StoreInv, HistoryInv, IsSnapshotOf, PrintIsAPastState
<1> QED
  BY <1>1, StoreInvariant, PTL

(* The copy and its stamp are made by one thread, with no writer about     *)
(* (SnapshotManager.cxx:11-18).                                            *)
THEOREM RefreshesAreExclusive == Spec => []RefreshIsExclusive
<1>1. StoreInv => RefreshIsExclusive
  <2> SUFFICES ASSUME StoreInv, NEW t \in SnapshotHolders
               PROVE  SnapshotHolders = {t} /\ Writers = {}
    BY DEF RefreshIsExclusive
  <2>1. t \in Readers /\ t \in Threads /\ t \notin Writers
    BY DEF SnapshotHolders, Readers, Writers, ReadSection
  <2>2. SnapshotHolders = {t}
    BY <2>1 DEF StoreInv, LockInv, SnapshotHolders
  <2>3. Writers = {}
    BY <2>1 DEF StoreInv, LockInv, Writers
  <2> QED
    BY <2>2, <2>3
<1> QED
  BY <1>1, StoreInvariant, PTL

(* A stored number keeps its timestamp until it is removed: what the find  *)
(* saw still holds at the write (NumberStore.cxx:17-25).                   *)
THEOREM InsertsNeverOverwrite == Spec => NeverOverwrites
<1> DEFINE Kept == \A n \in Numbers :
                      n \in Stored(numbers) \cap Stored(numbers') => numbers'[n] = numbers[n]
<1>1. ASSUME StoreInv, [Next]_vars
      PROVE  [Kept]_vars
  <2> USE <1>1 DEF Stored
  <2>1. CASE UNCHANGED numbers
    BY <2>1
  <2>2. ASSUME NEW t \in Threads, InsertPut(t)
        PROVE  Kept
    <3>1. numbers \in Map /\ numbers[arg[t]] = Absent
      BY <2>2 DEF InsertPut, StoreInv, TypeOK, LockInv
    <3> QED
      BY <2>2, <3>1 DEF InsertPut, Mutate, Map
  <2>3. ASSUME NEW t \in Threads, RemoveErase(t)
        PROVE  Kept
    BY <2>3 DEF RemoveErase, Mutate, StoreInv, TypeOK, Map
  <2>4. ASSUME NEW t \in Threads, Clear(t)
        PROVE  Kept
    BY <2>4 DEF Clear, Mutate, EmptyMap
  <2> QED
    BY <2>1, <2>2, <2>3, <2>4
       DEF Next, Call, Continue, vars, dataVars, localVars, InsertFind, RemoveFind, Refuse,
           Proceed, NotifyDataChanged, Completed, Size, PrintAll, CheckSnapshot,
           CompareVersions, LockAndRecheck, CopyData, LoadDataVersion,
           StoreSnapshotVersion, FetchSnapshot, FormatSnapshot
<1> QED
  BY <1>1, StoreInvariant, PTL DEF Spec, NeverOverwrites

-----------------------------------------------------------------------------
(* Refinement *)

LEMMA PhaseValues ==
    /\ \A label \in {"idle", "emplace", "erase"} : label \in PC /\ Phase(label) = "idle"
    /\ \A label \in ReadSection : label \in PC /\ Phase(label) = "printing"
    /\ "notify" \in PC /\ Phase("notify") = "mutated"
    /\ "format" \in PC /\ Phase("format") = "answered"
BY DEF PC, ReadSection, Phase

\* Moving a thread's control moves its phase.
LEMMA PhaseMoves ==
    ASSUME TypeOK, NEW t \in Threads, NEW label \in PC, Goto(t, label)
    PROVE  Phases' = [Phases EXCEPT ![t] = Phase(label)]
BY DEF TypeOK, Goto, Phases

\* A step that changes nothing but what the promise does not see.
LEMMA HiddenStep ==
    ASSUME UNCHANGED <<history, mine, visible, floor, snapshot>>, Phases' = Phases
    PROVE  UNCHANGED Promise!vars
BY DEF Promise!vars

\* A step inside getSnapshot, from one of its labels to another.
LEMMA ReadStep ==
    ASSUME TypeOK, NEW t \in Threads, NEW label \in ReadSection, Goto(t, label),
           pc[t] \in ReadSection
    PROVE  Phases' = Phases
BY PhaseValues, PhaseMoves DEF Phases

\* The three ways to change the map are the promise's mutations.
LEMMA MutateRefines ==
    ASSUME StoreInv, NEW t \in Threads, NEW map \in Map, Mutate(t, map),
           Phase(pc[t]) = "idle", Promise!Mutation(numbers, map)
    PROVE  Promise!Mutate(t)
<1>1. Phases' = [Phases EXCEPT ![t] = "mutated"] /\ Phases[t] = "idle"
  BY PhaseValues, PhaseMoves DEF Mutate, StoreInv, Phases
<1>2. numbers = history[Len(history)]
  BY DEF StoreInv, HistoryInv
<1> QED
  BY <1>1, <1>2 DEF Promise!Mutate, Promise!Move, Mutate, Map

LEMMA InitRefines == Init => Promise!Init
<1> SUFFICES ASSUME Init PROVE Promise!Init
  OBVIOUS
<1>1. Phases = [t \in Threads |-> "idle"]
  BY PhaseValues DEF Init, Phases
<1>2. NoSnapshot = Promise!Nothing /\ EmptyMap = Promise!Nothing.map
  BY DEF NoSnapshot, EmptyMap, Promise!Nothing
<1> QED
  BY <1>1, <1>2 DEF Init, Promise!Init

\* A find refuses, which nobody but its caller sees, or reserves the lock.
LEMMA FindHidden ==
    ASSUME TypeOK, NEW t \in Threads, NEW n, pc[t] = "idle",
           NEW label \in {"emplace", "erase"}, NEW code,
           Refuse(t, code) \/ Proceed(t, n, label)
    PROVE  UNCHANGED Promise!vars
<1>1. CASE Refuse(t, code)
  BY <1>1, HiddenStep DEF Refuse, dataVars, Phases
<1>2. CASE Proceed(t, n, label)
  <2>1. Phases' = Phases
    <3>1. label \in PC /\ Phase(label) = Phase(pc[t])
      BY PhaseValues
    <3>2. Phases' = [Phases EXCEPT ![t] = Phase(label)]
      BY <1>2, <3>1, PhaseMoves DEF Proceed
    <3> QED
      BY <3>1, <3>2 DEF Phases
  <2> QED
    BY <1>2, <2>1, HiddenStep DEF Proceed, dataVars
<1> QED
  BY <1>1, <1>2

LEMMA StepRefines == StoreInv /\ [Next]_vars => [Promise!Next]_(Promise!vars)
<1> SUFFICES ASSUME StoreInv, [Next]_vars
             PROVE  Promise!Next \/ UNCHANGED Promise!vars
  OBVIOUS
<1>t. TypeOK
  BY DEF StoreInv
<1>1. ASSUME NEW t \in Threads, NEW n \in Numbers, InsertFind(t, n)
      PROVE  UNCHANGED Promise!vars
  BY <1>1, <1>t, FindHidden DEF InsertFind
<1>2. ASSUME NEW t \in Threads, InsertPut(t)
      PROVE  Promise!Next
  <2>1. PICK now \in Timestamps : Mutate(t, [numbers EXCEPT ![arg[t]] = now])
    BY <1>2 DEF InsertPut
  <2>2. arg[t] \in Numbers /\ numbers[arg[t]] = Absent /\ Phase(pc[t]) = "idle"
    BY <1>2, PhaseValues DEF InsertPut, StoreInv, LockInv
  <2>3. Promise!Mutation(numbers, [numbers EXCEPT ![arg[t]] = now])
    BY <2>2 DEF Promise!Mutation
  <2> QED
    BY <1>t, <2>1, <2>2, <2>3, WrittenMaps, MutateRefines DEF Promise!Next
<1>3. ASSUME NEW t \in Threads, NEW n \in Numbers, RemoveFind(t, n)
      PROVE  UNCHANGED Promise!vars
  BY <1>3, <1>t, FindHidden DEF RemoveFind
<1>4. ASSUME NEW t \in Threads, RemoveErase(t)
      PROVE  Promise!Next
  <2>1. arg[t] \in Numbers /\ numbers[arg[t]] # Absent /\ Phase(pc[t]) = "idle"
    BY <1>4, PhaseValues DEF RemoveErase, StoreInv, LockInv
  <2>2. Promise!Mutation(numbers, [numbers EXCEPT ![arg[t]] = Absent])
    BY <2>1 DEF Promise!Mutation
  <2> QED
    BY <1>4, <1>t, <2>1, <2>2, WrittenMaps, MutateRefines DEF RemoveErase, Promise!Next
<1>5. ASSUME NEW t \in Threads, Clear(t)
      PROVE  Promise!Next
  <2>1. Phase(pc[t]) = "idle" /\ Promise!Mutation(numbers, EmptyMap)
    BY <1>5, PhaseValues DEF Clear, Promise!Mutation, Promise!Nothing, EmptyMap
  <2> QED
    BY <1>5, <2>1, EmptyMapType, MutateRefines DEF Clear, Promise!Next
<1>6. ASSUME NEW t \in Threads, NotifyDataChanged(t)
      PROVE  Promise!Next
  <2>1. Phases' = [Phases EXCEPT ![t] = "idle"] /\ Phases[t] = "mutated"
    BY <1>6, <1>t, PhaseValues, PhaseMoves DEF NotifyDataChanged, Completed, Phases, ReadSection
  <2>2. Promise!CompleteMutation(t)
    BY <1>6, <2>1
       DEF NotifyDataChanged, Completed, Later, dataVars, Promise!CompleteMutation,
           Promise!Move, Promise!Raise
  <2> QED
    BY <2>2 DEF Promise!Next
<1>7. ASSUME NEW t \in Threads, Size(t)
      PROVE  UNCHANGED Promise!vars
  BY <1>7, HiddenStep DEF Size, dataVars, Phases
<1>8. ASSUME NEW t \in Threads, PrintAll(t)
      PROVE  Promise!Next
  <2>1. Phases' = [Phases EXCEPT ![t] = "printing"] /\ Phases[t] = "idle"
    BY <1>8, <1>t, PhaseValues, PhaseMoves DEF PrintAll, Phases, ReadSection
  <2>2. Promise!BeginPrint(t)
    BY <1>8, <2>1 DEF PrintAll, dataVars, Promise!BeginPrint, Promise!Move
  <2> QED
    BY <2>2 DEF Promise!Next
<1>9. ASSUME NEW t \in Threads, CheckSnapshot(t)
      PROVE  UNCHANGED Promise!vars
  <2>1. Phases' = Phases
    BY <1>9, <1>t, ReadStep DEF CheckSnapshot, ReadSection
  <2> QED
    BY <1>9, <2>1, HiddenStep DEF CheckSnapshot, dataVars
<1>10. ASSUME NEW t \in Threads, CompareVersions(t)
       PROVE  UNCHANGED Promise!vars
  <2>1. Phases' = Phases
    BY <1>10, <1>t, ReadStep DEF CompareVersions, ReadSection
  <2> QED
    BY <1>10, <2>1, HiddenStep DEF CompareVersions, dataVars
<1>11. ASSUME NEW t \in Threads, LockAndRecheck(t)
       PROVE  UNCHANGED Promise!vars
  <2>1. Phases' = Phases
    BY <1>11, <1>t, ReadStep DEF LockAndRecheck, ReadSection
  <2> QED
    BY <1>11, <2>1, HiddenStep DEF LockAndRecheck, dataVars, localVars
<1>12. ASSUME NEW t \in Threads, CopyData(t)
       PROVE  UNCHANGED Promise!vars
  <2>1. Phases' = Phases
    BY <1>12, <1>t, ReadStep DEF CopyData, ReadSection
  <2> QED
    BY <1>12, <2>1, HiddenStep DEF CopyData, dataVars, localVars
<1>13. ASSUME NEW t \in Threads, LoadDataVersion(t)
       PROVE  UNCHANGED Promise!vars
  <2>1. Phases' = Phases
    BY <1>13, <1>t, ReadStep DEF LoadDataVersion, ReadSection
  <2> QED
    BY <1>13, <2>1, HiddenStep DEF LoadDataVersion, dataVars
<1>14. ASSUME NEW t \in Threads, StoreSnapshotVersion(t)
       PROVE  UNCHANGED Promise!vars
  <2>1. Phases' = Phases
    BY <1>14, <1>t, ReadStep DEF StoreSnapshotVersion, ReadSection
  <2> QED
    BY <1>14, <2>1, HiddenStep DEF StoreSnapshotVersion, dataVars
<1>15. ASSUME NEW t \in Threads, FetchSnapshot(t)
       PROVE  Promise!Next
  <2>1. Phases' = [Phases EXCEPT ![t] = "answered"] /\ Phases[t] = "printing"
    BY <1>15, <1>t, PhaseValues, PhaseMoves DEF FetchSnapshot, Phases, ReadSection
  <2> DEFINE i == cachedSnapshot.taken
  <2>2. i \in floor[t] .. Len(history) /\ cachedSnapshot.map = history[i]
    BY <1>15 DEF FetchSnapshot, StoreInv, TypeOK, HistoryInv, ReaderInv, IsSnapshotOf
  <2>3. cachedSnapshot = [map |-> history[i], taken |-> i]
    BY <1>t, <2>2 DEF TypeOK, SnapshotRecord
  <2>4. Promise!AnswerPrint(t)
    BY <1>15, <2>1, <2>2, <2>3
       DEF FetchSnapshot, dataVars, Promise!AnswerPrint, Promise!Move
  <2> QED
    BY <2>4 DEF Promise!Next
<1>16. ASSUME NEW t \in Threads, FormatSnapshot(t)
       PROVE  Promise!Next
  <2>1. Phases' = [Phases EXCEPT ![t] = "idle"] /\ Phases[t] = "answered"
    BY <1>16, <1>t, PhaseValues, PhaseMoves DEF FormatSnapshot, Phases, ReadSection
  <2>2. NoSnapshot = Promise!Nothing
    BY DEF NoSnapshot, EmptyMap, Promise!Nothing
  <2>3. Promise!CompletePrint(t)
    BY <1>16, <2>1, <2>2
       DEF FormatSnapshot, Later, dataVars, Promise!CompletePrint, Promise!Move,
           Promise!Raise
  <2> QED
    BY <2>3 DEF Promise!Next
<1>17. CASE UNCHANGED vars
  BY <1>17, HiddenStep DEF vars, dataVars, localVars, Phases
<1> QED
  BY <1>1, <1>2, <1>3, <1>4, <1>5, <1>6, <1>7, <1>8, <1>9, <1>10, <1>11, <1>12, <1>13,
     <1>14, <1>15, <1>16, <1>17
     DEF Next, Call, Continue

(* The locks, the cache and the version counters together implement atomic *)
(* mutations and whole, fresh prints (NumberStore.cxx:12-101,              *)
(* SnapshotManager.cxx:8-24).                                              *)
THEOREM StoreKeepsItsPromise == Spec => KeepsItsPromise
BY InitRefines, StepRefines, StoreInvariant, PTL DEF Spec, KeepsItsPromise, Promise!Spec
=============================================================================
