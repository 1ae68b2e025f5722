---------------------------- MODULE InstancesProofs ----------------------------
(***************************************************************************)
(* Proofs about Instances, for any sets of daemons and clients. The        *)
(* argument: the lock is held by one daemon at most, because TryLock gives *)
(* it only when no process has a handle of the mutex and its holder keeps  *)
(* its handle; and a daemon makes pipe instances only while it holds it.   *)
(***************************************************************************)
EXTENDS Instances, TLAPS

\* The lock goes with a handle, and a daemon serves with the lock alone.
LockInv ==
    /\ \A d \in Daemons : isOwner[d] => d \in handles
    /\ \A d, e \in Daemons : isOwner[d] /\ isOwner[e] => d = e
    /\ \A d \in Daemons : main[d] \in {"loop", "created", "waiting"} <=> isOwner[d]

\* An instance has a caller from the open to the hand-over, and then alone.
CallerInv == \A d \in Daemons : instance[d] = "taken" <=> caller[d] # NoClient

InstancesInv == TypeOK /\ CallerInv /\ LockInv

LEMMA InitInv == Init => InstancesInv
BY InstancesAssumption DEF Init, InstancesInv, TypeOK, CallerInv, LockInv

(* Types are kept by every step, and so is the pairing of instance and     *)
(* caller, which the hand-over in Accept needs.                            *)
LEMMA NextType == InstancesInv /\ [Next]_vars => (TypeOK /\ CallerInv)'
<1> SUFFICES ASSUME TypeOK, CallerInv, [Next]_vars PROVE (TypeOK /\ CallerInv)'
    BY DEF InstancesInv
<1> USE InstancesAssumption DEF TypeOK, CallerInv, MainTo, ClientTo, InstanceIs, CallerIs, mutexVars, pipeVars
<1>1. ASSUME NEW d \in Daemons, TryLock(d) PROVE (TypeOK /\ CallerInv)'
    BY <1>1 DEF TryLock
<1>2. ASSUME NEW d \in Daemons, GiveUp(d) PROVE (TypeOK /\ CallerInv)'
    BY <1>2 DEF GiveUp
<1>3. ASSUME NEW d \in Daemons, Unlock(d) PROVE (TypeOK /\ CallerInv)'
    BY <1>3 DEF Unlock
<1>4. ASSUME NEW d \in Daemons, End(d) PROVE (TypeOK /\ CallerInv)'
    BY <1>4 DEF End
<1>5. ASSUME NEW d \in Daemons, CreateInstance(d) PROVE (TypeOK /\ CallerInv)'
    BY <1>5 DEF CreateInstance
<1>6. ASSUME NEW d \in Daemons, Wait(d) PROVE (TypeOK /\ CallerInv)'
    BY <1>6 DEF Wait
<1>7. ASSUME NEW d \in Daemons, Accept(d) PROVE (TypeOK /\ CallerInv)'
    BY <1>7 DEF Accept
<1>8. ASSUME NEW d \in Daemons, AcceptGone(d) \/ AcceptFails(d) PROVE (TypeOK /\ CallerInv)'
    BY <1>8 DEF AcceptGone, AcceptFails
<1>9. ASSUME NEW c \in Clients, StartClient(c) PROVE (TypeOK /\ CallerInv)'
    BY <1>9 DEF StartClient
<1>10. ASSUME NEW c \in Clients, WaitNamedPipe(c) PROVE (TypeOK /\ CallerInv)'
    BY <1>10 DEF WaitNamedPipe
<1>11. ASSUME NEW c \in Clients, OpenPipe(c) PROVE (TypeOK /\ CallerInv)'
    BY <1>11 DEF OpenPipe, Free
<1>12. ASSUME NEW c \in Clients, LeavePipe(c) PROVE (TypeOK /\ CallerInv)'
    BY <1>12 DEF LeavePipe
<1>13. ASSUME NEW d \in Daemons, CloseMutex(d) \/ Reap(d) PROVE (TypeOK /\ CallerInv)'
    BY <1>13 DEF CloseMutex, Reap
<1>14. ASSUME NEW d \in Daemons, CloseInstance(d) \/ CloseConnection(d) PROVE (TypeOK /\ CallerInv)'
    BY <1>14 DEF CloseInstance, CloseConnection
<1>15. CASE UNCHANGED vars
    BY <1>15 DEF vars
<1> QED
    BY <1>1, <1>2, <1>3, <1>4, <1>5, <1>6, <1>7, <1>8, <1>9, <1>10, <1>11, <1>12, <1>13,
       <1>14, <1>15
       DEF Next, Vanish, Answer

(* The lock invariant: only the steps of SingleInstanceManager, of the end *)
(* of a process and of acceptConnection touch what it speaks of.           *)
LEMMA NextLock == InstancesInv /\ [Next]_vars => LockInv'
<1> SUFFICES ASSUME TypeOK, LockInv, [Next]_vars PROVE LockInv'
    BY DEF InstancesInv
<1> USE DEF TypeOK, LockInv, MainTo, mutexVars, pipeVars
<1>1. ASSUME NEW d \in Daemons, TryLock(d) PROVE LockInv'
    <2>1. CASE handles = {}
        <3>1. \A e \in Daemons : ~isOwner[e]
            BY <2>1
        <3> QED
            BY <1>1, <2>1, <3>1 DEF TryLock
    <2>2. CASE handles # {}
        <3>1. ~isOwner[d]'
            BY <1>1, <2>2 DEF TryLock
        <3>2. \A e \in Daemons : e # d => (isOwner[e]' <=> isOwner[e]) /\ main'[e] = main[e]
            BY <1>1 DEF TryLock
        <3>3. main'[d] = "refused" /\ handles \subseteq handles'
            BY <1>1, <2>2 DEF TryLock
        <3> QED
            BY <3>1, <3>2, <3>3
    <2> QED
        BY <2>1, <2>2
<1>2. ASSUME NEW d \in Daemons, GiveUp(d) PROVE LockInv'
    BY <1>2 DEF GiveUp
<1>3. ASSUME NEW d \in Daemons, Unlock(d) PROVE LockInv'
    BY <1>3 DEF Unlock
<1>4. ASSUME NEW d \in Daemons, End(d) PROVE LockInv'
    BY <1>4 DEF End
<1>5. ASSUME NEW d \in Daemons, CreateInstance(d) \/ Answer(d) PROVE LockInv'
    BY <1>5 DEF CreateInstance, Answer, Wait, Accept, AcceptGone, AcceptFails
<1>9. ASSUME NEW d \in Daemons, Vanish(d) PROVE LockInv'
    BY <1>9 DEF Vanish, CloseMutex, CloseInstance, CloseConnection, Reap
<1>6. CASE UNCHANGED <<main, mutexVars>>
    BY <1>6
<1>7. ASSUME NEW c \in Clients, StartClient(c) \/ WaitNamedPipe(c) \/ OpenPipe(c) \/ LeavePipe(c)
      PROVE UNCHANGED <<main, mutexVars>>
    BY <1>7 DEF StartClient, WaitNamedPipe, OpenPipe, LeavePipe
<1>8. CASE UNCHANGED vars
    BY <1>8 DEF vars
<1> QED
    BY <1>1, <1>2, <1>3, <1>4, <1>5, <1>6, <1>7, <1>8, <1>9 DEF Next

(* The inductive invariant of Instances: types, and the lock with its one  *)
(* holder (SingleInstanceManager.cxx:14-55).                               *)
THEOREM InstancesInvariant == Spec => []InstancesInv
<1>1. InstancesInv /\ [Next]_vars => InstancesInv'
    BY NextType, NextLock DEF InstancesInv
<1> QED
    BY InitInv, <1>1, PTL DEF Spec

(* Types, and pipe instances outlive acceptConnection only with the end of *)
(* the process (NamedPipeServer.cxx:35-61).                                *)
THEOREM TypeCorrectness == Spec => []TypeOK
BY InstancesInvariant, PTL DEF InstancesInv

(* One daemon at a time listens on the pipe, and it holds the lock         *)
(* (SingleInstanceManager.cxx:14-55, DaemonMain.cxx:20-78).                *)
THEOREM OneListener == Spec => []OneDaemonListens
<1>1. InstancesInv => OneDaemonListens
    BY DEF InstancesInv, TypeOK, LockInv, Listens, OneDaemonListens
<1> QED
    BY InstancesInvariant, <1>1, PTL
=============================================================================
