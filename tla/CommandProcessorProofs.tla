------------------------ MODULE CommandProcessorProofs ------------------------
(***************************************************************************)
(* The safety properties of CommandProcessor, for any number of handler    *)
(* threads, any numbers, any clock readings and any bound on the           *)
(* mutations: every step of the processor is one that NumberStore allows,  *)
(* and the effects of inserts, deletes and clears are linearizable.        *)
(***************************************************************************)
EXTENDS CommandProcessor, NumberStoreProofs

USE DEF Newest

\* The steps of one thread.
ThreadStep(t) ==
    (\E c \in Mutating \cup Reading : ProcessCommand(t, c)) \/ CallOn(t) \/ Process(t)

LEMMA StepsOfThreads == ProcessorNext <=> \E t \in Threads : ThreadStep(t)
BY DEF ProcessorNext, Requested, ThreadStep

\* A command that names a number names one of Numbers.
LEMMA CommandTypes ==
    ASSUME ProcessorTypeOK, NEW t \in Threads
    PROVE  /\ command[t].type \in {"INSERT", "DELETE_NUM"}
                => command[t].number \in Numbers /\ command[t] \in Mutating
           /\ command[t].type = "DELETE_ALL" => command[t] \in Mutating
           /\ command[t] \in Mutating => command[t].type \in {"INSERT", "DELETE_NUM", "DELETE_ALL"}
BY DEF ProcessorTypeOK, Mutating, Reading, NoCommand

-----------------------------------------------------------------------------
(* The store is only used through its methods. *)

\* The calls that change the map, or look whether they may.
LEMMA MutatorsCall ==
    ASSUME ProcessorTypeOK, NEW t \in Threads, CallInsert(t) \/ CallDelete(t) \/ CallClear(t)
    PROVE  Call(t) /\ CallStore(t)
<1>1. CASE CallInsert(t) \/ CallDelete(t)
  <2>1. command[t].number \in Numbers
    BY <1>1, CommandTypes DEF CallInsert, CallDelete, At
  <2> QED
    BY <1>1, <2>1 DEF CallInsert, CallDelete, Call
<1>2. CASE CallClear(t)
  BY <1>2 DEF CallClear, Call
<1> QED
  BY <1>1, <1>2

\* What one thread does in a step is a step of the store, or leaves it alone.
LEMMA StoreUnderCommands == ProcessorTypeOK /\ [ProcessorNext]_processorVars => [Next]_vars
<1> SUFFICES ASSUME ProcessorTypeOK, [ProcessorNext]_processorVars
             PROVE  [Next]_vars
  OBVIOUS
<1>1. ASSUME NEW t \in Threads, NEW c \in Mutating \cup Reading, ProcessCommand(t, c)
      PROVE  UNCHANGED vars
  BY <1>1 DEF ProcessCommand
<1>2. ASSUME NEW t \in Threads, CallOn(t)
      PROVE  Next
  <2>1. CASE CallInsert(t) \/ CallDelete(t) \/ CallClear(t)
    BY <2>1, MutatorsCall DEF Next
  <2>2. CASE CallPrint(t) \/ CountEntries(t)
    BY <2>2 DEF CallPrint, CountEntries, Next, Call
  <2> QED
    BY <1>2, <2>1, <2>2 DEF CallOn
<1>3. ASSUME NEW t \in Threads, Process(t)
      PROVE  Next \/ UNCHANGED vars
  <2>1. CASE StoreStep(t)
    BY <2>1 DEF StoreStep, Next
  <2>2. CASE ReplyPrint(t)
    BY <2>2 DEF ReplyPrint, Next, Continue
  <2>3. CASE ReplyInsert(t) \/ ReplyDelete(t) \/ ReplyDeleteAll(t) \/ ProcessExit(t)
    BY <2>3 DEF ReplyInsert, ReplyDelete, ReplyDeleteAll, ProcessExit
  <2> QED
    BY <1>3, <2>1, <2>2, <2>3 DEF Process
<1>4. CASE UNCHANGED processorVars
  BY <1>4 DEF processorVars
<1> QED
  BY <1>1, <1>2, <1>3, <1>4 DEF ProcessorNext, Requested

-----------------------------------------------------------------------------
(* Type correctness *)

\* A store's answer is one that a Response can carry.
LEMMA RespondType ==
    ASSUME ProcessorTypeOK, NEW t \in Threads, NEW i \in Nat,
           NEW code \in {"none", "SUCCESS", "DATA", "DUPLICATE_NUMBER", "NUMBER_NOT_FOUND"},
           NEW value \in Nat, NEW data \in Map,
           Respond(t, Reply(code, value, data), i)
    PROVE  /\ reply' \in [Threads -> [code : {"none", "SUCCESS", "DATA", "DUPLICATE_NUMBER",
                                              "NUMBER_NOT_FOUND"},
                                      value : Nat, data : Map]]
           /\ known' \in [Threads -> Nat]
           /\ stage' = [stage EXCEPT ![t] = "waiting"]
           /\ UNCHANGED <<command, count, since>>
BY DEF ProcessorTypeOK, Respond, Reply, Later, Enter

\* A step of the store moves the control of the thread that makes it only.
LEMMA StoreFrame ==
    ASSUME TypeOK, NEW t \in Threads, NEW u \in Threads, u # t,
           Call(t) \/ Continue(t) \/ LockAndRecheck(t) \/ FetchSnapshot(t)
    PROVE  pc'[u] = pc[u] /\ ret'[u] = ret[u] /\ arg'[u] = arg[u]
<1>t. pc \in [Threads -> PC] /\ DOMAIN ret = Threads /\ DOMAIN arg = Threads
  BY DEF TypeOK
<1>1. CASE \E n \in Numbers : InsertFind(t, n) \/ RemoveFind(t, n)
  BY <1>t, <1>1 DEF InsertFind, RemoveFind, Refuse, Proceed, Return, Goto
<1>2. CASE InsertPut(t) \/ RemoveErase(t) \/ Clear(t)
  BY <1>t, <1>2 DEF InsertPut, RemoveErase, Clear, Mutate, Return, Goto
<1>3. CASE NotifyDataChanged(t) \/ Size(t) \/ PrintAll(t)
  BY <1>t, <1>3 DEF NotifyDataChanged, Completed, Size, PrintAll, Return, Goto
<1>4. CASE CheckSnapshot(t) \/ CompareVersions(t) \/ LockAndRecheck(t)
  BY <1>t, <1>4 DEF CheckSnapshot, CompareVersions, LockAndRecheck, localVars, Goto
<1>5. CASE CopyData(t) \/ LoadDataVersion(t) \/ StoreSnapshotVersion(t)
  BY <1>t, <1>5 DEF CopyData, LoadDataVersion, StoreSnapshotVersion, localVars, Goto
<1>6. CASE FetchSnapshot(t) \/ FormatSnapshot(t)
  BY <1>t, <1>6 DEF FetchSnapshot, FormatSnapshot, Goto
<1> QED
  BY <1>1, <1>2, <1>3, <1>4, <1>5, <1>6 DEF Call, Continue

LEMMA ProcessorTypeStep ==
    TypeOK /\ TypeOK' /\ ProcessorTypeOK /\ [ProcessorNext]_processorVars => ProcessorTypeOK'
<1> SUFFICES ASSUME TypeOK, TypeOK', ProcessorTypeOK, [ProcessorNext]_processorVars
             PROVE  ProcessorTypeOK'
  OBVIOUS
<1> USE DEF ProcessorTypeOK
<1>t. /\ Len(history) \in Nat /\ Len(history') \in Nat
      /\ DOMAIN pc = Threads /\ DOMAIN pc' = Threads
      /\ \A t \in Threads : ret[t].value \in Nat /\ ret'[t].value \in Nat
      /\ \A t \in Threads :
            ret[t].code \in {"none", "SUCCESS", "DUPLICATE_NUMBER", "NUMBER_NOT_FOUND"}
  BY DEF TypeOK
<1>1. ASSUME NEW t \in Threads, NEW c \in Mutating \cup Reading, ProcessCommand(t, c)
      PROVE  ProcessorTypeOK'
  <2>1. NoReply \in [code : {"none", "SUCCESS", "DATA", "DUPLICATE_NUMBER", "NUMBER_NOT_FOUND"},
                     value : Nat, data : Map]
    BY EmptyMapType DEF NoReply, Reply
  <2> QED
    BY <1>t, <1>1, <2>1 DEF ProcessCommand, Enter, vars
<1>2. ASSUME NEW t \in Threads, Call(t), CallStore(t)
      PROVE  ProcessorTypeOK'
  <2>1. \A u \in Threads : pc'[u] # "idle" => stage'[u] = "called"
    BY <1>2, StoreFrame DEF CallStore, Enter
  <2> QED
    BY <1>t, <1>2, <2>1 DEF CallStore, Enter
<1>3. ASSUME NEW t \in Threads, StoreStep(t)
      PROVE  ProcessorTypeOK'
  <2>1. pc[t] # "idle"
    BY <1>3
       DEF StoreStep, Continue, InsertPut, RemoveErase, NotifyDataChanged, CheckSnapshot,
           CompareVersions, LockAndRecheck, CopyData, LoadDataVersion,
           StoreSnapshotVersion, FetchSnapshot, FormatSnapshot
  <2>2. \A u \in Threads : pc'[u] # "idle" => stage'[u] = "called"
    BY <1>3, <2>1, StoreFrame DEF StoreStep
  <2> QED
    BY <1>t, <1>3, <2>2 DEF StoreStep
<1>4. ASSUME NEW t \in Threads, CallPrint(t)
      PROVE  ProcessorTypeOK'
  <2>1. \A u \in Threads : pc'[u] # "idle" => stage'[u] = "called"
    BY <1>4, StoreFrame DEF CallPrint, Call, Enter
  <2> QED
    BY <1>4, <2>1 DEF CallPrint, Enter
<1>5. ASSUME NEW t \in Threads, CountEntries(t)
      PROVE  ProcessorTypeOK'
  <2>1. pc[t] = "idle" /\ pc' = pc
    BY <1>5 DEF CountEntries, Size
  <2> QED
    BY <1>t, <1>5, <2>1 DEF CountEntries, Enter
\* A reply leaves the thread outside the store.
<1>r. ASSUME NEW t \in Threads, NEW i \in Nat, NEW value \in Nat, NEW data \in Map,
             NEW code \in {"none", "SUCCESS", "DATA", "DUPLICATE_NUMBER", "NUMBER_NOT_FOUND"},
             Respond(t, Reply(code, value, data), i), effect' \in [Threads -> Nat],
             pc'[t] = "idle", \A u \in Threads \ {t} : pc'[u] = pc[u]
      PROVE  ProcessorTypeOK'
  BY <1>r, RespondType
<1>6. ASSUME NEW t \in Threads,
             HasReturned(t, "INSERT") \/ HasReturned(t, "DELETE_NUM") \/ HasReturned(t, "DELETE_ALL")
                \/ At(t, "EXIT", "call"),
             UNCHANGED <<vars, effect>>,
             NEW value \in Nat, NEW i \in Nat,
             \/ RespondError(t)
             \/ Respond(t, Reply("SUCCESS", value, EmptyMap), i)
      PROVE  ProcessorTypeOK'
  <2>1. pc[t] = "idle" /\ pc' = pc /\ effect' = effect /\ effect[t] \in Nat
    BY <1>6 DEF HasReturned, At, vars
  <2>2. ret[t].code \in {"none", "SUCCESS", "DATA", "DUPLICATE_NUMBER", "NUMBER_NOT_FOUND"}
    BY <1>t
  <2>3. CASE RespondError(t)
    BY <1>r, <2>1, <2>2, <2>3, EmptyMapType DEF RespondError
  <2>4. CASE Respond(t, Reply("SUCCESS", value, EmptyMap), i)
    BY <1>r, <2>1, <2>4, EmptyMapType
  <2> QED
    BY <1>6, <2>3, <2>4
<1>7. ASSUME NEW t \in Threads, ReplyInsert(t)
      PROVE  ProcessorTypeOK'
  <2>1. \A now \in Timestamps : now \in Nat
    BY ConstantsAssumption
  <2> QED
    BY <1>6, <1>7, <2>1 DEF ReplyInsert
<1>8. ASSUME NEW t \in Threads, ReplyDelete(t)
      PROVE  ProcessorTypeOK'
  BY <1>t, <1>6, <1>8 DEF ReplyDelete
<1>9. ASSUME NEW t \in Threads, ReplyDeleteAll(t)
      PROVE  ProcessorTypeOK'
  BY <1>6, <1>9 DEF ReplyDeleteAll
<1>10. ASSUME NEW t \in Threads, ProcessExit(t)
      PROVE  ProcessorTypeOK'
  BY <1>6, <1>10 DEF ProcessExit
<1>11. ASSUME NEW t \in Threads, ReplyPrint(t)
      PROVE  ProcessorTypeOK'
  <2>1. snapshot[t].taken \in Nat /\ snapshot[t].map \in Map
    BY DEF TypeOK, SnapshotRecord
  <2>2. pc'[t] = "idle" /\ \A u \in Threads \ {t} : pc'[u] = pc[u]
    BY <1>t, <1>11, StoreFrame DEF ReplyPrint, FormatSnapshot, Goto
  <2>3. effect' \in [Threads -> Nat]
    BY <1>11, <2>1 DEF ReplyPrint
  <2> QED
    BY <1>r, <1>11, <2>1, <2>2, <2>3 DEF ReplyPrint
<1>12. CASE UNCHANGED processorVars
  BY <1>12 DEF processorVars, commandVars, vars
<1> QED
  BY <1>1, <1>2, <1>3, <1>4, <1>5, <1>7, <1>8, <1>9, <1>10, <1>11, <1>12, MutatorsCall
     DEF ProcessorNext, Requested, CallOn, Process

-----------------------------------------------------------------------------
(* Linearizability *)

LEMMA ProcessorInitInv == ProcessorInit => ProcessorInv
<1> SUFFICES ASSUME ProcessorInit PROVE ProcessorInv
  OBVIOUS
<1>1. ProcessorTypeOK
  BY EmptyMapType DEF ProcessorInit, Init, ProcessorTypeOK, NoReply, Reply
<1>2. ASSUME NEW t \in Threads
      PROVE  ControlInv(t) /\ AnswerInv(t) /\ CountInv(t) /\ ~HasMutated(t)
  BY <1>2
     DEF ProcessorInit, Init, ControlInv, CountInv, AnswerInv, HasAnswer, HasMutated, HasChanged, NoReply,
         Reply, NoCommand
<1> QED
  BY <1>1, <1>2 DEF ProcessorInv, OwnChangeInv

\* History is only ever extended, by one mutation at a time.
LEMMA HistoryGrows ==
    ASSUME StoreInv, [Next]_vars
    PROVE  /\ Len(history) \in Nat /\ Len(history) >= 1
           /\ Len(history') \in {Len(history), Len(history) + 1}
           /\ \A i \in 1 .. Len(history) : history'[i] = history[i]
           /\ numbers = history[Len(history)] /\ numbers' = history'[Len(history')]
<1>t. TypeOK /\ HistoryInv /\ Len(history) \in Nat /\ HistoryInv'
  BY StoreInvStep DEF StoreInv, TypeOK
<1>n. Len(history) >= 1 /\ numbers = history[Len(history)] /\ numbers' = history'[Len(history')]
  BY <1>t DEF HistoryInv
<1>1. CASE UNCHANGED history
  BY <1>t, <1>n, <1>1
<1>2. ASSUME NEW t \in Threads, InsertPut(t)
      PROVE  /\ Len(history') = Len(history) + 1
             /\ \A i \in 1 .. Len(history) : history'[i] = history[i]
  BY <1>t, <1>2, MutateHistory, WrittenMaps DEF InsertPut
<1>3. ASSUME NEW t \in Threads, RemoveErase(t)
      PROVE  /\ Len(history') = Len(history) + 1
             /\ \A i \in 1 .. Len(history) : history'[i] = history[i]
  BY <1>t, <1>3, MutateHistory, WrittenMaps DEF RemoveErase
<1>4. ASSUME NEW t \in Threads, Clear(t)
      PROVE  /\ Len(history') = Len(history) + 1
             /\ \A i \in 1 .. Len(history) : history'[i] = history[i]
  BY <1>t, <1>4, MutateHistory, EmptyMapType DEF Clear
<1>5. ASSUME NEW t \in Threads,
             \/ \E n \in Numbers : InsertFind(t, n) \/ RemoveFind(t, n)
             \/ Size(t) \/ PrintAll(t)
             \/ NotifyDataChanged(t) \/ CheckSnapshot(t) \/ CompareVersions(t)
             \/ CopyData(t) \/ LoadDataVersion(t) \/ StoreSnapshotVersion(t)
             \/ FormatSnapshot(t) \/ LockAndRecheck(t) \/ FetchSnapshot(t)
      PROVE  UNCHANGED history
  BY <1>5
     DEF InsertFind, RemoveFind, Refuse, Proceed, Size, PrintAll, NotifyDataChanged, Completed,
         CheckSnapshot, CompareVersions, CopyData, LoadDataVersion, StoreSnapshotVersion,
         FormatSnapshot, LockAndRecheck, FetchSnapshot, dataVars
<1>6. CASE UNCHANGED vars
  BY <1>6, <1>1 DEF vars, dataVars
<1> QED
  BY <1>t, <1>n, <1>1, <1>2, <1>3, <1>4, <1>5, <1>6 DEF Next, Call, Continue

\* What the invariant says of u reads these variables at u only, and history.
Untouched(u) ==
    /\ command'[u] = command[u] /\ stage'[u] = stage[u] /\ reply'[u] = reply[u]
    /\ since'[u] = since[u] /\ effect'[u] = effect[u] /\ count'[u] = count[u]
    /\ pc'[u] = pc[u] /\ ret'[u] = ret[u] /\ arg'[u] = arg[u]

\* A step of one thread leaves what belongs to the others alone.
LEMMA OthersUntouched ==
    ASSUME TypeOK, ProcessorTypeOK, NEW t \in Threads, ThreadStep(t),
           NEW u \in Threads, u # t
    PROVE  Untouched(u)
<1> USE DEF Untouched
<1>t. /\ DOMAIN command = Threads /\ DOMAIN stage = Threads /\ DOMAIN reply = Threads
      /\ DOMAIN since = Threads /\ DOMAIN effect = Threads /\ DOMAIN count = Threads
  BY DEF ProcessorTypeOK
<1>1. CASE \E c \in Mutating \cup Reading : ProcessCommand(t, c)
  BY <1>t, <1>1 DEF ProcessCommand, Enter, vars, localVars
<1>2. CASE CallInsert(t) \/ CallDelete(t) \/ CallClear(t)
  BY <1>t, <1>2, MutatorsCall, StoreFrame DEF CallStore, Enter
<1>3. CASE CallPrint(t) \/ CountEntries(t)
  BY <1>t, <1>3, StoreFrame DEF CallPrint, CountEntries, Call, Enter
<1>4. CASE StoreStep(t)
  BY <1>t, <1>4, StoreFrame DEF StoreStep
<1>5. CASE ReplyPrint(t)
  BY <1>t, <1>5, StoreFrame DEF ReplyPrint, Continue, Respond, Enter
<1>6. CASE ReplyInsert(t) \/ ReplyDelete(t) \/ ReplyDeleteAll(t) \/ ProcessExit(t)
  BY <1>t, <1>6
     DEF ReplyInsert, ReplyDelete, ReplyDeleteAll, ProcessExit, RespondError, Respond, Enter,
         vars, localVars
<1> QED
  BY <1>1, <1>2, <1>3, <1>4, <1>5, <1>6 DEF ThreadStep, CallOn, Process

\* What was explained by history remains so as history grows.
LEMMA UntouchedStays ==
    ASSUME StoreInv, ProcessorInv, [Next]_vars, NEW u \in Threads, Untouched(u)
    PROVE  ControlInv(u)' /\ AnswerInv(u)' /\ HasMutated(u)' = HasMutated(u)
<1>t. /\ ControlInv(u) /\ AnswerInv(u)
      /\ since[u] \in Nat /\ effect[u] \in Nat
      /\ NoCommand \notin Mutating
  BY DEF ProcessorInv, ProcessorTypeOK, NoCommand, Mutating
<1>h. /\ Len(history) \in Nat
      /\ Len(history') \in {Len(history), Len(history) + 1}
      /\ \A i \in 1 .. Len(history) : history'[i] = history[i]
  BY HistoryGrows
<1>1. ControlInv(u)'
  BY <1>t, <1>h DEF ControlInv, Untouched
<1>2. HasMutated(u)' = HasMutated(u)
  BY DEF HasMutated, HasChanged, HasAnswer, Untouched
<1>3. ASSUME command[u] \in Mutating
      PROVE  /\ effect[u] \in since[u] + 1 .. Len(history) =>
                  /\ effect[u] \in since[u] + 1 .. Len(history')
                  /\ history'[effect[u]] = history[effect[u]]
                  /\ history'[effect[u] - 1] = history[effect[u] - 1]
             /\ effect[u] \in since[u] .. Len(history) =>
                  /\ effect[u] \in since[u] .. Len(history')
                  /\ history'[effect[u]] = history[effect[u]]
  BY <1>t, <1>h, <1>3 DEF ControlInv
<1>4. HasAnswer(u)' => Sequential(u, ret[u].code, ret[u].value)'
  <2> SUFFICES ASSUME HasAnswer(u)' PROVE Sequential(u, ret[u].code, ret[u].value)'
    OBVIOUS
  <2>1. command[u] \in Mutating /\ Sequential(u, ret[u].code, ret[u].value)
    BY <1>t DEF HasAnswer, AnswerInv, Untouched
  <2> QED
    BY <1>3, <2>1 DEF Sequential, Untouched
<1>5. command'[u] \in Mutating /\ reply'[u].code # "none"
        => Sequential(u, reply[u].code, reply[u].value)'
  <2> SUFFICES ASSUME command'[u] \in Mutating, reply'[u].code # "none"
               PROVE  Sequential(u, reply[u].code, reply[u].value)'
    OBVIOUS
  <2>1. command[u] \in Mutating /\ Sequential(u, reply[u].code, reply[u].value)
    BY <1>t DEF AnswerInv, Untouched
  <2> QED
    BY <1>3, <2>1 DEF Sequential, Untouched
<1> QED
  BY <1>1, <1>2, <1>4, <1>5 DEF AnswerInv

\* What a thread's own step has to establish; a mutation is at a new index.
Kept(t) ==
    /\ ControlInv(t)' /\ AnswerInv(t)'
    /\ HasMutated(t)' => \/ HasMutated(t) /\ effect'[t] = effect[t]
                         \/ effect'[t] = Len(history) + 1

\* What the types and the invariant say of one thread.
LEMMA ThreadFacts ==
    ASSUME StoreInv, ProcessorInv, NEW t \in Threads
    PROVE  /\ TypeOK /\ ProcessorTypeOK /\ ControlInv(t) /\ AnswerInv(t)
           /\ since[t] \in Nat /\ effect[t] \in Nat
           /\ t \in DOMAIN command /\ t \in DOMAIN stage /\ t \in DOMAIN reply
           /\ t \in DOMAIN since /\ t \in DOMAIN effect /\ t \in DOMAIN pc
           /\ t \in DOMAIN ret /\ t \in DOMAIN arg
           /\ NoCommand \notin Mutating /\ NoReply.code = "none"
           /\ pc[t] # "idle" => stage[t] = "called"
           /\ Len(history) \in Nat /\ Len(history) >= 1
<1>1. NoCommand \notin Mutating /\ NoReply.code = "none"
  BY DEF NoCommand, Mutating, NoReply, Reply
<1>2. TypeOK /\ ProcessorTypeOK /\ ControlInv(t) /\ AnswerInv(t) /\ Len(history) >= 1
  BY DEF ProcessorInv, StoreInv, HistoryInv
<1>3. /\ t \in DOMAIN pc /\ t \in DOMAIN ret /\ t \in DOMAIN arg /\ Len(history) \in Nat
  BY <1>2 DEF TypeOK
<1>4. /\ since[t] \in Nat /\ effect[t] \in Nat
      /\ t \in DOMAIN command /\ t \in DOMAIN stage /\ t \in DOMAIN reply
      /\ t \in DOMAIN since /\ t \in DOMAIN effect
      /\ pc[t] # "idle" => stage[t] = "called"
  BY <1>2 DEF ProcessorTypeOK
<1> QED
  BY <1>1, <1>2, <1>3, <1>4

LEMMA RequestKept ==
    ASSUME StoreInv, ProcessorInv, NEW t \in Threads,
           NEW c \in Mutating \cup Reading, ProcessCommand(t, c)
    PROVE  Kept(t)
<1>1. /\ command'[t] = c /\ reply'[t] = NoReply /\ since'[t] = Len(history)
      /\ stage'[t] = (IF c.type = "DELETE_ALL" THEN "size" ELSE "call")
      /\ pc[t] = "idle"
      /\ UNCHANGED <<history, pc, effect, arg>>
  BY ThreadFacts DEF ProcessCommand, Enter, vars, dataVars, localVars
<1>2. ControlInv(t)'
  BY <1>1, ThreadFacts DEF ControlInv
<1>3. AnswerInv(t)' /\ ~HasMutated(t)'
  BY <1>1, ThreadFacts DEF AnswerInv, HasAnswer, HasMutated, HasChanged
<1> QED
  BY <1>2, <1>3 DEF Kept

\* A call that looks at the map: the caller's command is at the newest state.
LEMMA CallFacts ==
    ASSUME StoreInv, ProcessorInv, [Next]_vars, NEW t \in Threads,
           CallInsert(t) \/ CallDelete(t) \/ CallClear(t)
    PROVE  /\ stage'[t] = "called" /\ effect'[t] = Len(history')
           /\ reply'[t] = NoReply /\ NoReply.code = "none"
           /\ UNCHANGED <<command, reply, since>>
           /\ command[t] \in Mutating /\ since[t] \in 1 .. Len(history)
<1>1. At(t, command[t].type, "call") /\ CallStore(t) /\ command[t] \in Mutating
  BY ThreadFacts, CommandTypes DEF CallInsert, CallDelete, CallClear, At
<1> QED
  BY <1>1, ThreadFacts DEF CallStore, Enter, At, ControlInv

LEMMA CallKept ==
    ASSUME StoreInv, ProcessorInv, [Next]_vars, NEW t \in Threads,
           CallInsert(t) \/ CallDelete(t) \/ CallClear(t)
    PROVE  Kept(t)
<1>h. /\ Len(history) \in Nat /\ Len(history) >= 1
      /\ Len(history') \in {Len(history), Len(history) + 1}
      /\ \A i \in 1 .. Len(history) : history'[i] = history[i]
      /\ numbers = history[Len(history)] /\ numbers' = history'[Len(history')]
  BY HistoryGrows
\* Refused: the newest state is the reason.
<1>1. ASSUME NEW code, code # "SUCCESS", Refuse(t, code), pc[t] = "idle",
             Refused(command[t], numbers, code)
      PROVE  Kept(t)
  <2>1. /\ ret'[t].code = code /\ pc'[t] = "idle" /\ history' = history
        /\ effect'[t] = Len(history)
    BY <1>1, ThreadFacts, CallFacts DEF Refuse, Return, Returned, dataVars
  <2>2. ControlInv(t)'
    BY <1>h, <2>1, CallFacts DEF ControlInv
  <2>3. Sequential(t, ret[t].code, ret[t].value)'
    BY <1>h, <1>1, <2>1, CallFacts DEF Sequential
  <2> QED
    BY <1>1, <2>1, <2>2, <2>3, CallFacts DEF Kept, AnswerInv, HasMutated, HasChanged
\* Under way: nothing is decided.
<1>2. ASSUME NEW label \in {"emplace", "erase"}, Proceed(t, command[t].number, label),
             label = "emplace" => command[t].type = "INSERT",
             label = "erase" => command[t].type = "DELETE_NUM"
      PROVE  Kept(t)
  <2>1. /\ pc'[t] = label /\ arg'[t] = command[t].number /\ history' = history
    BY <1>2, ThreadFacts DEF Proceed, Goto, dataVars
  <2>2. ControlInv(t)'
    BY <1>h, <1>2, <2>1, CallFacts DEF ControlInv
  <2>3. ~HasAnswer(t)'
    BY <1>2, <2>1 DEF HasAnswer
  <2> QED
    BY <2>2, <2>3, CallFacts DEF Kept, AnswerInv, HasMutated, HasChanged
<1>3. CASE CallInsert(t)
  <2>1. command[t].type = "INSERT" /\ InsertFind(t, command[t].number)
    BY <1>3 DEF CallInsert, At
  <2>2. CASE numbers[command[t].number] # Absent /\ Refuse(t, "DUPLICATE_NUMBER")
    BY <1>1, <2>1, <2>2 DEF InsertFind, Refused
  <2>3. CASE Proceed(t, command[t].number, "emplace")
    BY <1>2, <2>1, <2>3
  <2> QED
    BY <2>1, <2>2, <2>3 DEF InsertFind
<1>4. CASE CallDelete(t)
  <2>1. command[t].type = "DELETE_NUM" /\ RemoveFind(t, command[t].number)
    BY <1>4 DEF CallDelete, At
  <2>2. CASE numbers[command[t].number] = Absent /\ Refuse(t, "NUMBER_NOT_FOUND")
    BY <1>1, <2>1, <2>2 DEF RemoveFind, Refused
  <2>3. CASE Proceed(t, command[t].number, "erase")
    BY <1>2, <2>1, <2>3
  <2> QED
    BY <2>1, <2>2, <2>3 DEF RemoveFind
<1>5. CASE CallClear(t)
  <2>1. Clear(t) /\ command[t].type = "DELETE_ALL"
    BY <1>5 DEF CallClear, At
  <2>2. /\ ret'[t] = Returned("SUCCESS", 0) /\ pc'[t] = "notify" /\ numbers' = EmptyMap
        /\ Len(history') = Len(history) + 1
    BY <1>h, <2>1, ThreadFacts, MutateHistory, EmptyMapType
       DEF Clear, Mutate, Return, Goto, StoreInv
  <2>3. ControlInv(t)'
    BY <1>h, <2>2, CallFacts DEF ControlInv
  <2>4. Performs(command[t], history[effect[t] - 1], history[effect[t]], ret[t].value)'
    BY <1>h, <2>1, <2>2, CallFacts DEF Performs
  <2>5. Sequential(t, ret[t].code, ret[t].value)'
    BY <1>h, <2>2, <2>4, CallFacts DEF Sequential, Returned
  <2> QED
    BY <2>2, <2>3, <2>5, CallFacts DEF Kept, AnswerInv
<1> QED
  BY <1>3, <1>4, <1>5

\* Inside the store only the owner of a mutation, and of a version, moves on.
LEMMA StoreStepKept ==
    ASSUME StoreInv, ProcessorInv, [Next]_vars, NEW t \in Threads, StoreStep(t)
    PROVE  Kept(t)
<1>h. /\ Len(history) \in Nat /\ Len(history) >= 1
      /\ Len(history') \in {Len(history), Len(history) + 1}
      /\ \A i \in 1 .. Len(history) : history'[i] = history[i]
      /\ numbers = history[Len(history)] /\ numbers' = history'[Len(history')]
  BY HistoryGrows
<1>1. /\ UNCHANGED <<command, stage, reply, since>>
      /\ effect'[t] = IF Len(history') # Len(history) THEN Len(history') ELSE effect[t]
  BY ThreadFacts DEF StoreStep
<1>2. ASSUME pc[t] # "idle"
      PROVE  stage[t] = "called" /\ reply[t].code = "none" /\ reply[t] = NoReply
  BY <1>2, ThreadFacts DEF ControlInv
\* The two mutations under dataMutex.
<1>3. ASSUME pc[t] \in {"emplace", "erase"}, NEW map \in Map, Mutate(t, map), ret'[t].code = "SUCCESS",
             Performs(command[t], numbers, map, ret'[t].value), command[t] \in Mutating
      PROVE  Kept(t)
  <2>1. pc'[t] = "notify" /\ numbers' = map /\ Len(history') = Len(history) + 1
    BY <1>h, <1>3, ThreadFacts, MutateHistory DEF Mutate, Goto, StoreInv
  <2>2. effect'[t] = Len(history) + 1 /\ since[t] \in 1 .. Len(history)
    BY <1>h, <1>1, <1>3, <2>1, ThreadFacts DEF ControlInv
  <2>3. ControlInv(t)'
    BY <1>h, <1>1, <1>2, <1>3, <2>1, <2>2, ThreadFacts DEF ControlInv
  <2>4. Sequential(t, ret[t].code, ret[t].value)'
    <3>1. history'[effect'[t] - 1] = numbers /\ history'[effect'[t]] = map
      <4>1. effect'[t] - 1 = Len(history) /\ effect'[t] = Len(history')
        BY <1>h, <2>1, <2>2
      <4>2. history'[Len(history)] = history[Len(history)]
        BY <1>h
      <4> QED
        BY <1>h, <2>1, <4>1, <4>2
    <3> QED
      BY <1>h, <1>1, <1>3, <2>1, <2>2, <3>1 DEF Sequential
  <2> QED
    BY <1>1, <1>2, <1>3, <2>2, <2>3, <2>4 DEF Kept, AnswerInv
<1>4. CASE InsertPut(t)
  <2>1. PICK now \in Timestamps : Mutate(t, [numbers EXCEPT ![arg[t]] = now])
    BY <1>4 DEF InsertPut
  <2>2. /\ pc[t] = "emplace" /\ command[t].type = "INSERT" /\ arg[t] = command[t].number
        /\ numbers[arg[t]] = Absent /\ command[t] \in Mutating
    BY <1>4, ThreadFacts, CommandTypes DEF InsertPut, ControlInv, StoreInv, LockInv
  <2>3. ret'[t] = Returned("SUCCESS", 0)
    BY <1>4, ThreadFacts DEF InsertPut, Return
  <2>4. [numbers EXCEPT ![arg[t]] = now] \in Map
    BY ThreadFacts, WrittenMaps
  <2>5. Performs(command[t], numbers, [numbers EXCEPT ![arg[t]] = now], ret'[t].value)
    BY <2>2 DEF Performs
  <2> QED
    BY <1>3, <2>1, <2>2, <2>3, <2>4, <2>5 DEF Returned
<1>5. CASE RemoveErase(t)
  <2>1. /\ pc[t] = "erase" /\ command[t].type = "DELETE_NUM" /\ arg[t] = command[t].number
        /\ numbers[arg[t]] # Absent /\ command[t] \in Mutating
    BY <1>5, ThreadFacts, CommandTypes DEF RemoveErase, ControlInv, StoreInv, LockInv
  <2>2. ret'[t] = Returned("SUCCESS", numbers[arg[t]])
    BY <1>5, ThreadFacts DEF RemoveErase, Return
  <2>3. [numbers EXCEPT ![arg[t]] = Absent] \in Map
    BY ThreadFacts, WrittenMaps
  <2>4. Performs(command[t], numbers, [numbers EXCEPT ![arg[t]] = Absent], ret'[t].value)
    BY <2>1, <2>2 DEF Performs, Returned
  <2> QED
    BY <1>3, <1>5, <2>1, <2>2, <2>3, <2>4 DEF RemoveErase, Returned
\* The rest of a mutating call.
<1>6. CASE NotifyDataChanged(t)
  <2>1. /\ pc[t] = "notify" /\ pc'[t] = "idle" /\ ret' = ret /\ history' = history
    BY <1>6, ThreadFacts DEF NotifyDataChanged, Completed, Goto, dataVars
  <2>2. ControlInv(t)'
    BY <1>h, <1>1, <1>2, <2>1, ThreadFacts DEF ControlInv
  <2>3. HasAnswer(t) /\ Sequential(t, ret[t].code, ret[t].value)
    BY <1>2, <2>1, ThreadFacts DEF HasAnswer, ControlInv, AnswerInv
  <2>4. Sequential(t, ret[t].code, ret[t].value)'
    BY <1>1, <2>1, <2>3 DEF Sequential
  <2>5. effect'[t] = effect[t] /\ reply'[t].code = "none"
    BY <1>1, <1>2, <2>1
  <2>6. AnswerInv(t)'
    BY <2>4, <2>5 DEF AnswerInv
  <2>7. HasMutated(t)' => HasMutated(t)
    BY <2>1, <2>3, <2>5 DEF HasMutated, HasChanged
  <2> QED
    BY <2>2, <2>5, <2>6, <2>7 DEF Kept
\* A print: its command changes nothing.
<1>7. ASSUME pc[t] \in ReadSection, pc'[t] \in ReadSection \cup {"format"}, history' = history
      PROVE  Kept(t)
  <2>1. ControlInv(t)'
    BY <1>h, <1>1, <1>2, <1>7, ThreadFacts DEF ControlInv, ReadSection
  <2>2. ~HasAnswer(t)'
    BY <1>7 DEF HasAnswer, ReadSection
  <2>3. reply'[t].code = "none"
    BY <1>1, <1>2, <1>7 DEF ReadSection
  <2>4. AnswerInv(t)'
    BY <2>2, <2>3 DEF AnswerInv
  <2>5. ~HasMutated(t)'
    BY <2>2, <2>3 DEF HasMutated, HasChanged
  <2> QED
    BY <2>1, <2>4, <2>5 DEF Kept
<1>8. CASE CheckSnapshot(t) \/ CompareVersions(t) \/ LockAndRecheck(t)
  BY <1>7, <1>8, ThreadFacts
     DEF CheckSnapshot, CompareVersions, LockAndRecheck, Goto, dataVars, ReadSection
<1>9. CASE CopyData(t) \/ LoadDataVersion(t) \/ StoreSnapshotVersion(t) \/ FetchSnapshot(t)
  BY <1>7, <1>9, ThreadFacts
     DEF CopyData, LoadDataVersion, StoreSnapshotVersion, FetchSnapshot, Goto, dataVars,
         ReadSection
<1>10. ~FormatSnapshot(t)
  BY DEF StoreStep, FormatSnapshot
<1> QED
  BY <1>4, <1>5, <1>6, <1>8, <1>9, <1>10 DEF StoreStep, Continue

\* A call that only reads: a print begins, or processDeleteAll has counted.
LEMMA ReadCallKept ==
    ASSUME StoreInv, ProcessorInv, NEW t \in Threads, CallPrint(t) \/ CountEntries(t)
    PROVE  Kept(t)
<1>1. /\ UNCHANGED <<command, reply, since, effect, history>>
      /\ stage[t] # "waiting" /\ stage'[t] # "size"
  BY ThreadFacts DEF CallPrint, CountEntries, PrintAll, Size, At, Enter, dataVars
<1>2. reply'[t].code = "none" /\ reply'[t] = NoReply
  BY <1>1, ThreadFacts DEF ControlInv
<1>3. ~HasAnswer(t)' /\ pc'[t] \notin {"emplace", "erase", "notify"}
  <2>1. CASE CallPrint(t)
    BY <2>1, ThreadFacts DEF CallPrint, PrintAll, At, Goto, HasAnswer
  <2>2. CASE CountEntries(t)
    BY <2>2, ThreadFacts DEF CountEntries, Size, At, Enter, HasAnswer
  <2> QED
    BY <2>1, <2>2
<1>4. ControlInv(t)'
  BY <1>1, <1>2, <1>3, ThreadFacts DEF ControlInv
<1>5. AnswerInv(t)' /\ ~HasMutated(t)'
  BY <1>2, <1>3 DEF AnswerInv, HasMutated, HasChanged
<1> QED
  BY <1>4, <1>5 DEF Kept

\* The reply to a command that changes the map passes on what the store has answered.
LEMMA ReplyKept ==
    ASSUME StoreInv, ProcessorInv, NEW t \in Threads,
           ReplyInsert(t) \/ ReplyDelete(t) \/ ReplyDeleteAll(t)
    PROVE  Kept(t)
<1>1. HasAnswer(t) /\ Sequential(t, ret[t].code, ret[t].value) /\ pc[t] = "idle"
  BY ThreadFacts, CommandTypes
     DEF ReplyInsert, ReplyDelete, ReplyDeleteAll, HasReturned, At, HasAnswer, AnswerInv
<1>2. UNCHANGED <<command, since, effect, history, pc, arg>>
  BY DEF ReplyInsert, ReplyDelete, ReplyDeleteAll, RespondError, Respond, vars, dataVars, localVars
<1>3. stage'[t] = "waiting"
  BY ThreadFacts
     DEF ReplyInsert, ReplyDelete, ReplyDeleteAll, RespondError, Respond, Enter
<1>4. /\ reply'[t].code = ret[t].code
      /\ command[t].type = "DELETE_NUM" /\ ret[t].code = "SUCCESS" => reply'[t].value = ret[t].value
  <2>1. CASE RespondError(t)
    BY <2>1, ThreadFacts DEF RespondError, Respond, Reply
  <2>2. CASE ReplyInsert(t) /\ ~RespondError(t)
    BY <2>2, ThreadFacts DEF ReplyInsert, HasReturned, At, Respond, Reply
  <2>3. CASE ReplyDelete(t) /\ ~RespondError(t)
    BY <2>3, ThreadFacts DEF ReplyDelete, Respond, Reply
  <2>4. CASE ReplyDeleteAll(t)
    <3>1. command[t].type = "DELETE_ALL" /\ ret[t].code = "SUCCESS"
      BY <1>1, <2>4 DEF ReplyDeleteAll, HasReturned, At, Sequential, Refused
    <3> QED
      BY <2>4, <3>1, ThreadFacts DEF ReplyDeleteAll, Respond, Reply
  <2> QED
    BY <2>1, <2>2, <2>3, <2>4
<1>5. Sequential(t, reply[t].code, reply[t].value)'
  BY <1>1, <1>2, <1>4 DEF Sequential, Performs, Refused
<1>6. ControlInv(t)'
  BY <1>1, <1>2, <1>3, ThreadFacts DEF ControlInv
<1>7. ~HasAnswer(t)'
  BY <1>3 DEF HasAnswer
<1>8. AnswerInv(t)'
  BY <1>5, <1>7 DEF AnswerInv
<1>9. HasMutated(t)' => HasMutated(t) /\ effect'[t] = effect[t]
  BY <1>1, <1>2, <1>4, <1>7 DEF HasMutated, HasChanged
<1> QED
  BY <1>6, <1>8, <1>9 DEF Kept

\* The other two replies are not about a change.
LEMMA OtherReplyKept ==
    ASSUME StoreInv, ProcessorInv, NEW t \in Threads, ReplyPrint(t) \/ ProcessExit(t)
    PROVE  Kept(t)
<1>1. /\ UNCHANGED <<command, since, history>>
      /\ stage'[t] = "waiting" /\ pc'[t] = "idle"
      /\ command[t] \notin Mutating
  <2>1. CASE ReplyPrint(t)
    BY <2>1, ThreadFacts, CommandTypes
       DEF ReplyPrint, FormatSnapshot, Respond, Enter, Goto, At, dataVars
  <2>2. CASE ProcessExit(t)
    BY <2>2, ThreadFacts, CommandTypes DEF ProcessExit, Respond, Enter, At, vars, dataVars
  <2> QED
    BY <2>1, <2>2
<1>2. effect'[t] <= Len(history)
  <2>1. CASE ReplyPrint(t)
    BY <2>1, ThreadFacts DEF ReplyPrint, FormatSnapshot, StoreInv, HistoryInv, IsSnapshotOf
  <2>2. CASE ProcessExit(t)
    BY <2>2, ThreadFacts DEF ProcessExit, ControlInv
  <2> QED
    BY <2>1, <2>2
<1>3. ControlInv(t)'
  BY <1>1, <1>2, ThreadFacts DEF ControlInv
<1>4. AnswerInv(t)' /\ ~HasMutated(t)'
  BY <1>1 DEF AnswerInv, HasAnswer, HasMutated, HasChanged
<1> QED
  BY <1>3, <1>4 DEF Kept

LEMMA ThreadStepKept ==
    ASSUME StoreInv, ProcessorInv, [Next]_vars, NEW t \in Threads, ThreadStep(t)
    PROVE  Kept(t)
BY RequestKept, CallKept, ReadCallKept, StoreStepKept, ReplyKept, OtherReplyKept
   DEF ThreadStep, CallOn, Process

-----------------------------------------------------------------------------
(* The count of a delete-all *)

\* What has been counted stays so as history grows, and for a later bound.
LEMMA CountedStays ==
    ASSUME StoreInv, ProcessorInv, [Next]_vars, NEW u \in Threads, command[u] # NoCommand,
           NEW n, NEW i \in Int, NEW k \in Int, i <= Len(history), i <= k,
           since'[u] = since[u], Counted(u, n, i)
    PROVE  \E j \in since'[u] .. k : n = Cardinality(Stored(history'[j]))
<1>1. since[u] \in 1 .. Len(history)
  BY ThreadFacts DEF ControlInv
<1>2. PICK j \in since[u] .. i : n = Cardinality(Stored(history[j]))
  BY DEF Counted
<1>3. j \in since'[u] .. k /\ history'[j] = history[j]
  BY <1>1, <1>2, ThreadFacts, HistoryGrows
<1> QED
  BY <1>2, <1>3

LEMMA UntouchedCount ==
    ASSUME StoreInv, ProcessorInv, [Next]_vars, NEW u \in Threads, Untouched(u)
    PROVE  CountInv(u)'
<1> SUFFICES ASSUME command[u].type = "DELETE_ALL"
             PROVE  /\ stage[u] = "call" => Counted(u, count[u], Len(history))'
                    /\ stage[u] = "called" => Counted(u, count[u], effect[u] - 1)'
                    /\ reply[u].code # "none" => Counted(u, reply[u].value, effect[u] - 1)'
  BY DEF CountInv, Untouched
<1>1. /\ CountInv(u) /\ command[u] # NoCommand /\ since'[u] = since[u]
      /\ Len(history) \in Int /\ Len(history') \in Int /\ Len(history) <= Len(history')
      /\ effect[u] - 1 \in Int /\ effect[u] - 1 <= Len(history)
  BY ThreadFacts, HistoryGrows DEF ProcessorInv, ControlInv, NoCommand, Untouched
<1>2. stage[u] = "call" => Counted(u, count[u], Len(history))'
  <2>1. stage[u] = "call" => Counted(u, count[u], Len(history))
    BY <1>1 DEF CountInv
  <2>2. stage[u] = "call" =>
            \E j \in since'[u] .. Len(history') : count[u] = Cardinality(Stored(history'[j]))
    BY <1>1, <2>1, CountedStays
  <2> QED
    BY <2>2 DEF Counted, Untouched
<1>3. ASSUME NEW n, Counted(u, n, effect[u] - 1)
      PROVE  \E j \in since'[u] .. effect[u] - 1 : n = Cardinality(Stored(history'[j]))
  BY <1>1, <1>3, CountedStays
<1>4. stage[u] = "called" => Counted(u, count[u], effect[u] - 1)'
  <2>1. stage[u] = "called" => Counted(u, count[u], effect[u] - 1)
    BY <1>1 DEF CountInv
  <2> QED
    BY <1>3, <2>1 DEF Counted, Untouched
<1>5. reply[u].code # "none" => Counted(u, reply[u].value, effect[u] - 1)'
  <2>1. reply[u].code # "none" => Counted(u, reply[u].value, effect[u] - 1)
    BY <1>1 DEF CountInv
  <2> QED
    BY <1>3, <2>1 DEF Counted, Untouched
<1> QED
  BY <1>2, <1>4, <1>5

\* The command's own steps: the count is taken, kept over the clear, and told.
LEMMA CountKept ==
    ASSUME StoreInv, ProcessorInv, [Next]_vars, NEW t \in Threads, ThreadStep(t)
    PROVE  CountInv(t)'
<1> SUFFICES ASSUME command'[t].type = "DELETE_ALL" PROVE CountInv(t)'
  BY DEF CountInv
<1>t. /\ CountInv(t) /\ t \in DOMAIN count
      /\ Len(history) \in Int /\ Len(history') \in Int /\ Len(history) <= Len(history')
      /\ effect[t] \in Nat /\ effect[t] <= Len(history)
      /\ numbers = history[Len(history)]
  BY ThreadFacts, HistoryGrows DEF ProcessorInv, ProcessorTypeOK, ControlInv
<1>1. ASSUME NEW c \in Mutating \cup Reading, ProcessCommand(t, c) PROVE CountInv(t)'
  BY <1>1, ThreadFacts DEF ProcessCommand, Enter, CountInv
<1>2. CASE CountEntries(t)
  <2>1. /\ At(t, "DELETE_ALL", "size") /\ count'[t] = Cardinality(Stored(numbers))
        /\ stage'[t] = "call" /\ UNCHANGED <<command, reply, since, history>>
    BY <1>2, <1>t, ThreadFacts DEF CountEntries, Size, Return, Returned, Enter, dataVars
  <2>2. since[t] \in 1 .. Len(history) /\ reply[t].code = "none"
    BY <2>1, ThreadFacts DEF At, ControlInv, NoCommand
  <2> QED
    BY <1>t, <2>1, <2>2 DEF CountInv, Counted
<1>3. CASE CallClear(t)
  <2>1. /\ At(t, "DELETE_ALL", "call") /\ stage'[t] = "called" /\ effect'[t] = Len(history')
        /\ Len(history') = Len(history) + 1 /\ UNCHANGED <<command, count, reply, since>>
    BY <1>3, ThreadFacts, MutateHistory, EmptyMapType
       DEF CallClear, CallStore, Enter, Clear, StoreInv
  <2>2. Counted(t, count[t], Len(history)) /\ reply'[t].code = "none" /\ command[t] # NoCommand
    BY <1>t, <2>1, ThreadFacts DEF CountInv, At, ControlInv, NoCommand
  <2>3. \E j \in since'[t] .. Len(history) : count[t] = Cardinality(Stored(history'[j]))
    BY <1>t, <2>1, <2>2, CountedStays
  <2> QED
    BY <1>t, <2>1, <2>2, <2>3 DEF CountInv, Counted
<1>4. CASE CallInsert(t) \/ CallDelete(t) \/ CallPrint(t)
  BY <1>4 DEF CallInsert, CallDelete, CallPrint, CallStore, At
\* Inside the store a delete-all has nothing left to do but to notify.
<1>5. CASE StoreStep(t)
  <2>1. command[t].type = "DELETE_ALL" /\ UNCHANGED <<command, stage, count, reply, since>>
    BY <1>5 DEF StoreStep
  <2>2. UNCHANGED history
    <3>1. ~InsertPut(t) /\ ~RemoveErase(t)
      BY <2>1, ThreadFacts DEF InsertPut, RemoveErase, ControlInv
    <3> QED
      BY <1>5, <3>1
         DEF StoreStep, Continue, NotifyDataChanged, Completed, CheckSnapshot, CompareVersions,
             CopyData, LoadDataVersion, StoreSnapshotVersion, FormatSnapshot, LockAndRecheck,
             FetchSnapshot, dataVars
  <2>3. effect'[t] = effect[t]
    BY <1>5, <2>2, ThreadFacts DEF StoreStep
  <2> QED
    BY <1>t, <2>1, <2>2, <2>3 DEF CountInv, Counted
<1>6. CASE ReplyDeleteAll(t)
  <2>1. /\ At(t, "DELETE_ALL", "called") /\ stage'[t] = "waiting" /\ reply'[t].value = count[t]
        /\ UNCHANGED <<command, since, effect, history>>
    BY <1>6, ThreadFacts DEF ReplyDeleteAll, HasReturned, Respond, Reply, Enter, vars, dataVars
  <2> QED
    BY <1>t, <2>1 DEF CountInv, Counted, At
<1>7. CASE ReplyInsert(t) \/ ReplyDelete(t) \/ ReplyPrint(t) \/ ProcessExit(t)
  BY <1>7
     DEF ReplyInsert, ReplyDelete, ReplyPrint, ProcessExit, HasReturned, At, RespondError, Respond
<1> QED
  BY <1>1, <1>2, <1>3, <1>4, <1>5, <1>6, <1>7 DEF ThreadStep, CallOn, Process

-----------------------------------------------------------------------------
LEMMA ProcessorInvStep ==
    StoreInv /\ ProcessorInv /\ [ProcessorNext]_processorVars => ProcessorInv'
<1> SUFFICES ASSUME StoreInv, ProcessorInv, [ProcessorNext]_processorVars
             PROVE  ProcessorInv'
  OBVIOUS
<1>1. [Next]_vars
  BY StoreUnderCommands DEF ProcessorInv
<1>2. TypeOK /\ TypeOK' /\ ProcessorTypeOK /\ Len(history) \in Nat
  BY <1>1, StoreInvStep DEF StoreInv, ProcessorInv, TypeOK
<1>3. ProcessorTypeOK'
  BY <1>2, ProcessorTypeStep
<1>4. ASSUME NEW t \in Threads, ThreadStep(t)
      PROVE  ProcessorInv'
  <2>1. Kept(t)
    BY <1>1, <1>4, ThreadStepKept
  <2>2. \A u \in Threads \ {t} :
            ControlInv(u)' /\ AnswerInv(u)' /\ HasMutated(u)' = HasMutated(u)
            /\ effect'[u] = effect[u]
    BY <1>1, <1>2, <1>4, OthersUntouched, UntouchedStays DEF Untouched
  <2>3. \A u \in Threads : effect[u] <= Len(history) /\ effect[u] \in Nat
    BY <1>2, ThreadFacts DEF ControlInv
  <2>4. OwnChangeInv'
    BY <1>2, <2>1, <2>2, <2>3 DEF OwnChangeInv, ProcessorInv, Kept
  <2>5. \A u \in Threads : CountInv(u)'
    BY <1>1, <1>2, <1>4, OthersUntouched, UntouchedCount, CountKept
  <2> QED
    BY <1>3, <2>1, <2>2, <2>4, <2>5 DEF ProcessorInv, Kept
<1>5. CASE UNCHANGED processorVars
  <2>1. \A u \in Threads : Untouched(u) /\ effect'[u] = effect[u]
    BY <1>5 DEF Untouched, processorVars, commandVars, vars, localVars
  <2>2. \A u \in Threads : ControlInv(u)' /\ AnswerInv(u)' /\ HasMutated(u)' = HasMutated(u)
    BY <1>1, <2>1, UntouchedStays
  <2>3. OwnChangeInv'
    BY <2>1, <2>2 DEF OwnChangeInv, ProcessorInv
  <2>4. \A u \in Threads : CountInv(u)'
    BY <1>1, <2>1, UntouchedCount
  <2> QED
    BY <1>3, <2>2, <2>3, <2>4 DEF ProcessorInv
<1> QED
  BY <1>4, <1>5, StepsOfThreads

-----------------------------------------------------------------------------
(* The theorems *)

(* The inductive invariant holds however the calls of several handler      *)
(* threads interleave (CommandProcessor.cxx:8-75).                         *)
THEOREM ProcessorInvariant == ProcessorSpec => [](StoreInv /\ ProcessorInv)
<1>1. ProcessorInit => StoreInv /\ ProcessorInv
  BY InitInv, ProcessorInitInv DEF ProcessorInit
<1>2. StoreInv /\ ProcessorInv /\ [ProcessorNext]_processorVars => (StoreInv /\ ProcessorInv)'
  BY StoreUnderCommands, StoreInvStep, ProcessorInvStep DEF ProcessorInv
<1> QED
  BY <1>1, <1>2, PTL DEF ProcessorSpec

(* The handler threads use the store as NumberStore allows its callers to: *)
(* every theorem about the store holds with the processor on top of it     *)
(* (CommandProcessor.cxx:34-71).                                           *)
THEOREM CommandsUseTheStore == ProcessorSpec => Spec
<1>1. ProcessorInit => Init
  BY DEF ProcessorInit
<1>2. StoreInv /\ ProcessorInv /\ [ProcessorNext]_processorVars => [Next]_vars
  BY StoreUnderCommands DEF ProcessorInv
<1> QED
  BY <1>1, <1>2, ProcessorInvariant, PTL DEF ProcessorSpec, Spec

(* With the processor on top, each print is whole and fresh, the refresh   *)
(* of the cache has no rival, no insert overwrites, and the store keeps    *)
(* its promise: what the theorems of NumberStoreProofs say of the store,   *)
(* said of the commands (CommandProcessor.cxx:34-71).                      *)
THEOREM CommandsKeepThePromise ==
    ProcessorSpec => /\ [](TypeOK /\ PrintIsFresh /\ PrintIsAPastState /\ RefreshIsExclusive)
                     /\ NeverOverwrites /\ KeepsItsPromise
BY CommandsUseTheStore, TypeCorrectness, PrintsAreFresh, PrintsArePastStates,
   RefreshesAreExclusive, InsertsNeverOverwrite, StoreKeepsItsPromise, PTL

(* The processor's variables keep their types; a thread is inside the      *)
(* store only between its call and its reply (CommandProcessor.cxx:8-32).  *)
THEOREM ProcessorTypeCorrectness == ProcessorSpec => []ProcessorTypeOK
<1>1. ProcessorInv => ProcessorTypeOK
  BY DEF ProcessorInv
<1> QED
  BY <1>1, ProcessorInvariant, PTL

(* Every insert, delete and clear is done or refused as a sequential store *)
(* would have at one moment of the command, at which it made its own       *)
(* change and nobody else's, and a delete tells the timestamp of that      *)
(* moment (CommandProcessor.cxx:34-73).                                    *)
THEOREM EffectsLinearize == ProcessorSpec => []EffectsAreLinearizable
<1>1. ProcessorInv => EffectsAreLinearizable
  BY DEF ProcessorInv, AnswerInv, OwnChangeInv, HasMutated, EffectsAreLinearizable
<1> QED
  BY <1>1, ProcessorInvariant, PTL

(* A delete-all tells a count that the store had at some moment between    *)
(* the request and the clear (CommandProcessor.cxx:63-69).                 *)
THEOREM CountsAreEarlier == ProcessorSpec => []ClearReportsEarlierCount
<1>1. ProcessorInv => ClearReportsEarlierCount
  BY DEF ProcessorInv, CountInv, ClearReportsEarlierCount, Answered
<1> QED
  BY <1>1, ProcessorInvariant, PTL
=============================================================================
