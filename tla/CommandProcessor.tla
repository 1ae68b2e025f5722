--------------------------- MODULE CommandProcessor ---------------------------
(***************************************************************************)
(* daemon/CommandProcessor over the number store: what each handler thread *)
(* does with one command, from the deserialized Command to the Response.   *)
(* The processor has no state and no lock of its own, so everything that   *)
(* other threads do to the store may fall between two of its calls.        *)
(***************************************************************************)
EXTENDS NumberStore

VARIABLES
    command,  \* the command each thread is processing, or has processed last
    stage,    \* how far processCommand is with it
    count,    \* processDeleteAll's local
    reply,    \* the Response to command, once there is one
    \* History variables: no action's guard reads them.
    since,    \* Newest, when the command arrived
    effect,   \* the index in history at which it looked at or changed numbers
    known     \* the newest index that a thread's client has learnt of

commandVars == <<command, stage, count, reply, since, effect, known>>
processorVars == <<vars, commandVars>>

Mutating == [type : {"INSERT", "DELETE_NUM"}, number : Numbers]
                \cup {[type |-> "DELETE_ALL", number |-> Absent]}
Reading == [type : {"PRINT_ALL", "EXIT"}, number : {Absent}]
NoCommand == [type |-> "none", number |-> Absent]

\* A Response: its code, the number its message tells, the entries of a print.
Reply(code, value, data) == [code |-> code, value |-> value, data |-> data]
NoReply == Reply("none", 0, EmptyMap)

ProcessorInit ==
    /\ Init
    /\ command = [t \in Threads |-> NoCommand]
    /\ stage = [t \in Threads |-> "waiting"]
    /\ count = [t \in Threads |-> 0]
    /\ reply = [t \in Threads |-> NoReply]
    /\ since = [t \in Threads |-> 0]
    /\ effect = [t \in Threads |-> 0]
    /\ known = [t \in Threads |-> 0]

At(t, type, label) == command[t].type = type /\ stage[t] = label
Enter(t, label) == stage' = [stage EXCEPT ![t] = label]

\* Bound: every command under way may still mutate once (see RoomToMutate).
RoomForCommand ==
    Newest + Cardinality({t \in Threads : stage[t] # "waiting"}) <= MaxMutations

(* The switch of processCommand. Its default is dead: a Command is only    *)
(* ever built with one of the five types.                                  *)
ProcessCommand(t, c) ==
    /\ stage[t] = "waiting"
    /\ c \in Mutating => RoomForCommand
    /\ command' = [command EXCEPT ![t] = c]
    /\ Enter(t, IF c.type = "DELETE_ALL" THEN "size" ELSE "call")
    /\ reply' = [reply EXCEPT ![t] = NoReply]
    /\ since' = [since EXCEPT ![t] = Newest]
    /\ UNCHANGED <<vars, count, effect, known>>

\* The processor calls the store; the call looks at the state the step leaves.
CallStore(t) ==
    /\ Enter(t, "called")
    /\ effect' = [effect EXCEPT ![t] = Newest']
    /\ UNCHANGED <<command, count, reply, since, known>>

\* The steps inside a call of the store; the last one of a print is ReplyPrint.
StoreStep(t) ==
    /\ pc[t] # "format"
    /\ Continue(t) \/ LockAndRecheck(t) \/ FetchSnapshot(t)
    /\ effect' = [effect EXCEPT ![t] = IF Newest' # Newest THEN Newest' ELSE @]
    /\ UNCHANGED <<command, stage, count, reply, since, known>>

\* Mutant of HasReturned: the reply does not wait for the store.
HasCalled(t, type) == At(t, type, "called")

HasReturned(t, type) == At(t, type, "called") /\ pc[t] = "idle"

\* The response goes to the client, which thereby knows the state at index i.
Respond(t, response, i) ==
    /\ reply' = [reply EXCEPT ![t] = response]
    /\ known' = [known EXCEPT ![t] = Later(@, i)]
    /\ Enter(t, "waiting")
    /\ UNCHANGED <<command, count, since>>

\* An error of the store is passed on as it is.
RespondError(t) ==
    /\ ret[t].code # "SUCCESS"
    /\ Respond(t, Reply(ret[t].code, 0, EmptyMap), effect[t])

-----------------------------------------------------------------------------
(* processInsert. The timestamp in the message is a reading of the clock   *)
(* of its own, taken after the insert.                                     *)

CallInsert(t) ==
    /\ At(t, "INSERT", "call")
    /\ InsertFind(t, command[t].number)
    /\ CallStore(t)

\* Mutant of ReplyInsert: a refused insert is tried again.
RetryInsert(t) ==
    /\ HasReturned(t, "INSERT")
    /\ \/ /\ ret[t].code # "SUCCESS"
          /\ Enter(t, "call")
          /\ UNCHANGED <<command, count, reply, since, known>>
       \/ /\ ret[t].code = "SUCCESS"
          /\ \E now \in Timestamps :
                Respond(t, Reply("SUCCESS", now, EmptyMap), effect[t])
    /\ UNCHANGED <<vars, effect>>

ReplyInsert(t) ==
    /\ HasReturned(t, "INSERT")
    /\ \/ RespondError(t)
       \/ /\ ret[t].code = "SUCCESS"
          /\ \E now \in Timestamps :
                Respond(t, Reply("SUCCESS", now, EmptyMap), effect[t])
    /\ UNCHANGED <<vars, effect>>

(* processDelete. *)

CallDelete(t) ==
    /\ At(t, "DELETE_NUM", "call")
    /\ RemoveFind(t, command[t].number)
    /\ CallStore(t)

\* Mutant of ReplyDelete: the time of the deletion, as processInsert has it.
ReplyDeleteNow(t) ==
    /\ HasReturned(t, "DELETE_NUM")
    /\ \/ RespondError(t)
       \/ /\ ret[t].code = "SUCCESS"
          /\ \E now \in Timestamps :
                Respond(t, Reply("SUCCESS", now, EmptyMap), effect[t])
    /\ UNCHANGED <<vars, effect>>

ReplyDelete(t) ==
    /\ HasReturned(t, "DELETE_NUM")
    /\ \/ RespondError(t)
       \/ /\ ret[t].code = "SUCCESS"
          /\ Respond(t, Reply("SUCCESS", ret[t].value, EmptyMap), effect[t])
    /\ UNCHANGED <<vars, effect>>

(* processPrintAll. *)

CallPrint(t) ==
    /\ At(t, "PRINT_ALL", "call")
    /\ PrintAll(t)
    /\ Enter(t, "called")
    /\ UNCHANGED <<command, count, reply, since, effect, known>>

ReplyPrint(t) ==
    /\ At(t, "PRINT_ALL", "called")
    /\ FormatSnapshot(t)
    /\ effect' = [effect EXCEPT ![t] = snapshot[t].taken]
    /\ Respond(t, Reply("DATA", 0, snapshot[t].map), snapshot[t].taken)

(* processDeleteAll: size and clear are two calls, each with its own lock. *)

CountEntries(t) ==
    /\ At(t, "DELETE_ALL", "size")
    /\ Size(t)
    /\ count' = [count EXCEPT ![t] = ret'[t].value]
    /\ Enter(t, "call")
    /\ UNCHANGED <<command, reply, since, effect, known>>

CallClear(t) ==
    /\ At(t, "DELETE_ALL", "call")
    /\ Clear(t)
    /\ CallStore(t)

\* Mutant of ReplyDeleteAll: the entries are counted after the clear.
ReplyRecounted(t) ==
    /\ HasReturned(t, "DELETE_ALL")
    /\ Respond(t, Reply("SUCCESS", Cardinality(Stored(numbers)), EmptyMap), effect[t])
    /\ UNCHANGED <<vars, effect>>

ReplyDeleteAll(t) ==
    /\ HasReturned(t, "DELETE_ALL")
    /\ Respond(t, Reply("SUCCESS", count[t], EmptyMap), effect[t])
    /\ UNCHANGED <<vars, effect>>

(* processExit: the store is not touched. *)
ProcessExit(t) ==
    /\ At(t, "EXIT", "call")
    /\ Respond(t, Reply("SUCCESS", 0, EmptyMap), 0)
    /\ UNCHANGED <<vars, effect>>

-----------------------------------------------------------------------------
\* The steps of processCommand that do not wait for a lock.
Process(t) ==
    \/ StoreStep(t)
    \/ ReplyInsert(t)
    \/ ReplyDelete(t)
    \/ ReplyPrint(t)
    \/ ReplyDeleteAll(t)
    \/ ProcessExit(t)

\* The calls, each of which begins with a lock on dataMutex.
CallOn(t) ==
    CallInsert(t) \/ CallDelete(t) \/ CallPrint(t) \/ CountEntries(t) \/ CallClear(t)

Requested == \E t \in Threads, c \in Mutating \cup Reading : ProcessCommand(t, c)

ProcessorNext == Requested \/ \E t \in Threads : CallOn(t) \/ Process(t)

ProcessorSpec == ProcessorInit /\ [][ProcessorNext]_processorVars

(* A thread that can run does. It gets dataMutex if that stays free for    *)
(* it, and no sooner: std::shared_mutex may prefer the others each time.   *)
(* It gets snapshotMutex if that keeps becoming free. Clients may be idle. *)
ProcessorFairSpec ==
    /\ ProcessorSpec
    /\ \A t \in Threads :
        /\ WF_processorVars(CallOn(t))
        /\ WF_processorVars(Process(t))
        /\ SF_processorVars(StoreStep(t))  \* its waits are for snapshotMutex only

-----------------------------------------------------------------------------
(* Properties *)

(* The types of the processor's variables; a thread is inside the store    *)
(* only between its call and the reply made from it.                       *)
ProcessorTypeOK ==
    /\ command \in [Threads -> Mutating \cup Reading \cup {NoCommand}]
    /\ stage \in [Threads -> {"waiting", "size", "call", "called"}]
    /\ count \in [Threads -> Nat]
    /\ reply \in [Threads -> [code : {"none", "SUCCESS", "DATA", "DUPLICATE_NUMBER",
                                      "NUMBER_NOT_FOUND"},
                              value : Nat, data : Map]]
    /\ since \in [Threads -> Nat] /\ effect \in [Threads -> Nat] /\ known \in [Threads -> Nat]
    /\ \A t \in Threads : pc[t] # "idle" => stage[t] = "called"

Answered(t, type, code) == command[t].type = type /\ reply[t].code = code

\* The command c takes the map from old to new; value is what a delete tells, the
\* timestamp that was stored.
Performs(c, old, new, value) ==
    \/ /\ c.type = "INSERT"
       /\ old[c.number] = Absent
       /\ \E now \in Timestamps : new = [old EXCEPT ![c.number] = now]
    \/ /\ c.type = "DELETE_NUM"
       /\ old[c.number] = value /\ value # Absent
       /\ new = [old EXCEPT ![c.number] = Absent]
    \/ c.type = "DELETE_ALL" /\ new = EmptyMap

\* In the state map the command c is refused with this code.
Refused(c, map, code) ==
    \/ c.type = "INSERT" /\ code = "DUPLICATE_NUMBER" /\ map[c.number] # Absent
    \/ c.type = "DELETE_NUM" /\ code = "NUMBER_NOT_FOUND" /\ map[c.number] = Absent

\* The outcome a sequential store gives t's command, done at one moment since it came.
Sequential(t, code, value) ==
    LET i == effect[t]
    IN  \/ /\ code = "SUCCESS"
           /\ i \in since[t] + 1 .. Newest
           /\ Performs(command[t], history[i - 1], history[i], value)
        \/ i \in since[t] .. Newest /\ Refused(command[t], history[i], code)

HasChanged(t) == command[t] \in Mutating /\ reply[t].code = "SUCCESS"

(* The effects of the commands that change the map are linearizable: each  *)
(* is done or refused as a sequential store would have at one moment       *)
(* between the request and the reply. A command that succeeds makes        *)
(* exactly its own change at that moment, which it shares with no other    *)
(* command; a delete tells the timestamp that the number had then. Nothing *)
(* is said of the time an insert tells, which is a second reading of the   *)
(* clock (CommandProcessor.cxx:38), nor of the count a delete-all tells    *)
(* (CommandProcessor.cxx:34-73).                                           *)
EffectsAreLinearizable ==
    /\ \A t \in Threads :
        command[t] \in Mutating /\ reply[t].code # "none"
            => Sequential(t, reply[t].code, reply[t].value)
    /\ \A t, u \in Threads :
        t # u /\ HasChanged(t) /\ HasChanged(u) => effect[t] # effect[u]

\* n entries were stored at some moment after t's command came, up to state i.
Counted(t, n, i) == \E j \in since[t] .. i : n = Cardinality(Stored(history[j]))

(* The count that a delete-all tells is one the store has really had since *)
(* the request came, and before the clear: other clients' changes between  *)
(* the two calls may make it wrong, but nothing else does                  *)
(* (CommandProcessor.cxx:63-69; ClearReportsRemoved is what is lost).      *)
ClearReportsEarlierCount ==
    \A t \in Threads : Answered(t, "DELETE_ALL", "SUCCESS")
        => Counted(t, reply[t].value, effect[t] - 1)

(* A command is answered once the clients stop sending more: whatever they *)
(* have under way, no thread is left waiting for a lock of the store, nor  *)
(* for an update of the snapshot (NumberStore.cxx:12-101,                  *)
(* SnapshotManager.cxx:8-24). While new ones keep coming a writer may      *)
(* starve, which std::shared_mutex does not exclude (NumberStore.cxx:17).  *)
CommandsAreAnswered ==
    <>[][~Requested]_processorVars => <>[](\A t \in Threads : stage[t] = "waiting")

(* "All operations maintain data consistency and thread safety across      *)
(* concurrent access" (README.md:196): what a client has been told about   *)
(* the store is not taken back by its next print. The code lets that       *)
(* happen: an insert is refused because of a number whose writer has       *)
(* released dataMutex but not yet bumped the version (NumberStore.cxx:32). *)
SessionIsConsistent ==
    \A t \in Threads : Answered(t, "PRINT_ALL", "none") /\ pc[t] = "format"
        => known[t] <= snapshot[t].taken

(* "Deleted all numbers (N entries cleared)" (CommandProcessor.cxx:68): N  *)
(* is the number of entries that the clear removed. The code counts them   *)
(* in a call before the clear (CommandProcessor.cxx:64).                   *)
ClearReportsRemoved ==
    \A t \in Threads : Answered(t, "DELETE_ALL", "SUCCESS")
        => reply[t].value = Cardinality(Stored(history[effect[t] - 1]))

-----------------------------------------------------------------------------
(* The inductive invariant behind EffectsAreLinearizable and               *)
(* ClearReportsEarlierCount, next to StoreInv: what a thread's control     *)
(* inside the store says of its command, and what the store has returned   *)
(* is already explained by history.                                        *)

\* The store is where t's command has sent it.
ControlInv(t) ==
    /\ stage[t] # "waiting" => reply[t] = NoReply
    /\ stage[t] = "size" => command[t].type = "DELETE_ALL"
    /\ command[t] # NoCommand => since[t] \in 1 .. Newest
    /\ effect[t] <= Newest
    /\ pc[t] = "emplace" => command[t].type = "INSERT" /\ arg[t] = command[t].number
    /\ pc[t] = "erase" => command[t].type = "DELETE_NUM" /\ arg[t] = command[t].number
    /\ pc[t] = "notify" => command[t] \in Mutating

\* The store has answered t's command, which may still have to notify.
HasAnswer(t) ==
    stage[t] = "called" /\ command[t] \in Mutating /\ pc[t] \in {"idle", "notify"}

AnswerInv(t) ==
    /\ HasAnswer(t) => Sequential(t, ret[t].code, ret[t].value)
    /\ command[t] \in Mutating /\ reply[t].code # "none"
          => Sequential(t, reply[t].code, reply[t].value)

\* t's mutation is in history, whether its client knows or not.
HasMutated(t) == HasChanged(t) \/ (HasAnswer(t) /\ ret[t].code = "SUCCESS")

OwnChangeInv ==
    \A t, u \in Threads :
        t # u /\ HasMutated(t) /\ HasMutated(u) => effect[t] # effect[u]

\* The count is carried from the first call of a delete-all to its reply.
CountInv(t) == command[t].type = "DELETE_ALL" =>
    /\ stage[t] = "call" => Counted(t, count[t], Newest)
    /\ stage[t] = "called" => Counted(t, count[t], effect[t] - 1)
    /\ reply[t].code # "none" => Counted(t, reply[t].value, effect[t] - 1)

(* Between the find and the reply nothing that other threads do can undo   *)
(* or repeat a command's effect, nor change what a refusal, a delete's     *)
(* timestamp or a count was taken from: the conjunction, with StoreInv, is *)
(* inductive (CommandProcessor.cxx:8-73, NumberStore.cxx:12-79).           *)
ProcessorInv ==
    /\ ProcessorTypeOK
    /\ \A t \in Threads : ControlInv(t) /\ AnswerInv(t) /\ CountInv(t)
    /\ OwnChangeInv
=============================================================================
