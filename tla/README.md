# Number Store, specified

TLA+ models of the Number Store daemon and its command-line client, model-checked
with TLC, and theorems about them checked by TLAPS. Paths below are relative to `src/`.

Number Store keeps a map from positive integers to the time of their insertion in the
memory of one daemon process. Clients connect through a Windows named pipe, one daemon
thread per connection, and insert, delete, print or clear. Nothing is persisted.

## 1. The system

| component | state it keeps | operations | how it meets the others |
|---|---|---|---|
| NumberStore (`storage/NumberStore`) | the map, under `dataMutex` | insert, remove, clear, printAll, size | called by every handler thread; calls SnapshotManager |
| SnapshotManager (`storage/SnapshotManager`) | a cached copy of the map under `snapshotMutex`; two atomic versions | getSnapshot, needsUpdate, incrementVersion | getSnapshot is called with `dataMutex` shared, incrementVersion without it |
| CommandProcessor (`daemon/CommandProcessor`) | none but the store | processInsert, processDelete, processPrintAll, processDeleteAll, processExit | one to two store calls for a command, then a Response |
| ClientHandler (`daemon/ClientHandler`) | an atomic `active`, its pipe | run, handleSingleCommand, stop, cleanup | a thread each; looks at the shutdown flag |
| ConnectionManager (`daemon/ConnectionManager`) | the list of handlers and threads under `connectionsMutex`, a running flag | run, acceptConnections, cleanupFinishedClients, stopAllClients, stop | runs on the main thread; stopped by main or by a signal's thread |
| DaemonServer (`daemon/DaemonServer`) | a running flag | start, run, stop (which calls `std::exit`) | between main, the signals and the manager |
| SignalHandler (`daemon/SignalHandler`) | the shutdown flag, the registered server | setup, requestShutdown, registerServer, cleanup | its callback runs on a thread of the system's |
| DaemonMain (`daemon/DaemonMain`) | - | start, main loop, stop, cleanup, unlock, exit | puts the above together |
| SingleInstanceManager (`utils/SingleInstanceManager`) | the handle of a named kernel mutex | tryLock, unlock | between daemon processes |
| NamedPipeServer, NamedPipeConnection, NamedPipeClient (`ipc/`) | the listening flag, a pipe handle, `connected` | acceptConnection, connect, read, write, disconnect | the only link between client and daemon |
| Protocol (`protocol/`) | - | serialize, deserialize, terminator | both ends |
| DaemonClient, CLIApplication (`cli/`) | `connected`, `running`; the state of `std::cin` | one request and its reply; the menu and its prompts | one user |
| Validator, Config, Constants, ErrorCodes, TimeUtils, Logger (`utils/`) | configuration; the log's streams | checks, values, texts | everywhere |

**What is hard.** The cache of the store is validated by two counters read without a common
lock; writers bump the version after letting go of the map; text is made after both locks.
A command may be two store calls. Handlers are reaped by a loop that joins with a mutex held
while a signal's thread wants it; the signal's thread stops the server and exits the process
while main may be in the same `stop`, waiting for a client, or taking the shutdown request
back. The pipe is read in chunks and the end of a message is guessed from its last byte.
The prompts of the client share one buffered input, whose failures stay until cleared; its
numbers meet the limits of two types, and the data of a reply contain the bytes that delimit it.
Daemons may overlap while one shuts down. `PROJECT.json` lists each such place with its line.

**What makes each part correct.** The store: prints are whole and fresh, nothing is
overwritten, calls return. The commands: effects are linearizable, and a delete-all's count is
one the store has had. The daemon: the limit on connections holds, no thread outlives its
handler, a shutdown takes hold and ends, no client is left waiting. A session: the reply shown
is the reply to the request, and requests end, executed at most once. The prompts: what is
executed is what was typed, what is displayed is what was answered. Daemons: one listens at a
time.

## 2. The modules

| module | models | composed from |
|---|---|---|
| `SnapshotStore` | what the store promises: atomic mutations, whole and fresh prints | - |
| `NumberStore` | NumberStore and SnapshotManager, one step per access to shared state | refines `SnapshotStore` |
| `CommandProcessor` | processCommand of every handler thread | extends `NumberStore` |
| `ClientHandlers` | the handler threads and the clients at their pipes | - |
| `Daemon` | main, manager, server, signals | extends `ClientHandlers` |
| `RequestReply` | what a session promises: each request executed at most once, its whole result shown, or the session over | - |
| `Conversation` | one client session over the framed pipe | refines `RequestReply` |
| `Protocol` | the texts of commands and responses, and the check of a numeral | - |
| `CommandLine` | the client at its terminal: `std::cin`, prompts, texts sent and received | extends `Protocol` |
| `Instances` | several daemons and clients, the kernel's mutex and pipe instances | - |
| `NumberStoreProofs`, `CommandProcessorProofs`, `DaemonProofs`, `ConversationProofs`, `ProtocolProofs`, `CommandLineProofs`, `InstancesProofs` | theorems | extend the module they are named for; `CommandProcessorProofs` also `NumberStoreProofs`, `CommandLineProofs` also `ProtocolProofs` |
| `MCCommandProcessor`, `MCDaemon`, `MCCommandLine` | symmetry sets and values for TLC | extend the above |

`PROJECT.json` maps each definition to its lines. What a reader needs to know of each:

**NumberStore.** `pc[t]` is where thread t is. A step is a stretch of code that the locks or
the atomics make indivisible, e.g. `CheckSnapshot` is one load of `needsUpdate`, and
`CompareVersions` the other with the comparison. Locks are not variables: who holds
`dataMutex` or `snapshotMutex` can be read off `pc` (`Writers`, `Readers`, `SnapshotHolders`).
The find and the write of an insert are two steps under the unique lock, so that the lock
has something to protect. `history`, `mine`, `floor` and `visible` are history variables:
the states the map has had, the state a call made, and what had been reflected by completed
calls. C++ lets the unlocked test of `cachedSnapshot` for null race with an assignment to it;
it is modelled as finding it null or not, as the build does. The clock is any member of
`Timestamps`, so it may go back.

**CommandProcessor.** `stage[t]` tells a command's calls apart; `processDeleteAll` has two
(`CountEntries`, `CallClear`). `effect`, `since` and `known` are history variables: the state
a call took effect on, the newest state when the request came, what a client has been told.
What is claimed of the commands is split along the replies: `EffectsAreLinearizable` is about
effects, refusals and the timestamps of deletes; a delete-all's count is only one that the store
had earlier (`ClearReportsEarlierCount`), as it is taken in a call of its own; of the time in an insert's
reply, a second reading of the clock, nothing is claimed.
`CallOn` is a call that begins with a lock on `dataMutex`, `Process` everything else; the
fairness differs (below). The store is checked here, under the commands that the program
really gives to it, and not once more by itself.

**ClientHandlers, Daemon.** A handler identity stands for a connection: client, pipe
instance, ClientHandler and thread; it is used again when the manager has dropped it.
`thread[h]` follows `run` and `handleSingleCommand`; `cleanup` is two steps since `isActive`
reads what they write one after the other. `pc` has main and the signals' threads; `Stop(a)`
is `DaemonServer::stop` with `ConnectionManager::stop` for whoever is in it.
`cleanupFinishedClients` holds `connectionsMutex` from `BeginCleanup` to `EndCleanup`, joins
included; the other critical sections are single steps. `Exit` ends the process at once.
A null `serverInstance` is called through as the code does, and crashes.
A command's effect on the store is in CommandProcessor, so `ProcessRequest` only moves on.
A read may fail with the pipe still open (`ReadFails`); it is outside the fairness, as it need not.
`late` counts, within a session, the requests read while the connection was to stop (`ToStop`): the
shutdown flag is up, or the manager has cleared `active`. `ResetShutdown`, which takes the flag down,
forgives only connections that nobody has stopped.

**RequestReply, Conversation.** A reply is a sequence of cells - header, line of text, newline -
and the buffer of `ReadFile` is counted in cells. In message mode `ReadFile` fails with
`ERROR_MORE_DATA` when a message does not fit; in byte mode it returns what there is and
fits, across messages. The mode is fixed in `Init`: it is what the unchecked
`SetNamedPipeHandleState` left. The daemon may vanish and the user may close the client at
any point, also between a command's effect (`ExecuteCommand`) and its reply (`WriteReply`);
a handler goes on for a client that has left. A reply to a print has any number of entries up
to `MaxEntries`. For RequestReply a request is asked while the client is between choice and
reply and `executed` when the handler has got that far; an error of the pipe is its `Fail`.
Of byte mode it says nothing, as replies are cut and shifted then.

**Protocol, CommandLine.** A text is a sequence over `Character`; words that nobody looks into are
single characters: `Keywords` are those the program compares with, `Others` all that mean nothing to
it, among them the words of the daemon's messages (`MessageWords`). Reading splits a text into what is read and what is left, as `std::istringstream`
does: the readers of words, numbers and lines, with signs, leading spaces and limits, are
written once and used for both ends and for the menu. `std::cin` is the lines not yet read,
the place in the first, `eofbit` and `failbit`; input may end after a line (`clean`) or inside
one (`cut`), for good. The menu's `operator>>`, `clear` and `ignore` are one step (`GetUserChoice`)
but for blank lines, which `operator>>` skips while it waits (`SkipBlankLine`). A prompt at
the end of the input fails at once and, for the menu and a number, asks again forever: such
steps are in the model. `MaxUint` and `MaxInt` stand for 2^64-1 and 2^31-1. Left out: the
timestamp in the texts of insert and delete, and the client's own wording for an empty print.
`served`, `answered`, `asked` and `told` are history variables: what the daemon deserialized
and answered, and the lines a choice and the last answer were read from.

**Instances.** The kernel keeps the mutex while a process has a handle of it (`handles`).
A daemon refused holds a handle between `TryLock` and `GiveUp`. `End` is an exit or a kill at
any point; the kernel then closes the handle of the mutex, the pipe instance and the connections
one by one, in any order (`Vanish`), so a successor may hold the lock while a client still opens the
old instance, and is cut off. ConnectNamedPipe is told apart from CreateNamedPipe (`CreateInstance`,
`Wait`, `Accept`), since a client may come, or come and go, in between: that is an error if main
does not wait yet (`AcceptFails`) and a connection that is already over if it does (`AcceptGone`).

## 3. The runs

| run | configuration | bounds | shows |
|---|---|---|---|
| `commands` | `MCCommands` | 2 clients, 1 number, 2 timestamps, 3 mutations | prints whole and fresh, refresh exclusive, the inductive invariants (`StoreInv`, `ProcessorInv`), the refinement of SnapshotStore; the effects of commands are linearizable; a delete-all reports a count the store had since the request; no insert overwrites |
| `commands_liveness` | `MCCommandsLiveness` | 2 clients, 1 number, 1 timestamp, 2 mutations | prints return; stale snapshots are invalidated; what is under way is answered |
| `session` | `MCSession` | 2 clients, 2 mutations | **violated**: a client's print may lack what it has been told |
| `clear_reply` | `MCClearReply` | 2 clients, 2 mutations | **violated**: the count reported by delete-all may be wrong |
| `daemon_safety` | `MCDaemonSafety` | 3 connections, limit 1, 1 signal, requests of every kind on one of them | limit, lifetime of handlers, service of connections that are to stop |
| `daemon_liveness` | `MCDaemonLiveness` | 2 connections, limit 1, 1 signal, requests of every kind on one of them | shutdowns end, accepting resumes, clients are not left waiting |
| `daemon_crash` | `MCDaemonCrash` | 1 connection, 1 signal | **violated**: a signal at start-up calls through a null pointer |
| `conversation` | `MCConversation` | buffer 6, 3 entries, 4 requests | replies match requests, with the inductive invariant (`SessionInv`); requests end; the refinement of RequestReply |
| `conversation_long` | `MCConversationLong` | same | **violated**: a print longer than the buffer is a failed read |
| `command_line` | `MCCommandLine` | limits 15 and 12, 20 lines, one line ahead, stores of 0 to 2 entries | what is executed was typed; numbers exact at the limits; what is shown was answered, with the invariant they rest on (`CommandLineInv`); typed lines are read |
| `instances` | `MCInstances` | 2 daemons, 2 clients | one listens; who has connected is served |
| `connect_race` | `MCConnectRace` | 1 daemon, 2 clients | **violated**: a client told of a free instance is refused |

**Why the bounds are enough.** Store and commands: the races are between a reader that checks or
refreshes and a writer between mutation and bump, or between two commands; two mutations make
a snapshot of one state be checked while the second is under way, a third lets one client
delete and insert again inside another's command, and one number is enough as the version
covers the whole map. The races of two readers over one refresh with a writer beside them
take three threads: the theorems below hold for any number of them.
`MaxMutations` is in the guards of the steps that mutate. Daemon: with a limit of 1, three
connections are needed for one to be active, one ended and unreaped, and one to be the
newcomer. In both runs one connection sends commands, exits and malformed requests, which end
differently, and the others come, wait, take a place and leave, before, after or between: all that
connections do to each other is to take places and to be joined. What the safety run checks is
proved for any requests on every connection. `late` counts to 2, as one late request is allowed.
Conversation: with a buffer of 6 cells a print of one entry (5 cells) fits, prints of two (7)
and three (9) do not, and their chunks end at an inner newline; four requests leave
room for three more after one that went wrong. CommandLine: the lines are numerals at, below
and above each limit, signs, blanks, no number at all, and lines that begin with one answer
and end with what would be another ("4y", "9 5"); every line meets every prompt, whole or cut
by the end of the input, typed before the prompt or after. Instances: three parties - holder,
refused, newcomer - need the roles to change hands, which two daemons that restart do; the theorem
covers any number.

`CHECK_DEADLOCK` is left on everywhere. `Gone` (Daemon) and `Over` (Conversation, CommandLine) are the
ends at which the system is meant to stop; the store always has a call to make.

**Fairness.** A handler thread runs when it can (`WF`); it gets `dataMutex` if that stays free for
it (`WF` of `CallOn`): `std::shared_mutex` promises no more, and prints that keep coming may
starve a writer. So `CommandsAreAnswered` is about what is under way when clients stop
sending. `snapshotMutex` is granted to a thread for which it keeps becoming free (`SF` of
`StoreStep`, whose only waits are for it), as each holder lets go after a bounded number of
steps and std::mutex is taken by some waiter. Daemon: the operating system runs main, the
signals' threads and handlers; clients and signals may do nothing, so a wait for a client may
last forever. Conversation: both programs run; users and the end of the daemon are not fair.
CommandLine: client and daemon run; the user may type nothing. Instances: a daemon inside
`acceptConnection` goes on, and the kernel clears away what has ended.

## 4. What is proved

`NumberStoreProofs` proves, for all sets of threads, numbers and timestamps and all bounds:
`TypeCorrectness`, `PrintsAreFresh`, `PrintsArePastStates`, `RefreshesAreExclusive`,
`InsertsNeverOverwrite` and `StoreKeepsItsPromise`, the refinement of SnapshotStore. It
assumes `ConstantsAssumption` alone: finite sets, natural timestamps, `Absent` none of them.

The invariant is `StoreInv`. Freshness is not inductive: that a print misses nothing depends
on why equal versions vouch for the cache. `VersionInv` says that `snapshotVersion` never
passes `dataVersion`, that equal versions mean the cached copy has all that completed calls
reflected, and that while the stamp is being written the copy is the newest state (no writer
can be inside) and the stamp was read no earlier than the copy. `ReaderInv` carries it to a
reader between its two loads and past the locks; `LockInv` is mutual exclusion and what a find
has established; `HistoryInv` ties map, copies and ghosts to `history`. A writer that has
mutated but not bumped is why `visible` and not the newest state is what a print is held to.
There is one lemma for each part of the invariant, with a step per action. The refinement maps
`pc` to the phases of SnapshotStore: each step is one of its steps or a stutter.

`CommandProcessorProofs` proves, from `ConstantsAssumption` alone, `ProcessorInvariant`,
`ProcessorTypeCorrectness`, `EffectsLinearize` (`EffectsAreLinearizable`), `CountsAreEarlier`
(`ClearReportsEarlierCount`), `CommandsUseTheStore` and `CommandsKeepThePromise`. The first lemma is that a step of the processor is a step of NumberStore
or leaves its variables alone (`StoreUnderCommands`): the commands use the store as it may be used, so
`CommandsUseTheStore` carries every theorem about the store over to them. Linearizability needs more
than `StoreInv`, since a reply is made a step or more after the store's call has ended. `ProcessorInv`
says in between what the answer rests on: where a thread is in the store fits its command
(`ControlInv`); a result that is there, in the call or in the reply, is already explained by `history`,
at a place no older than the request (`AnswerInv`); and the change a command has made is its own, at a
place no other command has (`OwnChangeInv`). As history only grows, what explained a result goes on
explaining it, whatever the other threads do. `CountInv` is the like for the count of a delete-all: it is
the size of a map of `history` no older than the request, which later mutations do not change.

`InstancesProofs` proves `OneListener` and `TypeCorrectness` for any number of daemons and
clients. The inductive part: the owner of the lock has a handle, the lock is given only when
no handle exists, and a daemon in its loop is an owner. That the caller of an instance is
known exactly from the open to the hand-over (`CallerInv`) is needed for the types.

`DaemonProofs` proves `TypeCorrectness`, `HandlersLive`, `LimitHolds` and `ServiceStops` for any
number of connections and signals and any limit above zero; it assumes `DaemonAssumption` and
`RequestsAssumption` (Main is no signal, `NoHandler` no connection). The limit is not inductive:
the manager counts with the mutex, accepts without it and pushes later, and erases only what
it finds inactive. The invariant `DaemonInv` therefore says, by parts,
* `LifeInv`: from the accept to the push the newcomer is the manager's and not listed, and has no
  thread until it gets one; a client still waiting for its accept has no thread and is neither listed
  nor the newcomer; and a thread runs on listed handlers or the newcomer only;
* `LateInv`: a connection that has read a request late is between that read and the loop's next look,
  and still to stop: the flag is up or its own `active` is down, which no step takes back together;
* `BoundInv`: at most the limit are active (`Serving`) and at most one more is listed; a place
  found at the count stays free until the push; once the cleanup is over the list is within
  the limit again;
* `CleanupInv`: while a list over the limit is being visited, an inactive handler is still to
  be visited or is being joined, so the cleanup ends with at least one fewer.

The first lemma of the counting part, `ListedFade`, is that a listed connection which is no
longer active never is again: an accept and the start of a thread concern the newcomer only.

`ConversationProofs` proves, for any size of the buffer, any number of entries and requests
(`ConversationAssumption`), `SessionInvariant`, `SessionTypeCorrectness`, `RepliesMatch` and
`SessionServes`, the refinement of RequestReply. That what is shown is the reply asked for is not inductive:
it depends on there being nothing else to read. `SessionInv` says so. `PipesInv` holds in
either mode. By messages, `TurnInv` puts the request in one place - the pipe, the handler,
or nowhere - and its effect before its reply, and `ReplyInv` says that what is in the pipe is the one
reply, whole and headed by the request. A read that fails ends the client's session, which is why a
cut message never makes the next reply wrong. Every step then is the step of RequestReply that `Phase`
names, or a stutter.

`ProtocolProofs` proves the texts right for every number, command, response and numeral and any limits
(`ProtocolAssumption`: an error code fits an int): `CommandsAreReadBack`, `ResponsesAreReadBack`
(but for the newline that ends printed data, which the client drops) and `NumeralsAreAccepted`, that
the Validator accepts the numerals of 1 to `MaxUint` and nothing else. These are inductions, over
numbers and over texts, and the library's induction theorems cannot be cited. They are made from below instead:
a least counterexample (`LeastNumber`, `LeastElement`, from the library's `WFMin`) is refuted, and
`Recursion` shows by the same means that a recursive function exists, so that `DecimalDef` and
`ValueDef` give the equations by which `Decimal` and `Value` are computed.
The readers of words and numbers are then described by what they do to a text in two parts, one
that is read and one that is left.

`CommandLineProofs` proves, for all lines that may be typed (cut off or not), all stores and limits
(`CommandLineAssumption`, `ProtocolAssumption`), `CommandLineInvariant`,
`CommandLineTypeCorrectness`, `DaemonServesWhatWasTyped`, `NoNumeralIsRefused` and
`AnswersReachTheUser`. `CommandLineInv` is what those rest on:
* `InputInv`: a prompt begins at the start of a line, so that the tail of one answer is never the
  next ("4y"); a stream that has failed has nothing left to read;
* `RequestInv`: between choice and answer the command has the type chosen, and what was asked for;
* `PipeInv`: the pipe has the text of that command, then of the daemon's answer to it.

The three theorems of Protocol take it across the pipe. `ChoiceIs` is the other half: a line read as one
of the five choices has that digit as its first but for a sign, spaces and zeros, with any text after it.

**What is only model-checked.** Every invariant, action property and refinement of the passing runs
has a theorem. Left to TLC are the liveness properties - `PrintReturns`,
`StaleSnapshotsAreInvalidated`, `CommandsAreAnswered`, `ShutdownCompletes`,
`ClientsAreNotLeftWaiting`, `AcceptingResumes`, `RequestsEnd`, `ConnectedClientsAreServed`,
`TypedLinesAreRead` - as ENABLED and fairness are out of the prover's reach, and the five violated
ones, of which a counterexample is all there is to show.

## 5. Where the code and its words differ

* `session` - README.md:196 claims consistency across concurrent access. The version is bumped
  after `dataMutex` is released (storage/NumberStore.cxx:32), so a client whose insert was
  refused as a duplicate may print and not see the number. This is also why SnapshotStore
  promises less than linearizability.
* `clear_reply` - "Deleted all numbers (N entries cleared)" (daemon/CommandProcessor.cxx:68):
  N is counted in a call of its own before the clear.
* `daemon_crash` - "Proper cleanup on exit signals" (README.md:16): between
  setupSignalHandlers and registerServer a signal calls `stop` on a null server.
* `conversation_long` - "Read until we find the message terminator"
  (ipc/NamedPipeConnection.cxx:116): a message over 4095 bytes is a failed read and ends the
  session; a store of a few hundred numbers cannot be printed.
* `connect_race` - "Multiple CLI instances can connect to the same daemon simultaneously."
  (README.md:152): one pipe instance is free at a time, and between WaitNamedPipe and CreateFile
  (ipc/NamedPipeConnection.cxx:47-54) another client may take it; the second client's connect
  fails and is not tried again.

Seen while modelling, with no run: an insert's reply reads the clock again
(daemon/CommandProcessor.cxx:38) and may differ from the stored time by a tick; the comment
"non-blocking" at daemon/ConnectionManager.cxx:78 stands before an accept that blocks until a
client comes, so that ended handlers are not reaped meanwhile; `std::exit`
(daemon/DaemonServer.cxx:54) does not wait for replies under way; "not critical"
(ipc/NamedPipeConnection.cxx:75) is said of a failure to set message mode, without which a part
of a print can be taken for the whole and the rest for the next reply; at the end of its input
the client asks on forever (cli/CLIApplication.cxx:212).

## 6. What is not modelled

* Logger and all wording: output only. The log's statics may be destroyed by `std::exit` while
  handlers still log, which is undefined and outside any model of the program's own steps.
* Config: values only; the limit on connections is a constant of Daemon.
* A failure of CreateMutex, which ends a daemon before it has done anything. (One of
  CreateNamedPipe is in Daemon: `BeginAccept`; in Instances it would change nothing.)
* Exceptions: a std::thread or an allocation that fails unwinds to main's catch and ends the
  process through ~DaemonServer.
* Methods without a caller: NumberStore's contains and empty, SnapshotManager's
  invalidateSnapshot, getCurrentVersion and hasValidSnapshot, readExact, isLocked,
  Validator's isValidCommand.

## 7. Plan

The order was: the store and its promise, with proofs; the commands over it; the daemon's
threads; the session and the instances; the texts and the terminal; then the proofs of each. What is
left, most important first:

1. The safety half of the liveness properties, as theorems: that a wait is for a thread that can
   move (who holds a lock is not itself waiting for one of the waiter's; a handler that is joined is on its
   way out), so that fairness is all that stays unproved of them.
2. A promise for Daemon - accept, serve, stop - for Daemon to refine.
3. An Instances in which the session of a served client is that of Conversation.

## Running

In this directory: `tlc -config MCCommands.cfg MCCommandProcessor` (and likewise for the other
configurations; `MCConversation*.cfg`, `MCInstances.cfg` and `MCConnectRace.cfg` are run on
`Conversation` and `Instances` themselves), and `tlapm M.tla` for each
module `M` of proofs: `NumberStoreProofs`, `CommandProcessorProofs`, `DaemonProofs`,
`ConversationProofs`, `ProtocolProofs`, `CommandLineProofs`, `InstancesProofs`.
