---------------------------- MODULE SnapshotStore ----------------------------
(***************************************************************************)
(* What storage/NumberStore promises the threads that call it, without     *)
(* locks, cache or versions: mutations are atomic and totally ordered, and *)
(* a print answers with the whole map as some mutation left it, no older   *)
(* than anything a completed call had reflected when the print began.      *)
(*                                                                         *)
(* The promise is weaker than linearizability: a print may miss a mutation *)
(* that is done but whose call has not returned.                           *)
(***************************************************************************)
EXTENDS Naturals, Sequences

CONSTANTS Threads, Numbers, Timestamps, Absent

VARIABLES
    history,  \* the states of the map, oldest first
    visible,  \* index of the newest state a completed call has reflected
    phase,    \* what each thread is doing
    mine,     \* the index of the mutation a thread has made
    floor,    \* visible, when the print in progress began
    answer    \* what the print in progress answers, and its index

vars == <<history, visible, phase, mine, floor, answer>>

Nothing == [map |-> [n \in Numbers |-> Absent], taken |-> 0]

Init ==
    /\ history = <<Nothing.map>>
    /\ visible = 1
    /\ phase = [t \in Threads |-> "idle"]
    /\ mine = [t \in Threads |-> 0]
    /\ floor = [t \in Threads |-> 0]
    /\ answer = [t \in Threads |-> Nothing]

Move(t, from, to) ==
    /\ phase[t] = from
    /\ phase' = [phase EXCEPT ![t] = to]

\* The map that one insert, remove or clear can make of map.
Mutation(map, new) ==
    \/ \E n \in Numbers, now \in Timestamps :
          map[n] = Absent /\ new = [map EXCEPT ![n] = now]
    \/ \E n \in Numbers : map[n] # Absent /\ new = [map EXCEPT ![n] = Absent]
    \/ new = Nothing.map

Mutate(t) ==
    /\ Move(t, "idle", "mutated")
    /\ \E new \in [Numbers -> Timestamps \cup {Absent}] :
          /\ Mutation(history[Len(history)], new)
          /\ history' = Append(history, new)
    /\ mine' = [mine EXCEPT ![t] = Len(history) + 1]
    /\ UNCHANGED <<visible, floor, answer>>

Raise(i) == visible' = IF visible < i THEN i ELSE visible

CompleteMutation(t) ==
    /\ Move(t, "mutated", "idle")
    /\ Raise(mine[t])
    /\ mine' = [mine EXCEPT ![t] = 0]
    /\ UNCHANGED <<history, floor, answer>>

BeginPrint(t) ==
    /\ Move(t, "idle", "printing")
    /\ floor' = [floor EXCEPT ![t] = visible]
    /\ UNCHANGED <<history, visible, mine, answer>>

AnswerPrint(t) ==
    /\ Move(t, "printing", "answered")
    /\ \E i \in floor[t] .. Len(history) :
          answer' = [answer EXCEPT ![t] = [map |-> history[i], taken |-> i]]
    /\ UNCHANGED <<history, visible, mine, floor>>

CompletePrint(t) ==
    /\ Move(t, "answered", "idle")
    /\ Raise(answer[t].taken)
    /\ floor' = [floor EXCEPT ![t] = 0]
    /\ answer' = [answer EXCEPT ![t] = Nothing]
    /\ UNCHANGED <<history, mine>>

Next ==
    \E t \in Threads :
        \/ Mutate(t)
        \/ CompleteMutation(t)
        \/ BeginPrint(t)
        \/ AnswerPrint(t)
        \/ CompletePrint(t)

Spec == Init /\ [][Next]_vars
=============================================================================
