------------------------------ MODULE ThreadMap ------------------------------
(***************************************************************************)
(* Teide::ThreadMap (Util/ThreadUtils.h): an array with one object for     *)
(* each thread that asks for one. A thread looks for its id in the used    *)
(* part of the array and, if it is not there, takes the next entry with an *)
(* atomic increment and writes its id into it. There is no lock.           *)
(*                                                                         *)
(* Every entry starts with the id of the thread that constructs the map.   *)
(* In Teide that is the application's thread, which only calls LockAll;    *)
(* LockCurrent is called by the workers. An id that is read while its      *)
(* owner writes it is a data race: the reader gets the old id or the new.  *)
(***************************************************************************)
EXTENDS Integers, FiniteSets

CONSTANTS
    Threads,            \* the threads that call LockCurrent
    Constructor,        \* the thread that constructed the map
    Capacity            \* m_entries.size(), the constructor's threadCount

ASSUME ThreadMapAssumption ==
    /\ IsFiniteSet(Threads)
    /\ Constructor \notin Threads
    /\ Capacity \in Nat

Entries == 1..Capacity
None == 0

VARIABLES
    size,               \* m_size
    ids,                \* the first component of each of m_entries
    place,              \* where each thread is in LockCurrent
    usedEntries,        \* usedEntries.size(), as each thread has read it
    position,           \* how many of them each thread has looked at
    index,              \* the entry each thread has found or taken
    entryOf             \* history: the entry each thread was given first

mapVars == <<size, ids, place, usedEntries, position, index, entryOf>>

MapTypeOK ==
    /\ size \in Nat
    /\ ids \in [Entries -> Threads \cup {Constructor}]
    /\ place \in [Threads -> {"idle", "find", "claim", "store", "undo", "using"}]
    /\ usedEntries \in [Threads -> 0..Capacity]
    /\ position \in [Threads -> 0..Capacity]
    /\ index \in [Threads -> Nat]
    /\ entryOf \in [Threads -> 0..Capacity]

MapInit ==
    /\ size = 0
    /\ ids = [i \in Entries |-> Constructor]
    /\ place = [t \in Threads |-> "idle"]
    /\ usedEntries = [t \in Threads |-> 0]
    /\ position = [t \in Threads |-> 0]
    /\ index = [t \in Threads |-> None]
    /\ entryOf = [t \in Threads |-> None]

------------------------------------------------------------------------------
(* GetCurrentObject *)

\* Mutant: the last used entry is left out.
UsedButLast == IF size <= Capacity /\ size > 0 THEN size - 1 ELSE Capacity

\* std::min(m_size.load(), m_entries.size())
Used == IF size < Capacity THEN size ELSE Capacity

LoadSize(t) ==
    /\ place[t] = "idle"
    /\ place' = [place EXCEPT ![t] = "find"]
    /\ usedEntries' = [usedEntries EXCEPT ![t] = Used]
    /\ position' = [position EXCEPT ![t] = 0]
    /\ UNCHANGED <<size, ids, index, entryOf>>

\* std::ranges::find looks at one more entry.
Find(t) ==
    /\ place[t] = "find"
    /\ position[t] < usedEntries[t]
    /\ position' = [position EXCEPT ![t] = @ + 1]
    /\ IF ids[position[t] + 1] = t
       THEN /\ place' = [place EXCEPT ![t] = "using"]
            /\ index' = [index EXCEPT ![t] = position[t] + 1]
       ELSE UNCHANGED <<place, index>>
    /\ UNCHANGED <<size, ids, usedEntries, entryOf>>

NotFound(t) ==
    /\ place[t] = "find"
    /\ position[t] = usedEntries[t]
    /\ place' = [place EXCEPT ![t] = "claim"]
    /\ UNCHANGED <<size, ids, usedEntries, position, index, entryOf>>

\* Mutant: the increment is lost.
IncrementLost == size' = size

Increment == size' = size + 1

\* m_size.fetch_add(1), and the test against the capacity.
FetchAdd(t) ==
    /\ place[t] = "claim"
    /\ Increment
    /\ index' = [index EXCEPT ![t] = size + 1]
    /\ place' = [place EXCEPT ![t] = IF size + 1 > Capacity THEN "undo" ELSE "store"]
    /\ UNCHANGED <<ids, usedEntries, position, entryOf>>

\* --m_size, and the std::length_error leaves LockCurrent.
Undo(t) ==
    /\ place[t] = "undo"
    /\ size' = size - 1
    /\ place' = [place EXCEPT ![t] = "idle"]
    /\ index' = [index EXCEPT ![t] = None]
    /\ UNCHANGED <<ids, usedEntries, position, entryOf>>

\* The id is written, and the entry is this thread's from now on.
StoreId(t) ==
    /\ place[t] = "store"
    /\ ids' = [ids EXCEPT ![index[t]] = t]
    /\ place' = [place EXCEPT ![t] = "using"]
    /\ entryOf' = [entryOf EXCEPT ![t] = index[t]]
    /\ UNCHANGED <<size, usedEntries, position, index>>

\* The callable has been invoked with the entry's object.
Return(t) ==
    /\ place[t] = "using"
    /\ place' = [place EXCEPT ![t] = "idle"]
    /\ index' = [index EXCEPT ![t] = None]
    /\ UNCHANGED <<size, ids, usedEntries, position, entryOf>>

MapNext ==
    \E t \in Threads :
        \/ LoadSize(t)
        \/ Find(t)
        \/ NotFound(t)
        \/ FetchAdd(t)
        \/ Undo(t)
        \/ StoreId(t)
        \/ Return(t)

MapSpec == MapInit /\ [][MapNext]_mapVars

------------------------------------------------------------------------------
(* Properties *)

\* Two threads never use one object at the same time, which is all that
\* keeps command pools and descriptor pools from being used by two workers.
ObjectsAreExclusive ==
    \A t, u \in Threads : place[t] = "using" /\ place[u] = "using" /\ index[t] = index[u] => t = u

\* A thread gets the same object every time: it finds the id it wrote,
\* although it reads the size before it searches and others register meanwhile.
SameObjectEachTime ==
    \A t \in Threads : place[t] = "using" => index[t] = entryOf[t]

\* The entry a thread has registered for, or is about to.
Holds(t, i) == entryOf[t] = i \/ (place[t] = "store" /\ index[t] = i)

\* The length_error is thrown only when every entry is another thread's: never
\* to a thread that has an entry, nor because of threads that failed before
\* and have not yet undone their increment.
ThrowsOnlyWhenFull ==
    \A t \in Threads : place[t] = "undo" =>
        /\ entryOf[t] = None
        /\ \A i \in Entries : \E u \in Threads \ {t} : Holds(u, i)

==============================================================================
