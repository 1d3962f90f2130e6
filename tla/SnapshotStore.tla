--------------------------- MODULE SnapshotStore ---------------------------
(***************************************************************************)
(* What a StateStore (routes/state/StateStore.ts:8-11) promises its caller: *)
(* a map that reads its own writes while the process lives, and a durable   *)
(* copy that is always the whole map as it was after some write, never a    *)
(* mixture of two.  A write may fail to reach the copy; the next process    *)
(* resumes from the copy, or from nothing when it cannot be read.           *)
(***************************************************************************)
CONSTANTS
    Keys,      \* the locations with a budget
    States,    \* the states stored for them
    NoState    \* undefined

VARIABLES
    up,        \* the process has its map
    mem,       \* the map
    disk       \* the map the next process would load

snapshotVars == <<up, mem, disk>>

Snapshots == [Keys -> States \cup {NoState}]
Empty == [k \in Keys |-> NoState]

SnapshotTypeOK ==
    /\ up \in BOOLEAN
    /\ mem \in Snapshots
    /\ disk \in Snapshots

SnapshotInit ==
    /\ up = FALSE
    /\ mem = Empty
    /\ disk = Empty

Start ==
    /\ ~up
    /\ up' = TRUE
    /\ mem' \in {disk, Empty}
    /\ UNCHANGED disk

\* A set call.  The caller sees the new value at once; the copy either becomes
\* the whole new map or stays as it was.
Put(k, s) ==
    /\ up
    /\ mem' = [mem EXCEPT ![k] = s]
    /\ disk' \in {disk, mem'}
    /\ UNCHANGED up

\* The copy catches up with the map.
Flush ==
    /\ up
    /\ disk' = mem
    /\ UNCHANGED <<up, mem>>

Stop ==
    /\ up' = FALSE
    /\ mem' = Empty
    /\ UNCHANGED disk

SnapshotNext ==
    \/ Start
    \/ \E k \in Keys, s \in States : Put(k, s)
    \/ Flush
    \/ Stop

SnapshotSpec == SnapshotInit /\ [][SnapshotNext]_snapshotVars
============================================================================
